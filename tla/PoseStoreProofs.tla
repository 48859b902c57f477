-------------------------- MODULE PoseStoreProofs --------------------------
(***************************************************************************)
(* What the pose graph memory keeps as a whole, for any users, poses,      *)
(* saved states, size of a graph and number of faults: pictures and nodes  *)
(* go together as long as nothing fails, and every operation, made of its  *)
(* steps on the disk, is one step of MemoryStore.                          *)
(***************************************************************************)
EXTENDS PoseMemoryProofs

\* The operation under way.
Operation == IF job = Idle THEN "none" ELSE job.op

-----------------------------------------------------------------------------
(* The job *)

LEMMA JobKinds ==
  ASSUME IInv
  PROVE  /\ job = Idle <=> Operation = "none"
         /\ job = Idle <=> job.at = "idle"
         /\ job # Idle => job.user \in Users
         /\ Operation \in {"none", "add", "reset", "save", "load"}
         /\ Operation = "add" <=> Adding
         /\ Operation = "reset" <=> Resetting
         /\ Operation = "save" <=> Saving
         /\ Operation = "load" <=> Loading
         /\ Operation \in {"save", "load"} => job.name \in Names
<1>1. Idle.at = "idle"
  BY DEF Idle
<1>2. Adding => job.op = "add" /\ job.at \in {"remove_node", "save_image", "truncate", "dump"} /\ job.user \in Users
  BY DEF Adding, AddJobs
<1>3. Resetting => job.op = "reset" /\ job.at \in ResetAts /\ job.user \in Users
  BY DEF Resetting, Jobs
<1>4. Saving => job.op = "save" /\ job.at \in SaveAts /\ job.user \in Users /\ job.name \in Names
  BY DEF Saving, Jobs
<1>5. Loading => job.op = "load" /\ job.at \in LoadAts /\ job.user \in Users /\ job.name \in Names
  BY DEF Loading, Jobs
<1>6. Adding \/ Resetting \/ Saving \/ Loading => job.at # "idle"
  BY <1>2, <1>3, <1>4, <1>5 DEF ResetAts, SaveAts, LoadAts
<1>7. job = Idle \/ Adding \/ Resetting \/ Saving \/ Loading
  BY DEF IInv, JobOK
<1> QED
  BY <1>1, <1>2, <1>3, <1>4, <1>5, <1>6, <1>7 DEF Operation

\* Where a job is tells the operation.
LEMMA OperationAt ==
  ASSUME IInv
  PROVE  /\ job.at \in {"remove_node", "save_image"} => Operation = "add"
         /\ job.at \in SaveAts <=> Operation = "save"
         /\ job.at \in {"open_graph", "restore_graph", "clear_images", "restore_images", "loaded"}
              => Operation = "load"
         /\ job.at \in {"truncate", "dump"} => Operation \in {"add", "reset", "load"}
         /\ job.at = "clear" => Operation \in {"reset", "load"}
         /\ Operation = "add" => job.at \in {"remove_node", "save_image", "truncate", "dump"}
         /\ Operation = "reset" => job.at \in ResetAts
         /\ Operation = "load" => job.at \in LoadAts
<1>1. Adding => job.at \in {"remove_node", "save_image", "truncate", "dump"}
  BY DEF Adding, AddJobs
<1>2. Resetting => job.at \in ResetAts
  BY DEF Resetting, Jobs
<1>3. Saving => job.at \in SaveAts
  BY DEF Saving, Jobs
<1>4. Loading => job.at \in LoadAts
  BY DEF Loading, Jobs
<1> QED
  BY <1>1, <1>2, <1>3, <1>4, WhichJob, JobKinds DEF IInv, SaveAts, ResetAts, LoadAts

\* A step within an operation.
LEMMA Going ==
  ASSUME IInv, IInv', job # Idle, NEW at, at # "idle", Goto(at)
  PROVE  /\ job' # Idle /\ job'.at = at /\ Operation' = Operation
         /\ job'.user = job.user /\ job'.was = job.was
         /\ Operation = "add" => job'.node = job.node
         /\ Operation # "add" => job'.name = job.name
<1>1. job' = [job EXCEPT !.at = at]
  BY DEF Goto
<1>2. \/ job \in AddJobs(job.was)
      \/ \E op, ats, names : job \in Jobs(op, ats, names, job.was)
  BY DEF IInv, JobOK, Adding, Resetting, Saving, Loading
<1>3. job'.at = at /\ job'.user = job.user /\ job'.was = job.was /\ job'.op = job.op
  BY <1>1, <1>2 DEF AddJobs, Jobs
<1>4. job' # Idle
  BY <1>3 DEF Idle
<1>5. Operation' = Operation
  BY <1>3, <1>4 DEF Operation
<1>6. Operation = "add" => job \in AddJobs(job.was)
  BY JobKinds DEF Adding
<1>7. Operation # "add" => \E op, ats, names : job \in Jobs(op, ats, names, job.was)
  BY JobKinds DEF Resetting, Saving, Loading
<1>8. Operation = "add" => job'.node = job.node
  BY <1>1, <1>6 DEF AddJobs
<1>9. Operation # "add" => job'.name = job.name
  BY <1>1, <1>7 DEF Jobs
<1> QED
  BY <1>3, <1>4, <1>5, <1>8, <1>9

LEMMA Ending == ASSUME Finish PROVE job' = Idle /\ Operation' = "none"
  BY DEF Finish, Operation

\* A job that begins.
LEMMA Beginning ==
  ASSUME NEW op, NEW at, at # "idle", NEW u, NEW s, NEW by, Starts(op, at, u, s, by)
  PROVE  /\ job' # Idle /\ job'.at = at /\ Operation' = op
         /\ job'.user = u /\ job'.name = s /\ job'.was = Stored
<1> DEFINE was == Stored
<1>1. job' = [op |-> op, at |-> at, user |-> u, name |-> s, by |-> by, was |-> was]
  BY DEF Starts
<1> HIDE DEF was
<1>2. job'.at = at /\ job'.op = op /\ job'.user = u /\ job'.name = s /\ job'.was = was
  BY <1>1
<1>3. job' # Idle
  BY <1>2 DEF Idle
<1> QED
  BY <1>2, <1>3 DEF Operation, was

LEMMA BeginningToAdd ==
  ASSUME NEW at, at # "idle", NEW u, NEW node, NEW victim, NEW faded, Adds(at, u, node, victim, faded)
  PROVE  /\ job' # Idle /\ job'.at = at /\ Operation' = "add"
         /\ job'.user = u /\ job'.node = node /\ job'.was = Stored
<1> DEFINE was == Stored
<1>1. job' = [op |-> "add", at |-> at, user |-> u, node |-> node, victim |-> victim,
              faded |-> faded, was |-> was]
  BY DEF Adds
<1> HIDE DEF was
<1>2. job'.at = at /\ job'.op = "add" /\ job'.user = u /\ job'.node = node /\ job'.was = was
  BY <1>1
<1>3. job' # Idle
  BY <1>2 DEF Idle
<1> QED
  BY <1>2, <1>3 DEF Operation, was

-----------------------------------------------------------------------------
(* Graphs and their pictures *)

LEMMA RemovedElements ==
  ASSUME NEW S, NEW s \in Seq(S), NEW i \in 1..Len(s)
  PROVE  /\ RemoveAt(s, i) \in Seq(S) /\ Len(RemoveAt(s, i)) = Len(s) - 1
         /\ \A j \in 1..(Len(s) - 1) : RemoveAt(s, i)[j] = IF j < i THEN s[j] ELSE s[j + 1]
<1>1. RemoveAt(s, i) \in Seq(S) /\ Len(RemoveAt(s, i)) = Len(s) - 1
  BY RemovedIsShorter
<1>2. Len(s) \in Nat /\ i \in Nat /\ i >= 1 /\ i <= Len(s)
  BY LenProperties
<1> DEFINE before == SubSeq(s, 1, i - 1)
           after  == SubSeq(s, i + 1, Len(s))
<1>3. /\ before \in Seq(S) /\ Len(before) = i - 1
      /\ \A j \in 1..(i - 1) : before[j] = s[j]
  <2>1. \A j \in 1..(i - 1) : s[j] \in S
    BY <1>2, ElementOfSeq
  <2> QED
    BY <1>2, <2>1, SubSeqProperties
<1>4. /\ after \in Seq(S) /\ Len(after) = Len(s) - i
      /\ \A j \in 1..(Len(s) - i) : after[j] = s[i + j]
  <2>1. \A j \in (i + 1)..Len(s) : s[j] \in S
    BY <1>2, ElementOfSeq
  <2>2. i + 1 \in 1..(Len(s) + 1) /\ Len(s) \in i..Len(s)
    BY <1>2
  <2>3. /\ after \in Seq(S)
        /\ Len(after) = IF i + 1 <= Len(s) THEN Len(s) - (i + 1) + 1 ELSE 0
        /\ \A j \in 1..(Len(s) - (i + 1) + 1) : after[j] = s[(i + 1) + j - 1]
    BY <1>2, <2>1, <2>2, SubSeqProperties
  <2> HIDE DEF after
  <2> QED
    BY <1>2, <2>3
<1>5. RemoveAt(s, i) = before \o after
  BY DEF RemoveAt
<1> HIDE DEF before, after
<1>6. \A j \in 1..(Len(before) + Len(after)) :
        (before \o after)[j] = IF j <= Len(before) THEN before[j] ELSE after[j - Len(before)]
  BY <1>3, <1>4, ConcatProperties
<1>7. ASSUME NEW j \in 1..(Len(s) - 1)
      PROVE  RemoveAt(s, i)[j] = IF j < i THEN s[j] ELSE s[j + 1]
  <2>1. RemoveAt(s, i)[j] = IF j <= i - 1 THEN before[j] ELSE after[j - (i - 1)]
    BY <1>2, <1>3, <1>4, <1>5, <1>6
  <2>2. CASE j < i
    BY <1>2, <1>3, <2>1, <2>2
  <2>3. CASE ~(j < i)
    <3>1. j - (i - 1) \in 1..(Len(s) - i) /\ i + (j - (i - 1)) = j + 1
      BY <1>2, <2>3
    <3> QED
      BY <1>2, <1>4, <2>1, <2>3, <3>1
  <2> QED
    BY <2>2, <2>3
<1> QED
  BY <1>1, <1>7

\* A graph whose nodes have each a picture of their own, and those are the
\* pictures in a directory.
Whole(graph, dir) ==
  /\ ImagesOf(graph) = In(dir)
  /\ \A i, j \in DOMAIN graph : graph[i].image = graph[j].image => i = j

LEMMA InDirectory == \A dir \in SUBSET Images : In(dir) = dir
  BY AbsentAssumption DEF In

LEMMA EmptyIsWhole == ASSUME NEW dir, In(dir) = {} PROVE Whole(<<>>, dir)
<1>1. DOMAIN <<>> = {}
  OBVIOUS
<1>2. ImagesOf(<<>>) = {}
  BY <1>1 DEF ImagesOf
<1> QED
  BY <1>1, <1>2 DEF Whole

LEMMA RemovedIsWhole ==
  ASSUME NEW graph \in Small, NEW i \in DOMAIN graph, NEW dir, Whole(graph, dir),
         NEW rest \in SUBSET Images, rest = In(dir) \ {graph[i].image}
  PROVE  Whole(RemoveAt(graph, i), rest)
<1> DEFINE left == RemoveAt(graph, i)
<1>1. graph \in Seq(Taken) /\ Len(graph) \in Nat /\ DOMAIN graph = 1..Len(graph) /\ i \in 1..Len(graph)
  BY LenProperties DEF Small
<1>2. /\ DOMAIN left = 1..(Len(graph) - 1)
      /\ \A j \in 1..(Len(graph) - 1) : left[j] = IF j < i THEN graph[j] ELSE graph[j + 1]
  <2>1. left \in Seq(Taken) /\ Len(left) = Len(graph) - 1
    BY <1>1, RemovedElements
  <2> QED
    BY <1>1, <2>1, RemovedElements, LenProperties
<1> HIDE DEF left
<1>3. \A j \in DOMAIN left : /\ (IF j < i THEN j ELSE j + 1) \in DOMAIN graph \ {i}
                             /\ left[j] = graph[IF j < i THEN j ELSE j + 1]
  BY <1>1, <1>2
<1>4. \A k \in DOMAIN graph \ {i} : /\ (IF k < i THEN k ELSE k - 1) \in DOMAIN left
                                    /\ left[IF k < i THEN k ELSE k - 1] = graph[k]
  BY <1>1, <1>2
<1>5. \A j, k \in DOMAIN graph : graph[j].image = graph[k].image => j = k
  BY DEF Whole
<1>6. ImagesOf(left) = rest
  <2>1. ASSUME NEW j \in DOMAIN left PROVE left[j].image \in rest
    <3>1. PICK k \in DOMAIN graph \ {i} : left[j] = graph[k]
      BY <1>3
    <3> QED
      BY <3>1, <1>5 DEF Whole, ImagesOf
  <2>2. ASSUME NEW x \in rest PROVE \E j \in DOMAIN left : x = left[j].image
    <3>1. PICK k \in DOMAIN graph : x = graph[k].image
      BY DEF Whole, ImagesOf
    <3>2. k # i
      BY <3>1
    <3> QED
      BY <1>4, <3>1, <3>2
  <2> QED
    BY <2>1, <2>2 DEF ImagesOf
<1>7. ASSUME NEW j \in DOMAIN left, NEW k \in DOMAIN left, left[j].image = left[k].image PROVE j = k
  <2>1. (IF j < i THEN j ELSE j + 1) = (IF k < i THEN k ELSE k + 1)
    BY <1>3, <1>5, <1>7
  <2> QED
    BY <1>1, <1>2, <2>1
<1>8. In(rest) = rest
  BY InDirectory
<1> QED
  BY <1>6, <1>7, <1>8 DEF Whole, left

LEMMA AppendedIsWhole ==
  ASSUME NEW graph \in Small, NEW dir, Whole(graph, dir), NEW n \in Nodes, n.image \notin In(dir),
         NEW more \in SUBSET Images, more = In(dir) \cup {n.image}
  PROVE  Whole(Append(graph, n), more)
<1> DEFINE longer == Append(graph, n)
<1>1. graph \in Seq(Nodes) /\ Len(graph) \in Nat /\ DOMAIN graph = 1..Len(graph)
  <2>1. graph \in Seq(Taken) /\ Taken \subseteq Nodes
    BY DEF Small, Taken
  <2> QED
    BY <2>1, LenProperties, SeqMonotonic
<1>2. /\ DOMAIN longer = 1..(Len(graph) + 1)
      /\ longer[Len(graph) + 1] = n
      /\ \A j \in 1..Len(graph) : longer[j] = graph[j]
  <2>1. longer \in Seq(Nodes) /\ Len(longer) = Len(graph) + 1
    BY <1>1, AppendProperties
  <2> QED
    BY <1>1, <2>1, AppendProperties, LenProperties
<1> HIDE DEF longer
<1>3. \A j \in DOMAIN graph : graph[j].image \in In(dir)
  BY DEF Whole, ImagesOf
<1>4. ImagesOf(longer) = more
  <2>1. \A j \in DOMAIN longer : longer[j].image \in more
    BY <1>1, <1>2, <1>3
  <2>2. ASSUME NEW x \in more PROVE \E j \in DOMAIN longer : x = longer[j].image
    <3>1. CASE x = n.image
      BY <1>1, <1>2, <3>1
    <3>2. CASE x \in In(dir)
      BY <1>1, <1>2, <3>2 DEF Whole, ImagesOf
    <3> QED
      BY <3>1, <3>2
  <2> QED
    BY <2>1, <2>2 DEF ImagesOf
<1>5. ASSUME NEW j \in DOMAIN longer, NEW k \in DOMAIN longer, longer[j].image = longer[k].image PROVE j = k
  <2>1. CASE j \in DOMAIN graph /\ k \in DOMAIN graph
    BY <1>1, <1>2, <1>5, <2>1 DEF Whole
  <2>2. CASE j \notin DOMAIN graph /\ k \notin DOMAIN graph
    BY <1>1, <1>2, <2>2
  <2>3. CASE (j \in DOMAIN graph) # (k \in DOMAIN graph)
    BY <1>1, <1>2, <1>3, <1>5, <2>3
  <2> QED
    BY <2>1, <2>2, <2>3
<1>6. In(more) = more
  BY InDirectory
<1> QED
  BY <1>4, <1>5, <1>6 DEF Whole, longer

-----------------------------------------------------------------------------
(* What holds of a user and of a saved state while nothing has failed *)

Kept(u) == /\ graphFile[u] # Torn
           /\ UserGraph(u) = Unpickle(graphFile[u])
           /\ files[u] # Absent => graphFile[u] # Absent
           /\ Whole(UserGraph(u), files[u])

KeptState(s) == saved[s] # Absent =>
  /\ saved[s].graph # Torn
  /\ saved[s].images # Absent => saved[s].graph # Absent
  /\ Whole(Unpickle(saved[s].graph), saved[s].images)

\* The users whose graphs and pictures no operation is changing.
Untouched(u) == Operation \in {"none", "save"} \/ job.user # u

AddMatch == Operation = "add" =>
  /\ job.at = "remove_node" => Kept(job.user)
  /\ Whole(graphs[job.user], files[job.user])
  /\ job.at \in {"remove_node", "save_image"} => job.node.image \notin In(files[job.user])

ClearMatch == Operation \in {"reset", "load"} =>
  /\ job.at \in {"truncate", "dump", "clear", "open_graph", "restore_graph"} => graphs[job.user] = <<>>
  /\ job.at = "clear" => graphFile[job.user] = <<>>
  /\ job.at \in {"open_graph", "restore_graph"} => In(files[job.user]) = {}

SaveMatch == Operation = "save" =>
  /\ job.at \in {"create_copy", "write_copy"} =>
       graphFile[job.user] # Absent /\ saved[job.name].images = Absent
  /\ job.at = "copy_images" => /\ graphFile[job.user] # Absent
                               /\ saved[job.name].graph = graphFile[job.user]
                               /\ In(saved[job.name].images) \subseteq In(files[job.user])

LoadMatch == Operation = "load" =>
  /\ job.at \in {"truncate", "dump", "clear", "open_graph", "restore_graph"} => HasGraph(job.user, job.name)
  /\ job.at \in {"clear_images", "restore_images"} =>
       /\ graphFile[job.user] = saved[job.name].graph /\ graphFile[job.user] # Absent
       /\ graphs[job.user] = Unpickle(graphFile[job.user])
  /\ job.at = "restore_images" => In(files[job.user]) \subseteq In(saved[job.name].images)
  /\ job.at = "loaded" => Kept(job.user)

\* As long as nothing has failed.
UsersMatch  == \A u \in Users : Untouched(u) => Kept(u)
StatesMatch == \A s \in Names : Operation # "save" \/ job.name # s => KeptState(s)
JobMatch    == AddMatch /\ ClearMatch /\ SaveMatch /\ LoadMatch

Matches     == UsersMatch /\ StatesMatch /\ JobMatch

MatchInv == faults = 0 => Matches

\* A step before which nothing has failed and in which nothing does.
SmoothStep == IInv /\ IInv' /\ Matches /\ faults = 0 /\ faults' = 0

LEMMA NoFault == ASSUME faults = 0, faults' = 0 PROVE ~Fault
  BY DEF Fault

LEMMA KeptStays ==
  ASSUME NEW u, Kept(u), graphs'[u] = graphs[u], graphFile'[u] = graphFile[u], files'[u] = files[u]
  PROVE  Kept(u)'
  BY DEF Kept, UserGraph

LEMMA KeptStateStays ==
  ASSUME NEW s, KeptState(s), saved'[s] = saved[s]
  PROVE  KeptState(s)'
  BY DEF KeptState

\* A step of an operation disturbs no user but its own.
LEMMA UsersMatchStays ==
  ASSUME UsersMatch, NEW u \in Users, u = job.user,
         \A v \in Users \ {u} : /\ graphs'[v] = graphs[v] /\ graphFile'[v] = graphFile[v]
                                /\ files'[v] = files[v],
         Untouched(u)' => Kept(u)'
  PROVE  UsersMatch'
<1> SUFFICES ASSUME NEW v \in Users, Untouched(v)' PROVE Kept(v)'
  BY DEF UsersMatch
<1>1. CASE v = u
  BY <1>1
<1>2. CASE v # u
  BY <1>2, KeptStays DEF UsersMatch, Untouched
<1> QED
  BY <1>1, <1>2

LEMMA StatesMatchStays ==
  ASSUME StatesMatch, UNCHANGED saved, Operation # "save"
  PROVE  StatesMatch'
  BY KeptStateStays DEF StatesMatch

\* An operation that has ended asks nothing of the job.
LEMMA EndedMatches == ASSUME Operation' \notin {"add", "reset", "load", "save"} PROVE JobMatch'
  BY DEF JobMatch, AddMatch, ClearMatch, SaveMatch, LoadMatch

-----------------------------------------------------------------------------
(* A pose image, while nothing fails *)

LEMMA LoadedKept ==
  ASSUME StoresOK, NEW u \in Users, Loads(u), UNCHANGED <<graphFile, files>>, NEW v \in Users, Kept(v)
  PROVE  Kept(v)'
<1>1. graphs' = [graphs EXCEPT ![u] = UserGraph(u)] /\ UserGraph(u) \in Small
  BY UserGraphIsSmall DEF Loads
<1>2. UserGraph(u) # Absent
  BY <1>1, SmallIsNeither
<1>3. CASE v = u
  <2>1. graphs'[u] = UserGraph(u)
    BY <1>1 DEF StoresOK
  <2>2. UserGraph(u)' = UserGraph(u)
    BY <1>2, <2>1 DEF UserGraph
  <2> QED
    BY <1>3, <2>2 DEF Kept
<1>4. CASE v # u
  BY <1>1, <1>4, KeptStays DEF StoresOK
<1> QED
  BY <1>3, <1>4

LEMMA PoseImageMatches ==
  ASSUME SmoothStep, NEW u \in Users, NEW p \in Visits[u], PoseImage(u, p)
  PROVE  Matches'
<1> DEFINE image == CHOOSE i \in NewNames(u, p) : TRUE
           node == [place |-> p, image |-> image]
<1>1. image \in NewNames(u, p) /\ Loads(u) /\ UNCHANGED <<graphFile, files, saved>> /\ job = Idle
  BY DEF PoseImage
<1>2. image \notin In(files[u])
  BY <1>1 DEF NewNames, InUse
<1>3. Operation = "none"
  BY <1>1 DEF Operation
<1>4. PICK at \in {"save_image", "remove_node"} :
        \E victim, faded : Adds(at, u, node, victim, faded)
  BY DEF PoseImage
<1> HIDE DEF node, image
<1>5. /\ job'.at = at /\ Operation' = "add" /\ job'.user = u /\ job'.node = node
  BY <1>4, BeginningToAdd
<1>6. \A v \in Users : Kept(v)'
  BY <1>1, <1>3, LoadedKept DEF SmoothStep, Matches, UsersMatch, Untouched, IInv
<1>7. UsersMatch' /\ StatesMatch'
  BY <1>1, <1>3, <1>6, StatesMatchStays DEF UsersMatch, SmoothStep, Matches
<1>8. Whole(graphs'[u], files'[u])
  <2>1. graphs'[u] = UserGraph(u)
    BY <1>1 DEF Loads, SmoothStep, IInv, StoresOK
  <2>2. Whole(UserGraph(u), files[u])
    BY <1>3 DEF SmoothStep, Matches, UsersMatch, Untouched, Kept
  <2> QED
    BY <1>1, <2>1, <2>2
<1>9. node.image \notin In(files'[u])
  BY <1>1, <1>2 DEF node
<1>10. Kept(u)'
  BY <1>6
<1>11. AddMatch'
  BY <1>5, <1>8, <1>9, <1>10 DEF AddMatch, Kept, UserGraph
<1>12. JobMatch'
  BY <1>5, <1>11 DEF JobMatch, ClearMatch, SaveMatch, LoadMatch
<1> QED
  BY <1>7, <1>12 DEF Matches

LEMMA GetUserGraphMatches ==
  ASSUME SmoothStep, NEW u \in Users, GetUserGraph(u)
  PROVE  Matches'
<1>1. Loads(u) /\ UNCHANGED <<graphFile, files, saved, job>> /\ Operation = "none"
  BY DEF GetUserGraph, Operation
<1>2. \A v \in Users : Kept(v)'
  BY <1>1, LoadedKept DEF SmoothStep, Matches, UsersMatch, Untouched, IInv
<1>3. Operation' = "none"
  BY <1>1 DEF Operation
<1> QED
  BY <1>1, <1>2, <1>3, StatesMatchStays, EndedMatches DEF SmoothStep, Matches, UsersMatch

\* What an addition finds.
LEMMA AddingFinds ==
  ASSUME SmoothStep, Operation = "add"
  PROVE  /\ job # Idle /\ job.user \in Users /\ graphs[job.user] \in Small
         /\ Whole(graphs[job.user], files[job.user])
         /\ job.node \in [place : Places, image : Images] /\ job.node.image[1] = job.node.place
         /\ job.at = "remove_node" => job.victim \in DOMAIN graphs[job.user]
<1>1. Adding
  BY JobKinds DEF SmoothStep
<1> QED
  BY <1>1, JobKinds DEF Adding, AddJobs, SmoothStep, Matches, JobMatch, AddMatch

LEMMA RemoveNodeMatches == ASSUME SmoothStep, RemoveNode PROVE Matches'
<1> DEFINE u == job.user
           victim == graphs[u][job.victim].image
<1>1. Operation = "add" /\ job.at = "remove_node" /\ UNCHANGED <<graphFile, saved>>
  BY OperationAt DEF SmoothStep, RemoveNode
<1>2. /\ job # Idle /\ u \in Users /\ graphs[u] \in Small /\ Whole(graphs[u], files[u])
      /\ job.victim \in DOMAIN graphs[u]
  BY <1>1, AddingFinds
<1>3. /\ job' # Idle /\ job'.at = "save_image" /\ Operation' = "add"
      /\ job'.user = u /\ job'.node = job.node
  BY <1>1, <1>2, Going DEF RemoveNode, SmoothStep
<1>4. /\ graphs' = [graphs EXCEPT ![u] = RemoveAt(graphs[u], job.victim)]
      /\ files' = [files EXCEPT ![u] = IF files[u] = Absent THEN Absent ELSE files[u] \ {victim}]
  BY NoFault DEF RemoveNode, SmoothStep
<1>5. victim \in In(files[u])
  BY <1>2 DEF Whole, ImagesOf
<1>6. files[u] \in SUBSET Images /\ In(files[u]) = files[u]
  BY <1>2, <1>5, InDirectory DEF In, SmoothStep, IInv, StoresOK
<1>7. graphs'[u] = RemoveAt(graphs[u], job.victim) /\ files'[u] = files[u] \ {victim}
  BY <1>2, <1>4, <1>6, AbsentAssumption DEF SmoothStep, IInv, StoresOK
<1>8. Whole(RemoveAt(graphs[u], job.victim), files[u] \ {victim})
  BY <1>2, <1>6, RemovedIsWhole
<1>9. job.node.image \notin In(files'[u])
  <2>1. job.node.image \notin files[u]
    BY <1>1, <1>6 DEF SmoothStep, Matches, JobMatch, AddMatch
  <2> QED
    BY <1>6, <1>7, <2>1, InDirectory
<1>10. \A v \in Users \ {u} : /\ graphs'[v] = graphs[v] /\ graphFile'[v] = graphFile[v]
                              /\ files'[v] = files[v]
  BY <1>1, <1>4 DEF SmoothStep, IInv, StoresOK
<1>11. UsersMatch' /\ StatesMatch'
  <2>1. \A v \in Users : v = u => ~Untouched(v)'
    BY <1>3 DEF Untouched
  <2> QED
    BY <1>1, <1>2, <1>10, <2>1, UsersMatchStays, StatesMatchStays DEF SmoothStep, Matches
<1>12. JobMatch'
  BY <1>3, <1>7, <1>8, <1>9 DEF JobMatch, AddMatch, ClearMatch, SaveMatch, LoadMatch
<1> QED
  BY <1>11, <1>12 DEF Matches

LEMMA SaveImageMatches == ASSUME SmoothStep, SaveImage PROVE Matches'
<1> DEFINE u == job.user
           image == job.node.image
<1>1. Operation = "add" /\ job.at = "save_image" /\ UNCHANGED <<graphFile, saved>>
  BY OperationAt DEF SmoothStep, SaveImage
<1>2. /\ job # Idle /\ u \in Users /\ graphs[u] \in Small /\ Whole(graphs[u], files[u])
      /\ job.node \in [place : Places, image : Images]
  BY <1>1, AddingFinds
<1>3. /\ files' = [files EXCEPT ![u] = In(files[u]) \cup {image}]
      /\ graphs' = [graphs EXCEPT ![u] = Append(graphs[u], [job.node EXCEPT !.image = image])]
  BY NoFault DEF SaveImage, AddsNode, SmoothStep
<1>4. /\ job' # Idle /\ job'.at = "truncate" /\ Operation' = "add" /\ job'.user = u
  <2>1. Goto("truncate")
    BY NoFault DEF SaveImage, SmoothStep
  <2> QED
    BY <1>1, <1>2, <2>1, Going DEF SmoothStep
<1>5. [job.node EXCEPT !.image = image] = job.node /\ job.node \in Nodes
  BY <1>2 DEF Nodes
<1>6. In(files[u]) \cup {image} \in SUBSET Images /\ image \notin In(files[u])
  BY <1>1, <1>2 DEF SmoothStep, IInv, StoresOK, In, Matches, JobMatch, AddMatch
<1>7. graphs'[u] = Append(graphs[u], job.node) /\ files'[u] = In(files[u]) \cup {image}
  BY <1>2, <1>3, <1>5 DEF SmoothStep, IInv, StoresOK
<1>8. Whole(graphs'[u], files'[u])
  BY <1>2, <1>5, <1>6, <1>7, AppendedIsWhole
<1>9. \A v \in Users \ {u} : /\ graphs'[v] = graphs[v] /\ graphFile'[v] = graphFile[v]
                             /\ files'[v] = files[v]
  BY <1>1, <1>3 DEF SmoothStep, IInv, StoresOK
<1>10. UsersMatch' /\ StatesMatch'
  <2>1. \A v \in Users : v = u => ~Untouched(v)'
    BY <1>4 DEF Untouched
  <2> QED
    BY <1>1, <1>2, <1>9, <2>1, UsersMatchStays, StatesMatchStays DEF SmoothStep, Matches
<1>11. JobMatch'
  BY <1>4, <1>8 DEF JobMatch, AddMatch, ClearMatch, SaveMatch, LoadMatch
<1> QED
  BY <1>10, <1>11 DEF Matches

-----------------------------------------------------------------------------
(* The graph file, and a reset, while nothing fails *)

OnlyFor(u) == \A v \in Users \ {u} : /\ graphs'[v] = graphs[v] /\ graphFile'[v] = graphFile[v]
                                     /\ files'[v] = files[v]

LEMMA FileOnlyFor ==
  ASSUME IInv, NEW u \in Users,
         graphs' = graphs \/ \E graph : graphs' = [graphs EXCEPT ![u] = graph],
         graphFile' = graphFile \/ \E file : graphFile' = [graphFile EXCEPT ![u] = file],
         files' = files \/ \E dir : files' = [files EXCEPT ![u] = dir]
  PROVE  OnlyFor(u)
  BY DEF OnlyFor, IInv, StoresOK

\* An operation on a user's graph goes on, or ends.
LEMMA ChangingGoes ==
  ASSUME SmoothStep, Operation \in {"add", "reset", "load"}, NEW u \in Users, u = job.user,
         OnlyFor(u), UNCHANGED saved, Operation' = Operation, job'.user = u, JobMatch'
  PROVE  Matches'
<1>1. Untouched(u)' => Kept(u)'
  BY DEF Untouched
<1> QED
  BY <1>1, UsersMatchStays, StatesMatchStays DEF SmoothStep, Matches, OnlyFor

LEMMA ChangingEnds ==
  ASSUME SmoothStep, Operation \in {"add", "reset", "load"}, NEW u \in Users, u = job.user,
         OnlyFor(u), UNCHANGED saved, Finish, Kept(u)'
  PROVE  Matches'
  BY UsersMatchStays, StatesMatchStays, Ending, EndedMatches DEF SmoothStep, Matches, OnlyFor

LEMMA TruncateMatches == ASSUME SmoothStep, Truncate PROVE Matches'
<1> DEFINE u == job.user
<1>1. /\ job.at = "truncate" /\ Operation \in {"add", "reset", "load"} /\ job # Idle /\ u \in Users
      /\ UNCHANGED <<graphs, files, saved>>
  BY OperationAt, JobKinds DEF SmoothStep, Truncate
<1>2. graphFile' = [graphFile EXCEPT ![u] = Torn] /\ Goto("dump")
  BY NoFault DEF Truncate, SmoothStep
<1>3. /\ job'.at = "dump" /\ job'.user = u /\ Operation' = Operation
      /\ Operation # "add" => job'.name = job.name
  BY <1>1, <1>2, Going DEF SmoothStep
<1>4. OnlyFor(u)
  BY <1>1, <1>2, FileOnlyFor DEF SmoothStep
<1>5. JobMatch'
  BY <1>1, <1>3 DEF SmoothStep, Matches, JobMatch, AddMatch, ClearMatch, SaveMatch, LoadMatch, HasGraph
<1> QED
  BY <1>1, <1>3, <1>4, <1>5, ChangingGoes

LEMMA DumpMatches == ASSUME SmoothStep, Dump PROVE Matches'
<1>0. PICK u \in Users : u = job.user
  BY OperationAt, JobKinds DEF SmoothStep, Dump
<1>1. /\ job.at = "dump" /\ Operation \in {"add", "reset", "load"} /\ job # Idle /\ u \in Users
      /\ UNCHANGED <<graphs, files, saved>>
  BY <1>0, OperationAt, JobKinds DEF SmoothStep, Dump
<1>2. graphFile' = [graphFile EXCEPT ![u] = graphs[u]] /\ Written
  BY <1>0, NoFault DEF Dump, SmoothStep
<1>3. OnlyFor(u)
  BY <1>0, <1>1, <1>2, FileOnlyFor DEF SmoothStep
<1>4. graphs[u] \in Small /\ graphFile'[u] = graphs[u]
  BY <1>0, <1>1, <1>2, WritesSmall DEF SmoothStep, IInv, StoresOK
<1>5. Operation = job.op
  BY <1>0, <1>1 DEF Operation
<1>6. CASE Operation = "add"
  <2>1. Finish
    BY <1>2, <1>5, <1>6 DEF Written
  <2>2. Whole(graphs[u], files[u])
    BY <1>0, <1>6, AddingFinds
  <2>3. graphs[u] # Absent /\ graphs[u] # Torn
    BY <1>4, SmallIsNeither
  <2>4. UserGraph(u)' = graphs[u] /\ Unpickle(graphFile[u])' = graphs[u]
    BY <1>0, <1>1, <1>4, <2>3 DEF UserGraph, Unpickle
  <2>5. Kept(u)'
    BY <1>1, <1>4, <2>2, <2>3, <2>4 DEF Kept, UserGraph, Unpickle
  <2> QED
    BY <1>0, <1>1, <1>3, <2>1, <2>5, ChangingEnds
<1>7. CASE Operation \in {"reset", "load"}
  <2>1. Goto("clear")
    BY <1>2, <1>5, <1>7 DEF Written
  <2>2. job'.at = "clear" /\ job'.user = u /\ job'.name = job.name /\ Operation' = Operation
    BY <1>7, <1>0, <1>1, <2>1, Going DEF SmoothStep
  <2>3. graphs[u] = <<>>
    BY <1>0, <1>1, <1>7 DEF SmoothStep, Matches, JobMatch, ClearMatch
  <2>4. Operation = "load" => HasGraph(u, job.name)
    BY <1>0, <1>1 DEF SmoothStep, Matches, JobMatch, LoadMatch
  <2>5. JobMatch'
    BY <1>0, <1>1, <1>4, <1>7, <2>2, <2>3, <2>4
    DEF JobMatch, AddMatch, ClearMatch, SaveMatch, LoadMatch, HasGraph
  <2> QED
    BY <1>0, <1>1, <1>3, <2>2, <2>5, ChangingGoes
<1> QED
  BY <1>0, <1>1, <1>6, <1>7

LEMMA ResetMatches == ASSUME SmoothStep, NEW u \in Users, Reset(u) PROVE Matches'
<1>1. /\ job = Idle /\ Empties(u) /\ Starts("reset", "truncate", u, Absent, "reset")
      /\ UNCHANGED <<graphFile, files, saved>>
  BY DEF Reset
<1>2. job'.at = "truncate" /\ Operation' = "reset" /\ job'.user = u
  BY <1>1, Beginning
<1>3. Operation = "none" /\ graphs' = [graphs EXCEPT ![u] = <<>>]
  BY <1>1 DEF Operation, Empties
<1>4. graphs'[u] = <<>> /\ OnlyFor(u)
  BY <1>1, <1>3, FileOnlyFor DEF SmoothStep, IInv, StoresOK
<1>5. UsersMatch'
  <2> SUFFICES ASSUME NEW v \in Users, Untouched(v)' PROVE Kept(v)'
    BY DEF UsersMatch
  <2>1. v # u
    BY <1>2 DEF Untouched
  <2> QED
    BY <1>3, <1>4, <2>1, KeptStays DEF OnlyFor, SmoothStep, Matches, UsersMatch, Untouched
<1>6. StatesMatch'
  BY <1>1, <1>3, StatesMatchStays DEF SmoothStep, Matches
<1>7. JobMatch'
  BY <1>2, <1>4 DEF JobMatch, AddMatch, ClearMatch, SaveMatch, LoadMatch
<1> QED
  BY <1>5, <1>6, <1>7 DEF Matches

LEMMA ClearImagesMatches == ASSUME SmoothStep, ClearImages PROVE Matches'
<1>0. PICK u \in Users : u = job.user
  BY OperationAt, JobKinds DEF SmoothStep, ClearImages
<1>1. /\ job.at = "clear" /\ Operation \in {"reset", "load"} /\ job # Idle /\ u \in Users
      /\ UNCHANGED <<graphs, graphFile, saved>>
  BY <1>0, OperationAt, JobKinds DEF SmoothStep, ClearImages
<1>2. graphs[u] = <<>> /\ graphFile[u] = <<>>
  BY <1>0, <1>1 DEF SmoothStep, Matches, JobMatch, ClearMatch
<1>3. files' = files \/ \E dir : files' = [files EXCEPT ![u] = dir]
  BY <1>0 DEF ClearImages
<1>4. OnlyFor(u)
  BY <1>0, <1>1, <1>3, FileOnlyFor DEF SmoothStep
<1>5. Operation = "load" => HasGraph(u, job.name)
  BY <1>0, <1>1 DEF SmoothStep, Matches, JobMatch, LoadMatch
<1>6. CASE UNCHANGED job
  <2>1. Operation' = Operation
    BY <1>6 DEF Operation
  <2>2. JobMatch'
    BY <1>0, <1>1, <1>2, <1>6, <1>5, <2>1
    DEF JobMatch, AddMatch, ClearMatch, SaveMatch, LoadMatch, HasGraph
  <2> QED
    BY <1>0, <1>1, <1>4, <1>6, <2>1, <2>2, ChangingGoes
<1>7. CASE In(files[u]) = {} /\ Cleared /\ UNCHANGED files
  <2>1. Operation = job.op
    BY <1>0, <1>1 DEF Operation
  <2>2. CASE Operation = "load"
    <3>1. Goto("open_graph")
      BY <1>7, <2>1, <2>2 DEF Cleared
    <3>2. job'.at = "open_graph" /\ job'.user = u /\ job'.name = job.name /\ Operation' = Operation
      BY <1>0, <1>1, <3>1, Going DEF SmoothStep
    <3>3. JobMatch'
      BY <1>0, <1>1, <1>2, <1>7, <1>5, <2>2, <3>2
      DEF JobMatch, AddMatch, ClearMatch, SaveMatch, LoadMatch, HasGraph
    <3> QED
      BY <1>0, <1>1, <1>4, <3>2, <3>3, ChangingGoes
  <2>3. CASE Operation = "reset"
    <3>1. Finish
      BY <1>7, <2>1, <2>3 DEF Cleared
    <3>2. <<>> # Absent /\ <<>> # Torn
      BY EmptyIsSmall, SmallIsNeither
    <3>3. Whole(<<>>, files[u])
      BY <1>7, EmptyIsWhole
    <3>4. Kept(u)'
      BY <1>0, <1>1, <1>2, <1>7, <3>2, <3>3 DEF Kept, UserGraph, Unpickle
    <3> QED
      BY <1>0, <1>1, <1>4, <3>1, <3>4, ChangingEnds
  <2> QED
    BY <1>0, <1>1, <2>2, <2>3
<1> QED
  BY <1>0, <1>6, <1>7, NoFault DEF ClearImages, SmoothStep

-----------------------------------------------------------------------------
(* A save, while nothing fails *)

\* A save goes on, or ends, with only its own state changed.
LEMMA SavesOn ==
  ASSUME SmoothStep, Operation = "save", NEW s \in Names, s = job.name,
         \A t \in Names \ {s} : saved'[t] = saved[t],
         UNCHANGED <<graphs, graphFile, files>>,
         Operation' = "save", job'.name = s, SaveMatch'
  PROVE  Matches'
<1>1. UsersMatch'
  BY KeptStays DEF SmoothStep, Matches, UsersMatch, Untouched
<1>2. StatesMatch'
  BY KeptStateStays DEF SmoothStep, Matches, StatesMatch
<1>3. JobMatch'
  BY DEF JobMatch, AddMatch, ClearMatch, LoadMatch
<1> QED
  BY <1>1, <1>2, <1>3 DEF Matches

LEMMA SaveEnds ==
  ASSUME SmoothStep, Operation = "save", NEW s \in Names, s = job.name,
         \A t \in Names \ {s} : saved'[t] = saved[t],
         UNCHANGED <<graphs, graphFile, files>>, Finish, KeptState(s)'
  PROVE  Matches'
<1>1. UsersMatch'
  BY KeptStays DEF SmoothStep, Matches, UsersMatch, Untouched
<1>2. StatesMatch'
  BY KeptStateStays DEF SmoothStep, Matches, StatesMatch
<1> QED
  BY <1>1, <1>2, Ending, EndedMatches DEF Matches

LEMMA SaveMemoryStateMatches ==
  ASSUME SmoothStep, NEW u \in Users, NEW s \in Names, SaveMemoryState(u, s)
  PROVE  Matches'
<1>1. Operation = "none" /\ UNCHANGED <<graphs, graphFile, files, saved>>
  BY DEF SaveMemoryState, Operation
<1>2. PICK at \in {"mkdir", "rmtree"} : Starts("save", at, u, s, "chat")
  BY DEF SaveMemoryState
<1>3. job'.at = at /\ Operation' = "save" /\ job'.name = s
  BY <1>2, Beginning
<1>4. UsersMatch'
  BY <1>1, KeptStays DEF SmoothStep, Matches, UsersMatch, Untouched
<1>5. StatesMatch'
  BY <1>1, StatesMatchStays DEF SmoothStep, Matches
<1>6. JobMatch'
  BY <1>3 DEF JobMatch, AddMatch, ClearMatch, SaveMatch, LoadMatch
<1> QED
  BY <1>4, <1>5, <1>6 DEF Matches

\* What a save finds.
LEMMA SaveFinds ==
  ASSUME SmoothStep, job.at \in SaveAts, NEW u, u = job.user, NEW s, s = job.name
  PROVE  /\ Operation = "save" /\ job # Idle /\ u \in Users /\ s \in Names
         /\ saved[s] \in States \cup {Absent} /\ Kept(u)
         /\ graphFile[u] \in Small \cup {Absent, Torn} /\ files[u] \in (SUBSET Images) \cup {Absent}
         /\ job.at # "mkdir" =>
              saved[s] = [owner |-> saved[s].owner, graph |-> saved[s].graph, images |-> saved[s].images]
         /\ (job.at # "mkdir" /\ saved[s].images # Absent) =>
              In(saved[s].images) = saved[s].images /\ saved[s].images \in SUBSET Images
<1>1. Operation = "save" /\ job # Idle /\ u \in Users /\ s \in Names
  BY OperationAt, JobKinds DEF SmoothStep, SaveAts
<1>2. Kept(u)
  BY <1>1 DEF SmoothStep, Matches, UsersMatch, Untouched
<1>3. /\ saved[s] \in States \cup {Absent} /\ graphFile[u] \in Small \cup {Absent, Torn}
      /\ files[u] \in (SUBSET Images) \cup {Absent}
  BY <1>1 DEF SmoothStep, IInv, StoresOK
<1>4. job.at # "mkdir" =>
        /\ saved[s] = [owner |-> saved[s].owner, graph |-> saved[s].graph, images |-> saved[s].images]
        /\ saved[s].images \in (SUBSET Images) \cup {Absent}
  BY SavingFinds DEF SmoothStep
<1> QED
  BY <1>1, <1>2, <1>3, <1>4, InDirectory

\* A save's step to the images, or its end.
LEMMA CopiedMatches ==
  ASSUME SmoothStep, NEW u, u = job.user, NEW s \in Names, s = job.name, job.at \in {"mkdir", "write_copy"},
         \A t \in Names \ {s} : saved'[t] = saved[t],
         UNCHANGED <<graphs, graphFile, files>>, Copied(files[u], "copy_images"),
         saved'[s].graph = graphFile[u], saved'[s].images = Absent
  PROVE  Matches'
<1>1. Operation = "save" /\ job # Idle /\ u \in Users /\ Kept(u)
  BY SaveFinds DEF SaveAts
<1>2. CASE files[u] = Absent
  <2>1. Whole(Unpickle(graphFile[u]), Absent) /\ graphFile[u] # Torn
    BY <1>1, <1>2 DEF Kept
  <2>2. KeptState(s)'
    BY <2>1 DEF KeptState, Whole
  <2> QED
    BY <1>1, <1>2, <2>2, SaveEnds DEF Copied
<1>3. CASE files[u] # Absent
  <2>1. Goto("copy_images")
    BY <1>3 DEF Copied
  <2>2. job'.at = "copy_images" /\ job'.user = u /\ job'.name = s /\ Operation' = "save"
    BY <1>1, <2>1, Going DEF SmoothStep
  <2>3. graphFile[u] # Absent /\ In(Absent) = {}
    BY <1>1, <1>3 DEF Kept, In
  <2>4. SaveMatch'
    BY <2>2, <2>3 DEF SaveMatch
  <2> QED
    BY <1>1, <2>2, <2>4, SavesOn
<1> QED
  BY <1>2, <1>3

LEMMA RmTreeMatches == ASSUME SmoothStep, RmTree PROVE Matches'
<1>1. PICK s : s = job.name
  OBVIOUS
<1>2. job.at = "rmtree" /\ Operation = "save" /\ job # Idle /\ s \in Names /\ saved \in [Names -> States \cup {Absent}]
  BY <1>1, SaveFinds DEF RmTree, SaveAts, SmoothStep, IInv, StoresOK
<1>3. \A t \in Names \ {s} : saved'[t] = saved[t]
  BY <1>1, <1>2, NoFault DEF RmTree, SmoothStep, GivesUp
<1>4. UNCHANGED <<graphs, graphFile, files>> /\ (job' = job \/ Goto("mkdir"))
  BY NoFault DEF RmTree, SmoothStep, GivesUp
<1>5. job'.at \in {"rmtree", "mkdir"} /\ job'.name = s /\ Operation' = "save"
  <2>1. CASE job' = job
    BY <1>1, <1>2, <2>1 DEF Operation
  <2>2. CASE Goto("mkdir")
    BY <1>1, <1>2, <2>2, Going DEF SmoothStep
  <2> QED
    BY <1>4, <2>1, <2>2
<1>6. SaveMatch'
  BY <1>5 DEF SaveMatch
<1> QED
  BY <1>1, <1>2, <1>3, <1>4, <1>5, <1>6, SavesOn

LEMMA MkDirMatches == ASSUME SmoothStep, MkDir PROVE Matches'
<1>1. PICK u, s : u = job.user /\ s = job.name
  OBVIOUS
<1>2. /\ job.at = "mkdir" /\ Operation = "save" /\ job # Idle /\ u \in Users /\ s \in Names /\ Kept(u)
      /\ saved \in [Names -> States \cup {Absent}]
  BY <1>1, SaveFinds DEF MkDir, SaveAts, SmoothStep, IInv, StoresOK
<1>3. /\ saved' = [saved EXCEPT ![s] = [owner |-> u, graph |-> Absent, images |-> Absent]]
      /\ UNCHANGED <<graphs, graphFile, files>>
      /\ IF graphFile[u] # Absent THEN Goto("create_copy") ELSE Copied(files[u], "copy_images")
  BY <1>1, NoFault DEF MkDir, SmoothStep, GivesUp
<1>4. /\ \A t \in Names \ {s} : saved'[t] = saved[t]
      /\ saved'[s].graph = Absent /\ saved'[s].images = Absent
  BY <1>2, <1>3
<1>5. CASE graphFile[u] # Absent
  <2>1. job'.at = "create_copy" /\ job'.user = u /\ job'.name = s /\ Operation' = "save"
    BY <1>1, <1>2, <1>3, <1>5, Going DEF SmoothStep
  <2>2. SaveMatch'
    BY <1>3, <1>4, <1>5, <2>1 DEF SaveMatch
  <2> QED
    BY <1>1, <1>2, <1>3, <1>4, <2>1, <2>2, SavesOn
<1>6. CASE graphFile[u] = Absent
  BY <1>1, <1>2, <1>3, <1>4, <1>6, CopiedMatches
<1> QED
  BY <1>5, <1>6

LEMMA CreateCopyMatches == ASSUME SmoothStep, CreateCopy PROVE Matches'
<1>1. PICK u, s : u = job.user /\ s = job.name
  OBVIOUS
<1>2. /\ job.at = "create_copy" /\ Operation = "save" /\ job # Idle /\ u \in Users /\ s \in Names
      /\ saved \in [Names -> States \cup {Absent}]
      /\ saved[s] = [owner |-> saved[s].owner, graph |-> saved[s].graph, images |-> saved[s].images]
  BY <1>1, SaveFinds DEF CreateCopy, SaveAts, SmoothStep, IInv, StoresOK
<1>3. /\ saved' = [saved EXCEPT ![s].graph = Torn]
      /\ UNCHANGED <<graphs, graphFile, files>> /\ Goto("write_copy")
  BY <1>1, NoFault DEF CreateCopy, SmoothStep, GivesUp
<1>4. /\ \A t \in Names \ {s} : saved'[t] = saved[t]
      /\ saved'[s].images = saved[s].images
  BY <1>2, <1>3
<1>5. job'.at = "write_copy" /\ job'.user = u /\ job'.name = s /\ Operation' = "save"
  BY <1>1, <1>2, <1>3, Going DEF SmoothStep
<1>6. SaveMatch'
  BY <1>1, <1>2, <1>3, <1>4, <1>5 DEF SaveMatch, SmoothStep, Matches, JobMatch
<1> QED
  BY <1>1, <1>2, <1>3, <1>4, <1>5, <1>6, SavesOn

LEMMA WriteCopyMatches == ASSUME SmoothStep, WriteCopy PROVE Matches'
<1>1. PICK u, s : u = job.user /\ s = job.name
  OBVIOUS
<1>2. /\ job.at = "write_copy" /\ Operation = "save" /\ job # Idle /\ u \in Users /\ s \in Names
      /\ saved \in [Names -> States \cup {Absent}]
      /\ saved[s] = [owner |-> saved[s].owner, graph |-> saved[s].graph, images |-> saved[s].images]
  BY <1>1, SaveFinds DEF WriteCopy, SaveAts, SmoothStep, IInv, StoresOK
<1>3. /\ saved' = [saved EXCEPT ![s].graph = graphFile[u]]
      /\ UNCHANGED <<graphs, graphFile, files>> /\ Copied(files[u], "copy_images")
  BY <1>1, NoFault DEF WriteCopy, SmoothStep, GivesUp
<1>4. /\ \A t \in Names \ {s} : saved'[t] = saved[t]
      /\ saved'[s].graph = graphFile[u] /\ saved'[s].images = saved[s].images
  BY <1>2, <1>3
<1>5. saved[s].images = Absent
  BY <1>1, <1>2 DEF SaveMatch, SmoothStep, Matches, JobMatch
<1> QED
  BY <1>1, <1>2, <1>3, <1>4, <1>5, CopiedMatches

LEMMA CopyImagesMatches == ASSUME SmoothStep, CopyImages PROVE Matches'
<1>1. PICK u, s : u = job.user /\ s = job.name
  OBVIOUS
<1>2. /\ job.at = "copy_images" /\ Operation = "save" /\ job # Idle /\ u \in Users /\ s \in Names
      /\ saved \in [Names -> States \cup {Absent}] /\ Kept(u)
      /\ saved[s] = [owner |-> saved[s].owner, graph |-> saved[s].graph, images |-> saved[s].images]
      /\ saved[s].images # Absent => In(saved[s].images) = saved[s].images /\ saved[s].images \in SUBSET Images
  BY <1>1, SaveFinds DEF CopyImages, SaveAts, SmoothStep, IInv, StoresOK
<1>3. /\ graphFile[u] # Absent /\ saved[s].graph = graphFile[u]
      /\ In(saved[s].images) \subseteq In(files[u])
  BY <1>1, <1>2 DEF SaveMatch, SmoothStep, Matches, JobMatch
<1>4. files[u] \in SUBSET Images /\ In(files[u]) = files[u]
  <2>1. Saving
    BY <1>2, JobKinds DEF SmoothStep
  <2> QED
    BY <1>1, <1>2, <2>1, InDirectory DEF Saving
<1>5. UNCHANGED <<graphs, graphFile, files>>
  BY NoFault DEF CopyImages, SmoothStep, GivesUp
<1>6. ASSUME NEW images \in SUBSET files[u], saved' = [saved EXCEPT ![s].images = images], UNCHANGED job
      PROVE  Matches'
  <2>1. /\ \A t \in Names \ {s} : saved'[t] = saved[t]
        /\ saved'[s].graph = saved[s].graph /\ saved'[s].images = images
    BY <1>2, <1>6
  <2>2. Operation' = "save" /\ job'.name = s /\ job'.at = "copy_images" /\ job'.user = u
    BY <1>1, <1>2, <1>6 DEF Operation
  <2>3. In(images) = images
    BY <1>4, InDirectory
  <2>4. SaveMatch'
    BY <1>3, <1>4, <1>5, <2>1, <2>2, <2>3 DEF SaveMatch
  <2> QED
    BY <1>1, <1>2, <1>5, <2>1, <2>2, <2>4, SavesOn
<1>7. CASE saved' = [saved EXCEPT ![s].images = In(@)] /\ UNCHANGED job
  BY <1>3, <1>4, <1>6, <1>7
<1>8. ASSUME NEW i \in files[u] \ In(saved[s].images), saved[s].images # Absent,
             saved' = [saved EXCEPT ![s].images = @ \cup {i}], UNCHANGED job
      PROVE  Matches'
  <2>1. saved[s].images \cup {i} \in SUBSET files[u]
    BY <1>2, <1>3, <1>4, <1>8
  <2> QED
    BY <1>6, <1>8, <2>1
<1>9. CASE files[u] \ In(saved[s].images) = {} /\ saved[s].images # Absent /\ Finish /\ UNCHANGED saved
  <2>1. saved[s].images = files[u]
    <3>1. saved[s].images \subseteq files[u] /\ files[u] \subseteq saved[s].images
      BY <1>2, <1>3, <1>4, <1>9
    <3> QED
      BY <3>1
  <2>2. KeptState(s)
    BY <1>2, <1>3, <2>1 DEF Kept, KeptState
  <2>3. KeptState(s)'
    BY <1>9, <2>2, KeptStateStays
  <2> QED
    BY <1>1, <1>2, <1>5, <1>9, <2>3, SaveEnds
<1> QED
  BY <1>1, <1>7, <1>8, <1>9, NoFault DEF CopyImages, GivesUp, SmoothStep

-----------------------------------------------------------------------------
(* A load, while nothing fails *)

\* What a load finds.
LEMMA LoadFinds ==
  ASSUME SmoothStep, NEW u, u = job.user, NEW s, s = job.name,
         job.at \in {"open_graph", "restore_graph", "clear_images", "restore_images", "loaded"}
  PROVE  /\ Operation = "load" /\ job # Idle /\ u \in Users /\ s \in Names
         /\ KeptState(s) /\ saved[s] # Absent
         /\ saved[s].graph \in Small \cup {Absent, Torn}
         /\ saved[s].images \in (SUBSET Images) \cup {Absent}
<1>1. Operation = "load" /\ job # Idle /\ u \in Users /\ s \in Names
  BY OperationAt, JobKinds DEF SmoothStep
<1>2. KeptState(s)
  BY <1>1 DEF SmoothStep, Matches, StatesMatch
<1>3. saved[s] \in States
  BY <1>1, JobKinds DEF SmoothStep, Loading
<1>4. saved[s] \in [owner : Users, graph : Seq(Nodes) \cup {Absent, Torn}, images : (SUBSET Images) \cup {Absent}]
  <2>1. Small \subseteq Seq(Nodes)
    BY SeqMonotonic DEF Small, Taken
  <2> QED
    BY <1>3, <2>1 DEF States
<1> QED
  BY <1>1, <1>2, <1>3, <1>4, AbsentAssumption DEF States

LEMMA LoadMemoryStateMatches ==
  ASSUME SmoothStep, NEW u \in Users, NEW s \in Names, NEW by \in {"reset", "chat"}, LoadMemoryState(u, s, by)
  PROVE  Matches'
<1>1. job = Idle /\ Operation = "none" /\ saved[s] # Absent /\ UNCHANGED <<graphFile, files, saved>>
  BY DEF LoadMemoryState, Operation
<1>2. KeptState(s) /\ \A v \in Users : Kept(v)
  BY <1>1 DEF SmoothStep, Matches, StatesMatch, UsersMatch, Untouched
<1>3. StatesMatch'
  BY <1>1, StatesMatchStays DEF SmoothStep, Matches
<1>4. CASE HasGraph(u, s)
  <2>1. Empties(u) /\ Starts("load", "truncate", u, s, by)
    BY <1>4 DEF LoadMemoryState
  <2>2. job'.at = "truncate" /\ Operation' = "load" /\ job'.user = u /\ job'.name = s
    BY <2>1, Beginning
  <2>3. graphs'[u] = <<>> /\ OnlyFor(u)
    BY <1>1, <2>1, FileOnlyFor DEF Empties, SmoothStep, IInv, StoresOK
  <2>4. UsersMatch'
    <3> SUFFICES ASSUME NEW v \in Users, Untouched(v)' PROVE Kept(v)'
      BY DEF UsersMatch
    <3>1. v # u
      BY <2>2 DEF Untouched
    <3> QED
      BY <1>2, <2>3, <3>1, KeptStays DEF OnlyFor
  <2>5. HasGraph(u, s)'
    BY <1>1, <1>4 DEF HasGraph
  <2>6. JobMatch'
    BY <2>2, <2>3, <2>5 DEF JobMatch, AddMatch, ClearMatch, SaveMatch, LoadMatch, HasGraph
  <2> QED
    BY <1>3, <2>4, <2>6 DEF Matches
<1>5. CASE ~HasGraph(u, s)
  <2>1. ~HasImages(u, s)
    BY <1>1, <1>2, <1>5 DEF KeptState, HasGraph, HasImages
  <2>2. UNCHANGED graphs /\ Starts("load", "loaded", u, s, by)
    BY <1>5, <2>1 DEF LoadMemoryState, AfterGraph
  <2>3. job'.at = "loaded" /\ Operation' = "load" /\ job'.user = u /\ job'.name = s
    BY <2>2, Beginning
  <2>4. \A v \in Users : Kept(v)'
    BY <1>1, <1>2, <2>2, KeptStays
  <2>5. Kept(u)'
    BY <2>4
  <2>6. JobMatch'
    BY <2>3, <2>5 DEF JobMatch, AddMatch, ClearMatch, SaveMatch, LoadMatch, Kept, UserGraph
  <2> QED
    BY <1>3, <2>4, <2>6 DEF Matches, UsersMatch
<1> QED
  BY <1>4, <1>5

LEMMA OpenGraphMatches == ASSUME SmoothStep, OpenGraph PROVE Matches'
<1>1. PICK u, s : u = job.user /\ s = job.name
  OBVIOUS
<1>2. job.at = "open_graph" /\ Operation = "load" /\ job # Idle /\ u \in Users
  BY <1>1, LoadFinds DEF OpenGraph
<1>3. graphFile' = [graphFile EXCEPT ![u] = Torn] /\ Goto("restore_graph") /\ UNCHANGED <<graphs, files, saved>>
  BY <1>1, NoFault DEF OpenGraph, LoadFails, SmoothStep
<1>4. job'.at = "restore_graph" /\ job'.user = u /\ job'.name = s /\ Operation' = "load"
  BY <1>1, <1>2, <1>3, Going DEF SmoothStep
<1>5. OnlyFor(u)
  BY <1>2, <1>3, FileOnlyFor DEF SmoothStep
<1>6. graphs[u] = <<>> /\ In(files[u]) = {} /\ HasGraph(u, s)
  BY <1>1, <1>2 DEF SmoothStep, Matches, JobMatch, ClearMatch, LoadMatch
<1>7. JobMatch'
  BY <1>3, <1>4, <1>6 DEF JobMatch, AddMatch, ClearMatch, SaveMatch, LoadMatch, HasGraph
<1> QED
  BY <1>1, <1>2, <1>3, <1>4, <1>5, <1>7, ChangingGoes

LEMMA RestoreGraphMatches == ASSUME SmoothStep, RestoreGraph PROVE Matches'
<1>1. PICK u, s : u = job.user /\ s = job.name
  OBVIOUS
<1>2. /\ job.at = "restore_graph" /\ Operation = "load" /\ job # Idle /\ u \in Users
      /\ KeptState(s) /\ saved[s] # Absent /\ saved[s].graph \in Small \cup {Absent, Torn}
  BY <1>1, LoadFinds DEF RestoreGraph
<1>3. /\ graphFile' = [graphFile EXCEPT ![u] = saved[s].graph]
      /\ graphs' = [graphs EXCEPT ![u] = Unpickle(saved[s].graph)]
      /\ Goto(AfterGraph(u, s)) /\ UNCHANGED <<files, saved>>
  BY <1>1, NoFault DEF RestoreGraph, LoadFails, SmoothStep
<1>4. OnlyFor(u)
  BY <1>2, <1>3, FileOnlyFor DEF SmoothStep
<1>5. In(files[u]) = {} /\ HasGraph(u, s)
  BY <1>1, <1>2 DEF SmoothStep, Matches, JobMatch, ClearMatch, LoadMatch
<1>6. saved[s].graph \in Small /\ saved[s].graph # Absent /\ saved[s].graph # Torn
  BY <1>2, <1>5 DEF KeptState, HasGraph
<1>7. /\ graphFile'[u] = saved[s].graph /\ graphs'[u] = saved[s].graph
      /\ Unpickle(saved[s].graph) = saved[s].graph
  BY <1>2, <1>3, <1>6 DEF Unpickle, SmoothStep, IInv, StoresOK
<1>8. /\ AfterGraph(u, s) \in {"clear_images", "loaded"}
      /\ AfterGraph(u, s) = "loaded" => saved[s].images = Absent
  BY <1>5 DEF AfterGraph, HasGraph, HasImages
<1>9. job'.at = AfterGraph(u, s) /\ job'.user = u /\ job'.name = s /\ Operation' = "load"
  <2> DEFINE at == AfterGraph(u, s)
  <2>1. at # "idle" /\ Goto(at)
    BY <1>3, <1>8
  <2> HIDE DEF at
  <2>2. job'.at = at /\ job'.user = u /\ job'.name = s /\ Operation' = "load"
    BY <1>1, <1>2, <2>1, Going DEF SmoothStep
  <2> QED
    BY <2>2 DEF at
<1>10. CASE AfterGraph(u, s) = "clear_images"
  <2>1. JobMatch'
    BY <1>3, <1>6, <1>7, <1>9, <1>10 DEF JobMatch, AddMatch, ClearMatch, SaveMatch, LoadMatch
  <2> QED
    BY <1>1, <1>2, <1>3, <1>4, <1>9, <2>1, ChangingGoes
<1>11. CASE AfterGraph(u, s) = "loaded"
  <2>1. Whole(saved[s].graph, Absent) /\ In(Absent) = {}
    BY <1>2, <1>7, <1>8, <1>11 DEF KeptState, In
  <2>2. Whole(saved[s].graph, files[u])
    BY <1>5, <2>1 DEF Whole
  <2>3. Kept(u)'
    BY <1>3, <1>6, <1>7, <2>2 DEF Kept, UserGraph
  <2>4. JobMatch'
    BY <1>9, <1>11, <2>3 DEF JobMatch, AddMatch, ClearMatch, SaveMatch, LoadMatch, Kept, UserGraph
  <2> QED
    BY <1>1, <1>2, <1>3, <1>4, <1>9, <2>4, ChangingGoes
<1> QED
  BY <1>8, <1>10, <1>11

LEMMA ClearDestinationMatches == ASSUME SmoothStep, ClearDestination PROVE Matches'
<1>1. PICK u, s : u = job.user /\ s = job.name
  OBVIOUS
<1>2. job.at = "clear_images" /\ Operation = "load" /\ job # Idle /\ u \in Users
  BY <1>1, LoadFinds DEF ClearDestination
<1>3. UNCHANGED <<graphs, graphFile, saved>> /\ \E dir : files' = [files EXCEPT ![u] = dir]
  BY <1>1, NoFault DEF ClearDestination, LoadFails, SmoothStep
<1>4. OnlyFor(u)
  BY <1>2, <1>3, FileOnlyFor DEF SmoothStep
<1>5. graphFile[u] = saved[s].graph /\ graphFile[u] # Absent /\ graphs[u] = Unpickle(graphFile[u])
  BY <1>1, <1>2 DEF SmoothStep, Matches, JobMatch, LoadMatch
<1>6. CASE UNCHANGED job
  <2>1. Operation' = Operation
    BY <1>6 DEF Operation
  <2>2. JobMatch'
    BY <1>1, <1>2, <1>3, <1>5, <1>6, <2>1 DEF JobMatch, AddMatch, ClearMatch, SaveMatch, LoadMatch
  <2> QED
    BY <1>1, <1>2, <1>3, <1>4, <1>6, <2>1, <2>2, ChangingGoes
<1>7. CASE files' = [files EXCEPT ![u] = {}] /\ Goto("restore_images")
  <2>1. job'.at = "restore_images" /\ job'.user = u /\ job'.name = s /\ Operation' = "load"
    BY <1>1, <1>2, <1>7, Going DEF SmoothStep
  <2>2. In(files'[u]) = {}
    BY <1>2, <1>7 DEF SmoothStep, IInv, StoresOK, In
  <2>3. JobMatch'
    BY <1>3, <1>5, <2>1, <2>2 DEF JobMatch, AddMatch, ClearMatch, SaveMatch, LoadMatch
  <2> QED
    BY <1>1, <1>2, <1>3, <1>4, <2>1, <2>3, ChangingGoes
<1> QED
  BY <1>1, <1>6, <1>7, NoFault DEF ClearDestination, LoadFails, SmoothStep

LEMMA RestoreImagesMatches == ASSUME SmoothStep, RestoreImages PROVE Matches'
<1>1. PICK u, s : u = job.user /\ s = job.name
  OBVIOUS
<1>2. /\ job.at = "restore_images" /\ Operation = "load" /\ job # Idle /\ u \in Users
      /\ KeptState(s) /\ saved[s] # Absent
  BY <1>1, LoadFinds DEF RestoreImages
<1>3. UNCHANGED <<graphs, graphFile, saved>> /\ (files' = files \/ \E dir : files' = [files EXCEPT ![u] = dir])
  BY <1>1, NoFault DEF RestoreImages, LoadFails, SmoothStep
<1>4. OnlyFor(u)
  BY <1>2, <1>3, FileOnlyFor DEF SmoothStep
<1>5. /\ graphFile[u] = saved[s].graph /\ graphFile[u] # Absent /\ graphs[u] = Unpickle(graphFile[u])
      /\ In(files[u]) \subseteq In(saved[s].images)
  BY <1>1, <1>2 DEF SmoothStep, Matches, JobMatch, LoadMatch
<1>6. /\ files[u] \in SUBSET Images /\ In(files[u]) = files[u]
      /\ saved[s].images \in SUBSET Images /\ In(saved[s].images) = saved[s].images
  <2>1. Loading
    BY <1>2, JobKinds DEF SmoothStep
  <2> QED
    BY <1>1, <1>2, <2>1, InDirectory DEF Loading
<1>7. ASSUME NEW i \in saved[s].images \ files[u], files' = [files EXCEPT ![u] = @ \cup {i}], UNCHANGED job
      PROVE  Matches'
  <2>1. Operation' = Operation
    BY <1>7 DEF Operation
  <2>2. files'[u] = files[u] \cup {i}
    BY <1>2, <1>7 DEF SmoothStep, IInv, StoresOK
  <2>3. In(files'[u]) \subseteq In(saved[s].images)
    BY <1>5, <1>6, <2>2, InDirectory
  <2>4. JobMatch'
    BY <1>1, <1>2, <1>3, <1>5, <1>7, <2>1, <2>3 DEF JobMatch, AddMatch, ClearMatch, SaveMatch, LoadMatch
  <2> QED
    BY <1>1, <1>2, <1>3, <1>4, <1>7, <2>1, <2>4, ChangingGoes
<1>8. CASE saved[s].images \ files[u] = {} /\ Goto("loaded") /\ UNCHANGED files
  <2>1. job'.at = "loaded" /\ job'.user = u /\ job'.name = s /\ Operation' = "load"
    BY <1>1, <1>2, <1>8, Going DEF SmoothStep
  <2>2. saved[s].images = files[u]
    <3>1. saved[s].images \subseteq files[u] /\ files[u] \subseteq saved[s].images
      BY <1>5, <1>6, <1>8
    <3> QED
      BY <3>1
  <2>3. graphs[u] # Absent
    <3>1. Unpickle(graphFile[u]) \in Small
      BY <1>2, UnpickledIsSmall DEF SmoothStep, IInv, StoresOK
    <3> QED
      BY <1>5, <3>1, SmallIsNeither
  <2>4. Kept(u)'
    BY <1>2, <1>3, <1>5, <1>8, <2>2, <2>3 DEF Kept, KeptState, UserGraph
  <2>5. JobMatch'
    BY <2>1, <2>4 DEF JobMatch, AddMatch, ClearMatch, SaveMatch, LoadMatch, Kept, UserGraph
  <2> QED
    BY <1>1, <1>2, <1>3, <1>4, <2>1, <2>5, ChangingGoes
<1> QED
  BY <1>1, <1>7, <1>8, NoFault DEF RestoreImages, LoadFails, SmoothStep

LEMMA SaysLoadedMatches == ASSUME SmoothStep, SaysLoaded PROVE Matches'
<1>1. PICK u, s : u = job.user /\ s = job.name
  OBVIOUS
<1>2. job.at = "loaded" /\ Operation = "load" /\ job # Idle /\ u \in Users
  BY <1>1, LoadFinds DEF SaysLoaded
<1>3. Finish /\ UNCHANGED <<graphs, graphFile, files, saved>>
  BY DEF SaysLoaded
<1>4. Kept(u)
  BY <1>1, <1>2 DEF SmoothStep, Matches, JobMatch, LoadMatch
<1>5. Kept(u)' /\ OnlyFor(u)
  BY <1>3, <1>4, KeptStays DEF OnlyFor
<1> QED
  BY <1>1, <1>2, <1>3, <1>5, ChangingEnds

-----------------------------------------------------------------------------
LEMMA InitMatches == Init => Matches
<1> SUFFICES ASSUME Init PROVE Matches
  OBVIOUS
<1>1. Operation = "none"
  BY DEF Init, Operation
<1>2. Whole(<<>>, Absent)
  BY EmptyIsWhole DEF In
<1>3. \A u \in Users : Kept(u)
  BY <1>2, MemoryAssumption DEF Init, Kept, UserGraph, Unpickle
<1>4. \A s \in Names : KeptState(s)
  BY DEF Init, KeptState
<1>5. JobMatch
  BY <1>1 DEF JobMatch, AddMatch, ClearMatch, SaveMatch, LoadMatch
<1> QED
  BY <1>3, <1>4, <1>5 DEF Matches, UsersMatch, StatesMatch

LEMMA StutterMatches == ASSUME Matches, UNCHANGED vars PROVE Matches'
<1>1. Operation' = Operation /\ job' = job
  BY DEF Operation, vars
<1>2. \A u \in Users : Kept(u) => Kept(u)'
  BY KeptStays DEF vars
<1>3. UsersMatch' /\ StatesMatch'
  BY <1>1, <1>2, KeptStateStays DEF Matches, UsersMatch, StatesMatch, Untouched, vars
<1>4. JobMatch'
  BY <1>1 DEF Matches, JobMatch, AddMatch, ClearMatch, SaveMatch, LoadMatch, Kept, UserGraph, HasGraph, vars
<1> QED
  BY <1>3, <1>4 DEF Matches

\* As long as nothing fails, a node and its picture come and go together, in the
\* directory of a user, in its file and in the saved states; in between, the job
\* says what is still missing.
LEMMA MatchInvariance == IInv /\ IInv' /\ MatchInv /\ [Next]_vars => MatchInv'
<1> SUFFICES ASSUME IInv, IInv', MatchInv, [Next]_vars, faults' = 0 PROVE Matches'
  BY DEF MatchInv
<1>1. CASE UNCHANGED vars
  BY <1>1, StutterMatches DEF MatchInv, vars
<1>2. CASE Next
  <2>1. faults = 0 \/ (Fault /\ faults \in Nat)
    BY <1>2 DEF Next, JobStep, PoseImage, GetUserGraph, Reset, SaveMemoryState, LoadMemoryState, Crash, RemoveNode,
       SaveImage, Truncate, Dump, ClearImages, RmTree, MkDir, CreateCopy, WriteCopy, CopyImages, OpenGraph,
       RestoreGraph, ClearDestination, RestoreImages, SaysLoaded, Smooth, GivesUp, LoadFails, IInv, StoresOK
  <2>2. faults = 0
    BY <2>1 DEF Fault
  <2>3. SmoothStep
    BY <2>2 DEF SmoothStep, MatchInv
  <2>4. CASE JobStep
    BY <2>3, <2>4, RemoveNodeMatches, SaveImageMatches, TruncateMatches, DumpMatches, ClearImagesMatches,
       RmTreeMatches, MkDirMatches, CreateCopyMatches, WriteCopyMatches, CopyImagesMatches, OpenGraphMatches,
       RestoreGraphMatches, ClearDestinationMatches, RestoreImagesMatches, SaysLoadedMatches
    DEF JobStep
  <2>5. CASE Crash
    BY <2>3, <2>5, NoFault DEF Crash, SmoothStep
  <2>6. ASSUME NEW u \in Users,
               \/ \E p \in Visits[u] : PoseImage(u, p)
               \/ GetUserGraph(u) \/ Reset(u)
               \/ \E s \in Names : \/ SaveMemoryState(u, s)
                                   \/ \E by \in {"reset", "chat"} : LoadMemoryState(u, s, by)
        PROVE  Matches'
    BY <2>3, <2>6, PoseImageMatches, GetUserGraphMatches, ResetMatches, SaveMemoryStateMatches, LoadMemoryStateMatches
  <2> QED
    BY <1>2, <2>4, <2>5, <2>6 DEF Next
<1> QED
  BY <1>1, <1>2

\* Until something fails, a user's directory holds the pictures of the nodes of the
\* user's graph and no others, and the file is the graph, for any sequence of pose
\* images, evictions, resets, saves and loads of any users.
THEOREM PicturesMatch == Spec => []ImagesMatch
<1>1. Init => MatchInv
  BY InitMatches DEF MatchInv
<1>2. ASSUME IInv, MatchInv PROVE ImagesMatch
  <2> SUFFICES ASSUME faults = 0, job = Idle, NEW u \in Users
               PROVE  /\ ImagesOf(UserGraph(u)) \ {NoImage} = In(files[u])
                      /\ UserGraph(u) = Unpickle(graphFile[u])
    BY DEF ImagesMatch
  <2>1. Kept(u)
    BY <1>2 DEF MatchInv, Matches, UsersMatch, Untouched, Operation
  <2>2. In(files[u]) \subseteq Images
    BY <1>2 DEF IInv, StoresOK, In
  <2> QED
    BY <2>1, <2>2, MemoryAssumption DEF Kept, Whole
<1> QED
  BY <1>1, <1>2, MatchInvariance, Invariance, PTL DEF Spec
-----------------------------------------------------------------------------
(* What can be told of a graph *)

LEMMA PlacesOfGraph ==
  ASSUME NEW graph \in Small
  PROVE  /\ PlacesOf(graph) \in Seq(Places) /\ Len(PlacesOf(graph)) = Len(graph)
         /\ DOMAIN PlacesOf(graph) = 1..Len(graph) /\ DOMAIN graph = 1..Len(graph)
         /\ \A i \in 1..Len(graph) : PlacesOf(graph)[i] = graph[i].place
<1>1. graph \in Seq(Taken) /\ Len(graph) \in Nat /\ DOMAIN graph = 1..Len(graph)
  BY LenProperties DEF Small
<1>2. \A i \in 1..Len(graph) : graph[i].place \in Places
  <2>1. \A n \in Taken : n.place \in Places
    BY DEF Taken, Nodes
  <2> QED
    BY <1>1, <2>1, ElementOfSeq
<1>3. PlacesOf(graph) = [i \in 1..Len(graph) |-> graph[i].place]
  BY <1>1 DEF PlacesOf
<1>4. PlacesOf(graph) \in Seq(Places) /\ DOMAIN PlacesOf(graph) = 1..Len(graph)
  BY <1>1, <1>2, <1>3
<1>5. Len(PlacesOf(graph)) = Len(graph)
  BY <1>1, <1>3
<1> QED
  BY <1>1, <1>3, <1>4, <1>5

LEMMA PlacesOfEmpty == PlacesOf(<<>>) = <<>>
<1>1. PlacesOf(<<>>) \in Seq(Places) /\ Len(PlacesOf(<<>>)) = 0
  BY EmptyIsSmall, PlacesOfGraph
<1> QED
  BY <1>1, EmptySeq

LEMMA PlacesOfRemoved ==
  ASSUME NEW graph \in Small, NEW i \in DOMAIN graph
  PROVE  PlacesOf(RemoveAt(graph, i)) \in Store!Shrunk(PlacesOf(graph))
<1> DEFINE left == RemoveAt(graph, i)
           map  == PlacesOf(graph)
<1>1. /\ map \in Seq(Places) /\ Len(map) = Len(graph) /\ Len(graph) \in Nat /\ graph \in Seq(Taken)
      /\ DOMAIN map = 1..Len(graph) /\ i \in 1..Len(graph)
      /\ \A j \in 1..Len(graph) : map[j] = graph[j].place
  BY PlacesOfGraph, LenProperties DEF Small
<1>2. /\ PlacesOf(left) \in Seq(Places) /\ Len(PlacesOf(left)) = Len(graph) - 1
      /\ \A j \in 1..(Len(graph) - 1) : PlacesOf(left)[j] = left[j].place
  <2>1. left \in Small
    BY RemovedIsSmall
  <2>2. Len(left) = Len(graph) - 1
    BY <1>1, RemovedElements
  <2> HIDE DEF left
  <2> QED
    BY <2>1, <2>2, PlacesOfGraph
<1>3. \A j \in 1..(Len(graph) - 1) : left[j] = IF j < i THEN graph[j] ELSE graph[j + 1]
  BY <1>1, RemovedElements
<1>4. /\ RemoveAt(map, i) \in Seq(Places) /\ Len(RemoveAt(map, i)) = Len(graph) - 1
      /\ \A j \in 1..(Len(graph) - 1) : RemoveAt(map, i)[j] = IF j < i THEN map[j] ELSE map[j + 1]
  <2> HIDE DEF map
  <2> QED
    BY <1>1, RemovedElements
<1> HIDE DEF left, map
<1>5. PlacesOf(left) = RemoveAt(map, i)
  <2>1. ASSUME NEW j \in 1..(Len(graph) - 1) PROVE PlacesOf(left)[j] = RemoveAt(map, i)[j]
    <3>1. j \in 1..Len(graph) /\ j + 1 \in 1..Len(graph)
      BY <1>1
    <3> QED
      BY <1>1, <1>2, <1>3, <1>4, <3>1
  <2> QED
    BY <1>2, <1>4, <2>1, SeqEqual
<1>6. Store!RemoveAt(map, i) = RemoveAt(map, i)
  BY DEF Store!RemoveAt, RemoveAt
<1> QED
  BY <1>1, <1>5, <1>6 DEF Store!Shrunk, left, map

LEMMA PlacesOfAppended ==
  ASSUME NEW graph \in Small, NEW n \in Nodes, NEW longer \in Small, longer = Append(graph, n)
  PROVE  PlacesOf(longer) = Append(PlacesOf(graph), n.place)
<1> DEFINE map == PlacesOf(graph)
<1>1. /\ map \in Seq(Places) /\ Len(map) = Len(graph) /\ Len(graph) \in Nat /\ graph \in Seq(Nodes)
      /\ \A j \in 1..Len(graph) : map[j] = graph[j].place
  <2>1. graph \in Seq(Nodes) /\ Len(graph) \in Nat
    BY LenProperties, SeqMonotonic DEF Small, Taken
  <2> QED
    BY <2>1, PlacesOfGraph
<1>2. /\ Len(longer) = Len(graph) + 1 /\ longer[Len(graph) + 1] = n
      /\ \A j \in 1..Len(graph) : longer[j] = graph[j]
  BY <1>1, AppendProperties
<1>3. /\ PlacesOf(longer) \in Seq(Places) /\ Len(PlacesOf(longer)) = Len(graph) + 1
      /\ \A j \in 1..(Len(graph) + 1) : PlacesOf(longer)[j] = longer[j].place
  BY <1>2, PlacesOfGraph
<1> HIDE DEF map
<1>4. n.place \in Places
  BY DEF Nodes
<1>5. /\ Append(map, n.place) \in Seq(Places) /\ Len(Append(map, n.place)) = Len(graph) + 1
      /\ \A j \in 1..Len(graph) : Append(map, n.place)[j] = map[j]
      /\ Append(map, n.place)[Len(graph) + 1] = n.place
  BY <1>1, <1>4, AppendProperties
<1>6. \A j \in 1..(Len(graph) + 1) : PlacesOf(longer)[j] = Append(map, n.place)[j]
  BY <1>1, <1>2, <1>3, <1>5
<1>7. PlacesOf(longer) = Append(map, n.place)
  BY <1>3, <1>5, <1>6, SeqEqual
<1> QED
  BY <1>7 DEF map

\* A node appended to a graph, or to what is left of one.
LEMMA PlacesOfGrown ==
  ASSUME NEW graph \in Small, NEW n \in Nodes, Append(graph, n) \in Small,
         NEW map, PlacesOf(graph) \in {map} \cup Store!Shrunk(map)
  PROVE  PlacesOf(Append(graph, n)) \in Store!Grown(map)
<1>1. PlacesOf(Append(graph, n)) = Append(PlacesOf(graph), n.place) /\ n.place \in Places
  BY PlacesOfAppended DEF Nodes
<1>2. Len(PlacesOf(Append(graph, n))) <= MaxNodes
  <2>1. Len(PlacesOf(Append(graph, n))) = Len(Append(graph, n))
    BY PlacesOfGraph
  <2> QED
    BY <2>1 DEF Small
<1> QED
  BY <1>1, <1>2 DEF Store!Grown

LEMMA MapInFile ==
  ASSUME NEW file \in Small \cup {Absent, Torn}
  PROVE  /\ PlacesOf(Unpickle(file)) \in Seq(Places)
         /\ MapIn(file) = IF file = Absent THEN Absent ELSE PlacesOf(Unpickle(file))
         /\ MapIn(file) \in Seq(Places) \cup {Absent}
         /\ MapIn(file) = Absent <=> file = Absent
         /\ Store!Read(MapIn(file)) = PlacesOf(Unpickle(file))
<1>1. PlacesOf(Unpickle(file)) \in Seq(Places)
  BY UnpickledIsSmall, PlacesOfGraph
<1>2. MapIn(file) = IF file = Absent THEN Absent ELSE PlacesOf(Unpickle(file))
  BY DEF MapIn
<1>3. MapIn(file) = Absent <=> file = Absent
  BY <1>1, <1>2, AbsentAssumption
<1>4. file = Absent => PlacesOf(Unpickle(file)) = <<>>
  BY PlacesOfEmpty DEF Unpickle
<1> QED
  BY <1>1, <1>2, <1>3, <1>4 DEF Store!Read
-----------------------------------------------------------------------------
(* What can be told of the stores *)

View    == [u \in Users |-> PlacesOf(UserGraph(u))]
KeptMap == [u \in Users |-> MapIn(graphFile[u])]
Shelf   == [s \in Names |-> IF saved[s] = Absent THEN Absent
                            ELSE [owner |-> saved[s].owner, map |-> MapIn(saved[s].graph)]]

LEMMA StoredIs == Stored = [view |-> View, kept |-> KeptMap, shelf |-> Shelf, faults |-> faults]
  BY DEF Stored, View, KeptMap, Shelf

Shelved == [owner : Users, map : Seq(Places) \cup {Absent}]

\* What a reader may have been told.
Tellable(w) == /\ w = [view |-> w.view, kept |-> w.kept, shelf |-> w.shelf, faults |-> w.faults]
               /\ w.view \in [Users -> Seq(Places)]
               /\ w.kept \in [Users -> Seq(Places) \cup {Absent}]
               /\ w.shelf \in [Names -> Shelved \cup {Absent}]
               /\ w.faults \in Nat

LEMMA StatesAreThere == Absent \notin States
<1>1. States \subseteq [owner : Users, graph : Seq(Nodes) \cup {Absent, Torn}, images : (SUBSET Images) \cup {Absent}]
  BY SeqMonotonic DEF States, Small, Taken
<1> QED
  BY <1>1, AbsentAssumption

LEMMA StateIsTold ==
  ASSUME StoresOK, NEW s \in Names
  PROVE  /\ saved[s] # Absent => /\ saved[s] \in States
                                 /\ Shelf[s] = [owner |-> saved[s].owner, map |-> MapIn(saved[s].graph)]
                                 /\ Shelf[s] \in Shelved
                                 /\ Shelf[s].map = Absent <=> saved[s].graph = Absent
         /\ saved[s] = Absent => Shelf[s] = Absent
         /\ saved[s] = Absent <=> Shelf[s] = Absent
<1>1. saved[s] # Absent => saved[s] \in States
  BY DEF StoresOK
<1>2. saved[s] # Absent => Shelf[s] = [owner |-> saved[s].owner, map |-> MapIn(saved[s].graph)]
  BY DEF Shelf
<1>3. saved[s] \in States => /\ saved[s].owner \in Users /\ MapIn(saved[s].graph) \in Seq(Places) \cup {Absent}
                             /\ MapIn(saved[s].graph) = Absent <=> saved[s].graph = Absent
  BY MapInFile DEF States
<1>4. saved[s] = Absent => Shelf[s] = Absent
  BY DEF Shelf
<1> QED
  BY <1>1, <1>2, <1>3, <1>4, AbsentAssumption DEF Shelved

LEMMA UserIsTold ==
  ASSUME StoresOK, NEW u \in Users
  PROVE  /\ View[u] = PlacesOf(UserGraph(u)) /\ View[u] \in Seq(Places)
         /\ KeptMap[u] = MapIn(graphFile[u]) /\ KeptMap[u] \in Seq(Places) \cup {Absent}
         /\ graphFile[u] = Absent <=> KeptMap[u] = Absent
         /\ Store!Read(KeptMap[u]) = PlacesOf(Unpickle(graphFile[u]))
<1>1. UserGraph(u) \in Small /\ graphFile[u] \in Small \cup {Absent, Torn}
  BY UserGraphIsSmall DEF StoresOK
<1> QED
  BY <1>1, PlacesOfGraph, MapInFile DEF View, KeptMap

LEMMA StoredIsTellable == ASSUME StoresOK PROVE Tellable(Stored)
<1>1. View \in [Users -> Seq(Places)] /\ KeptMap \in [Users -> Seq(Places) \cup {Absent}]
  BY UserIsTold DEF View, KeptMap
<1>2. Shelf \in [Names -> Shelved \cup {Absent}]
  BY StateIsTold DEF Shelf
<1> HIDE DEF View, KeptMap, Shelf
<1>3. faults \in Nat
  BY DEF StoresOK
<1> QED
  BY <1>1, <1>2, <1>3, StoredIs DEF Tellable

\* What a user's graph and file tell of the user.
LEMMA GraphTells ==
  ASSUME NEW u \in Users, graphs[u] # Absent
  PROVE  View[u] = PlacesOf(graphs[u])
  BY DEF View, UserGraph

LEMMA FileTells ==
  ASSUME NEW u \in Users, graphFile[u] # Absent
  PROVE  KeptMap[u] = PlacesOf(Unpickle(graphFile[u]))
  BY DEF KeptMap, MapIn

\* A step that leaves alone what it is not about.
LEMMA ViewStays ==
  ASSUME NEW u \in Users, graphs'[u] = graphs[u], graphs[u] # Absent \/ graphFile'[u] = graphFile[u]
  PROVE  View'[u] = View[u]
  BY DEF View, UserGraph

LEMMA KeptMapStays ==
  ASSUME NEW u \in Users, graphFile'[u] = graphFile[u]
  PROVE  KeptMap'[u] = KeptMap[u]
  BY DEF KeptMap

LEMMA ShelfStays == ASSUME UNCHANGED saved PROVE Shelf' = Shelf
  BY DEF Shelf

LEMMA StateStays ==
  ASSUME NEW s \in Names, saved'[s] = saved[s]
  PROVE  Shelf'[s] = Shelf[s]
  BY DEF Shelf

LEMMA NothingTold == ASSUME UNCHANGED <<graphs, graphFile, saved>> PROVE View' = View /\ KeptMap' = KeptMap /\ Shelf' = Shelf
  BY DEF View, KeptMap, Shelf, UserGraph

LEMMA OthersAreTheSame ==
  ASSUME NEW u, OnlyFor(u), NEW v \in Users \ {u}
  PROVE  View'[v] = View[v] /\ KeptMap'[v] = KeptMap[v]
  BY DEF OnlyFor, View, KeptMap, UserGraph

LEMMA SameButOne ==
  ASSUME NEW S, NEW f, NEW T, f \in [S -> T], NEW g, NEW R, g \in [S -> R], NEW x \in S,
         \A y \in S \ {x} : f[y] = g[y]
  PROVE  f = [g EXCEPT ![x] = f[x]]
  OBVIOUS
-----------------------------------------------------------------------------
(* Steps of the store *)

\* The store shows w now, and x next.
ToldThen(w, x) == Told = w /\ Told' = x /\ Tellable(w) /\ Tellable(x)

LEMMA Holding ==
  ASSUME NEW w, NEW x, ToldThen(w, x), NEW u \in Users, NEW map,
         \A v \in Users \ {u} : x.view[v] = w.view[v] /\ x.kept[v] = w.kept[v],
         x.view[u] = map, x.kept[u] = map, x.shelf = w.shelf, x.faults = w.faults
  PROVE  Store!Holds(u, map)
<1>1. x.view = [w.view EXCEPT ![u] = map]
  BY SameButOne DEF ToldThen, Tellable
<1>2. x.kept = [w.kept EXCEPT ![u] = map]
  BY SameButOne DEF ToldThen, Tellable
<1>3. Told = w /\ Told' = x
  BY DEF ToldThen
<1> QED
  BY <1>1, <1>2, <1>3 DEF Store!Holds

LEMMA Shelving ==
  ASSUME NEW w, NEW x, ToldThen(w, x), NEW u \in Users, NEW s \in Names,
         \A t \in Names \ {s} : x.shelf[t] = w.shelf[t],
         x.shelf[s] = [owner |-> u, map |-> w.kept[u]],
         x.view = w.view, x.kept = w.kept, x.faults = w.faults
  PROVE  Store!Shelve(u, s)
<1> DEFINE state == [owner |-> u, map |-> w.kept[u]]
<1> HIDE DEF state
<1>1. x.shelf = [w.shelf EXCEPT ![s] = x.shelf[s]]
  BY SameButOne DEF ToldThen, Tellable
<1>2. x.shelf = [w.shelf EXCEPT ![s] = state]
  BY <1>1 DEF state
<1>3. Told = w /\ Told' = x
  BY DEF ToldThen
<1> QED
  BY <1>2, <1>3 DEF Store!Shelve, state

\* What a failure may leave of u's map and of state s, when w was there before.
Left(w, u, s, map)   == map \in Store!Remains(u, s) \cup {w.kept[u]}
OthersSame(w, x, u)  == \A v \in Users \ {u} : x.view[v] = w.view[v] /\ x.kept[v] = w.kept[v]
StatesSame(w, x, s)  == \A t \in Names \ {s} : x.shelf[t] = w.shelf[t]

LEMMA Damaging ==
  ASSUME NEW w, NEW x, ToldThen(w, x), NEW u \in Users, NEW s \in Names, x.faults > w.faults,
         \A v \in Users \ {u} : x.kept[v] = w.kept[v], Left(w, u, s, x.kept[u]),
         StatesSame(w, x, s), x.shelf[s] \in Store!Debris(u, s),
         \/ OthersSame(w, x, u) /\ x.view[u] \in Store!Remains(u, s)
         \/ x.view = [v \in Users |-> Store!Read(x.kept[v])]
  PROVE  Store!Damage(u, s)
<1>1. Told = w /\ Told' = x
  BY DEF ToldThen
<1>2. x.kept = [w.kept EXCEPT ![u] = x.kept[u]]
  BY SameButOne DEF ToldThen, Tellable
<1>3. x.shelf = [w.shelf EXCEPT ![s] = x.shelf[s]]
  BY SameButOne DEF ToldThen, Tellable, StatesSame
<1>4. \/ x.view[u] \in Store!Remains(u, s) /\ x.view = [w.view EXCEPT ![u] = x.view[u]]
      \/ x.view = [v \in Users |-> Store!Read(x.kept[v])]
  BY SameButOne DEF ToldThen, Tellable, OthersSame
<1>5. \E map \in Store!Remains(u, s) \cup {Told.kept[u]} : Told'.kept = [Told.kept EXCEPT ![u] = map]
  BY <1>1, <1>2 DEF Left
<1>6. \E state \in Store!Debris(u, s) : Told'.shelf = [Told.shelf EXCEPT ![s] = state]
  BY <1>1, <1>3
<1>7. \/ \E map \in Store!Remains(u, s) : Told'.view = [Told.view EXCEPT ![u] = map]
      \/ Told'.view = [v \in Users |-> Store!Read(Told'.kept[v])]
  BY <1>1, <1>4
<1> QED
  BY <1>1, <1>5, <1>6, <1>7 DEF Store!Damage

\* A step of the store, or one that it does not see.
Step == Store!Next \/ Told' = Told

LEMMA NextIsStep ==
  ASSUME NEW u \in Users,
         \/ Store!Remember(u) \/ Store!Forget(u)
         \/ \E s \in Names : Store!Shelve(u, s) \/ Store!Unshelve(u, s) \/ Store!Damage(u, s)
  PROVE  Step
  BY DEF Step, Store!Next

-----------------------------------------------------------------------------
(* How far an operation has got from what was told when it began *)

\* A graph is in memory; the file and the saved states are as they were until
\* the file is opened for writing.
TrackAdd == Operation = "add" =>
  /\ Shelf = job.was.shelf
  /\ KeptMap[job.user] = IF job.at = "dump" THEN <<>> ELSE job.was.kept[job.user]
  /\ job.at = "remove_node" => View[job.user] = job.was.view[job.user]
  /\ job.at = "save_image" =>
       View[job.user] \in {job.was.view[job.user]} \cup Store!Shrunk(job.was.view[job.user])
  /\ job.at \in {"truncate", "dump"} => View[job.user] \in Store!Grown(job.was.view[job.user])

\* A reset may follow on a load that failed.
TrackReset == Operation = "reset" =>
  /\ Shelf = job.was.shelf
  /\ graphs[job.user] = <<>>
  /\ job.at = "dump" => KeptMap[job.user] = <<>>
  /\ job.at = "clear" /\ faults = job.was.faults => KeptMap[job.user] = <<>>
  /\ \E s \in Names : Left(job.was, job.user, s, KeptMap[job.user])

\* What a save of u has made of state s where it is at.
SaveAt(at, state, w, u, s) ==
  /\ at = "rmtree" => /\ state \in Shelved /\ w.shelf[s] \in Shelved /\ state.owner = w.shelf[s].owner
                      /\ state.map \in {w.shelf[s].map, Absent}
  /\ at = "mkdir" => state = Absent
  /\ at = "create_copy" => state = [owner |-> u, map |-> Absent] /\ graphFile[u] # Absent
  /\ at = "write_copy" => state = [owner |-> u, map |-> <<>>]
  /\ at = "copy_images" => state = [owner |-> u, map |-> w.kept[u]]

TrackSave == Operation = "save" =>
  /\ View = job.was.view /\ KeptMap = job.was.kept /\ faults = job.was.faults
  /\ \A t \in Names \ {job.name} : Shelf[t] = job.was.shelf[t]
  /\ SaveAt(job.at, Shelf[job.name], job.was, job.user, job.name)

Emptying == {"truncate", "dump", "clear", "open_graph", "restore_graph"}

TrackLoad == Operation = "load" =>
  /\ Shelf = job.was.shelf
  /\ job.at \in Emptying => HasGraph(job.user, job.name) /\ graphs[job.user] = <<>>
  /\ job.at = "truncate" => KeptMap[job.user] = job.was.kept[job.user]
  /\ job.at \in {"dump", "restore_graph"} => KeptMap[job.user] = <<>>
  /\ job.at \in {"clear", "open_graph"} => KeptMap[job.user] \in {job.was.kept[job.user], <<>>}
  /\ job.at \notin Emptying =>
       IF HasGraph(job.user, job.name)
       THEN /\ View[job.user] = Shelf[job.name].map
            /\ KeptMap[job.user] = Shelf[job.name].map
       ELSE /\ View[job.user] = job.was.view[job.user]
            /\ KeptMap[job.user] = job.was.kept[job.user]

OthersTrack == \A v \in Users \ {job.user} :
                 View[v] = job.was.view[v] /\ KeptMap[v] = job.was.kept[v]

TrackOps == TrackAdd /\ TrackReset /\ TrackSave /\ TrackLoad

Track == job # Idle => Tellable(job.was) /\ job.was.faults <= faults /\ OthersTrack /\ TrackOps

LEMMA ToldIs ==
  /\ job = Idle => Told = Stored
  /\ job # Idle => Told = job.was
  /\ job' = Idle => Told' = Stored'
  /\ job' # Idle => Told' = job'.was
  BY DEF Told

LEMMA RemainsAre ==
  ASSUME NEW w, Told = w, NEW u, NEW s
  PROVE  /\ {w.view[u], Store!Read(w.kept[u]), <<>>} \subseteq Store!Remains(u, s)
         /\ Store!Shrunk(w.view[u]) \subseteq Store!Remains(u, s)
         /\ Store!Grown(w.view[u]) \subseteq Store!Remains(u, s)
         /\ w.shelf[s] # Absent => Store!Read(w.shelf[s].map) \in Store!Remains(u, s)
<1> HIDE DEF Store!Shrunk, Store!Grown, Store!Read
<1> QED
  BY DEF Store!Remains

LEMMA DebrisIs ==
  ASSUME NEW w, Told = w, NEW u, NEW s
  PROVE  /\ w.shelf[s] \in Store!Debris(u, s) /\ Absent \in Store!Debris(u, s)
         /\ \A map \in {Absent, <<>>, w.kept[u]} : [owner |-> u, map |-> map] \in Store!Debris(u, s)
         /\ w.shelf[s] # Absent =>
              [owner |-> w.shelf[s].owner, map |-> Absent] \in Store!Debris(u, s)
  BY DEF Store!Debris

\* What an operation may leave behind, wherever it ends.
Loose(w, u, s) == /\ View[u] \in Store!Remains(u, s) /\ Left(w, u, s, KeptMap[u])
                  /\ Shelf[s] \in Store!Debris(u, s)
                  /\ \A t \in Names \ {s} : Shelf[t] = w.shelf[t]

LEMMA AddLoose ==
  ASSUME IInv, Operation = "add", TrackAdd, NEW w, w = job.was, Told = w, NEW u, u = job.user, NEW s \in Names
  PROVE  Loose(w, u, s)
<1>1. job.at \in {"remove_node", "save_image", "truncate", "dump"}
  BY OperationAt
<1>2. View[u] \in Store!Remains(u, s)
  BY <1>1, RemainsAre DEF TrackAdd
<1>3. KeptMap[u] \in {<<>>, w.kept[u]}
  BY DEF TrackAdd
<1>4. Left(w, u, s, KeptMap[u])
  BY <1>3, RemainsAre DEF Left
<1>5. Shelf = w.shelf
  BY DEF TrackAdd
<1> QED
  BY <1>2, <1>4, <1>5, DebrisIs DEF Loose

LEMMA ResetLoose ==
  ASSUME IInv, Operation = "reset", TrackReset, NEW w, w = job.was, Told = w, NEW u, u = job.user
  PROVE  \E s \in Names : Loose(w, u, s)
<1>1. PICK s \in Names : Left(w, u, s, KeptMap[u])
  BY DEF TrackReset
<1>2. u \in Users /\ graphs[u] = <<>> /\ Shelf = w.shelf
  BY JobKinds DEF TrackReset
<1>3. View[u] = <<>>
  BY <1>2, GraphTells, EmptyIsSmall, SmallIsNeither, PlacesOfEmpty
<1> QED
  BY <1>1, <1>2, <1>3, RemainsAre, DebrisIs DEF Loose

LEMMA SaveLoose ==
  ASSUME IInv, Operation = "save", TrackSave, NEW w, w = job.was, Tellable(w), Told = w, NEW u, u = job.user,
         NEW s, s = job.name
  PROVE  Loose(w, u, s)
<1>1. job.at \in SaveAts /\ View[u] = w.view[u] /\ KeptMap[u] = w.kept[u]
  BY OperationAt DEF TrackSave
<1>2. Shelf[s] \in Store!Debris(u, s)
  <2>1. CASE job.at = "rmtree"
    <3>1. /\ Shelf[s] \in Shelved /\ w.shelf[s] \in Shelved /\ Shelf[s].owner = w.shelf[s].owner
          /\ Shelf[s].map \in {w.shelf[s].map, Absent}
      BY <2>1 DEF TrackSave, SaveAt
    <3>2. Shelf[s] \in {w.shelf[s], [owner |-> w.shelf[s].owner, map |-> Absent]}
      BY <3>1 DEF Shelved
    <3>3. w.shelf[s] # Absent
      BY <3>1, AbsentAssumption DEF Shelved
    <3> QED
      BY <3>2, <3>3, DebrisIs
  <2>2. CASE job.at = "mkdir"
    BY <2>2, DebrisIs DEF TrackSave, SaveAt
  <2>3. CASE job.at \in {"create_copy", "write_copy", "copy_images"}
    <3>1. PICK map \in {Absent, <<>>, w.kept[u]} : Shelf[s] = [owner |-> u, map |-> map]
      BY <2>3 DEF TrackSave, SaveAt
    <3> QED
      BY <3>1, DebrisIs
  <2> QED
    BY <1>1, <2>1, <2>2, <2>3 DEF SaveAts
<1>3. View[u] \in Store!Remains(u, s) /\ Left(w, u, s, KeptMap[u])
  BY <1>1, RemainsAre DEF Left
<1> QED
  BY <1>2, <1>3 DEF Loose, TrackSave

LEMMA LoadLoose ==
  ASSUME IInv, Operation = "load", TrackLoad, NEW w, w = job.was, Told = w, NEW u, u = job.user,
         NEW s, s = job.name
  PROVE  Loose(w, u, s)
<1>1. Shelf = w.shelf /\ u \in Users /\ s \in Names /\ saved[s] # Absent
  <2>1. Loading
    BY JobKinds
  <2>2. saved[s] \in States
    BY <2>1 DEF Loading
  <2>3. saved[s] # Absent
    BY <2>2, StatesAreThere
  <2> QED
    BY <2>3, JobKinds DEF TrackLoad
<1>2. View[u] \in Store!Remains(u, s) /\ Left(w, u, s, KeptMap[u])
  <2>1. CASE job.at \in Emptying
    <3>1. graphs[u] = <<>> /\ KeptMap[u] \in {<<>>, w.kept[u]}
      BY <2>1 DEF TrackLoad, Emptying
    <3>2. View[u] = <<>>
      BY <1>1, <3>1, GraphTells, EmptyIsSmall, SmallIsNeither, PlacesOfEmpty
    <3> QED
      BY <3>1, <3>2, RemainsAre DEF Left
  <2>2. CASE job.at \notin Emptying /\ HasGraph(u, s)
    <3>1. View[u] = w.shelf[s].map /\ KeptMap[u] = w.shelf[s].map /\ w.shelf[s] # Absent
      BY <1>1, <2>2, StateIsTold DEF TrackLoad, IInv
    <3>2. w.shelf[s].map \in Seq(Places)
      BY <1>1, <3>1, UserIsTold DEF IInv
    <3>3. Store!Read(w.shelf[s].map) = w.shelf[s].map
      BY <3>2, AbsentAssumption DEF Store!Read
    <3> QED
      BY <3>1, <3>3, RemainsAre DEF Left
  <2>3. CASE job.at \notin Emptying /\ ~HasGraph(u, s)
    <3>1. View[u] = w.view[u] /\ KeptMap[u] = w.kept[u]
      BY <2>3 DEF TrackLoad
    <3> QED
      BY <3>1, RemainsAre DEF Left
  <2> QED
    BY <2>1, <2>2, <2>3
<1> QED
  BY <1>1, <1>2, DebrisIs DEF Loose

LEMMA TrackLoose ==
  ASSUME IInv, Track, job # Idle, NEW w, w = job.was, NEW u, u = job.user
  PROVE  \E s \in Names : Loose(w, u, s)
<1>1. Told = w /\ TrackOps /\ Tellable(w)
  BY ToldIs DEF Track
<1>2. CASE Operation = "add"
  <2>1. PICK s \in Names : TRUE
    BY AbsentAssumption
  <2> QED
    BY <1>1, <1>2, AddLoose DEF TrackOps
<1>3. CASE Operation = "reset"
  BY <1>1, <1>3, ResetLoose DEF TrackOps
<1>4. CASE Operation \in {"save", "load"}
  BY <1>1, <1>4, SaveLoose, LoadLoose, JobKinds DEF TrackOps
<1> QED
  BY <1>2, <1>3, <1>4, JobKinds
-----------------------------------------------------------------------------
(* How an operation begins, goes on and ends for the store *)

LEMMA NextIsTellable == StoresOK' => Tellable(Stored')
<1>1. StoresOK => Tellable(Stored)
  BY StoredIsTellable
<1>2. (StoresOK => Tellable(Stored))'
  BY <1>1, PTL
<1> QED
  BY <1>2 DEF Tellable

LEMMA NextStored == Stored' = [view |-> View', kept |-> KeptMap', shelf |-> Shelf', faults |-> faults']
  BY DEF Stored, View, KeptMap, Shelf, UserGraph

LEMMA EndedTracks == ASSUME Finish PROVE Track'
  BY DEF Finish, Track

LEMMA EndsDamaged ==
  ASSUME IInv, IInv', Track, job # Idle, Finish, NEW u, u = job.user, faults' > job.was.faults,
         View' = View, Shelf' = Shelf, \A v \in Users \ {u} : KeptMap'[v] = KeptMap[v],
         KeptMap'[u] \in {KeptMap[u], View[u]}
  PROVE  Step
<1>1. PICK w : w = job.was
  OBVIOUS
<1>2. PICK x : x = Stored'
  OBVIOUS
<1>3. ToldThen(w, x)
  BY <1>1, <1>2, NextIsTellable, ToldIs DEF ToldThen, Track, Finish, IInv
<1>4. x.view = View /\ x.shelf = Shelf /\ x.kept = KeptMap' /\ x.faults = faults'
  BY <1>2, NextStored
<1>5. PICK s \in Names : Loose(w, u, s)
  BY <1>1, TrackLoose
<1>6. u \in Users /\ OthersSame(w, x, u) /\ \A v \in Users \ {u} : x.kept[v] = w.kept[v]
  BY <1>1, <1>4, JobKinds DEF Track, OthersTrack, OthersSame
<1>7. /\ x.view[u] \in Store!Remains(u, s) /\ Left(w, u, s, x.kept[u])
      /\ x.shelf[s] \in Store!Debris(u, s) /\ StatesSame(w, x, s)
  BY <1>4, <1>5 DEF Loose, Left, StatesSame
<1>8. Store!Damage(u, s)
  <2>1. x.faults > w.faults
    BY <1>1, <1>4
  <2>2. OthersSame(w, x, u) /\ x.view[u] \in Store!Remains(u, s)
    BY <1>6, <1>7
  <2> QED
    BY <1>3, <1>6, <1>7, <2>1, <2>2, Damaging, Zenon
<1> QED
  BY <1>6, <1>8, NextIsStep

\* An operation in which something failed, and that ends having told nothing new.
LEMMA LateEnds ==
  ASSUME IInv, IInv', Track, job # Idle, Finish, faults' > job.was.faults,
         UNCHANGED graphs, UNCHANGED graphFile, UNCHANGED saved
  PROVE  Step /\ Track'
<1>1. View' = View /\ Shelf' = Shelf /\ KeptMap' = KeptMap
  BY NothingTold
<1>2. PICK u : u = job.user
  OBVIOUS
<1> QED
  BY <1>1, <1>2, EndsDamaged, EndedTracks

\* An operation that a fault ends.
LEMMA FaultEnds ==
  ASSUME IInv, IInv', Track, job # Idle, Finish, Fault,
         UNCHANGED graphs, UNCHANGED graphFile, UNCHANGED saved
  PROVE  Step /\ Track'
<1>1. faults \in Nat /\ job.was.faults \in Nat /\ job.was.faults <= faults
  BY DEF Track, IInv, StoresOK, Tellable
<1>2. faults' > job.was.faults
  BY <1>1 DEF Fault
<1> QED
  BY <1>2, LateEnds

\* An operation that ends without a fault, and is all of it.
LEMMA EndsHolding ==
  ASSUME IInv, IInv', Track, job # Idle, Finish, NEW u, u = job.user, faults' = job.was.faults,
         NEW map, View'[u] = map, KeptMap'[u] = map, Shelf' = job.was.shelf,
         \A v \in Users \ {u} : View'[v] = View[v] /\ KeptMap'[v] = KeptMap[v]
  PROVE  u \in Users /\ Store!Holds(u, map)
<1>1. PICK w : w = job.was
  OBVIOUS
<1>2. PICK x : x = Stored'
  OBVIOUS
<1>3. ToldThen(w, x)
  BY <1>1, <1>2, NextIsTellable, ToldIs DEF ToldThen, Track, Finish, IInv
<1>4. x.view = View' /\ x.shelf = Shelf' /\ x.kept = KeptMap' /\ x.faults = faults'
  BY <1>2, NextStored
<1>5. u \in Users /\ \A v \in Users \ {u} : x.view[v] = w.view[v] /\ x.kept[v] = w.kept[v]
  BY <1>1, <1>4, JobKinds DEF Track, OthersTrack
<1> QED
  BY <1>1, <1>3, <1>4, <1>5, Holding

\* An operation that begins is not seen yet.
LEMMA BeginsUnseen ==
  ASSUME IInv, job = Idle, job' # Idle, job'.was = Stored
  PROVE  Step
  BY ToldIs DEF Step

\* Nor is one that goes on.
LEMMA GoesUnseen ==
  ASSUME job # Idle, job' # Idle, job'.was = job.was
  PROVE  Step
  BY ToldIs DEF Step

\* It goes on with only its own user changed.
LEMMA TracksOn ==
  ASSUME IInv, Track, job # Idle, job' # Idle, job'.was = job.was, job'.user = job.user,
         Smooth \/ Fault, NEW u, u = job.user, OnlyFor(u), TrackOps'
  PROVE  Step /\ Track'
<1>1. PICK w : w = job.was
  OBVIOUS
<1>2. Tellable(w) /\ w.faults <= faults
  BY <1>1 DEF Track
<1>3. w.faults <= faults'
  <2>1. faults \in Nat /\ w.faults \in Nat
    BY <1>2 DEF IInv, StoresOK, Tellable
  <2> QED
    BY <1>2, <2>1 DEF Smooth, Fault
<1>4. \A v \in Users \ {u} : View'[v] = w.view[v] /\ KeptMap'[v] = w.kept[v]
  BY <1>1, OthersAreTheSame DEF Track, OthersTrack
<1>5. OthersTrack'
  BY <1>1, <1>4 DEF OthersTrack
<1>6. Tellable(job.was)'
  BY <1>1, <1>2 DEF Tellable
<1> QED
  BY <1>1, <1>3, <1>5, <1>6, GoesUnseen DEF Track

\* The first step of an operation.
LEMMA TracksFirst ==
  ASSUME IInv, job = Idle, job' # Idle, job'.was = Stored, UNCHANGED faults, NEW u, u = job'.user, OnlyFor(u), TrackOps'
  PROVE  Step /\ Track'
<1>1. PICK w : w = Stored
  OBVIOUS
<1>2. Tellable(w) /\ w.faults <= faults /\ w.view = View /\ w.kept = KeptMap
  BY <1>1, StoredIsTellable, StoredIs DEF IInv, StoresOK
<1>3. \A v \in Users \ {u} : View'[v] = w.view[v] /\ KeptMap'[v] = w.kept[v]
  BY <1>2, OthersAreTheSame
<1>4. OthersTrack'
  BY <1>1, <1>3 DEF OthersTrack
<1>5. Tellable(job.was)'
  BY <1>1, <1>2 DEF Tellable
<1> QED
  BY <1>1, <1>2, <1>4, <1>5, BeginsUnseen DEF Track
-----------------------------------------------------------------------------
(* A pose image, as a step of the store *)

LEMMA LoadingTellsNothing ==
  ASSUME StoresOK, NEW u \in Users, Loads(u), UNCHANGED <<graphFile, saved>>
  PROVE  View' = View /\ KeptMap' = KeptMap /\ Shelf' = Shelf /\ graphs'[u] # Absent
<1>1. graphs' = [graphs EXCEPT ![u] = UserGraph(u)] /\ UserGraph(u) \in Small /\ UserGraph(u) # Absent
  BY UserGraphIsSmall, SmallIsNeither DEF Loads
<1>2. graphs'[u] = UserGraph(u) /\ \A v \in Users \ {u} : graphs'[v] = graphs[v]
  BY <1>1 DEF StoresOK
<1>3. \A v \in Users : UserGraph(v)' = UserGraph(v)
  BY <1>1, <1>2 DEF UserGraph
<1>4. View' = View
  BY <1>3 DEF View
<1> QED
  BY <1>1, <1>2, <1>4 DEF KeptMap, Shelf

LEMMA PoseImageTracks ==
  ASSUME IInv, IInv', Track, NEW u \in Users, NEW p \in Visits[u], PoseImage(u, p)
  PROVE  Step /\ Track'
<1>1. job = Idle /\ Loads(u) /\ UNCHANGED <<graphFile, files, saved, faults>>
  BY DEF PoseImage
<1>2. PICK at \in {"save_image", "remove_node"} :
        \E node, victim, faded : Adds(at, u, node, victim, faded)
  BY DEF PoseImage
<1>3. job' # Idle /\ job'.at = at /\ Operation' = "add" /\ job'.user = u /\ job'.was = Stored
  BY <1>2, BeginningToAdd
<1>4. View' = View /\ KeptMap' = KeptMap /\ Shelf' = Shelf
  BY <1>1, LoadingTellsNothing DEF IInv
<1>5. OnlyFor(u)
  BY <1>1, FileOnlyFor DEF Loads
<1>6. Stored.view = View /\ Stored.kept = KeptMap /\ Stored.shelf = Shelf
  BY StoredIs
<1>7. TrackAdd'
  BY <1>3, <1>4, <1>6 DEF TrackAdd
<1>8. TrackOps'
  BY <1>3, <1>7 DEF TrackOps, TrackReset, TrackSave, TrackLoad
<1> QED
  BY <1>1, <1>3, <1>5, <1>8, TracksFirst

LEMMA GetUserGraphTracks ==
  ASSUME IInv, IInv', Track, NEW u \in Users, GetUserGraph(u)
  PROVE  Step /\ Track'
<1>1. job = Idle /\ job' = Idle /\ Loads(u) /\ UNCHANGED <<graphFile, files, saved, faults>>
  BY DEF GetUserGraph
<1>2. Stored' = Stored
  BY <1>1, LoadingTellsNothing, StoredIs, NextStored DEF IInv
<1> QED
  BY <1>1, <1>2, ToldIs DEF Step, Track

LEMMA RemoveNodeTracks == ASSUME IInv, IInv', Track, RemoveNode PROVE Step /\ Track'
<1>1. PICK u, w : u = job.user /\ w = job.was
  OBVIOUS
<1>2. Operation = "add" /\ job.at = "remove_node" /\ UNCHANGED <<graphFile, saved>> /\ (Smooth \/ Fault)
  BY OperationAt DEF RemoveNode
<1>3. job # Idle /\ u \in Users /\ graphs[u] \in Small /\ job.victim \in DOMAIN graphs[u]
  BY <1>1, <1>2, JobKinds DEF Adding
<1>4. /\ job' # Idle /\ job'.at = "save_image" /\ Operation' = "add" /\ job'.user = u /\ job'.was = w
  BY <1>1, <1>2, <1>3, Going DEF RemoveNode
<1>5. /\ graphs' = [graphs EXCEPT ![u] = RemoveAt(graphs[u], job.victim)]
      /\ (files' = files \/ \E dir : files' = [files EXCEPT ![u] = dir])
  BY <1>1 DEF RemoveNode
<1>6. OnlyFor(u) /\ graphs'[u] = RemoveAt(graphs[u], job.victim)
  BY <1>2, <1>3, <1>5, FileOnlyFor DEF IInv, StoresOK
<1>7. View[u] = PlacesOf(graphs[u]) /\ View[u] = w.view[u]
  BY <1>1, <1>2, <1>3, SmallIsNeither, GraphTells DEF Track, TrackOps, TrackAdd
<1>8. View'[u] \in Store!Shrunk(w.view[u])
  <2>1. RemoveAt(graphs[u], job.victim) # Absent
    BY <1>3, RemovedIsSmall, SmallIsNeither
  <2>2. View'[u] = PlacesOf(RemoveAt(graphs[u], job.victim))
    BY <1>3, <1>6, <2>1 DEF View, UserGraph
  <2> QED
    BY <1>3, <1>7, <2>2, PlacesOfRemoved
<1>9. Shelf' = Shelf /\ Shelf = w.shelf /\ KeptMap'[u] = KeptMap[u] /\ KeptMap[u] = w.kept[u]
  BY <1>1, <1>2, <1>3, ShelfStays, KeptMapStays DEF Track, TrackOps, TrackAdd
<1>10. TrackOps'
  BY <1>4, <1>8, <1>9 DEF TrackOps, TrackAdd, TrackReset, TrackSave, TrackLoad
<1> QED
  BY <1>1, <1>2, <1>3, <1>4, <1>6, <1>10, TracksOn

LEMMA SaveImageTracks == ASSUME IInv, IInv', Track, SaveImage PROVE Step /\ Track'
<1>1. PICK u, w : u = job.user /\ w = job.was
  OBVIOUS
<1>2. Operation = "add" /\ job.at = "save_image" /\ UNCHANGED <<graphFile, saved>>
  BY OperationAt DEF SaveImage
<1>3. /\ job # Idle /\ u \in Users /\ graphs[u] \in Small
      /\ job.node \in [place : Places, image : Images]
  BY <1>1, <1>2, JobKinds DEF Adding, AddJobs
<1>4. CASE Finish /\ Fault /\ UNCHANGED graphs
  <2>1. UNCHANGED <<graphs, graphFile, saved>> /\ job # Idle /\ Finish
    BY <1>2, <1>3, <1>4
  <2> QED
    BY <1>4, <2>1, FaultEnds
<1>5. ASSUME NEW image \in {job.node.image, NoImage}, AddsNode(u, image), Goto("truncate"), Smooth \/ Fault,
             \E dir : files' = [files EXCEPT ![u] = dir]
      PROVE  Step /\ Track'
  <2>1. PICK n \in Nodes : n = [job.node EXCEPT !.image = image]
    BY <1>3 DEF Nodes
  <2>2. graphs' = [graphs EXCEPT ![u] = Append(graphs[u], n)]
    BY <1>5, <2>1 DEF AddsNode
  <2>3. job' # Idle /\ job'.at = "truncate" /\ Operation' = "add" /\ job'.user = u /\ job'.was = w
    BY <1>1, <1>2, <1>3, <1>5, Going
  <2>4. OnlyFor(u) /\ graphs'[u] = Append(graphs[u], n)
    BY <1>2, <1>3, <1>5, <2>2, FileOnlyFor DEF IInv, StoresOK
  <2>5. Append(graphs[u], n) \in Small /\ Append(graphs[u], n) # Absent
    <3>1. Adding'
      BY <2>3, JobKinds DEF IInv, JobOK, Adding, Resetting, Saving, Loading, AddJobs, Jobs, Operation
    <3> QED
      BY <2>3, <2>4, <3>1, SmallIsNeither DEF Adding
  <2>6. View[u] = PlacesOf(graphs[u]) /\ View[u] \in {w.view[u]} \cup Store!Shrunk(w.view[u])
    BY <1>1, <1>2, <1>3, SmallIsNeither, GraphTells DEF Track, TrackOps, TrackAdd
  <2>7. View'[u] = PlacesOf(Append(graphs[u], n))
    BY <1>3, <2>4, <2>5 DEF View, UserGraph
  <2>8. View'[u] \in Store!Grown(w.view[u])
    BY <1>3, <2>1, <2>5, <2>6, <2>7, PlacesOfGrown
  <2>9. Shelf' = Shelf /\ Shelf = w.shelf /\ KeptMap'[u] = KeptMap[u] /\ KeptMap[u] = w.kept[u]
    BY <1>1, <1>2, <1>3, ShelfStays, KeptMapStays DEF Track, TrackOps, TrackAdd
  <2>10. TrackOps'
    BY <2>3, <2>8, <2>9 DEF TrackOps, TrackAdd, TrackReset, TrackSave, TrackLoad
  <2> QED
    BY <1>1, <1>2, <1>3, <1>5, <2>3, <2>4, <2>10, TracksOn
<1> QED
  BY <1>1, <1>4, <1>5 DEF SaveImage
-----------------------------------------------------------------------------
(* The graph file, and a reset, as steps of the store *)

LEMMA LeftStays ==
  ASSUME Told' = Told, NEW w, NEW u, NEW s, NEW map
  PROVE  Left(w, u, s, map)' <=> Left(w, u, s, map)
  BY DEF Left, Store!Remains, Store!Grown, Store!Shrunk, Store!Read

LEMMA EmptyIsLeft ==
  ASSUME NEW w, Told = w, NEW u, NEW s
  PROVE  Left(w, u, s, <<>>) /\ Left(w, u, s, w.kept[u])
  BY RemainsAre DEF Left

\* Only pictures come or go.
LEMMA PicturesUnseen ==
  ASSUME IInv, Track, job # Idle, UNCHANGED graphs, UNCHANGED graphFile, UNCHANGED saved,
         UNCHANGED job, UNCHANGED faults
  PROVE  Step /\ Track'
<1>1. View' = View /\ Shelf' = Shelf /\ KeptMap' = KeptMap
  BY NothingTold
<1>2. Operation' = Operation /\ Told' = Told
  BY ToldIs DEF Operation
<1>3. PICK w, u, map : w = job.was /\ u = job.user /\ map = KeptMap[u]
  OBVIOUS
<1>4. TrackReset'
  <2>1. ASSUME Operation = "reset" PROVE \E s \in Names : Left(w, u, s, map)'
    BY <1>2, <1>3, <2>1, LeftStays DEF Track, TrackOps, TrackReset
  <2> QED
    BY <1>1, <1>2, <1>3, <2>1 DEF Track, TrackOps, TrackReset
<1>5. TrackAdd' /\ TrackSave'
  BY <1>1, <1>2 DEF Track, TrackOps, TrackAdd, TrackSave, SaveAt
<1>6. TrackLoad'
  BY <1>1, <1>2 DEF Track, TrackOps, TrackLoad, HasGraph
<1>7. Tellable(job.was)' /\ OthersTrack'
  BY <1>1, <1>3 DEF Track, OthersTrack, Tellable
<1> QED
  BY <1>2, <1>4, <1>5, <1>6, <1>7 DEF Track, TrackOps, Step

\* What is known where the graph is written.
LEMMA WritingFinds ==
  ASSUME IInv, Track, job.at \in {"truncate", "dump"}, NEW u, u = job.user, NEW w, w = job.was,
         UNCHANGED graphs, UNCHANGED saved
  PROVE  /\ Operation \in {"add", "reset", "load"} /\ Operation = job.op /\ job # Idle /\ u \in Users
         /\ graphs[u] \in Small /\ View[u] = PlacesOf(graphs[u]) /\ View'[u] = View[u]
         /\ Shelf' = Shelf /\ Shelf = w.shelf /\ Told = w /\ TrackOps
<1>1. Operation \in {"add", "reset", "load"} /\ job # Idle /\ u \in Users /\ graphs[u] \in Small
  BY OperationAt, JobKinds, WritesSmall
<1>2. Operation = job.op
  BY <1>1 DEF Operation
<1>3. View[u] = PlacesOf(graphs[u]) /\ View'[u] = View[u]
  BY <1>1, SmallIsNeither, GraphTells, ViewStays
<1>4. Shelf' = Shelf /\ Told = w /\ TrackOps
  BY <1>1, ShelfStays, ToldIs DEF Track
<1>5. Shelf = w.shelf
  BY <1>1, <1>4 DEF TrackOps, TrackAdd, TrackReset, TrackLoad
<1> QED
  BY <1>1, <1>2, <1>3, <1>4, <1>5

\* A reset, or a load, writes the empty graph.
LEMMA EmptyingTracks ==
  ASSUME IInv, IInv', Track, job.at \in {"truncate", "dump"}, Operation \in {"reset", "load"},
         NEW u, u = job.user, OnlyFor(u), UNCHANGED graphs, UNCHANGED saved, Smooth \/ Fault,
         NEW at \in {"dump", "clear"}, Goto(at),
         NEW map, map = KeptMap'[u], map \in {<<>>, KeptMap[u]}, map # <<>> => at = "clear" /\ Fault
  PROVE  Step /\ Track'
<1>1. PICK w : w = job.was
  OBVIOUS
<1>2. /\ job # Idle /\ u \in Users /\ Shelf' = Shelf /\ Shelf = w.shelf /\ Told = w /\ TrackOps
  BY <1>1, WritingFinds
<1>3. /\ job' # Idle /\ job'.at = at /\ Operation' = Operation /\ job'.user = u /\ job'.was = w
      /\ job'.name = job.name
  BY <1>1, <1>2, Going
<1>5. CASE Operation = "reset"
  <2>1. graphs'[u] = <<>>
    BY <1>2, <1>5 DEF TrackOps, TrackReset
  <2>2. at = "clear" /\ faults' = w.faults => map = <<>>
    <3>1. Fault => faults' > w.faults
      BY <1>1, <1>2 DEF Track, Fault, IInv, StoresOK, Tellable
    <3>2. faults' > w.faults /\ w.faults \in Nat => faults' # w.faults
      OBVIOUS
    <3>3. w.faults \in Nat
      BY <1>1, <1>2 DEF Track, Tellable
    <3> QED
      BY <3>1, <3>2, <3>3
  <2>3. \E s \in Names : Left(w, u, s, map)
    <3>1. CASE map = <<>>
      BY <1>2, <3>1, EmptyIsLeft, AbsentAssumption
    <3>2. CASE map = KeptMap[u]
      BY <1>1, <1>2, <1>5, <3>2 DEF TrackOps, TrackReset
    <3> QED
      BY <3>1, <3>2
  <2>4. Told' = Told
    BY <1>2, <1>3, ToldIs
  <2>5. \E s \in Names : Left(w, u, s, map)'
    BY <2>3, <2>4, LeftStays
  <2>6. TrackReset'
    BY <1>2, <1>3, <2>1, <2>2, <2>5 DEF TrackReset
  <2>7. TrackOps'
    BY <1>3, <1>5, <2>6 DEF TrackOps, TrackAdd, TrackSave, TrackLoad
  <2> QED
    BY <1>1, <1>2, <1>3, <2>7, TracksOn
<1>6. CASE Operation = "load"
  <2>1. /\ HasGraph(u, job.name) /\ graphs[u] = <<>>
        /\ job.at = "truncate" => KeptMap[u] = w.kept[u]
        /\ job.at = "dump" => KeptMap[u] = <<>>
    BY <1>1, <1>2, <1>6 DEF TrackOps, TrackLoad, Emptying
  <2>2. map \in {w.kept[u], <<>>} /\ (at = "dump" => map = <<>>)
    BY <2>1
  <2>3. HasGraph(u, job.name)'
    BY <1>3, <2>1 DEF HasGraph
  <2>4. TrackLoad'
    BY <1>2, <1>3, <2>1, <2>2, <2>3 DEF TrackLoad, Emptying, HasGraph
  <2>5. TrackOps'
    BY <1>3, <1>6, <2>4 DEF TrackOps, TrackAdd, TrackSave, TrackReset
  <2> QED
    BY <1>1, <1>2, <1>3, <2>5, TracksOn
<1> QED
  BY <1>5, <1>6

LEMMA TruncateTracks == ASSUME IInv, IInv', Track, Truncate PROVE Step /\ Track'
<1>1. PICK u, w : u = job.user /\ w = job.was
  OBVIOUS
<1>2. job.at = "truncate" /\ UNCHANGED <<graphs, files, saved>>
  BY DEF Truncate
<1>3. /\ Operation \in {"add", "reset", "load"} /\ Operation = job.op /\ job # Idle /\ u \in Users
      /\ View'[u] = View[u] /\ Shelf' = Shelf /\ TrackOps
  BY <1>1, <1>2, WritingFinds
<1>4. CASE graphFile' = [graphFile EXCEPT ![u] = Torn] /\ Goto("dump") /\ Smooth
  <2>1. OnlyFor(u) /\ graphFile'[u] = Torn
    BY <1>2, <1>3, <1>4, FileOnlyFor DEF IInv, StoresOK
  <2>2. KeptMap'[u] = <<>>
    BY <1>3, <2>1, MemoryAssumption, PlacesOfEmpty DEF KeptMap, MapIn, Unpickle
  <2>3. CASE Operation = "add"
    <3>1. /\ job' # Idle /\ job'.at = "dump" /\ Operation' = "add" /\ job'.user = u /\ job'.was = w
      BY <1>1, <1>3, <1>4, <2>3, Going
    <3>2. TrackAdd'
      BY <1>1, <1>2, <1>3, <2>2, <2>3, <3>1 DEF TrackOps, TrackAdd
    <3>3. TrackOps'
      BY <3>1, <3>2 DEF TrackOps, TrackReset, TrackSave, TrackLoad
    <3> QED
      BY <1>1, <1>3, <1>4, <2>1, <3>1, <3>3, TracksOn
  <2>4. CASE Operation \in {"reset", "load"}
    <3>1. job.at \in {"truncate", "dump"} /\ UNCHANGED graphs /\ UNCHANGED saved
      BY <1>2
    <3>2. Smooth \/ Fault
      BY <1>4
    <3> QED
      BY <1>1, <1>4, <2>1, <2>2, <2>4, <3>1, <3>2, EmptyingTracks
  <2> QED
    BY <1>3, <2>3, <2>4
<1>5. CASE UNCHANGED graphFile /\ Written /\ Fault
  <2>1. OnlyFor(u) /\ KeptMap'[u] = KeptMap[u]
    BY <1>2, <1>3, <1>5, FileOnlyFor, KeptMapStays
  <2>2. CASE Operation = "add"
    BY <1>2, <1>3, <1>5, <2>2, FaultEnds DEF Written
  <2>3. CASE Operation \in {"reset", "load"}
    <3>1. Goto("clear")
      BY <1>3, <1>5, <2>3 DEF Written
    <3> QED
      BY <1>1, <1>2, <1>5, <2>1, <2>3, <3>1, EmptyingTracks
  <2> QED
    BY <1>3, <2>2, <2>3
<1> QED
  BY <1>1, <1>4, <1>5 DEF Truncate

\* What was added is remembered, or damaged if something failed on the way.
LEMMA AddEnds ==
  ASSUME IInv, IInv', Track, Operation = "add", job.at = "dump", Finish, Smooth,
         UNCHANGED graphs, UNCHANGED saved, NEW u, u = job.user,
         graphFile' = [graphFile EXCEPT ![u] = graphs[u]]
  PROVE  Step /\ Track'
<1>1. PICK w : w = job.was
  OBVIOUS
<1>2. /\ job # Idle /\ u \in Users /\ graphs[u] \in Small /\ View[u] = PlacesOf(graphs[u])
      /\ View'[u] = View[u] /\ Shelf' = Shelf /\ Shelf = w.shelf /\ Told = w /\ TrackOps
  BY <1>1, WritingFinds
<1>3. graphFile'[u] = graphs[u] /\ graphs[u] # Absent /\ graphs[u] # Torn
  BY <1>2, SmallIsNeither DEF IInv, StoresOK
<1>4. KeptMap'[u] = View[u]
  BY <1>2, <1>3 DEF KeptMap, MapIn, Unpickle
<1>5. \A v \in Users \ {u} : View'[v] = View[v] /\ KeptMap'[v] = KeptMap[v]
  <2>1. \A v \in Users \ {u} : graphFile'[v] = graphFile[v] /\ graphs'[v] = graphs[v]
    BY <1>2 DEF IInv, StoresOK
  <2> QED
    BY <2>1, ViewStays, KeptMapStays
<1>6. CASE faults' = w.faults
  <2>1. PICK map : map = View[u]
    OBVIOUS
  <2>2. Store!Holds(u, map)
    BY <1>1, <1>2, <1>4, <1>5, <1>6, <2>1, EndsHolding
  <2>3. map \in Store!Grown(Told.view[u])
    BY <1>1, <1>2, <2>1 DEF TrackOps, TrackAdd
  <2>4. Store!Remember(u)
    BY <2>2, <2>3 DEF Store!Remember
  <2> QED
    BY <1>2, <2>4, NextIsStep, EndedTracks
<1>7. CASE faults' # w.faults
  <2>1. faults' > w.faults
    BY <1>1, <1>2, <1>7 DEF Smooth, Track, Tellable, IInv, StoresOK
  <2>2. View' = View
    BY <1>2, <1>5 DEF View
  <2> QED
    BY <1>1, <1>2, <1>4, <1>5, <2>1, <2>2, EndsDamaged, EndedTracks
<1> QED
  BY <1>6, <1>7

LEMMA DumpTracks == ASSUME IInv, IInv', Track, Dump PROVE Step /\ Track'
<1>1. PICK u, w : u = job.user /\ w = job.was
  OBVIOUS
<1>2. job.at = "dump" /\ UNCHANGED graphs /\ UNCHANGED files /\ UNCHANGED saved /\ Written
  BY DEF Dump
<1>3. /\ Operation \in {"add", "reset", "load"} /\ Operation = job.op /\ job # Idle /\ u \in Users
      /\ graphs[u] \in Small /\ TrackOps
  BY <1>1, <1>2, WritingFinds
<1>4. CASE graphFile' = [graphFile EXCEPT ![u] = graphs[u]] /\ Smooth
  <2>1. OnlyFor(u) /\ graphFile'[u] = graphs[u]
    BY <1>2, <1>3, <1>4, FileOnlyFor DEF IInv, StoresOK
  <2>2. CASE Operation = "add"
    <3>1. Finish
      BY <1>2, <1>3, <2>2 DEF Written
    <3> QED
      BY <1>1, <1>2, <1>4, <2>2, <3>1, AddEnds
  <2>3. CASE Operation \in {"reset", "load"}
    <3>1. Goto("clear")
      BY <1>2, <1>3, <2>3 DEF Written
    <3>2. graphs[u] = <<>>
      BY <1>1, <1>2, <1>3, <2>3 DEF TrackOps, TrackReset, TrackLoad, Emptying
    <3>3. KeptMap'[u] = <<>>
      BY <1>3, <2>1, <3>2, EmptyIsSmall, SmallIsNeither, PlacesOfEmpty DEF KeptMap, MapIn, Unpickle
    <3> QED
      BY <1>1, <1>2, <1>4, <2>1, <2>3, <3>1, <3>3, EmptyingTracks
  <2> QED
    BY <1>3, <2>2, <2>3
<1>5. CASE UNCHANGED graphFile /\ Fault
  <2>1. OnlyFor(u) /\ KeptMap'[u] = KeptMap[u]
    BY <1>2, <1>3, <1>5, FileOnlyFor, KeptMapStays
  <2>2. CASE Operation = "add"
    <3>1. Finish
      BY <1>2, <1>3, <2>2 DEF Written
    <3> QED
      BY <1>2, <1>3, <1>5, <3>1, FaultEnds
  <2>3. CASE Operation \in {"reset", "load"}
    <3>1. Goto("clear")
      BY <1>2, <1>3, <2>3 DEF Written
    <3> QED
      BY <1>1, <1>2, <1>5, <2>1, <2>3, <3>1, EmptyingTracks
  <2> QED
    BY <1>3, <2>2, <2>3
<1> QED
  BY <1>1, <1>4, <1>5 DEF Dump

LEMMA ResetTracks == ASSUME IInv, IInv', Track, NEW u \in Users, Reset(u) PROVE Step /\ Track'
<1>1. /\ job = Idle /\ Empties(u) /\ Starts("reset", "truncate", u, Absent, "reset")
      /\ UNCHANGED <<graphFile, files, saved, faults>>
  BY DEF Reset
<1>2. job' # Idle /\ job'.at = "truncate" /\ Operation' = "reset" /\ job'.user = u /\ job'.was = Stored
  BY <1>1, Beginning
<1>3. graphs'[u] = <<>> /\ OnlyFor(u)
  BY <1>1, FileOnlyFor DEF Empties, IInv, StoresOK
<1>4. KeptMap'[u] = KeptMap[u] /\ Shelf' = Shelf
  BY <1>1, KeptMapStays, ShelfStays
<1>5. PICK w : w = Stored
  OBVIOUS
<1>6. w.kept = KeptMap /\ w.shelf = Shelf
  BY <1>5, StoredIs
<1>7. PICK s \in Names : TRUE
  BY AbsentAssumption
<1>8. Left(w, u, s, KeptMap[u])'
  BY <1>4, <1>6 DEF Left
<1>9. TrackReset'
  BY <1>2, <1>3, <1>4, <1>5, <1>6, <1>8 DEF TrackReset
<1>10. TrackOps'
  BY <1>2, <1>9 DEF TrackOps, TrackAdd, TrackSave, TrackLoad
<1> QED
  BY <1>1, <1>2, <1>3, <1>10, TracksFirst

LEMMA ClearImagesTracks == ASSUME IInv, IInv', Track, ClearImages PROVE Step /\ Track'
<1>1. PICK u, w : u = job.user /\ w = job.was
  OBVIOUS
<1>2. /\ job.at = "clear" /\ UNCHANGED graphs /\ UNCHANGED graphFile /\ UNCHANGED saved
      /\ Operation \in {"reset", "load"} /\ job # Idle /\ u \in Users
  BY <1>1, OperationAt, JobKinds DEF ClearImages
<1>3. CASE UNCHANGED job /\ UNCHANGED faults
  BY <1>2, <1>3, PicturesUnseen
<1>4. CASE Cleared /\ (Smooth \/ Fault) /\ UNCHANGED files
  <2>1. Operation = job.op /\ TrackOps /\ Told = w
    BY <1>1, <1>2, ToldIs DEF Operation, Track
  <2>2. View' = View /\ KeptMap' = KeptMap /\ Shelf' = Shelf /\ OnlyFor(u)
    BY <1>2, <1>4, NothingTold, FileOnlyFor
  <2>3. CASE Operation = "load"
    <3>1. Goto("open_graph")
      BY <1>4, <2>1, <2>3 DEF Cleared
    <3>2. /\ job' # Idle /\ job'.at = "open_graph" /\ Operation' = "load" /\ job'.user = u
          /\ job'.was = w /\ job'.name = job.name
      BY <1>1, <1>2, <2>3, <3>1, Going
    <3>3. TrackLoad'
      BY <1>1, <1>2, <2>1, <2>2, <2>3, <3>2 DEF TrackOps, TrackLoad, Emptying, HasGraph
    <3>4. TrackOps'
      BY <3>2, <3>3 DEF TrackOps, TrackAdd, TrackSave, TrackReset
    <3> QED
      BY <1>1, <1>2, <1>4, <2>2, <3>2, <3>4, TracksOn
  <2>4. CASE Operation = "reset"
    <3>1. Finish
      BY <1>4, <2>1, <2>4 DEF Cleared
    <3>2. CASE faults' = w.faults
      <4>1. faults = w.faults
        BY <1>1, <1>2, <1>4, <3>2 DEF Smooth, Fault, Track, Tellable, IInv, StoresOK
      <4>2. KeptMap[u] = <<>> /\ graphs[u] = <<>> /\ Shelf = w.shelf
        BY <1>1, <1>2, <2>1, <2>4, <4>1 DEF TrackOps, TrackReset
      <4>3. View[u] = <<>>
        BY <1>2, <4>2, GraphTells, EmptyIsSmall, SmallIsNeither, PlacesOfEmpty
      <4>4. Store!Holds(u, <<>>)
        BY <1>1, <1>2, <2>2, <3>1, <3>2, <4>2, <4>3, EndsHolding
      <4>5. Store!Forget(u)
        BY <4>4 DEF Store!Forget
      <4> QED
        BY <1>2, <3>1, <4>5, NextIsStep, EndedTracks
    <3>3. CASE faults' # w.faults
      <4>1. faults' > w.faults
        BY <1>1, <1>2, <1>4, <3>3 DEF Smooth, Fault, Track, Tellable, IInv, StoresOK
      <4> QED
        BY <1>1, <1>2, <3>1, <4>1, LateEnds
    <3> QED
      BY <3>2, <3>3
  <2> QED
    BY <1>2, <2>3, <2>4
<1> QED
  BY <1>1, <1>3, <1>4 DEF ClearImages
-----------------------------------------------------------------------------
(* A save, as a step of the store *)

LEMMA SaveJobFinds ==
  ASSUME IInv, Track, job.at \in SaveAts
  PROVE  Operation = "save" /\ job # Idle /\ job.user \in Users /\ job.name \in Names /\ TrackSave
<1>1. Operation = "save"
  BY OperationAt
<1>2. job # Idle /\ job.user \in Users /\ job.name \in Names
  BY <1>1, JobKinds
<1>3. TrackSave
  BY <1>2 DEF Track, TrackOps
<1> QED
  BY <1>1, <1>2, <1>3

LEMMA SaveTracksOn ==
  ASSUME IInv, Track, Operation = "save", job # Idle, UNCHANGED graphs, UNCHANGED graphFile, UNCHANGED files,
         UNCHANGED faults, NEW u, u = job.user, NEW s \in Names, s = job.name, NEW w, w = job.was,
         \A t \in Names \ {s} : saved'[t] = saved[t],
         job' # Idle, Operation' = "save", job'.user = u, job'.name = s, job'.was = w,
         NEW at, at = job'.at, NEW state, state = Shelf'[s], SaveAt(at, state, w, u, s)
  PROVE  Step /\ Track'
<1>1. TrackSave
  BY DEF Track, TrackOps
<1>2. View' = View /\ KeptMap' = KeptMap /\ OnlyFor(u) /\ Smooth
  BY DEF View, KeptMap, UserGraph, OnlyFor, Smooth
<1>3. \A t \in Names \ {s} : Shelf'[t] = w.shelf[t]
  BY <1>1, StateStays DEF TrackSave
<1>4. /\ View' = w.view /\ KeptMap' = w.kept /\ faults' = w.faults
  BY <1>1, <1>2 DEF TrackSave
<1>5. SaveAt(at, state, w, u, s)'
  BY DEF SaveAt
<1>6. TrackSave'
  BY <1>3, <1>4, <1>5 DEF TrackSave
<1>7. TrackOps'
  BY <1>6 DEF TrackOps, TrackAdd, TrackReset, TrackLoad
<1> QED
  BY <1>2, <1>7, TracksOn

LEMMA SaveMemoryStateTracks ==
  ASSUME IInv, IInv', Track, NEW u \in Users, NEW s \in Names, SaveMemoryState(u, s)
  PROVE  Step /\ Track'
<1>1. job = Idle /\ UNCHANGED <<graphs, graphFile, files, saved, faults>>
  BY DEF SaveMemoryState
<1>2. PICK at \in {"mkdir", "rmtree"} :
        Starts("save", at, u, s, "chat") /\ at = IF saved[s] = Absent THEN "mkdir" ELSE "rmtree"
  BY DEF SaveMemoryState
<1>3. job' # Idle /\ job'.at = at /\ Operation' = "save" /\ job'.user = u /\ job'.name = s /\ job'.was = Stored
  BY <1>2, Beginning
<1>4. View' = View /\ KeptMap' = KeptMap /\ Shelf' = Shelf /\ OnlyFor(u)
  BY <1>1, NothingTold DEF OnlyFor
<1>5. PICK w : w = Stored
  OBVIOUS
<1>6. w.view = View /\ w.kept = KeptMap /\ w.shelf = Shelf /\ w.faults = faults
  BY <1>5, StoredIs
<1>7. /\ at = "rmtree" => Shelf[s] \in Shelved
      /\ at = "mkdir" => Shelf[s] = Absent
  BY <1>2, StateIsTold DEF IInv
<1>8. TrackSave'
  BY <1>1, <1>3, <1>4, <1>5, <1>6, <1>7 DEF TrackSave, SaveAt
<1>9. TrackOps'
  BY <1>3, <1>8 DEF TrackOps, TrackAdd, TrackReset, TrackLoad
<1> QED
  BY <1>1, <1>3, <1>4, <1>9, TracksFirst

LEMMA GivesUpTracks ==
  ASSUME IInv, IInv', Track, job # Idle, GivesUp, UNCHANGED saved
  PROVE  Step /\ Track'
  BY FaultEnds DEF GivesUp

\* What a saved state tells, next.
LEMMA NextStateIsTold ==
  ASSUME IInv', NEW s \in Names
  PROVE  /\ saved'[s] = Absent => Shelf'[s] = Absent
         /\ saved'[s] # Absent => Shelf'[s] = [owner |-> saved'[s].owner, map |-> MapIn(saved'[s].graph)]
  BY DEF Shelf

LEMMA RmTreeTracks == ASSUME IInv, IInv', Track, RmTree PROVE Step /\ Track'
<1>1. PICK u, s, w : u = job.user /\ s = job.name /\ w = job.was
  OBVIOUS
<1>2. job.at = "rmtree" /\ UNCHANGED graphs /\ UNCHANGED graphFile /\ UNCHANGED files
  BY DEF RmTree, GivesUp
<1>3. Operation = "save" /\ job # Idle /\ u \in Users /\ s \in Names /\ TrackSave
  <2>1. job.at \in SaveAts
    BY <1>2 DEF SaveAts
  <2> QED
    BY <1>1, <2>1, SaveJobFinds
<1>4. /\ Shelf[s] \in Shelved /\ w.shelf[s] \in Shelved /\ Shelf[s].owner = w.shelf[s].owner
      /\ Shelf[s].map \in {w.shelf[s].map, Absent}
  BY <1>1, <1>2, <1>3 DEF TrackSave, SaveAt
<1>5. saved[s] \in States /\ saved[s] # Absent
  <2>1. Shelf[s] # Absent
    BY <1>4, AbsentAssumption DEF Shelved
  <2> QED
    BY <1>3, <2>1, StateIsTold DEF IInv
<1>6. Shelf[s] = [owner |-> saved[s].owner, map |-> MapIn(saved[s].graph)]
  BY <1>3, <1>5, StateIsTold DEF IInv
<1>7. ASSUME NEW state \in States, saved' = [saved EXCEPT ![s] = state], state.owner = saved[s].owner,
             state.graph \in {saved[s].graph, Absent}, UNCHANGED job, UNCHANGED faults
      PROVE  Step /\ Track'
  <2>1. saved'[s] = state /\ \A t \in Names \ {s} : saved'[t] = saved[t]
    BY <1>3, <1>7 DEF IInv, StoresOK
  <2>2. state # Absent
    BY StatesAreThere
  <2>3. PICK told : told = Shelf'[s]
    OBVIOUS
  <2>4. told = [owner |-> state.owner, map |-> MapIn(state.graph)]
    BY <1>3, <2>1, <2>2, <2>3, NextStateIsTold
  <2>5. MapIn(Absent) = Absent
    BY DEF MapIn
  <2>6. told \in Shelved /\ told.owner = w.shelf[s].owner /\ told.map \in {w.shelf[s].map, Absent}
    BY <1>4, <1>6, <1>7, <2>4, <2>5 DEF Shelved
  <2>7. /\ job' # Idle /\ Operation' = "save" /\ job'.user = u /\ job'.name = s /\ job'.was = w
        /\ job'.at = "rmtree"
    BY <1>1, <1>2, <1>3, <1>7 DEF Operation
  <2>8. SaveAt("rmtree", told, w, u, s)
    BY <1>4, <2>6 DEF SaveAt
  <2> QED
    BY <1>1, <1>2, <1>3, <1>7, <2>1, <2>3, <2>7, <2>8, SaveTracksOn
<1>8. CASE saved' = [saved EXCEPT ![s] = Absent] /\ Goto("mkdir") /\ Smooth
  <2>1. saved'[s] = Absent /\ \A t \in Names \ {s} : saved'[t] = saved[t]
    BY <1>3, <1>8 DEF IInv, StoresOK
  <2>2. Shelf'[s] = Absent
    BY <1>3, <2>1, NextStateIsTold
  <2>3. /\ job' # Idle /\ Operation' = "save" /\ job'.user = u /\ job'.name = s /\ job'.was = w
        /\ job'.at = "mkdir"
    BY <1>1, <1>3, <1>8, Going
  <2>4. SaveAt("mkdir", Absent, w, u, s)
    BY DEF SaveAt
  <2> QED
    BY <1>1, <1>2, <1>3, <1>8, <2>1, <2>2, <2>3, <2>4, SaveTracksOn DEF Smooth
<1>9. CASE GivesUp /\ UNCHANGED saved
  BY <1>3, <1>9, GivesUpTracks
<1>10. ASSUME \/ saved[s].graph # Absent /\ saved' = [saved EXCEPT ![s].graph = Absent]
              \/ \E i \in In(saved[s].images) : saved' = [saved EXCEPT ![s].images = @ \ {i}]
              \/ saved[s].images = {} /\ saved' = [saved EXCEPT ![s].images = Absent],
              UNCHANGED job, UNCHANGED faults
       PROVE  Step /\ Track'
  <2>1. CASE saved' = [saved EXCEPT ![s].graph = Absent]
    <3>1. PICK state : state = [saved[s] EXCEPT !.graph = Absent]
      OBVIOUS
    <3>2. state \in States /\ state.owner = saved[s].owner /\ state.graph = Absent
      BY <1>5, <3>1 DEF States
    <3>3. saved' = [saved EXCEPT ![s] = state]
      BY <2>1, <3>1
    <3> QED
      BY <1>7, <1>10, <3>2, <3>3
  <2>2. ASSUME NEW i \in In(saved[s].images), saved' = [saved EXCEPT ![s].images = @ \ {i}]
        PROVE  Step /\ Track'
    <3>1. PICK state : state = [saved[s] EXCEPT !.images = @ \ {i}]
      OBVIOUS
    <3>2. saved[s].images \in SUBSET Images
      BY <1>5, <2>2 DEF States, In
    <3>3. state \in States /\ state.owner = saved[s].owner /\ state.graph = saved[s].graph
      BY <1>5, <3>1, <3>2 DEF States
    <3>4. saved' = [saved EXCEPT ![s] = state]
      BY <2>2, <3>1
    <3> QED
      BY <1>7, <1>10, <3>3, <3>4
  <2>3. CASE saved' = [saved EXCEPT ![s].images = Absent]
    <3>1. PICK state : state = [saved[s] EXCEPT !.images = Absent]
      OBVIOUS
    <3>2. state \in States /\ state.owner = saved[s].owner /\ state.graph = saved[s].graph
      BY <1>5, <3>1 DEF States
    <3>3. saved' = [saved EXCEPT ![s] = state]
      BY <2>3, <3>1
    <3> QED
      BY <1>7, <1>10, <3>2, <3>3
  <2> QED
    BY <1>10, <2>1, <2>2, <2>3
<1> QED
  BY <1>1, <1>8, <1>9, <1>10 DEF RmTree

\* A save ends with the whole copy on the shelf.
LEMMA SaveTracksEnd ==
  ASSUME IInv, IInv', Track, Operation = "save", job # Idle, Finish,
         UNCHANGED graphs, UNCHANGED graphFile, UNCHANGED faults,
         NEW u, u = job.user, NEW s \in Names, s = job.name, NEW w, w = job.was,
         \A t \in Names \ {s} : saved'[t] = saved[t],
         NEW state, state = Shelf'[s], state = [owner |-> u, map |-> w.kept[u]]
  PROVE  Step /\ Track'
<1>1. PICK x : x = Stored'
  OBVIOUS
<1>2. ToldThen(w, x)
  BY <1>1, NextIsTellable, ToldIs DEF ToldThen, Track, Finish, IInv
<1>3. View' = View /\ KeptMap' = KeptMap /\ \A t \in Names \ {s} : Shelf'[t] = Shelf[t]
  BY StateStays DEF View, KeptMap, UserGraph
<1>4. TrackSave
  BY DEF Track, TrackOps
<1>5. x.view = w.view /\ x.kept = w.kept /\ x.shelf = Shelf' /\ x.faults = w.faults
  BY <1>1, <1>3, <1>4, NextStored DEF TrackSave
<1>6. \A t \in Names \ {s} : x.shelf[t] = w.shelf[t]
  BY <1>3, <1>4, <1>5 DEF TrackSave
<1>7. u \in Users /\ x.shelf[s] = [owner |-> u, map |-> w.kept[u]]
  BY <1>5, JobKinds
<1>8. Store!Shelve(u, s)
  BY <1>2, <1>5, <1>6, <1>7, Shelving
<1> QED
  BY <1>7, <1>8, NextIsStep, EndedTracks

LEMMA MkDirTracks == ASSUME IInv, IInv', Track, MkDir PROVE Step /\ Track'
<1>1. PICK u, s, w : u = job.user /\ s = job.name /\ w = job.was
  OBVIOUS
<1>2. job.at = "mkdir" /\ UNCHANGED graphs /\ UNCHANGED graphFile /\ UNCHANGED files
  BY DEF MkDir, GivesUp
<1>3. Operation = "save" /\ job # Idle /\ u \in Users /\ s \in Names /\ TrackSave
  <2>1. job.at \in SaveAts
    BY <1>2 DEF SaveAts
  <2> QED
    BY <1>1, <2>1, SaveJobFinds
<1>4. CASE GivesUp /\ UNCHANGED saved
  BY <1>3, <1>4, GivesUpTracks
<1>5. ASSUME saved' = [saved EXCEPT ![s] = [owner |-> u, graph |-> Absent, images |-> Absent]], Smooth,
             IF graphFile[u] # Absent THEN Goto("create_copy") ELSE Copied(files[u], "copy_images")
      PROVE  Step /\ Track'
  <2>1. PICK state : state = [owner |-> u, graph |-> Absent, images |-> Absent]
    OBVIOUS
  <2>2. state # Absent
    <3>1. state \in [owner : Users, graph : Seq(Nodes) \cup {Absent, Torn}, images : (SUBSET Images) \cup {Absent}]
      BY <1>3, <2>1
    <3> QED
      BY <3>1, AbsentAssumption
  <2>3. saved'[s] = state /\ \A t \in Names \ {s} : saved'[t] = saved[t]
    BY <1>3, <1>5, <2>1 DEF IInv, StoresOK
  <2>4. PICK told : told = Shelf'[s]
    OBVIOUS
  <2>5. told = [owner |-> u, map |-> Absent]
    BY <1>3, <2>1, <2>2, <2>3, <2>4, NextStateIsTold DEF MapIn
  <2>6. UNCHANGED faults
    BY <1>5 DEF Smooth
  <2>7. graphFile[u] = Absent => told = [owner |-> u, map |-> w.kept[u]]
    BY <1>1, <1>3, <2>5 DEF TrackSave, KeptMap, MapIn
  <2>8. CASE graphFile[u] # Absent
    <3>1. Goto("create_copy")
      BY <1>5, <2>8
    <3>2. /\ job' # Idle /\ Operation' = "save" /\ job'.user = u /\ job'.name = s /\ job'.was = w
          /\ job'.at = "create_copy"
      BY <1>1, <1>3, <3>1, Going
    <3>3. SaveAt("create_copy", told, w, u, s)
      BY <2>5, <2>8 DEF SaveAt
    <3> QED
      BY <1>1, <1>2, <1>3, <2>3, <2>4, <2>6, <3>2, <3>3, SaveTracksOn
  <2>9. CASE graphFile[u] = Absent /\ files[u] = Absent
    <3>1. Finish
      BY <1>5, <2>9 DEF Copied
    <3> QED
      BY <1>1, <1>2, <1>3, <2>3, <2>4, <2>6, <2>7, <2>9, <3>1, SaveTracksEnd
  <2>10. CASE graphFile[u] = Absent /\ files[u] # Absent
    <3>1. Goto("copy_images")
      BY <1>5, <2>10 DEF Copied
    <3>2. /\ job' # Idle /\ Operation' = "save" /\ job'.user = u /\ job'.name = s /\ job'.was = w
          /\ job'.at = "copy_images"
      BY <1>1, <1>3, <3>1, Going
    <3>3. SaveAt("copy_images", told, w, u, s)
      BY <2>7, <2>10 DEF SaveAt
    <3> QED
      BY <1>1, <1>2, <1>3, <2>3, <2>4, <2>6, <3>2, <3>3, SaveTracksOn
  <2> QED
    BY <2>8, <2>9, <2>10
<1> QED
  BY <1>1, <1>4, <1>5 DEF MkDir

\* The step of a save that writes to the copy of the graph.
LEMMA CopyTells ==
  ASSUME IInv, Saving, job.at # "mkdir", NEW s \in Names, s = job.name, NEW file \in Small \cup {Absent, Torn},
         saved' = [saved EXCEPT ![s].graph = file]
  PROVE  /\ \A t \in Names \ {s} : saved'[t] = saved[t]
         /\ Shelf'[s] = [owner |-> Shelf[s].owner, map |-> MapIn(file)]
<1>1. saved[s] \in States /\ saved \in [Names -> States \cup {Absent}]
  BY DEF Saving, IInv, StoresOK
<1>3. saved[s] # Absent
  BY <1>1, StatesAreThere
<1>4. PICK state : state = [saved[s] EXCEPT !.graph = file]
  OBVIOUS
<1>5. state \in States /\ state.owner = saved[s].owner /\ state.graph = file
  BY <1>1, <1>4 DEF States
<1>6. saved' = [saved EXCEPT ![s] = state]
  BY <1>4
<1>7. saved'[s] = state /\ \A t \in Names \ {s} : saved'[t] = saved[t]
  BY <1>1, <1>6
<1>8. state # Absent
  BY <1>5, StatesAreThere
<1>9. Shelf'[s] = [owner |-> saved[s].owner, map |-> MapIn(file)]
  BY <1>5, <1>7, <1>8 DEF Shelf
<1>10. Shelf[s].owner = saved[s].owner
  BY <1>3 DEF Shelf
<1> QED
  BY <1>7, <1>9, <1>10

LEMMA CreateCopyTracks == ASSUME IInv, IInv', Track, CreateCopy PROVE Step /\ Track'
<1>1. PICK u, s, w : u = job.user /\ s = job.name /\ w = job.was
  OBVIOUS
<1>2. job.at = "create_copy" /\ UNCHANGED graphs /\ UNCHANGED graphFile /\ UNCHANGED files
  BY DEF CreateCopy, GivesUp
<1>3. Operation = "save" /\ job # Idle /\ u \in Users /\ s \in Names /\ TrackSave
  <2>1. job.at \in SaveAts
    BY <1>2 DEF SaveAts
  <2> QED
    BY <1>1, <2>1, SaveJobFinds
<1>4. CASE GivesUp /\ UNCHANGED saved
  BY <1>3, <1>4, GivesUpTracks
<1>5. CASE saved' = [saved EXCEPT ![s].graph = Torn] /\ Goto("write_copy") /\ Smooth
  <2>1. Shelf[s].owner = u /\ Saving
    BY <1>1, <1>2, <1>3, JobKinds DEF TrackSave, SaveAt
  <2>2. PICK told : told = Shelf'[s]
    OBVIOUS
  <2>3. /\ \A t \in Names \ {s} : saved'[t] = saved[t]
        /\ told = [owner |-> u, map |-> MapIn(Torn)]
    BY <1>1, <1>2, <1>3, <1>5, <2>1, <2>2, CopyTells
  <2>4. MapIn(Torn) = <<>>
    BY MemoryAssumption, PlacesOfEmpty DEF MapIn, Unpickle
  <2>5. /\ job' # Idle /\ Operation' = "save" /\ job'.user = u /\ job'.name = s /\ job'.was = w
        /\ job'.at = "write_copy" /\ UNCHANGED faults
    BY <1>1, <1>3, <1>5, Going DEF Smooth
  <2>6. SaveAt("write_copy", told, w, u, s)
    BY <2>3, <2>4 DEF SaveAt
  <2> QED
    BY <1>1, <1>2, <1>3, <2>2, <2>3, <2>5, <2>6, SaveTracksOn
<1> QED
  BY <1>1, <1>4, <1>5 DEF CreateCopy

LEMMA WriteCopyTracks == ASSUME IInv, IInv', Track, WriteCopy PROVE Step /\ Track'
<1>1. PICK u, s, w : u = job.user /\ s = job.name /\ w = job.was
  OBVIOUS
<1>2. job.at = "write_copy" /\ UNCHANGED graphs /\ UNCHANGED graphFile /\ UNCHANGED files
  BY DEF WriteCopy, GivesUp
<1>3. Operation = "save" /\ job # Idle /\ u \in Users /\ s \in Names /\ TrackSave
  <2>1. job.at \in SaveAts
    BY <1>2 DEF SaveAts
  <2> QED
    BY <1>1, <2>1, SaveJobFinds
<1>4. CASE GivesUp /\ UNCHANGED saved
  BY <1>3, <1>4, GivesUpTracks
<1>5. CASE saved' = [saved EXCEPT ![s].graph = graphFile[u]] /\ Copied(files[u], "copy_images") /\ Smooth
  <2>1. Shelf[s].owner = u /\ Saving /\ graphFile[u] \in Small \cup {Absent, Torn}
    BY <1>1, <1>2, <1>3, JobKinds DEF TrackSave, SaveAt, IInv, StoresOK
  <2>2. PICK told : told = Shelf'[s]
    OBVIOUS
  <2>3. PICK file : file = graphFile[u]
    OBVIOUS
  <2>4. /\ \A t \in Names \ {s} : saved'[t] = saved[t]
        /\ told = [owner |-> u, map |-> MapIn(file)]
    BY <1>1, <1>2, <1>3, <1>5, <2>1, <2>2, <2>3, CopyTells
  <2>5. MapIn(file) = w.kept[u]
    BY <1>1, <1>3, <2>3 DEF TrackSave, KeptMap
  <2>6. UNCHANGED faults
    BY <1>5 DEF Smooth
  <2>7. CASE Finish
    BY <1>1, <1>2, <1>3, <2>2, <2>4, <2>5, <2>6, <2>7, SaveTracksEnd
  <2>8. CASE Goto("copy_images")
    <3>1. /\ job' # Idle /\ Operation' = "save" /\ job'.user = u /\ job'.name = s /\ job'.was = w
          /\ job'.at = "copy_images"
      BY <1>1, <1>3, <2>8, Going
    <3>2. SaveAt("copy_images", told, w, u, s)
      BY <2>4, <2>5 DEF SaveAt
    <3> QED
      BY <1>1, <1>2, <1>3, <2>2, <2>4, <2>6, <3>1, <3>2, SaveTracksOn
  <2> QED
    BY <1>5, <2>7, <2>8 DEF Copied
<1> QED
  BY <1>1, <1>4, <1>5 DEF WriteCopy

LEMMA CopyImagesTracks == ASSUME IInv, IInv', Track, CopyImages PROVE Step /\ Track'
<1>1. PICK u, s, w : u = job.user /\ s = job.name /\ w = job.was
  OBVIOUS
<1>2. job.at = "copy_images" /\ UNCHANGED graphs /\ UNCHANGED graphFile /\ UNCHANGED files
  BY DEF CopyImages, GivesUp
<1>3. Operation = "save" /\ job # Idle /\ u \in Users /\ s \in Names /\ TrackSave
  <2>1. job.at \in SaveAts
    BY <1>2 DEF SaveAts
  <2> QED
    BY <1>1, <2>1, SaveJobFinds
<1>4. CASE GivesUp /\ UNCHANGED saved
  BY <1>3, <1>4, GivesUpTracks
<1>5. PICK entry : entry = Shelf[s]
  OBVIOUS
<1>6. entry = [owner |-> u, map |-> w.kept[u]]
  BY <1>1, <1>2, <1>3, <1>5 DEF TrackSave, SaveAt
<1>7. CASE UNCHANGED saved /\ Finish /\ Smooth
  <2>1. Shelf'[s] = entry /\ UNCHANGED faults
    BY <1>5, <1>7, ShelfStays DEF Smooth
  <2> QED
    BY <1>1, <1>2, <1>3, <1>6, <1>7, <2>1, SaveTracksEnd
<1>8. Saving /\ saved[s] \in States /\ saved[s] # Absent /\ files[u] \in SUBSET Images
  BY <1>1, <1>2, <1>3, JobKinds, StatesAreThere DEF Saving
<1>9. ASSUME NEW dir \in SUBSET Images, saved' = [saved EXCEPT ![s].images = dir], Smooth, UNCHANGED job
      PROVE  Step /\ Track'
  <2>1. PICK state : state = [saved[s] EXCEPT !.images = dir]
    OBVIOUS
  <2>2. state \in States /\ state.owner = saved[s].owner /\ state.graph = saved[s].graph
    BY <1>8, <2>1 DEF States
  <2>3. saved' = [saved EXCEPT ![s] = state]
    BY <1>9, <2>1
  <2>4. saved'[s] = state /\ \A t \in Names \ {s} : saved'[t] = saved[t]
    BY <1>3, <2>3 DEF IInv, StoresOK
  <2>5. Shelf'[s] = Shelf[s]
    BY <1>3, <1>8, <2>2, <2>4, StatesAreThere DEF Shelf
  <2>6. PICK told : told = Shelf'[s]
    OBVIOUS
  <2>7. told = [owner |-> u, map |-> w.kept[u]]
    BY <1>1, <1>2, <1>3, <2>5, <2>6 DEF TrackSave, SaveAt
  <2>8. /\ job' # Idle /\ Operation' = "save" /\ job'.user = u /\ job'.name = s /\ job'.was = w
        /\ job'.at = "copy_images" /\ UNCHANGED faults
    BY <1>1, <1>2, <1>3, <1>9 DEF Operation, Smooth
  <2>9. SaveAt("copy_images", told, w, u, s)
    BY <2>7 DEF SaveAt
  <2> QED
    BY <1>1, <1>2, <1>3, <2>4, <2>6, <2>8, <2>9, SaveTracksOn
<1>10. saved[s].images # Absent => saved[s].images \in SUBSET Images
  BY <1>8 DEF States
<1>11. In(saved[s].images) \in SUBSET Images
  BY <1>10 DEF In
<1>12. ASSUME NEW i \in files[u], saved[s].images # Absent, saved' = [saved EXCEPT ![s].images = @ \cup {i}],
              Smooth, UNCHANGED job
       PROVE  Step /\ Track'
  <2>1. PICK dir \in SUBSET Images : dir = saved[s].images \cup {i}
    BY <1>8, <1>10, <1>12
  <2>2. saved' = [saved EXCEPT ![s].images = dir]
    BY <1>12, <2>1
  <2> QED
    BY <1>9, <1>12, <2>2
<1>13. CASE saved' = [saved EXCEPT ![s].images = In(@)] /\ Smooth /\ UNCHANGED job
  <2>1. PICK dir \in SUBSET Images : dir = In(saved[s].images)
    BY <1>11
  <2>2. saved' = [saved EXCEPT ![s].images = dir]
    BY <1>13, <2>1
  <2> QED
    BY <1>9, <1>13, <2>2
<1> QED
  BY <1>1, <1>4, <1>7, <1>12, <1>13 DEF CopyImages
-----------------------------------------------------------------------------
(* A load, as a step of the store *)

\* What is known in a load.
LEMMA LoadJobFinds ==
  ASSUME IInv, Track, Operation = "load"
  PROVE  /\ job # Idle /\ job.user \in Users /\ job.name \in Names /\ saved[job.name] \in States
         /\ saved[job.name] # Absent
         /\ TrackLoad /\ Tellable(job.was)
<1>1. job # Idle /\ job.user \in Users /\ job.name \in Names /\ Loading
  BY JobKinds
<1>2. saved[job.name] \in States /\ saved[job.name] # Absent
  BY <1>1, StatesAreThere DEF Loading
<1>3. TrackLoad /\ Tellable(job.was)
  BY <1>1 DEF Track, TrackOps
<1> QED
  BY <1>1, <1>2, <1>3

LEMMA LoadMemoryStateTracks ==
  ASSUME IInv, IInv', Track, NEW u \in Users, NEW s \in Names, NEW by \in {"reset", "chat"}, LoadMemoryState(u, s, by)
  PROVE  Step /\ Track'
<1>1. job = Idle /\ UNCHANGED graphFile /\ UNCHANGED files /\ UNCHANGED saved /\ UNCHANGED faults
  BY DEF LoadMemoryState
<1>2. PICK w : w = Stored
  OBVIOUS
<1>3. w.view = View /\ w.kept = KeptMap /\ w.shelf = Shelf /\ w.faults = faults
  BY <1>2, StoredIs
<1>4. Shelf' = Shelf /\ KeptMap'[u] = KeptMap[u]
  BY <1>1, ShelfStays, KeptMapStays
<1>5. HasGraph(u, s)' <=> HasGraph(u, s)
  BY <1>1 DEF HasGraph
<1>6. CASE HasGraph(u, s)
  <2>1. Empties(u) /\ Starts("load", "truncate", u, s, by)
    BY <1>6 DEF LoadMemoryState
  <2>2. /\ job' # Idle /\ job'.at = "truncate" /\ Operation' = "load" /\ job'.user = u
        /\ job'.name = s /\ job'.was = w
    BY <1>2, <2>1, Beginning
  <2>3. graphs'[u] = <<>> /\ OnlyFor(u)
    BY <1>1, <2>1, FileOnlyFor DEF Empties, IInv, StoresOK
  <2>4. TrackLoad'
    BY <1>3, <1>4, <1>5, <1>6, <2>2, <2>3 DEF TrackLoad, Emptying
  <2>5. TrackOps'
    BY <2>2, <2>4 DEF TrackOps, TrackAdd, TrackSave, TrackReset
  <2> QED
    BY <1>1, <1>2, <2>2, <2>3, <2>5, TracksFirst
<1>7. CASE ~HasGraph(u, s)
  <2>1. PICK at \in {"clear_images", "loaded"} : at = AfterGraph(u, s)
    BY DEF AfterGraph
  <2>2. UNCHANGED graphs /\ Starts("load", at, u, s, by)
    BY <1>7, <2>1 DEF LoadMemoryState
  <2>3. /\ job' # Idle /\ job'.at = at /\ Operation' = "load" /\ job'.user = u
        /\ job'.name = s /\ job'.was = w
    BY <1>2, <2>2, Beginning
  <2>4. OnlyFor(u) /\ View' = View
    BY <1>1, <2>2, FileOnlyFor, NothingTold
  <2>5. TrackLoad'
    BY <1>3, <1>4, <1>5, <1>7, <2>3, <2>4 DEF TrackLoad, Emptying
  <2>6. TrackOps'
    BY <2>3, <2>5 DEF TrackOps, TrackAdd, TrackSave, TrackReset
  <2> QED
    BY <1>1, <1>2, <2>3, <2>4, <2>6, TracksFirst
<1> QED
  BY <1>6, <1>7

\* A load that fails ends, or goes on as a reset.
LEMMA LoadFailsTracks ==
  ASSUME IInv, IInv', Track, Operation = "load", LoadFails, UNCHANGED graphFile, UNCHANGED files, UNCHANGED saved
  PROVE  Step /\ Track'
<1>1. PICK u, w : u = job.user /\ w = job.was
  OBVIOUS
<1>2. job # Idle /\ u \in Users /\ TrackLoad
  BY <1>1, LoadJobFinds
<1>3. CASE UNCHANGED graphs /\ Finish
  BY <1>2, <1>3, FaultEnds DEF LoadFails
<1>4. CASE Empties(u) /\ job' = [job EXCEPT !.op = "reset", !.at = "truncate"] /\ Fault
  <2>1. job \in Jobs("load", LoadAts, Names, job.was)
    BY JobKinds DEF Loading
  <2>2. job'.op = "reset" /\ job'.at = "truncate" /\ job'.user = u /\ job'.was = w
    BY <1>1, <1>4, <2>1 DEF Jobs
  <2>3. job' # Idle
    BY <2>2 DEF Idle
  <2>4. Operation' = "reset"
    BY <2>2, <2>3 DEF Operation
  <2>5. graphs'[u] = <<>> /\ OnlyFor(u)
    BY <1>2, <1>4, FileOnlyFor DEF Empties, IInv, StoresOK
  <2>6. Shelf' = Shelf /\ Shelf = w.shelf /\ KeptMap'[u] = KeptMap[u]
    BY <1>1, <1>2, ShelfStays, KeptMapStays DEF TrackLoad
  <2>7. PICK s \in Names : Loose(w, u, s)
    BY <1>1, <1>2, TrackLoose
  <2>8. PICK map : map = KeptMap[u]
    OBVIOUS
  <2>9. Left(w, u, s, map)
    BY <2>7, <2>8 DEF Loose
  <2>10. Told' = Told
    BY <1>1, <1>2, <2>2, <2>3, ToldIs
  <2>11. Left(w, u, s, map)'
    BY <2>9, <2>10, LeftStays
  <2>12. TrackReset'
    BY <2>2, <2>5, <2>6, <2>8, <2>11 DEF TrackReset
  <2>13. TrackOps'
    BY <2>4, <2>12 DEF TrackOps, TrackAdd, TrackSave, TrackLoad
  <2> QED
    BY <1>1, <1>2, <1>4, <2>2, <2>3, <2>5, <2>13, TracksOn
<1> QED
  BY <1>1, <1>3, <1>4 DEF LoadFails

LEMMA OpenGraphTracks == ASSUME IInv, IInv', Track, OpenGraph PROVE Step /\ Track'
<1>1. PICK u, s, w : u = job.user /\ s = job.name /\ w = job.was
  OBVIOUS
<1>2. job.at = "open_graph" /\ Operation = "load" /\ UNCHANGED files /\ UNCHANGED saved
  BY OperationAt DEF OpenGraph
<1>3. job # Idle /\ u \in Users /\ TrackLoad
  BY <1>1, <1>2, LoadJobFinds
<1>4. CASE LoadFails /\ UNCHANGED graphFile
  BY <1>2, <1>4, LoadFailsTracks
<1>5. CASE /\ graphFile' = [graphFile EXCEPT ![u] = Torn] /\ Goto("restore_graph")
           /\ Smooth /\ UNCHANGED graphs
  <2>1. OnlyFor(u) /\ graphFile'[u] = Torn
    BY <1>2, <1>3, <1>5, FileOnlyFor DEF IInv, StoresOK
  <2>2. KeptMap'[u] = <<>>
    BY <1>3, <2>1, MemoryAssumption, PlacesOfEmpty DEF KeptMap, MapIn, Unpickle
  <2>3. /\ job' # Idle /\ job'.at = "restore_graph" /\ Operation' = "load" /\ job'.user = u
        /\ job'.was = w /\ job'.name = s
    BY <1>1, <1>2, <1>3, <1>5, Going
  <2>4. Shelf' = Shelf /\ Shelf = w.shelf /\ graphs'[u] = <<>> /\ HasGraph(u, s)
    BY <1>1, <1>2, <1>3, <1>5, ShelfStays DEF TrackLoad, Emptying
  <2>5. HasGraph(u, s)'
    BY <1>2, <2>4 DEF HasGraph
  <2>6. TrackLoad'
    BY <2>2, <2>3, <2>4, <2>5 DEF TrackLoad, Emptying
  <2>7. TrackOps'
    BY <2>3, <2>6 DEF TrackOps, TrackAdd, TrackSave, TrackReset
  <2> QED
    BY <1>1, <1>3, <1>5, <2>1, <2>3, <2>7, TracksOn
<1> QED
  BY <1>1, <1>4, <1>5 DEF OpenGraph

LEMMA RestoreGraphTracks == ASSUME IInv, IInv', Track, RestoreGraph PROVE Step /\ Track'
<1>1. PICK u, s, w : u = job.user /\ s = job.name /\ w = job.was
  OBVIOUS
<1>2. job.at = "restore_graph" /\ Operation = "load" /\ UNCHANGED files /\ UNCHANGED saved
  BY OperationAt DEF RestoreGraph
<1>3. /\ job # Idle /\ u \in Users /\ s \in Names /\ TrackLoad /\ saved[s] \in States /\ saved[s] # Absent
  BY <1>1, <1>2, LoadJobFinds
<1>4. CASE LoadFails /\ UNCHANGED graphFile
  BY <1>2, <1>4, LoadFailsTracks
<1>5. CASE /\ graphFile' = [graphFile EXCEPT ![u] = saved[s].graph]
           /\ graphs' = [graphs EXCEPT ![u] = Unpickle(saved[s].graph)]
           /\ Goto(AfterGraph(u, s)) /\ Smooth
  <2>1. PICK file : file = saved[s].graph
    OBVIOUS
  <2>2. file \in Small \cup {Absent, Torn} /\ Unpickle(file) \in Small /\ Unpickle(file) # Absent
    BY <1>3, <2>1, UnpickledIsSmall, SmallIsNeither DEF States
  <2>3. HasGraph(u, s) /\ file # Absent
    BY <1>1, <1>2, <1>3, <2>1 DEF TrackLoad, Emptying, HasGraph
  <2>4. OnlyFor(u) /\ graphFile'[u] = file /\ graphs'[u] = Unpickle(file)
    BY <1>2, <1>3, <1>5, <2>1, FileOnlyFor DEF IInv, StoresOK
  <2>5. View'[u] = PlacesOf(Unpickle(file)) /\ KeptMap'[u] = PlacesOf(Unpickle(file))
    BY <1>3, <2>2, <2>3, <2>4 DEF View, UserGraph, KeptMap, MapIn
  <2>6. Shelf[s].map = PlacesOf(Unpickle(file))
    BY <1>3, <2>1, <2>3 DEF Shelf, MapIn
  <2>7. PICK at \in {"clear_images", "loaded"} : at = AfterGraph(u, s)
    BY DEF AfterGraph
  <2>8. /\ job' # Idle /\ job'.at = at /\ Operation' = "load" /\ job'.user = u
        /\ job'.was = w /\ job'.name = s
    BY <1>1, <1>2, <1>3, <1>5, <2>7, Going
  <2>9. Shelf' = Shelf /\ Shelf = w.shelf
    BY <1>1, <1>2, <1>3, ShelfStays DEF TrackLoad
  <2>10. HasGraph(u, s)'
    BY <1>2, <2>3 DEF HasGraph
  <2>11. View'[u] = Shelf'[s].map /\ KeptMap'[u] = Shelf'[s].map
    BY <2>5, <2>6, <2>9
  <2>12. TrackLoad'
    BY <2>8, <2>9, <2>10, <2>11 DEF TrackLoad, Emptying
  <2>13. TrackOps'
    BY <2>8, <2>12 DEF TrackOps, TrackAdd, TrackSave, TrackReset
  <2> QED
    BY <1>1, <1>3, <1>5, <2>4, <2>8, <2>13, TracksOn
<1> QED
  BY <1>1, <1>4, <1>5 DEF RestoreGraph

\* Once the graph is back, the images do not show.
LEMMA LoadGoesOn ==
  ASSUME IInv, IInv', Track, job.at \in {"clear_images", "restore_images"},
         UNCHANGED graphs, UNCHANGED graphFile, UNCHANGED saved, NEW u, u = job.user, OnlyFor(u), Smooth,
         NEW at \in {"restore_images", "loaded"}, Goto(at)
  PROVE  Step /\ Track'
<1>1. PICK s, w : s = job.name /\ w = job.was
  OBVIOUS
<1>2. Operation = "load"
  BY OperationAt
<1>3. job # Idle /\ u \in Users /\ TrackLoad
  BY <1>2, LoadJobFinds
<1>4. /\ job' # Idle /\ job'.at = at /\ Operation' = "load" /\ job'.user = u
      /\ job'.was = w /\ job'.name = s
  BY <1>1, <1>2, <1>3, Going
<1>5. View' = View /\ KeptMap' = KeptMap /\ Shelf' = Shelf
  BY NothingTold
<1>6. HasGraph(u, s)' <=> HasGraph(u, s)
  BY DEF HasGraph
<1>7. TrackLoad'
  BY <1>1, <1>2, <1>3, <1>4, <1>5, <1>6 DEF TrackLoad, Emptying
<1>8. TrackOps'
  BY <1>4, <1>7 DEF TrackOps, TrackAdd, TrackSave, TrackReset
<1> QED
  BY <1>1, <1>3, <1>4, <1>8, TracksOn

LEMMA ClearDestinationTracks == ASSUME IInv, IInv', Track, ClearDestination PROVE Step /\ Track'
<1>1. PICK u : u = job.user
  OBVIOUS
<1>2. job.at = "clear_images" /\ Operation = "load" /\ UNCHANGED graphFile /\ UNCHANGED saved
  BY OperationAt DEF ClearDestination
<1>3. job # Idle /\ u \in Users
  BY <1>1, <1>2, LoadJobFinds
<1>4. CASE LoadFails /\ UNCHANGED files
  BY <1>2, <1>4, LoadFailsTracks
<1>5. CASE UNCHANGED graphs /\ UNCHANGED job /\ UNCHANGED faults
  BY <1>2, <1>3, <1>5, PicturesUnseen
<1>6. CASE files' = [files EXCEPT ![u] = {}] /\ Goto("restore_images") /\ Smooth /\ UNCHANGED graphs
  <2>1. OnlyFor(u)
    BY <1>2, <1>3, <1>6, FileOnlyFor
  <2> QED
    BY <1>1, <1>2, <1>6, <2>1, LoadGoesOn
<1> QED
  BY <1>1, <1>4, <1>5, <1>6 DEF ClearDestination

LEMMA RestoreImagesTracks == ASSUME IInv, IInv', Track, RestoreImages PROVE Step /\ Track'
<1>1. PICK u : u = job.user
  OBVIOUS
<1>2. job.at = "restore_images" /\ Operation = "load" /\ UNCHANGED graphFile /\ UNCHANGED saved
  BY OperationAt DEF RestoreImages
<1>3. job # Idle /\ u \in Users
  BY <1>1, <1>2, LoadJobFinds
<1>4. CASE LoadFails /\ UNCHANGED files
  BY <1>2, <1>4, LoadFailsTracks
<1>5. CASE UNCHANGED graphs /\ UNCHANGED job /\ UNCHANGED faults
  BY <1>2, <1>3, <1>5, PicturesUnseen
<1>6. CASE Goto("loaded") /\ Smooth /\ UNCHANGED graphs /\ UNCHANGED files
  <2>1. OnlyFor(u)
    BY <1>2, <1>3, <1>6, FileOnlyFor
  <2> QED
    BY <1>1, <1>2, <1>6, <2>1, LoadGoesOn
<1> QED
  BY <1>1, <1>4, <1>5, <1>6 DEF RestoreImages

LEMMA SaysLoadedTracks == ASSUME IInv, IInv', Track, SaysLoaded PROVE Step /\ Track'
<1>1. PICK u, s, w : u = job.user /\ s = job.name /\ w = job.was
  OBVIOUS
<1>2. /\ job.at = "loaded" /\ Operation = "load" /\ Finish
      /\ UNCHANGED graphs /\ UNCHANGED graphFile /\ UNCHANGED saved /\ UNCHANGED faults
  BY OperationAt DEF SaysLoaded
<1>3. /\ job # Idle /\ u \in Users /\ s \in Names /\ TrackLoad /\ saved[s] \in States /\ saved[s] # Absent
      /\ Tellable(w)
  BY <1>1, <1>2, LoadJobFinds
<1>4. View' = View /\ KeptMap' = KeptMap /\ Shelf' = Shelf /\ Shelf = w.shelf /\ Told = w
  BY <1>1, <1>2, <1>3, NothingTold, ToldIs DEF TrackLoad
<1>5. CASE faults # w.faults
  <2>1. faults' > w.faults
    BY <1>1, <1>2, <1>3, <1>5 DEF Track, Tellable, IInv, StoresOK
  <2> QED
    BY <1>1, <1>2, <1>3, <2>1, LateEnds
<1>6. CASE faults = w.faults /\ HasGraph(u, s)
  <2>1. PICK map : map = w.shelf[s].map
    OBVIOUS
  <2>2. View[u] = map /\ KeptMap[u] = map
    BY <1>1, <1>2, <1>3, <1>4, <1>6, <2>1 DEF TrackLoad, Emptying
  <2>3. w.shelf[s] # Absent /\ w.shelf[s].owner = u /\ map # Absent
    <3>1. saved[s] # Absent /\ saved[s].owner = u /\ saved[s].graph # Absent /\ StoresOK
      BY <1>6 DEF HasGraph, IInv
    <3>2. PICK z : z = w.shelf[s]
      OBVIOUS
    <3>3. z = Shelf[s]
      BY <1>4, <3>2
    <3>4. z = [owner |-> saved[s].owner, map |-> MapIn(saved[s].graph)] /\ z # Absent /\ z.map # Absent
      BY <1>3, <3>1, <3>3, StateIsTold
    <3>5. z.owner = u
      BY <3>1, <3>4
    <3> QED
      BY <2>1, <3>2, <3>4, <3>5
  <2>4. Store!Holds(u, map)
    BY <1>1, <1>2, <1>3, <1>4, <1>6, <2>2, EndsHolding
  <2>5. Store!Unshelve(u, s)
    BY <1>4, <2>1, <2>3, <2>4 DEF Store!Unshelve
  <2> QED
    BY <1>2, <1>3, <2>5, NextIsStep, EndedTracks
<1>7. CASE faults = w.faults /\ ~HasGraph(u, s)
  <2>1. View[u] = w.view[u] /\ KeptMap[u] = w.kept[u]
    BY <1>1, <1>2, <1>3, <1>7 DEF TrackLoad, Emptying
  <2>2. \A v \in Users : View[v] = w.view[v] /\ KeptMap[v] = w.kept[v]
    BY <1>1, <1>3, <2>1 DEF Track, OthersTrack
  <2>3. View = w.view /\ KeptMap = w.kept
    BY <1>3, <2>2 DEF View, KeptMap, Tellable
  <2>4. Stored' = w
    BY <1>2, <1>3, <1>4, <1>7, <2>3, NextStored DEF Tellable
  <2> QED
    BY <1>2, <1>4, <2>4, ToldIs, EndedTracks DEF Step, Finish
<1> QED
  BY <1>5, <1>6, <1>7

-----------------------------------------------------------------------------
(* The end of the process, and all the steps *)

LEMMA CrashTracks == ASSUME IInv, IInv', Track, Crash PROVE Step /\ Track'
<1>1. /\ graphs' = [v \in Users |-> Absent] /\ Finish /\ Fault
      /\ UNCHANGED graphFile /\ UNCHANGED saved
  BY DEF Crash
<1>2. PICK w : w = Told
  OBVIOUS
<1>3. PICK x : x = Stored'
  OBVIOUS
<1>4. ToldThen(w, x) /\ w.faults <= faults
  BY <1>1, <1>2, <1>3, NextIsTellable, StoredIsTellable, StoredIs, ToldIs
  DEF ToldThen, Track, Finish, IInv, StoresOK
<1>5. x.faults > w.faults
  <2>1. x.faults = faults + 1 /\ faults \in Nat /\ w.faults \in Nat
    BY <1>1, <1>3, <1>4, NextStored DEF Fault, IInv, StoresOK, ToldThen, Tellable
  <2> QED
    BY <1>4, <2>1
<1>6. x.kept = KeptMap /\ x.shelf = Shelf
  <2>1. KeptMap' = KeptMap /\ Shelf' = Shelf
    BY <1>1 DEF KeptMap, Shelf
  <2> QED
    BY <1>3, <2>1, NextStored
<1>7. x.view = [v \in Users |-> Store!Read(x.kept[v])]
  <2>1. \A v \in Users : PlacesOf(UserGraph(v))' = Store!Read(KeptMap[v])
    <3> SUFFICES ASSUME NEW v \in Users PROVE PlacesOf(UserGraph(v))' = Store!Read(KeptMap[v])
      OBVIOUS
    <3>1. PlacesOf(UserGraph(v))' = PlacesOf(Unpickle(graphFile[v]))
      BY <1>1 DEF UserGraph, PlacesOf
    <3> QED
      BY <3>1, UserIsTold DEF IInv
  <2>2. View' = [v \in Users |-> Store!Read(KeptMap[v])]
    BY <2>1 DEF View
  <2> QED
    BY <1>3, <1>6, <2>2, NextStored
<1>8. \E u \in Users, s \in Names :
         /\ \A v \in Users \ {u} : KeptMap[v] = w.kept[v]
         /\ Left(w, u, s, KeptMap[u])
         /\ \A t \in Names \ {s} : Shelf[t] = w.shelf[t]
         /\ Shelf[s] \in Store!Debris(u, s)
  <2>1. CASE job = Idle
    <3>1. w.kept = KeptMap /\ w.shelf = Shelf
      BY <1>2, <2>1, ToldIs, StoredIs
    <3>2. PICK u \in Users, s \in Names : TRUE
      BY AbsentAssumption
    <3> QED
      BY <1>2, <3>1, <3>2, EmptyIsLeft, DebrisIs
  <2>2. CASE job # Idle
    <3>1. PICK u \in Users : u = job.user
      BY <2>2, JobKinds
    <3>2. w = job.was
      BY <1>2, <2>2, ToldIs
    <3>3. PICK s \in Names : Loose(w, u, s)
      BY <2>2, <3>1, <3>2, TrackLoose
    <3>4. \A v \in Users \ {u} : KeptMap[v] = w.kept[v]
      BY <2>2, <3>1, <3>2 DEF Track, OthersTrack
    <3> QED
      BY <3>3, <3>4 DEF Loose
  <2> QED
    BY <2>1, <2>2
<1>9. PICK u \in Users, s \in Names :
         /\ \A v \in Users \ {u} : KeptMap[v] = w.kept[v]
         /\ Left(w, u, s, KeptMap[u])
         /\ \A t \in Names \ {s} : Shelf[t] = w.shelf[t]
         /\ Shelf[s] \in Store!Debris(u, s)
  BY <1>8
<1>10. Store!Damage(u, s)
  <2>1. StatesSame(w, x, s) /\ Left(w, u, s, x.kept[u]) /\ x.shelf[s] \in Store!Debris(u, s)
    BY <1>6, <1>9 DEF StatesSame
  <2>2. \A v \in Users \ {u} : x.kept[v] = w.kept[v]
    BY <1>6, <1>9
  <2> QED
    BY <1>4, <1>5, <1>7, <2>1, <2>2, Damaging, Zenon
<1> QED
  BY <1>1, <1>10, NextIsStep, EndedTracks

LEMMA NothingTracks == ASSUME IInv, IInv', Track, UNCHANGED vars PROVE Step /\ Track'
<1>1. UNCHANGED graphs /\ UNCHANGED graphFile /\ UNCHANGED saved /\ UNCHANGED job /\ UNCHANGED faults
  BY DEF vars
<1>2. CASE job = Idle
  <2>1. View' = View /\ Shelf' = Shelf /\ KeptMap' = KeptMap
    BY <1>1, NothingTold
  <2>2. Stored' = Stored
    BY <1>1, <2>1, NextStored, StoredIs
  <2>3. Told' = Told /\ job' = Idle
    BY <1>1, <1>2, <2>2, ToldIs
  <2> QED
    BY <2>3 DEF Step, Track
<1>3. CASE job # Idle
  BY <1>1, <1>3, PicturesUnseen
<1> QED
  BY <1>2, <1>3

\* Each step of an operation is invisible, or is the operation on the store.
LEMMA TrackInvariance == IInv /\ IInv' /\ Track /\ [Next]_vars => Track' /\ Step
<1> SUFFICES ASSUME IInv, IInv', Track, [Next]_vars PROVE Step /\ Track'
  OBVIOUS
<1>1. CASE UNCHANGED vars
  BY <1>1, NothingTracks
<1>2. CASE JobStep
  BY <1>2, RemoveNodeTracks, SaveImageTracks, TruncateTracks, DumpTracks, ClearImagesTracks,
     RmTreeTracks, MkDirTracks, CreateCopyTracks, WriteCopyTracks, CopyImagesTracks, OpenGraphTracks,
     RestoreGraphTracks, ClearDestinationTracks, RestoreImagesTracks, SaysLoadedTracks
  DEF JobStep
<1>3. CASE Crash
  BY <1>3, CrashTracks
<1>4. ASSUME NEW u \in Users,
             \/ \E p \in Visits[u] : PoseImage(u, p)
             \/ GetUserGraph(u) \/ Reset(u)
             \/ \E s \in Names : \/ SaveMemoryState(u, s)
                                 \/ \E by \in {"reset", "chat"} : LoadMemoryState(u, s, by)
      PROVE  Step /\ Track'
  BY <1>4, PoseImageTracks, GetUserGraphTracks, ResetTracks, SaveMemoryStateTracks, LoadMemoryStateTracks
<1> QED
  BY <1>1, <1>2, <1>3, <1>4 DEF Next

LEMMA InitTracks == Init => Track /\ Store!Init
<1> SUFFICES ASSUME Init PROVE Track /\ Store!Init
  OBVIOUS
<1>1. Track /\ Told = Stored
  BY ToldIs DEF Init, Track
<1>2. View = [u \in Users |-> <<>>]
  BY PlacesOfEmpty DEF Init, View, UserGraph, Unpickle
<1>3. KeptMap = [u \in Users |-> Absent] /\ Shelf = [s \in Names |-> Absent] /\ faults = 0
  BY DEF Init, KeptMap, MapIn, Shelf
<1> QED
  BY <1>1, <1>2, <1>3, StoredIs DEF Store!Init

\* Whatever the users do, whatever fails and whenever the process ends, the memory
\* behaves as MemoryStore: an operation of many steps on the disk takes effect at
\* once, when it ends; a failure costs its user no more than the store allows, and
\* the other users and saved states nothing.
THEOREM ImplementsTheStore == Spec => ImplementsStore
<1>1. Step => [Store!Next]_(Store!store)
  BY DEF Step, Store!store
<1> QED
  BY <1>1, InitTracks, TrackInvariance, Invariance, PTL DEF Spec, ImplementsStore, Store!Spec
=============================================================================
