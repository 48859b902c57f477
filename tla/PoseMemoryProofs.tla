-------------------------- MODULE PoseMemoryProofs --------------------------
(***************************************************************************)
(* Theorems about the pose graph memory, for any users, poses, saved       *)
(* states, size of a graph and number of faults.  The argument: a graph is *)
(* only ever changed by a removal, by an append where there is room, or by *)
(* becoming one that was a user's graph before; the job says where in an   *)
(* operation there is room.                                                *)
(***************************************************************************)
EXTENDS PoseMemory, SequenceTheorems, TLAPS

\* A node's picture, if it has one, was taken where the node is.
Taken == {n \in Nodes : n.image # NoImage => n.image[1] = n.place}

Small == {graph \in Seq(Taken) : Len(graph) <= MaxNodes}

States == [owner : Users, graph : Small \cup {Absent, Torn}, images : (SUBSET Images) \cup {Absent}]

StoresOK ==
  /\ graphs \in [Users -> Small \cup {Absent}]
  /\ graphFile \in [Users -> Small \cup {Absent, Torn}]
  /\ files \in [Users -> (SUBSET Images) \cup {Absent}]
  /\ saved \in [Names -> States \cup {Absent}]
  /\ faults \in Nat

AddJobs(was) == [op : {"add"}, at : {"remove_node", "save_image", "truncate", "dump"}, user : Users,
                 node : [place : Places, image : Images], victim : Nat, faded : Nat, was : {was}]
Jobs(op, ats, names, was) ==
  [op : {op}, at : ats, user : Users, name : names, by : {"reset", "chat"}, was : {was}]

ResetAts == {"truncate", "dump", "clear"}
SaveAts  == {"rmtree", "mkdir", "create_copy", "write_copy", "copy_images"}
LoadAts  == {"truncate", "dump", "clear", "open_graph", "restore_graph", "clear_images",
             "restore_images", "loaded"}

\* A node is added to a graph that is in memory, and only where there is room.
Adding == /\ job \in AddJobs(job.was)
          /\ job.node.image[1] = job.node.place
          /\ graphs[job.user] \in Small
          /\ job.at = "remove_node" => job.victim \in DOMAIN graphs[job.user]
          /\ job.at = "save_image" => Len(graphs[job.user]) < MaxNodes

Resetting == /\ job \in Jobs("reset", ResetAts, Names \cup {Absent}, job.was)
             /\ graphs[job.user] \in Small

Saving == /\ job \in Jobs("save", SaveAts, Names, job.was)
          /\ job.at # "mkdir" => saved[job.name] \in States
          /\ job.at = "copy_images" => files[job.user] \in SUBSET Images

Loading == /\ job \in Jobs("load", LoadAts, Names, job.was)
           /\ saved[job.name] \in States
           /\ job.at \in {"truncate", "dump"} => graphs[job.user] \in Small
           /\ job.at \in {"clear_images", "restore_images"} => saved[job.name].images \in SUBSET Images
           /\ job.at = "restore_images" => files[job.user] \in SUBSET Images

JobOK == job = Idle \/ Adding \/ Resetting \/ Saving \/ Loading

IInv == StoresOK /\ JobOK

-----------------------------------------------------------------------------
(* What the operations do to a graph *)

LEMMA RemovedIsShorter ==
  ASSUME NEW S, NEW s \in Seq(S), NEW i \in 1..Len(s)
  PROVE  RemoveAt(s, i) \in Seq(S) /\ Len(RemoveAt(s, i)) = Len(s) - 1
<1>1. Len(s) \in Nat /\ i \in Nat /\ i >= 1 /\ i <= Len(s)
  BY LenProperties
<1>2. SubSeq(s, 1, i - 1) \in Seq(S) /\ Len(SubSeq(s, 1, i - 1)) = i - 1
  <2>1. \A j \in 1..(i - 1) : s[j] \in S
    BY <1>1, ElementOfSeq
  <2> QED
    BY <1>1, <2>1, SubSeqProperties
<1>3. SubSeq(s, i + 1, Len(s)) \in Seq(S) /\ Len(SubSeq(s, i + 1, Len(s))) = Len(s) - i
  BY <1>1, SubSeqProperties
<1> DEFINE before == SubSeq(s, 1, i - 1)
           after  == SubSeq(s, i + 1, Len(s))
<1> HIDE DEF before, after
<1>4. before \in Seq(S) /\ after \in Seq(S) /\ Len(before) = i - 1 /\ Len(after) = Len(s) - i
  BY <1>2, <1>3 DEF before, after
<1>5. before \o after \in Seq(S) /\ Len(before \o after) = Len(before) + Len(after)
  BY <1>4, ConcatProperties
<1>6. Len(before \o after) = Len(s) - 1
  BY <1>1, <1>4, <1>5
<1>7. RemoveAt(s, i) = before \o after
  BY DEF RemoveAt, before, after
<1> QED
  BY <1>5, <1>6, <1>7, Zenon

LEMMA EmptyIsSmall == <<>> \in Small
  BY MemoryAssumption DEF Small

LEMMA SmallIsNeither == \A graph \in Small : graph # Absent /\ graph # Torn
<1>1. Seq(Taken) \subseteq Seq(Nodes)
  BY DEF Taken
<1> QED
  BY <1>1, MemoryAssumption DEF Small

LEMMA RemovedIsSmall ==
  ASSUME NEW graph \in Small, NEW i \in DOMAIN graph
  PROVE  RemoveAt(graph, i) \in Small /\ Len(RemoveAt(graph, i)) < MaxNodes
<1>1. graph \in Seq(Taken) /\ i \in 1..Len(graph) /\ Len(graph) \in Nat
  BY LenProperties DEF Small
<1> QED
  BY <1>1, RemovedIsShorter, MemoryAssumption DEF Small

LEMMA AppendedIsSmall ==
  ASSUME NEW graph \in Small, Len(graph) < MaxNodes, NEW n \in Taken
  PROVE  Append(graph, n) \in Small
<1>1. graph \in Seq(Taken) /\ Len(graph) \in Nat
  BY LenProperties DEF Small
<1> QED
  BY <1>1, AppendProperties, MemoryAssumption DEF Small

LEMMA UnpickledIsSmall ==
  ASSUME NEW file \in Small \cup {Absent, Torn}
  PROVE  Unpickle(file) \in Small
  BY EmptyIsSmall DEF Unpickle

LEMMA UserGraphIsSmall == ASSUME StoresOK, NEW u \in Users PROVE UserGraph(u) \in Small
  BY UnpickledIsSmall DEF StoresOK, UserGraph

\* The step that a job makes within itself.
LEMMA AddGoes ==
  ASSUME NEW at \in {"remove_node", "save_image", "truncate", "dump"}, Goto(at),
         job \in AddJobs(job.was)
  PROVE  /\ job' \in AddJobs(job'.was) /\ job'.at = at
         /\ job'.user = job.user /\ job'.node = job.node /\ job'.victim = job.victim
  BY DEF AddJobs, Goto

LEMMA JobGoes ==
  ASSUME NEW op, NEW ats, NEW names, NEW at \in ats, Goto(at), job \in Jobs(op, ats, names, job.was)
  PROVE  /\ job' \in Jobs(op, ats, names, job'.was) /\ job'.at = at
         /\ job'.user = job.user /\ job'.name = job.name
  BY DEF Jobs, Goto

LEMMA StartsJob ==
  ASSUME NEW op, NEW ats, NEW names, NEW at \in ats, NEW u \in Users, NEW s \in names,
         NEW by \in {"reset", "chat"}, Starts(op, at, u, s, by)
  PROVE  /\ job' \in Jobs(op, ats, names, job'.was) /\ job'.at = at
         /\ job'.user = u /\ job'.name = s
<1> HIDE DEF Stored
<1> QED
  BY DEF Jobs, Starts

\* Where the job is tells which operation it belongs to.
LEMMA WhichJob ==
  ASSUME JobOK
  PROVE  /\ job.at \in {"remove_node", "save_image"} => Adding
         /\ job.at \in {"rmtree", "mkdir", "create_copy", "write_copy", "copy_images"} => Saving
         /\ job.at \in {"open_graph", "restore_graph", "clear_images", "restore_images", "loaded"} => Loading
         /\ job.at \in {"truncate", "dump"} => Adding \/ Resetting \/ Loading
         /\ job.at = "clear" => Resetting \/ Loading
         /\ Adding => job.op = "add"
         /\ Resetting => job.op = "reset"
         /\ Saving => job.op = "save"
         /\ Loading => job.op = "load"
<1>1. job = Idle => job.at = "idle"
  BY DEF Idle
<1>2. Adding => job.op = "add" /\ job.at \in {"remove_node", "save_image", "truncate", "dump"}
  BY DEF Adding, AddJobs
<1>3. Resetting => job.op = "reset" /\ job.at \in ResetAts
  BY DEF Resetting, Jobs
<1>4. Saving => job.op = "save" /\ job.at \in SaveAts
  BY DEF Saving, Jobs
<1>5. Loading => job.op = "load" /\ job.at \in LoadAts
  BY DEF Loading, Jobs
<1> QED
  BY <1>1, <1>2, <1>3, <1>4, <1>5 DEF JobOK, ResetAts, SaveAts, LoadAts

LEMMA FaultsCount == ASSUME StoresOK, Smooth \/ Fault PROVE faults' \in Nat
  BY DEF StoresOK, Smooth, Fault

LEMMA FinishIsOK == ASSUME Finish PROVE JobOK'
  BY DEF Finish, JobOK

LEMMA InitIInv == Init => IInv
<1> SUFFICES ASSUME Init PROVE IInv
  OBVIOUS
<1>1. graphs \in [Users -> Small \cup {Absent}] /\ graphFile \in [Users -> Small \cup {Absent, Torn}]
  BY DEF Init
<1>2. files \in [Users -> (SUBSET Images) \cup {Absent}] /\ saved \in [Names -> States \cup {Absent}]
  BY DEF Init
<1>3. faults \in Nat /\ job = Idle
  BY DEF Init
<1> QED
  BY <1>1, <1>2, <1>3 DEF IInv, StoresOK, JobOK

-----------------------------------------------------------------------------
(* A pose image *)

\* The entry that a user's graph gets when it is loaded.
LEMMA LoadsKeeps ==
  ASSUME StoresOK, NEW u \in Users, Loads(u)
  PROVE  graphs' \in [Users -> Small \cup {Absent}] /\ graphs'[u] = UserGraph(u)
<1>1. UserGraph(u) \in Small
  BY UserGraphIsSmall
<1>2. graphs' = [graphs EXCEPT ![u] = UserGraph(u)]
  BY DEF Loads
<1> HIDE DEF UserGraph
<1> QED
  BY <1>1, <1>2 DEF StoresOK

LEMMA PoseImageKeeps ==
  ASSUME IInv, NEW u \in Users, NEW p \in Visits[u], PoseImage(u, p)
  PROVE  IInv'
<1> DEFINE graph == UserGraph(u)
           image == CHOOSE i \in NewNames(u, p) : TRUE
           node == [place |-> p, image |-> image]
<1>1. graph \in Small /\ Len(graph) \in Nat
  BY UserGraphIsSmall, LenProperties DEF IInv, Small
<1>2. image \in NewNames(u, p)
  BY DEF PoseImage
<1>3. p \in Places /\ image \in Images /\ image[1] = p
  <2>1. PICK t \in Takes : image = <<p, t>>
    BY <1>2, Zenon DEF NewNames
  <2>2. p \in Places
    BY MemoryAssumption
  <2> HIDE DEF image
  <2> QED
    BY <2>1, <2>2 DEF Images
<1>4. node \in [place : Places, image : Images] /\ node.image[1] = node.place
  BY <1>3
<1>5. Loads(u) /\ UNCHANGED <<graphFile, files, saved, faults>>
  BY DEF PoseImage
<1>6. graphs' \in [Users -> Small \cup {Absent}] /\ graphs'[u] = graph
  BY <1>5, LoadsKeeps DEF IInv
<1>7. StoresOK'
  BY <1>5, <1>6 DEF IInv, StoresOK, Small, States
<1>8. \/ Len(graph) < MaxNodes /\ Adds("save_image", u, node, 0, 0)
      \/ \E faded \in 0..Len(graph) : \E i \in DOMAIN graph : Adds("remove_node", u, node, i, faded)
  BY DEF PoseImage, Evictable, Worthless
<1> HIDE DEF graph, node, image
<1>9. Adding'
  <2>1. CASE Len(graph) < MaxNodes /\ Adds("save_image", u, node, 0, 0)
    <3>1. job' \in AddJobs(job'.was) /\ job'.node = node /\ job'.user = u /\ job'.at = "save_image"
      BY <2>1, <1>4 DEF Adds, AddJobs
    <3> QED
      BY <3>1, <2>1, <1>1, <1>4, <1>6 DEF Adding
  <2>2. ASSUME NEW faded \in 0..Len(graph), NEW i \in DOMAIN graph, Adds("remove_node", u, node, i, faded)
        PROVE  Adding'
    <3>1. i \in Nat
      BY <1>1, LenProperties DEF Small
    <3>2. /\ job' \in AddJobs(job'.was) /\ job'.node = node /\ job'.user = u /\ job'.at = "remove_node"
          /\ job'.victim = i
      BY <2>2, <3>1, <1>1, <1>4 DEF Adds, AddJobs
    <3> QED
      BY <3>2, <1>1, <1>4, <1>6 DEF Adding
  <2> QED
    BY <1>8, <2>1, <2>2
<1> QED
  BY <1>7, <1>9 DEF IInv, JobOK

LEMMA GetUserGraphKeeps ==
  ASSUME IInv, NEW u \in Users, GetUserGraph(u)
  PROVE  IInv'
<1>1. graphs' \in [Users -> Small \cup {Absent}]
  BY LoadsKeeps DEF IInv, GetUserGraph
<1>2. StoresOK'
  BY <1>1 DEF IInv, StoresOK, GetUserGraph, Small, States
<1> QED
  BY <1>2 DEF IInv, JobOK, GetUserGraph

LEMMA RemoveNodeKeeps == ASSUME IInv, RemoveNode PROVE IInv'
<1> DEFINE u == job.user
           graph == graphs[job.user]
<1>1. Adding /\ job.at = "remove_node"
  BY WhichJob DEF RemoveNode, IInv
<1>2. u \in Users /\ graph \in Small /\ job.victim \in DOMAIN graph
  BY <1>1 DEF Adding, AddJobs
<1>3. graphs' = [graphs EXCEPT ![u] = RemoveAt(graph, job.victim)]
  BY DEF RemoveNode
<1>4. RemoveAt(graph, job.victim) \in Small /\ Len(RemoveAt(graph, job.victim)) < MaxNodes
  BY <1>2, RemovedIsSmall
<1>5. graphs' \in [Users -> Small \cup {Absent}] /\ graphs'[u] = RemoveAt(graph, job.victim)
  BY <1>2, <1>3, <1>4 DEF IInv, StoresOK
<1>6. files' \in [Users -> (SUBSET Images) \cup {Absent}]
  BY <1>2 DEF RemoveNode, IInv, StoresOK
<1>7. faults' \in Nat /\ UNCHANGED <<graphFile, saved>>
  BY FaultsCount DEF RemoveNode, IInv
<1>8. StoresOK'
  BY <1>5, <1>6, <1>7 DEF IInv, StoresOK, Small, States
<1>9. Adding'
  <2>1. /\ job' \in AddJobs(job'.was) /\ job'.at = "save_image"
        /\ job'.user = u /\ job'.node = job.node
    BY <1>1, AddGoes DEF RemoveNode, Adding
  <2> QED
    BY <2>1, <1>1, <1>4, <1>5 DEF Adding
<1> QED
  BY <1>8, <1>9 DEF IInv, JobOK

LEMMA SaveImageKeeps == ASSUME IInv, SaveImage PROVE IInv'
<1> DEFINE u == job.user
           graph == graphs[job.user]
<1>1. Adding /\ job.at = "save_image"
  BY WhichJob DEF SaveImage, IInv
<1>2. /\ u \in Users /\ graph \in Small /\ Len(graph) < MaxNodes
      /\ job.node \in [place : Places, image : Images] /\ job.node.image[1] = job.node.place
  BY <1>1 DEF Adding, AddJobs
<1>3. files' \in [Users -> (SUBSET Images) \cup {Absent}]
  <2>1. job.node.image \in Images /\ In(files[u]) \subseteq Images
    BY <1>2 DEF IInv, StoresOK, In
  <2>2. files' = files \/ \E written \in SUBSET {job.node.image} :
                            files' = [files EXCEPT ![u] = In(files[u]) \cup written]
    BY DEF SaveImage
  <2> QED
    BY <1>2, <2>1, <2>2 DEF IInv, StoresOK
<1>4. faults' \in Nat /\ UNCHANGED <<graphFile, saved>>
  BY FaultsCount DEF SaveImage, IInv
<1>5. CASE UNCHANGED graphs /\ Finish
  <2>1. StoresOK'
    BY <1>3, <1>4, <1>5 DEF IInv, StoresOK, Small, States
  <2> QED
    BY <1>5, <2>1, FinishIsOK DEF IInv
<1>6. ASSUME NEW image \in {job.node.image, NoImage}, AddsNode(u, image), Goto("truncate")
      PROVE  IInv'
  <2> DEFINE n == [job.node EXCEPT !.image = image]
  <2>1. n = [place |-> job.node.place, image |-> image]
    BY <1>2
  <2>2. n \in Taken
    BY <1>2, <2>1 DEF Taken, Nodes
  <2>3. Append(graph, n) \in Small
    BY <1>2, <2>2, AppendedIsSmall
  <2>4. graphs' = [graphs EXCEPT ![u] = Append(graph, n)]
    BY <1>6 DEF AddsNode
  <2> HIDE DEF n
  <2>5. graphs' \in [Users -> Small \cup {Absent}] /\ graphs'[u] \in Small
    BY <1>2, <2>3, <2>4 DEF IInv, StoresOK
  <2>6. StoresOK'
    BY <1>3, <1>4, <2>5 DEF IInv, StoresOK, Small, States
  <2>7. Adding'
    <3>1. /\ job' \in AddJobs(job'.was) /\ job'.at = "truncate"
          /\ job'.user = u /\ job'.node = job.node
      BY <1>1, <1>6, AddGoes DEF Adding
    <3> QED
      BY <3>1, <1>2, <2>5 DEF Adding
  <2> QED
    BY <2>6, <2>7 DEF IInv, JobOK
<1> QED
  BY <1>5, <1>6 DEF SaveImage

-----------------------------------------------------------------------------
(* The graph file, and the images of a reset *)

\* From the step that writes the graph an operation goes on with the file, or
\* to the images, or ends.
LEMMA WritingGoes ==
  ASSUME IInv, job.at \in {"truncate", "dump"}, UNCHANGED <<graphs, files, saved>>,
         (job.at = "truncate" /\ Goto("dump")) \/ Written
  PROVE  JobOK'
<1>1. CASE Adding
  <2>1. job.op = "add" /\ job \in AddJobs(job.was) /\ job.user \in Users
    BY <1>1, WhichJob DEF IInv, Adding, AddJobs
  <2>2. CASE Finish
    BY <2>2, FinishIsOK
  <2>3. CASE Goto("dump")
    <3>1. /\ job' \in AddJobs(job'.was) /\ job'.at = "dump"
          /\ job'.user = job.user /\ job'.node = job.node
      BY <2>1, <2>3, AddGoes
    <3> QED
      BY <1>1, <3>1 DEF Adding, JobOK
  <2> QED
    BY <2>1, <2>2, <2>3 DEF Written
<1>2. CASE Resetting
  <2>1. job.op = "reset" /\ job \in Jobs("reset", ResetAts, Names \cup {Absent}, job.was)
    BY <1>2, WhichJob DEF IInv, Resetting
  <2>2. PICK at \in {"dump", "clear"} : Goto(at)
    BY <2>1 DEF Written
  <2>3. at \in ResetAts
    BY DEF ResetAts
  <2>4. job' \in Jobs("reset", ResetAts, Names \cup {Absent}, job'.was) /\ job'.user = job.user
    BY <2>1, <2>2, <2>3, JobGoes
  <2> QED
    BY <1>2, <2>4 DEF Resetting, JobOK
<1>3. CASE Loading
  <2>1. job.op = "load" /\ job \in Jobs("load", LoadAts, Names, job.was)
    BY <1>3, WhichJob DEF IInv, Loading
  <2>2. PICK at \in {"dump", "clear"} : Goto(at)
    BY <2>1 DEF Written
  <2>3. at \in LoadAts
    BY DEF LoadAts
  <2>4. /\ job' \in Jobs("load", LoadAts, Names, job'.was) /\ job'.user = job.user
        /\ job'.name = job.name /\ job'.at = at
    BY <2>1, <2>2, <2>3, JobGoes
  <2> QED
    BY <1>3, <2>4 DEF Loading, JobOK
<1> QED
  BY <1>1, <1>2, <1>3, WhichJob DEF IInv

\* The user of an operation that writes the graph has one in memory.
LEMMA WritesSmall ==
  ASSUME IInv, job.at \in {"truncate", "dump"}
  PROVE  job.user \in Users /\ graphs[job.user] \in Small
<1>1. Adding => job.user \in Users /\ graphs[job.user] \in Small
  BY DEF Adding, AddJobs
<1>2. Resetting \/ Loading => job.user \in Users /\ graphs[job.user] \in Small
  BY DEF Resetting, Loading, Jobs
<1> QED
  BY <1>1, <1>2, WhichJob DEF IInv

LEMMA TruncateKeeps == ASSUME IInv, Truncate \/ Dump PROVE IInv'
<1>1. job.at \in {"truncate", "dump"} /\ UNCHANGED <<graphs, files, saved>>
  BY DEF Truncate, Dump
<1>2. JobOK'
  BY <1>1, WritingGoes DEF Truncate, Dump
<1>3. PICK file \in Small \cup {Torn} :
        graphFile' = graphFile \/ graphFile' = [graphFile EXCEPT ![job.user] = file]
  BY <1>1, WritesSmall DEF Truncate, Dump
<1>4. graphFile' \in [Users -> Small \cup {Absent, Torn}]
  BY <1>1, <1>3, WritesSmall DEF IInv, StoresOK
<1>5. faults' \in Nat
  BY FaultsCount DEF Truncate, Dump, IInv
<1>6. StoresOK'
  BY <1>1, <1>4, <1>5 DEF IInv, StoresOK, Small, States
<1> QED
  BY <1>2, <1>6 DEF IInv

\* The user's entry becomes the empty graph.
LEMMA EmptiesKeeps ==
  ASSUME IInv, NEW u \in Users, Empties(u)
  PROVE  graphs' \in [Users -> Small \cup {Absent}] /\ graphs'[u] \in Small
  BY EmptyIsSmall DEF Empties, IInv, StoresOK

LEMMA ResetKeeps == ASSUME IInv, NEW u \in Users, Reset(u) PROVE IInv'
<1>1. graphs' \in [Users -> Small \cup {Absent}] /\ graphs'[u] \in Small
  BY EmptiesKeeps DEF Reset
<1>2. StoresOK'
  BY <1>1 DEF Reset, IInv, StoresOK, Small, States
<1>3. "truncate" \in ResetAts /\ Absent \in Names \cup {Absent} /\ Starts("reset", "truncate", u, Absent, "reset")
  BY DEF Reset, ResetAts
<1>4. job' \in Jobs("reset", ResetAts, Names \cup {Absent}, job'.was) /\ job'.user = u
  BY <1>3, StartsJob
<1> QED
  BY <1>1, <1>2, <1>4 DEF IInv, JobOK, Resetting

LEMMA ClearImagesKeeps == ASSUME IInv, ClearImages PROVE IInv'
<1>1. job.at = "clear" /\ UNCHANGED <<graphs, graphFile, saved>> /\ faults' \in Nat
  BY FaultsCount DEF ClearImages, IInv, StoresOK
<1>2. files' = files \/ \E i \in In(files[job.user]) : files' = [files EXCEPT ![job.user] = @ \ {i}]
  BY DEF ClearImages
<1>3. files' \in [Users -> (SUBSET Images) \cup {Absent}]
  BY <1>2 DEF IInv, StoresOK, In
<1>4. StoresOK'
  BY <1>1, <1>3 DEF IInv, StoresOK, Small, States
<1>5. CASE UNCHANGED job
  BY <1>1, <1>4, <1>5, WhichJob DEF IInv, JobOK, Resetting, Loading
<1>6. CASE Cleared
  <2>1. CASE Finish
    BY <1>4, <2>1, FinishIsOK DEF IInv
  <2>2. CASE Goto("open_graph") /\ job.op = "load"
    <3>1. Loading /\ job \in Jobs("load", LoadAts, Names, job.was) /\ "open_graph" \in LoadAts
      BY <1>1, <2>2, WhichJob DEF IInv, Loading, LoadAts
    <3>2. /\ job' \in Jobs("load", LoadAts, Names, job'.was) /\ job'.user = job.user
          /\ job'.name = job.name /\ job'.at = "open_graph"
      BY <3>1, <2>2, JobGoes
    <3> QED
      BY <1>1, <1>4, <3>1, <3>2 DEF Loading, JobOK, IInv
  <2> QED
    BY <1>6, <2>1, <2>2 DEF Cleared
<1> QED
  BY <1>4, <1>5, <1>6 DEF IInv, ClearImages

-----------------------------------------------------------------------------
(* save_memory_state *)

LEMMA SaveMemoryStateKeeps ==
  ASSUME IInv, NEW u \in Users, NEW s \in Names, SaveMemoryState(u, s)
  PROVE  IInv'
<1>1. StoresOK'
  BY DEF SaveMemoryState, IInv, StoresOK, Small, States
<1>2. PICK at \in {"mkdir", "rmtree"} :
        Starts("save", at, u, s, "chat") /\ (at = "rmtree" => saved[s] # Absent)
  BY DEF SaveMemoryState
<1>3. at \in SaveAts
  BY DEF SaveAts
<1>4. /\ job' \in Jobs("save", SaveAts, Names, job'.was) /\ job'.user = u
      /\ job'.name = s /\ job'.at = at
  BY <1>2, <1>3, StartsJob
<1>5. saved' = saved /\ (at = "rmtree" => saved[s] \in States)
  BY <1>2 DEF SaveMemoryState, IInv, StoresOK
<1> QED
  BY <1>1, <1>4, <1>5 DEF IInv, JobOK, Saving

\* A step of a save that leaves the state a state goes on with it.
LEMMA SavingGoes ==
  ASSUME IInv, Saving, UNCHANGED <<graphs, graphFile, files>>, faults' \in Nat,
         NEW state \in States, saved' = [saved EXCEPT ![job.name] = state],
         NEW at \in SaveAts, job' = job \/ Goto(at),
         at = "copy_images" => files[job.user] \in SUBSET Images
  PROVE  IInv'
<1>1. job \in Jobs("save", SaveAts, Names, job.was) /\ job.name \in Names /\ job.user \in Users
  BY DEF Saving, Jobs
<1>2. StoresOK' /\ saved'[job.name] \in States
  BY <1>1 DEF IInv, StoresOK, Small, States
<1>3. CASE job' = job
  BY <1>2, <1>3 DEF IInv, JobOK, Saving
<1>4. CASE job' # job
  <2>1. /\ job' \in Jobs("save", SaveAts, Names, job'.was) /\ job'.user = job.user
        /\ job'.name = job.name /\ job'.at = at
    BY <1>1, <1>4, JobGoes
  <2> QED
    BY <1>2, <1>4, <2>1 DEF IInv, JobOK, Saving
<1> QED
  BY <1>3, <1>4

\* A save that gives up, or is done, leaves every state a state or absent.
LEMMA SavingEnds ==
  ASSUME IInv, Finish, UNCHANGED <<graphs, graphFile, files>>, faults' \in Nat,
         saved' \in [Names -> States \cup {Absent}]
  PROVE  IInv'
<1>1. StoresOK'
  BY DEF IInv, StoresOK, Small, States
<1> QED
  BY <1>1, FinishIsOK DEF IInv

LEMMA GivesUpKeeps == ASSUME IInv, GivesUp, UNCHANGED saved PROVE IInv'
<1>1. faults' \in Nat /\ Finish /\ UNCHANGED <<graphs, graphFile, files>>
  BY FaultsCount DEF GivesUp, IInv
<1>2. saved' \in [Names -> States \cup {Absent}]
  BY DEF IInv, StoresOK
<1> QED
  BY <1>1, <1>2, SavingEnds

\* What the steps of a save find.
LEMMA SavingFinds ==
  ASSUME IInv, job.at \in SaveAts
  PROVE  /\ Saving /\ job \in Jobs("save", SaveAts, Names, job.was)
         /\ job.name \in Names /\ job.user \in Users
         /\ job.at # "mkdir" =>
              /\ saved[job.name] \in States
              /\ saved[job.name].owner \in Users
              /\ saved[job.name].graph \in Small \cup {Absent, Torn}
              /\ saved[job.name].images \in (SUBSET Images) \cup {Absent}
              /\ In(saved[job.name].images) \subseteq Images
              /\ saved[job.name] = [owner |-> saved[job.name].owner, graph |-> saved[job.name].graph,
                                    images |-> saved[job.name].images]
<1>1. Saving
  BY WhichJob DEF IInv, SaveAts
<1>2. job \in Jobs("save", SaveAts, Names, job.was) /\ job.name \in Names /\ job.user \in Users
  BY <1>1 DEF Saving, Jobs
<1>3. job.at # "mkdir" => saved[job.name] \in States
  BY <1>1 DEF Saving
<1>4. ASSUME NEW state \in States
      PROVE  /\ state.owner \in Users /\ state.graph \in Small \cup {Absent, Torn}
             /\ state.images \in (SUBSET Images) \cup {Absent} /\ In(state.images) \subseteq Images
             /\ state = [owner |-> state.owner, graph |-> state.graph, images |-> state.images]
  BY DEF States, In
<1> QED
  BY <1>1, <1>2, <1>3, <1>4

LEMMA RmTreeKeeps == ASSUME IInv, RmTree PROVE IInv'
<1> DEFINE s == job.name
<1>1. job.at = "rmtree" /\ Saving /\ s \in Names
  BY SavingFinds DEF RmTree, SaveAts
<1>2. CASE /\ saved[s].graph # Absent /\ saved' = [saved EXCEPT ![s].graph = Absent]
           /\ UNCHANGED <<graphs, graphFile, files, job, faults>>
  <2>1. [saved[s] EXCEPT !.graph = Absent] \in States
    BY <1>1 DEF Saving, States
  <2>2. saved' = [saved EXCEPT ![s] = [saved[s] EXCEPT !.graph = Absent]] /\ faults' \in Nat
    BY <1>2 DEF IInv, StoresOK
  <2> QED
    BY <1>1, <1>2, <2>1, <2>2, SavingGoes DEF SaveAts
<1>3. ASSUME NEW images \in (SUBSET Images) \cup {Absent}, saved' = [saved EXCEPT ![s].images = images],
             UNCHANGED <<graphs, graphFile, files, job, faults>>
      PROVE  IInv'
  <2>1. [saved[s] EXCEPT !.images = images] \in States
    BY <1>1 DEF Saving, States
  <2>2. saved' = [saved EXCEPT ![s] = [saved[s] EXCEPT !.images = images]] /\ faults' \in Nat
    BY <1>3 DEF IInv, StoresOK
  <2> QED
    BY <1>1, <1>3, <2>1, <2>2, SavingGoes DEF SaveAts
<1>4. ASSUME NEW i \in In(saved[s].images), saved' = [saved EXCEPT ![s].images = @ \ {i}],
             UNCHANGED <<graphs, graphFile, files, job, faults>>
      PROVE  IInv'
  <2>1. saved[s].images \in SUBSET Images
    BY <1>1, SavingFinds DEF In, SaveAts
  <2> QED
    BY <1>3, <1>4, <2>1
<1>5. CASE /\ saved' = [saved EXCEPT ![s] = Absent] /\ Goto("mkdir")
           /\ Smooth /\ UNCHANGED <<graphs, graphFile, files>>
  <2>1. StoresOK'
    BY <1>1, <1>5, FaultsCount DEF IInv, StoresOK, Small, States
  <2>2. "mkdir" \in SaveAts /\ job \in Jobs("save", SaveAts, Names, job.was)
    BY <1>1 DEF Saving, SaveAts
  <2>3. job' \in Jobs("save", SaveAts, Names, job'.was) /\ job'.at = "mkdir"
    BY <1>5, <2>2, JobGoes
  <2> QED
    BY <2>1, <2>3 DEF IInv, JobOK, Saving
<1> QED
  BY <1>2, <1>3, <1>4, <1>5, GivesUpKeeps DEF RmTree

\* The steps of a save that go on to the images, if there are any.
LEMMA CopiedKeeps ==
  ASSUME IInv, Saving, UNCHANGED <<graphs, graphFile, files>>, faults' \in Nat,
         NEW state \in States, saved' = [saved EXCEPT ![job.name] = state],
         Copied(files[job.user], "copy_images")
  PROVE  IInv'
<1>1. job.user \in Users /\ job.name \in Names
  BY DEF Saving, Jobs
<1>2. CASE files[job.user] = Absent
  <2>1. saved' \in [Names -> States \cup {Absent}]
    BY DEF IInv, StoresOK
  <2> QED
    BY <1>2, <2>1, SavingEnds DEF Copied
<1>3. CASE files[job.user] # Absent
  <2>1. files[job.user] \in SUBSET Images /\ Goto("copy_images")
    BY <1>1, <1>3 DEF Copied, IInv, StoresOK
  <2> QED
    BY <2>1, SavingGoes DEF SaveAts
<1> QED
  BY <1>2, <1>3

LEMMA MkDirKeeps == ASSUME IInv, MkDir PROVE IInv'
<1> DEFINE state == [owner |-> job.user, graph |-> Absent, images |-> Absent]
<1>1. job.at = "mkdir" /\ Saving /\ job.user \in Users
  BY SavingFinds DEF MkDir, SaveAts
<1>2. state \in States
  BY <1>1 DEF States
<1>3. CASE /\ saved' = [saved EXCEPT ![job.name] = state]
           /\ Smooth /\ UNCHANGED <<graphs, graphFile, files>>
           /\ Goto("create_copy") \/ Copied(files[job.user], "copy_images")
  <2>1. faults' \in Nat
    BY <1>3, FaultsCount DEF IInv
  <2> HIDE DEF state
  <2>2. CASE Goto("create_copy")
    BY <1>1, <1>2, <1>3, <2>1, <2>2, SavingGoes DEF SaveAts
  <2>3. CASE Copied(files[job.user], "copy_images")
    BY <1>1, <1>2, <1>3, <2>1, <2>3, CopiedKeeps
  <2> QED
    BY <1>3, <2>2, <2>3
<1> QED
  BY <1>3, GivesUpKeeps DEF MkDir

LEMMA CreateCopyKeeps == ASSUME IInv, CreateCopy PROVE IInv'
<1> DEFINE state == [saved[job.name] EXCEPT !.graph = Torn]
<1>1. job.at = "create_copy" /\ Saving
  BY SavingFinds DEF CreateCopy, SaveAts
<1>2. state \in States
  BY <1>1 DEF Saving, States
<1>3. CASE /\ saved' = [saved EXCEPT ![job.name] = state] /\ Goto("write_copy")
           /\ Smooth /\ UNCHANGED <<graphs, graphFile, files>>
  <2>1. faults' \in Nat
    BY <1>3, FaultsCount DEF IInv
  <2> QED
    BY <1>1, <1>2, <1>3, <2>1, SavingGoes DEF SaveAts
<1> QED
  BY <1>3, GivesUpKeeps DEF CreateCopy

LEMMA WriteCopyKeeps == ASSUME IInv, WriteCopy PROVE IInv'
<1> DEFINE state == [saved[job.name] EXCEPT !.graph = graphFile[job.user]]
<1>1. job.at = "write_copy" /\ Saving /\ job.user \in Users
  BY SavingFinds DEF WriteCopy, SaveAts
<1>2. graphFile[job.user] \in Small \cup {Absent, Torn}
  BY <1>1 DEF IInv, StoresOK
<1>3. state \in States
  BY <1>1, <1>2 DEF Saving, States
<1>4. CASE /\ saved' = [saved EXCEPT ![job.name] = state]
           /\ Copied(files[job.user], "copy_images")
           /\ Smooth /\ UNCHANGED <<graphs, graphFile, files>>
  <2>1. faults' \in Nat
    BY <1>4, FaultsCount DEF IInv
  <2> QED
    BY <1>1, <1>3, <1>4, <2>1, CopiedKeeps
<1> QED
  BY <1>4, GivesUpKeeps DEF WriteCopy

LEMMA CopyImagesKeeps == ASSUME IInv, CopyImages PROVE IInv'
<1> DEFINE s == job.name
<1>1. job.at = "copy_images" /\ Saving
  BY SavingFinds DEF CopyImages, SaveAts
<1>2. files[job.user] \in SUBSET Images /\ In(saved[s].images) \subseteq Images
  BY <1>1, SavingFinds DEF Saving, SaveAts
<1>3. ASSUME NEW images \in SUBSET Images, saved' = [saved EXCEPT ![s].images = images],
             Smooth, UNCHANGED <<graphs, graphFile, files, job>>
      PROVE  IInv'
  <2>1. [saved[s] EXCEPT !.images = images] \in States
    BY <1>1 DEF Saving, States
  <2>2. saved' = [saved EXCEPT ![s] = [saved[s] EXCEPT !.images = images]] /\ faults' \in Nat
    BY <1>3, FaultsCount DEF IInv
  <2> QED
    BY <1>1, <1>2, <1>3, <2>1, <2>2, SavingGoes DEF SaveAts
<1>4. CASE saved' = [saved EXCEPT ![s].images = In(@)] /\ Smooth /\ UNCHANGED <<graphs, graphFile, files, job>>
  BY <1>2, <1>3, <1>4
<1>5. ASSUME NEW i \in files[job.user] \ In(saved[s].images), saved[s].images # Absent,
             saved' = [saved EXCEPT ![s].images = @ \cup {i}],
             Smooth, UNCHANGED <<graphs, graphFile, files, job>>
      PROVE  IInv'
  <2>1. saved[s].images \cup {i} \in SUBSET Images
    BY <1>2, <1>5 DEF In
  <2> QED
    BY <1>3, <1>5, <2>1
<1>6. CASE Finish /\ Smooth /\ UNCHANGED <<graphs, graphFile, files, saved>>
  <2>1. faults' \in Nat /\ saved' \in [Names -> States \cup {Absent}]
    BY <1>6, FaultsCount DEF IInv, StoresOK
  <2> QED
    BY <1>6, <2>1, SavingEnds
<1> QED
  BY <1>4, <1>5, <1>6, GivesUpKeeps DEF CopyImages

-----------------------------------------------------------------------------
(* load_memory_state *)

\* The step from the graph to the images of a state.
LEMMA AfterGraphGoes ==
  ASSUME NEW u, NEW s, saved[s] \in States
  PROVE  /\ AfterGraph(u, s) \in {"clear_images", "loaded"}
         /\ AfterGraph(u, s) = "clear_images" => saved[s].images \in SUBSET Images
  BY DEF AfterGraph, HasImages, States

LEMMA LoadMemoryStateKeeps ==
  ASSUME IInv, NEW u \in Users, NEW s \in Names, NEW by \in {"reset", "chat"},
         LoadMemoryState(u, s, by)
  PROVE  IInv'
<1>1. saved[s] \in States /\ saved' = saved
  BY DEF LoadMemoryState, IInv, StoresOK
<1>2. CASE HasGraph(u, s)
  <2>1. /\ graphs' \in [Users -> Small \cup {Absent}] /\ graphs'[u] \in Small
        /\ Starts("load", "truncate", u, s, by)
    BY <1>2, EmptiesKeeps DEF LoadMemoryState
  <2>2. StoresOK'
    BY <2>1 DEF LoadMemoryState, IInv, StoresOK, Small, States
  <2>3. /\ job' \in Jobs("load", LoadAts, Names, job'.was) /\ job'.user = u
        /\ job'.name = s /\ job'.at = "truncate"
    BY <2>1, StartsJob DEF LoadAts
  <2> QED
    BY <1>1, <2>1, <2>2, <2>3 DEF IInv, JobOK, Loading
<1>3. CASE ~HasGraph(u, s)
  <2>1. StoresOK' /\ Starts("load", AfterGraph(u, s), u, s, by)
    BY <1>3 DEF LoadMemoryState, IInv, StoresOK, Small, States
  <2>2. AfterGraph(u, s) \in LoadAts
    BY <1>1, AfterGraphGoes DEF LoadAts
  <2>3. /\ job' \in Jobs("load", LoadAts, Names, job'.was) /\ job'.user = u
        /\ job'.name = s /\ job'.at = AfterGraph(u, s)
    BY <2>1, <2>2, StartsJob
  <2> QED
    BY <1>1, <2>1, <2>3, AfterGraphGoes DEF IInv, JobOK, Loading
<1> QED
  BY <1>2, <1>3

\* What the steps of a load find.
LEMMA LoadingFinds ==
  ASSUME IInv, job.at \in {"open_graph", "restore_graph", "clear_images", "restore_images", "loaded"}
  PROVE  /\ Loading /\ job \in Jobs("load", LoadAts, Names, job.was)
         /\ job.user \in Users /\ job.name \in Names
         /\ saved[job.name] \in States
         /\ saved[job.name].graph \in Small \cup {Absent, Torn}
<1>1. Loading
  BY WhichJob DEF IInv
<1> QED
  BY <1>1 DEF Loading, Jobs, States

LEMMA LoadFailsKeeps ==
  ASSUME IInv, Loading, LoadFails, UNCHANGED <<graphFile, files, saved>>
  PROVE  IInv'
<1>1. job \in Jobs("load", LoadAts, Names, job.was) /\ job.user \in Users
  BY DEF Loading, Jobs
<1>2. faults' \in Nat
  BY FaultsCount DEF LoadFails, IInv
<1>3. CASE job.by = "reset"
  <2>1. graphs' \in [Users -> Small \cup {Absent}] /\ graphs'[job.user] \in Small
    BY <1>1, <1>3, EmptiesKeeps DEF LoadFails
  <2>2. StoresOK'
    BY <1>2, <2>1 DEF IInv, StoresOK, Small, States
  <2>3. job' = [job EXCEPT !.op = "reset", !.at = "truncate"]
    BY <1>3 DEF LoadFails
  <2>4. job' \in Jobs("reset", ResetAts, Names \cup {Absent}, job'.was) /\ job'.user = job.user
    BY <1>1, <2>3 DEF Jobs, ResetAts
  <2> QED
    BY <2>1, <2>2, <2>4 DEF IInv, JobOK, Resetting
<1>4. CASE job.by # "reset"
  <2>1. StoresOK' /\ Finish
    BY <1>2, <1>4 DEF LoadFails, IInv, StoresOK, Small, States
  <2> QED
    BY <2>1, FinishIsOK DEF IInv
<1> QED
  BY <1>3, <1>4

\* A load that goes on, to a step whose conditions hold.
LEMMA LoadingGoes ==
  ASSUME IInv, Loading, StoresOK', UNCHANGED saved,
         NEW at \in {"restore_graph", "clear_images", "restore_images", "loaded"}, Goto(at),
         at \in {"clear_images", "restore_images"} => saved[job.name].images \in SUBSET Images,
         at = "restore_images" => files'[job.user] \in SUBSET Images
  PROVE  IInv'
<1>1. job \in Jobs("load", LoadAts, Names, job.was) /\ at \in LoadAts
  BY DEF Loading, LoadAts
<1>2. /\ job' \in Jobs("load", LoadAts, Names, job'.was) /\ job'.user = job.user
      /\ job'.name = job.name /\ job'.at = at
  BY <1>1, JobGoes
<1> QED
  BY <1>2 DEF IInv, JobOK, Loading

LEMMA OpenGraphKeeps == ASSUME IInv, OpenGraph PROVE IInv'
<1>1. job.at = "open_graph" /\ Loading /\ job.user \in Users /\ UNCHANGED <<files, saved>>
  BY LoadingFinds DEF OpenGraph
<1>2. CASE /\ graphFile' = [graphFile EXCEPT ![job.user] = Torn]
           /\ Goto("restore_graph") /\ Smooth /\ UNCHANGED graphs
  <2>1. graphFile' \in [Users -> Small \cup {Absent, Torn}] /\ faults' \in Nat
    BY <1>2, FaultsCount DEF IInv, StoresOK
  <2>2. StoresOK'
    BY <1>1, <1>2, <2>1 DEF IInv, StoresOK, Small, States
  <2> QED
    BY <1>1, <1>2, <2>2, LoadingGoes
<1> QED
  BY <1>1, <1>2, LoadFailsKeeps DEF OpenGraph

LEMMA RestoreGraphKeeps == ASSUME IInv, RestoreGraph PROVE IInv'
<1> DEFINE graph == saved[job.name].graph
           at == AfterGraph(job.user, job.name)
<1>1. /\ job.at = "restore_graph" /\ Loading /\ job.user \in Users /\ UNCHANGED <<files, saved>>
      /\ saved[job.name] \in States /\ graph \in Small \cup {Absent, Torn}
  BY LoadingFinds DEF RestoreGraph
<1>2. /\ at \in {"clear_images", "loaded"}
      /\ at = "clear_images" => saved[job.name].images \in SUBSET Images
  BY <1>1, AfterGraphGoes
<1>3. CASE /\ graphFile' = [graphFile EXCEPT ![job.user] = graph]
           /\ graphs' = [graphs EXCEPT ![job.user] = Unpickle(graph)]
           /\ Goto(at) /\ Smooth
  <2>1. Unpickle(graph) \in Small
    BY <1>1, UnpickledIsSmall
  <2>2. graphs' \in [Users -> Small \cup {Absent}]
    BY <1>3, <2>1 DEF IInv, StoresOK
  <2>3. graphFile' \in [Users -> Small \cup {Absent, Torn}] /\ faults' \in Nat
    BY <1>1, <1>3, FaultsCount DEF IInv, StoresOK
  <2>4. StoresOK'
    BY <1>1, <2>2, <2>3 DEF IInv, StoresOK, Small, States
  <2> HIDE DEF at
  <2> QED
    BY <1>1, <1>2, <1>3, <2>4, LoadingGoes
<1>4. CASE LoadFails /\ UNCHANGED graphFile
  BY <1>1, <1>4, LoadFailsKeeps
<1> QED
  BY <1>3, <1>4 DEF RestoreGraph

\* The images of a load come and go; the job stays where it is.
LEMMA ImagesMove ==
  ASSUME IInv, Loading, job.at \in {"clear_images", "restore_images"},
         NEW images \in SUBSET Images, files' = [files EXCEPT ![job.user] = images],
         UNCHANGED <<graphs, graphFile, saved, faults>>
  PROVE  StoresOK' /\ (job' = job => IInv') /\ files'[job.user] \in SUBSET Images
<1>1. job.user \in Users
  BY DEF Loading, Jobs
<1>2. StoresOK' /\ files'[job.user] \in SUBSET Images
  BY <1>1 DEF IInv, StoresOK, Small, States
<1>3. ASSUME job' = job PROVE IInv'
  BY <1>2, <1>3 DEF IInv, JobOK, Loading
<1> QED
  BY <1>2, <1>3

LEMMA ClearDestinationKeeps == ASSUME IInv, ClearDestination PROVE IInv'
<1>1. job.at = "clear_images" /\ Loading /\ job.user \in Users /\ UNCHANGED <<graphFile, saved>>
  BY LoadingFinds DEF ClearDestination
<1>2. saved[job.name].images \in SUBSET Images
  BY <1>1 DEF Loading
<1>3. ASSUME NEW i \in In(files[job.user]), files' = [files EXCEPT ![job.user] = @ \ {i}],
             UNCHANGED <<graphs, job, faults>>
      PROVE  IInv'
  <2>1. files[job.user] \ {i} \in SUBSET Images
    BY <1>1, <1>3 DEF IInv, StoresOK, In
  <2> QED
    BY <1>1, <1>3, <2>1, ImagesMove
<1>4. CASE /\ files' = [files EXCEPT ![job.user] = {}]
           /\ Goto("restore_images") /\ Smooth /\ UNCHANGED graphs
  <2>1. StoresOK' /\ files'[job.user] \in SUBSET Images
    <3>1. {} \in SUBSET Images /\ UNCHANGED <<graphs, graphFile, saved, faults>>
      BY <1>1, <1>4 DEF Smooth
    <3>2. files' = [files EXCEPT ![job.user] = {}]
      BY <1>4
    <3>3. \A images \in SUBSET Images : files' = [files EXCEPT ![job.user] = images] =>
            StoresOK' /\ files'[job.user] \in SUBSET Images
      BY <1>1, <3>1, ImagesMove
    <3> QED
      BY <3>1, <3>2, <3>3
  <2> QED
    BY <1>1, <1>2, <1>4, <2>1, LoadingGoes
<1>5. CASE LoadFails /\ UNCHANGED files
  BY <1>1, <1>5, LoadFailsKeeps
<1> QED
  BY <1>3, <1>4, <1>5 DEF ClearDestination

LEMMA RestoreImagesKeeps == ASSUME IInv, RestoreImages PROVE IInv'
<1>1. job.at = "restore_images" /\ Loading /\ UNCHANGED <<graphFile, saved>>
  BY LoadingFinds DEF RestoreImages
<1>2. saved[job.name].images \in SUBSET Images /\ files[job.user] \in SUBSET Images
  BY <1>1 DEF Loading
<1>3. ASSUME NEW i \in saved[job.name].images \ files[job.user],
             files' = [files EXCEPT ![job.user] = @ \cup {i}], UNCHANGED <<graphs, job, faults>>
      PROVE  IInv'
  <2>1. files[job.user] \cup {i} \in SUBSET Images
    BY <1>2
  <2> QED
    BY <1>1, <1>3, <2>1, ImagesMove
<1>4. CASE Goto("loaded") /\ Smooth /\ UNCHANGED <<graphs, files>>
  <2>1. StoresOK'
    BY <1>1, <1>4 DEF Smooth, IInv, StoresOK, Small, States
  <2> QED
    BY <1>1, <1>4, <2>1, LoadingGoes
<1>5. CASE LoadFails /\ UNCHANGED files
  BY <1>1, <1>5, LoadFailsKeeps
<1> QED
  BY <1>3, <1>4, <1>5 DEF RestoreImages

LEMMA EndingsKeep == ASSUME IInv, SaysLoaded \/ Crash PROVE IInv'
<1>1. graphs' \in [Users -> Small \cup {Absent}] /\ UNCHANGED <<graphFile, files, saved>>
  BY DEF SaysLoaded, Crash, IInv, StoresOK
<1>2. faults' \in Nat
  BY FaultsCount DEF SaysLoaded, Crash, IInv, StoresOK
<1>3. StoresOK'
  BY <1>1, <1>2 DEF IInv, StoresOK, Small, States
<1> QED
  BY <1>3, FinishIsOK DEF IInv, SaysLoaded, Crash

-----------------------------------------------------------------------------
LEMMA NextIInv == ASSUME IInv, [Next]_vars PROVE IInv'
<1>1. CASE UNCHANGED vars
  BY <1>1 DEF vars, IInv, StoresOK, JobOK, Adding, Resetting, Saving, Loading, Small, States
<1>2. CASE JobStep
  BY <1>2, RemoveNodeKeeps, SaveImageKeeps, TruncateKeeps, ClearImagesKeeps, RmTreeKeeps, MkDirKeeps,
     CreateCopyKeeps, WriteCopyKeeps, CopyImagesKeeps, OpenGraphKeeps, RestoreGraphKeeps,
     ClearDestinationKeeps, RestoreImagesKeeps, EndingsKeep
  DEF JobStep
<1>3. ASSUME NEW u \in Users,
             \/ \E p \in Visits[u] : PoseImage(u, p)
             \/ GetUserGraph(u) \/ Reset(u)
             \/ \E s \in Names : \/ SaveMemoryState(u, s)
                                 \/ \E by \in {"reset", "chat"} : LoadMemoryState(u, s, by)
      PROVE  IInv'
  BY <1>3, PoseImageKeeps, GetUserGraphKeeps, ResetKeeps, SaveMemoryStateKeeps, LoadMemoryStateKeeps
<1>4. CASE Crash
  BY <1>4, EndingsKeep
<1> QED
  BY <1>1, <1>2, <1>3, <1>4 DEF Next

\* In every state the stores hold bounded graphs of nodes whose pictures are their
\* own, and an operation under way has room for what it still adds: the inductive
\* invariant behind the theorems below.
THEOREM Invariance == Spec => []IInv
<1>1. IInv /\ [Next]_vars => IInv'
  BY NextIInv
<1> QED
  BY InitIInv, <1>1, PTL DEF Spec

\* No graph, in memory, on disk or in a saved state, outgrows its bound.
THEOREM GraphsAreBounded == Spec => []Bounded
<1>1. ASSUME IInv PROVE Bounded
  <2>1. Seq(Taken) \subseteq Seq(Nodes)
    BY DEF Taken
  <2>2. \A graph \in Small : graph \in Seq(Nodes) /\ Len(graph) <= MaxNodes
    BY <2>1 DEF Small
  <2>3. \A u \in Users : UserGraph(u) \in Small /\ Unpickle(graphFile[u]) \in Small
    BY <1>1, UserGraphIsSmall, UnpickledIsSmall DEF IInv, StoresOK
  <2>4. \A s \in Names : saved[s] # Absent => Unpickle(saved[s].graph) \in Small
    BY <1>1, UnpickledIsSmall DEF IInv, StoresOK, States
  <2>5. Graphs \subseteq Small
    BY <2>3, <2>4 DEF Graphs
  <2> QED
    BY <2>2, <2>5 DEF Bounded
<1> QED
  BY <1>1, Invariance, PTL

\* A location that a search answers with is where the picture shown was taken.
THEOREM LocationsAreRight == Spec => []FoundWhereSeen
<1>1. ASSUME IInv PROVE FoundWhereSeen
  <2> SUFFICES ASSUME NEW u \in Users, NEW frame \in Frames(u)
               PROVE  frame[2] \in Images /\ Location(u, frame[1]) = frame[2][1]
    BY DEF FoundWhereSeen
  <2> DEFINE graph == UserGraph(u)
  <2>1. PICK n \in Shown(u) : frame = <<n, graph[n].image>>
    BY DEF Frames
  <2>2. graph \in Seq(Taken) /\ n \in DOMAIN graph /\ graph[n].image \in In(files[u])
    BY <1>1, UserGraphIsSmall DEF IInv, Small, Shown
  <2>3. In(files[u]) \subseteq Images
    BY <1>1 DEF IInv, StoresOK, In
  <2> HIDE DEF graph
  <2>4. graph[n] \in Taken
    BY <2>2
  <2>5. graph[n].image \in Images /\ graph[n].image[1] = graph[n].place
    BY <2>2, <2>3, <2>4, MemoryAssumption DEF Taken
  <2> QED
    BY <2>1, <2>5 DEF Location, graph
<1> QED
  BY <1>1, Invariance, PTL

-----------------------------------------------------------------------------
(* Which node makes room *)

\* Until it is removed, the node that was chosen is one that may be.
Chosen == job.at = "remove_node" => job.victim \in Evictable(graphs[job.user], job.faded)

LEMMA GotoGoes == ASSUME IInv, job # Idle, NEW at, Goto(at) PROVE job'.at = at
  BY DEF IInv, JobOK, Adding, Resetting, Saving, Loading, AddJobs, Jobs, Goto

LEMMA PoseImageChooses == ASSUME IInv, NEW u \in Users, NEW p \in Visits[u], PoseImage(u, p) PROVE Chosen'
<1> DEFINE graph == UserGraph(u)
<1>1. graphs'[u] = graph
  BY DEF PoseImage, Loads, IInv, StoresOK
<1>2. CASE \E node : Adds("save_image", u, node, 0, 0)
  BY <1>2 DEF Adds, Chosen
<1>3. ASSUME NEW faded, NEW i \in Evictable(graph, faded), NEW node, Adds("remove_node", u, node, i, faded)
      PROVE  Chosen'
  <2>1. job'.user = u /\ job'.victim = i /\ job'.faded = faded
    BY <1>3 DEF Adds
  <2> QED
    BY <1>1, <1>3, <2>1 DEF Chosen
<1>4. \/ \E node : Adds("save_image", u, node, 0, 0)
      \/ \E faded : \E i \in Evictable(graph, faded) : \E node : Adds("remove_node", u, node, i, faded)
  BY DEF PoseImage
<1> QED
  BY <1>2, <1>3, <1>4

\* No other step leads to the removal of a node.
LEMMA OthersChooseNothing ==
  ASSUME IInv, Chosen, [Next]_vars, \A u \in Users : \A p \in Visits[u] : ~PoseImage(u, p)
  PROVE  Chosen'
<1>1. CASE UNCHANGED vars
  BY <1>1 DEF vars, Chosen
<1>2. ASSUME NEW u \in Users, GetUserGraph(u) PROVE Chosen'
  BY <1>2 DEF GetUserGraph, Idle, Chosen
<1>3. ASSUME NEW u \in Users,
             Reset(u) \/ \E s \in Names : \/ SaveMemoryState(u, s)
                                          \/ \E by \in {"reset", "chat"} : LoadMemoryState(u, s, by)
      PROVE  Chosen'
  BY <1>3 DEF Reset, SaveMemoryState, LoadMemoryState, Starts, AfterGraph, Chosen
<1>4. ASSUME Finish PROVE Chosen'
  BY <1>4 DEF Finish, Idle, Chosen
<1>5. ASSUME UNCHANGED job, job.at # "remove_node" PROVE Chosen'
  BY <1>5 DEF Chosen
<1>6. ASSUME NEW at, at # "remove_node", job # Idle, Goto(at) PROVE Chosen'
  BY <1>6, GotoGoes DEF Chosen
<1>7. ASSUME job.at # "idle", Written \/ Cleared \/ \E file : \E at \in {"copy_images"} : Copied(file, at) PROVE Chosen'
  <2>1. job # Idle
    BY <1>7 DEF Idle
  <2> QED
    BY <1>4, <1>6, <1>7, <2>1 DEF Written, Cleared, Copied
<1>8. ASSUME LoadFails PROVE Chosen'
  <2>1. CASE job.by = "reset"
    <3>1. job' = [job EXCEPT !.op = "reset", !.at = "truncate"]
      BY <1>8, <2>1 DEF LoadFails
    <3>2. job \in Jobs("load", LoadAts, Names, job.was) \/ job.at = "truncate" \/ job'.at # "remove_node"
      BY <3>1 DEF IInv, JobOK, Adding, Resetting, Saving, Loading, AddJobs, Jobs, Idle
    <3> QED
      BY <3>1, <3>2 DEF Chosen, Jobs
  <2> QED
    BY <1>4, <1>8, <2>1 DEF LoadFails
<1>9. CASE JobStep
  <2>1. CASE RemoveNode \/ SaveImage
    BY <1>4, <1>6, <2>1 DEF RemoveNode, SaveImage, Idle
  <2>2. CASE Truncate \/ Dump \/ ClearImages
    <3>1. job.at # "idle" /\ job.at # "remove_node" /\ job # Idle
      BY <2>2 DEF Truncate, Dump, ClearImages, Idle
    <3> QED
      BY <1>5, <1>6, <1>7, <2>2, <3>1 DEF Truncate, Dump, ClearImages
  <2>3. CASE RmTree \/ MkDir \/ CreateCopy \/ WriteCopy \/ CopyImages
    <3>1. job.at # "idle" /\ job.at # "remove_node" /\ job # Idle
      BY <2>3 DEF RmTree, MkDir, CreateCopy, WriteCopy, CopyImages, Idle
    <3>2. GivesUp => Chosen'
      BY <1>4 DEF GivesUp
    <3> QED
      BY <1>4, <1>5, <1>6, <1>7, <2>3, <3>1, <3>2 DEF RmTree, MkDir, CreateCopy, WriteCopy, CopyImages
  <2>4. CASE OpenGraph \/ RestoreGraph \/ ClearDestination \/ RestoreImages \/ SaysLoaded
    <3>1. job.at # "idle" /\ job.at # "remove_node" /\ job # Idle
      BY <2>4 DEF OpenGraph, RestoreGraph, ClearDestination, RestoreImages, SaysLoaded, Idle
    <3>2. Goto(AfterGraph(job.user, job.name)) => Chosen'
      BY <1>6, <3>1 DEF AfterGraph
    <3> QED
      BY <1>4, <1>5, <1>6, <1>8, <2>4, <3>1, <3>2
      DEF OpenGraph, RestoreGraph, ClearDestination, RestoreImages, SaysLoaded
  <2> QED
    BY <1>9, <2>1, <2>2, <2>3, <2>4 DEF JobStep
<1>10. CASE Crash
  BY <1>4, <1>10 DEF Crash
<1> QED
  BY <1>1, <1>2, <1>3, <1>9, <1>10 DEF Next

\* Making room costs no coverage as long as some node sees nothing of its own and
\* no recency weight has vanished, for any poses, cells and size of a graph.
THEOREM RedundantFirst == Spec => []EvictsRedundantFirst
<1>1. Init => Chosen
  BY DEF Init, Idle, Chosen
<1>2. IInv /\ Chosen /\ [Next]_vars => Chosen'
  BY PoseImageChooses, OthersChooseNothing
<1>3. ASSUME IInv, Chosen PROVE EvictsRedundantFirst
  <2> SUFFICES ASSUME job.at = "remove_node", job.faded = 0,
                      NEW i \in DOMAIN graphs[job.user], Unique(graphs[job.user], i) = {}
               PROVE  Unique(graphs[job.user], job.victim) = {}
    BY DEF EvictsRedundantFirst
  <2> DEFINE graph == graphs[job.user]
  <2>1. graph \in Small
    BY <1>3 DEF IInv, JobOK, Adding, Resetting, Saving, Loading, Jobs, ResetAts, SaveAts, LoadAts, Idle
  <2>2. \A k \in DOMAIN graph : ~(k <= 0)
    BY <2>1 DEF Small
  <2>3. i \in Worthless(graph, 0) /\ \A k \in Worthless(graph, 0) : Unique(graph, k) = {}
    BY <2>2 DEF Worthless
  <2>4. job.victim \in Evictable(graph, 0)
    BY <1>3 DEF Chosen
  <2> QED
    BY <2>3, <2>4 DEF Evictable
<1> QED
  BY <1>1, <1>2, <1>3, Invariance, PTL DEF Spec
=============================================================================
