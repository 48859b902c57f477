----------------------------- MODULE PoseMemory -----------------------------
(***************************************************************************)
(* The pose graph memory (primitives/navigate_through_memory.py), the      *)
(* handler that feeds it (brain_utils/pose_graph_handler.py) and the saved *)
(* memory states (brain_utils/memory_state_manager.py), down to the single *)
(* operations on files.                                                    *)
(*                                                                         *)
(* The memory is one object per process.  Its operations have no await     *)
(* inside, so one runs at a time: `job' is the operation under way and     *)
(* where it has got to.  What can come between two of its steps is an      *)
(* error of the disk, or the end of the process.                           *)
(***************************************************************************)
EXTENDS Integers, Sequences, FiniteSets, SequencesExt

CONSTANTS
  Users,        \* connection ids: the keys of _user_graphs and of the files
  Names,        \* names of memory states
  Places,       \* poses (x, y, theta)
  Visits,       \* Visits[u]: the poses that the robot of user u sends
  Sees,         \* Sees[p]: the grid cells in the cone of vision of p
  Near,         \* pairs of poses closer than min_distance and min_angle_diff
  MaxNodes,     \* COVERAGE_MAX_NODES
  Takes,        \* bound: pictures of one pose that exist at one time
  MaxFaults,    \* bound: errors and crashes in a behaviour
  NoImage,      \* the image_path of a node whose picture was not saved: ""
  Absent,       \* no such file, directory or entry
  Torn          \* a graph file cut short: it does not unpickle

\* An image file's name is a timestamp, so no two pictures share one: here,
\* the pose and a number.
Images == Places \X Takes
Nodes  == [place : Places, image : Images \cup {NoImage}]

ASSUME MemoryAssumption ==
  /\ MaxNodes \in Nat \ {0}
  /\ MaxFaults \in Nat
  /\ NoImage \notin Images
  /\ Visits \in [Users -> SUBSET Places]
  /\ Absent # Torn
  /\ {Absent, Torn} \cap Seq(Nodes) = {}

\* What is absent is not there: it is no graph, directory, state or map.  Ids
\* and names are any strings, so there is one of each.
ASSUME AbsentAssumption ==
  /\ Users # {} /\ Names # {}
  /\ \A dir \in SUBSET Images : dir # Absent
  /\ Absent \notin Seq(Places)
  /\ Absent \notin [owner : Users, graph : Seq(Nodes) \cup {Absent, Torn},
                    images : (SUBSET Images) \cup {Absent}]
  /\ Absent \notin [owner : Users, map : Seq(Places) \cup {Absent}]

MinGain == 15   \* COVERAGE_MIN_GAIN_THRESHOLD, in percent

VARIABLES
  graphs,      \* _user_graphs: the nodes of a user in the order of their ids
               \* and timestamps, or Absent until they are first needed
  graphFile,   \* data/pose_graphs/<user>.pkl
  files,       \* data/images/<user>/: the images in it, or Absent
  saved,       \* memory_states/<name>/: [owner, graph, images], or Absent
  job,         \* the operation under way
  faults       \* errors and crashes so far

vars == <<graphs, graphFile, files, saved, job, faults>>

Idle == [at |-> "idle"]

In(dir) == IF dir = Absent THEN {} ELSE dir

ImagesOf(graph) == {graph[i].image : i \in DOMAIN graph}

Unpickle(file) == IF file \in {Absent, Torn} THEN <<>> ELSE file

\* get_user_graph(u): what it returns, reading the file if it must.
UserGraph(u) == IF graphs[u] = Absent THEN Unpickle(graphFile[u]) ELSE graphs[u]

\* A name for a picture of p that nothing of the user goes by.
InUse(u) == In(files[u]) \cup ImagesOf(UserGraph(u)) \cup ImagesOf(Unpickle(graphFile[u]))
            \cup UNION {In(saved[s].images) \cup ImagesOf(Unpickle(saved[s].graph)) :
                          s \in {t \in Names : saved[t] # Absent}}
NewNames(u, p) == {<<p, t>> : t \in Takes} \ InUse(u)

-----------------------------------------------------------------------------
\* Which poses are worth a node, and which node makes room for it.

Covered(graph) == UNION {Sees[graph[i].place] : i \in DOMAIN graph}
Unique(graph, i) == Sees[graph[i].place] \ Covered(RemoveAt(graph, i))

ShouldAdd(graph, p) ==
  graph # <<>> =>
    /\ <<Last(graph).place, p>> \notin Near
    /\ 100 * Cardinality(Sees[p] \ Covered(graph)) >= MinGain * Cardinality(Sees[p])

\* Nodes with score zero: no cell is theirs alone, or they are among the
\* `faded' oldest, whose recency weight exp(-0.01 * age) is 0.0 as a float.
Worthless(graph, faded) ==
  {i \in DOMAIN graph : i <= faded \/ Unique(graph, i) = {}}

\* A plausible bug: the oldest node goes.
EvictableOldest(graph, faded) == {1}

\* The nodes that have the lowest score, and are the first with it, for some
\* timestamps that increase along the graph.
Evictable(graph, faded) ==
  IF Worthless(graph, faded) # {}
  THEN {i \in Worthless(graph, faded) : \A j \in Worthless(graph, faded) : i <= j}
  ELSE {i \in DOMAIN graph : \A j \in 1..(i-1) :
          Cardinality(Unique(graph, i)) < Cardinality(Unique(graph, j))}

-----------------------------------------------------------------------------
\* find_location_by_description.  The search itself changes nothing but, as
\* any other use of it, loads the graph: see GetUserGraph.

\* The nodes whose picture is still there to be shown.
Shown(u) == {n \in DOMAIN UserGraph(u) : UserGraph(u)[n].image \in In(files[u])}

\* A plausible bug: frames are counted as they are shown.
FramesCounted(u) ==
  {<<Cardinality({m \in Shown(u) : m <= n}), UserGraph(u)[n].image>> : n \in Shown(u)}

\* The frames that the model sees: a number and a picture.
Frames(u) == {<<n, UserGraph(u)[n].image>> : n \in Shown(u)}

\* Where the robot is sent for an answer that names frame n; for a number that
\* is no node's, nowhere.
Location(u, n) == UserGraph(u)[n].place

-----------------------------------------------------------------------------
\* What a reader of the memory and of the saved states can tell.

PlacesOf(graph) == [i \in DOMAIN graph |-> graph[i].place]
MapIn(file) == IF file = Absent THEN Absent ELSE PlacesOf(Unpickle(file))

Stored ==
  [view   |-> [u \in Users |-> PlacesOf(UserGraph(u))],
   kept   |-> [u \in Users |-> MapIn(graphFile[u])],
   shelf  |-> [s \in Names |-> IF saved[s] = Absent THEN Absent
                                ELSE [owner |-> saved[s].owner, map |-> MapIn(saved[s].graph)]],
   faults |-> faults]

-----------------------------------------------------------------------------
Init == /\ graphs = [u \in Users |-> Absent]
        /\ graphFile = [u \in Users |-> Absent]
        /\ files = [u \in Users |-> Absent]
        /\ saved = [s \in Names |-> Absent]
        /\ job = Idle
        /\ faults = 0

\* An operation that runs in one go.  `was' is what could be told when it
\* began: only the refinement mapping reads it.
Starts(op, at, u, s, by) ==
  job' = [op |-> op, at |-> at, user |-> u, name |-> s, by |-> by, was |-> Stored]

Goto(at) == job' = [job EXCEPT !.at = at]
Finish == job' = Idle

Smooth == UNCHANGED faults
Fault  == faults < MaxFaults /\ faults' = faults + 1

\* get_user_graph keeps what it read.
Loads(u) == graphs' = [graphs EXCEPT ![u] = UserGraph(u)]

-----------------------------------------------------------------------------
(* A pose image *)

\* node_to_evict, and how many nodes had faded when it was chosen.
Adds(at, u, node, victim, faded) ==
  job' = [op |-> "add", at |-> at, user |-> u, node |-> node,
          victim |-> victim, faded |-> faded, was |-> Stored]

\* A plausible bug: full is taken to be one node more.
PoseImageLate(u, p) ==
  LET graph == UserGraph(u)
      node == [place |-> p, image |-> CHOOSE i \in NewNames(u, p) : TRUE]
  IN  /\ job = Idle /\ NewNames(u, p) # {}
      /\ ShouldAdd(graph, p)
      /\ Loads(u)
      /\ IF Len(graph) <= MaxNodes
         THEN Adds("save_image", u, node, 0, 0)
         ELSE \E i \in Evictable(graph, 0) : Adds("remove_node", u, node, i, 0)
      /\ UNCHANGED <<graphFile, files, saved, faults>>

\* handle_pose_image: a pose known well enough, and worth a node.
PoseImage(u, p) ==
  LET graph == UserGraph(u)
      node == [place |-> p, image |-> CHOOSE i \in NewNames(u, p) : TRUE]
  IN  /\ job = Idle /\ NewNames(u, p) # {}
      /\ ShouldAdd(graph, p)
      /\ Loads(u)
      /\ IF Len(graph) < MaxNodes
         THEN Adds("save_image", u, node, 0, 0)
         ELSE \E faded \in 0..Len(graph) : \E i \in Evictable(graph, faded) :
                Adds("remove_node", u, node, i, faded)
      /\ UNCHANGED <<graphFile, files, saved, faults>>

\* A pose not worth a node, a search of the memory and a request for the
\* positions only load the graph.
GetUserGraph(u) == /\ job = Idle /\ graphs[u] = Absent
                   /\ Loads(u)
                   /\ UNCHANGED <<graphFile, files, saved, job, faults>>

\* A plausible bug: the evicted node's image stays.
RemoveNodeOnly ==
  /\ job.at = "remove_node"
  /\ graphs' = [graphs EXCEPT ![job.user] = RemoveAt(@, job.victim)]
  /\ Goto("save_image")
  /\ UNCHANGED <<graphFile, files, saved, faults>>

\* _remove_node: an unlink that fails is logged and the file stays.
RemoveNode ==
  LET u == job.user IN
  /\ job.at = "remove_node"
  /\ graphs' = [graphs EXCEPT ![u] = RemoveAt(@, job.victim)]
  /\ \/ /\ files' = [files EXCEPT ![u] = IF @ = Absent THEN Absent
                                          ELSE @ \ {graphs[u][job.victim].image}]
        /\ Smooth
     \/ graphs[u][job.victim].image \in In(files[u]) /\ UNCHANGED files /\ Fault
  /\ Goto("save_image")
  /\ UNCHANGED <<graphFile, saved>>

AddsNode(u, image) == graphs' = [graphs EXCEPT ![u] = Append(@, [job.node EXCEPT !.image = image])]

\* _save_image and the node's insertion.  An image that does not decode, or a
\* failed write, leaves the node without a picture; a failed makedirs is not
\* caught there and ends the operation before the node is in.
SaveImage ==
  LET u == job.user IN
  /\ job.at = "save_image"
  /\ \/ /\ files' = [files EXCEPT ![u] = In(@) \cup {job.node.image}]
        /\ AddsNode(u, job.node.image)
        /\ Goto("truncate") /\ Smooth
     \/ /\ \E written \in SUBSET {job.node.image} :
             files' = [files EXCEPT ![u] = In(@) \cup written]
        /\ AddsNode(u, NoImage)
        /\ Goto("truncate") /\ Fault
     \/ /\ files[u] = Absent
        /\ Finish /\ Fault /\ UNCHANGED <<graphs, files>>
  /\ UNCHANGED <<graphFile, saved>>

\* _save_graph opens the file for writing, which empties it, and then writes
\* the graph; an exception in either is printed and goes no further.
Written == IF job.op = "add" THEN Finish ELSE Goto("clear")

Truncate ==
  /\ job.at = "truncate"
  /\ \/ graphFile' = [graphFile EXCEPT ![job.user] = Torn] /\ Goto("dump") /\ Smooth
     \/ UNCHANGED graphFile /\ Written /\ Fault
  /\ UNCHANGED <<graphs, files, saved>>

Dump ==
  /\ job.at = "dump"
  /\ \/ graphFile' = [graphFile EXCEPT ![job.user] = graphs[job.user]] /\ Smooth
     \/ UNCHANGED graphFile /\ Fault
  /\ Written
  /\ UNCHANGED <<graphs, files, saved>>

-----------------------------------------------------------------------------
(* reset_user_data *)

Empties(u) == graphs' = [graphs EXCEPT ![u] = <<>>]

\* A reset without a memory state, or with one that does not exist.
Reset(u) == /\ job = Idle
            /\ Empties(u)
            /\ Starts("reset", "truncate", u, Absent, "reset")
            /\ UNCHANGED <<graphFile, files, saved, faults>>

\* The next step of a reset or a load once the images are gone.
Cleared == IF job.op = "load" THEN Goto("open_graph") ELSE Finish

ClearImages ==
  LET u == job.user IN
  /\ job.at = "clear"
  /\ \/ \E i \in In(files[u]) : /\ files' = [files EXCEPT ![u] = @ \ {i}]
                                /\ UNCHANGED <<job, faults>>
     \/ In(files[u]) = {} /\ Cleared /\ Smooth /\ UNCHANGED files
     \/ In(files[u]) # {} /\ Cleared /\ Fault /\ UNCHANGED files
  /\ UNCHANGED <<graphs, graphFile, saved>>

-----------------------------------------------------------------------------
(* save_memory_state *)

SaveMemoryState(u, s) ==
  /\ job = Idle
  /\ Starts("save", IF saved[s] = Absent THEN "mkdir" ELSE "rmtree", u, s, "chat")
  /\ UNCHANGED <<graphs, graphFile, files, saved, faults>>

\* Any failure ends the operation: the command answers "Failed to save".
GivesUp == Fault /\ Finish /\ UNCHANGED <<graphs, graphFile, files>>

\* rmtree takes the files in whatever order the directory lists them.
RmTree ==
  LET s == job.name IN
  /\ job.at = "rmtree"
  /\ \/ /\ \/ saved[s].graph # Absent /\ saved' = [saved EXCEPT ![s].graph = Absent]
           \/ \E i \in In(saved[s].images) : saved' = [saved EXCEPT ![s].images = @ \ {i}]
           \/ saved[s].images = {} /\ saved' = [saved EXCEPT ![s].images = Absent]
        /\ UNCHANGED <<graphs, graphFile, files, job, faults>>
     \/ /\ saved[s].graph = Absent /\ saved[s].images = Absent
        /\ saved' = [saved EXCEPT ![s] = Absent]
        /\ Goto("mkdir") /\ Smooth /\ UNCHANGED <<graphs, graphFile, files>>
     \/ GivesUp /\ UNCHANGED saved

Copied(file, next) == IF file = Absent THEN Finish ELSE Goto(next)

MkDir ==
  /\ job.at = "mkdir"
  /\ \/ /\ saved' = [saved EXCEPT ![job.name] =
                       [owner |-> job.user, graph |-> Absent, images |-> Absent]]
        /\ IF graphFile[job.user] # Absent THEN Goto("create_copy")
           ELSE Copied(files[job.user], "copy_images")
        /\ Smooth /\ UNCHANGED <<graphs, graphFile, files>>
     \/ GivesUp /\ UNCHANGED saved

CreateCopy ==
  /\ job.at = "create_copy"
  /\ \/ /\ saved' = [saved EXCEPT ![job.name].graph = Torn]
        /\ Goto("write_copy") /\ Smooth /\ UNCHANGED <<graphs, graphFile, files>>
     \/ GivesUp /\ UNCHANGED saved

WriteCopy ==
  /\ job.at = "write_copy"
  /\ \/ /\ saved' = [saved EXCEPT ![job.name].graph = graphFile[job.user]]
        /\ Copied(files[job.user], "copy_images")
        /\ Smooth /\ UNCHANGED <<graphs, graphFile, files>>
     \/ GivesUp /\ UNCHANGED saved

CopyImages ==
  LET s == job.name
      missing == files[job.user] \ In(saved[s].images)
  IN  /\ job.at = "copy_images"
      /\ \/ /\ saved' = [saved EXCEPT ![s].images = In(@)]
            /\ saved[s].images = Absent
            /\ Smooth /\ UNCHANGED <<graphs, graphFile, files, job>>
         \/ \E i \in missing : /\ saved[s].images # Absent
                               /\ saved' = [saved EXCEPT ![s].images = @ \cup {i}]
                               /\ Smooth /\ UNCHANGED <<graphs, graphFile, files, job>>
         \/ /\ missing = {} /\ saved[s].images # Absent
            /\ Finish /\ Smooth /\ UNCHANGED <<graphs, graphFile, files, saved>>
         \/ GivesUp /\ UNCHANGED saved

-----------------------------------------------------------------------------
(* load_memory_state *)

HasGraph(u, s)  == saved[s] # Absent /\ saved[s].owner = u /\ saved[s].graph # Absent
HasImages(u, s) == saved[s] # Absent /\ saved[s].owner = u /\ saved[s].images # Absent

AfterGraph(u, s) == IF HasImages(u, s) THEN "clear_images" ELSE "loaded"

\* By a reset message, which falls back on the reset of the graph, or by a
\* chat command, which does not.  A state that does not exist: see Reset.
LoadMemoryState(u, s, by) ==
  /\ job = Idle
  /\ saved[s] # Absent
  /\ IF HasGraph(u, s)
     THEN Empties(u) /\ Starts("load", "truncate", u, s, by)
     ELSE UNCHANGED graphs /\ Starts("load", AfterGraph(u, s), u, s, by)
  /\ UNCHANGED <<graphFile, files, saved, faults>>

LoadFails ==
  /\ Fault
  /\ IF job.by = "reset"
     THEN /\ Empties(job.user)
          /\ job' = [job EXCEPT !.op = "reset", !.at = "truncate"]
     ELSE UNCHANGED graphs /\ Finish

OpenGraph ==
  /\ job.at = "open_graph"
  /\ \/ /\ graphFile' = [graphFile EXCEPT ![job.user] = Torn]
        /\ Goto("restore_graph") /\ Smooth /\ UNCHANGED graphs
     \/ LoadFails /\ UNCHANGED graphFile
  /\ UNCHANGED <<files, saved>>

\* A plausible bug: the entry in memory is not reloaded.
RestoreGraphFile ==
  /\ job.at = "restore_graph"
  /\ graphFile' = [graphFile EXCEPT ![job.user] = saved[job.name].graph]
  /\ Goto(AfterGraph(job.user, job.name))
  /\ UNCHANGED <<graphs, files, saved, faults>>

\* The copied file replaces the graph in memory, readable or not.
RestoreGraph ==
  LET graph == saved[job.name].graph IN
  /\ job.at = "restore_graph"
  /\ \/ /\ graphFile' = [graphFile EXCEPT ![job.user] = graph]
        /\ graphs' = [graphs EXCEPT ![job.user] = Unpickle(graph)]
        /\ Goto(AfterGraph(job.user, job.name)) /\ Smooth
     \/ LoadFails /\ UNCHANGED graphFile
  /\ UNCHANGED <<files, saved>>

ClearDestination ==
  LET u == job.user IN
  /\ job.at = "clear_images"
  /\ \/ \E i \in In(files[u]) : /\ files' = [files EXCEPT ![u] = @ \ {i}]
                                /\ UNCHANGED <<graphs, job, faults>>
     \/ /\ In(files[u]) = {}
        /\ files' = [files EXCEPT ![u] = {}]
        /\ Goto("restore_images") /\ Smooth /\ UNCHANGED graphs
     \/ LoadFails /\ UNCHANGED files
  /\ UNCHANGED <<graphFile, saved>>

RestoreImages ==
  LET u == job.user
      missing == saved[job.name].images \ files[u]
  IN  /\ job.at = "restore_images"
      /\ \/ \E i \in missing : /\ files' = [files EXCEPT ![u] = @ \cup {i}]
                               /\ UNCHANGED <<graphs, job, faults>>
         \/ /\ missing = {}
            /\ Goto("loaded") /\ Smooth /\ UNCHANGED <<graphs, files>>
         \/ LoadFails /\ UNCHANGED files
      /\ UNCHANGED <<graphFile, saved>>

\* "loaded successfully": by now the history has been reset, and nothing of
\* the saved one was read.
SaysLoaded == /\ job.at = "loaded"
              /\ Finish
              /\ UNCHANGED <<graphs, graphFile, files, saved, faults>>

-----------------------------------------------------------------------------
\* The process ends and starts again, in an operation or between two.
Crash == /\ Fault
         /\ graphs' = [u \in Users |-> Absent]
         /\ Finish
         /\ UNCHANGED <<graphFile, files, saved>>

JobStep == \/ RemoveNode \/ SaveImage \/ Truncate \/ Dump \/ ClearImages
           \/ RmTree \/ MkDir \/ CreateCopy \/ WriteCopy \/ CopyImages
           \/ OpenGraph \/ RestoreGraph \/ ClearDestination \/ RestoreImages
           \/ SaysLoaded

Next == \/ \E u \in Users : \/ \E p \in Visits[u] : PoseImage(u, p)
                            \/ GetUserGraph(u) \/ Reset(u)
                            \/ \E s \in Names :
                                 \/ SaveMemoryState(u, s)
                                 \/ \E by \in {"reset", "chat"} : LoadMemoryState(u, s, by)
        \/ JobStep
        \/ Crash

Spec == Init /\ [][Next]_vars

-----------------------------------------------------------------------------
(* Properties *)

\* The graphs anyone holds, on disk and in saved states included.
Graphs == {UserGraph(u) : u \in Users} \cup {Unpickle(graphFile[u]) : u \in Users}
          \cup {Unpickle(saved[s].graph) : s \in {t \in Names : saved[t] # Absent}}

\* No graph has more than COVERAGE_MAX_NODES nodes: not one in memory, not a
\* file, not a saved state, whatever fails and whatever is loaded over what
\* (navigate_through_memory.py:306-333).
Bounded == \A graph \in Graphs : graph \in Seq(Nodes) /\ Len(graph) <= MaxNodes

\* As long as nothing has failed, the images in a user's directory are those
\* of the nodes of that user's graph, and memory and file agree: eviction,
\* reset and load delete what they must and nothing else.
ImagesMatch ==
  (faults = 0 /\ job = Idle) =>
    \A u \in Users : /\ ImagesOf(UserGraph(u)) \ {NoImage} = In(files[u])
                      /\ UserGraph(u) = Unpickle(graphFile[u])

\* A node evicted while some node sees nothing of its own, and while no
\* recency weight has vanished, is such a node: making room costs no coverage
\* (navigate_through_memory.py:318-333).
EvictsRedundantFirst ==
  (job.at = "remove_node" /\ job.faded = 0) =>
    LET graph == graphs[job.user] IN
      (\E i \in DOMAIN graph : Unique(graph, i) = {}) => Unique(graph, job.victim) = {}

\* Whichever frame the model chooses, the robot is sent to where its picture
\* was taken, also when pictures of other nodes were lost in a crash, a failed
\* write or a failed load (navigate_through_memory.py:487-567).
FoundWhereSeen == \A u \in Users : \A frame \in Frames(u) :
                    frame[2] \in Images /\ Location(u, frame[1]) = frame[2][1]

\* Between operations the store shows what it holds; during one, what it held
\* before.
Told == IF job = Idle THEN Stored ELSE job.was

Store == INSTANCE MemoryStore
           WITH view <- Told.view, kept <- Told.kept,
                shelf <- Told.shelf, faults <- Told.faults

\* Every operation, made of its steps, is one step of the store; a failure in
\* one damages no more than the store allows.
ImplementsStore == Store!Spec
=============================================================================
