----------------------------- MODULE Connection -----------------------------
(***************************************************************************)
(* The connections of the robots (agent_connection.py), from the token to  *)
(* the shutdown, with the part of each brain they start and stop: its      *)
(* queue, its main loop and its chat tasks.  What a message does inside    *)
(* the brain is module Brain.  All of it runs on one event loop: an action *)
(* is the code from one await to the next.                                 *)
(***************************************************************************)
EXTENDS TokenAuth, Sequences

CONSTANTS
  Conns,        \* the connections a client may have at one time
  Owner,        \* Owner[k]: the user (robot_special_token) of a key
  MaxMessages,  \* bound: messages received over one connection
  Stop          \* the None that brain.stop() puts in the queue

Users == {Owner[k] : k \in Keys}

ASSUME ConnectionAssumption == MaxMessages \in Nat /\ None \notin Users \cup Conns

VARIABLES
  conn,      \* where handle_connection is
  peer,      \* the client is still there
  key,       \* user_token, as the key it came from
  received,  \* messages received
  queue,     \* brain.message_queue
  loop,      \* brain.run(): "waiting" in get, "woken" by a put, "handling"
  running,   \* brain.running
  cancel,    \* brain_task.cancel() was called
  chats,     \* chat tasks under way
  registry   \* _brain_registry: whose brain is shown for a user

connVars == <<conn, peer, key, received, queue, loop, running, cancel, chats, registry>>
vars == <<authVars, connVars>>

ConnInit == /\ conn = [c \in Conns |-> "closed"]
            /\ peer = [c \in Conns |-> FALSE]
            /\ key = [c \in Conns |-> None]
            /\ received = [c \in Conns |-> 0]
            /\ queue = [c \in Conns |-> <<>>]
            /\ loop = [c \in Conns |-> "ended"]
            /\ running = [c \in Conns |-> FALSE]
            /\ cancel = [c \in Conns |-> FALSE]
            /\ chats = [c \in Conns |-> 0]
            /\ registry = [u \in Users |-> None]

Init == AuthInit /\ ConnInit

-----------------------------------------------------------------------------
\* A client connects, with a new WebSocketAgentConnection.
Connect(c) == /\ conn[c] = "closed" /\ chats[c] = 0
              /\ conn' = [conn EXCEPT ![c] = "authenticating"]
              /\ peer' = [peer EXCEPT ![c] = TRUE]
              /\ key' = [key EXCEPT ![c] = None]
              /\ received' = [received EXCEPT ![c] = 0]
              /\ queue' = [queue EXCEPT ![c] = <<>>]
              /\ UNCHANGED <<authVars, loop, running, cancel, chats, registry>>

\* The client goes: recv raises ConnectionClosed from now on, and so do sends.
Drop(c) == /\ peer[c]
           /\ peer' = [peer EXCEPT ![c] = FALSE]
           /\ UNCHANGED <<authVars, conn, key, received, queue, loop, running, cancel, chats, registry>>

\* An authentication that fails, or raises.
Rejects(c) == /\ conn' = [conn EXCEPT ![c] = "closed"]
              /\ peer' = [peer EXCEPT ![c] = FALSE]
              /\ UNCHANGED <<key, received, queue, loop, running, cancel, chats, registry>>

\* No token comes: the client is gone, or sent something else.
NoToken(c) == /\ conn[c] = "authenticating"
              /\ Rejects(c)
              /\ UNCHANGED authVars

WrongVersion(c, k, v) == /\ conn[c] = "authenticating" /\ ~CompareVersions(v)
                         /\ Warn(k, peer[c])
                         /\ Rejects(c)

KeyRefused(c, k, v) == /\ conn[c] = "authenticating" /\ CompareVersions(v)
                       /\ Refused(k)
                       /\ Rejects(c)

\* The key is good: a brain, its main loop, and an entry for the debug panel
\* over any entry that is there.
Opens(c, k, v) ==
  /\ conn[c] = "authenticating" /\ CompareVersions(v)
  /\ Trusted(k) \/ Accepted(k)
  /\ conn' = [conn EXCEPT ![c] = "greeting"]
  /\ key' = [key EXCEPT ![c] = k]
  /\ loop' = [loop EXCEPT ![c] = "waiting"]
  /\ running' = [running EXCEPT ![c] = TRUE]
  /\ cancel' = [cancel EXCEPT ![c] = FALSE]
  /\ registry' = [registry EXCEPT ![Owner[k]] = c]
  /\ UNCHANGED <<peer, received, queue, chats>>

\* The first ready_for_image; a send to a client that has gone raises.
Greets(c) == /\ conn[c] = "greeting"
             /\ conn' = [conn EXCEPT ![c] = IF peer[c] THEN "listening" ELSE "closing"]
             /\ UNCHANGED <<authVars, peer, key, received, queue, loop, running, cancel, chats, registry>>

-----------------------------------------------------------------------------
(* The listening loop *)

Receives(c) == /\ conn[c] = "listening" /\ received[c] < MaxMessages
               /\ received' = [received EXCEPT ![c] = @ + 1]

\* A put wakes a main loop that waits in get.
Put(c, item) == /\ queue' = [queue EXCEPT ![c] = Append(@, item)]
                /\ loop' = [loop EXCEPT ![c] = IF @ = "waiting" THEN "woken" ELSE @]

\* Not JSON, or not a message: ignored.
Ignores(c) == /\ Receives(c)
              /\ UNCHANGED <<authVars, conn, peer, key, queue, loop, running, cancel, chats, registry>>

\* enqueue_message: a chat gets a task of its own, anything else is queued.
\* Messages the client sent before it went still arrive.
EnqueuesChat(c) == /\ Receives(c)
                   /\ chats' = [chats EXCEPT ![c] = @ + 1]
                   /\ UNCHANGED <<authVars, conn, peer, key, queue, loop, running, cancel, registry>>
Enqueues(c) == /\ Receives(c)
               /\ Put(c, received[c] + 1)
               /\ UNCHANGED <<authVars, conn, peer, key, running, cancel, chats, registry>>

\* An image message without image_b64 raises KeyError, which ends the
\* connection.
BadImage(c) == /\ Receives(c)
               /\ conn' = [conn EXCEPT ![c] = "closing"]
               /\ UNCHANGED <<authVars, peer, key, queue, loop, running, cancel, chats, registry>>

SeesClosed(c) == /\ conn[c] = "listening" /\ ~peer[c]
                 /\ conn' = [conn EXCEPT ![c] = "closing"]
                 /\ UNCHANGED <<authVars, peer, key, received, queue, loop, running, cancel, chats, registry>>

\* A plausible bug: the main loop is told to stop but not cancelled.
StopsPolitely(c) == /\ conn[c] = "closing"
                    /\ registry' = [registry EXCEPT ![Owner[key[c]]] = None]
                    /\ running' = [running EXCEPT ![c] = FALSE]
                    /\ Put(c, Stop)
                    /\ conn' = [conn EXCEPT ![c] = "joining"]
                    /\ UNCHANGED <<authVars, peer, key, received, cancel, chats>>

\* A plausible bug: the debug panel's entry stays.
StopsListed(c) == /\ conn[c] = "closing"
                  /\ running' = [running EXCEPT ![c] = FALSE]
                  /\ Put(c, Stop)
                  /\ cancel' = [cancel EXCEPT ![c] = TRUE]
                  /\ conn' = [conn EXCEPT ![c] = "joining"]
                  /\ UNCHANGED <<authVars, peer, key, received, chats, registry>>

\* The finally block up to its await: the debug panel's entry for the user
\* goes, whosever it is; brain.stop(); cancel().  Chat tasks go on.
Stops(c) == /\ conn[c] = "closing"
            /\ registry' = [registry EXCEPT ![Owner[key[c]]] = None]
            /\ running' = [running EXCEPT ![c] = FALSE]
            /\ Put(c, Stop)
            /\ cancel' = [cancel EXCEPT ![c] = TRUE]
            /\ conn' = [conn EXCEPT ![c] = "joining"]
            /\ UNCHANGED <<authVars, peer, key, received, chats>>

\* The brain task has ended, and the websocket is closed.
Closes(c) == /\ conn[c] = "joining" /\ loop[c] = "ended"
             /\ conn' = [conn EXCEPT ![c] = "closed"]
             /\ peer' = [peer EXCEPT ![c] = FALSE]
             /\ UNCHANGED <<authVars, key, received, queue, loop, running, cancel, chats, registry>>

-----------------------------------------------------------------------------
(* brain.run() *)

\* The task runs again after its await: a cancellation ends it, there or in
\* a handler; else get returns the head of the queue.
Takes(c) == /\ loop' = [loop EXCEPT ![c] = IF Head(queue[c]) = Stop THEN "ended" ELSE "handling"]
            /\ queue' = [queue EXCEPT ![c] = Tail(@)]

Cancelled(c) == /\ cancel[c] /\ loop[c] # "ended"
                /\ loop' = [loop EXCEPT ![c] = "ended"]
                /\ UNCHANGED <<authVars, conn, peer, key, received, queue, running, cancel, chats, registry>>

Runs(c) == /\ loop[c] = "woken" /\ ~cancel[c]
           /\ Takes(c)
           /\ UNCHANGED <<authVars, conn, peer, key, received, running, cancel, chats, registry>>

\* The handler ends, also with an exception (a send to a client that has
\* gone), which is logged; the loop ends when it was told to, and takes the
\* next message if there is one.
Handled(c) == /\ loop[c] = "handling" /\ ~cancel[c]
              /\ IF ~running[c]
                 THEN loop' = [loop EXCEPT ![c] = "ended"] /\ UNCHANGED queue
                 ELSE IF queue[c] = <<>>
                 THEN loop' = [loop EXCEPT ![c] = "waiting"] /\ UNCHANGED queue
                 ELSE Takes(c)
              /\ UNCHANGED <<authVars, conn, peer, key, received, running, cancel, chats, registry>>

\* A chat task ends, by an answer or an exception, also after its connection.
ChatEnds(c) == /\ chats[c] > 0
               /\ chats' = [chats EXCEPT ![c] = @ - 1]
               /\ UNCHANGED <<authVars, conn, peer, key, received, queue, loop, running, cancel, registry>>

Clock == /\ \/ Tick
            \/ \E k \in Keys : Grant(k) \/ Revoke(k)
         /\ UNCHANGED connVars

Handshake(c) == \/ Connect(c) \/ NoToken(c)
                \/ \E k \in Keys, v \in Versions \cup {Missing} :
                     WrongVersion(c, k, v) \/ KeyRefused(c, k, v) \/ Opens(c, k, v)
                \/ Greets(c)

Next == \/ Clock
        \/ \E c \in Conns : \/ Handshake(c) \/ Drop(c)
                            \/ Ignores(c) \/ EnqueuesChat(c) \/ Enqueues(c) \/ BadImage(c)
                            \/ SeesClosed(c) \/ Stops(c) \/ Closes(c)
                            \/ Cancelled(c) \/ Runs(c) \/ Handled(c) \/ ChatEnds(c)

Spec == Init /\ [][Next]_vars

\* The event loop runs what is ready.  How long a handler takes is not for it
\* to say, unless it is cancelled.
FairSpec ==
  /\ Spec
  /\ \A c \in Conns : /\ WF_vars(Greets(c)) /\ WF_vars(SeesClosed(c)) /\ WF_vars(Stops(c))
                      /\ WF_vars(Cancelled(c)) /\ WF_vars(Runs(c)) /\ WF_vars(Closes(c))

-----------------------------------------------------------------------------
(* Properties *)

TypeOK ==
  /\ conn \in [Conns -> {"authenticating", "greeting", "listening", "closing", "joining", "closed"}]
  /\ peer \in [Conns -> BOOLEAN]
  /\ key \in [Conns -> Keys \cup {None}]
  /\ received \in [Conns -> 0..MaxMessages]
  /\ queue \in [Conns -> Seq(1..MaxMessages \cup {Stop})]
  /\ loop \in [Conns -> {"waiting", "woken", "handling", "ended"}]
  /\ running \in [Conns -> BOOLEAN]
  /\ cancel \in [Conns -> BOOLEAN]
  /\ chats \in [Conns -> 0..MaxMessages]
  /\ registry \in [Users -> Conns \cup {None}]

\* A connection is only opened for a key the service has granted access at
\* most TTL ago, whatever it says now (token_auth.py:199-258).
OpensRecentlyGranted ==
  [][\A c \in Conns : conn[c] = "authenticating" /\ conn'[c] = "greeting" =>
       granted'[key'[c]] # None /\ now - granted'[key'[c]] < TTL]_vars

\* Two warnings spoken to one robot are an interval apart, however often it
\* reconnects and however full the table is (token_auth.py:37-51).
WarningsApart ==
  [][\A k \in Keys : spoken'[k] # spoken[k] /\ spoken[k] # None =>
       spoken'[k] - spoken[k] >= Interval]_vars

\* Once a connection is being shut down its brain takes no further message,
\* not even one it had been woken for (agent_connection.py:143-157).
StoppedBrainsTakeNothing ==
  [][\A c \in Conns : conn[c] \in {"joining", "closed"} =>
       Len(queue'[c]) >= Len(queue[c]) \/ conn'[c] = "authenticating"]_vars

\* The debug panel lists no brain whose connection has been shut down, also
\* when a robot's connections overlap (debug_panel.py:48-59).
RegistryListsLive ==
  \A u \in Users : registry[u] # None =>
    conn[registry[u]] \in {"greeting", "listening", "closing"}

\* A client that goes away always gets its connection shut down to the end,
\* even if its brain is in the middle of a message.
DroppedIsClosed ==
  \A c \in Conns : (conn[c] = "listening" /\ ~peer[c]) ~> conn[c] = "closed"
=============================================================================
