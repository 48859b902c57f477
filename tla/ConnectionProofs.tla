-------------------------- MODULE ConnectionProofs --------------------------
(***************************************************************************)
(* Theorems about the connections, for any number of connections, robots,  *)
(* messages and any length of time: who is let in, how often a robot is    *)
(* spoken to, and what is left of a connection that is shut down.  The     *)
(* state falls into two parts that no action ties together but Opens: that *)
(* of module TokenAuth (AuthInv) and that of the connections (ConnInv).    *)
(***************************************************************************)
EXTENDS Connection, SequenceTheorems, TLAPS

Moment == Nat \cup {None}

AuthType ==
  /\ now \in Nat
  /\ valid \subseteq Keys
  /\ granted \in [Keys -> Moment]
  /\ cache \in [Keys -> Moment]
  /\ warned \in [Keys -> Moment]
  /\ spoken \in [Keys -> Moment]

\* An answer is kept for TTL from the last time that it was true, at most.
Trust ==
  \A k \in Keys :
    /\ k \in valid => granted[k] = now
    /\ granted[k] # None => granted[k] <= now
    /\ cache[k] # None => granted[k] # None /\ cache[k] <= granted[k] + TTL

\* A robot that was spoken to is in the table, unless that is an interval ago.
Heard ==
  \A k \in Keys : spoken[k] # None =>
    /\ spoken[k] <= now
    /\ \/ warned[k] # None /\ spoken[k] <= warned[k]
       \/ now - spoken[k] >= Interval

AuthInv == AuthType /\ Trust /\ Heard

LEMMA AuthInit_ == AuthInit => AuthInv
  BY TokenAssumption DEF AuthInit, AuthInv, AuthType, Trust, Heard, Moment

LEMMA SinceKeeps ==
  ASSUME AuthInv, NEW d \in Nat, Since(d), UNCHANGED <<valid, warned, spoken>>
  PROVE  /\ now' = now + d /\ now' \in Nat /\ valid' \subseteq Keys
         /\ granted' \in [Keys -> Moment] /\ warned' \in [Keys -> Moment]
         /\ spoken' \in [Keys -> Moment] /\ Heard'
         /\ \A k \in Keys : /\ k \in valid' => granted'[k] = now'
                            /\ granted'[k] # None => granted'[k] <= now'
                            /\ granted[k] # None => granted'[k] # None /\ granted[k] <= granted'[k]
<1>1. now' = now + d /\ now' \in Nat
  BY DEF Since, AuthInv, AuthType
<1>2. granted' = [k \in Keys |-> IF k \in valid THEN now + d ELSE granted[k]]
  BY DEF Since
<1>3. granted' \in [Keys -> Moment]
  BY <1>1, <1>2 DEF AuthInv, AuthType, Moment
<1>4. Heard'
  BY <1>1, TokenAssumption DEF AuthInv, AuthType, Heard, Moment
<1>5. \A k \in Keys : /\ k \in valid' => granted'[k] = now'
                      /\ granted'[k] # None => granted'[k] <= now'
                      /\ granted[k] # None => granted'[k] # None /\ granted[k] <= granted'[k]
  BY <1>1, <1>2, TokenAssumption DEF AuthInv, AuthType, Trust, Moment
<1> QED
  BY <1>1, <1>3, <1>4, <1>5 DEF AuthInv, AuthType

LEMMA TickKeeps == ASSUME AuthInv, Tick PROVE AuthInv'
<1>1. Since(1) /\ UNCHANGED <<valid, cache, warned, spoken>>
  BY DEF Tick
<1>2. AuthType' /\ Heard'
  BY <1>1, SinceKeeps DEF AuthInv, AuthType
<1>3. Trust'
  BY <1>1, <1>2, SinceKeeps, TokenAssumption DEF AuthInv, AuthType, Trust, Moment
<1> QED
  BY <1>2, <1>3 DEF AuthInv

LEMMA GrantKeeps == ASSUME AuthInv, NEW k \in Keys, Grant(k) \/ Revoke(k) PROVE AuthInv'
<1>1. CASE Grant(k)
  BY <1>1, TokenAssumption DEF Grant, AuthInv, AuthType, Trust, Heard, Moment
<1>2. CASE Revoke(k)
  BY <1>2 DEF Revoke, AuthInv, AuthType, Trust, Heard, Moment
<1> QED
  BY <1>1, <1>2

LEMMA WarnKeeps ==
  ASSUME AuthInv, NEW k \in Keys, NEW heard, Warn(k, heard)
  PROVE  AuthInv' /\ (spoken'[k] # spoken[k] /\ spoken[k] # None => spoken'[k] - spoken[k] >= Interval)
                  /\ \A j \in Keys \ {k} : spoken'[j] = spoken[j]
<1>1. CASE ~MayWarn(k)
  BY <1>1 DEF Warn, AuthInv, AuthType, Trust, Heard
<1>2. CASE MayWarn(k)
  <2> DEFINE table == [warned EXCEPT ![k] = now]
  <2>1. table \in [Keys -> Moment]
    BY DEF AuthInv, AuthType, Moment
  <2>2. /\ Purged(table) \in [Keys -> Moment]
        /\ \A j \in Keys : Purged(table)[j] = table[j] \/ (table[j] # None /\ now - table[j] >= Interval)
    BY <2>1 DEF Purged, Moment
  <2>3. warned' = Purged(table) /\ UNCHANGED <<now, valid, granted, cache>>
    BY <1>2 DEF Warn
  <2>4. spoken' = [spoken EXCEPT ![k] = now] \/ spoken' = spoken
    BY <1>2 DEF Warn
  <2>5. AuthType' /\ Trust'
    BY <2>2, <2>3, <2>4 DEF AuthInv, AuthType, Trust, Moment
  <2>6. Heard'
    <3> SUFFICES ASSUME NEW j \in Keys, spoken'[j] # None
                 PROVE  /\ spoken'[j] <= now
                        /\ \/ warned'[j] # None /\ spoken'[j] <= warned'[j]
                           \/ now - spoken'[j] >= Interval
      BY <2>3 DEF Heard
    <3>1. /\ spoken'[j] <= now /\ spoken'[j] \in Nat
          /\ \/ table[j] # None /\ spoken'[j] <= table[j]
             \/ now - spoken'[j] >= Interval
      BY <2>4, TokenAssumption DEF AuthInv, AuthType, Heard, Moment
    <3>2. \/ warned'[j] = table[j]
          \/ table[j] # None /\ now - table[j] >= Interval
      BY <2>2, <2>3
    <3>3. table[j] \in Moment /\ now \in Nat
      BY <2>1 DEF AuthInv, AuthType
    <3> QED
      BY <3>1, <3>2, <3>3, TokenAssumption DEF Moment
  <2>7. spoken'[k] # spoken[k] /\ spoken[k] # None => spoken'[k] - spoken[k] >= Interval
    BY <1>2, <2>4, TokenAssumption DEF MayWarn, AuthInv, AuthType, Heard, Moment
  <2>8. \A j \in Keys \ {k} : spoken'[j] = spoken[j]
    BY <2>4 DEF AuthInv, AuthType
  <2> QED
    BY <2>5, <2>6, <2>7, <2>8 DEF AuthInv
<1> QED
  BY <1>1, <1>2

LEMMA AcceptedKeeps ==
  ASSUME AuthInv, NEW k \in Keys, Accepted(k)
  PROVE  AuthInv' /\ granted'[k] # None /\ now - granted'[k] < TTL
<1>1. PICK d \in 0..Delay : Since(d)
  BY DEF Accepted
<1>2. d \in Nat /\ k \in valid /\ UNCHANGED <<valid, warned, spoken>>
  BY <1>1, TokenAssumption DEF Accepted
<1>3. cache' = [cache EXCEPT ![k] = now + TTL]
  BY DEF Accepted
<1>4. AuthType' /\ Heard'
  BY <1>1, <1>2, <1>3, SinceKeeps, TokenAssumption DEF AuthInv, AuthType, Moment
<1>5. granted'[k] = now + d
  BY <1>1, <1>2, SinceKeeps
<1>6. Trust'
  BY <1>1, <1>2, <1>3, <1>4, <1>5, SinceKeeps, TokenAssumption DEF AuthInv, AuthType, Trust, Moment
<1> QED
  BY <1>2, <1>4, <1>5, <1>6, TokenAssumption DEF AuthInv, AuthType

LEMMA RefusedKeeps == ASSUME AuthInv, NEW k \in Keys, Refused(k) PROVE AuthInv'
<1>1. PICK d \in 0..Delay : Since(d)
  BY DEF Refused
<1>2. d \in Nat /\ UNCHANGED <<valid, warned, spoken>> /\ cache' = [cache EXCEPT ![k] = None]
  BY <1>1, TokenAssumption DEF Refused
<1>3. AuthType' /\ Heard'
  BY <1>1, <1>2, SinceKeeps DEF AuthInv, AuthType, Moment
<1>4. Trust'
  BY <1>1, <1>2, <1>3, SinceKeeps, TokenAssumption DEF AuthInv, AuthType, Trust, Moment
<1> QED
  BY <1>3, <1>4 DEF AuthInv

\* What an authentication that lets a robot in has found.
LEMMA OpensKeeps ==
  ASSUME AuthInv, NEW k \in Keys, Trusted(k) \/ Accepted(k)
  PROVE  AuthInv' /\ granted'[k] # None /\ now - granted'[k] < TTL /\ spoken' = spoken
<1>1. CASE Trusted(k)
  BY <1>1, TokenAssumption DEF Trusted, CacheHit, authVars, AuthInv, AuthType, Trust, Heard, Moment
<1>2. CASE Accepted(k)
  BY <1>2, AcceptedKeeps DEF Accepted
<1> QED
  BY <1>1, <1>2

-----------------------------------------------------------------------------
(* The connections *)

Live == {"greeting", "listening", "closing"}

\* A chat task is one of the messages received.
Counted == \A c \in Conns : chats[c] <= received[c]

\* Only a connection whose key was good has a brain.
Keyed == \A c \in Conns : conn[c] \in Live \cup {"joining"} => key[c] \in Keys

\* A main loop that was woken has something to take.
Woken == \A c \in Conns : loop[c] = "woken" => queue[c] # <<>>

\* A main loop has ended before there is a brain and after there was one, and
\* is cancelled while it is waited for.
Stopped == \A c \in Conns : /\ conn[c] \in {"closed", "authenticating"} => loop[c] = "ended"
                            /\ conn[c] = "joining" => cancel[c]

\* Who is listed for a user has one of its keys.
Listed == \A u \in Users : registry[u] # None =>
            conn[registry[u]] \in Live /\ Owner[key[registry[u]]] = u

ConnInv == TypeOK /\ Counted /\ Keyed /\ Woken /\ Stopped /\ Listed

\* Every queue grows, or is that of a connection that still listens.
Quiet == \A c \in Conns : conn[c] \in {"joining", "closed"} =>
           Len(queue'[c]) >= Len(queue[c]) \/ conn'[c] = "authenticating"

LEMMA ConnInit_ == ConnInit => ConnInv
<1> SUFFICES ASSUME ConnInit PROVE ConnInv
  OBVIOUS
<1>1. TypeOK
  BY ConnectionAssumption DEF ConnInit, TypeOK
<1>2. Counted /\ Keyed /\ Woken /\ Stopped /\ Listed
  BY DEF ConnInit, Counted, Keyed, Woken, Stopped, Listed, Live
<1> QED
  BY <1>1, <1>2 DEF ConnInv

LEMMA ConnectKeeps ==
  ASSUME ConnInv, NEW c \in Conns, Connect(c)
  PROVE  ConnInv' /\ Quiet
<1>1. TypeOK'
  BY ConnectionAssumption DEF ConnInv, TypeOK, Connect
<1>2. Counted' /\ Keyed' /\ Woken' /\ Stopped'
  BY DEF ConnInv, TypeOK, Connect, Counted, Keyed, Woken, Stopped, Live
<1>3. Listed'
  BY DEF ConnInv, TypeOK, Connect, Listed, Live
<1>4. Quiet
  BY DEF ConnInv, TypeOK, Connect, Quiet
<1> QED
  BY <1>1, <1>2, <1>3, <1>4 DEF ConnInv

LEMMA RejectsKeeps ==
  ASSUME ConnInv, NEW c \in Conns, conn[c] = "authenticating", Rejects(c)
  PROVE  ConnInv' /\ Quiet
<1>1. TypeOK'
  BY DEF ConnInv, TypeOK, Rejects
<1>2. Counted' /\ Keyed' /\ Woken' /\ Stopped'
  BY DEF ConnInv, TypeOK, Rejects, Counted, Keyed, Woken, Stopped, Live
<1>3. Listed'
  BY DEF ConnInv, TypeOK, Rejects, Listed, Live
<1>4. Quiet
  BY DEF ConnInv, TypeOK, Rejects, Quiet
<1> QED
  BY <1>1, <1>2, <1>3, <1>4 DEF ConnInv

\* The connections' part of Opens.
LEMMA OpensConnKeeps ==
  ASSUME ConnInv, NEW c \in Conns, NEW k \in Keys, NEW v, Opens(c, k, v)
  PROVE  ConnInv' /\ Quiet
<1>1. TypeOK'
  BY DEF ConnInv, TypeOK, Opens
<1>2. Counted' /\ Keyed' /\ Woken' /\ Stopped'
  BY DEF ConnInv, TypeOK, Opens, Counted, Keyed, Woken, Stopped, Live
<1>3. Listed'
  <2> SUFFICES ASSUME NEW u \in Users, registry'[u] # None
               PROVE  conn'[registry'[u]] \in Live /\ Owner[key'[registry'[u]]] = u
    BY DEF Listed
  <2>1. CASE u = Owner[k]
    BY <2>1 DEF ConnInv, TypeOK, Opens, Live
  <2>2. CASE u # Owner[k]
    <3>1. registry'[u] = registry[u] /\ registry[u] \in Conns /\ registry[u] # c
      BY <2>2 DEF ConnInv, TypeOK, Opens, Listed, Live
    <3> QED
      BY <3>1 DEF ConnInv, TypeOK, Opens, Listed, Live
  <2> QED
    BY <2>1, <2>2
<1>4. Quiet
  BY DEF ConnInv, TypeOK, Opens, Quiet
<1> QED
  BY <1>1, <1>2, <1>3, <1>4 DEF ConnInv

\* Steps of a connection among its live states, that touch nothing else.
LEMMA MovesKeep ==
  ASSUME ConnInv, NEW c \in Conns, Greets(c) \/ Drop(c) \/ SeesClosed(c)
  PROVE  ConnInv' /\ Quiet
<1>1. TypeOK'
  BY DEF ConnInv, TypeOK, Greets, Drop, SeesClosed
<1>2. Counted' /\ Keyed' /\ Woken' /\ Stopped'
  BY DEF ConnInv, TypeOK, Greets, Drop, SeesClosed, Counted, Keyed, Woken, Stopped, Live
<1>3. Listed'
  <2>1. PICK at \in Live : (conn[c] \in Live /\ conn' = [conn EXCEPT ![c] = at]) \/ conn' = conn
    BY DEF Greets, Drop, SeesClosed, Live
  <2>2. UNCHANGED <<key, registry>>
    BY DEF Greets, Drop, SeesClosed
  <2> QED
    BY <2>1, <2>2 DEF ConnInv, TypeOK, Listed
<1>4. Quiet
  BY DEF ConnInv, TypeOK, Greets, Drop, SeesClosed, Quiet
<1> QED
  BY <1>1, <1>2, <1>3, <1>4 DEF ConnInv

LEMMA ReceivesKeep ==
  ASSUME ConnInv, NEW c \in Conns, Ignores(c) \/ EnqueuesChat(c) \/ BadImage(c)
  PROVE  ConnInv' /\ Quiet
<1>1. received' \in [Conns -> 0..MaxMessages] /\ chats' \in [Conns -> 0..MaxMessages] /\ Counted'
  <2>1. received[c] < MaxMessages /\ received' = [received EXCEPT ![c] = received[c] + 1]
    BY DEF Receives, Ignores, EnqueuesChat, BadImage
  <2>2. chats' = chats \/ chats' = [chats EXCEPT ![c] = chats[c] + 1]
    BY DEF Ignores, EnqueuesChat, BadImage
  <2> QED
    BY <2>1, <2>2, ConnectionAssumption DEF ConnInv, TypeOK, Counted
<1>2. TypeOK'
  BY <1>1 DEF ConnInv, TypeOK, Ignores, EnqueuesChat, BadImage
<1>3. Keyed' /\ Woken' /\ Stopped'
  BY DEF ConnInv, TypeOK, Receives, Ignores, EnqueuesChat, BadImage, Keyed, Woken, Stopped, Live
<1>4. Listed'
  BY DEF ConnInv, TypeOK, Receives, Ignores, EnqueuesChat, BadImage, Listed, Live
<1>5. Quiet
  BY DEF ConnInv, TypeOK, Receives, Ignores, EnqueuesChat, BadImage, Quiet
<1> QED
  BY <1>1, <1>2, <1>3, <1>4, <1>5 DEF ConnInv

\* What a put does to the queues and the main loops.
LEMMA PutKeeps ==
  ASSUME ConnInv, NEW c \in Conns, NEW item \in 1..MaxMessages \cup {Stop}, Put(c, item)
  PROVE  /\ queue' \in [Conns -> Seq(1..MaxMessages \cup {Stop})]
         /\ loop' \in [Conns -> {"waiting", "woken", "handling", "ended"}]
         /\ Woken'
         /\ \A b \in Conns : Len(queue'[b]) >= Len(queue[b]) /\ (loop[b] = "ended" => loop'[b] = "ended")
<1> DEFINE T == 1..MaxMessages \cup {Stop}
<1>1. queue[c] \in Seq(T) /\ item \in T
  BY DEF ConnInv, TypeOK
<1> HIDE DEF T
<1>2. /\ Append(queue[c], item) \in Seq(T) /\ Append(queue[c], item) # <<>>
      /\ Len(Append(queue[c], item)) >= Len(queue[c])
  <2>1. Append(queue[c], item) \in Seq(T) /\ Append(queue[c], item) # <<>>
    BY <1>1, AppendProperties
  <2>2. Len(Append(queue[c], item)) = Len(queue[c]) + 1 /\ Len(queue[c]) \in Nat
    BY <1>1, AppendProperties, LenProperties
  <2> QED
    BY <2>1, <2>2
<1> USE DEF T
<1>3. queue' = [queue EXCEPT ![c] = Append(queue[c], item)]
  BY DEF Put
<1>4. loop' = [loop EXCEPT ![c] = IF loop[c] = "waiting" THEN "woken" ELSE loop[c]]
  BY DEF Put
<1>5. queue' \in [Conns -> Seq(T)]
  BY <1>2, <1>3 DEF ConnInv, TypeOK
<1>6. loop' \in [Conns -> {"waiting", "woken", "handling", "ended"}]
  BY <1>4 DEF ConnInv, TypeOK
<1>7. \A b \in Conns : Len(queue[b]) \in Nat
  BY DEF ConnInv, TypeOK
<1>8. \A b \in Conns : Len(queue'[b]) >= Len(queue[b])
  BY <1>2, <1>3, <1>7 DEF ConnInv, TypeOK
<1>9. Woken' /\ \A b \in Conns : loop[b] = "ended" => loop'[b] = "ended"
  BY <1>2, <1>3, <1>4 DEF ConnInv, TypeOK, Woken
<1> QED
  BY <1>5, <1>6, <1>8, <1>9

LEMMA EnqueuesKeeps ==
  ASSUME ConnInv, NEW c \in Conns, Enqueues(c)
  PROVE  ConnInv' /\ Quiet
<1> DEFINE item == received[c] + 1
<1>1. item \in 1..MaxMessages \cup {Stop} /\ Put(c, item)
  BY ConnectionAssumption DEF Enqueues, Receives, ConnInv, TypeOK
<1>2. received' \in [Conns -> 0..MaxMessages] /\ Counted'
  BY ConnectionAssumption DEF Enqueues, Receives, ConnInv, TypeOK, Counted
<1> HIDE DEF item
<1>3. TypeOK'
  BY <1>1, <1>2, PutKeeps DEF Enqueues, ConnInv, TypeOK
<1>4. Keyed' /\ Stopped' /\ Listed'
  BY <1>1, PutKeeps DEF Enqueues, Receives, ConnInv, TypeOK, Keyed, Stopped, Listed
<1>5. Woken' /\ Quiet
  BY <1>1, PutKeeps DEF Quiet
<1> QED
  BY <1>2, <1>3, <1>4, <1>5 DEF ConnInv

LEMMA StopsKeeps ==
  ASSUME ConnInv, NEW c \in Conns, Stops(c)
  PROVE  ConnInv' /\ Quiet
<1>1. Stop \in 1..MaxMessages \cup {Stop} /\ Put(c, Stop)
  BY DEF Stops
<1>2. TypeOK'
  BY <1>1, PutKeeps DEF Stops, ConnInv, TypeOK
<1>3. Counted' /\ Keyed'
  BY DEF Stops, ConnInv, TypeOK, Counted, Keyed, Live
<1>4. Stopped'
  BY <1>1, PutKeeps DEF Stops, ConnInv, TypeOK, Stopped
<1>5. key[c] \in Keys
  BY DEF Stops, ConnInv, Keyed, Live
<1>6. Listed'
  <2> SUFFICES ASSUME NEW u \in Users, registry'[u] # None
               PROVE  conn'[registry'[u]] \in Live /\ Owner[key'[registry'[u]]] = u
    BY DEF Listed
  <2>1. u # Owner[key[c]] /\ registry'[u] = registry[u] /\ registry[u] \in Conns
    BY <1>5 DEF Stops, ConnInv, TypeOK, Users
  <2>2. registry[u] # c
    BY <2>1 DEF ConnInv, Listed
  <2> QED
    BY <2>1, <2>2 DEF Stops, ConnInv, TypeOK, Listed
<1>7. Woken' /\ Quiet
  BY <1>1, PutKeeps DEF Quiet
<1> QED
  BY <1>2, <1>3, <1>4, <1>6, <1>7 DEF ConnInv

LEMMA ClosesKeeps ==
  ASSUME ConnInv, NEW c \in Conns, Closes(c)
  PROVE  ConnInv' /\ Quiet
<1>1. TypeOK'
  BY DEF ConnInv, TypeOK, Closes
<1>2. Counted' /\ Keyed' /\ Woken' /\ Stopped'
  BY DEF ConnInv, TypeOK, Closes, Counted, Keyed, Woken, Stopped, Live
<1>3. Listed'
  BY DEF ConnInv, TypeOK, Closes, Listed, Live
<1>4. Quiet
  BY DEF ConnInv, TypeOK, Closes, Quiet
<1> QED
  BY <1>1, <1>2, <1>3, <1>4 DEF ConnInv

-----------------------------------------------------------------------------
(* The main loops and the chat tasks *)

\* A cancellation and the end of a chat change no queue.
LEMMA EndsKeep ==
  ASSUME ConnInv, NEW c \in Conns, Cancelled(c) \/ ChatEnds(c)
  PROVE  ConnInv' /\ Quiet
<1>1. chats' \in [Conns -> 0..MaxMessages] /\ Counted'
  <2>1. CASE Cancelled(c)
    BY <2>1 DEF ConnInv, TypeOK, Cancelled, Counted
  <2>2. CASE ChatEnds(c)
    BY <2>2, ConnectionAssumption DEF ConnInv, TypeOK, ChatEnds, Counted
  <2> QED
    BY <2>1, <2>2
<1>4. TypeOK'
  BY <1>1 DEF ConnInv, TypeOK, Cancelled, ChatEnds
<1>2. Keyed' /\ Woken' /\ Stopped' /\ Listed'
  BY DEF ConnInv, TypeOK, Cancelled, ChatEnds, Keyed, Woken, Stopped, Listed
<1>3. Quiet
  BY DEF ConnInv, TypeOK, Cancelled, ChatEnds, Quiet
<1> QED
  BY <1>1, <1>2, <1>3, <1>4 DEF ConnInv

\* A main loop that goes on is not cancelled, so its connection is not one
\* that is shut down.
LEMMA LoopKeeps ==
  ASSUME ConnInv, NEW c \in Conns, ~cancel[c], loop[c] # "ended",
         NEW q \in Seq(1..MaxMessages \cup {Stop}), queue' = [queue EXCEPT ![c] = q],
         NEW at \in {"waiting", "handling", "ended"}, loop' = [loop EXCEPT ![c] = at],
         UNCHANGED <<conn, peer, key, received, running, cancel, chats, registry>>
  PROVE  ConnInv' /\ Quiet
<1>1. TypeOK'
  BY DEF ConnInv, TypeOK
<1>2. Counted' /\ Keyed' /\ Woken' /\ Listed'
  BY DEF ConnInv, TypeOK, Counted, Keyed, Woken, Listed
<1>3. conn[c] \notin {"closed", "authenticating", "joining"}
  BY DEF ConnInv, Stopped
<1>4. Stopped' /\ Quiet
  BY <1>3 DEF ConnInv, TypeOK, Stopped, Quiet
<1> QED
  BY <1>1, <1>2, <1>4 DEF ConnInv

LEMMA TakesKeeps ==
  ASSUME ConnInv, NEW c \in Conns, ~cancel[c], loop[c] # "ended", queue[c] # <<>>, Takes(c),
         UNCHANGED <<conn, peer, key, received, running, cancel, chats, registry>>
  PROVE  ConnInv' /\ Quiet
<1> DEFINE q == Tail(queue[c])
           at == IF Head(queue[c]) = Stop THEN "ended" ELSE "handling"
<1>1. q \in Seq(1..MaxMessages \cup {Stop}) /\ at \in {"waiting", "handling", "ended"}
  BY DEF ConnInv, TypeOK
<1>2. queue' = [queue EXCEPT ![c] = q] /\ loop' = [loop EXCEPT ![c] = at]
  BY DEF Takes
<1> QED
  BY <1>1, <1>2, LoopKeeps

LEMMA RunsKeeps ==
  ASSUME ConnInv, NEW c \in Conns, Runs(c) \/ Handled(c)
  PROVE  ConnInv' /\ Quiet
<1>1. CASE Runs(c)
  BY <1>1, TakesKeeps DEF Runs, ConnInv, Woken
<1>2. CASE Handled(c) /\ (~running[c] \/ queue[c] = <<>>)
  <2>1. queue[c] \in Seq(1..MaxMessages \cup {Stop}) /\ queue' = [queue EXCEPT ![c] = queue[c]]
    BY <1>2 DEF Handled, ConnInv, TypeOK
  <2>2. PICK at \in {"waiting", "handling", "ended"} : loop' = [loop EXCEPT ![c] = at]
    BY <1>2 DEF Handled
  <2> QED
    BY <1>2, <2>1, <2>2, LoopKeeps DEF Handled
<1>3. CASE Handled(c) /\ running[c] /\ queue[c] # <<>>
  BY <1>3, TakesKeeps DEF Handled
<1> QED
  BY <1>1, <1>2, <1>3

LEMMA UnchangedKeeps == ASSUME ConnInv, UNCHANGED connVars PROVE ConnInv' /\ Quiet
<1>1. ConnInv'
  BY DEF connVars, ConnInv, TypeOK, Counted, Keyed, Woken, Stopped, Listed
<1>2. Quiet
  BY DEF connVars, ConnInv, TypeOK, Quiet
<1> QED
  BY <1>1, <1>2

-----------------------------------------------------------------------------
Inv == AuthInv /\ ConnInv

\* What a step may do to the keys: who is let in, and who is spoken to.
Careful ==
  /\ \A c \in Conns : conn[c] = "authenticating" /\ conn'[c] = "greeting" =>
       granted'[key'[c]] # None /\ now - granted'[key'[c]] < TTL
  /\ \A k \in Keys : spoken'[k] # spoken[k] /\ spoken[k] # None =>
       spoken'[k] - spoken[k] >= Interval

LEMMA InitInv == Init => Inv
  BY AuthInit_, ConnInit_ DEF Init, Inv

LEMMA AuthUnchanged == ASSUME AuthInv, UNCHANGED authVars PROVE AuthInv' /\ spoken' = spoken
  BY DEF authVars, AuthInv, AuthType, Trust, Heard

\* A step that leaves the keys alone and opens no connection is careful.
LEMMA CarefulUnchanged ==
  ASSUME spoken' = spoken, \A c \in Conns : conn[c] = "authenticating" => conn'[c] # "greeting"
  PROVE  Careful
  BY DEF Careful

LEMMA ClockKeeps == ASSUME Inv, Clock PROVE Inv' /\ Quiet /\ Careful
<1>1. ConnInv' /\ Quiet /\ conn' = conn
  BY UnchangedKeeps DEF Inv, Clock, connVars
<1>2. AuthInv' /\ spoken' = spoken
  BY TickKeeps, GrantKeeps DEF Inv, Clock, Tick, Grant, Revoke
<1> QED
  BY <1>1, <1>2, CarefulUnchanged DEF Inv

LEMMA HandshakeKeeps ==
  ASSUME Inv, NEW c \in Conns, Handshake(c)
  PROVE  Inv' /\ Quiet /\ Careful
<1>1. CASE Connect(c)
  <2>1. UNCHANGED authVars /\ \A b \in Conns : conn[b] = "authenticating" => conn'[b] # "greeting"
    BY <1>1 DEF Connect, Inv, ConnInv, TypeOK
  <2> QED
    BY <1>1, <2>1, ConnectKeeps, AuthUnchanged, CarefulUnchanged DEF Inv
<1>2. CASE NoToken(c)
  <2>1. UNCHANGED authVars /\ \A b \in Conns : conn[b] = "authenticating" => conn'[b] # "greeting"
    BY <1>2 DEF NoToken, Rejects, Inv, ConnInv, TypeOK
  <2> QED
    BY <1>2, <2>1, RejectsKeeps, AuthUnchanged, CarefulUnchanged DEF Inv, NoToken
<1>3. ASSUME NEW k \in Keys, NEW v, WrongVersion(c, k, v)
      PROVE  Inv' /\ Quiet /\ Careful
  <2>1. ConnInv' /\ Quiet
    BY <1>3, RejectsKeeps DEF WrongVersion, Inv
  <2>2. \A b \in Conns : conn[b] = "authenticating" => conn'[b] # "greeting"
    BY <1>3 DEF WrongVersion, Rejects, Inv, ConnInv, TypeOK
  <2>3. AuthInv' /\ \A j \in Keys : spoken'[j] # spoken[j] /\ spoken[j] # None =>
                                    spoken'[j] - spoken[j] >= Interval
    BY <1>3, WarnKeeps DEF WrongVersion, Inv
  <2> QED
    BY <2>1, <2>2, <2>3 DEF Inv, Careful
<1>4. ASSUME NEW k \in Keys, NEW v, KeyRefused(c, k, v)
      PROVE  Inv' /\ Quiet /\ Careful
  <2>1. ConnInv' /\ Quiet
    BY <1>4, RejectsKeeps DEF KeyRefused, Inv
  <2>2. \A b \in Conns : conn[b] = "authenticating" => conn'[b] # "greeting"
    BY <1>4 DEF KeyRefused, Rejects, Inv, ConnInv, TypeOK
  <2>3. AuthInv' /\ spoken' = spoken
    BY <1>4, RefusedKeeps DEF KeyRefused, Refused, Inv
  <2> QED
    BY <2>1, <2>2, <2>3, CarefulUnchanged DEF Inv
<1>5. ASSUME NEW k \in Keys, NEW v, Opens(c, k, v)
      PROVE  Inv' /\ Quiet /\ Careful
  <2>1. ConnInv' /\ Quiet
    BY <1>5, OpensConnKeeps DEF Inv
  <2>2. AuthInv' /\ granted'[k] # None /\ now - granted'[k] < TTL /\ spoken' = spoken
    BY <1>5, OpensKeeps DEF Opens, Inv
  <2>3. \A b \in Conns : conn[b] = "authenticating" /\ conn'[b] = "greeting" => key'[b] = k
    BY <1>5 DEF Opens, Inv, ConnInv, TypeOK
  <2> QED
    BY <2>1, <2>2, <2>3 DEF Inv, Careful
<1>6. CASE Greets(c)
  <2>1. UNCHANGED authVars /\ \A b \in Conns : conn[b] = "authenticating" => conn'[b] # "greeting"
    BY <1>6 DEF Greets, Inv, ConnInv, TypeOK
  <2> QED
    BY <1>6, <2>1, MovesKeep, AuthUnchanged, CarefulUnchanged DEF Inv
<1> QED
  BY <1>1, <1>2, <1>3, <1>4, <1>5, <1>6 DEF Handshake

\* The listening loop, the shutdown and the main loop leave the keys alone.
Rest(c) == \/ Drop(c) \/ Ignores(c) \/ EnqueuesChat(c) \/ Enqueues(c) \/ BadImage(c)
           \/ SeesClosed(c) \/ Stops(c) \/ Closes(c)
           \/ Cancelled(c) \/ Runs(c) \/ Handled(c) \/ ChatEnds(c)

LEMMA RestKeeps ==
  ASSUME Inv, NEW c \in Conns, Rest(c)
  PROVE  Inv' /\ Quiet /\ Careful
<1>1. ConnInv' /\ Quiet
  BY MovesKeep, ReceivesKeep, EnqueuesKeeps, StopsKeeps, ClosesKeeps, EndsKeep, RunsKeeps DEF Inv, Rest
<1>2. UNCHANGED authVars
  BY DEF Rest, Drop, Ignores, EnqueuesChat, Enqueues, BadImage, SeesClosed, Stops, Closes, Cancelled,
         Runs, Handled, ChatEnds
<1>3. conn' = conn \/ \E at \in {"closing", "joining", "closed"} : conn' = [conn EXCEPT ![c] = at]
  BY DEF Rest, Drop, Ignores, EnqueuesChat, Enqueues, BadImage, SeesClosed, Stops, Closes, Cancelled,
         Runs, Handled, ChatEnds
<1>4. \A b \in Conns : conn[b] = "authenticating" => conn'[b] # "greeting"
  BY <1>3 DEF Inv, ConnInv, TypeOK
<1> QED
  BY <1>1, <1>2, <1>4, AuthUnchanged, CarefulUnchanged DEF Inv

LEMMA NextInv == ASSUME Inv, [Next]_vars PROVE Inv' /\ Quiet /\ Careful
<1>1. CASE UNCHANGED vars
  <2>1. UNCHANGED authVars /\ UNCHANGED connVars /\ conn' = conn
    BY <1>1 DEF vars, connVars
  <2> QED
    BY <2>1, UnchangedKeeps, AuthUnchanged, CarefulUnchanged DEF Inv
<1>2. ASSUME NEW c \in Conns, Handshake(c) \/ Rest(c) PROVE Inv' /\ Quiet /\ Careful
  BY <1>2, HandshakeKeeps, RestKeeps
<1> QED
  BY <1>1, <1>2, ClockKeeps DEF Next, Rest

\* In every state what is cached was granted, what was spoken is noted, and each
\* connection's brain, queue and entry agree with where it is: the inductive
\* invariant behind the theorems below.
THEOREM Invariance == Spec => []Inv
<1>1. Inv /\ [Next]_vars => Inv'
  BY NextInv
<1> QED
  BY InitInv, <1>1, PTL DEF Spec

\* Type correctness of the connections.
THEOREM TypeCorrect == Spec => []TypeOK
  BY Invariance, PTL DEF Inv, ConnInv

\* No connection that was shut down is listed by the debug panel.
THEOREM ListedLive == Spec => []RegistryListsLive
<1>1. Inv => RegistryListsLive
  BY DEF Inv, ConnInv, Listed, Live, RegistryListsLive
<1> QED
  BY <1>1, Invariance, PTL

\* No brain takes a message of a connection that is shut down.
THEOREM StoppedBrains == Spec => StoppedBrainsTakeNothing
<1>1. Inv /\ [Next]_vars => Quiet
  BY NextInv
<1>2. Spec => [][Quiet]_vars
  BY <1>1, Invariance, PTL DEF Spec
<1> QED
  BY <1>2 DEF StoppedBrainsTakeNothing, Quiet

\* A connection is opened only for a key granted access at most TTL ago.
THEOREM RecentlyGranted == Spec => OpensRecentlyGranted
<1> DEFINE A == \A c \in Conns : conn[c] = "authenticating" /\ conn'[c] = "greeting" =>
                  granted'[key'[c]] # None /\ now - granted'[key'[c]] < TTL
<1>1. Inv /\ [Next]_vars => A
  BY NextInv DEF Careful
<1>2. Spec => [][A]_vars
  BY <1>1, Invariance, PTL DEF Spec
<1> QED
  BY <1>2 DEF OpensRecentlyGranted

\* Two warnings spoken to a robot are an interval apart.
THEOREM WarningsAreApart == Spec => WarningsApart
<1> DEFINE A == \A k \in Keys : spoken'[k] # spoken[k] /\ spoken[k] # None =>
                  spoken'[k] - spoken[k] >= Interval
<1>1. Inv /\ [Next]_vars => A
  BY NextInv DEF Careful
<1>2. Spec => [][A]_vars
  BY <1>1, Invariance, PTL DEF Spec
<1> QED
  BY <1>2 DEF WarningsApart
=============================================================================
