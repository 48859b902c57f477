----------------------------- MODULE TokenAuth -----------------------------
(***************************************************************************)
(* Who may connect (auth/token_auth.py): the check of the robot's version, *)
(* the spoken warning that must not flood a robot that reconnects every    *)
(* second, and the check of its service key, whose good answers are kept   *)
(* for a while.  SKIP_AUTH is off.                                         *)
(***************************************************************************)
EXTENDS Integers, FiniteSets

CONSTANTS
  Keys,        \* service keys, the tokens of the clients
  TTL,         \* _cache_ttl
  Interval,    \* VERSION_WARNING_INTERVAL_S
  WarnSize,    \* the size _last_version_warning is purged at: 1000
  MinVersion,  \* MIN_CLIENT_VERSION
  Delay,       \* the longest a request to the service takes: its timeout
  MaxTime,     \* bound: when the clock stops
  None

ASSUME TokenAssumption ==
  /\ TTL \in Nat \ {0} /\ Interval \in Nat /\ WarnSize \in Nat /\ Delay \in Nat
  /\ MaxTime \in Nat
  /\ None \notin Int

VARIABLES
  now,         \* time.time() and time.monotonic()
  valid,       \* the service's own view: the keys it grants access
  granted,     \* granted[k]: when the service last did; only properties read it
  cache,       \* _cache: until when k is trusted, or None
  warned,      \* _last_version_warning: when k was warned, or None
  spoken       \* when a warning was last sent to k; only properties read it

authVars == <<now, valid, granted, cache, warned, spoken>>

Versions == [parses : BOOLEAN, dev : BOOLEAN, number : {MinVersion - 1, MinVersion}]
Missing  == [parses |-> FALSE, dev |-> FALSE, number |-> 0]

AuthInit == /\ now = 0
            /\ valid \in SUBSET Keys
            /\ granted = [k \in Keys |-> IF k \in valid THEN 0 ELSE None]
            /\ cache = [k \in Keys |-> None]
            /\ warned = [k \in Keys |-> None]
            /\ spoken = [k \in Keys |-> None]

Since(d) == /\ now + d <= MaxTime
            /\ now' = now + d
            /\ granted' = [k \in Keys |-> IF k \in valid THEN now + d ELSE granted[k]]

\* Time passes.
Tick == Since(1) /\ UNCHANGED <<valid, cache, warned, spoken>>

\* The service gives or takes a key its access to the cloud agent.
Grant(k)  == /\ k \notin valid
             /\ valid' = valid \cup {k}
             /\ granted' = [granted EXCEPT ![k] = now]
             /\ UNCHANGED <<now, cache, warned, spoken>>
Revoke(k) == /\ k \in valid
             /\ valid' = valid \ {k}
             /\ UNCHANGED <<now, granted, cache, warned, spoken>>

-----------------------------------------------------------------------------
\* compare_versions.
CompareVersions(v) == v.parses /\ (v.dev \/ v.number >= MinVersion)

\* should_speak_version_warning, and the message if it says so.
MayWarn(k) == warned[k] = None \/ now - warned[k] >= Interval

\* A plausible bug: a full table is emptied.
PurgedAll(table) ==
  IF Cardinality({k \in Keys : table[k] # None}) > WarnSize
  THEN [k \in Keys |-> None] ELSE table

Purged(table) ==
  IF Cardinality({k \in Keys : table[k] # None}) > WarnSize
  THEN [k \in Keys |-> IF table[k] # None /\ now - table[k] >= Interval THEN None ELSE table[k]]
  ELSE table

\* The entry is made whether or not the client is still there to hear it.
Warn(k, heard) ==
  /\ IF MayWarn(k)
     THEN /\ warned' = Purged([warned EXCEPT ![k] = now])
          /\ spoken' = IF heard THEN [spoken EXCEPT ![k] = now] ELSE spoken
     ELSE UNCHANGED <<warned, spoken>>
  /\ UNCHANGED <<now, valid, granted, cache>>

-----------------------------------------------------------------------------
\* validate_service_key.

CacheHit(k) == cache[k] # None /\ now < cache[k]

\* A plausible bug: being asked again keeps an entry alive.
TrustedRenewed(k) == /\ CacheHit(k)
                     /\ cache' = [cache EXCEPT ![k] = now + TTL]
                     /\ UNCHANGED <<now, valid, granted, warned, spoken>>

\* Answered from the cache.
Trusted(k) == CacheHit(k) /\ UNCHANGED authVars

\* The service is asked, which blocks the process for up to Delay, and the
\* answer is kept until TTL after the question.
Accepted(k) == /\ ~CacheHit(k)
               /\ k \in valid
               /\ \E d \in 0..Delay : Since(d)
               /\ cache' = [cache EXCEPT ![k] = now + TTL]
               /\ UNCHANGED <<valid, warned, spoken>>

\* It refuses, cannot be reached in time, or answers with an error; the
\* expired entry is gone.
Refused(k) == /\ ~CacheHit(k)
              /\ \E d \in 0..Delay : Since(d)
              /\ cache' = [cache EXCEPT ![k] = None]
              /\ UNCHANGED <<valid, warned, spoken>>
============================================================================
