--------------------------- MODULE HistoryProofs ---------------------------
(***************************************************************************)
(* Proofs about History, for any NUM_HISTORY_TO_SUMMARIZE, any number of   *)
(* threads, additions and resets.                                          *)
(***************************************************************************)
EXTENDS History, FiniteSetTheorems, TLAPS

\* Until a reset the flag does what it is for.
OneAtATime ==
  resets = 0 => \A t, u \in Alive : t = u /\ is_summarizing

HistoryInv ==
  /\ TypeOK
  /\ SummarizersBounded
  /\ OneAtATime
  /\ BatchStillThere

----------------------------------------------------------------------------
(* Sequences and summaries *)

LEMMA AppendKeepsPrefix ==
  ASSUME NEW S, NEW s \in Seq(S), NEW e \in S, NEW n \in Nat, n <= Len(s)
  PROVE  SubSeq(Append(s, e), 1, n) = SubSeq(s, 1, n)
OBVIOUS

LEMMA CoveredType ==
  ASSUME NEW s \in Seq(Entry)
  PROVE  Covered(s) \in Entry
BY DEF Covered, Entry

LEMMA AliveFinite == IsFiniteSet(Alive) /\ Cardinality(Alive) \in Nat
<1>1. IsFiniteSet(Alive)
  BY HistoryAssumption, FS_Subset DEF Alive
<1>2. QED
  BY <1>1, FS_CardinalityType

----------------------------------------------------------------------------
(* One step *)

LEMMA HistoryType == TypeOK /\ [Next]_vars => TypeOK'
<1> SUFFICES ASSUME TypeOK, [Next]_vars PROVE TypeOK'
  OBVIOUS
<1> USE HistoryAssumption DEF TypeOK
<1>1. CASE Add
  <2>1. {adds + 1} \in Entry
    BY <1>1 DEF Add, Entry
  <2>2. entries' \in Seq(Entry)
    BY <1>1, <2>1 DEF Add
  <2>3. QED
    BY <1>1, <2>2 DEF Add
<1>2. CASE Reset
  <2>1. entries' = << >> /\ is_summarizing' = FALSE
    BY <1>2 DEF Reset
  <2>2. resets' \in 0 .. MaxResets
    BY <1>2 DEF Reset
  <2>3. UNCHANGED <<thread, adds>>
    BY <1>2 DEF Reset
  <2>4. entries' \in Seq(Entry)
    BY <2>1
  <2>5. QED
    BY <2>1, <2>2, <2>3, <2>4
<1>3. ASSUME NEW t \in Threads, CheckAndSummarize(t) PROVE TypeOK'
  <2>1. Len(entries) \in Nat /\ Len(entries) - NUM_HISTORY_TO_SUMMARIZE \in Nat
        /\ Len(entries) - NUM_HISTORY_TO_SUMMARIZE <= Len(entries)
    BY <1>3 DEF CheckAndSummarize, NeedsSummary
  <2>2. SubSeq(entries, 1, Len(entries) - NUM_HISTORY_TO_SUMMARIZE) \in Seq(Entry)
    BY <2>1
  <2>3. thread' \in [Threads -> ThreadState]
    BY <1>3, <2>2 DEF CheckAndSummarize, ThreadState
  <2>4. QED
    BY <1>3, <2>3 DEF CheckAndSummarize
<1>4. ASSUME NEW t \in Threads, NEW from, NEW to \in {"answered", "leaving"},
             Steps(t, from, to)
      PROVE  thread' \in [Threads -> ThreadState]
  BY <1>4 DEF Steps, ThreadState
<1>5. ASSUME NEW t \in Threads, Summarized(t) \/ NoSummary(t) PROVE TypeOK'
  BY <1>4, <1>5 DEF Summarized, NoSummary
<1>6. ASSUME NEW t \in Threads, Slice(t) PROVE TypeOK'
  <2>1. thread[t] \in ThreadState
    OBVIOUS
  <2>2. Len(thread[t].batch) \in Nat
    BY <2>1 DEF ThreadState
  <2>3. Kept(t) \in Seq(Entry)
    BY <2>2 DEF Kept
  <2>4. thread' \in [Threads -> ThreadState]
    BY <1>6, <2>3 DEF Slice, ThreadState
  <2>5. QED
    BY <1>6, <2>4 DEF Slice
<1>7. ASSUME NEW t \in Threads, Swap(t) \/ Prepend(t) PROVE TypeOK'
  <2>1. thread[t].batch \in Seq(Entry) /\ thread[t].rest \in Seq(Entry)
    BY DEF ThreadState
  <2>2. <<Covered(thread[t].batch)>> \in Seq(Entry)
    BY <2>1, CoveredType
  <2>3. entries' \in Seq(Entry)
    <3>1. \A rest \in Seq(Entry) : <<Covered(thread[t].batch)>> \o rest \in Seq(Entry)
      BY <2>2
    <3>2. CASE Swap(t)
      BY <2>1, <3>1, <3>2 DEF Swap
    <3>3. CASE Prepend(t)
      BY <3>1, <3>3 DEF Prepend
    <3>4. QED
      BY <1>7, <3>2, <3>3
  <2>4. thread' \in [Threads -> ThreadState]
    BY <1>4, <1>7 DEF Swap, Prepend
  <2>5. QED
    BY <1>7, <2>3, <2>4 DEF Swap, Prepend
<1>8. ASSUME NEW t \in Threads, Finish(t) PROVE TypeOK'
  <2>1. NoThread \in ThreadState
    BY DEF NoThread, ThreadState
  <2>2. QED
    BY <1>8, <2>1 DEF Finish
<1>9. CASE UNCHANGED vars
  BY <1>9 DEF vars
<1>10. QED
  BY <1>1, <1>2, <1>3, <1>5, <1>6, <1>7, <1>8, <1>9 DEF Next, ThreadNext

\* Only two steps change who is alive.
LEMMA AliveChange ==
  ASSUME TypeOK, [Next]_vars
  PROVE  \/ Alive' = Alive /\ UNCHANGED <<is_summarizing, resets>>
         \/ /\ Alive' = Alive /\ is_summarizing' = FALSE
            /\ resets \in Nat /\ resets' = resets + 1
         \/ /\ ~is_summarizing /\ is_summarizing' = TRUE /\ resets' = resets
            /\ \E t \in Threads : t \notin Alive /\ Alive' = Alive \cup {t}
         \/ /\ is_summarizing' = FALSE /\ resets' = resets
            /\ \E t \in Threads : t \in Alive /\ Alive' = Alive \ {t}
<1> USE DEF Alive
<1>1. thread \in [Threads -> ThreadState]
  BY DEF TypeOK
<1>2. CASE Add
  BY <1>2 DEF Add
<1>3. CASE Reset
  BY <1>3 DEF Reset, TypeOK
<1>4. ASSUME NEW t \in Threads, CheckAndSummarize(t)
      PROVE  /\ ~is_summarizing /\ is_summarizing' = TRUE /\ resets' = resets
             /\ t \notin Alive /\ Alive' = Alive \cup {t}
  BY <1>1, <1>4 DEF CheckAndSummarize, NeedsSummary
<1>5. ASSUME NEW t \in Threads,
             Summarized(t) \/ NoSummary(t) \/ Slice(t) \/ Swap(t) \/ Prepend(t)
      PROVE  Alive' = Alive /\ UNCHANGED <<is_summarizing, resets>>
  <2>1. UNCHANGED <<is_summarizing, resets>> /\ thread[t].at # "none"
    BY <1>5 DEF Summarized, NoSummary, Slice, Swap, Prepend, Steps
  <2>2. /\ thread'[t].at # "none"
        /\ \A u \in Threads \ {t} : thread'[u] = thread[u]
    BY <1>1, <1>5 DEF Summarized, NoSummary, Slice, Swap, Prepend, Steps, ThreadState
  <2>3. QED
    BY <2>1, <2>2
<1>6. ASSUME NEW t \in Threads, Finish(t)
      PROVE  /\ is_summarizing' = FALSE /\ resets' = resets
             /\ t \in Alive /\ Alive' = Alive \ {t}
  BY <1>1, <1>6 DEF Finish, NoThread
<1>7. CASE UNCHANGED vars
  BY <1>7 DEF vars
<1>8. QED
  BY <1>2, <1>3, <1>4, <1>5, <1>6, <1>7 DEF Next, ThreadNext

LEMMA BoundedStep ==
  ASSUME TypeOK, SummarizersBounded, [Next]_vars
  PROVE  SummarizersBounded'
<1>1. resets \in Nat /\ is_summarizing \in BOOLEAN
  BY HistoryAssumption DEF TypeOK
<1>2. /\ IsFiniteSet(Alive) /\ Cardinality(Alive) \in Nat
      /\ Cardinality(Alive) <= resets + (IF is_summarizing THEN 1 ELSE 0)
  BY AliveFinite DEF SummarizersBounded
<1>3. CASE Alive' = Alive /\ UNCHANGED <<is_summarizing, resets>>
  BY <1>2, <1>3 DEF SummarizersBounded
<1>4. CASE Alive' = Alive /\ is_summarizing' = FALSE /\ resets' = resets + 1
  BY <1>1, <1>2, <1>4 DEF SummarizersBounded
<1>5. ASSUME ~is_summarizing, is_summarizing' = TRUE, resets' = resets,
             NEW t \in Threads, t \notin Alive, Alive' = Alive \cup {t}
      PROVE  SummarizersBounded'
  <2>1. Cardinality(Alive') = Cardinality(Alive) + 1
    BY <1>2, <1>5, FS_AddElement
  <2>2. QED
    BY <1>1, <1>2, <1>5, <2>1 DEF SummarizersBounded
<1>6. ASSUME is_summarizing' = FALSE, resets' = resets,
             NEW t \in Threads, t \in Alive, Alive' = Alive \ {t}
      PROVE  SummarizersBounded'
  <2>1. Cardinality(Alive') = Cardinality(Alive) - 1
    BY <1>2, <1>6, FS_RemoveElement
  <2>2. QED
    BY <1>1, <1>2, <1>6, <2>1 DEF SummarizersBounded
<1>7. QED
  BY <1>3, <1>4, <1>5, <1>6, AliveChange

LEMMA OneAtATimeStep ==
  ASSUME TypeOK, OneAtATime, [Next]_vars
  PROVE  OneAtATime'
<1> SUFFICES ASSUME resets' = 0, NEW t \in Alive', NEW u \in Alive'
             PROVE  t = u /\ is_summarizing'
  BY DEF OneAtATime
<1>1. resets' = resets \/ (resets \in Nat /\ resets' = resets + 1)
  BY AliveChange
<1>2. resets = 0 /\ resets' = resets
  BY <1>1
<1>3. \A v, w \in Alive : v = w /\ is_summarizing
  BY <1>2 DEF OneAtATime
<1>4. CASE Alive' = Alive /\ UNCHANGED is_summarizing
  BY <1>3, <1>4
<1>5. ASSUME ~is_summarizing, is_summarizing' = TRUE,
             NEW v \in Threads, Alive' = Alive \cup {v}
      PROVE  t = u /\ is_summarizing'
  BY <1>3, <1>5
<1>6. ASSUME NEW v \in Threads, v \in Alive, Alive' = Alive \ {v}
      PROVE  t = u /\ is_summarizing'
  BY <1>3, <1>6
<1>7. QED
  <2>1. resets' # resets + 1
    BY <1>2
  <2>2. \/ Alive' = Alive /\ UNCHANGED is_summarizing
        \/ /\ ~is_summarizing /\ is_summarizing' = TRUE
           /\ \E v \in Threads : Alive' = Alive \cup {v}
        \/ \E v \in Threads : v \in Alive /\ Alive' = Alive \ {v}
    BY <2>1, AliveChange, Zenon
  <2>3. QED
    BY <1>4, <1>5, <1>6, <2>2

\* The oldest entries can only change by a summary, and until a reset the only
\* summarizer there is has made its own before another starts.
LEMMA BatchStep ==
  ASSUME TypeOK, OneAtATime, BatchStillThere, [Next]_vars
  PROVE  BatchStillThere'
<1> DEFINE busy == {"calling", "answered", "locked"}
<1> SUFFICES ASSUME resets' = 0, NEW t \in Threads, thread'[t].at \in busy
             PROVE  /\ Len(thread'[t].batch) <= Len(entries')
                    /\ thread'[t].batch = SubSeq(entries', 1, Len(thread'[t].batch))
  BY DEF BatchStillThere
<1>1. resets = 0 /\ resets' = resets
  <2>1. resets' = resets \/ (resets \in Nat /\ resets' = resets + 1)
    BY AliveChange
  <2>2. QED
    BY <2>1
<1>2. entries \in Seq(Entry) /\ thread \in [Threads -> ThreadState]
  BY DEF TypeOK
<1>3. thread[t].at \in busy => /\ Len(thread[t].batch) <= Len(entries)
                             /\ thread[t].batch = SubSeq(entries, 1, Len(thread[t].batch))
  BY <1>1 DEF BatchStillThere
<1>4. ASSUME UNCHANGED entries, thread[t].at \in busy, thread'[t].batch = thread[t].batch
      PROVE  /\ Len(thread'[t].batch) <= Len(entries')
             /\ thread'[t].batch = SubSeq(entries', 1, Len(thread'[t].batch))
  BY <1>3, <1>4
<1>5. CASE Add
  <2>1. /\ UNCHANGED thread /\ entries' = Append(entries, {adds + 1})
        /\ {adds + 1} \in Entry
    BY <1>5, HistoryAssumption DEF Add, Entry, TypeOK
  <2>2. Len(thread[t].batch) \in Nat
    BY <1>2 DEF ThreadState
  <2>3. SubSeq(entries', 1, Len(thread[t].batch)) = SubSeq(entries, 1, Len(thread[t].batch))
    BY <1>2, <1>3, <2>1, <2>2, AppendKeepsPrefix
  <2>4. Len(entries') = Len(entries) + 1
    BY <1>2, <2>1
  <2>5. QED
    BY <1>2, <1>3, <2>1, <2>2, <2>3, <2>4
<1>6. ASSUME Reset PROVE FALSE
  BY <1>1, <1>6 DEF Reset, TypeOK
<1>7. ASSUME NEW s \in Threads, CheckAndSummarize(s)
      PROVE  /\ Len(thread'[t].batch) <= Len(entries')
             /\ thread'[t].batch = SubSeq(entries', 1, Len(thread'[t].batch))
  <2> DEFINE n == Len(entries) - NUM_HISTORY_TO_SUMMARIZE
  <2>1. CASE s = t
    <3>1. UNCHANGED entries /\ thread'[t].batch = SubSeq(entries, 1, n)
      BY <1>2, <1>7, <2>1 DEF CheckAndSummarize
    <3>2. n \in Nat /\ n <= Len(entries)
      BY <1>2, <1>7, HistoryAssumption DEF CheckAndSummarize, NeedsSummary
    <3>3. Len(SubSeq(entries, 1, n)) = n
      BY <1>2, <3>2
    <3>4. QED
      BY <3>1, <3>2, <3>3
  <2>2. CASE s # t
    <3>1. UNCHANGED entries /\ thread'[t] = thread[t]
      BY <1>2, <1>7, <2>2 DEF CheckAndSummarize
    <3>2. QED
      BY <1>4, <3>1
  <2>3. QED
    BY <2>1, <2>2
<1>8. ASSUME NEW s \in Threads, Summarized(s) \/ NoSummary(s) \/ Slice(s) \/ Finish(s)
      PROVE  /\ Len(thread'[t].batch) <= Len(entries')
             /\ thread'[t].batch = SubSeq(entries', 1, Len(thread'[t].batch))
  <2>1. UNCHANGED entries
    BY <1>8 DEF Summarized, NoSummary, Slice, Finish
  <2>2. thread'[t].batch = thread[t].batch /\ thread[t].at \in busy
    BY <1>2, <1>8 DEF Summarized, NoSummary, Slice, Finish, Steps, NoThread, ThreadState
  <2>3. QED
    BY <1>4, <2>1, <2>2
<1>9. ASSUME NEW s \in Threads, Swap(s) \/ Prepend(s) PROVE FALSE
  <2>1. thread[s].at # "none" /\ thread'[s].at = "leaving"
    BY <1>2, <1>9 DEF Swap, Prepend, Steps, ThreadState
  <2>2. s # t /\ thread'[t] = thread[t]
    BY <1>2, <1>9, <2>1 DEF Swap, Prepend, Steps
  <2>3. s \in Alive /\ t \in Alive
    BY <2>1, <2>2 DEF Alive
  <2>4. QED
    BY <1>1, <2>2, <2>3 DEF OneAtATime
<1>10. CASE UNCHANGED vars
  BY <1>4, <1>10 DEF vars
<1>11. QED
  BY <1>5, <1>6, <1>7, <1>8, <1>9, <1>10 DEF Next, ThreadNext

----------------------------------------------------------------------------
(* The theorems *)

LEMMA HistoryInit == Init => HistoryInv
<1> SUFFICES ASSUME Init PROVE HistoryInv
  OBVIOUS
<1>1. NoThread \in ThreadState /\ NoThread.at = "none"
  BY DEF NoThread, ThreadState
<1>2. TypeOK
  <2>1. entries \in Seq(Entry)
    BY DEF Init
  <2>2. thread \in [Threads -> ThreadState]
    BY <1>1 DEF Init
  <2>3. adds \in 0 .. MaxAdds /\ resets \in 0 .. MaxResets
    BY HistoryAssumption DEF Init
  <2>4. QED
    BY <2>1, <2>2, <2>3 DEF Init, TypeOK
<1>3. Alive = {}
  BY <1>1 DEF Init, Alive
<1>4. SummarizersBounded
  BY <1>3, FS_EmptySet DEF Init, SummarizersBounded
<1>5. OneAtATime
  BY <1>3 DEF OneAtATime
<1>6. BatchStillThere
  BY <1>1 DEF Init, BatchStillThere
<1>7. QED
  BY <1>2, <1>4, <1>5, <1>6 DEF HistoryInv

LEMMA HistoryStep == HistoryInv /\ [Next]_vars => HistoryInv'
  BY HistoryType, BoundedStep, OneAtATimeStep, BatchStep DEF HistoryInv

\* Throughout every session the summarizer threads, the flag and the entries of
\* their batches agree as HistoryInv says: the inductive invariant behind the two
\* theorems below.
THEOREM HistoryInvariant == Spec => []HistoryInv
  BY HistoryInit, HistoryStep, PTL DEF Spec

\* There are never more summarizers at work than the flag and the resets so far
\* account for: one at a time until a reset (check_and_summarize, "Set flag
\* immediately to prevent multiple threads").
THEOREM BoundedSummarizers == Spec => []SummarizersBounded
<1>1. HistoryInv => SummarizersBounded
  BY DEF HistoryInv
<1>2. QED
  BY <1>1, HistoryInvariant, PTL

\* Until a reset a summary replaces exactly the entries it was made from, so the
\* branch "History shrunk unexpectedly" is dead code.
THEOREM BatchReplaced == Spec => []BatchStillThere
<1>1. HistoryInv => BatchStillThere
  BY DEF HistoryInv
<1>2. QED
  BY <1>1, HistoryInvariant, PTL

----------------------------------------------------------------------------
(* What a swap loses *)

\* Until a reset no addition is in two entries, and all in them were made.
Distinct ==
  resets = 0 =>
    /\ \A i \in DOMAIN entries : entries[i] \subseteq 1 .. adds
    /\ \A i, k \in DOMAIN entries : i # k => entries[i] \cap entries[k] = {}

\* Until a reset what a thread in its critical section keeps stands behind its batch.
RestStillThere ==
  resets = 0 => \A t \in Threads : thread[t].at = "locked" =>
    LET batch == thread[t].batch
        rest  == thread[t].rest
    IN  /\ Len(batch) + Len(rest) <= Len(entries)
        /\ \A i \in 1 .. Len(rest) : rest[i] = entries[Len(batch) + i]

SwapInv == HistoryInv /\ Distinct /\ RestStillThere

\* What is known of a thread that swaps: how long its parts and the history are,
\* and what stands where in the history before and after.
Batch(t) == thread[t].batch
Rest(t)  == thread[t].rest

LEMMA SwapFacts ==
  ASSUME SwapInv, resets = 0, NEW t \in Threads, Swap(t)
  PROVE  /\ Len(Batch(t)) \in Nat /\ Len(Rest(t)) \in Nat /\ Len(entries) \in Nat
         /\ DOMAIN Batch(t) = 1 .. Len(Batch(t)) /\ DOMAIN entries = 1 .. Len(entries)
         /\ entries \in Seq(Entry) /\ Len(Batch(t)) + Len(Rest(t)) <= Len(entries)
         /\ \A i \in 1 .. Len(Batch(t)) : Batch(t)[i] = entries[i]
         /\ DOMAIN entries' = 1 .. Len(Rest(t)) + 1
         /\ entries'[1] = Covered(Batch(t))
         /\ \A i \in 2 .. Len(Rest(t)) + 1 : entries'[i] = entries[Len(Batch(t)) + i - 1]
<1>1. /\ thread[t].at = "locked" /\ entries' = <<Covered(Batch(t))>> \o Rest(t)
      /\ Batch(t) \in Seq(Entry) /\ Rest(t) \in Seq(Entry) /\ entries \in Seq(Entry)
  BY DEF SwapInv, HistoryInv, TypeOK, ThreadState, Swap, Steps, Batch, Rest
<1>2. /\ Len(Batch(t)) <= Len(entries) /\ Batch(t) = SubSeq(entries, 1, Len(Batch(t)))
      /\ Len(Batch(t)) + Len(Rest(t)) <= Len(entries)
      /\ \A i \in 1 .. Len(Rest(t)) : Rest(t)[i] = entries[Len(Batch(t)) + i]
  BY <1>1 DEF SwapInv, HistoryInv, BatchStillThere, RestStillThere, Batch, Rest
<1>3. \A i \in 1 .. Len(Batch(t)) : Batch(t)[i] = entries[i]
  BY <1>1, <1>2
<1>4. /\ DOMAIN entries' = 1 .. Len(Rest(t)) + 1 /\ entries'[1] = Covered(Batch(t))
      /\ \A i \in 1 .. Len(Rest(t)) : entries'[i + 1] = Rest(t)[i]
  BY <1>1
<1>5. \A i \in 2 .. Len(Rest(t)) + 1 : entries'[i] = entries[Len(Batch(t)) + i - 1]
  <2> TAKE i \in 2 .. Len(Rest(t)) + 1
  <2>1. /\ i - 1 \in 1 .. Len(Rest(t)) /\ (i - 1) + 1 = i
        /\ Len(Batch(t)) + (i - 1) = Len(Batch(t)) + i - 1
    BY <1>1
  <2> QED
    BY <1>2, <1>4, <2>1
<1>6. /\ Len(Batch(t)) \in Nat /\ Len(Rest(t)) \in Nat /\ Len(entries) \in Nat
      /\ DOMAIN Batch(t) = 1 .. Len(Batch(t)) /\ DOMAIN entries = 1 .. Len(entries)
  BY <1>1
<1> QED
  BY <1>1, <1>2, <1>3, <1>4, <1>5, <1>6

LEMMA NoResetSoFar ==
  ASSUME SwapInv, [Next]_vars, resets' = 0
  PROVE  resets = 0 /\ ~Reset
<1>1. resets \in Nat
  BY HistoryAssumption DEF SwapInv, HistoryInv, TypeOK
<1>2. ~Reset
  BY <1>1 DEF Reset
<1>3. resets' = resets
  BY <1>2 DEF Next, vars, Add, CheckAndSummarize, ThreadNext, Summarized, NoSummary, Slice, Swap,
     Prepend, Finish
<1> QED
  BY <1>2, <1>3

LEMMA SwapKeepsDistinct ==
  ASSUME SwapInv, resets = 0, NEW t \in Threads, Swap(t)
  PROVE  Distinct'
<1> DEFINE batch == Batch(t)
           rest  == Rest(t)
<1>1. /\ Len(batch) \in Nat /\ Len(rest) \in Nat /\ Len(entries) \in Nat
      /\ DOMAIN batch = 1 .. Len(batch) /\ DOMAIN entries = 1 .. Len(entries)
      /\ Len(batch) + Len(rest) <= Len(entries)
      /\ \A i \in 1 .. Len(batch) : batch[i] = entries[i]
      /\ DOMAIN entries' = 1 .. Len(rest) + 1 /\ entries'[1] = Covered(batch)
      /\ \A i \in 2 .. Len(rest) + 1 : entries'[i] = entries[Len(batch) + i - 1]
  BY SwapFacts
<1>2. /\ \A i \in 1 .. Len(entries) : entries[i] \subseteq 1 .. adds
      /\ \A i, k \in 1 .. Len(entries) : i # k => entries[i] \cap entries[k] = {}
      /\ adds' = adds
  BY <1>1 DEF SwapInv, Distinct, Swap
<1> HIDE DEF batch, rest
<1>3. Covered(batch) \subseteq 1 .. adds
  BY <1>1, <1>2 DEF Covered
<1>4. ASSUME NEW i \in 2 .. Len(rest) + 1
      PROVE  /\ Len(batch) + i - 1 \in 1 .. Len(entries) /\ entries'[i] \subseteq 1 .. adds
             /\ entries'[i] \cap Covered(batch) = {}
  <2>1. Len(batch) + i - 1 \in 1 .. Len(entries)
    BY <1>1
  <2>2. \A k \in 1 .. Len(batch) : entries[Len(batch) + i - 1] \cap batch[k] = {}
    <3> TAKE k \in 1 .. Len(batch)
    <3>1. k \in 1 .. Len(entries) /\ k # Len(batch) + i - 1
      BY <1>1
    <3> QED
      BY <1>1, <1>2, <2>1, <3>1
  <2> QED
    BY <1>1, <1>2, <2>1, <2>2 DEF Covered
<1>5. \A i, k \in 2 .. Len(rest) + 1 : i # k => entries'[i] \cap entries'[k] = {}
  <2> TAKE i, k \in 2 .. Len(rest) + 1
  <2>1. i # k => Len(batch) + i - 1 # Len(batch) + k - 1
    BY <1>1
  <2> QED
    BY <1>1, <1>2, <1>4, <2>1
<1>6. \A i \in 1 .. Len(rest) + 1 : i = 1 \/ i \in 2 .. Len(rest) + 1
  BY <1>1
<1> QED
  BY <1>1, <1>2, <1>3, <1>4, <1>5, <1>6 DEF Distinct

LEMMA DistinctStep == SwapInv /\ [Next]_vars => Distinct'
<1> SUFFICES ASSUME SwapInv, [Next]_vars, resets' = 0 PROVE Distinct'
  BY DEF Distinct
<1>1. resets = 0 /\ ~Reset
  BY NoResetSoFar
<1>2. entries \in Seq(Entry) /\ adds \in Nat
  BY DEF SwapInv, HistoryInv, TypeOK
<1>3. CASE Add
  <2>1. adds' = adds + 1 /\ entries' = Append(entries, {adds + 1})
    BY <1>3 DEF Add
  <2>2. /\ DOMAIN entries' = 1 .. Len(entries) + 1 /\ Len(entries) \in Nat
        /\ entries'[Len(entries) + 1] = {adds + 1}
        /\ \A i \in 1 .. Len(entries) : entries'[i] = entries[i]
    BY <1>2, <2>1
  <2>3. \A i \in 1 .. Len(entries) : entries[i] \subseteq 1 .. adds
    BY <1>1, <1>2 DEF SwapInv, Distinct
  <2>4. \A i, k \in 1 .. Len(entries) : i # k => entries[i] \cap entries[k] = {}
    BY <1>1, <1>2 DEF SwapInv, Distinct
  <2>5. \A i \in 1 .. Len(entries) : entries'[i] \cap {adds + 1} = {} /\ entries'[i] \subseteq 1 .. adds'
    <3>1. adds + 1 \notin 1 .. adds /\ 1 .. adds \subseteq 1 .. adds'
      BY <1>2, <2>1
    <3> QED
      BY <2>2, <2>3, <3>1
  <2>6. {adds + 1} \subseteq 1 .. adds'
    BY <1>2, <2>1
  <2>7. \A i \in 1 .. Len(entries) + 1 : i = Len(entries) + 1 \/ i \in 1 .. Len(entries)
    BY <2>2
  <2> QED
    BY <2>2, <2>4, <2>5, <2>6, <2>7 DEF Distinct
<1>4. ASSUME NEW t \in Threads, Swap(t) PROVE Distinct'
  BY <1>1, <1>4, SwapKeepsDistinct
<1>5. ASSUME NEW t \in Threads, Prepend(t) PROVE FALSE
  <2>1. thread[t].at = "answered" /\ Len(thread[t].batch) > Len(entries)
    BY <1>5 DEF Prepend, Steps
  <2>2. Len(thread[t].batch) <= Len(entries)
    BY <1>1, <2>1 DEF SwapInv, HistoryInv, BatchStillThere
  <2>3. Len(thread[t].batch) \in Nat /\ Len(entries) \in Nat
    BY DEF SwapInv, HistoryInv, TypeOK, ThreadState
  <2> QED
    BY <2>1, <2>2, <2>3
<1>6. CASE UNCHANGED <<entries, adds, resets>>
  BY <1>6 DEF SwapInv, Distinct
<1> QED
  BY <1>1, <1>3, <1>4, <1>5, <1>6 DEF Next, vars, CheckAndSummarize, ThreadNext, Summarized,
     NoSummary, Slice, Finish

LEMMA RestStep == SwapInv /\ [Next]_vars => RestStillThere'
<1> SUFFICES ASSUME SwapInv, [Next]_vars, resets' = 0,
                    NEW t \in Threads, thread'[t].at = "locked"
             PROVE  /\ Len(Batch(t)') + Len(Rest(t)') <= Len(entries')
                    /\ \A i \in 1 .. Len(Rest(t)') : Rest(t)'[i] = entries'[Len(Batch(t)') + i]
  BY DEF RestStillThere, Batch, Rest
<1>1. resets = 0 /\ ~Reset
  BY NoResetSoFar
<1>2. /\ entries \in Seq(Entry) /\ adds \in Nat /\ thread \in [Threads -> ThreadState]
      /\ Batch(t) \in Seq(Entry) /\ Rest(t) \in Seq(Entry)
  BY HistoryAssumption DEF SwapInv, HistoryInv, TypeOK, ThreadState, Batch, Rest
<1>3. Len(entries) \in Nat /\ Len(Batch(t)) \in Nat /\ Len(Rest(t)) \in Nat
  BY <1>2
\* The thread stays as it is, and what there is of the history stays in front.
<1>4. ASSUME thread'[t] = thread[t],
             Len(entries') \in Nat, Len(entries) <= Len(entries'),
             \A i \in 1 .. Len(entries) : entries'[i] = entries[i]
      PROVE  /\ Len(Batch(t)') + Len(Rest(t)') <= Len(entries')
             /\ \A i \in 1 .. Len(Rest(t)') : Rest(t)'[i] = entries'[Len(Batch(t)') + i]
  <2>1. Batch(t)' = Batch(t) /\ Rest(t)' = Rest(t)
    BY <1>4 DEF Batch, Rest
  <2>2. /\ Len(Batch(t)) + Len(Rest(t)) <= Len(entries)
        /\ \A i \in 1 .. Len(Rest(t)) : Rest(t)[i] = entries[Len(Batch(t)) + i]
    BY <1>1, <1>4 DEF SwapInv, RestStillThere, Batch, Rest
  <2>3. \A i \in 1 .. Len(Rest(t)) : Len(Batch(t)) + i \in 1 .. Len(entries)
    BY <1>3, <2>2
  <2>4. Len(Batch(t)) + Len(Rest(t)) <= Len(entries')
    BY <1>3, <1>4, <2>2
  <2> QED
    BY <1>4, <2>1, <2>2, <2>3, <2>4
<1>5. CASE Slice(t)
  <2>1. /\ thread' = [thread EXCEPT ![t].at = "locked", ![t].rest = Kept(t)]
        /\ entries' = entries /\ Len(Batch(t)) <= Len(entries)
    BY <1>5 DEF Slice, Batch
  <2>2. Batch(t)' = Batch(t) /\ Rest(t)' = Kept(t)
    BY <1>2, <2>1 DEF ThreadState, Batch, Rest
  <2>3. Kept(t) = SubSeq(entries, Len(Batch(t)) + 1, Len(entries))
    BY DEF Kept, Batch
  <2>4. /\ Len(Batch(t)) + Len(Kept(t)) = Len(entries)
        /\ \A i \in 1 .. Len(Kept(t)) : Kept(t)[i] = entries[Len(Batch(t)) + i]
    BY <1>2, <1>3, <2>1, <2>3
  <2> QED
    BY <1>3, <2>1, <2>2, <2>4
<1>6. CASE Add
  <2>1. entries' = Append(entries, {adds + 1}) /\ thread'[t] = thread[t]
    BY <1>6 DEF Add
  <2>2. /\ Len(entries') \in Nat /\ Len(entries) <= Len(entries')
        /\ \A i \in 1 .. Len(entries) : entries'[i] = entries[i]
    BY <1>2, <2>1
  <2> QED
    BY <1>4, <2>1, <2>2
<1>7. CASE thread'[t] = thread[t] /\ entries' = entries
  BY <1>3, <1>4, <1>7
<1>8. ASSUME NEW s \in Threads,
             CheckAndSummarize(s) \/ Summarized(s) \/ NoSummary(s) \/ Finish(s) \/ (Slice(s) /\ s # t)
      PROVE  thread'[t] = thread[t] /\ entries' = entries
  BY <1>2, <1>8 DEF CheckAndSummarize, Summarized, NoSummary, Finish, Slice, Steps, NoThread, ThreadState
\* Nobody else swaps while this thread is in its critical section.
<1>9. ASSUME NEW s \in Threads, Swap(s) \/ Prepend(s) PROVE FALSE
  <2>1. thread[s].at # "none" /\ thread'[s].at = "leaving"
    BY <1>2, <1>9 DEF Swap, Prepend, Steps, ThreadState
  <2>2. s # t /\ thread'[t] = thread[t]
    BY <1>2, <1>9, <2>1 DEF Swap, Prepend, Steps
  <2>3. s \in Alive /\ t \in Alive
    BY <2>1, <2>2 DEF Alive
  <2> QED
    BY <1>1, <2>2, <2>3 DEF SwapInv, HistoryInv, OneAtATime
<1> QED
  BY <1>1, <1>3, <1>4, <1>5, <1>6, <1>7, <1>8, <1>9 DEF Next, ThreadNext, vars

\* Until a reset the only additions that a swap loses are those made between the
\* slice and the swap of the critical section, which the event loop does not heed.
THEOREM OnlyLateAddsLost == Spec => SwapLosesOnlyLateAdds
<1> DEFINE Loses(t) ==
      LET batch == thread[t].batch
          rest  == thread[t].rest
          late  == SubSeq(entries, Len(batch) + Len(rest) + 1, Len(entries))
      IN  Covered(entries) \ Covered(entries') = Covered(late)
<1>1. Init => SwapInv
  <2> SUFFICES ASSUME Init PROVE SwapInv
    OBVIOUS
  <2>1. Distinct
    BY DEF Init, Distinct
  <2>2. RestStillThere
    BY DEF Init, RestStillThere, NoThread
  <2> QED
    BY <2>1, <2>2, HistoryInit DEF SwapInv
<1>2. SwapInv /\ [Next]_vars => SwapInv'
  BY HistoryStep, DistinctStep, RestStep DEF SwapInv
<1>3. ASSUME SwapInv, [Next]_vars, resets' = 0, NEW t \in Threads, Swap(t) PROVE Loses(t)
  <2> DEFINE batch == Batch(t)
             rest  == Rest(t)
             from  == Len(batch) + Len(rest) + 1
             late  == SubSeq(entries, from, Len(entries))
  <2>1. resets = 0
    BY <1>3 DEF Swap
  <2>2. /\ entries \in Seq(Entry) /\ Len(entries) \in Nat /\ Len(batch) \in Nat /\ Len(rest) \in Nat
        /\ DOMAIN batch = 1 .. Len(batch) /\ DOMAIN entries = 1 .. Len(entries)
        /\ Len(batch) + Len(rest) <= Len(entries)
        /\ \A i \in 1 .. Len(batch) : batch[i] = entries[i]
        /\ DOMAIN entries' = 1 .. Len(rest) + 1 /\ entries'[1] = Covered(batch)
        /\ \A i \in 2 .. Len(rest) + 1 : entries'[i] = entries[Len(batch) + i - 1]
    BY <1>3, <2>1, SwapFacts
  <2>3. \A i, k \in 1 .. Len(entries) : i # k => entries[i] \cap entries[k] = {}
    BY <1>3, <2>1, <2>2 DEF SwapInv, Distinct
  <2> HIDE DEF batch, rest
  <2>4. /\ DOMAIN late = 1 .. Len(entries) - from + 1
        /\ \A i \in DOMAIN late : from + i - 1 \in from .. Len(entries) /\ late[i] = entries[from + i - 1]
    BY <2>2
  <2>5. ASSUME NEW a
        PROVE  a \in Covered(late) <=> \E k \in from .. Len(entries) : a \in entries[k]
    <3>1. \A k \in from .. Len(entries) : k - from + 1 \in DOMAIN late /\ late[k - from + 1] = entries[k]
      BY <2>2, <2>4
    <3> QED
      BY <2>4, <3>1 DEF Covered
  <2>6. ASSUME NEW a
        PROVE  a \in Covered(entries') <=> \E k \in 1 .. Len(batch) + Len(rest) : a \in entries[k]
    <3>1. ASSUME NEW k \in 1 .. Len(batch), a \in entries[k] PROVE a \in Covered(entries')
      <4>1. a \in entries'[1] /\ 1 \in DOMAIN entries'
        BY <2>2, <3>1 DEF Covered
      <4> QED
        BY <4>1 DEF Covered
    <3>2. ASSUME NEW k \in Len(batch) + 1 .. Len(batch) + Len(rest), a \in entries[k] PROVE a \in Covered(entries')
      <4>1. k - Len(batch) + 1 \in 2 .. Len(rest) + 1 /\ Len(batch) + (k - Len(batch) + 1) - 1 = k
        BY <2>2
      <4>2. entries'[k - Len(batch) + 1] = entries[k] /\ k - Len(batch) + 1 \in DOMAIN entries'
        BY <2>2, <4>1
      <4> QED
        BY <3>2, <4>2 DEF Covered
    <3>3. ASSUME NEW i \in DOMAIN entries', a \in entries'[i]
          PROVE  \E k \in 1 .. Len(batch) + Len(rest) : a \in entries[k]
      <4>1. CASE i = 1
        <5>1. PICK k \in 1 .. Len(batch) : a \in entries[k]
          BY <2>2, <3>3, <4>1 DEF Covered
        <5>2. k \in 1 .. Len(batch) + Len(rest)
          BY <2>2
        <5> QED
          BY <5>1, <5>2
      <4>2. CASE i # 1
        <5>1. i \in 2 .. Len(rest) + 1 /\ Len(batch) + i - 1 \in 1 .. Len(batch) + Len(rest)
          BY <2>2, <4>2
        <5> QED
          BY <2>2, <3>3, <5>1
      <4> QED
        BY <4>1, <4>2
    <3>4. \A k \in 1 .. Len(batch) + Len(rest) :
            k \in 1 .. Len(batch) \/ k \in Len(batch) + 1 .. Len(batch) + Len(rest)
      BY <2>2
    <3> QED
      BY <3>1, <3>2, <3>3, <3>4 DEF Covered
  <2>7. ASSUME NEW a
        PROVE  a \in Covered(entries) \ Covered(entries') <=> a \in Covered(late)
    <3>1. \A k \in 1 .. Len(entries) : k \in 1 .. Len(batch) + Len(rest) \/ k \in from .. Len(entries)
      BY <2>2
    <3>2. \A k \in from .. Len(entries) : k \in 1 .. Len(entries)
      BY <2>2
    <3>3. \A k \in from .. Len(entries), i \in 1 .. Len(batch) + Len(rest) :
            i \in 1 .. Len(entries) /\ i # k
      BY <2>2
    <3>4. a \in Covered(entries) <=> \E k \in 1 .. Len(entries) : a \in entries[k]
      BY <2>2 DEF Covered
    <3>5. \A k \in from .. Len(entries), i \in 1 .. Len(batch) + Len(rest) :
            ~(a \in entries[k] /\ a \in entries[i])
      BY <2>3, <3>2, <3>3
    <3> HIDE DEF from, late
    <3> QED
      BY <2>5, <2>6, <3>1, <3>2, <3>4, <3>5
  <2> QED
    BY <2>7 DEF batch, rest, Batch, Rest
<1>4. SwapInv /\ [Next]_vars => [resets' = 0 => \A t \in Threads : Swap(t) => Loses(t)]_vars
  BY <1>3
<1> QED
  BY <1>1, <1>2, <1>4, PTL DEF Spec, SwapLosesOnlyLateAdds
============================================================================
