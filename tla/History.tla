------------------------------ MODULE History ------------------------------
(***************************************************************************)
(* The history of a connection (src/history/history.py) and the threads    *)
(* that summarize it.                                                      *)
(*                                                                         *)
(* The event loop adds entries, resets, and starts a summarizer thread     *)
(* when the history is long; the thread asks a model for a summary of the  *)
(* oldest entries and puts it in their place.  Threads exclude each other  *)
(* with self.lock; the event loop never takes it.                          *)
(*                                                                         *)
(* An entry is the set of the additions it stands for: one for an entry as *)
(* added, all those of its batch for a summary.  non_summarized_entries,   *)
(* which nothing reads, is left out.                                       *)
(***************************************************************************)
EXTENDS Naturals, Sequences, FiniteSets

CONSTANTS
  NUM_HISTORY_TO_SUMMARIZE,  \* how many entries a summary leaves alone
  Threads,                   \* bound: summarizer threads alive at a time
  MaxAdds,                   \* bound: entries added in a session
  MaxResets                  \* bound: resets in a session

ASSUME HistoryAssumption ==
  /\ NUM_HISTORY_TO_SUMMARIZE \in Nat \ {0}
  /\ IsFiniteSet(Threads)
  /\ MaxAdds \in Nat
  /\ MaxResets \in Nat

VARIABLES
  entries,
  is_summarizing,
  thread,          \* each summarizer: where it is, its batch, what it keeps
  adds,            \* how many entries were ever added
  resets           \* how many resets there have been

vars == <<entries, is_summarizing, thread, adds, resets>>

Entry == SUBSET (1 .. MaxAdds)

\* "locked" and "swapped" are inside the critical section; a thread that is
\* "leaving" is about to run its finally clause.
ThreadState ==
  [at : {"none", "calling", "answered", "locked", "leaving"},
   batch : Seq(Entry), rest : Seq(Entry)]

NoThread == [at |-> "none", batch |-> << >>, rest |-> << >>]

TypeOK ==
  /\ entries \in Seq(Entry)
  /\ is_summarizing \in BOOLEAN
  /\ thread \in [Threads -> ThreadState]
  /\ adds \in 0 .. MaxAdds
  /\ resets \in 0 .. MaxResets

Init ==
  /\ entries = << >>
  /\ is_summarizing = FALSE
  /\ thread = [t \in Threads |-> NoThread]
  /\ adds = 0
  /\ resets = 0

Covered(s) == UNION {s[i] : i \in DOMAIN s}

Alive == {t \in Threads : thread[t].at # "none"}

LockFree == \A t \in Threads : thread[t].at # "locked"

Steps(t, from, to) ==
  /\ thread[t].at = from
  /\ thread' = [thread EXCEPT ![t].at = to]

----------------------------------------------------------------------------
(* The event loop *)

Add ==
  /\ adds < MaxAdds
  /\ adds' = adds + 1
  /\ entries' = Append(entries, {adds + 1})
  /\ UNCHANGED <<is_summarizing, thread, resets>>

\* The flag goes down even while a summarizer is at work.
Reset ==
  /\ resets < MaxResets
  /\ resets' = resets + 1
  /\ entries' = << >>
  /\ is_summarizing' = FALSE
  /\ UNCHANGED <<thread, adds>>

\* Mutation: the flag does not keep a second summarizer from starting.
NeedsSummaryAlways == Len(entries) > 2 * NUM_HISTORY_TO_SUMMARIZE

NeedsSummary ==
  /\ Len(entries) > 2 * NUM_HISTORY_TO_SUMMARIZE
  /\ ~is_summarizing

\* check_and_summarize: all but the last NUM_HISTORY_TO_SUMMARIZE entries are
\* copied for a new thread.
CheckAndSummarize(t) ==
  /\ NeedsSummary
  /\ thread[t].at = "none"
  /\ is_summarizing' = TRUE
  /\ thread' = [thread EXCEPT ![t] =
       [at |-> "calling",
        batch |-> SubSeq(entries, 1, Len(entries) - NUM_HISTORY_TO_SUMMARIZE),
        rest |-> << >>]]
  /\ UNCHANGED <<entries, adds, resets>>

----------------------------------------------------------------------------
(* A summarizer thread *)

\* The model has answered...
Summarized(t) ==
  /\ Steps(t, "calling", "answered")
  /\ UNCHANGED <<entries, is_summarizing, adds, resets>>

\* Mutation: an early return that skips the finally clause.
NoSummaryReturns(t) ==
  /\ Steps(t, "calling", "none")
  /\ UNCHANGED <<entries, is_summarizing, adds, resets>>

\* ...or there is no summary: no client, an error, an empty answer.
NoSummary(t) ==
  /\ Steps(t, "calling", "leaving")
  /\ UNCHANGED <<entries, is_summarizing, adds, resets>>

\* Mutation: one entry too many is replaced.
KeptOneLess(t) == SubSeq(entries, Len(thread[t].batch) + 2, Len(entries))

\* The entries after the batch, as the critical section reads them.
Kept(t) == SubSeq(entries, Len(thread[t].batch) + 1, Len(entries))

Slice(t) ==
  /\ thread[t].at = "answered"
  /\ LockFree
  /\ Len(thread[t].batch) <= Len(entries)
  /\ thread' = [thread EXCEPT ![t].at = "locked", ![t].rest = Kept(t)]
  /\ UNCHANGED <<entries, is_summarizing, adds, resets>>

Swap(t) ==
  /\ Steps(t, "locked", "leaving")
  /\ entries' = <<Covered(thread[t].batch)>> \o thread[t].rest
  /\ UNCHANGED <<is_summarizing, adds, resets>>

\* "History shrunk unexpectedly": the summary goes in front of what there is.
Prepend(t) ==
  /\ Steps(t, "answered", "leaving")
  /\ LockFree
  /\ Len(thread[t].batch) > Len(entries)
  /\ entries' = <<Covered(thread[t].batch)>> \o entries
  /\ UNCHANGED <<is_summarizing, adds, resets>>

\* The finally clause, whoever raised the flag last.
Finish(t) ==
  /\ thread[t].at = "leaving"
  /\ LockFree
  /\ is_summarizing' = FALSE
  /\ thread' = [thread EXCEPT ![t] = NoThread]
  /\ UNCHANGED <<entries, adds, resets>>

----------------------------------------------------------------------------

ThreadNext(t) ==
  \/ Summarized(t) \/ NoSummary(t)
  \/ Slice(t) \/ Swap(t) \/ Prepend(t)
  \/ Finish(t)

Next ==
  \/ Add \/ Reset
  \/ \E t \in Threads : CheckAndSummarize(t) \/ ThreadNext(t)

Spec == Init /\ [][Next]_vars

\* The interpreter runs every thread, and the model call returns or fails.
FairSpec == Spec /\ \A t \in Threads : WF_vars(ThreadNext(t))

----------------------------------------------------------------------------
(* Properties *)

\* The comment in check_and_summarize says the flag prevents multiple threads:
\* it allows one, and every reset while it is up allows one more.
SummarizersBounded ==
  Cardinality(Alive) <= resets + (IF is_summarizing THEN 1 ELSE 0)

\* Until a reset, the entries a summarizer is to replace are still the first
\* ones of the history when it replaces them.
BatchStillThere ==
  resets = 0 => \A t \in Threads :
    thread[t].at \in {"calling", "answered", "locked"} =>
      /\ Len(thread[t].batch) <= Len(entries)
      /\ thread[t].batch = SubSeq(entries, 1, Len(thread[t].batch))

\* Until a reset, replacing a batch loses nothing but what was added while the
\* critical section was already past the slice.
SwapLosesOnlyLateAdds ==
  [][resets' = 0 => \A t \in Threads : Swap(t) =>
       LET batch == thread[t].batch
           rest  == thread[t].rest
           late  == SubSeq(entries, Len(batch) + Len(rest) + 1, Len(entries))
       IN  Covered(entries) \ Covered(entries') = Covered(late)]_vars

\* Summarizing always comes to an end, so a long history is summarized again.
SummarizingEnds == []<>(~is_summarizing)

\* After a reset nothing from before it comes back (reset: "Reset the history to
\* an empty state").
ResetForgets ==
  [][\A t \in Threads : Swap(t) \/ Prepend(t) =>
       Covered(entries') \subseteq Covered(entries)]_vars
============================================================================
