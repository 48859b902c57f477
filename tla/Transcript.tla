----------------------------- MODULE Transcript -----------------------------
(***************************************************************************)
(* What the agents are shown of the history (src/history/history.py): the  *)
(* text for the fast agent, and for the vision agent the same text with    *)
(* the latest images in their places.  The vision output that is recorded  *)
(* keeps its task under next_task; the lines for it are made from          *)
(* next_primitive, which it never has, so no line says what was decided.   *)
(*                                                                         *)
(* How summarizer threads change the entries is module History; here they  *)
(* are replaced in one step.                                               *)
(***************************************************************************)
EXTENDS Naturals, Sequences, FiniteSets, SequencesExt

CONSTANTS
  Contents,                      \* the entries that the brain may add
  Summaries,                     \* what a summarizer may answer
  Plain,                         \* Plain[m]: m.strip().lower(), for each text m
  MULTIMODAL_HISTORY_COUNT,      \* 500
  max_recent_generic_images,     \* 3
  max_recent_pre_action_images,  \* 3
  NUM_HISTORY_TO_SUMMARIZE,      \* 150
  MaxEntries,                    \* bound: how long the history gets
  None                           \* an absent or empty part of an output

ASSUME TranscriptAssumption ==
  /\ MULTIMODAL_HISTORY_COUNT \in Nat \ {0}
  /\ max_recent_generic_images \in Nat \ {0}
  /\ max_recent_pre_action_images \in Nat \ {0}
  /\ NUM_HISTORY_TO_SUMMARIZE \in Nat \ {0}
  /\ MaxEntries \in Nat

ImageTypes == {"generic_image", "image_pre_action"}

\* HistoryEntryType.
EntryTypes == ImageTypes \cup
  {"audio_in", "vision_agent_output", "history_summary", "system_message", "primitive_activated",
   "primitive_interrupted", "primitive_cancelled", "primitive_completed", "primitive_feedback"}

Placeholder == "[Image data]"
Seeing      == "This is what I was seeing."

\* No text is blank, or has the words of an image's placeholder: a line with
\* those would be taken for an image and skipped (history.py:501-507).
ASSUME TextsAssumption ==
  \A m \in DOMAIN Plain : Plain[m] # None /\ m # None /\ m # Placeholder

ASSUME ContentsAssumption ==
  /\ Summaries \subseteq DOMAIN Plain
  /\ None # Placeholder
  /\ \A entry \in Contents :
       /\ entry.type \in EntryTypes
       /\ IF entry.type = "vision_agent_output"
          THEN {entry.observation, entry.thoughts, entry.anticipation, entry.to_tell_user}
                 \subseteq DOMAIN Plain \cup {None}
          ELSE entry.type \notin ImageTypes => entry.message \in DOMAIN Plain

VARIABLES entries

vars == <<entries>>

\* The types of line that are shown only where they are new.
Deduplicated == {"observation", "thoughts", "anticipation", "primitive_feedback"}

CurrentTime == [type |-> "current_time", message |-> "Current time"]

\* The elements of s at the indices in I, in their order.
At(s, I) == FlattenSeq([i \in DOMAIN s |-> IF i \in I THEN <<s[i]>> ELSE <<>>])

-----------------------------------------------------------------------------
(* From entries to lines *)

\* The entries that are shown at all.
Shown(s) == SubSeq(s, (IF Len(s) > MULTIMODAL_HISTORY_COUNT THEN Len(s) - MULTIMODAL_HISTORY_COUNT ELSE 0) + 1,
                   Len(s))

Line(type, message, source) == [type |-> type, message |-> message, source |-> source]

\* The lines of the entry at index i: up to four for a vision output.
LinesOf(entry, i) ==
  IF entry.type = "vision_agent_output"
  THEN LET lines == <<Line("observation", entry.observation, i), Line("thoughts", entry.thoughts, i),
                     Line("anticipation", entry.anticipation, i), Line("audio_out", entry.to_tell_user, i)>>
       IN  At(lines, {k \in DOMAIN lines : lines[k].message # None})
  ELSE IF entry.type \in ImageTypes
  THEN <<Line("system_message", Placeholder, i)>>
  ELSE <<Line(entry.type, entry.message, i)>>

IntermediateEntries(window) == FlattenSeq([i \in DOMAIN window |-> LinesOf(window[i], i)])

\* A plausible bug: a line is new if it was never shown.
NeverShown(kept, last, line) ==
  \A i \in DOMAIN kept : kept[i].type = line.type => Plain[kept[i].message] # Plain[line.message]

\* A line is new if the last one shown of its type says something else.
IsNew(kept, last, line) == last[line.type] # Plain[line.message]

WithLine(acc, line) ==
  IF line.type \notin Deduplicated THEN [acc EXCEPT !.kept = Append(@, line)]
  ELSE IF IsNew(acc.kept, acc.last, line)
  THEN [kept |-> Append(acc.kept, line),
        last |-> [acc.last EXCEPT ![line.type] = Plain[line.message]]]
  ELSE acc

Deduplicate(lines) ==
  LET upTo[n \in 0..Len(lines)] ==
        IF n = 0 THEN [kept |-> <<>>, last |-> [t \in Deduplicated |-> None]]
        ELSE WithLine(upTo[n - 1], lines[n])
  IN  upTo[Len(lines)].kept

-----------------------------------------------------------------------------
(* The images among the lines *)

Indices(window, type) ==
  At([i \in DOMAIN window |-> i], {i \in DOMAIN window : window[i].type = type})

\* s[-n:].
LastOf(s, n) == IF n = 0 \/ n >= Len(s) THEN s ELSE SubSeq(s, Len(s) - n + 1, Len(s))

\* A plausible bug: the indices are those in the whole history.
SelectedOfAll(window) ==
  ToSet(LastOf(Indices(entries, "generic_image"), max_recent_generic_images))
    \cup ToSet(LastOf(Indices(entries, "image_pre_action"), max_recent_pre_action_images))

\* The sources of the images that are shown as images.
Selected(window) ==
  ToSet(LastOf(Indices(window, "generic_image"), max_recent_generic_images))
    \cup ToSet(LastOf(Indices(window, "image_pre_action"), max_recent_pre_action_images))

\* A selected image comes after a line of its own.
ItemsOf(line, selected) ==
  IF line.source \in selected
  THEN <<[image |-> FALSE, line |-> Line("system_message", Seeing, line.source)],
         [image |-> TRUE, line |-> line]>>
  ELSE <<[image |-> FALSE, line |-> line]>>

\* _prepare_unified_display_items.
UnifiedItems(window) ==
  LET lines == Deduplicate(IntermediateEntries(window))
  IN  FlattenSeq([i \in DOMAIN lines |-> ItemsOf(lines[i], Selected(window))])

\* get_as_string, but for its separator.
AsString == LET items == UnifiedItems(Shown(entries))
            IN  [i \in DOMAIN items |-> items[i].line] \o <<CurrentTime>>

-----------------------------------------------------------------------------
(* get_as_multimodal_list *)

Text(lines)   == [type |-> "text", lines |-> lines]
Image(source) == [type |-> "image", source |-> source]

\* The list so far and the block of text that is not in it yet.
Closed(acc) == IF acc.block = <<>> THEN acc.list ELSE Append(acc.list, Text(acc.block))

\* A plausible bug: the block is put in the list and goes on.
WithImageKeepingBlock(acc, item) == [acc EXCEPT !.list = Append(Closed(acc), Image(item.line.source))]

WithImage(acc, item) == [list |-> Append(Closed(acc), Image(item.line.source)), block |-> <<>>]

WithItem(acc, item) ==
  IF item.image THEN WithImage(acc, item)
  ELSE IF item.line.message = Placeholder THEN acc
  ELSE [acc EXCEPT !.block = Append(@, item.line)]

Merge(items) ==
  LET upTo[n \in 0..Len(items)] ==
        IF n = 0 THEN [list |-> <<>>, block |-> <<>>] ELSE WithItem(upTo[n - 1], items[n])
  IN  upTo[Len(items)]

Merged(items) == Closed(Merge(items))

\* The current time is the end of the last text, or a text after the last image.
WithTime(list) ==
  IF list # <<>> /\ Last(list).type = "text"
  THEN [list EXCEPT ![Len(list)].lines = Append(@, CurrentTime)]
  ELSE Append(list, Text(<<CurrentTime>>))

AsMultimodalList ==
  IF entries = <<>> THEN <<>> ELSE WithTime(Merged(UnifiedItems(Shown(entries))))

-----------------------------------------------------------------------------
Init == entries = <<>>

Add == /\ Len(entries) < MaxEntries
       /\ \E entry \in Contents : entries' = Append(entries, entry)

Summarize == /\ Len(entries) > 2 * NUM_HISTORY_TO_SUMMARIZE
             /\ \E summary \in Summaries :
                  entries' = <<[type |-> "history_summary", message |-> summary]>>
                             \o LastOf(entries, NUM_HISTORY_TO_SUMMARIZE)

Reset == entries' = <<>>

Next == Add \/ Summarize \/ Reset

Spec == Init /\ [][Next]_vars

-----------------------------------------------------------------------------
(* Properties *)

Texts(list) == FlattenSeq([i \in DOMAIN list |-> IF list[i].type = "text" THEN list[i].lines ELSE <<>>])

OfType(lines, type) == At(lines, {i \in DOMAIN lines : lines[i].type = type})

Written(lines) == At(lines, {i \in DOMAIN lines : lines[i].message # Placeholder})

\* Leaving out repeated lines never leaves out news: of each kind of line the
\* last one that the vision agent is shown says what the newest one recorded
\* says, also when it says again what was said before another one
\* (history.py:207-247).
NewestShown ==
  \A t \in Deduplicated :
    LET recorded == OfType(IntermediateEntries(Shown(entries)), t)
        shown    == OfType(Texts(AsMultimodalList), t)
    IN  recorded # <<>> =>
          shown # <<>> /\ Plain[Last(shown).message] = Plain[Last(recorded).message]

\* The vision agent is shown exactly the latest images of each kind, in their
\* order, each right after the line that announces it, whatever is left out of
\* the text between them and wherever the window begins (history.py:332-396).
LatestImagesShown ==
  LET window == Shown(entries)
      list   == AsMultimodalList
      Recent(i) == LET later == {j \in (i + 1)..Len(window) : window[j].type = window[i].type}
                   IN  Cardinality(later) < IF window[i].type = "generic_image"
                                            THEN max_recent_generic_images
                                            ELSE max_recent_pre_action_images
      images == OfType(list, "image")
  IN  /\ [k \in DOMAIN images |-> images[k].source] =
           At([i \in DOMAIN window |-> i],
              {i \in DOMAIN window : window[i].type \in ImageTypes /\ Recent(i)})
      /\ \A k \in DOMAIN list : list[k].type = "image" =>
           /\ k > 1 /\ list[k - 1].type = "text"
           /\ Last(list[k - 1].lines).message = Seeing
           /\ Last(list[k - 1].lines).source = list[k].source

\* "Text content is formatted consistently with get_as_string" (history.py:466):
\* around its images the vision agent reads, once and in the same order, what
\* the fast agent reads, but for the placeholders, and nothing after the time.
SameText ==
  entries # <<>> =>
    Texts(AsMultimodalList) = Written(AsString)
=============================================================================
