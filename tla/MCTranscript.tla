---------------------------- MODULE MCTranscript ----------------------------
(* Transcript, set up for TLC: a few words, some in two cases. *)
EXTENDS Transcript

MCPlain == [m \in {"hi", "HI", "yo"} |-> IF m = "HI" THEN "hi" ELSE m]

Output(observation, thoughts, tell) ==
  [type |-> "vision_agent_output", observation |-> observation, thoughts |-> thoughts,
   anticipation |-> None, to_tell_user |-> tell]

Said(type, message) == [type |-> type, message |-> message]

MCContents ==
  {Output("hi", None, None), Output("HI", "yo", "hi"), Output("yo", "hi", None),
   Said("audio_in", "hi"), Said("primitive_feedback", "hi"), Said("primitive_feedback", "yo"),
   Said("generic_image", "hi"), Said("image_pre_action", "hi")}
=============================================================================
