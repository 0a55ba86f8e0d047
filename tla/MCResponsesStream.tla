------------------------- MODULE MCResponsesStream -------------------------
(* Two items of any kinds, three pieces of text and thought, a channel of two. *)
EXTENDS ResponsesStream
=============================================================================
