--------------------------- MODULE MCAgentSession ---------------------------
(***************************************************************************)
(* Two continuations; turns that report few tokens, many, or none.  One    *)
(* turn of 3 tokens exceeds the limit of a turn, two of 2 that of a prompt. *)
(***************************************************************************)
EXTENDS AgentSession

MCUsages == {2, 3}
=============================================================================
