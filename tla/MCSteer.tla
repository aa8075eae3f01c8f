------------------------------ MODULE MCSteer ------------------------------
(***************************************************************************)
(* Steer with two pipelines and three deliveries of them, in any order and  *)
(* more than once, besides the runs of resumes: up to three supersede one   *)
(* run, and what one run leaves behind meets the next.                      *)
(***************************************************************************)
EXTENDS Steer, TLC

CONSTANTS e1, e2

MCEvents == {e1, e2}

=============================================================================
