---------------------------- MODULE MCDecisions ----------------------------
(***************************************************************************)
(* Two merge requests from one source branch, so that they share a repair   *)
(* branch and not a key: p1 and p2 of the first, p3 of the second.  px has   *)
(* no mrIid and only excluded stages: its arrival voids every decision of    *)
(* the project.                                                             *)
(***************************************************************************)
EXTENDS Decisions, TLC

CONSTANTS p1, p2, p3, px, s1, s2, s3, m1, m2, b, k1, k2

MCPipelines == {p1, p2, p3, px}
MCScenes    == {s1, s2, s3}
MCJobs      == MCPipelines \cup MCScenes
MCPipeOf    == (s1 :> p1) @@ (s2 :> p2) @@ (s3 :> p3)
MCMrOf      == (p1 :> m1) @@ (p2 :> m1) @@ (p3 :> m2) @@ (px :> NoMr)
MCKeyOf     == [j \in MCJobs |-> IF j \in {p3, s3} THEN k2 ELSE k1]
MCBranchOf  == [p \in MCPipelines |-> b]

=============================================================================
