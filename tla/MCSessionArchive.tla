-------------------------- MODULE MCSessionArchive --------------------------
(***************************************************************************)
(* Two merge requests that share an archive for one session, so that every *)
(* save of one evicts the other's.  The one gets a second commit, so that  *)
(* a repair can be followed by a newer commit; the other is there for its  *)
(* saves and evictions.                                                    *)
(***************************************************************************)
EXTENDS SessionArchive

CONSTANTS a, b

MCMRs == {a, b}
MCCommits == [m \in MCMRs |-> IF m = a THEN 2 ELSE 1]

\* The other's repairs are escalated without a scene.
OnlySaves == branch[b] = {} /\ scene[b] = NoScene
=============================================================================
