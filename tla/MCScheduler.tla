---------------------------- MODULE MCScheduler ----------------------------
(***************************************************************************)
(* Scheduler on three merge requests for two slots.  ka has two pipelines   *)
(* and a decided scene, so that coalescing, redelivery and per-key          *)
(* serialisation happen; kb has one pipeline and one whose stages are all   *)
(* excluded, kc a decided scene.  Every pipeline may be delivered any       *)
(* number of times.                                                         *)
(***************************************************************************)
EXTENDS Scheduler, TLC

CONSTANTS pa1, pa2, pb, px, ra1, ra2, ka, kb, kc

MCPipelines == {pa1, pa2, pb, px}
MCResumes   == {ra1, ra2}
MCKeys      == {ka, kb, kc}
MCKeyOf     == (pa1 :> ka) @@ (pa2 :> ka) @@ (ra1 :> ka) @@ (ra2 :> kc)
                @@ (pb :> kb) @@ (px :> kb)
MCMrEvents  == {pa1, px}
MCExcluded  == {px}

=============================================================================
