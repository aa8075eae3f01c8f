---------------------------- MODULE MCDashboard ----------------------------
(***************************************************************************)
(* Dashboard with two workers, so that one is at work while another comes   *)
(* and goes, and one browser that may load, lose its connection and connect *)
(* again at any time.                                                       *)
(***************************************************************************)
EXTENDS Dashboard, TLC

CONSTANTS w1, w2, c1

MCWorkers == {w1, w2}
MCClients == {c1}
Symmetry  == Permutations(MCWorkers)

=============================================================================
