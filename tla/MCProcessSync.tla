---------------------------- MODULE MCProcessSync ----------------------------
(***************************************************************************)
(* ProcessSync on small instances.  The devices are interchangeable: no    *)
(* definition names one, so their permutations are a symmetry.             *)
(***************************************************************************)
EXTENDS ProcessSync, TLC

Devices == Permutations(Device)

=============================================================================
