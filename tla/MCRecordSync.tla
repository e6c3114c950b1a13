---------------------------- MODULE MCRecordSync ----------------------------
(***************************************************************************)
(* RecordSync on a small instance; the devices are interchangeable.        *)
(***************************************************************************)
EXTENDS RecordSync, TLC

Devices == Permutations(Device)

=============================================================================
