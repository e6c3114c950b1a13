----------------------------- MODULE MCRunStream -----------------------------
(***************************************************************************)
(* RunStream on a small instance: the readings of param1 take turns.       *)
(***************************************************************************)
EXTENDS RunStream

MCFile == [r \in Params |-> IF r = "param1" THEN <<11, 12>> ELSE <<5>>]

MCReadings == [r \in Params |-> IF r = "param1" THEN 2 ELSE 1]

=============================================================================
