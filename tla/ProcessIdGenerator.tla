------------------------- MODULE ProcessIdGenerator -------------------------
(***************************************************************************)
(* The ids the platform gives to processes (ProcessIdGenerator.java).      *)
(*                                                                         *)
(* An id is the string "PR-" followed by a number written with             *)
(* String.format("%03d"): three digits below 1000, four digits from there. *)
(* The generator asks MySQL for max(process_id), which compares STRINGS,   *)
(* and adds one to the number in the string it gets.  Here an id is its    *)
(* number; what the string comparison does to the order of the numbers is  *)
(* modelled by StringLess.                                                 *)
(***************************************************************************)
EXTENDS Naturals

CONSTANT FirstWide   \* the first number that has one digit more: 1000

ASSUME FirstWideAssumption == FirstWide \in Nat \ {0}

(***************************************************************************)
(* Comparing two ids character by character compares their numbers padded  *)
(* on the right to one width; of two ids with equal padding one is a       *)
(* prefix of the other, and the shorter one comes first.  This is exact    *)
(* for numbers of at most one digit more than the format's three, and the  *)
(* generator never gets beyond those (GenerateSticks).                     *)
(***************************************************************************)
SortKey(n) == IF n < FirstWide THEN 10 * n ELSE n

StringLess(m, n) ==
  \/ SortKey(m) < SortKey(n)
  \/ SortKey(m) = SortKey(n) /\ m < n

\* select max(process_id) from process_master
MaxProcessId(ids) == CHOOSE m \in ids : \A n \in ids \ {m} : StringLess(n, m)

generate(ids) == IF ids = {} THEN 1 ELSE MaxProcessId(ids) + 1

=============================================================================
