----------------------------- MODULE LiveSignal -----------------------------
(***************************************************************************)
(* What live series promise to the charts that draw them: each is a map    *)
(* from times to values, into which samples are written in any order of    *)
(* their times, and which forgets only from its old end.                   *)
(***************************************************************************)
EXTENDS Integers

CONSTANTS
  Series,
  SampleValue    \* the values of samples

VARIABLE samples   \* of each series: its value at the times it has one for

Nothing == [t \in {} |-> 0]

Init == samples = [s \in Series |-> Nothing]

\* A sample is added, or the one with the same time gets another value.
Record(s, t) ==
  \E v \in {samples'[s][t]} \cap SampleValue :
    samples' = [samples EXCEPT ![s] =
                  [u \in DOMAIN @ \cup {t} |-> IF u = t THEN v ELSE @[u]]]

\* the times that are left of some when the old ones are forgotten: all from
\* one of them on
Recent(times) ==
  {{u \in times : u >= t} : t \in times} \cup {times}

\* Old samples of some series are forgotten, the newest one of each is not.
Forget ==
  /\ \A s \in Series : DOMAIN samples'[s] \in Recent(DOMAIN samples[s])
  /\ samples' = [s \in Series |->
                   [t \in DOMAIN samples'[s] |-> samples[s][t]]]

Clear(s) == samples' = [samples EXCEPT ![s] = Nothing]

Next ==
  \/ \E s \in Series :
       \/ \E t \in DOMAIN samples'[s] : Record(s, t)
       \/ Clear(s)
  \/ Forget

Spec == Init /\ [][Next]_samples

=============================================================================
