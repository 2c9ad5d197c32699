------------------------------- MODULE MCSplit -------------------------------
(* Instances of Split for TLC. *)
EXTENDS Split

\* Messages of alternately two slices and one.
MixedSlices == [m \in 1..NumMsgs |-> IF m % 2 = 1 THEN 2 ELSE 1]

\* Messages of two slices each.
TwoSlices == [m \in 1..NumMsgs |-> 2]
=============================================================================
