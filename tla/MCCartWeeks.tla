---------------------------- MODULE MCCartWeeks ----------------------------
(* Small weeks for TLC: stands on one date, three half-hours long. *)
EXTENDS CartWeeks, TLC

CONSTANTS p1, p2, guest, d1, d2, q1, q2, q3

OnePerson == {p1}
TwoPeople == {p1, p2}
TwoDays == {d1, d2}
TwoRequests == {q1, q2}
ThreeRequests == {q1, q2, q3}
SameDate == [d \in Days |-> 0]
EachItsPlace == [d \in Days |-> d]
EarlyAndLate == {[from |-> 0, to |-> 2], [from |-> 1, to |-> 3]}
Symmetric == Permutations(People) \cup Permutations(Requests)

\* The clock: before the date, or a half-hour into it; past the last correction.
Locking == {0, 3}
UnderWay == {1, 3}
=============================================================================
