------------------------------ MODULE CartRota ------------------------------
(***************************************************************************)
(* What the plan of the public-witnessing stand promises, whatever the     *)
(* handlers of CartWeeks do to keep it: people are put on and moved one    *)
(* place at a time, never where a half-hour is full and never where the    *)
(* person already stands, and may be taken off at any time.                *)
(***************************************************************************)
EXTENDS Naturals, FiniteSets

CONSTANTS
    People,       \* approved publishers, each with an account
    Guest,        \* the holder of a place that has only an external name
    Days,         \* rows of cart_days: a place on a date
    DateOf,       \* the date of each day
    Slots,        \* half-hours in a date
    CapacityMax,  \* CAPACITY_MAX
    MaxPlaces,    \* ids of cart_assignments the instance may give out
    NoPlace       \* no row with this id

Holders == People \cup {Guest}
Ids == 1..MaxPlaces
Place == [day: Days, who: Holders, from: 0..Slots, to: 0..Slots]

ASSUME RotaConstants ==
    /\ Guest \notin People
    /\ Slots \in Nat
    /\ CapacityMax \in Nat
    /\ MaxPlaces \in Nat
    /\ DateOf \in [Days -> Nat]
    /\ NoPlace \notin Place

VARIABLE plan     \* cart_assignments by id

overlaps(a, b) == a.from < b.to /\ b.from < a.to
covers(x, t) == x.from <= t /\ t < x.to

OnDay(d) == {i \in Ids : plan[i] # NoPlace /\ plan[i].day = d}
StandingAt(d, t) == {i \in OnDay(d) : covers(plan[i], t)}

\* One more at some half-hour of s would be one too many.
overfull(d, s, except) ==
    \E t \in 0..Slots : covers(s, t) /\ Cardinality(StandingAt(d, t) \ {except}) >= CapacityMax

\* Is p already standing at that time, at any place of the same date?
clash(p, d, s, except) ==
    \E i \in Ids \ {except} :
        /\ plan[i] # NoPlace
        /\ plan[i].who = p
        /\ DateOf[plan[i].day] = DateOf[d]
        /\ overlaps(plan[i], s)

----------------------------------------------------------------------------
RotaInit == plan = [i \in Ids |-> NoPlace]

\* A person put on, or moved.
PutOn(i, x) ==
    /\ plan' = [plan EXCEPT ![i] = x]
    /\ ~overfull(x.day, x, i)
    /\ x.who \in People => ~clash(x.who, x.day, x, i)

TakeOff(S) == plan' = [i \in Ids |-> IF i \in S THEN NoPlace ELSE plan[i]]

RotaNext ==
    \/ \E i \in Ids, x \in Place : PutOn(i, x)
    \/ \E S \in SUBSET Ids : TakeOff(S)

RotaSpec == RotaInit /\ [][RotaNext]_plan

----------------------------------------------------------------------------
\* Never more than CAPACITY_MAX people on the plan of a place at any half-hour,
\* however many requests to put someone on arrive at the same moment.
NeverOverfull ==
    \A d \in Days, t \in 0..Slots : Cardinality(StandingAt(d, t)) <= CapacityMax

\* Nobody is on the plan at two places that share a half-hour of a date, even
\* when the two days are locked by two requests at once (assertFree).
NobodyInTwoPlaces ==
    \A i, k \in Ids :
        (/\ i # k
         /\ plan[i] # NoPlace /\ plan[k] # NoPlace
         /\ plan[i].who \in People /\ plan[i].who = plan[k].who
         /\ DateOf[plan[i].day] = DateOf[plan[k].day])
            => ~overlaps(plan[i], plan[k])
=============================================================================
