-------------------------- MODULE MCFieldMeetings --------------------------
(* A month of two meetings: before it is prepared, prepared, announced. *)
EXTENDS FieldMeetings

CONSTANTS q1, q2, ann, boris, group
TwoRequests == {q1, q2}
TwoBrothers == {ann, boris}
TheGroup == {group}
TwoDays == {2, 3}
BothDays == {<<2, group>>, <<3, group>>}
\* A request of any kind beside one that changes, announces or prepares.
AnyBesideOverseers ==
    [r \in Requests |-> IF r = q1 THEN RequestKinds ELSE {"update", "publish", "prepare"}]

Made(d, who, pub) ==
    [is |-> "there", at |-> <<d, group>>, who |-> who, pub |-> pub, off |-> FALSE, made |-> <<d, group>>]
Rows(S) == [id \in Ids |-> IF id \in DOMAIN S THEN S[id] ELSE NoRow]

Untouched == [rows |-> Rows(<<>>), today |-> 0, prepared |-> TRUE, knows |-> {}, keys |-> {}, removed |-> {},
              used |-> 0]
\* One request or failure before and during the preparation, two after it.
NotYetPrepared == [Untouched EXCEPT !.prepared = FALSE, !.used = 1]
TwoDrafts == [Untouched EXCEPT !.rows = Rows(<<Made(2, ann, FALSE), Made(3, Nobody, FALSE)>>)]
\* The first had been put on the day after, was announced and moved; the second came later.
OneAnnounced ==
    [Untouched EXCEPT !.rows = Rows(<<[Made(2, ann, TRUE) EXCEPT !.made = ByHand],
                                   [Made(3, boris, FALSE) EXCEPT !.made = ByHand]>>),
                   !.today = 1, !.knows = {<<ann, 1, 2>>}, !.keys = {<<ann, 1, 2>>},
                   !.removed = {<<3, group>>}]
ThreeMonths == {NotYetPrepared, TwoDrafts, OneAnnounced}
=============================================================================
