------------------------- MODULE MCAuxApplications -------------------------
(* A committee of three, one elder beside it, and a publisher who applies. *)
EXTENDS AuxApplications

CONSTANTS q1, q2
TwoRequests == {q1, q2}
\* The committee answers, and applications are taken back, beside a request of any kind.
AnyBesideAnswers == [r \in Requests |-> IF r = q1 THEN Kinds ELSE {"approve", "takeBack", "pass"}]
\* The first month, the next one and the one after the last.
Calendar == [n \in 0..Moments |-> n + 1]

Everybody == {"coordinator", "secretary", "overseer", "elder", "publisher"}
Committee == {"body_coordinator", "secretary", "service_overseer"}
Held == [s \in Committee |-> CASE s = "body_coordinator" -> {"coordinator"}
                               [] s = "secretary" -> {"secretary"}
                               [] OTHER -> {"overseer"}]

Asked(M, until) == [state |-> "pending", months |-> M, untilCancelled |-> until, paper |-> FALSE, at |-> 0]
Start(e, rows, who, gone, ps) ==
    [app |-> e, seat |-> rows, applicant |-> who, away |-> gone, periods |-> ps, holds |-> Held,
     elders |-> Everybody \ {"publisher"}]
By(S) == [s \in Committee |-> IF s \in S THEN [FreshRow EXCEPT !.by = CHOOSE u \in Held[s] : TRUE]
                              ELSE FreshRow]
NoRows == [s \in Committee |-> NoRow]

Nothing == Start(NoApp, NoRows, "publisher", {}, {})
Fresh == Start(Asked({2}, FALSE), By({}), "publisher", {"overseer"}, {})
TwoAnswered == Start(Asked({1, 2}, FALSE), By({"body_coordinator", "secretary"}), "publisher", {}, {})
OverseersOwn ==
    Start(Asked({1}, TRUE), [By({"secretary"}) EXCEPT !["service_overseer"].open = "applicant"],
          "overseer", {}, {})

AllSetups == {Nothing, Fresh, TwoAnswered, OverseersOwn}
JustOne == {{2}}
=============================================================================
