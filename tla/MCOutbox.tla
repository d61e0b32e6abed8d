----------------------------- MODULE MCOutbox -----------------------------
(* Two people, the devices they share, and a day and a night for TLC. *)
EXTENDS Outbox, TLC

CONSTANTS u1, u2, ph, android, ios, desk, k1, c1, c2

TwoUsers == {u1, u2}
OnePhone == {ph}
OnlyDesk == {desk}
AllKinds == {android, ios, desk}
KindOfAll == [b \in Browsers |-> CASE b = android -> "android" [] b = ios -> "ios"
                                   [] OTHER -> "desktop"]
OneKey == {k1}
TwoCarriers == {c1, c2}
OneCarrier == {c1}

\* One person, by post too: the digest, and the same raised as urgent.
One == {[to |-> {u1}, key |-> k1, mail |-> TRUE, urgent |-> FALSE]}
EitherWay == [to: {{u1}}, key: {k1}, mail: {TRUE}, urgent: BOOLEAN]
NoTest == {}
TestHere == {[user |-> u1, only |-> {desk}]}

\* Everything the first person's; all kinds of devices; nothing at all.
Mine(P, B) == [phones |-> {u1} \X P, browsers |-> [b \in Browsers |-> IF b \in B THEN u1 ELSE Nobody]]
AllOrNothing == {Mine(Phones, Browsers), Mine({}, {})}
AllMine == {Mine(Phones, Browsers)}
TheSecondMoment == {2}
=============================================================================
