---------------------------- MODULE MCProgramme ----------------------------
(* Two brothers, the chairman and the prayer, from the evening before to the day after. *)
EXTENDS Programme

CONSTANTS b1, b2, chair, pray, r1

TwoBrothers == {b1, b2}
TwoParts == {chair, pray}
OneRequest == {r1}

\* Afternoon, the evening before, the hours before the meeting, the meeting, the next day.
Evenings == <<0, 1, 0, 0, 0>>
TheEvening == {1}
Eighteen == <<2, 0, 0, 0, 0>>
Night == {}
HisOwn == {[p \in Parts |-> IF p = chair THEN b1 ELSE b2]}
=============================================================================
