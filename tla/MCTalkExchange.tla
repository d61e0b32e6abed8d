-------------------------- MODULE MCTalkExchange --------------------------
(* Two weekends with a guest each, or a visit in the first of them. *)
EXTENDS TalkExchange, TLC

CONSTANTS r1, r2, g1, g2

NoRow == [NewRow(1, g1, "app") EXCEPT !.at = "none"]
NoLine == [at |-> "none", removed |-> FALSE, who |-> NoOne, link |-> NoEntry]
Shows(g, e) == [at |-> "on", removed |-> FALSE, who |-> g, link |-> e]
Nowhere == [at |-> "none", week |-> 1, done |-> FALSE, prev |-> NoPrev]
Rows(s) == [e \in Ids |-> IF e <= Len(s) THEN s[e] ELSE NoRow]

\* Two weekends agreed on and in the programme.
BothAgreed == [entry |-> Rows(<<NewRow(1, g1, "own"), NewRow(2, g2, "app")>>),
               line |-> <<Shows(g1, 1), Shows(g2, 2)>>, visit |-> Nowhere, bin |-> [e \in Ids |-> 0]]
\* The visit stands in the first week, its guest is set aside; the second has no programme.
Visited == [entry |-> Rows(<<[NewRow(1, g1, "own") EXCEPT !.at = "gone", !.aside = TRUE],
                             [NewRow(1, Overseer, "app") EXCEPT !.his = TRUE]>>),
            line |-> <<Shows(Overseer, 2), NoLine>>,
            visit |-> [at |-> "on", week |-> 1, done |-> TRUE, prev |-> g1],
            bin |-> [e \in Ids |-> IF e = 1 THEN MaxEntries ELSE 0]]

MCSetups == {BothAgreed, Visited}
OnlyAgreed == {BothAgreed}
\* Anything, and beside it the coordinator changing a speaker.
MCOperations == [r \in Requests |-> IF r = r1 THEN Kinds ELSE {"change"}]
=============================================================================
