------------------------------- MODULE Ledger -------------------------------
(***************************************************************************)
(* What the outbox promises to whoever looks into it later, however many   *)
(* deliveries are at work on it, break off or run into each other: a line  *)
(* is written for one person, waits, is settled - perhaps more than once,  *)
(* as a second delivery of it may come to another end - and is forgotten   *)
(* in the end.  It never goes back to waiting and is never written         *)
(* again, and the road it names took the message.                          *)
(***************************************************************************)
CONSTANTS Ids, Everybody, Roads, NoRoad

States == {"blank", "waiting", "told", "untold", "forgotten"}
Line == [user: Everybody, state: States, road: Roads \cup {NoRoad}]

VARIABLES
    line,     \* the lines of the ledger
    heard     \* the roads that took each message

ledger == <<line, heard>>

LedgerInit ==
    /\ line \in [Ids -> Line] /\ heard = [i \in Ids |-> {}]
    /\ \A i \in Ids : line[i].state = "blank" /\ line[i].road = NoRoad

\* What happened stays so.
Keeps(i) == heard[i] \subseteq heard'[i] /\ line'[i].user = line[i].user

Raise(i) ==
    /\ line[i].state = "blank" /\ line'[i].state = "waiting"
    /\ line'[i].road = NoRoad /\ heard'[i] = heard[i]

\* Some road may take the message, whatever the line says, if there is a line.
Carry(i) ==
    /\ Keeps(i) /\ line'[i] = line[i]
    /\ line[i].state = "blank" => heard'[i] = heard[i]

Settle(i) ==
    /\ line[i].state \in {"waiting", "told", "untold"} /\ Keeps(i)
    /\ \/ line'[i].state = "told" /\ line'[i].road \in heard'[i]
       \/ line'[i].state = "untold" /\ line'[i].road \in heard'[i] \cup {NoRoad}

Forget(i) ==
    /\ line[i].state \in {"told", "untold"} /\ Keeps(i)
    /\ line'[i].state = "forgotten" /\ line'[i].road = line[i].road

LedgerNext ==
    /\ line' \in [Ids -> Line] /\ heard' \in [Ids -> SUBSET Roads]
    /\ \A i \in Ids : Raise(i) \/ Carry(i) \/ Settle(i) \/ Forget(i)

LedgerSpec == LedgerInit /\ [][LedgerNext]_ledger

----------------------------------------------------------------------------
\* A line that says the person was told names a road that took it (the channel
\* deliver writes down), and a blank one was heard by nobody.
LedgerTrue ==
    \A i \in Ids :
        /\ line[i].state = "told" => line[i].road \in heard[i]
        /\ line[i].state = "blank" => heard[i] = {}
        /\ line[i].road \in heard[i] \cup {NoRoad}
=============================================================================
