------------------------------- MODULE Outbox -------------------------------
(***************************************************************************)
(* The one door for every automatic notification, for one congregation:    *)
(* notifications.service.ts writes each message into the outbox, sends it  *)
(* at once in the waking hours and leaves it for the morning otherwise;    *)
(* the job of every five minutes delivers what is due.  A delivery reads   *)
(* the person's phones and browsers, tries the phones, then the handheld   *)
(* browsers, then the computers, then a letter, and writes down which road *)
(* took the message (push-notifications.service.ts, web-push.service.ts).  *)
(* The tables of phones and browsers change meanwhile, each with its own   *)
(* readings and writings.                                                  *)
(*                                                                         *)
(* A carrier is a call of notify or sendTest, or a pass of deliverDue, in  *)
(* flight.  Between its steps everything else runs.  The push services and *)
(* the post are external: they take a message, refuse it, or say that the  *)
(* device is gone.  Not modelled: the words and their language, a server   *)
(* without VAPID keys, the push of a status change, and the pruning of     *)
(* receipts after a week.                                                  *)
(***************************************************************************)
EXTENDS Naturals, FiniteSets

CONSTANTS
    Users, Nobody,
    Phones,        \* Expo push tokens, one to an installed app
    Browsers,      \* web-push endpoints
    KindOf,        \* the webDeviceKind of each browser
    Keys, NoKey,   \* dedupe keys; a row without one may repeat
    Calls,         \* the calls of notify: to whom, under which key, by post too, urgent
    Tests,         \* the calls of sendTest: whose, and to which devices
    Setups,        \* the phones and browsers registered at the start
    Last, Night,   \* the moments are 1..Last; Night are those outside waking hours
    Batch,         \* deliverDue's take
    Keep,          \* moments a settled row is kept by cleanupOld
    Carriers,
    MaxRows, MaxCalls, MaxEdits, MaxLost  \* bounds of the instance

Moments == 1..Last
Asap == 0
Ids == 1..MaxRows
Devices == Phones \cup Browsers
Everybody == Users \cup {Nobody}

ASSUME OutboxConstants ==
    /\ Nobody \notin Users
    /\ Phones \cap Browsers = {}
    /\ KindOf \in [Browsers -> {"ios", "android", "desktop"}]
    /\ NoKey \notin Keys
    /\ Calls \subseteq [to: SUBSET Users, key: Keys \cup {NoKey}, mail: BOOLEAN,
                 urgent: BOOLEAN]
    /\ Tests \subseteq [user: Users, only: SUBSET Devices]
    /\ Setups \subseteq [phones: SUBSET (Users \X Phones), browsers: [Browsers -> Everybody]]
    /\ \A x \in Setups : \A s, t \in x.phones : s[2] = t[2] => s = t
    /\ Last \in Nat \ {0} /\ Night \subseteq Moments \ {Last}
    /\ Batch \in Nat \ {0} /\ Keep \in Nat
    /\ MaxRows \in Nat /\ MaxCalls \in Nat /\ MaxEdits \in Nat /\ MaxLost \in Nat

Settled == {"sent", "no_device", "failed"}
Roads == {"phone", "web", "email"}
\* raised is no column: the moment the call asked for the hour, 0 for one that does
\* not ask (urgent, or a test).
Row == [user: Everybody, key: Keys \cup {NoKey}, mail: BOOLEAN, at: 0..Last,
        notBefore: 0..Last, status: {"none", "pending", "gone"} \cup Settled,
        channel: Roads \cup {"none"}, raised: 0..Last]
Task == [to: SUBSET Users, due: SUBSET Ids, key: Keys \cup {NoKey}, mail: BOOLEAN,
         hold: 0..Last, asked: 0..Last, deaf: SUBSET Users]
Sub == [user: Everybody, born: 0..MaxEdits]
Delivery == [id: Ids, only: SUBSET Devices, read: BOOLEAN, phones: SUBSET Phones,
             webs: SUBSET Browsers, born: [Browsers -> 0..MaxEdits],
             tried: SUBSET Devices, took: SUBSET Devices, letter: {"none", "sent", "not"}]

NoRow == [user |-> Nobody, key |-> NoKey, mail |-> FALSE, at |-> 0, notBefore |-> Asap,
          status |-> "none", channel |-> "none", raised |-> 0]
NoTask == [to |-> {}, due |-> {}, key |-> NoKey, mail |-> FALSE, hold |-> Asap, asked |-> 0,
           deaf |-> {}]
NoDelivery == [id |-> 0]

VARIABLES
    row,          \* notification_outbox
    muted,        \* who switched the category off
    tokens,       \* push_tokens: user and phone
    subs,         \* web_push_subscriptions: the user of each endpoint; born tells rows apart
    receipts,     \* pending push_receipts: the phone, and whether the app was still there
    deleting,     \* phones whose receipts checkReceipts has saved and whose tokens it has not deleted yet
    task,         \* what each carrier has left to do
    sending,      \* the delivery each carrier is in
    registering,  \* registerToken calls between their delete and their save
    works,        \* external: the devices that still have the app or the page
    calls, edits, lost,  \* counted for the bounds
    now,          \* the moment by the congregation's clock
    roads,        \* history: the roads that took each row
    again,        \* history: rows that a second delivery took as well
    woken,        \* history: something was delivered outside waking hours
    holder,       \* history: who last signed each browser up
    overlooked,   \* history: phones whose last bad receipt was saved and the token's deletion lost
    crossed       \* history: devices that changed hands while a send or a registration held the old ones

tables == <<row, muted, tokens, subs, receipts>>
bounds == <<calls, edits, lost>>
history == <<roads, again, woken, holder, overlooked, crossed>>
vars == <<tables, task, sending, registering, deleting, works, bounds, now, history>>

----------------------------------------------------------------------------
Idle(c) == task[c] = NoTask /\ sending[c] = NoDelivery
Sending(c) == sending[c] # NoDelivery
UserOf(i) == row[i].user

\* A carrier with nothing left to do is free again.
After(t) == IF t.to = {} /\ t.due = {} THEN NoTask ELSE t
Without(t, u) == [t EXCEPT !.to = @ \ {u}]

\* computeNotBefore: at once when it is urgent or day, or else the first moment
\* after n that is not at night.
computeNotBefore(n, urgent, hold) ==
    \/ (urgent \/ n \notin Night) /\ hold = Asap
    \/ /\ ~urgent /\ n \in Night /\ hold \in Moments \ Night /\ n < hold
       /\ \A m \in Moments : n < m /\ m < hold => m \in Night

Start(i, only) ==
    [id |-> i, only |-> only, read |-> FALSE, phones |-> {}, webs |-> {},
     born |-> [b \in Browsers |-> 0], tried |-> {}, took |-> {}, letter |-> "none"]

\* uq_notification_outbox_dedupe
Said(u, k) == k # NoKey /\ \E i \in Ids :
                 /\ row[i].user = u /\ row[i].key = k
                 /\ row[i].status \notin {"none", "gone"}

\* The next row: ids stand for createdAt, the order deliverDue asks for.
IsNew(i) == row[i].status = "none" /\ \A j \in Ids : j < i => row[j].status # "none"
Insert(i, u, k, m, hold, asked) ==
    row' = [row EXCEPT ![i] =
              [user |-> u, key |-> k, mail |-> m, at |-> now, notBefore |-> hold,
               status |-> "pending", channel |-> "none", raised |-> asked]]

----------------------------------------------------------------------------
Init ==
    /\ row = [i \in Ids |-> NoRow]
    /\ muted = {}
    /\ \E x \in Setups :
         /\ tokens = x.phones
         /\ subs = [b \in Browsers |-> [user |-> x.browsers[b], born |-> 0]]
    /\ receipts = {}
    /\ task = [c \in Carriers |-> NoTask]
    /\ sending = [c \in Carriers |-> NoDelivery]
    /\ registering = {}
    /\ deleting = {}
    /\ works = Devices
    /\ calls = 0 /\ edits = 0 /\ lost = 0
    /\ now = 1
    /\ roads = [i \in Ids |-> {}]
    /\ again = {}
    /\ woken = FALSE
    /\ holder = [b \in Browsers |-> subs[b].user]
    /\ overlooked = {}
    /\ crossed = {}

Tick ==
    /\ now < Last
    /\ now' = now + 1
    /\ UNCHANGED <<tables, task, sending, registering, deleting, works, bounds, history>>

(***************************************************************************)
(* notify: the hour and the switches are looked at once, before the first  *)
(* person; then row by row, each sent before the next is written.          *)
(***************************************************************************)
NotifyBegin(c, x) ==
    /\ Idle(c) /\ calls < MaxCalls
    /\ calls' = calls + 1
    /\ \E hold \in 0..Last :
         /\ computeNotBefore(now, x.urgent, hold)
         /\ task' = [task EXCEPT ![c] =
              After([to |-> x.to, due |-> {}, key |-> x.key, mail |-> x.mail,
                     hold |-> hold, asked |-> IF x.urgent THEN 0 ELSE now,
                     deaf |-> muted])]
    /\ UNCHANGED <<tables, sending, registering, deleting, works, edits, lost, now,
                   history>>

\* Asked not to hear, or the unique index refuses: nothing is written.
NotifySkip(c, u) ==
    /\ ~Sending(c) /\ u \in task[c].to
    /\ u \in task[c].deaf \/ Said(u, task[c].key)
    /\ task' = [task EXCEPT ![c] = After(Without(task[c], u))]
    /\ UNCHANGED <<tables, sending, registering, deleting, works, bounds, now, history>>

NotifyInsert(c, u) ==
    /\ ~Sending(c) /\ u \in task[c].to
    /\ u \notin task[c].deaf /\ ~Said(u, task[c].key)
    /\ \E i \in Ids :
         /\ IsNew(i)
         /\ Insert(i, u, task[c].key, task[c].mail, task[c].hold, task[c].asked)
         /\ sending' = IF task[c].hold = Asap
                       THEN [sending EXCEPT ![c] = Start(i, Devices)] ELSE sending
    /\ task' = [task EXCEPT ![c] = After(Without(task[c], u))]
    /\ UNCHANGED <<muted, tokens, subs, receipts, registering, deleting, works, bounds, now,
                   history>>

\* sendTest: to the device that asked, or wherever an ordinary message goes.
sendTest(c, x) ==
    /\ Idle(c) /\ calls < MaxCalls
    /\ calls' = calls + 1
    /\ \E i \in Ids :
         /\ IsNew(i)
         /\ Insert(i, x.user, NoKey, FALSE, Asap, 0)
         /\ sending' = [sending EXCEPT ![c] = Start(i, x.only)]
    /\ UNCHANGED <<muted, tokens, subs, receipts, task, registering, deleting, works, edits,
                   lost, now, history>>

(***************************************************************************)
(* deliverDue: nothing marks a row as being delivered, and nothing stops a *)
(* pass from starting while another, or a notify, is still at work.        *)
(***************************************************************************)
\* Mutants: not asking for the hour; not asking for rows that wait for none.
DueAtAnyHour(i) == row[i].status = "pending"
DueOnlyHeld(i) == row[i].status = "pending" /\ row[i].notBefore \in Moments /\ row[i].notBefore <= now
Due(i) == row[i].status = "pending" /\ (row[i].notBefore = Asap \/ row[i].notBefore <= now)

DeliverDue(c) ==
    LET D == {i \in Ids : Due(i)} IN
    /\ Idle(c) /\ D # {}
    /\ task' = [task EXCEPT ![c].due =
         {i \in D : Cardinality({j \in D : j < i}) < Batch}]
    /\ UNCHANGED <<tables, sending, registering, deleting, works, bounds, now, history>>

DeliverNext(c) ==
    /\ ~Sending(c)
    /\ \E i \in task[c].due :
         /\ \A j \in task[c].due : i <= j
         /\ sending' = [sending EXCEPT ![c] = Start(i, Devices)]
         /\ task' = [task EXCEPT ![c] = After([task[c] EXCEPT !.due = @ \ {i}])]
    /\ UNCHANGED <<tables, registering, deleting, works, bounds, now, history>>

CleanupOld ==
    LET old == {i \in Ids : row[i].status \in Settled /\ row[i].at + Keep <= now} IN
    /\ old # {}
    /\ row' = [i \in Ids |-> IF i \in old THEN [row[i] EXCEPT !.status = "gone"] ELSE row[i]]
    /\ UNCHANGED <<muted, tokens, subs, receipts, task, sending, registering, deleting,
                   works, bounds, now, history>>

(***************************************************************************)
(* deliver, sendToUsers: one notification a physical device.               *)
(***************************************************************************)
Read(c) ==
    LET s == sending[c]
        mine == {b \in Browsers \cap s.only : subs[b].user = UserOf(s.id)} IN
    /\ Sending(c) /\ ~s.read
    /\ sending' = [sending EXCEPT ![c] =
         [s EXCEPT !.read = TRUE,
                   !.phones = {p \in Phones \cap s.only : <<UserOf(s.id), p>> \in tokens},
                   !.webs = mine,
                   !.born = [b \in Browsers |-> IF b \in mine THEN subs[b].born ELSE 0]]]
    /\ UNCHANGED <<tables, task, registering, deleting, works, bounds, now, history>>

OfKind(s, kind) == {b \in s.webs : KindOf[b] = kind}
byPhone(s) == s.took \cap Phones # {}
\* Mutants: "one person, one channel"; a computer as soon as no phone took it.
handheldOneChannel(s) == IF s.phones # {} THEN {} ELSE OfKind(s, "ios") \cup OfKind(s, "android")
computersAfterPhones(s) == IF byPhone(s) THEN {} ELSE OfKind(s, "desktop")
handheld(s) == OfKind(s, "ios") \cup (IF byPhone(s) THEN {} ELSE OfKind(s, "android"))
computers(s) == IF s.took = {} THEN OfKind(s, "desktop") ELSE {}
HasDevice(s) == s.phones \cup s.webs # {}

\* What is tried next, each step down only when there is something to try.
AtPhones(s) == s.read /\ s.phones \ s.tried # {}
AtHandheld(s) == s.read /\ ~AtPhones(s) /\ handheld(s) \ s.tried # {}
AtComputers(s) ==
    s.read /\ ~AtPhones(s) /\ ~AtHandheld(s) /\ computers(s) \ s.tried # {}
AtLetter(s) == s.read /\ ~HasDevice(s) /\ row[s.id].mail /\ s.letter = "none"
AtRecord(s) ==
    s.read /\ ~AtPhones(s) /\ ~AtHandheld(s) /\ ~AtComputers(s) /\ ~AtLetter(s)

\* The message reached the person by a road; remembered for the properties.
Heard(c, R) ==
    LET s == sending[c] IN
    /\ roads' = [roads EXCEPT ![s.id] = @ \cup R]
    /\ again' = IF R # {} /\ s.took = {} /\ roads[s.id] # {} THEN again \cup {s.id} ELSE again
    /\ woken' = (woken \/ (R # {} /\ now \in Night))

\* sendBatch: a ticket says that Expo took the message, not that the phone did.
SendPhones(c) ==
    LET s == sending[c] IN
    /\ Sending(c) /\ AtPhones(s)
    /\ \E T \in SUBSET s.phones :
         /\ sending' = [sending EXCEPT ![c] =
              [s EXCEPT !.tried = @ \cup s.phones, !.took = @ \cup T]]
         /\ receipts' = receipts \cup {[phone |-> p, there |-> p \in works] : p \in T}
         /\ overlooked' = overlooked \ T
         /\ Heard(c, IF T # {} THEN {"phone"} ELSE {})
    /\ UNCHANGED <<row, muted, tokens, subs, task, registering, deleting, works, bounds,
                   now, holder, crossed>>

\* outboxRepo.update by id: a row pruned meanwhile is not there to update.
Write(i, status, channel) ==
    row' = IF row[i].status = "gone" THEN row
           ELSE [row EXCEPT ![i].status = status, ![i].channel = channel]

\* An exception: deliver writes the status alone, a test to one device both.
Failed(s) == Write(s.id, "failed", IF s.only = Devices THEN row[s.id].channel ELSE "none")

(***************************************************************************)
(* sendToSubscription.  A subscription the service calls gone is deleted   *)
(* by its row id; any other is saved whole, with the user it was read      *)
(* with, and inserted again if it was removed meanwhile.  If the endpoint  *)
(* has a new row by then the unique index refuses, and the delivery fails. *)
(***************************************************************************)
Clashes(s, b) == subs[b].born # s.born[b] /\ subs[b].user # Nobody
Resaved(s, b) ==
    IF b \in works
    THEN IF Clashes(s, b) THEN subs[b] ELSE [user |-> UserOf(s.id), born |-> s.born[b]]
    ELSE IF subs[b].born = s.born[b] THEN [subs[b] EXCEPT !.user = Nobody] ELSE subs[b]

SendWeb(c, S) ==
    LET s == sending[c] IN
    \E T \in SUBSET (S \cap works) :
      /\ subs' = [b \in Browsers |-> IF b \in S THEN Resaved(s, b) ELSE subs[b]]
      /\ Heard(c, IF T # {} THEN {"web"} ELSE {})
      /\ IF \E b \in S \cap works : Clashes(s, b)
         THEN /\ Failed(s)
              /\ sending' = [sending EXCEPT ![c] = NoDelivery]
         ELSE /\ sending' = [sending EXCEPT ![c] =
                   [s EXCEPT !.tried = @ \cup S, !.took = @ \cup T]]
              /\ UNCHANGED row
      /\ UNCHANGED <<muted, tokens, receipts, task, registering, deleting, works, bounds,
                     now, holder, overlooked, crossed>>
SendHandheld(c) == Sending(c) /\ AtHandheld(sending[c]) /\ SendWeb(c, handheld(sending[c]))
SendComputers(c) == Sending(c) /\ AtComputers(sending[c]) /\ SendWeb(c, computers(sending[c]))

mailUndelivered(c) ==
    LET s == sending[c] IN
    /\ Sending(c) /\ AtLetter(s)
    /\ \E left \in {"sent", "not"} :
         /\ sending' = [sending EXCEPT ![c].letter = left]
         /\ Heard(c, IF left = "sent" THEN {"email"} ELSE {})
    /\ UNCHANGED <<tables, task, registering, deleting, works, bounds, now, holder,
                   overlooked, crossed>>

\* Mutants: "sent" for whatever was attempted; the road written as the status.
outcomeAttempted(s) == IF HasDevice(s) THEN <<"sent", "phone">> ELSE <<"no_device", "none">>
outcomeRoad(s) == IF byPhone(s) THEN <<"phone", "none">> ELSE
                  IF s.took # {} THEN <<"web", "none">> ELSE <<"no_device", "none">>
outcome(s) ==
    CASE byPhone(s) -> <<"sent", "phone">>
      [] ~byPhone(s) /\ s.took # {} -> <<"sent", "web">>
      [] s.took = {} /\ s.letter = "sent" -> <<"sent", "email">>
      [] s.took = {} /\ s.letter # "sent" /\ HasDevice(s) -> <<"failed", "none">>
      [] OTHER -> <<"no_device", "none">>

Record(c) ==
    LET s == sending[c] IN
    /\ Sending(c) /\ AtRecord(s)
    /\ Write(s.id, outcome(s)[1], outcome(s)[2])
    /\ sending' = [sending EXCEPT ![c] = NoDelivery]
    /\ UNCHANGED <<muted, tokens, subs, receipts, task, registering, deleting, works,
                   bounds, now, history>>

\* An exception in a delivery is caught: the row says failed.
DeliveryFails(c) ==
    /\ Sending(c) /\ lost < MaxLost
    /\ lost' = lost + 1
    /\ Failed(sending[c])
    /\ sending' = [sending EXCEPT ![c] = NoDelivery]
    /\ UNCHANGED <<muted, tokens, subs, receipts, task, registering, deleting, works, calls,
                   edits, now, history>>

\* The server stops, or the database refuses the row's update as well.
Lose(c) ==
    /\ ~Idle(c) /\ lost < MaxLost
    /\ lost' = lost + 1
    /\ sending' = [sending EXCEPT ![c] = NoDelivery]
    /\ task' = [task EXCEPT ![c] = NoTask]
    /\ UNCHANGED <<tables, registering, deleting, works, calls, edits, now, history>>

(***************************************************************************)
(* The devices come and go.                                                *)
(***************************************************************************)
Edit == edits < MaxEdits /\ edits' = edits + 1
HeldBySend(d) == \E c \in Carriers :
                     Sending(c) /\ d \in sending[c].phones \cup sending[c].webs

\* Mutants: the others' rows stay; an endpoint already known keeps its user.
OthersStay(u, p) == tokens
UserStays(u, b) == IF subs[b].user = Nobody THEN [user |-> u, born |-> edits + 1] ELSE subs[b]

\* registerToken takes the phone from everybody else, and then saves its own row.
WithoutOthers(u, p) == {t \in tokens : t[2] = p => t[1] = u}
registerToken(u, p) ==
    /\ Edit /\ p \in works /\ <<u, p>> \notin registering
    /\ tokens' = WithoutOthers(u, p)
    /\ registering' = registering \cup {<<u, p>>}
    /\ crossed' = IF \E r \in registering : r[2] = p THEN crossed \cup {p} ELSE crossed \ {p}
    /\ UNCHANGED <<row, muted, subs, receipts, task, sending, deleting, works, calls, lost,
                   now, roads, again, woken, holder, overlooked>>

registerTokenSave(r) ==
    /\ r \in registering
    /\ tokens' = tokens \cup {r}
    /\ registering' = registering \ {r}
    /\ UNCHANGED <<row, muted, subs, receipts, task, sending, deleting, works, bounds, now,
                   history>>

\* The server stops between the two, or the save is refused.
registerTokenLost(r) ==
    /\ r \in registering
    /\ registering' = registering \ {r}
    /\ UNCHANGED <<tables, task, sending, deleting, works, bounds, now, history>>

unregisterToken(u, p) ==
    /\ Edit /\ <<u, p>> \in tokens
    /\ tokens' = tokens \ {<<u, p>>}
    /\ UNCHANGED <<row, muted, subs, receipts, task, sending, registering, deleting, works,
                   calls, lost, now, history>>

\* A browser changes hands, and whether a delivery under way still holds the old row.
HandOver(b, u) ==
    /\ holder' = [holder EXCEPT ![b] = u]
    /\ crossed' = IF HeldBySend(b) THEN crossed \cup {b} ELSE crossed \ {b}
    /\ UNCHANGED <<roads, again, woken, overlooked>>

Signed(u, b) == [user |-> u, born |-> IF subs[b].user = Nobody THEN edits + 1 ELSE subs[b].born]
registerSubscription(u, b) ==
    /\ Edit /\ b \in works /\ subs[b].user # u
    /\ subs' = [subs EXCEPT ![b] = Signed(u, b)]
    /\ HandOver(b, u)
    /\ UNCHANGED <<row, muted, tokens, receipts, task, sending, registering, deleting,
                   works, calls, lost, now>>

removeSubscription(b) ==
    /\ Edit /\ subs[b].user # Nobody
    /\ subs' = [subs EXCEPT ![b].user = Nobody]
    /\ HandOver(b, Nobody)
    /\ UNCHANGED <<row, muted, tokens, receipts, task, sending, registering, deleting,
                   works, calls, lost, now>>

\* External: the app is taken off the phone, the page off the browser.
Uninstall(d) ==
    /\ Edit /\ d \in works
    /\ works' = works \ {d}
    /\ UNCHANGED <<tables, task, sending, registering, deleting, calls, lost, now, history>>

setPreference(u) ==
    /\ Edit
    /\ muted' = IF u \in muted THEN muted \ {u} ELSE muted \cup {u}
    /\ UNCHANGED <<row, tokens, subs, receipts, task, sending, registering, deleting, works,
                   calls, lost, now, history>>

\* The answers Expo has ready are saved first; the tokens of phones without the
\* app are deleted in a step of its own, for whoever holds them.
\* Mutant: the error is counted and the token stays.
GoneOnlyCounted(S) == {}
Gone(S) == {r.phone : r \in {x \in S : ~x.there}}
checkReceipts(S) ==
    /\ deleting = {} /\ S \subseteq receipts /\ S # {}
    /\ receipts' = receipts \ S
    /\ deleting' = Gone(S)
    /\ UNCHANGED <<row, muted, tokens, subs, task, sending, registering, works, bounds, now,
                   history>>

deleteTokens ==
    /\ deleting # {}
    /\ tokens' = {t \in tokens : t[2] \notin deleting}
    /\ deleting' = {}
    /\ UNCHANGED <<row, muted, subs, receipts, task, sending, registering, works, bounds,
                   now, history>>

\* The server stops before, or the database refuses: the receipts are settled, and
\* nothing looks at these phones again until another message is sent there.
deleteTokensLost ==
    /\ deleting # {} /\ lost < MaxLost
    /\ lost' = lost + 1
    /\ deleting' = {}
    /\ overlooked' = overlooked \cup (deleting \ Gone(receipts))
    /\ UNCHANGED <<tables, task, sending, registering, works, calls, edits, now, roads,
                   again, woken, holder, crossed>>

----------------------------------------------------------------------------
Carry(c) ==
    \/ \E u \in Users : NotifySkip(c, u) \/ NotifyInsert(c, u)
    \/ DeliverNext(c)
    \/ Read(c) \/ SendPhones(c) \/ SendHandheld(c) \/ SendComputers(c)
    \/ mailUndelivered(c) \/ Record(c)

Next ==
    \/ Tick
    \/ CleanupOld
    \/ \E c \in Carriers :
         \/ \E x \in Calls : NotifyBegin(c, x)
         \/ \E x \in Tests : sendTest(c, x)
         \/ DeliverDue(c)
         \/ Carry(c)
         \/ DeliveryFails(c)
         \/ Lose(c)
    \/ \E u \in Users, p \in Phones : registerToken(u, p) \/ unregisterToken(u, p)
    \/ \E r \in Users \X Phones : registerTokenSave(r) \/ registerTokenLost(r)
    \/ \E u \in Users, b \in Browsers : registerSubscription(u, b)
    \/ \E b \in Browsers : removeSubscription(b)
    \/ \E d \in Devices : Uninstall(d)
    \/ \E u \in Users : setPreference(u)
    \/ \E S \in SUBSET receipts : checkReceipts(S)
    \/ deleteTokens \/ deleteTokensLost

\* The event loop goes on, the jobs run every five and every thirty minutes,
\* and the clock moves.
Fairness ==
    /\ WF_vars(Tick)
    /\ \A c \in Carriers : WF_vars(Carry(c)) /\ WF_vars(DeliverDue(c))
    /\ \A r \in Users \X Phones : WF_vars(registerTokenSave(r))
    /\ WF_vars(checkReceipts(receipts)) /\ WF_vars(deleteTokens)

Spec == Init /\ [][Next]_vars /\ Fairness

----------------------------------------------------------------------------
(* Properties *)

TypeOK ==
    /\ row \in [Ids -> Row]
    /\ muted \subseteq Users
    /\ tokens \subseteq Users \X Phones
    /\ subs \in [Browsers -> Sub]
    /\ receipts \subseteq [phone: Phones, there: BOOLEAN]
    /\ task \in [Carriers -> Task]
    /\ sending \in [Carriers -> Delivery \cup {NoDelivery}]
    /\ registering \subseteq Users \X Phones
    /\ deleting \subseteq Phones
    /\ works \subseteq Devices
    /\ calls \in 0..MaxCalls /\ edits \in 0..MaxEdits /\ lost \in 0..MaxLost
    /\ now \in Moments
    /\ roads \in [Ids -> SUBSET Roads]
    /\ again \subseteq Ids
    /\ woken \in BOOLEAN
    /\ holder \in [Browsers -> Everybody]
    /\ overlooked \subseteq Phones
    /\ crossed \subseteq Devices

\* The ledger does not claim more than happened: a row that says it was sent,
\* and by which road, was taken by that road - whatever two deliveries of it,
\* a stop between sending and writing, or a failure have done in between.
SentMeansTaken ==
    \A i \in Ids : row[i].channel # "none" => row[i].channel \in roads[i]

\* A row as a line of the ledger.
StateOf(r) == CASE r.status = "none" -> "blank"
                [] r.status = "pending" -> "waiting"
                [] r.status = "sent" -> "told"
                [] r.status = "gone" -> "forgotten"
                [] OTHER -> "untold"
AsLine(r) == [user |-> r.user, state |-> StateOf(r), road |-> r.channel]

Kept == INSTANCE Ledger WITH NoRoad <- "none", heard <- roads,
                             line <- [i \in Ids |-> AsLine(row[i])]
\* Read as a ledger, the outbox keeps every promise of Ledger: a row has one
\* person for ever, is never waiting again once it is settled nor back once it
\* is pruned, and what it says of a road is true (deliver, deliverDue, sendTest
\* and cleanupOld, which know nothing of each other).
KeepsLedger == Kept!LedgerSpec

\* What was raised outside the waking hours, and not as urgent, is heard by nobody
\* before the first waking moment after: not from notify, which asks for the hour
\* once for a whole list of people, nor from any pass of deliverDue.
HeldTillMorning ==
    \A i \in Ids : roads[i] # {} /\ row[i].raised # 0 =>
        \E m \in row[i].raised..now : m \notin Night

\* sendToUsers: "Nobody is left with nothing while a device of theirs could
\* take it": a delivery is about to write "failed" only when it has tried every
\* device it read, and the post has had its turn before "no_device".
FailedAfterAll ==
    \A c \in Carriers : LET s == sending[c] IN
        (Sending(c) /\ AtRecord(s) /\ s.took = {}) =>
            /\ s.tried = s.phones \cup s.webs
            /\ ~HasDevice(s) /\ row[s.id].mail => s.letter # "none"

\* sendToUsers: one notification a physical device.  No delivery shows a message
\* on a computer that a handheld device took, nor in an Android browser whose
\* owner's phone took it.
OneCopyADevice ==
    \A c \in Carriers : LET s == sending[c] IN Sending(c) =>
        /\ (s.took \cap OfKind(s, "desktop") # {} => s.took \subseteq OfKind(s, "desktop"))
        /\ (s.took \cap OfKind(s, "android") # {} => ~byPhone(s))

\* sendToUsers steps down a person's devices just as far as it must: one step too few would
\* leave him with nothing, one too many says it twice.
StepsDown == FailedAfterAll /\ OneCopyADevice

\* "Whoever registers the token now owns it alone": a phone is two people's
\* only after two registrations of it ran into each other, and then only until
\* the next one.
OnePersonAPhone ==
    \A s, t \in tokens : s[2] = t[2] /\ s[2] \notin crossed => s = t

\* A browser belongs to whoever signed it up last and did not sign off again -
\* unless it changed hands while a delivery held the old row, which saves that
\* row whole; the next sign-up without a delivery under way heals it.
BrowserIsTheLastUsers ==
    \A b \in (Browsers \cap works) \ crossed : subs[b].user = holder[b]

\* Every row is settled in the end, also when the call that wrote it was lost
\* half way: a later pass finds it.
EveryRowSettles == \A i \in Ids : row[i].status = "pending" ~> row[i].status # "pending"

\* A token whose phone is said to be without the app goes, so that what comes later
\* is no longer taken for delivered there - unless the server stops, or the database
\* refuses, after the receipts are saved and before the tokens are deleted, and then
\* the next message sent to that phone has it asked for again.
DeadPhonesGo ==
    \A p \in Phones : p \in Gone(receipts) ~> p \notin {t[2] : t \in tokens} \/ p \in overlooked

----------------------------------------------------------------------------
(* Requirements the code does not meet: a run with one of them as its       *)
(* invariant ends in a counterexample (README).                             *)

\* "It is sent once": no row is taken by a road in two deliveries.
SaidOnce == again = {}

\* "Nothing automatic goes out before or after; it waits for the morning."
NothingAtNight == ~woken
=============================================================================
