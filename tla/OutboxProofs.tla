---------------------------- MODULE OutboxProofs ----------------------------
(* The outbox keeps its types, its ledger and its tables of devices, for any *)
(* number of people, devices, rows, carriers and moments.                    *)
EXTENDS Outbox, TLAPS

\* The pieces of the state that the helpers build.
LEMMA StartType ==
    ASSUME NEW i \in Ids, NEW only \in SUBSET Devices
    PROVE Start(i, only) \in Delivery
BY OutboxConstants DEF Start, Delivery, Devices

LEMMA AfterType ==
    ASSUME NEW t \in Task
    PROVE After(t) \in Task
BY OutboxConstants DEF After, NoTask, Task, Asap

LEMMA NewRowType ==
    ASSUME NEW u \in Users, NEW k \in Keys \cup {NoKey}, NEW m \in BOOLEAN, NEW hold \in 0..Last,
           NEW asked \in 0..Last, NEW i \in Ids, TypeOK, Insert(i, u, k, m, hold, asked)
    PROVE row' \in [Ids -> Row]
<1>1. [user |-> u, key |-> k, mail |-> m, at |-> now, notBefore |-> hold,
       status |-> "pending", channel |-> "none", raised |-> asked] \in Row
  BY OutboxConstants DEF Row, Everybody, TypeOK, Moments
<1> QED
  BY <1>1 DEF Insert, TypeOK

LEMMA WriteType ==
    ASSUME TypeOK, NEW i \in Ids, NEW status \in Settled, NEW channel \in Roads \cup {"none"},
           Write(i, status, channel)
    PROVE row' \in [Ids -> Row]
<1>1. [row[i] EXCEPT !.status = status, !.channel = channel] \in Row
  BY ZenonT(40) DEF TypeOK, Row
<1> QED
  BY <1>1 DEF Write, TypeOK

LEMMA SendingType ==
    ASSUME TypeOK, NEW c \in Carriers, Sending(c)
    PROVE sending[c] \in Delivery
BY DEF TypeOK, Sending

LEMMA ChannelType ==
    ASSUME TypeOK, NEW c \in Carriers, Sending(c)
    PROVE row[sending[c].id].channel \in Roads \cup {"none"}
BY SendingType DEF TypeOK, Delivery, Row

LEMMA HeardType ==
    ASSUME TypeOK, NEW c \in Carriers, Sending(c), NEW R \in SUBSET Roads, Heard(c, R)
    PROVE /\ roads' \in [Ids -> SUBSET Roads]
          /\ again' \subseteq Ids
          /\ woken' \in BOOLEAN
<1>1. sending[c].id \in Ids
  BY SendingType DEF Delivery
<1>2. roads' \in [Ids -> SUBSET Roads]
  BY <1>1 DEF Heard, TypeOK
<1>3. again' \subseteq Ids
  BY <1>1 DEF Heard, TypeOK
<1>4. woken' \in BOOLEAN
  BY DEF Heard, TypeOK
<1> QED
  BY <1>2, <1>3, <1>4

LEMMA ResavedType ==
    ASSUME TypeOK, NEW c \in Carriers, Sending(c), NEW b \in Browsers
    PROVE Resaved(sending[c], b) \in Sub
<1>1. sending[c].born[b] \in 0..MaxEdits /\ UserOf(sending[c].id) \in Everybody
  BY SendingType DEF TypeOK, Delivery, UserOf, Row
<1>2. subs[b] \in Sub /\ Nobody \in Everybody
  BY DEF TypeOK, Everybody
<1>3. [user |-> UserOf(sending[c].id), born |-> sending[c].born[b]] \in Sub
  BY <1>1 DEF Sub
<1>4. [subs[b] EXCEPT !.user = Nobody] \in Sub
  BY <1>2 DEF Sub
<1> QED
  BY <1>2, <1>3, <1>4 DEF Resaved

\* What a delivery writes down is a status and a road the ledger knows.
LEMMA OutcomeType ==
    ASSUME NEW s
    PROVE outcome(s)[1] \in Settled /\ outcome(s)[2] \in Roads \cup {"none"}
BY DEF outcome, Settled, Roads

\* Every device a delivery counts is a device.
LEMMA KindsAreBrowsers ==
    ASSUME NEW s \in Delivery
    PROVE /\ handheld(s) \subseteq s.webs
          /\ computers(s) \subseteq s.webs
          /\ s.webs \subseteq Devices /\ s.phones \subseteq Devices
BY DEF handheld, computers, OfKind, Delivery, Devices

LEMMA SendWebType ==
    ASSUME TypeOK, NEW c \in Carriers, Sending(c), NEW S, S \subseteq Browsers, SendWeb(c, S)
    PROVE TypeOK'
<1> DEFINE s == sending[c]
<1>1. s \in Delivery /\ s.id \in Ids
  BY SendingType DEF Delivery
<1>2. PICK T \in SUBSET (S \cap works) :
        /\ subs' = [b \in Browsers |-> IF b \in S THEN Resaved(s, b) ELSE subs[b]]
        /\ Heard(c, IF T # {} THEN {"web"} ELSE {})
        /\ IF \E b \in S \cap works : Clashes(s, b)
           THEN /\ Failed(s)
                /\ sending' = [sending EXCEPT ![c] = NoDelivery]
           ELSE /\ sending' = [sending EXCEPT ![c] =
                     [s EXCEPT !.tried = @ \cup S, !.took = @ \cup T]]
                /\ UNCHANGED row
  BY DEF SendWeb
<1>3. UNCHANGED <<muted, tokens, receipts, task, registering, deleting, works, bounds, now,
                  holder, overlooked, crossed>>
  BY DEF SendWeb
<1>4. subs' \in [Browsers -> Sub]
  BY <1>2, ResavedType DEF TypeOK
<1>5. (IF T # {} THEN {"web"} ELSE {}) \in SUBSET Roads
  BY DEF Roads
<1>6. roads' \in [Ids -> SUBSET Roads] /\ again' \subseteq Ids /\ woken' \in BOOLEAN
  BY <1>2, <1>5, HeardType
<1>7. row' \in [Ids -> Row]
  <2>1. "failed" \in Settled
    BY DEF Settled
  <2> QED
    BY <1>1, <1>2, <2>1, ChannelType, WriteType DEF Failed, TypeOK
<1>8. [s EXCEPT !.tried = @ \cup S, !.took = @ \cup T] \in Delivery
  BY <1>1 DEF Delivery, Devices
<1>9. sending' \in [Carriers -> Delivery \cup {NoDelivery}]
  BY <1>2, <1>8 DEF TypeOK
<1> QED
  BY <1>3, <1>4, <1>6, <1>7, <1>9 DEF TypeOK, bounds

LEMMA InitType == Init => TypeOK
<1> SUFFICES ASSUME Init PROVE TypeOK
  OBVIOUS
<1>1. NoRow \in Row
  BY OutboxConstants DEF NoRow, Row, Everybody, Asap
<1>2. NoTask \in Task
  BY OutboxConstants DEF NoTask, Task, Asap
<1>3. tokens \subseteq Users \X Phones /\ subs \in [Browsers -> Sub]
  <2>1. PICK x \in Setups : /\ tokens = x.phones
                            /\ subs = [b \in Browsers |-> [user |-> x.browsers[b], born |-> 0]]
    BY DEF Init
  <2>2. x.phones \in SUBSET (Users \X Phones) /\ x.browsers \in [Browsers -> Everybody]
    BY OutboxConstants
  <2>3. 0 \in 0..MaxEdits
    BY OutboxConstants
  <2> QED
    BY <2>1, <2>2, <2>3 DEF Sub
<1>4. holder \in [Browsers -> Everybody]
  BY <1>3 DEF Init, Sub
<1>5. now \in Moments /\ calls \in 0..MaxCalls /\ edits \in 0..MaxEdits /\ lost \in 0..MaxLost
  BY OutboxConstants DEF Init, Moments
<1> QED
  BY <1>1, <1>2, <1>3, <1>4, <1>5 DEF Init, TypeOK

LEMMA NotifyType ==
    ASSUME TypeOK, NEW c \in Carriers
    PROVE /\ \A x \in Calls : NotifyBegin(c, x) => TypeOK'
          /\ \A u \in Users : NotifySkip(c, u) => TypeOK'
          /\ \A u \in Users : NotifyInsert(c, u) => TypeOK'
          /\ \A x \in Tests : sendTest(c, x) => TypeOK'
<1>1. ASSUME NEW x \in Calls, NotifyBegin(c, x) PROVE TypeOK'
  <2>1. PICK hold \in 0..Last : task' = [task EXCEPT ![c] =
              After([to |-> x.to, due |-> {}, key |-> x.key, mail |-> x.mail,
                     hold |-> hold, asked |-> IF x.urgent THEN 0 ELSE now, deaf |-> muted])]
    BY <1>1 DEF NotifyBegin
  <2>2. [to |-> x.to, due |-> {}, key |-> x.key, mail |-> x.mail,
         hold |-> hold, asked |-> IF x.urgent THEN 0 ELSE now, deaf |-> muted] \in Task
    BY OutboxConstants DEF Task, TypeOK, Moments
  <2>3. task' \in [Carriers -> Task]
    BY <2>1, <2>2, AfterType DEF TypeOK
  <2>4. calls' \in 0..MaxCalls
    BY <1>1, OutboxConstants DEF NotifyBegin, TypeOK
  <2> QED
    BY <1>1, <2>3, <2>4 DEF NotifyBegin, TypeOK, tables, history
<1>2. ASSUME NEW u \in Users, u \in task[c].to
      PROVE After(Without(task[c], u)) \in Task
  <2>1. Without(task[c], u) \in Task
    BY DEF TypeOK, Task, Without
  <2> QED
    BY <2>1, AfterType
<1>3. ASSUME NEW u \in Users, NotifySkip(c, u) PROVE TypeOK'
  <2>1. task' \in [Carriers -> Task]
    BY <1>2, <1>3 DEF NotifySkip, TypeOK
  <2> QED
    BY <1>3, <2>1 DEF NotifySkip, TypeOK, tables, history, bounds
<1>4. ASSUME NEW u \in Users, NotifyInsert(c, u) PROVE TypeOK'
  <2>1. PICK i \in Ids :
          /\ Insert(i, u, task[c].key, task[c].mail, task[c].hold, task[c].asked)
          /\ sending' = IF task[c].hold = Asap
                        THEN [sending EXCEPT ![c] = Start(i, Devices)] ELSE sending
    BY <1>4 DEF NotifyInsert
  <2>2. /\ task[c].key \in Keys \cup {NoKey} /\ task[c].mail \in BOOLEAN
        /\ task[c].hold \in 0..Last /\ task[c].asked \in 0..Last
    BY DEF TypeOK, Task
  <2>3. row' \in [Ids -> Row]
    BY <2>1, <2>2, NewRowType
  <2>4. sending' \in [Carriers -> Delivery \cup {NoDelivery}]
    BY <2>1, StartType DEF TypeOK
  <2>5. task' \in [Carriers -> Task]
    BY <1>2, <1>4 DEF NotifyInsert, TypeOK
  <2> QED
    BY <1>4, <2>3, <2>4, <2>5 DEF NotifyInsert, TypeOK, history, bounds
<1>5. ASSUME NEW x \in Tests, sendTest(c, x) PROVE TypeOK'
  <2>1. PICK i \in Ids : /\ Insert(i, x.user, NoKey, FALSE, Asap, 0)
                         /\ sending' = [sending EXCEPT ![c] = Start(i, x.only)]
    BY <1>5 DEF sendTest
  <2>2. x.user \in Users /\ x.only \in SUBSET Devices /\ Asap \in 0..Last /\ 0 \in 0..Last
    BY OutboxConstants DEF Asap
  <2>3. row' \in [Ids -> Row]
    BY <2>1, <2>2, NewRowType
  <2>4. sending' \in [Carriers -> Delivery \cup {NoDelivery}]
    BY <2>1, <2>2, StartType DEF TypeOK
  <2>5. calls' \in 0..MaxCalls
    BY <1>5, OutboxConstants DEF sendTest, TypeOK
  <2> QED
    BY <1>5, <2>3, <2>4, <2>5 DEF sendTest, TypeOK, history
<1> QED
  BY <1>1, <1>3, <1>4, <1>5

LEMMA DeliverType ==
    ASSUME TypeOK, NEW c \in Carriers
    PROVE /\ DeliverDue(c) => TypeOK'
          /\ DeliverNext(c) => TypeOK'
          /\ Read(c) => TypeOK'
          /\ SendPhones(c) => TypeOK'
          /\ SendHandheld(c) => TypeOK'
          /\ SendComputers(c) => TypeOK'
          /\ mailUndelivered(c) => TypeOK'
          /\ Record(c) => TypeOK'
          /\ DeliveryFails(c) => TypeOK'
          /\ Lose(c) => TypeOK'
<1> DEFINE s == sending[c]
<1>1. ASSUME DeliverDue(c) PROVE TypeOK'
  <2>1. task' \in [Carriers -> Task]
    <3>1. PICK S \in SUBSET Ids : task' = [task EXCEPT ![c].due = S]
      BY <1>1 DEF DeliverDue
    <3>2. [task[c] EXCEPT !.due = S] \in Task
      BY DEF TypeOK, Task
    <3> QED
      BY <3>1, <3>2 DEF TypeOK
  <2> QED
    BY <1>1, <2>1 DEF DeliverDue, TypeOK, tables, history, bounds
<1>2. ASSUME DeliverNext(c) PROVE TypeOK'
  <2>1. PICK i \in task[c].due :
          /\ sending' = [sending EXCEPT ![c] = Start(i, Devices)]
          /\ task' = [task EXCEPT ![c] = After([task[c] EXCEPT !.due = @ \ {i}])]
    BY <1>2 DEF DeliverNext
  <2>2. i \in Ids /\ [task[c] EXCEPT !.due = @ \ {i}] \in Task
    BY DEF TypeOK, Task
  <2>3. task' \in [Carriers -> Task] /\ sending' \in [Carriers -> Delivery \cup {NoDelivery}]
    BY <2>1, <2>2, AfterType, StartType DEF TypeOK
  <2> QED
    BY <1>2, <2>3 DEF DeliverNext, TypeOK, tables, history, bounds
<1>3. ASSUME Read(c) PROVE TypeOK'
  <2> DEFINE mine == {b \in Browsers \cap s.only : subs[b].user = UserOf(s.id)}
             ph == {p \in Phones \cap s.only : <<UserOf(s.id), p>> \in tokens}
             bn == [b \in Browsers |-> IF b \in mine THEN subs[b].born ELSE 0]
  <2>1. s \in Delivery
    BY <1>3, SendingType DEF Read
  <2>2. bn \in [Browsers -> 0..MaxEdits]
    BY OutboxConstants DEF TypeOK, Sub
  <2>3. ph \in SUBSET Phones /\ mine \in SUBSET Browsers
    OBVIOUS
  <2> HIDE DEF mine, ph, bn
  <2>4. [s EXCEPT !.read = TRUE, !.phones = ph, !.webs = mine, !.born = bn] \in Delivery
    BY <2>1, <2>2, <2>3 DEF Delivery
  <2>5. sending' = [sending EXCEPT ![c] =
          [s EXCEPT !.read = TRUE, !.phones = ph, !.webs = mine, !.born = bn]]
    BY <1>3 DEF Read, mine, ph, bn
  <2>6. sending' \in [Carriers -> Delivery \cup {NoDelivery}]
    BY <2>4, <2>5 DEF TypeOK
  <2> QED
    BY <1>3, <2>6 DEF Read, TypeOK, tables, history, bounds
<1>4. ASSUME SendPhones(c) PROVE TypeOK'
  <2>1. s \in Delivery /\ s.phones \subseteq Phones /\ Sending(c)
    BY <1>4, SendingType DEF SendPhones, Delivery
  <2>2. PICK T \in SUBSET s.phones :
          /\ sending' = [sending EXCEPT ![c] =
               [s EXCEPT !.tried = @ \cup s.phones, !.took = @ \cup T]]
          /\ receipts' = receipts \cup {[phone |-> p, there |-> p \in works] : p \in T}
          /\ Heard(c, IF T # {} THEN {"phone"} ELSE {})
    BY <1>4 DEF SendPhones
  <2>3. [s EXCEPT !.tried = @ \cup s.phones, !.took = @ \cup T] \in Delivery
    BY <2>1 DEF Delivery, Devices
  <2>4. sending' \in [Carriers -> Delivery \cup {NoDelivery}]
    BY <2>2, <2>3 DEF TypeOK
  <2>5. receipts' \subseteq [phone: Phones, there: BOOLEAN]
    <3>1. \A p \in T : [phone |-> p, there |-> p \in works] \in [phone: Phones, there: BOOLEAN]
      BY <2>1
    <3> QED
      BY <2>2, <3>1 DEF TypeOK
  <2>6. (IF T # {} THEN {"phone"} ELSE {}) \in SUBSET Roads
    BY DEF Roads
  <2>7. roads' \in [Ids -> SUBSET Roads] /\ again' \subseteq Ids /\ woken' \in BOOLEAN
    BY <2>1, <2>2, <2>6, HeardType
  <2>8. overlooked' \subseteq Phones
    BY <1>4 DEF SendPhones, TypeOK
  <2> QED
    BY <1>4, <2>4, <2>5, <2>7, <2>8 DEF SendPhones, TypeOK, bounds
<1>5. ASSUME Sending(c) PROVE handheld(s) \subseteq Browsers /\ computers(s) \subseteq Browsers
  BY <1>5, SendingType, KindsAreBrowsers DEF Delivery
<1>6. ASSUME SendHandheld(c) PROVE TypeOK'
  BY <1>5, <1>6, SendWebType DEF SendHandheld
<1>7. ASSUME SendComputers(c) PROVE TypeOK'
  BY <1>5, <1>7, SendWebType DEF SendComputers
<1>8. ASSUME mailUndelivered(c) PROVE TypeOK'
  <2>1. s \in Delivery /\ Sending(c)
    BY <1>8, SendingType DEF mailUndelivered
  <2>2. PICK left \in {"sent", "not"} :
          /\ sending' = [sending EXCEPT ![c].letter = left]
          /\ Heard(c, IF left = "sent" THEN {"email"} ELSE {})
    BY <1>8 DEF mailUndelivered
  <2>3. [s EXCEPT !.letter = left] \in Delivery
    BY <2>1 DEF Delivery
  <2>4. sending' \in [Carriers -> Delivery \cup {NoDelivery}]
    BY <2>2, <2>3 DEF TypeOK
  <2>5. (IF left = "sent" THEN {"email"} ELSE {}) \in SUBSET Roads
    BY DEF Roads
  <2>6. roads' \in [Ids -> SUBSET Roads] /\ again' \subseteq Ids /\ woken' \in BOOLEAN
    BY <2>1, <2>2, <2>5, HeardType
  <2> QED
    BY <1>8, <2>4, <2>6 DEF mailUndelivered, TypeOK, tables, bounds
<1>9. ASSUME Record(c) PROVE TypeOK'
  <2>1. s.id \in Ids
    BY <1>9, SendingType DEF Record, Delivery
  <2>2. row' \in [Ids -> Row]
    BY <1>9, <2>1, OutcomeType, WriteType DEF Record
  <2>3. sending' \in [Carriers -> Delivery \cup {NoDelivery}]
    BY <1>9 DEF Record, TypeOK
  <2> QED
    BY <1>9, <2>2, <2>3 DEF Record, TypeOK, history, bounds
<1>10. ASSUME DeliveryFails(c) PROVE TypeOK'
  <2>1. s.id \in Ids /\ "failed" \in Settled
    BY <1>10, SendingType DEF DeliveryFails, Delivery, Settled
  <2>2. row' \in [Ids -> Row]
    BY <1>10, <2>1, ChannelType, WriteType DEF DeliveryFails, Failed
  <2>3. sending' \in [Carriers -> Delivery \cup {NoDelivery}]
    BY <1>10 DEF DeliveryFails, TypeOK
  <2>4. lost' \in 0..MaxLost
    BY <1>10, OutboxConstants DEF DeliveryFails, TypeOK
  <2> QED
    BY <1>10, <2>2, <2>3, <2>4 DEF DeliveryFails, TypeOK, history
<1>11. ASSUME Lose(c) PROVE TypeOK'
  <2>1. NoTask \in Task
    BY OutboxConstants DEF NoTask, Task, Asap
  <2>2. lost' \in 0..MaxLost
    BY <1>11, OutboxConstants DEF Lose, TypeOK
  <2> QED
    BY <1>11, <2>1, <2>2 DEF Lose, TypeOK, tables, history
<1> QED
  BY <1>1, <1>2, <1>3, <1>4, <1>6, <1>7, <1>8, <1>9, <1>10, <1>11

LEMMA EditType ==
    ASSUME TypeOK, Edit
    PROVE edits' \in 0..MaxEdits
BY OutboxConstants DEF Edit, TypeOK

LEMMA DevicesType ==
    ASSUME TypeOK
    PROVE /\ \A u \in Users, p \in Phones :
               (registerToken(u, p) \/ unregisterToken(u, p)) => TypeOK'
          /\ \A r \in Users \X Phones : registerTokenSave(r) \/ registerTokenLost(r) => TypeOK'
          /\ \A u \in Users, b \in Browsers : registerSubscription(u, b) => TypeOK'
          /\ \A b \in Browsers : removeSubscription(b) => TypeOK'
          /\ \A d \in Devices : Uninstall(d) => TypeOK'
          /\ \A u \in Users : setPreference(u) => TypeOK'
          /\ \A S \in SUBSET receipts : checkReceipts(S) => TypeOK'
          /\ deleteTokens \/ deleteTokensLost => TypeOK'
<1>1. ASSUME NEW u \in Users, NEW p \in Phones, registerToken(u, p) PROVE TypeOK'
  <2>1. edits' \in 0..MaxEdits
    BY <1>1, EditType DEF registerToken
  <2>2. crossed' \subseteq Devices
    BY <1>1 DEF registerToken, TypeOK, Devices
  <2>3. tokens' \subseteq Users \X Phones /\ registering' \subseteq Users \X Phones
    BY <1>1 DEF registerToken, WithoutOthers, TypeOK
  <2> QED
    BY <1>1, <2>1, <2>2, <2>3 DEF registerToken, TypeOK
<1>2. ASSUME NEW u \in Users, NEW p \in Phones, unregisterToken(u, p) PROVE TypeOK'
  BY <1>2, EditType DEF unregisterToken, TypeOK, history
<1>3. ASSUME NEW r \in Users \X Phones, registerTokenSave(r) \/ registerTokenLost(r)
      PROVE TypeOK'
  BY <1>3 DEF registerTokenSave, registerTokenLost, TypeOK, tables, history, bounds
<1>4. ASSUME NEW b \in Browsers, NEW u \in Everybody, HandOver(b, u)
      PROVE /\ holder' \in [Browsers -> Everybody] /\ crossed' \subseteq Devices
            /\ UNCHANGED <<roads, again, woken, overlooked>>
  BY <1>4 DEF HandOver, TypeOK, Devices
<1>5. ASSUME NEW u \in Users, NEW b \in Browsers, registerSubscription(u, b) PROVE TypeOK'
  <2>1. edits' \in 0..MaxEdits /\ edits + 1 \in 0..MaxEdits
    BY <1>5, EditType DEF registerSubscription, Edit
  <2>2. Signed(u, b) \in Sub
    BY <2>1 DEF Signed, Sub, TypeOK, Everybody
  <2>3. subs' \in [Browsers -> Sub]
    BY <1>5, <2>2 DEF registerSubscription, TypeOK
  <2>4. u \in Everybody
    BY DEF Everybody
  <2> QED
    BY <1>4, <1>5, <2>1, <2>3, <2>4 DEF registerSubscription, TypeOK
<1>6. ASSUME NEW b \in Browsers, removeSubscription(b) PROVE TypeOK'
  <2>1. Nobody \in Everybody
    BY DEF Everybody
  <2>2. subs' \in [Browsers -> Sub]
    <3>1. [subs[b] EXCEPT !.user = Nobody] \in Sub
      BY <2>1 DEF TypeOK, Sub
    <3> QED
      BY <1>6, <3>1 DEF removeSubscription, TypeOK
  <2> QED
    BY <1>4, <1>6, <2>1, <2>2, EditType DEF removeSubscription, TypeOK
<1>7. ASSUME NEW d \in Devices, Uninstall(d) PROVE TypeOK'
  BY <1>7, EditType DEF Uninstall, TypeOK, tables, history
<1>8. ASSUME NEW u \in Users, setPreference(u) PROVE TypeOK'
  BY <1>8, EditType DEF setPreference, TypeOK, history
<1>9. ASSUME NEW S \in SUBSET receipts, checkReceipts(S) PROVE TypeOK'
  <2>1. Gone(S) \subseteq Phones
    BY DEF Gone, TypeOK
  <2> QED
    BY <1>9, <2>1 DEF checkReceipts, TypeOK, history, bounds
<1>10. ASSUME deleteTokens PROVE TypeOK'
  BY <1>10 DEF deleteTokens, TypeOK, history, bounds
<1>11. ASSUME deleteTokensLost PROVE TypeOK'
  <2>1. lost' \in 0..MaxLost
    BY <1>11, OutboxConstants DEF deleteTokensLost, TypeOK
  <2> QED
    BY <1>11, <2>1 DEF deleteTokensLost, TypeOK, tables
<1> QED
  BY <1>1, <1>2, <1>3, <1>5, <1>6, <1>7, <1>8, <1>9, <1>10, <1>11

LEMMA TypeStep == TypeOK /\ [Next]_vars => TypeOK'
<1> SUFFICES ASSUME TypeOK, [Next]_vars PROVE TypeOK'
  OBVIOUS
<1>1. CASE Tick
  BY <1>1, OutboxConstants DEF Tick, TypeOK, Moments, tables, history, bounds
<1>2. CASE CleanupOld
  <2>1. row' \in [Ids -> Row]
    BY <1>2 DEF CleanupOld, TypeOK, Row
  <2> QED
    BY <1>2, <2>1 DEF CleanupOld, TypeOK, history, bounds
<1>3. CASE UNCHANGED vars
  BY <1>3 DEF vars, TypeOK, tables, history, bounds
<1> QED
  BY <1>1, <1>2, <1>3, NotifyType, DeliverType, DevicesType DEF Next, Carry

\* The outbox keeps its types: every row, delivery and table is what the columns
\* and the code's records allow.
THEOREM OutboxTypeCorrect == Spec => []TypeOK
<1> QED
  BY InitType, TypeStep, PTL DEF Spec

----------------------------------------------------------------------------
(* The ledger *)

\* What a delivery counts as taken was heard by that road.
Backed(s, R) ==
    /\ s.took \cap Phones # {} => "phone" \in R[s.id]
    /\ s.took \ Phones # {} => "web" \in R[s.id]
    /\ s.letter = "sent" => "email" \in R[s.id]

LedgerInv == SentMeansTaken /\ \A c \in Carriers : Sending(c) => Backed(sending[c], roads)

\* The ledger stays true as long as roads are only added, a row names no other
\* road than one that took it, and every delivery is backed.
LEMMA LedgerKept ==
    ASSUME TypeOK, LedgerInv,
           \A i \in Ids : roads[i] \subseteq roads'[i],
           \A i \in Ids : row'[i].channel \in {row[i].channel, "none"} \cup roads'[i],
           \A c \in Carriers : \/ sending'[c] \in {sending[c], NoDelivery}
                               \/ Backed(sending'[c], roads')
    PROVE LedgerInv'
<1>1. SentMeansTaken'
  BY DEF LedgerInv, SentMeansTaken
<1>2. ASSUME NEW c \in Carriers, Sending(c)' PROVE Backed(sending'[c], roads')
  <2>1. CASE sending'[c] = sending[c]
    <3>1. Sending(c) /\ Backed(sending[c], roads) /\ sending[c].id \in Ids
      BY <1>2, <2>1, SendingType DEF LedgerInv, Sending, Delivery
    <3> QED
      BY <2>1, <3>1 DEF Backed
  <2>2. CASE sending'[c] = NoDelivery
    BY <1>2, <2>2 DEF Sending
  <2> QED
    BY <2>1, <2>2
<1> QED
  BY <1>1, <1>2 DEF LedgerInv

\* A step that leaves rows, roads and deliveries alone.
LEMMA LedgerUntouched ==
    ASSUME TypeOK, LedgerInv, UNCHANGED <<row, roads>>,
           \A c \in Carriers : sending'[c] \in {sending[c], NoDelivery}
    PROVE LedgerInv'
BY LedgerKept

LEMMA StartBacked == ASSUME NEW i \in Ids, NEW only PROVE Backed(Start(i, only), roads')
BY DEF Backed, Start

\* Writing a status changes no other row's road.
LEMMA WriteChannel ==
    ASSUME TypeOK, NEW i \in Ids, NEW status, NEW channel, Write(i, status, channel)
    PROVE \A j \in Ids : row'[j].channel \in {row[j].channel} \cup (IF j = i THEN {channel} ELSE {})
<1>1. row[i] \in Row
  BY DEF TypeOK
<1>2. [row[i] EXCEPT !.status = status, !.channel = channel].channel = channel
  BY <1>1 DEF Row
<1> QED
  BY <1>2 DEF Write, TypeOK

LEMMA InsertChannel ==
    ASSUME TypeOK, NEW i \in Ids, NEW u, NEW k, NEW m, NEW hold, NEW asked,
           Insert(i, u, k, m, hold, asked)
    PROVE \A j \in Ids : row'[j].channel \in {row[j].channel, "none"}
BY DEF Insert, TypeOK

LEMMA HeardAdds ==
    ASSUME TypeOK, NEW c \in Carriers, Sending(c), NEW R, Heard(c, R)
    PROVE /\ \A i \in Ids : roads[i] \subseteq roads'[i]
          /\ R \subseteq roads'[sending[c].id] /\ roads[sending[c].id] \subseteq roads'[sending[c].id]
<1>1. sending[c].id \in Ids
  BY SendingType DEF Delivery
<1> QED
  BY <1>1 DEF Heard, TypeOK

\* What is written about a delivery names a road that took it.
LEMMA OutcomeBacked ==
    ASSUME NEW s, Backed(s, roads)
    PROVE outcome(s)[2] \in {"none"} \cup roads[s.id]
BY DEF outcome, Backed, byPhone

LEMMA SendWebLedger ==
    ASSUME TypeOK, LedgerInv, NEW c \in Carriers, Sending(c), NEW S, S \subseteq Browsers,
           SendWeb(c, S)
    PROVE LedgerInv'
<1> DEFINE s == sending[c]
<1>1. s \in Delivery /\ s.id \in Ids /\ Backed(s, roads)
  BY SendingType DEF Delivery, LedgerInv
<1>2. PICK T \in SUBSET (S \cap works) :
        /\ Heard(c, IF T # {} THEN {"web"} ELSE {})
        /\ IF \E b \in S \cap works : Clashes(s, b)
           THEN /\ Failed(s)
                /\ sending' = [sending EXCEPT ![c] = NoDelivery]
           ELSE /\ sending' = [sending EXCEPT ![c] =
                     [s EXCEPT !.tried = @ \cup S, !.took = @ \cup T]]
                /\ UNCHANGED row
  BY DEF SendWeb
<1>3. /\ \A i \in Ids : roads[i] \subseteq roads'[i]
      /\ T # {} => "web" \in roads'[s.id]
      /\ roads[s.id] \subseteq roads'[s.id]
  BY <1>2, HeardAdds
<1>4. \A i \in Ids : row'[i].channel \in {row[i].channel, "none"} \cup roads'[i]
  <2>1. CASE \E b \in S \cap works : Clashes(s, b)
    <3>1. PICK channel \in {row[s.id].channel, "none"} : Write(s.id, "failed", channel)
      BY <1>2, <2>1 DEF Failed
    <3> QED
      BY <1>1, <3>1, WriteChannel
  <2>2. CASE ~\E b \in S \cap works : Clashes(s, b)
    BY <1>2, <2>2
  <2> QED
    BY <2>1, <2>2
<1>5. T \cap Phones = {}
  BY OutboxConstants
<1> DEFINE n == [s EXCEPT !.tried = @ \cup S, !.took = @ \cup T]
<1>6. n.took = s.took \cup T /\ n.id = s.id /\ n.letter = s.letter
  BY <1>1 DEF Delivery
<1> HIDE DEF n
<1>7. Backed(n, roads')
  BY <1>1, <1>3, <1>5, <1>6 DEF Backed
<1>8. \A q \in Carriers : \/ sending'[q] \in {sending[q], NoDelivery}
                          \/ Backed(sending'[q], roads')
  BY <1>2, <1>7 DEF TypeOK, n
<1> QED
  BY <1>3, <1>4, <1>8, LedgerKept

LEMMA NotifyLedger ==
    ASSUME TypeOK, LedgerInv, NEW c \in Carriers
    PROVE /\ \A x \in Calls : NotifyBegin(c, x) => LedgerInv'
          /\ \A u \in Users : NotifySkip(c, u) => LedgerInv'
          /\ \A u \in Users : NotifyInsert(c, u) => LedgerInv'
          /\ \A x \in Tests : sendTest(c, x) => LedgerInv'
<1>1. ASSUME NEW x \in Calls, NotifyBegin(c, x) PROVE LedgerInv'
  BY <1>1, LedgerUntouched DEF NotifyBegin, tables, history
<1>2. ASSUME NEW u \in Users, NotifySkip(c, u) PROVE LedgerInv'
  BY <1>2, LedgerUntouched DEF NotifySkip, tables, history
<1>3. ASSUME NEW i \in Ids, NEW u, NEW k, NEW m, NEW hold, NEW asked, NEW only,
             Insert(i, u, k, m, hold, asked), UNCHANGED roads,
             sending' \in {sending, [sending EXCEPT ![c] = Start(i, only)]}
      PROVE LedgerInv'
  <2>1. \A q \in Carriers : \/ sending'[q] \in {sending[q], NoDelivery}
                            \/ Backed(sending'[q], roads')
    BY <1>3, StartBacked DEF TypeOK
  <2> QED
    BY <1>3, <2>1, InsertChannel, LedgerKept
<1>4. ASSUME NEW u \in Users, NotifyInsert(c, u) PROVE LedgerInv'
  <2>1. PICK i \in Ids :
          /\ Insert(i, u, task[c].key, task[c].mail, task[c].hold, task[c].asked)
          /\ sending' = IF task[c].hold = Asap
                        THEN [sending EXCEPT ![c] = Start(i, Devices)] ELSE sending
    BY <1>4 DEF NotifyInsert
  <2> QED
    BY <1>3, <1>4, <2>1 DEF NotifyInsert, history
<1>5. ASSUME NEW x \in Tests, sendTest(c, x) PROVE LedgerInv'
  <2>1. PICK i \in Ids : /\ Insert(i, x.user, NoKey, FALSE, Asap, 0)
                         /\ sending' = [sending EXCEPT ![c] = Start(i, x.only)]
    BY <1>5 DEF sendTest
  <2> QED
    BY <1>3, <1>5, <2>1 DEF sendTest, history
<1> QED
  BY <1>1, <1>2, <1>4, <1>5

LEMMA DeliverLedger ==
    ASSUME TypeOK, LedgerInv, NEW c \in Carriers
    PROVE /\ DeliverDue(c) => LedgerInv'
          /\ DeliverNext(c) => LedgerInv'
          /\ Read(c) => LedgerInv'
          /\ SendPhones(c) => LedgerInv'
          /\ SendHandheld(c) => LedgerInv'
          /\ SendComputers(c) => LedgerInv'
          /\ mailUndelivered(c) => LedgerInv'
          /\ Record(c) => LedgerInv'
          /\ DeliveryFails(c) => LedgerInv'
          /\ Lose(c) => LedgerInv'
<1> DEFINE s == sending[c]
<1>1. ASSUME DeliverDue(c) PROVE LedgerInv'
  BY <1>1, LedgerUntouched DEF DeliverDue, tables, history
\* A delivery that goes on, with rows and roads as they are.
<1>2. ASSUME NEW n, sending' = [sending EXCEPT ![c] = n], Backed(n, roads'),
             UNCHANGED row, \A i \in Ids : roads[i] \subseteq roads'[i]
      PROVE LedgerInv'
  <2>1. \A q \in Carriers : \/ sending'[q] \in {sending[q], NoDelivery}
                            \/ Backed(sending'[q], roads')
    BY <1>2 DEF TypeOK
  <2> QED
    BY <1>2, <2>1, LedgerKept
<1>3. ASSUME DeliverNext(c) PROVE LedgerInv'
  <2>1. PICK i \in task[c].due : sending' = [sending EXCEPT ![c] = Start(i, Devices)]
    BY <1>3 DEF DeliverNext
  <2>2. i \in Ids
    BY DEF TypeOK, Task
  <2> QED
    BY <1>2, <1>3, <2>1, <2>2, StartBacked DEF DeliverNext, tables, history
<1>4. ASSUME Sending(c) PROVE s \in Delivery /\ s.id \in Ids /\ Backed(s, roads)
  BY <1>4, SendingType DEF Delivery, LedgerInv
<1>5. ASSUME Read(c) PROVE LedgerInv'
  <2>1. PICK ph, mine, bn : sending' = [sending EXCEPT ![c] =
          [s EXCEPT !.read = TRUE, !.phones = ph, !.webs = mine, !.born = bn]]
    BY <1>5 DEF Read
  <2> DEFINE n == [s EXCEPT !.read = TRUE, !.phones = ph, !.webs = mine, !.born = bn]
  <2>2. n.took = s.took /\ n.id = s.id /\ n.letter = s.letter
    BY <1>4, <1>5 DEF Delivery, Read
  <2> HIDE DEF n
  <2>3. UNCHANGED <<row, roads>>
    BY <1>5 DEF Read, tables, history
  <2>4. Backed(n, roads')
    BY <1>4, <1>5, <2>2, <2>3 DEF Backed, Read
  <2> QED
    BY <1>2, <2>1, <2>3, <2>4 DEF n
<1>6. ASSUME SendPhones(c) PROVE LedgerInv'
  <2>1. PICK T \in SUBSET s.phones :
          /\ sending' = [sending EXCEPT ![c] =
               [s EXCEPT !.tried = @ \cup s.phones, !.took = @ \cup T]]
          /\ Heard(c, IF T # {} THEN {"phone"} ELSE {})
    BY <1>6 DEF SendPhones
  <2> DEFINE n == [s EXCEPT !.tried = @ \cup s.phones, !.took = @ \cup T]
  <2>2. Sending(c) /\ T \subseteq Phones
    BY <1>4, <1>6 DEF SendPhones, Delivery
  <2>3. n.took = s.took \cup T /\ n.id = s.id /\ n.letter = s.letter
    BY <1>4, <2>2 DEF Delivery
  <2> HIDE DEF n
  <2>4. /\ \A i \in Ids : roads[i] \subseteq roads'[i]
        /\ T # {} => "phone" \in roads'[s.id]
        /\ roads[s.id] \subseteq roads'[s.id]
    BY <2>1, <2>2, HeardAdds
  <2>5. Backed(n, roads')
    BY <1>4, <2>2, <2>3, <2>4 DEF Backed
  <2> QED
    BY <1>2, <1>6, <2>1, <2>4, <2>5 DEF n, SendPhones
<1>7. ASSUME Sending(c) PROVE handheld(s) \subseteq Browsers /\ computers(s) \subseteq Browsers
  BY <1>7, SendingType, KindsAreBrowsers DEF Delivery
<1>8. ASSUME SendHandheld(c) PROVE LedgerInv'
  BY <1>7, <1>8, SendWebLedger DEF SendHandheld
<1>9. ASSUME SendComputers(c) PROVE LedgerInv'
  BY <1>7, <1>9, SendWebLedger DEF SendComputers
<1>10. ASSUME mailUndelivered(c) PROVE LedgerInv'
  <2>1. PICK left \in {"sent", "not"} :
          /\ sending' = [sending EXCEPT ![c].letter = left]
          /\ Heard(c, IF left = "sent" THEN {"email"} ELSE {})
    BY <1>10 DEF mailUndelivered
  <2> DEFINE n == [s EXCEPT !.letter = left]
  <2>2. Sending(c) /\ n.took = s.took /\ n.id = s.id /\ n.letter = left
    BY <1>4, <1>10 DEF Delivery, mailUndelivered
  <2>3. sending' = [sending EXCEPT ![c] = n]
    BY <2>1
  <2> HIDE DEF n
  <2>4. /\ \A i \in Ids : roads[i] \subseteq roads'[i]
        /\ left = "sent" => "email" \in roads'[s.id]
        /\ roads[s.id] \subseteq roads'[s.id]
    BY <2>1, <2>2, HeardAdds
  <2>5. Backed(n, roads')
    BY <1>4, <2>2, <2>4 DEF Backed
  <2> QED
    BY <1>2, <1>10, <2>3, <2>4, <2>5 DEF mailUndelivered, tables
\* A delivery that ends, and what it writes down.
<1>11. ASSUME NEW status, NEW channel, Sending(c), Write(s.id, status, channel),
              channel \in {"none", row[s.id].channel} \cup roads[s.id],
              sending' = [sending EXCEPT ![c] = NoDelivery], UNCHANGED roads
       PROVE LedgerInv'
  <2>1. \A i \in Ids : row'[i].channel \in {row[i].channel, "none"} \cup roads'[i]
    BY <1>4, <1>11, WriteChannel
  <2>2. \A q \in Carriers : sending'[q] \in {sending[q], NoDelivery}
    BY <1>11 DEF TypeOK
  <2> QED
    BY <1>11, <2>1, <2>2, LedgerKept
<1>12. ASSUME Record(c) PROVE LedgerInv'
  <2>1. Sending(c) /\ outcome(s)[2] \in {"none"} \cup roads[s.id]
    BY <1>4, <1>12, OutcomeBacked DEF Record
  <2> QED
    BY <1>11, <1>12, <2>1 DEF Record, history
<1>13. ASSUME DeliveryFails(c) PROVE LedgerInv'
  BY <1>11, <1>13 DEF DeliveryFails, Failed, history
<1>14. ASSUME Lose(c) PROVE LedgerInv'
  <2>1. \A q \in Carriers : sending'[q] \in {sending[q], NoDelivery}
    BY <1>14 DEF Lose, TypeOK
  <2> QED
    BY <1>14, <2>1, LedgerUntouched DEF Lose, tables, history
<1> QED
  BY <1>1, <1>3, <1>5, <1>6, <1>8, <1>9, <1>10, <1>12, <1>13, <1>14

LEMMA LedgerStep == TypeOK /\ LedgerInv /\ [Next]_vars => LedgerInv'
<1> SUFFICES ASSUME TypeOK, LedgerInv, [Next]_vars PROVE LedgerInv'
  OBVIOUS
<1>1. CASE Tick
  BY <1>1, LedgerUntouched DEF Tick, tables, history
<1>2. CASE CleanupOld
  <2>1. \A i \in Ids : row'[i].channel = row[i].channel
    BY <1>2 DEF CleanupOld, TypeOK, Row
  <2> QED
    BY <1>2, <2>1, LedgerKept DEF CleanupOld, history
<1>3. CASE UNCHANGED vars
  BY <1>3, LedgerUntouched DEF vars, tables, history
<1>4. ASSUME NEW u \in Users, NEW p \in Phones, registerToken(u, p) \/ unregisterToken(u, p)
      PROVE LedgerInv'
  BY <1>4, LedgerUntouched DEF registerToken, unregisterToken, history
<1>5. ASSUME NEW r, registerTokenSave(r) \/ registerTokenLost(r) PROVE LedgerInv'
  BY <1>5, LedgerUntouched DEF registerTokenSave, registerTokenLost, tables, history
<1>6. ASSUME NEW b \in Browsers, (\E u \in Users : registerSubscription(u, b)) \/ removeSubscription(b)
      PROVE LedgerInv'
  BY <1>6, LedgerUntouched DEF registerSubscription, removeSubscription, HandOver
<1>7. ASSUME NEW d, Uninstall(d) PROVE LedgerInv'
  BY <1>7, LedgerUntouched DEF Uninstall, tables, history
<1>8. ASSUME NEW u, setPreference(u) PROVE LedgerInv'
  BY <1>8, LedgerUntouched DEF setPreference, history
<1>9. ASSUME NEW S, checkReceipts(S) \/ deleteTokens \/ deleteTokensLost PROVE LedgerInv'
  BY <1>9, LedgerUntouched DEF checkReceipts, deleteTokens, deleteTokensLost, tables, history
<1> QED
  BY <1>1, <1>2, <1>3, <1>4, <1>5, <1>6, <1>7, <1>8, <1>9, NotifyLedger, DeliverLedger
     DEF Next, Carry

\* Every road the ledger names did take the message, however deliveries of one
\* row overlap and wherever one of them breaks off.
THEOREM LedgerIsTrue == Spec => []SentMeansTaken
<1>1. Init => LedgerInv
  BY DEF Init, LedgerInv, SentMeansTaken, Sending, NoRow
<1>2. LedgerInv => SentMeansTaken
  BY DEF LedgerInv
<1> QED
  BY <1>1, <1>2, LedgerStep, OutboxTypeCorrect, PTL DEF Spec

----------------------------------------------------------------------------
(* The phones *)

\* A registration under way counts as a row already: it will be one.
PhonesInv ==
    \A s, t \in tokens \cup registering : s[2] = t[2] /\ s[2] \notin crossed => s = t

\* Only rows go, and nothing happens to a phone's mark.
LEMMA PhonesShrink ==
    ASSUME PhonesInv, TypeOK, tokens' \subseteq tokens, UNCHANGED registering,
           \A p \in Phones : p \in crossed' <=> p \in crossed
    PROVE PhonesInv'
BY DEF PhonesInv, TypeOK

LEMMA PhonesUntouched ==
    ASSUME PhonesInv, UNCHANGED <<tokens, registering, crossed>>
    PROVE PhonesInv'
BY DEF PhonesInv

LEMMA CarryKeepsDevices ==
    ASSUME NEW c \in Carriers, Carry(c)
    PROVE UNCHANGED <<muted, tokens, registering, works, holder, crossed>>
<1>1. CASE \E u \in Users : NotifySkip(c, u) \/ NotifyInsert(c, u)
  BY <1>1 DEF NotifySkip, NotifyInsert, tables, history
<1>2. CASE DeliverNext(c)
  BY <1>2 DEF DeliverNext, tables, history
<1>3. CASE Read(c)
  BY <1>3 DEF Read, tables, history
<1>4. CASE SendPhones(c)
  BY <1>4 DEF SendPhones
<1>5. CASE SendHandheld(c) \/ SendComputers(c)
  BY <1>5 DEF SendHandheld, SendComputers, SendWeb
<1>6. CASE mailUndelivered(c)
  BY <1>6 DEF mailUndelivered, tables
<1>7. CASE Record(c)
  BY <1>7 DEF Record, history
<1> QED
  BY <1>1, <1>2, <1>3, <1>4, <1>5, <1>6, <1>7 DEF Carry

LEMMA BeginKeepsDevices ==
    ASSUME NEW c \in Carriers,
           \/ \E x \in Calls : NotifyBegin(c, x)
           \/ \E x \in Tests : sendTest(c, x)
           \/ DeliverDue(c) \/ DeliveryFails(c) \/ Lose(c)
    PROVE UNCHANGED <<muted, tokens, subs, registering, works, holder, crossed>>
BY DEF NotifyBegin, sendTest, DeliverDue, DeliveryFails, Lose, tables, history

LEMMA PhonesStep == TypeOK /\ PhonesInv /\ [Next]_vars => PhonesInv'
<1> SUFFICES ASSUME TypeOK, PhonesInv, [Next]_vars PROVE PhonesInv'
  OBVIOUS
<1>1. CASE Tick \/ CleanupOld
  BY <1>1, PhonesUntouched DEF Tick, CleanupOld, tables, history
<1>2. CASE UNCHANGED vars
  BY <1>2, PhonesUntouched DEF vars, tables, history
<1>3. ASSUME NEW c \in Carriers, Carry(c) PROVE PhonesInv'
  BY <1>3, CarryKeepsDevices, PhonesUntouched
<1>4. ASSUME NEW c \in Carriers,
             \/ \E x \in Calls : NotifyBegin(c, x)
             \/ \E x \in Tests : sendTest(c, x)
             \/ DeliverDue(c) \/ DeliveryFails(c) \/ Lose(c)
      PROVE PhonesInv'
  BY <1>4, BeginKeepsDevices, PhonesUntouched
\* The rows of others go before the registration is under way; if another one
\* is, the phone is marked.
<1>5. ASSUME NEW u \in Users, NEW p \in Phones, registerToken(u, p) PROVE PhonesInv'
  <2>1. /\ tokens' = {t \in tokens : t[2] = p => t[1] = u}
        /\ registering' = registering \cup {<<u, p>>}
        /\ crossed' = IF \E r \in registering : r[2] = p THEN crossed \cup {p} ELSE crossed \ {p}
    BY <1>5 DEF registerToken, WithoutOthers
  <2> SUFFICES ASSUME NEW s \in tokens' \cup registering', NEW t \in tokens' \cup registering',
                      s[2] = t[2], s[2] \notin crossed'
               PROVE s = t
    BY DEF PhonesInv
  <2>2. CASE s[2] = p
    <3>1. ~\E r \in registering : r[2] = p
      BY <2>1, <2>2
    <3>2. \A x \in tokens' \cup registering' : x[2] = p => x = <<u, p>>
      BY <2>1, <3>1 DEF TypeOK
    <3> QED
      BY <2>2, <3>2
  <2>3. CASE s[2] # p
    <3>1. s \in tokens \cup registering /\ t \in tokens \cup registering /\ s[2] \notin crossed
      BY <2>1, <2>3
    <3> QED
      BY <3>1 DEF PhonesInv
  <2> QED
    BY <2>2, <2>3
<1>6. ASSUME NEW r \in Users \X Phones, registerTokenSave(r) \/ registerTokenLost(r)
      PROVE PhonesInv'
  <2>1. /\ tokens' \cup registering' \subseteq tokens \cup registering
        /\ crossed' = crossed
    BY <1>6 DEF registerTokenSave, registerTokenLost, tables, history
  <2> QED
    BY <2>1 DEF PhonesInv
<1>7. ASSUME NEW u \in Users, NEW p \in Phones, unregisterToken(u, p) PROVE PhonesInv'
  BY <1>7, PhonesShrink DEF unregisterToken, history
<1>8. ASSUME NEW b \in Browsers, (\E u \in Users : registerSubscription(u, b)) \/ removeSubscription(b)
      PROVE PhonesInv'
  <2>1. \A p \in Phones : p \in crossed' <=> p \in crossed
    BY <1>8, OutboxConstants DEF registerSubscription, removeSubscription, HandOver
  <2>2. UNCHANGED <<tokens, registering>>
    BY <1>8 DEF registerSubscription, removeSubscription
  <2> QED
    BY <2>1, <2>2, PhonesShrink
<1>9. ASSUME NEW d, Uninstall(d) PROVE PhonesInv'
  BY <1>9, PhonesUntouched DEF Uninstall, tables, history
<1>10. ASSUME NEW u, setPreference(u) PROVE PhonesInv'
  BY <1>10, PhonesUntouched DEF setPreference, history
<1>11. ASSUME NEW S, checkReceipts(S) \/ deleteTokens \/ deleteTokensLost PROVE PhonesInv'
  BY <1>11, PhonesShrink DEF checkReceipts, deleteTokens, deleteTokensLost, tables, history
<1> QED
  BY <1>1, <1>2, <1>3, <1>4, <1>5, <1>6, <1>7, <1>8, <1>9, <1>10, <1>11 DEF Next

\* "Whoever registers the token now owns it alone", for any number of people and
\* phones: two rows of one phone come only from registrations that ran into each
\* other, and the next one by itself clears them.
THEOREM PhoneIsOnePersons == Spec => []OnePersonAPhone
<1>1. Init => PhonesInv
  <2> SUFFICES ASSUME Init PROVE PhonesInv
    OBVIOUS
  <2>1. \A s, t \in tokens : s[2] = t[2] => s = t
    BY OutboxConstants DEF Init
  <2> QED
    BY <2>1 DEF Init, PhonesInv
<1>2. PhonesInv => OnePersonAPhone
  BY DEF PhonesInv, OnePersonAPhone
<1> QED
  BY <1>1, <1>2, PhonesStep, OutboxTypeCorrect, PTL DEF Spec

----------------------------------------------------------------------------
(* The browsers *)

\* What a delivery holds of a browser that did not change hands under it is
\* still the row of the table.
Held(s, b, T, h, R) == b \in s.webs => T[b].born = s.born[b] /\ h[b] = R[s.id].user
Steady == (Browsers \cap works) \ crossed

BrowsersInv ==
    /\ BrowserIsTheLastUsers
    /\ \A c \in Carriers : Sending(c) =>
          \A b \in Steady : Held(sending[c], b, subs, holder, row)

\* A delivery is of a row that was written, and so is what a pass has before it.
RowsWritten ==
    /\ \A c \in Carriers : Sending(c) => row[sending[c].id].status # "none"
    /\ \A c \in Carriers : \A i \in task[c].due : row[i].status # "none"

\* A row that was written keeps its person and its hours and is never unwritten.
RowsStay == \A i \in Ids : row[i].status # "none" =>
                 /\ row'[i].user = row[i].user
                 /\ row'[i].notBefore = row[i].notBefore
                 /\ row'[i].raised = row[i].raised
                 /\ row'[i].status # "none"

LEMMA WriteStays ==
    ASSUME TypeOK, NEW i \in Ids, NEW status, status # "none", NEW channel,
           Write(i, status, channel)
    PROVE RowsStay
<1>1. row[i] \in Row
  BY DEF TypeOK
<1>2. /\ [row[i] EXCEPT !.status = status, !.channel = channel].user = row[i].user
      /\ [row[i] EXCEPT !.status = status, !.channel = channel].notBefore = row[i].notBefore
      /\ [row[i] EXCEPT !.status = status, !.channel = channel].raised = row[i].raised
      /\ [row[i] EXCEPT !.status = status, !.channel = channel].status = status
  BY <1>1 DEF Row
<1> QED
  BY <1>2 DEF Write, TypeOK, RowsStay

LEMMA InsertStays ==
    ASSUME TypeOK, NEW i \in Ids, IsNew(i), NEW u, NEW k, NEW m, NEW hold, NEW asked,
           Insert(i, u, k, m, hold, asked)
    PROVE RowsStay /\ row'[i].status # "none"
BY DEF IsNew, Insert, TypeOK, RowsStay

LEMMA CarryRows ==
    ASSUME TypeOK, RowsWritten, NEW c \in Carriers, Carry(c)
    PROVE RowsStay /\ RowsWritten'
<1> DEFINE s == sending[c]
<1>1. ASSUME RowsStay,
             \A q \in Carriers : \/ sending'[q] = NoDelivery
                                 \/ Sending(q) /\ sending'[q].id = sending[q].id
                                 \/ sending'[q].id \in Ids /\ row'[sending'[q].id].status # "none",
             \A q \in Carriers : task'[q].due \subseteq task[q].due
      PROVE RowsWritten'
  <2>1. \A q \in Carriers : Sending(q) => sending[q].id \in Ids
    BY SendingType DEF Delivery
  <2>2. \A q \in Carriers : task[q].due \subseteq Ids
    BY DEF TypeOK, Task
  <2> QED
    BY <1>1, <2>1, <2>2 DEF RowsWritten, RowsStay, Sending
<1>2. ASSUME NEW t \in Task PROVE After(t).due \subseteq t.due
  BY <1>2 DEF After, NoTask
<1>3. \A u : task[c] \in Task /\ Without(task[c], u) \in Task /\ Without(task[c], u).due = task[c].due
  BY DEF TypeOK, Task, Without
<1>4. CASE \E u \in Users : NotifySkip(c, u)
  <2>1. PICK u \in Users : NotifySkip(c, u)
    BY <1>4
  <2>2. task' = [task EXCEPT ![c] = After(Without(task[c], u))] /\ UNCHANGED <<row, sending>>
    BY <2>1 DEF NotifySkip, tables
  <2>3. \A q \in Carriers : task'[q].due \subseteq task[q].due
    BY <1>2, <1>3, <2>2 DEF TypeOK
  <2>4. RowsStay
    BY <2>2 DEF RowsStay
  <2> QED
    BY <1>1, <2>2, <2>3, <2>4 DEF Sending
<1>5. CASE \E u \in Users : NotifyInsert(c, u)
  <2>1. PICK u \in Users, i \in Ids :
          /\ IsNew(i)
          /\ Insert(i, u, task[c].key, task[c].mail, task[c].hold, task[c].asked)
          /\ sending' = IF task[c].hold = Asap
                        THEN [sending EXCEPT ![c] = Start(i, Devices)] ELSE sending
          /\ task' = [task EXCEPT ![c] = After(Without(task[c], u))]
    BY <1>5 DEF NotifyInsert
  <2>2. RowsStay /\ row'[i].status # "none"
    BY <2>1, InsertStays
  <2>3. \A q \in Carriers : task'[q].due \subseteq task[q].due
    BY <1>2, <1>3, <2>1 DEF TypeOK
  <2>4. Start(i, Devices).id = i
    BY DEF Start
  <2>5. \A q \in Carriers : sending'[q] = sending[q] \/ sending'[q] = Start(i, Devices)
    BY <2>1 DEF TypeOK
  <2> QED
    BY <1>1, <2>2, <2>3, <2>4, <2>5 DEF Sending
<1>6. CASE DeliverNext(c)
  <2>1. PICK i \in task[c].due :
          /\ sending' = [sending EXCEPT ![c] = Start(i, Devices)]
          /\ task' = [task EXCEPT ![c] = After([task[c] EXCEPT !.due = @ \ {i}])]
          /\ row' = row
    BY <1>6 DEF DeliverNext, tables
  <2> DEFINE t == [task[c] EXCEPT !.due = @ \ {i}]
  <2>2. t \in Task /\ t.due \subseteq task[c].due
    BY DEF TypeOK, Task
  <2>3. \A q \in Carriers : task'[q].due \subseteq task[q].due
    <3>1. task' = [task EXCEPT ![c] = After(t)]
      BY <2>1
    <3> HIDE DEF t
    <3>2. After(t).due \subseteq task[c].due
      BY <1>2, <2>2
    <3> QED
      BY <3>1, <3>2 DEF TypeOK
  <2>4. RowsStay
    BY <2>1 DEF RowsStay
  <2>5. Start(i, Devices).id = i /\ i \in Ids /\ row'[i].status # "none"
    BY <2>1 DEF Start, TypeOK, Task, RowsWritten
  <2>6. \A q \in Carriers : sending'[q] = sending[q] \/ sending'[q] = Start(i, Devices)
    BY <2>1 DEF TypeOK
  <2> QED
    BY <1>1, <2>3, <2>4, <2>5, <2>6 DEF Sending
\* The steps of a delivery: it goes on with the same row, or ends.
<1>7. ASSUME Sending(c), RowsStay, UNCHANGED task,
             \E n : sending' = [sending EXCEPT ![c] = n] /\ (n = NoDelivery \/ n.id = s.id)
      PROVE RowsWritten'
  <2>1. \A q \in Carriers : \/ sending'[q] = NoDelivery
                            \/ Sending(q) /\ sending'[q].id = sending[q].id
    BY <1>7 DEF TypeOK, Sending
  <2> QED
    BY <1>1, <1>7, <2>1
<1>8. ASSUME row' = row PROVE RowsStay
  BY <1>8 DEF RowsStay
<1>9. Sending(c) => s \in Delivery /\ s.id \in Ids
  BY SendingType DEF Delivery
<1>10. CASE Read(c)
  <2>1. PICK ph, mine, bn : sending' = [sending EXCEPT ![c] =
          [s EXCEPT !.read = TRUE, !.phones = ph, !.webs = mine, !.born = bn]]
    BY <1>10 DEF Read
  <2>2. [s EXCEPT !.read = TRUE, !.phones = ph, !.webs = mine, !.born = bn].id = s.id
    BY <1>9, <1>10 DEF Delivery, Read
  <2> QED
    BY <1>7, <1>8, <1>10, <2>1, <2>2 DEF Read, tables
<1>11. CASE SendPhones(c)
  <2>1. PICK T : sending' = [sending EXCEPT ![c] =
                   [s EXCEPT !.tried = @ \cup s.phones, !.took = @ \cup T]]
    BY <1>11 DEF SendPhones
  <2>2. [s EXCEPT !.tried = @ \cup s.phones, !.took = @ \cup T].id = s.id
    BY <1>9, <1>11 DEF Delivery, SendPhones
  <2> QED
    BY <1>7, <1>8, <1>11, <2>1, <2>2 DEF SendPhones
<1>12. ASSUME NEW S, Sending(c), SendWeb(c, S) PROVE RowsStay /\ RowsWritten'
  <2>1. PICK T :
          IF \E b \in S \cap works : Clashes(s, b)
          THEN /\ Failed(s)
               /\ sending' = [sending EXCEPT ![c] = NoDelivery]
          ELSE /\ sending' = [sending EXCEPT ![c] =
                    [s EXCEPT !.tried = @ \cup S, !.took = @ \cup T]]
               /\ UNCHANGED row
    BY <1>12 DEF SendWeb
  <2>2. [s EXCEPT !.tried = @ \cup S, !.took = @ \cup T].id = s.id
    BY <1>9, <1>12 DEF Delivery
  <2>3. RowsStay
    BY <1>8, <1>9, <1>12, <2>1, WriteStays DEF Failed
  <2> QED
    BY <1>7, <1>12, <2>1, <2>2, <2>3 DEF SendWeb
<1>13. CASE SendHandheld(c) \/ SendComputers(c)
  BY <1>12, <1>13 DEF SendHandheld, SendComputers
<1>14. CASE mailUndelivered(c)
  <2>1. PICK left : sending' = [sending EXCEPT ![c] = [s EXCEPT !.letter = left]]
    BY <1>14 DEF mailUndelivered
  <2>2. [s EXCEPT !.letter = left].id = s.id
    BY <1>9, <1>14 DEF Delivery, mailUndelivered
  <2> QED
    BY <1>7, <1>8, <1>14, <2>1, <2>2 DEF mailUndelivered, tables
<1>15. CASE Record(c)
  <2>1. outcome(s)[1] # "none"
    BY DEF outcome
  <2>2. RowsStay
    BY <1>9, <1>15, <2>1, WriteStays DEF Record
  <2> QED
    BY <1>7, <1>15, <2>2 DEF Record
<1> QED
  BY <1>4, <1>5, <1>6, <1>10, <1>11, <1>13, <1>14, <1>15 DEF Carry

LEMMA RowsStep == TypeOK /\ RowsWritten /\ [Next]_vars => RowsStay /\ RowsWritten'
<1> SUFFICES ASSUME TypeOK, RowsWritten, [Next]_vars PROVE RowsStay /\ RowsWritten'
  OBVIOUS
<1>1. ASSUME UNCHANGED <<row, sending>>, \A q \in Carriers : task'[q].due \subseteq task[q].due
      PROVE RowsStay /\ RowsWritten'
  BY <1>1 DEF RowsStay, RowsWritten, Sending
<1>2. CASE Tick \/ UNCHANGED vars
  BY <1>1, <1>2 DEF Tick, vars, tables
<1>3. CASE CleanupOld
  <2>1. RowsStay
    BY <1>3 DEF CleanupOld, RowsStay, TypeOK, Row
  <2>2. \A q \in Carriers : Sending(q) => sending[q].id \in Ids
    BY SendingType DEF Delivery
  <2>3. \A q \in Carriers : task[q].due \subseteq Ids
    BY DEF TypeOK, Task
  <2> QED
    BY <1>3, <2>1, <2>2, <2>3 DEF CleanupOld, RowsWritten, Sending, RowsStay
<1>4. ASSUME NEW c \in Carriers, NEW x \in Calls, NotifyBegin(c, x) PROVE RowsStay /\ RowsWritten'
  <2>1. PICK hold \in 0..Last : task' = [task EXCEPT ![c] =
              After([to |-> x.to, due |-> {}, key |-> x.key, mail |-> x.mail,
                     hold |-> hold, asked |-> IF x.urgent THEN 0 ELSE now, deaf |-> muted])]
    BY <1>4 DEF NotifyBegin
  <2>2. After([to |-> x.to, due |-> {}, key |-> x.key, mail |-> x.mail,
               hold |-> hold, asked |-> IF x.urgent THEN 0 ELSE now, deaf |-> muted]).due = {}
    BY DEF After, NoTask
  <2>3. \A q \in Carriers : task'[q].due \subseteq task[q].due
    BY <2>1, <2>2 DEF TypeOK
  <2> QED
    BY <1>1, <1>4, <2>3 DEF NotifyBegin, tables
<1>5. ASSUME NEW c \in Carriers, NEW x \in Tests, sendTest(c, x) PROVE RowsStay /\ RowsWritten'
  <2>1. PICK i \in Ids : /\ IsNew(i)
                         /\ Insert(i, x.user, NoKey, FALSE, Asap, 0)
                         /\ sending' = [sending EXCEPT ![c] = Start(i, x.only)]
    BY <1>5 DEF sendTest
  <2>2. RowsStay /\ row'[i].status # "none"
    BY <2>1, InsertStays
  <2>3. \A q \in Carriers : \/ sending'[q] = sending[q]
                            \/ sending'[q].id = i
    BY <2>1 DEF TypeOK, Start
  <2>4. \A q \in Carriers : Sending(q) => sending[q].id \in Ids
    BY SendingType DEF Delivery
  <2>5. \A q \in Carriers : task[q].due \subseteq Ids
    BY DEF TypeOK, Task
  <2> QED
    BY <1>5, <2>2, <2>3, <2>4, <2>5 DEF sendTest, RowsWritten, Sending, RowsStay
<1>6. ASSUME NEW c \in Carriers, DeliverDue(c) PROVE RowsStay /\ RowsWritten'
  <2>1. UNCHANGED <<row, sending>>
    BY <1>6 DEF DeliverDue, tables
  <2>2. \A q \in Carriers : task'[q].due \subseteq task[q].due \cup {i \in Ids : Due(i)}
    BY <1>6 DEF DeliverDue, TypeOK, Task
  <2> QED
    BY <2>1, <2>2 DEF RowsStay, RowsWritten, Sending, Due
<1>7. ASSUME NEW c \in Carriers, Carry(c) PROVE RowsStay /\ RowsWritten'
  BY <1>7, CarryRows
<1>8. ASSUME NEW c \in Carriers, DeliveryFails(c) PROVE RowsStay /\ RowsWritten'
  <2>1. sending[c].id \in Ids
    BY <1>8, SendingType DEF DeliveryFails, Delivery
  <2>2. RowsStay
    BY <1>8, <2>1, WriteStays DEF DeliveryFails, Failed
  <2>3. \A q \in Carriers : sending'[q] \in {sending[q], NoDelivery}
    BY <1>8 DEF DeliveryFails, TypeOK
  <2>4. \A q \in Carriers : Sending(q) => sending[q].id \in Ids
    BY SendingType DEF Delivery
  <2>5. \A q \in Carriers : task[q].due \subseteq Ids
    BY DEF TypeOK, Task
  <2> QED
    BY <1>8, <2>2, <2>3, <2>4, <2>5 DEF DeliveryFails, RowsWritten, Sending, RowsStay
<1>9. ASSUME NEW c \in Carriers, Lose(c) PROVE RowsStay /\ RowsWritten'
  <2>1. /\ \A q \in Carriers : sending'[q] \in {sending[q], NoDelivery}
        /\ \A q \in Carriers : task'[q] \in {task[q], NoTask}
        /\ row' = row
    BY <1>9 DEF Lose, TypeOK, tables
  <2> QED
    BY <2>1 DEF RowsWritten, Sending, RowsStay, NoTask
<1>10. ASSUME NEW u \in Users, NEW p \in Phones, registerToken(u, p) \/ unregisterToken(u, p)
       PROVE RowsStay /\ RowsWritten'
  BY <1>1, <1>10 DEF registerToken, unregisterToken
<1>11. ASSUME NEW r, registerTokenSave(r) \/ registerTokenLost(r) PROVE RowsStay /\ RowsWritten'
  BY <1>1, <1>11 DEF registerTokenSave, registerTokenLost, tables
<1>12. ASSUME NEW b \in Browsers, (\E u \in Users : registerSubscription(u, b)) \/ removeSubscription(b)
       PROVE RowsStay /\ RowsWritten'
  BY <1>1, <1>12 DEF registerSubscription, removeSubscription
<1>13. ASSUME NEW d, Uninstall(d) PROVE RowsStay /\ RowsWritten'
  BY <1>1, <1>13 DEF Uninstall, tables
<1>14. ASSUME NEW u, setPreference(u) PROVE RowsStay /\ RowsWritten'
  BY <1>1, <1>14 DEF setPreference
<1>15. ASSUME NEW S, checkReceipts(S) \/ deleteTokens \/ deleteTokensLost PROVE RowsStay /\ RowsWritten'
  BY <1>1, <1>15 DEF checkReceipts, deleteTokens, deleteTokensLost, tables
<1> QED
  BY <1>2, <1>3, <1>4, <1>5, <1>6, <1>7, <1>8, <1>9, <1>10, <1>11, <1>12, <1>13, <1>14, <1>15
     DEF Next

\* A step that leaves the browsers not marked as they are, and starts no delivery
\* on an old row.
LEMMA BrowsersKept ==
    ASSUME TypeOK, BrowsersInv, RowsWritten, RowsStay,
           holder' = holder, Steady' \subseteq Steady,
           \A b \in Steady : subs'[b].user = subs[b].user /\ subs'[b].born = subs[b].born,
           \A c \in Carriers : \/ sending'[c] = NoDelivery
                               \/ /\ Sending(c) /\ sending'[c].id = sending[c].id
                                  /\ sending'[c].webs = sending[c].webs
                                  /\ sending'[c].born = sending[c].born
                               \/ sending'[c].webs = {}
    PROVE BrowsersInv'
<1>1. BrowserIsTheLastUsers'
  BY DEF BrowsersInv, BrowserIsTheLastUsers, Steady
<1>2. ASSUME NEW c \in Carriers, Sending(c)', NEW b \in Steady'
      PROVE Held(sending'[c], b, subs', holder', row')
  <2>1. CASE sending'[c].webs = {}
    BY <2>1 DEF Held
  <2>2. CASE /\ Sending(c) /\ sending'[c].id = sending[c].id
             /\ sending'[c].webs = sending[c].webs
             /\ sending'[c].born = sending[c].born
    <3>1. Held(sending[c], b, subs, holder, row) /\ row'[sending[c].id].user = row[sending[c].id].user
      BY <1>2, <2>2, SendingType DEF BrowsersInv, RowsWritten, RowsStay, Delivery
    <3> QED
      BY <1>2, <2>2, <3>1 DEF Held
  <2> QED
    BY <1>2, <2>1, <2>2 DEF Sending
<1> QED
  BY <1>1, <1>2 DEF BrowsersInv

LEMMA SendWebBrowsers ==
    ASSUME TypeOK, BrowsersInv, RowsWritten, RowsStay, NEW c \in Carriers, Sending(c),
           NEW S, S \subseteq sending[c].webs, SendWeb(c, S)
    PROVE BrowsersInv'
<1> DEFINE s == sending[c]
<1>1. s \in Delivery /\ S \subseteq Browsers
  BY SendingType DEF Delivery
<1>2. PICK T :
        /\ subs' = [b \in Browsers |-> IF b \in S THEN Resaved(s, b) ELSE subs[b]]
        /\ IF \E b \in S \cap works : Clashes(s, b)
           THEN sending' = [sending EXCEPT ![c] = NoDelivery]
           ELSE sending' = [sending EXCEPT ![c] =
                     [s EXCEPT !.tried = @ \cup S, !.took = @ \cup T]]
  BY DEF SendWeb
<1>3. holder' = holder /\ Steady' = Steady
  BY DEF SendWeb, Steady
<1>4. ASSUME NEW b \in Steady PROVE subs'[b].user = subs[b].user /\ subs'[b].born = subs[b].born
  <2>1. CASE b \notin S
    BY <1>2, <2>1 DEF Steady
  <2>2. CASE b \in S
    <3>1. subs[b].born = s.born[b] /\ holder[b] = UserOf(s.id)
      BY <2>2 DEF BrowsersInv, Held, UserOf
    <3>2. subs[b].user = holder[b]
      BY DEF BrowsersInv, BrowserIsTheLastUsers, Steady
    <3>3. subs'[b] = [user |-> UserOf(s.id), born |-> s.born[b]]
      BY <1>2, <2>2, <3>1 DEF Resaved, Clashes, Steady
    <3> QED
      BY <3>1, <3>2, <3>3
  <2> QED
    BY <2>1, <2>2
<1> DEFINE n == [s EXCEPT !.tried = @ \cup S, !.took = @ \cup T]
<1>5. n.id = s.id /\ n.webs = s.webs /\ n.born = s.born
  BY <1>1 DEF Delivery
<1>6. sending' \in {[sending EXCEPT ![c] = NoDelivery], [sending EXCEPT ![c] = n]}
  BY <1>2
<1> HIDE DEF n
<1>7. \A q \in Carriers : \/ sending'[q] = NoDelivery
                          \/ sending'[q] = sending[q]
                          \/ q = c /\ sending'[q] = n
  BY <1>6 DEF TypeOK
<1>8. \A q \in Carriers : \/ sending'[q] = NoDelivery
                          \/ /\ Sending(q) /\ sending'[q].id = sending[q].id
                             /\ sending'[q].webs = sending[q].webs
                             /\ sending'[q].born = sending[q].born
                          \/ sending'[q].webs = {}
  BY <1>5, <1>7 DEF Sending
<1> HIDE DEF s
<1> QED
  BY <1>3, <1>4, <1>8, BrowsersKept

LEMMA CarryBrowsers ==
    ASSUME TypeOK, BrowsersInv, RowsWritten, RowsStay, NEW c \in Carriers, Carry(c)
    PROVE BrowsersInv'
<1> DEFINE s == sending[c]
<1>1. holder' = holder /\ Steady' = Steady
  BY CarryKeepsDevices DEF Steady
\* One delivery starts, goes on with what it read, or ends.
<1>2. ASSUME subs' = subs, \A q \in Carriers \ {c} : sending'[q] = sending[q],
             \/ sending'[c] = s \/ sending'[c] = NoDelivery \/ sending'[c].webs = {}
             \/ /\ Sending(c) /\ sending'[c].id = s.id
                /\ sending'[c].webs = s.webs /\ sending'[c].born = s.born
      PROVE BrowsersInv'
  <2>1. \A q \in Carriers : \/ sending'[q] = NoDelivery
                            \/ /\ Sending(q) /\ sending'[q].id = sending[q].id
                               /\ sending'[q].webs = sending[q].webs
                               /\ sending'[q].born = sending[q].born
                            \/ sending'[q].webs = {}
    BY <1>2 DEF Sending
  <2>2. Steady' \subseteq Steady
        /\ \A b \in Steady : subs'[b].user = subs[b].user /\ subs'[b].born = subs[b].born
    BY <1>1, <1>2
  <2> QED
    BY <1>1, <2>1, <2>2, BrowsersKept
<1>3. \A i : Start(i, Devices).webs = {}
  BY DEF Start
<1>4. Sending(c) => s \in Delivery /\ s.id \in Ids
  BY SendingType DEF Delivery
<1>5. CASE \E u \in Users : NotifySkip(c, u)
  <2>1. subs' = subs /\ sending' = sending
    BY <1>5 DEF NotifySkip, tables
  <2> QED
    BY <1>2, <2>1
<1>6. CASE \E u \in Users : NotifyInsert(c, u)
  <2>1. PICK i : sending' = sending \/ sending' = [sending EXCEPT ![c] = Start(i, Devices)]
    BY <1>6 DEF NotifyInsert
  <2>2. /\ \A q \in Carriers \ {c} : sending'[q] = sending[q]
        /\ sending'[c] = s \/ sending'[c] = Start(i, Devices)
    BY <2>1 DEF TypeOK
  <2>3. subs' = subs
    BY <1>6 DEF NotifyInsert
  <2> QED
    BY <1>2, <1>3, <2>2, <2>3
<1>7. CASE DeliverNext(c)
  <2>1. PICK i : sending' = [sending EXCEPT ![c] = Start(i, Devices)]
    BY <1>7 DEF DeliverNext
  <2>2. /\ \A q \in Carriers \ {c} : sending'[q] = sending[q]
        /\ sending'[c] = Start(i, Devices)
    BY <2>1 DEF TypeOK
  <2>3. subs' = subs
    BY <1>7 DEF DeliverNext, tables
  <2> QED
    BY <1>2, <1>3, <2>2, <2>3
<1>8. CASE Read(c)
  <2> DEFINE mine == {b \in Browsers \cap s.only : subs[b].user = UserOf(s.id)}
             bn == [b \in Browsers |-> IF b \in mine THEN subs[b].born ELSE 0]
  <2>1. PICK ph : sending' = [sending EXCEPT ![c] =
          [s EXCEPT !.read = TRUE, !.phones = ph, !.webs = mine, !.born = bn]]
    BY <1>8 DEF Read
  <2> DEFINE n == [s EXCEPT !.read = TRUE, !.phones = ph, !.webs = mine, !.born = bn]
  <2>2. n.id = s.id /\ n.webs = mine /\ n.born = bn
    BY <1>4, <1>8 DEF Delivery, Read
  <2>3. \A b \in Steady : b \in mine => subs[b].born = bn[b] /\ holder[b] = row[s.id].user
    BY DEF BrowsersInv, BrowserIsTheLastUsers, Steady, UserOf
  <2>4. UNCHANGED <<row, subs, holder>>
    BY <1>8 DEF Read, tables, history
  <2> HIDE DEF mine, bn
  <2>5. \A b \in Steady : Held(n, b, subs, holder, row)
    BY <2>2, <2>3 DEF Held
  <2> HIDE DEF n
  <2>6. sending' = [sending EXCEPT ![c] = n]
    BY <2>1 DEF n
  <2>7. ASSUME NEW q \in Carriers, Sending(q)', NEW b \in Steady
        PROVE Held(sending'[q], b, subs', holder', row')
    <3>1. CASE q = c
      BY <2>4, <2>5, <2>6, <3>1 DEF TypeOK
    <3>2. CASE q # c
      <4>1. sending'[q] = sending[q]
        BY <2>6, <3>2 DEF TypeOK
      <4> QED
        BY <2>4, <2>7, <4>1 DEF BrowsersInv, Sending
    <3> QED
      BY <3>1, <3>2
  <2>8. BrowserIsTheLastUsers'
    BY <1>1, <2>4 DEF BrowsersInv, BrowserIsTheLastUsers, Steady
  <2> QED
    BY <1>1, <2>7, <2>8 DEF BrowsersInv
<1>9. CASE SendPhones(c)
  <2>1. PICK T : sending' = [sending EXCEPT ![c] =
                   [s EXCEPT !.tried = @ \cup s.phones, !.took = @ \cup T]]
    BY <1>9 DEF SendPhones
  <2> DEFINE n == [s EXCEPT !.tried = @ \cup s.phones, !.took = @ \cup T]
  <2>2. Sending(c) /\ n.id = s.id /\ n.webs = s.webs /\ n.born = s.born
    BY <1>4, <1>9 DEF Delivery, SendPhones
  <2> HIDE DEF n
  <2>3. sending' = [sending EXCEPT ![c] = n] /\ subs' = subs
    BY <1>9, <2>1 DEF n, SendPhones
  <2>4. /\ \A q \in Carriers \ {c} : sending'[q] = sending[q]
        /\ sending'[c] = n
    BY <2>3 DEF TypeOK
  <2> QED
    BY <1>2, <2>2, <2>3, <2>4
<1>10. Sending(c) => handheld(s) \subseteq s.webs /\ computers(s) \subseteq s.webs
  BY <1>4, KindsAreBrowsers
<1>11. CASE SendHandheld(c)
  BY <1>10, <1>11, SendWebBrowsers DEF SendHandheld
<1>12. CASE SendComputers(c)
  BY <1>10, <1>12, SendWebBrowsers DEF SendComputers
<1>13. CASE mailUndelivered(c)
  <2>1. PICK left : sending' = [sending EXCEPT ![c] = [s EXCEPT !.letter = left]]
    BY <1>13 DEF mailUndelivered
  <2> DEFINE n == [s EXCEPT !.letter = left]
  <2>2. Sending(c) /\ n.id = s.id /\ n.webs = s.webs /\ n.born = s.born
    BY <1>4, <1>13 DEF Delivery, mailUndelivered
  <2> HIDE DEF n
  <2>3. sending' = [sending EXCEPT ![c] = n] /\ subs' = subs
    BY <1>13, <2>1 DEF n, mailUndelivered, tables
  <2>4. /\ \A q \in Carriers \ {c} : sending'[q] = sending[q]
        /\ sending'[c] = n
    BY <2>3 DEF TypeOK
  <2> QED
    BY <1>2, <2>2, <2>3, <2>4
<1>14. CASE Record(c)
  <2>1. subs' = subs /\ sending' = [sending EXCEPT ![c] = NoDelivery]
    BY <1>14 DEF Record
  <2>2. /\ \A q \in Carriers \ {c} : sending'[q] = sending[q]
        /\ sending'[c] = NoDelivery
    BY <2>1 DEF TypeOK
  <2> QED
    BY <1>2, <2>1, <2>2
<1> QED
  BY <1>5, <1>6, <1>7, <1>8, <1>9, <1>11, <1>12, <1>13, <1>14 DEF Carry

\* A browser changes hands: the new owner is written, and the deliveries that hold
\* the old row have it marked.
LEMMA HandOverBrowsers ==
    ASSUME TypeOK, BrowsersInv, NEW b \in Browsers, NEW u, HandOver(b, u), NEW x,
           x.user = u, subs' = [subs EXCEPT ![b] = x],
           UNCHANGED <<row, sending, works>>
    PROVE BrowsersInv'
<1>1. /\ holder' = [holder EXCEPT ![b] = u]
      /\ crossed' = IF HeldBySend(b) THEN crossed \cup {b} ELSE crossed \ {b}
  BY DEF HandOver
<1>2. \A d \in Browsers \ {b} : /\ subs'[d] = subs[d] /\ holder'[d] = holder[d]
                                /\ d \in Steady' <=> d \in Steady
  BY <1>1 DEF TypeOK, Steady
<1>3. subs'[b].user = holder'[b]
  BY <1>1 DEF TypeOK
<1>4. BrowserIsTheLastUsers'
  BY <1>2, <1>3 DEF BrowsersInv, BrowserIsTheLastUsers, Steady
<1>5. ASSUME NEW c \in Carriers, Sending(c)', NEW d \in Steady'
      PROVE Held(sending'[c], d, subs', holder', row')
  <2>1. sending'[c] = sending[c] /\ Sending(c) /\ d \in Browsers
    BY <1>5 DEF Sending, Steady
  <2>2. CASE d # b
    BY <1>2, <2>1, <2>2 DEF BrowsersInv, Held
  <2>3. CASE d = b
    <3>1. ~HeldBySend(b)
      BY <1>1, <1>5, <2>3 DEF Steady
    <3>2. b \notin sending[c].webs
      BY <2>1, <3>1 DEF HeldBySend
    <3> QED
      BY <2>1, <2>3, <3>2 DEF Held
  <2> QED
    BY <2>2, <2>3
<1> QED
  BY <1>4, <1>5 DEF BrowsersInv

LEMMA BrowsersStep ==
    TypeOK /\ BrowsersInv /\ RowsWritten /\ [Next]_vars => BrowsersInv'
<1> SUFFICES ASSUME TypeOK, BrowsersInv, RowsWritten, [Next]_vars PROVE BrowsersInv'
  OBVIOUS
<1>1. RowsStay
  BY RowsStep
\* Nothing happens to the browsers; no delivery starts but with nothing read.
<1>2. ASSUME holder' = holder, subs' = subs, Steady' \subseteq Steady,
             \A q \in Carriers : \/ sending'[q] = sending[q] \/ sending'[q] = NoDelivery
                               \/ sending'[q].webs = {}
      PROVE BrowsersInv'
  <2>1. \A q \in Carriers : \/ sending'[q] = NoDelivery
                            \/ /\ Sending(q) /\ sending'[q].id = sending[q].id
                               /\ sending'[q].webs = sending[q].webs
                               /\ sending'[q].born = sending[q].born
                            \/ sending'[q].webs = {}
    BY <1>2 DEF Sending
  <2>2. \A b \in Steady : subs'[b].user = subs[b].user /\ subs'[b].born = subs[b].born
    BY <1>2
  <2> QED
    BY <1>1, <1>2, <2>1, <2>2, BrowsersKept
<1>3. CASE Tick \/ CleanupOld \/ UNCHANGED vars
  <2>1. UNCHANGED <<holder, subs, works, crossed, sending>>
    BY <1>3 DEF Tick, CleanupOld, vars, tables, history
  <2>2. Steady' \subseteq Steady
    BY <2>1 DEF Steady
  <2> QED
    BY <1>2, <2>1, <2>2
<1>4. ASSUME NEW c \in Carriers, Carry(c) PROVE BrowsersInv'
  BY <1>1, <1>4, CarryBrowsers
<1>5. ASSUME NEW c \in Carriers,
             \/ \E x \in Calls : NotifyBegin(c, x)
             \/ \E x \in Tests : sendTest(c, x)
             \/ DeliverDue(c) \/ DeliveryFails(c) \/ Lose(c)
      PROVE BrowsersInv'
  <2>1. UNCHANGED <<subs, works, holder, crossed>>
    BY <1>5, BeginKeepsDevices
  <2>2. Steady' \subseteq Steady
    BY <2>1 DEF Steady
  <2>3. PICK i, only : \/ sending' = sending \/ sending' = [sending EXCEPT ![c] = NoDelivery]
                       \/ sending' = [sending EXCEPT ![c] = Start(i, only)]
    <3>1. CASE \E x \in Tests : sendTest(c, x)
      BY <3>1 DEF sendTest
    <3>2. CASE DeliveryFails(c) \/ Lose(c)
      BY <3>2 DEF DeliveryFails, Lose
    <3>3. CASE (\E x \in Calls : NotifyBegin(c, x)) \/ DeliverDue(c)
      BY <3>3 DEF NotifyBegin, DeliverDue
    <3> QED
      BY <1>5, <3>1, <3>2, <3>3
  <2>4. Start(i, only).webs = {}
    BY DEF Start
  <2>5. \A q \in Carriers : \/ sending'[q] = sending[q] \/ sending'[q] = NoDelivery
                            \/ sending'[q].webs = {}
    BY <2>3, <2>4 DEF TypeOK
  <2> QED
    BY <1>2, <2>1, <2>2, <2>5
\* A phone that changes hands leaves the browsers as they are.
<1>6. ASSUME NEW u \in Users, NEW p \in Phones, registerToken(u, p) \/ unregisterToken(u, p)
      PROVE BrowsersInv'
  <2>1. UNCHANGED <<subs, works, holder, sending>>
    BY <1>6 DEF registerToken, unregisterToken, history
  <2>2. \A b \in Browsers : b \in crossed' <=> b \in crossed
    BY <1>6, OutboxConstants DEF registerToken, unregisterToken, history
  <2>3. Steady' \subseteq Steady
    BY <2>1, <2>2 DEF Steady
  <2> QED
    BY <1>2, <2>1, <2>3
<1>7. ASSUME NEW r, registerTokenSave(r) \/ registerTokenLost(r) PROVE BrowsersInv'
  <2>1. UNCHANGED <<subs, works, holder, sending, crossed>>
    BY <1>7 DEF registerTokenSave, registerTokenLost, tables, history
  <2> QED
    BY <1>2, <2>1 DEF Steady
<1>8. ASSUME NEW u \in Users, NEW b \in Browsers, registerSubscription(u, b) PROVE BrowsersInv'
  <2>1. /\ subs' = [subs EXCEPT ![b] = Signed(u, b)]
        /\ HandOver(b, u)
        /\ UNCHANGED <<row, sending, works>>
    BY <1>8 DEF registerSubscription
  <2>2. Signed(u, b).user = u
    BY DEF Signed
  <2> QED
    BY <2>1, <2>2, HandOverBrowsers
<1>9. ASSUME NEW b \in Browsers, removeSubscription(b) PROVE BrowsersInv'
  <2> DEFINE x == [subs[b] EXCEPT !.user = Nobody]
  <2>1. /\ subs' = [subs EXCEPT ![b] = x]
        /\ HandOver(b, Nobody)
        /\ UNCHANGED <<row, sending, works>>
    BY <1>9 DEF removeSubscription
  <2>2. x.user = Nobody
    BY DEF TypeOK, Sub
  <2> HIDE DEF x
  <2> QED
    BY <2>1, <2>2, HandOverBrowsers
<1>10. ASSUME NEW d, Uninstall(d) PROVE BrowsersInv'
  <2>1. UNCHANGED <<subs, holder, sending, crossed>> /\ works' \subseteq works
    BY <1>10 DEF Uninstall, tables, history
  <2>2. Steady' \subseteq Steady
    BY <2>1 DEF Steady
  <2> QED
    BY <1>2, <2>1, <2>2
<1>11. ASSUME \/ \E u \in Users : setPreference(u)
              \/ \E S : checkReceipts(S)
              \/ deleteTokens \/ deleteTokensLost
       PROVE BrowsersInv'
  <2>1. UNCHANGED <<subs, works, holder, sending, crossed>>
    BY <1>11 DEF setPreference, checkReceipts, deleteTokens, deleteTokensLost, tables, history
  <2>2. Steady' \subseteq Steady
    BY <2>1 DEF Steady
  <2> QED
    BY <1>2, <2>1, <2>2
<1> QED
  BY <1>3, <1>4, <1>5, <1>6, <1>7, <1>8, <1>9, <1>10, <1>11 DEF Next

\* A browser is the one's who signed it up last, for any number of people,
\* browsers and deliveries under way - although a delivery saves the row it read
\* whole - except where it changed hands under a delivery that holds it.
THEOREM BrowserIsItsLastUsers == Spec => []BrowserIsTheLastUsers
<1>1. Init => BrowsersInv /\ RowsWritten
  <2> SUFFICES ASSUME Init PROVE BrowsersInv /\ RowsWritten
    OBVIOUS
  <2>1. \A c \in Carriers : ~Sending(c) /\ task[c].due = {}
    BY DEF Init, Sending, NoTask
  <2>2. BrowserIsTheLastUsers
    BY DEF Init, BrowserIsTheLastUsers
  <2> QED
    BY <2>1, <2>2 DEF BrowsersInv, RowsWritten
<1>2. BrowsersInv => BrowserIsTheLastUsers
  BY DEF BrowsersInv
<1> QED
  BY <1>1, <1>2, RowsStep, BrowsersStep, OutboxTypeCorrect, PTL DEF Spec

----------------------------------------------------------------------------
(* The outbox implements the ledger: each of its steps moves every line as   *)
(* Ledger allows or not at all.                                              *)

\* What a step does to the rows and to the roads, apart from each other.
RowMoves(i) ==
    \/ row'[i] = row[i]
    \/ /\ row[i].status = "none"
       /\ row'[i].status = "pending" /\ row'[i].channel = "none"
    \/ /\ row[i].status \in {"pending"} \cup Settled /\ row'[i].user = row[i].user
       /\ row'[i].status \in Settled /\ (row'[i].status = "sent" => row'[i].channel # "none")
    \/ /\ row[i].status \in Settled /\ row'[i].user = row[i].user
       /\ row'[i].status = "gone" /\ row'[i].channel = row[i].channel

RowsMove == \A i \in Ids : RowMoves(i)

RoadsGrow ==
    \A i \in Ids : /\ roads[i] \subseteq roads'[i]
                   /\ roads'[i] # roads[i] => row[i].status # "none"

LEMMA WriteMoves ==
    ASSUME TypeOK, NEW i \in Ids, row[i].status # "none", NEW status \in Settled, NEW channel,
           status = "sent" => channel # "none", Write(i, status, channel)
    PROVE RowsMove
<1>1. row[i] \in Row
  BY DEF TypeOK
<1> DEFINE n == [row[i] EXCEPT !.status = status, !.channel = channel]
<1>2. n.user = row[i].user /\ n.status = status /\ n.channel = channel
  BY <1>1 DEF Row
<1>3. row[i].status \in {"gone", "pending"} \cup Settled
  BY <1>1 DEF Row
<1>4. row[i].status # "gone" => row' = [row EXCEPT ![i] = n]
  BY DEF Write
<1> HIDE DEF n
<1>5. ASSUME NEW j \in Ids PROVE RowMoves(j)
  <2>1. CASE row[i].status = "gone" \/ j # i
    BY <1>4, <2>1 DEF Write, RowMoves, TypeOK
  <2>2. CASE row[i].status # "gone" /\ j = i
    BY <1>2, <1>3, <1>4, <2>2 DEF RowMoves, TypeOK
  <2> QED
    BY <2>1, <2>2
<1> QED
  BY <1>5 DEF RowsMove

LEMMA InsertMoves ==
    ASSUME TypeOK, NEW i \in Ids, IsNew(i), NEW u, NEW k, NEW m, NEW hold, NEW asked,
           Insert(i, u, k, m, hold, asked)
    PROVE RowsMove
BY DEF IsNew, Insert, TypeOK, RowsMove, RowMoves

\* A road takes only a message that has a row.
LEMMA HeardGrows ==
    ASSUME TypeOK, RowsWritten, NEW c \in Carriers, Sending(c), NEW R, Heard(c, R)
    PROVE RoadsGrow
<1>1. sending[c].id \in Ids /\ row[sending[c].id].status # "none"
  BY SendingType DEF Delivery, RowsWritten
<1> QED
  BY <1>1 DEF Heard, TypeOK, RoadsGrow

\* A step that leaves both alone, and one that leaves the roads alone.
LEMMA BothUntouched == UNCHANGED <<row, roads>> => RowsMove /\ RoadsGrow
BY DEF RowsMove, RowMoves, RoadsGrow

LEMMA RoadsUntouched == UNCHANGED roads => RoadsGrow
BY DEF RoadsGrow

LEMMA SendWebMoves ==
    ASSUME TypeOK, RowsWritten, NEW c \in Carriers, Sending(c), NEW S, SendWeb(c, S)
    PROVE RowsMove /\ RoadsGrow
<1>1. sending[c].id \in Ids /\ row[sending[c].id].status # "none"
  BY SendingType DEF Delivery, RowsWritten
<1>2. PICK T \in SUBSET (S \cap works) :
        /\ Heard(c, IF T # {} THEN {"web"} ELSE {})
        /\ IF \E b \in S \cap works : Clashes(sending[c], b)
           THEN Failed(sending[c])
           ELSE UNCHANGED row
  BY DEF SendWeb
<1>3. RoadsGrow
  BY <1>2, HeardGrows
<1>4. CASE Failed(sending[c])
  BY <1>1, <1>3, <1>4, WriteMoves DEF Failed, Settled
<1>5. CASE UNCHANGED row
  BY <1>3, <1>5 DEF RowsMove, RowMoves
<1> QED
  BY <1>2, <1>4, <1>5

LEMMA NotifyMoves ==
    ASSUME TypeOK, NEW c \in Carriers
    PROVE /\ \A x \in Calls : NotifyBegin(c, x) => RowsMove /\ RoadsGrow
          /\ \A u \in Users : NotifySkip(c, u) => RowsMove /\ RoadsGrow
          /\ \A u \in Users : NotifyInsert(c, u) => RowsMove /\ RoadsGrow
          /\ \A x \in Tests : sendTest(c, x) => RowsMove /\ RoadsGrow
<1>1. ASSUME NEW x \in Calls, NotifyBegin(c, x) PROVE RowsMove /\ RoadsGrow
  BY <1>1, BothUntouched DEF NotifyBegin, tables, history
<1>2. ASSUME NEW u \in Users, NotifySkip(c, u) PROVE RowsMove /\ RoadsGrow
  BY <1>2, BothUntouched DEF NotifySkip, tables, history
<1>3. ASSUME NEW u \in Users, NotifyInsert(c, u) PROVE RowsMove /\ RoadsGrow
  BY <1>3, InsertMoves, RoadsUntouched DEF NotifyInsert, history
<1>4. ASSUME NEW x \in Tests, sendTest(c, x) PROVE RowsMove /\ RoadsGrow
  BY <1>4, InsertMoves, RoadsUntouched DEF sendTest, history
<1> QED
  BY <1>1, <1>2, <1>3, <1>4

\* A row is said to be sent only together with the road.
LEMMA OutcomeNamed ==
    ASSUME NEW s
    PROVE outcome(s)[1] \in Settled /\ (outcome(s)[1] = "sent" => outcome(s)[2] # "none")
BY DEF outcome, Settled

LEMMA DeliverMoves ==
    ASSUME TypeOK, RowsWritten, NEW c \in Carriers
    PROVE /\ DeliverDue(c) \/ DeliverNext(c) \/ Read(c) => RowsMove /\ RoadsGrow
          /\ SendPhones(c) \/ mailUndelivered(c) => RowsMove /\ RoadsGrow
          /\ SendHandheld(c) \/ SendComputers(c) => RowsMove /\ RoadsGrow
          /\ Record(c) \/ DeliveryFails(c) \/ Lose(c) => RowsMove /\ RoadsGrow
<1>1. ASSUME DeliverDue(c) \/ DeliverNext(c) \/ Read(c) \/ Lose(c) PROVE RowsMove /\ RoadsGrow
  BY <1>1, BothUntouched DEF DeliverDue, DeliverNext, Read, Lose, tables, history
<1>2. ASSUME SendPhones(c) PROVE RowsMove /\ RoadsGrow
  <2>1. Sending(c) /\ (\E R : Heard(c, R)) /\ UNCHANGED row
    BY <1>2 DEF SendPhones
  <2> QED
    BY <2>1, HeardGrows DEF RowsMove, RowMoves
<1>3. ASSUME mailUndelivered(c) PROVE RowsMove /\ RoadsGrow
  <2>1. Sending(c) /\ (\E R : Heard(c, R)) /\ UNCHANGED row
    BY <1>3 DEF mailUndelivered, tables
  <2> QED
    BY <2>1, HeardGrows DEF RowsMove, RowMoves
<1>4. ASSUME SendHandheld(c) \/ SendComputers(c) PROVE RowsMove /\ RoadsGrow
  BY <1>4, SendWebMoves DEF SendHandheld, SendComputers
<1>5. ASSUME Sending(c) PROVE sending[c].id \in Ids /\ row[sending[c].id].status # "none"
  BY <1>5, SendingType DEF Delivery, RowsWritten
<1>6. ASSUME Record(c) PROVE RowsMove /\ RoadsGrow
  BY <1>5, <1>6, OutcomeNamed, WriteMoves, RoadsUntouched DEF Record, history
<1>7. ASSUME DeliveryFails(c) PROVE RowsMove /\ RoadsGrow
  BY <1>5, <1>7, WriteMoves, RoadsUntouched DEF DeliveryFails, Failed, Settled, history
<1> QED
  BY <1>1, <1>2, <1>3, <1>4, <1>6, <1>7

LEMMA MovesStep == TypeOK /\ RowsWritten /\ [Next]_vars => RowsMove /\ RoadsGrow
<1> SUFFICES ASSUME TypeOK, RowsWritten, [Next]_vars PROVE RowsMove /\ RoadsGrow
  OBVIOUS
<1>1. CASE Tick \/ UNCHANGED vars
  BY <1>1, BothUntouched DEF Tick, vars, tables, history
<1>2. CASE CleanupOld
  <2>1. \A i \in Ids : \/ row'[i] = row[i]
                       \/ row[i].status \in Settled /\ row'[i] = [row[i] EXCEPT !.status = "gone"]
    BY <1>2 DEF CleanupOld, TypeOK
  <2>2. ASSUME NEW i \in Ids, row'[i] = [row[i] EXCEPT !.status = "gone"]
        PROVE row'[i].user = row[i].user /\ row'[i].status = "gone" /\ row'[i].channel = row[i].channel
    <3>1. row[i] \in Row
      BY DEF TypeOK
    <3> QED
      BY <2>2, <3>1 DEF Row
  <2>3. RowsMove
    BY <2>1, <2>2 DEF RowsMove, RowMoves
  <2> QED
    BY <1>2, <2>3, RoadsUntouched DEF CleanupOld, history
<1>3. ASSUME NEW u, NEW p, registerToken(u, p) \/ unregisterToken(u, p) PROVE RowsMove /\ RoadsGrow
  BY <1>3, BothUntouched DEF registerToken, unregisterToken, history
<1>4. ASSUME NEW r, registerTokenSave(r) \/ registerTokenLost(r) PROVE RowsMove /\ RoadsGrow
  BY <1>4, BothUntouched DEF registerTokenSave, registerTokenLost, tables, history
<1>5. ASSUME NEW b, (\E u \in Users : registerSubscription(u, b)) \/ removeSubscription(b)
      PROVE RowsMove /\ RoadsGrow
  BY <1>5, BothUntouched DEF registerSubscription, removeSubscription, HandOver
<1>6. ASSUME NEW d, Uninstall(d) \/ setPreference(d) PROVE RowsMove /\ RoadsGrow
  BY <1>6, BothUntouched DEF Uninstall, setPreference, tables, history
<1>7. ASSUME NEW S, checkReceipts(S) \/ deleteTokens \/ deleteTokensLost PROVE RowsMove /\ RoadsGrow
  BY <1>7, BothUntouched DEF checkReceipts, deleteTokens, deleteTokensLost, tables, history
<1> QED
  BY <1>1, <1>2, <1>3, <1>4, <1>5, <1>6, <1>7, NotifyMoves, DeliverMoves DEF Next, Carry

\* The fields of a row, read as a line.
LEMMA LineType ==
    ASSUME TypeOK
    PROVE [i \in Ids |-> AsLine(row[i])] \in [Ids -> Kept!Line]
<1>1. ASSUME NEW r \in Row PROVE AsLine(r) \in Kept!Line
  BY <1>1 DEF Row, AsLine, StateOf, Settled, Kept!Line, Kept!States
<1> QED
  BY <1>1 DEF TypeOK

LEMMA LedgerInitially == Init => Kept!LedgerInit
<1> SUFFICES ASSUME Init PROVE Kept!LedgerInit
  OBVIOUS
<1>1. [i \in Ids |-> AsLine(row[i])] \in [Ids -> Kept!Line]
  BY InitType, LineType
<1>2. \A i \in Ids : AsLine(row[i]).state = "blank" /\ AsLine(row[i]).road = "none"
  BY DEF Init, NoRow, AsLine, StateOf
<1> QED
  BY <1>1, <1>2 DEF Init, Kept!LedgerInit

\* Each row moves as its line may; what it says of a road is SentMeansTaken.
LEMMA LineMoves ==
    ASSUME TypeOK, TypeOK', SentMeansTaken', RowsMove, RoadsGrow, NEW i \in Ids
    PROVE Kept!Raise(i) \/ Kept!Carry(i) \/ Kept!Settle(i) \/ Kept!Forget(i)
<1>1. row[i] \in Row /\ row'[i] \in Row
  BY DEF TypeOK
<1>2. roads[i] \subseteq roads'[i] /\ (roads'[i] # roads[i] => row[i].status # "none")
  BY DEF RoadsGrow
<1>3. row'[i].channel # "none" => row'[i].channel \in roads'[i]
  BY DEF SentMeansTaken
<1>4. RowMoves(i)
  BY DEF RowsMove
<1> DEFINE old == AsLine(row[i])
           new == AsLine(row'[i])
<1>5. /\ [k \in Ids |-> AsLine(row[k])][i] = old
      /\ [k \in Ids |-> AsLine(row'[k])][i] = new
  OBVIOUS
<1>6. /\ old.user = row[i].user /\ old.state = StateOf(row[i]) /\ old.road = row[i].channel
      /\ new.user = row'[i].user /\ new.state = StateOf(row'[i]) /\ new.road = row'[i].channel
  BY DEF AsLine
<1>7. CASE row'[i] = row[i]
  <2>1. new = old /\ (old.state = "blank" => row[i].status = "none")
    BY <1>1, <1>7 DEF AsLine, StateOf, Row, Settled
  <2> HIDE DEF old, new
  <2>2. Kept!Carry(i)
    BY <1>2, <1>5, <2>1 DEF Kept!Carry, Kept!Keeps
  <2> QED
    BY <2>2
<1>8. CASE /\ row[i].status = "none"
           /\ row'[i].status = "pending" /\ row'[i].channel = "none"
  <2>1. old.state = "blank" /\ new.state = "waiting" /\ new.road = "none"
    BY <1>6, <1>8 DEF StateOf
  <2> HIDE DEF old, new
  <2>2. Kept!Raise(i)
    BY <1>2, <1>5, <1>8, <2>1 DEF Kept!Raise
  <2> QED
    BY <2>2
<1>9. CASE /\ row[i].status \in {"pending"} \cup Settled /\ row'[i].user = row[i].user
           /\ row'[i].status \in Settled /\ (row'[i].status = "sent" => row'[i].channel # "none")
  <2>1. /\ old.state \in {"waiting", "told", "untold"} /\ new.user = old.user
        /\ new.state \in {"told", "untold"}
        /\ new.state = "told" => new.road \in roads'[i]
        /\ new.road \in roads'[i] \cup {"none"}
    BY <1>3, <1>6, <1>9 DEF StateOf, Settled
  <2> HIDE DEF old, new
  <2>2. Kept!Settle(i)
    BY <1>2, <1>5, <2>1 DEF Kept!Settle, Kept!Keeps
  <2> QED
    BY <2>2
<1>10. CASE /\ row[i].status \in Settled /\ row'[i].user = row[i].user
            /\ row'[i].status = "gone" /\ row'[i].channel = row[i].channel
  <2>1. /\ old.state \in {"told", "untold"} /\ new.user = old.user
        /\ new.state = "forgotten" /\ new.road = old.road
    BY <1>6, <1>10 DEF StateOf, Settled
  <2> HIDE DEF old, new
  <2>2. Kept!Forget(i)
    BY <1>2, <1>5, <2>1 DEF Kept!Forget, Kept!Keeps
  <2> QED
    BY <2>2
<1> QED
  BY <1>4, <1>7, <1>8, <1>9, <1>10 DEF RowMoves

\* The outbox implements Ledger: for any people, devices, calls and number of
\* carriers, whatever fails or stops.
THEOREM OutboxKeepsLedger == Spec => KeepsLedger
<1>1. Init => RowsWritten
  BY DEF Init, RowsWritten, Sending, NoTask
<1>2. Init => LedgerInv
  BY DEF Init, LedgerInv, SentMeansTaken, Sending, NoRow
<1>3. /\ TypeOK /\ TypeOK' /\ RowsWritten /\ LedgerInv /\ [Next]_vars
      => Kept!LedgerNext
  <2> SUFFICES ASSUME TypeOK, TypeOK', RowsWritten, LedgerInv, [Next]_vars
               PROVE Kept!LedgerNext
    OBVIOUS
  <2>1. SentMeansTaken'
    BY LedgerStep DEF LedgerInv
  <2>2. \A i \in Ids : Kept!Raise(i) \/ Kept!Carry(i) \/ Kept!Settle(i) \/ Kept!Forget(i)
    BY <2>1, MovesStep, LineMoves
  <2>3. [i \in Ids |-> AsLine(row'[i])] \in [Ids -> Kept!Line] /\ roads' \in [Ids -> SUBSET Roads]
    <3>1. ASSUME NEW r \in Row PROVE AsLine(r) \in Kept!Line
      BY <3>1 DEF Row, AsLine, StateOf, Settled, Kept!Line, Kept!States
    <3> QED
      BY <3>1 DEF TypeOK
  <2> QED
    BY <2>2, <2>3 DEF Kept!LedgerNext
<1> QED
  BY <1>1, <1>2, <1>3, LedgerInitially, LedgerStep, RowsStep, OutboxTypeCorrect, PTL
     DEF Spec, KeepsLedger, Kept!LedgerSpec

(* What the ledger promises follows from its moves alone, whoever keeps it. *)
TheLines == [i \in Ids |-> AsLine(row[i])]
LedgerTyped == TheLines \in [Ids -> Kept!Line] /\ roads \in [Ids -> SUBSET Roads]

LEMMA LedgerTypeStep == LedgerTyped /\ [Kept!LedgerNext]_(Kept!ledger) => LedgerTyped'
BY DEF LedgerTyped, TheLines, Kept!LedgerNext, Kept!ledger

\* The road of a line is settled together with what was heard, which only grows.
LEMMA LedgerTrueStep == LedgerTyped /\ Kept!LedgerTrue /\ [Kept!LedgerNext]_(Kept!ledger) => Kept!LedgerTrue'
<1> SUFFICES ASSUME LedgerTyped, Kept!LedgerTrue, [Kept!LedgerNext]_(Kept!ledger),
                    NEW i \in Ids
             PROVE  /\ TheLines'[i].state = "told" => TheLines'[i].road \in roads'[i]
                    /\ TheLines'[i].state = "blank" => roads'[i] = {}
                    /\ TheLines'[i].road \in roads'[i] \cup {"none"}
  BY DEF Kept!LedgerTrue, TheLines
<1>0. /\ TheLines[i].state = "told" => TheLines[i].road \in roads[i]
      /\ TheLines[i].state = "blank" => roads[i] = {}
      /\ TheLines[i].road \in roads[i] \cup {"none"}
  BY DEF Kept!LedgerTrue, TheLines
<1>1. CASE UNCHANGED Kept!ledger
  <2>1. TheLines' = TheLines /\ roads' = roads
    BY <1>1 DEF Kept!ledger, TheLines
  <2> QED
    BY <1>0, <2>1
<1>2. CASE Kept!Raise(i)
  BY <1>2 DEF Kept!Raise, TheLines
<1>3. CASE Kept!Carry(i)
  BY <1>0, <1>3 DEF Kept!Carry, Kept!Keeps, TheLines
<1>4. CASE Kept!Settle(i)
  BY <1>4 DEF Kept!Settle, Kept!Keeps, TheLines
<1>5. CASE Kept!Forget(i)
  BY <1>0, <1>5 DEF Kept!Forget, Kept!Keeps, TheLines
<1> QED
  BY <1>1, <1>2, <1>3, <1>4, <1>5 DEF Kept!LedgerNext

\* A line that says told names a road that took the message, and nobody hears of a message that
\* has no line: the ledger's moves alone make it so, whatever else the outbox does.
THEOREM LedgerStaysTrue == Kept!LedgerSpec => []Kept!LedgerTrue
<1>1. Kept!LedgerInit => LedgerTyped /\ Kept!LedgerTrue
  BY DEF Kept!LedgerInit, LedgerTyped, TheLines, Kept!LedgerTrue
<1> QED
  BY <1>1, LedgerTypeStep, LedgerTrueStep, PTL DEF Kept!LedgerSpec

----------------------------------------------------------------------------
(* What a delivery does with the devices it has read, and when it may begin:   *)
(* the ladder of sendToUsers takes no step too few and none too many           *)
(* (StepsDown), and what waits for the morning is heard by nobody before it    *)
(* (HeldTillMorning).                                                          *)

\* A delivery takes the rungs in their order, and once it is on a lower one has
\* tried all of those above.
Ladder(s) ==
    /\ ~s.read => s.tried = {}
    /\ s.took \subseteq s.tried
    /\ s.tried \subseteq s.phones \cup s.webs
    /\ s.took \cap OfKind(s, "desktop") # {} =>
          /\ s.phones \subseteq s.tried
          /\ handheld(s) \subseteq s.tried
          /\ s.took \subseteq OfKind(s, "desktop")
    /\ s.took \cap OfKind(s, "android") # {} => s.phones \subseteq s.tried /\ ~byPhone(s)

LadderInv == \A c \in Carriers : Sending(c) => Ladder(sending[c])

\* What is being delivered, or a pass has before it, may be heard now.
HeldInv ==
    /\ \A i \in Ids : roads[i] # {} => row[i].notBefore <= now
    /\ \A i \in Ids : row[i].status = "none" => roads[i] = {}
    /\ \A c \in Carriers : Sending(c) => row[sending[c].id].notBefore <= now
    /\ \A c \in Carriers : \A i \in task[c].due : row[i].notBefore <= now

----------------------------------------------------------------------------
(* How a delivery moves, apart from what it writes *)

Reads(s, n) ==
    /\ ~s.read /\ n.read /\ n.id = s.id /\ n.tried = s.tried /\ n.took = s.took
    /\ n.phones \subseteq Phones /\ n.webs \subseteq Browsers

Tries(s, n, S, T) ==
    /\ s.read /\ n.read = s.read /\ n.id = s.id /\ n.phones = s.phones /\ n.webs = s.webs
    /\ T \subseteq S /\ n.tried = s.tried \cup S /\ n.took = s.took \cup T

StepsOn(s, n) ==
    \/ Reads(s, n)
    \/ AtPhones(s) /\ \E T : Tries(s, n, s.phones, T)
    \/ AtHandheld(s) /\ \E T : Tries(s, n, handheld(s), T)
    \/ AtComputers(s) /\ \E T : Tries(s, n, computers(s), T)
    \/ Tries(s, n, {}, {})

\* It begins on a row its carrier had before it, or on a new one that need not wait.
Starts(c) ==
    \E i \in Ids, only \in SUBSET Devices :
        /\ sending'[c] = Start(i, only)
        /\ i \in task[c].due \/ row'[i].notBefore = Asap

DeliveryMoves(c) ==
    \/ sending'[c] \in {sending[c], NoDelivery}
    \/ Starts(c)
    \/ Sending(c) /\ StepsOn(sending[c], sending'[c])

\* A pass puts before it only what is due; a road takes only what is being delivered.
Careful ==
    /\ \A c \in Carriers : \A i \in task'[c].due : i \in task[c].due \/ Due(i)
    /\ \A i \in Ids : roads'[i] # roads[i] => \E c \in Carriers : Sending(c) /\ sending[c].id = i
    /\ now <= now'

Moves == Careful /\ \A c \in Carriers : DeliveryMoves(c)

\* Steps that begin nothing and send nothing.
LEMMA QuietMoves ==
    ASSUME TypeOK, UNCHANGED <<roads, now>>,
           \A c \in Carriers : sending'[c] \in {sending[c], NoDelivery},
           \A c \in Carriers : task'[c].due \subseteq task[c].due
    PROVE Moves
BY DEF TypeOK, Moments, Moves, Careful, DeliveryMoves

\* A step of the delivery of c.
LEMMA SendingMoves ==
    ASSUME TypeOK, NEW c \in Carriers, Sending(c), UNCHANGED <<task, now>>,
           NEW n, sending' = [sending EXCEPT ![c] = n],
           n = NoDelivery \/ StepsOn(sending[c], n),
           \A i \in Ids : roads'[i] # roads[i] => i = sending[c].id
    PROVE Moves
<1>1. \A q \in Carriers : DeliveryMoves(q)
  BY DEF TypeOK, DeliveryMoves
<1>2. Careful
  BY DEF TypeOK, Moments, Careful
<1> QED
  BY <1>1, <1>2 DEF Moves

LEMMA HeardHere ==
    ASSUME TypeOK, NEW c \in Carriers, NEW R, Heard(c, R)
    PROVE \A i \in Ids : roads'[i] # roads[i] => i = sending[c].id
BY DEF Heard, TypeOK

\* What a task has before it does not grow while it is worked off.
LEMMA AfterShrinks ==
    ASSUME NEW t
    PROVE After(t) = t \/ After(t).due = {}
BY DEF After, NoTask

LEMMA NotifyStarts ==
    ASSUME TypeOK, NEW c \in Carriers
    PROVE /\ \A x \in Calls : NotifyBegin(c, x) => Moves
          /\ \A x \in Tests : sendTest(c, x) => Moves
          /\ \A u \in Users : NotifySkip(c, u) \/ NotifyInsert(c, u) => Moves
          /\ DeliverDue(c) => Moves
          /\ DeliverNext(c) => Moves
<1>t. task[c] \in Task /\ \A u : Without(task[c], u).due = task[c].due
  BY DEF TypeOK, Task, Without
<1>n. now \in Nat /\ now <= now
  BY OutboxConstants DEF TypeOK, Moments
<1>1. ASSUME NEW x \in Calls, NotifyBegin(c, x) PROVE Moves
  <2>1. PICK hold \in 0..Last : task' = [task EXCEPT ![c] =
              After([to |-> x.to, due |-> {}, key |-> x.key, mail |-> x.mail,
                     hold |-> hold, asked |-> IF x.urgent THEN 0 ELSE now, deaf |-> muted])]
    BY <1>1 DEF NotifyBegin
  <2> DEFINE t == [to |-> x.to, due |-> {}, key |-> x.key, mail |-> x.mail,
                   hold |-> hold, asked |-> IF x.urgent THEN 0 ELSE now, deaf |-> muted]
  <2>2. t.due = {}
    OBVIOUS
  <2>3. task' = [task EXCEPT ![c] = After(t)]
    BY <2>1
  <2> HIDE DEF t
  <2>4. After(t).due = {}
    BY <2>2, AfterShrinks
  <2>5. \A q \in Carriers : task'[q].due \subseteq task[q].due
    BY <2>3, <2>4 DEF TypeOK
  <2> QED
    BY <1>1, <2>5, QuietMoves DEF NotifyBegin, history
<1>2. ASSUME NEW x \in Tests, sendTest(c, x) PROVE Moves
  <2>1. PICK i \in Ids : /\ Insert(i, x.user, NoKey, FALSE, Asap, 0)
                         /\ sending' = [sending EXCEPT ![c] = Start(i, x.only)]
    BY <1>2 DEF sendTest
  <2>2. row'[i].notBefore = Asap
    BY <2>1 DEF Insert, TypeOK
  <2>3. x.only \in SUBSET Devices
    BY OutboxConstants
  <2>4. \A q \in Carriers : DeliveryMoves(q)
    BY <2>1, <2>2, <2>3 DEF TypeOK, DeliveryMoves, Starts
  <2> QED
    BY <1>2, <1>n, <2>4 DEF sendTest, Moves, Careful, history
<1>3. ASSUME NEW u \in Users, NotifySkip(c, u) \/ NotifyInsert(c, u) PROVE Moves
  <2>1. task' = [task EXCEPT ![c] = After(Without(task[c], u))]
    BY <1>3 DEF NotifySkip, NotifyInsert
  <2>2. After(Without(task[c], u)).due \subseteq task[c].due
    BY <1>t, AfterShrinks
  <2>3. \A q \in Carriers : task'[q].due \subseteq task[q].due
    BY <2>1, <2>2 DEF TypeOK
  <2>4. CASE NotifySkip(c, u)
    BY <2>3, <2>4, QuietMoves DEF NotifySkip, history
  <2>5. CASE NotifyInsert(c, u)
    <3>1. PICK i \in Ids : /\ Insert(i, u, task[c].key, task[c].mail, task[c].hold, task[c].asked)
                           /\ sending' = IF task[c].hold = Asap
                                THEN [sending EXCEPT ![c] = Start(i, Devices)] ELSE sending
      BY <2>5 DEF NotifyInsert
    <3>2. row'[i].notBefore = task[c].hold
      BY <3>1 DEF Insert, TypeOK
    <3>3. \A q \in Carriers : DeliveryMoves(q)
      BY <3>1, <3>2 DEF TypeOK, DeliveryMoves, Starts
    <3> QED
      BY <2>3, <2>5, <1>n, <3>3 DEF NotifyInsert, Moves, Careful, history
  <2> QED
    BY <1>3, <2>4, <2>5
<1>4. ASSUME DeliverDue(c) PROVE Moves
  <2>1. UNCHANGED <<sending, roads, now>>
    BY <1>4 DEF DeliverDue, history
  <2>2. \A q \in Carriers : \A i \in task'[q].due : i \in task[q].due \/ Due(i)
    BY <1>4 DEF DeliverDue, TypeOK, Task
  <2> QED
    BY <1>n, <2>1, <2>2 DEF Moves, Careful, DeliveryMoves
<1>5. ASSUME DeliverNext(c) PROVE Moves
  <2>1. PICK i \in task[c].due :
          /\ sending' = [sending EXCEPT ![c] = Start(i, Devices)]
          /\ task' = [task EXCEPT ![c] = After([task[c] EXCEPT !.due = @ \ {i}])]
    BY <1>5 DEF DeliverNext
  <2> DEFINE t == [task[c] EXCEPT !.due = @ \ {i}]
  <2>2. t.due \subseteq task[c].due
    BY <1>t DEF Task
  <2>3. task' = [task EXCEPT ![c] = After(t)]
    BY <2>1
  <2> HIDE DEF t
  <2>4. After(t).due \subseteq task[c].due
    BY <2>2, AfterShrinks
  <2>5. \A q \in Carriers : task'[q].due \subseteq task[q].due
    BY <2>3, <2>4 DEF TypeOK
  <2>6. i \in Ids
    BY <1>t DEF Task
  <2>7. \A q \in Carriers : DeliveryMoves(q)
    BY <2>1, <2>6 DEF TypeOK, DeliveryMoves, Starts
  <2> QED
    BY <1>5, <1>n, <2>5, <2>7 DEF DeliverNext, Moves, Careful, history
<1> QED
  BY <1>1, <1>2, <1>3, <1>4, <1>5

LEMMA SendWebStepsDown ==
    ASSUME TypeOK, NEW c \in Carriers, Sending(c), NEW S, SendWeb(c, S), sending[c].read,
           \/ AtHandheld(sending[c]) /\ S = handheld(sending[c])
           \/ AtComputers(sending[c]) /\ S = computers(sending[c])
    PROVE Moves
<1> DEFINE s == sending[c]
<1>1. PICK T \in SUBSET (S \cap works) :
        /\ Heard(c, IF T # {} THEN {"web"} ELSE {})
        /\ \/ sending' = [sending EXCEPT ![c] = NoDelivery]
           \/ sending' = [sending EXCEPT ![c] =
                     [s EXCEPT !.tried = @ \cup S, !.took = @ \cup T]]
  BY DEF SendWeb
<1> DEFINE n == [s EXCEPT !.tried = @ \cup S, !.took = @ \cup T]
<1>2. s \in Delivery
  BY SendingType
<1>3. Tries(s, n, S, T)
  BY <1>2 DEF Delivery, Tries
<1> HIDE DEF n
<1>4. StepsOn(s, n)
  BY <1>3 DEF StepsOn
<1>5. UNCHANGED <<task, now>>
  BY DEF SendWeb
<1> QED
  BY <1>1, <1>4, <1>5, HeardHere, SendingMoves DEF n

LEMMA DeliverStepsDown ==
    ASSUME TypeOK, NEW c \in Carriers
    PROVE /\ Read(c) => Moves
          /\ SendPhones(c) => Moves
          /\ SendHandheld(c) => Moves
          /\ SendComputers(c) => Moves
          /\ mailUndelivered(c) => Moves
          /\ Record(c) => Moves
          /\ DeliveryFails(c) => Moves
          /\ Lose(c) => Moves
<1> DEFINE s == sending[c]
<1>s. Sending(c) => s \in Delivery
  BY SendingType
<1>1. ASSUME Read(c) PROVE Moves
  <2> DEFINE ph == {p \in Phones \cap s.only : <<UserOf(s.id), p>> \in tokens}
             mine == {b \in Browsers \cap s.only : subs[b].user = UserOf(s.id)}
             bn == [b \in Browsers |-> IF b \in mine THEN subs[b].born ELSE 0]
  <2>1. /\ sending' = [sending EXCEPT ![c] =
                 [s EXCEPT !.read = TRUE, !.phones = ph, !.webs = mine, !.born = bn]]
        /\ ph \subseteq Phones /\ mine \subseteq Browsers
    BY <1>1 DEF Read
  <2> HIDE DEF ph, mine, bn
  <2> DEFINE n == [s EXCEPT !.read = TRUE, !.phones = ph, !.webs = mine, !.born = bn]
  <2>2. Sending(c) /\ ~s.read /\ UNCHANGED <<task, now, roads>>
    BY <1>1 DEF Read, history
  <2>3. Reads(s, n)
    BY <1>s, <2>1, <2>2 DEF Delivery, Reads
  <2> HIDE DEF n
  <2>4. StepsOn(s, n)
    BY <2>3 DEF StepsOn
  <2> QED
    BY <2>1, <2>2, <2>4, SendingMoves DEF n
<1>2. ASSUME SendPhones(c) PROVE Moves
  <2>1. PICK T \in SUBSET s.phones :
          /\ sending' = [sending EXCEPT ![c] =
               [s EXCEPT !.tried = @ \cup s.phones, !.took = @ \cup T]]
          /\ Heard(c, IF T # {} THEN {"phone"} ELSE {})
    BY <1>2 DEF SendPhones
  <2> DEFINE n == [s EXCEPT !.tried = @ \cup s.phones, !.took = @ \cup T]
  <2>2. Sending(c) /\ AtPhones(s) /\ UNCHANGED <<task, now>>
    BY <1>2 DEF SendPhones
  <2>3. Tries(s, n, s.phones, T)
    BY <1>s, <2>2 DEF Delivery, Tries, AtPhones
  <2> HIDE DEF n
  <2>4. StepsOn(s, n)
    BY <2>2, <2>3 DEF StepsOn
  <2> QED
    BY <2>1, <2>2, <2>4, HeardHere, SendingMoves DEF n
<1>3. ASSUME SendHandheld(c) PROVE Moves
  BY <1>3, SendWebStepsDown DEF SendHandheld, AtHandheld
<1>4. ASSUME SendComputers(c) PROVE Moves
  BY <1>4, SendWebStepsDown DEF SendComputers, AtComputers
<1>5. ASSUME mailUndelivered(c) PROVE Moves
  <2>1. PICK left, R : /\ sending' = [sending EXCEPT ![c] = [s EXCEPT !.letter = left]]
                       /\ Heard(c, R)
    BY <1>5 DEF mailUndelivered
  <2> DEFINE n == [s EXCEPT !.letter = left]
  <2>2. Sending(c) /\ s.read /\ UNCHANGED <<task, now>>
    BY <1>5 DEF mailUndelivered, AtLetter
  <2>3. Tries(s, n, {}, {})
    BY <1>s, <2>2 DEF Delivery, Tries
  <2> HIDE DEF n
  <2>4. StepsOn(s, n)
    BY <2>3 DEF StepsOn
  <2> QED
    BY <2>1, <2>2, <2>4, HeardHere, SendingMoves DEF n
<1>6. ASSUME Record(c) \/ DeliveryFails(c) \/ Lose(c) PROVE Moves
  <2>1. \A q \in Carriers : sending'[q] \in {sending[q], NoDelivery}
    BY <1>6 DEF Record, DeliveryFails, Lose, TypeOK
  <2>2. UNCHANGED <<roads, now>>
    BY <1>6 DEF Record, DeliveryFails, Lose, history
  <2>3. \A q \in Carriers : task'[q].due \subseteq task[q].due
    BY <1>6 DEF Record, DeliveryFails, Lose, TypeOK, NoTask
  <2> QED
    BY <2>1, <2>2, <2>3, QuietMoves
<1> QED
  BY <1>1, <1>2, <1>3, <1>4, <1>5, <1>6

\* Every step of the outbox is such a move of each delivery.
LEMMA StepMoves ==
    ASSUME TypeOK, [Next]_vars
    PROVE Moves
<1>1. ASSUME UNCHANGED <<sending, task, roads>>, now <= now' PROVE Moves
  BY <1>1 DEF Moves, Careful, DeliveryMoves
<1>n. now \in Nat
  BY DEF TypeOK, Moments
<1>2. CASE Tick
  BY <1>1, <1>2, <1>n DEF Tick, history
<1>3. ASSUME UNCHANGED <<sending, task, roads, now>> PROVE Moves
  BY <1>1, <1>3, <1>n
<1>4. CASE CleanupOld \/ UNCHANGED vars
  BY <1>3, <1>4 DEF CleanupOld, vars, history
<1>5. ASSUME NEW u \in Users, NEW p \in Phones, registerToken(u, p) \/ unregisterToken(u, p)
      PROVE Moves
  BY <1>3, <1>5 DEF registerToken, unregisterToken, history
<1>6. ASSUME NEW r, registerTokenSave(r) \/ registerTokenLost(r) PROVE Moves
  BY <1>3, <1>6 DEF registerTokenSave, registerTokenLost, history
<1>7. ASSUME NEW b \in Browsers, (\E u \in Users : registerSubscription(u, b)) \/ removeSubscription(b)
      PROVE Moves
  BY <1>3, <1>7 DEF registerSubscription, removeSubscription, HandOver
<1>8. ASSUME NEW d, Uninstall(d) PROVE Moves
  BY <1>3, <1>8 DEF Uninstall, history
<1>9. ASSUME NEW u, setPreference(u) PROVE Moves
  BY <1>3, <1>9 DEF setPreference, history
<1>10. ASSUME NEW S, checkReceipts(S) \/ deleteTokens \/ deleteTokensLost PROVE Moves
  BY <1>3, <1>10 DEF checkReceipts, deleteTokens, deleteTokensLost, history
<1> QED
  BY <1>2, <1>4, <1>5, <1>6, <1>7, <1>8, <1>9, <1>10, NotifyStarts, DeliverStepsDown DEF Next, Carry

----------------------------------------------------------------------------
(* The ladder *)

LEMMA LadderMoves ==
    ASSUME NEW s \in Delivery, Ladder(s), NEW n, StepsOn(s, n)
    PROVE Ladder(n)
<1>d. s.phones \subseteq Phones /\ s.webs \subseteq Browsers /\ Phones \cap Browsers = {}
  BY OutboxConstants DEF Delivery
<1>k. /\ OfKind(s, "desktop") \subseteq s.webs /\ OfKind(s, "android") \subseteq s.webs
      /\ OfKind(s, "ios") \subseteq s.webs
      /\ OfKind(s, "desktop") \cap OfKind(s, "android") = {}
      /\ OfKind(s, "desktop") \cap handheld(s) = {}
  BY DEF OfKind, handheld
<1>1. CASE Reads(s, n)
  <2>1. n.tried = {} /\ n.took = {} /\ n.read
    BY <1>1 DEF Reads, Ladder
  <2> QED
    BY <2>1 DEF Ladder
<1>g. ASSUME NEW S, NEW T, Tries(s, n, S, T), S \subseteq s.phones \cup s.webs
      PROVE /\ n.read /\ n.took \subseteq n.tried /\ n.tried \subseteq n.phones \cup n.webs
            /\ \A kind : OfKind(n, kind) = OfKind(s, kind)
            /\ n.phones = s.phones /\ s.tried \subseteq n.tried /\ n.took = s.took \cup T
            /\ T \subseteq S /\ S \subseteq n.tried
  BY <1>g DEF Tries, Ladder, OfKind
<1>h. handheld(n) = IF byPhone(n) THEN OfKind(n, "ios") ELSE OfKind(n, "ios") \cup OfKind(n, "android")
  BY DEF handheld
<1>2. CASE AtPhones(s) /\ \E T : Tries(s, n, s.phones, T)
  <2>1. PICK T : Tries(s, n, s.phones, T)
    BY <1>2
  <2>2. /\ s.took \cap OfKind(s, "desktop") = {}
        /\ s.took \cap OfKind(s, "android") = {}
    BY <1>2 DEF Ladder, AtPhones
  <2>3. T \cap OfKind(s, "desktop") = {} /\ T \cap OfKind(s, "android") = {}
    BY <1>d, <1>k, <1>g, <2>1
  <2> QED
    BY <1>g, <2>1, <2>2, <2>3 DEF Ladder
<1>3. CASE AtHandheld(s) /\ \E T : Tries(s, n, handheld(s), T)
  <2>1. PICK T : Tries(s, n, handheld(s), T)
    BY <1>3
  <2>2. handheld(s) \subseteq s.webs
    BY <1>k DEF handheld
  <2>3. s.took \cap OfKind(s, "desktop") = {}
    BY <1>3 DEF Ladder, AtHandheld
  <2>4. T \cap OfKind(s, "desktop") = {} /\ T \subseteq s.webs
    BY <1>k, <1>g, <2>1, <2>2
  <2>5. s.phones \subseteq s.tried
    BY <1>3 DEF AtHandheld, AtPhones
  <2>6. byPhone(n) <=> byPhone(s)
    BY <1>d, <1>g, <2>1, <2>2, <2>4 DEF byPhone
  <2>7. T \cap OfKind(s, "android") # {} => ~byPhone(s)
    <3>1. handheld(s) = IF byPhone(s) THEN OfKind(s, "ios")
                        ELSE OfKind(s, "ios") \cup OfKind(s, "android")
      BY DEF handheld
    <3>2. OfKind(s, "ios") \cap OfKind(s, "android") = {}
      BY DEF OfKind
    <3> QED
      BY <1>g, <2>1, <2>2, <3>1, <3>2
  <2> QED
    BY <1>g, <2>1, <2>2, <2>3, <2>4, <2>5, <2>6, <2>7 DEF Ladder
<1>4. CASE AtComputers(s) /\ \E T : Tries(s, n, computers(s), T)
  <2>1. PICK T : Tries(s, n, computers(s), T)
    BY <1>4
  <2>2. s.took = {} /\ computers(s) = OfKind(s, "desktop")
    BY <1>4 DEF AtComputers, computers
  <2>3. s.phones \subseteq s.tried /\ handheld(s) \subseteq s.tried
    BY <1>4 DEF AtComputers, AtHandheld, AtPhones
  <2>4. n.took \subseteq OfKind(s, "desktop") /\ computers(s) \subseteq s.webs
    BY <1>g, <1>k, <2>1, <2>2
  <2>5. ~byPhone(n) /\ ~byPhone(s)
    BY <1>d, <1>k, <2>2, <2>4 DEF byPhone
  <2>6. handheld(n) = handheld(s)
    BY <1>g, <2>1, <2>4, <2>5 DEF handheld
  <2> QED
    BY <1>g, <1>k, <2>1, <2>3, <2>4, <2>5, <2>6 DEF Ladder
<1>5. CASE Tries(s, n, {}, {})
  <2>1. /\ n.read /\ n.phones = s.phones /\ n.webs = s.webs /\ n.tried = s.tried /\ n.took = s.took
    BY <1>5 DEF Tries
  <2> QED
    BY <2>1 DEF Ladder, OfKind, handheld, byPhone
<1> QED
  BY <1>1, <1>2, <1>3, <1>4, <1>5 DEF StepsOn

LEMMA LadderStep == TypeOK /\ LadderInv /\ [Next]_vars => LadderInv'
<1> SUFFICES ASSUME TypeOK, LadderInv, [Next]_vars, NEW c \in Carriers, Sending(c)'
             PROVE Ladder(sending'[c])
  BY DEF LadderInv, Ladder, OfKind, handheld, byPhone
<1>1. DeliveryMoves(c)
  BY StepMoves DEF Moves
<1>2. CASE sending'[c] \in {sending[c], NoDelivery}
  BY <1>2 DEF LadderInv, Sending
<1>3. CASE Starts(c)
  <2>1. \A i, only : LET s == Start(i, only) IN ~s.read /\ s.tried = {} /\ s.took = {}
    BY DEF Start
  <2>2. sending'[c].tried = {} /\ sending'[c].took = {}
    BY <1>3, <2>1 DEF Starts
  <2> QED
    BY <2>2 DEF Ladder
<1>4. CASE Sending(c) /\ StepsOn(sending[c], sending'[c])
  BY <1>4, SendingType, LadderMoves DEF LadderInv
<1> QED
  BY <1>1, <1>2, <1>3, <1>4 DEF DeliveryMoves

\* At the end of the ladder nothing was left out, and nothing was said twice.
LEMMA LadderSteps == TypeOK /\ LadderInv => StepsDown
<1> SUFFICES ASSUME TypeOK, LadderInv, NEW c \in Carriers, Sending(c)
             PROVE LET s == sending[c] IN
                   /\ AtRecord(s) /\ s.took = {} =>
                         /\ s.tried = s.phones \cup s.webs
                         /\ ~HasDevice(s) /\ row[s.id].mail => s.letter # "none"
                   /\ s.took \cap OfKind(s, "desktop") # {} => s.took \subseteq OfKind(s, "desktop")
                   /\ s.took \cap OfKind(s, "android") # {} => ~byPhone(s)
  BY DEF StepsDown, FailedAfterAll, OneCopyADevice
<1> DEFINE s == sending[c]
<1>1. s \in Delivery /\ Ladder(s)
  BY SendingType DEF LadderInv
<1>2. ASSUME AtRecord(s), s.took = {} PROVE s.tried = s.phones \cup s.webs
  <2>1. s.read /\ ~AtPhones(s) /\ ~AtHandheld(s) /\ ~AtComputers(s)
    BY <1>2 DEF AtRecord
  <2>2. s.phones \subseteq s.tried /\ handheld(s) \subseteq s.tried /\ computers(s) \subseteq s.tried
    BY <2>1 DEF AtPhones, AtHandheld, AtComputers
  <2>3. handheld(s) = OfKind(s, "ios") \cup OfKind(s, "android") /\ computers(s) = OfKind(s, "desktop")
    BY <1>2 DEF handheld, computers, byPhone
  <2>4. s.webs = OfKind(s, "ios") \cup OfKind(s, "android") \cup OfKind(s, "desktop")
    BY <1>1, OutboxConstants DEF OfKind, Delivery
  <2> QED
    BY <1>1, <2>2, <2>3, <2>4 DEF Ladder
<1>3. ASSUME AtRecord(s), ~HasDevice(s), row[s.id].mail PROVE s.letter # "none"
  BY <1>3 DEF AtRecord, AtLetter
<1> QED
  BY <1>1, <1>2, <1>3 DEF Ladder

\* No delivery gives up before every device it read has been tried, and none shows
\* its message on a device whose owner has it in his hand already.
THEOREM DeliveriesStepDown == Spec => []StepsDown
<1>1. Init => LadderInv
  BY DEF Init, LadderInv, Sending
<1> QED
  BY <1>1, LadderStep, LadderSteps, OutboxTypeCorrect, PTL DEF Spec

----------------------------------------------------------------------------
(* The night *)

LEMMA HeldStep == TypeOK /\ RowsWritten /\ HeldInv /\ [Next]_vars => HeldInv'
<1> SUFFICES ASSUME TypeOK, RowsWritten, HeldInv, [Next]_vars PROVE HeldInv'
  OBVIOUS
<1>1. Moves /\ RowsStay /\ RowsWritten' /\ TypeOK'
  BY StepMoves, RowsStep, TypeStep
<1>2. now \in Nat /\ now' \in Nat /\ now <= now'
  BY <1>1 DEF TypeOK, Moments, Moves, Careful
<1>3. /\ \A i \in Ids : row[i].notBefore \in Nat
      /\ \A c \in Carriers : task[c].due \subseteq Ids
      /\ \A c \in Carriers : Sending(c) => sending[c].id \in Ids
  BY SendingType DEF TypeOK, Row, Task, Delivery
\* A row that may be heard now may be heard after the step.
<1>4. ASSUME NEW i \in Ids, row[i].status # "none", row[i].notBefore <= now
      PROVE row'[i].notBefore <= now' /\ row'[i].status # "none"
  BY <1>1, <1>2, <1>3, <1>4 DEF RowsStay
<1>5. ASSUME NEW i \in Ids, roads'[i] # {} PROVE row'[i].notBefore <= now' /\ row'[i].status # "none"
  <2>1. CASE roads[i] # {}
    BY <1>4, <2>1 DEF HeldInv
  <2>2. CASE roads[i] = {}
    <3>1. PICK c \in Carriers : Sending(c) /\ sending[c].id = i
      BY <1>1, <1>5, <2>2 DEF Moves, Careful
    <3> QED
      BY <1>4, <3>1 DEF HeldInv, RowsWritten
  <2> QED
    BY <2>1, <2>2
<1>6. ASSUME NEW c \in Carriers, NEW i \in task'[c].due PROVE row'[i].notBefore <= now'
  <2>1. CASE i \in task[c].due
    BY <1>3, <1>4, <2>1 DEF HeldInv, RowsWritten
  <2>2. CASE i \notin task[c].due
    <3>1. Due(i) /\ i \in Ids
      BY <1>1, <2>2 DEF Moves, Careful, TypeOK, Task
    <3>2. row[i].status # "none" /\ row[i].notBefore <= now
      BY <1>2, <3>1 DEF Due, Asap
    <3> QED
      BY <1>4, <3>1, <3>2
  <2> QED
    BY <2>1, <2>2
<1>7. ASSUME NEW c \in Carriers, Sending(c)' PROVE row'[sending'[c].id].notBefore <= now'
  <2>1. DeliveryMoves(c)
    BY <1>1 DEF Moves
  <2>2. CASE sending'[c] = sending[c]
    BY <1>3, <1>4, <1>7, <2>2 DEF HeldInv, RowsWritten, Sending
  <2>3. CASE sending'[c] = NoDelivery
    BY <1>7, <2>3 DEF Sending
  <2>4. CASE Starts(c)
    <3>1. PICK i \in Ids : sending'[c].id = i /\ (i \in task[c].due \/ row'[i].notBefore = Asap)
      BY <2>4 DEF Starts, Start
    <3>2. CASE i \in task[c].due
      BY <1>4, <3>1, <3>2 DEF HeldInv, RowsWritten
    <3>3. CASE row'[i].notBefore = Asap
      BY <1>2, <3>1, <3>3 DEF Asap
    <3> QED
      BY <3>1, <3>2, <3>3
  <2>5. CASE Sending(c) /\ StepsOn(sending[c], sending'[c])
    <3>1. sending'[c].id = sending[c].id
      BY <2>5 DEF StepsOn, Reads, Tries
    <3> QED
      BY <1>3, <1>4, <2>5, <3>1 DEF HeldInv, RowsWritten
  <2> QED
    BY <2>1, <2>2, <2>3, <2>4, <2>5 DEF DeliveryMoves
<1>8. \A i \in Ids : row'[i].status = "none" => roads'[i] = {}
  BY <1>5
<1> QED
  BY <1>5, <1>6, <1>7, <1>8 DEF HeldInv

\* The hour a message waits for, against the moment its call asked for the hour:
\* by day it need not wait, at night it waits for a waking moment not before.
Answers(hold, asked) ==
    asked # 0 => IF hold = Asap THEN asked \notin Night ELSE hold \notin Night /\ asked <= hold

RaisedInv ==
    /\ \A i \in Ids : row[i].status # "none" =>
          row[i].raised <= now /\ Answers(row[i].notBefore, row[i].raised)
    /\ \A c \in Carriers : task[c].asked <= now /\ Answers(task[c].hold, task[c].asked)

\* A row that is written takes its hours from its call; a call asks at the moment.
RowsTake ==
    \A i \in Ids : \/ row[i].status # "none"
                  \/ row'[i].status = "none"
                  \/ row'[i].raised = 0
                  \/ \E c \in Carriers : /\ row'[i].raised = task[c].asked
                                         /\ row'[i].notBefore = task[c].hold
CallsAsk ==
    \A c \in Carriers :
        \/ /\ task'[c].asked = task[c].asked
           /\ task'[c].hold = task[c].hold
        \/ task'[c].asked = 0
        \/ /\ task'[c].asked = now
           /\ Answers(task'[c].hold, now)

LEMMA WriteTakes ==
    ASSUME TypeOK, NEW i \in Ids, row[i].status # "none", NEW status, NEW channel,
           Write(i, status, channel)
    PROVE RowsTake
BY DEF Write, TypeOK, RowsTake

LEMMA InsertTakes ==
    ASSUME TypeOK, NEW i \in Ids, NEW u, NEW k, NEW m, NEW hold, NEW asked,
           Insert(i, u, k, m, hold, asked),
           asked = 0 \/ \E c \in Carriers : asked = task[c].asked /\ hold = task[c].hold
    PROVE RowsTake
<1>1. /\ \A j \in Ids : j # i => row'[j] = row[j]
      /\ row'[i].raised = asked /\ row'[i].notBefore = hold
  BY DEF Insert, TypeOK
<1> QED
  BY <1>1 DEF RowsTake

LEMMA NotifyAsks ==
    ASSUME TypeOK, NEW c \in Carriers
    PROVE /\ \A x \in Calls : NotifyBegin(c, x) => RowsTake /\ CallsAsk
          /\ \A x \in Tests : sendTest(c, x) => RowsTake /\ CallsAsk
          /\ \A u \in Users : NotifySkip(c, u) \/ NotifyInsert(c, u) => RowsTake /\ CallsAsk
<1>r. row' = row => RowsTake
  BY DEF RowsTake
<1>1. ASSUME NEW x \in Calls, NotifyBegin(c, x) PROVE RowsTake /\ CallsAsk
  <2>1. PICK hold \in 0..Last :
          /\ computeNotBefore(now, x.urgent, hold)
          /\ task' = [task EXCEPT ![c] =
              After([to |-> x.to, due |-> {}, key |-> x.key, mail |-> x.mail,
                     hold |-> hold, asked |-> IF x.urgent THEN 0 ELSE now, deaf |-> muted])]
    BY <1>1 DEF NotifyBegin
  <2>2. x.urgent \in BOOLEAN
    BY OutboxConstants
  <2> DEFINE t == [to |-> x.to, due |-> {}, key |-> x.key, mail |-> x.mail,
                   hold |-> hold, asked |-> IF x.urgent THEN 0 ELSE now, deaf |-> muted]
  <2>3. t.hold = hold /\ t.asked = IF x.urgent THEN 0 ELSE now
    OBVIOUS
  <2>4. task' = [task EXCEPT ![c] = After(t)]
    BY <2>1
  <2> HIDE DEF t
  <2>5. After(t) = t \/ After(t).asked = 0
    BY DEF After, NoTask
  <2>6. ~x.urgent => Answers(hold, now)
    BY <2>1, <2>2, OutboxConstants DEF computeNotBefore, Answers, Asap, Moments, TypeOK
  <2>7. task'[c] = After(t) /\ \A q \in Carriers : q # c => task'[q] = task[q]
    BY <2>4 DEF TypeOK
  <2>8. CallsAsk
    BY <2>2, <2>3, <2>5, <2>6, <2>7 DEF CallsAsk
  <2> QED
    BY <1>1, <1>r, <2>8 DEF NotifyBegin, tables
<1>2. ASSUME NEW x \in Tests, sendTest(c, x) PROVE RowsTake /\ CallsAsk
  <2>1. PICK i \in Ids : Insert(i, x.user, NoKey, FALSE, Asap, 0)
    BY <1>2 DEF sendTest
  <2>2. RowsTake
    BY <2>1, InsertTakes
  <2> QED
    BY <1>2, <2>2 DEF sendTest, CallsAsk
<1>3. ASSUME NEW u \in Users, NotifySkip(c, u) \/ NotifyInsert(c, u) PROVE RowsTake /\ CallsAsk
  <2>1. task' = [task EXCEPT ![c] = After(Without(task[c], u))]
    BY <1>3 DEF NotifySkip, NotifyInsert
  <2>2. /\ Without(task[c], u).asked = task[c].asked
        /\ Without(task[c], u).hold = task[c].hold
    BY DEF TypeOK, Task, Without
  <2>3. \/ After(Without(task[c], u)) = Without(task[c], u)
        \/ After(Without(task[c], u)).asked = 0
    BY DEF After, NoTask
  <2>4. CallsAsk
    BY <2>1, <2>2, <2>3 DEF CallsAsk, TypeOK
  <2>5. CASE NotifySkip(c, u)
    BY <1>r, <2>4, <2>5 DEF NotifySkip, tables
  <2>6. CASE NotifyInsert(c, u)
    <3>1. PICK i \in Ids : Insert(i, u, task[c].key, task[c].mail, task[c].hold, task[c].asked)
      BY <2>6 DEF NotifyInsert
    <3> QED
      BY <2>4, <3>1, InsertTakes
  <2> QED
    BY <1>3, <2>5, <2>6
<1> QED
  BY <1>1, <1>2, <1>3

LEMMA DeliverAsks ==
    ASSUME TypeOK, RowsWritten, NEW c \in Carriers
    PROVE /\ DeliverDue(c) \/ DeliverNext(c) \/ Lose(c) => RowsTake /\ CallsAsk
          /\ Read(c) \/ SendPhones(c) \/ mailUndelivered(c) => RowsTake /\ CallsAsk
          /\ SendHandheld(c) \/ SendComputers(c) => RowsTake /\ CallsAsk
          /\ Record(c) \/ DeliveryFails(c) => RowsTake /\ CallsAsk
<1>r. row' = row => RowsTake
  BY DEF RowsTake
<1>t. task' = task => CallsAsk
  BY DEF CallsAsk
<1>s. Sending(c) => sending[c].id \in Ids /\ row[sending[c].id].status # "none"
  BY SendingType DEF Delivery, RowsWritten
<1>1. ASSUME DeliverDue(c) PROVE RowsTake /\ CallsAsk
  <2>1. PICK D : task' = [task EXCEPT ![c].due = D]
    BY <1>1 DEF DeliverDue
  <2>2. /\ [task[c] EXCEPT !.due = D].asked = task[c].asked
        /\ [task[c] EXCEPT !.due = D].hold = task[c].hold
    BY DEF TypeOK, Task
  <2> QED
    BY <1>1, <1>r, <2>1, <2>2 DEF DeliverDue, tables, CallsAsk, TypeOK
<1>2. ASSUME DeliverNext(c) PROVE RowsTake /\ CallsAsk
  <2>1. PICK i : task' = [task EXCEPT ![c] = After([task[c] EXCEPT !.due = @ \ {i}])]
    BY <1>2 DEF DeliverNext
  <2> DEFINE t == [task[c] EXCEPT !.due = @ \ {i}]
  <2>2. t.asked = task[c].asked /\ t.hold = task[c].hold
    BY DEF TypeOK, Task
  <2>3. task' = [task EXCEPT ![c] = After(t)]
    BY <2>1
  <2> HIDE DEF t
  <2>4. After(t) = t \/ After(t).asked = 0
    BY DEF After, NoTask
  <2> QED
    BY <1>2, <1>r, <2>2, <2>3, <2>4 DEF DeliverNext, tables, CallsAsk, TypeOK
<1>3. ASSUME Lose(c) PROVE RowsTake /\ CallsAsk
  BY <1>3, <1>r DEF Lose, tables, CallsAsk, TypeOK, NoTask
<1>4. ASSUME Read(c) \/ SendPhones(c) \/ mailUndelivered(c) PROVE RowsTake /\ CallsAsk
  BY <1>4, <1>r, <1>t DEF Read, SendPhones, mailUndelivered, tables
<1>5. ASSUME NEW S, Sending(c), SendWeb(c, S) PROVE RowsTake /\ CallsAsk
  <2>1. Failed(sending[c]) \/ row' = row
    BY <1>5 DEF SendWeb
  <2> QED
    BY <1>5, <1>r, <1>t, <1>s, <2>1, WriteTakes DEF Failed, SendWeb
<1>6. ASSUME SendHandheld(c) \/ SendComputers(c) PROVE RowsTake /\ CallsAsk
  BY <1>5, <1>6 DEF SendHandheld, SendComputers
<1>7. ASSUME Record(c) \/ DeliveryFails(c) PROVE RowsTake /\ CallsAsk
  BY <1>7, <1>t, <1>s, WriteTakes DEF Record, DeliveryFails, Failed
<1> QED
  BY <1>1, <1>2, <1>3, <1>4, <1>6, <1>7

LEMMA StepAsks == TypeOK /\ RowsWritten /\ [Next]_vars => RowsTake /\ CallsAsk
<1> SUFFICES ASSUME TypeOK, RowsWritten, [Next]_vars PROVE RowsTake /\ CallsAsk
  OBVIOUS
<1>1. ASSUME UNCHANGED <<row, task>> PROVE RowsTake /\ CallsAsk
  BY <1>1 DEF RowsTake, CallsAsk
<1>2. CASE Tick \/ UNCHANGED vars
  BY <1>1, <1>2 DEF Tick, vars, tables
<1>3. CASE CleanupOld
  BY <1>3 DEF CleanupOld, RowsTake, CallsAsk, TypeOK, Settled
<1>4. ASSUME NEW u, NEW p, registerToken(u, p) \/ unregisterToken(u, p) PROVE RowsTake /\ CallsAsk
  BY <1>1, <1>4 DEF registerToken, unregisterToken
<1>5. ASSUME NEW r, registerTokenSave(r) \/ registerTokenLost(r) PROVE RowsTake /\ CallsAsk
  BY <1>1, <1>5 DEF registerTokenSave, registerTokenLost, tables
<1>6. ASSUME NEW b, (\E u \in Users : registerSubscription(u, b)) \/ removeSubscription(b)
      PROVE RowsTake /\ CallsAsk
  BY <1>1, <1>6 DEF registerSubscription, removeSubscription
<1>7. ASSUME NEW d, Uninstall(d) \/ setPreference(d) PROVE RowsTake /\ CallsAsk
  BY <1>1, <1>7 DEF Uninstall, setPreference, tables
<1>8. ASSUME NEW S, checkReceipts(S) \/ deleteTokens \/ deleteTokensLost PROVE RowsTake /\ CallsAsk
  BY <1>1, <1>8 DEF checkReceipts, deleteTokens, deleteTokensLost, tables
<1> QED
  BY <1>2, <1>3, <1>4, <1>5, <1>6, <1>7, <1>8, NotifyAsks, DeliverAsks DEF Next, Carry

LEMMA RaisedStep == TypeOK /\ RowsWritten /\ RaisedInv /\ [Next]_vars => RaisedInv'
<1> SUFFICES ASSUME TypeOK, RowsWritten, RaisedInv, [Next]_vars PROVE RaisedInv'
  OBVIOUS
<1>1. RowsTake /\ CallsAsk /\ RowsStay /\ Moves
  BY StepAsks, RowsStep, StepMoves
<1>2. now \in Nat /\ now' \in Nat /\ now <= now'
  BY <1>1, TypeStep DEF TypeOK, Moments, Moves, Careful
<1>3. /\ \A i \in Ids : row[i].raised \in Nat
      /\ \A c \in Carriers : task[c].asked \in Nat
  BY DEF TypeOK, Row, Task
<1>5. ASSUME NEW i \in Ids, row'[i].status # "none"
      PROVE row'[i].raised <= now' /\ Answers(row'[i].notBefore, row'[i].raised)
  <2>1. CASE row[i].status # "none"
    BY <1>1, <1>2, <1>3, <2>1 DEF RowsStay, RaisedInv
  <2>2. CASE row[i].status = "none"
    BY <1>1, <1>2, <1>3, <1>5, <2>2 DEF RowsTake, RaisedInv, Answers
  <2> QED
    BY <2>1, <2>2
<1>6. ASSUME NEW c \in Carriers
      PROVE task'[c].asked <= now' /\ Answers(task'[c].hold, task'[c].asked)
  <2>1. CASE task'[c].asked = task[c].asked /\ task'[c].hold = task[c].hold
    BY <1>2, <1>3, <2>1 DEF RaisedInv
  <2>2. CASE task'[c].asked = 0
    BY <1>2, <2>2 DEF Answers
  <2>3. CASE task'[c].asked = now /\ Answers(task'[c].hold, now)
    BY <1>2, <2>3
  <2> QED
    BY <1>1, <2>1, <2>2, <2>3 DEF CallsAsk
<1> QED
  BY <1>5, <1>6 DEF RaisedInv

\* What was raised at night, and not as urgent, is heard by nobody before a waking
\* moment has come, whoever of notify and the passes of deliverDue, any number of
\* them, comes to the row first.
THEOREM NightIsKept == Spec => []HeldTillMorning
<1>1. Init => HeldInv /\ RowsWritten /\ RaisedInv
  <2> SUFFICES ASSUME Init PROVE HeldInv /\ RowsWritten /\ RaisedInv
    OBVIOUS
  <2>1. \A c \in Carriers : ~Sending(c) /\ task[c].due = {} /\ task[c].asked = 0
    BY DEF Init, Sending, NoTask
  <2>2. \A i \in Ids : roads[i] = {} /\ row[i].status = "none"
    BY DEF Init, NoRow
  <2>3. 0 <= now
    BY DEF Init
  <2> QED
    BY <2>1, <2>2, <2>3 DEF HeldInv, RowsWritten, RaisedInv, Answers
<1>2. TypeOK /\ HeldInv /\ RaisedInv => HeldTillMorning
  <2> SUFFICES ASSUME TypeOK, HeldInv, RaisedInv, NEW i \in Ids, roads[i] # {}, row[i].raised # 0
               PROVE \E m \in row[i].raised..now : m \notin Night
    BY DEF HeldTillMorning
  <2>1. /\ row[i].raised \in Nat /\ row[i].notBefore \in Nat /\ now \in Nat
        /\ row[i].raised <= now /\ row[i].notBefore <= now
        /\ Answers(row[i].notBefore, row[i].raised)
    BY DEF TypeOK, Row, Moments, HeldInv, RaisedInv
  <2>2. CASE row[i].notBefore = Asap
    BY <2>1, <2>2 DEF Answers
  <2>3. CASE row[i].notBefore # Asap
    BY <2>1, <2>3 DEF Answers
  <2> QED
    BY <2>2, <2>3
<1> QED
  BY <1>1, <1>2, HeldStep, RaisedStep, RowsStep, OutboxTypeCorrect, PTL DEF Spec
=============================================================================
