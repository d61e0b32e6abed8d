----------------------------- MODULE Programme -----------------------------
(***************************************************************************)
(* The programme of one meeting and what its people hear of it.  A change  *)
(* of a published part sets a flag on the part's row                       *)
(* (assignments.service.ts); a job of every minute says what is flagged    *)
(* when its time has come (programme-notice.service.ts); an announcement   *)
(* tells the holders, remembers what it told them, and tells those who no  *)
(* longer hold what they were told of; and in the evening a digest does    *)
(* both once more for everybody (assignment-reminders.service.ts).         *)
(*                                                                         *)
(* A worker is a request in flight, the minute job or the evening job; its *)
(* steps are what the code does between two awaits that matter, and        *)
(* everything else runs in between.  `knows` is what the people believe:   *)
(* the messages are handed to the outbox (module Outbox), which delivers   *)
(* them.  Not modelled: an assistant on a part (his place is like a part   *)
(* of its own), creating and importing rows, moving a row to another week, *)
(* who may still put a record right (programme-freeze.ts), the weekend     *)
(* talk's journal, and the words.                                          *)
(***************************************************************************)
EXTENDS Naturals, FiniteSets

CONSTANTS
    Parts, Chairman, Prayer,   \* two of the parts are the chairman and the prayer
    Brothers, Nobody,
    Capable,                   \* those who may pray, when the automation is on
    Last,                      \* the moments are 1..Last
    Soon, Begins, HeldFrom,    \* three hours before the meeting; its start; the day after
    Quiet,                     \* moments outside the waking hours
    EveningOf,                 \* the evening a moment is in, 0 for none
    Ahead, Recall,             \* evenings before the meeting's day; those on a step of the ladder
    HoldAt,                    \* the 18:00 a change may be held for at a moment, 0 for none
    Settle, SoonSettle,        \* moments from the last edit to the message
    Setups,                    \* who holds what at the start
    Requests, Minute, Evening, \* the workers
    MaxUsed                    \* bound of the instance: requests and failures, together

Moments == 1..Last
Everybody == Brothers \cup {Nobody}
Workers == Requests \cup {Minute}

ASSUME ProgrammeConstants ==
    /\ Chairman \in Parts /\ Prayer \in Parts /\ Chairman # Prayer
    /\ Nobody \notin Brothers /\ Capable \subseteq Brothers
    /\ Last \in Nat \ {0} /\ Soon \in Nat /\ Begins \in Nat /\ HeldFrom \in Nat
    /\ Soon < Begins /\ Begins < HeldFrom
    /\ Quiet \subseteq Moments
    /\ EveningOf \in [Moments -> Nat]
    /\ Ahead \subseteq Nat \ {0} /\ Recall \subseteq Ahead
    /\ \A m \in Moments : EveningOf[m] \in Ahead => m < Begins
    /\ HoldAt \in [Moments -> 0..Last]
    /\ \A m \in Moments : HoldAt[m] # 0 => m < HoldAt[m] /\ HoldAt[m] <= Soon
    /\ Settle \in Nat /\ SoonSettle \in Nat /\ SoonSettle <= Settle
    /\ Setups \subseteq [Parts -> Everybody]
    /\ Minute \notin Requests /\ Evening \notin Requests /\ Minute # Evening
    /\ MaxUsed \in Nat

\* The last evening of the ladder is among the moments.
ASSUME LadderEnds ==
    \E m \in Moments : EveningOf[m] \in Recall /\ \A e \in Recall : e <= EveningOf[m]

Statuses == {"draft", "published", "cancelled"}
Row == [holder: Everybody, status: Statuses, removed: BOOLEAN, flag: BOOLEAN, edited: 0..Last]
Pairs == Brothers \X Parts
Wishes == Everybody \cup {"cancel", "giveBack"}  \* what an edit asks of a part

\* A request, by the step it is before.  `news` is who is told of which part.
Job == [at: {"idle"}]
       \cup [at: {"save"}, p: Parts, row: Row, new: Row]
       \cup [at: {"rule"}, prev: Everybody, next: Everybody]
       \cup [at: {"ruleSave"}, row: Row, next: Everybody]
       \cup [at: {"mark", "delete", "restore", "giveBack"}, p: Parts]
       \cup [at: {"drafts", "clear"}, news: [Parts -> Everybody], rows: SUBSET Parts,
             publish: BOOLEAN, aloud: BOOLEAN]
       \cup [at: {"tell", "markTold", "stale"}, news: [Parts -> Everybody], rows: SUBSET Parts,
             publish: BOOLEAN, todo: SUBSET Brothers, ok: BOOLEAN]
       \cup [at: {"untell"}, rows: SUBSET Parts, publish: BOOLEAN, gone: SUBSET Pairs, ok: BOOLEAN]
Digest == [day: Nat, held: SUBSET Pairs, told: SUBSET Pairs, todo: SUBSET Brothers]

Idle == [at |-> "idle"]
NoDigest == [day |-> 0, held |-> {}, told |-> {}, todo |-> {}]

VARIABLES
    part,      \* assignments: a row for each part
    marks,     \* assignment_notices: who was told of which part
    hold,      \* programme_notices.holdUntil, 0 for none
    said,      \* digest keys in the outbox: evening and person
    now,
    job,       \* what each worker is doing
    digest,    \* the evening pass in flight
    swept,     \* the last evening with a whole pass
    used,      \* counted for the bound
    knows,     \* history: whoever believes he has which part
    unsaid,    \* history: parts whose news was kept quiet, or lost under way
    misled,    \* history: who was told of what from a reading out of date, or told and not marked
    silenced   \* history: whose "no longer yours" fell to the digest's key

tables == <<part, marks, hold, said>>
history == <<knows, unsaid, misled, silenced>>
evening == <<digest, swept>>
vars == <<tables, now, job, evening, used, history>>

----------------------------------------------------------------------------
Stands(p) == part[p].status = "published" /\ ~part[p].removed
Holds(b, p) == Stands(p) /\ part[p].holder = b
Flagged == {p \in Parts : part[p].flag}
Held == now >= HeldFrom

\* Who has to hear of a row: its holder, when the part stands.
NewsOf(S) == [p \in Parts |-> IF p \in S /\ Stands(p) THEN part[p].holder ELSE Nobody]
Told(news, b) == {p \in Parts : news[p] = b}

\* repo.save: the whole row as it was read and changed, stamped when it differs.
Saved(p, row) == IF [row EXCEPT !.edited = part[p].edited] = part[p] THEN part[p]
                 ELSE [row EXCEPT !.edited = now]
\* An UPDATE of some rows' flags, which stamps them too.
WithFlags(S, f) == [p \in Parts |-> IF p \in S THEN [part[p] EXCEPT !.flag = f, !.edited = now]
                                    ELSE part[p]]

Goes(w, next) == job' = [job EXCEPT ![w] = next]

\* What a whole-row save does to the record of what is still to be said.
SaveHistory(p, row, read) ==
    /\ unsaid' = IF row.flag THEN unsaid \ {p}
                 ELSE IF [read EXCEPT !.edited = 0] # [part[p] EXCEPT !.edited = 0]
                      THEN unsaid \cup {p} ELSE unsaid
    /\ UNCHANGED <<knows, misled, silenced>>

----------------------------------------------------------------------------
\* update: one part gets another holder, is cancelled or given back.
meetingPublished(p) == \E q \in Parts \ {p} : Stands(q)

NewStatusAsAsked(p, wish) == IF wish \in {"cancel", "giveBack"} THEN wish ELSE part[p].status
NewStatus(p, wish) ==
    IF wish = "cancel" THEN "cancelled"
    ELSE IF wish # "giveBack" THEN part[p].status
    ELSE IF part[p].status = "cancelled" /\ meetingPublished(p) THEN "published" ELSE "draft"
NewHolder(p, wish) == IF wish \in Everybody THEN wish ELSE part[p].holder

cancelTurn(old, new) == /\ new # old
                        /\ "cancelled" \in {old, new}
                        /\ "published" \in {old, new}

ChangedByStatus(p, wish) == ~Held /\ cancelTurn(part[p].status, NewStatus(p, wish))
Changed(p, wish) ==
    /\ ~Held
    /\ \/ cancelTurn(part[p].status, NewStatus(p, wish))
       \/ part[p].status = "published" /\ NewHolder(p, wish) # part[p].holder

Begin(r) == /\ r \in Requests /\ job[r] = Idle /\ used < MaxUsed
            /\ used' = used + 1
            /\ UNCHANGED <<tables, now, evening, history>>

BeginUpdate(r) ==
    /\ Begin(r)
    /\ \E p \in Parts, wish \in Wishes :
         /\ ~part[p].removed
         /\ (wish = "giveBack") <=> (part[p].status = "cancelled")
         /\ Goes(r, [at |-> "save", p |-> p, row |-> part[p],
                     new |-> [part[p] EXCEPT !.holder = NewHolder(p, wish),
                                             !.status = NewStatus(p, wish),
                                             !.flag = @ \/ Changed(p, wish)]])

AfterSave(j) == IF j.p = Chairman /\ ~Held /\ j.new.holder # j.row.holder
                THEN [at |-> "rule", prev |-> j.row.holder, next |-> j.new.holder]
                ELSE Idle

SaveUpdate(r) ==
    /\ job[r].at = "save"
    /\ part' = [part EXCEPT ![job[r].p] = Saved(job[r].p, job[r].new)]
    /\ SaveHistory(job[r].p, job[r].new, job[r].row)
    /\ Goes(r, AfterSave(job[r]))
    /\ UNCHANGED <<marks, hold, said, now, evening, used>>

\* applyChairmanPrayerRule: the prayer follows the chairman, unless set by hand.
Follows(prev, next) ==
    /\ ~part[Prayer].removed
    /\ part[Prayer].holder \in {Nobody, prev}
    /\ part[Prayer].holder # next
    /\ next \in Capable \cup {Nobody}

ReadRule(r) ==
    /\ job[r].at = "rule"
    /\ Goes(r, IF Follows(job[r].prev, job[r].next)
               THEN [at |-> "ruleSave", row |-> part[Prayer], next |-> job[r].next]
               ELSE Idle)
    /\ UNCHANGED <<tables, now, evening, used, history>>

Mirrored(j) == [j.row EXCEPT !.holder = j.next, !.flag = @ \/ j.row.status = "published"]

SaveRule(r) ==
    /\ job[r].at = "ruleSave"
    /\ part' = [part EXCEPT ![Prayer] = Saved(Prayer, Mirrored(job[r]))]
    /\ SaveHistory(Prayer, Mirrored(job[r]), job[r].row)
    /\ Goes(r, Idle)
    /\ UNCHANGED <<marks, hold, said, now, evening, used>>

----------------------------------------------------------------------------
\* remove: the flag first, then the soft delete; restore: the other way about.
BeginRemove(r) ==
    /\ Begin(r)
    /\ \E p \in Parts :
         /\ ~part[p].removed
         /\ Goes(r, [at |-> IF part[p].status = "published" /\ ~Held THEN "mark" ELSE "delete",
                     p |-> p])

FlagOf(r) == WithFlags({job[r].p}, TRUE)

MarkRemoved(r) ==
    /\ job[r].at = "mark"
    /\ part' = FlagOf(r)
    /\ unsaid' = unsaid \ {job[r].p}
    /\ Goes(r, [job[r] EXCEPT !.at = "delete"])
    /\ UNCHANGED <<marks, hold, said, now, evening, used, knows, misled, silenced>>

DeletePart(r) ==
    /\ job[r].at = "delete"
    /\ part' = [part EXCEPT ![job[r].p] = [@ EXCEPT !.removed = TRUE, !.edited = now]]
    /\ Goes(r, Idle)
    /\ UNCHANGED <<marks, hold, said, now, evening, used, history>>

BeginRestore(r) ==
    /\ Begin(r)
    /\ \E p \in Parts : part[p].removed /\ Goes(r, [at |-> "restore", p |-> p])

RestorePart(r) ==
    /\ job[r].at = "restore"
    /\ LET p == job[r].p IN
         /\ part' = [part EXCEPT ![p] = [@ EXCEPT !.removed = FALSE, !.edited = now]]
         /\ Goes(r, IF part[p].status = "published" /\ ~Held
                    THEN [at |-> "giveBack", p |-> p] ELSE Idle)
    /\ UNCHANGED <<marks, hold, said, now, evening, used, history>>

FlagRestored(r) ==
    /\ job[r].at = "giveBack"
    /\ part' = FlagOf(r)
    /\ unsaid' = unsaid \ {job[r].p}
    /\ Goes(r, Idle)
    /\ UNCHANGED <<marks, hold, said, now, evening, used, knows, misled, silenced>>

----------------------------------------------------------------------------
\* publishMeeting: drafts become published, flags are covered, and then it is said.
BeginPublish(r) ==
    /\ Begin(r)
    /\ \E notify \in BOOLEAN :
         LET aloud == notify /\ ~Held
             rows == {p \in Parts : ~part[p].removed /\ (part[p].status = "draft" \/ part[p].flag)}
         IN Goes(r, [at |-> "drafts", publish |-> TRUE, aloud |-> aloud, rows |-> rows,
                     news |-> [p \in Parts |->
                                 IF aloud /\ p \in rows /\ part[p].status # "cancelled"
                                 THEN part[p].holder ELSE Nobody]])

Drafts == {p \in Parts : part[p].status = "draft" /\ ~part[p].removed}

\* Those published, or no longer flagged, of whom this job says nothing (any more).
Missed(j, S) == {p \in S : part[p].holder # j.news[p]}

PublishDrafts(r) ==
    /\ job[r].at = "drafts"
    /\ part' = [p \in Parts |-> IF p \in Drafts
                                THEN [part[p] EXCEPT !.status = "published", !.edited = now]
                                ELSE part[p]]
    /\ unsaid' = unsaid \cup Missed(job[r], Drafts)
    /\ Goes(r, [job[r] EXCEPT !.at = "clear"])
    /\ UNCHANGED <<marks, hold, said, now, evening, used, knows, misled, silenced>>

\* The start of an announcement: whoever is to hear, in any order.
Announce(j) ==
    LET who == {b \in Brothers : Told(j.news, b) # {}}
    IN [at |-> IF who = {} THEN "stale" ELSE "tell", news |-> j.news, rows |-> j.rows,
        publish |-> j.publish, todo |-> who, ok |-> TRUE]

\* publishMeeting clears the flags of the rows that are not removed, notifyChanges all.
ToClear(j) == {p \in Flagged : j.publish => ~part[p].removed}

ClearFlags(w) ==
    /\ job[w].at = "clear"
    /\ part' = WithFlags(ToClear(job[w]), FALSE)
    /\ unsaid' = unsaid \cup Missed(job[w], {p \in ToClear(job[w]) : Stands(p)})
    /\ Goes(w, IF job[w].aloud THEN Announce(job[w]) ELSE Idle)
    /\ UNCHANGED <<marks, hold, said, now, evening, used, knows, misled, silenced>>

----------------------------------------------------------------------------
\* announce: the holders, what they were told, and then those who lost a part.
Tell(w, b) ==
    /\ job[w].at = "tell" /\ b \in job[w].todo
    /\ LET mine == Told(job[w].news, b) IN
         /\ knows' = [knows EXCEPT ![b] = @ \cup mine]
         /\ misled' = misled \ ({b} \X mine)
    /\ Goes(w, [job[w] EXCEPT !.todo = @ \ {b},
                              !.at = IF job[w].todo = {b} THEN "markTold" ELSE "tell"])
    /\ UNCHANGED <<tables, now, evening, used, unsaid, silenced>>

Marked(news) == {m \in Pairs : news[m[2]] = m[1]}

\* saveMarks: one mark to a person and part.
UpsertedByPart(S) == {m \in marks : \A n \in S : n[2] # m[2]} \cup S
Upserted(S) == marks \cup S

MarkTold(w) ==
    /\ job[w].at = "markTold"
    /\ marks' = Upserted(Marked(job[w].news))
    /\ Goes(w, [job[w] EXCEPT !.at = "stale"])
    /\ UNCHANGED <<part, hold, said, now, evening, used, history>>

\* staleMarks: marks whose part is no longer that person's.
StaleMarks == {m \in marks : ~Holds(m[1], m[2])}

ReadStale(w) ==
    /\ job[w].at = "stale"
    /\ Goes(w, [at |-> "untell", rows |-> job[w].rows, publish |-> job[w].publish,
                gone |-> StaleMarks, ok |-> job[w].ok])
    /\ UNCHANGED <<tables, now, evening, used, history>>

TellRemoved(w, b) ==
    /\ job[w].at = "untell"
    /\ LET mine == {m \in job[w].gone : m[1] = b} IN
         /\ mine # {}
         /\ knows' = [knows EXCEPT ![b] = {p \in @ : <<b, p>> \notin mine}]
         /\ marks' = marks \ mine
         /\ misled' = (misled \ mine) \cup {m \in mine : Holds(m[1], m[2])}
         /\ Goes(w, [job[w] EXCEPT !.gone = @ \ mine])
    /\ UNCHANGED <<part, hold, said, now, evening, used, unsaid, silenced>>

\* notifyChanges: what could not be said is flagged again; sendNow: the hold is over.
EndAnnounce(w) ==
    /\ job[w].at = "untell" /\ job[w].gone = {}
    /\ LET j == job[w]
           again == IF j.ok \/ j.publish THEN {} ELSE j.rows
       IN /\ part' = WithFlags(again, TRUE)
          /\ unsaid' = unsaid \ again
          /\ hold' = IF j.ok /\ ~j.publish THEN 0 ELSE hold
    /\ Goes(w, Idle)
    /\ UNCHANGED <<marks, said, now, evening, used, knows, misled, silenced>>

\* What this announcement has told and not marked, and what it has still to tell.
Unmarked(j) == IF j.at \in {"tell", "markTold"}
               THEN {m \in Marked(j.news) : m[1] \notin j.todo} ELSE {}
Pending(j) == IF j.at \in {"drafts", "clear"} THEN Marked(j.news)
              ELSE IF j.at = "tell" THEN {m \in Marked(j.news) : m[1] \in j.todo} ELSE {}
PartsOf(S) == {m[2] : m \in S}

\* notifyAssignees stops at an exception: the rest are not told, and nobody is marked.
AnnounceFails(w) ==
    /\ used < MaxUsed /\ job[w].at = "tell"
    /\ used' = used + 1
    /\ misled' = misled \cup (Unmarked(job[w]) \ marks)
    /\ unsaid' = IF job[w].publish THEN unsaid \cup PartsOf(Pending(job[w])) ELSE unsaid
    /\ Goes(w, [job[w] EXCEPT !.at = "stale", !.ok = FALSE])
    /\ UNCHANGED <<tables, now, evening, knows, silenced>>

\* The server stops: what the worker had still to do is forgotten.
Lose(w) ==
    /\ used < MaxUsed /\ job[w] # Idle
    /\ used' = used + 1
    /\ misled' = misled \cup (Unmarked(job[w]) \ marks)
    /\ unsaid' = unsaid \cup PartsOf(Pending(job[w]))
                        \cup (IF job[w].at = "giveBack" THEN {job[w].p} ELSE {})
                        \cup (IF job[w].at \in {"stale", "untell"} THEN job[w].rows ELSE {})
    /\ Goes(w, Idle)
    /\ UNCHANGED <<tables, now, evening, knows, silenced>>

----------------------------------------------------------------------------
\* programme-notice.service.ts: by the button, or by the job of every minute.
NotifyChanges(w) ==
    /\ now < Begins /\ Flagged # {}
    /\ Goes(w, [at |-> "clear", publish |-> FALSE, aloud |-> TRUE, rows |-> Flagged,
                news |-> NewsOf(Flagged)])

SendNow(r) == Begin(r) /\ NotifyChanges(r)

later(r) ==
    /\ r \in Requests /\ job[r] = Idle /\ used < MaxUsed
    /\ now < Soon /\ HoldAt[now] # 0
    /\ used' = used + 1
    /\ hold' = HoldAt[now]
    /\ UNCHANGED <<part, marks, said, now, job, evening, history>>

lastEdit == CHOOSE t \in 0..Last : /\ \E p \in Flagged : part[p].edited = t
                                   /\ \A p \in Flagged : part[p].edited <= t
dueOf == IF now >= Soon THEN lastEdit + SoonSettle
         ELSE IF hold > now THEN hold ELSE lastEdit + Settle
Due == /\ Flagged # {} /\ now < Begins
       /\ now >= Soon \/ now \notin Quiet
       /\ now >= dueOf

RunDue ==
    /\ job[Minute] = Idle /\ Due
    /\ NotifyChanges(Minute)
    /\ UNCHANGED <<tables, now, evening, used, history>>

\* Nothing about a meeting that has begun is news.
ToPutAwayStanding == {p \in Flagged : ~part[p].removed}
ToPutAway == Flagged
PutAway ==
    /\ job[Minute] = Idle /\ now >= Begins /\ ToPutAway # {}
    /\ part' = WithFlags(ToPutAway, FALSE)
    /\ UNCHANGED <<marks, hold, said, now, job, evening, used, history>>

----------------------------------------------------------------------------
\* sendDigests: everybody's parts and marks are read, and one person after another is told.
SendDigests ==
    /\ digest = NoDigest /\ EveningOf[now] # 0
    /\ UNCHANGED swept
    /\ marks' = IF Held THEN {} ELSE marks
    /\ digest' = [day |-> EveningOf[now], held |-> {m \in Pairs : Holds(m[1], m[2])},
                  told |-> marks', todo |-> Brothers]
    /\ UNCHANGED <<part, hold, said, now, job, used, history>>

\* planDigest: on a step what he holds; at any time before the day what he no longer holds.
LinesOfTheTold(b) == IF digest.day \in Recall THEN {m \in digest.held \cap digest.told : m[1] = b}
                     ELSE {}
Lines(b) == IF digest.day \in Recall THEN {m \in digest.held : m[1] = b} ELSE {}
Cancelled(b) == IF digest.day \in Ahead
                THEN {m \in digest.told \ digest.held : m[1] = b} ELSE {}
Forget(b) == {m \in digest.told \ digest.held : m[1] = b}

Digested(b) == <<digest.day, b>> \in said

SayDigest(b) ==
    /\ b \in digest.todo
    /\ LET new == Lines(b)  off == Cancelled(b)
           heard == new \cup off # {} /\ ~Digested(b)
           outdated == {m \in new : ~Holds(m[1], m[2]) \/ m \in digest.told \ marks}
                       \cup {m \in Forget(b) : Holds(m[1], m[2])}
       IN /\ said' = IF new \cup off = {} THEN said ELSE said \cup {<<digest.day, b>>}
          /\ knows' = IF heard THEN [knows EXCEPT ![b] = (@ \cup PartsOf(new)) \ PartsOf(off)]
                      ELSE knows
          /\ marks' = Upserted(new \ digest.told) \ Forget(b)
          /\ misled' = misled \cup outdated
          /\ silenced' = IF heard THEN silenced \ (new \cup off)
                         ELSE silenced \cup {m \in Forget(b) : m[2] \in knows[b]}
    /\ IF digest.todo = {b} THEN digest' = NoDigest /\ swept' = digest.day
       ELSE digest' = [digest EXCEPT !.todo = @ \ {b}] /\ UNCHANGED swept
    /\ UNCHANGED <<part, hold, now, job, used, unsaid>>

\* The pass fails between two people; the next tick is a new one.
DigestFails ==
    /\ used < MaxUsed /\ digest # NoDigest
    /\ used' = used + 1
    /\ digest' = NoDigest
    /\ UNCHANGED <<tables, now, job, swept, history>>

\* The clock.  A moment is much longer than the minute between two passes of the
\* job, and an evening than the quarter of an hour between two digests.
EveningOver == now < Last /\ EveningOf[now] # 0 /\ EveningOf[now + 1] # EveningOf[now]
Tick ==
    /\ now < Last
    /\ ~Due /\ job[Minute] = Idle
    /\ EveningOver => swept = EveningOf[now]
    /\ now' = now + 1
    /\ UNCHANGED <<tables, job, evening, used, history>>

----------------------------------------------------------------------------
Init ==
    /\ \E who \in Setups, status \in {"draft", "published"} :
         /\ part = [p \in Parts |-> [holder |-> who[p], status |-> status, removed |-> FALSE,
                                     flag |-> FALSE, edited |-> 0]]
         /\ marks = IF status = "draft" THEN {} ELSE {m \in Pairs : who[m[2]] = m[1]}
         /\ knows = [b \in Brothers |-> PartsOf({m \in marks : m[1] = b})]
    /\ hold = 0 /\ said = {} /\ now = 1
    /\ job = [w \in Workers |-> Idle]
    /\ digest = NoDigest /\ swept = 0
    /\ used = 0
    /\ unsaid = {} /\ misled = {} /\ silenced = {}

BeginsSome(r) == \/ BeginUpdate(r) \/ BeginRemove(r) \/ BeginRestore(r) \/ BeginPublish(r)
              \/ SendNow(r) \/ later(r)
Works(r) == \/ SaveUpdate(r) \/ ReadRule(r) \/ SaveRule(r) \/ MarkRemoved(r) \/ DeletePart(r)
            \/ RestorePart(r) \/ FlagRestored(r) \/ PublishDrafts(r)
Says(w) == \/ ClearFlags(w) \/ MarkTold(w) \/ ReadStale(w) \/ EndAnnounce(w)
           \/ \E b \in Brothers : Tell(w, b) \/ TellRemoved(w, b)
Fails(w) == AnnounceFails(w) \/ Lose(w)
EveningJob == SendDigests \/ \E b \in Brothers : SayDigest(b)

Next == \/ \E r \in Requests : BeginsSome(r) \/ Works(r)
        \/ \E w \in Workers : Says(w) \/ Fails(w)
        \/ RunDue \/ PutAway \/ EveningJob \/ DigestFails \/ Tick

\* What was begun goes on, the jobs run and the clock moves; nobody has to edit or to fail.
MinuteJob == RunDue \/ PutAway \/ Says(Minute)
Fairness == /\ \A r \in Requests : WF_vars(Works(r) \/ Says(r))
            /\ WF_vars(MinuteJob) /\ WF_vars(EveningJob) /\ WF_vars(Tick)

Spec == Init /\ [][Next]_vars /\ Fairness

----------------------------------------------------------------------------
\* Every row, mark, job and message is of its kind.
TypeOK ==
    /\ part \in [Parts -> Row] /\ marks \subseteq Pairs /\ hold \in 0..Last
    /\ said \subseteq Nat \X Brothers /\ now \in Moments
    /\ job \in [Workers -> Job] /\ digest \in Digest /\ swept \in Nat
    /\ used \in 0..MaxUsed
    /\ knows \in [Brothers -> SUBSET Parts] /\ unsaid \subseteq Parts
    /\ misled \subseteq Pairs /\ silenced \subseteq Pairs

\* What is flagged again at the end of an announcement that failed.
ToRepeat(j) == IF j.at \in {"stale", "untell"} /\ ~j.ok /\ ~j.publish THEN j.rows ELSE {}
\* The flag of a part just restored is the next write.
BeingGivenBack == {p \in Parts : \E r \in Requests : job[r] = [at |-> "giveBack", p |-> p]}

\* Until the meeting begins, whoever holds a published part has been told of it, or its
\* row is flagged, or a worker is about to say it or to flag it; other than by what
\* `unsaid` and `misled` name - a change the announcer's UPDATE covered without having
\* read it, a row saved over another's, a publication kept quiet or stopped - no news is lost.
ToldUnlessFlagged ==
    \A b \in Brothers, p \in Parts :
        (Holds(b, p) /\ now < Begins) =>
            \/ p \in knows[b]
            \/ part[p].flag
            \/ p \in BeingGivenBack
            \/ \E w \in Workers : <<b, p>> \in Pending(job[w]) \/ p \in ToRepeat(job[w])
            \/ p \in unsaid
            \/ <<b, p>> \in misled

\* Whoever believes he has a part that is not his is remembered (assignment_notices), so
\* the next announcement or digest can take it back; or he is being told at this moment, or
\* was told from a reading out of date, or the digest's key swallowed the word.
BelieversAreMarked ==
    \A b \in Brothers, p \in Parts :
        (p \in knows[b] /\ ~Holds(b, p) /\ ~Held) =>
            \/ <<b, p>> \in marks \cup misled \cup silenced
            \/ \E w \in Workers : <<b, p>> \in Unmarked(job[w])

LastRecall == CHOOSE e \in Recall : \A f \in Recall : f <= e
\* Silent now is not silent for ever (digest.ts): a part that has stood unchanged since
\* before the last evening of the ladder is known to its holder when the meeting begins,
\* however quietly it was published and whatever was lost on the way.
KnowsOnTheDay ==
    \A b \in Brothers, p \in Parts :
        (now >= Begins /\ Holds(b, p) /\ <<b, p>> \notin misled
         /\ \A m \in Moments : EveningOf[m] = LastRecall => part[p].edited < m)
        => p \in knows[b]

\* "An item that was announced and is no longer theirs is said too - otherwise a brother
\* prepares a part that was given to somebody else" (digest.ts): when nothing is flagged and
\* nothing is being said, whoever believes he has a part that is not his is at least
\* remembered, so that the next digest tells him.
NobodyPreparesAnothersPart ==
    \A b \in Brothers, p \in Parts :
        (p \in knows[b] /\ ~Holds(b, p) /\ ~Held) =>
            \/ <<b, p>> \in marks \cup misled
            \/ Flagged # {} \/ \E w \in Workers : job[w] # Idle

\* No flag stands for ever: it is said, or put away when the meeting has begun; the flag of
\* a removed part too.
FlagsSettle == \A p \in Parts : part[p].flag ~> ~part[p].flag
=============================================================================
