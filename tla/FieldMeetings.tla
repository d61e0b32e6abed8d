--------------------------- MODULE FieldMeetings ---------------------------
(***************************************************************************)
(* The meetings for field service of one month: prepared from a template   *)
(* as drafts (field-service-planner.service.ts), changed by hand,          *)
(* announced, called off and put back (field-service-meetings.service.ts), *)
(* and looked after every night before the month begins                    *)
(* (field-service-automation.service.ts).  Nobody is told of a draft; once *)
(* it is announced its conductor hears of every change.                    *)
(*                                                                         *)
(* A worker is a request in flight or the nightly pass; its steps are what *)
(* the code does between two awaits that matter, and TypeORM's save writes *)
(* the whole row as it was read.  A meeting's place in the schedule is its *)
(* day and whose meeting it is; the hour and the address go with the       *)
(* latter.  Not modelled: assemblies and visits that take a day away, the  *)
(* service overseer's visits with their assistant, notices, the messages   *)
(* to the whole group, other months, the turn by which a free brother is   *)
(* picked, requests that ask for nobody to be told.                        *)
(***************************************************************************)
EXTENDS Naturals, FiniteSets, Functions

CONSTANTS
    Brothers, Nobody,        \* those who conduct; no conductor yet
    ByHand,                  \* where a meeting no slot was made into comes from
    Days,                    \* the month's days that have meetings, as dates
    Kinds,                   \* whose meeting: the congregation's, a group's
    Template,                \* the slots of the month: pairs of a day and a kind
    PrepareDay, PublishDay, First,    \* when the app prepares, publishes; the month's first day
    Policy,                  \* "publish_7d" or "remind"
    Requests, Nightly,       \* the workers
    Operations,              \* kinds of request an instance allows to each worker
    Setups,                  \* where an instance may begin: rows, date, what was done, told, used up
    MaxMeetings, MaxUsed     \* bounds of the instance: rows ever, requests and failures

Slots == Days \X Kinds
Ids == 1..MaxMeetings
Workers == Requests \cup {Nightly}
Who == Brothers \cup {Nobody}
RequestKinds == {"create", "update", "cancel", "restore", "remove", "publish", "prepare", "fill", "away"}

Row == [is: {"none", "there", "gone"}, at: Slots, who: Who, pub: BOOLEAN, off: BOOLEAN,
        made: Slots \cup {ByHand}]

ASSUME FieldConstants ==
    /\ Nobody \notin Brothers /\ Nightly \notin Requests
    /\ Days \subseteq Nat /\ \E d \in Days : \A e \in Days : e <= d
    /\ Template \subseteq Slots /\ Kinds # {}
    /\ ByHand \notin Slots
    /\ PrepareDay \in Nat /\ PublishDay \in Nat \ {0} /\ First \in Nat
    /\ PublishDay < First /\ \A d \in Days : First <= d
    /\ Policy \in {"publish_7d", "remind"}
    /\ Operations \in [Requests -> SUBSET RequestKinds]
    /\ MaxMeetings \in Nat /\ MaxUsed \in Nat

DayOf(s) == s[1]
KindOf(s) == s[2]
LastDay == CHOOSE d \in Days : \A e \in Days : e <= d
RemindDay == IF Policy = "publish_7d" THEN PublishDay - 1 ELSE PublishDay

NoRow == [is |-> "none", at |-> CHOOSE s \in Slots : TRUE, who |-> Nobody, pub |-> FALSE,
          off |-> FALSE, made |-> ByHand]

Expectations == Brothers \X Ids \X Days

\* An instance begins in a month somebody left in order: no slot was made into two meetings,
\* what was made of a slot stands there or the slot is taken out, a draft is not crossed out,
\* and of the announced meetings those conducting them expect them and nobody else does.
Announced(row) == row.is = "there" /\ row.pub /\ ~row.off /\ row.who # Nobody
ASSUME FieldSetups == \A S \in Setups :
    /\ S.rows \in [Ids -> Row] /\ S.today \in 0..LastDay /\ S.prepared \in BOOLEAN
    /\ S.knows \subseteq Expectations /\ S.keys \subseteq Expectations
    /\ S.removed \subseteq Slots /\ S.used \in 0..MaxUsed
    /\ \A id, o \in Ids : (id # o /\ S.rows[id].made = S.rows[o].made) => S.rows[id].made = ByHand
    /\ \A id \in Ids : LET row == S.rows[id] IN
         /\ row.made # ByHand => row.made \in S.removed \/ (row.is = "there" /\ row.at = row.made)
         /\ row.off => row.pub
         /\ {k \in S.knows : k[2] = id} =
              IF Announced(row) THEN {<<row.who, id, DayOf(row.at)>>} ELSE {}

Read == SUBSET (Ids \X Row)          \* rows as a request read them
Job == [at: {"idle", "asked", "task", "due"}]
       \cup [at: {"insert"}, row: Row]
       \cup [at: {"save", "delete", "remember", "tell"}, id: Ids, was: Row, row: Row]
       \cup [at: {"publish", "announce", "published"}, read: Read, held: SUBSET Ids]
       \cup [at: {"look"}, gone: SUBSET Slots]
       \cup [at: {"write"}, new: SUBSET Row]
       \cup [at: {"fill"}, picks: SUBSET (Ids \X Brothers)]
       \cup [at: {"mark", "remind"}, any: BOOLEAN]

Idle == [at |-> "idle"]

VARIABLES
    meeting,    \* field_service_meetings: rows by id
    removed,    \* field_service_removed_days: the slots taken out by hand
    run,        \* field_service_month_runs: what the nightly pass has done for the month
    task,       \* the elders' task to check the month
    away,       \* absences: brothers who are away all the month
    today,      \* the date
    ran,        \* the nightly pass of this date is over
    job,        \* what each worker is doing
    used,       \* counted for the bound
    keys,       \* the "moved" messages each brother has had, by meeting and new day
    knows,      \* the meetings each brother expects to conduct, from what he was told
    slipped,    \* history: expectations that one message named by another day
    raced,      \* history: rows written over or spoken of after somebody else changed them
    unsure,     \* history: rows whose messages were lost
    forgotten,  \* history: slots emptied beside a preparation, or never written down as emptied
    muted,      \* history: meetings moved where a move had been told before
    missed      \* history: drafts the nightly publication held back or did not meet

tables == <<meeting, removed, run, task, away, keys>>
history == <<slipped, raced, unsure, forgotten, muted, missed>>
vars == <<tables, today, ran, job, used, knows, history>>

----------------------------------------------------------------------------
There(id) == meeting[id].is = "there"
On(id) == There(id) /\ ~meeting[id].off
Draft(id) == There(id) /\ ~meeting[id].pub
Live(id) == On(id) /\ meeting[id].pub
Fresh == {id \in Ids : meeting[id].is = "none"}
Goes(w, next) == job' = [job EXCEPT ![w] = next]
Ends(w) == Goes(w, Idle) /\ ran' = (ran \/ w = Nightly)

\* assertNotHeld: a meeting already held is a record, not a plan.
Open(s) == DayOf(s) >= today

Begin(r, kind) ==
    /\ r \in Requests /\ job[r] = Idle /\ kind \in Operations[r]
    /\ used < MaxUsed /\ used' = used + 1
    /\ UNCHANGED <<tables, today, ran, knows, history>>

----------------------------------------------------------------------------
\* create: announced at once, or a draft of a month still being prepared.  A clash with what
\* stands there is shown, and the planner may confirm it.
BeginCreate(r) ==
    /\ Begin(r, "create")
    /\ Cardinality(Fresh) > Cardinality(Template)
    /\ \E s \in Slots, who \in Who, draft \in BOOLEAN :
         /\ Open(s)
         /\ Goes(r, [at |-> "insert",
                     row |-> [NoRow EXCEPT !.is = "there", !.at = s, !.who = who, !.pub = ~draft]])

InsertMeeting(r) ==
    /\ job[r].at = "insert"
    /\ \E id \in Fresh :
         /\ \A o \in Fresh : id <= o
         /\ meeting' = [meeting EXCEPT ![id] = job[r].row]
         /\ Goes(r, [at |-> "tell", id |-> id, was |-> NoRow, row |-> job[r].row])
    /\ UNCHANGED <<removed, run, task, away, keys, today, ran, used, knows, history>>

\* The row is read, the change is judged by it, and then it is saved whole.
Saves(r, id, row) == Goes(r, [at |-> "save", id |-> id, was |-> meeting[id], row |-> row])

\* update: another day, another conductor, or both; a cancelled meeting is brought back first.
BeginUpdate(r) ==
    /\ Begin(r, "update")
    /\ \E id \in Ids, d \in Days, who \in Who :
         LET was == meeting[id]
             s == <<d, KindOf(was.at)>>
         IN /\ On(id) /\ Open(was.at) /\ Open(s)
            /\ <<s, who>> # <<was.at, was.who>>
            /\ Saves(r, id, [was EXCEPT !.at = s, !.who = who])

BeginCancel(r) ==
    /\ Begin(r, "cancel")
    /\ \E id \in Ids : Live(id) /\ Open(meeting[id].at) /\ Saves(r, id, [meeting[id] EXCEPT !.off = TRUE])

BeginRestore(r) ==
    /\ Begin(r, "restore")
    /\ \E id \in Ids :
         /\ There(id) /\ meeting[id].off /\ Open(meeting[id].at)
         /\ Saves(r, id, [meeting[id] EXCEPT !.off = FALSE])

BeginRemove(r) ==
    /\ Begin(r, "remove")
    /\ \E id \in Ids :
         /\ There(id) /\ Open(meeting[id].at)
         /\ Goes(r, [at |-> "delete", id |-> id, was |-> meeting[id],
                     row |-> [meeting[id] EXCEPT !.is = "gone"]])

\* A slot loses its meeting while a preparation has read what was taken out before, and
\* has not yet read what stands.
LosesUnseen(s) == IF \E w \in Workers : job[w].at = "look" THEN {s} ELSE {}
Moves(j) == DayOf(j.was.at) # DayOf(j.row.at)

SaveMeeting(r) ==
    /\ job[r].at = "save"
    /\ LET j == job[r] IN
         /\ meeting' = [meeting EXCEPT ![j.id] = j.row]
         /\ Goes(r, [j EXCEPT !.at = IF Moves(j) THEN "remember" ELSE "tell"])
         /\ raced' = IF meeting[j.id] # j.was THEN raced \cup {j.id} ELSE raced
         /\ forgotten' = forgotten \cup
              (IF Moves(j) THEN LosesUnseen(j.was.at) ELSE {}) \cup
              (IF meeting[j.id] # j.was THEN {j.was.at, meeting[j.id].at} ELSE {})
    /\ UNCHANGED <<removed, run, task, away, keys, today, ran, used, knows, slipped, unsure, muted, missed>>

DeleteMeeting(r) ==
    /\ job[r].at = "delete"
    /\ LET j == job[r]
           now == meeting[j.id]
       IN /\ meeting' = [meeting EXCEPT ![j.id].is = "gone"]
          /\ Goes(r, [j EXCEPT !.at = "remember"])
          /\ raced' = IF now # j.was THEN raced \cup {j.id} ELSE raced
          /\ forgotten' = forgotten \cup LosesUnseen(now.at)
                          \cup (IF now.at # j.was.at THEN {now.at} ELSE {})
    /\ UNCHANGED <<removed, run, task, away, keys, today, ran, used, knows, slipped, unsure, muted, missed>>

\* rememberRemoved: only a day still to come.
Remember(r) ==
    /\ job[r].at = "remember"
    /\ removed' = IF Open(job[r].was.at) THEN removed \cup {job[r].was.at} ELSE removed
    /\ Goes(r, [job[r] EXCEPT !.at = "tell"])
    /\ UNCHANGED <<meeting, run, task, away, keys, today, ran, used, knows, history>>

----------------------------------------------------------------------------
\* What the conductors hear of a change from one row to another, as days to add and to drop.
Goer(row) == IF row.who = Nobody THEN {} ELSE {row.who}
Said(row) == row.is = "there" /\ row.pub /\ ~row.off

\* "You conduct", "now", "is on again".
Adds(was, row) ==
    IF Said(row) /\ (was.is = "none" \/ was.off \/ was.who # row.who \/ was.at # row.at)
    THEN {<<b, DayOf(row.at)>> : b \in Goer(row)} ELSE {}

\* "Cancelled", "was", and "you no longer conduct", which names the day the meeting is on now.
DropsOnlyCancelled(was, row) ==
    IF Said(was) /\ row.is = "there" /\ row.off THEN {<<b, DayOf(was.at)>> : b \in Goer(was)} ELSE {}

Drops(was, row) ==
    CASE ~Said(row) -> IF Said(was) THEN {<<b, DayOf(was.at)>> : b \in Goer(was)} ELSE {}
      [] Said(row) /\ was.who # row.who -> {<<b, DayOf(row.at)>> : b \in Goer(was)}
      [] Said(row) /\ was.who = row.who /\ was.at # row.at -> {<<b, DayOf(was.at)>> : b \in Goer(was)}
      [] OTHER -> {}

\* Taken off and the day moved in one change: he is told of the new day and keeps the old.
Slips(was, row) ==
    IF Said(row) /\ was.who # row.who /\ was.at # row.at
    THEN {<<b, DayOf(was.at)>> : b \in Goer(was)} ELSE {}

Of(id, pairs) == {<<p[1], id, p[2]>> : p \in pairs}

\* notifyChange: "moved" is keyed by the meeting and where it is now, and the outbox drops a
\* key a person has had.
Moved(j) ==
    IF Said(j.was) /\ Said(j.row) /\ j.was.who = j.row.who /\ j.was.at # j.row.at
    THEN Of(j.id, {<<b, DayOf(j.row.at)>> : b \in Goer(j.row)}) ELSE {}

Tell(r) ==
    /\ job[r].at = "tell"
    /\ LET j == job[r]
           repeat == Moved(j) \cap keys # {}
       IN /\ knows' = IF repeat THEN knows
                      ELSE (knows \ Of(j.id, Drops(j.was, j.row))) \cup Of(j.id, Adds(j.was, j.row))
          /\ keys' = keys \cup Moved(j)
          /\ muted' = IF repeat THEN muted \cup {j.id} ELSE muted
          /\ slipped' = slipped \cup Of(j.id, Slips(j.was, j.row))
          /\ raced' = IF meeting[j.id] # j.row THEN raced \cup {j.id} ELSE raced
    /\ Ends(r)
    /\ UNCHANGED <<meeting, removed, run, task, away, today, used, unsure, forgotten, missed>>

----------------------------------------------------------------------------
\* publishMonth: the drafts to come are read, announced by one UPDATE, and told as read.
DraftsToCome == {id \in Ids : Draft(id) /\ Open(meeting[id].at)}
AsRead(ids) == {<<id, meeting[id]>> : id \in ids}
ReadIds(j) == {x[1] : x \in j.read}

\* The attention service: what keeps a draft from being announced by the app alone.
Troubled(id) == On(id) /\ meeting[id].who \in away

BeginPublish(r) ==
    /\ Begin(r, "publish")
    /\ DraftsToCome # {}
    /\ Goes(r, [at |-> "publish", read |-> AsRead(DraftsToCome), held |-> {}])

PublishDrafts(w) ==
    /\ job[w].at = "publish"
    /\ LET j == job[w]
           ids == {id \in ReadIds(j) : There(id)}
       IN /\ meeting' = [id \in Ids |-> IF id \in ids THEN [meeting[id] EXCEPT !.pub = TRUE]
                                        ELSE meeting[id]]
          /\ raced' = raced \cup {x[1] : x \in {y \in j.read : meeting[y[1]] # y[2]}}
          /\ Goes(w, [j EXCEPT !.at = "announce"])
    /\ UNCHANGED <<removed, run, task, away, keys, today, ran, used, knows, slipped, unsure, forgotten, muted, missed>>

\* Every conductor hears once, with all of his dates.
Announce(w) ==
    /\ job[w].at = "announce"
    /\ LET j == job[w] IN
         /\ knows' = knows \cup UNION {Of(x[1], {<<b, DayOf(x[2].at)>> : b \in Goer(x[2])}) : x \in j.read}
         /\ raced' = raced \cup {x[1] : x \in {y \in j.read : meeting[y[1]] # [y[2] EXCEPT !.pub = TRUE]}}
         /\ IF w = Nightly THEN Goes(w, [j EXCEPT !.at = "published"]) /\ UNCHANGED ran
            ELSE Ends(w)
    /\ UNCHANGED <<tables, today, used, slipped, unsure, forgotten, muted, missed>>

PublishFails(w) ==
    /\ job[w].at = "publish" /\ used < MaxUsed
    /\ used' = used + 1
    /\ Ends(w)
    /\ UNCHANGED <<tables, today, knows, history>>

----------------------------------------------------------------------------
\* prepare: one preparation at a time, for as long as its transaction lives.
BeginPrepare(r) == Begin(r, "prepare") /\ Goes(r, [at |-> "asked"])

NoLock == TRUE
LockFree == \A w \in Workers : job[w].at \notin {"look", "write"}

Emptying == {job[w].was.at : w \in {v \in Workers : job[v].at = "remember"}}

\* preview: first the slots taken out by hand are read.
ReadRemoved(w) ==
    /\ job[w].at = "asked" /\ LockFree
    /\ Goes(w, [at |-> "look", gone |-> removed])
    /\ forgotten' = forgotten \cup Emptying
    /\ UNCHANGED <<tables, today, ran, used, knows, slipped, raced, unsure, muted, missed>>

\* Something stands where the slot would go, crossed out or not.
standsThere(s) == \E id \in Ids : There(id) /\ meeting[id].at = s

\* Who may be picked: not away, and not at another meeting that day.
Free(b, d) == b \notin away /\ ~\E id \in Ids : On(id) /\ meeting[id].who = b /\ DayOf(meeting[id].at) = d

ToMakeAll(gone) == {s \in Template : Open(s) /\ ~standsThere(s)}
ToMake(gone) == {s \in Template : Open(s) /\ ~standsThere(s) /\ s \notin gone}

\* Everybody picked is free and nobody is picked twice for a day; nobody only where none is left.
Picked(S) ==
    {pick \in [S -> Who] :
       \A s \in S :
         LET others == {pick[t] : t \in {u \in S \ {s} : DayOf(u) = DayOf(s)}}
         IN IF pick[s] = Nobody THEN \A b \in Brothers : Free(b, DayOf(s)) => b \in others
            ELSE Free(pick[s], DayOf(s)) /\ pick[s] \notin others}

LookAtMonth(w) ==
    /\ job[w].at = "look"
    /\ LET S == ToMake(job[w].gone) IN
         \E pick \in Picked(S) \cup {[s \in S |-> Nobody]} :
           Goes(w, [at |-> "write",
                    new |-> {[NoRow EXCEPT !.is = "there", !.at = s, !.who = pick[s], !.made = s] : s \in S}])
    /\ UNCHANGED <<tables, today, ran, used, knows, history>>

\* prepareLocked: the drafts are written and the lock is let go.
WriteDrafts(w) ==
    /\ job[w].at = "write"
    /\ LET new == job[w].new IN
         /\ Injection(new, Fresh) # {}
         /\ LET row == CHOOSE f \in Injection(new, Fresh) : TRUE
                of(id) == CHOOSE x \in new : row[x] = id
            IN meeting' = [id \in Ids |-> IF \E x \in new : row[x] = id THEN of(id) ELSE meeting[id]]
         /\ IF w = Nightly
            THEN Goes(w, IF new # {} THEN [at |-> "task"] ELSE [at |-> "mark", any |-> FALSE])
            ELSE Goes(w, Idle)
    /\ UNCHANGED <<removed, run, task, away, keys, today, ran, used, knows, history>>

----------------------------------------------------------------------------
\* fillConductors: drafts without a conductor get one, if they still are both by then.
Unled == {id \in DraftsToCome : On(id) /\ meeting[id].who = Nobody}

BeginFill(r) ==
    /\ Begin(r, "fill")
    /\ \E picks \in [Unled -> Who] :
         /\ \A id \in Unled : picks[id] # Nobody => Free(picks[id], DayOf(meeting[id].at))
         /\ \A id, o \in Unled : (id # o /\ picks[id] # Nobody /\ picks[id] = picks[o])
                                   => DayOf(meeting[id].at) # DayOf(meeting[o].at)
         /\ LET filled == {id \in Unled : picks[id] # Nobody} IN
              /\ filled # {}
              /\ Goes(r, [at |-> "fill", picks |-> {<<id, picks[id]>> : id \in filled}])

FillAnyway(id) == There(id)
StillUnled(id) == Draft(id) /\ meeting[id].who = Nobody

FillConductors(r) ==
    /\ job[r].at = "fill"
    /\ LET still == {x \in job[r].picks : StillUnled(x[1])}
           of(id) == (CHOOSE x \in still : x[1] = id)[2]
       IN meeting' = [id \in Ids |-> IF \E x \in still : x[1] = id
                                     THEN [meeting[id] EXCEPT !.who = of(id)] ELSE meeting[id]]
    /\ Goes(r, Idle)
    /\ UNCHANGED <<removed, run, task, away, keys, today, ran, used, knows, history>>

\* absences: a brother enters that he is away, or is back.
EnterAbsence(r) ==
    /\ r \in Requests /\ job[r] = Idle /\ "away" \in Operations[r] /\ used < MaxUsed
    /\ used' = used + 1
    /\ \E b \in Brothers : away' = (away \ {b}) \cup ({b} \ away)
    /\ UNCHANGED <<meeting, removed, run, task, keys, today, ran, job, knows, history>>

----------------------------------------------------------------------------
\* passFor: the nightly pass over a month ahead.
AnyDraft == \E id \in Ids : Draft(id)
Planned == {id \in Ids : On(id)}
PublishDue == /\ Policy = "publish_7d" /\ ~run.published
              /\ PublishDay <= today /\ today < First /\ AnyDraft

BeginPass ==
    /\ job[Nightly] = Idle /\ today < First /\ (~ran \/ PublishDue)
    /\ Goes(Nightly, IF run.prepared \/ today < PrepareDay THEN [at |-> "remind", any |-> AnyDraft]
                     ELSE IF Planned = {} THEN [at |-> "asked"]
                     ELSE [at |-> "mark", any |-> AnyDraft])
    /\ UNCHANGED <<tables, today, ran, used, knows, history>>

\* openTask, the message to the planners, and the drafts read again.
OpenTask ==
    /\ job[Nightly].at = "task"
    /\ task' = IF task = "none" THEN "open" ELSE task
    /\ Goes(Nightly, [at |-> "mark", any |-> AnyDraft])
    /\ UNCHANGED <<meeting, removed, run, away, keys, today, ran, used, knows, history>>

MarkPrepared ==
    /\ job[Nightly].at = "mark"
    /\ run' = [run EXCEPT !.prepared = TRUE]
    /\ Goes(Nightly, [at |-> "remind", any |-> job[Nightly].any])
    /\ UNCHANGED <<meeting, removed, task, away, keys, today, ran, used, knows, history>>

ClosedAnew(t) == IF t = "open" THEN "closed" ELSE t
Closed(t) == IF t = "open" THEN "done" ELSE t

\* No draft: the task closes itself.  Else the planners are reminded, once.
Remind ==
    /\ job[Nightly].at = "remind"
    /\ IF job[Nightly].any
       THEN /\ run' = [run EXCEPT !.reminded = @ \/ today >= RemindDay]
            /\ Goes(Nightly, [at |-> "due"]) /\ UNCHANGED <<task, ran>>
       ELSE task' = Closed(task) /\ Ends(Nightly) /\ UNCHANGED run
    /\ UNCHANGED <<meeting, removed, away, keys, today, used, knows, history>>

\* publishMonth with `hold`: the drafts that went wrong since they were planned are kept back.
AutoPublishMarked ==
    /\ job[Nightly].at = "due"
    /\ IF Policy = "publish_7d" /\ ~run.published /\ today >= PublishDay
       THEN LET held == {id \in DraftsToCome : Troubled(id)}
                read == AsRead(DraftsToCome \ held)
            IN /\ Goes(Nightly, [at |-> IF read = {} THEN "published" ELSE "publish",
                                 read |-> read, held |-> held])
               /\ run' = [run EXCEPT !.published = TRUE]
               /\ UNCHANGED ran
       ELSE Ends(Nightly) /\ UNCHANGED run
    /\ UNCHANGED <<meeting, removed, task, away, keys, today, used, knows, history>>

AutoPublish ==
    /\ job[Nightly].at = "due"
    /\ IF Policy = "publish_7d" /\ ~run.published /\ today >= PublishDay
       THEN LET held == {id \in DraftsToCome : Troubled(id)}
                read == AsRead(DraftsToCome \ held)
            IN /\ Goes(Nightly, [at |-> IF read = {} THEN "published" ELSE "publish",
                                 read |-> read, held |-> held])
               /\ UNCHANGED ran
       ELSE Ends(Nightly)
    /\ UNCHANGED <<tables, today, used, knows, history>>

\* The mark goes on after the month is published: a publication that failed is tried again.
MarkPublished ==
    /\ job[Nightly].at = "published"
    /\ LET j == job[Nightly] IN
         /\ run' = [run EXCEPT !.published = TRUE]
         /\ task' = IF j.read # {} /\ j.held = {} THEN Closed(task) ELSE task
         /\ missed' = missed \cup {id \in Ids : Draft(id) /\ id \notin ReadIds(j)}
    /\ Ends(Nightly)
    /\ UNCHANGED <<meeting, removed, away, keys, today, used, knows, slipped, raced, unsure, forgotten, muted>>

----------------------------------------------------------------------------
\* The server stops, or an exception ends what the worker was doing.
Lose(w) ==
    /\ used < MaxUsed /\ job[w] # Idle
    /\ used' = used + 1
    /\ LET j == job[w] IN
         /\ unsure' = CASE j.at \in {"remember", "tell"} -> unsure \cup {j.id}
                        [] j.at = "announce" -> unsure \cup ReadIds(j)
                        [] OTHER -> unsure
         /\ forgotten' = IF j.at = "remember" THEN forgotten \cup {j.was.at} ELSE forgotten
    /\ Goes(w, Idle)
    /\ UNCHANGED <<tables, today, ran, knows, slipped, raced, muted, missed>>

\* The days go by.  Six nights lie between the day of publication and the month: one of
\* them gets through.
Tick ==
    /\ today < LastDay /\ job[Nightly] = Idle
    /\ ~(today + 1 = First /\ PublishDue)
    /\ today' = today + 1 /\ ran' = FALSE
    /\ UNCHANGED <<tables, job, used, knows, history>>

Init ==
    /\ \E S \in Setups : /\ meeting = S.rows
                         /\ today = S.today
                         /\ run = [prepared |-> S.prepared, reminded |-> FALSE, published |-> FALSE]
                         /\ knows = S.knows /\ keys = S.keys /\ removed = S.removed
                         /\ used = S.used
    /\ task = "none" /\ away = {} /\ ran = FALSE
    /\ job = [w \in Workers |-> Idle]
    /\ slipped = {} /\ raced = {} /\ unsure = {} /\ forgotten = {} /\ muted = {} /\ missed = {}

Begins(r) == \/ BeginCreate(r) \/ BeginUpdate(r) \/ BeginCancel(r) \/ BeginRestore(r) \/ BeginRemove(r)
             \/ BeginPublish(r) \/ BeginPrepare(r) \/ BeginFill(r) \/ EnterAbsence(r)
Works(r) == \/ InsertMeeting(r) \/ SaveMeeting(r) \/ DeleteMeeting(r) \/ Remember(r) \/ Tell(r)
            \/ FillConductors(r)
Steps(w) == PublishDrafts(w) \/ Announce(w) \/ ReadRemoved(w) \/ LookAtMonth(w) \/ WriteDrafts(w)
Night == BeginPass \/ OpenTask \/ MarkPrepared \/ Remind \/ AutoPublish \/ MarkPublished

Next == \/ \E r \in Requests : Begins(r) \/ Works(r)
        \/ \E w \in Workers : Steps(w) \/ PublishFails(w) \/ Lose(w)
        \/ Night \/ Tick

\* What was begun goes on, the nightly pass runs, and the days go by.
Fairness == /\ \A r \in Requests : WF_vars(Works(r) \/ Steps(r))
            /\ WF_vars(Night \/ Steps(Nightly)) /\ WF_vars(Tick)

Spec == Init /\ [][Next]_vars /\ Fairness

----------------------------------------------------------------------------
\* Every row, mark and job is of its kind.
TypeOK ==
    /\ meeting \in [Ids -> Row] /\ removed \subseteq Slots
    /\ run \in [prepared: BOOLEAN, reminded: BOOLEAN, published: BOOLEAN]
    /\ task \in {"none", "open", "done"} /\ away \subseteq Brothers
    /\ today \in 0..LastDay /\ ran \in BOOLEAN
    /\ job \in [Workers -> Job] /\ used \in 0..MaxUsed
    /\ knows \subseteq Expectations /\ keys \subseteq Expectations /\ slipped \subseteq Expectations
    /\ raced \subseteq Ids /\ unsure \subseteq Ids /\ muted \subseteq Ids
    /\ missed \subseteq Ids /\ forgotten \subseteq Slots

Pending(id) == \E w \in Workers : \/ job[w].at \in {"remember", "tell"} /\ job[w].id = id
                                  \/ job[w].at = "announce" /\ id \in ReadIds(job[w])
Due(id) == IF Live(id) THEN Of(id, {<<b, DayOf(meeting[id].at)>> : b \in Goer(meeting[id])}) ELSE {}

\* A person who was expecting to go hears that he is not, and one who is to go hears it
\* (create, update, publishMonth): once a meeting's messages are out, its conductor expects
\* it, on its day, and nobody else does; but where two requests met on the row, a message
\* was lost, one change took the conductor off and moved the day, or the meeting was moved
\* to a day it had been moved to before.
ConductorsKnow ==
    \A id \in Ids \ (raced \cup unsure \cup muted) : ~Pending(id) =>
        LET expected == {k \in knows : k[2] = id}
        IN Due(id) \subseteq expected /\ expected \subseteq Due(id) \cup slipped

\* One preparation of a congregation at a time, and a day taken out or moved by hand is not
\* brought back (prepare, rememberRemoved): a slot of the template is made into a meeting
\* once, however often and by whomever the month is prepared, but where the day was emptied
\* in the middle of a preparation or never written down.
MadeOnce ==
    \A id, o \in Ids :
        (id # o /\ meeting[id].made # ByHand /\ meeting[id].made = meeting[o].made)
            => meeting[id].made \in forgotten

\* Drafts nobody announced announce themselves before their month (passFor), whatever
\* fails on the way: once that is due, it comes to it that no draft is left but those the
\* app held back, those that came while the month was being announced, and those that a
\* request which had read them as drafts wrote back.
DraftsGoOut == PublishDue ~> \A id \in Ids : Draft(id) => id \in missed \cup raced

----------------------------------------------------------------------------
(* Requirements the code does not meet: a run with one of them as its       *)
(* invariant ends in a counterexample (README).                             *)

\* "A person who was expecting to go should hear that he is not" (update): nobody whose
\* messages all arrived expects a meeting that is not his.
NobodyExpectsInVain ==
    \A id \in Ids \ (raced \cup unsure \cup muted) : ~Pending(id) => {k \in knows : k[2] = id} \subseteq Due(id)

\* "A second, different move the same evening is news again" (notifyChange): every move of
\* an announced meeting is told to its conductor.
EveryMoveIsNews == muted = {}

\* The task closes itself once the month holds no draft (FieldServiceAutomationService).
TaskClosesItself == today >= First /\ ~AnyDraft => task # "open"
=============================================================================
