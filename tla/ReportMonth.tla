---------------------------- MODULE ReportMonth ----------------------------
(***************************************************************************)
(* The service reports of a congregation and the monthly sheets (S-1) that *)
(* go to the branch.  Reports are filed, corrected, taken back and put     *)
(* back (service-reports.service.ts); the secretary closes a month, and    *)
(* the sheet is kept as it went; a month nobody closed is frozen by the    *)
(* nightly round (monthly-sent.service.ts); a report that came in after    *)
(* its month was kept is late and goes into the next sheet                 *)
(* (late-carry.ts).                                                        *)
(*                                                                         *)
(* A worker is a request in flight or the nightly round; its steps are     *)
(* what the code does between two awaits that matter.  A sheet is the      *)
(* people and reports it names, not its figures, which follow from them.   *)
(* `createdAt <= keptAt` is kept as a set: the rows there were when the    *)
(* sheet was first kept.  Not modelled: special pioneers and missionaries  *)
(* (never late), permanent appointments, people who join or leave, the     *)
(* statuses worked out from the reports, who oversees which group.         *)
(***************************************************************************)
EXTENDS Naturals, FiniteSets

CONSTANTS
    Publishers,
    Months,                \* 1..Months, the report months
    Reach,                 \* how many months back a sheet looks for late reports (12)
    Requests, Nightly,     \* the workers
    Operations,            \* kinds of request an instance allows to each worker
    Setups,                \* who has a report in for which month at the start
    MaxUsed                \* bound of the instance: requests and failures, together

Workers == Requests \cup {Nightly}
Month == 1..Months
Keys == Publishers \X Month         \* carryKey: whose report, for which month
MonthOf(k) == k[2]
Kinds == {"submit", "submitAux", "update", "remove", "restore", "close", "reopen"}

ASSUME ReportConstants ==
    /\ Months \in Nat \ {0} /\ Reach \in Nat \ {0}
    /\ Nightly \notin Requests
    /\ Operations \in [Requests -> SUBSET Kinds]
    /\ Setups \subseteq SUBSET Keys
    /\ MaxUsed \in Nat
    /\ IsFiniteSet(Publishers)

Forms == {"shared", "didNot", "hours"}
Report == [state: {"none", "in", "gone"}, form: Forms]
Sheet == [kept: {"no", "frozen", "confirmed"}, own: SUBSET Publishers, filed: SUBSET Publishers,
          carried: SUBSET Keys, inBy: SUBSET Keys]
By == {"own", "office"}             \* the publisher; the secretary or an administrator

Job == [at: {"idle"}]
       \cup [at: {"spell"}, k: Keys, form: Forms]
       \cup [at: {"insert"}, k: Keys, form: Forms, mine: BOOLEAN]
       \cup [at: {"undo"}, k: Keys]
       \cup [at: {"write"}, k: Keys, row: Report]
       \cup [at: {"closure"}, m: Month, was: BOOLEAN]
       \cup [at: {"find"}, m: Month, by: {"app", "person"}]
       \cup [at: {"read"}, m: Month, by: {"app", "person"}, before: {"no", "frozen", "confirmed"}]
       \cup [at: {"save"}, m: Month, by: {"app", "person"}, before: {"no", "frozen", "confirmed"},
             own: SUBSET Publishers, filed: SUBSET Publishers, carried: SUBSET Keys,
             looked: SUBSET Keys]

Idle == [at |-> "idle"]
NoReport == [state |-> "none", form |-> "shared"]
NoSheet == [kept |-> "no", own |-> {}, filed |-> {}, carried |-> {}, inBy |-> {}]

VARIABLES
    report,    \* service_reports: a row for each person and month
    spells,    \* auxiliary_pioneers: the one-month rows, each by the request that wrote it
    closed,    \* report_month_closures
    sheet,     \* report_snapshots of kind 'monthly'
    today,     \* the day: 3m-2 once month m is over, 3m-1 on the 20th after it, 3m from the 21st
    job,       \* what each worker is doing
    used,      \* counted for the bound
    absorbed,  \* history: late reports a confirmation took into their own month
    passedBy,  \* history: rows that a sheet's reading did not find in, and its keeping did
    cutShort,  \* history: months whose closing was interrupted, came second or was reopened under it
    stranded,  \* history: months of pioneering whose writer failed to take them back
    stale,     \* history: workers at a save whose reading of the sheets is outdated by another's save
    overtaken  \* history: months kept from such a reading

tables == <<report, spells, closed, sheet>>
history == <<absorbed, passedBy, cutShort, stranded, stale, overtaken>>
vars == <<tables, today, job, used, history>>

----------------------------------------------------------------------------
In(k) == report[k].state = "in"
Aux(k) == spells[k] # {}
Goes(w, next) == job' = [job EXCEPT ![w] = next]

Over(m) == today >= 3 * m - 2
isMonthStillCollecting(m) == today < 3 * m - 1
canEdit(k, by) == by = "office" \/ (~closed[MonthOf(k)] /\ isMonthStillCollecting(MonthOf(k)))

\* An hours form for a month of pioneering, yes or no for any other.
FormFits(form, aux) == (form = "hours") <=> aux

Begin(r, kind) ==
    /\ r \in Requests /\ job[r] = Idle /\ kind \in Operations[r]
    /\ used < MaxUsed /\ used' = used + 1
    /\ UNCHANGED <<tables, today, history>>

----------------------------------------------------------------------------
\* submitOwnReport.  The closing of the month is asked here and not again.
BeginSubmit(r) ==
    /\ Begin(r, "submit")
    /\ \E k \in Keys, form \in Forms, by \in By :
         /\ Over(MonthOf(k)) /\ (by = "own" => ~closed[MonthOf(k)])
         /\ FormFits(form, Aux(k))
         /\ Goes(r, [at |-> "insert", k |-> k, form |-> form, mine |-> FALSE])

\* With a month of pioneering the app has never heard of: the spell is written first.
BeginSubmitAux(r) ==
    /\ Begin(r, "submitAux")
    /\ \E k \in Keys, form \in Forms :
         /\ Over(MonthOf(k))
         /\ IF Aux(k)
            THEN form = "hours" /\ Goes(r, [at |-> "insert", k |-> k, form |-> form, mine |-> FALSE])
            ELSE Goes(r, [at |-> "spell", k |-> k, form |-> form])

AfterSpell(j) == IF j.form = "hours"
                 THEN [at |-> "insert", k |-> j.k, form |-> j.form, mine |-> TRUE]
                 ELSE [at |-> "undo", k |-> j.k]

\* auxiliaryPioneersService.create refuses a month that is taken by now.
WriteSpell(r) ==
    /\ job[r].at = "spell"
    /\ LET j == job[r] IN
         IF Aux(j.k) THEN Goes(r, Idle) /\ UNCHANGED spells
         ELSE Goes(r, AfterSpell(j)) /\ spells' = [spells EXCEPT ![j.k] = @ \cup {r}]
    /\ UNCHANGED <<report, closed, sheet, today, used, history>>

\* The report was refused: a spell written for it is taken back.
RefusedKept(j) == Idle
Refused(j) == IF j.mine THEN [at |-> "undo", k |-> j.k] ELSE Idle

\* One row for a person and month: a withdrawn one is restored with the new figures.
InsertReport(r) ==
    /\ job[r].at = "insert"
    /\ LET j == job[r] IN
         IF In(j.k) THEN Goes(r, Refused(j)) /\ UNCHANGED report
         ELSE Goes(r, Idle) /\ report' = [report EXCEPT ![j.k] = [state |-> "in", form |-> j.form]]
    /\ UNCHANGED <<spells, closed, sheet, today, used, history>>

InsertFails(r) ==
    /\ job[r].at = "insert" /\ used < MaxUsed
    /\ used' = used + 1
    /\ Goes(r, Refused(job[r]))
    /\ UNCHANGED <<tables, today, history>>

undoAuxSpell(r) ==
    /\ job[r].at = "undo"
    /\ spells' = [spells EXCEPT ![job[r].k] = @ \ {r}]
    /\ Goes(r, Idle)
    /\ UNCHANGED <<report, closed, sheet, today, used, history>>

\* The failure is written to the log and swallowed.
UndoFails(r) ==
    /\ job[r].at = "undo" /\ used < MaxUsed
    /\ used' = used + 1
    /\ stranded' = stranded \cup {job[r].k}
    /\ Goes(r, Idle)
    /\ UNCHANGED <<tables, today, absorbed, passedBy, cutShort, stale, overtaken>>

----------------------------------------------------------------------------
\* updateReport, removeReport, restoreReport: the row is read and the right to change it
\* asked; then the row is written.  A saved row carries the deletion it was read with.
Edits(r, k, row) == Goes(r, [at |-> "write", k |-> k, row |-> row])

BeginUpdate(r) ==
    /\ Begin(r, "update")
    /\ \E k \in Keys, form \in Forms, by \in By :
         /\ In(k) /\ canEdit(k, by) /\ FormFits(form, Aux(k))
         /\ Edits(r, k, [report[k] EXCEPT !.form = form])

BeginRemove(r) ==
    /\ Begin(r, "remove")
    /\ \E k \in Keys, by \in By : In(k) /\ canEdit(k, by) /\ Edits(r, k, [report[k] EXCEPT !.state = "gone"])

BeginRestore(r) ==
    /\ Begin(r, "restore")
    /\ \E k \in Keys, by \in By :
         report[k].state = "gone" /\ canEdit(k, by) /\ Edits(r, k, [report[k] EXCEPT !.state = "in"])

WriteReport(r) ==
    /\ job[r].at = "write"
    /\ report' = [report EXCEPT ![job[r].k] = job[r].row]
    /\ Goes(r, Idle)
    /\ UNCHANGED <<spells, closed, sheet, today, used, history>>

----------------------------------------------------------------------------
\* late-carry.ts: whom the kept sheets of the months M counted, and where a report belongs.
keptMonths == {m \in Month : sheet[m].kept # "no"}
Reporters(m) == sheet[m].own \cup sheet[m].filed

FirstGap(m, M) == CHOOSE n \in (m + 1)..(Months + 1) : n \notin M /\ \A i \in (m + 1)..(n - 1) : i \in M

OnTime == [late |-> FALSE, into |-> 0]
Into(n) == [late |-> TRUE, into |-> n]       \* 0: into no sheet at all, missed
TakenBy(k, M) == {n \in M : n > MonthOf(k) /\ k \in sheet[n].carried}

placeLate(k, M) ==
    IF MonthOf(k) \notin M \/ k[1] \in Reporters(MonthOf(k)) THEN OnTime
    ELSE IF TakenBy(k, M) # {} THEN Into(CHOOSE n \in TakenBy(k, M) : TRUE)
    ELSE LET n == FirstGap(MonthOf(k), M)
         IN IF k \in sheet[n - 1].inBy THEN Into(0) ELSE Into(n)

\* Does this report count on a line at all?
counts(k) == In(k) /\ (Aux(k) \/ report[k].form # "didNot")

\* computeSummary: the people and reports behind the figures of month m.  Late reports are
\* looked for in the twelve months before it.
ownOf(m, M) == {p \in Publishers : counts(<<p, m>>) /\ ~placeLate(<<p, m>>, M).late}
filedOf(m, M) == {p \in Publishers : In(<<p, m>>) /\ ~placeLate(<<p, m>>, M).late}
carriedNames(m, M) == {k[1] : k \in {l \in Keys : MonthOf(l) < m /\ placeLate(l, M) = Into(m)}}
LooksFor(m, k) == MonthOf(k) < m /\ m <= MonthOf(k) + Reach
carriedButLast(m, M) == {k \in Keys : LooksFor(m - 1, k) /\ counts(k) /\ placeLate(k, M) = Into(m)}
carriedInto(m, M) == {k \in Keys : LooksFor(m, k) /\ counts(k) /\ placeLate(k, M) = Into(m)}

----------------------------------------------------------------------------
\* The secretary closes a month: the closure first, then the sheet is kept.
BeginClose(r) ==
    /\ Begin(r, "close")
    /\ \E m \in Month : Goes(r, [at |-> "closure", m |-> m, was |-> closed[m]])

\* Only when it actually closed now: a second tap must not move what was sent.
closeMonth(r) ==
    /\ job[r].at = "closure"
    /\ closed' = [closed EXCEPT ![job[r].m] = TRUE]
    /\ Goes(r, IF job[r].was THEN Idle ELSE [at |-> "find", m |-> job[r].m, by |-> "person"])
    /\ cutShort' = IF job[r].was /\ ~closed[job[r].m] THEN cutShort \cup {job[r].m} ELSE cutShort
    /\ UNCHANGED <<report, spells, sheet, today, used, absorbed, passedBy, stranded, stale, overtaken>>

reopenMonth(r) ==
    /\ r \in Requests /\ job[r] = Idle /\ "reopen" \in Operations[r] /\ used < MaxUsed
    /\ \E m \in Month : closed[m] /\ closed' = [closed EXCEPT ![m] = FALSE]
    /\ used' = used + 1
    /\ UNCHANGED <<report, spells, sheet, today, job, history>>

\* The nightly round: the month whose deadline passed yesterday or earlier.
FreezeMonth == CHOOSE m \in 0..Months : 3 * m <= today /\ today < 3 * (m + 1)
FreezeDue == /\ FreezeMonth # 0
             /\ sheet[FreezeMonth].kept = "no"
             /\ \E p \in Publishers : In(<<p, FreezeMonth>>)

NightlyRound ==
    /\ job[Nightly] = Idle /\ FreezeDue
    /\ Goes(Nightly, [at |-> "find", m |-> FreezeMonth, by |-> "app"])
    /\ UNCHANGED <<tables, today, used, history>>

\* keep: the sheet so far, the reports as they are, and the sheet written over.
FindSheet(w) ==
    /\ job[w].at = "find"
    /\ LET j == job[w] IN
         Goes(w, IF j.by = "person" /\ ~closed[j.m] THEN Idle
                 ELSE [at |-> "read", m |-> j.m, by |-> j.by, before |-> sheet[j.m].kept])
    /\ UNCHANGED <<tables, today, used, history>>

\* Confirming what the app froze takes the late reports of the month in.
absorbsAlways(j) == j.by = "person"
absorbs(j) == j.by = "person" /\ j.before = "frozen"

ReadReports(w) ==
    /\ job[w].at = "read"
    /\ LET j == job[w]
           M == IF absorbs(j) THEN keptMonths \ {j.m} ELSE keptMonths
       IN Goes(w, IF j.before = "confirmed" /\ j.by = "app" THEN Idle
                  ELSE [at |-> "save", m |-> j.m, by |-> j.by, before |-> j.before,
                        own |-> ownOf(j.m, M), filed |-> filedOf(j.m, M),
                        carried |-> carriedInto(j.m, M), looked |-> {k \in Keys : counts(k)}])
    /\ UNCHANGED <<tables, today, used, history>>

KeptAsCreated(j) == IF j.before # "no" THEN j.before
                    ELSE IF j.by = "person" THEN "confirmed" ELSE "frozen"
KeptAs(j) == IF j.by = "person" THEN "confirmed" ELSE "frozen"

Rows == {k \in Keys : report[k].state # "none"}

\* One sheet for a month: an insert that comes second is refused by the database.
InsertsOverAll(j) == TRUE
Inserts(j) == j.before # "no" \/ sheet[j.m].kept = "no"

SaveSheet(w) ==
    /\ job[w].at = "save"
    /\ LET j == job[w]
           new == [kept |-> KeptAs(j),
                   own |-> j.own, filed |-> j.filed, carried |-> j.carried,
                   inBy |-> IF sheet[j.m].kept = "no" THEN Rows ELSE sheet[j.m].inBy]
       IN IF Inserts(j)
          THEN /\ sheet' = [sheet EXCEPT ![j.m] = new]
               /\ stale' = {v \in Workers \ {w} : job[v].at = "save"}
               /\ overtaken' = IF w \in stale THEN overtaken \cup {j.m} ELSE overtaken
               /\ passedBy' = passedBy \cup (Rows \ j.looked)
               /\ absorbed' = IF j.by = "person" /\ j.before = "frozen"
                              THEN absorbed \cup ({<<p, j.m>> : p \in j.filed \ Reporters(j.m)})
                              ELSE absorbed
               /\ UNCHANGED <<cutShort, stranded>>
          ELSE /\ cutShort' = cutShort \cup {j.m}
               /\ stale' = stale \ {w}
               /\ UNCHANGED <<sheet, passedBy, absorbed, stranded, overtaken>>
    /\ Goes(w, Idle)
    /\ UNCHANGED <<report, spells, closed, today, used>>

----------------------------------------------------------------------------
\* The server stops, or an exception ends what the worker was doing.
Lose(w) ==
    /\ used < MaxUsed /\ job[w] # Idle
    /\ used' = used + 1
    /\ LET j == job[w] IN
         /\ cutShort' = IF j.at \in {"find", "read", "save"} THEN cutShort \cup {j.m} ELSE cutShort
         /\ stranded' = IF j.at = "undo" \/ (j.at = "insert" /\ j.mine)
                        THEN stranded \cup {j.k} ELSE stranded
    /\ stale' = stale \ {w}
    /\ Goes(w, Idle)
    /\ UNCHANGED <<tables, today, absorbed, passedBy, overtaken>>

\* The days go by.  A month has thirty nights: one of the rounds gets through.
Tick ==
    /\ today < 3 * Months
    /\ ~FreezeDue /\ job[Nightly] = Idle
    /\ today' = today + 1
    /\ UNCHANGED <<tables, job, used, history>>

Init ==
    /\ \E S \in Setups :
         report = [k \in Keys |-> IF k \in S THEN [state |-> "in", form |-> "shared"] ELSE NoReport]
    /\ spells = [k \in Keys |-> {}]
    /\ closed = [m \in Month |-> FALSE]
    /\ sheet = [m \in Month |-> NoSheet]
    /\ today = 2
    /\ job = [w \in Workers |-> Idle]
    /\ used = 0
    /\ absorbed = {} /\ passedBy = {} /\ cutShort = {} /\ stranded = {}
    /\ stale = {} /\ overtaken = {}

Begins(r) == \/ BeginSubmit(r) \/ BeginSubmitAux(r) \/ BeginUpdate(r) \/ BeginRemove(r)
             \/ BeginRestore(r) \/ BeginClose(r) \/ reopenMonth(r)
Works(r) == WriteSpell(r) \/ InsertReport(r) \/ undoAuxSpell(r) \/ WriteReport(r) \/ closeMonth(r)
Keeps(w) == FindSheet(w) \/ ReadReports(w) \/ SaveSheet(w)
Fails(w) == InsertFails(w) \/ UndoFails(w) \/ Lose(w)

Next == \/ \E r \in Requests : Begins(r) \/ Works(r)
        \/ \E w \in Workers : Keeps(w) \/ Fails(w)
        \/ NightlyRound \/ Tick

\* What was begun goes on, the nightly round runs and the days go by.
Fairness == /\ \A r \in Requests : WF_vars(Works(r) \/ Keeps(r))
            /\ WF_vars(NightlyRound \/ Keeps(Nightly)) /\ WF_vars(Tick)

Spec == Init /\ [][Next]_vars /\ Fairness

----------------------------------------------------------------------------
\* Every row, sheet and job is of its kind.
TypeOK ==
    /\ report \in [Keys -> Report] /\ spells \in [Keys -> SUBSET Requests]
    /\ closed \in [Month -> BOOLEAN] /\ sheet \in [Month -> Sheet]
    /\ today \in 1..(3 * Months)
    /\ job \in [Workers -> Job] /\ used \in 0..MaxUsed
    /\ absorbed \subseteq Keys /\ passedBy \subseteq Keys
    /\ cutShort \subseteq Month /\ stranded \subseteq Keys
    /\ stale \subseteq Workers /\ overtaken \subseteq Month

\* The sheets a report is counted on.
SheetsOf(k) == {m \in Month : k \in sheet[m].carried \/ (m = MonthOf(k) /\ k[1] \in sheet[m].own)}
CountedOn(k, m) == m \in SheetsOf(k)

\* "Counted in exactly one sheet ever" (late-carry.ts): no two sheets have one report, but for
\* those that were late and were then taken into their own month by the confirmation of a sheet
\* the app had frozen, and for sheets kept from a reading another keeping had outdated.
CountedOnceUnlessAbsorbed == \A k \in Keys \ absorbed : \A m, n \in SheetsOf(k) \ overtaken : m = n

Waits(k) == \E n \in Month \cup {Months + 1} : LooksFor(n, k) /\ placeLate(k, keptMonths) = Into(n)
\* Filed when its month's sheet was kept, and the sheet of every month that looks for it.
OutOfReach(k) == \A i \in MonthOf(k)..(MonthOf(k) + Reach) : i \in keptMonths /\ k \notin sheet[i].inBy

\* No report is passed by: one that was in, and counted, whenever a sheet was read and kept
\* since, is on a sheet, or was on time (and its correction shows as a difference), or waits for
\* an open month that looks for it, or was filed when no sheet could take it any more: a sheet
\* looks twelve months back.  Excepted are reports the sheet of whose month, or of one after it,
\* was kept from a reading another keeping had outdated.
NoneIsPassedBy ==
    \A k \in Keys \ passedBy :
        (counts(k) /\ \A n \in overtaken : n < MonthOf(k))
            => \/ SheetsOf(k) # {} \/ ~placeLate(k, keptMonths).late
               \/ Waits(k) \/ OutOfReach(k)

\* The app never overwrites what a person saved (monthly-sent.service.ts): a confirmed
\* sheet stays confirmed, however the nightly round and the secretary meet.
AppNeverOverwrites == [][\A m \in Month : sheet[m].kept = "confirmed" => sheet'[m].kept = "confirmed"]_vars

Closing(m) == \E r \in Requests : job[r].at \in {"find", "read", "save"} /\ job[r].m = m
\* Closing is "done, sent" (the controller): a closed month has the sheet a person kept,
\* unless its closing is under way, was cut short, came second to the nightly round, or found
\* the month closed when it began and reopened when it wrote.
ClosedIsSent ==
    \A m \in Month : closed[m] => sheet[m].kept = "confirmed" \/ Closing(m) \/ m \in cutShort

\* What must not happen is the half-state (undoAuxSpell): a month of pioneering written for
\* a report has a report, once its request has ended, but where taking it back failed.
NoHalfState ==
    \A k \in Keys : Aux(k) =>
        \/ report[k].state # "none" \/ k \in stranded
        \/ \E r \in spells[k] : job[r].at \in {"insert", "undo"} /\ job[r].k = k

WaitsFor(k, m) == counts(k) /\ SheetsOf(k) = {} /\ LooksFor(m, k) /\ placeLate(k, keptMonths) = Into(m)
\* A late report does not wait for ever beside reports on time: once the nightly round is to
\* freeze the month it waits for, it comes onto a sheet, unless it is taken back, or every
\* report of that month is and nothing is kept.
LateReportsGo ==
    \A m \in Month : \A k \in {l \in Keys : MonthOf(l) < m} :
        (WaitsFor(k, m) /\ FreezeDue /\ FreezeMonth = m)
            ~> (SheetsOf(k) # {} \/ ~counts(k) \/ k \in passedBy \/ ~\E p \in Publishers : In(<<p, m>>))

----------------------------------------------------------------------------
(* Requirements the code does not meet: a run with one of them as its       *)
(* invariant ends in a counterexample (README).                             *)

\* "Counted in exactly one sheet ever, whatever is reopened and closed again afterwards"
\* (late-carry.ts): no report is on two sheets.
CountedOnce == \A k \in Keys : \A m, n \in SheetsOf(k) : m = n

\* A late report goes into no sheet only where the sheets were kept before the rule of late
\* reports existed (late-carry.ts), which these were not.
EveryReportHasASheet ==
    \A k \in Keys : counts(k) => SheetsOf(k) # {} \/ placeLate(k, keptMonths) # Into(0)

\* Writing the spell in the same request as the hours keeps the two from parting company
\* (submitOwnReport): a report of hours has its month of pioneering.
HoursKeepTheirMonth == \A k \in Keys : (In(k) /\ report[k].form = "hours") => Aux(k)
=============================================================================
