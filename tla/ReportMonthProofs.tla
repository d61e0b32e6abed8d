------------------------- MODULE ReportMonthProofs -------------------------
(* What the filing of reports and the keeping of sheets promise for any     *)
(* number of publishers, months and requests in flight.                     *)
EXTENDS ReportMonth, WellFoundedInduction, TLAPS

JobType == job \in [Workers -> Job]

\* A job at a step has what that step works with.
LEMMA JobFields ==
    ASSUME NEW j \in Job
    PROVE /\ j.at \in {"spell", "insert"} => j.k \in Keys /\ j.form \in Forms
          /\ j.at = "insert" => j.mine \in BOOLEAN
          /\ j.at \in {"undo", "write"} => j.k \in Keys
          /\ j.at = "write" => j.row \in Report
          /\ j.at \in {"closure", "find", "read", "save"} => j.m \in Month
          /\ j.at = "closure" => j.was \in BOOLEAN
          /\ j.at \in {"find", "read", "save"} => j.by \in {"app", "person"}
          /\ j.at \in {"read", "save"} => j.before \in {"no", "frozen", "confirmed"}
          /\ j.at = "save" => /\ j.own \in SUBSET Publishers /\ j.filed \in SUBSET Publishers
                              /\ j.carried \in SUBSET Keys /\ j.looked \in SUBSET Keys
BY DEF Job

\* A worker that goes on to a well-formed job.
LEMMA GoesOn ==
    ASSUME JobType, NEW w \in Workers, NEW next \in Job, Goes(w, next)
    PROVE /\ job' \in [Workers -> Job]
          /\ job'[w] = next
          /\ \A v \in Workers \ {w} : job'[v] = job[v]
BY DEF Goes, JobType

\* A request that begins is a well-formed job, and nothing else changes.
LEMMA BeginType ==
    ASSUME TypeOK, NEW r, NEW kind, NEW next \in Job, Begin(r, kind), Goes(r, next)
    PROVE TypeOK'
<1>1. r \in Workers /\ job' \in [Workers -> Job]
  BY DEF Begin, Workers, Goes, TypeOK
<1>2. used' \in 0..MaxUsed
  BY ReportConstants DEF Begin, TypeOK
<1> QED
  BY <1>1, <1>2 DEF Begin, TypeOK, tables, history

LEMMA BeginsType == ASSUME TypeOK, NEW r \in Requests, Begins(r) PROVE TypeOK'
<1> USE ReportConstants
<1>1. CASE BeginSubmit(r)
  <2>1. PICK k \in Keys, form \in Forms :
          Goes(r, [at |-> "insert", k |-> k, form |-> form, mine |-> FALSE])
    BY <1>1 DEF BeginSubmit
  <2>2. [at |-> "insert", k |-> k, form |-> form, mine |-> FALSE] \in Job
    BY DEF Job
  <2> QED
    BY <1>1, <2>1, <2>2, BeginType DEF BeginSubmit
<1>2. CASE BeginSubmitAux(r)
  <2>1. PICK k \in Keys, form \in Forms :
          \/ Goes(r, [at |-> "insert", k |-> k, form |-> form, mine |-> FALSE])
          \/ Goes(r, [at |-> "spell", k |-> k, form |-> form])
    BY <1>2 DEF BeginSubmitAux
  <2>2. /\ [at |-> "insert", k |-> k, form |-> form, mine |-> FALSE] \in Job
        /\ [at |-> "spell", k |-> k, form |-> form] \in Job
    BY DEF Job
  <2> QED
    BY <1>2, <2>1, <2>2, BeginType DEF BeginSubmitAux
<1>3. ASSUME NEW k \in Keys, NEW row \in Report, NEW kind, Begin(r, kind), Edits(r, k, row)
      PROVE TypeOK'
  <2>1. [at |-> "write", k |-> k, row |-> row] \in Job
    BY DEF Job
  <2> QED
    BY <1>3, <2>1, BeginType DEF Edits
<1>4. ASSUME NEW k \in Keys
      PROVE /\ \A form \in Forms : [report[k] EXCEPT !.form = form] \in Report
            /\ [report[k] EXCEPT !.state = "gone"] \in Report
            /\ [report[k] EXCEPT !.state = "in"] \in Report
  BY DEF TypeOK, Report
<1>5. CASE BeginUpdate(r)
  BY <1>3, <1>4, <1>5 DEF BeginUpdate
<1>6. CASE BeginRemove(r)
  BY <1>3, <1>4, <1>6 DEF BeginRemove
<1>7. CASE BeginRestore(r)
  BY <1>3, <1>4, <1>7 DEF BeginRestore
<1>8. CASE BeginClose(r)
  <2>1. PICK m \in Month : Goes(r, [at |-> "closure", m |-> m, was |-> closed[m]])
    BY <1>8 DEF BeginClose
  <2>2. [at |-> "closure", m |-> m, was |-> closed[m]] \in Job
    BY DEF Job, TypeOK
  <2> QED
    BY <1>8, <2>1, <2>2, BeginType DEF BeginClose
<1>9. CASE reopenMonth(r)
  <2>1. closed' \in [Month -> BOOLEAN] /\ used' \in 0..MaxUsed
    BY <1>9 DEF reopenMonth, TypeOK
  <2> QED
    BY <1>9, <2>1 DEF reopenMonth, TypeOK, history
<1> QED
  BY <1>1, <1>2, <1>5, <1>6, <1>7, <1>8, <1>9 DEF Begins

LEMMA WorksType == ASSUME TypeOK, NEW r \in Requests, Works(r) PROVE TypeOK'
<1>1. r \in Workers /\ job[r] \in Job /\ Idle \in Job
  BY DEF Workers, TypeOK, Idle, Job
<1>2. ASSUME NEW next \in Job, Goes(r, next) PROVE job' \in [Workers -> Job]
  BY <1>2 DEF Goes, TypeOK
<1>3. CASE WriteSpell(r)
  <2>1. job[r].k \in Keys /\ job[r].form \in Forms
    BY <1>1, <1>3, JobFields DEF WriteSpell
  <2>2. AfterSpell(job[r]) \in Job
    BY <2>1 DEF AfterSpell, Job
  <2>3. spells' \in [Keys -> SUBSET Requests]
    BY <1>3, <2>1 DEF WriteSpell, TypeOK
  <2>4. job' \in [Workers -> Job]
    BY <1>1, <1>2, <1>3, <2>2 DEF WriteSpell
  <2> QED
    BY <1>3, <2>3, <2>4 DEF WriteSpell, TypeOK, history
<1>4. CASE InsertReport(r)
  <2>1. job[r].k \in Keys /\ job[r].form \in Forms
    BY <1>1, <1>4, JobFields DEF InsertReport
  <2>2. Refused(job[r]) \in Job
    BY <1>1, <2>1 DEF Refused, Job, Idle
  <2>3. report' \in [Keys -> Report]
    BY <1>4, <2>1 DEF InsertReport, TypeOK, Report
  <2>4. job' \in [Workers -> Job]
    BY <1>1, <1>2, <1>4, <2>2 DEF InsertReport
  <2> QED
    BY <1>4, <2>3, <2>4 DEF InsertReport, TypeOK, history
<1>5. CASE undoAuxSpell(r)
  <2>1. job[r].k \in Keys
    BY <1>1, <1>5, JobFields DEF undoAuxSpell
  <2>2. spells' \in [Keys -> SUBSET Requests]
    BY <1>5, <2>1 DEF undoAuxSpell, TypeOK
  <2> QED
    BY <1>1, <1>2, <1>5, <2>2 DEF undoAuxSpell, TypeOK, history
<1>6. CASE WriteReport(r)
  <2>1. job[r].k \in Keys /\ job[r].row \in Report
    BY <1>1, <1>6, JobFields DEF WriteReport
  <2>2. report' \in [Keys -> Report]
    BY <1>6, <2>1 DEF WriteReport, TypeOK
  <2> QED
    BY <1>1, <1>2, <1>6, <2>2 DEF WriteReport, TypeOK, history
<1>7. CASE closeMonth(r)
  <2>1. job[r].m \in Month
    BY <1>1, <1>7, JobFields DEF closeMonth
  <2>2. [at |-> "find", m |-> job[r].m, by |-> "person"] \in Job
    BY <2>1 DEF Job
  <2>3. closed' \in [Month -> BOOLEAN]
    BY <1>7, <2>1 DEF closeMonth, TypeOK
  <2>4. job' \in [Workers -> Job]
    BY <1>1, <1>2, <1>7, <2>2 DEF closeMonth
  <2> QED
    BY <1>7, <2>3, <2>4 DEF closeMonth, TypeOK, history
<1> QED
  BY <1>3, <1>4, <1>5, <1>6, <1>7 DEF Works

LEMMA KeepsType == ASSUME TypeOK, NEW w \in Workers, Keeps(w) PROVE TypeOK'
<1>1. job[w] \in Job /\ Idle \in Job
  BY DEF TypeOK, Idle, Job
<1>2. ASSUME NEW next \in Job, Goes(w, next) PROVE job' \in [Workers -> Job]
  BY <1>2 DEF Goes, TypeOK
<1>3. CASE FindSheet(w)
  <2>1. job[w].m \in Month /\ job[w].by \in {"app", "person"}
    BY <1>1, <1>3, JobFields DEF FindSheet
  <2>2. sheet[job[w].m].kept \in {"no", "frozen", "confirmed"}
    BY <2>1 DEF TypeOK, Sheet
  <2>3. [at |-> "read", m |-> job[w].m, by |-> job[w].by, before |-> sheet[job[w].m].kept] \in Job
    BY <2>1, <2>2 DEF Job
  <2>4. job' \in [Workers -> Job]
    BY <1>1, <1>2, <1>3, <2>3 DEF FindSheet
  <2> QED
    BY <1>3, <2>4 DEF FindSheet, TypeOK, tables, history
<1>4. CASE ReadReports(w)
  <2> DEFINE M == IF absorbs(job[w]) THEN keptMonths \ {job[w].m} ELSE keptMonths
             next == [at |-> "save", m |-> job[w].m, by |-> job[w].by, before |-> job[w].before,
                      own |-> ownOf(job[w].m, M), filed |-> filedOf(job[w].m, M),
                      carried |-> carriedInto(job[w].m, M), looked |-> {k \in Keys : counts(k)}]
  <2>1. /\ job[w].m \in Month /\ job[w].by \in {"app", "person"}
        /\ job[w].before \in {"no", "frozen", "confirmed"}
    BY <1>1, <1>4, JobFields DEF ReadReports
  <2>2. /\ ownOf(job[w].m, M) \in SUBSET Publishers /\ filedOf(job[w].m, M) \in SUBSET Publishers
        /\ carriedInto(job[w].m, M) \in SUBSET Keys /\ {k \in Keys : counts(k)} \in SUBSET Keys
    BY DEF ownOf, filedOf, carriedInto
  <2> HIDE DEF M
  <2>3. next \in Job
    BY <2>1, <2>2 DEF Job
  <2> USE DEF M
  <2>4. Goes(w, Idle) \/ Goes(w, next)
    BY <1>4 DEF ReadReports
  <2> HIDE DEF next
  <2>5. job' \in [Workers -> Job]
    BY <1>1, <1>2, <2>3, <2>4
  <2> QED
    BY <1>4, <2>5 DEF ReadReports, TypeOK, tables, history
<1>5. CASE SaveSheet(w)
  <2> DEFINE j == job[w]
             new == [kept |-> KeptAs(j), own |-> j.own, filed |-> j.filed, carried |-> j.carried,
                     inBy |-> IF sheet[j.m].kept = "no" THEN Rows ELSE sheet[j.m].inBy]
  <2>1. /\ j.m \in Month /\ j.own \in SUBSET Publishers /\ j.filed \in SUBSET Publishers
        /\ j.carried \in SUBSET Keys
    BY <1>1, <1>5, JobFields DEF SaveSheet
  <2>2. new \in Sheet
    BY <2>1 DEF Sheet, KeptAs, Rows, TypeOK
  <2>3. sheet' \in [Month -> Sheet]
    <3>1. sheet' = sheet \/ sheet' = [sheet EXCEPT ![j.m] = new]
      BY <1>5 DEF SaveSheet
    <3> HIDE DEF new
    <3> QED
      BY <2>1, <2>2, <3>1 DEF TypeOK
  <2>4. absorbed' \subseteq Keys
    <3>1. {<<p, j.m>> : p \in j.filed \ Reporters(j.m)} \subseteq Keys
      BY <2>1 DEF Keys
    <3> QED
      BY <1>5, <3>1 DEF SaveSheet, TypeOK
  <2>5. passedBy' \subseteq Keys /\ cutShort' \subseteq Month /\ stranded' = stranded
    BY <1>5, <2>1 DEF SaveSheet, TypeOK, Rows
  <2>6. job' \in [Workers -> Job]
    BY <1>1, <1>2, <1>5 DEF SaveSheet
  <2>7. stale' \subseteq Workers /\ overtaken' \subseteq Month
    BY <1>5, <2>1 DEF SaveSheet, TypeOK
  <2> QED
    BY <1>5, <2>3, <2>4, <2>5, <2>6, <2>7 DEF SaveSheet, TypeOK
<1> QED
  BY <1>3, <1>4, <1>5 DEF Keeps

LEMMA FailsType == ASSUME TypeOK, NEW w \in Workers, Fails(w) PROVE TypeOK'
<1>1. job[w] \in Job /\ Idle \in Job
  BY DEF TypeOK, Idle, Job
<1>2. ASSUME NEW next \in Job, Goes(w, next) PROVE job' \in [Workers -> Job]
  BY <1>2 DEF Goes, TypeOK
<1>3. ASSUME used < MaxUsed, used' = used + 1 PROVE used' \in 0..MaxUsed
  BY <1>3, ReportConstants DEF TypeOK
<1>4. CASE InsertFails(w)
  <2>1. job[w].k \in Keys
    BY <1>1, <1>4, JobFields DEF InsertFails
  <2>2. Refused(job[w]) \in Job
    BY <1>1, <2>1 DEF Refused, Job, Idle
  <2> QED
    BY <1>2, <1>3, <1>4, <2>2 DEF InsertFails, TypeOK, tables, history
<1>5. CASE UndoFails(w)
  <2>1. job[w].k \in Keys
    BY <1>1, <1>5, JobFields DEF UndoFails
  <2> QED
    BY <1>1, <1>2, <1>3, <1>5, <2>1 DEF UndoFails, TypeOK, tables
<1>6. CASE Lose(w)
  <2>1. cutShort' \subseteq Month /\ stranded' \subseteq Keys
    BY <1>1, <1>6, JobFields DEF Lose, TypeOK
  <2> QED
    BY <1>1, <1>2, <1>3, <1>6, <2>1 DEF Lose, TypeOK, tables
<1> QED
  BY <1>4, <1>5, <1>6 DEF Fails

LEMMA NightType == ASSUME TypeOK, NightlyRound PROVE TypeOK'
<1>1. FreezeMonth \in Month
  <2>1. \E m \in 0..Months : 3 * m <= today /\ today < 3 * (m + 1)
    <3>1. today \in 1..(3 * Months) /\ Months \in Nat \ {0}
      BY ReportConstants DEF TypeOK
    <3>2. (today \div 3) \in 0..Months /\ 3 * (today \div 3) <= today /\ today < 3 * ((today \div 3) + 1)
      BY <3>1
    <3> QED
      BY <3>2
  <2>2. FreezeMonth \in 0..Months
    BY <2>1 DEF FreezeMonth
  <2> QED
    BY <2>2, ReportConstants DEF NightlyRound, FreezeDue, Month
<1>2. [at |-> "find", m |-> FreezeMonth, by |-> "app"] \in Job
  BY <1>1 DEF Job
<1>3. job' \in [Workers -> Job]
  BY <1>2 DEF NightlyRound, Goes, TypeOK, Workers
<1> QED
  BY <1>3 DEF NightlyRound, TypeOK, tables, history

LEMMA TypeStep == TypeOK /\ [Next]_vars => TypeOK'
<1> SUFFICES ASSUME TypeOK, [Next]_vars PROVE TypeOK'
  OBVIOUS
<1>1. CASE UNCHANGED vars
  BY <1>1 DEF vars, tables, history, TypeOK
<1>2. CASE Tick
  <2>1. today' \in 1..(3 * Months)
    BY <1>2, ReportConstants DEF Tick, TypeOK
  <2> QED
    BY <1>2, <2>1 DEF Tick, TypeOK, tables, history
<1> QED
  BY <1>1, <1>2, BeginsType, WorksType, KeepsType, FailsType, NightType DEF Next

LEMMA InitType == Init => TypeOK
BY ReportConstants DEF Init, TypeOK, Job, Idle, Report, NoReport, Forms, Sheet, NoSheet

\* Every reachable state of reports, sheets and the requests on them is well-typed.
THEOREM ReportsTypeCorrect == Spec => []TypeOK
BY InitType, TypeStep, PTL DEF Spec

----------------------------------------------------------------------------
(* No half-state: a month of pioneering has one writer, who still holds it   *)
(* while the report is missing; and no write makes a report unheard of again. *)

StillHolds(r, k) == /\ job[r].at = "undo" \/ (job[r].at = "insert" /\ job[r].mine)
                    /\ job[r].k = k
OneWriter == \A k \in Keys : \A r, s \in spells[k] : r = s
WriterHolds == \A k \in Keys :
    Aux(k) => report[k].state # "none" \/ k \in stranded \/ \E r \in spells[k] : StillHolds(r, k)
WritesKnown == \A w \in Workers : job[w].at = "write" => job[w].row.state # "none"
SpellInv == OneWriter /\ WriterHolds /\ WritesKnown

\* A step that begins a request, or moves one that holds no spell, disturbs nobody's.
LEMMA OthersHold ==
    ASSUME TypeOK, SpellInv, NEW w \in Workers, NEW next \in Job, Goes(w, next),
           \A k \in Keys : ~StillHolds(w, k), next.at # "write",
           spells' = spells, report' = report, stranded \subseteq stranded'
    PROVE SpellInv'
<1>1. /\ job' \in [Workers -> Job] /\ job'[w] = next
      /\ \A v \in Workers \ {w} : job'[v] = job[v]
  BY GoesOn DEF TypeOK, JobType
<1>2. ASSUME NEW k \in Keys, Aux(k), report[k].state = "none", k \notin stranded
      PROVE \E r \in spells[k] : StillHolds(r, k)'
  <2>1. PICK r \in spells[k] : StillHolds(r, k)
    BY <1>2 DEF SpellInv, WriterHolds
  <2>2. r \in Workers \ {w}
    BY <2>1 DEF TypeOK, Workers
  <2> QED
    BY <1>1, <2>1, <2>2 DEF StillHolds
<1>3. WriterHolds'
  BY <1>2 DEF WriterHolds, Aux
<1> QED
  BY <1>1, <1>3 DEF SpellInv, OneWriter, WritesKnown

LEMMA BeginsSpell == ASSUME TypeOK, SpellInv, NEW r \in Requests, Begins(r) PROVE SpellInv'
<1>1. r \in Workers
  BY DEF Workers
<1>2. ASSUME NEW kind, Begin(r, kind) PROVE \A k \in Keys : ~StillHolds(r, k)
  BY <1>2 DEF Begin, StillHolds, Idle
<1>3. ASSUME NEW kind, Begin(r, kind), NEW next \in Job, Goes(r, next), next.at # "write"
      PROVE SpellInv'
  BY <1>1, <1>2, <1>3, OthersHold DEF Begin, tables, history
<1>4. CASE BeginSubmit(r)
  <2>1. PICK k \in Keys, form \in Forms :
          Goes(r, [at |-> "insert", k |-> k, form |-> form, mine |-> FALSE])
    BY <1>4 DEF BeginSubmit
  <2>2. [at |-> "insert", k |-> k, form |-> form, mine |-> FALSE] \in Job
    BY DEF Job
  <2> QED
    BY <1>3, <1>4, <2>1, <2>2 DEF BeginSubmit
<1>5. CASE BeginSubmitAux(r)
  <2>1. PICK k \in Keys, form \in Forms :
          \/ Goes(r, [at |-> "insert", k |-> k, form |-> form, mine |-> FALSE])
          \/ Goes(r, [at |-> "spell", k |-> k, form |-> form])
    BY <1>5 DEF BeginSubmitAux
  <2>2. /\ [at |-> "insert", k |-> k, form |-> form, mine |-> FALSE] \in Job
        /\ [at |-> "spell", k |-> k, form |-> form] \in Job
    BY DEF Job
  <2> QED
    BY <1>3, <1>5, <2>1, <2>2 DEF BeginSubmitAux
<1>6. CASE BeginClose(r)
  <2>1. PICK m \in Month : Goes(r, [at |-> "closure", m |-> m, was |-> closed[m]])
    BY <1>6 DEF BeginClose
  <2>2. [at |-> "closure", m |-> m, was |-> closed[m]] \in Job
    BY DEF Job, TypeOK
  <2> QED
    BY <1>3, <1>6, <2>1, <2>2 DEF BeginClose
<1>7. ASSUME NEW k \in Keys, NEW row \in Report, row.state # "none", NEW kind,
             Begin(r, kind), Edits(r, k, row)
      PROVE SpellInv'
  <2>1. [at |-> "write", k |-> k, row |-> row] \in Job
    BY DEF Job
  <2>2. job'[r] = [at |-> "write", k |-> k, row |-> row]
        /\ \A v \in Workers \ {r} : job'[v] = job[v]
    BY <1>1, <1>7, <2>1, GoesOn DEF Edits, TypeOK, JobType
  <2>3. WritesKnown'
    BY <1>7, <2>2 DEF SpellInv, WritesKnown
  <2>4. UNCHANGED <<spells, report, stranded>>
    BY <1>7 DEF Begin, tables, history
  <2>5. ASSUME NEW l \in Keys, NEW v \in spells[l], StillHolds(v, l) PROVE StillHolds(v, l)'
    BY <1>2, <1>7, <2>2, <2>5 DEF StillHolds, TypeOK, Workers
  <2>6. WriterHolds' /\ OneWriter'
    BY <2>4, <2>5 DEF SpellInv, WriterHolds, OneWriter, Aux
  <2> QED
    BY <2>3, <2>6 DEF SpellInv
<1>8. ASSUME NEW k \in Keys
      PROVE /\ In(k) => \A form \in Forms : /\ [report[k] EXCEPT !.form = form] \in Report
                                           /\ [report[k] EXCEPT !.form = form].state # "none"
            /\ [report[k] EXCEPT !.state = "gone"] \in Report
            /\ [report[k] EXCEPT !.state = "in"] \in Report
            /\ [report[k] EXCEPT !.state = "gone"].state # "none"
            /\ [report[k] EXCEPT !.state = "in"].state # "none"
  BY DEF TypeOK, Report, In
<1>9. CASE BeginUpdate(r)
  BY <1>7, <1>8, <1>9 DEF BeginUpdate
<1>10. CASE BeginRemove(r)
  BY <1>7, <1>8, <1>10 DEF BeginRemove
<1>11. CASE BeginRestore(r)
  BY <1>7, <1>8, <1>11 DEF BeginRestore
<1>12. CASE reopenMonth(r)
  BY <1>12 DEF reopenMonth, history, SpellInv, OneWriter, WriterHolds, WritesKnown, Aux, StillHolds
<1> QED
  BY <1>4, <1>5, <1>6, <1>9, <1>10, <1>11, <1>12 DEF Begins

LEMMA WorksSpell == ASSUME TypeOK, SpellInv, NEW r \in Requests, Works(r) PROVE SpellInv'
<1>1. r \in Workers /\ job[r] \in Job /\ Idle \in Job
  BY DEF Workers, TypeOK, Idle, Job
<1>2. ASSUME NEW next \in Job, Goes(r, next)
      PROVE job'[r] = next /\ \A v \in Workers \ {r} : job'[v] = job[v]
  BY <1>1, <1>2, GoesOn DEF TypeOK, JobType
<1>3. \A k \in Keys : spells[k] \subseteq Workers
  BY DEF TypeOK, Workers
<1>4. CASE WriteSpell(r)
  <2>1. job[r].k \in Keys /\ job[r].form \in Forms /\ \A k \in Keys : ~StillHolds(r, k)
    BY <1>1, <1>4, JobFields DEF WriteSpell, StillHolds
  <2>2. CASE Aux(job[r].k)
    BY <1>1, <1>4, <2>1, <2>2, OthersHold DEF WriteSpell, history, Idle
  <2>3. CASE ~Aux(job[r].k)
    <3>1. AfterSpell(job[r]) \in Job
      BY <2>1 DEF AfterSpell, Job
    <3>2. job'[r] = AfterSpell(job[r]) /\ \A v \in Workers \ {r} : job'[v] = job[v]
      BY <1>2, <1>4, <2>3, <3>1 DEF WriteSpell
    <3>3. spells'[job[r].k] = {r} /\ \A k \in Keys \ {job[r].k} : spells'[k] = spells[k]
      BY <1>4, <2>1, <2>3 DEF WriteSpell, Aux, TypeOK
    <3>4. /\ job'[r].at = "undo" \/ (job'[r].at = "insert" /\ job'[r].mine)
          /\ job'[r].k = job[r].k
      BY <3>2 DEF AfterSpell
    <3>5. OneWriter'
      BY <3>3 DEF SpellInv, OneWriter
    <3>6. ASSUME NEW k \in Keys \ {job[r].k}, NEW v \in spells[k], StillHolds(v, k)
          PROVE v \in spells'[k] /\ StillHolds(v, k)'
      BY <1>3, <2>1, <3>2, <3>3, <3>6 DEF StillHolds
    <3>7. WriterHolds'
      <4>1. UNCHANGED <<report, stranded>>
        BY <1>4 DEF WriteSpell, history
      <4> SUFFICES ASSUME NEW k \in Keys, Aux(k)'
                   PROVE (report[k].state # "none" \/ k \in stranded
                             \/ \E v \in spells[k] : StillHolds(v, k))'
        BY DEF WriterHolds
      <4>2. CASE k = job[r].k
        <5>1. r \in spells'[k]
          BY <3>3, <4>2
        <5>2. StillHolds(r, k)'
          BY <3>4, <4>2 DEF StillHolds
        <5> QED
          BY <5>1, <5>2
      <4>3. CASE k # job[r].k
        <5>1. Aux(k)
          BY <3>3, <4>3 DEF Aux
        <5>2. report[k].state # "none" \/ k \in stranded
                \/ \E v \in spells[k] : StillHolds(v, k)
          BY <5>1 DEF SpellInv, WriterHolds
        <5> QED
          BY <3>6, <4>1, <4>3, <5>2
      <4> QED
        BY <4>2, <4>3
    <3>8. WritesKnown'
      BY <1>1, <3>2 DEF SpellInv, WritesKnown, AfterSpell
    <3> QED
      BY <3>5, <3>7, <3>8 DEF SpellInv
  <2> QED
    BY <2>2, <2>3
<1>5. CASE InsertReport(r)
  <2>1. job[r].k \in Keys /\ job[r].form \in Forms
    BY <1>1, <1>5, JobFields DEF InsertReport
  <2>2. Refused(job[r]) \in Job
    BY <1>1, <2>1 DEF Refused, Job, Idle
  <2>3. report'[job[r].k].state # "none" /\ \A k \in Keys \ {job[r].k} : report'[k] = report[k]
    BY <1>5, <2>1 DEF InsertReport, TypeOK, In
  <2>4. \/ job'[r] = Refused(job[r]) \/ job'[r] = Idle
    BY <1>1, <1>2, <1>5, <2>2 DEF InsertReport
  <2>5. \A v \in Workers \ {r} : job'[v] = job[v]
    BY <1>1, <1>2, <1>5, <2>2 DEF InsertReport
  <2>6. ASSUME NEW k \in Keys \ {job[r].k}, NEW v \in spells[k], StillHolds(v, k)
        PROVE StillHolds(v, k)'
    BY <1>3, <2>5, <2>6 DEF StillHolds
  <2>7. WriterHolds'
    BY <1>5, <2>3, <2>6 DEF SpellInv, WriterHolds, Aux, InsertReport, history
  <2>8. WritesKnown' /\ OneWriter'
    BY <1>5, <2>4, <2>5 DEF SpellInv, WritesKnown, OneWriter, Refused, Idle, InsertReport
  <2> QED
    BY <2>7, <2>8 DEF SpellInv
<1>6. CASE undoAuxSpell(r)
  <2>1. job[r].k \in Keys
    BY <1>1, <1>6, JobFields DEF undoAuxSpell
  <2>2. spells'[job[r].k] = spells[job[r].k] \ {r} /\ \A k \in Keys \ {job[r].k} : spells'[k] = spells[k]
    BY <1>6, <2>1 DEF undoAuxSpell, TypeOK
  <2>3. job'[r] = Idle /\ \A v \in Workers \ {r} : job'[v] = job[v]
    BY <1>1, <1>2, <1>6 DEF undoAuxSpell
  <2>4. ASSUME NEW k \in Keys, NEW v \in spells[k], StillHolds(v, k), Aux(k)'
        PROVE v \in spells'[k] /\ StillHolds(v, k)'
    <3>1. v # r
      BY <1>6, <2>2, <2>4 DEF SpellInv, OneWriter, Aux, StillHolds, undoAuxSpell
    <3> QED
      BY <1>3, <2>2, <2>3, <2>4, <3>1 DEF StillHolds
  <2>5. \A k \in Keys : spells'[k] \subseteq spells[k]
    BY <2>2
  <2>6. WriterHolds'
    BY <1>6, <2>4, <2>5 DEF SpellInv, WriterHolds, Aux, undoAuxSpell, history
  <2>7. WritesKnown' /\ OneWriter'
    BY <2>3, <2>5 DEF SpellInv, WritesKnown, OneWriter, Idle
  <2> QED
    BY <2>6, <2>7 DEF SpellInv
<1>7. CASE WriteReport(r)
  <2>1. job[r].k \in Keys /\ job[r].row.state # "none"
    BY <1>1, <1>7, JobFields DEF WriteReport, SpellInv, WritesKnown
  <2>2. report'[job[r].k].state # "none" /\ \A k \in Keys \ {job[r].k} : report'[k] = report[k]
    BY <1>7, <2>1 DEF WriteReport, TypeOK
  <2>3. job'[r] = Idle /\ \A v \in Workers \ {r} : job'[v] = job[v]
    BY <1>1, <1>2, <1>7 DEF WriteReport
  <2>4. ASSUME NEW k \in Keys, NEW v \in spells[k], StillHolds(v, k) PROVE StillHolds(v, k)'
    BY <1>3, <1>7, <2>3, <2>4 DEF StillHolds, WriteReport
  <2>5. WriterHolds'
    BY <1>7, <2>2, <2>4 DEF SpellInv, WriterHolds, Aux, WriteReport, history
  <2>6. WritesKnown' /\ OneWriter'
    BY <1>7, <2>3 DEF SpellInv, WritesKnown, OneWriter, Idle, WriteReport
  <2> QED
    BY <2>5, <2>6 DEF SpellInv
<1>8. CASE closeMonth(r)
  <2>1. job[r].m \in Month
    BY <1>1, <1>8, JobFields DEF closeMonth
  <2>2. [at |-> "find", m |-> job[r].m, by |-> "person"] \in Job
    BY <2>1 DEF Job
  <2>3. \A k \in Keys : ~StillHolds(r, k)
    BY <1>8 DEF closeMonth, StillHolds
  <2> QED
    BY <1>1, <1>8, <2>2, <2>3, OthersHold DEF closeMonth, history, Idle
<1> QED
  BY <1>4, <1>5, <1>6, <1>7, <1>8 DEF Works

LEMMA KeepsSpell == ASSUME TypeOK, SpellInv, NEW w \in Workers, Keeps(w) PROVE SpellInv'
<1>1. job[w].at \in {"find", "read", "save"}
  BY DEF Keeps, FindSheet, ReadReports, SaveSheet
<1>2. UNCHANGED <<spells, report, stranded>>
  BY DEF Keeps, FindSheet, ReadReports, SaveSheet, tables, history
<1>3. (\A v \in Workers \ {w} : job'[v] = job[v]) /\ job'[w].at # "write"
  BY DEF Keeps, FindSheet, ReadReports, SaveSheet, Goes, TypeOK, Idle
<1>4. ASSUME NEW k \in Keys, NEW v \in spells[k], StillHolds(v, k) PROVE StillHolds(v, k)'
  BY <1>1, <1>3, <1>4 DEF StillHolds, TypeOK, Workers
<1>5. WriterHolds' /\ OneWriter' /\ WritesKnown'
  BY <1>2, <1>3, <1>4 DEF SpellInv, WriterHolds, OneWriter, WritesKnown, Aux
<1> QED
  BY <1>5 DEF SpellInv

LEMMA FailsSpell == ASSUME TypeOK, SpellInv, NEW w \in Workers, Fails(w) PROVE SpellInv'
<1>1. job[w] \in Job /\ Idle \in Job
  BY DEF TypeOK, Idle, Job
<1>2. ASSUME NEW next \in Job, Goes(w, next)
      PROVE job'[w] = next /\ \A v \in Workers \ {w} : job'[v] = job[v]
  BY <1>2, GoesOn DEF TypeOK, JobType
<1>3. \A k \in Keys : spells[k] \subseteq Workers
  BY DEF TypeOK, Workers
<1>4. CASE InsertFails(w)
  <2>1. job[w].k \in Keys
    BY <1>1, <1>4, JobFields DEF InsertFails
  <2>2. Refused(job[w]) \in Job
    BY <1>1, <2>1 DEF Refused, Job, Idle
  <2>3. job'[w] = Refused(job[w]) /\ \A v \in Workers \ {w} : job'[v] = job[v]
    BY <1>2, <1>4, <2>2 DEF InsertFails
  <2>4. ASSUME NEW k \in Keys, NEW v \in spells[k], StillHolds(v, k) PROVE StillHolds(v, k)'
    BY <1>3, <1>4, <2>3, <2>4 DEF StillHolds, InsertFails, Refused
  <2>5. WriterHolds' /\ OneWriter' /\ WritesKnown'
    BY <1>4, <2>3, <2>4 DEF SpellInv, WriterHolds, OneWriter, WritesKnown, Aux, InsertFails,
                           tables, history, Refused, Idle
  <2> QED
    BY <2>5 DEF SpellInv
<1>5. ASSUME Goes(w, Idle), UNCHANGED tables, stranded \subseteq stranded',
             \A k \in Keys : StillHolds(w, k) => k \in stranded'
      PROVE SpellInv'
  <2>1. job'[w] = Idle /\ \A v \in Workers \ {w} : job'[v] = job[v]
    BY <1>1, <1>2, <1>5
  <2>2. ASSUME NEW k \in Keys, k \notin stranded', NEW v \in spells[k], StillHolds(v, k)
        PROVE StillHolds(v, k)'
    BY <1>3, <1>5, <2>1, <2>2 DEF StillHolds
  <2>3. WriterHolds' /\ OneWriter' /\ WritesKnown'
    BY <1>5, <2>1, <2>2 DEF SpellInv, WriterHolds, OneWriter, WritesKnown, Aux, tables, Idle
  <2> QED
    BY <2>3 DEF SpellInv
<1>6. CASE UndoFails(w)
  BY <1>5, <1>6 DEF UndoFails, StillHolds
<1>7. CASE Lose(w)
  BY <1>5, <1>7 DEF Lose, StillHolds
<1> QED
  BY <1>4, <1>6, <1>7 DEF Fails

LEMMA SpellStep == TypeOK /\ SpellInv /\ [Next]_vars => SpellInv'
<1> SUFFICES ASSUME TypeOK, SpellInv, [Next]_vars PROVE SpellInv'
  OBVIOUS
<1>1. CASE UNCHANGED vars \/ Tick
  BY <1>1 DEF Tick, vars, tables, history, SpellInv, OneWriter, WriterHolds, WritesKnown, Aux, StillHolds
<1>2. CASE NightlyRound
  <2>1. (\A v \in Workers \ {Nightly} : job'[v] = job[v]) /\ job'[Nightly].at # "write"
        /\ job[Nightly] = Idle
    BY <1>2 DEF NightlyRound, Goes, TypeOK, Workers
  <2>2. ASSUME NEW k \in Keys, NEW v \in spells[k], StillHolds(v, k) PROVE StillHolds(v, k)'
    BY <2>1, <2>2 DEF StillHolds, Idle, TypeOK, Workers
  <2> QED
    BY <1>2, <2>1, <2>2 DEF NightlyRound, tables, history, SpellInv, WriterHolds, OneWriter, WritesKnown, Aux
<1> QED
  BY <1>1, <1>2, BeginsSpell, WorksSpell, KeepsSpell, FailsSpell DEF Next

LEMMA InitSpell == Init => SpellInv
BY DEF Init, SpellInv, OneWriter, WriterHolds, WritesKnown, Aux, Idle

\* A month of pioneering written for a report has a report, once its request has ended, but
\* where taking it back failed (submitOwnReport, undoAuxSpell).
THEOREM NoHalfStateLasts == Spec => []NoHalfState
<1>1. TypeOK /\ SpellInv => NoHalfState
  BY DEF SpellInv, WriterHolds, NoHalfState, StillHolds
<1> QED
  BY <1>1, InitType, TypeStep, InitSpell, SpellStep, PTL DEF Spec

----------------------------------------------------------------------------
(* The app and the secretary keep the same month: what the nightly round     *)
(* means to insert was never found frozen, and nobody else keeps for it.      *)

AppKeeps(j) == j.at \in {"find", "read", "save"} /\ j.by = "app"
KeepInv == \A w \in Workers : AppKeeps(job[w]) =>
    /\ w = Nightly
    /\ job[w].at = "find" => sheet[job[w].m].kept # "frozen"
    /\ job[w].at = "read" => job[w].before # "frozen"
    /\ job[w].at = "save" => job[w].before = "no"

\* A worker that goes on to anything but keeping a sheet for the app, and no sheet written.
LEMMA KeepQuiet ==
    ASSUME TypeOK, KeepInv, NEW w \in Workers, NEW next \in Job, Goes(w, next),
           ~AppKeeps(next), sheet' = sheet
    PROVE KeepInv'
<1>1. job'[w] = next /\ \A v \in Workers \ {w} : job'[v] = job[v]
  BY GoesOn DEF TypeOK, JobType
<1> QED
  BY <1>1 DEF KeepInv, AppKeeps

LEMMA BeginsKeep == ASSUME TypeOK, KeepInv, NEW r \in Requests, Begins(r) PROVE KeepInv'
<1>1. r \in Workers
  BY DEF Workers
<1>2. ASSUME NEW kind, Begin(r, kind) PROVE sheet' = sheet
  BY <1>2 DEF Begin, tables
<1>3. CASE BeginSubmit(r)
  <2>1. PICK k \in Keys, form \in Forms :
          Goes(r, [at |-> "insert", k |-> k, form |-> form, mine |-> FALSE])
    BY <1>3 DEF BeginSubmit
  <2>2. [at |-> "insert", k |-> k, form |-> form, mine |-> FALSE] \in Job
    BY DEF Job
  <2> QED
    BY <1>1, <1>2, <1>3, <2>1, <2>2, KeepQuiet DEF BeginSubmit, AppKeeps
<1>4. CASE BeginSubmitAux(r)
  <2>1. PICK k \in Keys, form \in Forms :
          \/ Goes(r, [at |-> "insert", k |-> k, form |-> form, mine |-> FALSE])
          \/ Goes(r, [at |-> "spell", k |-> k, form |-> form])
    BY <1>4 DEF BeginSubmitAux
  <2>2. /\ [at |-> "insert", k |-> k, form |-> form, mine |-> FALSE] \in Job
        /\ [at |-> "spell", k |-> k, form |-> form] \in Job
    BY DEF Job
  <2> QED
    BY <1>1, <1>2, <1>4, <2>1, <2>2, KeepQuiet DEF BeginSubmitAux, AppKeeps
<1>5. CASE BeginClose(r)
  <2>1. PICK m \in Month : Goes(r, [at |-> "closure", m |-> m, was |-> closed[m]])
    BY <1>5 DEF BeginClose
  <2>2. [at |-> "closure", m |-> m, was |-> closed[m]] \in Job
    BY DEF Job, TypeOK
  <2> QED
    BY <1>1, <1>2, <1>5, <2>1, <2>2, KeepQuiet DEF BeginClose, AppKeeps
<1>6. ASSUME NEW k \in Keys, NEW row \in Report, NEW kind, Begin(r, kind), Edits(r, k, row)
      PROVE KeepInv'
  <2>1. [at |-> "write", k |-> k, row |-> row] \in Job
    BY DEF Job
  <2> QED
    BY <1>1, <1>2, <1>6, <2>1, KeepQuiet DEF Edits, AppKeeps
<1>7. ASSUME NEW k \in Keys
      PROVE /\ \A form \in Forms : [report[k] EXCEPT !.form = form] \in Report
            /\ [report[k] EXCEPT !.state = "gone"] \in Report
            /\ [report[k] EXCEPT !.state = "in"] \in Report
  BY DEF TypeOK, Report
<1>8. CASE BeginUpdate(r)
  BY <1>6, <1>7, <1>8 DEF BeginUpdate
<1>9. CASE BeginRemove(r)
  BY <1>6, <1>7, <1>9 DEF BeginRemove
<1>10. CASE BeginRestore(r)
  BY <1>6, <1>7, <1>10 DEF BeginRestore
<1>11. CASE reopenMonth(r)
  BY <1>11 DEF reopenMonth, KeepInv, AppKeeps
<1> QED
  BY <1>3, <1>4, <1>5, <1>8, <1>9, <1>10, <1>11 DEF Begins

LEMMA WorksKeep == ASSUME TypeOK, KeepInv, NEW r \in Requests, Works(r) PROVE KeepInv'
<1>1. r \in Workers /\ job[r] \in Job /\ Idle \in Job /\ ~AppKeeps(Idle)
  BY DEF Workers, TypeOK, Idle, Job, AppKeeps
<1>2. ASSUME NEW next \in Job, Goes(r, next), ~AppKeeps(next), sheet' = sheet PROVE KeepInv'
  BY <1>1, <1>2, KeepQuiet
<1>3. CASE WriteSpell(r)
  <2>1. job[r].k \in Keys /\ job[r].form \in Forms
    BY <1>1, <1>3, JobFields DEF WriteSpell
  <2>2. AfterSpell(job[r]) \in Job /\ ~AppKeeps(AfterSpell(job[r]))
    BY <2>1 DEF AfterSpell, Job, AppKeeps
  <2> QED
    BY <1>1, <1>2, <1>3, <2>2 DEF WriteSpell
<1>4. CASE InsertReport(r)
  <2>1. job[r].k \in Keys
    BY <1>1, <1>4, JobFields DEF InsertReport
  <2>2. Refused(job[r]) \in Job /\ ~AppKeeps(Refused(job[r]))
    BY <1>1, <2>1 DEF Refused, Job, Idle, AppKeeps
  <2> QED
    BY <1>1, <1>2, <1>4, <2>2 DEF InsertReport
<1>5. CASE undoAuxSpell(r)
  BY <1>1, <1>2, <1>5 DEF undoAuxSpell
<1>6. CASE WriteReport(r)
  BY <1>1, <1>2, <1>6 DEF WriteReport
<1>7. CASE closeMonth(r)
  <2>1. job[r].m \in Month
    BY <1>1, <1>7, JobFields DEF closeMonth
  <2>2. LET next == [at |-> "find", m |-> job[r].m, by |-> "person"]
        IN next \in Job /\ ~AppKeeps(next)
    BY <2>1 DEF Job, AppKeeps
  <2> QED
    BY <1>1, <1>2, <1>7, <2>2 DEF closeMonth
<1> QED
  BY <1>3, <1>4, <1>5, <1>6, <1>7 DEF Works

LEMMA KeepsKeep == ASSUME TypeOK, KeepInv, NEW w \in Workers, Keeps(w) PROVE KeepInv'
<1>1. job[w] \in Job /\ Idle \in Job /\ ~AppKeeps(Idle)
  BY DEF TypeOK, Idle, Job, AppKeeps
<1>2. CASE FindSheet(w)
  <2>1. job[w].m \in Month /\ job[w].by \in {"app", "person"}
    BY <1>1, <1>2, JobFields DEF FindSheet
  <2> DEFINE next == [at |-> "read", m |-> job[w].m, by |-> job[w].by,
                      before |-> sheet[job[w].m].kept]
  <2>2. sheet[job[w].m].kept \in {"no", "frozen", "confirmed"}
    BY <2>1 DEF TypeOK, Sheet
  <2>3. next \in Job
    BY <2>1, <2>2 DEF Job
  <2>4. sheet' = sheet
    BY <1>2 DEF FindSheet, tables
  <2>5. CASE Goes(w, Idle)
    BY <1>1, <2>4, <2>5, KeepQuiet
  <2>6. CASE Goes(w, next)
    <3>1. job'[w] = next /\ \A v \in Workers \ {w} : job'[v] = job[v]
      BY <2>3, <2>6, GoesOn DEF TypeOK, JobType
    <3>2. AppKeeps(next) => w = Nightly /\ next.before # "frozen"
      BY <1>2 DEF KeepInv, AppKeeps, FindSheet
    <3> QED
      BY <2>4, <3>1, <3>2 DEF KeepInv, AppKeeps
  <2> QED
    BY <1>2, <2>5, <2>6 DEF FindSheet
<1>3. CASE ReadReports(w)
  <2>1. PICK next \in Job :
          /\ Goes(w, next)
          /\ next = Idle \/ (/\ next.at = "save" /\ next.by = job[w].by
                             /\ next.before = job[w].before
                             /\ ~(job[w].before = "confirmed" /\ job[w].by = "app"))
    <3>1. job[w].m \in Month /\ job[w].by \in {"app", "person"}
          /\ job[w].before \in {"no", "frozen", "confirmed"}
      BY <1>1, <1>3, JobFields DEF ReadReports
    <3>2. ASSUME NEW M
          PROVE [at |-> "save", m |-> job[w].m, by |-> job[w].by, before |-> job[w].before,
                 own |-> ownOf(job[w].m, M), filed |-> filedOf(job[w].m, M),
                 carried |-> carriedInto(job[w].m, M),
                 looked |-> {k \in Keys : counts(k)}] \in Job
      <4>1. /\ ownOf(job[w].m, M) \in SUBSET Publishers /\ filedOf(job[w].m, M) \in SUBSET Publishers
            /\ carriedInto(job[w].m, M) \in SUBSET Keys
            /\ {k \in Keys : counts(k)} \in SUBSET Keys
        BY DEF ownOf, filedOf, carriedInto
      <4> QED
        BY <3>1, <4>1 DEF Job
    <3> QED
      BY <1>1, <1>3, <3>2 DEF ReadReports
  <2>2. job'[w] = next /\ \A v \in Workers \ {w} : job'[v] = job[v]
    BY <2>1, GoesOn DEF TypeOK, JobType
  <2>3. next.at = "save" /\ AppKeeps(next) => w = Nightly /\ next.before = "no"
    <3>1. job[w].before \in {"no", "frozen", "confirmed"}
      BY <1>1, <1>3, JobFields DEF ReadReports
    <3> QED
      BY <1>3, <2>1, <3>1 DEF KeepInv, AppKeeps, ReadReports, Idle
  <2>4. sheet' = sheet
    BY <1>3 DEF ReadReports, tables
  <2> QED
    BY <2>1, <2>2, <2>3, <2>4 DEF KeepInv, AppKeeps, Idle
<1>4. CASE SaveSheet(w)
  <2>1. job[w].m \in Month /\ job[w].by \in {"app", "person"}
    BY <1>1, <1>4, JobFields DEF SaveSheet
  <2>2. job'[w] = Idle /\ \A v \in Workers \ {w} : job'[v] = job[v]
    BY <1>1, <1>4, GoesOn DEF SaveSheet, TypeOK, JobType
  <2>3. ASSUME NEW v \in Workers, AppKeeps(job'[v]), job'[v].at = "find"
        PROVE sheet'[job'[v].m].kept # "frozen"
    <3>1. v # w /\ job'[v] = job[v] /\ v = Nightly /\ sheet[job[v].m].kept # "frozen"
      BY <1>1, <2>2, <2>3 DEF KeepInv
    <3>2. job[w].by = "person"
      BY <1>4, <2>1, <3>1 DEF KeepInv, AppKeeps, SaveSheet
    <3>3. job[v].m \in Month
      BY <2>3, <3>1, JobFields DEF TypeOK
    <3>4. sheet'[job[v].m] = sheet[job[v].m] \/ sheet'[job[v].m].kept = "confirmed"
      BY <1>4, <2>1, <3>2, <3>3 DEF SaveSheet, KeptAs, TypeOK
    <3> QED
      BY <3>1, <3>4
  <2> QED
    BY <1>1, <2>2, <2>3 DEF KeepInv
<1> QED
  BY <1>2, <1>3, <1>4 DEF Keeps

LEMMA FailsKeep == ASSUME TypeOK, KeepInv, NEW w \in Workers, Fails(w) PROVE KeepInv'
<1>1. job[w] \in Job /\ Idle \in Job /\ ~AppKeeps(Idle)
  BY DEF TypeOK, Idle, Job, AppKeeps
<1>2. sheet' = sheet
  BY DEF Fails, InsertFails, UndoFails, Lose, tables
<1>3. CASE InsertFails(w)
  <2>1. job[w].k \in Keys
    BY <1>1, <1>3, JobFields DEF InsertFails
  <2>2. Refused(job[w]) \in Job /\ ~AppKeeps(Refused(job[w]))
    BY <1>1, <2>1 DEF Refused, Job, Idle, AppKeeps
  <2> QED
    BY <1>2, <1>3, <2>2, KeepQuiet DEF InsertFails
<1>4. CASE UndoFails(w) \/ Lose(w)
  BY <1>1, <1>2, <1>4, KeepQuiet DEF UndoFails, Lose
<1> QED
  BY <1>3, <1>4 DEF Fails

LEMMA KeepStep == TypeOK /\ KeepInv /\ [Next]_vars => KeepInv'
<1> SUFFICES ASSUME TypeOK, KeepInv, [Next]_vars PROVE KeepInv'
  OBVIOUS
<1>1. CASE UNCHANGED vars \/ Tick
  BY <1>1 DEF Tick, vars, tables, KeepInv, AppKeeps
<1>2. CASE NightlyRound
  <2>1. /\ \A v \in Workers \ {Nightly} : job'[v] = job[v]
        /\ job'[Nightly] = [at |-> "find", m |-> FreezeMonth, by |-> "app"]
    BY <1>2 DEF NightlyRound, Goes, TypeOK, Workers
  <2>2. sheet' = sheet /\ sheet[FreezeMonth].kept = "no"
    BY <1>2 DEF NightlyRound, FreezeDue, tables
  <2> QED
    BY <2>1, <2>2 DEF KeepInv, AppKeeps
<1> QED
  BY <1>1, <1>2, BeginsKeep, WorksKeep, KeepsKeep, FailsKeep DEF Next

LEMMA InitKeep == Init => KeepInv
BY DEF Init, KeepInv, AppKeeps, Idle

\* Only the saving of a sheet writes one, and the app's inserts where none is.
LEMMA StaysConfirmed ==
    ASSUME TypeOK, KeepInv, Next, NEW m \in Month, sheet[m].kept = "confirmed"
    PROVE sheet'[m].kept = "confirmed"
<1>1. CASE \E w \in Workers : SaveSheet(w)
  <2>1. PICK w \in Workers : SaveSheet(w)
    BY <1>1
  <2>2. job[w].m \in Month /\ job[w].by \in {"app", "person"}
    BY <2>1, JobFields DEF SaveSheet, TypeOK
  <2>3. CASE job[w].by = "person"
    BY <2>1, <2>2, <2>3 DEF SaveSheet, KeptAs, TypeOK
  <2>4. CASE job[w].by = "app"
    <3>1. job[w].before = "no"
      BY <2>1, <2>4 DEF KeepInv, AppKeeps, SaveSheet
    <3>2. Inserts(job[w]) => job[w].m # m
      BY <3>1 DEF Inserts
    <3> QED
      BY <2>1, <2>2, <3>2 DEF SaveSheet, TypeOK
  <2> QED
    BY <2>2, <2>3, <2>4
<1>2. CASE ~\E w \in Workers : SaveSheet(w)
  <2>1. sheet' = sheet
    <3>1. ASSUME NEW r \in Requests, Begins(r) PROVE sheet' = sheet
      BY <3>1 DEF Begins, BeginSubmit, BeginSubmitAux, BeginUpdate, BeginRemove, BeginRestore,
                  BeginClose, reopenMonth, Begin, tables
    <3>2. ASSUME NEW r \in Requests, Works(r) PROVE sheet' = sheet
      BY <3>2 DEF Works, WriteSpell, InsertReport, undoAuxSpell, WriteReport, closeMonth
    <3>3. ASSUME NEW w \in Workers, Keeps(w) \/ Fails(w) PROVE sheet' = sheet
      BY <1>2, <3>3 DEF Keeps, Fails, FindSheet, ReadReports, InsertFails, UndoFails, Lose, tables
    <3> QED
      BY <3>1, <3>2, <3>3 DEF Next, NightlyRound, Tick, tables
  <2> QED
    BY <2>1
<1> QED
  BY <1>1, <1>2

\* The app never overwrites what a person saved (monthly-sent.service.ts, keep): whoever
\* keeps a month's sheet and whenever the nightly round meets him, confirmed stays confirmed.
THEOREM AppOverwritesNothing == Spec => AppNeverOverwrites
<1> DEFINE Stays == \A m \in Month : sheet[m].kept = "confirmed" => sheet'[m].kept = "confirmed"
<1>1. TypeOK /\ KeepInv /\ [Next]_vars => [Stays]_vars
  BY StaysConfirmed
<1>2. Spec => [][Stays]_vars
  BY <1>1, InitType, TypeStep, InitKeep, KeepStep, PTL DEF Spec
<1> QED
  BY <1>2 DEF AppNeverOverwrites

----------------------------------------------------------------------------
(* A closed month is sent: its sheet is a person's, or his closing is on     *)
(* the way, or something cut it short.                                       *)

AtTheSheet(j) == j.at \in {"find", "read", "save"}
ClosingOf(r, m) == AtTheSheet(job[r]) /\ job[r].m = m

\* Nobody's closing is lost by a step that moves no request off its sheet and writes none.
LEMMA ClosingGoesOn ==
    ASSUME ClosedIsSent, sheet' = sheet, cutShort \subseteq cutShort',
           \A m \in Month : closed'[m] => closed[m],
           \A r \in Requests, m \in Month : ClosingOf(r, m) => ClosingOf(r, m)' \/ ~closed'[m] \/ m \in cutShort'
    PROVE ClosedIsSent'
BY DEF ClosedIsSent, Closing, ClosingOf, AtTheSheet

LEMMA BeginsClosed ==
    ASSUME TypeOK, ClosedIsSent, NEW r \in Requests, Begins(r) PROVE ClosedIsSent'
<1>1. sheet' = sheet /\ cutShort' = cutShort /\ \A m \in Month : closed'[m] => closed[m]
  <2>1. CASE reopenMonth(r)
    BY <2>1 DEF reopenMonth, history, TypeOK
  <2>2. CASE ~reopenMonth(r)
    BY <2>2 DEF Begins, BeginSubmit, BeginSubmitAux, BeginUpdate, BeginRemove, BeginRestore,
                BeginClose, Begin, tables, history
  <2> QED
    BY <2>1, <2>2
<1>2. job[r] = Idle
  BY DEF Begins, BeginSubmit, BeginSubmitAux, BeginUpdate, BeginRemove, BeginRestore,
         BeginClose, reopenMonth, Begin
<1>3. \A v \in Requests \ {r} : job'[v] = job[v]
  BY DEF Begins, BeginSubmit, BeginSubmitAux, BeginUpdate, BeginRemove, BeginRestore,
         BeginClose, reopenMonth, Edits, Goes, TypeOK, Workers
<1> QED
  BY <1>1, <1>2, <1>3, ClosingGoesOn DEF ClosingOf, AtTheSheet, Idle

LEMMA WorksClosed ==
    ASSUME TypeOK, ClosedIsSent, NEW r \in Requests, Works(r) PROVE ClosedIsSent'
<1>1. r \in Workers /\ job[r] \in Job
  BY DEF Workers, TypeOK
<1>2. \A v \in Requests \ {r} : job'[v] = job[v]
  BY DEF Works, WriteSpell, InsertReport, undoAuxSpell, WriteReport, closeMonth, Goes, TypeOK, Workers
<1>3. sheet' = sheet /\ ~AtTheSheet(job[r])
  BY DEF Works, WriteSpell, InsertReport, undoAuxSpell, WriteReport, closeMonth, AtTheSheet
<1>4. CASE closeMonth(r)
  <2>1. job[r].m \in Month /\ job[r].was \in BOOLEAN
    BY <1>1, <1>4, JobFields DEF closeMonth
  <2>2. \A m \in Month \ {job[r].m} : closed'[m] = closed[m]
    BY <1>4, <2>1 DEF closeMonth, TypeOK
  <2>3. \A m \in Month : Closing(m) => Closing(m)'
    BY <1>2, <1>3 DEF Closing, AtTheSheet
  <2>4. cutShort \subseteq cutShort'
    BY <1>4 DEF closeMonth
  <2>5. CASE job[r].was
    BY <1>3, <1>4, <2>1, <2>2, <2>3, <2>4, <2>5 DEF closeMonth, ClosedIsSent
  <2>6. CASE ~job[r].was
    <3>1. job'[r] = [at |-> "find", m |-> job[r].m, by |-> "person"]
      BY <1>1, <1>4, <2>6 DEF closeMonth, Goes, TypeOK
    <3>2. PICK m \in Month : m = job[r].m
      BY <2>1
    <3>3. Closing(m)'
      BY <3>1, <3>2 DEF Closing
    <3> QED
      BY <1>3, <2>2, <2>3, <2>4, <3>2, <3>3 DEF ClosedIsSent
  <2> QED
    BY <2>1, <2>5, <2>6
<1>5. CASE ~closeMonth(r)
  <2>1. closed' = closed /\ cutShort' = cutShort
    BY <1>5 DEF Works, WriteSpell, InsertReport, undoAuxSpell, WriteReport, history
  <2> QED
    BY <1>2, <1>3, <2>1, ClosingGoesOn DEF ClosingOf
<1> QED
  BY <1>4, <1>5

\* A request keeps as a person, so it never stops before a sheet a person kept.
LEMMA RequestsArePersons ==
    ASSUME TypeOK, KeepInv, NEW r \in Requests, AtTheSheet(job[r])
    PROVE job[r].by = "person" /\ job[r].m \in Month
BY JobFields, ReportConstants DEF KeepInv, AppKeeps, AtTheSheet, TypeOK, Workers

LEMMA KeepsClosed ==
    ASSUME TypeOK, KeepInv, ClosedIsSent, NEW w \in Workers, Next, Keeps(w) PROVE ClosedIsSent'
<1>1. job[w] \in Job /\ AtTheSheet(job[w]) /\ job[w].m \in Month /\ closed' = closed
  BY JobFields DEF TypeOK, Keeps, FindSheet, ReadReports, SaveSheet, AtTheSheet, tables
<1>2. \A v \in Workers \ {w} : job'[v] = job[v]
  BY DEF Keeps, FindSheet, ReadReports, SaveSheet, Goes, TypeOK
<1>3. w \in Requests => job[w].by = "person"
  BY <1>1, RequestsArePersons
<1>4. \A r \in Requests \ {w} : ClosingOf(r, job[r].m) => ClosingOf(r, job[r].m)'
  BY <1>2 DEF ClosingOf, Workers
<1>5. CASE FindSheet(w)
  <2>1. sheet' = sheet /\ cutShort' = cutShort
    BY <1>5 DEF FindSheet, tables, history
  <2>2. w \in Requests => \/ ~closed[job[w].m]
                          \/ job'[w].at = "read" /\ job'[w].m = job[w].m
    BY <1>3, <1>5 DEF FindSheet, Goes, TypeOK
  <2> QED
    BY <1>1, <1>2, <2>1, <2>2, ClosingGoesOn DEF ClosingOf, AtTheSheet, Workers
<1>6. CASE ReadReports(w)
  <2>1. sheet' = sheet /\ cutShort' = cutShort
    BY <1>6 DEF ReadReports, tables, history
  <2>2. w \in Requests => job'[w].at = "save" /\ job'[w].m = job[w].m
    BY <1>3, <1>6 DEF ReadReports, Goes, TypeOK
  <2> QED
    BY <1>1, <1>2, <2>1, <2>2, ClosingGoesOn DEF ClosingOf, AtTheSheet, Workers
<1>7. CASE SaveSheet(w)
  <2>1. \A m \in Month \ {job[w].m} : sheet'[m] = sheet[m]
    BY <1>1, <1>7 DEF SaveSheet, TypeOK
  <2>2. \A m \in Month : sheet[m].kept = "confirmed" => sheet'[m].kept = "confirmed"
    BY StaysConfirmed
  <2>3. cutShort \subseteq cutShort'
    BY <1>7 DEF SaveSheet
  <2>4. w \in Requests => sheet'[job[w].m].kept = "confirmed" \/ job[w].m \in cutShort'
    BY <1>1, <1>3, <1>7 DEF SaveSheet, KeptAs, TypeOK
  <2>5. ASSUME NEW m \in Month, closed[m], Closing(m) PROVE
            sheet'[m].kept = "confirmed" \/ Closing(m)' \/ m \in cutShort'
    <3>1. PICK r \in Requests : ClosingOf(r, m)
      BY <2>5 DEF Closing, ClosingOf, AtTheSheet
    <3>2. CASE r = w
      BY <2>4, <3>1, <3>2 DEF ClosingOf
    <3>3. CASE r # w
      BY <1>2, <3>1, <3>3 DEF ClosingOf, AtTheSheet, Closing, Workers
    <3> QED
      BY <3>2, <3>3
  <2> QED
    BY <1>1, <2>2, <2>3, <2>5 DEF ClosedIsSent
<1> QED
  BY <1>5, <1>6, <1>7 DEF Keeps

LEMMA FailsClosed ==
    ASSUME TypeOK, ClosedIsSent, NEW w \in Workers, Fails(w) PROVE ClosedIsSent'
<1>1. sheet' = sheet /\ closed' = closed /\ cutShort \subseteq cutShort'
  BY DEF Fails, InsertFails, UndoFails, Lose, tables, history
<1>2. \A v \in Workers \ {w} : job'[v] = job[v]
  BY DEF Fails, InsertFails, UndoFails, Lose, Goes, TypeOK
<1>3. AtTheSheet(job[w]) => job[w].m \in cutShort'
  BY DEF AtTheSheet, Fails, InsertFails, UndoFails, Lose
<1> QED
  BY <1>1, <1>2, <1>3, ClosingGoesOn DEF ClosingOf, Workers

LEMMA ClosedStep == TypeOK /\ KeepInv /\ ClosedIsSent /\ [Next]_vars => ClosedIsSent'
<1> SUFFICES ASSUME TypeOK, KeepInv, ClosedIsSent, [Next]_vars PROVE ClosedIsSent'
  OBVIOUS
<1>1. CASE UNCHANGED vars \/ Tick
  BY <1>1 DEF Tick, vars, tables, history, ClosedIsSent, Closing
<1>2. CASE NightlyRound
  <2>1. sheet' = sheet /\ closed' = closed /\ cutShort' = cutShort
    BY <1>2 DEF NightlyRound, tables, history
  <2>2. \A r \in Requests : job'[r] = job[r]
    BY <1>2, ReportConstants DEF NightlyRound, Goes, TypeOK, Workers
  <2> QED
    BY <2>1, <2>2, ClosingGoesOn DEF ClosingOf
<1> QED
  BY <1>1, <1>2, BeginsClosed, WorksClosed, KeepsClosed, FailsClosed DEF Next

LEMMA InitClosed == Init => ClosedIsSent
BY DEF Init, ClosedIsSent

\* Closing is "done, sent" (the controller): a closed month has the sheet a person kept, unless
\* its closing is under way, was cut short, came second to the nightly round, or found the month
\* closed when it began and reopened when it wrote - for any number of closings at once.
THEOREM ClosedMonthsAreSent == Spec => []ClosedIsSent
BY InitType, TypeStep, InitKeep, KeepStep, InitClosed, ClosedStep, PTL DEF Spec

----------------------------------------------------------------------------
(* Where a late report belongs (placeLate), said without the search: the     *)
(* sheet that took it, or the first month after its own that is not among M.  *)

LEMMA LeastOne ==
    ASSUME NEW T \in SUBSET Nat, T # {}
    PROVE \E x \in T : \A y \in T : x <= y
<1>1. PICK x \in T : \A y \in T : ~ (<<y, x>> \in OpToRel(<, Nat))
  BY NatLessThanWellFounded, WFMin
<1>2. ASSUME NEW y \in T PROVE x <= y
  <2>1. ~(y < x)
    BY <1>1 DEF OpToRel
  <2> QED
    BY <2>1
<1> QED
  BY <1>2

IsLate(k, M) == MonthOf(k) \in M /\ k[1] \notin Reporters(MonthOf(k))
GapIs(k, M, n) == /\ n > MonthOf(k) /\ n \notin M
                  /\ \A i \in Month : (MonthOf(k) < i /\ i < n) => i \in M
Takes(k, M, n) == TakenBy(k, M) = {} /\ GapIs(k, M, n) /\ k \notin sheet[n - 1].inBy

LEMMA KeyIs == ASSUME NEW k \in Keys
    PROVE /\ k[1] \in Publishers /\ MonthOf(k) \in Month /\ k = <<k[1], MonthOf(k)>>
          /\ Month \subseteq Nat \ {0} /\ Months \in Month
BY ReportConstants DEF Keys, MonthOf, Month

LEMMA FirstGapIs ==
    ASSUME NEW k \in Keys, NEW M \in SUBSET Month
    PROVE LET g == FirstGap(MonthOf(k), M)
          IN g \in 2..(Months + 1) /\ GapIs(k, M, g)
<1> DEFINE m == MonthOf(k)
           T == {n \in (m + 1)..(Months + 1) : n \notin M}
           ok(n) == n \notin M /\ \A i \in (m + 1)..(n - 1) : i \in M
<1>1. m \in Month /\ Months \in Nat \ {0} /\ m \in 1..Months
  BY KeyIs, ReportConstants DEF Month
<1>2. T \in SUBSET Nat /\ Months + 1 \in T
  BY <1>1 DEF Month
<1>3. PICK x \in T : \A y \in T : x <= y
  BY <1>2, LeastOne
<1>4. x \in (m + 1)..(Months + 1) /\ ok(x)
  BY <1>1, <1>3
<1> DEFINE g == FirstGap(m, M)
<1>5. g \in (m + 1)..(Months + 1) /\ ok(g)
  BY <1>4 DEF FirstGap
<1> HIDE DEF g
<1>6. g \in 2..(Months + 1) /\ g > m
  BY <1>1, <1>5
<1>7. ASSUME NEW i \in Month, m < i, i < g PROVE i \in M
  <2>1. i \in (m + 1)..(g - 1)
    BY <1>1, <1>5, <1>7 DEF Month
  <2> QED
    BY <1>5, <2>1
<1> QED
  BY <1>5, <1>6, <1>7 DEF GapIs, g

\* There is one first gap.
LEMMA OneGap ==
    ASSUME NEW k \in Keys, NEW M \in SUBSET Month, NEW n \in 1..(Months + 1), NEW g \in 1..(Months + 1),
           GapIs(k, M, n), GapIs(k, M, g)
    PROVE n = g
<1>1. n \in Nat /\ g \in Nat /\ Months \in Nat /\ MonthOf(k) \in Nat /\ Month = 1..Months
  BY KeyIs, ReportConstants DEF Month
<1>2. CASE n < g
  <2>1. n \in Month
    BY <1>1, <1>2
  <2> QED
    BY <1>2, <2>1 DEF GapIs
<1>3. CASE g < n
  <2>1. g \in Month
    BY <1>1, <1>3
  <2> QED
    BY <1>3, <2>1 DEF GapIs
<1> QED
  BY <1>1, <1>2, <1>3

LEMMA IntoIs == ASSUME NEW n, NEW g, Into(n) = Into(g) PROVE n = g
<1>1. Into(n).into = n /\ Into(g).into = g
  BY DEF Into
<1> QED
  BY <1>1

LEMMA PlaceIs ==
    ASSUME NEW k \in Keys, NEW M \in SUBSET Month
    PROVE /\ placeLate(k, M).late = IsLate(k, M)
          /\ \A n \in Month : placeLate(k, M) = Into(n)
                => IsLate(k, M) /\ (n \in TakenBy(k, M) \/ Takes(k, M, n))
          /\ \A n \in Month : IsLate(k, M) /\ Takes(k, M, n) => placeLate(k, M) = Into(n)
          /\ (IsLate(k, M) /\ TakenBy(k, M) # {}) => \E n \in TakenBy(k, M) : placeLate(k, M) = Into(n)
          /\ (IsLate(k, M) /\ TakenBy(k, M) = {}) =>
               \E n \in 2..(Months + 1) :
                  GapIs(k, M, n) /\ (placeLate(k, M) = Into(n) \/ k \in sheet[n - 1].inBy)
<1> DEFINE p == placeLate(k, M)
           T == TakenBy(k, M)
           c == CHOOSE n \in T : TRUE
           g == FirstGap(MonthOf(k), M)
<1>1. T \subseteq Month /\ 0 \notin Month /\ Month = 1..Months /\ Months \in Nat
  BY KeyIs, ReportConstants DEF TakenBy, Month
<1>2. T # {} => c \in T
  OBVIOUS
<1>3. g \in 2..(Months + 1) /\ GapIs(k, M, g)
  BY FirstGapIs
<1>4. /\ ~IsLate(k, M) => p = OnTime
      /\ IsLate(k, M) /\ T # {} => p = Into(c)
      /\ IsLate(k, M) /\ T = {} /\ k \in sheet[g - 1].inBy => p = Into(0)
      /\ IsLate(k, M) /\ T = {} /\ k \notin sheet[g - 1].inBy => p = Into(g)
  BY DEF placeLate, IsLate
<1> HIDE DEF p, T, c, g
<1>5. \A n : OnTime # Into(n) /\ Into(n).late = TRUE /\ OnTime.late = FALSE
  BY DEF OnTime, Into
<1>6. p.late = IsLate(k, M)
  BY <1>4, <1>5 DEF IsLate
<1>7. ASSUME NEW n \in Month, p = Into(n)
      PROVE IsLate(k, M) /\ (n \in T \/ Takes(k, M, n))
  <2>1. IsLate(k, M)
    BY <1>4, <1>5, <1>7
  <2>2. CASE T # {}
    BY <1>2, <1>4, <1>7, <2>1, <2>2, IntoIs
  <2>3. CASE T = {}
    <3>1. k \notin sheet[g - 1].inBy
      BY <1>1, <1>4, <1>7, <2>1, <2>3, IntoIs
    <3>2. n = g
      BY <1>4, <1>7, <2>1, <2>3, <3>1, IntoIs
    <3> QED
      BY <1>3, <2>1, <2>3, <3>1, <3>2 DEF Takes, T
  <2> QED
    BY <2>1, <2>2, <2>3
<1>8. ASSUME NEW n \in Month, IsLate(k, M), Takes(k, M, n)
      PROVE p = Into(n)
  <2>1. n = g
    <3>1. n \in 1..(Months + 1) /\ g \in 1..(Months + 1)
      BY <1>1, <1>3
    <3> QED
      BY <1>3, <1>8, <3>1, OneGap DEF Takes
  <2> QED
    BY <1>4, <1>8, <2>1 DEF Takes, T
<1>9. ASSUME IsLate(k, M), T = {}
      PROVE p = Into(g) \/ k \in sheet[g - 1].inBy
  BY <1>4, <1>9
<1> QED
  BY <1>2, <1>3, <1>4, <1>6, <1>7, <1>8, <1>9 DEF p, T

----------------------------------------------------------------------------
(* What a worker at a save has read.  As long as no other sheet was saved    *)
(* since, it is what the sheets say still; and rows only come.               *)

AtSave(w) == job[w].at = "save"
Sheets(j) == IF absorbs(j) THEN keptMonths \ {j.m} ELSE keptMonths

ReadSound(j) ==
    /\ j.looked \subseteq Rows /\ j.own \subseteq j.filed
    /\ \A p \in j.filed : <<p, j.m>> \in Rows
    /\ \A k \in j.carried : /\ k \in j.looked /\ MonthOf(k) \in keptMonths
                            /\ MonthOf(k) < j.m /\ j.m <= MonthOf(k) + Reach
Saw(j) ==
    /\ \A k \in j.looked : MonthOf(k) = j.m => (k[1] \in j.own <=> ~IsLate(k, Sheets(j)))
    /\ \A p \in j.filed : ~IsLate(<<p, j.m>>, Sheets(j))
    /\ \A k \in j.looked : (MonthOf(k) < j.m /\ j.m <= MonthOf(k) + Reach /\ IsLate(k, Sheets(j))) =>
         /\ Takes(k, Sheets(j), j.m) => k \in j.carried
         /\ TakenBy(k, Sheets(j)) # {} => k \in j.carried \/ \E n \in TakenBy(k, Sheets(j)) : n # j.m
    /\ \A k \in j.carried :
         IsLate(k, Sheets(j)) /\ (k \in sheet[j.m].carried \/ Takes(k, Sheets(j), j.m))

StaleAtSave == stale \subseteq {w \in Workers : AtSave(w)}
SheetsSound == \A m \in Month :
    sheet[m].inBy \subseteq Rows /\ (sheet[m].kept = "no" => sheet[m] = NoSheet)
ReadsSound == \A w \in Workers : AtSave(w) => ReadSound(job[w])
FreshReads == \A w \in Workers : (AtSave(w) /\ w \notin stale) => Saw(job[w])
ReadInv == StaleAtSave /\ SheetsSound /\ ReadsSound /\ FreshReads

\* All steps but the reading and the saving of a sheet leave the sheets, and what was read, alone.
Quiet ==
    /\ sheet' = sheet /\ absorbed' = absorbed /\ passedBy' = passedBy /\ overtaken' = overtaken
    /\ stale' \subseteq stale /\ Rows \subseteq Rows'
    /\ \A w \in Workers : AtSave(w)' => AtSave(w) /\ job'[w] = job[w] /\ (w \in stale => w \in stale')
    /\ \A w \in Workers : w \in stale' /\ AtSave(w) => AtSave(w)'

LEMMA RowsGrow ==
    ASSUME TypeOK, SpellInv, Next
    PROVE Rows \subseteq Rows'
<1>1. CASE report' = report
  BY <1>1 DEF Rows
<1>2. ASSUME NEW r \in Requests, InsertReport(r) \/ WriteReport(r) PROVE Rows \subseteq Rows'
  <2>1. job[r] \in Job /\ r \in Workers
    BY DEF TypeOK, Workers
  <2>2. job[r].k \in Keys
    BY <1>2, <2>1, JobFields DEF InsertReport, WriteReport
  <2>3. job[r].at = "write" => job[r].row.state # "none"
    BY <2>1 DEF SpellInv, WritesKnown
  <2>4. \A k \in Keys : report'[k] = report[k] \/ report'[k].state # "none"
    BY <1>2, <2>2, <2>3 DEF InsertReport, WriteReport, TypeOK
  <2> QED
    BY <2>4 DEF Rows
<1>3. CASE ~\E r \in Requests : InsertReport(r) \/ WriteReport(r)
  <2>1. report' = report
    <3>1. ASSUME NEW r \in Requests, Begins(r) PROVE report' = report
      BY <3>1 DEF Begins, BeginSubmit, BeginSubmitAux, BeginUpdate, BeginRemove, BeginRestore,
                  BeginClose, reopenMonth, Begin, tables
    <3>2. ASSUME NEW r \in Requests, Works(r) PROVE report' = report
      BY <1>3, <3>2 DEF Works, WriteSpell, undoAuxSpell, closeMonth
    <3>3. ASSUME NEW w \in Workers, Keeps(w) \/ Fails(w) PROVE report' = report
      BY <3>3 DEF Keeps, Fails, FindSheet, ReadReports, SaveSheet, InsertFails, UndoFails, Lose, tables
    <3> QED
      BY <3>1, <3>2, <3>3 DEF Next, NightlyRound, Tick, tables
  <2> QED
    BY <1>1, <2>1
<1> QED
  BY <1>2, <1>3

LEMMA QuietSteps ==
    ASSUME TypeOK, SpellInv, Next, ~\E w \in Workers : ReadReports(w) \/ SaveSheet(w)
    PROVE Quiet
<1>1. Rows \subseteq Rows'
  BY RowsGrow
<1>2. ASSUME NEW w \in Workers, ~AtSave(w), job'[w].at # "save",
             \A v \in Workers \ {w} : job'[v] = job[v],
             UNCHANGED <<sheet, absorbed, passedBy, overtaken, stale>>
      PROVE Quiet
  BY <1>1, <1>2 DEF Quiet, AtSave
<1>3. ASSUME NEW r \in Requests, Begins(r) PROVE Quiet
  <2>1. r \in Workers /\ ~AtSave(r)
    BY <1>3 DEF AtSave, Idle, Workers, Begins, BeginSubmit, BeginSubmitAux, BeginUpdate, BeginRemove,
                BeginRestore, BeginClose, reopenMonth, Begin
  <2>2. job'[r].at # "save" /\ \A v \in Workers \ {r} : job'[v] = job[v]
    BY <1>3, <2>1 DEF Begins, BeginSubmit, BeginSubmitAux, BeginUpdate, BeginRemove, BeginRestore,
                      BeginClose, reopenMonth, Edits, Goes, TypeOK, AtSave
  <2>3. UNCHANGED <<sheet, absorbed, passedBy, overtaken, stale>>
    BY <1>3 DEF Begins, BeginSubmit, BeginSubmitAux, BeginUpdate, BeginRemove, BeginRestore,
                BeginClose, reopenMonth, Begin, tables, history
  <2> QED
    BY <1>2, <2>1, <2>2, <2>3
<1>4. ASSUME NEW r \in Requests, Works(r) PROVE Quiet
  <2>1. r \in Workers /\ ~AtSave(r)
    BY <1>4 DEF AtSave, Workers, Works, WriteSpell, InsertReport, undoAuxSpell, WriteReport, closeMonth
  <2>2. job'[r].at # "save" /\ \A v \in Workers \ {r} : job'[v] = job[v]
    BY <1>4, <2>1 DEF Works, WriteSpell, InsertReport, undoAuxSpell, WriteReport, closeMonth,
                      AfterSpell, Refused, Idle, Goes, TypeOK
  <2>3. UNCHANGED <<sheet, absorbed, passedBy, overtaken, stale>>
    BY <1>4 DEF Works, WriteSpell, InsertReport, undoAuxSpell, WriteReport, closeMonth, history
  <2> QED
    BY <1>2, <2>1, <2>2, <2>3
<1>5. ASSUME NEW w \in Workers, FindSheet(w) PROVE Quiet
  <2>1. ~AtSave(w) /\ job'[w].at # "save" /\ \A v \in Workers \ {w} : job'[v] = job[v]
    BY <1>5 DEF FindSheet, AtSave, Goes, TypeOK, Idle
  <2> QED
    BY <1>2, <1>5, <2>1 DEF FindSheet, tables, history
<1>6. ASSUME NEW w \in Workers, InsertFails(w) \/ UndoFails(w) PROVE Quiet
  <2>1. ~AtSave(w) /\ job'[w].at # "save" /\ \A v \in Workers \ {w} : job'[v] = job[v]
    BY <1>6 DEF InsertFails, UndoFails, Refused, AtSave, Goes, TypeOK, Idle
  <2> QED
    BY <1>2, <1>6, <2>1 DEF InsertFails, UndoFails, tables, history
<1>7. ASSUME NEW w \in Workers, Lose(w) PROVE Quiet
  <2>1. job'[w].at # "save" /\ \A v \in Workers \ {w} : job'[v] = job[v]
    BY <1>7 DEF Lose, Goes, TypeOK, Idle
  <2>2. stale' = stale \ {w} /\ UNCHANGED <<sheet, absorbed, passedBy, overtaken>>
    BY <1>7 DEF Lose, tables
  <2> QED
    BY <1>1, <2>1, <2>2 DEF Quiet, AtSave
<1>8. ASSUME NightlyRound PROVE Quiet
  <2>1. Nightly \in Workers /\ ~AtSave(Nightly) /\ job'[Nightly].at # "save"
        /\ \A v \in Workers \ {Nightly} : job'[v] = job[v]
    BY <1>8 DEF NightlyRound, AtSave, Goes, TypeOK, Idle, Workers
  <2> QED
    BY <1>2, <1>8, <2>1 DEF NightlyRound, tables, history
<1>9. ASSUME Tick PROVE Quiet
  BY <1>1, <1>9 DEF Tick, tables, history, Quiet, AtSave
<1> QED
  BY <1>3, <1>4, <1>5, <1>6, <1>7, <1>8, <1>9 DEF Next, Keeps, Fails

\* What a job has read is judged by the sheets and the rows alone.
LEMMA ReadKept ==
    ASSUME sheet' = sheet, NEW j
    PROVE /\ Saw(j) => Saw(j)'
          /\ Rows \subseteq Rows' /\ ReadSound(j) => ReadSound(j)'
<1>1. keptMonths' = keptMonths
  BY DEF keptMonths
<1>2. Sheets(j)' = Sheets(j)
  BY <1>1 DEF Sheets, absorbs
<1>3. ASSUME NEW k, NEW M
      PROVE /\ TakenBy(k, M)' = TakenBy(k, M) /\ IsLate(k, M)' = IsLate(k, M)
            /\ \A n : Takes(k, M, n)' = Takes(k, M, n)
  <2>1. TakenBy(k, M)' = TakenBy(k, M)
    BY DEF TakenBy
  <2>2. IsLate(k, M)' = IsLate(k, M)
    BY DEF IsLate, Reporters
  <2>3. ASSUME NEW n PROVE Takes(k, M, n)' = Takes(k, M, n)
    BY <2>1 DEF Takes, GapIs
  <2> QED
    BY <2>1, <2>2, <2>3
<1> QED
  BY <1>1, <1>2, <1>3 DEF Saw, ReadSound

\* A reading is sound and fresh when it is made.
LEMMA ReadingIs ==
    ASSUME TypeOK, NEW j \in Job, j.at = "save",
           j.own = ownOf(j.m, Sheets(j)), j.filed = filedOf(j.m, Sheets(j)),
           j.carried = carriedInto(j.m, Sheets(j)), j.looked = {k \in Keys : counts(k)}
    PROVE ReadSound(j) /\ Saw(j)
<1> DEFINE M == Sheets(j)
<1>1. j.m \in Month /\ M \in SUBSET Month /\ M \subseteq keptMonths
  BY JobFields DEF Sheets, keptMonths
<1> HIDE DEF M
<1>2. ASSUME NEW p \in Publishers
      PROVE /\ <<p, j.m>> \in Keys /\ MonthOf(<<p, j.m>>) = j.m
            /\ p \in j.own <=> counts(<<p, j.m>>) /\ ~IsLate(<<p, j.m>>, M)
            /\ p \in j.filed <=> In(<<p, j.m>>) /\ ~IsLate(<<p, j.m>>, M)
  <2>1. <<p, j.m>> \in Keys /\ MonthOf(<<p, j.m>>) = j.m
    BY <1>1 DEF Keys, MonthOf
  <2>2. placeLate(<<p, j.m>>, M).late = IsLate(<<p, j.m>>, M)
    BY <1>1, <2>1, PlaceIs
  <2> QED
    BY <2>1, <2>2 DEF ownOf, filedOf, M
<1>3. \A k \in Keys : counts(k) => In(k) /\ k \in Rows
  BY DEF counts, In, Rows
<1>4. \A k \in Keys : In(k) => k \in Rows
  BY DEF In, Rows
<1>5. j.own \subseteq Publishers /\ j.filed \subseteq Publishers /\ j.carried \subseteq Keys
  BY JobFields
<1>6. ASSUME NEW k \in j.carried
      PROVE /\ k \in Keys /\ k \in j.looked /\ MonthOf(k) < j.m /\ j.m <= MonthOf(k) + Reach
            /\ IsLate(k, M) /\ (j.m \in TakenBy(k, M) \/ Takes(k, M, j.m))
  <2>1. /\ k \in Keys /\ counts(k) /\ placeLate(k, M) = Into(j.m)
        /\ MonthOf(k) < j.m /\ j.m <= MonthOf(k) + Reach
    BY <1>5, <1>6 DEF carriedInto, LooksFor, M
  <2> QED
    BY <1>1, <2>1, PlaceIs
<1>7. ASSUME NEW k \in j.looked, MonthOf(k) < j.m, j.m <= MonthOf(k) + Reach, IsLate(k, M)
      PROVE /\ Takes(k, M, j.m) => k \in j.carried
            /\ TakenBy(k, M) # {} => k \in j.carried \/ \E n \in TakenBy(k, M) : n # j.m
  <2>1. k \in Keys /\ counts(k)
    BY <1>7
  <2>2. placeLate(k, M) = Into(j.m) => k \in j.carried
    BY <1>7, <2>1 DEF carriedInto, LooksFor, M
  <2>3. Takes(k, M, j.m) => placeLate(k, M) = Into(j.m)
    BY <1>1, <1>7, <2>1, PlaceIs
  <2>4. TakenBy(k, M) # {} => \E n \in TakenBy(k, M) : placeLate(k, M) = Into(n)
    BY <1>1, <1>7, <2>1, PlaceIs
  <2> QED
    BY <2>2, <2>3, <2>4
<1>8. ReadSound(j)
  <2>1. \A k \in j.carried : MonthOf(k) \in keptMonths
    BY <1>1, <1>6 DEF IsLate
  <2>2. j.own \subseteq j.filed /\ \A p \in j.filed : <<p, j.m>> \in Rows
    BY <1>2, <1>3, <1>4, <1>5
  <2>3. j.looked \subseteq Rows
    BY <1>3
  <2> QED
    BY <1>6, <2>1, <2>2, <2>3 DEF ReadSound
<1>9. Saw(j)
  <2>1. ASSUME NEW k \in j.looked, MonthOf(k) = j.m
        PROVE k[1] \in j.own <=> ~IsLate(k, M)
    <3>1. k \in Keys /\ counts(k)
      BY <2>1
    <3>2. k[1] \in Publishers /\ k = <<k[1], j.m>>
      BY <2>1, <3>1, KeyIs
    <3>3. k[1] \in j.own <=> counts(<<k[1], j.m>>) /\ ~IsLate(<<k[1], j.m>>, M)
      BY <1>2, <3>2
    <3> QED
      BY <3>1, <3>2, <3>3
  <2>2. \A p \in j.filed : ~IsLate(<<p, j.m>>, M)
    BY <1>2, <1>5
  <2>3. ASSUME NEW k \in j.carried
        PROVE k \in sheet[j.m].carried \/ Takes(k, M, j.m)
    BY <1>6, <2>3 DEF TakenBy
  <2> QED
    BY <1>6, <1>7, <2>1, <2>2, <2>3 DEF Saw, M
<1> QED
  BY <1>8, <1>9

\* What the reading of the sheets and reports does.
LEMMA ReadingStep ==
    ASSUME TypeOK, NEW w \in Workers, ReadReports(w)
    PROVE /\ UNCHANGED <<tables, absorbed, passedBy, overtaken, stale>>
          /\ ~AtSave(w) /\ \A v \in Workers \ {w} : job'[v] = job[v]
          /\ \E j \in Job : /\ job'[w] = j
                            /\ j.at = "save" => ReadSound(j) /\ Saw(j)
<1>1. job[w] \in Job /\ Idle \in Job /\ Idle.at # "save"
  BY DEF TypeOK, Idle, Job
<1>2. /\ job[w].m \in Month /\ job[w].by \in {"app", "person"}
      /\ job[w].before \in {"no", "frozen", "confirmed"}
  BY <1>1, JobFields DEF ReadReports
<1>3. UNCHANGED <<tables, absorbed, passedBy, overtaken, stale>> /\ ~AtSave(w)
  BY DEF ReadReports, history, AtSave
<1>4. PICK j \in Job :
        /\ Goes(w, j)
        /\ j = Idle \/ /\ j.at = "save" /\ j.own = ownOf(j.m, Sheets(j))
                       /\ j.filed = filedOf(j.m, Sheets(j)) /\ j.carried = carriedInto(j.m, Sheets(j))
                       /\ j.looked = {k \in Keys : counts(k)}
  <2> DEFINE M == IF absorbs(job[w]) THEN keptMonths \ {job[w].m} ELSE keptMonths
             next == [at |-> "save", m |-> job[w].m, by |-> job[w].by, before |-> job[w].before,
                      own |-> ownOf(job[w].m, M), filed |-> filedOf(job[w].m, M),
                      carried |-> carriedInto(job[w].m, M), looked |-> {k \in Keys : counts(k)}]
  <2>1. /\ ownOf(job[w].m, M) \in SUBSET Publishers /\ filedOf(job[w].m, M) \in SUBSET Publishers
        /\ carriedInto(job[w].m, M) \in SUBSET Keys /\ {k \in Keys : counts(k)} \in SUBSET Keys
    BY DEF ownOf, filedOf, carriedInto
  <2>2. Goes(w, Idle) \/ Goes(w, next)
    BY DEF ReadReports
  <2> HIDE DEF M
  <2>3. next \in Job
    BY <1>2, <2>1 DEF Job
  <2>4. /\ next.at = "save" /\ next.m = job[w].m /\ next.by = job[w].by
        /\ next.before = job[w].before /\ next.own = ownOf(job[w].m, M)
        /\ next.filed = filedOf(job[w].m, M)
        /\ next.carried = carriedInto(job[w].m, M) /\ next.looked = {k \in Keys : counts(k)}
    OBVIOUS
  <2> HIDE DEF next
  <2>5. Sheets(next) = M
    BY <2>4 DEF Sheets, absorbs, M
  <2> QED
    BY <1>1, <2>2, <2>3, <2>4, <2>5
<1>5. job'[w] = j /\ \A v \in Workers \ {w} : job'[v] = job[v]
  BY <1>4, GoesOn DEF TypeOK, JobType
<1>6. j.at = "save" => ReadSound(j) /\ Saw(j)
  BY <1>1, <1>4, ReadingIs
<1> QED
  BY <1>3, <1>5, <1>6

\* What the saving of a sheet does: the job's sheet is kept as it read it, no other changes.
Kept(w, j) ==
    /\ sheet'[j.m].kept # "no"
    /\ sheet'[j.m].own = j.own /\ sheet'[j.m].filed = j.filed /\ sheet'[j.m].carried = j.carried
    /\ sheet'[j.m].inBy = IF sheet[j.m].kept = "no" THEN Rows ELSE sheet[j.m].inBy
    /\ \A n \in Month \ {j.m} : sheet'[n] = sheet[n]
    /\ stale' = {v \in Workers \ {w} : AtSave(v)}
    /\ overtaken' = IF w \in stale THEN overtaken \cup {j.m} ELSE overtaken
    /\ passedBy' = passedBy \cup (Rows \ j.looked)
    /\ absorbed \subseteq absorbed'
    /\ absorbs(j) => {<<p, j.m>> : p \in j.filed \ Reporters(j.m)} \subseteq absorbed'
Refuses(w) ==
    stale' = stale \ {w} /\ UNCHANGED <<sheet, absorbed, passedBy, overtaken>>

LEMMA SavingStep ==
    ASSUME TypeOK, NEW w \in Workers, SaveSheet(w)
    PROVE /\ report' = report /\ AtSave(w) /\ job'[w] = Idle
          /\ \A v \in Workers \ {w} : job'[v] = job[v]
          /\ \E j \in Job : /\ j = job[w] /\ j.at = "save" /\ j.m \in Month
                            /\ Kept(w, j) \/ Refuses(w)
<1>1. report' = report /\ AtSave(w) /\ job'[w] = Idle /\ \A v \in Workers \ {w} : job'[v] = job[v]
  BY DEF SaveSheet, AtSave, Goes, TypeOK
<1>2. job[w] \in Job /\ job[w].at = "save"
  BY <1>1 DEF TypeOK, AtSave
<1>3. PICK j \in Job : j = job[w]
  BY <1>2
<1>4. j.at = "save" /\ j.m \in Month
  BY <1>2, <1>3, JobFields
<1>5. CASE Inserts(j)
  <2> DEFINE new == [kept |-> KeptAs(j), own |-> j.own, filed |-> j.filed, carried |-> j.carried,
                     inBy |-> IF sheet[j.m].kept = "no" THEN Rows ELSE sheet[j.m].inBy]
  <2>1. /\ sheet' = [sheet EXCEPT ![j.m] = new]
        /\ stale' = {v \in Workers \ {w} : job[v].at = "save"}
        /\ overtaken' = IF w \in stale THEN overtaken \cup {j.m} ELSE overtaken
        /\ passedBy' = passedBy \cup (Rows \ j.looked)
        /\ absorbed' = IF j.by = "person" /\ j.before = "frozen"
                       THEN absorbed \cup ({<<p, j.m>> : p \in j.filed \ Reporters(j.m)})
                       ELSE absorbed
    BY <1>3, <1>5 DEF SaveSheet
  <2>2. /\ new.kept # "no" /\ new.own = j.own /\ new.filed = j.filed /\ new.carried = j.carried
        /\ new.inBy = IF sheet[j.m].kept = "no" THEN Rows ELSE sheet[j.m].inBy
    BY DEF KeptAs
  <2> HIDE DEF new
  <2>3. sheet'[j.m] = new /\ \A n \in Month \ {j.m} : sheet'[n] = sheet[n]
    BY <1>4, <2>1 DEF TypeOK
  <2>4. absorbed \subseteq absorbed'
        /\ (absorbs(j) => {<<p, j.m>> : p \in j.filed \ Reporters(j.m)} \subseteq absorbed')
    BY <2>1 DEF absorbs
  <2>5. Kept(w, j)
    BY <2>1, <2>2, <2>3, <2>4 DEF Kept, AtSave
  <2> QED
    BY <1>1, <1>3, <1>4, <2>5
<1>6. CASE ~Inserts(j)
  <2>1. Refuses(w)
    BY <1>3, <1>6 DEF SaveSheet, Refuses
  <2> QED
    BY <1>1, <1>3, <1>4, <2>1
<1> QED
  BY <1>5, <1>6

LEMMA ReadInvStep ==
    ASSUME TypeOK, SpellInv, ReadInv, [Next]_vars
    PROVE ReadInv'
<1>1. ASSUME sheet' = sheet, stale' \subseteq stale, Rows \subseteq Rows',
             \A v \in Workers : v \in stale' => AtSave(v)',
             \A v \in Workers : AtSave(v)' =>
                 \/ AtSave(v) /\ job'[v] = job[v] /\ (v \in stale => v \in stale')
                 \/ \E j \in Job : job'[v] = j /\ ReadSound(j) /\ Saw(j)
      PROVE ReadInv'
  <2>1. StaleAtSave'
    BY <1>1 DEF ReadInv, StaleAtSave
  <2>2. SheetsSound'
    BY <1>1 DEF ReadInv, SheetsSound
  <2>3. ASSUME NEW v \in Workers, AtSave(v)'
        PROVE ReadSound(job[v])' /\ (v \notin stale' => Saw(job[v])')
    <3>1. CASE AtSave(v) /\ job'[v] = job[v] /\ (v \in stale => v \in stale')
      <4>1. job[v] \in Job
        BY DEF TypeOK
      <4>2. PICK j \in Job : j = job[v]
        BY <4>1
      <4>3. ReadSound(j) /\ (v \notin stale => Saw(j))
        BY <3>1, <4>2 DEF ReadInv, ReadsSound, FreshReads
      <4>4. ReadSound(j)' /\ (v \notin stale' => Saw(j)')
        BY <1>1, <3>1, <4>3, ReadKept
      <4> QED
        BY <3>1, <4>2, <4>4
    <3>2. CASE \E j \in Job : job'[v] = j /\ ReadSound(j) /\ Saw(j)
      <4>1. PICK j \in Job : job'[v] = j /\ ReadSound(j) /\ Saw(j)
        BY <3>2
      <4>2. ReadSound(j)' /\ Saw(j)'
        BY <1>1, <4>1, ReadKept
      <4> QED
        BY <4>1, <4>2
    <3> QED
      BY <1>1, <2>3, <3>1, <3>2
  <2>4. ReadsSound' /\ FreshReads'
    BY <2>3 DEF ReadsSound, FreshReads
  <2> QED
    BY <2>1, <2>2, <2>4 DEF ReadInv
<1>2. CASE UNCHANGED vars
  BY <1>1, <1>2 DEF vars, tables, history, Rows, AtSave, ReadInv, StaleAtSave
<1>3. CASE Next /\ ~\E w \in Workers : ReadReports(w) \/ SaveSheet(w)
  <2>1. Quiet
    BY <1>3, QuietSteps
  <2>2. \A v \in Workers : v \in stale' => AtSave(v)'
    BY <2>1 DEF Quiet, ReadInv, StaleAtSave
  <2> QED
    BY <1>1, <2>1, <2>2 DEF Quiet
<1>4. ASSUME NEW w \in Workers, ReadReports(w) PROVE ReadInv'
  <2>1. /\ UNCHANGED <<tables, absorbed, passedBy, overtaken, stale>>
        /\ ~AtSave(w) /\ \A v \in Workers \ {w} : job'[v] = job[v]
        /\ \E j \in Job : /\ job'[w] = j
                          /\ j.at = "save" => ReadSound(j) /\ Saw(j)
    BY <1>4, ReadingStep
  <2>2. /\ sheet' = sheet /\ stale' \subseteq stale /\ Rows \subseteq Rows'
        /\ \A v \in Workers : v \in stale' => AtSave(v)'
    BY <2>1 DEF tables, Rows, ReadInv, StaleAtSave, AtSave
  <2>3. ASSUME NEW v \in Workers, AtSave(v)'
        PROVE \/ AtSave(v) /\ job'[v] = job[v] /\ (v \in stale => v \in stale')
              \/ \E j \in Job : job'[v] = j /\ ReadSound(j) /\ Saw(j)
    BY <2>1, <2>3 DEF AtSave
  <2> QED
    BY <1>1, <2>2, <2>3
<1>5. ASSUME NEW w \in Workers, SaveSheet(w) PROVE ReadInv'
  <2>1. /\ report' = report /\ AtSave(w) /\ job'[w] = Idle
        /\ \A v \in Workers \ {w} : job'[v] = job[v]
    BY <1>5, SavingStep
  <2>2. PICK j \in Job : j = job[w] /\ j.at = "save" /\ j.m \in Month /\ (Kept(w, j) \/ Refuses(w))
    BY <1>5, SavingStep
  <2>3. Rows' = Rows /\ ~AtSave(w)' /\ \A v \in Workers \ {w} : AtSave(v)' = AtSave(v)
    BY <2>1 DEF Rows, AtSave, Idle
  <2>4. CASE Refuses(w)
    <3>1. sheet' = sheet /\ stale' \subseteq stale /\ \A v \in Workers : v \in stale' => AtSave(v)'
      BY <2>3, <2>4 DEF Refuses, ReadInv, StaleAtSave
    <3>2. ASSUME NEW v \in Workers, AtSave(v)'
          PROVE AtSave(v) /\ job'[v] = job[v] /\ (v \in stale => v \in stale')
      BY <2>1, <2>3, <2>4, <3>2 DEF Refuses
    <3> QED
      BY <1>1, <2>3, <3>1, <3>2
  <2>5. CASE Kept(w, j)
    <3>1. StaleAtSave'
      BY <2>3, <2>5 DEF Kept, StaleAtSave
    <3>2. FreshReads'
      BY <2>3, <2>5 DEF Kept, FreshReads
    <3>3. SheetsSound'
      BY <2>2, <2>3, <2>5 DEF Kept, SheetsSound, ReadInv
    <3>4. keptMonths \subseteq keptMonths'
      BY <2>2, <2>5 DEF Kept, keptMonths
    <3>5. ASSUME NEW v \in Workers, AtSave(v)' PROVE ReadSound(job[v])'
      <4>1. job'[v] = job[v] /\ AtSave(v)
        BY <2>1, <2>3, <3>5
      <4>2. ReadSound(job[v])
        BY <4>1 DEF ReadInv, ReadsSound
      <4> QED
        BY <2>3, <3>4, <4>1, <4>2 DEF ReadSound
    <3> QED
      BY <3>1, <3>2, <3>3, <3>5 DEF ReadInv, ReadsSound
  <2> QED
    BY <2>2, <2>4, <2>5
<1> QED
  BY <1>2, <1>3, <1>4, <1>5

LEMMA ReadInvInit == Init => ReadInv
BY DEF Init, ReadInv, StaleAtSave, SheetsSound, ReadsSound, FreshReads, AtSave, Idle, NoSheet, Rows

----------------------------------------------------------------------------
(* Counted once.  A report a sheet carries was late when the sheet was read, *)
(* and its month's own sheet does not name it since, unless a confirmation   *)
(* took it in or a reading was overtaken; and no other sheet took it before. *)

CarriedLater == \A n \in Month : \A k \in sheet[n].carried :
    MonthOf(k) < n /\ n <= MonthOf(k) + Reach /\ MonthOf(k) \in keptMonths
LateStill(S) == \A k \in S \ absorbed :
    MonthOf(k) \notin overtaken => k[1] \notin Reporters(MonthOf(k))
CarriedLate == \A n \in Month : LateStill(sheet[n].carried)
ReadLate == \A w \in Workers : AtSave(w) => LateStill(job[w].carried)
OneCarrier == \A m, n \in Month \ overtaken : \A k \in sheet[m].carried :
    k \in sheet[n].carried => m = n
CarriedOnce == CarriedLater /\ CarriedLate /\ ReadLate /\ OneCarrier

\* A late report that is taken up is counted once.
LEMMA CarriedOnceIs == ASSUME CarriedOnce PROVE CountedOnceUnlessAbsorbed
<1> SUFFICES ASSUME NEW k \in Keys \ absorbed, NEW m \in SheetsOf(k) \ overtaken,
                    NEW n \in SheetsOf(k) \ overtaken
             PROVE m = n
  BY DEF CountedOnceUnlessAbsorbed
<1>1. ASSUME NEW a \in Month \ overtaken, NEW b \in Month, k[1] \in sheet[a].own, a = MonthOf(k)
      PROVE k \notin sheet[b].carried
  BY <1>1 DEF CarriedOnce, CarriedLate, LateStill, Reporters
<1>2. m \in Month \ overtaken /\ n \in Month \ overtaken
  BY DEF SheetsOf
<1> QED
  BY <1>1, <1>2 DEF CarriedOnce, OneCarrier, SheetsOf

\* Whoever was late on the sheet of a month is late on it still when it is written over, unless
\* it takes the late reports in, or an overtaken reading writes it.
LEMMA LateStaysLate ==
    ASSUME TypeOK, ReadInv, NEW w \in Workers, NEW j \in Job, j = job[w], AtSave(w), j.m \in Month,
           Kept(w, j), NEW S \in SUBSET Keys, LateStill(S), \A k \in S : MonthOf(k) \in keptMonths
    PROVE LateStill(S)'
<1> SUFFICES ASSUME NEW k \in S \ absorbed', MonthOf(k) \notin overtaken'
             PROVE k[1] \notin Reporters(MonthOf(k))'
  BY DEF LateStill
<1>1. k \in S \ absorbed /\ MonthOf(k) \notin overtaken
  BY DEF Kept
<1>2. k[1] \notin Reporters(MonthOf(k)) /\ MonthOf(k) \in keptMonths
  BY <1>1 DEF LateStill
<1>3. k[1] \in Publishers /\ MonthOf(k) \in Month /\ k = <<k[1], MonthOf(k)>>
  BY KeyIs
<1>4. CASE MonthOf(k) # j.m
  <2>1. sheet'[MonthOf(k)] = sheet[MonthOf(k)]
    BY <1>3, <1>4 DEF Kept
  <2> QED
    BY <1>2, <2>1 DEF Reporters
<1>5. CASE MonthOf(k) = j.m
  <2>1. w \notin stale
    BY <1>5 DEF Kept
  <2>2. Saw(j) /\ ReadSound(j)
    BY <2>1 DEF ReadInv, FreshReads, ReadsSound
  <2>3. ASSUME k[1] \in j.filed PROVE FALSE
    <3>1. CASE absorbs(j)
      <4>1. k \in {<<p, j.m>> : p \in j.filed \ Reporters(j.m)}
        BY <1>2, <1>3, <1>5, <2>3
      <4> QED
        BY <3>1, <4>1 DEF Kept
    <3>2. CASE ~absorbs(j)
      <4>1. ~IsLate(k, keptMonths)
        BY <1>3, <1>5, <2>2, <2>3, <3>2 DEF Saw, Sheets
      <4> QED
        BY <1>2, <4>1 DEF IsLate
    <3> QED
      BY <3>1, <3>2
  <2>4. sheet'[j.m].own = j.own /\ sheet'[j.m].filed = j.filed /\ j.own \subseteq j.filed
    BY <2>2 DEF Kept, ReadSound
  <2> QED
    BY <1>5, <2>3, <2>4 DEF Reporters
<1> QED
  BY <1>4, <1>5

LEMMA SavingCarries ==
    ASSUME TypeOK, ReadInv, CarriedOnce, NEW w \in Workers, SaveSheet(w)
    PROVE CarriedOnce'
<1>1. /\ report' = report /\ AtSave(w) /\ job'[w] = Idle
      /\ \A v \in Workers \ {w} : job'[v] = job[v]
  BY SavingStep
<1>2. PICK j \in Job : j = job[w] /\ j.at = "save" /\ j.m \in Month /\ (Kept(w, j) \/ Refuses(w))
  BY SavingStep
<1>3. \A v \in Workers : AtSave(v)' => v # w /\ AtSave(v) /\ job'[v] = job[v]
  BY <1>1 DEF AtSave, Idle
<1>4. CASE Refuses(w)
  <2>1. UNCHANGED <<sheet, absorbed, overtaken>> /\ keptMonths' = keptMonths
    BY <1>4 DEF Refuses, keptMonths
  <2>2. CarriedLater' /\ CarriedLate' /\ OneCarrier'
    BY <2>1 DEF CarriedOnce, CarriedLater, CarriedLate, LateStill, Reporters, OneCarrier
  <2>3. ReadLate'
    BY <1>3, <2>1 DEF CarriedOnce, ReadLate, LateStill, Reporters
  <2> QED
    BY <2>2, <2>3 DEF CarriedOnce
<1>5. CASE Kept(w, j)
  <2>1. /\ \A k \in j.carried : /\ MonthOf(k) < j.m /\ j.m <= MonthOf(k) + Reach
                               /\ MonthOf(k) \in keptMonths
        /\ j.carried \in SUBSET Keys /\ LateStill(j.carried)
    BY <1>1, <1>2, JobFields DEF ReadInv, ReadsSound, ReadSound, CarriedOnce, ReadLate
  <2>2. keptMonths \subseteq keptMonths'
    BY <1>2, <1>5 DEF Kept, keptMonths
  <2>3. CarriedLater'
    <3>1. ASSUME NEW n \in Month, NEW k \in sheet'[n].carried
          PROVE MonthOf(k) < n /\ n <= MonthOf(k) + Reach /\ MonthOf(k) \in keptMonths
      BY <1>5, <2>1, <3>1 DEF Kept, CarriedOnce, CarriedLater
    <3> QED
      BY <2>2, <3>1 DEF CarriedLater
  <2>4. LateStill(j.carried)'
    BY <1>1, <1>2, <1>5, <2>1, LateStaysLate
  <2>5. \A n \in Month : sheet[n].carried \in SUBSET Keys
    BY DEF TypeOK, Sheet
  <2>6. CarriedLate'
    <3>1. ASSUME NEW n \in Month PROVE LateStill(sheet[n].carried)'
      <4>1. CASE n = j.m
        BY <1>5, <2>4, <4>1 DEF Kept
      <4>2. CASE n # j.m
        <5>1. PICK S \in SUBSET Keys : S = sheet[n].carried
          BY <2>5
        <5>2. LateStill(S) /\ \A k \in S : MonthOf(k) \in keptMonths
          BY <5>1 DEF CarriedOnce, CarriedLate, CarriedLater
        <5>3. LateStill(S)'
          BY <1>1, <1>2, <1>5, <5>2, LateStaysLate
        <5>4. sheet'[n].carried = S
          BY <1>5, <4>2, <5>1 DEF Kept
        <5> QED
          BY <5>3, <5>4
      <4> QED
        BY <4>1, <4>2
    <3> QED
      BY <3>1 DEF CarriedLate
  <2>7. ReadLate'
    <3>1. ASSUME NEW v \in Workers, AtSave(v)' PROVE LateStill(job[v].carried)'
      <4>1. AtSave(v) /\ job'[v] = job[v] /\ job[v] \in Job
        BY <1>3, <3>1 DEF TypeOK
      <4>2. PICK S \in SUBSET Keys : S = job[v].carried
        BY <4>1, JobFields DEF AtSave
      <4>3. LateStill(S) /\ \A k \in S : MonthOf(k) \in keptMonths
        BY <4>1, <4>2 DEF CarriedOnce, ReadLate, ReadInv, ReadsSound, ReadSound
      <4>4. LateStill(S)'
        BY <1>1, <1>2, <1>5, <4>3, LateStaysLate
      <4> QED
        BY <4>1, <4>2, <4>4
    <3> QED
      BY <3>1 DEF ReadLate
  <2>8. OneCarrier'
    <3>1. ASSUME NEW n \in Month \ overtaken', n # j.m, j.m \notin overtaken',
                 NEW k \in j.carried, k \in sheet[n].carried
          PROVE FALSE
      <4>1. w \notin stale /\ j.m \notin overtaken /\ n \notin overtaken
        BY <1>5, <3>1 DEF Kept
      <4>2. k \in sheet[j.m].carried \/ Takes(k, Sheets(j), j.m)
        BY <1>1, <1>2, <4>1 DEF ReadInv, FreshReads, Saw
      <4>3. k \notin sheet[j.m].carried
        BY <1>2, <3>1, <4>1 DEF CarriedOnce, OneCarrier
      <4>4. sheet[n].kept # "no"
        BY <3>1 DEF ReadInv, SheetsSound, NoSheet
      <4>5. n \in TakenBy(k, Sheets(j))
        BY <3>1, <4>4 DEF TakenBy, Sheets, keptMonths, CarriedOnce, CarriedLater
      <4> QED
        BY <4>2, <4>3, <4>5 DEF Takes
    <3>2. ASSUME NEW m \in Month \ overtaken', NEW n \in Month \ overtaken', NEW k \in sheet'[m].carried,
                 k \in sheet'[n].carried
          PROVE m = n
      <4>1. m \in Month \ overtaken /\ n \in Month \ overtaken
        BY <1>5 DEF Kept
      <4>2. /\ m # j.m => k \in sheet[m].carried
            /\ m = j.m => k \in j.carried
            /\ n # j.m => k \in sheet[n].carried
            /\ n = j.m => k \in j.carried
        BY <1>5, <3>2 DEF Kept
      <4>3. CASE m # j.m /\ n # j.m
        BY <4>1, <4>2, <4>3 DEF CarriedOnce, OneCarrier
      <4> QED
        BY <3>1, <4>2, <4>3
    <3> QED
      BY <3>2 DEF OneCarrier
  <2> QED
    BY <2>3, <2>6, <2>7, <2>8 DEF CarriedOnce
<1> QED
  BY <1>2, <1>4, <1>5

LEMMA CarriedStep ==
    ASSUME TypeOK, SpellInv, ReadInv, CarriedOnce, [Next]_vars
    PROVE CarriedOnce'
<1>1. ASSUME UNCHANGED <<sheet, absorbed, overtaken>>,
             \A v \in Workers : AtSave(v)' =>
                 \/ AtSave(v) /\ job'[v] = job[v]
                 \/ \E j \in Job : job'[v] = j /\ \A k \in j.carried : k[1] \notin Reporters(MonthOf(k))
      PROVE CarriedOnce'
  <2>1. keptMonths' = keptMonths
    BY <1>1 DEF keptMonths
  <2>2. CarriedLater' /\ CarriedLate' /\ OneCarrier'
    BY <1>1, <2>1 DEF CarriedOnce, CarriedLater, CarriedLate, LateStill, Reporters, OneCarrier
  <2>3. ReadLate'
    BY <1>1, <2>1 DEF CarriedOnce, ReadLate, LateStill, Reporters
  <2> QED
    BY <2>2, <2>3 DEF CarriedOnce
<1>2. CASE UNCHANGED vars
  BY <1>1, <1>2 DEF vars, tables, history, AtSave
<1>3. CASE Next /\ ~\E w \in Workers : ReadReports(w) \/ SaveSheet(w)
  BY <1>1, <1>3, QuietSteps DEF Quiet
<1>4. ASSUME NEW w \in Workers, ReadReports(w) PROVE CarriedOnce'
  <2>1. /\ UNCHANGED <<tables, absorbed, passedBy, overtaken, stale>>
        /\ ~AtSave(w) /\ \A v \in Workers \ {w} : job'[v] = job[v]
        /\ \E j \in Job : /\ job'[w] = j
                          /\ j.at = "save" => ReadSound(j) /\ Saw(j)
    BY <1>4, ReadingStep
  <2>2. ASSUME NEW v \in Workers, AtSave(v)'
        PROVE \/ AtSave(v) /\ job'[v] = job[v]
              \/ \E j \in Job : job'[v] = j /\ \A k \in j.carried : k[1] \notin Reporters(MonthOf(k))
    BY <2>1, <2>2 DEF AtSave, Saw, IsLate
  <2> QED
    BY <1>1, <2>1, <2>2 DEF tables
<1> QED
  BY <1>2, <1>3, <1>4, SavingCarries

LEMMA CarriedInit == Init => CarriedOnce
BY DEF Init, CarriedOnce, CarriedLater, CarriedLate, ReadLate, LateStill, OneCarrier, AtSave, Idle, NoSheet

\* "Counted in exactly one sheet ever" (late-carry.ts), for any number of people, months and
\* requests: no two sheets have one report, but for those a confirmation took into their own
\* month and for sheets kept from a reading that another keeping had outdated.
THEOREM ReportsCountOnce == Spec => []CountedOnceUnlessAbsorbed
<1>1. ReadInv /\ TypeOK /\ SpellInv /\ CarriedOnce /\ [Next]_vars => ReadInv' /\ CarriedOnce'
  BY ReadInvStep, CarriedStep
<1> QED
  BY <1>1, InitType, TypeStep, InitSpell, SpellStep, ReadInvInit, CarriedInit, CarriedOnceIs, PTL DEF Spec

----------------------------------------------------------------------------
(* Nobody is passed by.  Of a report that was in whenever a sheet was read   *)
(* and kept since: its month's sheet names it if it was there when the sheet *)
(* was first kept; a sheet carries it only with all the sheets before kept,  *)
(* and with the last of those too old to know it; and where a later sheet    *)
(* knew it and it is late, some sheet carries it, or a gap comes before, or  *)
(* no sheet was left to take it when it came in.                             *)

Clear(k) == k \notin passedBy /\ \A n \in overtaken : n < MonthOf(k)
Carried(k) == \E c \in Month : k \in sheet[c].carried

NamedIfThere(k) == k \in sheet[MonthOf(k)].inBy => k[1] \in sheet[MonthOf(k)].own
CarriedInTurn(k) == \A n \in Month : k \in sheet[n].carried =>
    k \notin sheet[n - 1].inBy /\ \A i \in Month : (MonthOf(k) <= i /\ i < n) => i \in keptMonths
GapBefore(k, n) == \E g \in Month : MonthOf(k) < g /\ g < n /\ g \notin keptMonths
TakenInTime(k) == \A n \in Month :
    (n > MonthOf(k) /\ k \in sheet[n].inBy /\ IsLate(k, keptMonths))
        => Carried(k) \/ GapBefore(k, n) \/ OutOfReach(k)
InTurn(k) == NamedIfThere(k) /\ CarriedInTurn(k) /\ TakenInTime(k)
PassedInv == \A k \in Keys : Clear(k) => InTurn(k)

\* A late report no sheet carries, and that was in reach of one, was known to no sheet before
\* the first gap.
LEMMA UnknownBefore ==
    ASSUME NEW k \in Keys, InTurn(k), IsLate(k, keptMonths), ~Carried(k), ~OutOfReach(k),
           NEW i \in Month, MonthOf(k) <= i, ~GapBefore(k, i)
    PROVE k \notin sheet[i].inBy
<1>1. MonthOf(k) \in Nat /\ i \in Nat
  BY KeyIs
<1>2. CASE i = MonthOf(k)
  BY <1>2 DEF InTurn, NamedIfThere, IsLate, Reporters
<1>3. CASE i # MonthOf(k)
  <2>1. i > MonthOf(k)
    BY <1>1, <1>3
  <2> QED
    BY <2>1 DEF InTurn, TakenInTime
<1> QED
  BY <1>2, <1>3

\* With the sheets of all months that look for it kept, such a report is out of their reach.
LEMMA BeyondReach ==
    ASSUME NEW k \in Keys, InTurn(k), IsLate(k, keptMonths), ~Carried(k),
           NEW n \in 1..(Months + 1), MonthOf(k) + Reach < n,
           \A i \in Month : (MonthOf(k) < i /\ i < n) => i \in keptMonths
    PROVE OutOfReach(k)
<1>1. MonthOf(k) \in Month /\ Month = 1..Months /\ Months \in Nat /\ Reach \in Nat
  BY KeyIs, ReportConstants DEF Month
<1>2. SUFFICES ASSUME ~OutOfReach(k), NEW i \in MonthOf(k)..(MonthOf(k) + Reach)
               PROVE i \in keptMonths /\ k \notin sheet[i].inBy
  BY DEF OutOfReach
<1>3. i \in Month /\ MonthOf(k) <= i /\ i < n
  BY <1>1
<1>4. i \in keptMonths
  BY <1>1, <1>3 DEF IsLate
<1>5. ~GapBefore(k, i)
  BY <1>1, <1>3 DEF GapBefore
<1> QED
  BY <1>2, <1>3, <1>4, <1>5, UnknownBefore

LEMMA PassedIs == ASSUME TypeOK, ReadInv, CarriedOnce, PassedInv PROVE NoneIsPassedBy
<1> SUFFICES ASSUME NEW k \in Keys \ passedBy, counts(k), \A n \in overtaken : n < MonthOf(k),
                    placeLate(k, keptMonths).late, SheetsOf(k) = {}, ~Waits(k), ~OutOfReach(k)
             PROVE FALSE
  BY DEF NoneIsPassedBy
<1>1. InTurn(k) /\ keptMonths \in SUBSET Month
  BY DEF PassedInv, Clear, keptMonths
<1>2. MonthOf(k) \in Month /\ Month = 1..Months /\ Months \in Nat /\ Reach \in Nat
  BY KeyIs, ReportConstants DEF Month
<1>3. ~Carried(k)
  BY DEF Carried, SheetsOf
<1>4. IsLate(k, keptMonths) /\ TakenBy(k, keptMonths) = {}
  BY <1>1, <1>3, PlaceIs DEF TakenBy, Carried, keptMonths
<1>5. PICK n \in 2..(Months + 1) :
         /\ GapIs(k, keptMonths, n)
         /\ placeLate(k, keptMonths) = Into(n) \/ k \in sheet[n - 1].inBy
  BY <1>1, <1>4, PlaceIs
<1>6. n > MonthOf(k) /\ \A i \in Month : (MonthOf(k) < i /\ i < n) => i \in keptMonths
  BY <1>5 DEF GapIs
<1>7. n <= MonthOf(k) + Reach
  <2>1. n \in 1..(Months + 1)
    BY <1>2
  <2>2. ~(MonthOf(k) + Reach < n)
    BY <1>1, <1>3, <1>4, <1>6, <2>1, BeyondReach
  <2> QED
    BY <1>2, <2>1, <2>2
<1>8. placeLate(k, keptMonths) # Into(n)
  <2>1. n \in Month \cup {Months + 1}
    BY <1>2
  <2> QED
    BY <1>6, <1>7, <2>1 DEF Waits, LooksFor
<1>9. PICK p \in Month : p = n - 1 /\ MonthOf(k) <= p
  <2>1. n - 1 \in Month /\ MonthOf(k) <= n - 1
    BY <1>2, <1>6
  <2> QED
    BY <2>1
<1>10. ~GapBefore(k, p)
  BY <1>2, <1>6, <1>9 DEF GapBefore
<1> QED
  BY <1>1, <1>3, <1>4, <1>5, <1>8, <1>9, <1>10, UnknownBefore

\* A sheet kept from a fresh reading, seen from one report that was in when it was read.
LEMMA FreshSaving ==
    ASSUME TypeOK, ReadInv, CarriedOnce, PassedInv, NEW w \in Workers, NEW j \in Job, j = job[w],
           AtSave(w), j.m \in Month, Kept(w, j), NEW k \in Keys, Clear(k)', MonthOf(k) <= j.m
    PROVE /\ InTurn(k) /\ w \notin stale /\ Saw(j) /\ ReadSound(j)
          /\ k \in Rows => k \in j.looked
          /\ Sheets(j) \in SUBSET Month /\ Sheets(j) \subseteq keptMonths
          /\ keptMonths \subseteq Sheets(j) \cup {j.m} /\ keptMonths' = keptMonths \cup {j.m}
<1>1. MonthOf(k) \in Nat /\ j.m \in Nat
  BY KeyIs DEF Month
<1>2. w \notin stale
  <2>1. w \in stale => j.m < MonthOf(k)
    BY DEF Kept, Clear
  <2> QED
    BY <1>1, <2>1
<1>3. Clear(k) /\ (k \in Rows => k \in j.looked)
  BY DEF Kept, Clear
<1>4. keptMonths' = keptMonths \cup {j.m}
  BY DEF Kept, keptMonths
<1> QED
  BY <1>2, <1>3, <1>4 DEF PassedInv, ReadInv, FreshReads, ReadsSound, Sheets, keptMonths

\* The sheet of the report's own month names it, if it was there.
LEMMA NamingStep ==
    ASSUME TypeOK, ReadInv, CarriedOnce, PassedInv, NEW w \in Workers, NEW j \in Job, j = job[w],
           AtSave(w), j.m \in Month, Kept(w, j), NEW k \in Keys, Clear(k)'
    PROVE NamedIfThere(k)'
<1>1. k[1] \in Publishers /\ MonthOf(k) \in Month
  BY KeyIs
<1>2. CASE MonthOf(k) # j.m
  <2>1. sheet'[MonthOf(k)] = sheet[MonthOf(k)] /\ Clear(k)
    BY <1>1, <1>2 DEF Kept, Clear
  <2>2. NamedIfThere(k)
    BY <2>1 DEF PassedInv, InTurn
  <2> QED
    BY <2>1, <2>2 DEF NamedIfThere
<1>3. CASE MonthOf(k) = j.m
  <2>1. /\ InTurn(k) /\ Saw(j) /\ (k \in Rows => k \in j.looked)
        /\ Sheets(j) \subseteq keptMonths
    <3>1. MonthOf(k) <= j.m
      BY <1>3, KeyIs DEF Month
    <3> QED
      BY <3>1, FreshSaving
  <2>2. ASSUME k \in sheet'[j.m].inBy PROVE k[1] \in j.own
    <3>1. k \in Rows /\ (sheet[j.m].kept # "no" => k \in sheet[j.m].inBy)
      BY <2>2 DEF Kept, ReadInv, SheetsSound
    <3>2. k[1] \in j.own <=> ~IsLate(k, Sheets(j))
      BY <1>3, <2>1, <3>1 DEF Saw
    <3>3. ASSUME IsLate(k, Sheets(j)) PROVE FALSE
      <4>1. j.m \in keptMonths /\ k[1] \notin Reporters(j.m)
        BY <1>3, <2>1, <3>3 DEF IsLate
      <4>2. k[1] \in sheet[j.m].own
        BY <1>3, <2>1, <3>1, <4>1 DEF keptMonths, InTurn, NamedIfThere
      <4> QED
        BY <4>1, <4>2 DEF Reporters
    <3> QED
      BY <3>2, <3>3
  <2> QED
    BY <1>3, <2>2 DEF NamedIfThere, Kept
<1> QED
  BY <1>2, <1>3

\* A report is carried in its turn.
LEMMA TurnStep ==
    ASSUME TypeOK, ReadInv, CarriedOnce, PassedInv, NEW w \in Workers, NEW j \in Job, j = job[w],
           AtSave(w), j.m \in Month, Kept(w, j), NEW k \in Keys, Clear(k)'
    PROVE CarriedInTurn(k)'
<1> SUFFICES ASSUME NEW n \in Month, k \in sheet'[n].carried
             PROVE /\ k \notin sheet'[n - 1].inBy
                   /\ \A i \in Month : (MonthOf(k) <= i /\ i < n) => i \in keptMonths'
  BY DEF CarriedInTurn
<1>1. MonthOf(k) \in Month /\ Month = 1..Months /\ Months \in Nat
  BY KeyIs, ReportConstants DEF Month
<1>2. Clear(k) /\ InTurn(k)
  BY DEF Kept, Clear, PassedInv
<1>3. keptMonths \subseteq keptMonths'
  BY DEF Kept, keptMonths
<1>4. CASE n # j.m
  <2>1. k \in sheet[n].carried
    BY <1>4 DEF Kept
  <2>2. /\ MonthOf(k) < n /\ k \notin sheet[n - 1].inBy
        /\ \A i \in Month : (MonthOf(k) <= i /\ i < n) => i \in keptMonths
    BY <1>2, <2>1 DEF CarriedOnce, CarriedLater, InTurn, CarriedInTurn
  <2>3. PICK p \in Month : p = n - 1 /\ MonthOf(k) <= p /\ p < n
    BY <1>1, <2>2
  <2>4. p \in keptMonths
    BY <2>2, <2>3
  <2>5. sheet'[p].inBy = sheet[p].inBy
    BY <2>4 DEF Kept, keptMonths
  <2> QED
    BY <1>3, <2>2, <2>3, <2>5
<1>5. CASE n = j.m
  <2>1. k \in j.carried
    BY <1>5 DEF Kept
  <2>2. MonthOf(k) < j.m
    BY <2>1 DEF ReadInv, ReadsSound, ReadSound
  <2>3. Saw(j) /\ Sheets(j) \subseteq keptMonths
    <3>1. MonthOf(k) <= j.m
      BY <1>1, <2>2
    <3> QED
      BY <3>1, FreshSaving
  <2>4. PICK p \in Month : p = n - 1 /\ MonthOf(k) <= p /\ p < n
    <3>1. n - 1 \in Month /\ MonthOf(k) <= n - 1 /\ n - 1 < n
      BY <1>1, <1>5, <2>2
    <3> QED
      BY <3>1
  <2>5. sheet'[p].inBy = sheet[p].inBy
    BY <1>1, <1>5, <2>4 DEF Kept
  <2>6. k \notin sheet[p].inBy /\ \A i \in Month : (MonthOf(k) <= i /\ i < n) => i \in keptMonths
    <3>1. CASE k \in sheet[j.m].carried
      BY <1>2, <1>5, <2>4, <3>1 DEF InTurn, CarriedInTurn
    <3>2. CASE Takes(k, Sheets(j), j.m)
      <4>1. k \notin sheet[p].inBy /\ \A i \in Month : (MonthOf(k) < i /\ i < n) => i \in keptMonths
        BY <1>5, <2>3, <2>4, <3>2 DEF Takes, GapIs
      <4>2. MonthOf(k) \in keptMonths
        BY <2>1, <2>3 DEF Saw, IsLate
      <4>3. \A i \in Month : MonthOf(k) <= i => i = MonthOf(k) \/ MonthOf(k) < i
        BY <1>1
      <4> QED
        BY <4>1, <4>2, <4>3
    <3> QED
      BY <2>1, <2>3, <3>1, <3>2 DEF Saw
  <2> QED
    BY <1>3, <2>4, <2>5, <2>6
<1> QED
  BY <1>4, <1>5

\* A sheet kept for a month after the report's: the report is on some sheet afterwards, if this
\* sheet had it before, or if this one is the first gap and is filled.
LEMMA GapFilled ==
    ASSUME TypeOK, ReadInv, CarriedOnce, PassedInv, NEW w \in Workers, NEW j \in Job, j = job[w],
           AtSave(w), j.m \in Month, Kept(w, j), NEW k \in Keys, Clear(k)', MonthOf(k) < j.m,
           k \in Rows, IsLate(k, keptMonths), ~OutOfReach(k),
           \/ Carried(k)
           \/ j.m \notin keptMonths /\ \A i \in Month : (MonthOf(k) < i /\ i < j.m) => i \in keptMonths
    PROVE Carried(k)'
<1>1. MonthOf(k) \in Month /\ Month = 1..Months /\ Months \in Nat /\ Reach \in Nat
  BY KeyIs, ReportConstants DEF Month
<1>2. /\ InTurn(k) /\ Saw(j) /\ k \in j.looked
      /\ Sheets(j) \subseteq keptMonths /\ keptMonths \subseteq Sheets(j) \cup {j.m}
  <2>1. MonthOf(k) <= j.m
    BY <1>1
  <2> QED
    BY <2>1, FreshSaving
<1>3. ASSUME NEW c \in Month, c # j.m, k \in sheet[c].carried PROVE Carried(k)'
  BY <1>3 DEF Kept, Carried
<1>4. ASSUME k \in j.carried PROVE Carried(k)'
  BY <1>4 DEF Kept, Carried
<1>5. IsLate(k, Sheets(j))
  BY <1>1, <1>2 DEF IsLate
<1>6. ASSUME TakenBy(k, Sheets(j)) # {} PROVE Carried(k)'
  <2>1. \A n \in TakenBy(k, Sheets(j)) : n \in Month /\ k \in sheet[n].carried
    BY <1>2 DEF TakenBy, keptMonths
  <2>2. CASE \E n \in TakenBy(k, Sheets(j)) : n # j.m
    BY <1>3, <2>1, <2>2
  <2>3. CASE \A n \in TakenBy(k, Sheets(j)) : n = j.m
    <3>1. j.m <= MonthOf(k) + Reach
      BY <1>6, <2>1, <2>3 DEF CarriedOnce, CarriedLater
    <3>2. k \in j.carried
      BY <1>2, <1>5, <1>6, <2>3, <3>1 DEF Saw
    <3> QED
      BY <1>4, <3>2
  <2> QED
    BY <2>2, <2>3
<1>7. ASSUME Takes(k, Sheets(j), j.m), j.m <= MonthOf(k) + Reach PROVE Carried(k)'
  BY <1>2, <1>4, <1>5, <1>7 DEF Saw
<1>8. ASSUME NEW c \in Month, k \in sheet[c].carried PROVE Carried(k)'
  <2>1. CASE c # j.m
    BY <1>3, <1>8, <2>1
  <2>2. CASE c = j.m /\ j.m \in Sheets(j)
    <3>1. j.m \in TakenBy(k, Sheets(j))
      BY <1>1, <1>8, <2>2 DEF TakenBy
    <3> QED
      BY <1>6, <3>1
  <2>3. CASE c = j.m /\ j.m \notin Sheets(j) /\ TakenBy(k, Sheets(j)) = {}
    <3>1. /\ k \notin sheet[j.m - 1].inBy
          /\ \A i \in Month : (MonthOf(k) <= i /\ i < j.m) => i \in keptMonths
      BY <1>2, <1>8, <2>3 DEF InTurn, CarriedInTurn
    <3>2. \A i \in Month : (MonthOf(k) < i /\ i < j.m) => i \in Sheets(j)
      BY <1>1, <1>2, <3>1
    <3>3. Takes(k, Sheets(j), j.m)
      BY <1>1, <2>3, <3>1, <3>2 DEF Takes, GapIs
    <3>4. j.m <= MonthOf(k) + Reach
      BY <1>8, <2>3 DEF CarriedOnce, CarriedLater
    <3> QED
      BY <1>7, <3>3, <3>4
  <2> QED
    BY <1>6, <2>1, <2>2, <2>3
<1>9. ASSUME j.m \notin keptMonths, \A i \in Month : (MonthOf(k) < i /\ i < j.m) => i \in keptMonths,
             ~Carried(k)
      PROVE Carried(k)'
  <2>1. PICK p \in Month : p = j.m - 1 /\ MonthOf(k) <= p /\ p < j.m
    <3>1. j.m - 1 \in Month /\ MonthOf(k) <= j.m - 1 /\ j.m - 1 < j.m
      BY <1>1
    <3> QED
      BY <3>1
  <2>2. Sheets(j) = keptMonths
    BY <1>2, <1>9
  <2>3. GapIs(k, Sheets(j), j.m)
    BY <1>1, <1>9, <2>2 DEF GapIs
  <2>4. k \notin sheet[p].inBy
    <3>1. ~GapBefore(k, p)
      BY <1>1, <1>9, <2>1 DEF GapBefore
    <3> QED
      BY <1>2, <1>9, <2>1, <3>1, UnknownBefore
  <2>5. j.m <= MonthOf(k) + Reach
    <3>1. j.m \in 1..(Months + 1) /\ j.m \in Nat /\ MonthOf(k) \in Nat
      BY <1>1
    <3>2. ~(MonthOf(k) + Reach < j.m)
      BY <1>2, <1>9, <3>1, BeyondReach
    <3> QED
      BY <1>1, <3>1, <3>2
  <2>6. CASE TakenBy(k, Sheets(j)) = {}
    BY <1>7, <2>1, <2>3, <2>4, <2>5, <2>6 DEF Takes
  <2> QED
    BY <1>6, <2>6
<1>10. CASE Carried(k)
  BY <1>8, <1>10 DEF Carried
<1> QED
  BY <1>9, <1>10

\* A kept month stays kept and the rows there were at its keeping are fixed, so a report out of
\* reach stays so.
LEMMA StaysOutOfReach ==
    ASSUME NEW w, NEW j, j.m \in Month, Kept(w, j), NEW k \in Keys, OutOfReach(k)
    PROVE OutOfReach(k)'
<1> SUFFICES ASSUME NEW i \in MonthOf(k)..(MonthOf(k) + Reach)
             PROVE i \in keptMonths' /\ k \notin sheet'[i].inBy
  BY DEF OutOfReach
<1>1. i \in keptMonths /\ k \notin sheet[i].inBy
  BY DEF OutOfReach
<1>2. i \in Month /\ sheet[i].kept # "no"
  BY <1>1 DEF keptMonths
<1>3. i \in keptMonths'
  BY <1>1, <1>2 DEF Kept, keptMonths
<1>4. sheet'[i].inBy = sheet[i].inBy
  BY <1>2 DEF Kept
<1> QED
  BY <1>1, <1>3, <1>4

\* A report that a sheet knew, and that is late, is on a sheet, or has a gap before that one, or
\* came in when no sheet could take it.
LEMMA TimeStep ==
    ASSUME TypeOK, ReadInv, CarriedOnce, PassedInv, NEW w \in Workers, NEW j \in Job, j = job[w],
           AtSave(w), j.m \in Month, Kept(w, j), NEW k \in Keys, Clear(k)'
    PROVE TakenInTime(k)'
<1> SUFFICES ASSUME NEW n \in Month, n > MonthOf(k), k \in sheet'[n].inBy, IsLate(k, keptMonths)',
                    ~GapBefore(k, n)', ~OutOfReach(k)'
             PROVE Carried(k)'
  BY DEF TakenInTime
<1>1. MonthOf(k) \in Month /\ Month = 1..Months /\ Months \in Nat
  BY KeyIs, ReportConstants DEF Month
<1>2. Clear(k) /\ InTurn(k)
  BY DEF Kept, Clear, PassedInv
<1>3. keptMonths' = keptMonths \cup {j.m}
  BY DEF Kept, keptMonths
<1>11. ~OutOfReach(k)
  BY StaysOutOfReach
<1>4. /\ \A i \in Month : (MonthOf(k) < i /\ i < n /\ i # j.m) => i \in keptMonths
      /\ MonthOf(k) \in keptMonths' /\ k[1] \notin Reporters(MonthOf(k))'
  BY <1>3 DEF GapBefore, IsLate
<1>5. k \in Rows /\ (k \in sheet[n].inBy \/ (n = j.m /\ j.m \notin keptMonths))
  BY DEF Kept, ReadInv, SheetsSound, keptMonths
<1>6. ASSUME MonthOf(k) # j.m PROVE IsLate(k, keptMonths)
  <2>1. sheet'[MonthOf(k)] = sheet[MonthOf(k)]
    BY <1>1, <1>6 DEF Kept
  <2> QED
    BY <1>3, <1>4, <1>6, <2>1 DEF IsLate, Reporters
<1>7. ASSUME NEW c \in Month, c # j.m, k \in sheet[c].carried PROVE Carried(k)'
  BY <1>7 DEF Kept, Carried
<1>8. CASE j.m < MonthOf(k)
  <2>1. IsLate(k, keptMonths)
    BY <1>1, <1>6, <1>8
  <2>2. k \in sheet[n].inBy /\ ~GapBefore(k, n)
    BY <1>1, <1>4, <1>5, <1>8 DEF GapBefore
  <2>3. PICK c \in Month : k \in sheet[c].carried
    BY <1>2, <1>11, <2>1, <2>2 DEF InTurn, TakenInTime, Carried
  <2>4. MonthOf(k) < c
    BY <2>3 DEF CarriedOnce, CarriedLater
  <2> QED
    BY <1>1, <1>7, <1>8, <2>3, <2>4
<1>9. CASE j.m = MonthOf(k)
  <2>1. Saw(j) /\ k \in j.looked /\ Sheets(j) \subseteq keptMonths
    <3>1. MonthOf(k) <= j.m
      BY <1>1, <1>9
    <3> QED
      BY <1>5, <3>1, FreshSaving
  <2>2. k[1] \notin j.own
    BY <1>4, <1>9 DEF Kept, Reporters
  <2>3. IsLate(k, Sheets(j))
    BY <1>9, <2>1, <2>2 DEF Saw
  <2>4. IsLate(k, keptMonths)
    BY <2>1, <2>3 DEF IsLate
  <2>5. k \in sheet[n].inBy /\ ~GapBefore(k, n)
    BY <1>1, <1>4, <1>5, <1>9 DEF GapBefore
  <2>6. PICK c \in Month : k \in sheet[c].carried
    BY <1>2, <1>11, <2>4, <2>5 DEF InTurn, TakenInTime, Carried
  <2>7. MonthOf(k) < c
    BY <2>6 DEF CarriedOnce, CarriedLater
  <2> QED
    BY <1>1, <1>7, <1>9, <2>6, <2>7
<1>10. CASE MonthOf(k) < j.m
  <2>1. IsLate(k, keptMonths)
    BY <1>1, <1>6, <1>10
  <2>2. CASE Carried(k)
    BY <1>5, <1>10, <1>11, <2>1, <2>2, GapFilled
  <2>3. CASE ~Carried(k) /\ k \in sheet[n].inBy
    <3>1. GapBefore(k, n)
      BY <1>2, <1>11, <2>1, <2>3 DEF InTurn, TakenInTime
    <3>2. j.m \notin keptMonths /\ j.m < n
      BY <1>4, <3>1 DEF GapBefore
    <3>3. \A i \in Month : (MonthOf(k) < i /\ i < j.m) => i \in keptMonths
      BY <1>1, <1>4, <3>2
    <3> QED
      BY <1>5, <1>10, <1>11, <2>1, <3>2, <3>3, GapFilled
  <2>4. CASE n = j.m /\ j.m \notin keptMonths
    <3>1. \A i \in Month : (MonthOf(k) < i /\ i < j.m) => i \in keptMonths
      BY <1>1, <1>4, <2>4
    <3> QED
      BY <1>5, <1>10, <1>11, <2>1, <2>4, <3>1, GapFilled
  <2> QED
    BY <1>5, <2>2, <2>3, <2>4
<1> QED
  BY <1>1, <1>8, <1>9, <1>10

LEMMA PassedStep ==
    ASSUME TypeOK, SpellInv, ReadInv, CarriedOnce, PassedInv, [Next]_vars
    PROVE PassedInv'
<1>1. ASSUME UNCHANGED <<sheet, passedBy, overtaken>> PROVE PassedInv'
  <2>1. keptMonths' = keptMonths
    BY <1>1 DEF keptMonths
  <2>2. ASSUME NEW k \in Keys, Clear(k)' PROVE InTurn(k)'
    <3>1. InTurn(k)
      BY <1>1, <2>2 DEF Clear, PassedInv
    <3>2. NamedIfThere(k)' /\ CarriedInTurn(k)'
      BY <1>1, <2>1, <3>1 DEF InTurn, NamedIfThere, CarriedInTurn
    <3>3. TakenInTime(k)'
      BY <1>1, <2>1, <3>1 DEF InTurn, TakenInTime, Carried, GapBefore, IsLate, Reporters, OutOfReach
    <3> QED
      BY <3>2, <3>3 DEF InTurn
  <2> QED
    BY <2>2 DEF PassedInv
<1>2. CASE UNCHANGED vars
  BY <1>1, <1>2 DEF vars, tables, history
<1>3. CASE Next /\ ~\E w \in Workers : ReadReports(w) \/ SaveSheet(w)
  BY <1>1, <1>3, QuietSteps DEF Quiet
<1>4. ASSUME NEW w \in Workers, ReadReports(w) PROVE PassedInv'
  BY <1>1, <1>4, ReadingStep DEF tables
<1>5. ASSUME NEW w \in Workers, SaveSheet(w) PROVE PassedInv'
  <2>1. AtSave(w)
    BY <1>5, SavingStep
  <2>2. PICK j \in Job : j = job[w] /\ j.at = "save" /\ j.m \in Month /\ (Kept(w, j) \/ Refuses(w))
    BY <1>5, SavingStep
  <2>3. CASE Refuses(w)
    BY <1>1, <2>3 DEF Refuses
  <2>4. CASE Kept(w, j)
    <3>1. ASSUME NEW k \in Keys, Clear(k)' PROVE InTurn(k)'
      BY <2>1, <2>2, <2>4, <3>1, NamingStep, TurnStep, TimeStep DEF InTurn
    <3> QED
      BY <3>1 DEF PassedInv
  <2> QED
    BY <2>2, <2>3, <2>4
<1> QED
  BY <1>2, <1>3, <1>4, <1>5

LEMMA PassedInit == Init => PassedInv
BY KeyIs DEF Init, PassedInv, InTurn, NamedIfThere, CarriedInTurn, TakenInTime, NoSheet

\* No report is passed by, for any number of people, months and requests and any reach of the
\* sheets: one that was in whenever a sheet was read and kept since is on a sheet, or was on time,
\* or waits for an open month that looks for it, or came in when the sheets of all months that
\* look for it were kept; unless its month's sheet or a later one was kept from an outdated reading.
THEOREM NobodyIsPassedBy == Spec => []NoneIsPassedBy
<1>1. /\ TypeOK /\ SpellInv /\ ReadInv /\ CarriedOnce /\ PassedInv /\ [Next]_vars
      => ReadInv' /\ CarriedOnce' /\ PassedInv'
  BY ReadInvStep, CarriedStep, PassedStep
<1> QED
  BY <1>1, InitType, TypeStep, InitSpell, SpellStep, ReadInvInit, CarriedInit, PassedInit, PassedIs,
     PTL DEF Spec
=============================================================================
