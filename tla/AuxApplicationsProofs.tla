----------------------- MODULE AuxApplicationsProofs -----------------------
(* What an application promises, for any committee, months, moments,        *)
(* requests and failures: what is approved was answered by enough of the    *)
(* committee, each of them once, and every month of it is served.           *)
EXTENDS AuxApplications, FiniteSetTheorems, WellFoundedInduction, TLAPS

----------------------------------------------------------------------------
(* Runs of months.                                                          *)

\* A set of numbers has a least one.
LEMMA LeastOne ==
    ASSUME NEW T \in SUBSET Nat, T # {}
    PROVE \E x \in T : \A y \in T : x <= y
<1>1. IsWellFoundedOn(OpToRel(<, Nat), Nat)
  BY NatLessThanWellFounded
<1>2. PICK x \in T : \A y \in T : ~ (<<y, x>> \in OpToRel(<, Nat))
  BY <1>1, WFMin
<1>3. ASSUME NEW y \in T
      PROVE x <= y
  <2>1. ~(<<y, x>> \in OpToRel(<, Nat))
    BY <1>2
  <2>2. ~(y < x)
    BY <2>1 DEF OpToRel
  <2> QED
    BY <2>2
<1> QED
  BY <1>3

\* So has a set of runs, by their first months.
LEMMA FirstIsOne ==
    ASSUME NEW L \in SUBSET Run, L # {}
    PROVE First(L) \in L
<1> DEFINE T == {r.from : r \in L}
<1>1. T \in SUBSET Nat /\ T # {}
  BY DEF Run, Month
<1>2. PICK x \in T : \A y \in T : x <= y
  BY <1>1, LeastOne
<1>3. PICK r \in L : x = r.from
  BY <1>2
<1>4. \A y \in L : r.from <= y.from
  BY <1>2, <1>3
<1> QED
  BY <1>3, <1>4 DEF First

\* Every month of a set stands in one of its runs.
LEMMA RunsCover ==
    ASSUME NEW M \in SUBSET Month, NEW m \in M
    PROVE \E r \in toRuns(M) : m \in Span(r)
<1>0. Months \in Nat /\ m \in Nat /\ m <= Months /\ M \subseteq Nat /\ 0 \notin M
  BY AuxConstants DEF Month
<1> DEFINE T == {n \in 1..m : n..m \subseteq M}
           U == {n \in m..Months : m..n \subseteq M}
           V == {Months - n : n \in U}
<1>1. m \in T /\ m \in U
  BY <1>0 DEF Month
<1>2. PICK f \in T : \A n \in T : f <= n
  <2>1. T \in SUBSET Nat /\ T # {}
    BY <1>0, <1>1
  <2> HIDE DEF T
  <2> QED
    BY <2>1, LeastOne
<1>3. PICK v \in V : \A x \in V : v <= x
  <2>1. V \in SUBSET Nat
    BY <1>0
  <2>2. V # {}
    BY <1>1
  <2> HIDE DEF V
  <2> QED
    BY <2>1, <2>2, LeastOne
<1>4. PICK t \in U : v = Months - t
  BY <1>3
<1>5. \A n \in U : n <= t
  <2> TAKE n \in U
  <2>1. Months - n \in V
    OBVIOUS
  <2>2. Months - t <= Months - n
    BY <2>1, <1>3, <1>4
  <2> QED
    BY <2>2, <1>0, <1>4
<1>6. f \in 1..m /\ t \in m..Months /\ f..t \subseteq M
  <2>1. f \in 1..m /\ t \in m..Months /\ f..m \subseteq M /\ m..t \subseteq M
    BY <1>2, <1>4
  <2>2. \A x \in f..t : x \in f..m \/ x \in m..t
    BY <2>1, <1>0
  <2> QED
    BY <2>1, <2>2
<1>7. f - 1 \notin M
  <2> SUFFICES ASSUME f - 1 \in M
               PROVE FALSE
    OBVIOUS
  <2>1. f - 1 \in 1..m
    BY <1>0, <1>6
  <2>2. (f - 1)..m \subseteq M
    <3>1. \A x \in (f - 1)..m : x = f - 1 \/ x \in f..m
      BY <1>0, <1>6
    <3>2. f..m \subseteq M
      BY <1>2
    <3> QED
      BY <3>1, <3>2
  <2>3. f - 1 \in T
    BY <2>1, <2>2
  <2> QED
    BY <2>3, <1>2, <1>6, <1>0
<1>8. t + 1 \notin M
  <2> SUFFICES ASSUME t + 1 \in M
               PROVE FALSE
    OBVIOUS
  <2>1. t + 1 \in m..Months
    BY <1>0, <1>6 DEF Month
  <2>2. m..(t + 1) \subseteq M
    <3>1. \A x \in m..(t + 1) : x = t + 1 \/ x \in m..t
      BY <1>0, <1>6
    <3>2. m..t \subseteq M
      BY <1>4
    <3> QED
      BY <3>1, <3>2
  <2>3. t + 1 \in U
    BY <2>1, <2>2
  <2> QED
    BY <2>3, <1>5, <1>6, <1>0
<1>9. f \in M /\ t \in M /\ m \in f..t
  BY <1>6, <1>0
<1> DEFINE r == [from |-> f, to |-> t]
<1>10. r \in toRuns(M)
  BY <1>6, <1>7, <1>8, <1>9 DEF toRuns
<1>11. m \in Span(r)
  BY <1>9 DEF Span
<1> QED
  BY <1>10, <1>11

\* The runs made of the months asked for are runs; together with what is left out at once
\* they are what was asked for.
LEMMA RunsOfMonths ==
    ASSUME NEW e \in Application, NEW M \in SUBSET Month
    PROVE RunsOf(e, M) \in SUBSET Run
<1>0. Month \subseteq 1..OpenEnd /\ OpenEnd \in 1..OpenEnd
  BY AuxConstants DEF Month, OpenEnd
<1>1. toRuns(M) \subseteq Run
  <2>1. [from: M, to: M] \subseteq Run
    BY <1>0 DEF Run
  <2> QED
    BY <2>1 DEF toRuns
<1>2. {[from |-> m, to |-> OpenEnd] : m \in M} \subseteq Run
  BY <1>0 DEF Run
<1> QED
  BY <1>1, <1>2 DEF RunsOf

OneMonth(e) == e.untilCancelled => \E m \in Month : e.months = {m}

LEMMA RunsAndLeftOut ==
    ASSUME NEW e \in Application, OneMonth(e)
    PROVE Wanted(e) \subseteq LeftBy(e) \cup UNION {Span(r) : r \in RunsOf(e, e.months \ closed)}
<1>0. e.months \in SUBSET Month
  BY DEF Application
<1>1. CASE ~e.untilCancelled
  <2> SUFFICES ASSUME NEW m \in e.months, m \notin closed
               PROVE \E r \in RunsOf(e, e.months \ closed) : m \in Span(r)
    BY <1>1 DEF Wanted, LeftBy
  <2>1. RunsOf(e, e.months \ closed) = toRuns(e.months \ closed)
    BY <1>1 DEF RunsOf
  <2> QED
    BY <2>1, <1>0, RunsCover
<1>2. CASE e.untilCancelled
  <2>1. PICK m \in Month : e.months = {m}
    BY <1>2 DEF OneMonth
  <2>2. CASE m \in closed
    BY <1>2, <2>1, <2>2 DEF LeftBy
  <2>3. CASE m \notin closed
    <3> DEFINE run == [from |-> m, to |-> OpenEnd]
    <3>1. run \in RunsOf(e, e.months \ closed)
      BY <1>2, <2>1, <2>3 DEF RunsOf
    <3>2. Wanted(e) \subseteq Span(run)
      BY <1>2, <2>1, AuxConstants DEF Wanted, Span, Month, OpenEnd
    <3> QED
      BY <3>1, <3>2
  <2> QED
    BY <2>2, <2>3
<1> QED
  BY <1>1, <1>2 DEF Application

LEMMA SpansAreMonths ==
    /\ \A r \in Run : Span(r) \subseteq 1..OpenEnd
    /\ \A p \in Period : Span(p) \subseteq 1..OpenEnd
<1>1. \A from \in Month, to \in 1..OpenEnd : from..to \subseteq 1..OpenEnd
  BY AuxConstants DEF OpenEnd, Month
<1>2. ASSUME NEW r \in Run
      PROVE Span(r) \subseteq 1..OpenEnd
  BY <1>1 DEF Run, Span
<1>3. ASSUME NEW p \in Period
      PROVE Span(p) \subseteq 1..OpenEnd
  BY <1>1 DEF Period, Span
<1> QED
  BY <1>2, <1>3

LEMMA LeftOutAreMonths ==
    ASSUME NEW e \in Application
    PROVE LeftBy(e) \subseteq 1..OpenEnd
BY AuxConstants DEF LeftBy, Wanted, Application, OpenEnd, Month

----------------------------------------------------------------------------
(* Types.                                                                   *)

\* A job at a step has what that step works with.
LEMMA JobFields ==
    ASSUME NEW j \in Job
    PROVE /\ j.at \in {"idle", "insert", "seats", "rewrite", "settle", "erase", "answer", "open", "runs",
                       "make", "period", "span", "delete"}
          /\ j.at = "insert" => j.e \in Application /\ j.signed \in Signatures
          /\ j.at = "seats" => /\ j.a \in App /\ j.e \in Application /\ j.left \in SUBSET Seats
                               /\ j.signed \in Signatures /\ j.holds \in [Seats -> SUBSET Users]
                               /\ j = [at |-> "seats", a |-> j.a, e |-> j.e, left |-> j.left,
                                       signed |-> j.signed, holds |-> j.holds]
          /\ j.at \in {"rewrite", "settle"} => j.a \in App /\ j.e \in Application
          /\ j.at = "erase" => j.a \in App
          /\ j.at \in {"answer", "open"} => j.a \in App /\ j.e \in Application /\ j.s \in Seats /\ j.row \in Row
          /\ j.at = "runs" => /\ j.a \in App /\ j.e \in Application /\ j.left \in SUBSET Run
                              /\ j = [at |-> "runs", a |-> j.a, e |-> j.e, left |-> j.left]
          /\ j.at = "make" => j.a \in App /\ j.e \in Application /\ j.left \in SUBSET Run /\ j.run \in Run
          /\ j.at = "period" => j.run \in Run
          /\ j.at = "span" => j.was \in Period /\ j.run \in Run
          /\ j.at = "delete" => j.was \in Period
BY DEF Job

LEMMA GoesOn ==
    ASSUME job \in [Workers -> Job], NEW w \in Workers, NEW next, Goes(w, next)
    PROVE /\ job'[w] = next
          /\ \A v \in Workers \ {w} : job'[v] = job[v]
          /\ next \in Job => job' \in [Workers -> Job]
BY DEF Goes

LEMMA IdleJob == Idle \in Job /\ Idle.at = "idle"
BY DEF Idle, Job

LEMMA NoRows ==
    /\ NoRow \in Row /\ ~NoRow.is /\ NoRow.by = Nobody /\ NoRow.open = "no"
    /\ FreshRow \in Row /\ FreshRow.is /\ FreshRow.by = Nobody /\ FreshRow.open = "no"
    /\ [FreshRow EXCEPT !.open = "opened"] \in Row /\ [FreshRow EXCEPT !.open = "applicant"] \in Row
    /\ \A u \in Users : [FreshRow EXCEPT !.by = u] \in Row
    /\ NoApp \in Application /\ NoApp.state = "none" /\ ~NoApp.paper /\ ~NoApp.untilCancelled
<1>1. NoRow \in Row /\ ~NoRow.is /\ NoRow.by = Nobody /\ NoRow.open = "no"
  BY DEF NoRow, Row, Reasons
<1>2. FreshRow \in Row /\ FreshRow.is /\ FreshRow.by = Nobody /\ FreshRow.open = "no"
  BY DEF NoRow, FreshRow, Row, Reasons
<1>3. /\ [FreshRow EXCEPT !.open = "opened"] \in Row /\ [FreshRow EXCEPT !.open = "applicant"] \in Row
      /\ \A u \in Users : [FreshRow EXCEPT !.by = u] \in Row
  BY <1>2 DEF Row, Reasons
<1>4. NoApp \in Application /\ NoApp.state = "none" /\ ~NoApp.paper /\ ~NoApp.untilCancelled
  BY AuxConstants DEF NoApp, Application
<1> QED
  BY <1>1, <1>2, <1>3, <1>4

\* A row written from another: answered, opened, or reminded.
LEMMA ChangedRow ==
    ASSUME NEW row \in Row
    PROVE /\ \A u \in Users : LET n == [row EXCEPT !.by = u] IN
               n \in Row /\ n.is = row.is /\ n.by = u /\ n.open = row.open
          /\ \A why \in Reasons, u \in Users \cup {Nobody} : LET n == [row EXCEPT !.open = why, !.opener = u] IN
               n \in Row /\ n.is = row.is /\ n.by = row.by /\ n.open = why
          /\ LET n == [row EXCEPT !.reminded = TRUE] IN
               n \in Row /\ n.is = row.is /\ n.by = row.by /\ n.open = row.open
BY DEF Row

\* An application written from another.
LEMMA ChangedApp ==
    ASSUME NEW e \in Application
    PROVE /\ LET n == [e EXCEPT !.at = now] IN
               now \in 0..Moments => /\ n \in Application /\ n.state = e.state /\ n.months = e.months
                                     /\ n.untilCancelled = e.untilCancelled /\ n.paper = e.paper
          /\ LET n == [e EXCEPT !.state = "approved"] IN
               /\ n \in Application /\ n.state = "approved" /\ n.months = e.months
               /\ n.untilCancelled = e.untilCancelled /\ n.paper = e.paper
          /\ LET n == [e EXCEPT !.state = "gone"] IN
               /\ n \in Application /\ n.state = "gone" /\ n.months = e.months
               /\ n.untilCancelled = e.untilCancelled /\ n.paper = e.paper
          /\ \A M \in SUBSET Month, until \in BOOLEAN :
               LET n == [e EXCEPT !.months = M, !.untilCancelled = until] IN
               /\ n \in Application /\ n.state = e.state /\ n.months = M
               /\ n.untilCancelled = until /\ n.paper = e.paper
<1>1. \A M \in SUBSET Month, until \in BOOLEAN :
               LET n == [e EXCEPT !.months = M, !.untilCancelled = until] IN
               /\ n \in Application /\ n.state = e.state /\ n.months = M
               /\ n.untilCancelled = until /\ n.paper = e.paper
  BY DEF Application
<1> QED
  BY <1>1 DEF Application

\* A request that begins is a well-formed job, and nothing else changes.
LEMMA BeginType ==
    ASSUME TypeOK, NEW r \in Requests, NEW kind, NEW next \in Job, Begin(r, kind), Goes(r, next)
    PROVE TypeOK'
<1>1. job' \in [Workers -> Job]
  BY GoesOn DEF Workers, TypeOK
<1>2. used' \in 0..MaxUsed
  BY AuxConstants DEF Begin, TypeOK
<1> QED
  BY <1>1, <1>2 DEF Begin, TypeOK, tables, world, history

\* A period somebody writes back was given its id.
IssuedBefore == \A w \in Workers : job[w].at = "span" => job[w].was.id <= issued
TypeInv == TypeOK /\ IssuedBefore

\* The ids are 1..Apps, and the next one free is an id.
LEMMA NextIdIsFree ==
    ASSUME \E a \in App : app[a].state = "none"
    PROVE NextId \in App /\ app[NextId].state = "none"
<1> DEFINE T == {a \in App : app[a].state = "none"}
<1>1. T \in SUBSET Nat /\ T # {}
  BY AuxConstants DEF App
<1>2. PICK a \in T : \A y \in T : a <= y
  <2> HIDE DEF T
  <2> QED
    BY <1>1, LeastOne
<1>3. a \in App /\ app[a].state = "none" /\ \A b \in 1..(a - 1) : app[b].state # "none"
  <2>1. ASSUME NEW b \in 1..(a - 1), app[b].state = "none"
        PROVE FALSE
    <3>1. b \in App /\ b < a
      BY <1>2, AuxConstants DEF App
    <3> QED
      BY <1>2, <2>1, <3>1, AuxConstants DEF App
  <2> QED
    BY <1>2, <2>1
<1> QED
  BY <1>3 DEF NextId

LEMMA WorkerKinds ==
    /\ Nightly \in Workers /\ \A r \in Requests : r \in Workers /\ r # Nightly
    /\ Month \subseteq Nat /\ \A M \in Choices : M \in SUBSET Month
BY AuxConstants DEF Workers, Month

\* What the places tell of who answers.
LEMMA WhereOneAnswers ==
    ASSUME NEW R, NEW H, NEW u
    PROVE /\ Targets(R, H, u) \subseteq Unanswered(R)
          /\ \A s \in Unanswered(R) : s \in Seats /\ R[s].is /\ R[s].by = Nobody
          /\ \A s \in Seats : isHisToAnswer(R, s, H, u) => s \in Unanswered(R)
BY DEF Targets, isHisToAnswer, Unanswered, Exists

\* What each request has read when it begins.
Begun(next) ==
    \/ /\ next.at = "insert" /\ next.e.state = "pending" /\ next.e.months \in Choices
       /\ (next.e.untilCancelled => Cardinality(next.e.months) = 1)
       /\ (next.e.paper => Cardinality(DOMAIN next.signed) >= 2)
    \/ /\ next.at = "rewrite" /\ app[next.a].state = "pending" /\ next.e.state = "pending"
       /\ next.e.months \in Choices /\ next.e.paper = app[next.a].paper
       /\ (next.e.untilCancelled => Cardinality(next.e.months) = 1)
    \/ next.at = "erase" /\ app[next.a].state = "pending"
    \/ /\ next.at = "answer" /\ app[next.a].state = "pending" /\ next.e = app[next.a]
       /\ next.row.is /\ next.row.by \in Users \ {applicant} /\ seat[next.a][next.s].is
    \/ /\ next.at = "open" /\ app[next.a].state = "pending" /\ next.e = app[next.a]
       /\ next.row.is /\ next.row.by = Nobody /\ next.row.open # "no" /\ seat[next.a][next.s].is
    \/ next.at = "period"
    \/ next.at \in {"span", "delete"} /\ next.was \in periods

LEMMA BegunIs ==
    ASSUME TypeOK, NEW r \in Requests, Begins(r)
    PROVE \E kind \in Kinds, next \in Job : Begin(r, kind) /\ Goes(r, next) /\ Begun(next)
<1>0. now \in 0..Moments /\ app \in [App -> Application] /\ seat \in [App -> [Seats -> Row]]
      /\ periods \subseteq Period /\ holds \in [Seats -> SUBSET Users]
  BY DEF TypeOK
<1>k. {"apply", "change", "takeBack", "withdraw", "approve", "pass", "openOther", "paper", "create",
       "update", "stopOwn", "remove"} = Kinds
  BY DEF Kinds
<1>1. CASE BeginApply(r)
  <2>1. PICK M \in Choices, until \in BOOLEAN :
          /\ settleMonths(M, until, FALSE)
          /\ Goes(r, [at |-> "insert", signed |-> NoSignature,
                      e |-> [state |-> "pending", months |-> M, untilCancelled |-> until,
                             paper |-> FALSE, at |-> now]])
    BY <1>1 DEF BeginApply
  <2> DEFINE e == [state |-> "pending", months |-> M, untilCancelled |-> until, paper |-> FALSE, at |-> now]
             next == [at |-> "insert", signed |-> NoSignature, e |-> e]
  <2>2. e \in Application
    BY <1>0, WorkerKinds DEF Application
  <2>3. NoSignature \in Signatures
    <3>1. NoSignature \in [{} -> Users]
      BY DEF NoSignature
    <3> QED
      BY <3>1 DEF Signatures
  <2>4. next \in Job
    BY <2>2, <2>3 DEF Job
  <2>5. next.at = "insert" /\ next.e.state = "pending" /\ next.e.months \in Choices /\ ~next.e.paper
        /\ (next.e.untilCancelled => Cardinality(next.e.months) = 1)
    BY <2>1 DEF settleMonths
  <2>6. Begin(r, "apply") /\ Goes(r, next)
    BY <1>1, <2>1 DEF BeginApply
  <2>7. Begun(next)
    BY <2>5 DEF Begun
  <2> HIDE DEF next
  <2> QED
    BY <1>k, <2>4, <2>6, <2>7
<1>2. CASE BeginPaper(r)
  <2>1. PICK M \in Choices, until \in BOOLEAN, S \in SUBSET {s \in Seats : holds[s] # {}} :
         /\ Cardinality(S) >= 2
         /\ settleMonths(M, until, TRUE)
         /\ Goes(r, [at |-> "insert", signed |-> [s \in S |-> CHOOSE u \in holds[s] : TRUE],
                     e |-> [state |-> "pending", months |-> M, untilCancelled |-> until,
                            paper |-> TRUE, at |-> now]])
    BY <1>2 DEF BeginPaper
  <2> DEFINE e == [state |-> "pending", months |-> M, untilCancelled |-> until, paper |-> TRUE, at |-> now]
             signed == [s \in S |-> CHOOSE u \in holds[s] : TRUE]
             next == [at |-> "insert", signed |-> signed, e |-> e]
  <2>2. e \in Application
    BY <1>0, WorkerKinds DEF Application
  <2>3. signed \in Signatures
    <3>1. \A s \in S : s \in Seats /\ (CHOOSE u \in holds[s] : TRUE) \in Users
      BY <1>0
    <3>2. signed \in [S -> Users] /\ S \in SUBSET Seats
      BY <3>1
    <3> QED
      BY <3>2 DEF Signatures
  <2>4. next \in Job
    BY <2>2, <2>3 DEF Job
  <2>5. next.at = "insert" /\ next.e.state = "pending" /\ next.e.months \in Choices
        /\ Cardinality(DOMAIN next.signed) >= 2
        /\ (next.e.untilCancelled => Cardinality(next.e.months) = 1)
    BY <2>1 DEF settleMonths
  <2>6. Begin(r, "paper") /\ Goes(r, next)
    BY <1>2, <2>1 DEF BeginPaper
  <2>7. Begun(next)
    BY <2>5 DEF Begun
  <2> HIDE DEF next
  <2> QED
    BY <1>k, <2>4, <2>6, <2>7
<1>3. CASE BeginChange(r)
  <2>1. PICK a \in App, M \in Choices, until \in BOOLEAN :
         /\ Pending(a)
         /\ settleMonths(M, until, FALSE)
         /\ Goes(r, [at |-> "rewrite", a |-> a,
                     e |-> [app[a] EXCEPT !.months = M, !.untilCancelled = until]])
    BY <1>3 DEF BeginChange
  <2> DEFINE e == [app[a] EXCEPT !.months = M, !.untilCancelled = until]
             next == [at |-> "rewrite", a |-> a, e |-> e]
  <2>2. /\ e \in Application /\ e.state = app[a].state /\ e.months = M
        /\ e.untilCancelled = until /\ e.paper = app[a].paper
    <3>1. app[a] \in Application /\ M \in SUBSET Month
      BY <1>0, WorkerKinds
    <3> QED
      BY <3>1 DEF Application
  <2> HIDE DEF e
  <2>4. next \in Job
    BY <2>2 DEF Job
  <2>5. /\ next.at = "rewrite" /\ app[next.a].state = "pending" /\ next.e.state = "pending"
        /\ next.e.months \in Choices /\ next.e.paper = app[next.a].paper
        /\ (next.e.untilCancelled => Cardinality(next.e.months) = 1)
    BY <2>1, <2>2 DEF settleMonths, Pending
  <2>6. Begin(r, "change") /\ Goes(r, next)
    BY <1>3, <2>1 DEF BeginChange, e
  <2>7. Begun(next)
    BY <2>5 DEF Begun
  <2> HIDE DEF next
  <2> QED
    BY <1>k, <2>4, <2>6, <2>7
<1>4. CASE BeginTakeBack(r) \/ BeginWithdraw(r)
  <2>1. PICK kind \in Kinds, a \in App : Begin(r, kind) /\ Pending(a) /\ Goes(r, [at |-> "erase", a |-> a])
    BY <1>4, <1>k DEF BeginTakeBack, BeginWithdraw
  <2> DEFINE next == [at |-> "erase", a |-> a]
  <2>4. next \in Job /\ next.at = "erase" /\ app[next.a].state = "pending"
    BY <2>1 DEF Job, Pending
  <2>5. Begun(next) /\ Goes(r, next)
    BY <2>1, <2>4 DEF Begun
  <2> HIDE DEF next
  <2> QED
    BY <2>1, <2>4, <2>5
<1>5. CASE BeginApprove(r)
  <2>1. PICK a \in App, u \in Users :
         /\ Pending(a) /\ u # applicant
         /\ \E s \in Targets(seat[a], holds, u) :
              Goes(r, [at |-> "answer", a |-> a, e |-> app[a], s |-> s,
                       row |-> [seat[a][s] EXCEPT !.by = u]])
    BY <1>5 DEF BeginApprove
  <2>2. PICK s \in Targets(seat[a], holds, u) :
              Goes(r, [at |-> "answer", a |-> a, e |-> app[a], s |-> s,
                       row |-> [seat[a][s] EXCEPT !.by = u]])
    BY <2>1
  <2>3. s \in Seats /\ seat[a][s].is
    BY WhereOneAnswers
  <2> DEFINE row == [seat[a][s] EXCEPT !.by = u]
             next == [at |-> "answer", a |-> a, e |-> app[a], s |-> s, row |-> row]
  <2>4. row \in Row /\ row.is /\ row.by = u
    <3>1. seat[a][s] \in Row
      BY <1>0, <2>3
    <3> QED
      BY <2>3, <3>1 DEF Row
  <2>5. Begin(r, "approve") /\ Goes(r, next)
    BY <1>5, <2>2 DEF BeginApprove
  <2> HIDE DEF row
  <2>6. next \in Job
    BY <1>0, <2>3, <2>4 DEF Job
  <2>7. next.at = "answer" /\ app[next.a].state = "pending" /\ next.e = app[next.a]
        /\ next.row.is /\ next.row.by \in Users \ {applicant} /\ seat[next.a][next.s].is
    BY <2>1, <2>3, <2>4 DEF Pending
  <2>8. Begun(next)
    BY <2>7 DEF Begun
  <2> HIDE DEF next
  <2> QED
    BY <1>k, <2>5, <2>6, <2>8
<1>6. CASE BeginPass(r) \/ BeginOpenOther(r)
  <2>1. PICK kind \in Kinds, a \in App, u \in Users, s \in Seats, why \in {"passed", "opened"} :
         /\ Begin(r, kind) /\ Pending(a) /\ s \in Unanswered(seat[a])
         /\ Goes(r, [at |-> "open", a |-> a, e |-> app[a], s |-> s,
                     row |-> [seat[a][s] EXCEPT !.open = why, !.opener = u]])
    <3>1. CASE BeginPass(r)
      <4>1. PICK a \in App, u \in Users, s \in Seats :
             /\ Pending(a) /\ isHisToAnswer(seat[a], s, holds, u)
             /\ Goes(r, [at |-> "open", a |-> a, e |-> app[a], s |-> s,
                         row |-> [seat[a][s] EXCEPT !.open = "passed", !.opener = u]])
        BY <3>1 DEF BeginPass
      <4>2. Begin(r, "pass") /\ s \in Unanswered(seat[a]) /\ "pass" \in Kinds
        BY <3>1, <4>1, <1>k, WhereOneAnswers DEF BeginPass
      <4> QED
        BY <4>1, <4>2, Zenon
    <3>2. CASE BeginOpenOther(r)
      <4>1. PICK a \in App, u \in Users : \E s \in Unanswered(seat[a]) :
             /\ Pending(a)
             /\ Goes(r, [at |-> "open", a |-> a, e |-> app[a], s |-> s,
                         row |-> [seat[a][s] EXCEPT !.open = "opened", !.opener = u]])
        BY <3>2, Zenon DEF BeginOpenOther
      <4>2. PICK s \in Unanswered(seat[a]) :
             /\ Pending(a)
             /\ Goes(r, [at |-> "open", a |-> a, e |-> app[a], s |-> s,
                         row |-> [seat[a][s] EXCEPT !.open = "opened", !.opener = u]])
        BY <4>1
      <4>3. Begin(r, "openOther") /\ s \in Seats /\ "openOther" \in Kinds
        BY <3>2, <1>k, WhereOneAnswers DEF BeginOpenOther
      <4> QED
        BY <4>2, <4>3, Zenon
    <3> QED
      BY <1>6, <3>1, <3>2
  <2> DEFINE row == [seat[a][s] EXCEPT !.open = why, !.opener = u]
             next == [at |-> "open", a |-> a, e |-> app[a], s |-> s, row |-> row]
  <2>2. seat[a][s] \in Row /\ seat[a][s].is /\ seat[a][s].by = Nobody /\ why \in Reasons
    BY <1>0, <2>1, WhereOneAnswers DEF Reasons
  <2>4. row \in Row /\ row.is /\ row.by = Nobody /\ row.open = why
    BY <2>2 DEF Row
  <2>5. Begin(r, kind) /\ Goes(r, next)
    BY <2>1
  <2> HIDE DEF row
  <2>6. next \in Job
    BY <1>0, <2>4 DEF Job
  <2>7. next.at = "open" /\ app[next.a].state = "pending" /\ next.e = app[next.a]
        /\ next.row.is /\ next.row.by = Nobody /\ next.row.open # "no" /\ seat[next.a][next.s].is
    BY <2>1, <2>2, <2>4 DEF Pending
  <2>8. Begun(next)
    BY <2>7 DEF Begun
  <2> HIDE DEF next
  <2> QED
    BY <1>k, <2>5, <2>6, <2>8
<1>7. CASE BeginCreate(r)
  <2>1. PICK run \in Spans : Begin(r, "create") /\ Goes(r, [at |-> "period", run |-> run])
    BY <1>7 DEF BeginCreate
  <2> DEFINE next == [at |-> "period", run |-> run]
  <2>2. next \in Job /\ next.at = "period"
    BY DEF Spans, Job
  <2>3. Begun(next) /\ Goes(r, next)
    BY <2>1, <2>2 DEF Begun
  <2> HIDE DEF next
  <2> QED
    BY <1>k, <2>1, <2>2, <2>3
<1>8. CASE BeginUpdate(r) \/ BeginStopOwn(r)
  <2>1. PICK kind \in Kinds, p \in periods, run \in Run : Begin(r, kind) /\ Goes(r, [at |-> "span", was |-> p, run |-> run])
    <3>1. CASE BeginUpdate(r)
      <4>1. PICK p \in periods, run \in Spans : Goes(r, [at |-> "span", was |-> p, run |-> run])
        BY <3>1 DEF BeginUpdate
      <4>2. run \in Run
        BY DEF Spans
      <4> QED
        <5>1. Begin(r, "update") /\ "update" \in Kinds
          BY <3>1, <1>k DEF BeginUpdate
        <5> QED
          BY <4>1, <4>2, <5>1, Zenon
    <3>2. CASE BeginStopOwn(r)
      <4>1. PICK p \in periods, end \in Month : Goes(r, [at |-> "span", was |-> p, run |-> [from |-> p.from, to |-> end]])
        BY <3>2 DEF BeginStopOwn
      <4>2. [from |-> p.from, to |-> end] \in Run
        BY <1>0, AuxConstants DEF Run, Period, Month, OpenEnd
      <4> QED
        <5>1. Begin(r, "stopOwn") /\ "stopOwn" \in Kinds
          BY <3>2, <1>k DEF BeginStopOwn
        <5> QED
          BY <4>1, <4>2, <5>1, Zenon
    <3> QED
      BY <1>8, <3>1, <3>2
  <2> DEFINE next == [at |-> "span", was |-> p, run |-> run]
  <2>2. next \in Job /\ next.at = "span" /\ next.was \in periods
    BY <1>0 DEF Job
  <2>3. Begun(next) /\ Goes(r, next)
    BY <2>1, <2>2 DEF Begun
  <2> HIDE DEF next
  <2> QED
    BY <1>k, <2>1, <2>2, <2>3
<1>9. CASE BeginRemove(r)
  <2>1. PICK p \in periods : Begin(r, "remove") /\ Goes(r, [at |-> "delete", was |-> p])
    BY <1>9 DEF BeginRemove
  <2> DEFINE next == [at |-> "delete", was |-> p]
  <2>2. next \in Job /\ next.at = "delete" /\ next.was \in periods
    BY <1>0 DEF Job
  <2>3. Begun(next) /\ Goes(r, next)
    BY <2>1, <2>2 DEF Begun
  <2> HIDE DEF next
  <2> QED
    BY <1>k, <2>1, <2>2, <2>3
<1> QED
  BY <1>1, <1>2, <1>3, <1>4, <1>5, <1>6, <1>7, <1>8, <1>9 DEF Begins

LEMMA StaysIssued ==
    ASSUME TypeInv, NEW w \in Workers, NEW next, Goes(w, next), next.at # "span",
           issued' \in Nat, issued' >= issued
    PROVE IssuedBefore'
<1> SUFFICES ASSUME NEW v \in Workers, job'[v].at = "span"
             PROVE job'[v].was.id <= issued'
  BY DEF IssuedBefore
<1>1. v # w /\ job'[v] = job[v]
  BY GoesOn DEF TypeInv, TypeOK
<1>2. job[v] \in Job
  BY DEF TypeInv, TypeOK
<1>3. job[v].was \in Period
  BY <1>1, <1>2, JobFields
<1>4. job[v].was.id \in Nat /\ job[v].was.id <= issued /\ issued \in Nat
  BY <1>1, <1>3 DEF Period, TypeInv, TypeOK, IssuedBefore
<1> QED
  BY <1>1, <1>4

LEMMA TypeBegins ==
    ASSUME TypeInv, NEW r \in Requests, Begins(r)
    PROVE TypeInv'
<1>1. PICK kind \in Kinds, next \in Job : Begin(r, kind) /\ Goes(r, next) /\ Begun(next)
  BY BegunIs DEF TypeInv
<1>2. TypeOK'
  BY <1>1, BeginType DEF TypeInv
<1>3. IssuedBefore'
  <2> SUFFICES ASSUME NEW v \in Workers, job'[v].at = "span"
               PROVE job'[v].was.id <= issued'
    BY DEF IssuedBefore
  <2>1. issued' = issued
    BY <1>1 DEF Begin, tables
  <2>2. CASE v = r
    <3>1. next.at = "span" /\ job'[v] = next
      BY <1>1, <2>2, GoesOn, WorkerKinds DEF TypeInv, TypeOK
    <3>2. next.was \in periods
      BY <1>1, <3>1 DEF Begun
    <3> QED
      BY <2>1, <3>1, <3>2 DEF TypeInv, TypeOK
  <2>3. CASE v # r
    BY <1>1, <2>1, <2>3, GoesOn, WorkerKinds DEF TypeInv, TypeOK, IssuedBefore
  <2> QED
    BY <2>2, <2>3
<1> QED
  BY <1>2, <1>3 DEF TypeInv

LEMMA TypeInsertApp ==
    ASSUME TypeInv, NEW r \in Requests, InsertApp(r)
    PROVE TypeInv'
<1>0. TypeOK /\ r \in Workers /\ job[r] \in Job
  BY WorkerKinds DEF TypeInv, TypeOK
<1>1. NextId \in App /\ job[r].e \in Application /\ job[r].signed \in Signatures
  BY <1>0, NextIdIsFree, JobFields DEF InsertApp
<1> DEFINE e == [job[r].e EXCEPT !.at = now]
<1>2. e \in Application
  BY <1>0, <1>1 DEF Application, TypeOK
<1>3. app' = [app EXCEPT ![NextId] = e]
  BY DEF InsertApp
<1>4. app' \in [App -> Application] /\ app'[NextId] = e
  BY <1>0, <1>1, <1>2, <1>3 DEF TypeOK
<1> DEFINE next == [at |-> "seats", a |-> NextId, e |-> app'[NextId], left |-> Seats,
                    signed |-> job[r].signed, holds |-> holds]
<1>5. next \in Job /\ next.at = "seats"
  BY <1>0, <1>1, <1>2, <1>4 DEF Job, TypeOK
<1>6. Goes(r, next)
  BY DEF InsertApp
<1> HIDE DEF next, e
<1>7. job' \in [Workers -> Job]
  BY <1>0, <1>5, <1>6, GoesOn DEF TypeOK
<1>8. UNCHANGED <<seat, periods, issued, closed, round, history>> /\ Step
  BY DEF InsertApp
<1>9. TypeOK'
  BY <1>0, <1>4, <1>7, <1>8 DEF TypeOK, history, Step, world
<1>10. IssuedBefore'
  BY <1>0, <1>5, <1>6, <1>8, StaysIssued DEF TypeInv, TypeOK
<1> QED
  BY <1>9, <1>10 DEF TypeInv

\* The row a place is saved with is a row.
LEMMA RowOfIsARow ==
    ASSUME NEW j \in Job, j.at = "seats", NEW s \in Seats
    PROVE /\ RowOf(j, s) \in Row /\ RowOf(j, s).is
          /\ ~j.e.paper => RowOf(j, s).by = Nobody
          /\ j.e.paper /\ s \in DOMAIN j.signed => RowOf(j, s).by \in Users
          /\ j.e.paper /\ s \notin DOMAIN j.signed => RowOf(j, s).by = Nobody /\ RowOf(j, s).open = "opened"
<1>1. FreshRow \in Row /\ FreshRow.is /\ FreshRow.by = Nobody
  BY NoRows
<1>2. CASE ~j.e.paper
  BY <1>1, <1>2 DEF RowOf, Row, Reasons
<1>3. CASE j.e.paper /\ s \in DOMAIN j.signed
  <2>1. j.signed \in Signatures
    BY JobFields
  <2>2. j.signed[s] \in Users
    BY <1>3, <2>1 DEF Signatures
  <2>3. RowOf(j, s) = [FreshRow EXCEPT !.by = j.signed[s]]
    BY <1>3 DEF RowOf
  <2> QED
    BY <1>1, <1>3, <2>2, <2>3 DEF Row
<1>4. CASE j.e.paper /\ s \notin DOMAIN j.signed
  BY <1>1, <1>4 DEF RowOf, Row, Reasons
<1> QED
  BY <1>2, <1>3, <1>4

\* After a place: the next one, or the periods of a paper, or nothing more.
LEMMA AfterASeat ==
    ASSUME NEW j \in Job, j.at = "seats", NEW left \in SUBSET Seats
    PROVE LET n == AfterSeats(j, left) IN
          /\ n \in Job
          /\ left # {} => /\ n.at = "seats" /\ n.a = j.a /\ n.e = j.e /\ n.left = left
                          /\ n.signed = j.signed
          /\ left = {} /\ j.e.paper => /\ n.at = "runs" /\ n.a = j.a /\ n.e = j.e
                                       /\ n.left = RunsOf(j.e, j.e.months \ closed)
          /\ left = {} /\ ~j.e.paper => n = Idle /\ n.at = "idle"
<1>1. /\ j.a \in App /\ j.e \in Application /\ j.signed \in Signatures
      /\ j.holds \in [Seats -> SUBSET Users]
      /\ j = [at |-> "seats", a |-> j.a, e |-> j.e, left |-> j.left,
              signed |-> j.signed, holds |-> j.holds]
  BY JobFields
<1>2. CASE left # {}
  <2>1. AfterSeats(j, left) = [j EXCEPT !.left = left]
    BY <1>2 DEF AfterSeats
  <2>2. [j EXCEPT !.left = left] = [at |-> "seats", a |-> j.a, e |-> j.e, left |-> left,
                                    signed |-> j.signed, holds |-> j.holds]
    BY <1>1
  <2> DEFINE n == [at |-> "seats", a |-> j.a, e |-> j.e, left |-> left,
                                    signed |-> j.signed, holds |-> j.holds]
  <2>3. n \in Job /\ n.at = "seats" /\ n.a = j.a /\ n.e = j.e /\ n.left = left /\ n.signed = j.signed
    BY <1>1 DEF Job
  <2> HIDE DEF n
  <2>4. AfterSeats(j, left) = n
    BY <2>1, <2>2 DEF n
  <2> QED
    BY <1>2, <2>3, <2>4
<1>3. CASE left = {} /\ j.e.paper
  <2> DEFINE runs == RunsOf(j.e, j.e.months \ closed)
             n == [at |-> "runs", a |-> j.a, e |-> j.e, left |-> runs]
  <2>1. runs \in SUBSET Run
    <3>1. j.e.months \ closed \in SUBSET Month
      BY <1>1 DEF Application
    <3> QED
      BY <1>1, <3>1, RunsOfMonths
  <2> HIDE DEF runs
  <2>2. n \in Job /\ n.at = "runs" /\ n.a = j.a /\ n.e = j.e /\ n.left = runs
    BY <1>1, <2>1 DEF Job
  <2>3. AfterSeats(j, left) = n
    BY <1>3 DEF AfterSeats, runs
  <2> HIDE DEF n
  <2> QED
    BY <1>3, <2>2, <2>3 DEF runs
<1>4. CASE left = {} /\ ~j.e.paper
  BY <1>4, IdleJob DEF AfterSeats
<1> QED
  BY <1>2, <1>3, <1>4

\* A place written with a row keeps the table of places.
LEMMA SeatWritten ==
    ASSUME TypeOK, NEW a \in App, NEW s \in Seats, NEW row \in Row,
           seat' = [seat EXCEPT ![a][s] = row]
    PROVE /\ seat' \in [App -> [Seats -> Row]]
          /\ seat'[a][s] = row
          /\ \A t \in Seats \ {s} : seat'[a][t] = seat[a][t]
          /\ \A b \in App \ {a} : seat'[b] = seat[b]
<1>1. seat \in [App -> [Seats -> Row]] /\ seat[a] \in [Seats -> Row]
  BY DEF TypeOK
<1> DEFINE new == [seat[a] EXCEPT ![s] = row]
<1>2. new \in [Seats -> Row] /\ new[s] = row /\ \A t \in Seats \ {s} : new[t] = seat[a][t]
  BY <1>1
<1>3. seat' = [seat EXCEPT ![a] = new]
  BY <1>1
<1> HIDE DEF new
<1>4. seat'[a] = new /\ \A b \in App \ {a} : seat'[b] = seat[b]
  BY <1>1, <1>3
<1>5. seat' \in [App -> [Seats -> Row]]
  BY <1>1, <1>2, <1>3
<1> QED
  BY <1>2, <1>4, <1>5

\* Writing beside the places changes none of them.
LEMMA WrittenBeside ==
    ASSUME seat \in [App -> [Seats -> Row]], NEW a \in App, NEW s, s \notin Seats, NEW row,
           seat' = [seat EXCEPT ![a][s] = row] \/ seat' = seat
    PROVE seat' \in [App -> [Seats -> Row]]
<1>1. CASE seat' = seat
  BY <1>1
<1>2. CASE seat' = [seat EXCEPT ![a][s] = row]
  <2>1. \A b \in App : seat'[b] \in [Seats -> Row]
    <3>1. TAKE b \in App
    <3>2. CASE b = a
      <4> DEFINE new == [seat[a] EXCEPT ![s] = row]
      <4>1. seat[a] \in [Seats -> Row]
        OBVIOUS
      <4>2. new \in [Seats -> Row]
        BY <4>1
      <4>3. seat' = [seat EXCEPT ![a] = new]
        BY <1>2
      <4> HIDE DEF new
      <4> QED
        BY <3>2, <4>2, <4>3
    <3>3. CASE b # a
      BY <1>2, <3>3
    <3> QED
      BY <3>2, <3>3
  <2>2. seat' = [b \in App |-> seat'[b]]
    BY <1>2
  <2> QED
    BY <2>1, <2>2
<1> QED
  BY <1>1, <1>2

LEMMA TypeSaveSeat ==
    ASSUME TypeInv, NEW r \in Requests, SaveSeat(r)
    PROVE TypeInv'
<1>0. TypeOK /\ r \in Workers /\ job[r] \in Job
  BY WorkerKinds DEF TypeInv, TypeOK
<1> DEFINE j == job[r]
           s == CHOOSE x \in j.left : TRUE
<1>1. /\ j \in Job /\ j.at = "seats" /\ j.a \in App /\ j.e \in Application /\ j.left \in SUBSET Seats
      /\ IF app[j.a].state = "gone" THEN Goes(r, Idle) /\ UNCHANGED <<seat, leftOut>>
         ELSE /\ seat' = [seat EXCEPT ![j.a][s] = RowOf(j, s)]
              /\ Goes(r, AfterSeats(j, j.left \ {s}))
              /\ leftOut' = IF j.e.paper /\ j.left = {s}
                            THEN [leftOut EXCEPT ![j.a] = @ \cup LeftBy(j.e)]
                            ELSE leftOut
      /\ UNCHANGED <<app, periods, issued, closed, round, revived, short, wiped, dropped, unmade, freed>> /\ Step
  BY <1>0, JobFields DEF SaveSeat
<1> HIDE DEF j, s
<1>2. seat' \in [App -> [Seats -> Row]]
  <2>1. CASE s \in Seats
    <3>1. RowOf(j, s) \in Row
      BY <1>1, <2>1, RowOfIsARow
    <3> QED
      BY <1>0, <1>1, <2>1, <3>1, SeatWritten DEF TypeOK
  <2>2. CASE s \notin Seats
    <3>1. seat \in [App -> [Seats -> Row]] /\ j.a \in App
      BY <1>0, <1>1 DEF TypeOK
    <3>2. seat' = [seat EXCEPT ![j.a][s] = RowOf(j, s)] \/ seat' = seat
      BY <1>1
    <3> QED
      BY <2>2, <3>1, <3>2, WrittenBeside
  <2> QED
    BY <2>1, <2>2
<1>3. leftOut' \in [App -> SUBSET (1..OpenEnd)]
  <2>1. LeftBy(j.e) \subseteq 1..OpenEnd
    BY <1>1, LeftOutAreMonths
  <2> QED
    BY <1>0, <1>1, <2>1 DEF TypeOK
<1>4. PICK next : Goes(r, next) /\ next \in Job /\ next.at # "span"
  <2>1. CASE app[j.a].state = "gone"
    BY <1>1, <2>1, IdleJob
  <2>2. CASE app[j.a].state # "gone"
    <3> DEFINE n == AfterSeats(j, j.left \ {s})
    <3>1. n \in Job /\ n.at # "span"
      <4>1. j.left \ {s} \in SUBSET Seats /\ j.e.paper \in BOOLEAN
        BY <1>1 DEF Application
      <4> QED
        BY <4>1, <1>1, AfterASeat
    <3> HIDE DEF n
    <3>2. Goes(r, n)
      BY <1>1, <2>2 DEF n
    <3> QED
      BY <3>1, <3>2
  <2> QED
    BY <2>1, <2>2
<1>5. TypeOK'
  BY <1>0, <1>1, <1>2, <1>3, <1>4, GoesOn DEF TypeOK, Step, world
<1>6. IssuedBefore'
  BY <1>0, <1>1, <1>4, StaysIssued DEF TypeInv, TypeOK
<1> QED
  BY <1>5, <1>6 DEF TypeInv

LEMMA TypeSaves ==
    ASSUME TypeInv, NEW w \in Workers, Rewrite(w) \/ Approve(w)
    PROVE TypeInv'
<1>0. TypeOK /\ job[w] \in Job /\ job[w].at \in {"rewrite", "runs"}
  BY DEF TypeInv, TypeOK, Rewrite, Approve
<1>1. job[w].a \in App /\ job[w].e \in Application
  BY <1>0, JobFields
<1>2. PICK e \in Application : Saved(job[w].a, e)
  <2>1. [job[w].e EXCEPT !.state = "approved"] \in Application
    BY <1>1 DEF Application
  <2> QED
    BY <1>1, <2>1 DEF Rewrite, Approve
<1>3. Goes(w, Idle) /\ UNCHANGED <<seat, periods, issued, closed, round, short, wiped, leftOut, unmade, freed>>
      /\ Step /\ dropped' \subseteq dropped \cup {job[w].a}
  BY DEF Rewrite, Approve
<1>4. app' \in [App -> Application] /\ revived' \subseteq revived \cup {job[w].a}
  BY <1>0, <1>1, <1>2 DEF Saved, TypeOK
<1>5. TypeOK'
  BY <1>0, <1>1, <1>3, <1>4, GoesOn, IdleJob DEF TypeOK, Step, world
<1>6. IssuedBefore'
  BY <1>0, <1>3, IdleJob, StaysIssued DEF TypeInv, TypeOK
<1> QED
  BY <1>5, <1>6 DEF TypeInv

\* What an erased application leaves behind.
Erased == [NoApp EXCEPT !.state = "gone"]

LEMMA ErasedIs ==
    /\ Erased \in Application /\ Erased.state = "gone" /\ ~Erased.paper /\ ~Erased.untilCancelled
    /\ [s \in Seats |-> NoRow] \in [Seats -> Row]
<1>1. NoApp \in Application /\ ~NoApp.paper /\ ~NoApp.untilCancelled /\ NoRow \in Row
  BY NoRows
<1> QED
  BY <1>1 DEF Erased, Application

LEMMA TypeErase ==
    ASSUME TypeInv, NEW w \in Workers, Erase(w)
    PROVE TypeInv'
<1>0. TypeOK /\ job[w] \in Job /\ job[w].a \in App
  BY JobFields DEF TypeInv, TypeOK, Erase
<1>1. /\ app' = [app EXCEPT ![job[w].a] = Erased]
      /\ seat' = [seat EXCEPT ![job[w].a] = [s \in Seats |-> NoRow]]
      /\ Goes(w, Idle)
      /\ UNCHANGED <<periods, issued, closed, round, history>> /\ Step
  BY DEF Erase, Erased
<1>2. app' \in [App -> Application] /\ seat' \in [App -> [Seats -> Row]]
  BY <1>0, <1>1, ErasedIs DEF TypeOK
<1>3. TypeOK'
  BY <1>0, <1>1, <1>2, GoesOn, IdleJob DEF TypeOK, Step, world, history
<1>4. IssuedBefore'
  BY <1>0, <1>1, IdleJob, StaysIssued DEF TypeInv, TypeOK
<1> QED
  BY <1>3, <1>4 DEF TypeInv

\* After an answer or an opening the places are looked at.
LEMMA SettleIsAJob ==
    ASSUME NEW j \in Job, j.at \in {"answer", "open"}
    PROVE Settle(j) \in Job /\ Settle(j).at = "settle" /\ Settle(j).a = j.a /\ Settle(j).e = j.e
<1>1. j.a \in App /\ j.e \in Application
  BY JobFields
<1> QED
  BY <1>1 DEF Settle, Job

\* A round goes through applications and rows of places.
Rounds == [apps: SUBSET [a: App, e: Application],
           rows: SUBSET [a: App, e: Application, s: Seats, row: Row],
           holds: [Seats -> SUBSET Users]]

LEMMA NoRoundIsARound == NoRound \in Rounds /\ NoRound.apps = {} /\ NoRound.rows = {}
BY DEF NoRound, Rounds

LEMMA TypePlace ==
    ASSUME TypeInv, NEW w \in Workers, SaveAnswer(w) \/ OpenSeat(w)
    PROVE TypeInv'
<1>0. TypeOK /\ job[w] \in Job /\ job[w].at \in {"answer", "open"}
  BY DEF TypeInv, TypeOK, SaveAnswer, OpenSeat
<1> DEFINE j == job[w]
<1>1. j \in Job /\ j.at \in {"answer", "open"} /\ j.a \in App /\ j.s \in Seats /\ j.row \in Row
  BY <1>0, JobFields
<1>2. /\ \/ seat' = [seat EXCEPT ![j.a][j.s] = j.row] /\ Wipes(j) /\ Goes(w, Settle(j))
         \/ Goes(w, Idle) /\ UNCHANGED <<seat, wiped>>
      /\ round' = round \/ round' = NoRound
      /\ UNCHANGED <<app, periods, issued, closed, revived, short, dropped, leftOut, unmade, freed>> /\ Step
  BY DEF SaveAnswer, OpenSeat
<1> HIDE DEF j
<1>3. seat' \in [App -> [Seats -> Row]] /\ wiped' \subseteq App
  <2>1. CASE seat' = [seat EXCEPT ![j.a][j.s] = j.row] /\ Wipes(j)
    BY <1>0, <1>1, <2>1, SeatWritten DEF Wipes, TypeOK
  <2> QED
    BY <1>0, <1>2, <2>1 DEF TypeOK
<1>4. PICK next \in Job : Goes(w, next) /\ next.at # "span"
  BY <1>1, <1>2, SettleIsAJob, IdleJob
<1>5. round' \in Rounds
  BY <1>0, <1>2, NoRoundIsARound DEF TypeOK, Rounds
<1>6. TypeOK'
  BY <1>0, <1>2, <1>3, <1>4, <1>5, GoesOn DEF TypeOK, Step, world, Rounds
<1>7. IssuedBefore'
  BY <1>0, <1>2, <1>4, StaysIssued DEF TypeInv, TypeOK
<1> QED
  BY <1>6, <1>7 DEF TypeInv

LEMMA TypeSettle ==
    ASSUME TypeInv, NEW w \in Workers, SettleIfDone(w)
    PROVE TypeInv'
<1>0. TypeOK /\ job[w] \in Job /\ job[w].at = "settle"
  BY DEF TypeInv, TypeOK, SettleIfDone
<1> DEFINE j == job[w]
           runs == RunsOf(j.e, j.e.months \ closed)
           isDone == done(seat[j.a], holds)
           next == [at |-> "runs", a |-> j.a, e |-> j.e, left |-> runs]
<1>1. j.a \in App /\ j.e \in Application
  BY <1>0, JobFields
<1>2. runs \in SUBSET Run
  <2>1. j.e.months \ closed \in SUBSET Month
    BY <1>1 DEF Application
  <2> QED
    BY <1>1, <2>1, RunsOfMonths
<1>3. next \in Job /\ next.at = "runs"
  <2> HIDE DEF runs
  <2> QED
    BY <1>1, <1>2 DEF Job
<1>4. /\ Goes(w, IF isDone THEN next ELSE Idle)
      /\ short' \subseteq short \cup {j.a}
      /\ leftOut' = IF isDone THEN [leftOut EXCEPT ![j.a] = @ \cup LeftBy(j.e)] ELSE leftOut
      /\ UNCHANGED <<tables, round, revived, wiped, dropped, unmade, freed>> /\ Step
  BY DEF SettleIfDone
<1> HIDE DEF next, isDone
<1>5. PICK n \in Job : Goes(w, n) /\ n.at # "span"
  BY <1>3, <1>4, IdleJob
<1>6. leftOut' \in [App -> SUBSET (1..OpenEnd)]
  <2>1. LeftBy(j.e) \subseteq 1..OpenEnd
    BY <1>1, LeftOutAreMonths
  <2> QED
    BY <1>0, <1>1, <1>4, <2>1 DEF TypeOK
<1>7. TypeOK'
  BY <1>0, <1>1, <1>4, <1>5, <1>6, GoesOn DEF TypeOK, Step, world, tables
<1>8. IssuedBefore'
  BY <1>0, <1>4, <1>5, StaysIssued DEF TypeInv, TypeOK, tables
<1> QED
  BY <1>7, <1>8 DEF TypeInv

\* A run that may be made goes on to be made, any other is left out.
LEMMA CheckedRun ==
    ASSUME TypeInv, NEW w \in Workers, CheckRun(w)
    PROVE \E run \in job[w].left, next \in Job :
            /\ job[w].a \in App /\ job[w].e \in Application /\ job[w].left \in SUBSET Run /\ job[w].at = "runs"
            /\ Goes(w, next) /\ next.a = job[w].a /\ next.e = job[w].e /\ next.left = job[w].left \ {run}
            /\ \/ next.at = "make" /\ next.run = run /\ UNCHANGED leftOut
               \/ next.at = "runs" /\ leftOut' = [leftOut EXCEPT ![job[w].a] = @ \cup Span(run)]
            /\ UNCHANGED <<tables, round, revived, short, wiped, dropped, unmade, freed>> /\ Step
<1>0. TypeOK /\ job[w] \in Job /\ job[w].at = "runs" /\ job[w].left # {}
  BY DEF TypeInv, TypeOK, CheckRun
<1> DEFINE j == job[w]
           run == First(j.left)
<1>1. /\ j.a \in App /\ j.e \in Application /\ j.left \in SUBSET Run
      /\ j = [at |-> "runs", a |-> j.a, e |-> j.e, left |-> j.left]
  BY <1>0, JobFields
<1>2. run \in j.left
  BY <1>0, <1>1, FirstIsOne
<1>3. /\ IF periodAllowed(run, periods)
         THEN Goes(w, [at |-> "make", a |-> j.a, e |-> j.e, left |-> j.left \ {run}, run |-> run])
              /\ UNCHANGED leftOut
         ELSE Goes(w, [j EXCEPT !.left = @ \ {run}])
              /\ leftOut' = [leftOut EXCEPT ![j.a] = @ \cup Span(run)]
      /\ UNCHANGED <<tables, round, revived, short, wiped, dropped, unmade, freed>> /\ Step
  BY DEF CheckRun
<1> HIDE DEF run
<1>4. CASE periodAllowed(run, periods)
  <2> DEFINE next == [at |-> "make", a |-> j.a, e |-> j.e, left |-> j.left \ {run}, run |-> run]
  <2>1. next \in Job /\ next.at = "make" /\ next.a = j.a /\ next.e = j.e /\ next.left = j.left \ {run}
        /\ next.run = run
    BY <1>1, <1>2 DEF Job
  <2>2. Goes(w, next) /\ UNCHANGED leftOut
    BY <1>3, <1>4
  <2> HIDE DEF next
  <2> QED
    BY <1>0, <1>1, <1>2, <1>3, <2>1, <2>2
<1>5. CASE ~periodAllowed(run, periods)
  <2> DEFINE next == [at |-> "runs", a |-> j.a, e |-> j.e, left |-> j.left \ {run}]
  <2>1. next \in Job /\ next.at = "runs" /\ next.a = j.a /\ next.e = j.e /\ next.left = j.left \ {run}
    BY <1>1, <1>2 DEF Job
  <2>2. Goes(w, next) /\ leftOut' = [leftOut EXCEPT ![j.a] = @ \cup Span(run)]
    <3>1. [j EXCEPT !.left = @ \ {run}] = next
      BY <1>1
    <3> QED
      BY <1>3, <1>5, <3>1
  <2> HIDE DEF next
  <2> QED
    BY <1>0, <1>1, <1>2, <1>3, <2>1, <2>2
<1> QED
  BY <1>4, <1>5

LEMMA TypeCheckRun ==
    ASSUME TypeInv, NEW w \in Workers, CheckRun(w)
    PROVE TypeInv'
<1>1. PICK run \in job[w].left, next \in Job :
            /\ job[w].a \in App /\ job[w].e \in Application /\ job[w].left \in SUBSET Run /\ job[w].at = "runs"
            /\ Goes(w, next) /\ next.a = job[w].a /\ next.e = job[w].e /\ next.left = job[w].left \ {run}
            /\ \/ next.at = "make" /\ next.run = run /\ UNCHANGED leftOut
               \/ next.at = "runs" /\ leftOut' = [leftOut EXCEPT ![job[w].a] = @ \cup Span(run)]
            /\ UNCHANGED <<tables, round, revived, short, wiped, dropped, unmade, freed>> /\ Step
  BY CheckedRun
<1>2. Span(run) \subseteq 1..OpenEnd
  BY <1>1, SpansAreMonths
<1>3. leftOut' \in [App -> SUBSET (1..OpenEnd)]
  BY <1>1, <1>2 DEF TypeInv, TypeOK
<1>4. TypeOK'
  BY <1>1, <1>3, GoesOn DEF TypeInv, TypeOK, Step, world, tables
<1>5. IssuedBefore'
  BY <1>1, StaysIssued DEF TypeInv, TypeOK, tables
<1> QED
  BY <1>4, <1>5 DEF TypeInv

\* A run whose period is not made: the worker goes on with the others.
LEMMA FailedRun ==
    ASSUME TypeInv, NEW w \in Workers, RunFails(w)
    PROVE \E next \in Job :
            /\ job[w].at = "make" /\ job[w].a \in App /\ job[w].e \in Application /\ job[w].run \in Run
            /\ Goes(w, next) /\ next.at = "runs" /\ next.a = job[w].a /\ next.e = job[w].e
            /\ next.left = job[w].left
            /\ unmade' = [unmade EXCEPT ![job[w].a] = @ \cup Span(job[w].run)]
            /\ used' \in 0..MaxUsed
            /\ UNCHANGED <<tables, world, now, round, revived, short, wiped, dropped, leftOut, freed>>
<1>0. TypeOK /\ job[w] \in Job /\ job[w].at = "make"
  BY DEF TypeInv, TypeOK, RunFails
<1>1. job[w].a \in App /\ job[w].e \in Application /\ job[w].left \in SUBSET Run /\ job[w].run \in Run
  BY <1>0, JobFields
<1> DEFINE next == [at |-> "runs", a |-> job[w].a, e |-> job[w].e, left |-> job[w].left]
<1>2. next \in Job /\ next.at = "runs" /\ next.a = job[w].a /\ next.e = job[w].e /\ next.left = job[w].left
  BY <1>1 DEF Job
<1>3. /\ Goes(w, next)
      /\ unmade' = [unmade EXCEPT ![job[w].a] = @ \cup Span(job[w].run)]
      /\ UNCHANGED <<tables, world, now, round, revived, short, wiped, dropped, leftOut, freed>>
  BY DEF RunFails
<1>4. used' \in 0..MaxUsed
  BY <1>0, AuxConstants DEF RunFails, TypeOK
<1> HIDE DEF next
<1> QED
  BY <1>0, <1>1, <1>2, <1>3, <1>4

LEMMA TypeRunFails ==
    ASSUME TypeInv, NEW w \in Workers, RunFails(w)
    PROVE TypeInv'
<1>1. PICK next \in Job :
            /\ job[w].a \in App /\ job[w].run \in Run
            /\ Goes(w, next) /\ next.at = "runs"
            /\ unmade' = [unmade EXCEPT ![job[w].a] = @ \cup Span(job[w].run)]
            /\ used' \in 0..MaxUsed
            /\ UNCHANGED <<tables, world, now, round, revived, short, wiped, dropped, leftOut, freed>>
  BY FailedRun
<1>2. Span(job[w].run) \subseteq 1..OpenEnd
  BY <1>1, SpansAreMonths
<1>3. unmade' \in [App -> SUBSET (1..OpenEnd)]
  BY <1>1, <1>2 DEF TypeInv, TypeOK
<1>4. TypeOK'
  BY <1>1, <1>3, GoesOn DEF TypeInv, TypeOK, world, tables
<1>5. IssuedBefore'
  BY <1>1, StaysIssued DEF TypeInv, TypeOK, tables
<1> QED
  BY <1>4, <1>5 DEF TypeInv

\* A new period has the months of its run, and the next id.
LEMMA MadePeriod ==
    ASSUME TypeOK, NEW run \in Run, Inserted(run)
    PROVE /\ periods' \subseteq Period /\ issued' \in Nat /\ issued' >= issued
          /\ \A p \in periods' : p.id <= issued'
          /\ Served' = Served \cup Span(run)
<1> DEFINE new == [id |-> issued + 1, from |-> run.from, to |-> run.to]
<1>1. periods' = periods \cup {new} /\ issued' = issued + 1 /\ issued \in Nat /\ periods \subseteq Period
      /\ \A p \in periods : p.id <= issued
  BY DEF TypeOK, Inserted
<1>2. new \in Period /\ new.id = issued + 1 /\ Span(new) = Span(run)
  <2>1. run.from \in Month /\ run.to \in 1..OpenEnd /\ issued + 1 \in Nat \ {0}
    BY <1>1 DEF Run
  <2> QED
    BY <2>1 DEF Period, Span
<1> HIDE DEF new
<1>3. periods' \subseteq Period /\ issued' \in Nat /\ issued' >= issued
  BY <1>1, <1>2
<1>4. ASSUME NEW p \in periods'
      PROVE p.id <= issued'
  <2>1. CASE p \in periods
    <3>1. p.id \in Nat /\ p.id <= issued
      BY <1>1, <2>1 DEF Period
    <3> QED
      BY <1>1, <3>1
  <2>2. CASE p = new
    BY <1>1, <1>2, <2>2
  <2> QED
    BY <1>1, <2>1, <2>2
<1>5. Served' = Served \cup Span(run)
  <2>1. Served' = UNION {Span(p) : p \in periods'}
    BY DEF Served, Span
  <2> QED
    BY <1>1, <1>2, <2>1 DEF Served
<1> QED
  BY <1>3, <1>4, <1>5

LEMMA TypeInserts ==
    ASSUME TypeInv, NEW w \in Workers, MakePeriod(w) \/ InsertPeriod(w)
    PROVE TypeInv'
<1>0. TypeOK /\ job[w] \in Job /\ job[w].at \in {"make", "period"}
  BY DEF TypeInv, TypeOK, MakePeriod, InsertPeriod
<1>1. job[w].run \in Run
  BY <1>0, JobFields
<1>2. Inserted(job[w].run) /\ UNCHANGED <<app, seat, closed, round, history>> /\ Step
  BY DEF MakePeriod, InsertPeriod
<1>3. PICK next \in Job : Goes(w, next) /\ next.at # "span"
  <2>1. CASE MakePeriod(w)
    <3> DEFINE n == [at |-> "runs", a |-> job[w].a, e |-> job[w].e, left |-> job[w].left]
    <3>0. job[w].at = "make"
      BY <2>1 DEF MakePeriod
    <3>1. n \in Job /\ n.at = "runs"
      <4>1. job[w].a \in App /\ job[w].e \in Application /\ job[w].left \in SUBSET Run
        BY <1>0, <3>0, JobFields
      <4> QED
        BY <4>1 DEF Job
    <3>2. Goes(w, n)
      BY <2>1 DEF MakePeriod
    <3> HIDE DEF n
    <3> QED
      BY <3>1, <3>2
  <2>2. CASE InsertPeriod(w)
    BY <2>2, IdleJob DEF InsertPeriod
  <2> QED
    BY <2>1, <2>2
<1>4. /\ periods' \subseteq Period /\ issued' \in Nat /\ issued' >= issued
      /\ \A p \in periods' : p.id <= issued'
  BY <1>0, <1>1, <1>2, MadePeriod
<1>5. TypeOK'
  BY <1>0, <1>2, <1>3, <1>4, GoesOn DEF TypeOK, Step, world, history
<1>6. IssuedBefore'
  BY <1>3, <1>4, StaysIssued
<1> QED
  BY <1>5, <1>6 DEF TypeInv

\* The months of some runs, or of some periods.
SpansOf(P) == UNION {Span(p) : p \in P}

\* The rows with another id.
OthersThan(was) == {p \in periods : p.id # was.id}

\* A period written back, or deleted: what is no longer served was freed.
LEMMA TypeMoves ==
    ASSUME TypeInv, NEW r \in Requests, WriteSpan(r) \/ DeletePeriod(r)
    PROVE TypeInv' /\ (Served \cup freed) \subseteq (Served \cup freed)'
<1>0. TypeOK /\ r \in Workers /\ job[r] \in Job /\ job[r].at \in {"span", "delete"}
  BY WorkerKinds DEF TypeInv, TypeOK, WriteSpan, DeletePeriod
<1> DEFINE others == OthersThan(job[r].was)
<1>1. job[r].was \in Period
  BY <1>0, JobFields
<1>2. Goes(r, Idle) /\ UNCHANGED <<app, seat, issued, closed, round, revived, short, wiped, dropped, leftOut, unmade>>
      /\ Step
  BY DEF WriteSpan, DeletePeriod
<1>3. PICK new \in SUBSET Period : /\ periods' = others \cup new /\ \A p \in new : p.id <= issued
                                   /\ freed' = freed \cup (SpansOf(periods \ others) \ SpansOf(new))
  <2>1. CASE WriteSpan(r)
    <3> DEFINE new == [job[r].was EXCEPT !.from = job[r].run.from, !.to = job[r].run.to]
    <3>1. job[r].at = "span" /\ periods' = others \cup {new}
          /\ freed' = freed \cup ((UNION {Span(p) : p \in periods \ others}) \ Span(job[r].run))
      BY <2>1 DEF WriteSpan, OthersThan
    <3>f. freed' = freed \cup (SpansOf(periods \ others) \ Span(job[r].run))
      BY <3>1 DEF SpansOf
    <3>2. job[r].run \in Run
      BY <1>0, <3>1, JobFields
    <3>3. new \in Period /\ new.id = job[r].was.id /\ Span(new) = Span(job[r].run)
      <4>1. job[r].run.from \in Month /\ job[r].run.to \in 1..OpenEnd
        BY <3>2 DEF Run
      <4> QED
        BY <1>1, <4>1 DEF Period, Span
    <3>4. new.id <= issued
      BY <1>0, <3>1, <3>3 DEF TypeInv, IssuedBefore
    <3> HIDE DEF new, others
    <3>5. SpansOf({new}) = Span(job[r].run)
      BY <3>3 DEF SpansOf
    <3> QED
      BY <3>1, <3>f, <3>3, <3>4, <3>5
  <2>2. CASE DeletePeriod(r)
    <3>1. periods' = others /\ freed' = freed \cup SpansOf(periods \ others)
      BY <2>2 DEF DeletePeriod, SpansOf, OthersThan
    <3>2. others \cup {} = others /\ SpansOf({}) = {}
      BY DEF SpansOf
    <3> HIDE DEF others
    <3> QED
      BY <3>1, <3>2
  <2> QED
    BY <2>1, <2>2
<1>4. others \subseteq periods
  BY DEF OthersThan
<1> HIDE DEF others
<1>5. periods' \subseteq Period /\ \A p \in periods' : p.id <= issued'
  BY <1>0, <1>2, <1>3, <1>4 DEF TypeOK
<1>6. freed' \subseteq 1..OpenEnd
  <2>1. SpansOf(periods \ others) \subseteq 1..OpenEnd
    BY <1>0, SpansAreMonths DEF TypeOK, SpansOf
  <2> QED
    BY <1>0, <1>3, <2>1 DEF TypeOK
<1>7. TypeOK'
  BY <1>0, <1>2, <1>5, <1>6, GoesOn, IdleJob DEF TypeOK, Step, world
<1>8. IssuedBefore'
  BY <1>0, <1>2, IdleJob, StaysIssued DEF TypeInv, TypeOK
<1>9. (Served \cup freed) \subseteq (Served \cup freed)'
  <2>1. Served = SpansOf(periods) /\ Served' = SpansOf(periods')
    BY DEF Served, SpansOf, Span
  <2>2. SpansOf(periods) \subseteq SpansOf(others) \cup SpansOf(periods \ others)
    BY DEF SpansOf
  <2>3. SpansOf(periods') = SpansOf(others) \cup SpansOf(new)
    BY <1>3 DEF SpansOf
  <2> QED
    BY <1>3, <2>1, <2>2, <2>3
<1> QED
  BY <1>7, <1>8, <1>9 DEF TypeInv

\* What is left of a round.
LEMMA RestOfRound ==
    ASSUME round \in Rounds, NEW apps \in SUBSET [a: App, e: Application],
           NEW rows \in SUBSET [a: App, e: Application, s: Seats, row: Row], round' = Rest(apps, rows)
    PROVE round' \in Rounds /\ round'.apps = apps /\ round'.rows = rows
<1>1. CASE apps \cup rows = {}
  BY <1>1, NoRoundIsARound DEF Rest
<1>2. CASE apps \cup rows # {}
  <2>1. round' = [round EXCEPT !.apps = apps, !.rows = rows]
    BY <1>2 DEF Rest
  <2>2. round = [apps |-> round.apps, rows |-> round.rows, holds |-> round.holds]
        /\ round.holds \in [Seats -> SUBSET Users]
    BY DEF Rounds
  <2>3. round' = [apps |-> apps, rows |-> rows, holds |-> round.holds]
    BY <2>1, <2>2
  <2> QED
    BY <2>2, <2>3 DEF Rounds
<1> QED
  BY <1>1, <1>2

LEMMA TypeNight ==
    ASSUME TypeInv, BeginNight \/ NightTakes \/ NightOpens \/ NightReminds
    PROVE TypeInv'
<1>0. TypeOK /\ Nightly \in Workers
  BY WorkerKinds DEF TypeInv
<1>1. CASE BeginNight
  <2> DEFINE apps == {[a |-> a, e |-> app[a]] : a \in {b \in App : Pending(b)}}
  <2>1. round' = [apps |-> apps, rows |-> {}, holds |-> holds]
    BY <1>1 DEF BeginNight
  <2>2. apps \subseteq [a: App, e: Application]
    BY <1>0 DEF TypeOK
  <2> HIDE DEF apps
  <2>3. UNCHANGED <<tables, job, history>> /\ Step
    BY <1>1 DEF BeginNight
  <2>4. round' \in Rounds
    BY <1>0, <2>1, <2>2 DEF TypeOK, Rounds
  <2> QED
    BY <1>0, <2>3, <2>4 DEF Rounds, TypeInv, TypeOK, IssuedBefore, Step, world, history, tables
<1>2. CASE NightTakes
  <2>1. PICK x \in round.apps :
         IF over(x.e)
         THEN /\ Goes(Nightly, [at |-> "erase", a |-> x.a])
              /\ round' = Rest(round.apps \ {x}, {})
         ELSE /\ round' = Rest(round.apps \ {x},
                               IF ~waited(x.e) THEN {}
                               ELSE {[a |-> x.a, e |-> x.e, s |-> s, row |-> seat[x.a][s]] : s \in Needs(x.a, round.holds)})
              /\ UNCHANGED job
    BY <1>2, Zenon DEF NightTakes
  <2>2. UNCHANGED <<tables, history>> /\ Step
    BY <1>2 DEF NightTakes
  <2>3. x.a \in App /\ x.e \in Application
    BY <1>0 DEF TypeOK
  <2> DEFINE rows == {[a |-> x.a, e |-> x.e, s |-> s, row |-> seat[x.a][s]] : s \in Needs(x.a, round.holds)}
  <2>4. rows \subseteq [a: App, e: Application, s: Seats, row: Row]
    <3>1. Needs(x.a, round.holds) \subseteq Seats
      BY DEF Needs, Unanswered, Exists
    <3> QED
      BY <1>0, <2>3, <3>1 DEF TypeOK
  <2>5. PICK left \in {{}, rows} : round' = Rest(round.apps \ {x}, left)
    BY <2>1
  <2> HIDE DEF rows
  <2>6. round' \in Rounds
    <3>1. round \in Rounds /\ left \subseteq [a: App, e: Application, s: Seats, row: Row]
      BY <1>0, <2>4 DEF TypeOK, Rounds
    <3>2. round.apps \ {x} \subseteq [a: App, e: Application]
      BY <3>1 DEF Rounds
    <3> QED
      BY <2>5, <3>1, <3>2, RestOfRound
  <2>7. \/ UNCHANGED job
        \/ Goes(Nightly, [at |-> "erase", a |-> x.a])
    BY <2>1
  <2>8. job' \in [Workers -> Job] /\ IssuedBefore'
    <3>1. CASE UNCHANGED job
      BY <1>0, <2>2, <3>1 DEF TypeInv, TypeOK, IssuedBefore, tables
    <3>2. CASE Goes(Nightly, [at |-> "erase", a |-> x.a])
      <4> DEFINE n == [at |-> "erase", a |-> x.a]
      <4>1. n \in Job /\ n.at # "span" /\ Goes(Nightly, n)
        BY <2>3, <3>2 DEF Job
      <4> HIDE DEF n
      <4> QED
        BY <1>0, <2>2, <4>1, GoesOn, StaysIssued DEF TypeInv, TypeOK, tables
    <3> QED
      BY <2>7, <3>1, <3>2
  <2> QED
    BY <1>0, <2>2, <2>6, <2>8 DEF Rounds, TypeInv, TypeOK, Step, world, history, tables
<1>3. CASE NightOpens
  <2>1. PICK y \in round.rows :
         /\ Goes(Nightly, [at |-> "open", a |-> y.a, e |-> y.e, s |-> y.s,
                           row |-> [y.row EXCEPT !.open = "absent", !.opener = Nobody]])
         /\ round' = Rest(round.apps, round.rows \ {y})
    BY <1>3, Zenon DEF NightOpens
  <2>2. y.a \in App /\ y.e \in Application /\ y.s \in Seats /\ y.row \in Row
    BY <1>0 DEF TypeOK
  <2> DEFINE row == [y.row EXCEPT !.open = "absent", !.opener = Nobody]
             n == [at |-> "open", a |-> y.a, e |-> y.e, s |-> y.s, row |-> row]
  <2>3. row \in Row
    BY <2>2 DEF Row, Reasons
  <2> HIDE DEF row
  <2>4. n \in Job /\ n.at # "span"
    BY <2>2, <2>3 DEF Job
  <2>5. Goes(Nightly, n)
    BY <2>1 DEF row
  <2> HIDE DEF n
  <2>6. UNCHANGED <<tables, history>> /\ Step
    BY <1>3 DEF NightOpens
  <2>7. job' \in [Workers -> Job] /\ IssuedBefore'
    BY <1>0, <2>4, <2>5, <2>6, GoesOn, StaysIssued DEF TypeInv, TypeOK, tables
  <2>8. round' \in Rounds
    <3>1. round \in Rounds
      BY <1>0 DEF TypeOK, Rounds
    <3>2. round.apps \subseteq [a: App, e: Application]
          /\ round.rows \ {y} \subseteq [a: App, e: Application, s: Seats, row: Row]
      BY <3>1 DEF Rounds
    <3> QED
      BY <2>1, <3>1, <3>2, RestOfRound
  <2> QED
    BY <1>0, <2>6, <2>7, <2>8 DEF Rounds, TypeInv, TypeOK, Step, world, history, tables
<1>4. CASE NightReminds
  <2>1. PICK y \in round.rows :
         IF Stands(y.a)
         THEN /\ seat' = [seat EXCEPT ![y.a][y.s] = [y.row EXCEPT !.reminded = TRUE]]
              /\ Wipes(y) /\ round' = Rest(round.apps, round.rows \ {y})
         ELSE round' = NoRound /\ UNCHANGED <<seat, wiped>>
    BY <1>4, Zenon DEF NightReminds
  <2>2. y.a \in App /\ y.e \in Application /\ y.s \in Seats /\ y.row \in Row
    BY <1>0 DEF TypeOK
  <2>3. UNCHANGED <<app, periods, issued, closed, job, revived, short, dropped, leftOut, unmade, freed>> /\ Step
    BY <1>4 DEF NightReminds
  <2>4. [y.row EXCEPT !.reminded = TRUE] \in Row
    BY <2>2 DEF Row
  <2>5. seat' \in [App -> [Seats -> Row]] /\ wiped' \subseteq App
    <3>1. CASE Stands(y.a)
      <4>1. wiped' \subseteq wiped \cup {y.a}
        BY <2>1, <3>1 DEF Wipes
      <4> QED
        BY <1>0, <2>1, <2>2, <2>4, <3>1, <4>1, SeatWritten DEF TypeOK
    <3>2. CASE ~Stands(y.a)
      BY <1>0, <2>1, <3>2 DEF TypeOK
    <3> QED
      BY <3>1, <3>2
  <2>6. round' \in Rounds
    <3>1. round \in Rounds
      BY <1>0 DEF TypeOK, Rounds
    <3>2. round.apps \subseteq [a: App, e: Application]
          /\ round.rows \ {y} \subseteq [a: App, e: Application, s: Seats, row: Row]
      BY <3>1 DEF Rounds
    <3> QED
      BY <2>1, <3>1, <3>2, RestOfRound, NoRoundIsARound
  <2> QED
    BY <1>0, <2>3, <2>5, <2>6 DEF Rounds, TypeInv, TypeOK, IssuedBefore, Step, world
<1> QED
  BY <1>1, <1>2, <1>3, <1>4

LEMMA TypeOthers ==
    ASSUME TypeInv, (\E w \in Workers : Lose(w)) \/ HandOver \/ ElderLeaves \/ CloseMonth \/ Tick
    PROVE TypeInv'
<1>0. TypeOK
  BY DEF TypeInv
<1>1. CASE \E w \in Workers : Lose(w)
  <2>1. PICK w \in Workers : Lose(w)
    BY <1>1
  <2>2. /\ used' \in 0..MaxUsed /\ Goes(w, Idle)
        /\ dropped' = (IF "a" \in DOMAIN job[w] THEN dropped \cup {job[w].a} ELSE dropped)
        /\ round' = (IF w = Nightly THEN NoRound ELSE round)
        /\ UNCHANGED <<tables, world, now, revived, short, wiped, leftOut, unmade, freed>>
    BY <1>0, <2>1, AuxConstants DEF Lose, TypeOK
  <2>3. dropped' \subseteq App
    <3>1. CASE "a" \in DOMAIN job[w]
      <4>1. job[w].a \in App
        <5>1. job[w] \in Job
          BY <1>0 DEF TypeOK
        <5> QED
          BY <3>1, <5>1 DEF Job
      <4> QED
        BY <1>0, <2>2, <3>1, <4>1 DEF TypeOK
    <3>2. CASE "a" \notin DOMAIN job[w]
      BY <1>0, <2>2, <3>2 DEF TypeOK
    <3> QED
      BY <3>1, <3>2
  <2>4. round' \in Rounds
    BY <1>0, <2>2, NoRoundIsARound DEF TypeOK, Rounds
  <2>5. TypeOK'
    BY <1>0, <2>2, <2>3, <2>4, GoesOn, IdleJob DEF Rounds, TypeOK, world, tables
  <2>6. IssuedBefore'
    BY <1>0, <2>2, IdleJob, StaysIssued DEF TypeOK, tables
  <2> QED
    BY <2>5, <2>6 DEF TypeInv
<1>2. CASE HandOver \/ ElderLeaves \/ CloseMonth \/ Tick
  <2>1. UNCHANGED <<app, seat, periods, issued, job, round, history>>
    BY <1>2 DEF HandOver, ElderLeaves, CloseMonth, Tick, tables
  <2>2. used' \in 0..MaxUsed
    BY <1>0, <1>2, AuxConstants DEF HandOver, ElderLeaves, CloseMonth, Tick, TypeOK
  <2>3. now' \in 0..Moments
    BY <1>0, <1>2, AuxConstants DEF HandOver, ElderLeaves, CloseMonth, Tick, TypeOK
  <2>4. closed' \subseteq Month
    BY <1>0, <1>2 DEF HandOver, ElderLeaves, CloseMonth, Tick, TypeOK, tables
  <2>5. holds' \in [Seats -> SUBSET Users]
    BY <1>0, <1>2 DEF HandOver, ElderLeaves, CloseMonth, Tick, TypeOK, world
  <2>6. (elders \cup away)' \subseteq Users
    BY <1>0, <1>2 DEF HandOver, ElderLeaves, CloseMonth, Tick, TypeOK, world
  <2> QED
    BY <1>0, <2>1, <2>2, <2>3, <2>4, <2>5, <2>6 DEF TypeInv, TypeOK, IssuedBefore, history
<1> QED
  BY <1>1, <1>2

LEMMA TypeInit == Init => TypeInv
<1> SUFFICES ASSUME Init
             PROVE TypeInv
  OBVIOUS
<1>1. PICK S \in Setups :
         /\ app = [a \in App |-> IF a = 1 THEN S.app ELSE NoApp]
         /\ seat = [a \in App |-> IF a = 1 THEN S.seat ELSE [s \in Seats |-> NoRow]]
         /\ periods = S.periods
         /\ issued = Cardinality(S.periods)
         /\ holds = S.holds
         /\ elders = S.elders
         /\ applicant = S.applicant
         /\ away = S.away
  BY DEF Init
<1>2. /\ S.app \in Application /\ S.seat \in [Seats -> Row]
      /\ S.periods \subseteq Period /\ IsFiniteSet(S.periods)
      /\ \A p \in S.periods : p.id <= Cardinality(S.periods)
      /\ S.holds \in [Seats -> SUBSET Users] /\ S.elders \cup S.away \subseteq Users
  BY AuxSetups
<1>3. app \in [App -> Application] /\ seat \in [App -> [Seats -> Row]]
  BY <1>1, <1>2, NoRows
<1>4. issued \in Nat
  BY <1>1, <1>2, FS_CardinalityType
<1>5. job \in [Workers -> Job] /\ \A w \in Workers : job[w].at = "idle"
  BY IdleJob DEF Init
<1>6. round \in Rounds
  BY NoRoundIsARound DEF Init
<1>7. closed \subseteq Month /\ now \in 0..Moments /\ used \in 0..MaxUsed
  BY AuxConstants DEF Init
<1>8. revived \cup short \cup wiped \cup dropped \subseteq App /\ leftOut \in [App -> SUBSET (1..OpenEnd)]
      /\ unmade \in [App -> SUBSET (1..OpenEnd)] /\ freed \subseteq 1..OpenEnd
  BY DEF Init
<1>9. TypeOK
  BY <1>1, <1>2, <1>3, <1>4, <1>5, <1>6, <1>7, <1>8 DEF TypeOK, Rounds
<1>10. IssuedBefore
  BY <1>5 DEF IssuedBefore
<1> QED
  BY <1>9, <1>10 DEF TypeInv

\* What a step of Next is.
LEMMA StepIs ==
    ASSUME [Next]_vars
    PROVE \/ \E r \in Requests : Begins(r)
          \/ \E r \in Requests : InsertApp(r) \/ SaveSeat(r)
          \/ \E w \in Workers : Rewrite(w) \/ Approve(w)
          \/ \E w \in Workers : Erase(w)
          \/ \E w \in Workers : SaveAnswer(w) \/ OpenSeat(w)
          \/ \E w \in Workers : SettleIfDone(w)
          \/ \E w \in Workers : CheckRun(w)
          \/ \E w \in Workers : RunFails(w)
          \/ \E w \in Workers : MakePeriod(w) \/ InsertPeriod(w)
          \/ \E r \in Requests : WriteSpan(r) \/ DeletePeriod(r)
          \/ BeginNight \/ NightTakes \/ NightOpens \/ NightReminds
          \/ (\E w \in Workers : Lose(w)) \/ HandOver \/ ElderLeaves \/ CloseMonth \/ Tick
          \/ UNCHANGED vars
<1>1. CASE \E r \in Requests : Works(r)
  <2>1. PICK r \in Requests : Works(r)
    BY <1>1
  <2>2. r \in Workers
    BY WorkerKinds
  <2> QED
    BY <2>1, <2>2 DEF Works, Settles
<1>2. CASE Night
  BY <1>2, WorkerKinds DEF Night, Settles
<1>3. CASE (\E r \in Requests : Begins(r)) \/ (\E w \in Workers : Lose(w) \/ RunFails(w)) \/ HandOver
           \/ ElderLeaves \/ CloseMonth \/ Tick \/ UNCHANGED vars
  BY <1>3
<1> QED
  BY <1>1, <1>2, <1>3 DEF Next

LEMMA TypeStep == TypeInv /\ [Next]_vars => TypeInv'
<1> SUFFICES ASSUME TypeInv, [Next]_vars
             PROVE TypeInv'
  OBVIOUS
<1>1. CASE UNCHANGED vars
  BY <1>1 DEF TypeInv, TypeOK, IssuedBefore, vars, tables, world, history
<1>2. CASE \E r \in Requests : Begins(r)
  BY <1>2, TypeBegins
<1>3. CASE \E r \in Requests : InsertApp(r) \/ SaveSeat(r)
  BY <1>3, TypeInsertApp, TypeSaveSeat
<1>4. CASE \E w \in Workers : Rewrite(w) \/ Approve(w)
  BY <1>4, TypeSaves
<1>5. CASE \E w \in Workers : Erase(w)
  BY <1>5, TypeErase
<1>6. CASE \E w \in Workers : SaveAnswer(w) \/ OpenSeat(w)
  BY <1>6, TypePlace
<1>7. CASE \E w \in Workers : SettleIfDone(w)
  BY <1>7, TypeSettle
<1>8. CASE \E w \in Workers : CheckRun(w)
  BY <1>8, TypeCheckRun
<1>f. CASE \E w \in Workers : RunFails(w)
  BY <1>f, TypeRunFails
<1>9. CASE \E w \in Workers : MakePeriod(w) \/ InsertPeriod(w)
  BY <1>9, TypeInserts
<1>10. CASE \E r \in Requests : WriteSpan(r) \/ DeletePeriod(r)
  BY <1>10, TypeMoves
<1>11. CASE BeginNight \/ NightTakes \/ NightOpens \/ NightReminds
  BY <1>11, TypeNight
<1>12. CASE (\E w \in Workers : Lose(w)) \/ HandOver \/ ElderLeaves \/ CloseMonth \/ Tick
  BY <1>12, TypeOthers
<1> QED
  BY <1>1, <1>2, <1>3, <1>4, <1>5, <1>6, <1>7, <1>8, <1>f, <1>9, <1>10, <1>11, <1>12, StepIs

LEMMA TypeHolds == Spec => []TypeInv
BY TypeInit, TypeStep, PTL DEF Spec

\* Every row of the applications, the places and the periods, and everything a request or the
\* nightly round works with, is of its kind, and the ids of the periods were given out.
THEOREM AuxTypeCorrect == Spec => []TypeOK
<1>1. TypeInv => TypeOK
  BY DEF TypeInv
<1> QED
  BY <1>1, TypeHolds, PTL

----------------------------------------------------------------------------
(* What has been read.  Whatever works on an application read it while it    *)
(* was pending; a place somebody answers or opens was there, and the one     *)
(* somebody opens was not answered.                                          *)

OfApp == {"seats", "rewrite", "settle", "answer", "open", "runs", "make"}
Asks(e) == e.state = "pending" /\ OneMonth(e)
Sound(j) ==
    /\ j.at \in {"insert"} \cup OfApp => Asks(j.e)
    /\ j.at \in {"insert", "seats"} => (j.e.paper => Cardinality(DOMAIN j.signed) >= 2)
    /\ j.at = "seats" => j.left # {}
    /\ j.at = "answer" => j.row.is /\ j.row.by \in Users
    /\ j.at = "open" => j.row.is /\ j.row.by = Nobody /\ j.row.open # "no"
SoundRound(R) == /\ \A x \in R.apps : Asks(x.e)
                 /\ \A y \in R.rows : Asks(y.e) /\ y.row.is /\ y.row.by = Nobody
ReadSoundly == /\ \A w \in Workers : Sound(job[w])
               /\ SoundRound(round)
               /\ \A a \in App : OneMonth(app[a])

\* A worker goes on with what it has read.
LEMMA ReadsOn ==
    ASSUME TypeInv, ReadSoundly, NEW w \in Workers, NEW next, Goes(w, next), Sound(next),
           SoundRound(round'), \A a \in App : OneMonth(app'[a])
    PROVE ReadSoundly'
<1>1. \A v \in Workers : Sound(job'[v])
  BY GoesOn DEF TypeInv, TypeOK, ReadSoundly
<1> QED
  BY <1>1 DEF ReadSoundly

LEMMA SoundIdle == Sound(Idle) /\ SoundRound(NoRound)
<1>1. Idle.at = "idle"
  BY IdleJob
<1>2. Sound(Idle)
  BY <1>1 DEF Sound, OfApp
<1> QED
  BY <1>2, NoRoundIsARound DEF SoundRound

LEMMA OneMonthAsked ==
    ASSUME NEW e, e.months \in Choices, e.untilCancelled => Cardinality(e.months) = 1
    PROVE OneMonth(e)
<1> SUFFICES ASSUME e.untilCancelled
             PROVE \E m \in Month : e.months = {m}
  BY DEF OneMonth
<1>1. e.months \subseteq Month
  BY WorkerKinds
<1>2. IsFiniteSet(Month)
  <2>1. 1 \in Int /\ Months \in Int
    BY AuxConstants
  <2> QED
    BY <2>1, FS_Interval DEF Month
<1>3. IsFiniteSet(e.months)
  BY <1>1, <1>2, FS_Subset
<1>4. \E m : e.months = {m}
  BY <1>3, FS_Singleton
<1> QED
  BY <1>1, <1>4

LEMMA SoundBegins ==
    ASSUME TypeInv, ReadSoundly, NEW r \in Requests, Begins(r)
    PROVE ReadSoundly'
<1>1. PICK kind \in Kinds, next \in Job : Begin(r, kind) /\ Goes(r, next) /\ Begun(next)
  BY BegunIs DEF TypeInv
<1>2. UNCHANGED <<app, round>>
  BY <1>1 DEF Begin, tables
<1>3. Sound(next)
  <2>1. CASE next.at = "insert"
    BY <1>1, <2>1, OneMonthAsked DEF Begun, Sound, OfApp, Asks
  <2>2. CASE next.at = "rewrite"
    BY <1>1, <2>2, OneMonthAsked DEF Begun, Sound, OfApp, Asks
  <2>3. CASE next.at \in {"answer", "open"}
    <3>1. next.a \in App
      BY <2>3, JobFields
    <3>2. OneMonth(app[next.a])
      BY <3>1 DEF ReadSoundly
    <3> QED
      BY <1>1, <2>3, <3>2 DEF Begun, Sound, OfApp, Asks
  <2>4. CASE next.at \in {"erase", "period", "span", "delete"}
    BY <2>4 DEF Sound, OfApp
  <2> QED
    BY <1>1, <2>1, <2>2, <2>3, <2>4 DEF Begun
<1> QED
  BY <1>1, <1>2, <1>3, ReadsOn, WorkerKinds DEF ReadSoundly

LEMMA SoundWorks ==
    ASSUME TypeInv, ReadSoundly, NEW r \in Requests, InsertApp(r) \/ SaveSeat(r)
    PROVE ReadSoundly'
<1>0. TypeOK /\ r \in Workers /\ job[r] \in Job /\ Sound(job[r])
  BY WorkerKinds DEF TypeInv, TypeOK, ReadSoundly
<1>1. CASE InsertApp(r)
  <2>1. NextId \in App /\ job[r].e \in Application /\ job[r].at = "insert"
    BY <1>0, <1>1, NextIdIsFree, JobFields DEF InsertApp
  <2> DEFINE e == [job[r].e EXCEPT !.at = now]
             next == [at |-> "seats", a |-> NextId, e |-> app'[NextId], left |-> Seats,
                      signed |-> job[r].signed, holds |-> holds]
  <2>2. e.state = job[r].e.state /\ e.months = job[r].e.months /\ e.paper = job[r].e.paper
        /\ e.untilCancelled = job[r].e.untilCancelled
    BY <2>1 DEF Application
  <2>3. app' = [app EXCEPT ![NextId] = e] /\ Goes(r, next) /\ UNCHANGED round
    BY <1>1 DEF InsertApp
  <2> HIDE DEF e
  <2>4. app'[NextId] = e /\ \A b \in App \ {NextId} : app'[b] = app[b]
    BY <1>0, <2>1, <2>3 DEF TypeOK
  <2>5. Asks(e)
    BY <1>0, <2>1, <2>2 DEF Sound, Asks, OneMonth
  <2>6. next.at = "seats" /\ next.e = e /\ next.left = Seats /\ next.signed = job[r].signed
    BY <2>4
  <2>7. Seats # {}
    BY AuxConstants, FS_EmptySet
  <2> HIDE DEF next
  <2>8. Sound(next)
    BY <1>0, <2>1, <2>2, <2>5, <2>6, <2>7 DEF Sound, OfApp
  <2>9. \A b \in App : OneMonth(app'[b])
    BY <2>4, <2>5 DEF ReadSoundly, Asks
  <2> QED
    BY <1>0, <2>3, <2>8, <2>9, ReadsOn DEF ReadSoundly
<1>2. CASE SaveSeat(r)
  <2> DEFINE j == job[r]
             s == CHOOSE x \in j.left : TRUE
             left == j.left \ {s}
             next == AfterSeats(j, left)
  <2>1. j \in Job /\ j.at = "seats" /\ UNCHANGED <<app, round>> /\ (Goes(r, Idle) \/ Goes(r, next))
    BY <1>0, <1>2 DEF SaveSeat
  <2>2. left \in SUBSET Seats /\ j.e.paper \in BOOLEAN
    BY <2>1, JobFields DEF Application
  <2> HIDE DEF left, j
  <2>3. Sound(next)
    <3>1. \/ next.at = "seats" /\ next.e = j.e /\ next.left # {} /\ next.signed = j.signed
          \/ next.at = "runs" /\ next.e = j.e
          \/ next.at = "idle"
      BY <2>1, <2>2, AfterASeat, ZenonT(40)
    <3> HIDE DEF next
    <3> QED
      BY <1>0, <2>1, <3>1 DEF Sound, OfApp, j
  <2> HIDE DEF next
  <2> QED
    BY <1>0, <2>1, <2>3, ReadsOn, SoundIdle DEF ReadSoundly
<1> QED
  BY <1>1, <1>2

LEMMA SoundGoesOn ==
    ASSUME TypeInv, ReadSoundly, NEW w \in Workers,
           \/ Rewrite(w) \/ Approve(w) \/ Erase(w) \/ SaveAnswer(w) \/ OpenSeat(w) \/ SettleIfDone(w)
           \/ CheckRun(w) \/ RunFails(w) \/ MakePeriod(w) \/ InsertPeriod(w) \/ WriteSpan(w) \/ DeletePeriod(w)
    PROVE ReadSoundly'
<1>0. TypeOK /\ job[w] \in Job /\ Sound(job[w])
  BY DEF TypeInv, TypeOK, ReadSoundly
<1>1. CASE Rewrite(w) \/ Approve(w)
  <2>1. job[w].at \in {"rewrite", "runs"} /\ job[w].a \in App /\ job[w].e \in Application
    BY <1>0, <1>1, JobFields DEF Rewrite, Approve
  <2>2. OneMonth(job[w].e)
    BY <1>0, <2>1 DEF Sound, OfApp, Asks
  <2>3. PICK e : Saved(job[w].a, e) /\ OneMonth(e)
    <3>1. OneMonth([job[w].e EXCEPT !.state = "approved"])
      BY <2>1, <2>2 DEF OneMonth, Application
    <3> QED
      BY <1>1, <2>2, <3>1 DEF Rewrite, Approve
  <2>4. \A a \in App : OneMonth(app'[a])
    BY <1>0, <2>1, <2>3 DEF Saved, TypeOK, ReadSoundly
  <2>5. Goes(w, Idle) /\ UNCHANGED round
    BY <1>1 DEF Rewrite, Approve
  <2> QED
    BY <2>4, <2>5, ReadsOn, SoundIdle DEF ReadSoundly
<1>2. CASE Erase(w)
  <2>1. app' = [app EXCEPT ![job[w].a] = Erased] /\ Goes(w, Idle) /\ UNCHANGED round
    BY <1>2 DEF Erase, Erased
  <2>2. \A a \in App : OneMonth(app'[a])
    BY <1>0, <2>1, ErasedIs DEF TypeOK, ReadSoundly, OneMonth
  <2> QED
    BY <2>1, <2>2, ReadsOn, SoundIdle DEF ReadSoundly
<1>3. CASE SaveAnswer(w) \/ OpenSeat(w)
  <2>1. job[w].at \in {"answer", "open"} /\ (Goes(w, Settle(job[w])) \/ Goes(w, Idle))
        /\ (round' = round \/ round' = NoRound) /\ UNCHANGED app
    BY <1>3 DEF SaveAnswer, OpenSeat
  <2>2. Sound(Settle(job[w]))
    <3>1. Settle(job[w]).at = "settle" /\ Settle(job[w]).e = job[w].e
      BY <1>0, <2>1, SettleIsAJob
    <3> QED
      BY <1>0, <2>1, <3>1 DEF Sound, OfApp
  <2> QED
    BY <2>1, <2>2, ReadsOn, SoundIdle DEF ReadSoundly
<1>4. CASE SettleIfDone(w)
  <2>1. job[w].at = "settle" /\ UNCHANGED <<app, round>>
    BY <1>4 DEF SettleIfDone, tables
  <2> DEFINE next == [at |-> "runs", a |-> job[w].a, e |-> job[w].e,
                      left |-> RunsOf(job[w].e, job[w].e.months \ closed)]
  <2>2. Goes(w, next) \/ Goes(w, Idle)
    BY <1>4 DEF SettleIfDone
  <2>3. Sound(next)
    <3>1. next.at = "runs" /\ next.e = job[w].e
      OBVIOUS
    <3> HIDE DEF next
    <3> QED
      BY <1>0, <2>1, <3>1 DEF Sound, OfApp
  <2> HIDE DEF next
  <2> QED
    BY <2>1, <2>2, <2>3, ReadsOn, SoundIdle DEF ReadSoundly
<1>5. CASE CheckRun(w)
  <2>1. PICK next \in Job : Goes(w, next) /\ next.e = job[w].e /\ next.at \in {"make", "runs"}
                            /\ UNCHANGED <<app, round>> /\ job[w].at = "runs"
    BY <1>5, CheckedRun DEF tables
  <2>2. Sound(next)
    BY <1>0, <2>1 DEF Sound, OfApp
  <2> QED
    BY <2>1, <2>2, ReadsOn DEF ReadSoundly
<1>f. CASE RunFails(w)
  <2>1. PICK next \in Job : Goes(w, next) /\ next.e = job[w].e /\ next.at = "runs"
                            /\ UNCHANGED <<app, round>> /\ job[w].at = "make"
    BY <1>f, FailedRun DEF tables
  <2>2. Sound(next)
    BY <1>0, <2>1 DEF Sound, OfApp
  <2> QED
    BY <2>1, <2>2, ReadsOn DEF ReadSoundly
<1>6. CASE MakePeriod(w)
  <2> DEFINE next == [at |-> "runs", a |-> job[w].a, e |-> job[w].e, left |-> job[w].left]
  <2>1. job[w].at = "make" /\ Goes(w, next) /\ UNCHANGED <<app, round>>
    BY <1>6 DEF MakePeriod
  <2>2. Sound(next)
    <3>1. next.at = "runs" /\ next.e = job[w].e
      OBVIOUS
    <3> HIDE DEF next
    <3> QED
      BY <1>0, <2>1, <3>1 DEF Sound, OfApp
  <2> HIDE DEF next
  <2> QED
    BY <2>1, <2>2, ReadsOn DEF ReadSoundly
<1>7. CASE InsertPeriod(w) \/ WriteSpan(w) \/ DeletePeriod(w)
  <2>1. Goes(w, Idle) /\ UNCHANGED <<app, round>>
    BY <1>7 DEF InsertPeriod, WriteSpan, DeletePeriod
  <2> QED
    BY <2>1, ReadsOn, SoundIdle DEF ReadSoundly
<1> QED
  BY <1>1, <1>2, <1>3, <1>4, <1>5, <1>f, <1>6, <1>7

LEMMA SoundNight ==
    ASSUME TypeInv, ReadSoundly, BeginNight \/ NightTakes \/ NightOpens \/ NightReminds
    PROVE ReadSoundly'
<1>0. TypeOK /\ Nightly \in Workers /\ round \in Rounds /\ UNCHANGED app
      /\ round.apps \subseteq [a: App, e: Application]
      /\ round.rows \subseteq [a: App, e: Application, s: Seats, row: Row]
  BY WorkerKinds DEF TypeInv, TypeOK, Rounds, BeginNight, NightTakes, NightOpens, NightReminds, tables
<1>1. CASE BeginNight
  <2>1. round'.apps = {[a |-> a, e |-> app[a]] : a \in {b \in App : Pending(b)}} /\ round'.rows = {}
        /\ UNCHANGED job
    BY <1>1 DEF BeginNight
  <2>2. \A x \in round'.apps : Asks(x.e)
    BY <2>1 DEF ReadSoundly, Asks, Pending
  <2> QED
    BY <1>0, <2>1, <2>2 DEF ReadSoundly, SoundRound
<1>2. CASE NightTakes
  <2>1. PICK x \in round.apps :
         IF over(x.e)
         THEN /\ Goes(Nightly, [at |-> "erase", a |-> x.a])
              /\ round' = Rest(round.apps \ {x}, {})
         ELSE /\ round' = Rest(round.apps \ {x},
                               IF ~waited(x.e) THEN {}
                               ELSE {[a |-> x.a, e |-> x.e, s |-> s, row |-> seat[x.a][s]] : s \in Needs(x.a, round.holds)})
              /\ UNCHANGED job
    BY <1>2, Zenon DEF NightTakes
  <2> DEFINE rows == {[a |-> x.a, e |-> x.e, s |-> s, row |-> seat[x.a][s]] : s \in Needs(x.a, round.holds)}
  <2>2. PICK left \in {{}, rows} : round' = Rest(round.apps \ {x}, left)
    BY <2>1
  <2>3. x.a \in App /\ x.e \in Application /\ Asks(x.e)
    BY <1>0 DEF ReadSoundly, SoundRound
  <2>4. \A s \in Needs(x.a, round.holds) : s \in Seats /\ seat[x.a][s].is /\ seat[x.a][s].by = Nobody
    BY DEF Needs, Unanswered, Exists
  <2>5. \A y \in rows : Asks(y.e) /\ y.row.is /\ y.row.by = Nobody
    BY <2>3, <2>4
  <2>6. rows \subseteq [a: App, e: Application, s: Seats, row: Row]
    BY <1>0, <2>3, <2>4 DEF TypeOK
  <2> HIDE DEF rows
  <2>7. round'.apps = round.apps \ {x} /\ round'.rows = left
    <3>1. left \subseteq [a: App, e: Application, s: Seats, row: Row]
          /\ round.apps \ {x} \subseteq [a: App, e: Application]
      BY <1>0, <2>6
    <3> QED
      BY <1>0, <2>2, <3>1, RestOfRound
  <2>8. SoundRound(round')
    BY <2>5, <2>7 DEF ReadSoundly, SoundRound
  <2>9. CASE UNCHANGED job
    BY <1>0, <2>8, <2>9 DEF ReadSoundly
  <2>10. CASE Goes(Nightly, [at |-> "erase", a |-> x.a])
    <3>1. Sound([at |-> "erase", a |-> x.a])
      BY DEF Sound, OfApp
    <3> QED
      BY <1>0, <2>8, <2>10, <3>1, ReadsOn DEF ReadSoundly
  <2> QED
    BY <2>1, <2>9, <2>10
<1>3. CASE NightOpens
  <2>1. PICK y \in round.rows :
         /\ Goes(Nightly, [at |-> "open", a |-> y.a, e |-> y.e, s |-> y.s,
                           row |-> [y.row EXCEPT !.open = "absent", !.opener = Nobody]])
         /\ round' = Rest(round.apps, round.rows \ {y})
    BY <1>3, Zenon DEF NightOpens
  <2> DEFINE row == [y.row EXCEPT !.open = "absent", !.opener = Nobody]
             n == [at |-> "open", a |-> y.a, e |-> y.e, s |-> y.s, row |-> row]
  <2>2. Asks(y.e) /\ y.row.is /\ y.row.by = Nobody /\ y.row \in Row
    BY <1>0 DEF ReadSoundly, SoundRound
  <2>3. row.is /\ row.by = Nobody /\ row.open = "absent"
    BY <2>2 DEF Row
  <2>4. Goes(Nightly, n)
    BY <2>1
  <2> HIDE DEF row
  <2>5. n.at = "open" /\ n.e = y.e /\ n.row = row
    OBVIOUS
  <2> HIDE DEF n
  <2>6. Sound(n)
    BY <2>2, <2>3, <2>5 DEF Sound, OfApp
  <2>7. round'.apps = round.apps /\ round'.rows = round.rows \ {y}
    BY <1>0, <2>1, RestOfRound
  <2>8. SoundRound(round')
    BY <2>7 DEF ReadSoundly, SoundRound
  <2> QED
    BY <1>0, <2>4, <2>6, <2>8, ReadsOn DEF ReadSoundly
<1>4. CASE NightReminds
  <2>1. PICK y \in round.rows : round' = Rest(round.apps, round.rows \ {y}) \/ round' = NoRound
    BY <1>4, Zenon DEF NightReminds
  <2>2. SoundRound(round')
    <3>1. CASE round' = NoRound
      BY <3>1, SoundIdle
    <3>2. CASE round' = Rest(round.apps, round.rows \ {y})
      <4>1. round'.apps = round.apps /\ round'.rows = round.rows \ {y}
        BY <1>0, <3>2, RestOfRound
      <4> QED
        BY <4>1 DEF ReadSoundly, SoundRound
    <3> QED
      BY <2>1, <3>1, <3>2
  <2> QED
    BY <1>0, <1>4, <2>2 DEF ReadSoundly, NightReminds
<1> QED
  BY <1>1, <1>2, <1>3, <1>4

LEMMA SoundInit == Init => ReadSoundly
<1> SUFFICES ASSUME Init
             PROVE ReadSoundly
  OBVIOUS
<1>1. PICK S \in Setups : app = [a \in App |-> IF a = 1 THEN S.app ELSE NoApp]
  BY DEF Init
<1>2. \A a \in App : OneMonth(app[a])
  <2>1. OneMonth(S.app)
    BY AuxSetups DEF OneMonth
  <2>2. OneMonth(NoApp)
    BY NoRows DEF OneMonth
  <2> QED
    BY <1>1, <2>1, <2>2
<1> QED
  BY <1>2, SoundIdle DEF Init, ReadSoundly

LEMMA SoundStep == TypeInv /\ ReadSoundly /\ [Next]_vars => ReadSoundly'
<1> SUFFICES ASSUME TypeInv, ReadSoundly, [Next]_vars
             PROVE ReadSoundly'
  OBVIOUS
<1>1. CASE UNCHANGED vars
  BY <1>1 DEF ReadSoundly, vars, tables
<1>2. CASE \E r \in Requests : Begins(r)
  BY <1>2, SoundBegins
<1>3. CASE \E r \in Requests : InsertApp(r) \/ SaveSeat(r)
  BY <1>3, SoundWorks
<1>4. CASE \/ \E w \in Workers : \/ Rewrite(w) \/ Approve(w) \/ Erase(w) \/ SaveAnswer(w) \/ OpenSeat(w)
                               \/ SettleIfDone(w) \/ CheckRun(w) \/ RunFails(w) \/ MakePeriod(w)
                               \/ InsertPeriod(w)
           \/ \E r \in Requests : WriteSpan(r) \/ DeletePeriod(r)
  BY <1>4, SoundGoesOn, WorkerKinds
<1>5. CASE BeginNight \/ NightTakes \/ NightOpens \/ NightReminds
  BY <1>5, SoundNight
<1>6. CASE (\E w \in Workers : Lose(w)) \/ HandOver \/ ElderLeaves \/ CloseMonth \/ Tick
  <2>1. UNCHANGED app
    BY <1>6 DEF Lose, HandOver, ElderLeaves, CloseMonth, Tick, tables
  <2>2. CASE \E w \in Workers : Lose(w)
    <3>1. PICK w \in Workers : Goes(w, Idle) /\ (round' = NoRound \/ round' = round)
      BY <2>2 DEF Lose
    <3> QED
      BY <2>1, <3>1, ReadsOn, SoundIdle DEF ReadSoundly
  <2>3. CASE UNCHANGED <<job, round>>
    BY <2>1, <2>3 DEF ReadSoundly
  <2> QED
    BY <1>6, <2>2, <2>3 DEF HandOver, ElderLeaves, CloseMonth, Tick
<1> QED
  BY <1>1, <1>2, <1>3, <1>4, <1>5, <1>6, StepIs

----------------------------------------------------------------------------
(* Every month approved is served.  While the periods of an application are  *)
(* being made, each month asked for is served, was left out or taken away,   *)
(* or stands in a run that is still to be made.                              *)

Kept(a) == Served \cup leftOut[a] \cup unmade[a] \cup freed

StillToMake(j) ==
    IF j.at = "make" THEN SpansOf(j.left) \cup Span(j.run) ELSE SpansOf(j.left)

MonthsAccounted ==
    \A w \in Workers, a \in App :
        (job[w].at \in {"runs", "make"} /\ job[w].a = a) => Wanted(job[w].e) \subseteq Kept(a) \cup StillToMake(job[w])

ServedInv == MonthsAccounted /\ ServedAsApproved

\* A month that was kept stays so, whatever is done.
LEMMA KeptGrows ==
    ASSUME TypeInv, [Next]_vars
    PROVE \A a \in App : Kept(a) \subseteq Kept(a)'
<1>0. TypeOK /\ Served' = UNION {Span(p) : p \in periods'}
  BY DEF TypeInv, Served, Span
<1>1. CASE UNCHANGED <<periods, leftOut, unmade, freed>>
  BY <1>1 DEF Kept, Served, Span
<1>2. CASE /\ UNCHANGED <<periods, unmade, freed>>
           /\ \E b \in App : \E M : leftOut' = [leftOut EXCEPT ![b] = @ \cup M]
  <2>1. Served' = Served
    BY <1>2 DEF Served, Span
  <2>2. \A a \in App : leftOut[a] \subseteq leftOut'[a]
    BY <1>0, <1>2 DEF TypeOK
  <2> QED
    BY <1>2, <2>1, <2>2 DEF Kept
<1>3. CASE \E run \in Run : Inserted(run) /\ UNCHANGED <<leftOut, unmade, freed>>
  BY <1>0, <1>3, MadePeriod DEF Kept
<1>4. CASE \E r \in Requests : WriteSpan(r) \/ DeletePeriod(r)
  <2>1. (Served \cup freed) \subseteq (Served \cup freed)'
    BY <1>4, TypeMoves
  <2>2. leftOut' = leftOut /\ unmade' = unmade
    BY <1>4 DEF WriteSpan, DeletePeriod
  <2> QED
    BY <2>1, <2>2 DEF Kept
<1>5. CASE \E r \in Requests : SaveSeat(r)
  <2>1. PICK r \in Requests : SaveSeat(r)
    BY <1>5
  <2>2. UNCHANGED <<periods, unmade, freed>> /\ job[r].a \in App
    <3>1. job[r] \in Job /\ job[r].at = "seats"
      BY <1>0, <2>1, WorkerKinds DEF TypeOK, SaveSeat
    <3> QED
      BY <2>1, <3>1, JobFields DEF SaveSeat
  <2>3. UNCHANGED leftOut \/ leftOut' = [leftOut EXCEPT ![job[r].a] = @ \cup LeftBy(job[r].e)]
    BY <2>1 DEF SaveSeat
  <2> QED
    BY <1>1, <1>2, <2>2, <2>3
<1>6. CASE \E w \in Workers : SettleIfDone(w)
  <2>1. PICK w \in Workers : SettleIfDone(w)
    BY <1>6
  <2>2. UNCHANGED <<periods, unmade, freed>> /\ job[w].a \in App
    <3>1. job[w] \in Job /\ job[w].at = "settle"
      BY <1>0, <2>1 DEF TypeOK, SettleIfDone
    <3> QED
      BY <2>1, <3>1, JobFields DEF SettleIfDone, tables
  <2>3. UNCHANGED leftOut \/ leftOut' = [leftOut EXCEPT ![job[w].a] = @ \cup LeftBy(job[w].e)]
    BY <2>1 DEF SettleIfDone
  <2> QED
    BY <1>1, <1>2, <2>2, <2>3
<1>7. CASE \E w \in Workers : CheckRun(w)
  <2>1. PICK w \in Workers : CheckRun(w)
    BY <1>7
  <2>2. UNCHANGED <<periods, unmade, freed>> /\ job[w].a \in App
        /\ (UNCHANGED leftOut \/ \E run : leftOut' = [leftOut EXCEPT ![job[w].a] = @ \cup Span(run)])
    BY <2>1, CheckedRun DEF tables
  <2> QED
    BY <1>1, <1>2, <2>2
<1>f. CASE \E w \in Workers : RunFails(w)
  <2>1. PICK w \in Workers : RunFails(w)
    BY <1>f
  <2>2. /\ UNCHANGED <<periods, leftOut, freed>> /\ job[w].a \in App
        /\ unmade' = [unmade EXCEPT ![job[w].a] = @ \cup Span(job[w].run)]
    BY <2>1, FailedRun DEF tables
  <2>3. \A a \in App : unmade[a] \subseteq unmade'[a]
    BY <1>0, <2>2 DEF TypeOK
  <2>4. Served' = Served
    BY <2>2 DEF Served, Span
  <2> QED
    BY <2>2, <2>3, <2>4 DEF Kept
<1>8. CASE \E w \in Workers : MakePeriod(w) \/ InsertPeriod(w)
  <2>1. PICK w \in Workers : MakePeriod(w) \/ InsertPeriod(w)
    BY <1>8
  <2>2. job[w].run \in Run
    <3>1. job[w] \in Job /\ job[w].at \in {"make", "period"}
      BY <1>0, <2>1 DEF TypeOK, MakePeriod, InsertPeriod
    <3> QED
      BY <3>1, JobFields
  <2>3. Inserted(job[w].run) /\ UNCHANGED <<leftOut, unmade, freed>>
    BY <2>1 DEF MakePeriod, InsertPeriod, history
  <2> QED
    BY <1>3, <2>2, <2>3
<1>9. CASE \E r \in Requests : Begins(r)
  <2>1. PICK r \in Requests, kind \in Kinds : Begin(r, kind)
    BY <1>0, <1>9, BegunIs
  <2> QED
    BY <1>1, <2>1 DEF Begin, tables, history
<1>10. CASE \/ \E r \in Requests : InsertApp(r)
            \/ \E w \in Workers : Rewrite(w) \/ Approve(w) \/ Erase(w) \/ SaveAnswer(w) \/ OpenSeat(w) \/ Lose(w)
  BY <1>1, <1>10 DEF InsertApp, Rewrite, Approve, Erase, SaveAnswer, OpenSeat, Lose, tables, history
<1>11. CASE BeginNight \/ NightTakes \/ NightOpens \/ NightReminds \/ HandOver \/ ElderLeaves \/ CloseMonth \/ Tick
  BY <1>1, <1>11 DEF BeginNight, NightTakes, NightOpens, NightReminds, HandOver, ElderLeaves, CloseMonth, Tick,
                     tables, history
<1>12. CASE UNCHANGED vars
  BY <1>1, <1>12 DEF vars, tables, history
<1> QED
  BY <1>4, <1>5, <1>6, <1>7, <1>f, <1>8, <1>9, <1>10, <1>11, <1>12, StepIs

\* A step after which whoever makes periods still accounts for the months, and what is newly
\* approved is kept, keeps the invariant.
LEMMA ServedOn ==
    ASSUME TypeInv, ServedInv, [Next]_vars, NEW w \in Workers,
           \A v \in Workers \ {w} : job'[v] = job[v],
           \A a \in App : (job'[w].at \in {"runs", "make"} /\ job'[w].a = a) =>
                Wanted(job'[w].e) \subseteq Kept(a)' \cup StillToMake(job'[w]),
           \A a \in App : app'[a].state = "approved" => app'[a] = app[a] \/ Wanted(app'[a]) \subseteq Kept(a)'
    PROVE ServedInv'
<1>1. \A a \in App : Kept(a) \subseteq Kept(a)'
  BY KeptGrows
<1>2. ASSUME NEW v \in Workers, NEW a \in App, job'[v].at \in {"runs", "make"}, job'[v].a = a
      PROVE Wanted(job'[v].e) \subseteq Kept(a)' \cup StillToMake(job'[v])
  <2>1. CASE v = w
    BY <1>2, <2>1
  <2>2. CASE v # w
    <3>1. Wanted(job[v].e) \subseteq Kept(a) \cup StillToMake(job[v])
      BY <1>2, <2>2 DEF ServedInv, MonthsAccounted
    <3> QED
      BY <1>1, <2>2, <3>1
  <2> QED
    BY <2>1, <2>2
<1>3. MonthsAccounted'
  <2>1. ASSUME NEW v \in Workers, NEW a \in App
        PROVE (job'[v].at \in {"runs", "make"} /\ job'[v].a = a) =>
                 Wanted(job'[v].e) \subseteq Kept(a)' \cup StillToMake(job'[v])
    BY <1>2
  <2> QED
    BY <2>1, Zenon DEF MonthsAccounted, StillToMake, Wanted, SpansOf, Span
<1>4. ASSUME NEW a \in App, app'[a].state = "approved"
      PROVE Wanted(app'[a]) \subseteq Kept(a)'
  <2>1. CASE app'[a] = app[a]
    <3>1. Wanted(app[a]) \subseteq Kept(a)
      BY <1>4, <2>1 DEF ServedInv, ServedAsApproved, Kept
    <3> QED
      BY <1>1, <2>1, <3>1
  <2> QED
    BY <1>4, <2>1
<1>5. ServedAsApproved'
  BY <1>4 DEF ServedAsApproved, Kept
<1> QED
  BY <1>3, <1>5 DEF ServedInv

\* When the places are all answered, the months left out at once and the runs are all there was
\* to make.
LEMMA RunsBegin ==
    ASSUME TypeInv, NEW e \in Application, OneMonth(e), NEW a \in App,
           leftOut' = [leftOut EXCEPT ![a] = @ \cup LeftBy(e)],
           NEW j, j.at = "runs", j.e = e, j.left = RunsOf(e, e.months \ closed)
    PROVE Wanted(j.e) \subseteq Kept(a)' \cup StillToMake(j)
<1>1. Wanted(e) \subseteq LeftBy(e) \cup SpansOf(RunsOf(e, e.months \ closed))
  BY RunsAndLeftOut DEF SpansOf
<1>2. LeftBy(e) \subseteq leftOut'[a]
  BY DEF TypeInv, TypeOK
<1>3. leftOut'[a] \subseteq Kept(a)'
  BY DEF Kept
<1>4. StillToMake(j) = SpansOf(RunsOf(e, e.months \ closed))
  BY DEF StillToMake
<1> QED
  BY <1>1, <1>2, <1>3, <1>4

LEMMA ServedSaveSeat ==
    ASSUME TypeInv, ReadSoundly, ServedInv, [Next]_vars, NEW r \in Requests, SaveSeat(r)
    PROVE ServedInv'
<1>0. TypeOK /\ r \in Workers /\ job[r] \in Job /\ Sound(job[r]) /\ job \in [Workers -> Job]
  BY WorkerKinds DEF TypeInv, TypeOK, ReadSoundly
<1> DEFINE j == job[r]
           s == CHOOSE x \in j.left : TRUE
           left == j.left \ {s}
           next == AfterSeats(j, left)
<1>1. /\ j \in Job /\ j.at = "seats" /\ UNCHANGED app
      /\ IF app[j.a].state = "gone" THEN Goes(r, Idle) /\ UNCHANGED <<seat, leftOut>>
         ELSE /\ Goes(r, next)
              /\ leftOut' = IF j.e.paper /\ j.left = {s}
                            THEN [leftOut EXCEPT ![j.a] = @ \cup LeftBy(j.e)]
                            ELSE leftOut
  BY <1>0 DEF SaveSeat
<1>2. j.a \in App /\ j.e \in Application /\ j.left # {} /\ OneMonth(j.e) /\ left \in SUBSET Seats
  BY <1>0, <1>1, JobFields DEF Sound, OfApp, Asks
<1>3. s \in j.left
  BY <1>2
<1> HIDE DEF j, s
<1>4. /\ next \in Job
      /\ left # {} => next.at = "seats"
      /\ left = {} /\ j.e.paper => /\ next.at = "runs" /\ next.a = j.a /\ next.e = j.e
                                   /\ next.left = RunsOf(j.e, j.e.months \ closed)
      /\ left = {} /\ ~j.e.paper => next.at = "idle"
  <2> HIDE DEF left
  <2> QED
    BY <1>1, <1>2, AfterASeat
<1> HIDE DEF next
<1>5. CASE app[j.a].state = "gone"
  <2>1. job'[r] = Idle /\ \A v \in Workers \ {r} : job'[v] = job[v]
    BY <1>0, <1>1, <1>5, GoesOn
  <2> QED
    BY <1>0, <1>1, <2>1, ServedOn, IdleJob
<1>6. CASE app[j.a].state # "gone"
  <2>1. job'[r] = next /\ \A v \in Workers \ {r} : job'[v] = job[v]
    BY <1>0, <1>1, <1>6, GoesOn
  <2>2. CASE left = {} /\ j.e.paper
    <3>1. j.left = {s}
      BY <1>3, <2>2
    <3>2. leftOut' = [leftOut EXCEPT ![j.a] = @ \cup LeftBy(j.e)]
      BY <1>1, <1>6, <2>2, <3>1
    <3>3. PICK a \in App, e \in Application : a = j.a /\ e = j.e
      BY <1>2
    <3>6. PICK n : n = next
      OBVIOUS
    <3>4. Wanted(n.e) \subseteq Kept(a)' \cup StillToMake(n)
      <4>1. OneMonth(e) /\ leftOut' = [leftOut EXCEPT ![a] = @ \cup LeftBy(e)]
            /\ n.at = "runs" /\ n.e = e /\ n.left = RunsOf(e, e.months \ closed)
        BY <1>2, <1>4, <2>2, <3>2, <3>3, <3>6
      <4> QED
        BY <4>1, RunsBegin
    <3>5. job'[r] = n /\ n.a = a /\ UNCHANGED app
      BY <1>1, <1>4, <2>1, <2>2, <3>3, <3>6
    <3> QED
      BY <1>0, <2>1, <3>4, <3>5, ServedOn
  <2>3. CASE ~(left = {} /\ j.e.paper)
    <3>1. next.at \in {"seats", "idle"}
      BY <1>4, <2>3
    <3> QED
      BY <1>0, <1>1, <2>1, <3>1, ServedOn
  <2> QED
    BY <2>2, <2>3
<1> QED
  BY <1>5, <1>6

LEMMA ServedSettles ==
    ASSUME TypeInv, ReadSoundly, ServedInv, [Next]_vars, NEW w \in Workers,
           SettleIfDone(w) \/ CheckRun(w) \/ RunFails(w) \/ MakePeriod(w) \/ Approve(w)
    PROVE ServedInv'
<1>0. TypeOK /\ job[w] \in Job /\ Sound(job[w]) /\ job \in [Workers -> Job]
  BY DEF TypeInv, TypeOK, ReadSoundly
<1>1. CASE SettleIfDone(w)
  <2> DEFINE next == [at |-> "runs", a |-> job[w].a, e |-> job[w].e,
                      left |-> RunsOf(job[w].e, job[w].e.months \ closed)]
  <2>1. /\ job[w].at = "settle" /\ UNCHANGED app
        /\ \/ Goes(w, next) /\ leftOut' = [leftOut EXCEPT ![job[w].a] = @ \cup LeftBy(job[w].e)]
           \/ Goes(w, Idle)
    BY <1>1 DEF SettleIfDone, tables
  <2>2. job[w].a \in App /\ job[w].e \in Application /\ OneMonth(job[w].e)
    BY <1>0, <2>1, JobFields DEF Sound, OfApp, Asks
  <2>3. next.at = "runs" /\ next.a = job[w].a /\ next.e = job[w].e
        /\ next.left = RunsOf(job[w].e, job[w].e.months \ closed)
    OBVIOUS
  <2> HIDE DEF next
  <2>4. CASE Goes(w, next) /\ leftOut' = [leftOut EXCEPT ![job[w].a] = @ \cup LeftBy(job[w].e)]
    <3>1. PICK a \in App, e \in Application : a = job[w].a /\ e = job[w].e
      BY <2>2
    <3>4. PICK n : n = next
      OBVIOUS
    <3>2. Wanted(n.e) \subseteq Kept(a)' \cup StillToMake(n)
      <4>1. OneMonth(e) /\ leftOut' = [leftOut EXCEPT ![a] = @ \cup LeftBy(e)]
            /\ n.at = "runs" /\ n.e = e /\ n.left = RunsOf(e, e.months \ closed)
        BY <2>2, <2>3, <2>4, <3>1, <3>4
      <4> QED
        BY <4>1, RunsBegin
    <3>3. job'[w] = n /\ n.a = a /\ \A v \in Workers \ {w} : job'[v] = job[v]
      BY <1>0, <2>3, <2>4, <3>1, <3>4, GoesOn
    <3> QED
      BY <2>1, <3>2, <3>3, ServedOn
  <2>5. CASE Goes(w, Idle)
    <3>1. job'[w] = Idle /\ \A v \in Workers \ {w} : job'[v] = job[v]
      BY <1>0, <2>5, GoesOn
    <3> QED
      BY <2>1, <3>1, ServedOn, IdleJob
  <2> QED
    BY <2>1, <2>4, <2>5
<1>2. CASE CheckRun(w)
  <2>1. PICK run \in job[w].left, next \in Job :
            /\ job[w].a \in App /\ job[w].at = "runs"
            /\ Goes(w, next) /\ next.a = job[w].a /\ next.e = job[w].e /\ next.left = job[w].left \ {run}
            /\ \/ next.at = "make" /\ next.run = run /\ UNCHANGED leftOut
               \/ next.at = "runs" /\ leftOut' = [leftOut EXCEPT ![job[w].a] = @ \cup Span(run)]
            /\ UNCHANGED app
    BY <1>2, CheckedRun DEF tables
  <2>a. PICK a \in App : a = job[w].a
    BY <2>1
  <2>2. Wanted(job[w].e) \subseteq Kept(a) \cup SpansOf(job[w].left)
    <3>1. Wanted(job[w].e) \subseteq Kept(a) \cup StillToMake(job[w])
      BY <2>1, <2>a DEF ServedInv, MonthsAccounted
    <3> QED
      BY <2>1, <3>1 DEF StillToMake
  <2>3. SpansOf(job[w].left) \subseteq SpansOf(next.left) \cup Span(run)
    <3>1. \A L : SpansOf(L) \subseteq SpansOf(L \ {run}) \cup Span(run)
      BY DEF SpansOf
    <3> QED
      BY <2>1, <3>1
  <2>4. Kept(a) \subseteq Kept(a)'
    BY <2>1, KeptGrows
  <2>5. SpansOf(next.left) \cup Span(run) \subseteq Kept(a)' \cup StillToMake(next)
    <3>1. CASE next.at = "make" /\ next.run = run
      BY <3>1 DEF StillToMake
    <3>2. CASE next.at = "runs" /\ leftOut' = [leftOut EXCEPT ![job[w].a] = @ \cup Span(run)]
      <4>1. Span(run) \subseteq leftOut'[a]
        BY <1>0, <2>1, <2>a, <3>2 DEF TypeOK
      <4>2. leftOut'[a] \subseteq Kept(a)'
        BY DEF Kept
      <4>3. StillToMake(next) = SpansOf(next.left)
        BY <3>2 DEF StillToMake
      <4> QED
        BY <4>1, <4>2, <4>3
    <3> QED
      BY <2>1, <3>1, <3>2
  <2>6. Wanted(next.e) \subseteq Kept(a)' \cup StillToMake(next)
    BY <2>1, <2>2, <2>3, <2>4, <2>5
  <2>7. job'[w] = next /\ \A v \in Workers \ {w} : job'[v] = job[v]
    BY <1>0, <2>1, GoesOn
  <2>8. next.a = a
    BY <2>1, <2>a
  <2> QED
    BY <2>1, <2>6, <2>7, <2>8, ServedOn
<1>3. CASE MakePeriod(w)
  <2> DEFINE next == [at |-> "runs", a |-> job[w].a, e |-> job[w].e, left |-> job[w].left]
  <2>1. /\ job[w].at = "make" /\ Goes(w, next) /\ UNCHANGED app
        /\ Inserted(job[w].run) /\ UNCHANGED <<leftOut, unmade, freed>>
    BY <1>3 DEF MakePeriod, history
  <2>3. job[w].a \in App /\ job[w].run \in Run
    BY <1>0, <2>1, JobFields
  <2>a. PICK a \in App : a = job[w].a
    BY <2>3
  <2>2. next.at = "runs" /\ next.a = a /\ next.e = job[w].e /\ next.left = job[w].left
    BY <2>a
  <2> HIDE DEF next
  <2>4. Wanted(job[w].e) \subseteq Kept(a) \cup SpansOf(job[w].left) \cup Span(job[w].run)
    <3>1. Wanted(job[w].e) \subseteq Kept(a) \cup StillToMake(job[w])
      BY <2>1, <2>a DEF ServedInv, MonthsAccounted
    <3> QED
      BY <2>1, <3>1 DEF StillToMake
  <2>5. Kept(a) \subseteq Kept(a)'
    BY <2>3, KeptGrows
  <2>6. Span(job[w].run) \subseteq Kept(a)'
    <3>1. Span(job[w].run) \subseteq Served'
      BY <1>0, <2>1, <2>3, MadePeriod
    <3>2. Served' \subseteq Kept(a)'
      BY DEF Kept
    <3> QED
      BY <3>1, <3>2
  <2>7. StillToMake(next) = SpansOf(job[w].left)
    BY <2>2 DEF StillToMake
  <2>8. Wanted(next.e) \subseteq Kept(a)' \cup StillToMake(next)
    BY <2>2, <2>4, <2>5, <2>6, <2>7
  <2>9. job'[w] = next /\ \A v \in Workers \ {w} : job'[v] = job[v]
    BY <1>0, <2>1, GoesOn
  <2> QED
    BY <2>1, <2>2, <2>8, <2>9, ServedOn
<1>f. CASE RunFails(w)
  <2>1. PICK next \in Job :
          /\ job[w].at = "make" /\ job[w].a \in App
          /\ Goes(w, next) /\ next.at = "runs" /\ next.a = job[w].a /\ next.e = job[w].e
          /\ next.left = job[w].left /\ UNCHANGED app
          /\ unmade' = [unmade EXCEPT ![job[w].a] = @ \cup Span(job[w].run)]
    BY <1>f, FailedRun DEF tables
  <2>a. PICK a \in App : a = job[w].a
    BY <2>1
  <2>2. Wanted(job[w].e) \subseteq Kept(a) \cup SpansOf(job[w].left) \cup Span(job[w].run)
    <3>1. Wanted(job[w].e) \subseteq Kept(a) \cup StillToMake(job[w])
      BY <2>1, <2>a DEF ServedInv, MonthsAccounted
    <3> QED
      BY <2>1, <3>1 DEF StillToMake
  <2>3. Kept(a) \subseteq Kept(a)'
    BY <2>a, KeptGrows
  <2>4. Span(job[w].run) \subseteq Kept(a)'
    <3>1. Span(job[w].run) \subseteq unmade'[a]
      BY <1>0, <2>1, <2>a DEF TypeOK
    <3>2. unmade'[a] \subseteq Kept(a)'
      BY DEF Kept
    <3> QED
      BY <3>1, <3>2
  <2>5. StillToMake(next) = SpansOf(job[w].left)
    BY <2>1 DEF StillToMake
  <2>6. Wanted(next.e) \subseteq Kept(a)' \cup StillToMake(next) /\ next.a = a
    BY <2>1, <2>a, <2>2, <2>3, <2>4, <2>5
  <2>7. job'[w] = next /\ \A v \in Workers \ {w} : job'[v] = job[v]
    BY <1>0, <2>1, GoesOn
  <2> QED
    BY <2>1, <2>6, <2>7, ServedOn
<1>4. CASE Approve(w)
  <2>1. /\ job[w].at = "runs" /\ job[w].left = {} /\ Goes(w, Idle)
        /\ app' = [app EXCEPT ![job[w].a] = [job[w].e EXCEPT !.state = "approved"]]
    BY <1>4 DEF Approve, Saved
  <2>t. job[w].a \in App /\ job[w].e \in Application
    BY <1>0, <2>1, JobFields
  <2>a. PICK a \in App : a = job[w].a
    BY <2>t
  <2> DEFINE e == [job[w].e EXCEPT !.state = "approved"]
  <2>2. a \in App /\ job[w].e \in Application /\ app' = [app EXCEPT ![a] = e]
    BY <2>1, <2>t, <2>a
  <2>3. Wanted(job[w].e) \subseteq Kept(a) \cup SpansOf({})
    <3>1. Wanted(job[w].e) \subseteq Kept(a) \cup StillToMake(job[w])
      BY <2>1, <2>a DEF ServedInv, MonthsAccounted
    <3> QED
      BY <2>1, <3>1 DEF StillToMake
  <2>4. Kept(a) \subseteq Kept(a)' /\ SpansOf({}) = {}
    BY <2>2, KeptGrows DEF SpansOf
  <2>5. Wanted(e) = Wanted(job[w].e)
    BY <2>2 DEF Wanted, Application
  <2> HIDE DEF e
  <2>6. app'[a] = e /\ \A b \in App \ {a} : app'[b] = app[b]
    BY <1>0, <2>1, <2>2 DEF TypeOK
  <2>7. Wanted(app'[a]) \subseteq Kept(a)'
    BY <2>3, <2>4, <2>5, <2>6
  <2>8. job'[w] = Idle /\ \A v \in Workers \ {w} : job'[v] = job[v]
    BY <1>0, <2>1, GoesOn
  <2>9. \A b \in App : app'[b].state = "approved" => app'[b] = app[b] \/ Wanted(app'[b]) \subseteq Kept(b)'
    <3> TAKE b \in App
    <3>1. CASE b = a
      BY <2>7, <3>1
    <3>2. CASE b # a
      BY <2>6, <3>2
    <3> QED
      BY <3>1, <3>2
  <2> QED
    BY <2>8, <2>9, ServedOn, IdleJob
<1> QED
  BY <1>1, <1>2, <1>3, <1>f, <1>4

LEMMA ServedElsewhere ==
    ASSUME TypeInv, ReadSoundly, ServedInv, [Next]_vars, NEW w \in Workers,
           \/ InsertApp(w) /\ w \in Requests
           \/ Rewrite(w) \/ Erase(w) \/ SaveAnswer(w) \/ OpenSeat(w) \/ InsertPeriod(w)
           \/ WriteSpan(w) \/ DeletePeriod(w) \/ Lose(w)
    PROVE ServedInv'
<1>0. TypeOK /\ job[w] \in Job /\ Sound(job[w]) /\ job \in [Workers -> Job]
  BY DEF TypeInv, TypeOK, ReadSoundly
<1>1. PICK next : Goes(w, next) /\ next.at \in {"idle", "seats", "settle"}
  <2>1. CASE InsertApp(w)
    <3> DEFINE n == [at |-> "seats", a |-> NextId, e |-> app'[NextId], left |-> Seats,
                     signed |-> job[w].signed, holds |-> holds]
    <3>1. Goes(w, n) /\ n.at = "seats"
      BY <2>1 DEF InsertApp
    <3> HIDE DEF n
    <3> QED
      BY <3>1
  <2>2. CASE SaveAnswer(w) \/ OpenSeat(w)
    <3>1. job[w].at \in {"answer", "open"} /\ (Goes(w, Settle(job[w])) \/ Goes(w, Idle))
      BY <2>2 DEF SaveAnswer, OpenSeat
    <3>2. Settle(job[w]).at = "settle"
      BY <1>0, <3>1, SettleIsAJob
    <3> QED
      BY <3>1, <3>2, IdleJob
  <2>3. CASE Rewrite(w) \/ Erase(w) \/ InsertPeriod(w) \/ WriteSpan(w) \/ DeletePeriod(w) \/ Lose(w)
    BY <2>3, IdleJob DEF Rewrite, Erase, InsertPeriod, WriteSpan, DeletePeriod, Lose
  <2> QED
    BY <2>1, <2>2, <2>3
<1>2. \A a \in App : app'[a].state = "approved" => app'[a] = app[a]
  <2>1. CASE InsertApp(w) /\ w \in Requests
    <3>1. NextId \in App /\ job[w].e \in Application /\ job[w].e.state = "pending"
      BY <1>0, <2>1, NextIdIsFree, JobFields DEF InsertApp, Sound, Asks
    <3>2. [job[w].e EXCEPT !.at = now].state = "pending"
      BY <3>1 DEF Application
    <3> QED
      BY <1>0, <2>1, <3>1, <3>2 DEF InsertApp, TypeOK
  <2>2. CASE Rewrite(w)
    <3>1. job[w].a \in App /\ job[w].e.state = "pending"
      BY <1>0, <2>2, JobFields DEF Rewrite, Sound, Asks, OfApp
    <3> QED
      BY <1>0, <2>2, <3>1 DEF Rewrite, Saved, TypeOK
  <2>3. CASE Erase(w)
    <3>1. job[w].a \in App /\ app' = [app EXCEPT ![job[w].a] = Erased]
      BY <1>0, <2>3, JobFields DEF Erase, Erased
    <3> QED
      BY <1>0, <3>1, ErasedIs DEF TypeOK
  <2>4. CASE SaveAnswer(w) \/ OpenSeat(w) \/ InsertPeriod(w) \/ WriteSpan(w) \/ DeletePeriod(w) \/ Lose(w)
    BY <2>4 DEF SaveAnswer, OpenSeat, InsertPeriod, WriteSpan, DeletePeriod, Lose, tables
  <2> QED
    BY <2>1, <2>2, <2>3, <2>4
<1>3. job'[w] = next /\ \A v \in Workers \ {w} : job'[v] = job[v]
  BY <1>0, <1>1, GoesOn
<1> QED
  BY <1>1, <1>2, <1>3, ServedOn

LEMMA ServedStep == TypeInv /\ ReadSoundly /\ ServedInv /\ [Next]_vars => ServedInv'
<1> SUFFICES ASSUME TypeInv, ReadSoundly, ServedInv, [Next]_vars
             PROVE ServedInv'
  OBVIOUS
<1>0. job \in [Workers -> Job] /\ Nightly \in Workers
  BY WorkerKinds DEF TypeInv, TypeOK
<1>1. CASE UNCHANGED <<job, app>>
  <2>1. ASSUME NEW a \in App, job'[Nightly].at \in {"runs", "make"}, job'[Nightly].a = a
        PROVE Wanted(job'[Nightly].e) \subseteq Kept(a)' \cup StillToMake(job'[Nightly])
    <3>1. Wanted(job[Nightly].e) \subseteq Kept(a) \cup StillToMake(job[Nightly])
      BY <1>0, <1>1, <2>1 DEF ServedInv, MonthsAccounted
    <3>2. Kept(a) \subseteq Kept(a)'
      BY KeptGrows
    <3> QED
      BY <1>1, <3>1, <3>2
  <2> QED
    BY <1>0, <1>1, <2>1, ServedOn
<1>2. CASE \E r \in Requests : Begins(r)
  <2>1. PICK r \in Requests, kind \in Kinds, next \in Job : Begin(r, kind) /\ Goes(r, next) /\ Begun(next)
    BY <1>2, BegunIs DEF TypeInv
  <2>2. next.at \notin {"runs", "make"} /\ UNCHANGED app /\ r \in Workers
    BY <2>1, WorkerKinds DEF Begun, Begin, tables
  <2>3. job'[r] = next /\ \A v \in Workers \ {r} : job'[v] = job[v]
    BY <1>0, <2>1, <2>2, GoesOn
  <2> QED
    BY <2>2, <2>3, ServedOn
<1>3. CASE \E r \in Requests : InsertApp(r) \/ SaveSeat(r)
  BY <1>3, ServedElsewhere, ServedSaveSeat, WorkerKinds
<1>4. CASE \E w \in Workers : \/ Rewrite(w) \/ Erase(w) \/ SaveAnswer(w) \/ OpenSeat(w) \/ InsertPeriod(w)
                              \/ Lose(w)
  BY <1>4, ServedElsewhere
<1>5. CASE \E w \in Workers : SettleIfDone(w) \/ CheckRun(w) \/ RunFails(w) \/ MakePeriod(w) \/ Approve(w)
  BY <1>5, ServedSettles
<1>6. CASE \E r \in Requests : WriteSpan(r) \/ DeletePeriod(r)
  BY <1>6, ServedElsewhere, WorkerKinds
<1>7. CASE BeginNight \/ NightReminds
  BY <1>1, <1>7 DEF BeginNight, NightReminds, tables
<1>8. CASE NightTakes \/ NightOpens
  <2>1. \/ UNCHANGED job
        \/ \E x : Goes(Nightly, [at |-> "erase", a |-> x])
        \/ \E a, e, s, row : Goes(Nightly, [at |-> "open", a |-> a, e |-> e, s |-> s, row |-> row])
    BY <1>8, Zenon DEF NightTakes, NightOpens
  <2>2. UNCHANGED app
    BY <1>8 DEF NightTakes, NightOpens, tables
  <2>3. CASE \E next : Goes(Nightly, next) /\ next.at \in {"erase", "open"}
    <3>1. PICK next : Goes(Nightly, next) /\ next.at \in {"erase", "open"}
      BY <2>3
    <3>2. job'[Nightly] = next /\ \A v \in Workers \ {Nightly} : job'[v] = job[v]
      BY <1>0, <3>1, GoesOn
    <3> QED
      BY <1>0, <2>2, <3>1, <3>2, ServedOn
  <2>4. CASE \E x : Goes(Nightly, [at |-> "erase", a |-> x])
    <3>1. PICK x : Goes(Nightly, [at |-> "erase", a |-> x])
      BY <2>4
    <3>2. [at |-> "erase", a |-> x].at = "erase"
      OBVIOUS
    <3> QED
      BY <2>3, <3>1, <3>2
  <2>5. CASE \E a, e, s, row : Goes(Nightly, [at |-> "open", a |-> a, e |-> e, s |-> s, row |-> row])
    <3>1. PICK a, e, s, row : Goes(Nightly, [at |-> "open", a |-> a, e |-> e, s |-> s, row |-> row])
      BY <2>5
    <3>2. [at |-> "open", a |-> a, e |-> e, s |-> s, row |-> row].at = "open"
      OBVIOUS
    <3> QED
      BY <2>3, <3>1, <3>2
  <2> QED
    BY <1>1, <2>1, <2>2, <2>4, <2>5
<1>9. CASE HandOver \/ ElderLeaves \/ CloseMonth \/ Tick \/ UNCHANGED vars
  BY <1>1, <1>9 DEF HandOver, ElderLeaves, CloseMonth, Tick, vars, tables
<1> QED
  BY <1>2, <1>3, <1>4, <1>5, <1>6, <1>7, <1>8, <1>9, StepIs

LEMMA ServedInit == Init => ServedInv
<1> SUFFICES ASSUME Init
             PROVE ServedInv
  OBVIOUS
<1>1. PICK S \in Setups : app = [a \in App |-> IF a = 1 THEN S.app ELSE NoApp]
  BY DEF Init
<1>2. \A a \in App : app[a].state # "approved"
  BY <1>1, AuxSetups, NoRows
<1>3. \A w \in Workers : job[w].at = "idle"
  BY IdleJob DEF Init
<1> QED
  BY <1>2, <1>3 DEF ServedInv, MonthsAccounted, ServedAsApproved

LEMMA ReadsHold == Spec => [](TypeInv /\ ReadSoundly)
<1>1. Init => TypeInv /\ ReadSoundly
  BY TypeInit, SoundInit
<1>2. (TypeInv /\ ReadSoundly) /\ [Next]_vars => (TypeInv /\ ReadSoundly)'
  BY TypeStep, SoundStep
<1> QED
  BY <1>1, <1>2, PTL DEF Spec

\* However the answers meet each other, and whatever is cut off, changed or closed meanwhile,
\* every month of an approved application is served, was left out because it was closed or
\* served already, was gone on without because its period was refused or not saved (the failure
\* is caught), or was taken away by hand.
THEOREM WhatIsApprovedIsServed == Spec => []ServedAsApproved
<1>1. Init => ServedInv
  BY ServedInit
<1>2. (TypeInv /\ ReadSoundly) /\ ServedInv /\ [Next]_vars => ServedInv'
  BY ServedStep
<1>3. ServedInv => ServedAsApproved
  BY DEF ServedInv
<1> QED
  BY <1>1, <1>2, <1>3, ReadsHold, PTL DEF Spec

----------------------------------------------------------------------------
(* An application is a paper or not, for everybody who works on it.          *)

Filed(a) == app[a].state \in {"pending", "approved"}

\* Application a is, or somebody has read it as, e.
Knows(a, e) ==
    \/ Filed(a) /\ app[a] = e
    \/ \E w \in Workers : job[w].at \in OfApp /\ job[w].a = a /\ job[w].e = e
    \/ \E x \in round.apps : x.a = a /\ x.e = e
    \/ \E x \in round.rows : x.a = a /\ x.e = e

\* A place somebody has read to write it is there, unless it went with its application.
There(a, s) == seat[a][s].is \/ a \in revived \/ app[a].state = "gone"
PlacesRead ==
    /\ \A w \in Workers : job[w].at \in {"answer", "open"} => There(job[w].a, job[w].s)
    /\ \A y \in round.rows : There(y.a, y.s)

SameKind ==
    /\ \A a \in App : \A e, f \in Application : (Knows(a, e) /\ Knows(a, f)) => (e.paper <=> f.paper)
    /\ \A a \in App : \A e \in Application : Knows(a, e) => app[a].state # "none"

KindInv == SameKind /\ PlacesRead

\* Whoever knows e knows it as somebody did before.
KnownBefore(a, e) == \E f \in Application : Knows(a, f) /\ (e.paper <=> f.paper)

LEMMA WhoKnows ==
    ASSUME TypeInv
    PROVE /\ \A a \in App : Filed(a) => Knows(a, app[a]) /\ KnownBefore(a, app[a])
          /\ \A w \in Workers : job[w].at \in OfApp =>
                /\ job[w].a \in App /\ job[w].e \in Application /\ Knows(job[w].a, job[w].e)
                /\ KnownBefore(job[w].a, job[w].e)
          /\ \A x \in round.apps : x.a \in App /\ x.e \in Application /\ KnownBefore(x.a, x.e)
          /\ \A x \in round.rows : x.a \in App /\ x.e \in Application /\ KnownBefore(x.a, x.e)
<1>0. TypeOK /\ round.apps \subseteq [a: App, e: Application]
      /\ round.rows \subseteq [a: App, e: Application, s: Seats, row: Row]
  BY DEF TypeInv, TypeOK
<1>1. ASSUME NEW a \in App, Filed(a)
      PROVE Knows(a, app[a]) /\ KnownBefore(a, app[a])
  <2>1. Knows(a, app[a]) /\ app[a] \in Application
    BY <1>0, <1>1 DEF Knows, TypeOK
  <2> QED
    BY <2>1 DEF KnownBefore
<1>2. ASSUME NEW w \in Workers, job[w].at \in OfApp
      PROVE /\ job[w].a \in App /\ job[w].e \in Application /\ Knows(job[w].a, job[w].e)
            /\ KnownBefore(job[w].a, job[w].e)
  <2>1. job[w] \in Job
    BY <1>0 DEF TypeOK
  <2>2. job[w].a \in App /\ job[w].e \in Application
    BY <1>2, <2>1, JobFields DEF OfApp
  <2>3. Knows(job[w].a, job[w].e)
    BY <1>2 DEF Knows
  <2> QED
    BY <2>2, <2>3 DEF KnownBefore
<1>3. ASSUME NEW x \in round.apps \cup round.rows
      PROVE x.a \in App /\ x.e \in Application /\ KnownBefore(x.a, x.e)
  <2>1. x.a \in App /\ x.e \in Application
    BY <1>0, <1>3
  <2>2. Knows(x.a, x.e)
    BY <1>3 DEF Knows
  <2> QED
    BY <2>1, <2>2 DEF KnownBefore
<1> QED
  BY <1>1, <1>2, <1>3

LEMMA KindsOn ==
    ASSUME TypeInv, KindInv, job \in [Workers -> Job], NEW w \in Workers, NEW next, Goes(w, next) \/ UNCHANGED job,
           Goes(w, next) => (next.at \in OfApp => KnownBefore(next.a, next.e)),
           \A a \in App : Filed(a)' => KnownBefore(a, app'[a]),
           \A x \in round'.apps : KnownBefore(x.a, x.e),
           \A x \in round'.rows : KnownBefore(x.a, x.e),
           \A a \in App : app'[a].state = "none" => app[a].state = "none"
    PROVE SameKind'
<1>1. ASSUME NEW a \in App, NEW e \in Application, Knows(a, e)'
      PROVE KnownBefore(a, e)
  <2>1. CASE Filed(a)' /\ app'[a] = e
    BY <2>1
  <2>2. CASE \E v \in Workers : job'[v].at \in OfApp /\ job'[v].a = a /\ job'[v].e = e
    <3>1. PICK v \in Workers : job'[v].at \in OfApp /\ job'[v].a = a /\ job'[v].e = e
      BY <2>2
    <3>2. CASE job'[v] = job[v]
      BY <3>1, <3>2, WhoKnows
    <3>3. CASE job'[v] # job[v]
      <4>1. Goes(w, next) /\ v = w /\ job'[w] = next
        BY <3>3, GoesOn
      <4> QED
        BY <3>1, <4>1
    <3> QED
      BY <3>2, <3>3
  <2>3. CASE (\E x \in round'.apps : x.a = a /\ x.e = e) \/ (\E x \in round'.rows : x.a = a /\ x.e = e)
    BY <2>3
  <2> QED
    BY <1>1, <2>1, <2>2, <2>3 DEF Knows
<1>2. ASSUME NEW a \in App, NEW e \in Application, NEW f \in Application, Knows(a, e)', Knows(a, f)'
      PROVE e.paper <=> f.paper
  <2>1. PICK g \in Application : Knows(a, g) /\ (e.paper <=> g.paper)
    BY <1>1, <1>2 DEF KnownBefore
  <2>2. PICK h \in Application : Knows(a, h) /\ (f.paper <=> h.paper)
    BY <1>1, <1>2 DEF KnownBefore
  <2>3. g.paper <=> h.paper
    BY <2>1, <2>2 DEF KindInv, SameKind
  <2> QED
    BY <2>1, <2>2, <2>3
<1>3. ASSUME NEW a \in App, NEW e \in Application, Knows(a, e)'
      PROVE app'[a].state # "none"
  <2>1. PICK g \in Application : Knows(a, g)
    BY <1>1, <1>3 DEF KnownBefore
  <2> QED
    BY <2>1 DEF KindInv, SameKind
<1> QED
  BY <1>2, <1>3 DEF KindInv, SameKind

LEMMA KindsBegin ==
    ASSUME TypeInv, KindInv, NEW r \in Requests, Begins(r)
    PROVE SameKind'
<1>1. PICK kind \in Kinds, next \in Job : Begin(r, kind) /\ Goes(r, next) /\ Begun(next)
  BY BegunIs DEF TypeInv
<1>2. UNCHANGED <<app, round>> /\ r \in Workers /\ job \in [Workers -> Job]
  BY <1>1, WorkerKinds DEF Begin, tables, TypeInv, TypeOK
<1>3. next.at \in OfApp => KnownBefore(next.a, next.e)
  <2> SUFFICES ASSUME next.at \in OfApp
               PROVE KnownBefore(next.a, next.e)
    OBVIOUS
  <2>1. next.at \in {"rewrite", "answer", "open"} /\ app[next.a].state = "pending"
        /\ (next.e.paper <=> app[next.a].paper)
    BY <1>1 DEF Begun, OfApp
  <2>2. next.a \in App
    BY <2>1, JobFields
  <2>3. Knows(next.a, app[next.a]) /\ app[next.a] \in Application
    BY <2>1, <2>2, WhoKnows DEF Filed, TypeInv, TypeOK
  <2> QED
    BY <2>1, <2>3 DEF KnownBefore
<1> QED
  BY <1>1, <1>2, <1>3, KindsOn, WhoKnows DEF Filed

LEMMA KindsInsert ==
    ASSUME TypeInv, ReadSoundly, KindInv, NEW r \in Requests, InsertApp(r)
    PROVE SameKind'
<1>0. TypeOK /\ r \in Workers /\ job[r] \in Job /\ job \in [Workers -> Job]
  BY WorkerKinds DEF TypeInv, TypeOK
<1>1. PICK a \in App : a = NextId /\ app[a].state = "none"
  BY NextIdIsFree DEF InsertApp
<1>2. job[r].e \in Application
  BY <1>0, JobFields DEF InsertApp
<1> DEFINE e == [job[r].e EXCEPT !.at = now]
           next == [at |-> "seats", a |-> NextId, e |-> app'[NextId], left |-> Seats,
                    signed |-> job[r].signed, holds |-> holds]
<1>3. e \in Application /\ app' = [app EXCEPT ![a] = e] /\ Goes(r, next) /\ UNCHANGED round
  BY <1>0, <1>1, <1>2 DEF InsertApp, Application, TypeOK
<1> HIDE DEF e
<1>4. app'[a] = e /\ \A b \in App \ {a} : app'[b] = app[b]
  BY <1>0, <1>3 DEF TypeOK
<1>5. next.at = "seats" /\ next.a = a /\ next.e = e
  BY <1>1, <1>4
<1>s. e.state = "pending"
  <2>1. job[r].e.state = "pending"
    BY DEF ReadSoundly, Sound, Asks, InsertApp, Workers
  <2> QED
    BY <1>2, <2>1 DEF e, Application
<1> HIDE DEF next
<1>6. job'[r] = next /\ \A v \in Workers \ {r} : job'[v] = job[v]
  BY <1>0, <1>3, GoesOn
<1>7. ASSUME NEW f \in Application, Knows(a, f)'
      PROVE f = e
  <2>1. ~Knows(a, f)
    BY <1>1 DEF KindInv, SameKind
  <2> QED
    BY <1>3, <1>4, <1>5, <1>6, <1>7, <2>1 DEF Knows
<1>8. ASSUME NEW b \in App, b # a, NEW f \in Application, Knows(b, f)'
      PROVE Knows(b, f)
  BY <1>3, <1>4, <1>5, <1>6, <1>8 DEF Knows, Filed
<1>9. \A b \in App : \A f, g \in Application : (Knows(b, f)' /\ Knows(b, g)') => (f.paper <=> g.paper)
  BY <1>7, <1>8 DEF KindInv, SameKind
<1>10. \A b \in App : \A f \in Application : Knows(b, f)' => app'[b].state # "none"
  BY <1>4, <1>s, <1>8 DEF KindInv, SameKind
<1> QED
  BY <1>9, <1>10 DEF KindInv, SameKind

\* A step of a worker on what it has begun.
DoesWork(w) == \/ SaveSeat(w) \/ Rewrite(w) \/ Erase(w) \/ SaveAnswer(w) \/ OpenSeat(w) \/ SettleIfDone(w)
             \/ CheckRun(w) \/ RunFails(w) \/ MakePeriod(w) \/ Approve(w)
             \/ InsertPeriod(w) \/ WriteSpan(w) \/ DeletePeriod(w)

\* It keeps to its application, and goes on in order.
GoesInOrder(w, next) ==
    /\ next.at \in {"idle", "seats", "settle", "runs", "make"}
    /\ next.at # "idle" => job[w].at \in OfApp /\ next.a = job[w].a /\ next.e = job[w].e
    /\ next.at = "seats" => SaveSeat(w)
    /\ next.at \in {"runs", "make"} => SaveSeat(w) \/ SettleIfDone(w) \/ job[w].at \in {"runs", "make"}

LEMMA WorksInOrder ==
    ASSUME TypeInv, ReadSoundly, NEW w \in Workers, DoesWork(w)
    PROVE \E next \in Job : Goes(w, next) /\ GoesInOrder(w, next)
<1>0. TypeOK /\ job[w] \in Job /\ Sound(job[w])
  BY DEF TypeInv, TypeOK, ReadSoundly
<1>i. GoesInOrder(w, Idle)
  BY IdleJob DEF GoesInOrder
<1>1. CASE Goes(w, Idle)
  BY <1>1, <1>i, IdleJob
<1>2. CASE SaveSeat(w) /\ ~Goes(w, Idle)
  <2> DEFINE j == job[w]
             left == j.left \ {CHOOSE x \in j.left : TRUE}
             next == AfterSeats(j, left)
  <2>1. j \in Job /\ j.at = "seats" /\ Goes(w, next)
    BY <1>0, <1>2 DEF SaveSeat
  <2>2. left \in SUBSET Seats /\ j.e.paper \in BOOLEAN
    BY <2>1, JobFields DEF Application
  <2> HIDE DEF left, j
  <2>3. next \in Job /\ \/ next.at = "seats" /\ next.a = j.a /\ next.e = j.e
                        \/ next.at = "runs" /\ next.a = j.a /\ next.e = j.e
                        \/ next.at = "idle"
    BY <2>1, <2>2, AfterASeat
  <2> HIDE DEF next
  <2>4. GoesInOrder(w, next)
    BY <1>2, <2>1, <2>3 DEF GoesInOrder, OfApp, j
  <2> QED
    BY <2>1, <2>3, <2>4
<1>3. CASE (SaveAnswer(w) \/ OpenSeat(w)) /\ ~Goes(w, Idle)
  <2>1. job[w].at \in {"answer", "open"} /\ Goes(w, Settle(job[w]))
    BY <1>3 DEF SaveAnswer, OpenSeat
  <2>2. Settle(job[w]) \in Job /\ Settle(job[w]).at = "settle" /\ Settle(job[w]).a = job[w].a
        /\ Settle(job[w]).e = job[w].e
    BY <1>0, <2>1, SettleIsAJob
  <2>3. GoesInOrder(w, Settle(job[w]))
    BY <2>1, <2>2 DEF GoesInOrder, OfApp
  <2> QED
    BY <2>1, <2>2, <2>3
<1>4. CASE SettleIfDone(w) /\ ~Goes(w, Idle)
  <2> DEFINE runs == RunsOf(job[w].e, job[w].e.months \ closed)
             next == [at |-> "runs", a |-> job[w].a, e |-> job[w].e, left |-> runs]
  <2>1. job[w].at = "settle" /\ Goes(w, next) /\ job[w].a \in App /\ job[w].e \in Application
    BY <1>0, <1>4, JobFields DEF SettleIfDone
  <2>2. runs \in SUBSET Run
    <3>1. job[w].e.months \ closed \in SUBSET Month
      BY <2>1 DEF Application
    <3> QED
      BY <1>0, <2>1, <3>1, RunsOfMonths DEF Sound, OfApp
  <2> HIDE DEF runs
  <2>3. next \in Job /\ next.at = "runs" /\ next.a = job[w].a /\ next.e = job[w].e
    BY <2>1, <2>2 DEF Job
  <2> HIDE DEF next
  <2>4. GoesInOrder(w, next)
    BY <1>4, <2>1, <2>3 DEF GoesInOrder, OfApp
  <2> QED
    BY <2>1, <2>3, <2>4
<1>5. CASE CheckRun(w)
  <2>1. PICK next \in Job : Goes(w, next) /\ next.a = job[w].a /\ next.e = job[w].e /\ next.at \in {"make", "runs"}
                            /\ job[w].at = "runs"
    BY <1>5, CheckedRun
  <2>2. GoesInOrder(w, next)
    BY <2>1 DEF GoesInOrder, OfApp
  <2> QED
    BY <2>1, <2>2
<1>f. CASE RunFails(w)
  <2>1. PICK next \in Job : Goes(w, next) /\ next.a = job[w].a /\ next.e = job[w].e /\ next.at = "runs"
                            /\ job[w].at = "make"
    BY <1>f, FailedRun
  <2>2. GoesInOrder(w, next)
    BY <2>1 DEF GoesInOrder, OfApp
  <2> QED
    BY <2>1, <2>2
<1>6. CASE MakePeriod(w)
  <2> DEFINE next == [at |-> "runs", a |-> job[w].a, e |-> job[w].e, left |-> job[w].left]
  <2>1. job[w].at = "make" /\ Goes(w, next) /\ job[w].a \in App /\ job[w].e \in Application
        /\ job[w].left \in SUBSET Run
    BY <1>0, <1>6, JobFields DEF MakePeriod
  <2>2. next \in Job /\ next.at = "runs" /\ next.a = job[w].a /\ next.e = job[w].e
    BY <2>1 DEF Job
  <2> HIDE DEF next
  <2>3. GoesInOrder(w, next)
    BY <2>1, <2>2 DEF GoesInOrder, OfApp
  <2> QED
    BY <2>1, <2>2, <2>3
<1>7. CASE Rewrite(w) \/ Erase(w) \/ Approve(w) \/ InsertPeriod(w) \/ WriteSpan(w) \/ DeletePeriod(w)
  <2>1. Goes(w, Idle)
    BY <1>7 DEF Rewrite, Erase, Approve, InsertPeriod, WriteSpan, DeletePeriod
  <2> QED
    BY <1>1, <2>1
<1> QED
  BY <1>1, <1>2, <1>3, <1>4, <1>5, <1>f, <1>6, <1>7 DEF DoesWork

\* What it does to the applications: one is written, or erased.
LEMMA AppsWritten ==
    ASSUME TypeInv, ReadSoundly, NEW w \in Workers, DoesWork(w)
    PROVE /\ \/ UNCHANGED app
             \/ \E a \in App, e \in Application :
                  /\ Rewrite(w) \/ Approve(w)
                  /\ job[w].at \in {"rewrite", "runs"} /\ job[w].a = a /\ app' = [app EXCEPT ![a] = e]
                  /\ (e.paper <=> job[w].e.paper) /\ e.state = (IF Approve(w) THEN "approved" ELSE "pending")
                  /\ revived' = (IF app[a].state = "gone" THEN revived \cup {a} ELSE revived)
             \/ \E a \in App : Erase(w) /\ a = job[w].a /\ app' = [app EXCEPT ![a] = Erased]
          /\ round' = round \/ round' = NoRound
          /\ UNCHANGED world
<1>0. TypeOK /\ job[w] \in Job /\ Sound(job[w])
  BY DEF TypeInv, TypeOK, ReadSoundly
<1>1. CASE Rewrite(w) \/ Approve(w)
  <2>1. job[w].at \in {"rewrite", "runs"} /\ job[w].a \in App /\ job[w].e \in Application
        /\ job[w].e.state = "pending"
    BY <1>0, <1>1, JobFields DEF Rewrite, Approve, Sound, OfApp, Asks
  <2>2. PICK e \in Application : /\ Saved(job[w].a, e) /\ (e.paper <=> job[w].e.paper)
                                 /\ e.state = (IF Approve(w) THEN "approved" ELSE "pending")
    <3>1. CASE Approve(w)
      <4> DEFINE e == [job[w].e EXCEPT !.state = "approved"]
      <4>1. e \in Application /\ (e.paper <=> job[w].e.paper) /\ e.state = "approved"
        BY <2>1 DEF Application
      <4>2. Saved(job[w].a, e)
        BY <3>1 DEF Approve
      <4> HIDE DEF e
      <4> QED
        BY <3>1, <4>1, <4>2
    <3>2. CASE ~Approve(w)
      BY <1>1, <2>1, <3>2 DEF Rewrite
    <3> QED
      BY <3>1, <3>2
  <2>3. PICK a \in App : a = job[w].a
    BY <2>1
  <2>4. UNCHANGED round /\ UNCHANGED world
    BY <1>1 DEF Rewrite, Approve, Step
  <2> QED
    BY <1>1, <2>1, <2>2, <2>3, <2>4 DEF Saved
<1>2. CASE Erase(w)
  <2>1. job[w].a \in App /\ app' = [app EXCEPT ![job[w].a] = Erased] /\ UNCHANGED round /\ UNCHANGED world
    BY <1>0, <1>2, JobFields DEF Erase, Erased, Step
  <2> QED
    BY <1>2, <2>1
<1>3. CASE \/ SaveSeat(w) \/ SaveAnswer(w) \/ OpenSeat(w) \/ SettleIfDone(w) \/ CheckRun(w) \/ MakePeriod(w)
           \/ RunFails(w) \/ InsertPeriod(w) \/ WriteSpan(w) \/ DeletePeriod(w)
  BY <1>3 DEF SaveSeat, SaveAnswer, OpenSeat, SettleIfDone, CheckRun, RunFails, MakePeriod, InsertPeriod,
     WriteSpan, DeletePeriod, Step, tables
<1> QED
  BY <1>1, <1>2, <1>3 DEF DoesWork

LEMMA KindsWorks ==
    ASSUME TypeInv, ReadSoundly, KindInv, NEW w \in Workers, DoesWork(w)
    PROVE SameKind'
<1>0. TypeOK /\ job \in [Workers -> Job] /\ job[w] \in Job
  BY DEF TypeInv, TypeOK
<1>1. PICK next \in Job : Goes(w, next) /\ GoesInOrder(w, next)
  BY WorksInOrder
<1>2. next.at \in OfApp => KnownBefore(next.a, next.e)
  BY <1>1, WhoKnows DEF GoesInOrder, OfApp
<1>3. (\A x \in round'.apps : KnownBefore(x.a, x.e)) /\ (\A x \in round'.rows : KnownBefore(x.a, x.e))
  BY AppsWritten, WhoKnows, NoRoundIsARound
<1>4. \A a \in App : (Filed(a)' => KnownBefore(a, app'[a])) /\ (app'[a].state = "none" => app[a].state = "none")
  <2>1. CASE UNCHANGED app
    BY <2>1, WhoKnows DEF Filed
  <2>2. CASE \E a \in App : app' = [app EXCEPT ![a] = Erased]
    <3>1. PICK a \in App : app' = [app EXCEPT ![a] = Erased]
      BY <2>2
    <3>2. app'[a].state = "gone" /\ \A b \in App \ {a} : app'[b] = app[b]
      BY <1>0, <3>1, ErasedIs DEF TypeOK
    <3> QED
      BY <3>2, WhoKnows DEF Filed
  <2>3. CASE \E a \in App, e \in Application :
               /\ job[w].at \in {"rewrite", "runs"} /\ job[w].a = a /\ app' = [app EXCEPT ![a] = e]
               /\ (e.paper <=> job[w].e.paper) /\ e.state \in {"approved", "pending"}
    <3>1. PICK a \in App, e \in Application :
               /\ job[w].at \in {"rewrite", "runs"} /\ job[w].a = a /\ app' = [app EXCEPT ![a] = e]
               /\ (e.paper <=> job[w].e.paper) /\ e.state \in {"approved", "pending"}
      BY <2>3
    <3>2. app'[a] = e /\ \A b \in App \ {a} : app'[b] = app[b]
      BY <1>0, <3>1 DEF TypeOK
    <3>3. job[w].e \in Application /\ Knows(a, job[w].e)
      BY <3>1, WhoKnows DEF OfApp
    <3>4. KnownBefore(a, e)
      BY <3>1, <3>3 DEF KnownBefore
    <3> QED
      BY <3>1, <3>2, <3>4, WhoKnows DEF Filed
  <2> QED
    BY <2>1, <2>2, <2>3, AppsWritten
<1> QED
  BY <1>0, <1>1, <1>2, <1>3, <1>4, KindsOn

LEMMA KindsNight ==
    ASSUME TypeInv, KindInv, BeginNight \/ NightTakes \/ NightOpens \/ NightReminds
    PROVE SameKind'
<1>0. TypeOK /\ Nightly \in Workers /\ round \in Rounds /\ UNCHANGED app /\ job \in [Workers -> Job]
      /\ round.apps \subseteq [a: App, e: Application]
      /\ round.rows \subseteq [a: App, e: Application, s: Seats, row: Row]
  BY WorkerKinds DEF TypeInv, TypeOK, Rounds, BeginNight, NightTakes, NightOpens, NightReminds, tables
<1>a. \A a \in App : (Filed(a)' => KnownBefore(a, app'[a])) /\ (app'[a].state = "none" => app[a].state = "none")
  BY <1>0, WhoKnows DEF Filed
<1>1. CASE BeginNight
  <2>1. round'.apps = {[a |-> a, e |-> app[a]] : a \in {b \in App : Pending(b)}} /\ round'.rows = {}
        /\ UNCHANGED job
    BY <1>1 DEF BeginNight
  <2>2. \A x \in round'.apps : KnownBefore(x.a, x.e)
    BY <2>1, WhoKnows DEF Pending, Filed
  <2>3. Goes(Nightly, job[Nightly])
    BY <1>0, <2>1 DEF Goes
  <2>4. job[Nightly].at \in OfApp => KnownBefore(job[Nightly].a, job[Nightly].e)
    BY <1>0, WhoKnows
  <2> QED
    BY <1>0, <1>a, <2>1, <2>2, <2>3, <2>4, KindsOn
<1>2. CASE NightTakes
  <2>1. PICK x \in round.apps :
         IF over(x.e)
         THEN /\ Goes(Nightly, [at |-> "erase", a |-> x.a])
              /\ round' = Rest(round.apps \ {x}, {})
         ELSE /\ round' = Rest(round.apps \ {x},
                               IF ~waited(x.e) THEN {}
                               ELSE {[a |-> x.a, e |-> x.e, s |-> s, row |-> seat[x.a][s]] : s \in Needs(x.a, round.holds)})
              /\ UNCHANGED job
    BY <1>2, Zenon DEF NightTakes
  <2> DEFINE rows == {[a |-> x.a, e |-> x.e, s |-> s, row |-> seat[x.a][s]] : s \in Needs(x.a, round.holds)}
  <2>2. PICK left \in {{}, rows} : round' = Rest(round.apps \ {x}, left)
    BY <2>1
  <2>3. x.a \in App /\ x.e \in Application /\ KnownBefore(x.a, x.e)
    BY <1>0, WhoKnows
  <2>4. \A s \in Needs(x.a, round.holds) : s \in Seats
    BY DEF Needs, Unanswered, Exists
  <2>5. \A y \in rows : KnownBefore(y.a, y.e)
    BY <2>3
  <2>6. rows \subseteq [a: App, e: Application, s: Seats, row: Row]
    BY <1>0, <2>3, <2>4 DEF TypeOK
  <2> HIDE DEF rows
  <2>7. round'.apps = round.apps \ {x} /\ round'.rows = left
    <3>1. left \subseteq [a: App, e: Application, s: Seats, row: Row]
          /\ round.apps \ {x} \subseteq [a: App, e: Application]
      BY <1>0, <2>6
    <3> QED
      BY <1>0, <2>2, <3>1, RestOfRound
  <2>8. (\A y \in round'.apps : KnownBefore(y.a, y.e)) /\ (\A y \in round'.rows : KnownBefore(y.a, y.e))
    BY <2>5, <2>7, WhoKnows
  <2> DEFINE n == IF over(x.e) THEN [at |-> "erase", a |-> x.a] ELSE job[Nightly]
  <2>9. Goes(Nightly, n)
    BY <1>0, <2>1 DEF Goes
  <2>10. n.at \in OfApp => KnownBefore(n.a, n.e)
    BY <1>0, WhoKnows DEF OfApp
  <2> HIDE DEF n
  <2> QED
    BY <1>0, <1>a, <2>8, <2>9, <2>10, KindsOn
<1>3. CASE NightOpens
  <2>1. PICK y \in round.rows :
         /\ Goes(Nightly, [at |-> "open", a |-> y.a, e |-> y.e, s |-> y.s,
                           row |-> [y.row EXCEPT !.open = "absent", !.opener = Nobody]])
         /\ round' = Rest(round.apps, round.rows \ {y})
    BY <1>3, Zenon DEF NightOpens
  <2> DEFINE row == [y.row EXCEPT !.open = "absent", !.opener = Nobody]
             n == [at |-> "open", a |-> y.a, e |-> y.e, s |-> y.s, row |-> row]
  <2>2. Goes(Nightly, n)
    BY <2>1
  <2> HIDE DEF row
  <2>3. n.a = y.a /\ n.e = y.e
    OBVIOUS
  <2> HIDE DEF n
  <2>4. n.at \in OfApp => KnownBefore(n.a, n.e)
    BY <2>3, WhoKnows
  <2>5. round'.apps = round.apps /\ round'.rows = round.rows \ {y}
    BY <1>0, <2>1, RestOfRound
  <2>6. (\A z \in round'.apps : KnownBefore(z.a, z.e)) /\ (\A z \in round'.rows : KnownBefore(z.a, z.e))
    BY <2>5, WhoKnows
  <2> QED
    BY <1>0, <1>a, <2>2, <2>4, <2>6, KindsOn
<1>4. CASE NightReminds
  <2>1. PICK y \in round.rows : round' = Rest(round.apps, round.rows \ {y}) \/ round' = NoRound
    BY <1>4, Zenon DEF NightReminds
  <2>2. (\A z \in round'.apps : KnownBefore(z.a, z.e)) /\ (\A z \in round'.rows : KnownBefore(z.a, z.e))
    <3>1. CASE round' = NoRound
      BY <3>1, NoRoundIsARound
    <3>2. CASE round' = Rest(round.apps, round.rows \ {y})
      <4>1. round'.apps = round.apps /\ round'.rows = round.rows \ {y}
        BY <1>0, <3>2, RestOfRound
      <4> QED
        BY <4>1, WhoKnows
    <3> QED
      BY <2>1, <3>1, <3>2
  <2>3. UNCHANGED job
    BY <1>4 DEF NightReminds
  <2>4. Goes(Nightly, job[Nightly])
    BY <1>0, <2>3 DEF Goes
  <2>5. job[Nightly].at \in OfApp => KnownBefore(job[Nightly].a, job[Nightly].e)
    BY <1>0, WhoKnows
  <2> QED
    BY <1>0, <1>a, <2>2, <2>4, <2>5, KindsOn
<1> QED
  BY <1>1, <1>2, <1>3, <1>4

LEMMA KindsStep == TypeInv /\ ReadSoundly /\ KindInv /\ [Next]_vars => SameKind'
<1> SUFFICES ASSUME TypeInv, ReadSoundly, KindInv, [Next]_vars
             PROVE SameKind'
  OBVIOUS
<1>0. job \in [Workers -> Job]
  BY DEF TypeInv, TypeOK
<1>1. CASE UNCHANGED vars
  BY <1>1 DEF KindInv, SameKind, Knows, Filed, vars, tables
<1>2. CASE \E r \in Requests : Begins(r)
  BY <1>2, KindsBegin
<1>3. CASE \E r \in Requests : InsertApp(r)
  BY <1>3, KindsInsert
<1>4. CASE \E w \in Workers : DoesWork(w)
  BY <1>4, KindsWorks
<1>5. CASE BeginNight \/ NightTakes \/ NightOpens \/ NightReminds
  BY <1>5, KindsNight
<1>6. CASE \E w \in Workers : Lose(w)
  <2>1. PICK w \in Workers : Goes(w, Idle) /\ (round' = NoRound \/ round' = round) /\ UNCHANGED app
    BY <1>6 DEF Lose, tables
  <2>2. Idle.at \notin OfApp
    BY IdleJob DEF OfApp
  <2>3. (\A z \in round'.apps : KnownBefore(z.a, z.e)) /\ (\A z \in round'.rows : KnownBefore(z.a, z.e))
    BY <2>1, WhoKnows, NoRoundIsARound
  <2> QED
    BY <1>0, <2>1, <2>2, <2>3, WhoKnows, KindsOn DEF Filed
<1>7. CASE HandOver \/ ElderLeaves \/ CloseMonth \/ Tick
  <2>1. UNCHANGED <<app, job, round>>
    BY <1>7 DEF HandOver, ElderLeaves, CloseMonth, Tick, tables
  <2> QED
    BY <2>1 DEF KindInv, SameKind, Knows, Filed
<1> QED
  BY <1>1, <1>2, <1>3, <1>4, <1>5, <1>6, <1>7, StepIs, WorkerKinds DEF DoesWork

LEMMA KindsInit == Init => SameKind
<1> SUFFICES ASSUME Init
             PROVE SameKind
  OBVIOUS
<1>1. \A w \in Workers : job[w].at = "idle"
  BY IdleJob DEF Init
<1>2. round.apps = {} /\ round.rows = {}
  BY NoRoundIsARound DEF Init
<1>3. \A a \in App : \A e \in Application : Knows(a, e) => Filed(a) /\ app[a] = e
  BY <1>1, <1>2 DEF Knows, OfApp
<1> QED
  BY <1>3 DEF KindInv, SameKind, Filed

----------------------------------------------------------------------------
(* Nobody answers twice, nor in his own case.  A place that is written was    *)
(* there, or is one of those its application is filed with.                   *)

\* The row of a place is written over; who answers in it does not answer elsewhere.
Overwrites(a, s, row) ==
    /\ Filed(a) /\ There(a, s) /\ row.is /\ seat' = [seat EXCEPT ![a][s] = row]
    /\ wiped' = IF \/ seat[a][s].by \notin {Nobody, row.by}
                   \/ seat[a][s].open # "no" /\ row.open = "no"
                THEN wiped \cup {a} ELSE wiped
    /\ \/ row.by = Nobody
       \/ /\ \E w \in Workers : job[w].at = "answer" /\ job[w].row.by = row.by
          /\ \A t \in Seats \ {s} : seat[a][t].by # row.by

Files(w) ==
    /\ SaveSeat(w) /\ job[w].at = "seats" /\ job[w].a \in App /\ app[job[w].a].state # "gone"
    /\ \E s \in job[w].left : /\ seat' = [seat EXCEPT ![job[w].a][s] = RowOf(job[w], s)]
                              /\ Goes(w, AfterSeats(job[w], job[w].left \ {s}))
    /\ UNCHANGED <<app, wiped>>

Clears(a) ==
    /\ app' = [app EXCEPT ![a] = Erased] /\ seat' = [seat EXCEPT ![a] = [s \in Seats |-> NoRow]]
    /\ UNCHANGED wiped

\* An application somebody has read, and that was not erased, is filed.
LEMMA StandsIsFiled ==
    ASSUME TypeInv, NEW a \in App, Stands(a), app[a].state # "none"
    PROVE Filed(a)
BY DEF TypeInv, TypeOK, Stands, Filed, Application

LEMMA PlacesWritten ==
    ASSUME TypeInv, ReadSoundly, KindInv, NEW w \in Workers, DoesWork(w)
    PROVE \/ UNCHANGED <<seat, wiped>> /\ ~Erase(w)
          \/ \E a \in App : Erase(w) /\ a = job[w].a /\ Clears(a)
          \/ Files(w)
          \/ \E a \in App, s \in Seats, row \in Row : Overwrites(a, s, row) /\ UNCHANGED app
<1>0. TypeOK /\ job[w] \in Job /\ Sound(job[w])
  BY DEF TypeInv, TypeOK, ReadSoundly
<1>1. CASE SaveSeat(w)
  <2>1. job[w].at = "seats" /\ job[w].a \in App /\ job[w].left # {} /\ UNCHANGED <<app, wiped>>
    BY <1>0, <1>1, JobFields DEF SaveSeat, Sound
  <2>2. CASE app[job[w].a].state = "gone"
    BY <1>1, <2>1, <2>2 DEF SaveSeat, Erase
  <2>3. CASE app[job[w].a].state # "gone"
    <3> DEFINE s == CHOOSE x \in job[w].left : TRUE
    <3>1. s \in job[w].left
      BY <2>1
    <3>2. seat' = [seat EXCEPT ![job[w].a][s] = RowOf(job[w], s)]
          /\ Goes(w, AfterSeats(job[w], job[w].left \ {s}))
      BY <1>1, <2>3 DEF SaveSeat
    <3> HIDE DEF s
    <3> QED
      BY <1>1, <2>1, <2>3, <3>1, <3>2 DEF Files
  <2> QED
    BY <2>2, <2>3
<1>2. CASE Erase(w)
  <2>1. PICK a \in App : a = job[w].a
    BY <1>0, <1>2, JobFields DEF Erase
  <2>2. Clears(a)
    BY <1>2, <2>1 DEF Erase, Erased, Clears, history
  <2> QED
    BY <1>2, <2>1, <2>2
<1>3. CASE SaveAnswer(w) \/ OpenSeat(w)
  <2>1. PICK a \in App, s \in Seats, row \in Row :
           job[w].at \in {"answer", "open"} /\ job[w].a = a /\ job[w].s = s /\ job[w].row = row
    <3>1. job[w].at \in {"answer", "open"}
      BY <1>3 DEF SaveAnswer, OpenSeat
    <3> QED
      BY <1>0, <3>1, JobFields
  <2>2. row.is /\ (job[w].at = "open" => row.by = Nobody)
    BY <1>0, <2>1 DEF Sound
  <2>3. CASE UNCHANGED <<seat, wiped>>
    BY <2>1, <2>3 DEF Erase
  <2>k. There(a, s) /\ (Stands(a) => Filed(a))
    <3>1. app[a].state # "none"
      BY <2>1, WhoKnows DEF KindInv, SameKind, OfApp
    <3> QED
      BY <2>1, <3>1, StandsIsFiled DEF KindInv, PlacesRead
  <2>4. CASE SaveAnswer(w) /\ Accepts(job[w])
    <3>1. Overwrites(a, s, row)
      BY <2>1, <2>2, <2>k, <2>4 DEF SaveAnswer, Accepts, Wipes, Undoes, Overwrites
    <3> QED
      BY <2>4, <3>1 DEF SaveAnswer
  <2>5. CASE OpenSeat(w) /\ Stands(a)
    <3>1. Overwrites(a, s, row)
      BY <2>1, <2>2, <2>k, <2>5 DEF OpenSeat, Wipes, Undoes, Overwrites
    <3> QED
      BY <2>5, <3>1 DEF OpenSeat
  <2> QED
    BY <1>3, <2>1, <2>3, <2>4, <2>5 DEF SaveAnswer, OpenSeat
<1>4. CASE \/ Rewrite(w) \/ SettleIfDone(w) \/ CheckRun(w) \/ RunFails(w) \/ MakePeriod(w) \/ Approve(w)
           \/ InsertPeriod(w) \/ WriteSpan(w) \/ DeletePeriod(w)
  BY <1>4 DEF Rewrite, SettleIfDone, CheckRun, RunFails, MakePeriod, Approve, InsertPeriod, WriteSpan, DeletePeriod,
     Erase, tables, history
<1> QED
  BY <1>1, <1>2, <1>3, <1>4 DEF DoesWork

\* The nightly reminder writes a place nobody had answered when the round read it.
LEMMA PlaceReminded ==
    ASSUME TypeInv, ReadSoundly, KindInv, NightReminds
    PROVE \/ UNCHANGED <<seat, wiped>>
          \/ \E a \in App, s \in Seats, row \in Row : Overwrites(a, s, row)
<1>1. PICK y \in round.rows :
         IF Stands(y.a)
         THEN seat' = [seat EXCEPT ![y.a][y.s] = [y.row EXCEPT !.reminded = TRUE]] /\ Wipes(y)
         ELSE UNCHANGED <<seat, wiped>>
  BY Zenon DEF NightReminds
<1>2. PICK a \in App, s \in Seats, old \in Row : y.a = a /\ y.s = s /\ y.row = old
  BY DEF TypeInv, TypeOK
<1> DEFINE row == [old EXCEPT !.reminded = TRUE]
<1>3. row \in Row /\ row.is = old.is /\ row.by = old.by /\ row.open = old.open
  BY ChangedRow
<1>4. old.is /\ old.by = Nobody
  BY <1>2 DEF ReadSoundly, SoundRound
<1>k. There(a, s) /\ (Stands(a) => Filed(a))
  <2>1. app[a].state # "none"
    <3>1. y.e \in Application /\ Knows(a, y.e)
      BY <1>2, WhoKnows DEF Knows
    <3> QED
      BY <3>1 DEF KindInv, SameKind
  <2> QED
    BY <1>2, <2>1, StandsIsFiled DEF KindInv, PlacesRead
<1>5. CASE Stands(a)
  <2>1. seat' = [seat EXCEPT ![a][s] = row] /\ Wipes(y)
    BY <1>1, <1>2, <1>5
  <2> HIDE DEF row
  <2>2. Overwrites(a, s, row)
    BY <1>2, <1>3, <1>4, <1>k, <1>5, <2>1 DEF Wipes, Undoes, Overwrites
  <2> QED
    BY <1>3, <2>2
<1>6. CASE ~Stands(a)
  BY <1>1, <1>2, <1>6
<1> QED
  BY <1>5, <1>6

\* An application that is not there has no places, and the brothers who answer on one are others than
\* the applicant, and different.
HasNoPlaces(a) == \A s \in Seats : ~seat[a][s].is /\ seat[a][s].by = Nobody
ByOthers(a) == \A s \in Answered(a) : /\ seat[a][s].by # applicant
                                      /\ \A t \in Answered(a) \ {s} : seat[a][s].by # seat[a][t].by
AnswersInv ==
    /\ \A w \in Workers : job[w].at = "answer" => job[w].row.by # applicant
    /\ \A a \in App : ~Filed(a) => HasNoPlaces(a)
    /\ \A a \in App : ~app[a].paper => ByOthers(a)

\* It holds on if the answers do, and each application is as it was.
LEMMA AnswersOn ==
    ASSUME AnswersInv, NEW w \in Workers, NEW next, job \in [Workers -> Job],
           Goes(w, next) \/ UNCHANGED job, UNCHANGED applicant,
           Goes(w, next) => (next.at = "answer" => next.row.by # applicant),
           \A a \in App : \/ HasNoPlaces(a)'
                          \/ /\ Filed(a)' /\ (app'[a].paper <=> app[a].paper)
                             /\ app[a].paper \/ ByOthers(a)'
                          \/ app'[a] = app[a] /\ seat'[a] = seat[a]
    PROVE AnswersInv'
<1>1. \A v \in Workers : job'[v].at = "answer" => job'[v].row.by # applicant'
  BY GoesOn DEF AnswersInv
<1>2. \A a \in App : (~Filed(a)' => HasNoPlaces(a)') /\ (~app'[a].paper => ByOthers(a)')
  BY DEF AnswersInv, Filed, HasNoPlaces, ByOthers, Answered
<1> QED
  BY <1>1, <1>2 DEF AnswersInv

LEMMA AnswerWritten ==
    ASSUME TypeInv, AnswersInv, NEW a \in App, NEW s \in Seats, NEW row \in Row, Overwrites(a, s, row),
           UNCHANGED <<app, applicant>>
    PROVE \A b \in App : \/ Filed(b)' /\ (app'[b].paper <=> app[b].paper) /\ (app[b].paper \/ ByOthers(b)')
                         \/ app'[b] = app[b] /\ seat'[b] = seat[b]
<1>1. /\ seat'[a][s] = row
      /\ \A t \in Seats \ {s} : seat'[a][t] = seat[a][t]
      /\ \A b \in App \ {a} : seat'[b] = seat[b]
  BY SeatWritten, ZenonT(40) DEF Overwrites, TypeInv
<1>2. Filed(a)'
  BY DEF Overwrites, Filed
<1>3. ASSUME ~app[a].paper
      PROVE ByOthers(a)'
  <2>1. row.by = Nobody \/ (row.by # applicant /\ \A t \in Seats \ {s} : seat[a][t].by # row.by)
    BY DEF Overwrites, AnswersInv
  <2> SUFFICES ASSUME NEW p \in Seats, seat'[a][p].by # Nobody
               PROVE /\ seat'[a][p].by # applicant
                     /\ \A t \in Seats \ {p} : seat'[a][t].by # Nobody => seat'[a][p].by # seat'[a][t].by
    BY DEF ByOthers, Answered
  <2>2. ByOthers(a)
    BY <1>3 DEF AnswersInv
  <2>3. CASE p = s
    BY <1>1, <2>1, <2>3
  <2>4. CASE p # s
    <3>1. seat[a][p].by # Nobody /\ seat[a][p].by # applicant
          /\ \A t \in Seats \ {p} : seat[a][t].by # Nobody => seat[a][p].by # seat[a][t].by
      BY <1>1, <2>2, <2>4 DEF ByOthers, Answered
    <3> QED
      BY <1>1, <2>1, <2>4, <3>1
  <2> QED
    BY <2>3, <2>4
<1> QED
  BY <1>1, <1>2, <1>3

\* A place an application is filed with is nobody's but on a paper.
LEMMA PlaceFiled ==
    ASSUME TypeInv, ReadSoundly, KindInv, NEW w \in Workers, Files(w)
    PROVE /\ Filed(job[w].a) /\ (job[w].e.paper <=> app[job[w].a].paper)
          /\ \E s \in job[w].left :
               /\ s \in Seats /\ seat'[job[w].a][s] = RowOf(job[w], s) /\ RowOf(job[w], s) \in Row
               /\ \A t \in Seats \ {s} : seat'[job[w].a][t] = seat[job[w].a][t]
               /\ \A b \in App \ {job[w].a} : seat'[b] = seat[b]
               /\ Goes(w, AfterSeats(job[w], job[w].left \ {s}))
<1>0. TypeOK /\ job[w] \in Job /\ job[w].at = "seats"
  BY DEF TypeInv, TypeOK, Files
<1>1. PICK a \in App, s \in job[w].left :
         /\ a = job[w].a /\ seat' = [seat EXCEPT ![a][s] = RowOf(job[w], s)] /\ app[a].state # "gone"
         /\ Goes(w, AfterSeats(job[w], job[w].left \ {s}))
  BY DEF Files
<1>2. s \in Seats /\ RowOf(job[w], s) \in Row
  BY <1>0, JobFields, RowOfIsARow
<1>3. /\ seat'[a][s] = RowOf(job[w], s)
      /\ \A t \in Seats \ {s} : seat'[a][t] = seat[a][t]
      /\ \A b \in App \ {a} : seat'[b] = seat[b]
  <2>1. PICK row \in Row : row = RowOf(job[w], s)
    BY <1>2
  <2>2. seat' = [seat EXCEPT ![a][s] = row]
    BY <1>1, <2>1
  <2> QED
    BY <1>0, <1>2, <2>1, <2>2, SeatWritten, ZenonT(40)
<1>4. job[w].e \in Application /\ Knows(a, job[w].e)
  BY <1>0, <1>1, WhoKnows DEF OfApp
<1>5. Filed(a)
  <2>1. app[a].state # "none" /\ app[a] \in Application
    BY <1>0, <1>4 DEF KindInv, SameKind, TypeOK
  <2> QED
    BY <1>1, <2>1 DEF Filed, Application
<1>6. app[a] \in Application /\ Knows(a, app[a])
  BY <1>0, <1>5, WhoKnows DEF TypeOK
<1>7. job[w].e.paper <=> app[a].paper
  BY <1>4, <1>6 DEF KindInv, SameKind
<1> QED
  BY <1>1, <1>2, <1>3, <1>5, <1>7

LEMMA AnswersWork ==
    ASSUME TypeInv, ReadSoundly, KindInv, AnswersInv, NEW w \in Workers, DoesWork(w)
    PROVE AnswersInv'
<1>0. TypeOK /\ job \in [Workers -> Job] /\ job[w] \in Job
  BY DEF TypeInv, TypeOK
<1>1. PICK next \in Job : Goes(w, next) /\ next.at # "answer"
  BY WorksInOrder DEF GoesInOrder
<1>2. UNCHANGED applicant
  BY AppsWritten DEF world
<1>3. ASSUME UNCHANGED <<app, seat>>
      PROVE AnswersInv'
  BY <1>0, <1>1, <1>2, <1>3, AnswersOn
<1>4. CASE \E a \in App : Clears(a)
  <2>1. PICK a \in App : Clears(a)
    BY <1>4
  <2>2. seat'[a] = [s \in Seats |-> NoRow] /\ \A b \in App \ {a} : seat'[b] = seat[b] /\ app'[b] = app[b]
    BY <1>0, <2>1 DEF Clears, TypeOK
  <2>3. HasNoPlaces(a)'
    BY <2>2, NoRows DEF HasNoPlaces
  <2> QED
    BY <1>0, <1>1, <1>2, <2>2, <2>3, AnswersOn
<1>5. CASE Files(w)
  <2>1. PICK a \in App : a = job[w].a
    BY <1>5 DEF Files
  <2>2. Filed(a) /\ (job[w].e.paper <=> app[a].paper) /\ UNCHANGED app /\ job[w].at = "seats"
    BY <1>5, <2>1, PlaceFiled DEF Files
  <2>3. PICK s \in job[w].left :
               /\ s \in Seats /\ seat'[job[w].a][s] = RowOf(job[w], s) /\ RowOf(job[w], s) \in Row
               /\ \A t \in Seats \ {s} : seat'[job[w].a][t] = seat[job[w].a][t]
               /\ \A b \in App \ {job[w].a} : seat'[b] = seat[b]
               /\ Goes(w, AfterSeats(job[w], job[w].left \ {s}))
    BY <1>5, PlaceFiled
  <2>6. /\ seat'[a][s] = RowOf(job[w], s)
        /\ \A t \in Seats \ {s} : seat'[a][t] = seat[a][t]
        /\ \A b \in App \ {a} : seat'[b] = seat[b]
    BY <2>1, <2>3
  <2>4. ASSUME ~app[a].paper
        PROVE ByOthers(a)'
    <3>1. seat'[a][s].by = Nobody
      BY <1>0, <2>2, <2>3, <2>6, <2>4, RowOfIsARow
    <3>2. ByOthers(a)
      BY <2>4 DEF AnswersInv
    <3> QED
      BY <1>2, <2>6, <3>1, <3>2 DEF ByOthers, Answered
  <2>5. Filed(a)' /\ (app'[a].paper <=> app[a].paper)
    BY <2>2 DEF Filed
  <2> QED
    BY <1>0, <1>1, <1>2, <2>2, <2>6, <2>4, <2>5, AnswersOn
<1>6. CASE \E a \in App, s \in Seats, row \in Row : Overwrites(a, s, row) /\ UNCHANGED app
  <2>1. PICK a \in App, s \in Seats, row \in Row : Overwrites(a, s, row) /\ UNCHANGED app
    BY <1>6
  <2>2. \A b \in App : \/ Filed(b)' /\ (app'[b].paper <=> app[b].paper) /\ (app[b].paper \/ ByOthers(b)')
                       \/ app'[b] = app[b] /\ seat'[b] = seat[b]
    BY <1>2, <2>1, AnswerWritten
  <2> QED
    BY <1>0, <1>1, <1>2, <2>2, AnswersOn
<1>7. CASE UNCHANGED seat /\ ~Erase(w)
  <2>1. CASE \E a \in App, e \in Application :
               /\ job[w].at \in {"rewrite", "runs"} /\ job[w].a = a /\ app' = [app EXCEPT ![a] = e]
               /\ (e.paper <=> job[w].e.paper) /\ e.state \in {"approved", "pending"}
    <3>1. PICK a \in App, e \in Application :
               /\ job[w].at \in {"rewrite", "runs"} /\ job[w].a = a /\ app' = [app EXCEPT ![a] = e]
               /\ (e.paper <=> job[w].e.paper) /\ e.state \in {"approved", "pending"}
      BY <2>1
    <3>2. app'[a] = e /\ \A b \in App \ {a} : app'[b] = app[b]
      BY <1>0, <3>1 DEF TypeOK
    <3>3. Filed(a)'
      BY <3>1, <3>2 DEF Filed
    <3>4. ASSUME ~Filed(a)
          PROVE HasNoPlaces(a)'
      BY <1>7, <3>4 DEF AnswersInv, HasNoPlaces
    <3>5. ASSUME Filed(a)
          PROVE e.paper <=> app[a].paper
      <4>1. job[w].e \in Application /\ Knows(a, job[w].e) /\ Knows(a, app[a]) /\ app[a] \in Application
        BY <1>0, <3>1, <3>5, WhoKnows DEF OfApp, TypeOK
      <4> QED
        BY <3>1, <4>1 DEF KindInv, SameKind
    <3>6. app[a].paper \/ ByOthers(a)'
      BY <1>2, <1>7 DEF AnswersInv, ByOthers, Answered
    <3> QED
      BY <1>0, <1>1, <1>2, <1>7, <3>2, <3>3, <3>4, <3>5, <3>6, AnswersOn
  <2> QED
    BY <1>3, <1>7, <2>1, AppsWritten
<1> QED
  BY <1>3, <1>4, <1>5, <1>6, <1>7, PlacesWritten

LEMMA AnswersStep == TypeInv /\ ReadSoundly /\ KindInv /\ AnswersInv /\ [Next]_vars => AnswersInv'
<1> SUFFICES ASSUME TypeInv, ReadSoundly, KindInv, AnswersInv, [Next]_vars
             PROVE AnswersInv'
  OBVIOUS
<1>0. TypeOK /\ job \in [Workers -> Job] /\ Nightly \in Workers
  BY WorkerKinds DEF TypeInv, TypeOK
<1>1. CASE UNCHANGED vars
  BY <1>1 DEF AnswersInv, Filed, HasNoPlaces, ByOthers, Answered, vars, tables, world
<1>2. CASE \E r \in Requests : Begins(r)
  <2>1. PICK r \in Requests : Begins(r)
    BY <1>2
  <2>2. PICK kind \in Kinds, next \in Job : Begin(r, kind) /\ Goes(r, next) /\ Begun(next)
    BY <1>0, <2>1, BegunIs
  <2>3. UNCHANGED <<app, seat, applicant>> /\ r \in Workers
    BY <2>2, WorkerKinds DEF Begin, tables, world
  <2>4. next.at = "answer" => next.row.by # applicant
    BY <2>2 DEF Begun
  <2> QED
    BY <1>0, <2>2, <2>3, <2>4, AnswersOn
<1>3. CASE \E r \in Requests : InsertApp(r)
  <2>1. PICK r \in Requests : InsertApp(r)
    BY <1>3
  <2> DEFINE next == [at |-> "seats", a |-> NextId, e |-> app'[NextId], left |-> Seats,
                      signed |-> job[r].signed, holds |-> holds]
  <2>2. Goes(r, next) /\ next.at = "seats" /\ UNCHANGED <<seat, applicant>> /\ r \in Workers
    BY <2>1, WorkerKinds DEF InsertApp, Step, world
  <2>3. PICK a \in App : a = NextId /\ app[a].state = "none"
    BY <2>1, NextIdIsFree DEF InsertApp
  <2>4. \A b \in App \ {a} : app'[b] = app[b]
    BY <1>0, <2>1, <2>3 DEF InsertApp, TypeOK
  <2>5. HasNoPlaces(a)'
    BY <2>2, <2>3 DEF AnswersInv, Filed, HasNoPlaces
  <2> HIDE DEF next
  <2> QED
    BY <1>0, <2>2, <2>4, <2>5, AnswersOn
<1>4. CASE \E w \in Workers : DoesWork(w)
  BY <1>4, AnswersWork
<1>5. CASE BeginNight \/ NightTakes \/ NightOpens
  <2>1. UNCHANGED <<app, seat, applicant>>
    BY <1>5 DEF BeginNight, NightTakes, NightOpens, tables, Step, world
  <2>2. PICK next : Goes(Nightly, next) /\ (next.at = "answer" => next = job[Nightly])
    <3>5. \A x : [at |-> "erase", a |-> x].at = "erase"
      OBVIOUS
    <3>6. \A x, e, s, row : [at |-> "open", a |-> x, e |-> e, s |-> s, row |-> row].at = "open"
      OBVIOUS
    <3>1. CASE UNCHANGED job
      <4>1. Goes(Nightly, job[Nightly])
        BY <1>0, <3>1 DEF Goes
      <4> QED
        BY <4>1
    <3>2. CASE \E next : Goes(Nightly, next) /\ next.at \in {"erase", "open"}
      BY <3>2
    <3>3. CASE NightTakes /\ job' # job
      <4>1. PICK x \in round.apps : Goes(Nightly, [at |-> "erase", a |-> x.a])
        BY <3>3, Zenon DEF NightTakes
      <4> QED
        BY <3>2, <3>5, <4>1
    <3>4. CASE NightOpens
      <4>1. PICK y \in round.rows : Goes(Nightly, [at |-> "open", a |-> y.a, e |-> y.e, s |-> y.s,
                           row |-> [y.row EXCEPT !.open = "absent", !.opener = Nobody]])
        BY <3>4, Zenon DEF NightOpens
      <4> QED
        BY <3>2, <3>6, <4>1
    <3> QED
      BY <1>5, <3>1, <3>3, <3>4 DEF BeginNight
  <2> QED
    BY <1>0, <2>1, <2>2, AnswersOn DEF AnswersInv
<1>6. CASE NightReminds
  <2>1. UNCHANGED <<app, job, applicant>>
    BY <1>6 DEF NightReminds, Step, world
  <2>2. CASE UNCHANGED seat
    BY <1>0, <2>1, <2>2, AnswersOn DEF AnswersInv
  <2>3. CASE \E a \in App, s \in Seats, row \in Row : Overwrites(a, s, row)
    <3>1. PICK a \in App, s \in Seats, row \in Row : Overwrites(a, s, row)
      BY <2>3
    <3>2. \A b \in App : \/ Filed(b)' /\ (app'[b].paper <=> app[b].paper) /\ (app[b].paper \/ ByOthers(b)')
                         \/ app'[b] = app[b] /\ seat'[b] = seat[b]
      BY <2>1, <3>1, AnswerWritten
    <3>3. Goes(Nightly, job[Nightly])
      BY <1>0, <2>1 DEF Goes
    <3> QED
      BY <1>0, <2>1, <3>2, <3>3, AnswersOn DEF AnswersInv
  <2> QED
    BY <1>6, <2>2, <2>3, PlaceReminded
<1>7. CASE \E w \in Workers : Lose(w)
  <2>1. PICK w \in Workers : Goes(w, Idle) /\ UNCHANGED <<app, seat, applicant>>
    BY <1>7 DEF Lose, tables, world
  <2> QED
    BY <1>0, <2>1, IdleJob, AnswersOn
<1>8. CASE HandOver \/ ElderLeaves \/ CloseMonth \/ Tick
  <2>1. UNCHANGED <<app, seat, job, applicant>>
    BY <1>8 DEF HandOver, ElderLeaves, CloseMonth, Tick, tables, world
  <2> QED
    BY <2>1 DEF AnswersInv, Filed, HasNoPlaces, ByOthers, Answered
<1> QED
  BY <1>1, <1>2, <1>3, <1>4, <1>5, <1>6, <1>7, <1>8, StepIs, WorkerKinds DEF DoesWork

LEMMA AnswersInit == Init => AnswersInv
<1> SUFFICES ASSUME Init
             PROVE AnswersInv
  OBVIOUS
<1>1. PICK S \in Setups :
         /\ app = [a \in App |-> IF a = 1 THEN S.app ELSE NoApp]
         /\ seat = [a \in App |-> IF a = 1 THEN S.seat ELSE [s \in Seats |-> NoRow]]
         /\ applicant = S.applicant
  BY DEF Init
<1>2. /\ S.app.state \in {"none", "pending"} /\ (S.app.state = "none" => S.seat = [s \in Seats |-> NoRow])
      /\ \A s \in Seats : S.seat[s].by # Nobody =>
            /\ S.seat[s].by # S.applicant
            /\ \A t \in Seats \ {s} : S.seat[t].by # S.seat[s].by
  BY AuxSetups
<1>3. \A w \in Workers : job[w].at # "answer"
  BY IdleJob DEF Init
<1>4. ASSUME NEW a \in App
      PROVE (~Filed(a) => HasNoPlaces(a)) /\ ByOthers(a)
  <2>1. CASE a = 1
    BY <1>1, <1>2, <2>1, NoRows DEF Filed, HasNoPlaces, ByOthers, Answered
  <2>2. CASE a # 1
    <3>1. seat[a] = [s \in Seats |-> NoRow]
      BY <1>1, <2>2
    <3> QED
      BY <3>1, NoRows DEF HasNoPlaces, ByOthers, Answered
  <2> QED
    BY <2>1, <2>2
<1> QED
  BY <1>3, <1>4 DEF AnswersInv

----------------------------------------------------------------------------
(* What is approved was answered by enough.  A place that was answered, or    *)
(* open, stays so unless what is approved is excused: its application was     *)
(* erased, or settled with fewer places, or a row read earlier undid what     *)
(* was done in a place.  While an application is filed, its places appear     *)
(* one by one.                                                                *)

Excused(a) == a \in revived \cup short \cup wiped \/ app[a].state = "gone"
Settled(a, s) == seat[a][s].by # Nobody \/ isOpen(seat[a], s, holds)
Whole(a) == /\ Cardinality(Answered(a)) >= 2
            /\ \A s \in Seats : seat[a][s].is /\ Settled(a, s)

\* A place that is there stays there, answered or open if it was.
Keeps(a) == \A s \in Seats : seat[a][s].is =>
                /\ seat'[a][s].is
                /\ seat[a][s].by # Nobody => seat'[a][s].by # Nobody
                /\ Settled(a, s) => Settled(a, s)'

OneByOne ==
    \A w \in Workers : job[w].at = "seats" =>
        /\ ~Excused(job[w].a) => \A s \in job[w].left : ~seat[job[w].a][s].is
        /\ \A v \in Workers \ {w} : job[v].at = "seats" => job[v].a # job[w].a
        /\ ~Excused(job[w].a) =>
             \A s \in Seats \ job[w].left :
                /\ seat[job[w].a][s].is
                /\ job[w].e.paper => /\ Settled(job[w].a, s)
                                     /\ s \in DOMAIN job[w].signed => seat[job[w].a][s].by # Nobody

Decides(w, a) == job[w].at \in {"runs", "make"} /\ job[w].a = a
Decided ==
    \A a \in App : (app[a].state = "approved" \/ \E w \in Workers : Decides(w, a)) => Excused(a) \/ Whole(a)

EnoughInv == OneByOne /\ Decided

LEMMA HistoryGrows ==
    ASSUME [Next]_vars
    PROVE revived \subseteq revived' /\ short \subseteq short' /\ wiped \subseteq wiped'
<1>1. CASE \E r \in Requests : Begins(r)
  <2>1. PICK r \in Requests, kind \in Kinds : Begin(r, kind)
    BY <1>1 DEF Begins, BeginApply, BeginPaper, BeginChange, BeginTakeBack, BeginWithdraw, BeginApprove,
       BeginPass, BeginOpenOther, BeginCreate, BeginUpdate, BeginStopOwn, BeginRemove, Kinds
  <2> QED
    BY <2>1 DEF Begin, history
<1>2. CASE \E r \in Requests : InsertApp(r) \/ SaveSeat(r)
  BY <1>2 DEF InsertApp, SaveSeat, history
<1>3. CASE \E w \in Workers : Rewrite(w) \/ Approve(w) \/ Erase(w)
  BY <1>3 DEF Rewrite, Approve, Erase, Saved, history
<1>4. CASE \E w \in Workers : SaveAnswer(w) \/ OpenSeat(w)
  BY <1>4 DEF SaveAnswer, OpenSeat, Wipes
<1>5. CASE \E w \in Workers : SettleIfDone(w) \/ CheckRun(w) \/ RunFails(w)
  BY <1>5 DEF SettleIfDone, CheckRun, RunFails
<1>6. CASE \/ \E w \in Workers : MakePeriod(w) \/ InsertPeriod(w)
           \/ \E r \in Requests : WriteSpan(r) \/ DeletePeriod(r)
  BY <1>6 DEF MakePeriod, InsertPeriod, WriteSpan, DeletePeriod, history
<1>7. CASE BeginNight \/ NightTakes \/ NightOpens
  BY <1>7 DEF BeginNight, NightTakes, NightOpens, history
<1>8. CASE NightReminds
  BY <1>8, Zenon DEF NightReminds, Wipes
<1>9. CASE (\E w \in Workers : Lose(w)) \/ HandOver \/ ElderLeaves \/ CloseMonth \/ Tick \/ UNCHANGED vars
  BY <1>9 DEF Lose, HandOver, ElderLeaves, CloseMonth, Tick, vars, history
<1> QED
  BY <1>1, <1>2, <1>3, <1>4, <1>5, <1>6, <1>7, <1>8, <1>9, StepIs

\* An application that was erased is gone, or was written again.
LEMMA GoneOrRevived ==
    ASSUME TypeInv, ReadSoundly, [Next]_vars, NEW a \in App, app[a].state = "gone" \/ a \in revived
    PROVE app'[a].state = "gone" \/ a \in revived'
<1>0. TypeOK
  BY DEF TypeInv
<1>1. revived \subseteq revived' /\ short \subseteq short' /\ wiped \subseteq wiped'
  BY HistoryGrows
<1>2. CASE app'[a] = app[a]
  BY <1>1, <1>2
<1>3. CASE \E r \in Requests : InsertApp(r)
  <2>1. PICK r \in Requests : InsertApp(r)
    BY <1>3
  <2>2. PICK b \in App : b = NextId /\ app[b].state = "none"
    BY <2>1, NextIdIsFree DEF InsertApp
  <2>3. \A c \in App \ {b} : app'[c] = app[c]
    BY <1>0, <2>1, <2>2 DEF InsertApp, TypeOK
  <2> QED
    BY <1>1, <2>2, <2>3
<1>4. CASE \E w \in Workers : DoesWork(w)
  <2>1. PICK w \in Workers : DoesWork(w)
    BY <1>4
  <2>2. CASE \E b \in App : app' = [app EXCEPT ![b] = Erased]
    <3>1. PICK b \in App : app' = [app EXCEPT ![b] = Erased]
      BY <2>2
    <3>2. app'[b].state = "gone" /\ \A c \in App \ {b} : app'[c] = app[c]
      BY <1>0, <3>1, ErasedIs DEF TypeOK
    <3> QED
      BY <1>1, <3>2
  <2>3. CASE \E b \in App, e \in Application :
               /\ app' = [app EXCEPT ![b] = e]
               /\ revived' = (IF app[b].state = "gone" THEN revived \cup {b} ELSE revived)
    <3>1. PICK b \in App, e \in Application :
               /\ app' = [app EXCEPT ![b] = e]
               /\ revived' = (IF app[b].state = "gone" THEN revived \cup {b} ELSE revived)
      BY <2>3
    <3>2. \A c \in App \ {b} : app'[c] = app[c]
      BY <1>0, <3>1 DEF TypeOK
    <3> QED
      BY <1>1, <3>1, <3>2
  <2> QED
    BY <1>2, <2>1, <2>2, <2>3, AppsWritten
<1>5. CASE \E r \in Requests : Begins(r)
  <2>1. PICK r \in Requests, kind \in Kinds : Begin(r, kind)
    BY <1>0, <1>5, BegunIs
  <2> QED
    BY <1>2, <2>1 DEF Begin, tables
<1>6. CASE BeginNight \/ NightTakes \/ NightOpens \/ NightReminds
  BY <1>2, <1>6 DEF BeginNight, NightTakes, NightOpens, NightReminds, tables
<1>7. CASE (\E w \in Workers : Lose(w)) \/ HandOver \/ ElderLeaves \/ CloseMonth \/ Tick \/ UNCHANGED vars
  BY <1>2, <1>7 DEF Lose, HandOver, ElderLeaves, CloseMonth, Tick, vars, tables
<1> QED
  BY <1>3, <1>4, <1>5, <1>6, <1>7, StepIs, WorkerKinds DEF DoesWork

\* An application that is excused stays so.
LEMMA StaysExcused ==
    ASSUME TypeInv, ReadSoundly, [Next]_vars, NEW a \in App, Excused(a)
    PROVE Excused(a)'
BY HistoryGrows, GoneOrRevived DEF Excused

\* What any step does to the places and to those who hold them.
LEMMA PlacesStep ==
    ASSUME TypeInv, ReadSoundly, KindInv, [Next]_vars
    PROVE /\ \/ UNCHANGED seat
             \/ \E a \in App : Clears(a)
             \/ \E w \in Workers : Files(w)
             \/ \E a \in App, s \in Seats, row \in Row : Overwrites(a, s, row)
          /\ \A s \in Seats : holds[s] = {} => holds'[s] = {}
<1>0. TypeOK
  BY DEF TypeInv
<1>1. CASE \E w \in Workers : DoesWork(w)
  <2>1. PICK w \in Workers : DoesWork(w)
    BY <1>1
  <2>2. UNCHANGED holds
    BY <2>1, AppsWritten DEF world
  <2>3. \/ UNCHANGED seat
        \/ \E a \in App : Clears(a)
        \/ Files(w)
        \/ \E a \in App, s \in Seats, row \in Row : Overwrites(a, s, row)
    BY <2>1, PlacesWritten
  <2> QED
    BY <2>2, <2>3
<1>2. CASE NightReminds
  <2>1. UNCHANGED holds
    BY <1>2 DEF NightReminds, Step, world
  <2> QED
    BY <1>2, <2>1, PlaceReminded
<1>3. CASE \E r \in Requests : Begins(r)
  <2>1. PICK r \in Requests, kind \in Kinds : Begin(r, kind)
    BY <1>0, <1>3, BegunIs
  <2> QED
    BY <2>1 DEF Begin, tables, world
<1>4. CASE (\E r \in Requests : InsertApp(r)) \/ BeginNight \/ NightTakes \/ NightOpens
  BY <1>4 DEF InsertApp, BeginNight, NightTakes, NightOpens, tables, Step, world
<1>5. CASE HandOver
  <2>1. UNCHANGED seat
    BY <1>5 DEF HandOver, tables
  <2>2. PICK t \in Seats : holds' = [holds EXCEPT ![t] = {}]
    BY <1>5 DEF HandOver
  <2>3. \A s \in Seats : holds[s] = {} => holds'[s] = {}
    BY <1>0, <2>2 DEF TypeOK
  <2> QED
    BY <2>1, <2>3
<1>6. CASE (\E w \in Workers : Lose(w)) \/ ElderLeaves \/ CloseMonth \/ Tick \/ UNCHANGED vars
  BY <1>6 DEF Lose, ElderLeaves, CloseMonth, Tick, vars, tables, world
<1> QED
  BY <1>1, <1>2, <1>3, <1>4, <1>5, <1>6, StepIs, WorkerKinds DEF DoesWork

\* What was read is there, or went with its application.
LEMMA StaysThere ==
    ASSUME TypeInv, ReadSoundly, KindInv, [Next]_vars, NEW a \in App, NEW s \in Seats, There(a, s)
    PROVE There(a, s)'
<1>0. TypeOK
  BY DEF TypeInv
<1>1. CASE app[a].state = "gone" \/ a \in revived
  BY <1>1, GoneOrRevived DEF There
<1>2. CASE seat[a][s].is
  <2>1. CASE seat'[a] = seat[a]
    BY <1>2, <2>1 DEF There
  <2>2. CASE \E b \in App : Clears(b)
    <3>1. PICK b \in App : Clears(b)
      BY <2>2
    <3>2. app'[b].state = "gone" /\ \A c \in App \ {b} : seat'[c] = seat[c]
      BY <1>0, <3>1, ErasedIs DEF Clears, TypeOK
    <3> QED
      BY <2>1, <3>2 DEF There
  <2>3. CASE \E w \in Workers : Files(w)
    <3>1. PICK w \in Workers : Files(w)
      BY <2>3
    <3>2. PICK t \in job[w].left :
               /\ seat'[job[w].a][t] = RowOf(job[w], t) /\ RowOf(job[w], t) \in Row
               /\ \A u \in Seats \ {t} : seat'[job[w].a][u] = seat[job[w].a][u]
               /\ \A b \in App \ {job[w].a} : seat'[b] = seat[b]
      BY <3>1, PlaceFiled
    <3>3. RowOf(job[w], t).is
      <4>1. job[w] \in Job /\ job[w].at = "seats"
        BY <1>0, <3>1 DEF TypeOK, Files
      <4> QED
        BY <4>1, <3>2, JobFields, RowOfIsARow
    <3>4. CASE a = job[w].a /\ s = t
      BY <3>2, <3>3, <3>4 DEF There
    <3>5. CASE a # job[w].a \/ s # t
      BY <1>2, <3>2, <3>5 DEF There
    <3> QED
      BY <3>4, <3>5
  <2>4. CASE \E b \in App, t \in Seats, row \in Row : Overwrites(b, t, row)
    <3>1. PICK b \in App, t \in Seats, row \in Row : Overwrites(b, t, row)
      BY <2>4
    <3>2. /\ row.is /\ seat'[b][t] = row
          /\ \A u \in Seats \ {t} : seat'[b][u] = seat[b][u]
          /\ \A c \in App \ {b} : seat'[c] = seat[c]
      <4>1. row.is /\ seat' = [seat EXCEPT ![b][t] = row]
        BY <3>1 DEF Overwrites
      <4> QED
        BY <1>0, <4>1, SeatWritten, ZenonT(40)
    <3>3. CASE a = b /\ s = t
      BY <3>2, <3>3 DEF There
    <3>4. CASE a # b \/ s # t
      BY <1>2, <3>2, <3>4 DEF There
    <3> QED
      BY <3>3, <3>4
  <2> QED
    BY <2>1, <2>2, <2>3, <2>4, PlacesStep
<1> QED
  BY <1>1, <1>2 DEF There

\* A step after which whoever has come to write a place has read it, and the round too.
LEMMA PlacesReadOn ==
    ASSUME TypeInv, ReadSoundly, KindInv, [Next]_vars, NEW w \in Workers, NEW next,
           Goes(w, next) \/ UNCHANGED job,
           Goes(w, next) => (next.at \in {"answer", "open"} =>
                               next.a \in App /\ next.s \in Seats /\ There(next.a, next.s)),
           \A y \in round'.rows : y \in round.rows \/ (y.a \in App /\ y.s \in Seats /\ There(y.a, y.s))
    PROVE PlacesRead'
<1>0. TypeOK /\ PlacesRead /\ job \in [Workers -> Job]
  BY DEF TypeInv, TypeOK, KindInv
<1>1. ASSUME NEW v \in Workers, job'[v].at \in {"answer", "open"}
      PROVE There(job[v].a, job[v].s)'
  <2>1. CASE job'[v] = job[v]
    <3>1. job[v].a \in App /\ job[v].s \in Seats
      <4>1. job[v] \in Job
        BY <1>0
      <4> QED
        BY <1>1, <2>1, <4>1, JobFields
    <3>2. There(job[v].a, job[v].s)
      BY <1>0, <1>1, <2>1 DEF PlacesRead
    <3>3. PICK a \in App, s \in Seats : a = job[v].a /\ s = job[v].s
      BY <3>1
    <3>4. There(a, s)'
      BY <3>2, <3>3, StaysThere
    <3> QED
      BY <2>1, <3>3, <3>4
  <2>2. CASE job'[v] # job[v]
    <3>1. Goes(w, next) /\ job'[v] = next
      BY <1>0, <2>2, GoesOn
    <3>2. PICK a \in App, s \in Seats : a = next.a /\ s = next.s /\ There(a, s)
      BY <1>1, <3>1
    <3>3. There(a, s)'
      BY <3>2, StaysThere
    <3> QED
      BY <3>1, <3>2, <3>3
  <2> QED
    BY <2>1, <2>2
<1>2. ASSUME NEW y \in round'.rows
      PROVE There(y.a, y.s)'
  <2>1. y.a \in App /\ y.s \in Seats /\ There(y.a, y.s)
    BY <1>0, <1>2 DEF PlacesRead, TypeOK
  <2>2. PICK a \in App, s \in Seats : a = y.a /\ s = y.s /\ There(a, s)
    BY <2>1
  <2>3. There(a, s)'
    BY <2>2, StaysThere
  <2> QED
    BY <2>2, <2>3
<1>3. \A v \in Workers : job'[v].at \in {"answer", "open"} => There(job[v].a, job[v].s)'
  BY <1>1
<1>4. \A y \in round'.rows : There(y.a, y.s)'
  BY <1>2
<1> QED
  BY <1>3, <1>4 DEF PlacesRead

\* A round that goes on without one of its places.
LEMMA RoundGoesOn ==
    ASSUME round \in Rounds, NEW y, round' = Rest(round.apps, round.rows \ {y})
    PROVE round'.rows = round.rows \ {y}
<1>1. round.apps \in SUBSET [a: App, e: Application]
      /\ round.rows \in SUBSET [a: App, e: Application, s: Seats, row: Row]
  BY DEF Rounds
<1> DEFINE rows == round.rows \ {y}
<1>2. rows \subseteq round.rows
  OBVIOUS
<1>3. rows \in SUBSET [a: App, e: Application, s: Seats, row: Row]
  <2> HIDE DEF rows
  <2> QED
    BY <1>1, <1>2
<1>4. round' = Rest(round.apps, rows)
  OBVIOUS
<1> HIDE DEF rows
<1>5. round'.rows = rows
  BY <1>1, <1>3, <1>4, RestOfRound
<1> QED
  BY <1>5 DEF rows

LEMMA PlacesReadStep ==
    ASSUME TypeInv, ReadSoundly, KindInv, [Next]_vars
    PROVE PlacesRead'
<1>0. TypeOK /\ job \in [Workers -> Job] /\ Nightly \in Workers /\ round \in Rounds
  BY WorkerKinds DEF TypeInv, TypeOK, Rounds
<1>u. CASE UNCHANGED <<job, round>>
  BY <1>0, <1>u, GoesOn, PlacesReadOn DEF KindInv, PlacesRead
<1>1. CASE \E r \in Requests : Begins(r)
  <2>1. PICK r \in Requests : Begins(r)
    BY <1>1
  <2>2. PICK kind \in Kinds, next \in Job : Begin(r, kind) /\ Goes(r, next) /\ Begun(next)
    BY <1>0, <2>1, BegunIs
  <2>3. r \in Workers /\ UNCHANGED round
    BY <2>2, WorkerKinds DEF Begin
  <2>4. next.at \in {"answer", "open"} => next.a \in App /\ next.s \in Seats /\ There(next.a, next.s)
    BY <2>2, JobFields DEF Begun, There
  <2> QED
    BY <2>2, <2>3, <2>4, PlacesReadOn
<1>2. CASE \E r \in Requests : InsertApp(r)
  <2>1. PICK r \in Requests : InsertApp(r)
    BY <1>2
  <2> DEFINE next == [at |-> "seats", a |-> NextId, e |-> app'[NextId], left |-> Seats,
                      signed |-> job[r].signed, holds |-> holds]
  <2>2. Goes(r, next) /\ next.at = "seats" /\ r \in Workers /\ UNCHANGED round
    BY <2>1, WorkerKinds DEF InsertApp
  <2> HIDE DEF next
  <2> QED
    BY <2>2, PlacesReadOn
<1>3. CASE \E w \in Workers : DoesWork(w)
  <2>1. PICK w \in Workers : DoesWork(w)
    BY <1>3
  <2>2. PICK next \in Job : Goes(w, next) /\ next.at \notin {"answer", "open"}
    BY <2>1, WorksInOrder DEF GoesInOrder
  <2>3. round' = round \/ round' = NoRound
    BY <2>1, AppsWritten
  <2> QED
    BY <2>2, <2>3, NoRoundIsARound, PlacesReadOn
<1>4. CASE BeginNight
  <2>1. UNCHANGED job /\ round'.rows = {}
    BY <1>4 DEF BeginNight
  <2>2. \A next : Goes(Nightly, next) => next = job[Nightly]
    BY <1>0, <2>1, GoesOn
  <2>3. job[Nightly].at \in {"answer", "open"} =>
          job[Nightly].a \in App /\ job[Nightly].s \in Seats /\ There(job[Nightly].a, job[Nightly].s)
    BY <1>0, JobFields DEF KindInv, PlacesRead
  <2> QED
    BY <1>0, <2>1, <2>3, PlacesReadOn
<1>5. CASE NightTakes
  <2>1. PICK x \in round.apps :
         IF over(x.e)
         THEN /\ Goes(Nightly, [at |-> "erase", a |-> x.a])
              /\ round' = Rest(round.apps \ {x}, {})
         ELSE /\ round' = Rest(round.apps \ {x},
                               IF ~waited(x.e) THEN {}
                               ELSE {[a |-> x.a, e |-> x.e, s |-> s, row |-> seat[x.a][s]] : s \in Needs(x.a, round.holds)})
              /\ UNCHANGED job
    BY <1>5, Zenon DEF NightTakes
  <2> DEFINE rows == {[a |-> x.a, e |-> x.e, s |-> s, row |-> seat[x.a][s]] : s \in Needs(x.a, round.holds)}
  <2>2. PICK left \in {{}, rows} : round' = Rest(round.apps \ {x}, left)
    BY <2>1
  <2>3. x.a \in App /\ x.e \in Application
    BY <1>0 DEF Rounds
  <2>4. \A s \in Needs(x.a, round.holds) : s \in Seats /\ seat[x.a][s].is
    BY DEF Needs, Unanswered, Exists
  <2>5. \A y \in rows : y.a \in App /\ y.s \in Seats /\ There(y.a, y.s)
    BY <2>3, <2>4 DEF There
  <2>6. rows \subseteq [a: App, e: Application, s: Seats, row: Row]
    BY <1>0, <2>3, <2>4 DEF TypeOK
  <2> HIDE DEF rows
  <2>7. round'.rows = left
    <3>1. left \subseteq [a: App, e: Application, s: Seats, row: Row]
          /\ round.apps \ {x} \subseteq [a: App, e: Application]
      BY <1>0, <2>6 DEF Rounds
    <3> QED
      BY <1>0, <2>2, <3>1, RestOfRound
  <2> DEFINE n == IF over(x.e) THEN [at |-> "erase", a |-> x.a] ELSE job[Nightly]
  <2>8. Goes(Nightly, n)
    BY <1>0, <2>1 DEF Goes
  <2>9. n.at \in {"answer", "open"} => n = job[Nightly]
    OBVIOUS
  <2> HIDE DEF n
  <2>10. n.at \in {"answer", "open"} => n.a \in App /\ n.s \in Seats /\ There(n.a, n.s)
    BY <1>0, <2>9, JobFields DEF KindInv, PlacesRead
  <2> QED
    BY <1>0, <2>2, <2>5, <2>7, <2>8, <2>10, PlacesReadOn
<1>6. CASE NightOpens
  <2>1. PICK y \in round.rows :
         /\ Goes(Nightly, [at |-> "open", a |-> y.a, e |-> y.e, s |-> y.s,
                           row |-> [y.row EXCEPT !.open = "absent", !.opener = Nobody]])
         /\ round' = Rest(round.apps, round.rows \ {y})
    BY <1>6, Zenon DEF NightOpens
  <2> DEFINE row == [y.row EXCEPT !.open = "absent", !.opener = Nobody]
             n == [at |-> "open", a |-> y.a, e |-> y.e, s |-> y.s, row |-> row]
  <2>2. Goes(Nightly, n)
    BY <2>1
  <2> HIDE DEF row
  <2>3. n.a = y.a /\ n.s = y.s
    OBVIOUS
  <2> HIDE DEF n
  <2>4. y.a \in App /\ y.s \in Seats /\ There(y.a, y.s)
    BY <1>0 DEF Rounds, KindInv, PlacesRead
  <2>5. round'.rows = round.rows \ {y}
    BY <1>0, <2>1, RoundGoesOn
  <2> QED
    BY <1>0, <2>2, <2>3, <2>4, <2>5, PlacesReadOn
<1>7. CASE NightReminds
  <2>1. PICK y \in round.rows : round' = Rest(round.apps, round.rows \ {y}) \/ round' = NoRound
    BY <1>7, Zenon DEF NightReminds
  <2>2. round'.rows \subseteq round.rows
    <3>1. CASE round' = NoRound
      BY <3>1, NoRoundIsARound
    <3>2. CASE round' = Rest(round.apps, round.rows \ {y})
      BY <1>0, <3>2, RoundGoesOn
    <3> QED
      BY <2>1, <3>1, <3>2
  <2>3. UNCHANGED job
    BY <1>7 DEF NightReminds
  <2>4. Goes(Nightly, job[Nightly])
    BY <1>0, <2>3 DEF Goes
  <2>5. job[Nightly].at \in {"answer", "open"} =>
          job[Nightly].a \in App /\ job[Nightly].s \in Seats /\ There(job[Nightly].a, job[Nightly].s)
    BY <1>0, JobFields DEF KindInv, PlacesRead
  <2> QED
    BY <1>0, <2>2, <2>4, <2>5, PlacesReadOn
<1>8. CASE \E w \in Workers : Lose(w)
  <2>1. PICK w \in Workers : Goes(w, Idle) /\ (round' = NoRound \/ round' = round)
    BY <1>8 DEF Lose
  <2> QED
    BY <2>1, IdleJob, NoRoundIsARound, PlacesReadOn
<1>9. CASE HandOver \/ ElderLeaves \/ CloseMonth \/ Tick \/ UNCHANGED vars
  BY <1>u, <1>9 DEF HandOver, ElderLeaves, CloseMonth, Tick, vars
<1> QED
  BY <1>1, <1>2, <1>3, <1>4, <1>5, <1>6, <1>7, <1>8, <1>9, StepIs, WorkerKinds DEF DoesWork

\* Places are kept, but where the application is excused.
LEMMA PlacesKept ==
    ASSUME TypeInv, ReadSoundly, KindInv, OneByOne, [Next]_vars, NEW a \in App
    PROVE Excused(a)' \/ Keeps(a)
<1>0. TypeOK
  BY DEF TypeInv
<1>1. \A s \in Seats : holds[s] = {} => holds'[s] = {}
  BY PlacesStep
<1>2. ASSUME NEW s \in Seats, seat'[a][s] = seat[a][s]
      PROVE Settled(a, s) => Settled(a, s)'
  BY <1>1, <1>2 DEF Settled, isOpen
<1>3. CASE seat'[a] = seat[a]
  BY <1>2, <1>3 DEF Keeps
<1>4. CASE \E b \in App : Clears(b)
  <2>1. PICK b \in App : Clears(b)
    BY <1>4
  <2>2. app'[b].state = "gone" /\ \A c \in App \ {b} : seat'[c] = seat[c]
    BY <1>0, <2>1, ErasedIs DEF Clears, TypeOK
  <2> QED
    BY <1>3, <2>2 DEF Excused
<1>5. CASE \E w \in Workers : Files(w)
  <2>1. PICK w \in Workers : Files(w)
    BY <1>5
  <2>2. PICK s \in job[w].left :
               /\ s \in Seats /\ seat'[job[w].a][s] = RowOf(job[w], s) /\ RowOf(job[w], s) \in Row
               /\ \A t \in Seats \ {s} : seat'[job[w].a][t] = seat[job[w].a][t]
               /\ \A b \in App \ {job[w].a} : seat'[b] = seat[b]
               /\ Goes(w, AfterSeats(job[w], job[w].left \ {s}))
    BY <2>1, PlaceFiled
  <2>3. Excused(job[w].a) \/ ~seat[job[w].a][s].is
    BY <2>1, <2>2 DEF OneByOne, Files
  <2>4. CASE a # job[w].a
    BY <1>3, <2>2, <2>4
  <2>5. CASE a = job[w].a
    <3>1. CASE Excused(a)
      BY <3>1, StaysExcused
    <3>2. CASE ~Excused(a)
      BY <1>2, <2>2, <2>3, <2>5, <3>2 DEF Keeps
    <3> QED
      BY <3>1, <3>2
  <2> QED
    BY <2>4, <2>5
<1>6. CASE \E b \in App, s \in Seats, row \in Row : Overwrites(b, s, row)
  <2>1. PICK b \in App, s \in Seats, row \in Row : Overwrites(b, s, row)
    BY <1>6
  <2>2. /\ seat'[b][s] = row
        /\ \A t \in Seats \ {s} : seat'[b][t] = seat[b][t]
        /\ \A c \in App \ {b} : seat'[c] = seat[c]
    <3>1. seat' = [seat EXCEPT ![b][s] = row]
      BY <2>1 DEF Overwrites
    <3> QED
      BY <1>0, <3>1, SeatWritten, ZenonT(40)
  <2>3. CASE a # b
    BY <1>3, <2>2, <2>3
  <2>4. CASE a = b /\ \/ seat[b][s].by \notin {Nobody, row.by}
                      \/ seat[b][s].open # "no" /\ row.open = "no"
    BY <2>1, <2>4 DEF Overwrites, Excused
  <2>5. CASE a = b /\ ~ \/ seat[b][s].by \notin {Nobody, row.by}
                        \/ seat[b][s].open # "no" /\ row.open = "no"
    <3>1. row.is /\ (seat[b][s].by # Nobody => row.by # Nobody)
          /\ (seat[b][s].open # "no" => row.open # "no")
      BY <2>1, <2>5 DEF Overwrites
    <3>2. Settled(b, s) => Settled(b, s)'
      BY <1>1, <2>2, <3>1 DEF Settled, isOpen
    <3> QED
      BY <1>2, <2>2, <2>5, <3>1, <3>2 DEF Keeps
  <2> QED
    BY <2>3, <2>4, <2>5
<1> QED
  BY <1>3, <1>4, <1>5, <1>6, PlacesStep

\* A place appears only while its application is filed, or comes back after it was erased.
LEMMA PlacesAppear ==
    ASSUME TypeInv, ReadSoundly, KindInv, [Next]_vars, NEW a \in App, NEW s \in Seats,
           ~seat[a][s].is, seat'[a][s].is, ~Excused(a)'
    PROVE \E w \in Workers : Files(w) /\ a = job[w].a /\ Goes(w, AfterSeats(job[w], job[w].left \ {s}))
<1>0. TypeOK
  BY DEF TypeInv
<1>1. CASE \E b \in App : Clears(b)
  <2>1. PICK b \in App : Clears(b)
    BY <1>1
  <2>2. seat'[b] = [t \in Seats |-> NoRow] /\ \A c \in App \ {b} : seat'[c] = seat[c]
    BY <1>0, <2>1 DEF Clears, TypeOK
  <2> QED
    BY <2>2, NoRows
<1>2. CASE \E w \in Workers : Files(w)
  <2>1. PICK w \in Workers : Files(w)
    BY <1>2
  <2>2. PICK t \in job[w].left :
               /\ t \in Seats /\ seat'[job[w].a][t] = RowOf(job[w], t) /\ RowOf(job[w], t) \in Row
               /\ \A u \in Seats \ {t} : seat'[job[w].a][u] = seat[job[w].a][u]
               /\ \A b \in App \ {job[w].a} : seat'[b] = seat[b]
               /\ Goes(w, AfterSeats(job[w], job[w].left \ {t}))
    BY <2>1, PlaceFiled
  <2>3. a = job[w].a /\ s = t
    BY <2>2
  <2> QED
    BY <2>1, <2>2, <2>3
<1>3. CASE \E b \in App, t \in Seats, row \in Row : Overwrites(b, t, row)
  <2>1. PICK b \in App, t \in Seats, row \in Row : Overwrites(b, t, row)
    BY <1>3
  <2>2. There(b, t) /\ (\A u \in Seats \ {t} : seat'[b][u] = seat[b][u])
        /\ \A c \in App \ {b} : seat'[c] = seat[c]
    BY <1>0, <2>1, SeatWritten DEF Overwrites
  <2>3. ~There(a, s)
    BY StaysExcused DEF There, Excused
  <2> QED
    BY <2>2, <2>3
<1> QED
  BY <1>1, <1>2, <1>3, PlacesStep

\* How a worker comes to file an application, or to make its periods.
ComesTo(w, next) ==
    \/ next = job[w]
    \/ next.at \notin {"seats", "runs", "make"}
    \/ /\ next.at = "seats" /\ next.left = Seats
       /\ \E a \in App : next.a = a /\ app[a].state = "none"
    \/ Files(w) /\ next.at \in {"seats", "runs"}
    \/ SettleIfDone(w) /\ next.at \in {"runs", "make"} /\ next.a = job[w].a
    \/ /\ next.at \in {"runs", "make"} /\ job[w].at \in {"runs", "make"} /\ next.a = job[w].a

LEMMA FilesOn ==
    ASSUME TypeInv, ReadSoundly, NEW w \in Workers, SaveSeat(w), ~Goes(w, Idle)
    PROVE Files(w)
<1>1. job[w] \in Job /\ Sound(job[w])
  BY DEF TypeInv, TypeOK, ReadSoundly
<1>2. job[w].at = "seats" /\ job[w].a \in App /\ job[w].left # {} /\ UNCHANGED <<app, wiped>>
  BY <1>1, JobFields DEF SaveSeat, Sound
<1> DEFINE s == CHOOSE x \in job[w].left : TRUE
<1>3. s \in job[w].left
  BY <1>2
<1>4. /\ seat' = [seat EXCEPT ![job[w].a][s] = RowOf(job[w], s)] /\ app[job[w].a].state # "gone"
      /\ Goes(w, AfterSeats(job[w], job[w].left \ {s}))
  BY DEF SaveSeat
<1> HIDE DEF s
<1> QED
  BY <1>2, <1>3, <1>4 DEF Files

LEMMA JobsStep ==
    ASSUME TypeInv, ReadSoundly, [Next]_vars
    PROVE \E w \in Workers : ComesTo(w, job'[w]) /\ \A v \in Workers \ {w} : job'[v] = job[v]
<1>0. TypeOK /\ job \in [Workers -> Job] /\ Nightly \in Workers
  BY WorkerKinds DEF TypeInv, TypeOK
<1>u. CASE UNCHANGED job
  BY <1>0, <1>u DEF ComesTo
<1>1. CASE \E r \in Requests : Begins(r)
  <2>1. PICK r \in Requests : Begins(r)
    BY <1>1
  <2>2. PICK kind \in Kinds, next \in Job : Goes(r, next) /\ Begun(next)
    BY <1>0, <2>1, BegunIs
  <2>3. r \in Workers /\ next.at \notin {"seats", "runs", "make"}
    BY <2>2, WorkerKinds DEF Begun
  <2> QED
    BY <1>0, <2>2, <2>3, GoesOn DEF ComesTo
<1>2. CASE \E r \in Requests : InsertApp(r)
  <2>1. PICK r \in Requests : InsertApp(r)
    BY <1>2
  <2> DEFINE next == [at |-> "seats", a |-> NextId, e |-> app'[NextId], left |-> Seats,
                      signed |-> job[r].signed, holds |-> holds]
  <2>2. Goes(r, next) /\ next.at = "seats" /\ next.left = Seats /\ next.a = NextId /\ r \in Workers
    BY <2>1, WorkerKinds DEF InsertApp
  <2>3. NextId \in App /\ app[NextId].state = "none"
    BY <2>1, NextIdIsFree DEF InsertApp
  <2> HIDE DEF next
  <2> QED
    BY <1>0, <2>2, <2>3, GoesOn DEF ComesTo
<1>3. CASE \E w \in Workers : DoesWork(w)
  <2>1. PICK w \in Workers : DoesWork(w)
    BY <1>3
  <2>2. PICK next \in Job : Goes(w, next) /\ GoesInOrder(w, next)
    BY <2>1, WorksInOrder
  <2>3. ComesTo(w, next)
    <3>1. CASE SaveSeat(w) /\ next.at # "idle"
      <4>1. ~Goes(w, Idle)
        BY <1>0, <2>2, <3>1, GoesOn, IdleJob
      <4>2. Files(w)
        BY <3>1, <4>1, FilesOn
      <4>3. next.at \in {"seats", "runs"} \/ next.at \notin {"seats", "runs", "make"}
        <5>1. PICK s \in job[w].left : Goes(w, AfterSeats(job[w], job[w].left \ {s}))
          BY <4>2 DEF Files
        <5>2. next = AfterSeats(job[w], job[w].left \ {s})
          BY <1>0, <2>2, <5>1, GoesOn
        <5>3. job[w] \in Job /\ job[w].at = "seats" /\ job[w].left \ {s} \in SUBSET Seats
              /\ job[w].e.paper \in BOOLEAN
          BY <1>0, <4>2, JobFields DEF Files, Application
        <5> QED
          BY <5>2, <5>3, AfterASeat
      <4> QED
        BY <4>2, <4>3 DEF ComesTo
    <3>2. CASE SettleIfDone(w)
      <4>1. job[w].at = "settle"
        BY <3>2 DEF SettleIfDone
      <4> QED
        BY <2>2, <3>2, <4>1 DEF ComesTo, GoesInOrder, SaveSeat
    <3> QED
      BY <2>2, <3>1, <3>2 DEF GoesInOrder, ComesTo
  <2> QED
    BY <1>0, <2>2, <2>3, GoesOn
<1>4. CASE BeginNight \/ NightReminds \/ HandOver \/ ElderLeaves \/ CloseMonth \/ Tick \/ UNCHANGED vars
  BY <1>u, <1>4 DEF BeginNight, NightReminds, HandOver, ElderLeaves, CloseMonth, Tick, vars
<1>5. CASE NightTakes
  <2>1. PICK x \in round.apps : UNCHANGED job \/ Goes(Nightly, [at |-> "erase", a |-> x.a])
    BY <1>5, Zenon DEF NightTakes
  <2>2. [at |-> "erase", a |-> x.a].at = "erase"
    OBVIOUS
  <2> QED
    BY <1>0, <1>u, <2>1, <2>2, GoesOn DEF ComesTo
<1>6. CASE NightOpens
  <2>1. PICK y \in round.rows : Goes(Nightly, [at |-> "open", a |-> y.a, e |-> y.e, s |-> y.s,
                           row |-> [y.row EXCEPT !.open = "absent", !.opener = Nobody]])
    BY <1>6, Zenon DEF NightOpens
  <2> DEFINE n == [at |-> "open", a |-> y.a, e |-> y.e, s |-> y.s,
                   row |-> [y.row EXCEPT !.open = "absent", !.opener = Nobody]]
  <2>2. Goes(Nightly, n) /\ n.at = "open"
    BY <2>1
  <2> HIDE DEF n
  <2> QED
    BY <1>0, <2>2, GoesOn DEF ComesTo
<1>7. CASE \E w \in Workers : Lose(w)
  BY <1>0, <1>7, GoesOn, IdleJob DEF Lose, ComesTo
<1> QED
  BY <1>1, <1>2, <1>3, <1>4, <1>5, <1>6, <1>7, StepIs, WorkerKinds DEF DoesWork

\* An application that is being filed is there.
LEMMA FiledOnesAreThere ==
    ASSUME TypeInv, KindInv, NEW w \in Workers, job[w].at = "seats"
    PROVE job[w].a \in App /\ app[job[w].a].state # "none"
<1>1. job[w].a \in App /\ job[w].e \in Application /\ Knows(job[w].a, job[w].e)
  BY WhoKnows DEF OfApp
<1> QED
  BY <1>1 DEF KindInv, SameKind

\* A place more of those an application is filed with.
LEMMA OneMore ==
    ASSUME TypeInv, ReadSoundly, KindInv, OneByOne, [Next]_vars, NEW w \in Workers, Files(w)
    PROVE \E s \in job[w].left, a \in App :
            /\ s \in Seats /\ a = job[w].a /\ job'[w] = AfterSeats(job[w], job[w].left \ {s})
            /\ ~Excused(a)' => \A t \in (Seats \ job[w].left) \cup {s} :
                 /\ seat'[a][t].is
                 /\ job[w].e.paper => /\ Settled(a, t)'
                                      /\ t \in DOMAIN job[w].signed => seat'[a][t].by # Nobody
<1>0. TypeOK /\ job \in [Workers -> Job] /\ job[w] \in Job /\ job[w].at = "seats"
  BY DEF TypeInv, TypeOK, Files
<1>1. PICK a \in App : a = job[w].a
  BY DEF Files
<1>2. PICK s \in job[w].left :
               /\ s \in Seats /\ seat'[job[w].a][s] = RowOf(job[w], s) /\ RowOf(job[w], s) \in Row
               /\ \A t \in Seats \ {s} : seat'[job[w].a][t] = seat[job[w].a][t]
               /\ \A b \in App \ {job[w].a} : seat'[b] = seat[b]
               /\ Goes(w, AfterSeats(job[w], job[w].left \ {s}))
  BY PlaceFiled
<1>3. job'[w] = AfterSeats(job[w], job[w].left \ {s})
  BY <1>0, <1>2, GoesOn
<1>4. ASSUME ~Excused(a)', NEW t \in (Seats \ job[w].left) \cup {s}
      PROVE /\ seat'[a][t].is
            /\ job[w].e.paper => /\ Settled(a, t)'
                                 /\ t \in DOMAIN job[w].signed => seat'[a][t].by # Nobody
  <2>1. ~Excused(a) /\ Keeps(a)
    BY <1>4, StaysExcused, PlacesKept
  <2>2. CASE t = s
    <3>1. PICK row \in Row : row = RowOf(job[w], s) /\ seat'[a][s] = row
      BY <1>1, <1>2
    <3>2. row.is /\ (job[w].e.paper /\ s \in DOMAIN job[w].signed => row.by \in Users)
          /\ (job[w].e.paper /\ s \notin DOMAIN job[w].signed => row.open = "opened")
      BY <1>0, <1>2, <3>1, RowOfIsARow
    <3> QED
      BY <2>2, <3>1, <3>2, AuxConstants DEF Settled, isOpen
  <2>3. CASE t # s
    <3>1. /\ seat[a][t].is
          /\ job[w].e.paper => Settled(a, t) /\ (t \in DOMAIN job[w].signed => seat[a][t].by # Nobody)
      BY <1>0, <1>1, <1>4, <2>1, <2>3 DEF OneByOne
    <3> QED
      BY <1>4, <1>2, <2>1, <2>3, <3>1 DEF Keeps
  <2> QED
    BY <2>2, <2>3
<1> QED
  BY <1>1, <1>2, <1>3, <1>4

\* Who still files an application after a place has the others left.
LEMMA StillFiling ==
    ASSUME NEW j \in Job, j.at = "seats", NEW s \in j.left, NEW next, next = AfterSeats(j, j.left \ {s}),
           next.at = "seats"
    PROVE next.a = j.a /\ next.e = j.e /\ next.left = j.left \ {s} /\ next.signed = j.signed
<1>1. PICK left \in SUBSET Seats : left = j.left \ {s}
  BY JobFields
<1>2. next = AfterSeats(j, left) /\ j.e.paper \in BOOLEAN
  BY <1>1, JobFields DEF Application
<1>3. ASSUME left = {}
      PROVE FALSE
  <2>1. next = Idle \/ next.at = "runs"
    BY <1>2, <1>3 DEF AfterSeats
  <2> QED
    BY <2>1, IdleJob
<1>4. /\ AfterSeats(j, left).a = j.a /\ AfterSeats(j, left).e = j.e /\ AfterSeats(j, left).left = left
      /\ AfterSeats(j, left).signed = j.signed
  BY <1>3, AfterASeat
<1> QED
  BY <1>1, <1>2, <1>4

LEMMA OneByOneStep ==
    ASSUME TypeInv, ReadSoundly, KindInv, AnswersInv, OneByOne, [Next]_vars
    PROVE OneByOne'
<1>0. TypeOK /\ job \in [Workers -> Job]
  BY DEF TypeInv, TypeOK
<1>1. PICK w \in Workers : ComesTo(w, job'[w]) /\ \A v \in Workers \ {w} : job'[v] = job[v]
  BY JobsStep
\* A worker that goes on filing, or begins to.
<1>2. ASSUME NEW v \in Workers, job'[v].at = "seats", job'[v] # job[v]
      PROVE \/ /\ job'[v].left = Seats /\ v = w
               /\ \E a \in App : job'[v].a = a /\ app[a].state = "none"
            \/ /\ Files(v) /\ v = w
               /\ \E s \in job[v].left : job'[v] = AfterSeats(job[v], job[v].left \ {s})
  <2>1. v = w /\ (Files(v) \/ (job'[v].left = Seats /\ \E a \in App : job'[v].a = a /\ app[a].state = "none"))
    BY <1>1, <1>2 DEF ComesTo
  <2> QED
    BY <2>1, OneMore
\* One worker files an application, and the places not yet saved are not there.
<1>3. ASSUME NEW v \in Workers, job'[v].at = "seats"
      PROVE \E a \in App :
              /\ job'[v].a = a
              /\ ~Excused(a)' => \A s \in job'[v].left : ~seat'[a][s].is
              /\ \A u \in Workers \ {v} : job'[u].at = "seats" => job'[u].a # a
              /\ ~Excused(a)' =>
                   \A s \in Seats \ job'[v].left :
                      /\ seat'[a][s].is
                      /\ job'[v].e.paper => /\ Settled(a, s)'
                                            /\ s \in DOMAIN job'[v].signed => seat'[a][s].by # Nobody
  \* It was being filed before.
  <2>1. CASE job'[v] = job[v]
    <3>1. PICK a \in App : a = job[v].a /\ app[a].state # "none" /\ job[v].left \subseteq Seats
      <4>1. job[v] \in Job
        BY <1>0
      <4> QED
        BY <1>3, <2>1, <4>1, FiledOnesAreThere, JobFields
    <3>2. /\ ~Excused(a) => \A s \in job[v].left : ~seat[a][s].is
          /\ \A u \in Workers \ {v} : job[u].at = "seats" => job[u].a # a
          /\ ~Excused(a) =>
               \A s \in Seats \ job[v].left :
                  /\ seat[a][s].is
                  /\ job[v].e.paper => Settled(a, s) /\ (s \in DOMAIN job[v].signed => seat[a][s].by # Nobody)
      BY <1>3, <2>1, <3>1 DEF OneByOne
    <3>3. ASSUME ~Excused(a)', NEW s \in job[v].left, seat'[a][s].is
          PROVE FALSE
      <4>1. PICK x \in Workers : Files(x) /\ a = job[x].a /\ Goes(x, AfterSeats(job[x], job[x].left \ {s}))
        BY <3>1, <3>2, <3>3, StaysExcused, PlacesAppear
      <4>2. job[x].at = "seats"
        BY <4>1 DEF Files
      <4>3. x = v
        BY <3>2, <4>1, <4>2
      <4>4. job[v] = AfterSeats(job[v], job[v].left \ {s})
        BY <1>0, <2>1, <4>1, <4>3, GoesOn
      <4>5. job[v] \in Job /\ job[v].at = "seats"
        BY <1>0, <1>3, <2>1
      <4>6. job[v].left = job[v].left \ {s}
        BY <4>4, <4>5, StillFiling
      <4> QED
        BY <4>6
    <3>4. ASSUME NEW u \in Workers \ {v}, job'[u].at = "seats", job'[u].a = a
          PROVE FALSE
      <4>1. job'[u] # job[u]
        BY <3>2, <3>4
      <4>2. job[u].at = "seats" /\ job[u].a = a
        <5>1. Files(u) /\ \E s \in job[u].left : job'[u] = AfterSeats(job[u], job[u].left \ {s})
          BY <1>2, <3>1, <3>4, <4>1
        <5>2. PICK s \in job[u].left : job'[u] = AfterSeats(job[u], job[u].left \ {s})
          BY <5>1
        <5>3. job[u] \in Job /\ job[u].at = "seats"
          BY <1>0, <5>1 DEF Files
        <5> QED
          BY <3>4, <5>2, <5>3, StillFiling
      <4> QED
        BY <3>2, <4>2
    <3>5. ASSUME ~Excused(a)', NEW s \in Seats \ job[v].left
          PROVE /\ seat'[a][s].is
                /\ job[v].e.paper => Settled(a, s)' /\ (s \in DOMAIN job[v].signed => seat'[a][s].by # Nobody)
      <4>1. ~Excused(a) /\ Keeps(a)
        BY <3>5, StaysExcused, PlacesKept
      <4> QED
        BY <3>2, <4>1 DEF Keeps
    <3> QED
      BY <2>1, <3>1, <3>3, <3>4, <3>5
  \* It is new.
  <2>2. CASE job'[v] # job[v] /\ job'[v].left = Seats /\ v = w
             /\ \E a \in App : job'[v].a = a /\ app[a].state = "none"
    <3>1. PICK a \in App : job'[v].a = a /\ app[a].state = "none"
      BY <2>2
    <3>2. \A s \in Seats : ~seat[a][s].is
      BY <3>1 DEF AnswersInv, Filed, HasNoPlaces
    <3>3. ASSUME NEW u \in Workers, job[u].at = "seats", job[u].a = a
          PROVE FALSE
      BY <3>1, <3>3, FiledOnesAreThere
    <3>4. ~Excused(a)' => \A s \in Seats : ~seat'[a][s].is
      <4>1. SUFFICES ASSUME ~Excused(a)', NEW s \in Seats, seat'[a][s].is
                     PROVE FALSE
        OBVIOUS
      <4>2. PICK x \in Workers : Files(x) /\ a = job[x].a
        BY <3>2, <4>1, PlacesAppear
      <4> QED
        BY <3>3, <4>2 DEF Files
    <3> QED
      BY <1>1, <2>2, <3>1, <3>3, <3>4
  \* It goes on.
  <2>3. CASE job'[v] # job[v] /\ v = w /\ Files(v)
    <3>1. PICK s \in job[v].left, a \in App :
            /\ s \in Seats /\ a = job[v].a /\ job'[v] = AfterSeats(job[v], job[v].left \ {s})
            /\ ~Excused(a)' => \A t \in (Seats \ job[v].left) \cup {s} :
                 /\ seat'[a][t].is
                 /\ job[v].e.paper => /\ Settled(a, t)'
                                      /\ t \in DOMAIN job[v].signed => seat'[a][t].by # Nobody
      BY <2>3, OneMore
    <3>2. job[v] \in Job /\ job[v].at = "seats" /\ job[v].left \in SUBSET Seats
      BY <1>0, <2>3, JobFields DEF Files
    <3>3. job'[v].a = a /\ job'[v].e = job[v].e /\ job'[v].signed = job[v].signed
          /\ job'[v].left = job[v].left \ {s}
      BY <1>3, <3>1, <3>2, StillFiling
    <3>4. /\ ~Excused(a) => \A t \in job[v].left : ~seat[a][t].is
          /\ \A u \in Workers \ {v} : job[u].at = "seats" => job[u].a # a
      BY <3>1, <3>2 DEF OneByOne
    <3>5. ASSUME ~Excused(a)', NEW t \in job'[v].left, seat'[a][t].is
          PROVE FALSE
      <4>1. PICK x \in Workers : Files(x) /\ a = job[x].a /\ Goes(x, AfterSeats(job[x], job[x].left \ {t}))
        BY <3>2, <3>3, <3>4, <3>5, StaysExcused, PlacesAppear
      <4>2. x = v
        BY <3>4, <4>1 DEF Files
      <4>3. job'[v] = AfterSeats(job[v], job[v].left \ {t}) /\ t \in job[v].left
        BY <1>0, <3>3, <3>5, <4>1, <4>2, GoesOn
      <4>4. job'[v].left = job[v].left \ {t}
        <5>1. job'[v].at = "seats"
          BY <1>3
        <5> QED
          BY <3>2, <4>3, <5>1, StillFiling, ZenonT(40)
      <4> QED
        BY <3>5, <4>4
    <3>6. ASSUME ~Excused(a)', NEW t \in Seats \ job'[v].left
          PROVE /\ seat'[a][t].is
                /\ job'[v].e.paper => Settled(a, t)' /\ (t \in DOMAIN job'[v].signed => seat'[a][t].by # Nobody)
      <4>1. t \in (Seats \ job[v].left) \cup {s}
        BY <3>3, <3>6
      <4> QED
        BY <3>1, <3>3, <3>6, <4>1
    <3>7. \A u \in Workers \ {v} : job'[u].at = "seats" => job'[u].a # a
      BY <1>1, <2>3, <3>4
    <3> QED
      BY <3>3, <3>5, <3>6, <3>7
  <2> QED
    BY <1>2, <1>3, <2>1, <2>2, <2>3
<1> QED
  BY <1>3 DEF OneByOne

\* Enough answers stay enough.
LEMMA StaysWhole ==
    ASSUME TypeInv, ReadSoundly, KindInv, OneByOne, [Next]_vars, NEW a \in App, Excused(a) \/ Whole(a)
    PROVE Excused(a)' \/ Whole(a)'
<1> SUFFICES ASSUME ~Excused(a)'
             PROVE Whole(a)'
  OBVIOUS
<1>1. Whole(a) /\ Keeps(a)
  BY StaysExcused, PlacesKept
<1>2. \A s \in Seats : seat'[a][s].is /\ Settled(a, s)' /\ (seat[a][s].by # Nobody => seat'[a][s].by # Nobody)
  BY <1>1 DEF Whole, Keeps
<1> DEFINE A == Answered(a)
           B == Answered(a)'
<1>3. A \subseteq B /\ B \subseteq Seats
  BY <1>2 DEF Answered
<1>4. IsFiniteSet(B) /\ Cardinality(A) >= 2
  BY <1>1, <1>3, AuxConstants, FS_Subset DEF Whole
<1> HIDE DEF A, B
<1>5. Cardinality(B) >= 2
  <2>1. IsFiniteSet(A) /\ Cardinality(A) <= Cardinality(B)
    BY <1>3, <1>4, FS_Subset
  <2>2. Cardinality(A) \in Nat /\ Cardinality(B) \in Nat
    BY <1>4, <2>1, FS_CardinalityType
  <2> QED
    BY <1>4, <2>1, <2>2
<1> QED
  BY <1>2, <1>5 DEF Whole, B

\* A paper is made into periods once all its places are saved.
LEMMA PaperIsWhole ==
    ASSUME TypeInv, ReadSoundly, KindInv, OneByOne, [Next]_vars, NEW w \in Workers, Files(w),
           job'[w].at = "runs"
    PROVE \E a \in App : job'[w].a = a /\ (Excused(a)' \/ Whole(a)')
<1>1. PICK s \in job[w].left, a \in App :
            /\ s \in Seats /\ a = job[w].a /\ job'[w] = AfterSeats(job[w], job[w].left \ {s})
            /\ ~Excused(a)' => \A t \in (Seats \ job[w].left) \cup {s} :
                 /\ seat'[a][t].is
                 /\ job[w].e.paper => /\ Settled(a, t)'
                                      /\ t \in DOMAIN job[w].signed => seat'[a][t].by # Nobody
  BY OneMore
<1>2. job[w] \in Job /\ job[w].at = "seats" /\ Sound(job[w])
  BY DEF TypeInv, TypeOK, Files, ReadSoundly
<1>3. /\ job[w].left \in SUBSET Seats /\ job[w].e.paper \in BOOLEAN /\ job[w].signed \in Signatures
      /\ job[w] = [at |-> "seats", a |-> job[w].a, e |-> job[w].e, left |-> job[w].left,
                   signed |-> job[w].signed, holds |-> job[w].holds]
  BY <1>2, JobFields DEF Application
<1>4. job[w].left \ {s} = {} /\ job[w].e.paper
  <2>1. CASE job[w].left \ {s} # {}
    <3>1. job'[w] = [job[w] EXCEPT !.left = job[w].left \ {s}]
      BY <1>1, <2>1 DEF AfterSeats
    <3>2. job'[w].at = "seats"
      BY <1>2, <1>3, <3>1
    <3> QED
      BY <3>2
  <2>2. CASE job[w].left \ {s} = {} /\ ~job[w].e.paper
    BY <1>1, <2>2, IdleJob DEF AfterSeats
  <2> QED
    BY <2>1, <2>2
<1>5. job'[w].a = a
  BY <1>1, <1>4 DEF AfterSeats
<1>6. ASSUME ~Excused(a)'
      PROVE Whole(a)'
  <2>1. \A t \in Seats : /\ seat'[a][t].is /\ Settled(a, t)'
                         /\ t \in DOMAIN job[w].signed => seat'[a][t].by # Nobody
    <3>1. Seats \subseteq (Seats \ job[w].left) \cup {s}
      BY <1>4
    <3> QED
      BY <1>1, <1>4, <1>6, <3>1
  <2> DEFINE A == DOMAIN job[w].signed
             B == Answered(a)'
  <2>2. A \subseteq Seats
    BY <1>3 DEF Signatures
  <2>3. A \subseteq B /\ B \subseteq Seats
    BY <2>1, <2>2 DEF Answered
  <2>4. Cardinality(A) >= 2
    BY <1>2, <1>4 DEF Sound
  <2> HIDE DEF A, B
  <2>5. IsFiniteSet(B) /\ IsFiniteSet(A) /\ Cardinality(A) <= Cardinality(B)
    BY <2>3, AuxConstants, FS_Subset
  <2>6. Cardinality(A) \in Nat /\ Cardinality(B) \in Nat
    BY <2>5, FS_CardinalityType
  <2>7. Cardinality(B) >= 2
    BY <2>4, <2>5, <2>6
  <2> QED
    BY <2>1, <2>7 DEF Whole, B
<1> QED
  BY <1>5, <1>6

\* What is settled was answered by enough.
LEMMA SettledIsWhole ==
    ASSUME TypeInv, NEW w \in Workers, SettleIfDone(w), job'[w].at # "idle"
    PROVE \E a \in App : job[w].a = a /\ (Excused(a)' \/ Whole(a)')
<1>1. TypeOK /\ job[w] \in Job /\ job[w].at = "settle"
  BY DEF TypeInv, TypeOK, SettleIfDone
<1>2. PICK a \in App : a = job[w].a
  BY <1>1, JobFields
<1>3. done(seat[a], holds)
  <2>1. CASE ~done(seat[a], holds)
    <3>1. Goes(w, Idle)
      BY <1>2, <2>1 DEF SettleIfDone
    <3> QED
      BY <1>1, <3>1, GoesOn, IdleJob DEF TypeOK
  <2> QED
    BY <2>1
<1>4. UNCHANGED <<seat, app, holds, revived, wiped>>
      /\ short' = (IF Exists(seat[a]) # Seats /\ app[a].state # "gone" THEN short \cup {a} ELSE short)
  BY <1>2, <1>3 DEF SettleIfDone, tables, Step, world
<1>5. CASE Exists(seat[a]) # Seats
  BY <1>2, <1>4, <1>5 DEF Excused
<1>6. CASE Exists(seat[a]) = Seats
  <2>1. \A s \in Seats : seat[a][s].is
    BY <1>6 DEF Exists
  <2>2. Answered(a) = Exists(seat[a]) \ Unanswered(seat[a])
    BY <1>6 DEF Answered, Unanswered
  <2>3. Cardinality(Answered(a)) >= 2
    <3>1. CASE Unanswered(seat[a]) = {}
      <4>1. Answered(a) = Seats
        BY <1>6, <2>2, <3>1
      <4> QED
        BY <4>1, AuxConstants
    <3>2. CASE answered(seat[a]) >= 2
      BY <2>2, <3>2 DEF answered
    <3> QED
      BY <1>3, <3>1, <3>2 DEF done
  <2>4. \A s \in Seats : Settled(a, s)
    BY <1>3, <1>6 DEF done, Unanswered, Settled
  <2>5. Whole(a)'
    BY <1>4, <2>1, <2>3, <2>4 DEF Whole, Answered, Settled, isOpen
  <2> QED
    BY <1>2, <2>5
<1> QED
  BY <1>5, <1>6

\* Only who has made its periods approves an application.
LEMMA ApprovedBy ==
    ASSUME TypeInv, ReadSoundly, [Next]_vars, NEW a \in App, app'[a].state = "approved", app'[a] # app[a]
    PROVE \E w \in Workers : Decides(w, a)
<1>0. TypeOK
  BY DEF TypeInv
<1>1. CASE \E r \in Requests : InsertApp(r)
  <2>1. PICK r \in Requests : InsertApp(r)
    BY <1>1
  <2>2. PICK b \in App : b = NextId
    BY <2>1, NextIdIsFree DEF InsertApp
  <2>3. job[r] \in Job /\ job[r].at = "insert" /\ Sound(job[r])
    BY <1>0, <2>1, WorkerKinds DEF InsertApp, TypeOK, ReadSoundly
  <2>4. job[r].e \in Application /\ job[r].e.state = "pending"
    BY <2>3, JobFields DEF Sound, Asks
  <2> DEFINE e == [job[r].e EXCEPT !.at = now]
  <2>5. e.state = "pending"
    BY <2>4 DEF Application
  <2>6. app' = [app EXCEPT ![b] = e]
    BY <2>1, <2>2 DEF InsertApp
  <2> HIDE DEF e
  <2> QED
    BY <1>0, <2>5, <2>6 DEF TypeOK
<1>2. CASE \E w \in Workers : DoesWork(w)
  <2>1. PICK w \in Workers : DoesWork(w)
    BY <1>2
  <2>2. CASE \E b \in App : app' = [app EXCEPT ![b] = Erased]
    <3>1. PICK b \in App : app' = [app EXCEPT ![b] = Erased]
      BY <2>2
    <3>2. app'[b].state = "gone" /\ \A c \in App \ {b} : app'[c] = app[c]
      BY <1>0, <3>1, ErasedIs DEF TypeOK
    <3> QED
      BY <3>2
  <2>3. CASE \E b \in App, e \in Application :
               /\ Rewrite(w) \/ Approve(w)
               /\ job[w].a = b /\ app' = [app EXCEPT ![b] = e]
               /\ e.state = (IF Approve(w) THEN "approved" ELSE "pending")
    <3>1. PICK b \in App, e \in Application :
               /\ Rewrite(w) \/ Approve(w)
               /\ job[w].a = b /\ app' = [app EXCEPT ![b] = e]
               /\ e.state = (IF Approve(w) THEN "approved" ELSE "pending")
      BY <2>3
    <3>2. app'[b] = e /\ \A c \in App \ {b} : app'[c] = app[c]
      BY <1>0, <3>1 DEF TypeOK
    <3>3. a = b /\ Approve(w)
      BY <3>1, <3>2
    <3>4. job[w].at = "runs"
      BY <3>3 DEF Approve
    <3> QED
      BY <3>1, <3>3, <3>4 DEF Decides
  <2> QED
    BY <2>1, <2>2, <2>3, AppsWritten
<1>3. CASE \E r \in Requests : Begins(r)
  <2>1. PICK r \in Requests, kind \in Kinds : Begin(r, kind)
    BY <1>0, <1>3, BegunIs
  <2> QED
    BY <2>1 DEF Begin, tables
<1>4. CASE BeginNight \/ NightTakes \/ NightOpens \/ NightReminds
  BY <1>4 DEF BeginNight, NightTakes, NightOpens, NightReminds, tables
<1>5. CASE (\E w \in Workers : Lose(w)) \/ HandOver \/ ElderLeaves \/ CloseMonth \/ Tick \/ UNCHANGED vars
  BY <1>5 DEF Lose, HandOver, ElderLeaves, CloseMonth, Tick, vars, tables
<1> QED
  BY <1>1, <1>2, <1>3, <1>4, <1>5, StepIs, WorkerKinds DEF DoesWork

LEMMA DecidedStep ==
    ASSUME TypeInv, ReadSoundly, KindInv, EnoughInv, [Next]_vars
    PROVE Decided'
<1> SUFFICES ASSUME NEW a \in App, app'[a].state = "approved" \/ \E w \in Workers : Decides(w, a)'
             PROVE Excused(a)' \/ Whole(a)'
  BY DEF Decided
<1>0. OneByOne /\ Decided
  BY DEF EnoughInv
<1>1. ASSUME Excused(a) \/ Whole(a)
      PROVE Excused(a)' \/ Whole(a)'
  BY <1>0, <1>1, StaysWhole
<1>2. CASE app'[a].state = "approved"
  BY <1>0, <1>1, <1>2, ApprovedBy DEF Decided
<1>3. CASE \E w \in Workers : Decides(w, a)'
  <2>1. PICK v \in Workers : job'[v].at \in {"runs", "make"} /\ job'[v].a = a
    BY <1>3 DEF Decides
  <2>2. CASE job'[v] = job[v]
    BY <1>0, <1>1, <2>1, <2>2 DEF Decided, Decides
  <2>3. CASE job'[v] # job[v]
    <3>1. ComesTo(v, job'[v])
      BY <2>3, JobsStep
    <3>2. CASE Files(v) /\ job'[v].at \in {"seats", "runs"}
      BY <1>0, <2>1, <3>2, PaperIsWhole
    <3>3. CASE SettleIfDone(v) /\ job'[v].a = job[v].a
      BY <2>1, <3>3, SettledIsWhole
    <3>4. CASE job[v].at \in {"runs", "make"} /\ job'[v].a = job[v].a
      BY <1>0, <1>1, <2>1, <3>4 DEF Decided, Decides
    <3> QED
      BY <2>1, <2>3, <3>1, <3>2, <3>3, <3>4 DEF ComesTo
  <2> QED
    BY <2>2, <2>3
<1> QED
  BY <1>2, <1>3

LEMMA PlacesReadInit == Init => PlacesRead
<1> SUFFICES ASSUME Init
             PROVE PlacesRead
  OBVIOUS
<1>1. \A w \in Workers : job[w].at = "idle"
  BY IdleJob DEF Init
<1>2. round.rows = {}
  BY NoRoundIsARound DEF Init
<1> QED
  BY <1>1, <1>2 DEF PlacesRead

LEMMA EnoughInit == Init => EnoughInv
<1> SUFFICES ASSUME Init
             PROVE EnoughInv
  OBVIOUS
<1>1. \A w \in Workers : job[w].at = "idle"
  BY IdleJob DEF Init
<1>2. \A a \in App : app[a].state # "approved"
  <2>1. PICK S \in Setups : app = [a \in App |-> IF a = 1 THEN S.app ELSE NoApp]
    BY DEF Init
  <2>2. S.app.state \in {"none", "pending"}
    BY AuxSetups
  <2> QED
    BY <2>1, <2>2, NoRows
<1> QED
  BY <1>1, <1>2 DEF EnoughInv, OneByOne, Decided, Decides

LEMMA EnoughHolds == Spec => [](KindInv /\ AnswersInv /\ EnoughInv)
<1>1. TypeInv /\ ReadSoundly /\ (KindInv /\ AnswersInv /\ EnoughInv) /\ [Next]_vars
        => (KindInv /\ AnswersInv /\ EnoughInv)'
  <2> SUFFICES ASSUME TypeInv, ReadSoundly, KindInv, AnswersInv, EnoughInv, [Next]_vars
               PROVE KindInv' /\ AnswersInv' /\ EnoughInv'
    OBVIOUS
  <2>1. KindInv' /\ AnswersInv'
    BY KindsStep, PlacesReadStep, AnswersStep DEF KindInv
  <2>2. OneByOne' /\ Decided'
    BY OneByOneStep, DecidedStep DEF EnoughInv
  <2> QED
    BY <2>1, <2>2 DEF EnoughInv
<1>2. Init => KindInv /\ AnswersInv /\ EnoughInv
  BY KindsInit, PlacesReadInit, AnswersInit, EnoughInit DEF KindInv
<1> QED
  BY <1>1, <1>2, ReadsHold, PTL DEF Spec

\* An application is approved on three answers, or on two and a place that is open, no brother
\* answering in two places nor in his own case: for any committee, any number of requests and
\* failures, but for the applications that were erased, still being filed, or robbed of an answer
\* by an older row while they were settled.
THEOREM ApprovedByEnough == Spec => []ApprovedByTheCommittee
<1>1. AnswersInv /\ EnoughInv => ApprovedByTheCommittee
  <2> SUFFICES ASSUME AnswersInv, EnoughInv, NEW a \in App
               PROVE /\ ~app[a].paper => ByOthers(a)
                     /\ (app[a].state = "approved" /\ a \notin revived \cup short \cup wiped) =>
                          /\ Cardinality(Answered(a)) >= 2
                          /\ \A s \in Seats \ Answered(a) : isOpen(seat[a], s, holds)
    BY DEF ApprovedByTheCommittee, ByOthers
  <2>1. ~app[a].paper => ByOthers(a)
    BY DEF AnswersInv
  <2>2. ASSUME app[a].state = "approved", a \notin revived \cup short \cup wiped
        PROVE Whole(a)
    BY <2>2 DEF EnoughInv, Decided, Excused
  <2> QED
    BY <2>1, <2>2 DEF Whole, Settled, Answered
<1> QED
  BY <1>1, EnoughHolds, PTL
=============================================================================
