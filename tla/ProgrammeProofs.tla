-------------------------- MODULE ProgrammeProofs --------------------------
(* What the programme of a meeting promises its people, for any number of   *)
(* parts, brothers, requests in flight, evenings and failures.              *)
EXTENDS Programme, TLAPS

----------------------------------------------------------------------------
(* Types.                                                                   *)

\* A job at a step has what that step works with.
LEMMA JobFields ==
    ASSUME NEW j \in Job
    PROVE /\ j.at = "save" => j.p \in Parts /\ j.row \in Row /\ j.new \in Row
          /\ j.at = "rule" => j.prev \in Everybody /\ j.next \in Everybody
          /\ j.at = "ruleSave" => j.row \in Row /\ j.next \in Everybody
          /\ j.at \in {"mark", "delete", "restore", "giveBack"} => j.p \in Parts
          /\ j.at = "giveBack" => j = [at |-> "giveBack", p |-> j.p]
          /\ j.at = "mark" => j = [at |-> "mark", p |-> j.p]
          /\ j.at \in {"drafts", "clear", "tell", "markTold", "stale"} =>
                j.news \in [Parts -> Everybody]
          /\ j.at \in {"drafts", "clear", "tell", "markTold", "stale", "untell"} =>
                j.rows \in SUBSET Parts /\ j.publish \in BOOLEAN
          /\ j.at \in {"drafts", "clear"} =>
                /\ j.aloud \in BOOLEAN
                /\ j = [at |-> j.at, news |-> j.news, rows |-> j.rows, publish |-> j.publish,
                        aloud |-> j.aloud]
          /\ j.at \in {"tell", "markTold", "stale"} =>
                /\ j.todo \in SUBSET Brothers /\ j.ok \in BOOLEAN
                /\ j = [at |-> j.at, news |-> j.news, rows |-> j.rows, publish |-> j.publish,
                        todo |-> j.todo, ok |-> j.ok]
          /\ j.at = "untell" =>
                /\ j.gone \in SUBSET Pairs /\ j.ok \in BOOLEAN
                /\ j = [at |-> "untell", rows |-> j.rows, publish |-> j.publish,
                        gone |-> j.gone, ok |-> j.ok]
BY DEF Job

\* A worker goes on to its next step, and no other does.
LEMMA GoesOn ==
    ASSUME TypeOK, NEW w \in Workers, NEW next, Goes(w, next)
    PROVE /\ job'[w] = next
          /\ \A v \in Workers \ {w} : job'[v] = job[v]
          /\ next \in Job => job' \in [Workers -> Job]
BY DEF Goes, TypeOK

LEMMA IdleJob == Idle \in Job
BY DEF Idle, Job

\* Saving rows and flags keeps them rows.
LEMMA SavedType ==
    ASSUME TypeOK, NEW p \in Parts, NEW row \in Row
    PROVE Saved(p, row) \in Row /\ [part EXCEPT ![p] = Saved(p, row)] \in [Parts -> Row]
<1>1. Saved(p, row) \in Row
  BY DEF Saved, TypeOK, Row, Moments
<1> QED
  BY <1>1 DEF TypeOK

LEMMA FlaggedRow ==
    ASSUME NEW row \in Row, NEW t \in 0..Last
    PROVE /\ [row EXCEPT !.flag = TRUE, !.edited = t] \in Row
          /\ [row EXCEPT !.flag = FALSE, !.edited = t] \in Row
BY DEF Row

LEMMA FlagsType ==
    ASSUME TypeOK, NEW S
    PROVE WithFlags(S, TRUE) \in [Parts -> Row] /\ WithFlags(S, FALSE) \in [Parts -> Row]
<1>1. now \in 0..Last /\ \A p \in Parts : part[p] \in Row
  BY DEF TypeOK, Moments
<1>2. ASSUME NEW p \in Parts
      PROVE /\ part[p] \in Row
            /\ [part[p] EXCEPT !.flag = TRUE, !.edited = now] \in Row
            /\ [part[p] EXCEPT !.flag = FALSE, !.edited = now] \in Row
  BY <1>1, FlaggedRow
<1> QED
  BY <1>2, Zenon DEF WithFlags

LEMMA SaveHistoryType ==
    ASSUME TypeOK, NEW p \in Parts, NEW row, NEW read, SaveHistory(p, row, read)
    PROVE /\ unsaid' \subseteq Parts /\ knows' = knows /\ misled' = misled
          /\ silenced' = silenced
BY DEF SaveHistory, TypeOK

\* A request that begins is a well-formed job, and nothing else changes.
LEMMA BeginType ==
    ASSUME TypeOK, NEW r \in Requests, NEW next \in Job, Begin(r), Goes(r, next)
    PROVE TypeOK'
<1>1. job' \in [Workers -> Job]
  BY GoesOn DEF Workers
<1>2. used' \in 0..MaxUsed
  BY ProgrammeConstants DEF Begin, TypeOK
<1> QED
  BY <1>1, <1>2 DEF Begin, TypeOK, tables, evening, history

\* What notifyChanges sets out with.
LEMMA NoticeJob ==
    ASSUME TypeOK
    PROVE [at |-> "clear", publish |-> FALSE, aloud |-> TRUE, rows |-> Flagged,
           news |-> NewsOf(Flagged)] \in Job
<1>1. \A p \in Parts : part[p].holder \in Everybody
  BY DEF TypeOK, Row
<1>2. Flagged \in SUBSET Parts /\ NewsOf(Flagged) \in [Parts -> Everybody]
  BY <1>1 DEF Flagged, NewsOf, Everybody
<1> QED
  BY <1>2 DEF Job

LEMMA NewRow ==
    ASSUME TypeOK, NEW p \in Parts, NEW wish \in Wishes
    PROVE [part[p] EXCEPT !.holder = NewHolder(p, wish), !.status = NewStatus(p, wish),
                          !.flag = @ \/ Changed(p, wish)] \in Row
<1>1. part[p] \in Row
  BY DEF TypeOK
<1>2. NewHolder(p, wish) \in Everybody /\ NewStatus(p, wish) \in Statuses
  BY <1>1 DEF NewHolder, NewStatus, Row, Statuses
<1>3. (part[p].flag \/ Changed(p, wish)) \in BOOLEAN
  OBVIOUS
<1> QED
  BY <1>1, <1>2, <1>3 DEF Row

LEMMA BeginsType == ASSUME TypeOK, NEW r \in Requests, BeginsSome(r) PROVE TypeOK'
<1>1. CASE BeginUpdate(r)
  <2>1. PICK p \in Parts, wish \in Wishes :
          Goes(r, [at |-> "save", p |-> p, row |-> part[p],
                   new |-> [part[p] EXCEPT !.holder = NewHolder(p, wish),
                                           !.status = NewStatus(p, wish),
                                           !.flag = @ \/ Changed(p, wish)]])
    BY <1>1 DEF BeginUpdate
  <2> DEFINE new == [part[p] EXCEPT !.holder = NewHolder(p, wish), !.status = NewStatus(p, wish),
                                    !.flag = @ \/ Changed(p, wish)]
  <2>2. new \in Row /\ part[p] \in Row
    BY NewRow DEF TypeOK
  <2> HIDE DEF new
  <2>3. [at |-> "save", p |-> p, row |-> part[p], new |-> new] \in Job
    BY <2>2 DEF Job
  <2>4. Goes(r, [at |-> "save", p |-> p, row |-> part[p], new |-> new])
    BY <2>1 DEF new
  <2> QED
    BY <1>1, <2>3, <2>4, BeginType DEF BeginUpdate
<1>2. CASE BeginRemove(r)
  <2>1. PICK p \in Parts : \E at \in {"mark", "delete"} : Goes(r, [at |-> at, p |-> p])
    BY <1>2 DEF BeginRemove
  <2>2. \A at \in {"mark", "delete"} : [at |-> at, p |-> p] \in Job
    BY DEF Job
  <2> QED
    BY <1>2, <2>1, <2>2, BeginType DEF BeginRemove
<1>3. CASE BeginRestore(r)
  <2>1. PICK p \in Parts : Goes(r, [at |-> "restore", p |-> p])
    BY <1>3 DEF BeginRestore
  <2>2. [at |-> "restore", p |-> p] \in Job
    BY DEF Job
  <2> QED
    BY <1>3, <2>1, <2>2, BeginType DEF BeginRestore
<1>4. CASE BeginPublish(r)
  <2>1. PICK aloud \in BOOLEAN, rows \in SUBSET Parts, news \in [Parts -> Everybody] :
          Goes(r, [at |-> "drafts", publish |-> TRUE, aloud |-> aloud, rows |-> rows,
                   news |-> news])
    <3>1. PICK notify \in BOOLEAN : 
            LET aloud == notify /\ ~Held
                rows == {p \in Parts : ~part[p].removed /\ (part[p].status = "draft" \/ part[p].flag)}
            IN Goes(r, [at |-> "drafts", publish |-> TRUE, aloud |-> aloud, rows |-> rows,
                        news |-> [p \in Parts |->
                                    IF aloud /\ p \in rows /\ part[p].status # "cancelled"
                                    THEN part[p].holder ELSE Nobody]])
      BY <1>4 DEF BeginPublish
    <3> DEFINE aloud == notify /\ ~Held
               rows == {p \in Parts : ~part[p].removed /\ (part[p].status = "draft" \/ part[p].flag)}
               news == [p \in Parts |-> IF aloud /\ p \in rows /\ part[p].status # "cancelled"
                                        THEN part[p].holder ELSE Nobody]
    <3>2. \A p \in Parts : part[p].holder \in Everybody
      BY DEF TypeOK, Row
    <3>3. aloud \in BOOLEAN /\ rows \in SUBSET Parts /\ news \in [Parts -> Everybody]
      BY <3>2 DEF Everybody
    <3> QED
      BY <3>1, <3>3
  <2>2. [at |-> "drafts", publish |-> TRUE, aloud |-> aloud, rows |-> rows, news |-> news] \in Job
    BY DEF Job
  <2> QED
    BY <1>4, <2>1, <2>2, BeginType DEF BeginPublish
<1>5. CASE SendNow(r)
  <2>1. Goes(r, [at |-> "clear", publish |-> FALSE, aloud |-> TRUE, rows |-> Flagged,
                 news |-> NewsOf(Flagged)])
    BY <1>5 DEF SendNow, NotifyChanges
  <2>2. [at |-> "clear", publish |-> FALSE, aloud |-> TRUE, rows |-> Flagged,
         news |-> NewsOf(Flagged)] \in Job
    BY NoticeJob
  <2> QED
    BY <1>5, <2>1, <2>2, BeginType DEF SendNow
<1>6. CASE later(r)
  <2>1. hold' \in 0..Last /\ used' \in 0..MaxUsed
    BY <1>6, ProgrammeConstants DEF later, TypeOK
  <2> QED
    BY <1>6, <2>1 DEF later, TypeOK, evening, history
<1> QED
  BY <1>1, <1>2, <1>3, <1>4, <1>5, <1>6 DEF BeginsSome

LEMMA WorksType == ASSUME TypeOK, NEW r \in Requests, Works(r) PROVE TypeOK'
<1>1. r \in Workers /\ job[r] \in Job /\ Idle \in Job
  BY IdleJob DEF Workers, TypeOK
<1>2. now \in 0..Last
  BY DEF TypeOK, Moments
<1>3. CASE SaveUpdate(r)
  <2>1. job[r].p \in Parts /\ job[r].row \in Row /\ job[r].new \in Row
    BY <1>1, <1>3, JobFields DEF SaveUpdate
  <2>2. AfterSave(job[r]) \in Job
    BY <1>1, <2>1 DEF AfterSave, Job, Row
  <2>3. part' \in [Parts -> Row]
    BY <1>3, <2>1, SavedType DEF SaveUpdate
  <2>4. job' \in [Workers -> Job]
    BY <1>1, <1>3, <2>2, GoesOn DEF SaveUpdate
  <2>5. unsaid' \subseteq Parts /\ knows' = knows /\ misled' = misled /\ silenced' = silenced
    BY <1>3, <2>1, SaveHistoryType DEF SaveUpdate
  <2> QED
    BY <1>3, <2>3, <2>4, <2>5 DEF SaveUpdate, TypeOK, evening
<1>4. CASE ReadRule(r)
  <2>1. job[r].prev \in Everybody /\ job[r].next \in Everybody
    BY <1>1, <1>4, JobFields DEF ReadRule
  <2>2. [at |-> "ruleSave", row |-> part[Prayer], next |-> job[r].next] \in Job
    BY <2>1, ProgrammeConstants DEF Job, TypeOK
  <2>3. job' \in [Workers -> Job]
    BY <1>1, <1>4, <2>2, GoesOn DEF ReadRule
  <2> QED
    BY <1>4, <2>3 DEF ReadRule, TypeOK, tables, evening, history
<1>5. CASE SaveRule(r)
  <2>1. job[r].row \in Row /\ job[r].next \in Everybody
    BY <1>1, <1>5, JobFields DEF SaveRule
  <2>2. Mirrored(job[r]) \in Row
    BY <2>1 DEF Mirrored, Row
  <2>3. part' \in [Parts -> Row]
    BY <1>5, <2>2, SavedType, ProgrammeConstants DEF SaveRule
  <2>4. job' \in [Workers -> Job]
    BY <1>1, <1>5, GoesOn DEF SaveRule
  <2>5. unsaid' \subseteq Parts /\ knows' = knows /\ misled' = misled /\ silenced' = silenced
    BY <1>5, SaveHistoryType, ProgrammeConstants DEF SaveRule
  <2> QED
    BY <1>5, <2>3, <2>4, <2>5 DEF SaveRule, TypeOK, evening
<1>6. CASE MarkRemoved(r)
  <2>1. job[r].p \in Parts /\ job[r] = [at |-> "mark", p |-> job[r].p]
    BY <1>1, <1>6, JobFields DEF MarkRemoved
  <2>2. [job[r] EXCEPT !.at = "delete"] = [at |-> "delete", p |-> job[r].p]
    BY <2>1
  <2>3. [at |-> "delete", p |-> job[r].p] \in Job
    BY <2>1 DEF Job
  <2>4. job' \in [Workers -> Job]
    BY <1>1, <1>6, <2>2, <2>3, GoesOn DEF MarkRemoved
  <2>5. part' \in [Parts -> Row]
    BY <1>6, FlagsType DEF MarkRemoved, FlagOf
  <2> QED
    BY <1>6, <2>4, <2>5 DEF MarkRemoved, TypeOK, evening
<1>7. CASE DeletePart(r)
  <2>1. job[r].p \in Parts
    BY <1>1, <1>7, JobFields DEF DeletePart
  <2>2. part' \in [Parts -> Row]
    BY <1>2, <1>7, <2>1 DEF DeletePart, TypeOK, Row
  <2>3. job' \in [Workers -> Job]
    BY <1>1, <1>7, GoesOn DEF DeletePart
  <2> QED
    BY <1>7, <2>2, <2>3 DEF DeletePart, TypeOK, evening, history
<1>8. CASE RestorePart(r)
  <2>1. job[r].p \in Parts
    BY <1>1, <1>8, JobFields DEF RestorePart
  <2>2. part' \in [Parts -> Row]
    BY <1>2, <1>8, <2>1 DEF RestorePart, TypeOK, Row
  <2>3. [at |-> "giveBack", p |-> job[r].p] \in Job
    BY <2>1 DEF Job
  <2>4. job' \in [Workers -> Job]
    BY <1>1, <1>8, <2>3, GoesOn DEF RestorePart
  <2> QED
    BY <1>8, <2>2, <2>4 DEF RestorePart, TypeOK, evening, history
<1>9. CASE FlagRestored(r)
  <2>1. part' \in [Parts -> Row]
    BY <1>9, FlagsType DEF FlagRestored, FlagOf
  <2>2. job' \in [Workers -> Job]
    BY <1>1, <1>9, GoesOn DEF FlagRestored
  <2> QED
    BY <1>9, <2>1, <2>2 DEF FlagRestored, TypeOK, evening
<1>10. CASE PublishDrafts(r)
  <2>1. [job[r] EXCEPT !.at = "clear"] \in Job
    <3>1. job[r] = [at |-> "drafts", news |-> job[r].news, rows |-> job[r].rows,
                    publish |-> job[r].publish, aloud |-> job[r].aloud]
      BY <1>1, <1>10, JobFields DEF PublishDrafts
    <3>2. [job[r] EXCEPT !.at = "clear"] =
            [at |-> "clear", news |-> job[r].news, rows |-> job[r].rows,
             publish |-> job[r].publish, aloud |-> job[r].aloud]
      BY <3>1
    <3>3. /\ job[r].news \in [Parts -> Everybody] /\ job[r].rows \in SUBSET Parts
          /\ job[r].publish \in BOOLEAN /\ job[r].aloud \in BOOLEAN
      BY <1>1, <1>10, JobFields DEF PublishDrafts
    <3> QED
      BY <3>2, <3>3 DEF Job
  <2>2. job' \in [Workers -> Job]
    BY <1>1, <1>10, <2>1, GoesOn DEF PublishDrafts
  <2>3. part' \in [Parts -> Row]
    BY <1>2, <1>10, ZenonT(40) DEF PublishDrafts, TypeOK, Row, Statuses
  <2>4. unsaid' \subseteq Parts
    BY <1>10 DEF PublishDrafts, TypeOK, Missed, Drafts
  <2> QED
    BY <1>10, <2>2, <2>3, <2>4 DEF PublishDrafts, TypeOK, evening
<1> QED
  BY <1>3, <1>4, <1>5, <1>6, <1>7, <1>8, <1>9, <1>10 DEF Works

LEMMA AnnounceType ==
    ASSUME NEW j \in Job, j.at \in {"drafts", "clear"}
    PROVE Announce(j) \in Job
<1>1. j.news \in [Parts -> Everybody] /\ j.rows \in SUBSET Parts /\ j.publish \in BOOLEAN
  BY JobFields
<1> DEFINE who == {b \in Brothers : Told(j.news, b) # {}}
<1>2. who \in SUBSET Brothers
  OBVIOUS
<1> HIDE DEF who
<1>3. \A at \in {"tell", "stale"} :
        [at |-> at, news |-> j.news, rows |-> j.rows, publish |-> j.publish,
         todo |-> who, ok |-> TRUE] \in Job
  BY <1>1, <1>2 DEF Job
<1> QED
  BY <1>3 DEF Announce, who

\* An announcement under way stays one from step to step.
Telling == [at: {"tell", "markTold", "stale"}, news: [Parts -> Everybody], rows: SUBSET Parts,
            publish: BOOLEAN, todo: SUBSET Brothers, ok: BOOLEAN]

LEMMA TellingJob ==
    ASSUME NEW j \in Job, j.at \in {"tell", "markTold"}, NEW b
    PROVE /\ [j EXCEPT !.at = "stale"] \in Job
          /\ [j EXCEPT !.at = "stale", !.ok = FALSE] \in Job
          /\ [j EXCEPT !.todo = @ \ {b}, !.at = IF j.todo = {b} THEN "markTold" ELSE "tell"] \in Job
<1>1. j \in Telling
  BY DEF Job, Telling
<1>2. Telling \subseteq Job
  BY DEF Job, Telling
<1>3. /\ [j EXCEPT !.at = "stale"] \in Telling
      /\ [j EXCEPT !.at = "stale", !.ok = FALSE] \in Telling
  BY <1>1 DEF Telling
<1>4. [j EXCEPT !.todo = @ \ {b}, !.at = IF j.todo = {b} THEN "markTold" ELSE "tell"] \in Telling
  BY <1>1 DEF Telling
<1> QED
  BY <1>2, <1>3, <1>4, Zenon

LEMMA MarkedPairs == ASSUME NEW news PROVE Marked(news) \subseteq Pairs
BY DEF Marked

LEMMA SaysType == ASSUME TypeOK, NEW w \in Workers, Says(w) PROVE TypeOK'
<1>1. job[w] \in Job /\ Idle \in Job
  BY IdleJob DEF TypeOK
<1>2. CASE ClearFlags(w)
  <2>1. (IF job[w].aloud THEN Announce(job[w]) ELSE Idle) \in Job
    BY <1>1, <1>2, AnnounceType DEF ClearFlags
  <2>2. job' \in [Workers -> Job]
    BY <1>2, <2>1, GoesOn DEF ClearFlags
  <2>3. part' \in [Parts -> Row]
    BY <1>2, FlagsType DEF ClearFlags
  <2>4. unsaid' \subseteq Parts
    BY <1>2 DEF ClearFlags, TypeOK, Missed, ToClear, Flagged
  <2> QED
    BY <1>2, <2>2, <2>3, <2>4 DEF ClearFlags, TypeOK, evening
<1>3. CASE MarkTold(w)
  <2>1. job' \in [Workers -> Job]
    BY <1>1, <1>3, TellingJob, GoesOn DEF MarkTold
  <2>2. marks' \subseteq Pairs
    BY <1>3, MarkedPairs DEF MarkTold, Upserted, TypeOK
  <2> QED
    BY <1>3, <2>1, <2>2 DEF MarkTold, TypeOK, evening, history
<1>4. CASE ReadStale(w)
  <2>1. /\ job[w].rows \in SUBSET Parts /\ job[w].publish \in BOOLEAN /\ job[w].ok \in BOOLEAN
        /\ StaleMarks \in SUBSET Pairs
    BY <1>1, <1>4, JobFields DEF ReadStale, StaleMarks, TypeOK
  <2>2. [at |-> "untell", rows |-> job[w].rows, publish |-> job[w].publish,
         gone |-> StaleMarks, ok |-> job[w].ok] \in Job
    BY <2>1 DEF Job
  <2>3. job' \in [Workers -> Job]
    BY <1>4, <2>2, GoesOn DEF ReadStale
  <2> QED
    BY <1>4, <2>3 DEF ReadStale, TypeOK, tables, evening, history
<1>5. CASE EndAnnounce(w)
  <2>1. job[w].rows \in SUBSET Parts
    BY <1>1, <1>5, JobFields DEF EndAnnounce
  <2>2. part' \in [Parts -> Row]
    BY <1>5, FlagsType DEF EndAnnounce
  <2>3. job' \in [Workers -> Job]
    BY <1>1, <1>5, GoesOn DEF EndAnnounce
  <2>4. hold' \in 0..Last /\ unsaid' \subseteq Parts
    BY <1>5, ProgrammeConstants DEF EndAnnounce, TypeOK
  <2> QED
    BY <1>5, <2>2, <2>3, <2>4 DEF EndAnnounce, TypeOK, evening
<1>6. ASSUME NEW b \in Brothers, Tell(w, b) PROVE TypeOK'
  <2>1. job' \in [Workers -> Job]
    BY <1>1, <1>6, TellingJob, GoesOn DEF Tell
  <2>2. Told(job[w].news, b) \subseteq Parts
    BY DEF Told
  <2>3. knows' \in [Brothers -> SUBSET Parts] /\ misled' \subseteq Pairs
    BY <1>6, <2>2 DEF Tell, TypeOK
  <2> QED
    BY <1>6, <2>1, <2>3 DEF Tell, TypeOK, tables, evening
<1>7. ASSUME NEW b \in Brothers, TellRemoved(w, b) PROVE TypeOK'
  <2>1. job' \in [Workers -> Job]
    <3> DEFINE mine == {m \in job[w].gone : m[1] = b}
    <3>1. /\ job[w] = [at |-> "untell", rows |-> job[w].rows, publish |-> job[w].publish,
                       gone |-> job[w].gone, ok |-> job[w].ok]
          /\ job[w].rows \in SUBSET Parts /\ job[w].publish \in BOOLEAN
          /\ job[w].gone \in SUBSET Pairs /\ job[w].ok \in BOOLEAN
      BY <1>1, <1>7, JobFields DEF TellRemoved
    <3>2. [job[w] EXCEPT !.gone = @ \ mine] =
            [at |-> "untell", rows |-> job[w].rows, publish |-> job[w].publish,
             gone |-> job[w].gone \ mine, ok |-> job[w].ok]
      BY <3>1
    <3>3. [job[w] EXCEPT !.gone = @ \ mine] \in Job
      BY <3>1, <3>2 DEF Job
    <3> QED
      BY <1>7, <3>3, GoesOn DEF TellRemoved
  <2>2. job[w].gone \subseteq Pairs
    BY <1>1, <1>7, JobFields DEF TellRemoved
  <2>3. knows' \in [Brothers -> SUBSET Parts] /\ misled' \subseteq Pairs /\ marks' \subseteq Pairs
    BY <1>7, <2>2 DEF TellRemoved, TypeOK
  <2> QED
    BY <1>7, <2>1, <2>3 DEF TellRemoved, TypeOK, evening
<1> QED
  BY <1>2, <1>3, <1>4, <1>5, <1>6, <1>7 DEF Says

LEMMA PartsOfPairs == ASSUME NEW S, S \subseteq Pairs PROVE PartsOf(S) \subseteq Parts
BY DEF PartsOf, Pairs

LEMMA FailsType == ASSUME TypeOK, NEW w \in Workers, Fails(w) PROVE TypeOK'
<1>1. job[w] \in Job /\ Idle \in Job
  BY IdleJob DEF TypeOK
<1>2. Unmarked(job[w]) \subseteq Pairs /\ PartsOf(Pending(job[w])) \subseteq Parts
  BY MarkedPairs, PartsOfPairs DEF Unmarked, Pending
<1>3. CASE AnnounceFails(w)
  <2>1. job' \in [Workers -> Job]
    BY <1>1, <1>3, TellingJob, GoesOn DEF AnnounceFails
  <2>2. used' \in 0..MaxUsed /\ misled' \subseteq Pairs /\ unsaid' \subseteq Parts
    BY <1>2, <1>3, ProgrammeConstants DEF AnnounceFails, TypeOK
  <2> QED
    BY <1>3, <2>1, <2>2 DEF AnnounceFails, TypeOK, tables, evening
<1>4. CASE Lose(w)
  <2>1. job' \in [Workers -> Job]
    BY <1>1, <1>4, GoesOn DEF Lose
  <2>2. (IF job[w].at = "giveBack" THEN {job[w].p} ELSE {}) \subseteq Parts
    BY <1>1, JobFields
  <2>3. (IF job[w].at \in {"stale", "untell"} THEN job[w].rows ELSE {}) \subseteq Parts
    BY <1>1, JobFields
  <2>4. used' \in 0..MaxUsed /\ misled' \subseteq Pairs /\ unsaid' \subseteq Parts
    BY <1>2, <1>4, <2>2, <2>3, ProgrammeConstants DEF Lose, TypeOK
  <2> QED
    BY <1>4, <2>1, <2>4 DEF Lose, TypeOK, tables, evening
<1> QED
  BY <1>3, <1>4 DEF Fails

LEMMA NoDigestType == NoDigest \in Digest
BY DEF NoDigest, Digest

\* The two jobs and the clock.
LEMMA RoundType ==
    ASSUME TypeOK, RunDue \/ PutAway \/ EveningJob \/ DigestFails \/ Tick
    PROVE TypeOK'
<1>1. CASE RunDue
  <2>1. job' \in [Workers -> Job]
    BY <1>1, NoticeJob, GoesOn DEF RunDue, NotifyChanges, Workers
  <2> QED
    BY <1>1, <2>1 DEF RunDue, TypeOK, tables, evening, history
<1>2. CASE PutAway
  <2>1. part' \in [Parts -> Row]
    BY <1>2, FlagsType DEF PutAway
  <2> QED
    BY <1>2, <2>1 DEF PutAway, TypeOK, evening, history
<1>3. CASE SendDigests
  <2>1. marks' \subseteq Pairs
    BY <1>3 DEF SendDigests, TypeOK
  <2>2. EveningOf[now] \in Nat
    BY ProgrammeConstants DEF TypeOK
  <2>3. digest' \in Digest
    BY <1>3, <2>1, <2>2 DEF SendDigests, Digest
  <2> QED
    BY <1>3, <2>1, <2>3 DEF SendDigests, TypeOK, history
<1>4. ASSUME NEW b \in Brothers, SayDigest(b) PROVE TypeOK'
  <2>1. /\ digest.day \in Nat /\ digest.held \subseteq Pairs /\ digest.told \subseteq Pairs
        /\ digest.todo \subseteq Brothers
    BY DEF TypeOK, Digest
  <2>2. Lines(b) \subseteq Pairs /\ Cancelled(b) \subseteq Pairs /\ Forget(b) \subseteq Pairs
    BY <2>1 DEF Lines, Cancelled, Forget
  <2>3. PartsOf(Lines(b)) \subseteq Parts
    BY <2>2, PartsOfPairs
  <2>4. said' \subseteq Nat \X Brothers
    BY <1>4, <2>1 DEF SayDigest, TypeOK
  <2>5. knows' \in [Brothers -> SUBSET Parts]
    BY <1>4, <2>3 DEF SayDigest, TypeOK
  <2>6. marks' \subseteq Pairs /\ misled' \subseteq Pairs /\ silenced' \subseteq Pairs
    BY <1>4, <2>2 DEF SayDigest, TypeOK, Upserted
  <2>7. digest' \in Digest /\ swept' \in Nat
    <3>1. CASE digest.todo = {b}
      BY <1>4, <2>1, <3>1, NoDigestType DEF SayDigest, TypeOK
    <3>2. CASE digest.todo # {b}
      <4>1. [digest EXCEPT !.todo = @ \ {b}] \in Digest
        BY <2>1 DEF TypeOK, Digest
      <4> QED
        BY <1>4, <3>2, <4>1 DEF SayDigest, TypeOK
    <3> QED
      BY <3>1, <3>2
  <2> QED
    BY <1>4, <2>4, <2>5, <2>6, <2>7 DEF SayDigest, TypeOK
<1>5. CASE DigestFails
  <2>1. used' \in 0..MaxUsed
    BY <1>5, ProgrammeConstants DEF DigestFails, TypeOK
  <2> QED
    BY <1>5, <2>1, NoDigestType DEF DigestFails, TypeOK, tables, history
<1>6. CASE Tick
  <2>1. now' \in Moments
    BY <1>6, ProgrammeConstants DEF Tick, TypeOK, Moments
  <2> QED
    BY <1>6, <2>1 DEF Tick, TypeOK, tables, evening, history
<1> QED
  BY <1>1, <1>2, <1>3, <1>4, <1>5, <1>6 DEF EveningJob

LEMMA InitType == Init => TypeOK
<1> SUFFICES ASSUME Init PROVE TypeOK
  OBVIOUS
<1> USE ProgrammeConstants
<1>1. PICK who \in Setups, status \in {"draft", "published"} :
        /\ part = [p \in Parts |-> [holder |-> who[p], status |-> status, removed |-> FALSE,
                                    flag |-> FALSE, edited |-> 0]]
        /\ marks = IF status = "draft" THEN {} ELSE {m \in Pairs : who[m[2]] = m[1]}
        /\ knows = [b \in Brothers |-> PartsOf({m \in marks : m[1] = b})]
  BY DEF Init
<1>2. \A p \in Parts : who[p] \in Everybody
  OBVIOUS
<1>3. part \in [Parts -> Row]
  BY <1>1, <1>2 DEF Row, Statuses
<1>4. marks \subseteq Pairs
  BY <1>1
<1>5. knows \in [Brothers -> SUBSET Parts]
  <2>1. \A b \in Brothers : PartsOf({m \in marks : m[1] = b}) \subseteq Parts
    BY <1>4, PartsOfPairs
  <2> QED
    BY <1>1, <2>1
<1>6. job \in [Workers -> Job]
  BY IdleJob DEF Init
<1>7. now \in Moments /\ hold \in 0..Last /\ used \in 0..MaxUsed
  BY DEF Init, Moments
<1> QED
  BY <1>3, <1>4, <1>5, <1>6, <1>7, NoDigestType DEF Init, TypeOK

LEMMA TypeStep == TypeOK /\ [Next]_vars => TypeOK'
<1> SUFFICES ASSUME TypeOK, [Next]_vars PROVE TypeOK'
  OBVIOUS
<1>1. CASE UNCHANGED vars
  BY <1>1 DEF vars, tables, evening, history, TypeOK
<1>2. CASE Next
  BY <1>2, BeginsType, WorksType, SaysType, FailsType, RoundType DEF Next
<1> QED
  BY <1>1, <1>2

\* Whatever requests, the minute job and the evening's digest do in between, every row, mark,
\* message and half-done job stays what it is (assignments.service.ts, programme-notice.service.ts,
\* assignment-reminders.service.ts).
THEOREM ProgrammeTypeCorrect == Spec => []TypeOK
BY InitType, TypeStep, PTL DEF Spec

----------------------------------------------------------------------------
(* What carries ToldUnlessFlagged, besides itself.                         *)

\* ToldUnlessFlagged.  What update read and what it is about to write: while the meeting is
\* ahead, a published row without a flag is written only over a published one without a flag
\* that had the same holder.
SavesFlagged(j) ==
    (j.at = "save" /\ ~Held /\ j.new.status = "published" /\ ~j.new.flag) =>
        /\ j.row.status = "published" /\ ~j.row.flag
        /\ j.row.holder = j.new.holder /\ j.row.removed = j.new.removed

\* A publication nobody is told of has no news.
QuietNews(j) ==
    (j.at \in {"drafts", "clear"} /\ ~j.aloud) => \A p \in Parts : j.news[p] = Nobody

\* The news are of the rows that would be flagged again.
NewsInRows(j) ==
    j.at \in {"drafts", "clear", "tell"} => \A p \in Parts : j.news[p] # Nobody => p \in j.rows

Sound(j) == SavesFlagged(j) /\ QuietNews(j) /\ NewsInRows(j)
JobsSound == \A w \in Workers : Sound(job[w])

ToldInv == JobsSound /\ ToldUnlessFlagged

----------------------------------------------------------------------------
(* ToldUnlessFlagged.                                                       *)

\* An idle worker, or one at any other step, has nothing to be sound about.
LEMMA SoundElsewhere ==
    ASSUME NEW j, j.at \notin {"save", "drafts", "clear", "tell"}
    PROVE Sound(j)
BY DEF Sound, SavesFlagged, QuietNews, NewsInRows

LEMMA SoundGoes ==
    ASSUME TypeOK, JobsSound, NEW w \in Workers, NEW next, Goes(w, next), Sound(next),
           Held => Held'
    PROVE JobsSound'
<1>1. ASSUME NEW v \in Workers PROVE Sound(job[v])'
  <2>1. CASE v = w
    BY <2>1, GoesOn DEF Sound, SavesFlagged, QuietNews, NewsInRows
  <2>2. CASE v # w
    <3>1. job'[v] = job[v] /\ Sound(job[v])
      BY <2>2, GoesOn DEF JobsSound
    <3> QED
      BY <3>1 DEF Sound, SavesFlagged, QuietNews, NewsInRows
  <2> QED
    BY <2>1, <2>2
<1> QED
  BY <1>1 DEF JobsSound

LEMMA SoundStays ==
    ASSUME TypeOK, JobsSound, job' = job, Held => Held'
    PROVE JobsSound'
<1>1. ASSUME NEW v \in Workers PROVE Sound(job[v])'
  <2>1. job'[v] = job[v] /\ Sound(job[v])
    BY DEF JobsSound
  <2> QED
    BY <2>1 DEF Sound, SavesFlagged, QuietNews, NewsInRows
<1> QED
  BY <1>1 DEF JobsSound

\* Only the clock moves the time, and only forwards.
LEMMA NowMoves ==
    ASSUME TypeOK, Next
    PROVE now' = now \/ Tick
<1>1. ASSUME NEW r \in Requests, BeginsSome(r) PROVE now' = now
  BY <1>1 DEF BeginsSome, BeginUpdate, BeginRemove, BeginRestore, BeginPublish, SendNow, later, Begin
<1>2. ASSUME NEW r \in Requests, Works(r) PROVE now' = now
  BY <1>2 DEF Works, SaveUpdate, ReadRule, SaveRule, MarkRemoved, DeletePart, RestorePart,
              FlagRestored, PublishDrafts
<1>3. ASSUME NEW w \in Workers, Says(w) \/ Fails(w) PROVE now' = now
  BY <1>3 DEF Says, Fails, ClearFlags, MarkTold, ReadStale, EndAnnounce, Tell, TellRemoved,
              AnnounceFails, Lose
<1>4. ASSUME RunDue \/ PutAway \/ EveningJob \/ DigestFails PROVE now' = now
  BY <1>4 DEF RunDue, PutAway, EveningJob, SendDigests, SayDigest, DigestFails
<1> QED
  BY <1>1, <1>2, <1>3, <1>4 DEF Next

LEMMA HeldStays ==
    ASSUME TypeOK, Next
    PROVE Held => Held'
BY NowMoves, ProgrammeConstants DEF Held, Tick, TypeOK, Moments

\* What notifyChanges has to say is of the flagged rows.
LEMMA SoundNotice ==
    ASSUME TypeOK, JobsSound, Held => Held', NEW w \in Workers, NotifyChanges(w)
    PROVE JobsSound'
<1> DEFINE next == [at |-> "clear", publish |-> FALSE, aloud |-> TRUE, rows |-> Flagged,
                    news |-> NewsOf(Flagged)]
<1>1. \A p \in Parts : NewsOf(Flagged)[p] # Nobody => p \in Flagged
  BY DEF NewsOf
<1>2. Sound(next)
  BY <1>1 DEF Sound, SavesFlagged, QuietNews, NewsInRows
<1> QED
  BY <1>2, SoundGoes DEF NotifyChanges

LEMMA SoundBegins ==
    ASSUME TypeOK, JobsSound, Next, NEW r \in Requests, BeginsSome(r)
    PROVE JobsSound'
<1> USE ProgrammeConstants
<1>1. r \in Workers /\ (Held => Held')
  BY HeldStays DEF Workers
<1>2. CASE BeginUpdate(r)
  <2>1. PICK p \in Parts, wish \in Wishes :
          Goes(r, [at |-> "save", p |-> p, row |-> part[p],
                   new |-> [part[p] EXCEPT !.holder = NewHolder(p, wish),
                                           !.status = NewStatus(p, wish),
                                           !.flag = @ \/ Changed(p, wish)]])
    BY <1>2 DEF BeginUpdate
  <2> DEFINE new == [part[p] EXCEPT !.holder = NewHolder(p, wish), !.status = NewStatus(p, wish),
                                    !.flag = @ \/ Changed(p, wish)]
             next == [at |-> "save", p |-> p, row |-> part[p], new |-> new]
  <2>2. part[p] \in Row
    BY DEF TypeOK
  <2>3. /\ new.holder = NewHolder(p, wish) /\ new.status = NewStatus(p, wish)
        /\ new.flag = (part[p].flag \/ Changed(p, wish)) /\ new.removed = part[p].removed
    BY <2>2 DEF Row
  <2> HIDE DEF new
  <2>4. SavesFlagged(next)
    <3> SUFFICES ASSUME ~Held, new.status = "published", ~new.flag
                 PROVE /\ part[p].status = "published" /\ ~part[p].flag
                       /\ part[p].holder = new.holder /\ part[p].removed = new.removed
      BY DEF SavesFlagged
    <3>1. ~part[p].flag /\ ~Changed(p, wish)
      BY <2>3
    <3>2. part[p].status = "published"
      BY <2>3, <3>1 DEF NewStatus, Changed, cancelTurn
    <3>3. NewHolder(p, wish) = part[p].holder
      BY <3>1, <3>2 DEF Changed
    <3> QED
      BY <2>3, <3>1, <3>2, <3>3
  <2>5. Sound(next)
    BY <2>4 DEF Sound, QuietNews, NewsInRows
  <2>6. Goes(r, next)
    BY <2>1 DEF new
  <2> HIDE DEF next
  <2> QED
    BY <1>1, <2>5, <2>6, SoundGoes
<1>3. CASE BeginRemove(r) \/ BeginRestore(r)
  <2>1. PICK p \in Parts, at \in {"mark", "delete", "restore"} : Goes(r, [at |-> at, p |-> p])
    BY <1>3 DEF BeginRemove, BeginRestore
  <2> QED
    BY <1>1, <2>1, SoundElsewhere, SoundGoes
<1>4. CASE BeginPublish(r)
  <2>1. PICK notify \in BOOLEAN : 
          LET aloud == notify /\ ~Held
              rows == {p \in Parts : ~part[p].removed /\ (part[p].status = "draft" \/ part[p].flag)}
          IN Goes(r, [at |-> "drafts", publish |-> TRUE, aloud |-> aloud, rows |-> rows,
                      news |-> [p \in Parts |->
                                  IF aloud /\ p \in rows /\ part[p].status # "cancelled"
                                  THEN part[p].holder ELSE Nobody]])
    BY <1>4 DEF BeginPublish
  <2> DEFINE aloud == notify /\ ~Held
             rows == {p \in Parts : ~part[p].removed /\ (part[p].status = "draft" \/ part[p].flag)}
             news == [p \in Parts |-> IF aloud /\ p \in rows /\ part[p].status # "cancelled"
                                      THEN part[p].holder ELSE Nobody]
             next == [at |-> "drafts", publish |-> TRUE, aloud |-> aloud, rows |-> rows,
                      news |-> news]
  <2>2. \A p \in Parts : (news[p] # Nobody => p \in rows) /\ (~aloud => news[p] = Nobody)
    OBVIOUS
  <2>3. Goes(r, next)
    BY <2>1
  <2> HIDE DEF aloud, rows, news
  <2>4. Sound(next)
    BY <2>2 DEF Sound, SavesFlagged, QuietNews, NewsInRows
  <2> HIDE DEF next
  <2> QED
    BY <1>1, <2>3, <2>4, SoundGoes
<1>5. CASE SendNow(r)
  BY <1>1, <1>5, SoundNotice DEF SendNow
<1>6. CASE later(r)
  BY <1>1, <1>6, SoundStays DEF later
<1> QED
  BY <1>2, <1>3, <1>4, <1>5, <1>6 DEF BeginsSome

LEMMA SoundWorks ==
    ASSUME TypeOK, JobsSound, Next, NEW r \in Requests, Works(r)
    PROVE JobsSound'
<1>1. r \in Workers /\ job[r] \in Job /\ (Held => Held')
  BY HeldStays DEF Workers, TypeOK
<1>2. Sound(Idle)
  BY SoundElsewhere DEF Idle
<1>3. CASE SaveUpdate(r)
  <2>1. Sound(AfterSave(job[r]))
    BY <1>2, SoundElsewhere DEF AfterSave
  <2> QED
    BY <1>1, <1>3, <2>1, SoundGoes DEF SaveUpdate
<1>4. CASE ReadRule(r)
  <2>1. Sound([at |-> "ruleSave", row |-> part[Prayer], next |-> job[r].next])
    BY <1>4 DEF Sound, SavesFlagged, QuietNews, NewsInRows
  <2> QED
    BY <1>1, <1>2, <1>4, <2>1, SoundGoes DEF ReadRule
<1>5. CASE SaveRule(r)
  BY <1>1, <1>2, <1>5, SoundGoes DEF SaveRule
<1>6. CASE MarkRemoved(r)
  <2>1. [job[r] EXCEPT !.at = "delete"].at = "delete"
    BY <1>1, <1>6 DEF Job, MarkRemoved
  <2> QED
    BY <1>1, <1>6, <2>1, SoundElsewhere, SoundGoes DEF MarkRemoved
<1>7. CASE DeletePart(r)
  BY <1>1, <1>2, <1>7, SoundGoes DEF DeletePart
<1>8. CASE RestorePart(r)
  <2>1. Sound([at |-> "giveBack", p |-> job[r].p])
    BY SoundElsewhere
  <2> QED
    BY <1>1, <1>2, <1>8, <2>1, SoundGoes DEF RestorePart
<1>9. CASE FlagRestored(r)
  BY <1>1, <1>2, <1>9, SoundGoes DEF FlagRestored
<1>10. CASE PublishDrafts(r)
  <2>1. /\ [job[r] EXCEPT !.at = "clear"].at = "clear"
        /\ [job[r] EXCEPT !.at = "clear"].news = job[r].news
        /\ [job[r] EXCEPT !.at = "clear"].rows = job[r].rows
        /\ [job[r] EXCEPT !.at = "clear"].aloud = job[r].aloud
    BY <1>1, <1>10 DEF Job, PublishDrafts
  <2>2. Sound(job[r]) /\ job[r].at = "drafts"
    BY <1>1, <1>10 DEF JobsSound, PublishDrafts
  <2>3. Sound([job[r] EXCEPT !.at = "clear"])
    BY <2>1, <2>2 DEF Sound, SavesFlagged, QuietNews, NewsInRows
  <2> QED
    BY <1>1, <1>10, <2>3, SoundGoes DEF PublishDrafts
<1> QED
  BY <1>3, <1>4, <1>5, <1>6, <1>7, <1>8, <1>9, <1>10 DEF Works

LEMMA SoundSays ==
    ASSUME TypeOK, JobsSound, Next, NEW w \in Workers, Says(w) \/ Fails(w)
    PROVE JobsSound'
<1>1. job[w] \in Job /\ (Held => Held') /\ Sound(job[w])
  BY HeldStays DEF TypeOK, JobsSound
<1>2. Sound(Idle)
  BY SoundElsewhere DEF Idle
<1>3. CASE ClearFlags(w)
  <2>1. Sound(Announce(job[w]))
    BY <1>1, <1>3 DEF ClearFlags, Announce, Sound, SavesFlagged, QuietNews, NewsInRows
  <2> QED
    BY <1>1, <1>2, <1>3, <2>1, SoundGoes DEF ClearFlags
<1>4. CASE MarkTold(w)
  <2>1. [job[w] EXCEPT !.at = "stale"].at = "stale"
    BY <1>1, <1>4 DEF Job, MarkTold
  <2> QED
    BY <1>1, <1>4, <2>1, SoundElsewhere, SoundGoes DEF MarkTold
<1>5. CASE ReadStale(w)
  BY <1>1, <1>5, SoundElsewhere, SoundGoes DEF ReadStale
<1>6. CASE EndAnnounce(w)
  BY <1>1, <1>2, <1>6, SoundGoes DEF EndAnnounce
<1>7. ASSUME NEW b \in Brothers, Tell(w, b) PROVE JobsSound'
  <2> DEFINE next == [job[w] EXCEPT !.todo = @ \ {b},
                                    !.at = IF job[w].todo = {b} THEN "markTold" ELSE "tell"]
  <2>1. job[w] \in Telling
    BY <1>1, <1>7 DEF Job, Telling, Tell
  <2>2. next.at \in {"tell", "markTold"} /\ next.news = job[w].news /\ next.rows = job[w].rows
    BY <2>1 DEF Telling
  <2>3. Goes(w, next)
    BY <1>7 DEF Tell
  <2> HIDE DEF next
  <2>4. Sound(next)
    BY <1>1, <1>7, <2>2 DEF Tell, Sound, SavesFlagged, QuietNews, NewsInRows
  <2> QED
    BY <1>1, <2>3, <2>4, SoundGoes
<1>8. ASSUME NEW b \in Brothers, TellRemoved(w, b) PROVE JobsSound'
  <2> DEFINE next == [job[w] EXCEPT !.gone = @ \ {m \in job[w].gone : m[1] = b}]
  <2>1. next.at = "untell"
    BY <1>1, <1>8 DEF Job, TellRemoved
  <2>2. Goes(w, next)
    BY <1>8 DEF TellRemoved
  <2> HIDE DEF next
  <2> QED
    BY <1>1, <2>1, <2>2, SoundElsewhere, SoundGoes
<1>9. CASE AnnounceFails(w)
  <2>1. job[w] \in Telling
    BY <1>1, <1>9 DEF Job, Telling, AnnounceFails
  <2>2. [job[w] EXCEPT !.at = "stale", !.ok = FALSE].at = "stale"
    BY <2>1 DEF Telling
  <2> QED
    BY <1>1, <1>9, <2>2, SoundElsewhere, SoundGoes DEF AnnounceFails
<1>10. CASE Lose(w)
  BY <1>1, <1>2, <1>10, SoundGoes DEF Lose
<1> QED
  BY <1>3, <1>4, <1>5, <1>6, <1>7, <1>8, <1>9, <1>10 DEF Says, Fails

LEMMA SoundStep == TypeOK /\ JobsSound /\ [Next]_vars => JobsSound'
<1> SUFFICES ASSUME TypeOK, JobsSound, [Next]_vars PROVE JobsSound'
  OBVIOUS
<1>1. CASE UNCHANGED vars
  BY <1>1, SoundStays DEF vars, Held
<1>2. CASE Next
  <2>1. CASE RunDue
    <3>1. Minute \in Workers /\ NotifyChanges(Minute)
      BY <2>1 DEF RunDue, Workers
    <3> QED
      BY <1>2, <3>1, HeldStays, SoundNotice
  <2>2. CASE PutAway \/ EveningJob \/ DigestFails \/ Tick
    <3>1. job' = job
      BY <2>2 DEF PutAway, EveningJob, SendDigests, SayDigest, DigestFails, Tick
    <3> QED
      BY <1>2, <3>1, HeldStays, SoundStays
  <2> QED
    BY <1>2, <2>1, <2>2, SoundBegins, SoundWorks, SoundSays DEF Next
<1> QED
  BY <1>1, <1>2

\* Where the news that b has part p is: with him, on the row's flag, on its way, or among
\* what the history names.
Accounted(b, p) ==
    \/ p \in knows[b]
    \/ part[p].flag
    \/ p \in BeingGivenBack
    \/ \E w \in Workers : <<b, p>> \in Pending(job[w]) \/ p \in ToRepeat(job[w])
    \/ p \in unsaid
    \/ <<b, p>> \in misled

LEMMA ToldMeans ==
    ToldUnlessFlagged <=> \A b \in Brothers, p \in Parts :
                             (Holds(b, p) /\ now < Begins) => Accounted(b, p)
BY DEF ToldUnlessFlagged, Accounted

\* A step of one worker leaves the news the others have to say with them.
LEMMA OthersKeepNews ==
    ASSUME TypeOK, NEW w \in Workers, NEW next, Goes(w, next), NEW b, NEW p \in Parts,
           Accounted(b, p),
           \/ p \in knows[b] \/ part[p].flag \/ p \in unsaid \/ <<b, p>> \in misled
           \/ job[w] = [at |-> "giveBack", p |-> p]
           \/ <<b, p>> \in Pending(job[w])
           \/ p \in ToRepeat(job[w])
           => Accounted(b, p)'
    PROVE Accounted(b, p)'
<1> SUFFICES ASSUME ~(p \in knows[b] \/ part[p].flag \/ p \in unsaid \/ <<b, p>> \in misled),
                    job[w] # [at |-> "giveBack", p |-> p],
                    <<b, p>> \notin Pending(job[w]), p \notin ToRepeat(job[w])
             PROVE Accounted(b, p)'
  OBVIOUS
<1>1. CASE p \in BeingGivenBack
  <2>1. PICK r \in Requests : job[r] = [at |-> "giveBack", p |-> p]
    BY <1>1 DEF BeingGivenBack
  <2>2. job'[r] = job[r]
    BY <2>1, GoesOn DEF Workers
  <2> QED
    BY <2>1, <2>2 DEF Accounted, BeingGivenBack
<1>2. CASE \E v \in Workers : <<b, p>> \in Pending(job[v]) \/ p \in ToRepeat(job[v])
  <2>1. PICK v \in Workers : <<b, p>> \in Pending(job[v]) \/ p \in ToRepeat(job[v])
    BY <1>2
  <2>2. job'[v] = job[v]
    BY <2>1, GoesOn
  <2> QED
    BY <2>1, <2>2 DEF Accounted, Pending, ToRepeat, Marked
<1> QED
  BY <1>1, <1>2 DEF Accounted

\* Only an announcement has something to say, and only its end something to flag again.
LEMMA NothingToSay ==
    ASSUME NEW j
    PROVE /\ j.at \notin {"drafts", "clear", "tell"} => Pending(j) = {}
          /\ j.at \notin {"stale", "untell"} => ToRepeat(j) = {}
BY DEF Pending, ToRepeat

\* A worker with nothing of this to say goes on.
LEMMA SilentStep ==
    ASSUME TypeOK, NEW w \in Workers, NEW next, Goes(w, next), NEW b, NEW p \in Parts,
           Accounted(b, p),
           job[w].at \notin {"drafts", "clear", "tell", "stale", "untell", "giveBack"},
           p \in knows[b] \/ part[p].flag \/ p \in unsaid \/ <<b, p>> \in misled
              => Accounted(b, p)'
    PROVE Accounted(b, p)'
<1>1. Pending(job[w]) = {} /\ ToRepeat(job[w]) = {}
  BY NothingToSay
<1>2. job[w] # [at |-> "giveBack", p |-> p]
  OBVIOUS
<1> QED
  BY <1>1, <1>2, OthersKeepNews

\* So it does when the rows and messages stay.
LEMMA NewsStay ==
    ASSUME TypeOK, NEW w \in Workers, NEW next, Goes(w, next), NEW b, NEW p \in Parts,
           Accounted(b, p), part' = part,
           job[w].at \notin {"drafts", "clear", "tell", "stale", "untell", "giveBack"},
           p \in knows[b] => p \in knows'[b], p \in unsaid => p \in unsaid',
           <<b, p>> \in misled => <<b, p>> \in misled'
    PROVE Accounted(b, p)'
<1> SUFFICES ASSUME p \in knows[b] \/ part[p].flag \/ p \in unsaid \/ <<b, p>> \in misled
             PROVE Accounted(b, p)'
  BY SilentStep
<1> QED
  BY DEF Accounted

\* A request that begins was idle.
LEMMA BeginKeepsNews ==
    ASSUME TypeOK, NEW r \in Requests, BeginsSome(r), NEW b, NEW p \in Parts,
           Accounted(b, p)
    PROVE Accounted(b, p)'
<1>1. CASE later(r)
  <2>1. job' = job /\ part' = part /\ history' = history
    BY <1>1 DEF later
  <2> QED
    BY <2>1 DEF Accounted, BeingGivenBack, history, Pending, ToRepeat, Marked
<1>2. CASE ~later(r)
  <2>1. PICK next : Goes(r, next)
    <3>1. CASE BeginUpdate(r)
      BY <3>1 DEF BeginUpdate
    <3>2. CASE BeginRemove(r)
      BY <3>2 DEF BeginRemove
    <3>3. CASE BeginRestore(r)
      BY <3>3 DEF BeginRestore
    <3>4. CASE BeginPublish(r)
      BY <3>4 DEF BeginPublish
    <3>5. CASE SendNow(r)
      BY <3>5 DEF SendNow, NotifyChanges
    <3> QED
      BY <1>2, <3>1, <3>2, <3>3, <3>4, <3>5 DEF BeginsSome
  <2>2. Begin(r)
    BY <1>2 DEF BeginsSome, BeginUpdate, BeginRemove, BeginRestore, BeginPublish, SendNow
  <2>3. r \in Workers /\ job[r].at = "idle" /\ part' = part /\ history' = history
    BY <2>2 DEF Begin, Idle, Workers, tables
  <2> QED
    BY <2>1, <2>3, NewsStay DEF history
<1> QED
  BY <1>1, <1>2

LEMMA SavedFields ==
    ASSUME TypeOK, NEW p \in Parts, NEW row \in Row
    PROVE /\ Saved(p, row).holder = row.holder /\ Saved(p, row).status = row.status
          /\ Saved(p, row).removed = row.removed /\ Saved(p, row).flag = row.flag
<1>1. part[p] \in Row /\ part[p].edited \in 0..Last
  BY DEF TypeOK, Row
<1>2. /\ [row EXCEPT !.edited = part[p].edited].holder = row.holder
      /\ [row EXCEPT !.edited = part[p].edited].status = row.status
      /\ [row EXCEPT !.edited = part[p].edited].removed = row.removed
      /\ [row EXCEPT !.edited = part[p].edited].flag = row.flag
  BY <1>1 DEF Row
<1>3. /\ [row EXCEPT !.edited = now].holder = row.holder
      /\ [row EXCEPT !.edited = now].status = row.status
      /\ [row EXCEPT !.edited = now].removed = row.removed
      /\ [row EXCEPT !.edited = now].flag = row.flag
  BY DEF Row
<1>4. CASE [row EXCEPT !.edited = part[p].edited] = part[p]
  BY <1>2, <1>4 DEF Saved
<1>5. CASE [row EXCEPT !.edited = part[p].edited] # part[p]
  BY <1>3, <1>5 DEF Saved
<1> QED
  BY <1>4, <1>5

\* The rows that change are changed whole, or their flag is set.
LEMMA SaveUpdateTells ==
    ASSUME TypeOK, ToldInv, NEW r \in Requests, SaveUpdate(r),
           NEW b \in Brothers, NEW p \in Parts, Holds(b, p)', now' < Begins
    PROVE Accounted(b, p)'
<1> DEFINE j == job[r]
<1>1. /\ r \in Workers /\ j \in Job /\ j.p \in Parts /\ j.row \in Row /\ j.new \in Row
      /\ Goes(r, AfterSave(j))
  BY JobFields DEF SaveUpdate, Workers, TypeOK
<1>2. /\ part' = [part EXCEPT ![j.p] = Saved(j.p, j.new)] /\ now' = now
      /\ SaveHistory(j.p, j.new, j.row)
  BY DEF SaveUpdate
<1>3. /\ knows' = knows /\ misled' = misled
      /\ \A q \in Parts \ {j.p} : q \in unsaid => q \in unsaid'
  BY <1>2 DEF SaveHistory
<1>4. ASSUME part'[p] = part[p] \/ part'[p].flag, p \in unsaid => p \in unsaid' \/ part'[p].flag
      PROVE Accounted(b, p)'
  <2>1. CASE part'[p].flag
    BY <2>1 DEF Accounted
  <2>2. CASE ~part'[p].flag
    <3>1. Accounted(b, p)
      BY <1>2, <1>4, <2>2, ToldMeans DEF Holds, Stands, ToldInv
    <3>2. job[r].at = "save"
      BY DEF SaveUpdate
    <3> SUFFICES ASSUME p \in knows[b] \/ part[p].flag \/ p \in unsaid \/ <<b, p>> \in misled
                 PROVE Accounted(b, p)'
      BY <1>1, <3>1, <3>2, SilentStep
    <3> QED
      BY <1>3, <1>4, <2>2 DEF Accounted
  <2> QED
    BY <2>1, <2>2
<1>5. CASE p # j.p
  BY <1>1, <1>2, <1>3, <1>4, <1>5 DEF TypeOK
<1>6. CASE p = j.p
  <2>1. part'[p] = Saved(p, j.new) /\ part[p] \in Row
    BY <1>1, <1>2, <1>6 DEF TypeOK
  <2>2. CASE j.new.flag
    <3>1. part'[p].flag
      BY <1>1, <2>1, <2>2, SavedFields
    <3> QED
      BY <3>1, <1>4
  <2>3. CASE ~j.new.flag /\ [j.row EXCEPT !.edited = 0] # [part[p] EXCEPT !.edited = 0]
    BY <1>2, <1>6, <2>3 DEF SaveHistory, Accounted
  <2>4. CASE ~j.new.flag /\ [j.row EXCEPT !.edited = 0] = [part[p] EXCEPT !.edited = 0]
    <3>1. /\ j.row.holder = part[p].holder /\ j.row.status = part[p].status
          /\ j.row.removed = part[p].removed /\ j.row.flag = part[p].flag
      <4>1. /\ [j.row EXCEPT !.edited = 0].holder = j.row.holder
            /\ [j.row EXCEPT !.edited = 0].status = j.row.status
            /\ [j.row EXCEPT !.edited = 0].removed = j.row.removed
            /\ [j.row EXCEPT !.edited = 0].flag = j.row.flag
        BY <1>1 DEF Row
      <4>2. /\ [part[p] EXCEPT !.edited = 0].holder = part[p].holder
            /\ [part[p] EXCEPT !.edited = 0].status = part[p].status
            /\ [part[p] EXCEPT !.edited = 0].removed = part[p].removed
            /\ [part[p] EXCEPT !.edited = 0].flag = part[p].flag
        BY <2>1 DEF Row
      <4> QED
        BY <2>4, <4>1, <4>2
    <3>2. /\ part'[p].holder = j.new.holder /\ part'[p].status = j.new.status
          /\ part'[p].removed = j.new.removed
      BY <1>1, <2>1, SavedFields
    <3>3. ~Held
      BY <1>2, ProgrammeConstants DEF Held, TypeOK, Moments
    <3>4. j.new.status = "published"
      BY <3>2 DEF Holds, Stands
    <3>5. /\ j.row.status = "published" /\ j.row.holder = j.new.holder
          /\ j.row.removed = j.new.removed /\ ~j.row.flag
      BY <1>1, <2>4, <3>3, <3>4 DEF ToldInv, JobsSound, Sound, SavesFlagged, SaveUpdate
    <3>6. Holds(b, p)
      BY <3>1, <3>2, <3>5 DEF Holds, Stands
    <3>7. Accounted(b, p)
      BY <1>2, <3>6, ToldMeans DEF ToldInv
    <3>8. job[r].at = "save"
      BY DEF SaveUpdate
    <3>9. ~part[p].flag /\ unsaid' = unsaid
      BY <1>2, <1>6, <2>4, <3>1, <3>5 DEF SaveHistory
    <3> SUFFICES ASSUME p \in knows[b] \/ part[p].flag \/ p \in unsaid \/ <<b, p>> \in misled
                 PROVE Accounted(b, p)'
      BY <1>1, <3>7, <3>8, SilentStep
    <3> QED
      BY <1>3, <3>9 DEF Accounted
  <2> QED
    BY <2>2, <2>3, <2>4
<1> QED
  BY <1>5, <1>6

\* What he held before the step was accounted for.
LEMMA HeldBefore ==
    ASSUME ToldInv, NEW b \in Brothers, NEW p \in Parts, part'[p] = part[p], now' = now,
           Holds(b, p)', now' < Begins
    PROVE Accounted(b, p)
BY ToldMeans DEF ToldInv, Holds, Stands

LEMMA WorksTells ==
    ASSUME TypeOK, ToldInv, NEW r \in Requests, Works(r),
           NEW b \in Brothers, NEW p \in Parts, Holds(b, p)', now' < Begins
    PROVE Accounted(b, p)'
<1> DEFINE j == job[r]
           Known == p \in knows[b] \/ part[p].flag \/ p \in unsaid \/ <<b, p>> \in misled
<1>1. r \in Workers /\ j \in Job /\ part[p] \in Row
  BY DEF Workers, TypeOK
<1>2. CASE SaveUpdate(r)
  BY <1>2, SaveUpdateTells
<1>3. CASE ReadRule(r)
  <2>1. Accounted(b, p)
    BY <1>3, HeldBefore DEF ReadRule, tables
  <2> QED
    BY <1>1, <1>3, <2>1, NewsStay DEF ReadRule, tables, history
<1>4. CASE SaveRule(r)
  <2>1. /\ j.row \in Row /\ j.next \in Everybody /\ Mirrored(j) \in Row
        /\ Prayer \in Parts
    <3>1. j.row \in Row /\ j.next \in Everybody
      BY <1>1, <1>4, JobFields DEF SaveRule
    <3> QED
      BY <3>1, ProgrammeConstants DEF Mirrored, Row
  <2>2. /\ Mirrored(j).status = j.row.status
        /\ Mirrored(j).flag <=> (j.row.flag \/ j.row.status = "published")
    BY <2>1 DEF Mirrored, Row
  <2>3. part' = [part EXCEPT ![Prayer] = Saved(Prayer, Mirrored(j))]
    BY <1>4 DEF SaveRule
  <2>4. CASE p = Prayer
    <3>1. part'[p] = Saved(Prayer, Mirrored(j))
      BY <2>1, <2>3, <2>4 DEF TypeOK
    <3>2. part'[p].status = j.row.status /\ (part'[p].flag <=> Mirrored(j).flag)
      BY <2>1, <2>2, <3>1, SavedFields
    <3>3. part'[p].flag
      BY <2>2, <3>2 DEF Holds, Stands
    <3> QED
      BY <3>3 DEF Accounted
  <2>5. CASE p # Prayer
    <3>1. /\ part'[p] = part[p] /\ (p \in unsaid => p \in unsaid')
          /\ knows' = knows /\ misled' = misled
      BY <1>4, <2>1, <2>3, <2>5 DEF TypeOK, SaveRule, SaveHistory
    <3>2. Accounted(b, p)
      BY <1>4, <3>1, HeldBefore DEF SaveRule
    <3>3. Known => Accounted(b, p)'
      BY <3>1 DEF Accounted
    <3> QED
      BY <1>1, <1>4, <3>2, <3>3, SilentStep DEF SaveRule
  <2> QED
    BY <2>4, <2>5
<1>5. CASE MarkRemoved(r)
  <2>1. CASE p = j.p
    <3>1. part'[p].flag
      BY <1>1, <1>5, <2>1 DEF MarkRemoved, FlagOf, WithFlags, Row
    <3> QED
      BY <3>1 DEF Accounted
  <2>2. CASE p # j.p
    <3>1. part'[p] = part[p] /\ (p \in unsaid => p \in unsaid')
      BY <1>5, <2>2 DEF MarkRemoved, FlagOf, WithFlags
    <3>2. Accounted(b, p)
      BY <1>5, <3>1, HeldBefore DEF MarkRemoved
    <3>3. Known => Accounted(b, p)'
      BY <1>5, <3>1 DEF Accounted, MarkRemoved
    <3> QED
      BY <1>1, <1>5, <3>2, <3>3, SilentStep DEF MarkRemoved
  <2> QED
    BY <2>1, <2>2
<1>6. CASE DeletePart(r)
  <2>1. j.p \in Parts
    BY <1>1, <1>6, JobFields DEF DeletePart
  <2>2. p # j.p
    BY <1>1, <1>6, <2>1 DEF DeletePart, TypeOK, Row, Holds, Stands
  <2>3. part'[p] = part[p]
    BY <1>6, <2>1, <2>2 DEF DeletePart, TypeOK
  <2>4. Accounted(b, p)
    BY <1>6, <2>3, HeldBefore DEF DeletePart
  <2>5. Known => Accounted(b, p)'
    BY <1>6, <2>3 DEF Accounted, DeletePart, history
  <2> QED
    BY <1>1, <1>6, <2>4, <2>5, SilentStep DEF DeletePart
<1>7. CASE RestorePart(r)
  <2>1. j.p \in Parts
    BY <1>1, <1>7, JobFields DEF RestorePart
  <2>2. CASE p = j.p
    <3>1. part[p].status = "published"
      BY <1>1, <1>7, <2>1, <2>2 DEF RestorePart, TypeOK, Row, Holds, Stands
    <3>2. ~Held
      BY <1>7, ProgrammeConstants DEF RestorePart, Held, TypeOK, Moments
    <3>3. Goes(r, [at |-> "giveBack", p |-> p])
      BY <1>7, <2>2, <3>1, <3>2 DEF RestorePart
    <3>4. job'[r] = [at |-> "giveBack", p |-> p]
      BY <1>1, <3>3, GoesOn
    <3> QED
      BY <3>4 DEF Accounted, BeingGivenBack
  <2>3. CASE p # j.p
    <3>1. part'[p] = part[p]
      BY <1>7, <2>1, <2>3 DEF RestorePart, TypeOK
    <3>2. Accounted(b, p)
      BY <1>7, <3>1, HeldBefore DEF RestorePart
    <3>3. Known => Accounted(b, p)'
      BY <1>7, <3>1 DEF Accounted, RestorePart, history
    <3>4. PICK next : Goes(r, next)
      BY <1>7 DEF RestorePart
    <3> QED
      BY <1>1, <1>7, <3>2, <3>3, <3>4, SilentStep DEF RestorePart
  <2> QED
    BY <2>2, <2>3
<1>8. CASE FlagRestored(r)
  <2>1. CASE p = j.p
    <3>1. part'[p].flag
      BY <1>1, <1>8, <2>1 DEF FlagRestored, FlagOf, WithFlags, Row
    <3> QED
      BY <3>1 DEF Accounted
  <2>2. CASE p # j.p
    <3>1. part'[p] = part[p] /\ (p \in unsaid => p \in unsaid')
      BY <1>8, <2>2 DEF FlagRestored, FlagOf, WithFlags
    <3>2. Accounted(b, p)
      BY <1>8, <3>1, HeldBefore DEF FlagRestored
    <3>3. Known => Accounted(b, p)'
      BY <1>8, <3>1 DEF Accounted, FlagRestored
    <3>4. /\ Pending(job[r]) = {} /\ ToRepeat(job[r]) = {}
          /\ job[r] # [at |-> "giveBack", p |-> p]
      BY <1>8, <2>2, NothingToSay DEF FlagRestored
    <3> QED
      BY <1>1, <1>8, <3>2, <3>3, <3>4, OthersKeepNews DEF FlagRestored
  <2> QED
    BY <2>1, <2>2
<1>9. CASE PublishDrafts(r)
  <2> DEFINE next == [j EXCEPT !.at = "clear"]
  <2>1. next.at = "clear" /\ next.news = j.news /\ Goes(r, next)
    BY <1>1, <1>9 DEF Job, PublishDrafts
  <2>2. job'[r] = next /\ Pending(next) = Marked(j.news) /\ Pending(j) = Marked(j.news)
    BY <1>1, <1>9, <2>1, GoesOn DEF Pending, PublishDrafts
  <2>3. <<b, p>> \in Marked(j.news) => Accounted(b, p)'
    <3>1. <<b, p>> \in Marked(j.news) => <<b, p>> \in Pending(job'[r])
      BY <2>2
    <3> QED
      BY <1>1, <3>1 DEF Accounted, Pending, Marked
  <2>4. CASE p \in Drafts
    <3>1. part'[p].holder = part[p].holder /\ part'[p].holder = b
      BY <1>1, <1>9, <2>4 DEF PublishDrafts, Row, Holds
    <3>2. CASE part[p].holder # j.news[p]
      BY <1>9, <2>4, <3>2 DEF PublishDrafts, Missed, Accounted
    <3>3. CASE part[p].holder = j.news[p]
      BY <2>3, <3>1, <3>3 DEF Marked, Pairs
    <3> QED
      BY <3>2, <3>3
  <2>5. CASE p \notin Drafts
    <3>1. part'[p] = part[p]
      BY <1>9, <2>5 DEF PublishDrafts
    <3>2. Accounted(b, p)
      BY <1>9, <3>1, HeldBefore DEF PublishDrafts
    <3>3. Known => Accounted(b, p)'
      BY <1>9, <3>1 DEF Accounted, PublishDrafts
    <3>4. ToRepeat(job[r]) = {} /\ job[r] # [at |-> "giveBack", p |-> p]
      <4>1. job[r].at = "drafts"
        BY <1>9 DEF PublishDrafts
      <4> QED
        BY <4>1, NothingToSay
    <3>5. <<b, p>> \in Pending(job[r]) => Accounted(b, p)'
      BY <2>2, <2>3
    <3>6. PICK n : Goes(r, n)
      BY <2>1
    <3> QED
      BY <1>1, <3>2, <3>3, <3>4, <3>5, <3>6, OthersKeepNews
  <2> QED
    BY <2>4, <2>5
<1> QED
  BY <1>2, <1>3, <1>4, <1>5, <1>6, <1>7, <1>8, <1>9 DEF Works

LEMMA TellKeepsFields ==
    ASSUME NEW j \in Job, j.at = "tell", NEW b
    PROVE LET next == [j EXCEPT !.todo = @ \ {b},
                                !.at = IF j.todo = {b} THEN "markTold" ELSE "tell"]
          IN /\ next.at = IF j.todo = {b} THEN "markTold" ELSE "tell"
             /\ next.news = j.news /\ next.todo = j.todo \ {b}
<1>1. j \in Telling
  BY DEF Job, Telling
<1> QED
  BY <1>1 DEF Telling

\* Whoever is told knows, and the others of this announcement are still to be told.
LEMMA TellTells ==
    ASSUME TypeOK, NEW w \in Workers, NEW c \in Brothers, Tell(w, c),
           NEW b \in Brothers, NEW p \in Parts, Accounted(b, p)
    PROVE Accounted(b, p)'
<1> DEFINE j == job[w]
           next == [j EXCEPT !.todo = @ \ {c}, !.at = IF j.todo = {c} THEN "markTold" ELSE "tell"]
<1>1. /\ j \in Job /\ j.at = "tell" /\ c \in j.todo /\ Goes(w, next) /\ part' = part
      /\ unsaid' = unsaid /\ misled' = misled \ ({c} \X Told(j.news, c))
      /\ knows' = [knows EXCEPT ![c] = @ \cup Told(j.news, c)]
  BY DEF Tell, TypeOK, tables
<1>2. /\ next.at = IF j.todo = {c} THEN "markTold" ELSE "tell"
      /\ next.news = j.news /\ next.todo = j.todo \ {c}
  BY <1>1, TellKeepsFields
<1>3. job'[w] = next
  BY <1>1, GoesOn
<1> HIDE DEF next
<1>4. p \in knows[b] \/ (b = c /\ p \in Told(j.news, c)) => p \in knows'[b]
  BY <1>1 DEF TypeOK
<1>5. ASSUME p \in knows[b] \/ part[p].flag \/ p \in unsaid \/ <<b, p>> \in misled
      PROVE Accounted(b, p)'
  <2>1. CASE <<b, p>> \in misled /\ ~(b = c /\ p \in Told(j.news, c))
    <3>1. <<b, p>> \in misled'
      BY <1>1, <2>1
    <3> QED
      BY <3>1 DEF Accounted
  <2> QED
    BY <1>1, <1>4, <1>5, <2>1 DEF Accounted
<1>6. ASSUME <<b, p>> \in Pending(j) PROVE Accounted(b, p)'
  <2>1. /\ <<b, p>> \in Marked(j.news) /\ b \in j.todo /\ j.news[p] = b
    BY <1>1, <1>6 DEF Pending, Marked
  <2>2. CASE b = c
    BY <1>4, <2>1, <2>2 DEF Told, Accounted
  <2>3. CASE b # c
    <3>1. next.at = "tell" /\ b \in next.todo
      BY <1>2, <2>1, <2>3
    <3>2. <<b, p>> \in Pending(next)
      BY <1>2, <2>1, <3>1 DEF Pending
    <3>3. <<b, p>> \in Pending(job'[w])
      BY <1>3, <3>2
    <3> QED
      BY <3>3 DEF Accounted, Pending, Marked
  <2> QED
    BY <2>2, <2>3
<1>7. ToRepeat(job[w]) = {} /\ job[w] # [at |-> "giveBack", p |-> p]
  BY <1>1, NothingToSay
<1> QED
  BY <1>1, <1>5, <1>6, <1>7, OthersKeepNews

\* Whoever loses a part he holds is among the misled.
LEMMA TellRemovedTells ==
    ASSUME TypeOK, NEW w \in Workers, NEW c \in Brothers, TellRemoved(w, c),
           NEW b \in Brothers, NEW p \in Parts, Holds(b, p), Accounted(b, p)
    PROVE Accounted(b, p)'
<1> DEFINE j == job[w]
           mine == {m \in j.gone : m[1] = c}
           next == [j EXCEPT !.gone = @ \ mine]
<1>1. /\ j \in Job /\ j.at = "untell" /\ Goes(w, next) /\ part' = part /\ unsaid' = unsaid
      /\ misled' = (misled \ mine) \cup {m \in mine : Holds(m[1], m[2])}
      /\ knows' = [knows EXCEPT ![c] = {q \in @ : <<c, q>> \notin mine}]
  BY DEF TellRemoved, TypeOK
<1>2. /\ j = [at |-> "untell", rows |-> j.rows, publish |-> j.publish, gone |-> j.gone,
              ok |-> j.ok]
      /\ j.gone \in SUBSET Pairs
  BY <1>1, JobFields
<1>3. next.at = "untell" /\ next.rows = j.rows /\ next.publish = j.publish /\ next.ok = j.ok
  BY <1>2
<1>4. job'[w] = next
  BY <1>1, GoesOn
<1>5. ASSUME <<b, p>> \in mine PROVE Accounted(b, p)'
  <2>1. <<b, p>> \in {m \in mine : Holds(m[1], m[2])}
    BY <1>5
  <2>2. <<b, p>> \in misled'
    BY <1>1, <2>1
  <2> QED
    BY <2>2 DEF Accounted
<1>6. ASSUME <<b, p>> \notin mine,
             p \in knows[b] \/ part[p].flag \/ p \in unsaid \/ <<b, p>> \in misled
      PROVE Accounted(b, p)'
  <2>1. p \in knows[b] => p \in knows'[b]
    BY <1>1, <1>6 DEF TypeOK
  <2>2. <<b, p>> \in misled => <<b, p>> \in misled'
    BY <1>1, <1>6
  <2> QED
    BY <1>1, <1>6, <2>1, <2>2 DEF Accounted
<1>7. ASSUME p \in ToRepeat(j) PROVE Accounted(b, p)'
  <2>1. p \in ToRepeat(next)
    BY <1>1, <1>3, <1>7 DEF ToRepeat
  <2>2. p \in ToRepeat(job'[w])
    BY <1>4, <2>1
  <2> QED
    BY <2>2 DEF Accounted, ToRepeat
<1>8. Pending(job[w]) = {} /\ job[w] # [at |-> "giveBack", p |-> p]
  BY <1>1, NothingToSay
<1> QED
  BY <1>1, <1>5, <1>6, <1>7, <1>8, OthersKeepNews

\* Setting flags leaves holder, standing and removal alone.
LEMMA FlagsOnly ==
    ASSUME TypeOK, NEW S, NEW p \in Parts
    PROVE /\ WithFlags(S, FALSE)[p].holder = part[p].holder
          /\ WithFlags(S, FALSE)[p].status = part[p].status
          /\ WithFlags(S, FALSE)[p].removed = part[p].removed
BY DEF WithFlags, TypeOK, Row

\* Clearing the flags: what was flagged is news, or nobody's and the history has it.
LEMMA ClearTells ==
    ASSUME TypeOK, ToldInv, NEW w \in Workers, ClearFlags(w),
           NEW b \in Brothers, NEW p \in Parts, Holds(b, p)', now' < Begins
    PROVE Accounted(b, p)'
<1> DEFINE j == job[w]
           next == IF j.aloud THEN Announce(j) ELSE Idle
<1>1. /\ j \in Job /\ j.at = "clear" /\ Goes(w, next) /\ now' = now
      /\ part' = WithFlags(ToClear(j), FALSE)
      /\ unsaid' = unsaid \cup Missed(j, {q \in ToClear(j) : Stands(q)})
      /\ knows' = knows /\ misled' = misled
  BY DEF ClearFlags, TypeOK
<1>2. j.news \in [Parts -> Everybody] /\ (~j.aloud => j.news[p] = Nobody) /\ b # Nobody
  BY <1>1, JobFields, ProgrammeConstants DEF ToldInv, JobsSound, Sound, QuietNews
<1>3. job'[w] = next
  BY <1>1, GoesOn
<1>4. ASSUME j.news[p] = b PROVE Accounted(b, p)'
  <2>1. j.aloud /\ next = Announce(j)
    BY <1>2, <1>4
  <2>2. p \in Told(j.news, b)
    BY <1>4 DEF Told
  <2> DEFINE who == {c \in Brothers : Told(j.news, c) # {}}
  <2>3. b \in who /\ who # {}
    BY <2>2
  <2>4. Announce(j) = [at |-> "tell", news |-> j.news, rows |-> j.rows,
                       publish |-> j.publish, todo |-> who, ok |-> TRUE]
    BY <2>3 DEF Announce
  <2> HIDE DEF who
  <2>5. <<b, p>> \in Pending(Announce(j))
    BY <1>4, <2>3, <2>4 DEF Pending, Marked, Pairs
  <2>6. <<b, p>> \in Pending(job'[w])
    BY <1>3, <2>1, <2>5
  <2> QED
    BY <2>6 DEF Accounted, Pending, Marked
<1>5. CASE p \in ToClear(j)
  <2>1. Stands(p) /\ part[p].holder = b
    BY <1>1, <1>5, FlagsOnly DEF Holds, Stands
  <2>2. CASE j.news[p] = b
    BY <1>4, <2>2
  <2>3. CASE j.news[p] # b
    BY <1>1, <1>5, <2>1, <2>3 DEF Missed, Accounted
  <2> QED
    BY <2>2, <2>3
<1>6. CASE p \notin ToClear(j)
  <2>1. part'[p] = part[p]
    BY <1>1, <1>6 DEF WithFlags
  <2>2. Accounted(b, p)
    BY <1>1, <2>1, HeldBefore
  <2>3. p \in knows[b] \/ part[p].flag \/ p \in unsaid \/ <<b, p>> \in misled => Accounted(b, p)'
    BY <1>1, <2>1 DEF Accounted
  <2>4. <<b, p>> \in Pending(j) => j.news[p] = b
    BY <1>1 DEF Pending, Marked
  <2>5. ToRepeat(job[w]) = {} /\ job[w] # [at |-> "giveBack", p |-> p]
    BY <1>1, NothingToSay
  <2> QED
    BY <1>1, <1>4, <2>2, <2>3, <2>4, <2>5, OthersKeepNews
<1> QED
  BY <1>5, <1>6

LEMMA SaysTells ==
    ASSUME TypeOK, ToldInv, NEW w \in Workers, Says(w),
           NEW b \in Brothers, NEW p \in Parts, Holds(b, p)', now' < Begins
    PROVE Accounted(b, p)'
<1> DEFINE j == job[w]
           Known == p \in knows[b] \/ part[p].flag \/ p \in unsaid \/ <<b, p>> \in misled
<1>1. j \in Job
  BY DEF TypeOK
<1>2. CASE ClearFlags(w)
  BY <1>2, ClearTells
<1>3. CASE MarkTold(w)
  <2>1. Accounted(b, p)
    BY <1>3, HeldBefore DEF MarkTold
  <2> QED
    BY <1>3, <2>1, NewsStay DEF MarkTold, history
<1>4. CASE ReadStale(w)
  <2>1. Accounted(b, p)
    BY <1>4, HeldBefore DEF ReadStale, tables
  <2>2. Known => Accounted(b, p)'
    BY <1>4 DEF Accounted, ReadStale, tables, history
  <2>3. job'[w] = [at |-> "untell", rows |-> j.rows, publish |-> j.publish,
                   gone |-> StaleMarks, ok |-> j.ok]
    BY <1>4, GoesOn DEF ReadStale
  <2>4. p \in ToRepeat(j) => p \in ToRepeat(job'[w])
    BY <1>4, <2>3 DEF ReadStale, ToRepeat
  <2>5. p \in ToRepeat(j) => Accounted(b, p)'
    BY <2>4 DEF Accounted, ToRepeat
  <2>6. Pending(job[w]) = {} /\ job[w] # [at |-> "giveBack", p |-> p]
    BY <1>4, NothingToSay DEF ReadStale
  <2> QED
    BY <1>4, <2>1, <2>2, <2>5, <2>6, OthersKeepNews DEF ReadStale
<1>5. CASE EndAnnounce(w)
  <2>1. ToRepeat(j) = IF j.ok \/ j.publish THEN {} ELSE j.rows
    BY <1>5 DEF EndAnnounce, ToRepeat
  <2>2. /\ part' = WithFlags(ToRepeat(j), TRUE) /\ unsaid' = unsaid \ ToRepeat(j)
        /\ now' = now /\ knows' = knows /\ misled' = misled /\ Goes(w, Idle) /\ j.at = "untell"
    BY <1>5, <2>1 DEF EndAnnounce
  <2>3. CASE p \in ToRepeat(j)
    <3>1. part'[p].flag
      BY <2>2, <2>3 DEF WithFlags, TypeOK, Row
    <3> QED
      BY <3>1 DEF Accounted
  <2>4. CASE p \notin ToRepeat(j)
    <3>1. part'[p] = part[p]
      BY <2>2, <2>4 DEF WithFlags
    <3>2. Accounted(b, p)
      BY <2>2, <3>1, HeldBefore
    <3>3. Known => Accounted(b, p)'
      BY <2>2, <2>4, <3>1 DEF Accounted
    <3>4. Pending(job[w]) = {} /\ job[w] # [at |-> "giveBack", p |-> p]
      BY <2>2, NothingToSay
    <3> QED
      BY <2>2, <2>4, <3>2, <3>3, <3>4, OthersKeepNews
  <2> QED
    BY <2>3, <2>4
<1>6. ASSUME NEW c \in Brothers, Tell(w, c) PROVE Accounted(b, p)'
  <2>1. Accounted(b, p)
    BY <1>6, HeldBefore DEF Tell, tables
  <2> QED
    BY <1>6, <2>1, TellTells
<1>7. ASSUME NEW c \in Brothers, TellRemoved(w, c) PROVE Accounted(b, p)'
  <2>1. Accounted(b, p) /\ Holds(b, p)
    BY <1>7, HeldBefore DEF TellRemoved, Holds, Stands
  <2> QED
    BY <1>7, <2>1, TellRemovedTells
<1> QED
  BY <1>2, <1>3, <1>4, <1>5, <1>6, <1>7 DEF Says

LEMMA FailsTells ==
    ASSUME TypeOK, ToldInv, NEW w \in Workers, Fails(w),
           NEW b \in Brothers, NEW p \in Parts, Holds(b, p)', now' < Begins
    PROVE Accounted(b, p)'
<1> DEFINE j == job[w]
           Known == p \in knows[b] \/ part[p].flag \/ p \in unsaid \/ <<b, p>> \in misled
<1>1. j \in Job /\ part' = part /\ now' = now
  BY DEF TypeOK, Fails, AnnounceFails, Lose, tables
<1>2. Accounted(b, p)
  BY <1>1, HeldBefore
<1>3. Known => Accounted(b, p)'
  <2>1. knows' = knows /\ unsaid \subseteq unsaid' /\ misled \subseteq misled'
    BY DEF Fails, AnnounceFails, Lose
  <2> QED
    BY <1>1, <2>1 DEF Accounted
<1>4. <<b, p>> \in Pending(j) => p \in PartsOf(Pending(j))
  BY DEF PartsOf
<1>5. CASE AnnounceFails(w)
  <2>1. j.at = "tell" /\ Goes(w, [j EXCEPT !.at = "stale", !.ok = FALSE])
    BY <1>5 DEF AnnounceFails
  <2>2. ASSUME <<b, p>> \in Pending(j) PROVE Accounted(b, p)'
    <3>1. CASE j.publish
      BY <1>4, <1>5, <2>2, <3>1 DEF AnnounceFails, Accounted
    <3>2. CASE ~j.publish
      <4>1. j.news[p] = b /\ b # Nobody
        BY <2>1, <2>2, ProgrammeConstants DEF Pending, Marked
      <4>2. p \in j.rows
        BY <2>1, <4>1 DEF ToldInv, JobsSound, Sound, NewsInRows
      <4>3. j \in Telling
        BY <1>1, <2>1 DEF Job, Telling
      <4> DEFINE next == [j EXCEPT !.at = "stale", !.ok = FALSE]
      <4>4. next.at = "stale" /\ ~next.ok /\ next.publish = j.publish /\ next.rows = j.rows
        BY <4>3 DEF Telling
      <4>5. job'[w] = next
        BY <2>1, GoesOn
      <4> HIDE DEF next
      <4>6. p \in ToRepeat(job'[w])
        BY <3>2, <4>2, <4>4, <4>5 DEF ToRepeat
      <4> QED
        BY <4>6 DEF Accounted, ToRepeat
    <3> QED
      BY <3>1, <3>2
  <2>3. ToRepeat(job[w]) = {} /\ job[w] # [at |-> "giveBack", p |-> p]
    BY <2>1, NothingToSay
  <2>4. PICK next : Goes(w, next)
    BY <2>1
  <2> QED
    BY <1>2, <1>3, <2>2, <2>3, <2>4, OthersKeepNews
<1>6. CASE Lose(w)
  <2>1. <<b, p>> \in Pending(j) => Accounted(b, p)'
    BY <1>4, <1>6 DEF Lose, Accounted
  <2>2. p \in ToRepeat(j) => Accounted(b, p)'
    BY <1>6 DEF Lose, ToRepeat, Accounted
  <2>3. j = [at |-> "giveBack", p |-> p] => Accounted(b, p)'
    BY <1>6 DEF Lose, Accounted
  <2>4. Goes(w, Idle)
    BY <1>6 DEF Lose
  <2> QED
    BY <1>2, <1>3, <2>1, <2>2, <2>3, <2>4, OthersKeepNews
<1> QED
  BY <1>5, <1>6 DEF Fails

LEMMA RoundTells ==
    ASSUME TypeOK, ToldInv, RunDue \/ PutAway \/ EveningJob \/ DigestFails \/ Tick,
           NEW b \in Brothers, NEW p \in Parts, Holds(b, p)', now' < Begins
    PROVE Accounted(b, p)'
<1>1. CASE RunDue
  <2>1. /\ Minute \in Workers /\ job[Minute].at = "idle" /\ part' = part /\ history' = history
        /\ Accounted(b, p)
    BY <1>1, HeldBefore DEF RunDue, Workers, Idle, tables
  <2> QED
    BY <1>1, <2>1, NewsStay DEF RunDue, NotifyChanges, history
<1>2. CASE PutAway
  BY <1>2, ProgrammeConstants DEF PutAway, TypeOK, Moments
<1>3. ASSUME part' = part, job' = job, Accounted(b, p), p \in knows[b] => p \in knows'[b],
             unsaid' = unsaid, <<b, p>> \in misled => <<b, p>> \in misled'
      PROVE Accounted(b, p)'
  BY <1>3 DEF Accounted, BeingGivenBack, Pending, ToRepeat, Marked
<1>4. CASE SendDigests
  <2>1. Accounted(b, p)
    BY <1>4, HeldBefore DEF SendDigests
  <2> QED
    BY <1>3, <1>4, <2>1 DEF SendDigests, history
<1>5. ASSUME NEW c \in Brothers, SayDigest(c) PROVE Accounted(b, p)'
  <2>1. Accounted(b, p) /\ Holds(b, p)
    BY <1>5, HeldBefore DEF SayDigest, Holds, Stands
  <2>2. part' = part /\ job' = job /\ unsaid' = unsaid /\ misled \subseteq misled'
    BY <1>5 DEF SayDigest
  <2>3. CASE p \in knows[b] => p \in knows'[b]
    BY <1>3, <2>1, <2>2, <2>3
  <2>4. CASE p \in knows[b] /\ p \notin knows'[b]
    <3>1. b = c /\ p \in PartsOf(Cancelled(c))
      BY <1>5, <2>4 DEF SayDigest, TypeOK
    <3>2. <<b, p>> \in Forget(c)
      BY <3>1 DEF PartsOf, Cancelled, Forget, TypeOK, Digest, Pairs
    <3>3. <<b, p>> \in {m \in Forget(c) : Holds(m[1], m[2])}
      BY <2>1, <3>2
    <3>4. <<b, p>> \in misled'
      BY <1>5, <3>3 DEF SayDigest
    <3> QED
      BY <3>4 DEF Accounted
  <2> QED
    BY <2>3, <2>4
<1>6. CASE DigestFails
  <2>1. Accounted(b, p)
    BY <1>6, HeldBefore DEF DigestFails, tables
  <2> QED
    BY <1>3, <1>6, <2>1 DEF DigestFails, history, tables
<1>7. CASE Tick
  <2>1. Holds(b, p) /\ now < Begins
    BY <1>7, ProgrammeConstants DEF Tick, Holds, Stands, tables, TypeOK, Moments
  <2>2. Accounted(b, p)
    BY <2>1, ToldMeans DEF ToldInv
  <2> QED
    BY <1>3, <1>7, <2>2 DEF Tick, history, tables
<1> QED
  BY <1>1, <1>2, <1>4, <1>5, <1>6, <1>7 DEF EveningJob

LEMMA InitTold == Init => ToldInv
<1> SUFFICES ASSUME Init PROVE ToldInv
  OBVIOUS
<1>1. JobsSound
  BY SoundElsewhere DEF JobsSound, Init, Idle, Sound, SavesFlagged, QuietNews, NewsInRows
<1>2. ASSUME NEW b \in Brothers, NEW p \in Parts, Holds(b, p) PROVE Accounted(b, p)
  <2>1. PICK who \in Setups, status \in {"draft", "published"} :
          /\ part = [q \in Parts |-> [holder |-> who[q], status |-> status, removed |-> FALSE,
                                      flag |-> FALSE, edited |-> 0]]
          /\ marks = IF status = "draft" THEN {} ELSE {m \in Pairs : who[m[2]] = m[1]}
          /\ knows = [c \in Brothers |-> PartsOf({m \in marks : m[1] = c})]
    BY DEF Init
  <2>2. status = "published" /\ who[p] = b
    BY <1>2, <2>1 DEF Holds, Stands
  <2>3. <<b, p>> \in marks
    BY <2>1, <2>2 DEF Pairs
  <2>4. p \in knows[b]
    BY <2>1, <2>3 DEF PartsOf
  <2> QED
    BY <2>4 DEF Accounted
<1> QED
  BY <1>1, <1>2, ToldMeans DEF ToldInv

LEMMA ToldStep == TypeOK /\ ToldInv /\ [Next]_vars => ToldInv'
<1> SUFFICES ASSUME TypeOK, ToldInv, [Next]_vars PROVE ToldInv'
  OBVIOUS
<1>1. JobsSound'
  BY SoundStep DEF ToldInv
<1>2. ASSUME NEW b \in Brothers, NEW p \in Parts, Holds(b, p)', now' < Begins
      PROVE Accounted(b, p)'
  <2>1. CASE UNCHANGED vars
    <3>1. Accounted(b, p)
      BY <1>2, <2>1, HeldBefore DEF vars, tables
    <3> QED
      BY <2>1, <3>1 DEF vars, tables, history, Accounted, BeingGivenBack, Pending, ToRepeat, Marked
  <2>2. ASSUME NEW r \in Requests, BeginsSome(r) PROVE Accounted(b, p)'
    <3>1. part' = part /\ now' = now
      BY <2>2 DEF BeginsSome, BeginUpdate, BeginRemove, BeginRestore, BeginPublish, SendNow,
                  later, Begin, tables
    <3>2. Accounted(b, p)
      BY <1>2, <3>1, HeldBefore
    <3> QED
      BY <2>2, <3>2, BeginKeepsNews
  <2> QED
    BY <1>2, <2>1, <2>2, WorksTells, SaysTells, FailsTells, RoundTells DEF Next
<1>3. ToldUnlessFlagged'
  BY <1>2, ToldMeans DEF ToldUnlessFlagged, Accounted
<1> QED
  BY <1>1, <1>3 DEF ToldInv

\* Until the meeting begins, every holder of a published part has been told of it, or its row
\* is flagged (changedSincePublish), or a request or the minute job is about to say it or to
\* flag it again - but for what publishMeeting keeps quiet, what notifyChanges clears unread,
\* and what a whole-row save or a stop undoes.
THEOREM NewsAreToldOrFlagged == Spec => []ToldUnlessFlagged
<1>1. Spec => []ToldInv
  BY InitType, TypeStep, InitTold, ToldStep, PTL DEF Spec
<1> QED
  BY <1>1, PTL DEF ToldInv

----------------------------------------------------------------------------
(* BelieversAreMarked.                                                      *)

\* Who is remembered as having been told of which part, or is being told.
Remembered(b, p) ==
    \/ <<b, p>> \in marks \cup misled \cup silenced
    \/ \E w \in Workers : <<b, p>> \in Unmarked(job[w])

\* Not only whoever believes he has a part that is not his: whoever believes he has a part.
KnownIsMarked ==
    \A b \in Brothers, p \in Parts : (p \in knows[b] /\ ~Held) => Remembered(b, p)

\* A step of one worker leaves what the others have told and not marked.
LEMMA OthersKeepUnmarked ==
    ASSUME TypeOK, NEW w \in Workers, NEW next, Goes(w, next), NEW b, NEW p, Remembered(b, p),
           \/ <<b, p>> \in marks \cup misled \cup silenced
           \/ <<b, p>> \in Unmarked(job[w])
           => Remembered(b, p)'
    PROVE Remembered(b, p)'
<1>1. CASE \E v \in Workers \ {w} : <<b, p>> \in Unmarked(job[v])
  <2>1. PICK v \in Workers \ {w} : <<b, p>> \in Unmarked(job[v])
    BY <1>1
  <2>2. job'[v] = job[v]
    BY <2>1, GoesOn
  <2> QED
    BY <2>1, <2>2 DEF Remembered, Unmarked, Marked
<1> QED
  BY <1>1 DEF Remembered

\* A step that tells nobody, marks nothing and is not the end of a telling.
LEMMA MarksStay ==
    ASSUME TypeOK, NEW w \in Workers, NEW next, Goes(w, next), NEW b, NEW p,
           job[w].at \notin {"tell", "markTold"}, Remembered(b, p),
           marks' = marks, misled' = misled, silenced' = silenced
    PROVE Remembered(b, p)'
<1>1. Unmarked(job[w]) = {}
  BY DEF Unmarked
<1> QED
  BY <1>1, OthersKeepUnmarked DEF Remembered

LEMMA BeginMarks ==
    ASSUME TypeOK, NEW r \in Requests, BeginsSome(r), NEW b, NEW p, Remembered(b, p)
    PROVE Remembered(b, p)'
<1>1. CASE later(r)
  BY <1>1 DEF later, Remembered, Unmarked, Marked, history
<1>2. CASE ~later(r)
  <2>1. PICK next : Goes(r, next)
    <3>1. CASE BeginUpdate(r)
      BY <3>1 DEF BeginUpdate
    <3>2. CASE BeginRemove(r)
      BY <3>2 DEF BeginRemove
    <3>3. CASE BeginRestore(r)
      BY <3>3 DEF BeginRestore
    <3>4. CASE BeginPublish(r)
      BY <3>4 DEF BeginPublish
    <3>5. CASE SendNow(r)
      BY <3>5 DEF SendNow, NotifyChanges
    <3> QED
      BY <1>2, <3>1, <3>2, <3>3, <3>4, <3>5 DEF BeginsSome
  <2>2. Begin(r)
    BY <1>2 DEF BeginsSome, BeginUpdate, BeginRemove, BeginRestore, BeginPublish, SendNow
  <2>3. r \in Workers /\ job[r].at = "idle" /\ tables' = tables /\ history' = history
    BY <2>2 DEF Begin, Idle, Workers
  <2> QED
    BY <2>1, <2>3, MarksStay DEF tables, history
<1> QED
  BY <1>1, <1>2

LEMMA WorkMarks ==
    ASSUME TypeOK, NEW r \in Requests, Works(r), NEW b, NEW p, Remembered(b, p)
    PROVE Remembered(b, p)' /\ knows' = knows
<1>1. r \in Workers /\ job[r].at \notin {"tell", "markTold"}
  BY DEF Workers, Works, SaveUpdate, ReadRule, SaveRule, MarkRemoved, DeletePart, RestorePart,
         FlagRestored, PublishDrafts
<1>2. marks' = marks /\ misled' = misled /\ silenced' = silenced /\ knows' = knows
  BY DEF Works, SaveUpdate, SaveHistory, ReadRule, SaveRule, MarkRemoved, DeletePart, RestorePart,
         FlagRestored, PublishDrafts, tables, history
<1>3. \E next : Goes(r, next)
  BY DEF Works, SaveUpdate, ReadRule, SaveRule, MarkRemoved, DeletePart, RestorePart,
         FlagRestored, PublishDrafts
<1> QED
  BY <1>1, <1>2, <1>3, MarksStay

LEMMA SayMarks ==
    ASSUME TypeOK, KnownIsMarked, NEW w \in Workers, Says(w) \/ Fails(w),
           NEW b \in Brothers, NEW p \in Parts, p \in knows'[b], ~Held
    PROVE Remembered(b, p)'
<1> DEFINE j == job[w]
<1>1. j \in Job /\ (p \in knows[b] => Remembered(b, p))
  BY DEF TypeOK, KnownIsMarked
<1>2. CASE ClearFlags(w) \/ ReadStale(w) \/ EndAnnounce(w)
  <2>1. /\ marks' = marks /\ misled' = misled /\ silenced' = silenced /\ knows' = knows
        /\ job[w].at \notin {"tell", "markTold"}
    BY <1>2 DEF ClearFlags, ReadStale, EndAnnounce, tables, history
  <2>2. \E next : Goes(w, next)
    BY <1>2 DEF ClearFlags, ReadStale, EndAnnounce
  <2> QED
    BY <1>1, <2>1, <2>2, MarksStay
<1>3. CASE MarkTold(w)
  <2>1. /\ marks' = marks \cup Marked(j.news) /\ history' = history /\ j.at = "markTold"
        /\ Goes(w, [j EXCEPT !.at = "stale"])
    BY <1>3 DEF MarkTold, Upserted
  <2>2. Unmarked(j) \subseteq Marked(j.news)
    BY <2>1 DEF Unmarked
  <2>3. \/ <<b, p>> \in marks \cup misled \cup silenced
        \/ <<b, p>> \in Unmarked(job[w])
        => Remembered(b, p)'
    BY <2>1, <2>2 DEF Remembered, history
  <2> QED
    BY <1>1, <2>1, <2>3, OthersKeepUnmarked DEF history
<1>4. ASSUME NEW c \in Brothers, Tell(w, c) PROVE Remembered(b, p)'
  <2> DEFINE next == [j EXCEPT !.todo = @ \ {c}, !.at = IF j.todo = {c} THEN "markTold" ELSE "tell"]
  <2>1. /\ j.at = "tell" /\ Goes(w, next) /\ marks' = marks /\ silenced' = silenced
        /\ misled' = misled \ ({c} \X Told(j.news, c))
        /\ knows' = [knows EXCEPT ![c] = @ \cup Told(j.news, c)]
    BY <1>4 DEF Tell, tables
  <2>2. /\ next.at \in {"tell", "markTold"} /\ next.news = j.news /\ next.todo = j.todo \ {c}
    BY <1>1, <2>1, TellKeepsFields
  <2>3. job'[w] = next
    BY <2>1, GoesOn
  <2> HIDE DEF next
  <2>4. Unmarked(job'[w]) = {m \in Marked(j.news) : m[1] \notin j.todo \ {c}}
    BY <2>2, <2>3 DEF Unmarked
  <2>5. Unmarked(j) = {m \in Marked(j.news) : m[1] \notin j.todo}
    BY <2>1 DEF Unmarked
  <2>6. <<b, p>> \in Unmarked(job'[w]) => Remembered(b, p)'
    BY DEF Remembered, Unmarked, Marked
  <2>7. CASE b = c /\ p \in Told(j.news, c)
    <3>1. <<b, p>> \in Marked(j.news)
      BY <2>7 DEF Told, Marked, Pairs
    <3>2. <<b, p>> \in Unmarked(job'[w])
      BY <2>4, <2>7, <3>1
    <3> QED
      BY <2>6, <3>2
  <2>8. CASE ~(b = c /\ p \in Told(j.news, c))
    <3>1. p \in knows[b]
      BY <2>1, <2>8 DEF TypeOK
    <3>2. <<b, p>> \in misled => <<b, p>> \in misled'
      BY <2>1, <2>8
    <3>3. <<b, p>> \in Unmarked(j) => <<b, p>> \in Unmarked(job'[w])
      BY <2>4, <2>5
    <3>4. \/ <<b, p>> \in marks \cup misled \cup silenced
          \/ <<b, p>> \in Unmarked(job[w])
          => Remembered(b, p)'
      BY <2>1, <2>6, <3>2, <3>3 DEF Remembered
    <3> QED
      BY <1>1, <2>1, <3>1, <3>4, OthersKeepUnmarked
  <2> QED
    BY <2>7, <2>8
<1>5. ASSUME NEW c \in Brothers, TellRemoved(w, c) PROVE Remembered(b, p)'
  <2> DEFINE mine == {m \in j.gone : m[1] = c}
  <2>1. /\ j.at = "untell" /\ marks' = marks \ mine /\ silenced' = silenced
        /\ misled' = (misled \ mine) \cup {m \in mine : Holds(m[1], m[2])}
        /\ knows' = [knows EXCEPT ![c] = {q \in @ : <<c, q>> \notin mine}]
    BY <1>5 DEF TellRemoved
  <2>2. p \in knows[b] /\ <<b, p>> \notin mine
    <3>1. CASE b = c
      BY <2>1, <3>1 DEF TypeOK
    <3>2. CASE b # c
      BY <2>1, <3>2 DEF TypeOK
    <3> QED
      BY <3>1, <3>2
  <2>3. Unmarked(job[w]) = {}
    BY <2>1 DEF Unmarked
  <2>4. \/ <<b, p>> \in marks \cup misled \cup silenced
        \/ <<b, p>> \in Unmarked(job[w])
        => Remembered(b, p)'
    BY <2>1, <2>2, <2>3 DEF Remembered
  <2>5. PICK next : Goes(w, next)
    BY <1>5 DEF TellRemoved
  <2> QED
    BY <1>1, <2>2, <2>4, <2>5, OthersKeepUnmarked
<1>6. CASE Fails(w)
  <2>1. /\ knows' = knows /\ marks' = marks /\ silenced' = silenced
        /\ misled' = misled \cup (Unmarked(j) \ marks)
    BY <1>6 DEF Fails, AnnounceFails, Lose, tables
  <2>2. PICK next : Goes(w, next)
    BY <1>6 DEF Fails, AnnounceFails, Lose
  <2>3. \/ <<b, p>> \in marks \cup misled \cup silenced
        \/ <<b, p>> \in Unmarked(job[w])
        => Remembered(b, p)'
    BY <2>1 DEF Remembered
  <2> QED
    BY <1>1, <2>1, <2>2, <2>3, OthersKeepUnmarked
<1> QED
  BY <1>2, <1>3, <1>4, <1>5, <1>6 DEF Says

\* The digest: what it adds to the marks and what it forgets.
LEMMA DigestMarks ==
    ASSUME TypeOK, KnownIsMarked, NEW c \in Brothers, SayDigest(c),
           NEW b \in Brothers, NEW p \in Parts, p \in knows'[b], ~Held
    PROVE Remembered(b, p)'
<1> DEFINE new == Lines(c)
           off == Cancelled(c)
           heard == new \cup off # {} /\ ~Digested(c)
           outdated == {m \in new : ~Holds(m[1], m[2]) \/ m \in digest.told \ marks}
                       \cup {m \in Forget(c) : Holds(m[1], m[2])}
<1>1. /\ knows' = IF heard THEN [knows EXCEPT ![c] = (@ \cup PartsOf(new)) \ PartsOf(off)]
                  ELSE knows
      /\ marks' = (marks \cup (new \ digest.told)) \ Forget(c)
      /\ misled' = misled \cup outdated
      /\ silenced' = IF heard THEN silenced \ (new \cup off)
                     ELSE silenced \cup {m \in Forget(c) : m[2] \in knows[c]}
      /\ job' = job
  BY DEF SayDigest, Upserted
<1>2. /\ digest.held \subseteq Pairs /\ digest.told \subseteq Pairs
      /\ knows \in [Brothers -> SUBSET Parts]
  BY DEF TypeOK, Digest
<1>3. /\ new \subseteq digest.held /\ Forget(c) \cap digest.held = {}
      /\ \A m \in new \cup off \cup Forget(c) : m \in Pairs /\ m[1] = c
      /\ heard => off = Forget(c)
  <2>1. new # {} => digest.day \in Recall
    BY DEF Lines
  <2>2. off # {} => digest.day \in Ahead
    BY DEF Cancelled
  <2>3. heard => digest.day \in Ahead
    BY <2>1, <2>2, ProgrammeConstants
  <2>4. heard => off = Forget(c)
    BY <2>3 DEF Cancelled, Forget
  <2>5. new \subseteq digest.held /\ \A m \in new : m[1] = c
    BY DEF Lines
  <2>6. off \subseteq digest.told /\ (\A m \in off : m[1] = c)
    BY DEF Cancelled
  <2>7. Forget(c) \subseteq digest.told /\ (\A m \in Forget(c) : m[1] = c)
        /\ Forget(c) \cap digest.held = {}
    BY DEF Forget
  <2> QED
    BY <1>2, <2>4, <2>5, <2>6, <2>7
<1> HIDE DEF new, off
<1>4. (\E w \in Workers : <<b, p>> \in Unmarked(job[w])) => Remembered(b, p)'
  BY <1>1 DEF Remembered, Unmarked, Marked
<1>5. CASE <<b, p>> \in new
  <2>1. <<b, p>> \notin Forget(c)
    BY <1>3, <1>5
  <2>2. CASE <<b, p>> \in digest.told \ marks
    BY <1>1, <1>5, <2>2 DEF Remembered
  <2>3. CASE <<b, p>> \notin digest.told \ marks
    <3>1. <<b, p>> \in marks'
      BY <1>1, <1>5, <2>1, <2>3
    <3> QED
      BY <3>1 DEF Remembered
  <2> QED
    BY <2>2, <2>3
<1>6. CASE <<b, p>> \notin new
  <2>1. p \in knows[b]
    <3>1. b = c => p \notin PartsOf(new)
      BY <1>2, <1>3, <1>6 DEF PartsOf, Pairs
    <3> QED
      BY <1>1, <1>2, <3>1
  <2>2. Remembered(b, p)
    BY <2>1 DEF KnownIsMarked
  <2>3. <<b, p>> \in Forget(c) => <<b, p>> \in silenced' \/ b # c
    <3>1. ASSUME <<b, p>> \in Forget(c), heard, b = c PROVE FALSE
      <4>1. p \in PartsOf(off)
        BY <1>3, <3>1 DEF PartsOf
      <4> QED
        BY <1>1, <1>2, <3>1, <4>1
    <3>2. ASSUME <<b, p>> \in Forget(c), ~heard, b = c PROVE <<b, p>> \in silenced'
      BY <1>1, <2>1, <3>2
    <3> QED
      BY <3>1, <3>2
  <2>4. CASE <<b, p>> \in Forget(c)
    BY <1>3, <2>3, <2>4 DEF Remembered
  <2>5. CASE <<b, p>> \notin Forget(c)
    <3>1. <<b, p>> \in silenced => <<b, p>> \in silenced'
      BY <1>1, <1>3, <1>6, <2>5
    <3>2. <<b, p>> \in marks => <<b, p>> \in marks'
      BY <1>1, <2>5
    <3>3. <<b, p>> \in misled => <<b, p>> \in misled'
      BY <1>1
    <3> QED
      BY <1>4, <2>2, <3>1, <3>2, <3>3 DEF Remembered
  <2> QED
    BY <2>4, <2>5
<1> QED
  BY <1>5, <1>6

LEMMA RoundMarks ==
    ASSUME TypeOK, KnownIsMarked, RunDue \/ PutAway \/ EveningJob \/ DigestFails \/ Tick,
           NEW b \in Brothers, NEW p \in Parts, p \in knows'[b], ~Held
    PROVE Remembered(b, p)'
<1>1. p \in knows[b] => Remembered(b, p)
  BY DEF KnownIsMarked
<1>2. CASE RunDue
  <2>1. /\ Minute \in Workers /\ job[Minute].at = "idle" /\ tables' = tables
        /\ history' = history /\ \E next : Goes(Minute, next)
    BY <1>2 DEF RunDue, NotifyChanges, Workers, Idle
  <2> QED
    BY <1>1, <2>1, MarksStay DEF tables, history
<1>3. CASE PutAway \/ SendDigests \/ DigestFails \/ Tick
  <2>1. marks' = marks /\ job' = job /\ history' = history
    BY <1>3 DEF PutAway, SendDigests, DigestFails, Tick, tables
  <2> QED
    BY <1>1, <2>1 DEF Remembered, Unmarked, Marked, history
<1>4. ASSUME NEW c \in Brothers, SayDigest(c) PROVE Remembered(b, p)'
  BY <1>4, DigestMarks
<1> QED
  BY <1>2, <1>3, <1>4 DEF EveningJob

LEMMA InitMarks == Init => KnownIsMarked
<1> SUFFICES ASSUME Init, NEW b \in Brothers, NEW p \in Parts, p \in knows[b]
             PROVE <<b, p>> \in marks
  BY DEF KnownIsMarked, Remembered
<1>1. knows = [c \in Brothers |-> PartsOf({m \in marks : m[1] = c})] /\ marks \subseteq Pairs
  BY DEF Init
<1>2. p \in PartsOf({m \in marks : m[1] = b})
  BY <1>1
<1> QED
  BY <1>1, <1>2 DEF PartsOf, Pairs

LEMMA MarksStep == TypeOK /\ KnownIsMarked /\ [Next]_vars => KnownIsMarked'
<1> SUFFICES ASSUME TypeOK, KnownIsMarked, [Next]_vars,
                    NEW b \in Brothers, NEW p \in Parts, p \in knows'[b], ~Held'
             PROVE Remembered(b, p)'
  BY DEF KnownIsMarked
<1>1. p \in knows[b] /\ ~Held => Remembered(b, p)
  BY DEF KnownIsMarked
<1>2. CASE UNCHANGED vars
  BY <1>1, <1>2 DEF vars, tables, history, Held, Remembered, Unmarked, Marked
<1>3. CASE Next
  <2>1. ~Held
    BY <1>3, HeldStays
  <2>2. ASSUME NEW r \in Requests, BeginsSome(r) PROVE Remembered(b, p)'
    <3>1. knows' = knows
      BY <2>2 DEF BeginsSome, BeginUpdate, BeginRemove, BeginRestore, BeginPublish, SendNow,
                  later, Begin, history
    <3> QED
      BY <1>1, <2>1, <2>2, <3>1, BeginMarks
  <2>3. ASSUME NEW r \in Requests, Works(r) PROVE Remembered(b, p)'
    <3>1. knows' = knows
      BY <2>3 DEF Works, SaveUpdate, SaveHistory, ReadRule, SaveRule, MarkRemoved, DeletePart,
                  RestorePart, FlagRestored, PublishDrafts, history
    <3> QED
      BY <1>1, <2>1, <2>3, <3>1, WorkMarks
  <2> QED
    BY <1>3, <2>1, <2>2, <2>3, SayMarks, RoundMarks DEF Next
<1> QED
  BY <1>2, <1>3

\* Whoever believes he has a part that is no longer his can be told so: the mark
\* (assignment_notices) that announceRemovals and the digest go by is there, or is being written,
\* unless he was told from a reading out of date, or the digest's key swallowed the word.
THEOREM BelieversCanBeReached == Spec => []BelieversAreMarked
<1>1. Spec => []KnownIsMarked
  BY InitType, TypeStep, InitMarks, MarksStep, PTL DEF Spec
<1>2. KnownIsMarked => BelieversAreMarked
  BY DEF KnownIsMarked, BelieversAreMarked, Remembered
<1> QED
  BY <1>1, <1>2, PTL

----------------------------------------------------------------------------
(* KnowsOnTheDay.                                                           *)

\* The last evening of the ladder has come; a part was last changed before it; its holder
\* stands since then.
EveningCame == \E m \in Moments : EveningOf[m] = LastRecall /\ m <= now
EveningPassed == \E m \in Moments : EveningOf[m] = LastRecall /\ m < now /\ EveningOf[now] # LastRecall
Early(p) == \A m \in Moments : EveningOf[m] = LastRecall => part[p].edited < m
HisSince(b, p) == Holds(b, p) /\ Early(p)

\* The digests of that evening belong to it.
EveningRead ==
    (digest.day = LastRecall \/ swept = LastRecall \/ \E b \in Brothers : <<LastRecall, b>> \in said)
        => EveningCame

\* A pass of that evening has read what has not changed since.
HeldWasRead ==
    digest.day = LastRecall =>
        \A b \in Brothers, p \in Parts : HisSince(b, p) => <<b, p>> \in digest.held

\* Whoever the pass is through with, and everybody after it, has had that evening's digest.
SaidAfterwards ==
    \A b \in Brothers, p \in Parts :
        (HisSince(b, p) /\ \/ digest.day = LastRecall /\ b \notin digest.todo
                           \/ swept = LastRecall
                           \/ EveningPassed)
        => <<LastRecall, b>> \in said

\* The digest told him, and nothing has taken it back since.
SaidIsKnown ==
    \A b \in Brothers, p \in Parts :
        (HisSince(b, p) /\ <<LastRecall, b>> \in said /\ <<b, p>> \notin misled) => p \in knows[b]

DigestInv == EveningRead /\ HeldWasRead /\ SaidAfterwards /\ SaidIsKnown

LEMMA LastRecallIs ==
    /\ LastRecall \in Recall /\ LastRecall \in Nat \ {0} /\ LastRecall \in Ahead
    /\ \E m \in Moments : EveningOf[m] = LastRecall
<1>1. PICK m \in Moments : EveningOf[m] \in Recall /\ \A e \in Recall : e <= EveningOf[m]
  BY LadderEnds
<1>2. Recall \subseteq Nat \ {0} /\ Recall \subseteq Ahead
  BY ProgrammeConstants
<1>3. LastRecall \in Recall /\ \A f \in Recall : f <= LastRecall
  <2>1. \E e \in Recall : \A f \in Recall : f <= e
    BY <1>1
  <2> QED
    BY <2>1 DEF LastRecall
<1>4. EveningOf[m] = LastRecall
  <2>1. EveningOf[m] \in Nat /\ LastRecall \in Nat
    BY <1>1, <1>2, <1>3
  <2>2. EveningOf[m] <= LastRecall /\ LastRecall <= EveningOf[m]
    BY <1>1, <1>3
  <2> QED
    BY <2>1, <2>2
<1> QED
  BY <1>2, <1>3, <1>4

\* Whatever changes a row stamps it with the moment.
LEMMA SavedStamp ==
    ASSUME TypeOK, NEW p \in Parts, NEW row \in Row
    PROVE Saved(p, row) = part[p] \/ Saved(p, row).edited = now
BY DEF Saved, Row

LEMMA FlagsStamp ==
    ASSUME TypeOK, NEW S, NEW p \in Parts
    PROVE /\ WithFlags(S, TRUE)[p] = part[p] \/ WithFlags(S, TRUE)[p].edited = now
          /\ WithFlags(S, FALSE)[p] = part[p] \/ WithFlags(S, FALSE)[p].edited = now
BY DEF WithFlags, TypeOK, Row

LEMMA Stamped ==
    ASSUME TypeOK, Next, NEW p \in Parts
    PROVE part'[p] = part[p] \/ part'[p].edited = now
<1>1. ASSUME NEW r \in Requests, BeginsSome(r) PROVE part' = part
  BY <1>1 DEF BeginsSome, BeginUpdate, BeginRemove, BeginRestore, BeginPublish, SendNow, later,
              Begin, tables
<1>2. ASSUME NEW r \in Requests, Works(r) PROVE part'[p] = part[p] \/ part'[p].edited = now
  <2>1. job[r] \in Job /\ part[p] \in Row
    BY DEF TypeOK, Workers
  <2>2. CASE SaveUpdate(r)
    <3>1. job[r].p \in Parts /\ job[r].new \in Row
      BY <2>1, <2>2, JobFields DEF SaveUpdate
    <3> QED
      BY <2>2, <3>1, SavedStamp DEF SaveUpdate, TypeOK
  <2>3. CASE SaveRule(r)
    <3>1. Mirrored(job[r]) \in Row /\ Prayer \in Parts
      <4>1. job[r].row \in Row /\ job[r].next \in Everybody
        BY <2>1, <2>3, JobFields DEF SaveRule
      <4> QED
        BY <4>1, ProgrammeConstants DEF Mirrored, Row
    <3> QED
      BY <2>3, <3>1, SavedStamp DEF SaveRule, TypeOK
  <2>4. CASE ReadRule(r)
    BY <2>4 DEF ReadRule, tables
  <2>5. CASE MarkRemoved(r) \/ FlagRestored(r)
    <3>1. part' = WithFlags({job[r].p}, TRUE)
      BY <2>5 DEF MarkRemoved, FlagRestored, FlagOf
    <3> QED
      BY <3>1, FlagsStamp
  <2>6. CASE DeletePart(r)
    BY <2>1, <2>6 DEF DeletePart, TypeOK, Row
  <2>7. CASE RestorePart(r)
    BY <2>1, <2>7 DEF RestorePart, TypeOK, Row
  <2>8. CASE PublishDrafts(r)
    BY <2>1, <2>8 DEF PublishDrafts, Row
  <2> QED
    BY <1>2, <2>2, <2>3, <2>4, <2>5, <2>6, <2>7, <2>8 DEF Works
<1>3. ASSUME NEW w \in Workers, Says(w) \/ Fails(w)
      PROVE part'[p] = part[p] \/ part'[p].edited = now
  <2>1. CASE ClearFlags(w)
    BY <2>1, FlagsStamp DEF ClearFlags
  <2>2. CASE EndAnnounce(w)
    BY <2>2, FlagsStamp DEF EndAnnounce
  <2>3. CASE ~ClearFlags(w) /\ ~EndAnnounce(w)
    BY <1>3, <2>3 DEF Says, Fails, MarkTold, ReadStale, Tell, TellRemoved, AnnounceFails, Lose, tables
  <2> QED
    BY <2>1, <2>2, <2>3
<1>4. CASE RunDue \/ PutAway \/ EveningJob \/ DigestFails \/ Tick
  <2>1. CASE PutAway
    BY <2>1, FlagsStamp DEF PutAway
  <2>2. CASE ~PutAway
    BY <1>4, <2>2 DEF RunDue, EveningJob, SendDigests, SayDigest, DigestFails, Tick, tables
  <2> QED
    BY <2>1, <2>2
<1> QED
  BY <1>1, <1>2, <1>3, <1>4 DEF Next

\* Once that evening has come, what counts as standing since before it cannot change any more.
LEMMA NotChangedSince ==
    ASSUME TypeOK, Next, EveningCame, NEW b, NEW p \in Parts, HisSince(b, p)'
    PROVE part'[p] = part[p] /\ HisSince(b, p)
<1>1. PICK m \in Moments : EveningOf[m] = LastRecall /\ m <= now
  BY DEF EveningCame
<1>2. part'[p].edited < m
  BY <1>1 DEF HisSince, Early
<1>3. part'[p] = part[p]
  BY <1>1, <1>2, Stamped DEF TypeOK, Moments
<1> QED
  BY <1>3 DEF HisSince, Early, Holds, Stands

LEMMA EveningStays ==
    ASSUME TypeOK, Next, EveningCame
    PROVE EveningCame'
<1>1. now <= now' /\ now' \in Moments
  BY NowMoves, ProgrammeConstants, SMTT(30) DEF Tick, TypeOK, Moments
<1> QED
  BY <1>1 DEF EveningCame, TypeOK, Moments

\* Whoever holds a part and knows of it goes on knowing, or is misled.
LEMMA KnowsOn ==
    ASSUME TypeOK, Next, NEW b \in Brothers, NEW p \in Parts, Holds(b, p),
           p \in knows[b] \/ <<b, p>> \in misled
    PROVE p \in knows'[b] \/ <<b, p>> \in misled'
<1>1. ASSUME NEW r \in Requests, BeginsSome(r) PROVE knows' = knows /\ misled' = misled
  BY <1>1 DEF BeginsSome, BeginUpdate, BeginRemove, BeginRestore, BeginPublish, SendNow, later,
              Begin, history
<1>2. ASSUME NEW r \in Requests, Works(r) PROVE knows' = knows /\ misled' = misled
  BY <1>2 DEF Works, SaveUpdate, SaveHistory, ReadRule, SaveRule, MarkRemoved, DeletePart,
              RestorePart, FlagRestored, PublishDrafts, history
<1>3. ASSUME NEW w \in Workers, NEW c \in Brothers, Tell(w, c)
      PROVE p \in knows'[b] \/ <<b, p>> \in misled'
  <2>1. /\ knows' = [knows EXCEPT ![c] = @ \cup Told(job[w].news, c)]
        /\ misled' = misled \ ({c} \X Told(job[w].news, c))
    BY <1>3 DEF Tell
  <2> QED
    BY <2>1 DEF TypeOK
<1>4. ASSUME NEW w \in Workers, NEW c \in Brothers, TellRemoved(w, c)
      PROVE p \in knows'[b] \/ <<b, p>> \in misled'
  <2> DEFINE mine == {m \in job[w].gone : m[1] = c}
  <2>1. /\ misled' = (misled \ mine) \cup {m \in mine : Holds(m[1], m[2])}
        /\ knows' = [knows EXCEPT ![c] = {q \in @ : <<c, q>> \notin mine}]
    BY <1>4 DEF TellRemoved
  <2>2. CASE <<b, p>> \in mine
    <3>1. <<b, p>> \in {m \in mine : Holds(m[1], m[2])}
      BY <2>2
    <3> QED
      BY <2>1, <3>1
  <2>3. CASE <<b, p>> \notin mine
    BY <2>1, <2>3 DEF TypeOK
  <2> QED
    BY <2>2, <2>3
<1>5. ASSUME NEW w \in Workers, Says(w) \/ Fails(w)
      PROVE p \in knows'[b] \/ <<b, p>> \in misled'
  <2>1. CASE \E c \in Brothers : Tell(w, c) \/ TellRemoved(w, c)
    BY <1>3, <1>4, <2>1
  <2>2. CASE ~\E c \in Brothers : Tell(w, c) \/ TellRemoved(w, c)
    BY <1>5, <2>2 DEF Says, Fails, ClearFlags, MarkTold, ReadStale, EndAnnounce, AnnounceFails,
                      Lose, history
  <2> QED
    BY <2>1, <2>2
<1>6. ASSUME NEW c \in Brothers, SayDigest(c) PROVE p \in knows'[b] \/ <<b, p>> \in misled'
  <2>1. misled \subseteq misled'
    BY <1>6 DEF SayDigest
  <2>2. CASE p \in knows[b] /\ p \notin knows'[b]
    <3>1. b = c /\ p \in PartsOf(Cancelled(c))
      BY <1>6, <2>2 DEF SayDigest, TypeOK
    <3>2. <<b, p>> \in Forget(c)
      BY <3>1 DEF PartsOf, Cancelled, Forget, TypeOK, Digest, Pairs
    <3>3. <<b, p>> \in {m \in Forget(c) : Holds(m[1], m[2])}
      BY <3>2
    <3> QED
      BY <1>6, <3>3 DEF SayDigest
  <2> QED
    BY <2>1, <2>2
<1>7. ASSUME RunDue \/ PutAway \/ SendDigests \/ DigestFails \/ Tick
      PROVE knows' = knows /\ misled' = misled
  BY <1>7 DEF RunDue, PutAway, SendDigests, DigestFails, Tick, history
<1> QED
  BY <1>1, <1>2, <1>5, <1>6, <1>7 DEF Next, EveningJob

\* Only the evening's job and its failure move the digest.
LEMMA DigestMoves ==
    ASSUME TypeOK, Next
    PROVE \/ digest' = digest /\ swept' = swept /\ said' = said
          \/ SendDigests \/ DigestFails \/ \E c \in Brothers : SayDigest(c)
<1>1. ASSUME NEW r \in Requests, BeginsSome(r) PROVE UNCHANGED <<digest, swept, said>>
  BY <1>1 DEF BeginsSome, BeginUpdate, BeginRemove, BeginRestore, BeginPublish, SendNow, later,
              Begin, tables, evening
<1>2. ASSUME NEW r \in Requests, Works(r) PROVE UNCHANGED <<digest, swept, said>>
  BY <1>2 DEF Works, SaveUpdate, ReadRule, SaveRule, MarkRemoved, DeletePart, RestorePart,
              FlagRestored, PublishDrafts, tables, evening
<1>3. ASSUME NEW w \in Workers, Says(w) \/ Fails(w) PROVE UNCHANGED <<digest, swept, said>>
  BY <1>3 DEF Says, Fails, ClearFlags, MarkTold, ReadStale, EndAnnounce, Tell, TellRemoved,
              AnnounceFails, Lose, tables, evening
<1>4. ASSUME RunDue \/ PutAway \/ Tick PROVE UNCHANGED <<digest, swept, said>>
  BY <1>4 DEF RunDue, PutAway, Tick, tables, evening
<1> QED
  BY <1>1, <1>2, <1>3, <1>4 DEF Next, EveningJob

\* What a digest of that evening says to one it had still to speak to.
LEMMA DigestSays ==
    ASSUME TypeOK, DigestInv, NEW c \in Brothers, SayDigest(c), digest.day = LastRecall
    PROVE /\ said \subseteq said' /\ part' = part /\ now' = now
          /\ \A p \in Parts : HisSince(c, p) => <<LastRecall, c>> \in said'
<1>1. part' = part /\ now' = now /\ said \subseteq said'
  BY DEF SayDigest
<1>2. ASSUME NEW p \in Parts, HisSince(c, p) PROVE <<LastRecall, c>> \in said'
  <2>1. <<c, p>> \in digest.held
    BY <1>2 DEF DigestInv, HeldWasRead
  <2>2. <<c, p>> \in Lines(c)
    BY <2>1, LastRecallIs DEF Lines
  <2> QED
    BY <2>2 DEF SayDigest
<1> QED
  BY <1>1, <1>2

LEMMA EveningReadStep ==
    ASSUME TypeOK, DigestInv, Next
    PROVE EveningRead'
<1>1. EveningCame => EveningCame'
  BY EveningStays
<1>2. CASE digest' = digest /\ swept' = swept /\ said' = said
  BY <1>1, <1>2 DEF DigestInv, EveningRead
<1>3. CASE SendDigests
  <2>1. digest'.day = EveningOf[now] /\ now' = now /\ swept' = swept /\ said' = said
    BY <1>3 DEF SendDigests
  <2>2. EveningOf[now] = LastRecall => EveningCame
    BY DEF EveningCame, TypeOK, Moments
  <2> QED
    BY <1>1, <2>1, <2>2 DEF DigestInv, EveningRead
<1>4. ASSUME NEW c \in Brothers, SayDigest(c) PROVE EveningRead'
  <2>1. /\ digest'.day = digest.day \/ digest'.day = 0
        /\ swept' = swept \/ swept' = digest.day
        /\ said' \subseteq said \cup {<<digest.day, c>>}
    BY <1>4 DEF SayDigest, NoDigest, TypeOK, Digest
  <2>2. LastRecall # 0
    BY LastRecallIs
  <2> QED
    BY <1>1, <2>1, <2>2 DEF DigestInv, EveningRead
<1>5. CASE DigestFails
  <2>1. digest'.day = 0 /\ swept' = swept /\ said' = said /\ LastRecall # 0
    BY <1>5, LastRecallIs DEF DigestFails, NoDigest, tables
  <2> QED
    BY <1>1, <2>1 DEF DigestInv, EveningRead
<1> QED
  BY <1>2, <1>3, <1>4, <1>5, DigestMoves

LEMMA HeldWasReadStep ==
    ASSUME TypeOK, DigestInv, Next
    PROVE HeldWasRead'
<1> SUFFICES ASSUME digest'.day = LastRecall, NEW b \in Brothers, NEW p \in Parts,
                    HisSince(b, p)'
             PROVE <<b, p>> \in digest'.held
  BY DEF HeldWasRead
<1>1. LastRecall # 0
  BY LastRecallIs
<1>2. CASE SendDigests
  <2>1. digest'.held = {m \in Pairs : Holds(m[1], m[2])} /\ part' = part
    BY <1>2 DEF SendDigests
  <2>2. Holds(b, p)
    BY <2>1 DEF HisSince, Holds, Stands
  <2> QED
    BY <2>1, <2>2 DEF Pairs
<1>3. CASE digest'.day = digest.day /\ digest'.held = digest.held
  <2>1. EveningCame
    BY <1>3 DEF DigestInv, EveningRead
  <2>2. HisSince(b, p)
    BY <2>1, NotChangedSince
  <2> QED
    BY <1>3, <2>2 DEF DigestInv, HeldWasRead
<1>4. ASSUME NEW c \in Brothers, SayDigest(c)
      PROVE digest'.day = 0 \/ (digest'.day = digest.day /\ digest'.held = digest.held)
  BY <1>4 DEF SayDigest, NoDigest, TypeOK, Digest
<1>5. CASE DigestFails
  BY <1>1, <1>5 DEF DigestFails, NoDigest
<1> QED
  BY <1>1, <1>2, <1>3, <1>4, <1>5, DigestMoves

LEMMA SaidAfterwardsStep ==
    ASSUME TypeOK, DigestInv, Next
    PROVE SaidAfterwards'
<1> SUFFICES ASSUME NEW b \in Brothers, NEW p \in Parts, HisSince(b, p)',
                    \/ digest'.day = LastRecall /\ b \notin digest'.todo
                    \/ swept' = LastRecall
                    \/ EveningPassed'
             PROVE <<LastRecall, b>> \in said'
  BY DEF SaidAfterwards
<1>1. LastRecall # 0 /\ said \subseteq said'
  BY LastRecallIs, DigestMoves DEF SendDigests, DigestFails, SayDigest, tables
<1>2. ASSUME \/ digest.day = LastRecall /\ b \notin digest.todo
             \/ swept = LastRecall
             \/ EveningPassed
      PROVE <<LastRecall, b>> \in said'
  <2>1. EveningCame
    <3>1. EveningPassed => EveningCame
      BY DEF EveningPassed, EveningCame, TypeOK, Moments
    <3> QED
      BY <1>2, <3>1 DEF DigestInv, EveningRead
  <2>2. HisSince(b, p)
    BY <2>1, NotChangedSince
  <2> QED
    BY <1>1, <1>2, <2>2 DEF DigestInv, SaidAfterwards
<1>3. ASSUME NEW c \in Brothers, SayDigest(c), digest.day = LastRecall, b = c
      PROVE <<LastRecall, b>> \in said'
  <2>1. EveningCame
    BY <1>3 DEF DigestInv, EveningRead
  <2>2. HisSince(b, p)
    BY <2>1, NotChangedSince
  <2> QED
    BY <1>3, <2>2, DigestSays
<1>4. CASE digest'.day = LastRecall /\ b \notin digest'.todo
  <2>1. CASE digest' = digest
    BY <1>2, <1>4, <2>1
  <2>2. CASE SendDigests
    BY <1>4, <2>2 DEF SendDigests
  <2>3. CASE DigestFails
    BY <1>1, <1>4, <2>3 DEF DigestFails, NoDigest
  <2>4. ASSUME NEW c \in Brothers, SayDigest(c) PROVE <<LastRecall, b>> \in said'
    <3>1. digest' = [digest EXCEPT !.todo = @ \ {c}]
      BY <1>1, <1>4, <2>4 DEF SayDigest, NoDigest
    <3>2. digest.day = LastRecall /\ (b \notin digest.todo \/ b = c)
      BY <1>4, <3>1 DEF TypeOK, Digest
    <3> QED
      BY <1>2, <1>3, <2>4, <3>2
  <2> QED
    BY <2>1, <2>2, <2>3, <2>4, DigestMoves
<1>5. CASE swept' = LastRecall
  <2>1. CASE swept' = swept
    BY <1>2, <1>5, <2>1
  <2>2. CASE swept' # swept
    <3>1. PICK c \in Brothers : SayDigest(c)
      BY <2>2, DigestMoves DEF SendDigests, DigestFails
    <3>2. digest.todo = {c} /\ digest.day = LastRecall
      BY <1>5, <2>2, <3>1 DEF SayDigest
    <3> QED
      BY <1>2, <1>3, <3>1, <3>2
  <2> QED
    BY <2>1, <2>2
<1>6. CASE EveningPassed'
  <2>1. PICK m \in Moments : /\ EveningOf[m] = LastRecall /\ m < now'
                             /\ EveningOf[now'] # LastRecall
    BY <1>6 DEF EveningPassed
  <2>2. CASE now' = now
    <3>1. EveningPassed
      BY <2>1, <2>2 DEF EveningPassed
    <3> QED
      BY <1>2, <3>1
  <2>3. CASE Tick
    <3>1. now' = now + 1 /\ now < Last /\ now \in Moments /\ (EveningOver => swept = EveningOf[now])
      BY <2>3 DEF Tick, TypeOK
    <3>2. CASE EveningOf[now] = LastRecall
      <4>1. EveningOver
        BY <1>1, <2>1, <3>1, <3>2 DEF EveningOver
      <4>2. swept = LastRecall
        BY <3>1, <3>2, <4>1
      <4> QED
        BY <1>2, <4>2
    <3>3. CASE EveningOf[now] # LastRecall
      <4>1. m < now
        BY <2>1, <3>1, <3>3 DEF Moments
      <4>2. EveningPassed
        BY <2>1, <3>3, <4>1 DEF EveningPassed
      <4> QED
        BY <1>2, <4>2
    <3> QED
      BY <3>2, <3>3
  <2> QED
    BY <2>2, <2>3, NowMoves
<1> QED
  BY <1>4, <1>5, <1>6

LEMMA SaidIsKnownStep ==
    ASSUME TypeOK, DigestInv, Next
    PROVE SaidIsKnown'
<1> SUFFICES ASSUME NEW b \in Brothers, NEW p \in Parts, HisSince(b, p)',
                    <<LastRecall, b>> \in said', <<b, p>> \notin misled'
             PROVE p \in knows'[b]
  BY DEF SaidIsKnown
<1>1. CASE <<LastRecall, b>> \in said
  <2>1. EveningCame
    BY <1>1 DEF DigestInv, EveningRead
  <2>2. HisSince(b, p)
    BY <2>1, NotChangedSince
  <2>3. p \in knows[b] \/ <<b, p>> \in misled
    BY <1>1, <2>2 DEF DigestInv, SaidIsKnown
  <2> QED
    BY <2>2, <2>3, KnowsOn DEF HisSince
<1>2. CASE <<LastRecall, b>> \notin said
  <2>1. PICK c \in Brothers : SayDigest(c)
    BY <1>2, DigestMoves DEF SendDigests, DigestFails, tables
  <2>2. /\ c = b /\ digest.day = LastRecall /\ Lines(b) \cup Cancelled(b) # {}
        /\ part' = part
    BY <1>2, <2>1 DEF SayDigest
  <2>3. EveningCame
    BY <2>2 DEF DigestInv, EveningRead
  <2>4. <<b, p>> \in digest.held
    BY <2>2, <2>3, NotChangedSince DEF DigestInv, HeldWasRead
  <2>5. <<b, p>> \in Lines(b)
    BY <2>2, <2>4, LastRecallIs DEF Lines
  <2>6. p \in PartsOf(Lines(b)) /\ p \notin PartsOf(Cancelled(b))
    <3>1. p \in PartsOf(Lines(b))
      BY <2>5 DEF PartsOf
    <3>2. ASSUME NEW m \in Cancelled(b), m[2] = p PROVE FALSE
      <4>1. m = <<b, p>>
        BY <3>2 DEF Cancelled, TypeOK, Digest, Pairs
      <4> QED
        BY <2>4, <3>2, <4>1 DEF Cancelled
    <3> QED
      BY <3>1, <3>2 DEF PartsOf
  <2>7. ~Digested(b)
    BY <1>2, <2>2 DEF Digested
  <2> QED
    BY <2>1, <2>2, <2>6, <2>7 DEF SayDigest, TypeOK
<1> QED
  BY <1>1, <1>2

LEMMA InitDigest == Init => DigestInv
<1> SUFFICES ASSUME Init PROVE DigestInv
  OBVIOUS
<1>1. LastRecall # 0 /\ digest.day = 0 /\ swept = 0 /\ said = {} /\ now = 1
  BY LastRecallIs DEF Init, NoDigest
<1>2. ~EveningPassed
  BY <1>1 DEF EveningPassed, Moments
<1> QED
  BY <1>1, <1>2 DEF DigestInv, EveningRead, HeldWasRead, SaidAfterwards, SaidIsKnown

LEMMA DigestStep == TypeOK /\ DigestInv /\ [Next]_vars => DigestInv'
<1> SUFFICES ASSUME TypeOK, DigestInv, [Next]_vars PROVE DigestInv'
  OBVIOUS
<1>1. CASE UNCHANGED vars
  BY <1>1 DEF vars, tables, evening, history, DigestInv, EveningRead, HeldWasRead, SaidAfterwards,
              SaidIsKnown, EveningCame, EveningPassed, HisSince, Early, Holds, Stands
<1>2. CASE Next
  BY <1>2, EveningReadStep, HeldWasReadStep, SaidAfterwardsStep, SaidIsKnownStep DEF DigestInv
<1> QED
  BY <1>1, <1>2

LEMMA EverybodyKnows == TypeOK /\ DigestInv => KnowsOnTheDay
<1> SUFFICES ASSUME TypeOK, DigestInv, NEW b \in Brothers, NEW p \in Parts,
                    now >= Begins, HisSince(b, p), <<b, p>> \notin misled
             PROVE p \in knows[b]
  BY DEF KnowsOnTheDay, HisSince, Early
<1>1. PICK m \in Moments : EveningOf[m] = LastRecall
  BY LastRecallIs
<1>2. m < Begins /\ EveningOf[now] # LastRecall
  BY <1>1, LastRecallIs, ProgrammeConstants DEF TypeOK, Moments
<1>3. EveningPassed
  BY <1>1, <1>2, ProgrammeConstants DEF EveningPassed, TypeOK, Moments
<1> QED
  BY <1>3 DEF DigestInv, SaidAfterwards, SaidIsKnown

\* The ladder of evenings (digest.ts) makes good what was lost under way: however a part was
\* published, and whatever failed, whoever has held it unchanged since before the last evening
\* of the ladder knows of it when the meeting begins.
THEOREM TheLadderTellsEverybody == Spec => []KnowsOnTheDay
<1>1. Spec => [](TypeOK /\ DigestInv)
  BY InitType, TypeStep, InitDigest, DigestStep, PTL DEF Spec
<1> QED
  BY <1>1, EverybodyKnows, PTL
=============================================================================
