------------------------ MODULE FieldMeetingsProofs ------------------------
(* What the planner of the field-service meetings promises, for any number  *)
(* of brothers, days, meetings, requests and failures: the template is made *)
(* into meetings once, and those who conduct know it.                       *)
EXTENDS FieldMeetings, TLAPS

----------------------------------------------------------------------------
(* Types.                                                                   *)

LEMMA LastDayIsADay == LastDay \in Days /\ LastDay \in Nat
<1>1. \E d \in Days : \A e \in Days : e <= d
  BY FieldConstants
<1>2. LastDay \in Days
  BY <1>1, Zenon DEF LastDay
<1> QED
  BY <1>2, FieldConstants

LEMMA NoRowIsARow ==
    /\ NoRow \in Row
    /\ NoRow.is = "none" /\ NoRow.who = Nobody /\ ~NoRow.pub /\ ~NoRow.off /\ NoRow.made = ByHand
<1>1. PICK d \in Days, k \in Kinds : <<d, k>> \in Slots
  BY FieldConstants DEF Slots
<1>2. (CHOOSE s \in Slots : TRUE) \in Slots
  BY <1>1
<1> QED
  BY <1>2 DEF NoRow, Row, Who

LEMMA SlotParts ==
    /\ \A s \in Slots : DayOf(s) \in Days /\ DayOf(s) \in Nat /\ KindOf(s) \in Kinds /\ s = <<DayOf(s), KindOf(s)>>
    /\ \A d \in Days, k \in Kinds : /\ <<d, k>> \in Slots
                                    /\ DayOf(<<d, k>>) = d /\ KindOf(<<d, k>>) = k
<1>1. ASSUME NEW s \in Slots
      PROVE DayOf(s) \in Days /\ DayOf(s) \in Nat /\ KindOf(s) \in Kinds /\ s = <<DayOf(s), KindOf(s)>>
  <2>1. PICK d \in Days, k \in Kinds : s = <<d, k>>
    BY DEF Slots
  <2>2. DayOf(s) = d /\ KindOf(s) = k
    BY <2>1 DEF DayOf, KindOf
  <2> QED
    BY <2>1, <2>2, FieldConstants
<1>2. \A d \in Days, k \in Kinds : /\ <<d, k>> \in Slots
                                 /\ DayOf(<<d, k>>) = d /\ KindOf(<<d, k>>) = k
  BY DEF Slots, DayOf, KindOf
<1> QED
  BY <1>1, <1>2

\* A job at a step has what that step works with.
LEMMA JobFields ==
    ASSUME NEW j \in Job
    PROVE /\ j.at = "insert" => j.row \in Row
          /\ j.at \in {"save", "delete", "remember", "tell"} =>
                /\ j.id \in Ids /\ j.was \in Row /\ j.row \in Row
                /\ j = [at |-> j.at, id |-> j.id, was |-> j.was, row |-> j.row]
          /\ j.at \in {"publish", "announce", "published"} =>
                /\ j.read \in SUBSET (Ids \X Row) /\ j.held \in SUBSET Ids
                /\ j = [at |-> j.at, read |-> j.read, held |-> j.held]
          /\ j.at = "look" => j.gone \in SUBSET Slots
          /\ j.at = "write" => j.new \in SUBSET Row
          /\ j.at = "fill" => j.picks \in SUBSET (Ids \X Brothers)
          /\ j.at \in {"mark", "remind"} => j.any \in BOOLEAN
BY DEF Job, Read

\* A worker goes on to its next step, and no other does.
LEMMA GoesOn ==
    ASSUME job \in [Workers -> Job], NEW w \in Workers, NEW next, Goes(w, next)
    PROVE /\ job'[w] = next
          /\ \A v \in Workers \ {w} : job'[v] = job[v]
          /\ next \in Job => job' \in [Workers -> Job]
BY DEF Goes

LEMMA IdleJob == Idle \in Job /\ Idle.at = "idle"
BY DEF Idle, Job

\* A job of one row's messages goes on with the same row.
LEMMA OnTheRow ==
    ASSUME NEW j \in Job, j.at \in {"save", "delete", "remember", "tell"},
           NEW at \in {"remember", "tell"}
    PROVE LET n == [j EXCEPT !.at = at] IN
          n \in Job /\ n.at = at /\ n.id = j.id /\ n.was = j.was /\ n.row = j.row
<1>1. j = [at |-> j.at, id |-> j.id, was |-> j.was, row |-> j.row] /\ j.id \in Ids
      /\ j.was \in Row /\ j.row \in Row
  BY JobFields
<1>2. [j EXCEPT !.at = at] = [at |-> at, id |-> j.id, was |-> j.was, row |-> j.row]
  BY <1>1
<1> QED
  BY <1>1, <1>2 DEF Job

\* So does a job of a publication.
LEMMA OnTheMonth ==
    ASSUME NEW j \in Job, j.at \in {"publish", "announce", "published"},
           NEW at \in {"publish", "announce", "published"}
    PROVE LET n == [j EXCEPT !.at = at] IN
          n \in Job /\ n.at = at /\ n.read = j.read /\ n.held = j.held
<1>1. j = [at |-> j.at, read |-> j.read, held |-> j.held] /\ j.read \in SUBSET (Ids \X Row)
      /\ j.held \in SUBSET Ids
  BY JobFields
<1>2. [j EXCEPT !.at = at] = [at |-> at, read |-> j.read, held |-> j.held]
  BY <1>1
<1> QED
  BY <1>1, <1>2 DEF Job, Read

\* A request that begins is a well-formed job, and nothing else changes.
LEMMA BeginType ==
    ASSUME TypeOK, NEW r \in Requests, NEW kind, NEW next \in Job, Begin(r, kind), Goes(r, next)
    PROVE TypeOK'
<1>1. job' \in [Workers -> Job]
  BY GoesOn DEF Workers, TypeOK
<1>2. used' \in 0..MaxUsed
  BY FieldConstants DEF Begin, TypeOK
<1> QED
  BY <1>1, <1>2 DEF Begin, TypeOK, tables, history

\* Rows written from other rows are rows.
LEMMA ChangedRow ==
    ASSUME NEW row \in Row
    PROVE /\ \A s \in Slots, who \in Who :
               LET n == [row EXCEPT !.at = s, !.who = who] IN
               /\ n \in Row /\ n.is = row.is /\ n.at = s /\ n.who = who /\ n.pub = row.pub
               /\ n.off = row.off /\ n.made = row.made
          /\ \A who \in Who : LET n == [row EXCEPT !.who = who] IN
               /\ n \in Row /\ n.is = row.is /\ n.at = row.at /\ n.pub = row.pub
               /\ n.off = row.off /\ n.made = row.made
          /\ LET n == [row EXCEPT !.off = TRUE] IN
               /\ n \in Row /\ n.is = row.is /\ n.at = row.at /\ n.who = row.who /\ n.pub = row.pub
               /\ n.off /\ n.made = row.made
          /\ LET n == [row EXCEPT !.off = FALSE] IN
               /\ n \in Row /\ n.is = row.is /\ n.at = row.at /\ n.who = row.who /\ n.pub = row.pub
               /\ ~n.off /\ n.made = row.made
          /\ LET n == [row EXCEPT !.pub = TRUE] IN
               /\ n \in Row /\ n.is = row.is /\ n.at = row.at /\ n.who = row.who /\ n.pub
               /\ n.off = row.off /\ n.made = row.made
          /\ LET n == [row EXCEPT !.is = "gone"] IN
               /\ n \in Row /\ n.is = "gone" /\ n.at = row.at /\ n.who = row.who /\ n.pub = row.pub
               /\ n.off = row.off /\ n.made = row.made
BY DEF Row

\* The row a request creates, and one a preparation does.
CreatedRow(s, who, draft) ==
    [NoRow EXCEPT !.is = "there", !.at = s, !.who = who, !.pub = ~draft]
PreparedRow(s, who) == [NoRow EXCEPT !.is = "there", !.at = s, !.who = who, !.made = s]

LEMMA NewRows ==
    ASSUME NEW s \in Slots, NEW who \in Who
    PROVE /\ \A draft \in BOOLEAN : LET n == CreatedRow(s, who, draft) IN
               /\ n \in Row /\ n.is = "there" /\ n.at = s /\ n.who = who /\ n.pub = ~draft
               /\ ~n.off /\ n.made = ByHand
          /\ LET n == PreparedRow(s, who) IN
               /\ n \in Row /\ n.is = "there" /\ n.at = s /\ n.who = who /\ ~n.pub
               /\ ~n.off /\ n.made = s
<1>1. NoRow \in Row /\ ~NoRow.pub /\ ~NoRow.off /\ NoRow.made = ByHand
  BY NoRowIsARow
<1>2. /\ CreatedRow(s, who, TRUE) \in Row /\ CreatedRow(s, who, FALSE) \in Row
      /\ CreatedRow(s, who, TRUE).pub = FALSE /\ CreatedRow(s, who, FALSE).pub = TRUE
  BY <1>1 DEF CreatedRow, Row
<1>3. \A draft \in BOOLEAN : LET n == CreatedRow(s, who, draft) IN
        n.is = "there" /\ n.at = s /\ n.who = who /\ ~n.off /\ n.made = ByHand
  BY <1>1 DEF CreatedRow, Row
<1> QED
  BY <1>1, <1>2, <1>3 DEF PreparedRow, Row

\* Messages about a row speak of its conductors and of days that are.
LEMMA OfType ==
    ASSUME NEW id \in Ids, NEW was \in Row, NEW row \in Row
    PROVE /\ Of(id, Adds(was, row)) \subseteq Expectations
          /\ Of(id, Slips(was, row)) \subseteq Expectations
          /\ Of(id, {<<b, DayOf(row.at)>> : b \in Goer(row)}) \subseteq Expectations
          /\ \A at : Moved([at |-> at, id |-> id, was |-> was, row |-> row]) \subseteq Expectations
<1>1. \A x \in Row : Goer(x) \subseteq Brothers /\ DayOf(x.at) \in Days
  BY SlotParts DEF Goer, Row, Who
<1>2. ASSUME NEW x \in Row, NEW d \in Days
      PROVE Of(id, {<<b, d>> : b \in Goer(x)}) \subseteq Expectations
  BY <1>1 DEF Of, Expectations
<1>3. Of(id, {}) \subseteq Expectations
  BY DEF Of
<1>4. Of(id, Adds(was, row)) \subseteq Expectations
  BY <1>1, <1>2, <1>3 DEF Adds
<1>5. Of(id, Slips(was, row)) \subseteq Expectations
  BY <1>1, <1>2, <1>3 DEF Slips
<1>6. \A at : Moved([at |-> at, id |-> id, was |-> was, row |-> row]) \subseteq Expectations
  BY <1>1, <1>2 DEF Moved
<1> QED
  BY <1>1, <1>2, <1>4, <1>5, <1>6

LEMMA AsReadType ==
    ASSUME TypeOK, NEW S \in SUBSET Ids
    PROVE /\ AsRead(S) \in Read
          /\ \A x \in AsRead(S) : x[1] \in S /\ x[2] = meeting[x[1]] /\ x = <<x[1], meeting[x[1]]>>
BY DEF TypeOK, AsRead, Read

LEMMA RowJob ==
    ASSUME NEW at \in {"save", "delete", "remember", "tell"}, NEW id \in Ids, NEW was \in Row, NEW row \in Row
    PROVE [at |-> at, id |-> id, was |-> was, row |-> row] \in Job
BY DEF Job

LEMMA BeginsType == ASSUME TypeOK, NEW r \in Requests, Begins(r) PROVE TypeOK'
<1> USE DEF TypeOK
<1>1. CASE BeginCreate(r)
  <2>1. PICK s \in Slots, who \in Who, draft \in BOOLEAN :
          Goes(r, [at |-> "insert", row |-> CreatedRow(s, who, draft)])
    BY <1>1 DEF BeginCreate, CreatedRow
  <2>2. [at |-> "insert", row |-> CreatedRow(s, who, draft)] \in Job
    BY NewRows DEF Job
  <2> QED
    BY <1>1, <2>1, <2>2, BeginType DEF BeginCreate
<1>2. CASE BeginUpdate(r)
  <2>1. PICK id \in Ids, d \in Days, who \in Who :
          Saves(r, id, [meeting[id] EXCEPT !.at = <<d, KindOf(meeting[id].at)>>, !.who = who])
    BY <1>2 DEF BeginUpdate
  <2> DEFINE row == [meeting[id] EXCEPT !.at = <<d, KindOf(meeting[id].at)>>, !.who = who]
  <2>2. meeting[id] \in Row /\ <<d, KindOf(meeting[id].at)>> \in Slots
    BY SlotParts DEF Row
  <2>3. row \in Row
    BY <2>2, ChangedRow
  <2> HIDE DEF row
  <2>4. [at |-> "save", id |-> id, was |-> meeting[id], row |-> row] \in Job
    BY <2>2, <2>3 DEF Job
  <2>5. Goes(r, [at |-> "save", id |-> id, was |-> meeting[id], row |-> row])
    BY <2>1 DEF Saves, row
  <2> QED
    BY <1>2, <2>4, <2>5, BeginType DEF BeginUpdate
<1>3. CASE BeginCancel(r)
  <2>1. PICK id \in Ids : Saves(r, id, [meeting[id] EXCEPT !.off = TRUE])
    BY <1>3 DEF BeginCancel
  <2>2. [at |-> "save", id |-> id, was |-> meeting[id], row |-> [meeting[id] EXCEPT !.off = TRUE]] \in Job
    <3>1. meeting[id] \in Row
      OBVIOUS
    <3>2. [meeting[id] EXCEPT !.off = TRUE] \in Row
      BY <3>1, ChangedRow
    <3> QED
      BY <3>1, <3>2, RowJob
  <2> QED
    BY <1>3, <2>1, <2>2, BeginType DEF BeginCancel, Saves
<1>4. CASE BeginRestore(r)
  <2>1. PICK id \in Ids : Saves(r, id, [meeting[id] EXCEPT !.off = FALSE])
    BY <1>4 DEF BeginRestore
  <2>2. [at |-> "save", id |-> id, was |-> meeting[id], row |-> [meeting[id] EXCEPT !.off = FALSE]] \in Job
    <3>1. meeting[id] \in Row
      OBVIOUS
    <3>2. [meeting[id] EXCEPT !.off = FALSE] \in Row
      BY <3>1, ChangedRow
    <3> QED
      BY <3>1, <3>2, RowJob
  <2> QED
    BY <1>4, <2>1, <2>2, BeginType DEF BeginRestore, Saves
<1>5. CASE BeginRemove(r)
  <2>1. PICK id \in Ids : Goes(r, [at |-> "delete", id |-> id, was |-> meeting[id],
                                   row |-> [meeting[id] EXCEPT !.is = "gone"]])
    BY <1>5 DEF BeginRemove
  <2>2. [at |-> "delete", id |-> id, was |-> meeting[id], row |-> [meeting[id] EXCEPT !.is = "gone"]] \in Job
    <3>1. meeting[id] \in Row
      OBVIOUS
    <3>2. [meeting[id] EXCEPT !.is = "gone"] \in Row
      BY <3>1, ChangedRow
    <3> QED
      BY <3>1, <3>2, RowJob
  <2> QED
    BY <1>5, <2>1, <2>2, BeginType DEF BeginRemove
<1>6. CASE BeginPublish(r)
  <2>1. DraftsToCome \in SUBSET Ids
    BY DEF DraftsToCome
  <2>2. [at |-> "publish", read |-> AsRead(DraftsToCome), held |-> {}] \in Job
    BY <2>1, AsReadType DEF Job
  <2> QED
    BY <1>6, <2>2, BeginType DEF BeginPublish
<1>7. CASE BeginPrepare(r)
  <2>1. [at |-> "asked"] \in Job
    BY DEF Job
  <2> QED
    BY <1>7, <2>1, BeginType DEF BeginPrepare
<1>8. CASE BeginFill(r)
  <2>1. PICK picks \in [Unled -> Who] :
          Goes(r, [at |-> "fill", picks |-> {<<id, picks[id]>> : id \in {i \in Unled : picks[i] # Nobody}}])
    BY <1>8 DEF BeginFill
  <2>2. Unled \subseteq Ids
    BY DEF Unled, DraftsToCome
  <2>3. {<<id, picks[id]>> : id \in {i \in Unled : picks[i] # Nobody}} \subseteq Ids \X Brothers
    BY <2>2 DEF Who
  <2>4. [at |-> "fill", picks |-> {<<id, picks[id]>> : id \in {i \in Unled : picks[i] # Nobody}}] \in Job
    BY <2>3 DEF Job
  <2> QED
    BY <1>8, <2>1, <2>4, BeginType DEF BeginFill
<1>9. CASE EnterAbsence(r)
  <2>1. away' \subseteq Brothers /\ used' \in 0..MaxUsed
    BY <1>9, FieldConstants DEF EnterAbsence
  <2> QED
    BY <1>9, <2>1 DEF EnterAbsence, history
<1> QED
  BY <1>1, <1>2, <1>3, <1>4, <1>5, <1>6, <1>7, <1>8, <1>9 DEF Begins

LEMMA EndsType ==
    ASSUME TypeOK, NEW w \in Workers, Ends(w)
    PROVE job' \in [Workers -> Job] /\ ran' \in BOOLEAN
<1>1. Goes(w, Idle)
  BY DEF Ends
<1>2. job' \in [Workers -> Job]
  BY <1>1, GoesOn, IdleJob DEF TypeOK
<1>3. ran' \in BOOLEAN
  BY DEF Ends, TypeOK
<1> QED
  BY <1>2, <1>3

\* What a save or a removal adds to the history is of its kind.
LEMMA SavedType ==
    ASSUME TypeOK, NEW r \in Requests, job[r].at \in {"save", "delete", "remember", "tell"}
    PROVE /\ job[r] \in Job /\ job[r].id \in Ids /\ job[r].was \in Row /\ job[r].row \in Row
          /\ meeting[job[r].id] \in Row
          /\ job[r].was.at \in Slots /\ meeting[job[r].id].at \in Slots
          /\ LosesUnseen(job[r].was.at) \subseteq Slots
          /\ LosesUnseen(meeting[job[r].id].at) \subseteq Slots
<1>1. job[r] \in Job /\ job[r].id \in Ids /\ job[r].was \in Row /\ job[r].row \in Row
  BY JobFields DEF TypeOK, Workers
<1>2. meeting[job[r].id] \in Row
  BY <1>1 DEF TypeOK
<1>3. job[r].was.at \in Slots /\ meeting[job[r].id].at \in Slots
  BY <1>1, <1>2 DEF Row
<1>4. \A s \in Slots : LosesUnseen(s) \subseteq Slots
  BY DEF LosesUnseen
<1> QED
  BY <1>1, <1>2, <1>3, <1>4

LEMMA WorksType == ASSUME TypeOK, NEW r \in Requests, Works(r) PROVE TypeOK'
<1> DEFINE j == job[r]
<1>0. r \in Workers /\ job \in [Workers -> Job] /\ job[r] \in Job
  BY DEF Workers, TypeOK
<1>1. CASE InsertMeeting(r)
  <2>1. job[r].row \in Row
    BY <1>0, <1>1, JobFields DEF InsertMeeting
  <2>2. PICK id \in Fresh :
          /\ meeting' = [meeting EXCEPT ![id] = job[r].row]
          /\ Goes(r, [at |-> "tell", id |-> id, was |-> NoRow, row |-> job[r].row])
    BY <1>1 DEF InsertMeeting
  <2>3. id \in Ids
    BY <2>2 DEF Fresh
  <2>4. [at |-> "tell", id |-> id, was |-> NoRow, row |-> job[r].row] \in Job
    BY <2>1, <2>3, NoRowIsARow, RowJob
  <2>5. job' \in [Workers -> Job]
    BY <1>0, <2>2, <2>4, GoesOn
  <2>6. meeting' \in [Ids -> Row]
    BY <2>1, <2>2 DEF TypeOK
  <2> QED
    BY <1>1, <2>5, <2>6 DEF InsertMeeting, TypeOK, history
<1>2. CASE SaveMeeting(r)
  <2>1. j.at = "save" /\ j.id \in Ids /\ j.was \in Row /\ j.row \in Row /\ meeting[j.id] \in Row
        /\ j.was.at \in Slots /\ meeting[j.id].at \in Slots
        /\ LosesUnseen(j.was.at) \subseteq Slots
    BY <1>2, SavedType DEF SaveMeeting
  <2>2. \A at \in {"remember", "tell"} : [j EXCEPT !.at = at] \in Job
    BY <1>0, <2>1, OnTheRow
  <2>3. Goes(r, [j EXCEPT !.at = IF Moves(j) THEN "remember" ELSE "tell"])
    BY <1>2 DEF SaveMeeting
  <2>4. job' \in [Workers -> Job]
    BY <1>0, <2>2, <2>3, GoesOn
  <2>5. meeting' \in [Ids -> Row]
    BY <1>2, <2>1 DEF SaveMeeting, TypeOK
  <2>6. raced' \subseteq Ids /\ forgotten' \subseteq Slots
    BY <1>2, <2>1 DEF SaveMeeting, TypeOK
  <2> QED
    BY <1>2, <2>4, <2>5, <2>6 DEF SaveMeeting, TypeOK
<1>3. CASE DeleteMeeting(r)
  <2>1. j.at = "delete" /\ j.id \in Ids /\ j.was \in Row /\ j.row \in Row /\ meeting[j.id] \in Row
        /\ j.was.at \in Slots /\ meeting[j.id].at \in Slots
        /\ LosesUnseen(meeting[j.id].at) \subseteq Slots
    BY <1>3, SavedType DEF DeleteMeeting
  <2>2. [j EXCEPT !.at = "remember"] \in Job
    BY <1>0, <2>1, OnTheRow
  <2>3. Goes(r, [j EXCEPT !.at = "remember"])
    BY <1>3 DEF DeleteMeeting
  <2>4. job' \in [Workers -> Job]
    BY <1>0, <2>2, <2>3, GoesOn
  <2>5. meeting' = [meeting EXCEPT ![j.id].is = "gone"]
    BY <1>3 DEF DeleteMeeting
  <2>6. [meeting[j.id] EXCEPT !.is = "gone"] \in Row
    BY <2>1, ChangedRow
  <2>7. meeting' \in [Ids -> Row]
    BY <2>1, <2>5, <2>6 DEF TypeOK
  <2>8. raced' \subseteq Ids /\ forgotten' \subseteq Slots
    BY <1>3, <2>1 DEF DeleteMeeting, TypeOK
  <2> QED
    BY <1>3, <2>4, <2>7, <2>8 DEF DeleteMeeting, TypeOK
<1>4. CASE Remember(r)
  <2>1. j.at = "remember" /\ j.was.at \in Slots
    BY <1>4, SavedType DEF Remember
  <2>2. [j EXCEPT !.at = "tell"] \in Job
    BY <1>0, <2>1, OnTheRow
  <2>3. job' \in [Workers -> Job]
    BY <1>0, <1>4, <2>2, GoesOn DEF Remember
  <2>4. removed' \subseteq Slots
    BY <1>4, <2>1 DEF Remember, TypeOK
  <2> QED
    BY <1>4, <2>3, <2>4 DEF Remember, TypeOK, history
<1>5. CASE Tell(r)
  <2>1. j.at = "tell" /\ j.id \in Ids /\ j.was \in Row /\ j.row \in Row
    BY <1>5, SavedType DEF Tell
  <2>2. j = [at |-> "tell", id |-> j.id, was |-> j.was, row |-> j.row]
    BY <1>0, <2>1, JobFields
  <2>3. /\ Moved(j) \subseteq Expectations
        /\ Of(j.id, Adds(j.was, j.row)) \subseteq Expectations
        /\ Of(j.id, Slips(j.was, j.row)) \subseteq Expectations
    BY <2>1, <2>2, OfType
  <2>4. knows' \subseteq Expectations /\ keys' \subseteq Expectations /\ slipped' \subseteq Expectations
    BY <1>5, <2>3 DEF Tell, TypeOK
  <2>5. muted' \subseteq Ids /\ raced' \subseteq Ids
    BY <1>5, <2>1 DEF Tell, TypeOK
  <2>6. job' \in [Workers -> Job] /\ ran' \in BOOLEAN
    BY <1>0, <1>5, EndsType DEF Tell
  <2> QED
    BY <1>5, <2>4, <2>5, <2>6 DEF Tell, TypeOK
<1>6. CASE FillConductors(r)
  <2>1. j.picks \in SUBSET (Ids \X Brothers)
    BY <1>0, <1>6, JobFields DEF FillConductors
  <2> DEFINE still == {x \in j.picks : StillUnled(x[1])}
             of(id) == (CHOOSE x \in still : x[1] = id)[2]
  <2>2. meeting' = [id \in Ids |-> IF \E x \in still : x[1] = id
                                   THEN [meeting[id] EXCEPT !.who = of(id)] ELSE meeting[id]]
    BY <1>6 DEF FillConductors
  <2>3. ASSUME NEW id \in Ids, \E x \in still : x[1] = id
        PROVE [meeting[id] EXCEPT !.who = of(id)] \in Row
    <3>1. (CHOOSE x \in still : x[1] = id) \in still
      BY <2>3
    <3>2. of(id) \in Who
      BY <2>1, <3>1 DEF Who
    <3> QED
      BY <3>2, ChangedRow, ZenonT(40) DEF TypeOK
  <2>4. meeting' \in [Ids -> Row]
    <3> HIDE DEF still, of
    <3> QED
      BY <2>2, <2>3 DEF TypeOK
  <2>5. job' \in [Workers -> Job]
    BY <1>0, <1>6, GoesOn, IdleJob DEF FillConductors
  <2> QED
    BY <1>6, <2>4, <2>5 DEF FillConductors, TypeOK, history
<1> QED
  BY <1>1, <1>2, <1>3, <1>4, <1>5, <1>6 DEF Works

\* A preparation writes its drafts to rows of their own, and leaves the others alone.
LEMMA DraftsWritten ==
    ASSUME TypeOK, NEW w \in Workers, WriteDrafts(w)
    PROVE \E f \in [job[w].new -> Fresh] :
            /\ \A x, y \in job[w].new : f[x] = f[y] => x = y
            /\ \A x \in job[w].new : meeting'[f[x]] = x
            /\ \A id \in Ids : (\A x \in job[w].new : f[x] # id) => meeting'[id] = meeting[id]
            /\ meeting' \in [Ids -> Row]
<1> DEFINE new == job[w].new
           row == CHOOSE f \in Injection(new, Fresh) : TRUE
           of(id) == CHOOSE x \in new : row[x] = id
<1>1. Injection(new, Fresh) # {}
      /\ meeting' = [id \in Ids |-> IF \E x \in new : row[x] = id THEN of(id) ELSE meeting[id]]
  BY DEF WriteDrafts
<1>2. row \in Injection(new, Fresh)
  BY <1>1
<1>3. row \in [new -> Fresh] /\ \A x, y \in new : row[x] = row[y] => x = y
  <2> HIDE DEF row
  <2> QED
    BY <1>2 DEF Injection, IsInjective
<1>4. new \subseteq Row
  BY JobFields DEF WriteDrafts, TypeOK
<1>5. Fresh \subseteq Ids
  BY DEF Fresh
<1> HIDE DEF row
<1>6. \A x \in new : of(row[x]) = x
  BY <1>3
<1>7. \A x \in new : row[x] \in Ids /\ meeting'[row[x]] = x
  BY <1>1, <1>3, <1>5, <1>6
<1>8. \A id \in Ids : (\A x \in new : row[x] # id) => meeting'[id] = meeting[id]
  BY <1>1
<1>9. \A id \in Ids : (\E x \in new : row[x] = id) => of(id) \in new
  OBVIOUS
<1>10. meeting' \in [Ids -> Row]
  <2> HIDE DEF of
  <2>1. \A id \in Ids : (IF \E x \in new : row[x] = id THEN of(id) ELSE meeting[id]) \in Row
    BY <1>4, <1>9 DEF TypeOK
  <2> QED
    BY <1>1, <2>1
<1> QED
  BY <1>3, <1>7, <1>8, <1>10

\* What a look at the month finds to be made is well formed.
LEMMA LookFinds ==
    ASSUME TypeOK, NEW w \in Workers, LookAtMonth(w)
    PROVE \E pick \in [ToMake(job[w].gone) -> Who] :
            Goes(w, [at |-> "write", new |-> {PreparedRow(s, pick[s]) : s \in ToMake(job[w].gone)}])
<1> DEFINE S == ToMake(job[w].gone)
<1>1. PICK pick \in Picked(S) \cup {[s \in S |-> Nobody]} :
        Goes(w, [at |-> "write",
                 new |-> {[NoRow EXCEPT !.is = "there", !.at = s, !.who = pick[s], !.made = s] : s \in S}])
  BY DEF LookAtMonth
<1>2. pick \in [S -> Who]
  BY <1>1 DEF Picked, Who
<1> QED
  BY <1>1, <1>2 DEF PreparedRow

LEMMA StepsType == ASSUME TypeOK, NEW w \in Workers, Steps(w) PROVE TypeOK'
<1> DEFINE j == job[w]
<1>0. job \in [Workers -> Job] /\ job[w] \in Job
  BY DEF TypeOK
<1>1. CASE PublishDrafts(w)
  <2>1. j.at = "publish" /\ j.read \in SUBSET (Ids \X Row)
    BY <1>0, <1>1, JobFields DEF PublishDrafts
  <2>2. [j EXCEPT !.at = "announce"] \in Job
    BY <1>0, <2>1, OnTheMonth
  <2>3. job' \in [Workers -> Job]
    BY <1>0, <1>1, <2>2, GoesOn DEF PublishDrafts
  <2>4. \A id \in Ids : [meeting[id] EXCEPT !.pub = TRUE] \in Row
    BY ChangedRow DEF TypeOK
  <2>5. meeting' \in [Ids -> Row]
    BY <1>1, <2>4 DEF PublishDrafts, TypeOK
  <2>6. raced' \subseteq Ids
    BY <1>1, <2>1 DEF PublishDrafts, TypeOK
  <2> QED
    BY <1>1, <2>3, <2>5, <2>6 DEF PublishDrafts, TypeOK
<1>2. CASE Announce(w)
  <2>1. j.at = "announce" /\ j.read \in SUBSET (Ids \X Row)
    BY <1>0, <1>2, JobFields DEF Announce
  <2>2. [j EXCEPT !.at = "published"] \in Job
    BY <1>0, <2>1, OnTheMonth
  <2>3. job' \in [Workers -> Job] /\ ran' \in BOOLEAN
    <3>1. CASE w = Nightly
      BY <1>0, <1>2, <2>2, <3>1, GoesOn DEF Announce, TypeOK
    <3>2. CASE w # Nightly
      BY <1>2, <3>2, EndsType DEF Announce
    <3> QED
      BY <3>1, <3>2
  <2>4. \A x \in j.read : Of(x[1], {<<b, DayOf(x[2].at)>> : b \in Goer(x[2])}) \subseteq Expectations
    BY <2>1, OfType
  <2>5. knows' \subseteq Expectations
    <3>1. knows' = knows \cup UNION {Of(x[1], {<<b, DayOf(x[2].at)>> : b \in Goer(x[2])}) : x \in j.read}
      BY <1>2 DEF Announce
    <3>2. UNION {Of(x[1], {<<b, DayOf(x[2].at)>> : b \in Goer(x[2])}) : x \in j.read} \subseteq Expectations
      BY <2>4
    <3> QED
      BY <3>1, <3>2 DEF TypeOK
  <2>6. raced' \subseteq Ids
    BY <1>2, <2>1, ZenonT(40) DEF Announce, TypeOK
  <2> QED
    BY <1>2, <2>3, <2>5, <2>6 DEF Announce, TypeOK, tables
<1>3. CASE ReadRemoved(w)
  <2>1. [at |-> "look", gone |-> removed] \in Job
    BY DEF Job, TypeOK
  <2>2. job' \in [Workers -> Job]
    BY <1>0, <1>3, <2>1, GoesOn DEF ReadRemoved
  <2>3. Emptying \subseteq Slots
    BY JobFields DEF Emptying, TypeOK, Row
  <2> QED
    BY <1>3, <2>2, <2>3 DEF ReadRemoved, TypeOK, tables
<1>4. CASE LookAtMonth(w)
  <2> DEFINE S == ToMake(j.gone)
  <2>1. PICK pick \in [S -> Who] : Goes(w, [at |-> "write", new |-> {PreparedRow(s, pick[s]) : s \in S}])
    BY <1>4, LookFinds
  <2>2. S \subseteq Slots
    BY FieldConstants DEF ToMake
  <2>3. {PreparedRow(s, pick[s]) : s \in S} \subseteq Row
    BY <2>2, NewRows
  <2>4. [at |-> "write", new |-> {PreparedRow(s, pick[s]) : s \in S}] \in Job
    BY <2>3 DEF Job
  <2>5. job' \in [Workers -> Job]
    BY <1>0, <2>1, <2>4, GoesOn
  <2> QED
    BY <1>4, <2>5 DEF LookAtMonth, TypeOK, tables, history
<1>5. CASE WriteDrafts(w)
  <2>1. meeting' \in [Ids -> Row]
    BY <1>5, DraftsWritten
  <2>2. \E next \in Job : Goes(w, next)
    <3>1. Idle \in Job /\ [at |-> "task"] \in Job /\ [at |-> "mark", any |-> FALSE] \in Job
      BY DEF Idle, Job
    <3> QED
      BY <1>5, <3>1 DEF WriteDrafts
  <2>3. job' \in [Workers -> Job]
    BY <1>0, <2>2, GoesOn
  <2> QED
    BY <1>5, <2>1, <2>3 DEF WriteDrafts, TypeOK, history
<1> QED
  BY <1>1, <1>2, <1>3, <1>4, <1>5 DEF Steps

LEMMA FailsType == ASSUME TypeOK, NEW w \in Workers, PublishFails(w) \/ Lose(w) PROVE TypeOK'
<1>1. CASE PublishFails(w)
  <2>1. job' \in [Workers -> Job] /\ ran' \in BOOLEAN /\ used' \in 0..MaxUsed
    BY <1>1, EndsType, FieldConstants DEF PublishFails, TypeOK
  <2> QED
    BY <1>1, <2>1 DEF PublishFails, TypeOK, tables, history
<1>2. CASE Lose(w)
  <2>1. job' \in [Workers -> Job] /\ used' \in 0..MaxUsed
    BY <1>2, GoesOn, IdleJob, FieldConstants DEF Lose, TypeOK
  <2>2. unsure' \subseteq Ids
    <3>1. job[w].at \in {"remember", "tell"} => job[w].id \in Ids
      BY JobFields DEF TypeOK
    <3>2. job[w].at = "announce" => ReadIds(job[w]) \subseteq Ids
      BY JobFields DEF TypeOK, ReadIds
    <3> QED
      BY <1>2, <3>1, <3>2 DEF Lose, TypeOK
  <2>3. forgotten' \subseteq Slots
    <3>1. job[w].at = "remember" => job[w].was.at \in Slots
      BY JobFields DEF TypeOK, Row
    <3> QED
      BY <1>2, <3>1 DEF Lose, TypeOK
  <2> QED
    BY <1>2, <2>1, <2>2, <2>3 DEF Lose, TypeOK, tables
<1> QED
  BY <1>1, <1>2

LEMMA NightType == ASSUME TypeOK, Night PROVE TypeOK'
<1>0. Nightly \in Workers /\ job \in [Workers -> Job] /\ job[Nightly] \in Job
  BY DEF Workers, TypeOK
<1>00. \A any \in BOOLEAN : /\ [at |-> "remind", any |-> any] \in Job
                            /\ [at |-> "mark", any |-> any] \in Job
  BY DEF Job
<1>000. [at |-> "asked"] \in Job /\ [at |-> "due"] \in Job /\ AnyDraft \in BOOLEAN
  BY DEF Job, AnyDraft
<1>1. CASE BeginPass
  <2>1. \E next \in Job : Goes(Nightly, next)
    BY <1>1, <1>00, <1>000, Zenon DEF BeginPass
  <2>2. job' \in [Workers -> Job]
    BY <1>0, <2>1, GoesOn
  <2> QED
    BY <1>1, <2>2 DEF BeginPass, TypeOK, tables, history
<1>2. CASE OpenTask
  <2>1. job' \in [Workers -> Job]
    BY <1>0, <1>00, <1>000, <1>2, GoesOn DEF OpenTask
  <2> QED
    BY <1>2, <2>1 DEF OpenTask, TypeOK, history
<1>3. CASE MarkPrepared
  <2>1. job[Nightly].any \in BOOLEAN
    BY <1>0, <1>3, JobFields DEF MarkPrepared
  <2>2. job' \in [Workers -> Job]
    BY <1>0, <1>00, <1>3, <2>1, GoesOn DEF MarkPrepared
  <2> QED
    BY <1>3, <2>2 DEF MarkPrepared, TypeOK, history
<1>4. CASE Remind
  <2>1. CASE job[Nightly].any
    <3>1. job' \in [Workers -> Job]
      BY <1>0, <1>000, <1>4, <2>1, GoesOn DEF Remind
    <3>2. run' \in [prepared: BOOLEAN, reminded: BOOLEAN, published: BOOLEAN]
      BY <1>4, <2>1 DEF Remind, TypeOK
    <3> QED
      BY <1>4, <2>1, <3>1, <3>2 DEF Remind, TypeOK, history
  <2>2. CASE ~job[Nightly].any
    <3>1. job' \in [Workers -> Job] /\ ran' \in BOOLEAN
      BY <1>0, <1>4, <2>2, EndsType DEF Remind
    <3> QED
      BY <1>4, <2>2, <3>1 DEF Remind, TypeOK, history, Closed
  <2> QED
    BY <2>1, <2>2
<1>5. CASE AutoPublish
  <2> DEFINE held == {id \in DraftsToCome : Troubled(id)}
             read == AsRead(DraftsToCome \ held)
  <2>1. held \in SUBSET Ids /\ read \in Read
    BY AsReadType DEF DraftsToCome
  <2>2. \A at \in {"published", "publish"} : [at |-> at, read |-> read, held |-> held] \in Job
    BY <2>1 DEF Job
  <2>3. job' \in [Workers -> Job] /\ ran' \in BOOLEAN
    <3>1. CASE Policy = "publish_7d" /\ ~run.published /\ today >= PublishDay
      <4>1. Goes(Nightly, [at |-> IF read = {} THEN "published" ELSE "publish", read |-> read, held |-> held])
            /\ ran' = ran
        BY <1>5, <3>1 DEF AutoPublish
      <4>2. \E next \in Job : Goes(Nightly, next)
        BY <2>2, <4>1
      <4> QED
        BY <1>0, <4>1, <4>2, GoesOn DEF TypeOK
    <3>2. CASE ~(Policy = "publish_7d" /\ ~run.published /\ today >= PublishDay)
      BY <1>0, <1>5, <3>2, EndsType DEF AutoPublish
    <3> QED
      BY <3>1, <3>2
  <2> QED
    BY <1>5, <2>3 DEF AutoPublish, TypeOK, tables, history
<1>6. CASE MarkPublished
  <2>1. job' \in [Workers -> Job] /\ ran' \in BOOLEAN
    BY <1>0, <1>6, EndsType DEF MarkPublished
  <2>2. run' \in [prepared: BOOLEAN, reminded: BOOLEAN, published: BOOLEAN]
    BY <1>6 DEF MarkPublished, TypeOK
  <2>3. missed' \subseteq Ids /\ task' \in {"none", "open", "done"}
    BY <1>6 DEF MarkPublished, TypeOK, Closed
  <2> QED
    BY <1>6, <2>1, <2>2, <2>3 DEF MarkPublished, TypeOK
<1> QED
  BY <1>1, <1>2, <1>3, <1>4, <1>5, <1>6 DEF Night

LEMMA TickType == ASSUME TypeOK, Tick PROVE TypeOK'
<1>1. today \in 0..LastDay /\ today < LastDay /\ today' = today + 1 /\ ran' = FALSE
  BY DEF Tick, TypeOK
<1>2. \A n \in Nat : \A t \in 0..n : t < n => t + 1 \in 0..n
  OBVIOUS
<1>3. today' \in 0..LastDay
  BY <1>1, <1>2, LastDayIsADay
<1> QED
  BY <1>1, <1>3 DEF Tick, TypeOK, tables, history

LEMMA InitType == Init => TypeOK
<1> SUFFICES ASSUME Init PROVE TypeOK
  OBVIOUS
<1>1. PICK S \in Setups : /\ meeting = S.rows
                          /\ today = S.today
                          /\ run = [prepared |-> S.prepared, reminded |-> FALSE, published |-> FALSE]
                          /\ knows = S.knows /\ keys = S.keys /\ removed = S.removed
                          /\ used = S.used
  BY DEF Init
<1>2. job \in [Workers -> Job]
  BY IdleJob DEF Init
<1>3. meeting \in [Ids -> Row] /\ today \in 0..LastDay /\ S.prepared \in BOOLEAN /\ knows \subseteq Expectations
      /\ keys \subseteq Expectations /\ removed \subseteq Slots /\ used \in 0..MaxUsed
  BY <1>1, FieldSetups
<1>4. run \in [prepared: BOOLEAN, reminded: BOOLEAN, published: BOOLEAN]
  BY <1>1, <1>3
<1> QED
  BY <1>2, <1>3, <1>4 DEF Init, TypeOK

LEMMA StepType == ASSUME TypeOK, [Next]_vars PROVE TypeOK'
<1>1. CASE UNCHANGED vars
  BY <1>1 DEF vars, tables, history, TypeOK
<1>2. CASE Next
  BY <1>2, BeginsType, WorksType, StepsType, FailsType, NightType, TickType DEF Next
<1> QED
  BY <1>1, <1>2

\* Every row, mark and job is of its kind, for any number of meetings and requests.
THEOREM FieldTypeCorrect == Spec => []TypeOK
BY InitType, StepType, PTL DEF Spec

----------------------------------------------------------------------------
(* What every job carries.                                                  *)

\* What a request read and wants to write back fits the row it goes to: made of the same
\* slot, in the same kind of place, and called off only if announced.
Fits(j, rows) ==
    /\ j.was.is = "there" /\ j.was.made = rows[j.id].made /\ j.row.made = rows[j.id].made
    /\ rows[j.id].is # "none"
    /\ KindOf(j.row.at) = KindOf(j.was.at)
    /\ j.row.off => j.row.pub

\* News of a row: it is somebody else's, elsewhere, or on again.
IsNews(was, row) == was.off \/ was.who # row.who \/ was.at # row.at

Sound(j, rows) ==
    /\ j.at = "insert" => j.row.is = "there" /\ j.row.made = ByHand /\ ~j.row.off
    /\ j.at = "save" => Fits(j, rows) /\ j.row.is = "there" /\ (Said(j.row) => IsNews(j.was, j.row))
    /\ j.at = "delete" => Fits(j, rows) /\ j.row = [j.was EXCEPT !.is = "gone"]
    /\ j.at \in {"remember", "tell"} => (j.was.who # Nobody => KindOf(j.row.at) = KindOf(j.was.at))
    /\ j.at \in {"publish", "announce"} =>
         \A x \in j.read : x[2].is = "there" /\ ~x[2].pub /\ ~x[2].off
    /\ j.at = "write" =>
         /\ \A x \in j.new : x.is = "there" /\ x.at = x.made /\ x.made # ByHand /\ ~x.pub /\ ~x.off
         /\ \A x, y \in j.new : x.made = y.made => x = y

JobsSound == \A w \in Workers : Sound(job[w], meeting)
CrossedOutWasAnnounced == \A id \in Ids : meeting[id].off => meeting[id].pub

\* A row once written stays a row made of the same slot.
Keeps(rows, next) ==
    \A id \in Ids : rows[id].is # "none" => next[id].is # "none" /\ next[id].made = rows[id].made

Quiet == {"idle", "asked", "task", "due", "look", "fill", "mark", "remind", "published"}

LEMMA QuietIsSound == \A j, rows : j.at \in Quiet => Sound(j, rows)
BY DEF Sound, Quiet

LEMMA StaysSound ==
    ASSUME NEW j \in Job, NEW rows, NEW next, Sound(j, rows), Keeps(rows, next)
    PROVE Sound(j, next)
<1>1. j.at \in {"save", "delete"} => (Fits(j, rows) => Fits(j, next))
  BY JobFields DEF Fits, Keeps
<1> QED
  BY <1>1 DEF Sound

\* One worker goes on to a sound job, the others keep theirs.
LEMMA OneGoesOn ==
    ASSUME TypeOK, JobsSound, Keeps(meeting, meeting'), NEW w \in Workers, NEW next,
           Goes(w, next), Sound(next, meeting')
    PROVE JobsSound'
<1>1. job'[w] = next /\ \A v \in Workers \ {w} : job'[v] = job[v]
  BY GoesOn DEF TypeOK
<1>2. ASSUME NEW v \in Workers PROVE Sound(job'[v], meeting')
  <2>1. Sound(job[v], meeting')
    BY StaysSound DEF JobsSound, TypeOK
  <2> QED
    BY <1>1, <2>1
<1> QED
  BY <1>2 DEF JobsSound

LEMMA AllStay ==
    ASSUME TypeOK, JobsSound, Keeps(meeting, meeting'), job' = job
    PROVE JobsSound'
BY StaysSound DEF JobsSound, TypeOK

LEMMA SameKeeps == \A rows : Keeps(rows, rows)
BY DEF Keeps

\* A draft is not crossed out, so what a publication reads is on.
LEMMA ReadsDrafts ==
    ASSUME TypeOK, CrossedOutWasAnnounced, NEW S \in SUBSET DraftsToCome, NEW at, NEW held
    PROVE Sound([at |-> at, read |-> AsRead(S), held |-> held], meeting) \/ at \notin Quiet \cup {"publish", "announce"}
<1>1. \A id \in S : id \in Ids /\ meeting[id].is = "there" /\ ~meeting[id].pub /\ ~meeting[id].off
  BY DEF DraftsToCome, Draft, There, CrossedOutWasAnnounced
<1>2. \A x \in AsRead(S) : x[2].is = "there" /\ ~x[2].pub /\ ~x[2].off
  BY <1>1 DEF AsRead
<1> QED
  BY <1>2 DEF Sound, Quiet

LEMMA BeginsSound ==
    ASSUME TypeOK, JobsSound, CrossedOutWasAnnounced, NEW r \in Requests, Begins(r)
    PROVE JobsSound' /\ meeting' = meeting
<1>0. r \in Workers
  BY DEF Workers
<1>00. meeting' = meeting
  BY DEF Begins, BeginCreate, BeginUpdate, BeginCancel, BeginRestore, BeginRemove, BeginPublish,
         BeginPrepare, BeginFill, EnterAbsence, Begin, tables
<1>k. Keeps(meeting, meeting')
  BY <1>00, SameKeeps
<1>t. \A id \in Ids : meeting[id] \in Row
  BY DEF TypeOK
<1> SUFFICES JobsSound'
  BY <1>00
<1>1. CASE BeginCreate(r)
  <2>1. PICK s \in Slots, who \in Who, draft \in BOOLEAN :
          Goes(r, [at |-> "insert", row |-> CreatedRow(s, who, draft)])
    BY <1>1 DEF BeginCreate, CreatedRow
  <2>2. CreatedRow(s, who, draft).is = "there" /\ CreatedRow(s, who, draft).made = ByHand
        /\ ~CreatedRow(s, who, draft).off
    BY NewRows
  <2>3. Sound([at |-> "insert", row |-> CreatedRow(s, who, draft)], meeting')
    BY <2>2 DEF Sound
  <2> QED
    BY <1>0, <1>k, <2>1, <2>3, OneGoesOn
<1>2. CASE BeginUpdate(r)
  <2>1. PICK id \in Ids, d \in Days, who \in Who :
          /\ On(id) /\ <<<<d, KindOf(meeting[id].at)>>, who>> # <<meeting[id].at, meeting[id].who>>
          /\ Saves(r, id, [meeting[id] EXCEPT !.at = <<d, KindOf(meeting[id].at)>>, !.who = who])
    BY <1>2 DEF BeginUpdate
  <2> DEFINE s == <<d, KindOf(meeting[id].at)>>
             row == [meeting[id] EXCEPT !.at = s, !.who = who]
  <2>2. s \in Slots /\ KindOf(s) = KindOf(meeting[id].at)
    BY <1>t, SlotParts DEF Row
  <2>3. row.is = "there" /\ row.at = s /\ row.who = who /\ ~row.off /\ row.made = meeting[id].made
    <3>1. meeting[id] \in Row /\ meeting[id].is = "there" /\ ~meeting[id].off
      BY <1>t, <2>1 DEF On, There
    <3>2. row.is = meeting[id].is /\ row.at = s /\ row.who = who /\ row.off = meeting[id].off
          /\ row.made = meeting[id].made
      <4> HIDE DEF s
      <4> QED
        BY <2>2, <3>1 DEF Row
    <3> QED
      BY <3>1, <3>2
  <2>4. Goes(r, [at |-> "save", id |-> id, was |-> meeting[id], row |-> row])
    BY <2>1 DEF Saves
  <2>5. s # meeting[id].at \/ who # meeting[id].who
    BY <2>1
  <2> HIDE DEF row, s
  <2>6. Sound([at |-> "save", id |-> id, was |-> meeting[id], row |-> row], meeting)
    BY <2>1, <2>2, <2>3, <2>5 DEF Sound, Fits, IsNews, On, There
  <2> QED
    BY <1>0, <1>00, <1>k, <2>4, <2>6, OneGoesOn
<1>3. CASE BeginCancel(r)
  <2>1. PICK id \in Ids : Live(id) /\ Saves(r, id, [meeting[id] EXCEPT !.off = TRUE])
    BY <1>3 DEF BeginCancel
  <2> DEFINE row == [meeting[id] EXCEPT !.off = TRUE]
  <2>2. row.is = "there" /\ row.at = meeting[id].at /\ row.off /\ row.pub /\ row.made = meeting[id].made
        /\ meeting[id].is = "there"
    <3>1. meeting[id] \in Row /\ meeting[id].is = "there" /\ meeting[id].pub
      BY <1>t, <2>1 DEF Live, On, There
    <3>2. row.is = meeting[id].is /\ row.at = meeting[id].at /\ row.off /\ row.pub = meeting[id].pub
          /\ row.made = meeting[id].made
      BY <3>1, ChangedRow, ZenonT(40)
    <3> QED
      BY <3>1, <3>2
  <2>3. Goes(r, [at |-> "save", id |-> id, was |-> meeting[id], row |-> row])
    BY <2>1 DEF Saves
  <2> HIDE DEF row
  <2>4. Sound([at |-> "save", id |-> id, was |-> meeting[id], row |-> row], meeting)
    BY <2>2 DEF Sound, Fits, Said
  <2> QED
    BY <1>0, <1>00, <1>k, <2>3, <2>4, OneGoesOn
<1>4. CASE BeginRestore(r)
  <2>1. PICK id \in Ids : There(id) /\ meeting[id].off /\ Saves(r, id, [meeting[id] EXCEPT !.off = FALSE])
    BY <1>4 DEF BeginRestore
  <2> DEFINE row == [meeting[id] EXCEPT !.off = FALSE]
  <2>2. row.is = "there" /\ row.at = meeting[id].at /\ ~row.off /\ row.made = meeting[id].made
        /\ meeting[id].is = "there"
    BY <1>t, <2>1, ChangedRow DEF There
  <2>3. Goes(r, [at |-> "save", id |-> id, was |-> meeting[id], row |-> row])
    BY <2>1 DEF Saves
  <2> HIDE DEF row
  <2>4. Sound([at |-> "save", id |-> id, was |-> meeting[id], row |-> row], meeting)
    BY <2>1, <2>2 DEF Sound, Fits, IsNews
  <2> QED
    BY <1>0, <1>00, <1>k, <2>3, <2>4, OneGoesOn
<1>5. CASE BeginRemove(r)
  <2>1. PICK id \in Ids : There(id) /\ Goes(r, [at |-> "delete", id |-> id, was |-> meeting[id],
                                                row |-> [meeting[id] EXCEPT !.is = "gone"]])
    BY <1>5 DEF BeginRemove
  <2> DEFINE row == [meeting[id] EXCEPT !.is = "gone"]
  <2>2. row.at = meeting[id].at /\ row.off = meeting[id].off /\ row.pub = meeting[id].pub
        /\ row.made = meeting[id].made /\ meeting[id].is = "there"
    BY <1>t, <2>1, ChangedRow DEF There
  <2>3. row = [meeting[id] EXCEPT !.is = "gone"]
    OBVIOUS
  <2> HIDE DEF row
  <2>4. Sound([at |-> "delete", id |-> id, was |-> meeting[id], row |-> row], meeting)
    BY <2>2, <2>3 DEF Sound, Fits, CrossedOutWasAnnounced
  <2> QED
    BY <1>0, <1>00, <1>k, <2>1, <2>3, <2>4, OneGoesOn
<1>6. CASE BeginPublish(r)
  <2>1. Sound([at |-> "publish", read |-> AsRead(DraftsToCome), held |-> {}], meeting)
    BY ReadsDrafts
  <2> QED
    BY <1>0, <1>00, <1>k, <1>6, <2>1, OneGoesOn DEF BeginPublish
<1>7. CASE BeginPrepare(r)
  <2>1. Sound([at |-> "asked"], meeting)
    BY QuietIsSound DEF Quiet
  <2> QED
    BY <1>0, <1>00, <1>k, <1>7, <2>1, OneGoesOn DEF BeginPrepare
<1>8. CASE BeginFill(r)
  <2>1. PICK picks : Goes(r, [at |-> "fill", picks |-> picks])
    BY <1>8, Zenon DEF BeginFill
  <2>2. Sound([at |-> "fill", picks |-> picks], meeting)
    BY QuietIsSound DEF Quiet
  <2> QED
    BY <1>0, <1>00, <1>k, <2>1, <2>2, OneGoesOn
<1>9. CASE EnterAbsence(r)
  BY <1>9, <1>k, AllStay DEF EnterAbsence
<1> QED
  BY <1>1, <1>2, <1>3, <1>4, <1>5, <1>6, <1>7, <1>8, <1>9 DEF Begins

LEMMA IdleIsSound == \A rows : Sound(Idle, rows)
BY QuietIsSound DEF Idle, Quiet

LEMMA StepNamesAreSound ==
    \A rows : /\ Sound([at |-> "task"], rows) /\ Sound([at |-> "asked"], rows) /\ Sound([at |-> "due"], rows)
              /\ \A any : /\ Sound([at |-> "mark", any |-> any], rows)
                          /\ Sound([at |-> "remind", any |-> any], rows)
BY DEF Sound

\* The rows a request's step leaves, one by one.
LEMMA RowsAfterSave ==
    ASSUME TypeOK, JobsSound, NEW r \in Requests, SaveMeeting(r) \/ DeleteMeeting(r)
    PROVE LET j == job[r] IN
          /\ j.id \in Ids /\ j.was \in Row /\ j.row \in Row /\ Fits(j, meeting)
          /\ \A id \in Ids \ {j.id} : meeting'[id] = meeting[id]
          /\ SaveMeeting(r) => meeting'[j.id] = j.row /\ j.row.is = "there"
          /\ DeleteMeeting(r) => /\ meeting'[j.id] = [meeting[j.id] EXCEPT !.is = "gone"]
                                 /\ j.row = [j.was EXCEPT !.is = "gone"]
<1>1. r \in Workers /\ job[r] \in Job /\ Sound(job[r], meeting)
  BY DEF Workers, TypeOK, JobsSound
<1>2. job[r].id \in Ids /\ job[r].was \in Row /\ job[r].row \in Row
  BY <1>1, JobFields DEF SaveMeeting, DeleteMeeting
<1>3. Fits(job[r], meeting) /\ (job[r].at = "save" => job[r].row.is = "there")
      /\ (job[r].at = "delete" => job[r].row = [job[r].was EXCEPT !.is = "gone"])
  BY <1>1 DEF Sound, SaveMeeting, DeleteMeeting
<1> QED
  BY <1>2, <1>3 DEF SaveMeeting, DeleteMeeting, TypeOK

LEMMA RowsAfterFill ==
    ASSUME TypeOK, NEW r \in Requests, FillConductors(r)
    PROVE \A id \in Ids :
            \/ meeting'[id] = meeting[id]
            \/ /\ Draft(id) /\ \E who \in Who : meeting'[id] = [meeting[id] EXCEPT !.who = who]
<1> DEFINE still == {x \in job[r].picks : StillUnled(x[1])}
           of(id) == (CHOOSE x \in still : x[1] = id)[2]
<1>1. meeting' = [id \in Ids |-> IF \E x \in still : x[1] = id
                                 THEN [meeting[id] EXCEPT !.who = of(id)] ELSE meeting[id]]
  BY DEF FillConductors
<1>2. job[r].picks \in SUBSET (Ids \X Brothers)
  BY JobFields DEF FillConductors, TypeOK, Workers
<1>3. ASSUME NEW id \in Ids, \E x \in still : x[1] = id
      PROVE of(id) \in Who /\ Draft(id)
  <2>1. (CHOOSE x \in still : x[1] = id) \in still
    BY <1>3
  <2>2. of(id) \in Who
    BY <1>2, <2>1 DEF Who
  <2> QED
    BY <1>3, <2>2 DEF StillUnled
<1> HIDE DEF still, of
<1> QED
  BY <1>1, <1>3

LEMMA RowsAfterPublish ==
    ASSUME TypeOK, NEW w \in Workers, PublishDrafts(w)
    PROVE \A id \in Ids :
            /\ id \in ReadIds(job[w]) /\ There(id) => meeting'[id] = [meeting[id] EXCEPT !.pub = TRUE]
            /\ ~(id \in ReadIds(job[w]) /\ There(id)) => meeting'[id] = meeting[id]
BY DEF PublishDrafts

\* A row that is another but for who goes, or for its announcement, was made of the same slot.
LEMMA WorksSound ==
    ASSUME TypeOK, JobsSound, CrossedOutWasAnnounced, NEW r \in Requests, Works(r)
    PROVE JobsSound' /\ Keeps(meeting, meeting') /\ CrossedOutWasAnnounced'
<1> DEFINE j == job[r]
<1>0. r \in Workers /\ job[r] \in Job /\ Sound(job[r], meeting)
  BY DEF Workers, TypeOK, JobsSound
<1>t. \A id \in Ids : meeting[id] \in Row
  BY DEF TypeOK
<1>1. CASE InsertMeeting(r)
  <2>1. PICK id \in Fresh :
          /\ meeting' = [meeting EXCEPT ![id] = j.row]
          /\ Goes(r, [at |-> "tell", id |-> id, was |-> NoRow, row |-> j.row])
    BY <1>1 DEF InsertMeeting
  <2>2. id \in Ids /\ meeting[id].is = "none" /\ j.row.is = "there" /\ ~j.row.off
    BY <1>0, <1>1, <2>1 DEF Fresh, Sound, InsertMeeting
  <2>3. \A o \in Ids : meeting'[o] = IF o = id THEN j.row ELSE meeting[o]
    BY <2>1, <2>2 DEF TypeOK
  <2>4. Keeps(meeting, meeting') /\ CrossedOutWasAnnounced'
    BY <2>2, <2>3 DEF Keeps, CrossedOutWasAnnounced
  <2>5. NoRow.who = Nobody
    BY NoRowIsARow
  <2>6. Sound([at |-> "tell", id |-> id, was |-> NoRow, row |-> j.row], meeting')
    BY <2>5 DEF Sound
  <2> QED
    BY <1>0, <2>1, <2>4, <2>6, OneGoesOn
<1>2. CASE SaveMeeting(r)
  <2>1. /\ j.id \in Ids /\ Fits(j, meeting) /\ j.row.is = "there"
        /\ \A id \in Ids : meeting'[id] = IF id = j.id THEN j.row ELSE meeting[id]
    BY <1>2, RowsAfterSave
  <2>2. Keeps(meeting, meeting') /\ CrossedOutWasAnnounced'
    BY <2>1 DEF Keeps, Fits, CrossedOutWasAnnounced
  <2>3. PICK at \in {"remember", "tell"} : Goes(r, [j EXCEPT !.at = at])
    BY <1>2 DEF SaveMeeting
  <2>4. j.at = "save"
    BY <1>2 DEF SaveMeeting
  <2> DEFINE n == [j EXCEPT !.at = at]
  <2>5. n.at = at /\ n.was = j.was /\ n.row = j.row
    BY <1>0, <2>4, OnTheRow
  <2> HIDE DEF n
  <2>6. Sound(n, meeting')
    BY <2>1, <2>5 DEF Sound, Fits
  <2> QED
    BY <1>0, <2>2, <2>3, <2>6, OneGoesOn DEF n
<1>3. CASE DeleteMeeting(r)
  <2>1. /\ j.id \in Ids /\ Fits(j, meeting)
        /\ \A id \in Ids \ {j.id} : meeting'[id] = meeting[id]
        /\ meeting'[j.id] = [meeting[j.id] EXCEPT !.is = "gone"]
    BY <1>3, RowsAfterSave
  <2>2. /\ meeting'[j.id].is = "gone" /\ meeting'[j.id].made = meeting[j.id].made
        /\ meeting'[j.id].off = meeting[j.id].off /\ meeting'[j.id].pub = meeting[j.id].pub
    <3>1. meeting[j.id] \in Row
      BY <1>t, <2>1
    <3> QED
      BY <2>1, <3>1 DEF Row
  <2>3. Keeps(meeting, meeting') /\ CrossedOutWasAnnounced'
    BY <2>1, <2>2 DEF Keeps, CrossedOutWasAnnounced
  <2>4. j.at = "delete" /\ Goes(r, [j EXCEPT !.at = "remember"])
    BY <1>3 DEF DeleteMeeting
  <2> DEFINE n == [j EXCEPT !.at = "remember"]
  <2>5. n.at = "remember" /\ n.was = j.was /\ n.row = j.row
    BY <1>0, <2>4, OnTheRow
  <2> HIDE DEF n
  <2>6. Sound(n, meeting')
    BY <2>1, <2>5 DEF Sound, Fits
  <2> QED
    BY <1>0, <2>3, <2>4, <2>6, OneGoesOn DEF n
<1>4. CASE Remember(r)
  <2>1. j.at = "remember" /\ meeting' = meeting /\ Goes(r, [j EXCEPT !.at = "tell"])
    BY <1>4 DEF Remember
  <2> DEFINE n == [j EXCEPT !.at = "tell"]
  <2>2. n.at = "tell" /\ n.was = j.was /\ n.row = j.row
    BY <1>0, <2>1, OnTheRow
  <2> HIDE DEF n
  <2>3. Sound(n, meeting')
    BY <1>0, <2>1, <2>2 DEF Sound
  <2>4. Keeps(meeting, meeting') /\ CrossedOutWasAnnounced'
    BY <2>1, SameKeeps DEF CrossedOutWasAnnounced
  <2> QED
    BY <1>0, <2>1, <2>3, <2>4, OneGoesOn DEF n
<1>5. CASE Tell(r)
  <2>1. meeting' = meeting /\ Goes(r, Idle)
    BY <1>5 DEF Tell, Ends
  <2>2. Keeps(meeting, meeting') /\ CrossedOutWasAnnounced'
    BY <2>1, SameKeeps DEF CrossedOutWasAnnounced
  <2> QED
    BY <1>0, <2>1, <2>2, IdleIsSound, OneGoesOn
<1>6. CASE FillConductors(r)
  <2>1. \A id \in Ids : /\ meeting'[id].is = meeting[id].is /\ meeting'[id].made = meeting[id].made
                        /\ meeting'[id].off = meeting[id].off /\ meeting'[id].pub = meeting[id].pub
    <3>1. TAKE id \in Ids
    <3>2. meeting[id] \in Row
      BY <1>t
    <3>3. \A who \in Who : LET n == [meeting[id] EXCEPT !.who = who] IN
            n.is = meeting[id].is /\ n.made = meeting[id].made /\ n.off = meeting[id].off
            /\ n.pub = meeting[id].pub
      BY <3>2 DEF Row
    <3> QED
      BY <1>6, <3>3, RowsAfterFill, ZenonT(40)
  <2>2. Keeps(meeting, meeting') /\ CrossedOutWasAnnounced'
    BY <2>1 DEF Keeps, CrossedOutWasAnnounced
  <2>3. Goes(r, Idle)
    BY <1>6 DEF FillConductors
  <2> QED
    BY <1>0, <2>2, <2>3, IdleIsSound, OneGoesOn
<1> QED
  BY <1>1, <1>2, <1>3, <1>4, <1>5, <1>6 DEF Works

LEMMA StepsSound ==
    ASSUME TypeOK, JobsSound, CrossedOutWasAnnounced, NEW w \in Workers, Steps(w)
    PROVE JobsSound' /\ Keeps(meeting, meeting') /\ CrossedOutWasAnnounced'
<1> DEFINE j == job[w]
<1>0. job[w] \in Job /\ Sound(job[w], meeting)
  BY DEF TypeOK, JobsSound
<1>t. \A id \in Ids : meeting[id] \in Row
  BY DEF TypeOK
<1>s. meeting' = meeting => Keeps(meeting, meeting') /\ CrossedOutWasAnnounced'
  BY SameKeeps DEF CrossedOutWasAnnounced
<1>1. CASE PublishDrafts(w)
  <2>1. \A id \in Ids : /\ meeting'[id].is = meeting[id].is /\ meeting'[id].made = meeting[id].made
                        /\ meeting'[id].off = meeting[id].off /\ (meeting[id].pub => meeting'[id].pub)
    <3>1. TAKE id \in Ids
    <3>2. meeting[id] \in Row
      BY <1>t
    <3>3. LET n == [meeting[id] EXCEPT !.pub = TRUE] IN
            n.is = meeting[id].is /\ n.made = meeting[id].made /\ n.off = meeting[id].off /\ n.pub
      BY <3>2 DEF Row
    <3> QED
      BY <1>1, <3>3, RowsAfterPublish
  <2>2. Keeps(meeting, meeting') /\ CrossedOutWasAnnounced'
    BY <2>1 DEF Keeps, CrossedOutWasAnnounced
  <2>3. j.at = "publish" /\ Goes(w, [j EXCEPT !.at = "announce"])
    BY <1>1 DEF PublishDrafts
  <2> DEFINE n == [j EXCEPT !.at = "announce"]
  <2>4. n.at = "announce" /\ n.read = j.read
    BY <1>0, <2>3, OnTheMonth
  <2> HIDE DEF n
  <2>5. Sound(n, meeting')
    BY <1>0, <2>3, <2>4 DEF Sound
  <2> QED
    BY <2>2, <2>3, <2>5, OneGoesOn DEF n
<1>2. CASE Announce(w)
  <2>1. j.at = "announce" /\ meeting' = meeting
    BY <1>2 DEF Announce, tables
  <2>2. Goes(w, [j EXCEPT !.at = "published"]) \/ Goes(w, Idle)
    BY <1>2 DEF Announce, Ends
  <2>3. [j EXCEPT !.at = "published"].at = "published"
    BY <1>0, <2>1, OnTheMonth
  <2> DEFINE n == [j EXCEPT !.at = "published"]
  <2>4. Sound(n, meeting')
    <3>1. n.at \in Quiet
      BY <2>3 DEF Quiet
    <3> HIDE DEF n
    <3> QED
      BY <3>1, QuietIsSound
  <2> QED
    BY <1>s, <2>1, <2>2, <2>4, IdleIsSound, OneGoesOn
<1>3. CASE ReadRemoved(w)
  <2>1. meeting' = meeting /\ Goes(w, [at |-> "look", gone |-> removed])
    BY <1>3 DEF ReadRemoved, tables
  <2>2. Sound([at |-> "look", gone |-> removed], meeting')
    BY QuietIsSound DEF Quiet
  <2> QED
    BY <1>s, <2>1, <2>2, OneGoesOn
<1>4. CASE LookAtMonth(w)
  <2> DEFINE S == ToMake(j.gone)
  <2>1. PICK pick \in [S -> Who] : Goes(w, [at |-> "write", new |-> {PreparedRow(s, pick[s]) : s \in S}])
    BY <1>4, LookFinds
  <2>2. S \subseteq Slots
    BY FieldConstants DEF ToMake
  <2> HIDE DEF S
  <2>3. \A s \in S : LET n == PreparedRow(s, pick[s]) IN
          n.is = "there" /\ n.at = s /\ n.made = s /\ s # ByHand /\ ~n.pub /\ ~n.off
    BY <2>1, <2>2, NewRows, FieldConstants
  <2>4. Sound([at |-> "write", new |-> {PreparedRow(s, pick[s]) : s \in S}], meeting')
    BY <2>3 DEF Sound
  <2>5. meeting' = meeting
    BY <1>4 DEF LookAtMonth, tables
  <2> QED
    BY <1>s, <2>1, <2>4, <2>5, OneGoesOn
<1>5. CASE WriteDrafts(w)
  <2>1. PICK f \in [j.new -> Fresh] :
          /\ \A x \in j.new : meeting'[f[x]] = x
          /\ \A id \in Ids : (\A x \in j.new : f[x] # id) => meeting'[id] = meeting[id]
    BY <1>5, DraftsWritten
  <2>2. \A id \in Ids : meeting'[id] = meeting[id] \/ (meeting[id].is = "none" /\ meeting'[id] \in j.new)
    BY <2>1 DEF Fresh
  <2>3. \A x \in j.new : x.is = "there" /\ ~x.off
    BY <1>0, <1>5 DEF Sound, WriteDrafts
  <2>4. Keeps(meeting, meeting') /\ CrossedOutWasAnnounced'
    BY <2>2, <2>3 DEF Keeps, CrossedOutWasAnnounced
  <2>5. Goes(w, [at |-> "task"]) \/ Goes(w, [at |-> "mark", any |-> FALSE]) \/ Goes(w, Idle)
    BY <1>5 DEF WriteDrafts
  <2>6. Sound([at |-> "task"], meeting') /\ Sound([at |-> "mark", any |-> FALSE], meeting')
    BY StepNamesAreSound
  <2> QED
    BY <2>4, <2>5, <2>6, IdleIsSound, OneGoesOn
<1> QED
  BY <1>1, <1>2, <1>3, <1>4, <1>5 DEF Steps

LEMMA NightSound ==
    ASSUME TypeOK, JobsSound, CrossedOutWasAnnounced, Night
    PROVE JobsSound' /\ meeting' = meeting
<1>0. Nightly \in Workers
  BY DEF Workers
<1>1. meeting' = meeting
  BY DEF Night, BeginPass, OpenTask, MarkPrepared, Remind, AutoPublish, MarkPublished, tables
<1>2. Keeps(meeting, meeting')
  BY <1>1, SameKeeps
<1>3. CASE AutoPublish
  <2> DEFINE held == {id \in DraftsToCome : Troubled(id)}
             read == AsRead(DraftsToCome \ held)
  <2>1. \A at \in {"published", "publish"} : Sound([at |-> at, read |-> read, held |-> held], meeting)
    BY ReadsDrafts DEF Quiet
  <2>2. \/ \E at \in {"published", "publish"} : Goes(Nightly, [at |-> at, read |-> read, held |-> held])
        \/ Goes(Nightly, Idle)
    BY <1>3 DEF AutoPublish, Ends
  <2> QED
    BY <1>0, <1>1, <1>2, <2>1, <2>2, IdleIsSound, OneGoesOn
<1>4. CASE BeginPass \/ OpenTask \/ MarkPrepared \/ Remind \/ MarkPublished
  <2>1. \/ \E any : Goes(Nightly, [at |-> "remind", any |-> any])
        \/ \E any : Goes(Nightly, [at |-> "mark", any |-> any])
        \/ Goes(Nightly, [at |-> "asked"]) \/ Goes(Nightly, [at |-> "due"]) \/ Goes(Nightly, Idle)
    <3>1. CASE BeginPass
      BY <3>1, Zenon DEF BeginPass
    <3>2. CASE OpenTask \/ MarkPrepared
      BY <3>2, Zenon DEF OpenTask, MarkPrepared
    <3>3. CASE Remind \/ MarkPublished
      BY <3>3, Zenon DEF Remind, MarkPublished, Ends
    <3> QED
      BY <1>4, <3>1, <3>2, <3>3
  <2>2. /\ Sound([at |-> "asked"], meeting') /\ Sound([at |-> "due"], meeting')
        /\ \A any : Sound([at |-> "remind", any |-> any], meeting') /\ Sound([at |-> "mark", any |-> any], meeting')
    BY StepNamesAreSound
  <2>3. ASSUME NEW next, Goes(Nightly, next), Sound(next, meeting') PROVE JobsSound'
    BY <1>0, <1>2, <2>3, OneGoesOn
  <2>4. ASSUME NEW any, Goes(Nightly, [at |-> "remind", any |-> any]) PROVE JobsSound'
    BY <2>2, <2>3, <2>4
  <2>5. ASSUME NEW any, Goes(Nightly, [at |-> "mark", any |-> any]) PROVE JobsSound'
    BY <2>2, <2>3, <2>5
  <2>6. Goes(Nightly, [at |-> "asked"]) => JobsSound'
    BY <2>2, <2>3
  <2>7. Goes(Nightly, [at |-> "due"]) => JobsSound'
    BY <2>2, <2>3
  <2>8. Goes(Nightly, Idle) => JobsSound'
    BY <2>3, IdleIsSound
  <2>9. CASE \E any : Goes(Nightly, [at |-> "remind", any |-> any])
    BY <1>1, <2>9, <2>4
  <2>10. CASE \E any : Goes(Nightly, [at |-> "mark", any |-> any])
    BY <1>1, <2>10, <2>5
  <2> QED
    BY <1>1, <2>1, <2>6, <2>7, <2>8, <2>9, <2>10
<1> QED
  BY <1>1, <1>3, <1>4 DEF Night

LEMMA FailsSound ==
    ASSUME TypeOK, JobsSound, NEW w \in Workers, PublishFails(w) \/ Lose(w)
    PROVE JobsSound' /\ meeting' = meeting
<1>1. meeting' = meeting /\ Goes(w, Idle)
  BY DEF PublishFails, Lose, Ends, tables
<1> QED
  BY <1>1, SameKeeps, IdleIsSound, OneGoesOn

\* Every step keeps the jobs sound and the rows' origins.
LEMMA StepSound ==
    ASSUME TypeOK, JobsSound, CrossedOutWasAnnounced, [Next]_vars
    PROVE JobsSound' /\ CrossedOutWasAnnounced' /\ Keeps(meeting, meeting')
<1>s. meeting' = meeting => Keeps(meeting, meeting') /\ CrossedOutWasAnnounced'
  BY SameKeeps DEF CrossedOutWasAnnounced
<1>1. CASE UNCHANGED vars \/ Tick
  <2>1. meeting' = meeting /\ job' = job
    BY <1>1 DEF vars, tables, Tick
  <2> QED
    BY <1>s, <2>1, AllStay
<1>2. CASE Next /\ ~Tick
  BY <1>2, <1>s, BeginsSound, WorksSound, StepsSound, FailsSound, NightSound DEF Next
<1> QED
  BY <1>1, <1>2

LEMMA InitSound == Init => JobsSound /\ CrossedOutWasAnnounced
<1> SUFFICES ASSUME Init PROVE JobsSound /\ CrossedOutWasAnnounced
  OBVIOUS
<1>1. JobsSound
  BY IdleIsSound DEF Init, JobsSound
<1>2. CrossedOutWasAnnounced
  BY FieldSetups DEF Init, CrossedOutWasAnnounced
<1> QED
  BY <1>1, <1>2

----------------------------------------------------------------------------
(* A slot is made into a meeting once.                                      *)

Preparing(v) == job[v].at \in {"look", "write"}
OnePreparation == \A v, w \in Workers : Preparing(v) /\ Preparing(w) => v = w

\* What was made of a slot stands there, or whoever knows the slots S passes it by, or its
\* day is over.
StandsOrKnown(row, S, day) ==
    row.made # ByHand => \/ row.is = "there" /\ row.at = row.made
                         \/ row.made \in S
                         \/ DayOf(row.made) < day

SlotsAccounted == \A id \in Ids : StandsOrKnown(meeting[id], removed \cup Emptying \cup forgotten, today)
LookAccounted ==
    \A w \in Workers : job[w].at = "look" =>
        \A id \in Ids : StandsOrKnown(meeting[id], job[w].gone \cup forgotten, today)
NewAccounted ==
    \A w \in Workers : job[w].at = "write" =>
      \A x \in job[w].new : \A id \in Ids : meeting[id].made = x.made => x.made \in forgotten

MadeInv == OnePreparation /\ SlotsAccounted /\ LookAccounted /\ NewAccounted /\ MadeOnce

LEMMA EmptyingMeans ==
    \A s : s \in Emptying <=> \E v \in Workers : job[v].at = "remember" /\ job[v].was.at = s
BY DEF Emptying

\* The lock is taken only where it is free.
LEMMA LockHolds ==
    ASSUME OnePreparation, \A v \in Workers : Preparing(v)' => Preparing(v)
    PROVE OnePreparation'
BY DEF OnePreparation

\* Where no new draft is at hand, no slot is made twice.
LEMMA NothingNew ==
    ASSUME NewAccounted, MadeOnce, forgotten \subseteq forgotten',
           \A id \in Ids : meeting'[id].made \in {ByHand, meeting[id].made},
           \A v \in Workers : job'[v].at = "write" => job'[v] = job[v],
           \A v \in Workers : job'[v].at = "write" => \A x \in job[v].new : x.made # ByHand
    PROVE NewAccounted' /\ MadeOnce'
<1>1. NewAccounted'
  BY DEF NewAccounted
<1>2. MadeOnce'
  BY DEF MadeOnce
<1> QED
  BY <1>1, <1>2

\* Nor does a slot get lost while its row stays, more is known and the days go by.
LEMMA StillKnown ==
    ASSUME NEW row \in Row, NEW next, NEW S, NEW T, NEW day \in Nat, NEW later \in Nat,
           StandsOrKnown(row, S, day), S \subseteq T, day <= later,
           \/ next.made = ByHand
           \/ next.is = row.is /\ next.at = row.at /\ next.made = row.made
    PROVE StandsOrKnown(next, T, later)
<1>1. row.made # ByHand => DayOf(row.made) \in Nat
  BY SlotParts DEF Row
<1> QED
  BY <1>1 DEF StandsOrKnown

\* Steps that leave every row in its place and no slot emptied: all but the saving and
\* removing of a row, the remembering of it, and the preparation itself.
LEMMA CalmStep ==
    ASSUME TypeOK, JobsSound, MadeInv,
           forgotten \subseteq forgotten', removed' = removed, today' >= today, today' \in Nat,
           \A id \in Ids : \/ meeting'[id].made = ByHand
                           \/ /\ meeting'[id].is = meeting[id].is /\ meeting'[id].at = meeting[id].at
                              /\ meeting'[id].made = meeting[id].made,
           \A v \in Workers : job'[v].at \in {"look", "write"} => job'[v] = job[v],
           \A v \in Workers : job[v].at = "remember" => job'[v] = job[v]
    PROVE MadeInv'
<1>1. OnePreparation'
  BY LockHolds DEF Preparing, MadeInv
<1>2. NewAccounted' /\ MadeOnce'
  <2>1. \A v \in Workers : job[v].at = "write" => \A x \in job[v].new : x.made # ByHand
    BY DEF JobsSound, Sound
  <2> QED
    BY <2>1, NothingNew DEF MadeInv
<1>3. today \in Nat
  BY LastDayIsADay DEF TypeOK
<1>4. ASSUME NEW id \in Ids, NEW S, NEW T, StandsOrKnown(meeting[id], S, today), S \subseteq T
      PROVE StandsOrKnown(meeting'[id], T, today')
  BY <1>3, <1>4, StillKnown DEF TypeOK
<1>5. Emptying \subseteq Emptying'
  BY DEF Emptying
<1>6. SlotsAccounted'
  <2>1. removed \cup Emptying \cup forgotten \subseteq removed' \cup Emptying' \cup forgotten'
    BY <1>5
  <2>2. \A id \in Ids : StandsOrKnown(meeting'[id], removed' \cup Emptying' \cup forgotten', today')
    BY <1>4, <2>1 DEF MadeInv, SlotsAccounted
  <2> QED
    BY <2>2 DEF SlotsAccounted
<1>7. LookAccounted'
  <2>1. ASSUME NEW w \in Workers, job'[w].at = "look", NEW id \in Ids
        PROVE StandsOrKnown(meeting'[id], job'[w].gone \cup forgotten', today')
    <3>1. job'[w] = job[w] /\ job[w].at = "look"
      BY <2>1
    <3>2. StandsOrKnown(meeting[id], job[w].gone \cup forgotten, today)
      BY <3>1 DEF MadeInv, LookAccounted
    <3>3. job[w].gone \cup forgotten \subseteq job'[w].gone \cup forgotten'
      BY <3>1
    <3> QED
      BY <1>4, <3>2, <3>3
  <2> QED
    BY <2>1 DEF LookAccounted
<1> QED
  BY <1>1, <1>2, <1>6, <1>7 DEF MadeInv

SameSlots ==
    \A id \in Ids : \/ meeting'[id].made = ByHand
                    \/ /\ meeting'[id].is = meeting[id].is /\ meeting'[id].at = meeting[id].at
                       /\ meeting'[id].made = meeting[id].made

LEMMA CalmGoes ==
    ASSUME TypeOK, JobsSound, MadeInv, NEW w \in Workers, NEW next, Goes(w, next),
           next.at \notin {"look", "write"}, job[w].at # "remember",
           forgotten \subseteq forgotten', removed' = removed, today' = today, SameSlots
    PROVE MadeInv'
<1>1. job'[w] = next /\ \A v \in Workers \ {w} : job'[v] = job[v]
  BY GoesOn DEF TypeOK
<1>2. today \in Nat
  BY LastDayIsADay DEF TypeOK
<1>3. today' >= today /\ today' \in Nat
  BY <1>2
<1>4. \A v \in Workers : job'[v].at \in {"look", "write"} => job'[v] = job[v]
  BY <1>1
<1>5. \A v \in Workers : job[v].at = "remember" => job'[v] = job[v]
  BY <1>1
<1> QED
  BY <1>3, <1>4, <1>5, CalmStep DEF SameSlots

LEMMA CalmStays ==
    ASSUME TypeOK, JobsSound, MadeInv, job' = job, today' >= today, today' \in Nat,
           forgotten' = forgotten, removed' = removed, meeting' = meeting
    PROVE MadeInv'
BY CalmStep

LEMMA BeginsMade ==
    ASSUME TypeOK, JobsSound, CrossedOutWasAnnounced, MadeInv, NEW r \in Requests, Begins(r)
    PROVE MadeInv'
<1>0. r \in Workers
  BY DEF Workers
<1>1. meeting' = meeting /\ removed' = removed /\ forgotten' = forgotten /\ today' = today
  BY DEF Begins, BeginCreate, BeginUpdate, BeginCancel, BeginRestore, BeginRemove, BeginPublish,
         BeginPrepare, BeginFill, EnterAbsence, Begin, tables, history
<1>2. SameSlots
  BY <1>1 DEF SameSlots
<1>3. CASE EnterAbsence(r)
  <2>1. today \in Nat /\ today' >= today
    BY <1>1, LastDayIsADay DEF TypeOK
  <2> QED
    BY <1>1, <1>3, <2>1, CalmStays DEF EnterAbsence
<1>4. CASE ~EnterAbsence(r)
  <2>1. job[r].at = "idle"
    BY <1>4, IdleJob DEF Begins, BeginCreate, BeginUpdate, BeginCancel, BeginRestore, BeginRemove,
                         BeginPublish, BeginPrepare, BeginFill, Begin
  <2>2. \E next : Goes(r, next) /\ next.at \notin {"look", "write"}
    <3>1. CASE BeginCreate(r)
      <4>1. PICK row : Goes(r, [at |-> "insert", row |-> row])
        BY <3>1, Zenon DEF BeginCreate
      <4> QED
        BY <4>1
    <3>2. CASE BeginUpdate(r) \/ BeginCancel(r) \/ BeginRestore(r)
      <4>1. PICK id, row : Goes(r, [at |-> "save", id |-> id, was |-> meeting[id], row |-> row])
        BY <3>2, Zenon DEF BeginUpdate, BeginCancel, BeginRestore, Saves
      <4> QED
        BY <4>1
    <3>3. CASE BeginRemove(r)
      <4>1. PICK id, row : Goes(r, [at |-> "delete", id |-> id, was |-> meeting[id], row |-> row])
        BY <3>3, Zenon DEF BeginRemove
      <4> QED
        BY <4>1
    <3>4. CASE BeginPublish(r)
      BY <3>4 DEF BeginPublish
    <3>5. CASE BeginPrepare(r)
      BY <3>5 DEF BeginPrepare
    <3>6. CASE BeginFill(r)
      <4>1. PICK picks : Goes(r, [at |-> "fill", picks |-> picks])
        BY <3>6, Zenon DEF BeginFill
      <4> QED
        BY <4>1
    <3> QED
      BY <1>4, <3>1, <3>2, <3>3, <3>4, <3>5, <3>6 DEF Begins
  <2> QED
    BY <1>0, <1>1, <1>2, <2>1, <2>2, CalmGoes
<1> QED
  BY <1>3, <1>4

\* The night's own steps and the failures that lose no day to be written down.
LEMMA NightMade ==
    ASSUME TypeOK, JobsSound, MadeInv, Night
    PROVE MadeInv'
<1>0. Nightly \in Workers
  BY DEF Workers
<1>1. meeting' = meeting /\ removed' = removed /\ forgotten' = forgotten /\ today' = today
  BY DEF Night, BeginPass, OpenTask, MarkPrepared, Remind, AutoPublish, MarkPublished, tables, history
<1>2. SameSlots
  BY <1>1 DEF SameSlots
<1>3. job[Nightly].at # "remember"
  BY IdleJob DEF Night, BeginPass, OpenTask, MarkPrepared, Remind, AutoPublish, MarkPublished
<1>4. \/ \E any : Goes(Nightly, [at |-> "remind", any |-> any])
      \/ \E any : Goes(Nightly, [at |-> "mark", any |-> any])
      \/ \E at \in {"published", "publish"} : \E read, held : Goes(Nightly, [at |-> at, read |-> read, held |-> held])
      \/ Goes(Nightly, [at |-> "asked"]) \/ Goes(Nightly, [at |-> "due"]) \/ Goes(Nightly, Idle)
  <2>1. CASE BeginPass
    BY <2>1, Zenon DEF BeginPass
  <2>2. CASE OpenTask \/ MarkPrepared
    BY <2>2, Zenon DEF OpenTask, MarkPrepared
  <2>3. CASE Remind \/ MarkPublished
    BY <2>3, Zenon DEF Remind, MarkPublished, Ends
  <2>4. CASE AutoPublish
    <3> DEFINE held == {id \in DraftsToCome : Troubled(id)}
               read == AsRead(DraftsToCome \ held)
    <3>1. \/ Goes(Nightly, [at |-> IF read = {} THEN "published" ELSE "publish", read |-> read, held |-> held])
          \/ Goes(Nightly, Idle)
      BY <2>4 DEF AutoPublish, Ends
    <3> HIDE DEF held, read
    <3> QED
      BY <3>1
  <2> QED
    BY <2>1, <2>2, <2>3, <2>4 DEF Night
<1>5. \E next : Goes(Nightly, next) /\ next.at \notin {"look", "write"}
  <2>1. CASE \E any : Goes(Nightly, [at |-> "remind", any |-> any]) \/ Goes(Nightly, [at |-> "mark", any |-> any])
    BY <2>1
  <2>2. CASE \E at \in {"published", "publish"} : \E read, held : Goes(Nightly, [at |-> at, read |-> read, held |-> held])
    BY <2>2
  <2>3. CASE Goes(Nightly, [at |-> "asked"]) \/ Goes(Nightly, [at |-> "due"]) \/ Goes(Nightly, Idle)
    BY <2>3, IdleJob
  <2> QED
    BY <1>4, <2>1, <2>2, <2>3
<1> QED
  BY <1>0, <1>1, <1>2, <1>3, <1>5, CalmGoes

LEMMA FailsMade ==
    ASSUME TypeOK, JobsSound, MadeInv, NEW w \in Workers, PublishFails(w) \/ Lose(w)
    PROVE MadeInv'
<1>1. meeting' = meeting /\ removed' = removed /\ today' = today /\ Goes(w, Idle)
      /\ forgotten \subseteq forgotten'
  BY DEF PublishFails, Lose, Ends, tables, history
<1>2. SameSlots
  BY <1>1 DEF SameSlots
<1>3. CASE job[w].at # "remember"
  BY <1>1, <1>2, <1>3, IdleJob, CalmGoes
<1>4. CASE job[w].at = "remember"
  <2>1. forgotten' = forgotten \cup {job[w].was.at}
    BY <1>4 DEF PublishFails, Lose
  <2>2. job'[w] = Idle /\ \A v \in Workers \ {w} : job'[v] = job[v]
    BY <1>1, GoesOn DEF TypeOK
  <2>3. \A v \in Workers : job'[v].at \in {"look", "write"} => job'[v] = job[v]
    BY <2>2, IdleJob
  <2>4. OnePreparation'
    BY <2>3, LockHolds DEF Preparing, MadeInv
  <2>5. NewAccounted' /\ MadeOnce'
    <3>1. \A v \in Workers : job[v].at = "write" => \A x \in job[v].new : x.made # ByHand
      BY DEF JobsSound, Sound
    <3> QED
      BY <1>1, <2>3, <3>1, NothingNew DEF MadeInv
  <2>6. removed \cup Emptying \cup forgotten \subseteq removed' \cup Emptying' \cup forgotten'
    <3>1. \A s \in Emptying : s \in Emptying' \/ s = job[w].was.at
      BY <2>2 DEF Emptying
    <3> QED
      BY <1>1, <2>1, <3>1
  <2>7. \A id \in Ids : \A S, T : StandsOrKnown(meeting[id], S, today) /\ S \subseteq T
                                 => StandsOrKnown(meeting'[id], T, today')
    BY <1>1 DEF StandsOrKnown
  <2>8. SlotsAccounted'
    <3>1. \A id \in Ids : StandsOrKnown(meeting'[id], removed' \cup Emptying' \cup forgotten', today')
      BY <2>6, <2>7 DEF MadeInv, SlotsAccounted
    <3> QED
      BY <3>1 DEF SlotsAccounted
  <2>9. LookAccounted'
    <3>1. ASSUME NEW v \in Workers, job'[v].at = "look", NEW id \in Ids
          PROVE StandsOrKnown(meeting'[id], job'[v].gone \cup forgotten', today')
      <4>1. job'[v] = job[v]
        BY <2>3, <3>1
      <4>2. StandsOrKnown(meeting[id], job[v].gone \cup forgotten, today)
        BY <3>1, <4>1 DEF MadeInv, LookAccounted
      <4>3. job[v].gone \cup forgotten \subseteq job'[v].gone \cup forgotten'
        BY <1>1, <4>1
      <4> QED
        BY <2>7, <4>2, <4>3
    <3> QED
      BY <3>1 DEF LookAccounted
  <2> QED
    BY <2>4, <2>5, <2>8, <2>9 DEF MadeInv
<1> QED
  BY <1>3, <1>4

\* Saving or removing a row: where it leaves a slot, the slot is about to be remembered, or
\* a preparation is looking, or another request had been there.
LEMMA SavesMade ==
    ASSUME TypeOK, JobsSound, CrossedOutWasAnnounced, MadeInv, NEW r \in Requests,
           SaveMeeting(r) \/ DeleteMeeting(r)
    PROVE MadeInv'
<1> DEFINE j == job[r]
           now == meeting[j.id]
<1>0. r \in Workers /\ j \in Job /\ j.at \in {"save", "delete"}
  BY DEF Workers, TypeOK, SaveMeeting, DeleteMeeting
<1>1. /\ j.id \in Ids /\ j.was \in Row /\ j.row \in Row /\ Fits(j, meeting)
      /\ \A id \in Ids \ {j.id} : meeting'[id] = meeting[id]
      /\ SaveMeeting(r) => meeting'[j.id] = j.row /\ j.row.is = "there"
      /\ DeleteMeeting(r) => meeting'[j.id] = [now EXCEPT !.is = "gone"]
  BY RowsAfterSave
<1>2. removed' = removed /\ today' = today
  BY DEF SaveMeeting, DeleteMeeting
<1>3. PICK at \in {"remember", "tell"} :
        /\ Goes(r, [j EXCEPT !.at = at])
        /\ at = "remember" \/ (SaveMeeting(r) /\ ~Moves(j))
  <2>1. CASE SaveMeeting(r) /\ Moves(j)
    <3>1. Goes(r, [j EXCEPT !.at = "remember"])
      BY <2>1 DEF SaveMeeting
    <3> QED
      BY <3>1
  <2>2. CASE SaveMeeting(r) /\ ~Moves(j)
    <3>1. Goes(r, [j EXCEPT !.at = "tell"])
      BY <2>2 DEF SaveMeeting
    <3> QED
      BY <2>2, <3>1
  <2>3. CASE DeleteMeeting(r)
    <3>1. Goes(r, [j EXCEPT !.at = "remember"])
      BY <2>3 DEF DeleteMeeting
    <3> QED
      BY <3>1
  <2> QED
    BY <2>1, <2>2, <2>3
<1>4. /\ job'[r].at = at /\ job'[r].was = j.was
      /\ \A v \in Workers \ {r} : job'[v] = job[v]
  <2>1. job'[r] = [j EXCEPT !.at = at] /\ \A v \in Workers \ {r} : job'[v] = job[v]
    BY <1>0, <1>3, GoesOn DEF TypeOK
  <2>2. LET n == [j EXCEPT !.at = at] IN n.at = at /\ n.was = j.was
    BY <1>0, OnTheRow
  <2> QED
    BY <2>1, <2>2
<1>5. now \in Row
  BY <1>1 DEF TypeOK
<1>6. meeting'[j.id].made = now.made
  <2>1. CASE SaveMeeting(r)
    BY <1>1, <2>1 DEF Fits
  <2>2. CASE DeleteMeeting(r)
    BY <1>1, <1>5, <2>2 DEF Row
  <2> QED
    BY <2>1, <2>2
<1>7. forgotten \subseteq forgotten'
  BY DEF SaveMeeting, DeleteMeeting
\* The slot the row stood at until now.
<1>8. /\ now.at \in removed' \cup Emptying' \cup forgotten'
         \/ (meeting'[j.id].is = "there" /\ meeting'[j.id].at = now.at)
      /\ \A v \in Workers : job[v].at = "look" =>
            now.at \in forgotten' \/ (meeting'[j.id].is = "there" /\ meeting'[j.id].at = now.at)
  <2>1. CASE SaveMeeting(r)
    <3>1. CASE now # j.was
      BY <2>1, <3>1 DEF SaveMeeting
    <3>2. CASE now = j.was /\ Moves(j)
      <4>1. at = "remember" /\ now.at \in Emptying'
        BY <1>0, <1>3, <1>4, <2>1, <3>2 DEF Emptying
      <4>2. \A v \in Workers : job[v].at = "look" => now.at \in forgotten'
        BY <2>1, <3>2 DEF SaveMeeting, LosesUnseen
      <4> QED
        BY <4>1, <4>2
    <3>3. CASE now = j.was /\ ~Moves(j)
      <4>1. DayOf(j.row.at) = DayOf(j.was.at) /\ KindOf(j.row.at) = KindOf(j.was.at)
        BY <1>1, <3>3 DEF Moves, Fits
      <4>2. j.row.at \in Slots /\ j.was.at \in Slots
        BY <1>1 DEF Row
      <4>3. j.row.at = <<DayOf(j.row.at), KindOf(j.row.at)>> /\ j.was.at = <<DayOf(j.was.at), KindOf(j.was.at)>>
        BY <4>2, SlotParts
      <4>4. j.row.at = now.at
        BY <3>3, <4>1, <4>3
      <4> QED
        BY <1>1, <2>1, <4>4
    <3> QED
      BY <3>1, <3>2, <3>3
  <2>2. CASE DeleteMeeting(r)
    <3>1. at = "remember" \/ SaveMeeting(r)
      BY <1>3
    <3>2. at = "remember"
      BY <2>2, <3>1 DEF SaveMeeting, DeleteMeeting
    <3>3. j.was.at \in Emptying'
      BY <1>0, <1>4, <3>2 DEF Emptying
    <3>4. now.at \in Emptying' \cup forgotten'
      BY <2>2, <3>3 DEF DeleteMeeting
    <3>5. \A v \in Workers : job[v].at = "look" => now.at \in forgotten'
      BY <2>2 DEF DeleteMeeting, LosesUnseen
    <3> QED
      BY <3>4, <3>5
  <2> QED
    BY <2>1, <2>2
<1>9. Emptying \subseteq Emptying'
  <2>1. \A v \in Workers : job[v].at = "remember" => job'[v] = job[v]
    BY <1>0, <1>4
  <2> QED
    BY <2>1 DEF Emptying
<1>10. \A v \in Workers : job'[v].at \in {"look", "write"} => job'[v] = job[v]
  BY <1>4
<1>11. OnePreparation'
  BY <1>10, LockHolds DEF Preparing, MadeInv
<1>12. NewAccounted' /\ MadeOnce'
  <2>1. \A v \in Workers : job[v].at = "write" => \A x \in job[v].new : x.made # ByHand
    BY DEF JobsSound, Sound
  <2>2. \A id \in Ids : meeting'[id].made \in {ByHand, meeting[id].made}
    BY <1>1, <1>6
  <2> QED
    BY <1>7, <1>10, <2>1, <2>2, NothingNew DEF MadeInv
<1> HIDE DEF j, now
<1>13. ASSUME NEW S, NEW T, S \subseteq T, NEW id \in Ids, StandsOrKnown(meeting[id], S, today),
              now.at \in T \/ (meeting'[j.id].is = "there" /\ meeting'[j.id].at = now.at)
       PROVE StandsOrKnown(meeting'[id], T, today')
  <2>1. CASE id # j.id
    BY <1>1, <1>2, <1>13, <2>1 DEF StandsOrKnown
  <2>2. CASE id = j.id
    BY <1>2, <1>6, <1>13, <2>2 DEF StandsOrKnown, now
  <2> QED
    BY <2>1, <2>2
<1>14. SlotsAccounted'
  <2>1. removed \cup Emptying \cup forgotten \subseteq removed' \cup Emptying' \cup forgotten'
    BY <1>2, <1>7, <1>9
  <2>2. \A id \in Ids : StandsOrKnown(meeting'[id], removed' \cup Emptying' \cup forgotten', today')
    BY <1>8, <1>13, <2>1 DEF MadeInv, SlotsAccounted
  <2> QED
    BY <2>2 DEF SlotsAccounted
<1>15. LookAccounted'
  <2>1. ASSUME NEW v \in Workers, job'[v].at = "look", NEW id \in Ids
        PROVE StandsOrKnown(meeting'[id], job'[v].gone \cup forgotten', today')
    <3>1. job'[v] = job[v]
      BY <1>10, <2>1
    <3>2. StandsOrKnown(meeting[id], job[v].gone \cup forgotten, today)
      BY <2>1, <3>1 DEF MadeInv, LookAccounted
    <3>3. job[v].gone \cup forgotten \subseteq job'[v].gone \cup forgotten'
      BY <1>7, <3>1
    <3> QED
      BY <1>8, <1>13, <2>1, <3>1, <3>2, <3>3
  <2> QED
    BY <2>1 DEF LookAccounted
<1> QED
  BY <1>11, <1>12, <1>14, <1>15 DEF MadeInv

\* Writing a slot down as taken out: it leaves the requests' heads for the table.
LEMMA RememberMade ==
    ASSUME TypeOK, JobsSound, MadeInv, NEW r \in Requests, Remember(r)
    PROVE MadeInv'
<1> DEFINE s == job[r].was.at
<1>0. r \in Workers /\ job[r] \in Job /\ job[r].at = "remember" /\ s \in Slots
  BY SavedType DEF Workers, Remember
<1>1. /\ meeting' = meeting /\ today' = today /\ forgotten' = forgotten
      /\ removed' = IF Open(s) THEN removed \cup {s} ELSE removed
  BY DEF Remember, history
<1>2. job'[r].at = "tell" /\ \A v \in Workers \ {r} : job'[v] = job[v]
  <2>1. job'[r] = [job[r] EXCEPT !.at = "tell"] /\ \A v \in Workers \ {r} : job'[v] = job[v]
    BY <1>0, GoesOn DEF Remember, TypeOK
  <2>2. [job[r] EXCEPT !.at = "tell"].at = "tell"
    BY <1>0, OnTheRow
  <2> QED
    BY <2>1, <2>2
<1>3. \A v \in Workers : job'[v].at \in {"look", "write"} => job'[v] = job[v]
  BY <1>2
<1>4. OnePreparation'
  BY <1>3, LockHolds DEF Preparing, MadeInv
<1>5. NewAccounted' /\ MadeOnce'
  <2>1. \A v \in Workers : job[v].at = "write" => \A x \in job[v].new : x.made # ByHand
    BY DEF JobsSound, Sound
  <2> QED
    BY <1>1, <1>3, <2>1, NothingNew DEF MadeInv
<1>6. \A t \in Emptying : t \in Emptying' \/ t = s
  BY <1>2 DEF Emptying
<1>7. Open(s) \/ DayOf(s) < today
  BY <1>0, SlotParts, LastDayIsADay DEF Open, TypeOK
<1>8. SlotsAccounted'
  <2>1. ASSUME NEW id \in Ids
        PROVE StandsOrKnown(meeting'[id], removed' \cup Emptying' \cup forgotten', today')
    <3>1. StandsOrKnown(meeting[id], removed \cup Emptying \cup forgotten, today)
      BY DEF MadeInv, SlotsAccounted
    <3>2. \A t \in removed \cup Emptying \cup forgotten :
            t \in removed' \cup Emptying' \cup forgotten' \/ DayOf(t) < today
      BY <1>1, <1>6, <1>7
    <3> HIDE DEF s
    <3> QED
      BY <1>1, <3>1, <3>2 DEF StandsOrKnown
  <2> QED
    BY <2>1 DEF SlotsAccounted
<1>9. LookAccounted'
  BY <1>1, <1>3 DEF MadeInv, LookAccounted
<1> QED
  BY <1>4, <1>5, <1>8, <1>9 DEF MadeInv

LEMMA WorksMade ==
    ASSUME TypeOK, JobsSound, CrossedOutWasAnnounced, MadeInv, NEW r \in Requests, Works(r)
    PROVE MadeInv'
<1>0. r \in Workers /\ Sound(job[r], meeting)
  BY DEF Workers, JobsSound
<1>1. CASE InsertMeeting(r)
  <2>1. PICK id \in Fresh :
          /\ meeting' = [meeting EXCEPT ![id] = job[r].row]
          /\ Goes(r, [at |-> "tell", id |-> id, was |-> NoRow, row |-> job[r].row])
    BY <1>1 DEF InsertMeeting
  <2>2. job[r].row.made = ByHand /\ job[r].at = "insert"
    BY <1>0, <1>1 DEF Sound, InsertMeeting
  <2>3. SameSlots
    BY <2>1, <2>2 DEF SameSlots, TypeOK
  <2>4. removed' = removed /\ forgotten' = forgotten /\ today' = today
    BY <1>1 DEF InsertMeeting, history
  <2> QED
    BY <1>0, <2>1, <2>2, <2>3, <2>4, CalmGoes
<1>2. CASE SaveMeeting(r) \/ DeleteMeeting(r)
  BY <1>2, SavesMade
<1>3. CASE Remember(r)
  BY <1>3, RememberMade
<1>4. CASE Tell(r)
  <2>1. meeting' = meeting /\ removed' = removed /\ forgotten' = forgotten /\ today' = today
        /\ Goes(r, Idle) /\ job[r].at = "tell"
    BY <1>4 DEF Tell, Ends
  <2>2. SameSlots
    BY <2>1 DEF SameSlots
  <2> QED
    BY <1>0, <2>1, <2>2, IdleJob, CalmGoes
<1>5. CASE FillConductors(r)
  <2>1. removed' = removed /\ forgotten' = forgotten /\ today' = today
        /\ Goes(r, Idle) /\ job[r].at = "fill"
    BY <1>5 DEF FillConductors, history
  <2>2. SameSlots
    <3>1. \A id \in Ids : meeting[id] \in Row
      BY DEF TypeOK
    <3>2. \A row \in Row : \A who : LET n == [row EXCEPT !.who = who] IN
            n.is = row.is /\ n.at = row.at /\ n.made = row.made
      BY DEF Row
    <3>3. ASSUME NEW id \in Ids
          PROVE /\ meeting'[id].is = meeting[id].is /\ meeting'[id].at = meeting[id].at
                /\ meeting'[id].made = meeting[id].made
      <4>1. CASE meeting'[id] = meeting[id]
        BY <4>1
      <4>2. CASE \E who \in Who : meeting'[id] = [meeting[id] EXCEPT !.who = who]
        BY <3>1, <3>2, <4>2
      <4> QED
        BY <1>5, <4>1, <4>2, RowsAfterFill
    <3> QED
      BY <3>3 DEF SameSlots
  <2> QED
    BY <1>0, <2>1, <2>2, IdleJob, CalmGoes
<1> QED
  BY <1>1, <1>2, <1>3, <1>4, <1>5 DEF Works

\* Reading what was taken out: from here on the preparation knows it, and what is being
\* taken out just now is lost on it.
LEMMA ReadRemovedMade ==
    ASSUME TypeOK, JobsSound, MadeInv, NEW w \in Workers, ReadRemoved(w)
    PROVE MadeInv'
<1>1. /\ meeting' = meeting /\ removed' = removed /\ today' = today
      /\ forgotten' = forgotten \cup Emptying
      /\ job[w].at = "asked" /\ \A v \in Workers : ~Preparing(v)
  BY DEF ReadRemoved, tables, LockFree, Preparing
<1>2. /\ job'[w] = [at |-> "look", gone |-> removed]
      /\ \A v \in Workers \ {w} : job'[v] = job[v]
  BY GoesOn DEF ReadRemoved, TypeOK
<1>3. OnePreparation'
  <2>1. \A v \in Workers : Preparing(v)' => v = w
    BY <1>1, <1>2 DEF Preparing
  <2> QED
    BY <2>1 DEF OnePreparation
<1>4. NewAccounted' /\ MadeOnce'
  BY <1>1, <1>2 DEF MadeInv, NewAccounted, MadeOnce, Preparing
<1>5. Emptying' = Emptying
  BY <1>1, <1>2 DEF Emptying
<1>6. \A id \in Ids : StandsOrKnown(meeting[id], removed \cup Emptying \cup forgotten, today)
  BY DEF MadeInv, SlotsAccounted
<1>7. SlotsAccounted'
  <2>1. \A id \in Ids : StandsOrKnown(meeting'[id], removed' \cup Emptying' \cup forgotten', today')
    BY <1>1, <1>5, <1>6 DEF StandsOrKnown
  <2> QED
    BY <2>1 DEF SlotsAccounted
<1>8. LookAccounted'
  <2>1. ASSUME NEW v \in Workers, job'[v].at = "look", NEW id \in Ids
        PROVE StandsOrKnown(meeting'[id], job'[v].gone \cup forgotten', today')
    <3>1. v = w
      BY <1>1, <1>2, <2>1 DEF Preparing
    <3>2. job'[v].gone = removed
      BY <1>2, <3>1
    <3> QED
      BY <1>1, <1>6, <3>2 DEF StandsOrKnown
  <2> QED
    BY <2>1 DEF LookAccounted
<1> QED
  BY <1>3, <1>4, <1>7, <1>8 DEF MadeInv

\* Looking at the month: a slot that is made again was lost on the preparation.
LEMMA LookMade ==
    ASSUME TypeOK, JobsSound, MadeInv, NEW w \in Workers, LookAtMonth(w)
    PROVE MadeInv'
<1> DEFINE S == ToMake(job[w].gone)
<1>1. /\ meeting' = meeting /\ removed' = removed /\ today' = today /\ forgotten' = forgotten
      /\ job[w].at = "look"
  BY DEF LookAtMonth, tables, history
<1>2. PICK pick \in [S -> Who] : Goes(w, [at |-> "write", new |-> {PreparedRow(s, pick[s]) : s \in S}])
  BY LookFinds
<1>3. /\ job'[w] = [at |-> "write", new |-> {PreparedRow(s, pick[s]) : s \in S}]
      /\ \A v \in Workers \ {w} : job'[v] = job[v]
  BY <1>2, GoesOn DEF TypeOK
<1>4. OnePreparation'
  <2>1. \A v \in Workers : Preparing(v)' => Preparing(v)
    BY <1>1, <1>3 DEF Preparing
  <2> QED
    BY <2>1, LockHolds DEF MadeInv
<1>5. S \subseteq Slots /\ \A s \in S : /\ ~(DayOf(s) < today) /\ s \notin job[w].gone
                                       /\ \A id \in Ids : ~(meeting[id].is = "there" /\ meeting[id].at = s)
  <2>1. S \subseteq Slots
    BY FieldConstants DEF ToMake
  <2>2. \A s \in S : Open(s)
    BY DEF ToMake
  <2>3. \A s \in S : ~(DayOf(s) < today)
    BY <2>1, <2>2, SlotParts, LastDayIsADay DEF Open, TypeOK
  <2> QED
    BY <2>1, <2>3 DEF ToMake, standsThere, There
<1>6. \A id \in Ids : StandsOrKnown(meeting[id], job[w].gone \cup forgotten, today)
  BY <1>1 DEF MadeInv, LookAccounted
<1>7. \A s \in S : PreparedRow(s, pick[s]).made = s
  BY <1>5, NewRows
<1>8. \A s \in S, id \in Ids : meeting[id].made = s => s \in forgotten
  BY <1>5, <1>6, FieldConstants DEF StandsOrKnown
<1> HIDE DEF S
<1>9. NewAccounted'
  <2>1. ASSUME NEW v \in Workers, job'[v].at = "write", NEW x \in job'[v].new, NEW id \in Ids,
               meeting'[id].made = x.made
        PROVE x.made \in forgotten'
    <3>1. CASE v = w
      <4>1. PICK s \in S : x = PreparedRow(s, pick[s])
        BY <1>3, <2>1, <3>1
      <4> QED
        BY <1>1, <1>7, <1>8, <2>1, <4>1
    <3>2. CASE v # w
      BY <1>1, <1>3, <2>1, <3>2 DEF MadeInv, NewAccounted
    <3> QED
      BY <3>1, <3>2
  <2> QED
    BY <2>1 DEF NewAccounted
<1>10. MadeOnce'
  BY <1>1 DEF MadeInv, MadeOnce
<1>11. Emptying' = Emptying
  BY <1>1, <1>3 DEF Emptying
<1>12. SlotsAccounted'
  BY <1>1, <1>11 DEF MadeInv, SlotsAccounted
<1>13. LookAccounted'
  <2>1. \A v \in Workers : job'[v].at = "look" => job'[v] = job[v]
    BY <1>3
  <2> QED
    BY <1>1, <2>1 DEF MadeInv, LookAccounted
<1> QED
  BY <1>4, <1>9, <1>10, <1>12, <1>13 DEF MadeInv

\* Writing the drafts: each to a row of its own, and of slots no row was made of.
LEMMA WriteMade ==
    ASSUME TypeOK, JobsSound, MadeInv, NEW w \in Workers, WriteDrafts(w)
    PROVE MadeInv'
<1> DEFINE new == job[w].new
<1>1. removed' = removed /\ today' = today /\ forgotten' = forgotten /\ job[w].at = "write"
  BY DEF WriteDrafts, history
<1>2. PICK f \in [new -> Fresh] :
        /\ \A x, y \in new : f[x] = f[y] => x = y
        /\ \A x \in new : meeting'[f[x]] = x
        /\ \A id \in Ids : (\A x \in new : f[x] # id) => meeting'[id] = meeting[id]
  BY DraftsWritten
<1>3. \A x \in new : x.is = "there" /\ x.at = x.made /\ x.made # ByHand
  BY <1>1 DEF JobsSound, Sound
<1>4. \A x, y \in new : x.made = y.made => x = y
  BY <1>1 DEF JobsSound, Sound
<1>5. \A x \in new, id \in Ids : meeting[id].made = x.made => x.made \in forgotten
  BY <1>1 DEF MadeInv, NewAccounted
<1>6. \E next : Goes(w, next) /\ next.at \notin {"look", "write", "remember"}
  <2>1. Goes(w, [at |-> "task"]) \/ Goes(w, [at |-> "mark", any |-> FALSE]) \/ Goes(w, Idle)
    BY DEF WriteDrafts
  <2> QED
    BY <2>1, IdleJob
<1>7. job'[w].at \notin {"look", "write", "remember"} /\ \A v \in Workers \ {w} : job'[v] = job[v]
  BY <1>6, GoesOn DEF TypeOK
<1>8. \A v \in Workers : ~Preparing(v)'
  <2>1. \A v \in Workers \ {w} : ~Preparing(v)
    BY <1>1 DEF MadeInv, OnePreparation, Preparing
  <2> QED
    BY <1>7, <2>1 DEF Preparing
<1>9. OnePreparation' /\ NewAccounted' /\ LookAccounted'
  BY <1>8 DEF OnePreparation, NewAccounted, LookAccounted, Preparing
<1>10. \A id \in Ids : meeting'[id] = meeting[id] \/ \E x \in new : f[x] = id /\ meeting'[id] = x
  BY <1>2
<1>11. MadeOnce'
  <2>1. ASSUME NEW id \in Ids, NEW o \in Ids, id # o, meeting'[id].made # ByHand,
               meeting'[id].made = meeting'[o].made
        PROVE meeting'[id].made \in forgotten
    <3>1. CASE meeting'[id] = meeting[id] /\ meeting'[o] = meeting[o]
      BY <2>1, <3>1 DEF MadeInv, MadeOnce
    <3>2. CASE meeting'[id] = meeting[id] /\ \E x \in new : f[x] = o /\ meeting'[o] = x
      BY <1>5, <2>1, <3>2
    <3>3. CASE meeting'[o] = meeting[o] /\ \E x \in new : f[x] = id /\ meeting'[id] = x
      BY <1>5, <2>1, <3>3
    <3>4. CASE (\E x \in new : f[x] = id /\ meeting'[id] = x) /\ \E x \in new : f[x] = o /\ meeting'[o] = x
      BY <1>4, <2>1, <3>4
    <3> QED
      BY <1>10, <3>1, <3>2, <3>3, <3>4
  <2> QED
    BY <1>1, <2>1 DEF MadeOnce
<1>12. Emptying' = Emptying
  BY <1>1, <1>7 DEF Emptying
<1>13. SlotsAccounted'
  <2>1. ASSUME NEW id \in Ids
        PROVE StandsOrKnown(meeting'[id], removed' \cup Emptying' \cup forgotten', today')
    <3>1. CASE meeting'[id] = meeting[id]
      BY <1>1, <1>12, <3>1 DEF MadeInv, SlotsAccounted
    <3>2. CASE \E x \in new : f[x] = id /\ meeting'[id] = x
      BY <1>3, <3>2 DEF StandsOrKnown
    <3> QED
      BY <1>10, <3>1, <3>2
  <2> QED
    BY <2>1 DEF SlotsAccounted
<1> QED
  BY <1>9, <1>11, <1>13 DEF MadeInv

LEMMA StepsMade ==
    ASSUME TypeOK, JobsSound, MadeInv, NEW w \in Workers, Steps(w)
    PROVE MadeInv'
<1>1. CASE PublishDrafts(w)
  <2>1. removed' = removed /\ forgotten' = forgotten /\ today' = today /\ job[w].at = "publish"
        /\ Goes(w, [job[w] EXCEPT !.at = "announce"])
    BY <1>1 DEF PublishDrafts
  <2>2. SameSlots
    <3>1. \A id \in Ids : meeting[id] \in Row
      BY DEF TypeOK
    <3>2. \A row \in Row : LET n == [row EXCEPT !.pub = TRUE] IN
            n.is = row.is /\ n.at = row.at /\ n.made = row.made
      BY DEF Row
    <3> QED
      BY <1>1, <3>1, <3>2, RowsAfterPublish DEF SameSlots
  <2>3. job[w] \in Job
    BY DEF TypeOK
  <2>4. [job[w] EXCEPT !.at = "announce"].at = "announce"
    BY <2>1, <2>3, OnTheMonth
  <2> QED
    BY <2>1, <2>2, <2>4, CalmGoes
<1>2. CASE Announce(w)
  <2>1. removed' = removed /\ forgotten' = forgotten /\ today' = today /\ job[w].at = "announce"
        /\ meeting' = meeting
    BY <1>2 DEF Announce, tables
  <2>2. SameSlots
    BY <2>1 DEF SameSlots
  <2>3. job[w] \in Job
    BY DEF TypeOK
  <2>4. [job[w] EXCEPT !.at = "published"].at = "published"
    BY <2>1, <2>3, OnTheMonth
  <2>5. Goes(w, [job[w] EXCEPT !.at = "published"]) \/ Goes(w, Idle)
    BY <1>2 DEF Announce, Ends
  <2> QED
    BY <2>1, <2>2, <2>4, <2>5, IdleJob, CalmGoes
<1> QED
  BY <1>1, <1>2, ReadRemovedMade, LookMade, WriteMade DEF Steps

LEMMA StepMade ==
    ASSUME TypeOK, JobsSound, CrossedOutWasAnnounced, MadeInv, [Next]_vars
    PROVE MadeInv'
<1>1. CASE UNCHANGED vars \/ Tick
  <2>1. /\ meeting' = meeting /\ job' = job /\ removed' = removed /\ forgotten' = forgotten
        /\ today' \in {today, today + 1}
    BY <1>1 DEF vars, tables, history, Tick
  <2>2. today \in Nat
    BY LastDayIsADay DEF TypeOK
  <2>3. today' >= today /\ today' \in Nat
    BY <2>1, <2>2
  <2> QED
    BY <2>1, <2>3, CalmStays
<1>2. CASE Next /\ ~Tick
  BY <1>2, BeginsMade, WorksMade, StepsMade, FailsMade, NightMade DEF Next
<1> QED
  BY <1>1, <1>2

LEMMA InitMade == Init => MadeInv
<1> SUFFICES ASSUME Init PROVE MadeInv
  OBVIOUS
<1>1. \A v \in Workers : job[v].at = "idle"
  BY IdleJob DEF Init
<1>2. OnePreparation /\ LookAccounted /\ NewAccounted
  BY <1>1 DEF OnePreparation, LookAccounted, NewAccounted, Preparing
<1>3. SlotsAccounted
  BY FieldSetups DEF Init, SlotsAccounted, StandsOrKnown
<1>4. MadeOnce
  BY FieldSetups DEF Init, MadeOnce
<1> QED
  BY <1>2, <1>3, <1>4 DEF MadeInv

\* However often and by whomever the month is prepared, and whatever is changed, removed or
\* fails beside it, a slot of the template is made into one meeting, but where its day was
\* emptied in the middle of a preparation or never written down as emptied.
THEOREM ASlotIsMadeOnce == Spec => []MadeOnce
<1>1. Init => TypeOK /\ JobsSound /\ CrossedOutWasAnnounced /\ MadeInv
  BY InitType, InitSound, InitMade
<1>2. TypeOK /\ JobsSound /\ CrossedOutWasAnnounced /\ MadeInv /\ [Next]_vars
        => (TypeOK /\ JobsSound /\ CrossedOutWasAnnounced /\ MadeInv)'
  BY StepType, StepSound, StepMade
<1>3. MadeInv => MadeOnce
  BY DEF MadeInv
<1> QED
  BY <1>1, <1>2, <1>3, PTL DEF Spec

----------------------------------------------------------------------------
(* Those who conduct know it.                                               *)

Settled(id) == id \notin raced \cup unsure \cup muted

\* What is expected of a meeting by its row, and who is about to be told of it.
Expects(id, row) == Of(id, IF Said(row) THEN {<<b, DayOf(row.at)>> : b \in Goer(row)} ELSE {})
TellsOf(j, id) == j.at \in {"remember", "tell"} /\ j.id = id
WillTell(j, id, row) ==
    \/ TellsOf(j, id) /\ j.row = row /\ Expects(id, row) \subseteq Of(id, Adds(j.was, j.row))
    \/ j.at = "announce" /\ \E x \in j.read : x[1] = id /\ row = [x[2] EXCEPT !.pub = TRUE]

\* What is expected beside what is due is about to be taken back.
NothingElse(id) ==
    \A k \in knows : k[2] = id => \/ k \in Expects(id, meeting[id]) \/ k \in slipped
                                  \/ \E w \in Workers : TellsOf(job[w], id) /\ k \in Expects(id, job[w].was)

\* What is due is expected, or about to be told.
Heard(id) == \/ Expects(id, meeting[id]) \subseteq knows
             \/ \E w \in Workers : WillTell(job[w], id, meeting[id])

KnownInv == \A id \in Ids : Settled(id) => NothingElse(id) /\ Heard(id)

LEMMA DueIsExpected == \A id \in Ids : Due(id) = Expects(id, meeting[id])
<1>1. \A id \in Ids : Live(id) <=> Said(meeting[id])
  BY DEF Live, On, There, Said
<1>2. Of(1, {}) = {} /\ \A id : Of(id, {}) = {}
  BY DEF Of
<1> QED
  BY <1>1, <1>2 DEF Due, Expects

LEMMA OfMeans ==
    \A id, pairs : \A k \in Of(id, pairs) : k[2] = id
BY DEF Of

LEMMA ExpectsMeans ==
    /\ \A id, row : \A k \in Expects(id, row) : k[2] = id
    /\ \A id, row : ~Said(row) => Expects(id, row) = {}
BY OfMeans DEF Expects, Of

\* The known ones stay the known ones where nobody touches the meeting or its messages.
Untouched(id) ==
    /\ \A k : k[2] = id => (k \in knows <=> k \in knows')
    /\ \/ meeting'[id] = meeting[id]
       \/ Expects(id, meeting[id]) = {} /\ Expects(id, meeting'[id]) = {}
    /\ \A v \in Workers : TellsOf(job[v], id) =>
          TellsOf(job'[v], id) /\ job'[v].was = job[v].was /\ job'[v].row = job[v].row
    /\ \A v \in Workers : (job[v].at = "announce" /\ id \in ReadIds(job[v])) => job'[v] = job[v]

Grows == slipped \subseteq slipped' /\ raced \subseteq raced' /\ unsure \subseteq unsure' /\ muted \subseteq muted'

LEMMA UntouchedStays ==
    ASSUME NEW id \in Ids, NothingElse(id), Heard(id), Untouched(id), Grows
    PROVE NothingElse(id)' /\ Heard(id)'
<1>1. ASSUME NEW k \in knows', k[2] = id
      PROVE \/ k \in Expects(id, meeting'[id]) \/ k \in slipped'
            \/ \E w \in Workers : TellsOf(job'[w], id) /\ k \in Expects(id, job'[w].was)
  <2>1. k \in knows
    BY <1>1 DEF Untouched
  <2>2. CASE k \in Expects(id, meeting[id])
    BY <2>2 DEF Untouched
  <2>3. CASE k \in slipped
    BY <2>3 DEF Grows
  <2>4. CASE \E w \in Workers : TellsOf(job[w], id) /\ k \in Expects(id, job[w].was)
    BY <2>4 DEF Untouched
  <2> QED
    BY <1>1, <2>1, <2>2, <2>3, <2>4 DEF NothingElse
<1>2. Expects(id, meeting'[id]) \subseteq knows' \/ \E w \in Workers : WillTell(job'[w], id, meeting'[id])
  <2>1. CASE Expects(id, meeting'[id]) = {}
    BY <2>1
  <2>2. CASE meeting'[id] = meeting[id] /\ Expects(id, meeting[id]) \subseteq knows
    BY <2>2, ExpectsMeans DEF Untouched
  <2>3. CASE meeting'[id] = meeting[id] /\ \E w \in Workers : WillTell(job[w], id, meeting[id])
    <3>1. PICK w \in Workers : WillTell(job[w], id, meeting[id])
      BY <2>3
    <3>2. CASE TellsOf(job[w], id)
      BY <2>3, <3>1, <3>2 DEF WillTell, Untouched, TellsOf
    <3>3. CASE ~TellsOf(job[w], id)
      <4>1. job[w].at = "announce" /\ \E x \in job[w].read : x[1] = id
        BY <3>1, <3>3 DEF WillTell
      <4>2. job'[w] = job[w]
        BY <4>1 DEF Untouched, ReadIds
      <4> QED
        BY <2>3, <3>1, <4>2
    <3> QED
      BY <3>2, <3>3
  <2> QED
    BY <2>1, <2>2, <2>3 DEF Heard, Untouched
<1> QED
  BY <1>1, <1>2 DEF NothingElse, Heard

LEMMA AllUntouched ==
    ASSUME KnownInv, Grows, \A id \in Ids : Settled(id)' => Untouched(id)
    PROVE KnownInv'
<1>1. ASSUME NEW id \in Ids, Settled(id)' PROVE NothingElse(id)' /\ Heard(id)'
  <2>1. Settled(id)
    BY <1>1 DEF Settled, Grows
  <2> QED
    BY <1>1, <2>1, UntouchedStays DEF KnownInv
<1> QED
  BY <1>1 DEF KnownInv

\* A step of somebody who has nothing to tell.
LEMMA QuietGoes ==
    ASSUME TypeOK, KnownInv, NEW w \in Workers, NEW next, Goes(w, next),
           job[w].at \notin {"remember", "tell", "announce"},
           knows' = knows, Grows,
           \A id \in Ids : \/ meeting'[id] = meeting[id]
                           \/ ~Said(meeting[id]) /\ ~Said(meeting'[id])
    PROVE KnownInv'
<1>1. \A v \in Workers \ {w} : job'[v] = job[v]
  BY GoesOn DEF TypeOK
<1>2. \A v \in Workers : job[v].at \in {"remember", "tell", "announce"} => job'[v] = job[v]
  BY <1>1
<1>3. \A id \in Ids : meeting'[id] = meeting[id]
                      \/ (Expects(id, meeting[id]) = {} /\ Expects(id, meeting'[id]) = {})
  <2>1. TAKE id \in Ids
  <2>2. CASE meeting'[id] = meeting[id]
    BY <2>2
  <2>3. CASE ~Said(meeting[id]) /\ ~Said(meeting'[id])
    BY <2>3, ExpectsMeans
  <2> QED
    BY <2>2, <2>3
<1>4. \A id \in Ids : Untouched(id)
  BY <1>2, <1>3 DEF Untouched, TellsOf
<1> QED
  BY <1>4, AllUntouched

LEMMA QuietStays ==
    ASSUME KnownInv, job' = job, knows' = knows, Grows, meeting' = meeting
    PROVE KnownInv'
<1>1. \A v \in Workers : job'[v] = job[v]
  OBVIOUS
<1>2. \A id \in Ids : Untouched(id)
  BY <1>1 DEF Untouched, TellsOf
<1> QED
  BY <1>2, AllUntouched

LEMMA BeginsKnown ==
    ASSUME TypeOK, KnownInv, NEW r \in Requests, Begins(r)
    PROVE KnownInv'
<1>0. r \in Workers
  BY DEF Workers
<1>1. meeting' = meeting /\ knows' = knows /\ Grows
  BY DEF Begins, BeginCreate, BeginUpdate, BeginCancel, BeginRestore, BeginRemove, BeginPublish,
         BeginPrepare, BeginFill, EnterAbsence, Begin, tables, history, Grows
<1>2. CASE EnterAbsence(r)
  BY <1>1, <1>2, QuietStays DEF EnterAbsence
<1>3. CASE ~EnterAbsence(r)
  <2>1. job[r].at = "idle"
    BY <1>3, IdleJob DEF Begins, BeginCreate, BeginUpdate, BeginCancel, BeginRestore, BeginRemove,
                         BeginPublish, BeginPrepare, BeginFill, Begin
  <2>2. \E next : Goes(r, next)
    BY <1>3, Zenon DEF Begins, BeginCreate, BeginUpdate, BeginCancel, BeginRestore, BeginRemove,
                       BeginPublish, BeginPrepare, BeginFill, Saves
  <2> QED
    BY <1>0, <1>1, <2>1, <2>2, QuietGoes
<1> QED
  BY <1>2, <1>3

LEMMA NightKnown ==
    ASSUME TypeOK, KnownInv, Night
    PROVE KnownInv'
<1>0. Nightly \in Workers
  BY DEF Workers
<1>1. meeting' = meeting /\ knows' = knows /\ Grows
  BY DEF Night, BeginPass, OpenTask, MarkPrepared, Remind, AutoPublish, MarkPublished, tables, history, Grows
<1>2. job[Nightly].at \notin {"remember", "tell", "announce"}
  BY IdleJob DEF Night, BeginPass, OpenTask, MarkPrepared, Remind, AutoPublish, MarkPublished
<1>3. \E next : Goes(Nightly, next)
  BY Zenon DEF Night, BeginPass, OpenTask, MarkPrepared, Remind, AutoPublish, MarkPublished, Ends
<1> QED
  BY <1>0, <1>1, <1>2, <1>3, QuietGoes

\* What gets lost is counted as lost.
LEMMA FailsKnown ==
    ASSUME TypeOK, KnownInv, NEW w \in Workers, PublishFails(w) \/ Lose(w)
    PROVE KnownInv'
<1>1. meeting' = meeting /\ knows' = knows /\ Goes(w, Idle) /\ Grows
  BY DEF PublishFails, Lose, Ends, tables, history, Grows
<1>2. CASE job[w].at \notin {"remember", "tell", "announce"}
  BY <1>1, <1>2, QuietGoes
<1>3. CASE job[w].at \in {"remember", "tell", "announce"}
  <2>1. \A v \in Workers \ {w} : job'[v] = job[v]
    BY <1>1, GoesOn DEF TypeOK
  <2>2. unsure' = IF job[w].at = "announce" THEN unsure \cup ReadIds(job[w]) ELSE unsure \cup {job[w].id}
    BY <1>3 DEF PublishFails, Lose
  <2>3. ASSUME NEW id \in Ids, Settled(id)' PROVE Untouched(id)
    <3>1. ~TellsOf(job[w], id) /\ ~(job[w].at = "announce" /\ id \in ReadIds(job[w]))
      BY <1>3, <2>2, <2>3 DEF Settled, TellsOf
    <3> QED
      BY <1>1, <2>1, <3>1 DEF Untouched
  <2> QED
    BY <1>1, <2>3, AllUntouched
<1> QED
  BY <1>2, <1>3

LEMMA InsertKnown ==
    ASSUME TypeOK, JobsSound, KnownInv, NEW r \in Requests, InsertMeeting(r)
    PROVE KnownInv'
<1> DEFINE row == job[r].row
<1>0. r \in Workers /\ job[r].at = "insert"
  BY DEF Workers, InsertMeeting
<1>1. PICK id \in Fresh :
        /\ meeting' = [meeting EXCEPT ![id] = row]
        /\ Goes(r, [at |-> "tell", id |-> id, was |-> NoRow, row |-> row])
  BY DEF InsertMeeting
<1>2. id \in Ids /\ meeting[id].is = "none"
  BY <1>1 DEF Fresh
<1>3. knows' = knows /\ Grows
  BY DEF InsertMeeting, history, Grows
<1>4. job'[r] = [at |-> "tell", id |-> id, was |-> NoRow, row |-> row]
      /\ \A v \in Workers \ {r} : job'[v] = job[v]
  BY <1>0, <1>1, GoesOn DEF TypeOK
<1>5. meeting'[id] = row /\ \A o \in Ids \ {id} : meeting'[o] = meeting[o]
  BY <1>1, <1>2 DEF TypeOK
<1>6. \A v \in Workers : job[v].at \in {"remember", "tell", "announce"} => job'[v] = job[v]
  BY <1>0, <1>4
<1>7. \A o \in Ids \ {id} : Untouched(o)
  BY <1>3, <1>5, <1>6 DEF Untouched, TellsOf
<1>8. ~Said(meeting[id])
  BY <1>2 DEF Said
<1>9. ASSUME Settled(id) PROVE NothingElse(id)' /\ Heard(id)'
  <2>1. NothingElse(id)
    BY <1>2, <1>9 DEF KnownInv
  <2>2. \A k \in knows : k[2] = id => \/ k \in slipped
                                     \/ \E w \in Workers : TellsOf(job'[w], id) /\ k \in Expects(id, job'[w].was)
    <3>1. Expects(id, meeting[id]) = {}
      BY <1>8, ExpectsMeans
    <3>2. \A w \in Workers : TellsOf(job[w], id) => job'[w] = job[w]
      BY <1>6 DEF TellsOf
    <3> QED
      BY <2>1, <3>1, <3>2 DEF NothingElse
  <2>3. NothingElse(id)'
    BY <1>3, <2>2 DEF NothingElse, Grows
  <2>4. Expects(id, row) \subseteq Of(id, Adds(NoRow, row))
    BY NoRowIsARow DEF Expects, Adds, Of
  <2>5. WillTell(job'[r], id, meeting'[id])
    BY <1>4, <1>5, <2>4 DEF WillTell, TellsOf
  <2> QED
    BY <1>0, <2>3, <2>5 DEF Heard
<1>10. ASSUME NEW o \in Ids, Settled(o)' PROVE NothingElse(o)' /\ Heard(o)'
  <2>1. Settled(o)
    BY <1>3, <1>10 DEF Settled, Grows
  <2>2. CASE o = id
    BY <1>9, <2>1, <2>2
  <2>3. CASE o # id
    BY <1>3, <1>7, <2>1, <2>3, UntouchedStays DEF KnownInv
  <2> QED
    BY <2>2, <2>3
<1> QED
  BY <1>10 DEF KnownInv

\* A row is saved or removed: whoever expected it by the row before is about to hear, if
\* the row before is the one the request read.
LEMMA SavesKnown ==
    ASSUME TypeOK, JobsSound, KnownInv, NEW r \in Requests, SaveMeeting(r) \/ DeleteMeeting(r)
    PROVE KnownInv'
<1> DEFINE j == job[r]
<1>0. r \in Workers /\ j \in Job /\ j.at \in {"save", "delete"} /\ Sound(j, meeting)
  BY DEF Workers, TypeOK, JobsSound, SaveMeeting, DeleteMeeting
<1>1. /\ j.id \in Ids /\ j.was \in Row /\ j.row \in Row
      /\ \A id \in Ids \ {j.id} : meeting'[id] = meeting[id]
      /\ SaveMeeting(r) => meeting'[j.id] = j.row
      /\ DeleteMeeting(r) => /\ meeting'[j.id] = [meeting[j.id] EXCEPT !.is = "gone"]
                             /\ j.row = [j.was EXCEPT !.is = "gone"]
  BY RowsAfterSave
<1>id. PICK id \in Ids : id = j.id
  BY <1>1
<1>2. knows' = knows /\ Grows /\ (meeting[id] # j.was => id \in raced')
  BY <1>id DEF SaveMeeting, DeleteMeeting, Grows
<1>3. PICK at \in {"remember", "tell"} : Goes(r, [j EXCEPT !.at = at])
  BY DEF SaveMeeting, DeleteMeeting
<1>4. /\ job'[r].at = at /\ job'[r].id = id /\ job'[r].was = j.was /\ job'[r].row = j.row
      /\ \A v \in Workers \ {r} : job'[v] = job[v]
  <2>1. job'[r] = [j EXCEPT !.at = at] /\ \A v \in Workers \ {r} : job'[v] = job[v]
    BY <1>0, <1>3, GoesOn DEF TypeOK
  <2>2. LET n == [j EXCEPT !.at = at] IN n.at = at /\ n.id = j.id /\ n.was = j.was /\ n.row = j.row
    BY <1>0, OnTheRow
  <2> QED
    BY <1>id, <2>1, <2>2
<1>5. \A v \in Workers : job[v].at \in {"remember", "tell", "announce"} => job'[v] = job[v]
  BY <1>0, <1>4
<1>6. \A o \in Ids \ {id} : Untouched(o)
  BY <1>1, <1>id, <1>2, <1>5 DEF Untouched, TellsOf
<1>7. Said(j.row) => IsNews(j.was, j.row)
  BY <1>0, <1>1 DEF Sound, Said, Row, SaveMeeting, DeleteMeeting
<1>8. TellsOf(job'[r], id)
  BY <1>4 DEF TellsOf
<1>9. ASSUME Settled(id)' PROVE NothingElse(id)' /\ Heard(id)'
  <2>1. meeting[id] = j.was /\ meeting'[id] = j.row
    BY <1>1, <1>id, <1>2, <1>9 DEF Settled
  <2>2. NothingElse(id)
    BY <1>1, <1>2, <1>9 DEF KnownInv, Settled, Grows
  <2>3. ASSUME NEW k \in knows, k[2] = id
        PROVE k \in slipped \/ \E w \in Workers : TellsOf(job'[w], id) /\ k \in Expects(id, job'[w].was)
    <3>1. CASE k \in Expects(id, meeting[id])
      BY <1>0, <1>4, <1>8, <2>1, <3>1
    <3>2. CASE k \in slipped
      BY <3>2
    <3>3. CASE \E w \in Workers : TellsOf(job[w], id) /\ k \in Expects(id, job[w].was)
      BY <1>5, <3>3 DEF TellsOf
    <3> QED
      BY <2>2, <2>3, <3>1, <3>2, <3>3 DEF NothingElse
  <2>4. NothingElse(id)'
    <3>1. \A k \in knows' : k[2] = id =>
             k \in slipped' \/ \E w \in Workers : TellsOf(job'[w], id) /\ k \in Expects(id, job'[w].was)
      BY <1>2, <2>3 DEF Grows
    <3>2. \A o \in Ids : (\A k \in knows' : k[2] = o =>
             k \in slipped' \/ \E w \in Workers : TellsOf(job'[w], o) /\ k \in Expects(o, job'[w].was))
               => NothingElse(o)'
      BY DEF NothingElse
    <3> QED
      BY <1>1, <3>1, <3>2
  <2>5. Expects(id, j.row) \subseteq Of(id, Adds(j.was, j.row))
    BY <1>7 DEF Expects, Adds, IsNews, Of
  <2>6. WillTell(job'[r], id, meeting'[id])
    BY <1>4, <1>8, <2>1, <2>5 DEF WillTell
  <2> QED
    BY <1>0, <1>1, <2>4, <2>6 DEF Heard
<1>10. ASSUME NEW o \in Ids, Settled(o)' PROVE NothingElse(o)' /\ Heard(o)'
  <2>1. CASE o = id
    BY <1>9, <1>10, <2>1
  <2>2. CASE o # id
    <3>1. Settled(o)
      BY <1>2, <1>10 DEF Settled, Grows
    <3> QED
      BY <1>2, <1>6, <2>2, <3>1, UntouchedStays DEF KnownInv
  <2> QED
    BY <2>1, <2>2
<1> QED
  BY <1>10 DEF KnownInv

LEMMA OfPairs ==
    /\ \A id, row, d : \A k :
          k \in Of(id, {<<b, d>> : b \in Goer(row)}) <=> row.who # Nobody /\ k = <<row.who, id, d>>
    /\ \A id, k : k \notin Of(id, {})
<1>1. ASSUME NEW id, NEW row, NEW d, NEW k
      PROVE k \in Of(id, {<<b, d>> : b \in Goer(row)}) <=> row.who # Nobody /\ k = <<row.who, id, d>>
  <2>1. CASE row.who = Nobody
    <3>1. {<<b, d>> : b \in Goer(row)} = {}
      BY <2>1 DEF Goer
    <3> QED
      BY <2>1, <3>1 DEF Of
  <2>2. CASE row.who # Nobody
    <3>1. {<<b, d>> : b \in Goer(row)} = {<<row.who, d>>}
      BY <2>2 DEF Goer
    <3>2. Of(id, {<<row.who, d>>}) = {<<row.who, id, d>>}
      BY DEF Of
    <3> QED
      BY <2>2, <3>1, <3>2
  <2> QED
    BY <2>1, <2>2
<1>2. \A id, k : k \notin Of(id, {})
  BY DEF Of
<1> QED
  BY <1>1, <1>2

LEMMA ExpectsRow ==
    \A id, row : \A k :
        k \in Expects(id, row) <=> Said(row) /\ row.who # Nobody /\ k = <<row.who, id, DayOf(row.at)>>
<1>1. ASSUME NEW id, NEW row, NEW k
      PROVE k \in Expects(id, row) <=> Said(row) /\ row.who # Nobody /\ k = <<row.who, id, DayOf(row.at)>>
  BY OfPairs DEF Expects
<1> QED
  BY <1>1

\* What is told of a row as it is now reaches who is due, and takes back what is not due
\* any more, but for what one message slips.
LEMMA ToldRight ==
    ASSUME NEW id \in Ids, NEW was \in Row, NEW row \in Row,
           was.who # Nobody => KindOf(row.at) = KindOf(was.at)
    PROVE /\ Of(id, Adds(was, row)) \subseteq Expects(id, row)
          /\ Expects(id, was) \subseteq Expects(id, row) \cup Of(id, Slips(was, row)) \cup Of(id, Drops(was, row))
          /\ Expects(id, row) \cap Of(id, Drops(was, row)) = {}
<1>3. \A d : \A k : k \in Of(id, {<<b, d>> : b \in Goer(was)}) <=> was.who # Nobody /\ k = <<was.who, id, d>>
  BY OfPairs
<1>2. \A k : k \in Expects(id, was) <=> Said(was) /\ was.who # Nobody /\ k = <<was.who, id, DayOf(was.at)>>
  BY ExpectsRow
<1>1. \A k : k \in Expects(id, row) <=> Said(row) /\ row.who # Nobody /\ k = <<row.who, id, DayOf(row.at)>>
  BY ExpectsRow
<1>4. \A k : k \notin Of(id, {})
  BY DEF Of
<1>5. Of(id, Adds(was, row)) \subseteq Expects(id, row)
  BY <1>4 DEF Adds, Expects
<1>6. was.who # Nobody /\ was.at # row.at => DayOf(was.at) # DayOf(row.at)
  <2>1. was.at \in Slots /\ row.at \in Slots
    BY DEF Row
  <2> QED
    BY <2>1, SlotParts
<1>7. CASE ~Said(row)
  <2>1. Drops(was, row) = IF Said(was) THEN {<<b, DayOf(was.at)>> : b \in Goer(was)} ELSE {}
    BY <1>7 DEF Drops
  <2> QED
    BY <1>1, <1>2, <1>3, <1>5, <1>7, <2>1
<1>8. CASE Said(row) /\ was.who # row.who
  <2>1. Drops(was, row) = {<<b, DayOf(row.at)>> : b \in Goer(was)}
    BY <1>8 DEF Drops
  <2>2. was.at # row.at => Slips(was, row) = {<<b, DayOf(was.at)>> : b \in Goer(was)}
    BY <1>8 DEF Slips
  <2>3. \A k : k \in Of(id, Drops(was, row)) <=> was.who # Nobody /\ k = <<was.who, id, DayOf(row.at)>>
    BY <1>3, <2>1
  <2>4. was.at # row.at => \A k : k \in Of(id, Slips(was, row)) <=> was.who # Nobody /\ k = <<was.who, id, DayOf(was.at)>>
    BY <1>3, <2>2
  <2>5. Expects(id, was) \subseteq Of(id, Slips(was, row)) \cup Of(id, Drops(was, row))
    <3>1. CASE was.at = row.at
      BY <1>2, <2>3, <3>1
    <3>2. CASE was.at # row.at
      BY <1>2, <2>4, <3>2
    <3> QED
      BY <3>1, <3>2
  <2>6. Expects(id, row) \cap Of(id, Drops(was, row)) = {}
    BY <1>1, <1>8, <2>3
  <2> QED
    BY <1>5, <2>5, <2>6
<1>9. CASE Said(row) /\ was.who = row.who /\ was.at # row.at
  <2>1. Drops(was, row) = {<<b, DayOf(was.at)>> : b \in Goer(was)}
    BY <1>9 DEF Drops
  <2>2. \A k : k \in Of(id, Drops(was, row)) <=> was.who # Nobody /\ k = <<was.who, id, DayOf(was.at)>>
    BY <1>3, <2>1
  <2> QED
    BY <1>1, <1>2, <1>5, <1>6, <1>9, <2>2
<1>10. CASE Said(row) /\ was.who = row.who /\ was.at = row.at
  <2>1. Drops(was, row) = {}
    BY <1>10 DEF Drops
  <2> QED
    BY <1>1, <1>2, <1>4, <1>5, <1>10, <2>1
<1> QED
  BY <1>7, <1>8, <1>9, <1>10

LEMMA TellKnown ==
    ASSUME TypeOK, JobsSound, KnownInv, NEW r \in Requests, Tell(r)
    PROVE KnownInv'
<1> DEFINE was == job[r].was
           row == job[r].row
           repeat == Moved(job[r]) \cap keys # {}
<1>0. r \in Workers /\ job[r].at = "tell" /\ was \in Row /\ row \in Row /\ job[r].id \in Ids
      /\ Sound(job[r], meeting)
  BY SavedType DEF Workers, Tell, JobsSound
<1>id. PICK id \in Ids : id = job[r].id
  BY <1>0
<1>1. /\ knows' = IF repeat THEN knows ELSE (knows \ Of(id, Drops(was, row))) \cup Of(id, Adds(was, row))
      /\ muted' = IF repeat THEN muted \cup {id} ELSE muted
      /\ slipped' = slipped \cup Of(id, Slips(was, row))
      /\ raced' = IF meeting[id] # row THEN raced \cup {id} ELSE raced
      /\ unsure' = unsure /\ meeting' = meeting /\ Goes(r, Idle)
  BY <1>id DEF Tell, Ends
<1>2. Grows
  BY <1>1 DEF Grows
<1>3. job'[r] = Idle /\ \A v \in Workers \ {r} : job'[v] = job[v]
  BY <1>0, <1>1, GoesOn DEF TypeOK
<1>4. was.who # Nobody => KindOf(row.at) = KindOf(was.at)
  BY <1>0 DEF Sound
<1>5. /\ Of(id, Adds(was, row)) \subseteq Expects(id, row)
      /\ Expects(id, was) \subseteq Expects(id, row) \cup Of(id, Slips(was, row)) \cup Of(id, Drops(was, row))
      /\ Expects(id, row) \cap Of(id, Drops(was, row)) = {}
  BY <1>0, <1>4, ToldRight
<1>6. \A o \in Ids \ {id} : Untouched(o)
  <2>1. TAKE o \in Ids \ {id}
  <2>2. \A k : k[2] = o => (k \in knows <=> k \in knows')
    BY <1>1, OfMeans
  <2>3. \A v \in Workers : TellsOf(job[v], o) \/ job[v].at = "announce" => job'[v] = job[v]
    BY <1>0, <1>id, <1>3 DEF TellsOf
  <2> QED
    BY <1>1, <2>2, <2>3 DEF Untouched, TellsOf
<1> HIDE DEF was, row, repeat
<1>7. ASSUME Settled(id)' PROVE NothingElse(id)' /\ Heard(id)'
  <2>1. ~repeat /\ meeting[id] = row
    BY <1>1, <1>7 DEF Settled
  <2>2. Settled(id)
    BY <1>2, <1>7 DEF Settled, Grows
  <2>3. NothingElse(id) /\ Heard(id)
    BY <2>2 DEF KnownInv
  <2>4. knows' = (knows \ Of(id, Drops(was, row))) \cup Of(id, Adds(was, row))
    BY <1>1, <2>1
  <2>5. ASSUME NEW k \in knows', k[2] = id
        PROVE \/ k \in Expects(id, meeting'[id]) \/ k \in slipped'
              \/ \E w \in Workers : TellsOf(job'[w], id) /\ k \in Expects(id, job'[w].was)
    <3>1. CASE k \in Of(id, Adds(was, row))
      BY <1>1, <1>5, <2>1, <3>1
    <3>2. CASE k \in knows /\ k \notin Of(id, Drops(was, row))
      <4>1. CASE k \in Expects(id, meeting[id]) \/ k \in slipped
        BY <1>1, <4>1
      <4>2. CASE \E w \in Workers : TellsOf(job[w], id) /\ k \in Expects(id, job[w].was)
        <5>1. PICK w \in Workers : TellsOf(job[w], id) /\ k \in Expects(id, job[w].was)
          BY <4>2
        <5>2. CASE w = r
          <6>1. k \in Expects(id, was)
            BY <5>1, <5>2 DEF was
          <6> QED
            BY <1>1, <1>5, <2>1, <3>2, <6>1
        <5>3. CASE w # r
          BY <1>3, <5>1, <5>3
        <5> QED
          BY <5>2, <5>3
      <4> QED
        BY <2>3, <2>5, <3>2, <4>1, <4>2 DEF NothingElse
    <3> QED
      BY <2>4, <2>5, <3>1, <3>2
  <2>6. Expects(id, meeting'[id]) \subseteq knows' \/ \E w \in Workers : WillTell(job'[w], id, meeting'[id])
    <3>1. CASE Expects(id, meeting[id]) \subseteq knows
      BY <1>1, <1>5, <2>1, <2>4, <3>1
    <3>2. CASE \E w \in Workers \ {r} : WillTell(job[w], id, meeting[id])
      BY <1>1, <1>3, <3>2
    <3>3. CASE WillTell(job[r], id, meeting[id])
      <4>1. Expects(id, meeting[id]) \subseteq Of(id, Adds(was, row))
        BY <1>0, <3>3 DEF WillTell, was, row
      <4> QED
        BY <1>1, <2>4, <4>1
    <3> QED
      BY <2>3, <3>1, <3>2, <3>3 DEF Heard
  <2> QED
    BY <2>5, <2>6 DEF NothingElse, Heard
<1>8. ASSUME NEW o \in Ids, Settled(o)' PROVE NothingElse(o)' /\ Heard(o)'
  <2>1. CASE o = id
    BY <1>7, <1>8, <2>1
  <2>2. CASE o # id
    <3>1. Settled(o)
      BY <1>2, <1>8 DEF Settled, Grows
    <3> QED
      BY <1>2, <1>6, <2>2, <3>1, UntouchedStays DEF KnownInv
  <2> QED
    BY <2>1, <2>2
<1> QED
  BY <1>8 DEF KnownInv

LEMMA RememberKnown ==
    ASSUME TypeOK, KnownInv, NEW r \in Requests, Remember(r)
    PROVE KnownInv'
<1>0. r \in Workers /\ job[r] \in Job /\ job[r].at = "remember"
  BY DEF Workers, TypeOK, Remember
<1>1. meeting' = meeting /\ knows' = knows /\ Grows
  BY DEF Remember, history, Grows
<1>2. job'[r] = [job[r] EXCEPT !.at = "tell"] /\ \A v \in Workers \ {r} : job'[v] = job[v]
  BY <1>0, GoesOn DEF Remember, TypeOK
<1>3. /\ job'[r].at = "tell" /\ job'[r].id = job[r].id /\ job'[r].was = job[r].was
      /\ job'[r].row = job[r].row
  <2>1. LET n == [job[r] EXCEPT !.at = "tell"] IN
          n.at = "tell" /\ n.id = job[r].id /\ n.was = job[r].was /\ n.row = job[r].row
    BY <1>0, OnTheRow
  <2> QED
    BY <1>2, <2>1
<1>4. ASSUME NEW id \in Ids PROVE Untouched(id)
  <2>1. \A v \in Workers : TellsOf(job[v], id) =>
          TellsOf(job'[v], id) /\ job'[v].was = job[v].was /\ job'[v].row = job[v].row
    <3>1. TAKE v \in Workers
    <3>2. CASE v = r
      BY <1>3, <3>2 DEF TellsOf
    <3>3. CASE v # r
      BY <1>2, <3>3
    <3> QED
      BY <3>2, <3>3
  <2>2. \A v \in Workers : job[v].at = "announce" => job'[v] = job[v]
    BY <1>0, <1>2
  <2> QED
    BY <1>1, <2>1, <2>2 DEF Untouched
<1> QED
  BY <1>1, <1>4, AllUntouched

LEMMA WorksKnown ==
    ASSUME TypeOK, JobsSound, KnownInv, NEW r \in Requests, Works(r)
    PROVE KnownInv'
<1>1. CASE FillConductors(r)
  <2>1. r \in Workers /\ job[r].at = "fill" /\ Goes(r, Idle) /\ knows' = knows /\ Grows
    BY <1>1 DEF Workers, FillConductors, history, Grows
  <2>2. ASSUME NEW id \in Ids
        PROVE meeting'[id] = meeting[id] \/ (~Said(meeting[id]) /\ ~Said(meeting'[id]))
    <3>1. CASE Draft(id) /\ \E who \in Who : meeting'[id] = [meeting[id] EXCEPT !.who = who]
      <4>1. meeting[id] \in Row
        BY DEF TypeOK
      <4>2. \A who \in Who : [meeting[id] EXCEPT !.who = who].pub = meeting[id].pub
        BY <4>1 DEF Row
      <4> QED
        BY <3>1, <4>2 DEF Draft, Said
    <3> QED
      BY <1>1, <3>1, RowsAfterFill
  <2> QED
    BY <2>1, <2>2, QuietGoes
<1> QED
  BY <1>1, InsertKnown, SavesKnown, RememberKnown, TellKnown DEF Works

\* The drafts are announced: each conductor of a draft that is still as it was read is
\* about to hear of it.
LEMMA PublishKnown ==
    ASSUME TypeOK, JobsSound, KnownInv, NEW w \in Workers, PublishDrafts(w)
    PROVE KnownInv'
<1> DEFINE j == job[w]
<1>0. j \in Job /\ j.at = "publish" /\ Sound(j, meeting) /\ j.read \in SUBSET (Ids \X Row)
  BY JobFields DEF TypeOK, JobsSound, PublishDrafts
<1>1. knows' = knows /\ Grows /\ raced' = raced \cup {x[1] : x \in {y \in j.read : meeting[y[1]] # y[2]}}
  BY DEF PublishDrafts, Grows
<1>2. /\ job'[w].at = "announce" /\ job'[w].read = j.read
      /\ \A v \in Workers \ {w} : job'[v] = job[v]
  <2>1. job'[w] = [j EXCEPT !.at = "announce"] /\ \A v \in Workers \ {w} : job'[v] = job[v]
    BY <1>0, GoesOn DEF PublishDrafts, TypeOK
  <2>2. LET n == [j EXCEPT !.at = "announce"] IN n.at = "announce" /\ n.read = j.read
    BY <1>0, OnTheMonth
  <2> QED
    BY <2>1, <2>2
<1>3. \A v \in Workers : job[v].at \in {"remember", "tell", "announce"} => job'[v] = job[v]
  BY <1>0, <1>2
<1> HIDE DEF j
<1>4. ASSUME NEW id \in Ids, Settled(id)' PROVE NothingElse(id)' /\ Heard(id)'
  <2>1. Settled(id)
    BY <1>1, <1>4 DEF Settled, Grows
  <2>2. NothingElse(id) /\ Heard(id)
    BY <2>1 DEF KnownInv
  <2>3. CASE \A x \in j.read : x[1] # id
    <3>1. id \notin ReadIds(job[w])
      BY <2>3 DEF ReadIds, j
    <3>11. meeting'[id] = meeting[id]
      BY <3>1, RowsAfterPublish
    <3>2. Untouched(id)
      BY <1>1, <1>3, <3>11 DEF Untouched, TellsOf
    <3> QED
      BY <1>1, <2>2, <3>2, UntouchedStays
  <2>4. CASE \E x \in j.read : x[1] = id
    <3>1. PICK x \in j.read : x[1] = id
      BY <2>4
    <3>2. meeting[id] = x[2]
      BY <1>1, <1>4, <3>1 DEF Settled
    <3>3. x[2].is = "there" /\ ~x[2].pub
      BY <1>0, <3>1 DEF Sound
    <3>4. meeting'[id] = [x[2] EXCEPT !.pub = TRUE]
      BY <3>1, <3>2, <3>3, RowsAfterPublish DEF ReadIds, There, j
    <3>5. Expects(id, meeting[id]) = {}
      BY <3>2, <3>3, ExpectsMeans DEF Said
    <3>6. \A k \in knows' : k[2] = id =>
            k \in slipped' \/ \E v \in Workers : TellsOf(job'[v], id) /\ k \in Expects(id, job'[v].was)
      <4>1. \A v \in Workers : TellsOf(job[v], id) => job'[v] = job[v]
        BY <1>3 DEF TellsOf
      <4> QED
        BY <1>1, <2>2, <3>5, <4>1 DEF NothingElse, Grows
    <3>7. WillTell(job'[w], id, meeting'[id])
      BY <1>2, <3>1, <3>4 DEF WillTell
    <3> QED
      BY <3>6, <3>7 DEF NothingElse, Heard
  <2> QED
    BY <2>3, <2>4
<1> QED
  BY <1>4 DEF KnownInv

LEMMA AnnounceKnown ==
    ASSUME TypeOK, JobsSound, KnownInv, NEW w \in Workers, Announce(w)
    PROVE KnownInv'
<1> DEFINE j == job[w]
           Told(x) == Of(x[1], {<<b, DayOf(x[2].at)>> : b \in Goer(x[2])})
<1>0. j \in Job /\ j.at = "announce" /\ Sound(j, meeting) /\ j.read \in SUBSET (Ids \X Row)
  BY JobFields DEF TypeOK, JobsSound, Announce
<1>1. /\ knows' = knows \cup UNION {Told(x) : x \in j.read}
      /\ raced' = raced \cup {x[1] : x \in {y \in j.read : meeting[y[1]] # [y[2] EXCEPT !.pub = TRUE]}}
      /\ meeting' = meeting /\ Grows
  BY DEF Announce, Grows, tables
<1>2. \A v \in Workers \ {w} : job'[v] = job[v]
  <2>1. \E next : Goes(w, next)
    BY Zenon DEF Announce, Ends
  <2> QED
    BY <2>1, GoesOn DEF TypeOK
<1>3. \A x \in j.read : \A k \in Told(x) : k[2] = x[1]
  BY OfMeans
<1>4. \A k \in knows' : k \in knows \/ \E x \in j.read : k \in Told(x)
  BY <1>1
<1>5. \A x \in j.read : Told(x) \subseteq knows'
  BY <1>1
<1>6. knows \subseteq knows'
  BY <1>1
<1> HIDE DEF j
<1>7. ASSUME NEW id \in Ids, Settled(id)' PROVE NothingElse(id)' /\ Heard(id)'
  <2>1. Settled(id)
    BY <1>1, <1>7 DEF Settled, Grows
  <2>2. NothingElse(id) /\ Heard(id)
    BY <2>1 DEF KnownInv
  <2>3. CASE \A x \in j.read : x[1] # id
    <3>1. \A k : k[2] = id => (k \in knows <=> k \in knows')
      BY <1>3, <1>4, <1>6, <2>3
    <3>2. id \notin ReadIds(job[w]) /\ ~TellsOf(job[w], id)
      BY <1>0, <2>3 DEF ReadIds, TellsOf, j
    <3>3. Untouched(id)
      BY <1>1, <1>2, <3>1, <3>2 DEF Untouched
    <3> QED
      BY <1>1, <2>2, <3>3, UntouchedStays
  <2>4. CASE \E x \in j.read : x[1] = id
    <3>1. \A x \in j.read : x[1] = id => meeting[id] = [x[2] EXCEPT !.pub = TRUE]
      BY <1>1, <1>7 DEF Settled
    <3>2. \A x \in j.read : x[1] = id => Told(x) = Expects(id, meeting[id])
      <4>1. TAKE x \in j.read
      <4>2. HAVE x[1] = id
      <4>3. x[2] \in Row /\ x[2].is = "there" /\ ~x[2].off
        BY <1>0 DEF Sound
      <4>4. [x[2] EXCEPT !.pub = TRUE].is = "there" /\ ~[x[2] EXCEPT !.pub = TRUE].off
            /\ [x[2] EXCEPT !.pub = TRUE].pub /\ [x[2] EXCEPT !.pub = TRUE].who = x[2].who
            /\ [x[2] EXCEPT !.pub = TRUE].at = x[2].at
        BY <4>3 DEF Row
      <4>5. meeting[id].is = "there" /\ ~meeting[id].off /\ meeting[id].pub
            /\ meeting[id].who = x[2].who /\ meeting[id].at = x[2].at
        BY <3>1, <4>2, <4>4
      <4>6. Goer(meeting[id]) = Goer(x[2]) /\ DayOf(meeting[id].at) = DayOf(x[2].at)
        BY <4>5 DEF Goer
      <4> QED
        BY <4>2, <4>5, <4>6 DEF Expects, Said
    <3>3. ASSUME NEW k \in knows', k[2] = id
          PROVE \/ k \in Expects(id, meeting'[id]) \/ k \in slipped'
                \/ \E v \in Workers : TellsOf(job'[v], id) /\ k \in Expects(id, job'[v].was)
      <4>1. CASE k \in knows
        <5>1. \A v \in Workers : TellsOf(job[v], id) => job'[v] = job[v]
          BY <1>0, <1>2 DEF TellsOf, j
        <5> QED
          BY <1>1, <2>2, <3>3, <4>1, <5>1 DEF NothingElse, Grows
      <4>2. CASE \E x \in j.read : k \in Told(x)
        BY <1>1, <1>3, <3>2, <3>3, <4>2
      <4> QED
        BY <1>4, <3>3, <4>1, <4>2
    <3>4. Expects(id, meeting'[id]) \subseteq knows'
      BY <1>1, <1>5, <2>4, <3>2
    <3> QED
      BY <3>3, <3>4 DEF NothingElse, Heard
  <2> QED
    BY <2>3, <2>4
<1> QED
  BY <1>7 DEF KnownInv

LEMMA StepsKnown ==
    ASSUME TypeOK, JobsSound, KnownInv, NEW w \in Workers, Steps(w)
    PROVE KnownInv'
<1>1. CASE ReadRemoved(w)
  <2>1. meeting' = meeting /\ knows' = knows /\ Grows /\ job[w].at = "asked"
        /\ Goes(w, [at |-> "look", gone |-> removed])
    BY <1>1 DEF ReadRemoved, Grows, tables
  <2> QED
    BY <2>1, QuietGoes
<1>2. CASE LookAtMonth(w)
  <2>1. meeting' = meeting /\ knows' = knows /\ Grows /\ job[w].at = "look"
    BY <1>2 DEF LookAtMonth, Grows, tables, history
  <2>2. \E next : Goes(w, next)
    BY <1>2, LookFinds, Zenon
  <2> QED
    BY <2>1, <2>2, QuietGoes
<1>3. CASE WriteDrafts(w)
  <2>1. knows' = knows /\ Grows /\ job[w].at = "write"
    BY <1>3 DEF WriteDrafts, Grows, history
  <2>2. \E next : Goes(w, next)
    BY <1>3, Zenon DEF WriteDrafts
  <2>3. \A x \in job[w].new : ~x.pub
    BY <2>1 DEF JobsSound, Sound
  <2>4. PICK f \in [job[w].new -> Fresh] :
          /\ \A x \in job[w].new : meeting'[f[x]] = x
          /\ \A id \in Ids : (\A x \in job[w].new : f[x] # id) => meeting'[id] = meeting[id]
    BY <1>3, DraftsWritten
  <2>5. ASSUME NEW id \in Ids
        PROVE meeting'[id] = meeting[id] \/ (~Said(meeting[id]) /\ ~Said(meeting'[id]))
    <3>1. CASE \E x \in job[w].new : f[x] = id
      BY <2>3, <2>4, <3>1 DEF Fresh, Said
    <3> QED
      BY <2>4, <3>1
  <2> QED
    BY <2>1, <2>2, <2>5, QuietGoes
<1> QED
  BY <1>1, <1>2, <1>3, PublishKnown, AnnounceKnown DEF Steps

LEMMA StepKnown ==
    ASSUME TypeOK, JobsSound, KnownInv, [Next]_vars
    PROVE KnownInv'
<1>1. CASE UNCHANGED vars \/ Tick
  <2>1. meeting' = meeting /\ job' = job /\ knows' = knows /\ Grows
    BY <1>1 DEF vars, tables, history, Tick, Grows
  <2> QED
    BY <2>1, QuietStays
<1>2. CASE Next /\ ~Tick
  BY <1>2, BeginsKnown, WorksKnown, StepsKnown, FailsKnown, NightKnown DEF Next
<1> QED
  BY <1>1, <1>2

LEMMA InitKnown == Init => KnownInv
<1> SUFFICES ASSUME Init, NEW id \in Ids PROVE NothingElse(id) /\ Heard(id)
  BY DEF KnownInv
<1>1. {k \in knows : k[2] = id} =
        IF Announced(meeting[id]) THEN {<<meeting[id].who, id, DayOf(meeting[id].at)>>} ELSE {}
  BY FieldSetups DEF Init
<1>2. \A k : k \in Expects(id, meeting[id]) <=>
        Said(meeting[id]) /\ meeting[id].who # Nobody /\ k = <<meeting[id].who, id, DayOf(meeting[id].at)>>
  BY ExpectsRow
<1>3. \A k : k \in Expects(id, meeting[id]) <=> k \in {x \in knows : x[2] = id}
  BY <1>1, <1>2 DEF Announced, Said
<1> QED
  BY <1>3 DEF NothingElse, Heard

\* Once a meeting's messages are out its conductor expects it on its day, and nobody else
\* does, whatever is changed, cancelled, put back, removed and announced in whatever order;
\* but where two requests met on the row, a message was lost, one message slipped or a move
\* was told before.
THEOREM ThoseWhoConductKnow == Spec => []ConductorsKnow
<1>1. Init => TypeOK /\ JobsSound /\ CrossedOutWasAnnounced /\ KnownInv
  BY InitType, InitSound, InitKnown
<1>2. TypeOK /\ JobsSound /\ CrossedOutWasAnnounced /\ KnownInv /\ [Next]_vars
        => (TypeOK /\ JobsSound /\ CrossedOutWasAnnounced /\ KnownInv)'
  BY StepType, StepSound, StepKnown
<1>3. KnownInv => ConductorsKnow
  <2> SUFFICES ASSUME KnownInv, NEW id \in Ids, Settled(id), ~Pending(id)
               PROVE /\ Due(id) \subseteq {k \in knows : k[2] = id}
                     /\ {k \in knows : k[2] = id} \subseteq Due(id) \cup slipped
    BY DEF ConductorsKnow, Settled
  <2>1. \A w \in Workers : ~TellsOf(job[w], id)
    BY DEF Pending, TellsOf
  <2>2. \A w \in Workers : job[w].at = "announce" => \A x \in job[w].read : x[1] # id
    BY DEF Pending, ReadIds
  <2>3. \A w \in Workers : ~WillTell(job[w], id, meeting[id])
    BY <2>1, <2>2 DEF WillTell
  <2>4. Expects(id, meeting[id]) \subseteq knows
    BY <2>3 DEF KnownInv, Heard
  <2>5. \A k \in knows : k[2] = id => k \in Expects(id, meeting[id]) \/ k \in slipped
    BY <2>1 DEF KnownInv, NothingElse
  <2> QED
    BY <2>4, <2>5, DueIsExpected, ExpectsMeans
<1> QED
  BY <1>1, <1>2, <1>3, PTL DEF Spec
============================================================================
