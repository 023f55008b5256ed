---------------------------- MODULE DayIngestProofs ----------------------------
(***************************************************************************)
(* Theorems about DayIngest for every conversation, every number of changes *)
(* and of faults: its types, the truth of what is active, what a repair     *)
(* replaces and where the threads go.                                       *)
(***************************************************************************)
EXTENDS DayIngest, FiniteSetTheorems, WellFoundedInduction, TLAPS

-----------------------------------------------------------------------------
(* What the databases and the run have between two steps *)

Sources == UNION {[D -> Nat] : D \in SUBSET Messages}
Rows == [day : Days, sess : Sessions, base : BOOLEAN, src : Sources,
         cites : SUBSET Messages, status : Statuses]
Works == [day : Days, work : {"repair", "ingest"}]
Plans == UNION {[S -> Sources] : S \in SUBSET Sessions}
Runs == [at : {"idle", "between", "encoding", "storing", "settling", "staging", "staged"},
         todo : SUBSET Works, plan : Plans, left : SUBSET Sessions, db : Seq(Rows),
         base : Nat, seen : SUBSET (Nat \X Statuses),
         offer : [thread : Seq(Nat), from : Nat, to : Nat], cites : SUBSET Messages,
         late : BOOLEAN]

Typed ==
  /\ text \in [Messages -> Nat] /\ rows \in Seq(Rows)
  /\ threads \subseteq Seq(1..Len(rows)) /\ settled \subseteq Days
  /\ \A c \in owed \cup told : c.kind \in {"edited", "deleted"} /\ c.of \subseteq Messages
  /\ replays \in Nat /\ failures \in Nat /\ replays + failures <= MaxFaults
  /\ run \in Runs /\ missed \subseteq 1..Len(rows)

(* A batch holds what was said in its session on its day, and its event cites it. *)
RowFits(row) ==
  /\ row.cites \subseteq DOMAIN row.src
  /\ \A m \in DOMAIN row.src : DayOf[m] = row.day /\ SessionOf[m] = row.sess
RowsFit == \A i \in 1..Len(rows) : RowFits(rows[i])

(* A change that deletes messages leaves nothing of them. *)
GoneFits ==
  \A c \in owed \cup told : c.kind = "deleted" => \A m \in c.of : text[m] = 0

WorkFits == run.at # "idle" => run.todo # {}

(* The plan of the day under way, and the sessions still to be encoded. *)
PlanFits ==
  /\ run.left \subseteq DOMAIN run.plan
  /\ run.at \in {"encoding", "storing", "settling", "staging", "staged"} =>
       \A s \in DOMAIN run.plan : \A m \in DOMAIN run.plan[s] :
         DayOf[m] = Day /\ SessionOf[m] = s

(* All that a batch and its event are, but for the status of the event. *)
SameBut(r, q) ==
  /\ r.day = q.day /\ r.sess = q.sess /\ r.base = q.base
  /\ r.src = q.src /\ r.cites = q.cites

(* A stage has one batch of each session encoded, besides the copy of the store. *)
Staged(k) ==
  /\ run.db[k].day = Day /\ run.db[k].status \in {"none", "active"}
  /\ run.db[k].sess \in DOMAIN run.plan \ run.left
  /\ run.db[k].src = run.plan[run.db[k].sess]
  /\ run.db[k].cites \subseteq DOMAIN run.db[k].src
StageFits ==
  run.at \in {"staging", "staged"} =>
    /\ run.base = Len(rows) /\ run.base <= Len(run.db)
    /\ \A i \in 1..run.base : SameBut(run.db[i], rows[i])
    /\ \A k \in (run.base + 1)..Len(run.db) : Staged(k)
    /\ \A j, k \in (run.base + 1)..Len(run.db) : run.db[j].sess = run.db[k].sess => j = k

(* The event being stored was true when its sources were validated, and of what has
   changed since, Memory V2 has yet to be told or was told too early. *)
StoringFits ==
  run.at = "storing" =>
    /\ run.left # {} /\ run.cites \subseteq DOMAIN Source
    /\ ~run.late => \A m \in run.cites : TrueOrOwed(Source, m)

(* A settlement may link two events of which the first is not of a later day. *)
InForce(i) == rows[i].status \in {"active", "invalid"}
OfferFits ==
  run.at = "settling" /\ run.offer # NoOffer =>
    /\ run.offer.from \in 1..Len(rows) /\ run.offer.to \in 1..Len(rows)
    /\ run.offer.from # run.offer.to
    /\ rows[run.offer.from].day <= rows[run.offer.to].day
    /\ InForce(run.offer.from) /\ InForce(run.offer.to)

RunFits == WorkFits /\ PlanFits /\ StoringFits /\ StageFits /\ OfferFits

IngestInv ==
  Typed /\ RowsFit /\ GoneFits /\ RunFits /\ ThreadsFollow /\ TrueUnlessMissed

-----------------------------------------------------------------------------
(* Numbers and sets *)

LEMMA Least ==
  ASSUME NEW S \in SUBSET Nat, S # {}
  PROVE  \E x \in S : \A y \in S : x <= y
  <1>1. PICK x \in S : \A y \in S : ~(<<y, x>> \in OpToRel(<, Nat))
    BY NatLessThanWellFounded, WFMin
  <1>2. \A y \in S : ~(y < x)
    BY <1>1 DEF OpToRel
  <1> QED BY <1>2

LEMMA Constants ==
  /\ MaxMessage \in Nat /\ Messages \subseteq Nat
  /\ Days \subseteq Nat /\ Sessions \subseteq Nat
  /\ \A m \in Messages : DayOf[m] \in Days /\ SessionOf[m] \in Sessions
  BY StoreAssumption DEF Messages, Days, Sessions

LEMMA SourceTyped ==
  ASSUME NEW f
  PROVE  f \in Sources <=> f \in [DOMAIN f -> Nat] /\ DOMAIN f \subseteq Messages
  BY DEF Sources

LEMMA FirstOf ==
  ASSUME NEW S \in SUBSET Sessions, S # {}
  PROVE  First(S) \in S
  BY Least, Constants DEF First

(* A run that is under way has a day. *)
LEMMA WorkTyped ==
  ASSUME Typed, WorkFits, run.at # "idle"
  PROVE  Work \in run.todo /\ Work \in Works /\ Day \in Days
  <1> DEFINE S == {c.day : c \in run.todo}
  <1>1. run.todo \subseteq Works /\ run.todo # {}
    BY DEF Typed, Runs, WorkFits
  <1>2. S \subseteq Nat /\ S # {}
    BY <1>1, Constants DEF Works
  <1>3. PICK x \in S : \A y \in S : x <= y
    BY <1>2, Least
  <1>4. \E c \in run.todo : \A e \in run.todo : c.day <= e.day
    BY <1>3
  <1>5. Work \in run.todo
    BY <1>4 DEF Work
  <1> QED BY <1>1, <1>5 DEF Day, Works

-----------------------------------------------------------------------------
(* Steps that leave the rows, but for the status of some active events *)

Outdates ==
  /\ rows' \in Seq(Rows) /\ Len(rows') = Len(rows)
  /\ \A i \in 1..Len(rows) :
       /\ SameBut(rows'[i], rows[i])
       /\ \/ rows'[i].status = rows[i].status
          \/ rows[i].status = "active" /\ rows'[i].status = "invalid"

LEMMA RowTyped ==
  ASSUME Typed, NEW i \in 1..Len(rows)
  PROVE  /\ rows[i] \in Rows /\ i \in DOMAIN rows /\ i \in Nat
         /\ Len(rows) \in Nat
  BY DEF Typed

LEMMA RowsTyped ==
  ASSUME Typed
  PROVE  /\ Len(rows) \in Nat /\ DOMAIN rows = 1..Len(rows)
         /\ \A i \in 1..Len(rows) :
              /\ i \in Nat /\ rows[i] \in Rows
              /\ rows[i].day \in Days /\ rows[i].day \in Nat
              /\ rows[i].sess \in Sessions /\ rows[i].sess \in Nat
              /\ rows[i].status \in Statuses
  <1>1. /\ Len(rows) \in Nat /\ DOMAIN rows = 1..Len(rows)
        /\ \A i \in 1..Len(rows) : i \in Nat /\ rows[i] \in Rows
    BY DEF Typed
  <1>2. \A r \in Rows : r.day \in Days /\ r.sess \in Sessions /\ r.status \in Statuses
    BY DEF Rows
  <1> QED BY <1>1, <1>2, Constants

LEMMA RunTyped ==
  ASSUME Typed
  PROVE  /\ run \in Runs /\ run.db \in Seq(Rows) /\ run.base \in Nat
         /\ Len(run.db) \in Nat /\ run.left \subseteq Sessions
  BY DEF Typed, Runs

LEMMA OutdatesRows ==
  ASSUME Typed, RowsFit, Outdates
  PROVE  RowsFit'
  BY DEF RowsFit, RowFits, Outdates, SameBut

LEMMA SameDay ==
  ASSUME run'.todo = run.todo
  PROVE  Work' = Work /\ Day' = Day
  BY DEF Day, Work

(* The run goes on as it was; it may only have been told of a change too early. *)
SameRun ==
  /\ run' \in Runs
  /\ run'.at = run.at /\ run'.todo = run.todo /\ run'.plan = run.plan
  /\ run'.left = run.left /\ run'.db = run.db /\ run'.base = run.base
  /\ run'.offer = run.offer /\ run'.cites = run.cites

LEMMA SameRunIs ==
  ASSUME Typed,
         \/ run' = run
         \/ \E early \in BOOLEAN : run' = [run EXCEPT !.late = early]
  PROVE  SameRun
  BY DEF Typed, Runs, SameRun

LEMMA OutdatesRun ==
  ASSUME Typed, RunFits, Outdates, SameRun, StoringFits'
  PROVE  RunFits'
  <1>1. WorkFits' /\ PlanFits'
    <2>1. Day' = Day
      BY SameDay DEF SameRun
    <2> QED BY <2>1 DEF RunFits, WorkFits, PlanFits, SameRun
  <1>2. StageFits'
    <2> SUFFICES ASSUME run.at \in {"staging", "staged"}
                 PROVE  StageFits'
      BY DEF StageFits, SameRun
    <2>1. /\ run.base = Len(rows) /\ run.base <= Len(run.db)
          /\ \A i \in 1..run.base : SameBut(run.db[i], rows[i])
          /\ \A k \in (run.base + 1)..Len(run.db) : Staged(k)
          /\ \A j, k \in (run.base + 1)..Len(run.db) : run.db[j].sess = run.db[k].sess => j = k
      BY DEF RunFits, StageFits
    <2>2. \A i \in 1..run.base : SameBut(run.db[i], rows'[i])
      BY <2>1 DEF Outdates, SameBut
    <2>3. \A k \in (run.base + 1)..Len(run.db) : Staged(k)'
      BY <2>1 DEF Staged, Day, Work, SameRun
    <2> QED BY <2>1, <2>2, <2>3 DEF StageFits, Outdates, SameRun
  <1>3. OfferFits'
    BY DEF RunFits, OfferFits, Outdates, InForce, SameBut, SameRun
  <1> QED BY <1>1, <1>2, <1>3 DEF RunFits

LEMMA OutdatesThreads ==
  ASSUME Typed, ThreadsFollow, Outdates, UNCHANGED threads
  PROVE  ThreadsFollow'
  <1> SUFFICES ASSUME NEW t \in threads
               PROVE  (/\ Len(t) >= 2
                       /\ \A j, k \in DOMAIN t :
                            j < k => t[j] # t[k] /\ rows[t[j]].day <= rows[t[k]].day
                       /\ \A i \in ToSet(t) : rows[i].status \in {"active", "invalid"})'
    BY DEF ThreadsFollow
  <1>1. \A j \in DOMAIN t : t[j] \in 1..Len(rows)
    BY DEF Typed
  <1>2. \A i \in ToSet(t) : i \in 1..Len(rows)
    BY <1>1 DEF ToSet
  <1> QED BY <1>1, <1>2 DEF ThreadsFollow, Outdates, SameBut

LEMMA Unchanged ==
  ASSUME Typed, UNCHANGED rows
  PROVE  Outdates
  BY DEF Typed, Outdates, SameBut

LEMMA InvalidatedOutdates ==
  ASSUME Typed, NEW change, rows' = Invalidated(change)
  PROVE  Outdates
  <1>1. /\ rows \in Seq(Rows) /\ Len(rows) \in Nat /\ DOMAIN rows = 1..Len(rows)
        /\ \A i \in 1..Len(rows) : rows[i] \in Rows
    BY DEF Typed
  <1>2. ASSUME NEW r \in Rows
        PROVE  LET q == [r EXCEPT !.status = "invalid"] IN
               q \in Rows /\ SameBut(q, r) /\ q.status = "invalid"
    BY DEF Rows, SameBut, Statuses
  <1>3. ASSUME NEW i \in 1..Len(rows)
        PROVE  /\ rows'[i] \in Rows /\ SameBut(rows'[i], rows[i])
               /\ \/ rows'[i].status = rows[i].status
                  \/ rows[i].status = "active" /\ rows'[i].status = "invalid"
    <2> DEFINE Cut == /\ rows[i].status = "active"
                      /\ rows[i].cites \cap change.of # {}
                      /\ ~Preserved(rows[i], change)
    <2>0. rows'[i] = IF Cut THEN [rows[i] EXCEPT !.status = "invalid"] ELSE rows[i]
      BY <1>1, Zenon DEF Invalidated
    <2>2. Cut => rows[i].status = "active"
      OBVIOUS
    <2> HIDE DEF Cut
    <2>1. \/ rows'[i] = rows[i]
          \/ rows'[i] = [rows[i] EXCEPT !.status = "invalid"] /\ rows[i].status = "active"
      BY <2>0, <2>2, Zenon
    <2>3. rows[i] \in Rows
      BY <1>1
    <2>4. CASE rows'[i] = rows[i]
      BY <2>3, <2>4 DEF SameBut
    <2>5. CASE rows'[i] = [rows[i] EXCEPT !.status = "invalid"] /\ rows[i].status = "active"
      <3>1. LET q == [rows[i] EXCEPT !.status = "invalid"] IN
            q \in Rows /\ SameBut(q, rows[i]) /\ q.status = "invalid"
        BY <1>2, <2>3
      <3> QED BY <2>5, <3>1
    <2> QED BY <2>1, <2>4, <2>5
  <1>4. rows' = [i \in 1..Len(rows) |-> rows'[i]]
    BY <1>1 DEF Invalidated
  <1>5. rows' \in Seq(Rows) /\ Len(rows') = Len(rows)
    BY <1>1, <1>3, <1>4
  <1> QED BY <1>3, <1>5 DEF Outdates

LEMMA LiveTyped ==
  ASSUME Typed, NEW i \in Live(rows)
  PROVE  i \in 1..Len(rows) /\ rows[i] \in Rows /\ rows[i].status = "active"
  BY DEF Typed, Live

LEMMA OutdatesLive ==
  ASSUME Typed, Outdates, NEW i \in Live(rows')
  PROVE  i \in Live(rows) /\ rows'[i].src = rows[i].src /\ rows'[i].cites = rows[i].cites
  <1>1. i \in 1..Len(rows) /\ rows'[i].status = "active"
    BY DEF Outdates, Live
  <1>2. rows[i].status = "active" /\ i \in DOMAIN rows
    BY <1>1 DEF Outdates, Typed
  <1> QED BY <1>1, <1>2 DEF Live, Outdates, SameBut

-----------------------------------------------------------------------------
(* The truth of what is active *)

(* What TrueUnlessMissed says of a message that an event cites. *)
Vouched(row, m) ==
  \/ TrueOrOwed(row.src, m)
  \/ text[m] = 0 /\ \E n \in row.cites : Identical(row.src, m, n) /\ TrueOrOwed(row.src, n)

LEMMA ActiveVouched ==
  TrueUnlessMissed <=>
    \A i \in Live(rows) \ missed : \A m \in rows[i].cites : Vouched(rows[i], m)
  BY DEF TrueUnlessMissed, Vouched

LEMMA IdenticalTransitive ==
  ASSUME NEW src, NEW m, NEW n, NEW k, Identical(src, m, n), Identical(src, n, k)
  PROVE  Identical(src, m, k)
  <1>1. PICK T \in Twins : {m, n} \subseteq T /\ src[m] = 1 /\ src[n] = 1
    BY DEF Identical
  <1>2. PICK U \in Twins : {n, k} \subseteq U /\ src[n] = 1 /\ src[k] = 1
    BY DEF Identical
  <1>3. T = U
    BY <1>1, <1>2, StoreAssumption
  <1> QED BY <1>1, <1>2, <1>3 DEF Identical

(* A change of the messages of S, which Memory V2 has yet to be told of. *)
LEMMA ChangeVouched ==
  ASSUME Typed, TrueUnlessMissed, UNCHANGED <<rows, missed>>, NEW S, NEW change,
         \A m \in Messages : m \notin S => text'[m] = text[m],
         \A m \in S : text[m] # 0,
         change.of = S, owed' = owed \cup {change}
  PROVE  TrueUnlessMissed'
  <1> SUFFICES ASSUME NEW i \in Live(rows) \ missed, NEW m \in rows[i].cites
               PROVE  (\/ TrueOrOwed(rows[i].src, m)
                       \/ text[m] = 0 /\ \E n \in rows[i].cites :
                            Identical(rows[i].src, m, n) /\ TrueOrOwed(rows[i].src, n))'
    BY DEF TrueUnlessMissed, Live
  <1>1. rows[i].cites \subseteq Messages
    BY LiveTyped DEF Rows
  <1>2. \A n \in rows[i].cites : TrueOrOwed(rows[i].src, n) => TrueOrOwed(rows[i].src, n)'
    BY <1>1 DEF TrueOrOwed
  <1>3. text[m] = 0 => text'[m] = 0
    BY <1>1
  <1>4. \A n : Identical(rows[i].src, m, n) => Identical(rows[i].src, m, n)'
    BY DEF Identical
  <1> QED BY <1>2, <1>3, <1>4 DEF TrueUnlessMissed

LEMMA ReconcileVouched ==
  ASSUME Typed, GoneFits, TrueUnlessMissed, Outdates, NEW change \in owed, Reconcile(change)
  PROVE  TrueUnlessMissed'
  <1> SUFFICES ASSUME NEW i \in Live(rows') \ missed', NEW m \in rows'[i].cites
               PROVE  (\/ TrueOrOwed(rows[i].src, m)
                       \/ text[m] = 0 /\ \E n \in rows[i].cites :
                            Identical(rows[i].src, m, n) /\ TrueOrOwed(rows[i].src, n))'
    BY DEF TrueUnlessMissed
  <1>1. /\ i \in Live(rows) \ missed
        /\ rows'[i].src = rows[i].src /\ rows'[i].cites = rows[i].cites
    BY OutdatesLive DEF Reconcile
  <1> DEFINE src == rows[i].src
             cites == rows[i].cites
  <1>2. \A n \in cites : Vouched(rows[i], n)
    BY <1>1, ActiveVouched
  <1>3. \A n : n \notin change.of /\ TrueOrOwed(src, n) => TrueOrOwed(src, n)'
    BY <1>1 DEF TrueOrOwed, Reconcile
  <1>3a. \A n : n \notin change.of /\ TrueOrOwed(src, n) => TrueOrOwed(rows[i].src, n)'
    BY <1>1 DEF TrueOrOwed, Reconcile
  <1>4. \A n, k : Identical(src, n, k) => Identical(rows[i].src, n, k)'
    BY <1>1 DEF Identical
  <1>5. cites \cap change.of = {} \/ Preserved(rows[i], change)
    <2>1. i \in DOMAIN rows /\ rows[i].status = "active" /\ rows'[i].status = "active"
      BY <1>1 DEF Live
    <2>2. rows'[i] = IF /\ rows[i].status = "active"
                        /\ rows[i].cites \cap change.of # {}
                        /\ ~Preserved(rows[i], change)
                     THEN [rows[i] EXCEPT !.status = "invalid"]
                     ELSE rows[i]
      BY <2>1, Zenon DEF Reconcile, Invalidated
    <2>3. LET q == [rows[i] EXCEPT !.status = "invalid"] IN q.status = "invalid"
      BY <1>1, LiveTyped DEF Rows
    <2> QED BY <2>1, <2>2, <2>3, Zenon
  <1>6. CASE cites \cap change.of = {}
    <2>1. \A n \in cites : TrueOrOwed(src, n) => TrueOrOwed(rows[i].src, n)'
      BY <1>3a, <1>6
    <2> QED BY <1>1, <1>2, <1>4, <2>1 DEF Vouched, Reconcile
  <1>7. CASE Preserved(rows[i], change)
    <2>1. change.kind = "deleted" /\ \A n \in change.of : text[n] = 0
      BY <1>7 DEF Preserved, GoneFits
    <2>2. ASSUME NEW n \in cites, n \in change.of
          PROVE  \E k \in cites : Identical(src, n, k) /\ TrueOrOwed(rows[i].src, k)'
      <3>1. PICK k \in cites \ change.of : text[k] # 0 /\ Identical(src, n, k)
        BY <1>7, <2>2 DEF Preserved
      <3>2. TrueOrOwed(src, k)
        BY <1>2, <3>1 DEF Vouched
      <3> QED BY <1>3a, <3>1, <3>2
    <2>3. CASE m \in change.of
      BY <1>1, <1>4, <2>1, <2>2, <2>3 DEF Reconcile
    <2>4. CASE m \notin change.of /\ TrueOrOwed(src, m)
      BY <1>3a, <2>4
    <2>5. CASE m \notin change.of /\ ~TrueOrOwed(src, m)
      <3>1. PICK n \in cites : text[m] = 0 /\ Identical(src, m, n) /\ TrueOrOwed(src, n)
        BY <1>1, <1>2, <2>5 DEF Vouched
      <3>2. CASE n \in change.of
        <4>1. PICK k \in cites : Identical(src, n, k) /\ TrueOrOwed(rows[i].src, k)'
          BY <2>2, <3>2
        <4>2. Identical(src, m, k)
          BY <3>1, <4>1, IdenticalTransitive
        <4> QED BY <1>1, <1>4, <3>1, <4>1, <4>2 DEF Reconcile
      <3>3. CASE n \notin change.of
        BY <1>1, <1>3a, <1>4, <3>1, <3>3 DEF Reconcile
      <3> QED BY <3>2, <3>3
    <2> QED BY <2>3, <2>4, <2>5
  <1> QED BY <1>5, <1>6, <1>7

(* Any other step adds only events made of what the conversation says, or said before a
   change that Memory V2 is yet to be told of. *)
LEMMA OthersVouched ==
  ASSUME TrueUnlessMissed, UNCHANGED <<text, owed>>,
         \A i \in Live(rows') \ missed' :
           \/ \E j \in Live(rows) \ missed :
                rows'[i].src = rows[j].src /\ rows'[i].cites = rows[j].cites
           \/ \A m \in rows'[i].cites : TrueOrOwed(rows'[i].src, m)
  PROVE  TrueUnlessMissed'
  <1> SUFFICES ASSUME NEW i \in Live(rows') \ missed', NEW m \in rows'[i].cites
               PROVE  (\/ TrueOrOwed(rows[i].src, m)
                       \/ text[m] = 0 /\ \E n \in rows[i].cites :
                            Identical(rows[i].src, m, n) /\ TrueOrOwed(rows[i].src, n))'
    BY DEF TrueUnlessMissed
  <1>1. CASE \A k \in rows'[i].cites : TrueOrOwed(rows'[i].src, k)
    BY <1>1 DEF TrueOrOwed
  <1>2. CASE \E j \in Live(rows) \ missed :
               rows'[i].src = rows[j].src /\ rows'[i].cites = rows[j].cites
    <2>1. PICK j \in Live(rows) \ missed :
            rows'[i].src = rows[j].src /\ rows'[i].cites = rows[j].cites
      BY <1>2
    <2>2. Vouched(rows[j], m)
      BY <2>1, ActiveVouched
    <2>3. \A n : TrueOrOwed(rows[j].src, n) => TrueOrOwed(rows[i].src, n)'
      BY <2>1 DEF TrueOrOwed
    <2>4. \A n : Identical(rows[j].src, m, n) => Identical(rows[i].src, m, n)'
      BY <2>1 DEF Identical
    <2> QED BY <2>1, <2>2, <2>3, <2>4 DEF Vouched
  <1> QED BY <1>1, <1>2

(* The event that is being stored stays as true as it was. *)
LEMMA StoringChanged ==
  ASSUME Typed, RunFits, SameRun, NEW S, NEW change,
         \A m \in Messages : m \notin S => text'[m] = text[m],
         change.of = S, owed' = owed \cup {change}, run'.late = run.late
  PROVE  StoringFits'
  <1> SUFFICES ASSUME run.at = "storing"
               PROVE  StoringFits'
    BY DEF StoringFits, SameRun
  <1>1. Source' = Source /\ run.cites \subseteq Messages
    BY DEF SameRun, Source, First, Typed, Runs
  <1>2. \A m \in run.cites : TrueOrOwed(Source, m) => TrueOrOwed(Source, m)'
    BY <1>1 DEF TrueOrOwed
  <1> QED BY <1>1, <1>2 DEF RunFits, StoringFits, SameRun

LEMMA StoringReconciled ==
  ASSUME Typed, RunFits, SameRun, NEW change \in owed, Reconcile(change)
  PROVE  StoringFits'
  <1> SUFFICES ASSUME run.at = "storing"
               PROVE  StoringFits'
    BY DEF StoringFits, SameRun
  <1>1. Source' = Source
    BY DEF SameRun, Source, First
  <1>2. run'.late = (run.late \/ run.cites \cap change.of # {})
    BY DEF Reconcile, Typed, Runs
  <1>3. \A m : m \notin change.of /\ TrueOrOwed(Source, m) => TrueOrOwed(Source, m)'
    BY <1>1 DEF TrueOrOwed, Reconcile
  <1> QED BY <1>1, <1>2, <1>3 DEF RunFits, StoringFits, SameRun

LEMMA StoringStays ==
  ASSUME RunFits, UNCHANGED <<text, owed, run>>
  PROVE  StoringFits'
  <1>1. Source' = Source
    BY DEF Source, First
  <1>2. \A m : TrueOrOwed(Source, m) => TrueOrOwed(Source, m)'
    BY <1>1 DEF TrueOrOwed
  <1> QED BY <1>1, <1>2 DEF RunFits, StoringFits

-----------------------------------------------------------------------------
(* The steps of people, and of the host that tells Memory V2 of them *)

LEMMA OutdatesTyped ==
  ASSUME Typed, Outdates, UNCHANGED <<threads, settled, missed>>, run' \in Runs,
         text' \in [Messages -> Nat],
         \A c \in owed' \cup told' : c.kind \in {"edited", "deleted"} /\ c.of \subseteq Messages,
         replays' \in Nat, failures' \in Nat, replays' + failures' <= MaxFaults
  PROVE  Typed'
  BY DEF Typed, Outdates

LEMMA EditStep ==
  ASSUME IngestInv, NEW m \in Messages, Edit(m)
  PROVE  IngestInv'
  <1> DEFINE change == [kind |-> "edited", of |-> {m}, to |-> text[m] + 1]
  <1>1. Outdates
    BY Unchanged DEF IngestInv, Edit
  <1>2. Typed /\ text[m] \in Nat
    BY DEF IngestInv, Typed
  <1>3. change.kind = "edited" /\ change.of = {m} /\ owed' = owed \cup {change}
    BY DEF Edit
  <1>4. text' = [text EXCEPT ![m] = text[m] + 1] /\ text[m] # 0
    BY DEF Edit
  <1>5. text' \in [Messages -> Nat] /\ \A n \in Messages : n # m => text'[n] = text[n]
    BY <1>2, <1>4 DEF Typed
  <1> HIDE DEF change
  <1>6. Typed'
    BY <1>1, <1>2, <1>3, <1>5, OutdatesTyped DEF Edit, Typed
  <1>7. GoneFits'
    BY <1>2, <1>3, <1>4, <1>5 DEF IngestInv, GoneFits, Edit, Typed
  <1>8. TrueUnlessMissed'
    <2>1. \A n \in Messages : n \notin {m} => text'[n] = text[n]
      BY <1>5
    <2>2. UNCHANGED <<rows, missed>> /\ \A n \in {m} : text[n] # 0
      BY <1>4 DEF Edit
    <2> QED BY <1>2, <1>3, <2>1, <2>2, ChangeVouched DEF IngestInv
  <1>9. RunFits'
    <2>1. SameRun /\ run'.late = run.late
      BY <1>2, SameRunIs DEF Edit
    <2>2. StoringFits'
      BY <1>2, <1>3, <1>5, <2>1, StoringChanged DEF IngestInv
    <2> QED BY <1>1, <1>2, <2>1, <2>2, OutdatesRun DEF IngestInv
  <1> QED BY <1>1, <1>2, <1>6, <1>7, <1>8, <1>9, OutdatesRows, OutdatesThreads
          DEF IngestInv, Edit

LEMMA DeleteStep ==
  ASSUME IngestInv, NEW S \in SUBSET Messages, Delete(S)
  PROVE  IngestInv'
  <1> DEFINE change == [kind |-> "deleted", of |-> S, to |-> 0]
  <1>1. Outdates
    BY Unchanged DEF IngestInv, Delete
  <1>2. Typed
    BY DEF IngestInv
  <1>3. change.kind = "deleted" /\ change.of = S /\ owed' = owed \cup {change}
    BY DEF Delete
  <1>4. text' = [m \in Messages |-> IF m \in S THEN 0 ELSE text[m]] /\ \A m \in S : text[m] # 0
    BY DEF Delete
  <1>5. /\ text' \in [Messages -> Nat] /\ \A n \in S : text'[n] = 0
        /\ \A n \in Messages : n \notin S => text'[n] = text[n]
    BY <1>2, <1>4 DEF Typed
  <1> HIDE DEF change
  <1>6. Typed'
    BY <1>1, <1>2, <1>3, <1>5, OutdatesTyped DEF Delete, Typed
  <1>7. GoneFits'
    <2> SUFFICES ASSUME NEW c \in owed \cup told \cup {change}, c.kind = "deleted", NEW m \in c.of
                 PROVE  text'[m] = 0
      BY <1>3 DEF GoneFits, Delete
    <2>1. CASE c = change
      BY <1>3, <1>5, <2>1
    <2>2. CASE c \in owed \cup told
      BY <1>2, <1>5, <2>2 DEF IngestInv, GoneFits, Typed
    <2> QED BY <2>1, <2>2
  <1>8. TrueUnlessMissed'
    BY <1>2, <1>3, <1>4, <1>5, ChangeVouched DEF IngestInv, Delete
  <1>9. RunFits'
    <2>1. SameRun /\ run'.late = run.late
      BY <1>2, SameRunIs DEF Delete
    <2>2. StoringFits'
      BY <1>2, <1>3, <1>5, <2>1, StoringChanged DEF IngestInv
    <2> QED BY <1>1, <1>2, <2>1, <2>2, OutdatesRun DEF IngestInv
  <1> QED BY <1>1, <1>2, <1>6, <1>7, <1>8, <1>9, OutdatesRows, OutdatesThreads
          DEF IngestInv, Delete

LEMMA ReconcileStep ==
  ASSUME IngestInv, NEW change \in owed, Reconcile(change)
  PROVE  IngestInv'
  <1>1. Outdates
    BY InvalidatedOutdates DEF IngestInv, Reconcile
  <1>2. owed' \cup told' = owed \cup told
    BY DEF Reconcile
  <1>a. SameRun
    <2>1. (run.late \/ run.cites \cap change.of # {}) \in BOOLEAN
      BY DEF IngestInv, Typed, Runs
    <2> QED BY <2>1, SameRunIs DEF IngestInv, Reconcile
  <1>3. Typed'
    BY <1>1, <1>2, <1>a, OutdatesTyped DEF IngestInv, Reconcile, Typed, SameRun
  <1>4. GoneFits'
    BY <1>2 DEF IngestInv, GoneFits, Reconcile
  <1>5. TrueUnlessMissed'
    BY <1>1, ReconcileVouched DEF IngestInv
  <1>6. RunFits'
    BY <1>1, <1>a, StoringReconciled, OutdatesRun DEF IngestInv
  <1> QED BY <1>1, <1>3, <1>4, <1>5, <1>6, OutdatesRows, OutdatesThreads
          DEF IngestInv, Reconcile

LEMMA ReplayStep ==
  ASSUME IngestInv, NEW change \in told, Replay(change)
  PROVE  IngestInv'
  <1>1. Outdates
    BY InvalidatedOutdates DEF IngestInv, Replay
  <1>2. Typed'
    BY <1>1, OutdatesTyped, IngestAssumption DEF IngestInv, Replay, Typed, Faulty
  <1>3. GoneFits'
    BY DEF IngestInv, GoneFits, Replay
  <1>4. TrueUnlessMissed'
    BY <1>1, OutdatesLive, OthersVouched DEF IngestInv, Replay
  <1>5. RunFits'
    BY <1>1, SameRunIs, StoringStays, OutdatesRun DEF IngestInv, Replay
  <1> QED BY <1>1, <1>2, <1>3, <1>4, <1>5, OutdatesRows, OutdatesThreads
          DEF IngestInv, Replay

LEMMA PeopleStep ==
  ASSUME IngestInv, People
  PROVE  IngestInv'
  <1>1. Changeable \subseteq Messages
    BY IngestAssumption
  <1>2. \A d, s : Said(d, s) \subseteq Messages
    BY DEF Said
  <1> QED BY <1>1, <1>2, EditStep, DeleteStep, ReconcileStep, ReplayStep DEF People

-----------------------------------------------------------------------------
(* The steps of a run that only look at the databases *)

LEMMA RunStep ==
  ASSUME IngestInv, UNCHANGED <<text, rows, threads, owed, told, replays, missed>>,
         settled' \subseteq Days, failures' \in Nat, replays + failures' <= MaxFaults,
         run' \in Runs, RunFits'
  PROVE  IngestInv'
  <1>1. Outdates
    BY Unchanged DEF IngestInv
  <1>2. Typed' /\ GoneFits'
    BY DEF IngestInv, Typed, GoneFits
  <1>3. TrueUnlessMissed'
    BY <1>1, OutdatesLive, OthersVouched DEF IngestInv
  <1> QED BY <1>1, <1>2, <1>3, OutdatesRows, OutdatesThreads DEF IngestInv

LEMMA IdleTyped == Idle \in Runs
  <1>1. <<>> \in Plans
    <2>1. <<>> \in [{} -> Sources]
      OBVIOUS
    <2> QED BY <2>1 DEF Plans
  <1>2. NoOffer \in [thread : Seq(Nat), from : Nat, to : Nat]
    BY DEF NoOffer, Offer
  <1> QED BY <1>1, <1>2 DEF Idle, Runs

LEMMA WaitingFits ==
  ASSUME run'.at \in {"idle", "between"}, run'.at = "between" => run'.todo # {},
         run'.left = {}
  PROVE  RunFits'
  BY DEF RunFits, WorkFits, PlanFits, StoringFits, StageFits, OfferFits

LEMMA FailsFits ==
  ASSUME Fails
  PROVE  run' \in Runs /\ RunFits'
  BY IdleTyped, WaitingFits DEF Fails, Idle

LEMMA BetweenTyped ==
  ASSUME NEW todo \in SUBSET Works
  PROVE  LET r == [Idle EXCEPT !.at = "between", !.todo = todo] IN
         r \in Runs /\ r.at = "between" /\ r.todo = todo /\ r.left = {}
  BY IdleTyped DEF Idle, Runs

LEMMA DayDoneFits ==
  ASSUME Typed, WorkFits, run.at # "idle", DayDone
  PROVE  run' \in Runs /\ RunFits'
  <1>1. CASE run.todo = {Work}
    BY <1>1, FailsFits DEF DayDone, Fails
  <1>2. CASE run.todo # {Work}
    <2> DEFINE todo == run.todo \ {Work}
    <2>1. todo \in SUBSET Works /\ todo # {}
      BY <1>2, WorkTyped DEF Typed, Runs
    <2>2. run' = [Idle EXCEPT !.at = "between", !.todo = todo]
      BY <1>2 DEF DayDone
    <2> HIDE DEF todo
    <2> QED BY <2>1, <2>2, BetweenTyped, WaitingFits
  <1> QED BY <1>1, <1>2

LEMMA PlanTyped ==
  ASSUME Typed, NEW d \in Days
  PROVE  /\ PlanOf(d) \in Plans /\ DOMAIN PlanOf(d) \subseteq Sessions
         /\ \A s \in DOMAIN PlanOf(d) :
              /\ DOMAIN PlanOf(d)[s] = Said(d, s)
              /\ \A m \in Said(d, s) : PlanOf(d)[s][m] = text[m]
  <1> DEFINE S == {x \in Sessions : Said(d, x) # {}}
  <1>1. PlanOf(d) = [s \in S |-> [m \in Said(d, s) |-> text[m]]]
    BY DEF PlanOf
  <1>2. \A s \in S : [m \in Said(d, s) |-> text[m]] \in Sources
    <2> SUFFICES ASSUME NEW s \in S
                 PROVE  [m \in Said(d, s) |-> text[m]] \in Sources
      OBVIOUS
    <2> DEFINE D == Said(d, s)
    <2>1. D \in SUBSET Messages
      BY DEF Said
    <2>2. [m \in D |-> text[m]] \in [D -> Nat]
      BY <2>1 DEF Typed
    <2> HIDE DEF D
    <2>3. [m \in D |-> text[m]] \in Sources
      BY <2>1, <2>2 DEF Sources
    <2> QED BY <2>3 DEF D
  <1>3. PlanOf(d) \in [S -> Sources]
    BY <1>1, <1>2
  <1>4. S \in SUBSET Sessions
    OBVIOUS
  <1>5. PlanOf(d) \in Plans
    BY <1>3, <1>4 DEF Plans
  <1>6. DOMAIN PlanOf(d) = S
    BY <1>1
  <1>7. \A s \in S : PlanOf(d)[s] = [m \in Said(d, s) |-> text[m]]
    BY <1>1
  <1> HIDE DEF S
  <1> QED BY <1>4, <1>5, <1>6, <1>7

LEMMA DaysTyped ==
  ASSUME Typed
  PROVE  PendingDays \subseteq Days /\ SpokenDays \subseteq Days /\ Candidates \subseteq Works
  <1>1. PendingDays \subseteq Days
    <2>1. \A i \in DOMAIN rows : rows[i].day \in Days
      BY RowsTyped
    <2>2. ASSUME NEW d \in PendingDays PROVE d \in Days
      <3>1. PICK i \in DOMAIN rows : d = rows[i].day
        BY DEF PendingDays
      <3> QED BY <2>1, <3>1
    <2> QED BY <2>2
  <1>2. SpokenDays \subseteq Days
    BY DEF SpokenDays, Days
  <1> QED BY <1>1, <1>2 DEF Candidates, Unsettled, Works

LEMMA SelectedTyped ==
  ASSUME Typed, Candidates # {}
  PROVE  Selected \in SUBSET Works /\ Selected # {}
  <1> DEFINE S == {c.day : c \in Candidates}
  <1>1. Candidates \subseteq Works
    BY DaysTyped
  <1>2. S \subseteq Nat /\ S # {}
    BY <1>1, Constants DEF Works
  <1>3. PICK x \in S : \A y \in S : x <= y
    BY <1>2, Least
  <1>4. PICK c \in Candidates : c.day = x
    BY <1>3
  <1>5. {e \in Candidates : e.day < c.day} = {}
    BY <1>2, <1>3, <1>4
  <1>6. Cardinality({e \in Candidates : e.day < c.day}) < MaxDays
    BY <1>5, FS_EmptySet, IngestAssumption
  <1> QED BY <1>1, <1>4, <1>6 DEF Selected

LEMMA StartRunStep ==
  ASSUME IngestInv, StartRun
  PROVE  IngestInv'
  <1>1. Selected \in SUBSET Works /\ Selected # {}
    BY SelectedTyped DEF IngestInv, StartRun
  <1>2. run' \in Runs /\ run'.at = "between" /\ run'.todo = Selected /\ run'.left = {}
    BY <1>1, BetweenTyped DEF StartRun
  <1> QED BY <1>1, <1>2, WaitingFits, RunStep DEF StartRun, IngestInv, Typed

LEMMA FaultTyped ==
  ASSUME Typed, Faulty, failures' = failures + 1
  PROVE  failures' \in Nat /\ replays + failures' <= MaxFaults
  BY IngestAssumption DEF Typed, Faulty

LEMMA FaultStep ==
  ASSUME IngestInv, Dies \/ ModelFails
  PROVE  IngestInv'
  <1>1. Fails /\ Faulty /\ failures' = failures + 1
    BY DEF Dies, ModelFails
  <1>2. UNCHANGED <<text, rows, threads, settled, owed, told, replays, missed>>
    BY DEF Dies, ModelFails
  <1> QED BY <1>1, <1>2, FailsFits, FaultTyped, RunStep DEF IngestInv, Typed

(* A run that goes on to its batches keeps its days. *)
LEMMA PlanStepFits ==
  ASSUME Typed, run'.todo = run.todo, run.todo # {},
         run'.left \subseteq DOMAIN run'.plan,
         \A s \in DOMAIN run'.plan : \A m \in DOMAIN run'.plan[s] :
           DayOf[m] = Day /\ SessionOf[m] = s
  PROVE  WorkFits' /\ PlanFits'
  BY SameDay DEF WorkFits, PlanFits

LEMMA TakeDayStep ==
  ASSUME IngestInv, TakeDay
  PROVE  IngestInv'
  <1>1. Typed /\ run.at = "between" /\ Day \in Days /\ run.todo # {}
    BY WorkTyped DEF IngestInv, RunFits, TakeDay
  <1>2. UNCHANGED <<text, rows, threads, settled, owed, told, replays, failures, missed>>
    BY DEF TakeDay
  <1>3. CASE Fails
    BY <1>2, <1>3, FailsFits, RunStep DEF IngestInv, Typed
  <1>4. CASE run' = [run EXCEPT !.at = "encoding", !.plan = PlanOf(Day),
                                !.left = DOMAIN PlanOf(Day)]
    <2>1. PICK plan : plan = PlanOf(Day)
      OBVIOUS
    <2>2. /\ plan \in Plans /\ DOMAIN plan \subseteq Sessions
          /\ \A s \in DOMAIN plan : DOMAIN plan[s] = Said(Day, s)
      BY <1>1, <2>1, PlanTyped
    <2>3. /\ run' \in Runs /\ run'.at = "encoding" /\ run'.plan = plan
          /\ run'.left = DOMAIN plan /\ run'.todo = run.todo
      BY <1>1, <1>4, <2>1, <2>2 DEF Typed, Runs
    <2>4. \A s \in DOMAIN plan : \A m \in DOMAIN plan[s] : DayOf[m] = Day /\ SessionOf[m] = s
      BY <2>2 DEF Said
    <2>5. WorkFits' /\ PlanFits'
      BY <1>1, <2>3, <2>4, PlanStepFits
    <2>6. StageFits' /\ OfferFits' /\ StoringFits'
      BY <2>3 DEF StageFits, OfferFits, StoringFits
    <2> QED BY <1>2, <2>3, <2>5, <2>6, RunStep DEF IngestInv, Typed, RunFits
  <1> QED BY <1>3, <1>4 DEF TakeDay

(* What is left of a run after its first session. *)
LEMMA LeftTyped ==
  ASSUME Typed, PlanFits, run.at \in {"encoding", "storing", "staging"}, run.left # {}
  PROVE  /\ First(run.left) \in run.left /\ First(run.left) \in Sessions
         /\ First(run.left) \in DOMAIN run.plan
         /\ Source = run.plan[First(run.left)] /\ Source \in Sources
         /\ DOMAIN Source \subseteq Messages /\ Source \in [DOMAIN Source -> Nat]
         /\ \A m \in DOMAIN Source : DayOf[m] = Day /\ SessionOf[m] = First(run.left)
  <1>1. run.left \subseteq Sessions /\ run.left \subseteq DOMAIN run.plan
    BY DEF Typed, Runs, PlanFits
  <1>2. First(run.left) \in run.left
    BY <1>1, FirstOf
  <1>3. run.plan \in Plans
    BY DEF Typed, Runs
  <1>4. run.plan[First(run.left)] \in Sources
    BY <1>1, <1>2, <1>3 DEF Plans
  <1> QED BY <1>1, <1>2, <1>4, SourceTyped DEF Source, PlanFits

LEMMA EncodedFits ==
  ASSUME Typed, WorkFits, PlanFits, run.at \in {"encoding", "storing"}, run.left # {},
         run'.at = "encoding", run'.plan = run.plan, run'.todo = run.todo,
         run'.left = run.left \ {First(run.left)}
  PROVE  RunFits'
  <1>1. run'.left \subseteq run.left
    OBVIOUS
  <1>2. WorkFits' /\ PlanFits'
    BY <1>1, PlanStepFits DEF WorkFits, PlanFits
  <1> QED BY <1>2 DEF RunFits, StoringFits, StageFits, OfferFits

LEMMA LoadBatchStep ==
  ASSUME IngestInv, LoadBatch
  PROVE  IngestInv'
  <1>1. UNCHANGED <<text, rows, threads, settled, owed, told, replays, failures, missed>>
    BY DEF LoadBatch
  <1>2. run' \in Runs /\ RunFits'
    <2>1. CASE Fails
      BY <2>1, FailsFits
    <2>2. CASE run' = [run EXCEPT !.left = @ \ {First(@)}]
      <3>1. /\ run' \in Runs /\ run'.at = run.at /\ run'.plan = run.plan
            /\ run'.todo = run.todo /\ run'.left = run.left \ {First(run.left)}
        BY <2>2 DEF IngestInv, Typed, Runs
      <3> QED BY <3>1, EncodedFits DEF LoadBatch, IngestInv, RunFits
    <2> QED BY <2>1, <2>2 DEF LoadBatch
  <1> QED BY <1>1, <1>2, RunStep DEF IngestInv, Typed

-----------------------------------------------------------------------------
(* The settlement *)

LEMMA LargestPlace ==
  ASSUME NEW n \in Nat, NEW S \in SUBSET (1..n), S # {}
  PROVE  Max(S) \in S /\ \A j \in S : j <= Max(S)
  <1> DEFINE T == {n - j : j \in S}
  <1>1. T \in SUBSET Nat /\ T # {}
    <2>1. \A j \in S : j \in Nat /\ j <= n
      OBVIOUS
    <2>2. \A j \in S : n - j \in Nat
      BY <2>1
    <2> QED BY <2>2
  <1>2. PICK x \in T : \A y \in T : x <= y
    BY <1>1, Least
  <1>3. PICK j \in S : x = n - j
    BY <1>2
  <1>4. \A k \in S : j >= k
    BY <1>2, <1>3
  <1> QED BY <1>3, <1>4 DEF Max

LEMMA ThreadTyped ==
  ASSUME Typed, NEW t \in threads
  PROVE  /\ t \in Seq(1..Len(rows)) /\ Len(t) \in Nat /\ DOMAIN t = 1..Len(t)
         /\ t \in Seq(Nat) /\ \A j \in DOMAIN t : t[j] \in 1..Len(rows)
  <1>1. t \in Seq(1..Len(rows)) /\ Len(rows) \in Nat
    BY DEF Typed
  <1>2. \A j \in DOMAIN t : t[j] \in 1..Len(rows) /\ t[j] \in Nat
    BY <1>1
  <1>3. t \in Seq(Nat)
    BY <1>1, <1>2
  <1> QED BY <1>1, <1>2, <1>3

(* What a plan offers of a day: two active events, the first not of a later day. *)
LEMMA OffersFit ==
  ASSUME Typed, NEW d \in Days, NEW offer \in Offers(d)
  PROVE  /\ offer \in [thread : Seq(Nat), from : Nat, to : Nat]
         /\ offer # NoOffer =>
              /\ offer.from \in 1..Len(rows) /\ offer.to \in 1..Len(rows)
              /\ offer.from # offer.to
              /\ rows[offer.from].day <= rows[offer.to].day
              /\ InForce(offer.from) /\ InForce(offer.to)
  <1> DEFINE day == LiveOf(rows, d)
             Earlier(i, j) == \/ rows[i].sess < rows[j].sess
                              \/ rows[i].sess = rows[j].sess /\ i < j
             Good == /\ offer.from \in 1..Len(rows) /\ offer.to \in 1..Len(rows)
                     /\ offer.from # offer.to
                     /\ rows[offer.from].day <= rows[offer.to].day
                     /\ InForce(offer.from) /\ InForce(offer.to)
  <1>1. \A i \in day : i \in 1..Len(rows) /\ rows[i].day = d /\ InForce(i)
    BY LiveTyped DEF LiveOf, Live, InForce
  <1>2. d \in Nat /\ Len(rows) \in Nat /\ \A i \in 1..Len(rows) : rows[i].day \in Nat /\ rows[i].sess \in Nat
    BY Constants, RowsTyped
  <1>3. CASE offer = NoOffer
    BY <1>3 DEF NoOffer, Offer
  <1>4. ASSUME NEW i \in day, NEW j \in day, offer = Offer(<<>>, i, j),
               Earlier(i, j)
        PROVE  offer \in [thread : Seq(Nat), from : Nat, to : Nat] /\ Good
    <2>1. i \in 1..Len(rows) /\ j \in 1..Len(rows) /\ i # j
      BY <1>1, <1>2, <1>4
    <2>2. offer.thread = <<>> /\ offer.from = i /\ offer.to = j
      BY <1>4 DEF Offer
    <2>3. offer \in [thread : Seq(Nat), from : Nat, to : Nat]
      BY <1>2, <1>4, <2>1 DEF Offer
    <2> QED BY <1>1, <1>2, <2>1, <2>2, <2>3
  <1>5. ASSUME NEW t \in Eligible(d), NEW j \in day, offer = Offer(t, EndBefore(t, d), j)
        PROVE  offer \in [thread : Seq(Nat), from : Nat, to : Nat] /\ Good
    <2>1. t \in threads /\ Before(t, d) # {} /\ rows[EndBefore(t, d)].status = "active"
      BY DEF Eligible
    <2>2. t \in Seq(Nat) /\ Len(t) \in Nat /\ \A k \in 1..Len(t) : t[k] \in 1..Len(rows)
      BY <2>1, ThreadTyped
    <2>3. Before(t, d) \in SUBSET (1..Len(t))
      BY <2>1, ThreadTyped DEF Before
    <2>4. Max(Before(t, d)) \in Before(t, d)
      BY <2>1, <2>2, <2>3, LargestPlace
    <2>5. PICK i : i = EndBefore(t, d)
      OBVIOUS
    <2>6. i \in 1..Len(rows) /\ rows[i].day < d
      BY <2>2, <2>3, <2>4, <2>5 DEF EndBefore, Before
    <2>7. j \in 1..Len(rows) /\ i # j /\ rows[i].day <= rows[j].day
      BY <1>1, <1>2, <2>6
    <2>8. offer = Offer(t, i, j)
      BY <1>5, <2>5
    <2>9. offer.from = i /\ offer.to = j
      BY <2>8 DEF Offer
    <2>10. offer \in [thread : Seq(Nat), from : Nat, to : Nat]
      BY <1>2, <2>2, <2>6, <2>7, <2>8 DEF Offer
    <2>11. InForce(i) /\ InForce(j)
      BY <1>1, <2>1, <2>5 DEF InForce
    <2> QED BY <2>6, <2>7, <2>9, <2>10, <2>11
  <1>6. ASSUME offer # NoOffer
        PROVE  offer \in [thread : Seq(Nat), from : Nat, to : Nat] /\ Good
    <2> DEFINE Pairs == {x \in day \X day : Earlier(x[1], x[2])}
               Within == {Offer(<<>>, x[1], x[2]) : x \in Pairs}
               Across == {Offer(x[1], EndBefore(x[1], d), x[2]) : x \in Eligible(d) \X day}
    <2>1. Offers(d) = {NoOffer} \cup Within \cup Across
      BY DEF Offers
    <2>2. CASE offer \in Within
      <3>1. PICK x \in Pairs : offer = Offer(<<>>, x[1], x[2])
        BY <2>2
      <3>2. x[1] \in day /\ x[2] \in day /\ Earlier(x[1], x[2])
        BY <3>1
      <3> HIDE DEF day, Earlier, Good
      <3> QED BY <1>4, <3>1, <3>2
    <2>3. CASE offer \in Across
      <3>1. PICK x \in Eligible(d) \X day : offer = Offer(x[1], EndBefore(x[1], d), x[2])
        BY <2>3
      <3>2. x[1] \in Eligible(d) /\ x[2] \in day
        BY <3>1
      <3> HIDE DEF day, Earlier, Good
      <3> QED BY <1>5, <3>1, <3>2
    <2> HIDE DEF Within, Across, Good
    <2>4. offer \in Within \/ offer \in Across
      BY <1>6, <2>1
    <2> QED BY <2>2, <2>3, <2>4
  <1> QED BY <1>3, <1>6

LEMMA LineageTyped ==
  ASSUME Typed, NEW d
  PROVE  Lineage(d) \in SUBSET (Nat \X Statuses)
  <1>1. \A i \in DOMAIN rows : i \in Nat /\ rows[i].status \in Statuses
    BY RowsTyped
  <1>2. ASSUME NEW x \in Lineage(d) PROVE x \in Nat \X Statuses
    <2>1. PICK i \in DOMAIN rows : x = <<i, rows[i].status>>
      BY DEF Lineage
    <2> QED BY <1>1, <2>1
  <1> QED BY <1>2

LEMMA AssembleStep ==
  ASSUME IngestInv, Assemble
  PROVE  IngestInv'
  <1>1. UNCHANGED <<text, rows, threads, settled, owed, told, replays, failures, missed>>
    BY DEF Assemble
  <1>2. /\ Typed /\ WorkFits /\ PlanFits /\ run.at = "encoding" /\ run.todo # {}
        /\ Day \in Days /\ run.left = {}
    BY WorkTyped DEF IngestInv, RunFits, Assemble, WorkFits
  <1>3. CASE Fails \/ DayDone
    BY <1>1, <1>2, <1>3, FailsFits, DayDoneFits, RunStep DEF IngestInv, Typed
  <1>4. ASSUME NEW offer \in Offers(Day),
               run' = [run EXCEPT !.at = "settling", !.seen = Lineage(Day), !.offer = offer]
        PROVE  IngestInv'
    <2>1. PICK seen : seen = Lineage(Day)
      OBVIOUS
    <2>2. /\ offer \in [thread : Seq(Nat), from : Nat, to : Nat]
          /\ offer # NoOffer =>
              /\ offer.from \in 1..Len(rows) /\ offer.to \in 1..Len(rows)
              /\ offer.from # offer.to
              /\ rows[offer.from].day <= rows[offer.to].day
              /\ InForce(offer.from) /\ InForce(offer.to)
      BY <1>2, OffersFit
    <2>3. seen \in SUBSET (Nat \X Statuses)
      BY <1>2, <2>1, LineageTyped
    <2>4. /\ run' \in Runs /\ run'.at = "settling" /\ run'.plan = run.plan
          /\ run'.left = run.left /\ run'.todo = run.todo /\ run'.offer = offer
      BY <1>2, <1>4, <2>1, <2>2, <2>3 DEF Typed, Runs
    <2>5. WorkFits' /\ PlanFits'
      BY <1>2, <2>4, PlanStepFits DEF PlanFits
    <2>6. OfferFits'
      BY <1>1, <2>2, <2>4 DEF OfferFits, InForce
    <2>7. StageFits' /\ StoringFits'
      BY <2>4 DEF StageFits, StoringFits
    <2> QED BY <1>1, <2>4, <2>5, <2>6, <2>7, RunStep DEF IngestInv, Typed, RunFits
  <1> QED BY <1>3, <1>4 DEF Assemble

(* What ThreadsFollow says of one thread, of the rows of a store. *)
Followed(db, t) ==
  /\ Len(t) >= 2
  /\ \A j, k \in DOMAIN t : j < k => t[j] # t[k] /\ db[t[j]].day <= db[t[k]].day
  /\ \A i \in ToSet(t) : db[i].status \in {"active", "invalid"}

LEMMA ThreadsFollowed ==
  ThreadsFollow <=> \A t \in threads : Followed(rows, t)
  BY DEF ThreadsFollow, Followed

LEMMA AppendTyped ==
  ASSUME NEW S, NEW s \in Seq(S), NEW x \in S
  PROVE  /\ Append(s, x) \in Seq(S) /\ Len(s) \in Nat /\ Len(Append(s, x)) = Len(s) + 1
         /\ Append(s, x)[Len(s) + 1] = x
         /\ \A i \in 1..Len(s) : Append(s, x)[i] = s[i] /\ s[i] \in S
  OBVIOUS

LEMMA AppendedFollows ==
  ASSUME Typed, ThreadsFollow, NEW from \in 1..Len(rows), NEW to \in 1..Len(rows), from # to,
         rows[from].day <= rows[to].day, InForce(from), InForce(to),
         NEW thread, CanAppend(Offer(thread, from, to))
  PROVE  /\ Appended(Offer(thread, from, to)) \subseteq Seq(1..Len(rows))
         /\ \A t \in Appended(Offer(thread, from, to)) : Followed(rows, t)
  <1> DEFINE offer == Offer(thread, from, to)
  <1>1. offer.from = from /\ offer.to = to
    BY DEF Offer
  <1>2. CanAppend(offer)
    OBVIOUS
  <1> HIDE DEF offer
  <1>3. Membership(to) = {}
    BY <1>1, <1>2 DEF CanAppend
  <1>4. Membership(from) = {} \/ \E t \in threads : Membership(from) = {t} /\ Last(t) = from
    BY <1>1, <1>2 DEF CanAppend
  <1>5. Appended(offer) = (threads \ Membership(from)) \cup
                          IF Membership(from) = {} THEN {<<from, to>>}
                          ELSE {Append(t, to) : t \in Membership(from)}
    BY <1>1 DEF Appended
  <1>6. \A t \in threads : t \in Seq(1..Len(rows)) /\ Followed(rows, t)
    BY ThreadsFollowed DEF Typed
  <1>7. CASE Membership(from) = {}
    <2> DEFINE t == <<from, to>>
    <2>1. Appended(offer) \subseteq threads \cup {t}
      BY <1>5, <1>7
    <2>2. t \in Seq(1..Len(rows)) /\ Len(t) = 2 /\ DOMAIN t = {1, 2} /\ t[1] = from /\ t[2] = to
      OBVIOUS
    <2> HIDE DEF t
    <2>3. ToSet(t) = {from, to}
      BY <2>2 DEF ToSet
    <2>4. Followed(rows, t)
      BY <2>2, <2>3 DEF Followed, InForce
    <2> QED BY <1>6, <2>1, <2>2, <2>4 DEF offer
  <1>8. ASSUME NEW old \in threads, Membership(from) = {old}, Last(old) = from
        PROVE  Append(old, to) \in Seq(1..Len(rows)) /\ Followed(rows, Append(old, to))
    <2>1. /\ old \in Seq(1..Len(rows)) /\ Len(old) \in Nat /\ DOMAIN old = 1..Len(old)
          /\ \A j \in 1..Len(old) : old[j] \in 1..Len(rows)
      BY ThreadTyped
    <2>2. Followed(rows, old)
      BY <1>6
    <2>3. Len(old) >= 2 /\ old[Len(old)] = from
      BY <1>8, <2>1, <2>2 DEF Followed, Last
    <2>4. \A j \in 1..Len(old) : old[j] # to
      <3>1. to \notin ToSet(old)
        BY <1>3 DEF Membership
      <3>2. \A j \in DOMAIN old : old[j] \in ToSet(old)
        BY DEF ToSet
      <3> QED BY <2>1, <3>1, <3>2
    <2>5. PICK t \in Seq(1..Len(rows)) : t = Append(old, to)
      BY <2>1, AppendTyped
    <2>6. /\ Len(t) = Len(old) + 1 /\ DOMAIN t = 1..(Len(old) + 1)
          /\ t[Len(old) + 1] = to /\ \A j \in 1..Len(old) : t[j] = old[j]
      BY <2>1, <2>5
    <2>7. \A i \in 1..Len(rows) : rows[i].day \in Nat
      BY RowsTyped
    <2>8. \A j \in 1..Len(old) : rows[old[j]].day <= rows[to].day
      <3> TAKE j \in 1..Len(old)
      <3>1. rows[old[j]].day <= rows[from].day
        <4>1. Len(old) \in DOMAIN old /\ old[Len(old)] = from /\ j \in DOMAIN old
          BY <2>1, <2>3
        <4>2. CASE j = Len(old)
          BY <2>7, <4>1, <4>2
        <4>3. CASE j < Len(old)
          BY <2>2, <4>1, <4>3 DEF Followed
        <4>4. j = Len(old) \/ j < Len(old)
          <5>1. Len(old) \in Nat /\ j \in 1..Len(old)
            BY <2>1
          <5> QED BY <5>1
        <4> QED BY <4>2, <4>3, <4>4
      <3> QED BY <2>1, <2>7, <3>1
    <2>9. ASSUME NEW j \in DOMAIN t, NEW k \in DOMAIN t, j < k
          PROVE  t[j] # t[k] /\ rows[t[j]].day <= rows[t[k]].day
      <3>1. j \in 1..Len(old) /\ t[j] = old[j]
        BY <2>1, <2>6, <2>9
      <3>2. CASE k = Len(old) + 1
        BY <2>4, <2>6, <2>8, <3>1, <3>2
      <3>3. CASE k \in 1..Len(old)
        BY <2>1, <2>2, <2>6, <2>9, <3>1, <3>3 DEF Followed
      <3> QED BY <2>1, <2>6, <3>2, <3>3
    <2>10. \A i \in ToSet(t) : rows[i].status \in {"active", "invalid"}
      <3> TAKE i \in ToSet(t)
      <3>1. PICK j \in 1..(Len(old) + 1) : t[j] = i
        BY <2>6 DEF ToSet
      <3>2. CASE j = Len(old) + 1
        BY <2>6, <3>1, <3>2 DEF InForce
      <3>3. CASE j \in 1..Len(old)
        BY <2>1, <2>2, <2>6, <3>1, <3>3 DEF Followed, ToSet
      <3> QED BY <2>1, <3>2, <3>3
    <2>11. Followed(rows, t)
      BY <2>1, <2>3, <2>6, <2>9, <2>10 DEF Followed
    <2> QED BY <2>5, <2>11
  <1>9. CASE Membership(from) # {}
    <2>1. PICK old \in threads : Membership(from) = {old} /\ Last(old) = from
      BY <1>4, <1>9
    <2>2. Appended(offer) \subseteq threads \cup {Append(old, to)}
      BY <1>5, <2>1
    <2> QED BY <1>6, <1>8, <2>1, <2>2 DEF offer
  <1> QED BY <1>7, <1>9

LEMMA CommitDayStep ==
  ASSUME IngestInv, NEW linked \in BOOLEAN, CommitDay(linked)
  PROVE  IngestInv'
  <1>1. UNCHANGED <<text, rows, owed, told, replays, failures, missed>> /\ settled' = settled \cup {Day}
    BY DEF CommitDay
  <1>2. Typed /\ WorkFits /\ run.at = "settling" /\ Day \in Days
    BY WorkTyped DEF IngestInv, RunFits, CommitDay
  <1>3. run' \in Runs /\ RunFits'
    BY <1>2, FailsFits, DayDoneFits DEF CommitDay
  <1>4. settled' \subseteq Days
    BY <1>1, <1>2 DEF Typed
  <1>5. CASE threads' = threads
    BY <1>1, <1>2, <1>3, <1>4, <1>5, RunStep DEF Typed
  <1>6. CASE linked /\ threads' = Appended(run.offer)
    <2>1. run.offer # NoOffer /\ CanAppend(run.offer)
      BY <1>6 DEF CommitDay, CanCommit
    <2>2. run.offer = Offer(run.offer.thread, run.offer.from, run.offer.to)
      BY DEF IngestInv, Typed, Runs, Offer
    <2> DEFINE thread == run.offer.thread
               from == run.offer.from
               to == run.offer.to
    <2>3. run.offer = Offer(thread, from, to) /\ from \in Nat /\ to \in Nat
      BY <2>2 DEF IngestInv, Typed, Runs
    <2>4. /\ from \in 1..Len(rows) /\ to \in 1..Len(rows) /\ from # to
          /\ rows[from].day <= rows[to].day /\ InForce(from) /\ InForce(to)
      BY <1>2, <2>1, <2>3 DEF IngestInv, RunFits, OfferFits
    <2>5. /\ Appended(run.offer) \subseteq Seq(1..Len(rows))
          /\ \A t \in Appended(run.offer) : Followed(rows, t)
      BY <1>2, <2>1, <2>3, <2>4, AppendedFollows DEF IngestInv
    <2>6. ThreadsFollow'
      BY <1>1, <1>6, <2>5 DEF ThreadsFollow, Followed
    <2>7. Typed' /\ GoneFits' /\ Outdates
      BY <1>1, <1>2, <1>3, <1>4, <1>6, <2>5, Unchanged DEF IngestInv, Typed, GoneFits
    <2>8. TrueUnlessMissed'
      BY <1>1, <2>7, OutdatesLive, OthersVouched DEF IngestInv
    <2> QED BY <1>3, <2>6, <2>7, <2>8, OutdatesRows DEF IngestInv
  <1> QED BY <1>5, <1>6 DEF CommitDay

LEMMA CommitRefusedStep ==
  ASSUME IngestInv, NEW linked \in BOOLEAN, CommitRefused(linked)
  PROVE  IngestInv'
  <1>1. UNCHANGED <<text, rows, threads, settled, owed, told, replays, failures, missed>> /\ Fails
    BY DEF CommitRefused
  <1> QED BY <1>1, FailsFits, RunStep DEF IngestInv, Typed

-----------------------------------------------------------------------------
(* The batches, of the store and of a stage *)

LEMMA CheckSourcesStep ==
  ASSUME IngestInv, NEW cites \in SUBSET Messages, CheckSources(cites)
  PROVE  IngestInv'
  <1>1. UNCHANGED <<text, rows, threads, settled, owed, told, replays, failures, missed>>
    BY DEF CheckSources
  <1>2. Typed /\ WorkFits /\ PlanFits /\ run.left # {} /\ run.todo # {}
    BY DEF IngestInv, RunFits, CheckSources, WorkFits
  <1>3. /\ run' \in Runs /\ run'.at = "storing" /\ run'.plan = run.plan
        /\ run'.left = run.left /\ run'.todo = run.todo /\ run'.cites = cites
    BY <1>2 DEF CheckSources, Typed, Runs
  <1>4. WorkFits' /\ PlanFits'
    BY <1>2, <1>3, PlanStepFits DEF CheckSources, PlanFits
  <1>5. StoringFits'
    <2>1. Source' = Source
      BY <1>3 DEF Source, First
    <2>2. \A m \in cites : TrueOrOwed(Source, m)'
      BY <1>1, <2>1 DEF CheckSources, Fresh, TrueOrOwed
    <2> QED BY <1>2, <1>3, <2>1, <2>2 DEF StoringFits, CheckSources
  <1>6. StageFits' /\ OfferFits'
    BY <1>3 DEF StageFits, OfferFits
  <1> QED BY <1>1, <1>3, <1>4, <1>5, <1>6, RunStep DEF IngestInv, Typed, RunFits

LEMMA StoreBatchStep ==
  ASSUME IngestInv, StoreBatch
  PROVE  IngestInv'
  <1> DEFINE cites == run.cites
  <1>1. UNCHANGED <<text, threads, settled, owed, told, replays, failures>>
    BY DEF StoreBatch
  <1>2. Typed /\ WorkFits /\ PlanFits /\ run.at = "storing" /\ run.left # {} /\ Day \in Days
    BY WorkTyped DEF IngestInv, RunFits, StoreBatch, StoringFits
  <1>3. /\ run' \in Runs /\ run'.at = "encoding" /\ run'.plan = run.plan
        /\ run'.todo = run.todo /\ run'.left = run.left \ {First(run.left)}
    BY <1>2 DEF StoreBatch, Typed, Runs
  <1>4. run' \in Runs /\ RunFits'
    BY <1>2, <1>3, EncodedFits
  <1>5. /\ First(run.left) \in Sessions /\ Source \in Sources /\ DOMAIN Source \subseteq Messages
        /\ \A m \in DOMAIN Source : DayOf[m] = Day /\ SessionOf[m] = First(run.left)
    BY <1>2, LeftTyped
  <1>6. PICK r \in Rows : /\ rows' = Append(rows, r)
                          /\ r.day = Day /\ r.sess = First(run.left)
                          /\ r.src = Source /\ r.cites = cites
    <2>1. PICK s \in Sessions, src \in Sources, d \in Days :
            s = First(run.left) /\ src = Source /\ d = Day
      BY <1>2, <1>5
    <2>2. cites \in SUBSET (DOMAIN src) /\ DOMAIN src \subseteq Messages
      BY <1>2, <1>5, <2>1 DEF IngestInv, RunFits, StoringFits
    <2>3. rows' = Append(rows, Row(d, s, src, cites, TRUE))
      BY <2>1 DEF StoreBatch
    <2>4. \E r \in Rows :
            /\ r = Row(d, s, src, cites, TRUE) /\ r.day = d /\ r.sess = s
            /\ r.src = src /\ r.cites = cites
      <3>1. PICK r : r = Row(d, s, src, cites, TRUE)
        OBVIOUS
      <3>2. /\ r \in Rows /\ r.day = d /\ r.sess = s /\ r.src = src /\ r.cites = cites
            /\ r.status \in {"none", "active"}
        BY <2>2, <3>1 DEF Row, Rows, Statuses
      <3> QED BY <3>1, <3>2
    <2> QED BY <2>1, <2>3, <2>4
  <1>7. /\ rows' \in Seq(Rows) /\ Len(rows) \in Nat /\ Len(rows') = Len(rows) + 1
        /\ rows'[Len(rows) + 1] = r
        /\ \A i \in 1..Len(rows) : rows'[i] = rows[i]
    BY <1>2, <1>6, AppendTyped DEF Typed
  <1>8. /\ cites \subseteq DOMAIN Source
        /\ ~run.late => \A m \in cites : TrueOrOwed(Source, m)
    BY <1>2 DEF IngestInv, RunFits, StoringFits
  <1>a. missed' = IF run.late THEN missed \cup {Len(rows) + 1} ELSE missed
    BY DEF StoreBatch
  <1>9. Typed'
    <2>1. ASSUME NEW t \in threads PROVE t \in Seq(1..Len(rows'))
      <3>1. \A j \in 1..Len(t) : t[j] \in 1..Len(rows')
        BY <1>2, <1>7, <2>1, ThreadTyped
      <3>2. t \in Seq(Nat) /\ Len(t) \in Nat
        BY <1>2, <2>1, ThreadTyped
      <3> QED BY <3>1, <3>2
    <2>2. missed' \subseteq 1..Len(rows')
      <3>1. /\ missed \subseteq 1..Len(rows) /\ 1..Len(rows) \subseteq 1..(Len(rows) + 1)
            /\ Len(rows) + 1 \in 1..(Len(rows) + 1)
        BY <1>2, <1>7 DEF Typed
      <3> QED BY <1>7, <1>a, <3>1
    <2> QED BY <1>1, <1>2, <1>4, <1>7, <2>1, <2>2 DEF Typed
  <1>10. RowsFit'
    <2> SUFFICES ASSUME NEW i \in 1..(Len(rows) + 1)
                 PROVE  RowFits(rows'[i])
      BY <1>7 DEF RowsFit, RowFits
    <2>1. CASE i \in 1..Len(rows)
      BY <1>7, <2>1 DEF IngestInv, RowsFit, RowFits
    <2>2. CASE i = Len(rows) + 1
      BY <1>5, <1>6, <1>7, <1>8, <2>2 DEF RowFits
    <2> QED BY <1>7, <2>1, <2>2
  <1>11. GoneFits'
    BY <1>1 DEF IngestInv, GoneFits
  <1>12. ThreadsFollow'
    <2> SUFFICES ASSUME NEW t \in threads
                 PROVE  Followed(rows', t)
      BY <1>1 DEF ThreadsFollow, Followed
    <2>1. \A j \in DOMAIN t : t[j] \in 1..Len(rows) /\ rows'[t[j]] = rows[t[j]]
      BY <1>2, <1>7, ThreadTyped
    <2>2. \A i \in ToSet(t) : rows'[i] = rows[i]
      BY <2>1 DEF ToSet
    <2> QED BY <2>1, <2>2, ThreadsFollowed DEF IngestInv, Followed
  <1>13. TrueUnlessMissed'
    <2> SUFFICES ASSUME NEW i \in Live(rows') \ missed'
                 PROVE  \/ \E j \in Live(rows) \ missed :
                             rows'[i].src = rows[j].src /\ rows'[i].cites = rows[j].cites
                        \/ \A m \in rows'[i].cites : TrueOrOwed(rows'[i].src, m)
      BY <1>1, OthersVouched DEF IngestInv
    <2>1. i \in 1..(Len(rows) + 1) /\ rows'[i].status = "active"
      BY <1>7 DEF Live
    <2>2. CASE i = Len(rows) + 1
      BY <1>6, <1>7, <1>8, <1>a, <2>2
    <2>3. CASE i \in 1..Len(rows)
      <3>1. rows'[i] = rows[i] /\ i \in DOMAIN rows
        BY <1>2, <1>7, <2>3, RowsTyped
      <3>2. i \in Live(rows) \ missed
        BY <1>a, <2>1, <3>1 DEF Live
      <3> QED BY <3>1, <3>2
    <2>4. i = Len(rows) + 1 \/ i \in 1..Len(rows)
      BY <1>7, <2>1
    <2> QED BY <2>2, <2>3, <2>4
  <1> QED BY <1>4, <1>9, <1>10, <1>11, <1>12, <1>13 DEF IngestInv

LEMMA TakeRepairStep ==
  ASSUME IngestInv, TakeRepair
  PROVE  IngestInv'
  <1>1. UNCHANGED <<text, rows, threads, settled, owed, told, replays, failures, missed>>
    BY DEF TakeRepair
  <1>2. Typed /\ run.at = "between" /\ Day \in Days /\ run.todo # {}
    BY WorkTyped DEF IngestInv, RunFits, TakeRepair
  <1>3. CASE Fails
    BY <1>1, <1>3, FailsFits, RunStep DEF IngestInv, Typed
  <1>4. CASE run' = [run EXCEPT !.at = "staging", !.plan = PlanOf(Day),
                                !.left = DOMAIN PlanOf(Day), !.db = rows, !.base = Len(rows)]
    <2>1. PICK plan : plan = PlanOf(Day)
      OBVIOUS
    <2>2. /\ plan \in Plans /\ DOMAIN plan \subseteq Sessions
          /\ \A s \in DOMAIN plan : DOMAIN plan[s] = Said(Day, s)
      BY <1>2, <2>1, PlanTyped
    <2>3. PICK db \in Seq(Rows), n \in Nat : db = rows /\ n = Len(db) /\ n = Len(rows)
      BY <1>2 DEF Typed
    <2>4. /\ run' \in Runs /\ run'.at = "staging" /\ run'.plan = plan
          /\ run'.left = DOMAIN plan /\ run'.todo = run.todo
          /\ run'.db = db /\ run'.base = n
      BY <1>2, <1>4, <2>1, <2>2, <2>3 DEF Typed, Runs
    <2>5. \A s \in DOMAIN plan : \A m \in DOMAIN plan[s] : DayOf[m] = Day /\ SessionOf[m] = s
      BY <2>2 DEF Said
    <2>6. WorkFits' /\ PlanFits'
      BY <1>2, <2>4, <2>5, PlanStepFits
    <2>7. StageFits' /\ OfferFits' /\ StoringFits'
      BY <1>1, <2>3, <2>4 DEF StageFits, OfferFits, StoringFits, SameBut
    <2> QED BY <1>1, <2>4, <2>6, <2>7, RunStep DEF IngestInv, Typed, RunFits
  <1> QED BY <1>3, <1>4 DEF TakeRepair

LEMMA StageBatchStep ==
  ASSUME IngestInv, NEW cites \in SUBSET Messages, StageBatch(cites)
  PROVE  IngestInv'
  <1>1. UNCHANGED <<text, rows, threads, settled, owed, told, replays, failures, missed>>
    BY DEF StageBatch
  <1>2. /\ Typed /\ WorkFits /\ PlanFits /\ run.at = "staging" /\ run.left # {} /\ Day \in Days
        /\ run.todo # {}
    BY WorkTyped DEF IngestInv, RunFits, StageBatch, WorkFits
  <1>3. CASE Fails
    BY <1>1, <1>3, FailsFits, RunStep DEF IngestInv, Typed
  <1>4. CASE run' = [run EXCEPT !.db = Append(@, Row(Day, First(run.left), Source, cites, FALSE)),
                                !.left = @ \ {First(@)}]
    <2>1. PICK s \in Sessions, src \in Sources :
            /\ s = First(run.left) /\ s \in run.left /\ s \in DOMAIN run.plan
            /\ src = Source /\ src = run.plan[s] /\ DOMAIN src \subseteq Messages
      BY <1>2, LeftTyped
    <2>2. cites \subseteq DOMAIN src
      BY <2>1 DEF StageBatch
    <2>3. PICK r \in Rows : /\ r = Row(Day, First(run.left), Source, cites, FALSE)
                            /\ r.day = Day /\ r.sess = s /\ r.src = src /\ r.cites = cites
                            /\ r.status \in {"none", "active"}
      <3>1. PICK d \in Days : d = Day
        BY <1>2
      <3>2. cites \in SUBSET (DOMAIN src) /\ DOMAIN src \subseteq Messages
        BY <2>1, <2>2
      <3>3. \E r \in Rows :
              /\ r = Row(d, s, src, cites, FALSE) /\ r.day = d /\ r.sess = s
              /\ r.src = src /\ r.cites = cites /\ r.status \in {"none", "active"}
        <4>1. PICK r : r = Row(d, s, src, cites, FALSE)
          OBVIOUS
        <4>2. /\ r \in Rows /\ r.day = d /\ r.sess = s /\ r.src = src /\ r.cites = cites
              /\ r.status \in {"none", "active"}
          BY <3>2, <4>1 DEF Row, Rows, Statuses
        <4> QED BY <4>1, <4>2
      <3> QED BY <2>1, <3>1, <3>3
    <2>4. PICK db \in Seq(Rows), n \in Nat : db = run.db /\ n = run.base
      BY <1>2, RunTyped
    <2>5. PICK new \in Seq(Rows) : new = Append(db, r)
      BY AppendTyped
    <2>6. /\ Len(new) = Len(db) + 1 /\ new[Len(db) + 1] = r /\ Len(db) \in Nat
          /\ \A i \in 1..Len(db) : new[i] = db[i]
      BY <2>5, AppendTyped
    <2>7. /\ run' \in Runs /\ run'.at = "staging" /\ run'.plan = run.plan
          /\ run'.left = run.left \ {s} /\ run'.todo = run.todo
          /\ run'.db = new /\ run'.base = n
      BY <1>2, <1>4, <2>1, <2>3, <2>4, <2>5 DEF Typed, Runs
    <2>8. WorkFits' /\ PlanFits'
      BY <1>2, <2>7, PlanStepFits DEF PlanFits
    <2>9. OfferFits' /\ StoringFits'
      BY <2>7 DEF OfferFits, StoringFits
    <2>10. /\ n = Len(rows) /\ n <= Len(db)
           /\ \A i \in 1..n : SameBut(db[i], rows[i])
           /\ \A k \in (n + 1)..Len(db) :
                /\ db[k].day = Day /\ db[k].status \in {"none", "active"}
                /\ db[k].sess \in DOMAIN run.plan \ run.left
                /\ db[k].src = run.plan[db[k].sess] /\ db[k].cites \subseteq DOMAIN db[k].src
           /\ \A j, k \in (n + 1)..Len(db) : db[j].sess = db[k].sess => j = k
      BY <1>2, <2>4 DEF IngestInv, RunFits, StageFits, Staged
    <2>11. \A i \in 1..n : SameBut(new[i], rows[i])
      BY <2>6, <2>10 DEF SameBut
    <2>12. ASSUME NEW k \in (n + 1)..Len(new)
           PROVE  /\ new[k].day = Day /\ new[k].status \in {"none", "active"}
                  /\ new[k].sess \in DOMAIN run.plan \ (run.left \ {s})
                  /\ new[k].src = run.plan[new[k].sess] /\ new[k].cites \subseteq DOMAIN new[k].src
      <3>1. CASE k = Len(db) + 1
        BY <2>1, <2>2, <2>3, <2>6, <3>1
      <3>2. CASE k \in (n + 1)..Len(db)
        <4>1. new[k] = db[k]
          BY <2>6, <2>10, <3>2
        <4> QED BY <2>10, <3>2, <4>1
      <3> QED BY <2>6, <2>12, <3>1, <3>2
    <2>13. ASSUME NEW j \in (n + 1)..Len(new), NEW k \in (n + 1)..Len(new), new[j].sess = new[k].sess
           PROVE  j = k
      <3>1. \A i \in (n + 1)..Len(db) : new[i] = db[i] /\ new[i].sess # s
        BY <2>1, <2>6, <2>10
      <3>2. \A i \in (n + 1)..Len(new) : i = Len(db) + 1 \/ i \in (n + 1)..Len(db)
        BY <2>6
      <3>3. new[Len(db) + 1].sess = s
        BY <2>3, <2>6
      <3> QED BY <2>10, <2>13, <3>1, <3>2, <3>3
    <2>14. StageFits'
      BY <1>1, <2>6, <2>7, <2>10, <2>11, <2>12, <2>13, SameDay DEF StageFits, Staged
    <2> QED BY <1>1, <2>7, <2>8, <2>9, <2>14, RunStep DEF IngestInv, Typed, RunFits
  <1> QED BY <1>3, <1>4 DEF StageBatch

LEMMA FinishStageStep ==
  ASSUME IngestInv, FinishStage
  PROVE  IngestInv'
  <1>1. UNCHANGED <<text, rows, threads, settled, owed, told, replays, failures, missed>>
    BY DEF FinishStage
  <1>2. Typed /\ RunFits /\ run.at = "staging" /\ run.todo # {}
    BY DEF IngestInv, RunFits, FinishStage, WorkFits
  <1>3. CASE Fails
    BY <1>1, <1>3, FailsFits, RunStep DEF IngestInv, Typed
  <1>4. CASE run' = [run EXCEPT !.at = "staged"]
    <2>1. /\ run' \in Runs /\ run'.at = "staged" /\ run'.plan = run.plan
          /\ run'.left = run.left /\ run'.todo = run.todo
          /\ run'.db = run.db /\ run'.base = run.base
      BY <1>2, <1>4 DEF Typed, Runs
    <2>2. WorkFits' /\ PlanFits' /\ OfferFits' /\ StoringFits'
      BY <1>2, <2>1, PlanStepFits DEF RunFits, PlanFits, OfferFits, StoringFits
    <2>3. StageFits'
      BY <1>1, <1>2, <2>1, SameDay DEF RunFits, StageFits, Staged
    <2> QED BY <1>1, <2>1, <2>2, <2>3, RunStep DEF IngestInv, Typed, RunFits
  <1> QED BY <1>3, <1>4 DEF FinishStage

-----------------------------------------------------------------------------
(* The promotion of a repair: the rows *)

(* What a promoted repair leaves of the store. *)
Promoted ==
  /\ run.base = Len(rows) /\ run.base <= Len(run.db)
  /\ rows' \in Seq(Rows) /\ Len(rows') = Len(run.db)
  /\ \A i \in 1..Len(rows) :
       /\ SameBut(rows'[i], rows[i])
       /\ i \in Previous => rows'[i].status = "replaced"
       /\ i \notin Previous => rows'[i].status = rows[i].status
  /\ \A k \in (Len(rows) + 1)..Len(run.db) : rows'[k] = run.db[k]
  /\ Previous = {i \in 1..Len(rows) : rows[i].day = Day /\ InForce(i)}
  /\ PlanOf(Day) = run.plan

LEMMA ReplacedTyped ==
  ASSUME NEW db \in Seq(Rows), NEW P
  PROVE  /\ Replaced(db, P) \in Seq(Rows) /\ Len(Replaced(db, P)) = Len(db)
         /\ \A i \in 1..Len(db) :
              /\ SameBut(Replaced(db, P)[i], db[i])
              /\ i \in P => Replaced(db, P)[i].status = "replaced"
              /\ i \notin P => Replaced(db, P)[i].status = db[i].status
  <1> DEFINE new == Replaced(db, P)
  <1>1. DOMAIN db = 1..Len(db) /\ Len(db) \in Nat /\ \A i \in 1..Len(db) : db[i] \in Rows
    OBVIOUS
  <1>2. new = [i \in 1..Len(db) |-> IF i \in P THEN [db[i] EXCEPT !.status = "replaced"] ELSE db[i]]
    BY <1>1 DEF Replaced
  <1>3. ASSUME NEW r \in Rows
        PROVE  LET q == [r EXCEPT !.status = "replaced"] IN
               q \in Rows /\ SameBut(q, r) /\ q.status = "replaced"
    BY DEF Rows, SameBut, Statuses
  <1> HIDE DEF new
  <1>4. ASSUME NEW i \in 1..Len(db)
        PROVE  /\ new[i] \in Rows /\ SameBut(new[i], db[i])
               /\ i \in P => new[i].status = "replaced"
               /\ i \notin P => new[i].status = db[i].status
    <2>1. db[i] \in Rows
      BY <1>1
    <2>2. CASE i \in P
      <3>1. new[i] = [db[i] EXCEPT !.status = "replaced"]
        BY <1>2, <2>2
      <3>2. LET q == [db[i] EXCEPT !.status = "replaced"] IN
            q \in Rows /\ SameBut(q, db[i]) /\ q.status = "replaced"
        BY <1>3, <2>1
      <3> QED BY <2>2, <3>1, <3>2
    <2>3. CASE i \notin P
      <3>1. new[i] = db[i]
        BY <1>2, <2>3
      <3> QED BY <2>1, <2>3, <3>1 DEF SameBut
    <2> QED BY <2>2, <2>3
  <1>5. new \in Seq(Rows) /\ Len(new) = Len(db)
    BY <1>1, <1>2, <1>4
  <1> QED BY <1>4, <1>5 DEF new

LEMMA BaselineStanding ==
  ASSUME NEW db, NEW old, NEW d, Baseline(db, d) = Baseline(old, d)
  PROVE  Standing(db, d) = Standing(old, d)
  <1>1. ASSUME NEW c, NEW i
        PROVE  i \in Standing(c, d) <=> \E x \in Baseline(c, d) : x[1] = i
    <2>1. ASSUME i \in Standing(c, d)
          PROVE  \E x \in Baseline(c, d) : x[1] = i
      <3>1. <<i, c[i].status>> \in Baseline(c, d)
        BY <2>1 DEF Baseline
      <3> QED BY <3>1
    <2>2. ASSUME NEW x \in Baseline(c, d), x[1] = i
          PROVE  i \in Standing(c, d)
      <3>1. PICK j \in Standing(c, d) : x = <<j, c[j].status>>
        BY <2>2 DEF Baseline
      <3> QED BY <2>2, <3>1
    <2> QED BY <2>1, <2>2
  <1>2. \A i : i \in Standing(db, d) <=> i \in Standing(old, d)
    BY <1>1
  <1> QED BY <1>2

LEMMA Rejoined ==
  ASSUME NEW S, NEW a \in Seq(S), NEW db \in Seq(S), Len(a) <= Len(db)
  PROVE  LET c == a \o SubSeq(db, Len(a) + 1, Len(db)) IN
         /\ c \in Seq(S) /\ Len(c) = Len(db)
         /\ \A i \in 1..Len(a) : c[i] = a[i]
         /\ \A k \in (Len(a) + 1)..Len(db) : c[k] = db[k]
  <1> DEFINE n == Len(a)
             tail == SubSeq(db, n + 1, Len(db))
  <1>1. n \in Nat /\ Len(db) \in Nat /\ n <= Len(db)
    OBVIOUS
  <1>2. /\ tail \in Seq(S) /\ Len(tail) = Len(db) - n
        /\ \A j \in 1..(Len(db) - n) : tail[j] = db[n + j]
    BY <1>1
  <1> HIDE DEF tail
  <1>3. /\ a \o tail \in Seq(S) /\ Len(a \o tail) = Len(db)
        /\ \A i \in 1..n : (a \o tail)[i] = a[i]
    BY <1>1, <1>2
  <1>4. ASSUME NEW k \in (n + 1)..Len(db)
        PROVE  (a \o tail)[k] = db[k]
    <2>1. k - n \in 1..(Len(db) - n) /\ n + (k - n) = k /\ k \in 1..Len(db) /\ k > n
      BY <1>1
    <2>2. (a \o tail)[k] = tail[k - n]
      BY <1>1, <1>2, <2>1
    <2> QED BY <1>2, <2>1, <2>2
  <1> QED BY <1>3, <1>4 DEF tail

LEMMA PromotionRows ==
  ASSUME IngestInv, Promote, CanPromote
  PROVE  Promoted
  <1>1. Typed /\ run.at = "staged" /\ SamePlan
    BY DEF IngestInv, Promote, CanPromote
  <1>2. /\ run.base = Len(rows) /\ run.base <= Len(run.db)
        /\ \A i \in 1..run.base : SameBut(run.db[i], rows[i])
    BY <1>1 DEF IngestInv, RunFits, StageFits
  <1>3. rows' = Replaced(rows, Previous) \o SubSeq(run.db, run.base + 1, Len(run.db))
    BY DEF Promote
  <1>4. rows \in Seq(Rows) /\ run.db \in Seq(Rows)
    BY <1>1, RunTyped DEF Typed
  <1>5. PICK new \in Seq(Rows) : new = Replaced(rows, Previous)
    BY <1>4, ReplacedTyped
  <1>6. /\ Len(new) = Len(rows)
        /\ \A i \in 1..Len(rows) :
             /\ SameBut(new[i], rows[i])
             /\ i \in Previous => new[i].status = "replaced"
             /\ i \notin Previous => new[i].status = rows[i].status
    BY <1>4, <1>5, ReplacedTyped
  <1>7. PICK db \in Seq(Rows) : db = run.db
    BY <1>4
  <1>8. /\ rows' \in Seq(Rows) /\ Len(rows') = Len(db)
        /\ \A i \in 1..Len(rows) : rows'[i] = new[i]
        /\ \A k \in (Len(rows) + 1)..Len(db) : rows'[k] = db[k]
    <2>1. rows' = new \o SubSeq(db, Len(new) + 1, Len(db)) /\ Len(new) <= Len(db)
      BY <1>2, <1>3, <1>5, <1>6, <1>7
    <2> DEFINE c == new \o SubSeq(db, Len(new) + 1, Len(db))
    <2>2. /\ c \in Seq(Rows) /\ Len(c) = Len(db)
          /\ \A i \in 1..Len(new) : c[i] = new[i]
          /\ \A k \in (Len(new) + 1)..Len(db) : c[k] = db[k]
      BY <2>1, Rejoined
    <2> HIDE DEF c
    <2>3. rows' = c
      BY <2>1 DEF c
    <2> QED BY <1>6, <2>2, <2>3
  <1>9. Standing(rows, Day) = Previous
    BY <1>1, BaselineStanding DEF SamePlan, Previous
  <1>10. Standing(rows, Day) = {i \in 1..Len(rows) : rows[i].day = Day /\ InForce(i)}
    BY <1>1, RowsTyped DEF Standing, InForce
  <1>11. \A i \in 1..Len(rows) :
           /\ SameBut(rows'[i], rows[i])
           /\ i \in Previous => rows'[i].status = "replaced"
           /\ i \notin Previous => rows'[i].status = rows[i].status
    BY <1>6, <1>8 DEF SameBut
  <1>12. PlanOf(Day) = run.plan
    BY <1>1 DEF SamePlan
  <1> QED BY <1>2, <1>7, <1>8, <1>9, <1>10, <1>11, <1>12 DEF Promoted

(* The batches that a repair puts in the place of a day. *)
LEMMA PromotionNew ==
  ASSUME IngestInv, Promoted, run.at = "staged", NEW k \in (Len(rows) + 1)..Len(run.db)
  PROVE  /\ run.db[k].day = Day /\ run.db[k].status \in {"none", "active"}
         /\ run.db[k].sess \in DOMAIN run.plan
         /\ run.db[k].src = run.plan[run.db[k].sess]
         /\ run.db[k].cites \subseteq DOMAIN run.db[k].src
         /\ \A m \in DOMAIN run.db[k].src :
              DayOf[m] = Day /\ SessionOf[m] = run.db[k].sess /\ text[m] = run.db[k].src[m]
         /\ \A j \in (Len(rows) + 1)..Len(run.db) : run.db[j].sess = run.db[k].sess => j = k
  <1>1. Typed /\ PlanFits /\ Day \in Days
    BY WorkTyped DEF IngestInv, RunFits
  <1>2. k \in (run.base + 1)..Len(run.db) /\ run.base = Len(rows)
    BY DEF Promoted
  <1>3. /\ Staged(k)
        /\ \A j \in (run.base + 1)..Len(run.db) : run.db[j].sess = run.db[k].sess => j = k
    BY <1>2 DEF IngestInv, RunFits, StageFits
  <1>4. PICK s : s = run.db[k].sess
    OBVIOUS
  <1>5. s \in DOMAIN run.plan /\ run.db[k].src = run.plan[s]
    BY <1>3, <1>4 DEF Staged
  <1>6. \A m \in DOMAIN run.plan[s] : DayOf[m] = Day /\ SessionOf[m] = s
    BY <1>1, <1>5 DEF PlanFits
  <1>7. \A m \in DOMAIN run.plan[s] : text[m] = run.plan[s][m]
    BY <1>1, <1>5, PlanTyped DEF Promoted
  <1> QED BY <1>2, <1>3, <1>4, <1>5, <1>6, <1>7 DEF Staged

LEMMA PromotionRowsFit ==
  ASSUME IngestInv, Promoted, run.at = "staged"
  PROVE  RowsFit'
  <1> SUFFICES ASSUME NEW i \in 1..Len(run.db)
               PROVE  RowFits(rows'[i])
    BY DEF RowsFit, RowFits, Promoted
  <1>1. Len(rows) \in Nat /\ Len(run.db) \in Nat
    BY RowsTyped, RunTyped DEF IngestInv
  <1>2. CASE i \in 1..Len(rows)
    BY <1>2 DEF IngestInv, RowsFit, RowFits, Promoted, SameBut
  <1>3. CASE i \in (Len(rows) + 1)..Len(run.db)
    <2>1. rows'[i] = run.db[i]
      BY <1>3 DEF Promoted
    <2> QED BY <1>3, <2>1, PromotionNew DEF RowFits
  <1> QED BY <1>1, <1>2, <1>3

LEMMA PromotionVouched ==
  ASSUME IngestInv, Promoted, run.at = "staged", UNCHANGED <<text, owed, missed>>
  PROVE  TrueUnlessMissed'
  <1> SUFFICES ASSUME NEW i \in Live(rows') \ missed'
               PROVE  \/ \E j \in Live(rows) \ missed :
                           rows'[i].src = rows[j].src /\ rows'[i].cites = rows[j].cites
                      \/ \A m \in rows'[i].cites : TrueOrOwed(rows'[i].src, m)
    BY OthersVouched DEF IngestInv
  <1>1. Typed /\ Len(rows) \in Nat /\ Len(run.db) \in Nat /\ DOMAIN rows = 1..Len(rows)
    BY RowsTyped, RunTyped DEF IngestInv
  <1>2. i \in 1..Len(run.db) /\ rows'[i].status = "active"
    BY DEF Live, Promoted
  <1>3. CASE i \in 1..Len(rows)
    <2>1. rows[i].status = "active" /\ SameBut(rows'[i], rows[i])
      BY <1>2, <1>3 DEF Promoted
    <2> QED BY <1>1, <1>3, <2>1 DEF Live, SameBut
  <1>4. CASE i \in (Len(rows) + 1)..Len(run.db)
    <2>1. rows'[i] = run.db[i]
      BY <1>4 DEF Promoted
    <2>2. /\ run.db[i].cites \subseteq DOMAIN run.db[i].src
          /\ \A m \in DOMAIN run.db[i].src : text[m] = run.db[i].src[m]
      BY <1>4, PromotionNew
    <2> QED BY <2>1, <2>2 DEF TrueOrOwed
  <1>5. i \in 1..Len(rows) \/ i \in (Len(rows) + 1)..Len(run.db)
    BY <1>1, <1>2
  <1> QED BY <1>3, <1>4, <1>5

-----------------------------------------------------------------------------
(* The places of a set of numbers: how many members of it come before each *)

Rank(S, j) == Cardinality({k \in S : k < j})

LEMMA RankTyped ==
  ASSUME NEW n \in Nat, NEW S \in SUBSET (1..n)
  PROVE  /\ IsFiniteSet(S) /\ Cardinality(S) \in Nat
         /\ \A j : IsFiniteSet({k \in S : k < j}) /\ Rank(S, j) \in Nat
         /\ \A j \in S : Rank(S, j) < Cardinality(S)
  <1>1. IsFiniteSet(1..n)
    BY FS_Interval
  <1>2. IsFiniteSet(S)
    BY <1>1, FS_Subset
  <1>3. Cardinality(S) \in Nat
    BY <1>2, FS_CardinalityType
  <1>4. ASSUME NEW j
        PROVE  IsFiniteSet({k \in S : k < j}) /\ Rank(S, j) \in Nat
    <2>1. {k \in S : k < j} \in SUBSET S
      OBVIOUS
    <2>2. IsFiniteSet({k \in S : k < j})
      BY <1>2, <2>1, FS_Subset
    <2> QED BY <2>2, FS_CardinalityType DEF Rank
  <1>5. ASSUME NEW j \in S
        PROVE  Rank(S, j) < Cardinality(S)
    <2> DEFINE T == {k \in S : k < j}
    <2>1. T \in SUBSET S /\ j \notin T
      OBVIOUS
    <2>2. Cardinality(T) <= Cardinality(S) /\ (Cardinality(S) = Cardinality(T) => S = T)
      BY <1>2, <2>1, FS_Subset
    <2>3. Cardinality(T) = Rank(S, j)
      BY DEF Rank
    <2> QED BY <1>3, <1>4, <2>1, <2>2, <2>3
  <1> QED BY <1>2, <1>3, <1>4, <1>5

LEMMA RankGrows ==
  ASSUME NEW n \in Nat, NEW S \in SUBSET (1..n), NEW j \in S, NEW k \in S, j < k
  PROVE  Rank(S, j) < Rank(S, k)
  <1> DEFINE T == {i \in S : i < j}
             U == {i \in S : i < k}
  <1>0. \A i \in S : i \in Nat
    OBVIOUS
  <1>1. T \in SUBSET U /\ j \in U /\ j \notin T
    <2>1. \A i \in S : i < j => i < k
      BY <1>0
    <2>2. j \in U
      OBVIOUS
    <2>3. j \notin T
      BY <1>0
    <2> QED BY <2>1, <2>2, <2>3
  <1>2. IsFiniteSet(U) /\ Cardinality(U) = Rank(S, k) /\ Cardinality(T) = Rank(S, j)
    BY RankTyped DEF Rank
  <1>3. Cardinality(T) <= Cardinality(U) /\ (Cardinality(U) = Cardinality(T) => U = T)
    BY <1>1, <1>2, FS_Subset
  <1>4. Rank(S, j) \in Nat /\ Rank(S, k) \in Nat
    BY RankTyped
  <1> QED BY <1>1, <1>2, <1>3, <1>4

LEMMA NthMember ==
  ASSUME NEW n \in Nat, NEW S \in SUBSET (1..n), NEW m \in 1..Cardinality(S)
  PROVE  Nth(S, m) \in S /\ Rank(S, Nth(S, m)) = m - 1
  <1> DEFINE N == Cardinality(S)
             T == 0..(N - 1)
             f == [j \in S |-> Rank(S, j)]
  <1>1. IsFiniteSet(S) /\ N \in Nat /\ \A j \in S : Rank(S, j) \in Nat /\ Rank(S, j) < N
    BY RankTyped
  <1>2. f \in [S -> T]
    BY <1>1
  <1>3. ASSUME NEW j \in S, NEW k \in S, f[j] = f[k]
        PROVE  j = k
    <2>1. Rank(S, j) = Rank(S, k) /\ Rank(S, j) \in Nat /\ j \in Nat /\ k \in Nat
      BY <1>1, <1>3
    <2>2. ~(j < k)
      <3> SUFFICES ASSUME j < k PROVE FALSE
        OBVIOUS
      <3>1. Rank(S, j) < Rank(S, k)
        BY RankGrows
      <3> QED BY <2>1, <3>1
    <2>3. ~(k < j)
      <3> SUFFICES ASSUME k < j PROVE FALSE
        OBVIOUS
      <3>1. Rank(S, k) < Rank(S, j)
        BY RankGrows
      <3> QED BY <2>1, <3>1
    <2> QED BY <2>1, <2>2, <2>3
  <1>4. f \in Injection(S, T)
    <2>1. DOMAIN f = S
      OBVIOUS
    <2> HIDE DEF f, T
    <2>2. IsInjective(f)
      BY <1>3, <2>1 DEF IsInjective
    <2> QED BY <1>2, <2>2 DEF Injection
  <1>5. IsFiniteSet(T) /\ Cardinality(T) = N
    <2> HIDE DEF N
    <2>1. 0 \in Int /\ N - 1 \in Int /\ N \in Nat
      BY <1>1
    <2>2. /\ IsFiniteSet(0..(N - 1))
          /\ Cardinality(0..(N - 1)) = IF 0 > N - 1 THEN 0 ELSE (N - 1) - 0 + 1
      BY <2>1, FS_Interval
    <2> QED BY <2>1, <2>2
  <1>6. f \in Surjection(S, T)
    BY <1>4, <1>5, FS_Injection
  <1>7. m - 1 \in T
    BY <1>1
  <1>8. \E j \in S : f[j] = m - 1
    BY <1>6, <1>7 DEF Surjection
  <1>9. \E j \in S : Cardinality({k \in S : k < j}) = m - 1
    BY <1>8 DEF Rank
  <1> QED BY <1>9 DEF Nth, Rank

LEMMA NthGrows ==
  ASSUME NEW n \in Nat, NEW S \in SUBSET (1..n),
         NEW j \in 1..Cardinality(S), NEW k \in 1..Cardinality(S), j < k
  PROVE  Nth(S, j) < Nth(S, k)
  <1>1. /\ Nth(S, j) \in S /\ Nth(S, k) \in S
        /\ Rank(S, Nth(S, j)) = j - 1 /\ Rank(S, Nth(S, k)) = k - 1
    BY NthMember
  <1>2. PICK x \in S, y \in S : x = Nth(S, j) /\ y = Nth(S, k)
    BY <1>1
  <1>3. ~(y < x)
    <2> SUFFICES ASSUME y < x PROVE FALSE
      OBVIOUS
    <2>1. Rank(S, y) < Rank(S, x)
      BY RankGrows
    <2> QED BY <1>1, <1>2, <2>1, RankTyped
  <1>4. x # y
    BY <1>1, <1>2, RankTyped
  <1> QED BY <1>2, <1>3, <1>4

-----------------------------------------------------------------------------
(* The promotion of a repair: the threads *)

(* An event that is replaced has at most one heir: an event is made of one session. *)
LEMMA OneHeir ==
  ASSUME IngestInv, Promoted, run.at = "staged", NEW i \in Previous,
         NEW x \in Heirs(run.db, run.base, i)
  PROVE  /\ x \in (Len(rows) + 1)..Len(run.db) /\ run.db[x].status = "active"
         /\ run.db[x].sess = rows[i].sess /\ run.db[x].day = rows[i].day
  <1>1. /\ Typed /\ Len(rows) \in Nat /\ Len(run.db) \in Nat /\ run.base = Len(rows)
        /\ DOMAIN run.db = 1..Len(run.db)
    BY RowsTyped, RunTyped DEF IngestInv, Promoted
  <1>2. x \in (Len(rows) + 1)..Len(run.db) /\ run.db[x].status = "active"
    BY <1>1 DEF Heirs, New
  <1>3. i \in 1..Len(rows) /\ rows[i].day = Day
    BY DEF Promoted
  <1>4. PICK m \in run.db[x].cites : m \in run.db[i].cites
    BY DEF Heirs
  <1>5. SameBut(run.db[i], rows[i])
    BY <1>1, <1>3 DEF IngestInv, RunFits, StageFits
  <1>6. SessionOf[m] = rows[i].sess
    BY <1>3, <1>4, <1>5 DEF IngestInv, RowsFit, RowFits, SameBut
  <1>7. SessionOf[m] = run.db[x].sess /\ run.db[x].day = Day
    BY <1>2, <1>4, PromotionNew
  <1> QED BY <1>2, <1>3, <1>6, <1>7

(* What a member of a thread gives way to. *)
LEMMA FollowOne ==
  ASSUME IngestInv, Promoted, run.at = "staged", NEW i \in 1..Len(rows), InForce(i),
         NEW x \in Follow(run.db, run.base, Previous, i)
  PROVE  /\ Follow(run.db, run.base, Previous, i) = {x}
         /\ x \in 1..Len(run.db) /\ rows'[x].day = rows[i].day
         /\ rows'[x].status \in {"active", "invalid"}
  <1>1. Typed /\ Len(rows) \in Nat /\ Len(run.db) \in Nat /\ Len(rows) <= Len(run.db)
    BY RowsTyped, RunTyped DEF IngestInv, Promoted
  <1>2. CASE i \in Previous
    <2>1. Follow(run.db, run.base, Previous, i) = Heirs(run.db, run.base, i)
      BY <1>2 DEF Follow
    <2>2. /\ x \in (Len(rows) + 1)..Len(run.db) /\ run.db[x].status = "active"
          /\ run.db[x].sess = rows[i].sess /\ run.db[x].day = rows[i].day
      BY <1>2, <2>1, OneHeir
    <2>3. ASSUME NEW y \in Heirs(run.db, run.base, i)
          PROVE  y = x
      <3>1. y \in (Len(rows) + 1)..Len(run.db) /\ run.db[y].sess = rows[i].sess
        BY <1>2, OneHeir
      <3> QED BY <2>2, <3>1, PromotionNew
    <2>4. rows'[x] = run.db[x]
      BY <2>2 DEF Promoted
    <2> QED BY <1>1, <2>1, <2>2, <2>3, <2>4
  <1>3. CASE i \notin Previous
    <2>1. Follow(run.db, run.base, Previous, i) = {i} \cap Live(run.db)
      BY <1>3 DEF Follow
    <2>2. x = i
      BY <2>1
    <2>3. rows'[i].day = rows[i].day /\ rows'[i].status = rows[i].status
      BY <1>3 DEF Promoted, SameBut
    <2> QED BY <1>1, <2>1, <2>2, <2>3 DEF InForce
  <1> QED BY <1>2, <1>3

LEMMA ProjectFollows ==
  ASSUME IngestInv, Promoted, run.at = "staged", NEW t \in threads,
         Len(Project(run.db, run.base, Previous, t)) >= 2
  PROVE  /\ Project(run.db, run.base, Previous, t) \in Seq(1..Len(rows'))
         /\ Followed(rows', Project(run.db, run.base, Previous, t))
  <1> DEFINE next == [j \in DOMAIN t |-> Follow(run.db, run.base, Previous, t[j])]
             places == {j \in DOMAIN t : next[j] # {} /\ \A k \in 1..(j - 1) : next[k] # next[j]}
             C == Cardinality(places)
             p == [n \in 1..C |-> CHOOSE i \in next[Nth(places, n)] : TRUE]
  <1>1. p = Project(run.db, run.base, Previous, t)
    BY DEF Project
  <1>2. /\ Typed /\ Len(t) \in Nat /\ DOMAIN t = 1..Len(t)
        /\ \A j \in DOMAIN t : t[j] \in 1..Len(rows)
    BY ThreadTyped DEF IngestInv
  <1>3. Followed(rows, t)
    BY ThreadsFollowed DEF IngestInv
  <1>4. \A j \in DOMAIN t : InForce(t[j])
    <2>1. \A j \in DOMAIN t : t[j] \in ToSet(t)
      BY DEF ToSet
    <2> QED BY <1>3, <2>1 DEF Followed, InForce
  <1>5. ASSUME NEW j \in DOMAIN t, NEW x \in next[j]
        PROVE  /\ next[j] = {x} /\ x \in 1..Len(run.db) /\ rows'[x].day = rows[t[j]].day
               /\ rows'[x].status \in {"active", "invalid"}
    <2>1. next[j] = Follow(run.db, run.base, Previous, t[j])
      OBVIOUS
    <2>2. t[j] \in 1..Len(rows) /\ InForce(t[j])
      BY <1>2, <1>4
    <2> HIDE DEF next
    <2> QED BY <1>5, <2>1, <2>2, FollowOne
  <1> HIDE DEF next
  <1>6. places \in SUBSET (1..Len(t)) /\ \A j \in places : next[j] # {}
    BY <1>2
  <1>7. \A j, k \in places : j < k => next[j] # next[k]
    <2> SUFFICES ASSUME NEW j \in places, NEW k \in places, j < k
                 PROVE  next[j] # next[k]
      OBVIOUS
    <2>1. j \in 1..(k - 1)
      BY <1>2, <1>6
    <2> QED BY <2>1
  <1> HIDE DEF places
  <1>8. C \in Nat
    BY <1>2, <1>6, RankTyped
  <1>9. \A n \in 1..C : Nth(places, n) \in places
    BY <1>2, <1>6, NthMember
  <1>10. \A n, m \in 1..C : n < m => Nth(places, n) < Nth(places, m)
    BY <1>2, <1>6, NthGrows
  <1>11. ASSUME NEW n \in 1..C
         PROVE  /\ p[n] \in 1..Len(run.db) /\ next[Nth(places, n)] = {p[n]}
                /\ rows'[p[n]].day = rows[t[Nth(places, n)]].day
                /\ rows'[p[n]].status \in {"active", "invalid"}
    <2>1. Nth(places, n) \in places /\ Nth(places, n) \in DOMAIN t
      BY <1>2, <1>6, <1>9
    <2>2. p[n] \in next[Nth(places, n)]
      BY <1>6, <2>1
    <2> HIDE DEF p
    <2> QED BY <1>5, <2>1, <2>2
  <1>12. DOMAIN p = 1..C
    OBVIOUS
  <1>13. p \in Seq(1..Len(run.db)) /\ Len(p) = C
    BY <1>8, <1>11
  <1> HIDE DEF p
  <1>14. ASSUME NEW n \in 1..C, NEW m \in 1..C, n < m
         PROVE  p[n] # p[m] /\ rows'[p[n]].day <= rows'[p[m]].day
    <2>1. PICK j \in places, k \in places : j = Nth(places, n) /\ k = Nth(places, m)
      BY <1>9
    <2>2. j < k /\ j \in DOMAIN t /\ k \in DOMAIN t
      BY <1>2, <1>6, <1>10, <1>14, <2>1
    <2>3. next[j] = {p[n]} /\ next[k] = {p[m]} /\ next[j] # next[k]
      BY <1>7, <1>11, <2>1, <2>2
    <2>4. rows[t[j]].day <= rows[t[k]].day
      BY <1>3, <2>2 DEF Followed
    <2>5. rows'[p[n]].day = rows[t[j]].day /\ rows'[p[m]].day = rows[t[k]].day
      BY <1>11, <2>1
    <2> QED BY <2>3, <2>4, <2>5
  <1>15. \A i \in ToSet(p) : rows'[i].status \in {"active", "invalid"}
    BY <1>11, <1>12 DEF ToSet
  <1>16. Len(p) >= 2
    BY <1>1
  <1>17. Followed(rows', p)
    BY <1>12, <1>14, <1>15, <1>16 DEF Followed
  <1> QED BY <1>1, <1>13, <1>17 DEF Promoted

LEMMA PromotionThreads ==
  ASSUME IngestInv, Promoted, run.at = "staged",
         threads' = (threads \ Affected(Previous)) \cup NewThreads
  PROVE  threads' \subseteq Seq(1..Len(rows')) /\ ThreadsFollow'
  <1> SUFFICES ASSUME NEW p \in threads'
               PROVE  p \in Seq(1..Len(rows')) /\ Followed(rows', p)
    BY DEF ThreadsFollow, Followed
  <1>1. Typed /\ Len(rows) \in Nat /\ Len(rows') \in Nat /\ Len(rows) <= Len(rows')
    BY RowsTyped, RunTyped DEF IngestInv, Promoted
  <1>2. CASE p \in threads \ Affected(Previous)
    <2>1. /\ p \in Seq(Nat) /\ Len(p) \in Nat /\ DOMAIN p = 1..Len(p)
          /\ \A j \in DOMAIN p : p[j] \in 1..Len(rows)
      BY <1>1, <1>2, ThreadTyped
    <2>2. \A j \in DOMAIN p : p[j] \in 1..Len(rows')
      BY <1>1, <2>1
    <2>3. p \in Seq(1..Len(rows'))
      BY <2>1, <2>2
    <2>4. Followed(rows, p) /\ ToSet(p) \cap Previous = {}
      BY <1>2, ThreadsFollowed DEF IngestInv, Affected
    <2>5. \A j \in DOMAIN p : p[j] \in ToSet(p)
      BY DEF ToSet
    <2>6. \A j \in DOMAIN p : rows'[p[j]].day = rows[p[j]].day
      BY <2>1 DEF Promoted, SameBut
    <2>7. \A i \in ToSet(p) : i \in 1..Len(rows)
      BY <2>1 DEF ToSet
    <2>8. \A i \in ToSet(p) : rows'[i].status = rows[i].status
      BY <2>4, <2>7 DEF Promoted
    <2> QED BY <2>3, <2>4, <2>6, <2>8 DEF Followed
  <1>3. CASE p \in NewThreads
    <2>1. PICK t \in threads : p = Project(run.db, run.base, Previous, t)
      BY <1>3 DEF NewThreads, Projections, Affected
    <2>2. Len(p) >= 2
      BY <1>3 DEF NewThreads, Projections
    <2> QED BY <2>1, <2>2, ProjectFollows
  <1> QED BY <1>2, <1>3

LEMMA PromoteStep ==
  ASSUME IngestInv, Promote
  PROVE  IngestInv'
  <1>1. /\ UNCHANGED <<text, settled, owed, told, replays, failures, missed>> /\ run.at = "staged"
        /\ Typed /\ WorkFits
    BY DEF Promote, IngestInv, RunFits
  <1>2. CASE ~CanPromote
    <2>1. Fails /\ UNCHANGED <<rows, threads>>
      BY <1>2 DEF Promote
    <2> QED BY <1>1, <2>1, FailsFits, RunStep DEF Typed
  <1>3. CASE CanPromote
    <2>1. Promoted
      BY <1>3, PromotionRows
    <2>2. DayDone /\ threads' = (threads \ Affected(Previous)) \cup NewThreads
      BY <1>3 DEF Promote
    <2>3. run' \in Runs /\ RunFits'
      BY <1>1, <2>2, DayDoneFits
    <2>4. threads' \subseteq Seq(1..Len(rows')) /\ ThreadsFollow'
      BY <1>1, <2>1, <2>2, PromotionThreads
    <2>5. Typed'
      BY <1>1, <2>1, <2>3, <2>4 DEF Typed, Promoted
    <2>6. GoneFits'
      BY <1>1 DEF IngestInv, GoneFits
    <2>7. RowsFit' /\ TrueUnlessMissed'
      BY <1>1, <2>1, PromotionRowsFit, PromotionVouched
    <2> QED BY <2>3, <2>4, <2>5, <2>6, <2>7 DEF IngestInv
  <1> QED BY <1>2, <1>3

-----------------------------------------------------------------------------
(* The theorems *)

LEMMA InitFits == Init => IngestInv
  <1> SUFFICES ASSUME Init
               PROVE  IngestInv
    OBVIOUS
  <1>1. /\ rows = <<>> /\ threads = {} /\ settled = {} /\ owed = {} /\ told = {}
        /\ missed = {}
    BY DEF Init, StoreInit
  <1>2. run = Idle /\ replays = 0 /\ failures = 0 /\ text = [m \in Messages |-> 1]
    BY DEF Init, StoreInit
  <1>3. Typed
    BY <1>1, <1>2, IdleTyped, IngestAssumption DEF Typed
  <1>4. RunFits
    BY <1>2 DEF RunFits, WorkFits, PlanFits, StoringFits, StageFits, OfferFits, Idle
  <1>5. RowsFit /\ GoneFits /\ ThreadsFollow /\ TrueUnlessMissed
    BY <1>1 DEF RowsFit, GoneFits, ThreadsFollow, TrueUnlessMissed, Live
  <1> QED BY <1>3, <1>4, <1>5 DEF IngestInv

LEMMA ProgressStep ==
  ASSUME IngestInv, Progress
  PROVE  IngestInv'
  BY StartRunStep, TakeDayStep, LoadBatchStep, AssembleStep, CheckSourcesStep,
     StoreBatchStep, StageBatchStep,
     CommitDayStep, CommitRefusedStep, TakeRepairStep, FinishStageStep, PromoteStep
     DEF Progress

LEMMA StutterStep ==
  ASSUME IngestInv, UNCHANGED vars
  PROVE  IngestInv'
  <1>1. UNCHANGED <<text, rows, threads, settled, owed, told, replays, failures, run, missed>>
    BY DEF vars
  <1>2. Outdates /\ Typed /\ RunFits
    BY <1>1, Unchanged DEF IngestInv
  <1>3. RunFits'
    BY <1>1, <1>2, SameRunIs, StoringStays, OutdatesRun
  <1> QED BY <1>1, <1>2, <1>3, RunStep DEF Typed

(* The rows, the threads, the changes and the run under way fit each other in every
   state: what each event cites is what was said in its session, a stage is a copy of
   the store with one batch of each session encoded, and a deleted message is gone. *)
THEOREM IngestInvariant == Spec => []IngestInv
  <1>1. Init => IngestInv
    BY InitFits
  <1>2. IngestInv /\ [Next]_vars => IngestInv'
    BY PeopleStep, ProgressStep, FaultStep, StutterStep DEF Next
  <1> QED BY <1>1, <1>2, PTL DEF Spec

(* The types of the databases and of the run hold, whatever is changed and told. *)
THEOREM TypeCorrect == Spec => []TypeOK
  <1>1. IngestInv => TypeOK
    <2> SUFFICES ASSUME IngestInv
                 PROVE  TypeOK
      OBVIOUS
    <2>1. Typed /\ run \in Runs /\ run.left \subseteq DOMAIN run.plan
      BY DEF IngestInv, Typed, RunFits, PlanFits
    <2>2. ASSUME NEW i \in DOMAIN rows
          PROVE  /\ rows[i].day \in Days /\ rows[i].sess \in Sessions
                 /\ rows[i].base \in BOOLEAN /\ rows[i].status \in Statuses
                 /\ rows[i].cites \subseteq DOMAIN rows[i].src
                 /\ DOMAIN rows[i].src \subseteq Messages
      <3>1. i \in 1..Len(rows) /\ rows[i] \in Rows
        BY <2>1, RowsTyped
      <3>2. RowFits(rows[i])
        BY <3>1 DEF IngestInv, RowsFit
      <3>3. rows[i].src \in Sources
        BY <3>1 DEF Rows
      <3>4. DOMAIN rows[i].src \subseteq Messages
        BY <3>3, SourceTyped
      <3> QED BY <3>1, <3>2, <3>4 DEF Rows, RowFits
    <2>3. \A t \in threads : ToSet(t) \subseteq DOMAIN rows
      BY <2>1, ThreadTyped, RowsTyped DEF ToSet
    <2>4. StoreTypeOK
      BY <2>1, <2>2, <2>3 DEF StoreTypeOK, Typed
    <2>5. replays + failures \in 0..MaxFaults
      BY <2>1, IngestAssumption DEF Typed
    <2>6. /\ run.at \in {"idle", "between", "encoding", "storing", "settling", "staging",
                       "staged"}
          /\ run.cites \subseteq Messages /\ run.late \in BOOLEAN
      BY <2>1 DEF Runs
    <2>7. missed \subseteq DOMAIN rows
      BY <2>1, RowsTyped DEF Typed
    <2> QED BY <2>1, <2>4, <2>5, <2>6, <2>7 DEF TypeOK, Typed
  <1> QED BY <1>1, IngestInvariant, PTL

(* Whatever is encoded, repaired, told and replayed in which order, an active event
   cites only what the conversation still says, what Memory V2 is yet to be told of,
   or a deleted message with an identical twin that it cites as well: any event but one
   whose change Memory V2 was told of between commit_encoding's last look at the
   conversation and its transaction. *)
THEOREM TrueUnlessMissedHolds == Spec => []TrueUnlessMissed
  BY IngestInvariant, PTL DEF IngestInv

(* An active thread links two or more different events in the order of their days,
   and never one that was replaced, however often its days are repaired. *)
THEOREM ThreadsFollowHolds == Spec => []ThreadsFollow
  BY IngestInvariant, PTL DEF IngestInv

LEMMA OnlyRepairReplaces ==
  ASSUME IngestInv, [Next]_vars, NEW i \in DOMAIN rows,
         rows[i].status # "replaced", rows'[i].status = "replaced"
  PROVE  Promote /\ CanPromote
  <1>1. Typed /\ i \in 1..Len(rows) /\ Len(rows) \in Nat
    BY RowsTyped DEF IngestInv
  <1>2. ASSUME Outdates PROVE FALSE
    BY <1>1, <1>2 DEF Outdates
  <1>3. ASSUME UNCHANGED rows PROVE FALSE
    BY <1>1, <1>2, <1>3, Unchanged
  <1>4. ASSUME People PROVE FALSE
    <2>1. ASSUME NEW change, Reconcile(change) \/ Replay(change)
          PROVE  FALSE
      BY <1>1, <1>2, <2>1, InvalidatedOutdates DEF Reconcile, Replay
    <2> QED BY <1>3, <1>4, <2>1 DEF People, Edit, Delete
  <1>5. ASSUME StoreBatch PROVE FALSE
    <2>1. PICK r : rows' = Append(rows, r)
      BY <1>5 DEF StoreBatch
    <2>2. rows \in Seq(Rows)
      BY <1>1 DEF Typed
    <2>3. rows'[i] = rows[i]
      BY <1>1, <2>1, <2>2
    <2> QED BY <2>3
  <1>6. ASSUME Progress, ~(Promote /\ CanPromote) PROVE FALSE
    BY <1>3, <1>5, <1>6 DEF Progress, StartRun, TakeDay, LoadBatch, Assemble, CheckSources,
       StageBatch,
       CommitDay, CommitRefused, TakeRepair, FinishStage, Promote
  <1>7. ASSUME ModelFails \/ Dies \/ UNCHANGED vars PROVE FALSE
    BY <1>3, <1>7 DEF ModelFails, Dies, vars
  <1> QED BY <1>4, <1>6, <1>7 DEF Next

LEMMA PromotionWhole ==
  ASSUME IngestInv, Promoted, run.at = "staged"
  PROVE  /\ \A i \in LiveOf(rows', Day) : rows'[i].src = PlanOf(Day)[rows'[i].sess]
         /\ \A i, j \in LiveOf(rows', Day) : i # j => rows'[i].sess # rows'[j].sess
         /\ \A i \in DOMAIN rows' : rows'[i].day = Day => rows'[i].status # "invalid"
  <1>1. /\ Typed /\ Len(rows) \in Nat /\ Len(run.db) \in Nat
        /\ DOMAIN rows' = 1..Len(run.db)
    BY RowsTyped, RunTyped DEF IngestInv, Promoted
  <1>2. ASSUME NEW i \in 1..Len(rows), rows'[i].day = Day
        PROVE  rows'[i].status \notin {"active", "invalid"}
    <2>1. rows[i].day = Day
      BY <1>2 DEF Promoted, SameBut
    <2>2. CASE i \in Previous
      BY <2>2 DEF Promoted
    <2>3. CASE i \notin Previous
      BY <2>1, <2>3 DEF Promoted, InForce
    <2> QED BY <2>2, <2>3
  <1>3. ASSUME NEW i \in (Len(rows) + 1)..Len(run.db)
        PROVE  /\ rows'[i] = run.db[i] /\ rows'[i].status \in {"none", "active"}
               /\ rows'[i].src = PlanOf(Day)[rows'[i].sess]
               /\ \A j \in (Len(rows) + 1)..Len(run.db) :
                    rows'[j].sess = rows'[i].sess => j = i
    BY PromotionNew DEF Promoted
  <1>4. \A i \in LiveOf(rows', Day) : i \in (Len(rows) + 1)..Len(run.db)
    <2> TAKE i \in LiveOf(rows', Day)
    <2>1. i \in 1..Len(run.db) /\ rows'[i].status = "active" /\ rows'[i].day = Day
      BY <1>1 DEF LiveOf, Live
    <2> QED BY <1>1, <1>2, <2>1
  <1>5. \A i \in 1..Len(run.db) : rows'[i].day = Day => rows'[i].status # "invalid"
    <2> TAKE i \in 1..Len(run.db)
    <2>1. CASE i \in 1..Len(rows)
      BY <1>2, <2>1
    <2>2. CASE i \in (Len(rows) + 1)..Len(run.db)
      BY <1>3, <2>2
    <2> QED BY <1>1, <2>1, <2>2
  <1> QED BY <1>1, <1>3, <1>4, <1>5

(* A repair replaces the whole day: in the step that replaces an event of a day, each
   session of it has at most one event in force, made of what the session says then,
   and no outdated event of the day is left. *)
THEOREM RepairedWholeHolds == Spec => RepairedWhole
  <1> DEFINE Whole(d) ==
        (\E i \in DOMAIN rows : /\ rows[i].day = d /\ rows[i].status # "replaced"
                                /\ rows'[i].status = "replaced")
        => /\ \A i \in LiveOf(rows', d) : rows'[i].src = PlanOf(d)[rows'[i].sess]
           /\ \A i, j \in LiveOf(rows', d) : i # j => rows'[i].sess # rows'[j].sess
           /\ \A i \in DOMAIN rows' : rows'[i].day = d => rows'[i].status # "invalid"
  <1>1. IngestInv /\ [Next]_vars => [\A d \in Days : Whole(d)]_vars
    <2> SUFFICES ASSUME IngestInv, [Next]_vars, NEW d \in Days, NEW i \in DOMAIN rows,
                        rows[i].day = d, rows[i].status # "replaced",
                        rows'[i].status = "replaced"
                 PROVE  /\ \A k \in LiveOf(rows', d) : rows'[k].src = PlanOf(d)[rows'[k].sess]
                        /\ \A j, k \in LiveOf(rows', d) : j # k => rows'[j].sess # rows'[k].sess
                        /\ \A k \in DOMAIN rows' : rows'[k].day = d => rows'[k].status # "invalid"
      OBVIOUS
    <2>1. Promote /\ CanPromote
      BY OnlyRepairReplaces
    <2>2. Promoted /\ run.at = "staged"
      BY <2>1, PromotionRows DEF Promote
    <2>3. i \in 1..Len(rows)
      BY RowsTyped DEF IngestInv
    <2>4. i \in Previous
      BY <2>2, <2>3 DEF Promoted
    <2>5. d = Day
      BY <2>2, <2>4 DEF Promoted
    <2> QED BY <2>2, <2>5, PromotionWhole
  <1>2. [][Next]_vars /\ []IngestInv => RepairedWhole
    BY <1>1, PTL DEF RepairedWhole
  <1> QED BY <1>2, IngestInvariant, PTL DEF Spec
=============================================================================
