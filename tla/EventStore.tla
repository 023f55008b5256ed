------------------------------ MODULE EventStore ------------------------------
(***************************************************************************)
(* Memory V2 as the online ingest and the repair of a day use it: the        *)
(* conversation (the authority, a database of its own), the immutable        *)
(* batches with their events and the latest status of each event, the        *)
(* continuity threads and the days that have a settlement receipt.           *)
(*                                                                          *)
(* A batch is what one session said on one day, and has at most one event.   *)
(* The sessions of a day follow one another, so that a thread keeps its      *)
(* order when its events are replaced.  An event and a thread are named by   *)
(* their content: an event by its place among the rows.                      *)
(***************************************************************************)
EXTENDS Integers, Sequences, SequencesExt

CONSTANTS
  MaxMessage,  \* bound: the messages there ever were, in the order of their rows
  DayOf,       \* the active day of a message
  SessionOf,   \* its session
  Twins        \* messages that were stored twice: the sets of those with one fingerprint

Messages == 1..MaxMessage
Days == {DayOf[m] : m \in Messages}
Sessions == {SessionOf[m] : m \in Messages}

ASSUME StoreAssumption ==
  /\ MaxMessage \in Nat
  /\ DayOf \in [Messages -> Nat] /\ SessionOf \in [Messages -> Nat]
  /\ Twins \subseteq SUBSET Messages
  /\ \A T, U \in Twins : T = U \/ T \cap U = {}

VARIABLES
  text,      \* conversation_messages: the version of each message, 0 once gone
  rows,      \* encoding_batches with its event, in the order of their commits
  threads,   \* the members of each active event_thread
  settled    \* the days with a row in day_settlements

storeVars == <<text, rows, threads, settled>>

-----------------------------------------------------------------------------
(* The conversation, and the plan of a day made from it *)

(* ReplayPlanner.plan_active_date: the source of each session of the day. *)
Said(d, s) == {m \in Messages : DayOf[m] = d /\ SessionOf[m] = s /\ text[m] # 0}
PlanOf(d) ==
  [s \in {x \in Sessions : Said(d, x) # {}} |-> [m \in Said(d, s) |-> text[m]]]

(* validate_batch_sources, validate_refs: the rows still say what was read. *)
Fresh(src) == \A m \in DOMAIN src : text[m] = src[m]

(* list_active_dates *)
SpokenDays == {DayOf[m] : m \in {x \in Messages : text[x] # 0}}

-----------------------------------------------------------------------------
(* Batches and events *)

Statuses == {"none", "active", "invalid", "replaced"}

Row(d, s, src, cites, base) ==
  [day |-> d, sess |-> s, base |-> base, src |-> src, cites |-> cites,
   status |-> IF cites = {} THEN "none" ELSE "active"]

Live(db) == {i \in DOMAIN db : db[i].status = "active"}
LiveOf(db, d) == {i \in Live(db) : db[i].day = d}

(* resolve_batch_id: the ends of a batch name it, and its encoder version. *)
Ends(src) == {m \in DOMAIN src : \/ \A n \in DOMAIN src : m <= n
                                 \/ \A n \in DOMAIN src : m >= n}
Stored(src) ==
  {i \in DOMAIN rows : rows[i].base /\ Ends(rows[i].src) = Ends(src)}

(* load_completed_events: the batch was encoded, from these very sources. *)
Cached(src) == Fresh(src) /\ \E i \in Stored(src) : rows[i].src = src

(* list_pending_source_rebuild_dates *)
PendingDays == {rows[i].day : i \in {j \in DOMAIN rows : rows[j].status = "invalid"}}

(* DayRepairPlanner._load_baseline; db is the production store or a stage. *)
Standing(db, d) ==
  {i \in DOMAIN db : db[i].day = d /\ db[i].status \in {"active", "invalid"}}
Baseline(db, d) == {<<i, db[i].status>> : i \in Standing(db, d)}

(* current_day_source_digest: the batches of a day and the status of its events *)
Lineage(d) == {<<i, rows[i].status>> : i \in {j \in DOMAIN rows : rows[j].day = d}}

-----------------------------------------------------------------------------
(* invalidate_events_by_source_message_ids *)

(* source_fingerprint, as the batch recorded it *)
Identical(src, m, n) == \E T \in Twins : {m, n} \subseteq T /\ src[m] = 1 /\ src[n] = 1

(* An exact twin that the event cites survives every deleted source of it. *)
Preserved(row, mutation) ==
  /\ mutation.kind = "deleted"
  /\ \A m \in row.cites \cap mutation.of :
       \E n \in row.cites \ mutation.of : text[n] # 0 /\ Identical(row.src, m, n)

Invalidated(mutation) ==
  [i \in DOMAIN rows |->
     IF /\ rows[i].status = "active"
        /\ rows[i].cites \cap mutation.of # {}
        /\ ~Preserved(rows[i], mutation)
     THEN [rows[i] EXCEPT !.status = "invalid"]
     ELSE rows[i]]

-----------------------------------------------------------------------------
(* The settlement of a day *)

(* A continuation the plan offers: thread is <<>> within the day. *)
Offer(t, i, j) == [thread |-> t, from |-> i, to |-> j]
NoOffer == Offer(<<>>, 0, 0)

(* _load_prior_thread_rows: the places of a thread before the day, and its end then,
   which must be active. *)
Before(t, d) == {j \in DOMAIN t : rows[t[j]].day < d}
EndBefore(t, d) == t[Max(Before(t, d))]
Eligible(d) ==
  {t \in threads : Before(t, d) # {} /\ rows[EndBefore(t, d)].status = "active"}

(* DaySettlementPlanAssembler.assemble: what may be continued by an event of d *)
Offers(d) ==
  LET day == LiveOf(rows, d) IN
  {NoOffer} \cup
  {Offer(<<>>, p[1], p[2]) : p \in {q \in day \X day :
      \/ rows[q[1]].sess < rows[q[2]].sess
      \/ rows[q[1]].sess = rows[q[2]].sess /\ q[1] < q[2]}} \cup
  {Offer(p[1], EndBefore(p[1], d), p[2]) : p \in Eligible(d) \X day}

(* _validate_day_candidates: the thread still ends where the plan left it. *)
TailHolds(offer) == offer.thread # <<>> => Last(offer.thread) = offer.from

(* _append_continuation *)
Membership(i) == {t \in threads : i \in ToSet(t)}
CanAppend(offer) ==
  /\ Membership(offer.to) = {}
  /\ \/ Membership(offer.from) = {}
     \/ \E t \in threads : Membership(offer.from) = {t} /\ Last(t) = offer.from
Appended(offer) ==
  (threads \ Membership(offer.from)) \cup
  IF Membership(offer.from) = {} THEN {<<offer.from, offer.to>>}
  ELSE {Append(t, offer.to) : t \in Membership(offer.from)}

-----------------------------------------------------------------------------
(* The repair of a day: db is its stage, base the number of rows it began with *)

New(db, base) == {k \in DOMAIN db : k > base /\ db[k].status = "active"}

(* _map_events: the one new event that shares a source. *)
Heirs(db, base, i) == {k \in New(db, base) : db[k].cites \cap db[i].cites # {}}

(* Mutant: a replaced member that no new event shares a source with stays. *)
FollowKept(db, base, previous, i) ==
  IF i \in previous /\ Heirs(db, base, i) # {} THEN Heirs(db, base, i) ELSE {i} \cap Live(db)

(* What a member of a thread gives way to: a replaced one to its heir, if it has one,
   and any other to itself, if it is active. *)
Follow(db, base, previous, i) ==
  IF i \in previous THEN Heirs(db, base, i) ELSE {i} \cap Live(db)

Nth(S, n) == CHOOSE j \in S : Cardinality({k \in S : k < j}) = n - 1

(* _thread_projections: what the members give way to, in their order, each once. *)
Project(db, base, previous, t) ==
  LET next == [j \in DOMAIN t |-> Follow(db, base, previous, t[j])]
      places == {j \in DOMAIN t : next[j] # {} /\ \A k \in 1..(j - 1) : next[k] # next[j]}
  IN  [n \in 1..Cardinality(places) |-> CHOOSE i \in next[Nth(places, n)] : TRUE]

Affected(previous) == {t \in threads : ToSet(t) \cap previous # {}}
Projections(db, base, previous) ==
  {p \in {Project(db, base, previous, t) : t \in Affected(previous)} : Len(p) >= 2}

(* _apply_event_replacements *)
Replaced(db, previous) ==
  [i \in DOMAIN db |->
     IF i \in previous THEN [db[i] EXCEPT !.status = "replaced"] ELSE db[i]]

StoreInit ==
  /\ text = [m \in Messages |-> 1]
  /\ rows = <<>>
  /\ threads = {}
  /\ settled = {}

StoreTypeOK ==
  /\ text \in [Messages -> Nat]
  /\ \A i \in DOMAIN rows :
       /\ rows[i].day \in Days /\ rows[i].sess \in Sessions
       /\ rows[i].base \in BOOLEAN /\ rows[i].status \in Statuses
       /\ rows[i].cites \subseteq DOMAIN rows[i].src
       /\ DOMAIN rows[i].src \subseteq Messages
  /\ \A t \in threads : ToSet(t) \subseteq DOMAIN rows
  /\ settled \subseteq Days
=============================================================================
