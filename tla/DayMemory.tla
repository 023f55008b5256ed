------------------------------- MODULE DayMemory -------------------------------
(***************************************************************************)
(* Memory V2 (memory_v2), as far as the digestion of a day uses it: the      *)
(* immutable events of the encoded batches, the continuity threads that link *)
(* events of different batches, and the one settlement receipt of each day.  *)
(* Every operation here is one SQLite transaction.                           *)
(*                                                                          *)
(* An event stands for its batch: a batch with one event.  Events are        *)
(* numbered in the order of their reported time.  Which pairs of events the  *)
(* screening supports is a constant of the instance; what the model makes of *)
(* the screened candidates is free.                                          *)
(***************************************************************************)
EXTENDS Integers, Sequences, SequencesExt

CONSTANTS
  MaxDay,    \* bound: active days, in calendar order
  MaxEvent,  \* bound: events, in the order of their reported time
  DayOf,     \* the active day of an event
  Related    \* the pairs that screen_settlement_event_pair supports

Days == 1..MaxDay
Events == 1..MaxEvent

ASSUME MemoryAssumption ==
  /\ MaxDay \in Nat \ {0} /\ MaxEvent \in Nat
  /\ DayOf \in [Events -> Days]
  /\ \A e, f \in Events : e < f => DayOf[e] <= DayOf[f]
  /\ Related \subseteq {p \in Events \X Events : p[1] < p[2]}

VARIABLES
  encoded,   \* encoding_batches and events: the batches committed
  threads,   \* thread_events: the members of the thread an event anchors
  receipts   \* day_settlements, with the input the receipt is for

memoryVars == <<encoded, threads, receipts>>

-----------------------------------------------------------------------------
(* Rows *)

(* A screened edge: thread is the anchor of a prior thread, 0 within the day. *)
Edges == [thread : 0..MaxEvent, match : Events, from : Events, to : Events]

(* The frozen input of a settlement: what its input digest covers. *)
Plans == [events : SUBSET Events, candidates : SUBSET Edges]
NoPlan == [events |-> {}, candidates |-> {}]

(* The receipt of a day, with the edges its judgments accepted. *)
Receipts == [state : {"none", "settled"}, plan : Plans, accepted : SUBSET Edges]
NoReceipt == [state |-> "none", plan |-> NoPlan, accepted |-> {}]
Settled(plan, accepted) ==
  [state |-> "settled", plan |-> plan, accepted |-> accepted]

EventsOf(d) == {e \in Events : DayOf[e] = d}
Latest(S) == CHOOSE e \in S : \A f \in S : f <= e

-----------------------------------------------------------------------------
(* DaySettlementPlanAssembler.assemble; stored are the batches committed so far *)

(* _load_prior_thread_rows: the members of a thread before the day. *)
AsOf(a, d) == SelectSeq(threads[a], LAMBDA e : DayOf[e] < d)

(* _project_threads: the first member, the best match and the last one stand for
   a thread in which some member is related to the day. *)
Matches(a, d, stored) ==
  {e \in ToSet(AsOf(a, d)) : \E f \in EventsOf(d) \cap stored : <<e, f>> \in Related}
Projection(a, d, stored) ==
  IF Matches(a, d, stored) = {} THEN {}
  ELSE {Head(AsOf(a, d)), Latest(Matches(a, d, stored)), Last(AsOf(a, d))}

(* select_day_settlement_candidates: pairs within the day, and for each prior
   thread its last member as of the day, matched by any projected one. *)
WithinDay(d, stored) ==
  {[thread |-> 0, match |-> p[1], from |-> p[1], to |-> p[2]] :
     p \in {q \in Related : {q[1], q[2]} \subseteq EventsOf(d) \cap stored}}

FromThread(a, f, d, stored) ==
  LET supported == {e \in Projection(a, d, stored) : <<e, f>> \in Related}
  IN  IF supported = {} THEN {}
      ELSE {[thread |-> a, match |-> Latest(supported),
             from |-> Last(AsOf(a, d)), to |-> f]}

Candidates(d, stored) ==
  WithinDay(d, stored) \cup
  UNION {FromThread(a, f, d, stored) : a \in Events, f \in EventsOf(d) \cap stored}

PlanFor(d, stored) ==
  [events |-> EventsOf(d) \cap stored, candidates |-> Candidates(d, stored)]

(* _normalize_non_linear_thread_judgments and parse_day_settlement_output leave
   an event at most one continuation and at most one predecessor. *)
Linear(edges) ==
  \A x, y \in edges : x # y => x.from # y.from /\ x.to # y.to

-----------------------------------------------------------------------------
(* MemoryV2Store *)

(* _continuity_membership *)
Membership(t, e) == {a \in Events : e \in ToSet(t[a])}

(* _append_continuation in the transaction so far: book is the threads and
   whether an edge has raised ThreadConflictError. *)
AppendContinuation(book, edge) ==
  LET t == book.threads
      old == Membership(t, edge.from)
      home == CHOOSE a \in old : TRUE
  IN  CASE ~book.ok -> book
        [] old = {} /\ Membership(t, edge.to) = {} ->
             [book EXCEPT !.threads[edge.from] = <<edge.from, edge.to>>]
        [] old # {} /\ Membership(t, edge.to) = {} /\ Last(t[home]) = edge.from ->
             [book EXCEPT !.threads[home] = Append(@, edge.to)]
        [] OTHER -> [book EXCEPT !.ok = FALSE]

(* The edges are appended in the order of the events they leave, of which each has
   one at most: book[n] is what those up to event n have made of the threads. *)
Appended(edges) ==
  LET book[n \in 0..MaxEvent] ==
        IF n = 0 THEN [threads |-> threads, ok |-> TRUE]
        ELSE IF \E x \in edges : x.from = n
          THEN AppendContinuation(book[n - 1], CHOOSE x \in edges : x.from = n)
          ELSE book[n - 1]
  IN  book[MaxEvent]

(* _validate_day_candidates: the endpoints are stored, of two batches and in their
   order, and an edge ends in the day; it begins in the day too, or at the end of a
   prior thread that still ends there, whether or not the edge was accepted. *)
CandidatesHold(plan) ==
  \A c \in plan.candidates :
    /\ {c.from, c.match, c.to} \subseteq encoded
    /\ c.from < c.to /\ c.to \in plan.events
    /\ c.thread = 0 => c.match = c.from /\ c.from \in plan.events
    /\ c.thread # 0 => /\ c.match \in ToSet(threads[c.thread])
                       /\ Last(threads[c.thread]) = c.from

(* current_day_source_digest: the day's events are those of the plan. *)
SourceHolds(d, plan) == EventsOf(d) \cap encoded = plan.events

(* Mutant: the commit trusts the plan and writes what can be written. *)
CanSettleAnyway(d, plan, accepted) == SourceHolds(d, plan)

(* A receipt is immutable: the day has none yet, or this very one. *)
CanSettle(d, plan, accepted) ==
  /\ SourceHolds(d, plan)
  /\ receipts[d] = NoReceipt => CandidatesHold(plan) /\ Appended(accepted).ok
  /\ receipts[d] \in {NoReceipt, Settled(plan, accepted)}

(* commit_encoding: the batch and its event, all or nothing. *)
CommitEncoding(e) ==
  /\ encoded' = encoded \cup {e}
  /\ UNCHANGED <<threads, receipts>>

(* commit_day_settlement: the links, then the receipt, in one transaction. *)
CommitSettlement(d, plan, accepted) ==
  /\ threads' = IF receipts[d] = NoReceipt THEN Appended(accepted).threads ELSE threads
  /\ receipts' = [receipts EXCEPT ![d] = Settled(plan, accepted)]
  /\ UNCHANGED encoded

MemoryInit ==
  /\ encoded = {}
  /\ threads = [a \in Events |-> <<>>]
  /\ receipts = [d \in Days |-> NoReceipt]

MemoryTypeOK ==
  /\ encoded \subseteq Events
  /\ threads \in [Events -> Seq(Events)]
  /\ receipts \in [Days -> Receipts]
=============================================================================
