-------------------------- MODULE PostTransferProofs --------------------------
(***************************************************************************)
(* Proofs about PostTransfer, for any number of calls, names and             *)
(* disturbances: the types, that the post is never at two homes and never at *)
(* none, and that a transfer is a Handover.                                  *)
(***************************************************************************)
EXTENDS PostTransfer, TLAPS

-----------------------------------------------------------------------------
(* What an answer, a request and an end do to the volatile records. *)

LEMMA NewIsNew ==
  ASSUME NEW used, Names \ used # {}
  PROVE  New(used) \in Names /\ New(used) \notin used
BY DEF New

LEMMA AnswerTyped ==
  ASSUME calls \in [Calls -> CallRows], requests \subseteq Requests,
         NEW r \in requests, NEW answer \in Answers, Answer(r, answer)
  PROVE  calls' \in [Calls -> CallRows] /\ requests' \subseteq Requests
<1>1. r.from \in Calls
  BY DEF Requests
<1>2. ASSUME NEW k \in Calls
      PROVE  [calls[k] EXCEPT !.reply = answer] \in CallRows
  BY <1>2 DEF CallRows
<1>3. QED
  BY <1>1, <1>2 DEF Answer

LEMMA SendsTyped ==
  ASSUME calls \in [Calls -> CallRows], requests \subseteq Requests,
         NEW k \in Calls, NEW wait \in Waits, NEW id \in Ids, NEW place \in Ids,
         NEW digest \in Digests, Sends(k, wait, id, place, digest)
  PROVE  calls' \in [Calls -> CallRows] /\ requests' \subseteq Requests
<1>1. NoDigest \in Digests /\ NoOut \in Answers
  BY DEF NoDigest, Digests, NoOut, Answers, Outs, Ids
<1>2. [at |-> wait, id |-> id, digest |-> digest, reply |-> NoOut] \in CallRows
  BY <1>1 DEF CallRows
<1>3. [from |-> k, op |-> wait, id |-> id, place |-> place, digest |-> NoDigest,
       at |-> "sent"] \in Requests
  BY <1>1 DEF Requests
<1>4. QED
  BY <1>2, <1>3 DEF Sends

LEMMA EndsTyped ==
  ASSUME calls \in [Calls -> CallRows], requests \subseteq Requests,
         NEW k \in Calls, Ends(k)
  PROVE  calls' \in [Calls -> CallRows] /\ requests' \subseteq Requests
<1>1. NoCall \in CallRows
  BY DEF NoCall, CallRows, NoDigest, Digests, NoOut, Answers, Outs, Ids
<1>2. QED
  BY <1>1 DEF Ends

-----------------------------------------------------------------------------
(* Type correctness *)

LEMMA TypeInit == Init => TypeOK
BY TransferAssumption
   DEF Init, TypeOK, NoOut, Outs, NoInto, Intos, NoCall, CallRows, NoDigest, Digests,
       Ids, Answers, Requests

LEMMA StagesTyped ==
  ASSUME TypeOK, NEW k \in Calls, NEW id \in Ids, NEW digest \in Digests,
         Stages(k, id, digest)
  PROVE  /\ into' \in Intos /\ arrived' \in Nat
         /\ calls' \in [Calls -> CallRows] /\ requests' \subseteq Requests
<1> DEFINE place == IF into.id = id THEN into.place ELSE New(UsedPlaces)
<1>1. place \in Ids
  BY NewIsNew DEF Stages, TypeOK, Intos, Ids
<1>2. CASE into.state = "none" \/ (into.id = id /\ into.state = "staged"
                                     /\ into.digest = digest)
  <2>1. into' = [state |-> "staged", id |-> id, digest |-> digest, place |-> place,
                 proof |-> k]
    BY <1>2 DEF Stages
  <2>2. Sends(k, "commit", id, place, digest)
    BY <1>2 DEF Stages
  <2>3. QED
    BY <1>1, <2>1, <2>2, SendsTyped DEF Stages, TypeOK, Intos, Waits
<1>3. CASE ~(into.state = "none" \/ (into.id = id /\ into.state = "staged"
                                       /\ into.digest = digest))
  BY <1>3, EndsTyped DEF Stages, TypeOK
<1>4. QED
  BY <1>2, <1>3

LEMMA ActivatesTyped ==
  ASSUME TypeOK, NEW k \in Calls, NEW status, Activates(k, status)
  PROVE  /\ into' \in Intos /\ arrived' \in Nat
         /\ calls' \in [Calls -> CallRows] /\ requests' \subseteq Requests
<1>1. calls' \in [Calls -> CallRows] /\ requests' \subseteq Requests
  BY EndsTyped DEF Activates, TypeOK
<1>2. into' \in Intos /\ arrived' \in Nat
  BY DEF Activates, TypeOK, Intos, Digests
<1>3. QED
  BY <1>1, <1>2

LEMMA HandlesTyped ==
  ASSUME TypeOK, NEW r \in requests, Handles(r)
  PROVE  TypeOK'
<1>1. /\ r \in Requests /\ r.id \in Ids /\ r.place \in Ids /\ r.from \in Calls
      /\ out \in Answers /\ Refused \in Answers /\ out.digest \in Digests
  BY DEF TypeOK, Requests, Answers, Outs
<1>2. CASE Prepares(r)
  <2> DEFINE now == [post |-> post, people |-> people]
             row == IF out.state = "prepared" THEN out
                    ELSE [state |-> "prepared", id |-> New(UsedIds), digest |-> now,
                          place |-> 0]
  <2>1. row \in Outs
    BY <1>2, NewIsNew DEF Prepares, TypeOK, Outs, Ids, Digests
  <2>2. out' \in Outs /\ \E answer \in Answers : Answer(r, answer)
    BY <1>1, <1>2, <2>1 DEF Prepares, TypeOK, Answers
  <2>3. QED
    BY <1>2, <2>2, AnswerTyped DEF Prepares, TypeOK
<1>3. CASE TellsStatus(r)
  <2>1. \E answer \in Answers : Answer(r, answer)
    BY <1>1, <1>3 DEF TellsStatus
  <2>2. QED
    BY <1>3, <2>1, AnswerTyped DEF TellsStatus, TypeOK
<1>4. CASE Cancels(r)
  <2>1. [out EXCEPT !.state = "cancelled"] \in Outs
    BY DEF TypeOK, Outs
  <2>2. out' \in Outs /\ \E answer \in Answers : Answer(r, answer)
    BY <1>1, <1>4, <2>1 DEF Cancels, TypeOK, Answers
  <2>3. QED
    BY <1>4, <2>2, AnswerTyped DEF Cancels, TypeOK
<1>5. CASE CommitArrives(r)
  <2>1. [r EXCEPT !.at = "asks", !.digest = out.digest] \in Requests
    BY <1>1 DEF Requests
  <2>2. CASE out.id = r.id /\ out.state # "committed"
    BY <1>5, <2>1, <2>2 DEF CommitArrives, TypeOK
  <2>3. CASE ~(out.id = r.id /\ out.state # "committed")
    <3>1. \E answer \in Answers : Answer(r, answer)
      BY <1>1, <1>5, <2>3 DEF CommitArrives
    <3>2. QED
      BY <1>5, <3>1, AnswerTyped DEF CommitArrives, TypeOK
  <2>4. QED
    BY <2>2, <2>3
<1>6. CASE Proves(r)
  <2>1. [r EXCEPT !.at = "proven"] \in Requests
    BY <1>1 DEF Requests
  <2>2. \/ /\ requests' = (requests \ {r}) \cup {[r EXCEPT !.at = "proven"]}
           /\ UNCHANGED calls
        \/ Answer(r, Refused)
    BY <1>6 DEF Proves
  <2>3. calls' \in [Calls -> CallRows] /\ requests' \subseteq Requests
    BY <1>1, <2>1, <2>2, AnswerTyped DEF TypeOK
  <2>4. QED
    BY <1>6, <2>3 DEF Proves, TypeOK
<1>7. CASE Commits(r)
  <2>1. [out EXCEPT !.state = "committed", !.place = r.place] \in Outs
    BY <1>1 DEF TypeOK, Outs
  <2>2. out' \in Outs /\ post' \in Nat /\ \E answer \in Answers : Answer(r, answer)
    BY <1>1, <1>7, <2>1 DEF Commits, TypeOK, Answers
  <2>3. QED
    BY <1>7, <2>2, AnswerTyped DEF Commits, TypeOK
<1>8. QED
  BY <1>2, <1>3, <1>4, <1>5, <1>6, <1>7 DEF Handles

LEMMA MovesTyped ==
  ASSUME TypeOK, NEW k \in Calls,
         \/ MovePrepared(k) \/ MoveAsked(k) \/ MoveCommitted(k) \/ MoveConfirmed(k)
  PROVE  TypeOK'
<1> DEFINE reply == calls[k].reply
<1>1. calls[k] \in CallRows /\ calls[k].id \in Ids /\ calls[k].digest \in Digests
  BY DEF TypeOK, CallRows
<1>2. reply.id \in Ids /\ reply.digest \in Digests
  BY <1>1, TransferAssumption
     DEF CallRows, Answers, Outs, Refused, NoOut, NoDigest, Digests, Ids
<1>3. /\ into' \in Intos /\ arrived' \in Nat
      /\ calls' \in [Calls -> CallRows] /\ requests' \subseteq Requests
  <2>1. CASE MovePrepared(k)
    BY <1>2, <2>1, EndsTyped, StagesTyped DEF MovePrepared, TypeOK
  <2>2. CASE MoveAsked(k)
    <3>1. \/ Activates(k, reply) \/ Stages(k, calls[k].id, calls[k].digest)
          \/ (Ends(k) /\ UNCHANGED <<into, arrived>>)
      BY <2>2 DEF MoveAsked
    <3>2. QED
      BY <1>1, <3>1, EndsTyped, StagesTyped, ActivatesTyped DEF TypeOK
  <2>3. CASE MoveCommitted(k)
    <3>1. Confirms(k) \/ Activates(k, reply)
      BY <2>3 DEF MoveCommitted
    <3>2. QED
      BY <1>1, <3>1, SendsTyped, ActivatesTyped DEF Confirms, TypeOK, Waits, Ids
  <2>4. CASE MoveConfirmed(k)
    <3>1. Activates(k, reply) \/ (Ends(k) /\ UNCHANGED <<into, arrived>>)
      BY <2>4 DEF MoveConfirmed
    <3>2. QED
      BY <3>1, EndsTyped, ActivatesTyped DEF TypeOK
  <2>5. QED
    BY <2>1, <2>2, <2>3, <2>4
<1>4. QED
  BY <1>3 DEF MovePrepared, MoveAsked, MoveCommitted, MoveConfirmed, TypeOK

LEMMA TypeStep == TypeOK /\ [Next]_vars => TypeOK'
<1> SUFFICES ASSUME TypeOK, [Next]_vars PROVE TypeOK'
  OBVIOUS
<1>1. ASSUME NEW r \in requests, Handles(r) PROVE TypeOK'
  BY <1>1, HandlesTyped
<1>2. ASSUME Disturb PROVE disturbances' \in 0..MaxDisturbances
  BY <1>2, TransferAssumption DEF Disturb, TypeOK
<1>3. ASSUME NEW r \in requests, Lost(r) PROVE TypeOK'
  BY <1>2, <1>3 DEF Lost, TypeOK
<1>4. ASSUME NEW k \in Calls, MoveStarts(k) PROVE TypeOK'
  <2>1. Sends(k, "prepare", 0, 0, NoDigest) \/ Sends(k, "ask", into.id, 0, into.digest)
    BY <1>4 DEF MoveStarts
  <2>2. calls' \in [Calls -> CallRows] /\ requests' \subseteq Requests
    BY <2>1, SendsTyped DEF TypeOK, Intos, Waits, Ids, NoDigest, Digests
  <2>3. QED
    BY <1>4, <2>2 DEF MoveStarts, TypeOK
<1>5. ASSUME NEW k \in Calls, CancelStarts(k) PROVE TypeOK'
  <2>1. calls' \in [Calls -> CallRows] /\ requests' \subseteq Requests
    BY <1>5, SendsTyped DEF CancelStarts, TypeOK, Intos, Waits, Ids
  <2>2. QED
    BY <1>2, <1>5, <2>1 DEF CancelStarts, TypeOK
<1>6. ASSUME NEW k \in Calls, CancelConfirmed(k) PROVE TypeOK'
  <2>1. NoInto \in Intos
    BY DEF NoInto, Intos, NoDigest, Digests, Ids
  <2>2. QED
    BY <1>6, <2>1, EndsTyped DEF CancelConfirmed, TypeOK
<1>7. ASSUME NEW k \in Calls, WithoutAnswer(k), disturbances' \in 0..MaxDisturbances
      PROVE  TypeOK'
  <2>1. Confirms(k) \/ (Ends(k) /\ UNCHANGED <<into, arrived>>)
    BY <1>7 DEF WithoutAnswer
  <2>2. calls[k].id \in Ids /\ calls[k].digest \in Digests
    BY DEF TypeOK, CallRows
  <2>3. /\ calls' \in [Calls -> CallRows] /\ requests' \subseteq Requests
        /\ UNCHANGED <<into, arrived>>
    BY <2>1, <2>2, SendsTyped, EndsTyped DEF Confirms, TypeOK, Waits, Ids
  <2>4. QED
    BY <1>7, <2>3 DEF WithoutAnswer, TypeOK
<1>8. ASSUME NEW k \in Calls, Goes(k) PROVE TypeOK'
  <2>1. CASE TimesOut(k)
    BY <1>7, <2>1 DEF TimesOut, TypeOK
  <2>2. QED
    BY <1>6, <1>8, <2>1, MovesTyped DEF Goes
<1>9. ASSUME NEW k \in Calls, GivesUp(k) PROVE TypeOK'
  BY <1>2, <1>7, <1>9 DEF GivesUp
<1>10. ASSUME Dies PROVE TypeOK'
  <2>1. NoCall \in CallRows
    BY DEF NoCall, CallRows, NoDigest, Digests, NoOut, Answers, Outs, Ids
  <2>2. QED
    BY <1>2, <1>10, <2>1 DEF Dies, TypeOK
<1>11. ASSUME Changed \/ Renamed PROVE TypeOK'
  BY <1>2, <1>11 DEF Changed, Renamed, TypeOK
<1>12. CASE UNCHANGED vars
  BY <1>12 DEF vars, TypeOK
<1>13. QED
  BY <1>1, <1>3, <1>4, <1>5, <1>8, <1>9, <1>10, <1>11, <1>12 DEF Next

(* Every row of both homes and every volatile record keep their types. *)
THEOREM TypeCorrect == Spec => []TypeOK
<1>1. QED
  BY TypeInit, TypeStep, PTL DEF Spec

-----------------------------------------------------------------------------
(* The inductive invariant *)

(* A frozen post is what its snapshot says; a post that has left is blank. *)
FrozenHere ==
  /\ out.state = "prepared" => post # 0 /\ post = out.digest.post
  /\ out.state = "committed" => post = 0

(* An answer that the transfer is committed stays true. *)
ToldForGood == \A k \in Calls : calls[k].reply.state = "committed" => out = calls[k].reply

(* A commit that the new home has been asked about is of the row as it is, unless the
   row is another transfer by now; once proven, it is staged as the old home thinks. *)
Concerns(r) == r.op = "commit" /\ r.id = out.id /\ out.state = "prepared"
AskedOfRow ==
  \A r \in requests : Concerns(r) /\ r.at \in {"asks", "proven"} => r.digest = out.digest
ProvenStaged ==
  \A r \in requests : Concerns(r) /\ r.at = "proven" =>
    /\ into.state = "staged" /\ into.id = r.id /\ into.digest = out.digest
    /\ into.place = r.place

(* A cancellation that is confirmed is of a transfer that is neither under way nor
   made; its request names the transfer of the call that awaits it. *)
CancelOfCall ==
  \A r \in requests : r.op = "cancel" /\ calls[r.from].at = "cancel" =>
    r.id = calls[r.from].id
CancelledGone ==
  \A k \in Calls : calls[k].at = "cancel" /\ calls[k].reply.state = "cancelled" =>
    ~(out.id = calls[k].id /\ out.state \in {"prepared", "committed"})

TransferInv ==
  /\ TypeOK
  /\ OneHome /\ NothingLost
  /\ FrozenHere /\ ToldForGood
  /\ AskedOfRow /\ ProvenStaged
  /\ CancelOfCall /\ CancelledGone

LEMMA InvInit == Init => TransferInv
<1> SUFFICES ASSUME Init PROVE TransferInv
  OBVIOUS
<1>1. TypeOK
  BY TypeInit
<1>2. OneHome /\ NothingLost /\ FrozenHere /\ ToldForGood /\ AskedOfRow /\ ProvenStaged
      /\ CancelOfCall /\ CancelledGone
  BY DEF Init, OneHome, NothingLost, FrozenHere, ToldForGood, AskedOfRow, ProvenStaged,
         CancelOfCall, CancelledGone, NoOut, NoCall
<1>3. QED
  BY <1>1, <1>2 DEF TransferInv

(* What a step has to show when it leaves the row of the old home and the post, and
   the row of the new home alone: its volatile records. *)
LEMMA VolatileStep ==
  ASSUME TransferInv, TypeOK',
         UNCHANGED <<post, out, into, arrived>>,
         ToldForGood', AskedOfRow', ProvenStaged', CancelOfCall', CancelledGone'
  PROVE  TransferInv'
BY DEF TransferInv, OneHome, NothingLost, FrozenHere

(* The old home answers: only the call that awaits this answer changes. *)
LEMMA AnswerCalls ==
  ASSUME TypeOK, NEW r \in requests, NEW answer, Answer(r, answer)
  PROVE  /\ requests' = requests \ {r}
         /\ \A k \in Calls :
              \/ calls'[k] = calls[k]
              \/ /\ k = r.from /\ calls[k].at = r.op
                 /\ calls'[k] = [calls[k] EXCEPT !.reply = answer]
         /\ \A k \in Calls : calls'[k].at = calls[k].at /\ calls'[k].id = calls[k].id
<1>1. r.from \in Calls
  BY DEF TypeOK, Requests
<1>2. calls \in [Calls -> CallRows]
  BY DEF TypeOK
<1>3. requests' = requests \ {r}
  BY DEF Answer
<1>4. ASSUME NEW k \in Calls
      PROVE  \/ calls'[k] = calls[k]
             \/ /\ k = r.from /\ calls[k].at = r.op
                /\ calls'[k] = [calls[k] EXCEPT !.reply = answer]
  BY <1>1, <1>2, <1>4 DEF Answer
<1>5. ASSUME NEW k \in Calls
      PROVE  calls'[k].at = calls[k].at /\ calls'[k].id = calls[k].id
  BY <1>2, <1>4, <1>5 DEF CallRows
<1>6. QED
  BY <1>3, <1>4, <1>5

(* An answer keeps what the volatile records have to satisfy, when the old home's row
   is a later stage of the same transfer or a new transfer. *)
LEMMA AnswerStep ==
  ASSUME TransferInv, NEW r \in requests, NEW answer, Answer(r, answer),
         UNCHANGED into,
         answer.state = "committed" => out' = answer,
         out.state = "committed" => out' = out,
         out'.state = "prepared" => out' = out \/ out'.id \notin UsedIds,
         out'.state = "committed" =>
           out' = out \/ (out.state = "prepared" /\ out'.id = out.id),
         answer.state = "cancelled" /\ r.op = "cancel" =>
           ~(out'.id = r.id /\ out'.state \in {"prepared", "committed"})
  PROVE  ToldForGood' /\ AskedOfRow' /\ ProvenStaged' /\ CancelOfCall' /\ CancelledGone'
<1>0. TypeOK /\ calls \in [Calls -> CallRows] /\ requests \subseteq Requests
      /\ r.from \in Calls
  BY DEF TransferInv, TypeOK, Requests
<1>1. /\ requests' = requests \ {r}
      /\ \A k \in Calls :
           \/ calls'[k] = calls[k]
           \/ /\ k = r.from /\ calls[k].at = r.op
              /\ calls'[k] = [calls[k] EXCEPT !.reply = answer]
      /\ \A k \in Calls : calls'[k].at = calls[k].at /\ calls'[k].id = calls[k].id
  BY <1>0, AnswerCalls
<1>2. ASSUME NEW k \in Calls
      PROVE  \/ calls'[k].reply = calls[k].reply
             \/ k = r.from /\ calls[k].at = r.op /\ calls'[k].reply = answer
  BY <1>0, <1>1, <1>2 DEF CallRows
<1>3. ToldForGood'
  BY <1>2 DEF ToldForGood, TransferInv
<1>4. \A q \in requests : q.id \in UsedIds
  BY DEF UsedIds
<1>5. \A q \in requests' : Concerns(q)' => Concerns(q) /\ out' = out
  BY <1>1, <1>4 DEF Concerns
<1>6. AskedOfRow' /\ ProvenStaged'
  BY <1>1, <1>5 DEF AskedOfRow, ProvenStaged, TransferInv
<1>7. CancelOfCall'
  BY <1>0, <1>1 DEF CancelOfCall, TransferInv, Requests
<1>8. ASSUME NEW k \in Calls, calls'[k].at = "cancel", calls'[k].reply.state = "cancelled"
      PROVE  ~(out'.id = calls'[k].id /\ out'.state \in {"prepared", "committed"})
  <2>1. calls[k].at = "cancel" /\ calls'[k].id = calls[k].id /\ calls[k].id \in UsedIds
    BY <1>1, <1>8 DEF UsedIds
  <2>2. CASE calls'[k].reply = calls[k].reply
    <3>1. ~(out.id = calls[k].id /\ out.state \in {"prepared", "committed"})
      BY <1>8, <2>1, <2>2 DEF CancelledGone, TransferInv
    <3>2. QED
      BY <2>1, <3>1
  <2>3. CASE k = r.from /\ calls[k].at = r.op /\ calls'[k].reply = answer
    <3>1. r.op = "cancel" /\ r.id = calls[k].id
      BY <2>1, <2>3 DEF CancelOfCall, TransferInv
    <3>2. QED
      BY <1>8, <2>1, <2>3, <3>1
  <2>4. QED
    BY <1>2, <2>2, <2>3
<1>9. QED
  BY <1>3, <1>6, <1>7, <1>8 DEF CancelledGone

(* A call goes on, with a request of its own or none: its answer is taken. *)
LEMMA CallStep ==
  ASSUME TransferInv, NEW k \in Calls, UNCHANGED out,
         calls' = [calls EXCEPT ![k] = NoCall] /\ UNCHANGED requests
  PROVE  ToldForGood' /\ AskedOfRow' /\ CancelOfCall' /\ CancelledGone'
<1>1. /\ calls \in [Calls -> CallRows]
      /\ \A q \in requests : q.from \in Calls
  BY DEF TransferInv, TypeOK, Requests
<1>2. NoCall.reply.state # "committed" /\ NoCall.at # "cancel"
  BY DEF NoCall, NoOut
<1>3. QED
  BY <1>1, <1>2
     DEF TransferInv, ToldForGood, AskedOfRow, Concerns, CancelOfCall, CancelledGone

LEMMA SendStep ==
  ASSUME TransferInv, NEW k \in Calls, UNCHANGED out,
         NEW wait, NEW id, NEW place, NEW digest, Sends(k, wait, id, place, digest),
         wait = "cancel" => Free(k)
  PROVE  ToldForGood' /\ AskedOfRow' /\ CancelOfCall' /\ CancelledGone'
<1>1. /\ calls \in [Calls -> CallRows]
      /\ \A q \in requests : q.from \in Calls
  BY DEF TransferInv, TypeOK, Requests
<1> DEFINE call == [at |-> wait, id |-> id, digest |-> digest, reply |-> NoOut]
           new == [from |-> k, op |-> wait, id |-> id, place |-> place,
                   digest |-> NoDigest, at |-> "sent"]
<1>2. /\ calls' = [calls EXCEPT ![k] = call]
      /\ requests' = requests \cup {new}
  BY DEF Sends
<1>3. call.reply.state = "none" /\ call.at = wait /\ call.id = id
  BY DEF NoOut
<1>4. new.at = "sent" /\ new.from = k /\ new.op = wait /\ new.id = id
  OBVIOUS
<1>5. ToldForGood' /\ CancelledGone'
  BY <1>1, <1>2, <1>3 DEF TransferInv, ToldForGood, CancelledGone
<1>6. AskedOfRow'
  BY <1>2, <1>4 DEF TransferInv, AskedOfRow, Concerns
<1>7. ASSUME NEW q \in requests', q.op = "cancel", calls'[q.from].at = "cancel"
      PROVE  q.id = calls'[q.from].id
  <2>1. CASE q = new
    BY <1>1, <1>2, <1>3, <1>4, <2>1
  <2>2. CASE q \in requests /\ q.from # k
    BY <1>1, <1>2, <1>7, <2>2 DEF TransferInv, CancelOfCall
  <2>3. CASE q \in requests /\ q.from = k
    BY <1>1, <1>2, <1>3, <1>7, <2>3 DEF Free
  <2>4. QED
    BY <1>2, <2>1, <2>2, <2>3
<1>8. QED
  BY <1>5, <1>6, <1>7 DEF CancelOfCall

(* Requests that go on their way, or are lost, leave the rest as it is. *)
LEMMA RequestStep ==
  ASSUME TransferInv, UNCHANGED <<out, into, calls>>,
         NEW r \in requests,
         \/ requests' = requests \ {r}
         \/ /\ requests' = (requests \ {r}) \cup {[r EXCEPT !.at = "asks", !.digest = out.digest]}
            /\ r.op = "commit"
         \/ /\ requests' = (requests \ {r}) \cup {[r EXCEPT !.at = "proven"]}
            /\ r.op = "commit" /\ r.at = "asks"
            /\ into.state = "staged" /\ into.id = r.id /\ into.digest = r.digest
            /\ into.place = r.place
  PROVE  ToldForGood' /\ AskedOfRow' /\ ProvenStaged' /\ CancelOfCall' /\ CancelledGone'
<1>1. ToldForGood' /\ CancelledGone'
  BY DEF TransferInv, ToldForGood, CancelledGone
<1>2. r \in Requests
  BY DEF TransferInv, TypeOK
<1> DEFINE asks == [r EXCEPT !.at = "asks", !.digest = out.digest]
           proven == [r EXCEPT !.at = "proven"]
<1>3. /\ asks.op = r.op /\ asks.id = r.id /\ asks.from = r.from /\ asks.digest = out.digest
      /\ asks.at = "asks"
      /\ proven.op = r.op /\ proven.id = r.id /\ proven.from = r.from
      /\ proven.digest = r.digest /\ proven.place = r.place
  BY <1>2 DEF Requests
<1>4. CASE requests' = requests \ {r}
  BY <1>1, <1>4 DEF TransferInv, AskedOfRow, ProvenStaged, CancelOfCall, Concerns
<1>5. CASE requests' = (requests \ {r}) \cup {asks} /\ r.op = "commit"
  BY <1>1, <1>3, <1>5 DEF TransferInv, AskedOfRow, ProvenStaged, CancelOfCall, Concerns
<1>6. CASE /\ requests' = (requests \ {r}) \cup {proven}
           /\ r.op = "commit" /\ r.at = "asks"
           /\ into.state = "staged" /\ into.id = r.id /\ into.digest = r.digest
           /\ into.place = r.place
  <2>1. Concerns(r) => r.digest = out.digest
    BY <1>6 DEF TransferInv, AskedOfRow
  <2>2. \A q \in requests' : q \in requests \/ q = proven
    BY <1>6
  <2>3. ASSUME NEW q \in requests', Concerns(q)', q.at \in {"asks", "proven"}
        PROVE  q.digest = out.digest
    <3>1. CASE q \in requests
      BY <2>3, <3>1 DEF TransferInv, AskedOfRow, Concerns
    <3>2. CASE q = proven
      BY <1>3, <1>6, <2>1, <2>3, <3>2 DEF Concerns
    <3>3. QED
      BY <2>2, <3>1, <3>2
  <2>4. ASSUME NEW q \in requests', Concerns(q)', q.at = "proven"
        PROVE  /\ into.state = "staged" /\ into.id = q.id /\ into.digest = out.digest
               /\ into.place = q.place
    <3>1. CASE q \in requests
      BY <2>4, <3>1 DEF TransferInv, ProvenStaged, Concerns
    <3>2. CASE q = proven
      BY <1>3, <1>6, <2>1, <2>4, <3>2 DEF Concerns
    <3>3. QED
      BY <2>2, <3>1, <3>2
  <2>5. AskedOfRow' /\ ProvenStaged'
    BY <2>3, <2>4 DEF AskedOfRow, ProvenStaged
  <2>6. CancelOfCall'
    BY <1>3, <1>6, <2>2 DEF TransferInv, CancelOfCall
  <2>7. QED
    BY <1>1, <2>5, <2>6
<1>7. QED
  BY <1>4, <1>5, <1>6

(* The old home handles a request. *)
LEMMA HandlesInv ==
  ASSUME TransferInv, TypeOK', NEW r \in requests, Handles(r)
  PROVE  TransferInv'
<1>1. /\ Refused.state = "refused"
      /\ TypeOK /\ r \in Requests /\ out \in Outs
  BY DEF Refused, NoOut, TransferInv, TypeOK
<1>2. CASE Prepares(r)
  <2> DEFINE now == [post |-> post, people |-> people]
             row == IF out.state = "prepared" THEN out
                    ELSE [state |-> "prepared", id |-> New(UsedIds), digest |-> now,
                          place |-> 0]
  <2>1. CASE post # 0 /\ row.digest = now
    <3>1. /\ out' = row /\ Answer(r, row) /\ UNCHANGED <<post, into, arrived>>
          /\ r.op = "prepare" /\ out.state # "committed"
      BY <1>2, <2>1 DEF Prepares, TransferInv, FrozenHere
    <3>2. row = out \/ row.id \notin UsedIds
      BY <1>2, NewIsNew DEF Prepares
    <3>3. row.state = "prepared" /\ row.digest.post = post
      BY <2>1
    <3>4. ToldForGood' /\ AskedOfRow' /\ ProvenStaged' /\ CancelOfCall' /\ CancelledGone'
      BY <3>1, <3>2, <3>3, AnswerStep
    <3>5. OneHome' /\ NothingLost' /\ FrozenHere'
      BY <2>1, <3>1, <3>3 DEF TransferInv, OneHome, NothingLost, FrozenHere
    <3>6. QED
      BY <3>4, <3>5 DEF TransferInv
  <2>2. CASE ~(post # 0 /\ row.digest = now)
    <3>1. Answer(r, Refused) /\ UNCHANGED <<post, out, into, arrived>>
      BY <1>2, <2>2 DEF Prepares
    <3>2. QED
      BY <1>1, <3>1, AnswerStep, VolatileStep
  <2>3. QED
    BY <2>1, <2>2
<1>3. CASE TellsStatus(r)
  <2>1. PICK answer \in {out, Refused} : Answer(r, answer)
    BY <1>3 DEF TellsStatus
  <2>2. UNCHANGED <<post, out, into, arrived>> /\ r.op # "cancel"
    BY <1>3 DEF TellsStatus
  <2>3. QED
    BY <1>1, <2>1, <2>2, AnswerStep, VolatileStep
<1>4. CASE Cancels(r)
  <2> DEFINE row == [out EXCEPT !.state = "cancelled"]
  <2>1. row.state = "cancelled" /\ row.id = out.id
    BY <1>1 DEF Outs
  <2>2. CASE out.id = r.id /\ out.state # "committed"
    <3>1. out' = row /\ Answer(r, row) /\ UNCHANGED <<post, into, arrived>>
      BY <1>4, <2>2 DEF Cancels
    <3>2. ToldForGood' /\ AskedOfRow' /\ ProvenStaged' /\ CancelOfCall' /\ CancelledGone'
      BY <2>1, <2>2, <3>1, AnswerStep
    <3>3. OneHome' /\ NothingLost' /\ FrozenHere'
      BY <2>1, <2>2, <3>1 DEF TransferInv, OneHome, NothingLost, FrozenHere
    <3>4. QED
      BY <3>2, <3>3 DEF TransferInv
  <2>3. CASE ~(out.id = r.id /\ out.state # "committed")
    <3>1. Answer(r, Refused) /\ UNCHANGED <<post, out, into, arrived>>
      BY <1>4, <2>3 DEF Cancels
    <3>2. QED
      BY <1>1, <3>1, AnswerStep, VolatileStep
  <2>4. QED
    BY <2>2, <2>3
<1>5. CASE CommitArrives(r)
  <2>1. UNCHANGED <<post, out, into, arrived>> /\ r.op = "commit"
    BY <1>5 DEF CommitArrives
  <2>2. CASE out.id = r.id /\ out.state # "committed"
    <3>1. /\ requests' = (requests \ {r})
                           \cup {[r EXCEPT !.at = "asks", !.digest = out.digest]}
          /\ UNCHANGED calls
      BY <1>5, <2>2 DEF CommitArrives
    <3>2. QED
      BY <2>1, <3>1, RequestStep, VolatileStep
  <2>3. CASE ~(out.id = r.id /\ out.state # "committed")
    <3>1. PICK answer \in {out, Refused} : Answer(r, answer)
      BY <1>5, <2>3 DEF CommitArrives
    <3>2. QED
      BY <1>1, <2>1, <3>1, AnswerStep, VolatileStep
  <2>4. QED
    BY <2>2, <2>3
<1>6. CASE Proves(r)
  <2>1. UNCHANGED <<post, out, into, arrived>> /\ r.op = "commit" /\ r.at = "asks"
    BY <1>6 DEF Proves
  <2>2. \/ /\ requests' = (requests \ {r}) \cup {[r EXCEPT !.at = "proven"]}
           /\ UNCHANGED calls
           /\ into.state = "staged" /\ into.id = r.id /\ into.digest = r.digest
           /\ into.place = r.place
        \/ Answer(r, Refused)
    BY <1>6 DEF Proves
  <2>3. CASE Answer(r, Refused)
    BY <1>1, <2>1, <2>3, AnswerStep, VolatileStep
  <2>4. CASE ~Answer(r, Refused)
    BY <2>1, <2>2, <2>4, RequestStep, VolatileStep
  <2>5. QED
    BY <2>3, <2>4
<1>7. CASE Commits(r)
  <2> DEFINE row == [out EXCEPT !.state = "committed", !.place = r.place]
  <2>1. /\ row.state = "committed" /\ row.id = out.id /\ row.digest = out.digest
        /\ row.place = r.place
    BY <1>1 DEF Outs
  <2>2. UNCHANGED <<into, arrived>> /\ r.op = "commit" /\ r.at = "proven"
    BY <1>7 DEF Commits
  <2>3. CASE out.id = r.id /\ out.state = "prepared"
    <3>1. out' = row /\ post' = 0 /\ Answer(r, row)
      BY <1>7, <2>3 DEF Commits
    <3>2. ToldForGood' /\ AskedOfRow' /\ ProvenStaged' /\ CancelOfCall' /\ CancelledGone'
      BY <2>1, <2>2, <2>3, <3>1, AnswerStep
    <3>3. into.state = "staged" /\ into.id = r.id /\ into.digest = out.digest
          /\ into.place = r.place
      BY <2>2, <2>3 DEF TransferInv, ProvenStaged, Concerns
    <3>4. OneHome' /\ NothingLost' /\ FrozenHere'
      BY <2>1, <2>2, <2>3, <3>1, <3>3 DEF TransferInv, OneHome, NothingLost, FrozenHere
    <3>5. QED
      BY <3>2, <3>4 DEF TransferInv
  <2>4. CASE ~(out.id = r.id /\ out.state = "prepared")
    <3>1. UNCHANGED <<post, out>>
      BY <1>7, <2>4 DEF Commits
    <3>2. PICK answer \in {out, Refused} : Answer(r, answer)
      BY <1>7, <2>4 DEF Commits
    <3>3. QED
      BY <1>1, <2>2, <3>1, <3>2, AnswerStep, VolatileStep
  <2>5. QED
    BY <2>3, <2>4
<1>8. QED
  BY <1>2, <1>3, <1>4, <1>5, <1>6, <1>7 DEF Handles

(* The new home stages, or finds another row in the way. *)
LEMMA StagesInv ==
  ASSUME TransferInv, TypeOK', NEW k \in Calls, NEW id, NEW digest, Stages(k, id, digest),
         UNCHANGED <<post, out>>
  PROVE  TransferInv'
<1> DEFINE place == IF into.id = id THEN into.place ELSE New(UsedPlaces)
           staging == \/ into.state = "none"
                      \/ into.id = id /\ into.state = "staged" /\ into.digest = digest
<1>1. CASE staging
  <2>1. /\ into' = [state |-> "staged", id |-> id, digest |-> digest, place |-> place,
                    proof |-> k]
        /\ Sends(k, "commit", id, place, digest) /\ UNCHANGED arrived
    BY <1>1 DEF Stages
  <2>2. ToldForGood' /\ AskedOfRow' /\ CancelOfCall' /\ CancelledGone'
    BY <2>1, SendStep
  <2>3. into.state # "none" =>
          /\ into'.state = into.state /\ into'.id = into.id /\ into'.digest = into.digest
          /\ into'.place = into.place
    BY <1>1, <2>1
  <2>4. OneHome' /\ NothingLost' /\ FrozenHere'
    BY <1>1, <2>1, <2>3 DEF TransferInv, OneHome, NothingLost, FrozenHere
  <2>5. ASSUME NEW q \in requests', Concerns(q)', q.at = "proven"
        PROVE  /\ into'.state = "staged" /\ into'.id = q.id /\ into'.digest = out.digest
               /\ into'.place = q.place
    <3>1. q \in requests
      BY <2>1, <2>5 DEF Sends
    <3>2. /\ into.state = "staged" /\ into.id = q.id /\ into.digest = out.digest
          /\ into.place = q.place
      BY <2>5, <3>1 DEF TransferInv, ProvenStaged, Concerns
    <3>3. QED
      BY <2>3, <3>2
  <2>6. ProvenStaged'
    BY <2>5 DEF ProvenStaged
  <2>7. QED
    BY <2>2, <2>4, <2>6 DEF TransferInv
<1>2. CASE ~staging
  <2>1. Ends(k) /\ UNCHANGED <<into, arrived>>
    BY <1>2 DEF Stages
  <2>2. ToldForGood' /\ AskedOfRow' /\ CancelOfCall' /\ CancelledGone'
    BY <2>1, CallStep DEF Ends
  <2>3. ProvenStaged'
    BY <2>1 DEF TransferInv, ProvenStaged, Concerns, Ends
  <2>4. QED
    BY <2>1, <2>2, <2>3, VolatileStep
<1>3. QED
  BY <1>1, <1>2

(* The new home shows what the old one has blanked. *)
LEMMA ActivatesInv ==
  ASSUME TransferInv, TypeOK', NEW k \in Calls, NEW status, Activates(k, status),
         UNCHANGED <<post, out>>, status.state = "committed" => out = status
  PROVE  TransferInv'
<1>1. /\ calls' = [calls EXCEPT ![k] = NoCall] /\ UNCHANGED requests
      /\ into \in Intos
  BY DEF Activates, Ends, TransferInv, TypeOK
<1>2. ToldForGood' /\ AskedOfRow' /\ CancelOfCall' /\ CancelledGone'
  BY <1>1, CallStep
<1>3. CASE UNCHANGED <<into, arrived>>
  <2>1. ProvenStaged'
    BY <1>1, <1>3 DEF TransferInv, ProvenStaged, Concerns
  <2>2. QED
    BY <1>2, <1>3, <2>1, VolatileStep
<1>4. CASE ~UNCHANGED <<into, arrived>>
  <2>1. /\ status.state = "committed" /\ into.id = status.id
        /\ into.digest = status.digest /\ into.place = status.place
        /\ into' = [into EXCEPT !.state = "active", !.proof = 0]
        /\ arrived' = into.digest.post
    BY <1>4 DEF Activates
  <2>2. /\ into'.state = "active" /\ into'.id = into.id /\ into'.digest = into.digest
        /\ into'.place = into.place
    BY <1>1, <2>1 DEF Intos
  <2>3. OneHome' /\ NothingLost' /\ FrozenHere'
    BY <2>1, <2>2 DEF TransferInv, OneHome, NothingLost, FrozenHere
  <2>4. ProvenStaged'
    BY <2>1 DEF ProvenStaged, Concerns
  <2>5. QED
    BY <1>2, <2>3, <2>4 DEF TransferInv
<1>5. QED
  BY <1>3, <1>4

(* A call ends, or asks for the durable status: nothing at either home changes. *)
LEMMA CallEndsInv ==
  ASSUME TransferInv, TypeOK', NEW k \in Calls, UNCHANGED <<post, out, into, arrived>>,
         Ends(k) \/ Confirms(k)
  PROVE  TransferInv'
<1>1. CASE Ends(k)
  <2>1. ToldForGood' /\ AskedOfRow' /\ CancelOfCall' /\ CancelledGone'
    BY <1>1, CallStep DEF Ends
  <2>2. ProvenStaged'
    BY <1>1 DEF TransferInv, ProvenStaged, Concerns, Ends
  <2>3. QED
    BY <2>1, <2>2, VolatileStep
<1>2. CASE Confirms(k)
  <2>1. Sends(k, "confirm", calls[k].id, 0, calls[k].digest)
    BY <1>2 DEF Confirms
  <2>2. ToldForGood' /\ AskedOfRow' /\ CancelOfCall' /\ CancelledGone'
    BY <2>1, SendStep
  <2>3. ProvenStaged'
    BY <2>1 DEF TransferInv, ProvenStaged, Concerns, Sends
  <2>4. QED
    BY <2>2, <2>3, VolatileStep
<1>3. QED
  BY <1>1, <1>2

(* A call of move_hosted_post takes its answer. *)
LEMMA MovesInv ==
  ASSUME TransferInv, TypeOK', NEW k \in Calls,
         \/ MovePrepared(k) \/ MoveAsked(k) \/ MoveCommitted(k) \/ MoveConfirmed(k)
  PROVE  TransferInv'
<1> DEFINE reply == calls[k].reply
<1>1. reply.state = "committed" => out = reply
  BY DEF TransferInv, ToldForGood
<1>2. UNCHANGED <<post, out>>
  BY DEF MovePrepared, MoveAsked, MoveCommitted, MoveConfirmed
<1>3. \/ Ends(k) /\ UNCHANGED <<into, arrived>>
      \/ Confirms(k)
      \/ Activates(k, reply)
      \/ Stages(k, reply.id, reply.digest)
      \/ Stages(k, calls[k].id, calls[k].digest)
  BY DEF MovePrepared, MoveAsked, MoveCommitted, MoveConfirmed
<1>4. CASE Ends(k) /\ UNCHANGED <<into, arrived>>
  BY <1>2, <1>4, CallEndsInv
<1>5. CASE Confirms(k)
  BY <1>2, <1>5, CallEndsInv DEF Confirms
<1>6. CASE Activates(k, reply)
  BY <1>1, <1>2, <1>6, ActivatesInv
<1>7. CASE Stages(k, reply.id, reply.digest)
  BY <1>2, <1>7, StagesInv
<1>8. CASE Stages(k, calls[k].id, calls[k].digest)
  BY <1>2, <1>8, StagesInv
<1>9. QED
  BY <1>3, <1>4, <1>5, <1>6, <1>7, <1>8

(* A confirmed cancellation is never of the transfer the old home has made. *)
LEMMA CancelConfirmedInv ==
  ASSUME TransferInv, TypeOK', NEW k \in Calls, CancelConfirmed(k)
  PROVE  TransferInv'
<1>1. /\ calls' = [calls EXCEPT ![k] = NoCall] /\ UNCHANGED requests
      /\ UNCHANGED <<post, out, arrived>>
  BY DEF CancelConfirmed, Ends
<1>2. ToldForGood' /\ AskedOfRow' /\ CancelOfCall' /\ CancelledGone'
  BY <1>1, CallStep
<1>3. CASE UNCHANGED into
  <2>1. ProvenStaged'
    BY <1>1, <1>3 DEF TransferInv, ProvenStaged, Concerns
  <2>2. QED
    BY <1>1, <1>2, <1>3, <2>1, VolatileStep
<1>4. CASE ~UNCHANGED into
  <2>1. into.id = calls[k].id
        /\ ~(out.id = calls[k].id /\ out.state \in {"prepared", "committed"})
    BY <1>4 DEF CancelConfirmed, TransferInv, CancelledGone
  <2>2. out.state # "committed"
    BY <2>1 DEF TransferInv, NothingLost
  <2>3. OneHome' /\ NothingLost' /\ FrozenHere'
    BY <1>1, <2>2 DEF TransferInv, OneHome, NothingLost, FrozenHere
  <2>4. ProvenStaged'
    BY <1>1, <2>1 DEF TransferInv, ProvenStaged, Concerns
  <2>5. QED
    BY <1>2, <2>3, <2>4 DEF TransferInv
<1>5. QED
  BY <1>3, <1>4

LEMMA InvStep == TransferInv /\ [Next]_vars => TransferInv'
<1> SUFFICES ASSUME TransferInv, [Next]_vars PROVE TransferInv'
  OBVIOUS
<1>1. TypeOK'
  BY TypeStep DEF TransferInv
<1>2. ASSUME NEW r \in requests, Handles(r) PROVE TransferInv'
  BY <1>1, <1>2, HandlesInv
<1>3. ASSUME NEW r \in requests, Lost(r) PROVE TransferInv'
  <2>1. requests' = requests \ {r} /\ UNCHANGED <<post, out, into, arrived, calls>>
    BY <1>3 DEF Lost
  <2>2. QED
    BY <1>1, <2>1, RequestStep, VolatileStep
<1>4. ASSUME NEW k \in Calls, MoveStarts(k) \/ CancelStarts(k) PROVE TransferInv'
  <2>1. PICK wait \in Waits, id \in Ids, digest \in Digests :
          Sends(k, wait, id, 0, digest) /\ (wait = "cancel" => Free(k))
    <3>1. into.id \in Ids /\ into.digest \in Digests /\ 0 \in Ids /\ NoDigest \in Digests
      BY DEF TransferInv, TypeOK, Intos, Ids, NoDigest, Digests
    <3>2. CASE MoveStarts(k)
      BY <3>1, <3>2 DEF MoveStarts, Waits
    <3>3. CASE CancelStarts(k)
      BY <3>1, <3>3 DEF CancelStarts, Waits
    <3>4. QED
      BY <1>4, <3>2, <3>3
  <2>2. UNCHANGED <<post, out, into, arrived>>
    BY <1>4 DEF MoveStarts, CancelStarts
  <2>3. ToldForGood' /\ AskedOfRow' /\ CancelOfCall' /\ CancelledGone'
    BY <2>1, <2>2, SendStep
  <2>4. ProvenStaged'
    BY <2>1, <2>2 DEF TransferInv, ProvenStaged, Concerns, Sends
  <2>5. QED
    BY <1>1, <2>2, <2>3, <2>4, VolatileStep
<1>5. ASSUME NEW k \in Calls, WithoutAnswer(k) PROVE TransferInv'
  <2>1. UNCHANGED <<post, out, into, arrived>> /\ (Ends(k) \/ Confirms(k))
    BY <1>5 DEF WithoutAnswer, Confirms
  <2>2. QED
    BY <1>1, <2>1, CallEndsInv
<1>6. ASSUME NEW k \in Calls, Goes(k) \/ GivesUp(k) PROVE TransferInv'
  <2>1. CASE TimesOut(k) \/ GivesUp(k)
    BY <1>5, <2>1 DEF TimesOut, GivesUp
  <2>2. CASE CancelConfirmed(k)
    BY <1>1, <2>2, CancelConfirmedInv
  <2>3. QED
    BY <1>1, <1>6, <2>1, <2>2, MovesInv DEF Goes
<1>7. ASSUME Dies PROVE TransferInv'
  <2>1. /\ calls' = [k \in Calls |-> NoCall]
        /\ UNCHANGED <<post, out, into, arrived, requests>>
        /\ \A r \in requests : r.from \in Calls
        /\ NoCall.at = "over" /\ NoCall.reply.state = "none"
    BY <1>7 DEF Dies, TransferInv, TypeOK, Requests, NoCall, NoOut
  <2>2. ToldForGood' /\ AskedOfRow' /\ ProvenStaged' /\ CancelOfCall' /\ CancelledGone'
    BY <2>1 DEF TransferInv, ToldForGood, AskedOfRow, ProvenStaged, Concerns,
                CancelOfCall, CancelledGone
  <2>3. QED
    BY <1>1, <2>1, <2>2, VolatileStep
<1>8. ASSUME Changed \/ Renamed PROVE TransferInv'
  <2>1. UNCHANGED <<out, into, arrived, calls, requests>>
    BY <1>8 DEF Changed, Renamed
  <2>2. post' = post \/ (post # 0 /\ out.state # "prepared")
    BY <1>8 DEF Changed, Renamed
  <2>3. QED
    BY <1>1, <2>1, <2>2
       DEF TransferInv, OneHome, NothingLost, FrozenHere, ToldForGood, AskedOfRow,
           ProvenStaged, Concerns, CancelOfCall, CancelledGone
<1>9. CASE UNCHANGED vars
  BY <1>1, <1>9
     DEF vars, TransferInv, OneHome, NothingLost, FrozenHere, ToldForGood, AskedOfRow,
         ProvenStaged, Concerns, CancelOfCall, CancelledGone
<1>10. QED
  BY <1>2, <1>3, <1>4, <1>6, <1>7, <1>8, <1>9 DEF Next

THEOREM TransferInvHolds == Spec => []TransferInv
<1>1. QED
  BY InvInit, InvStep, PTL DEF Spec

(* The post is never shown at the new home before the old one has blanked it. *)
THEOREM OneHomeHolds == Spec => []OneHome
<1>1. TransferInv => OneHome
  BY DEF TransferInv
<1>2. QED
  BY <1>1, TransferInvHolds, PTL

(* Once the old home has blanked the post, the new home holds what it said. *)
THEOREM NothingLostHolds == Spec => []NothingLost
<1>1. TransferInv => NothingLost
  BY DEF TransferInv
<1>2. QED
  BY <1>1, TransferInvHolds, PTL

-----------------------------------------------------------------------------
(* The transfer implements the handover *)

LEMMA HandoverInit == Init => H!Init
BY DEF Init, H!Init, Where, Says, NoOut

(* What a reader of both homes sees only changes with the old home's row and post, or
   with what the new home shows for a post that has left. *)
LEMMA HandoverSees ==
  ASSUME UNCHANGED <<post, out>>,
         out.state = "committed" =>
           \/ UNCHANGED <<into, arrived>>
           \/ into'.state = into.state /\ into'.digest = into.digest /\ arrived' = arrived
           \/ into.state # "active" /\ into'.state = "active" /\ arrived' = into.digest.post
  PROVE  UNCHANGED H!vars
BY DEF H!vars, Where, Says

LEMMA HandoverHandles ==
  ASSUME TransferInv, NEW r \in requests, Handles(r)
  PROVE  [H!Next]_(H!vars)
<1>1. TypeOK /\ out \in Outs /\ UNCHANGED <<into, arrived>>
  BY DEF TransferInv, TypeOK, Handles, Prepares, TellsStatus, Cancels, CommitArrives,
         Proves, Commits
<1>2. CASE UNCHANGED <<post, out>>
  BY <1>1, <1>2, HandoverSees
<1>3. CASE Prepares(r) /\ ~UNCHANGED <<post, out>>
  <2>1. /\ post # 0 /\ out.state # "prepared" /\ out'.state = "prepared" /\ post' = post
    BY <1>3 DEF Prepares
  <2>2. out.state # "committed"
    BY <2>1 DEF TransferInv, FrozenHere
  <2>3. QED
    BY <2>1, <2>2 DEF H!Next, H!Freeze, H!vars, Where, Says
<1>4. CASE Cancels(r) /\ ~UNCHANGED <<post, out>>
  <2>1. /\ out.state # "committed" /\ out' = [out EXCEPT !.state = "cancelled"]
        /\ post' = post
    BY <1>4 DEF Cancels
  <2>2. out'.state = "cancelled"
    BY <1>1, <2>1 DEF Outs
  <2>3. QED
    BY <2>1, <2>2 DEF H!Next, H!Thaw, H!vars, Where, Says
<1>5. CASE Commits(r) /\ ~UNCHANGED <<post, out>>
  <2>1. /\ r.op = "commit" /\ r.at = "proven" /\ out.id = r.id /\ out.state = "prepared"
        /\ out' = [out EXCEPT !.state = "committed", !.place = r.place]
    BY <1>5 DEF Commits
  <2>2. out'.state = "committed"
    BY <1>1, <2>1 DEF Outs
  <2>3. into.state = "staged" /\ into.digest = out.digest
    BY <2>1 DEF TransferInv, ProvenStaged, Concerns
  <2>4. post # 0 /\ post = out.digest.post
    BY <2>1 DEF TransferInv, FrozenHere
  <2>5. QED
    BY <1>1, <2>1, <2>2, <2>3, <2>4 DEF H!Next, H!Move, H!vars, Where, Says
<1>6. QED
  BY <1>2, <1>3, <1>4, <1>5 DEF Handles, TellsStatus, CommitArrives, Proves

LEMMA HandoverStages ==
  ASSUME TransferInv, NEW k \in Calls, NEW id, NEW digest, Stages(k, id, digest),
         UNCHANGED <<post, out>>
  PROVE  UNCHANGED H!vars
<1>1. out.state = "committed" => into.state \in {"staged", "active"}
  BY DEF TransferInv, NothingLost
<1>2. \/ into.state = "none" /\ UNCHANGED arrived
      \/ into.state = "staged" /\ into'.state = "staged" /\ into'.digest = into.digest
           /\ UNCHANGED arrived
      \/ UNCHANGED <<into, arrived>>
  BY DEF Stages
<1>3. QED
  BY <1>1, <1>2, HandoverSees

LEMMA HandoverActivates ==
  ASSUME TransferInv, NEW k \in Calls, NEW status, Activates(k, status),
         UNCHANGED <<post, out>>
  PROVE  UNCHANGED H!vars
<1>1. into \in Intos
  BY DEF TransferInv, TypeOK
<1>2. \/ UNCHANGED <<into, arrived>>
      \/ into.state = "staged" /\ into'.state = "active" /\ arrived' = into.digest.post
  BY <1>1 DEF Activates, Intos
<1>3. QED
  BY <1>2, HandoverSees

LEMMA HandoverStep == TransferInv /\ [Next]_vars => [H!Next]_(H!vars)
<1> SUFFICES ASSUME TransferInv, [Next]_vars PROVE [H!Next]_(H!vars)
  OBVIOUS
<1>1. ASSUME NEW r \in requests, Handles(r) PROVE [H!Next]_(H!vars)
  BY <1>1, HandoverHandles
<1>2. CASE UNCHANGED <<post, out, into, arrived>>
  BY <1>2, HandoverSees
<1>3. ASSUME NEW k \in Calls,
             MovePrepared(k) \/ MoveAsked(k) \/ MoveCommitted(k) \/ MoveConfirmed(k)
      PROVE  [H!Next]_(H!vars)
  <2>1. UNCHANGED <<post, out>>
    BY <1>3 DEF MovePrepared, MoveAsked, MoveCommitted, MoveConfirmed
  <2>2. \/ UNCHANGED <<into, arrived>>
        \/ Activates(k, calls[k].reply)
        \/ Stages(k, calls[k].reply.id, calls[k].reply.digest)
        \/ Stages(k, calls[k].id, calls[k].digest)
    BY <1>3 DEF MovePrepared, MoveAsked, MoveCommitted, MoveConfirmed, Confirms
  <2>3. QED
    BY <1>2, <2>1, <2>2, HandoverStages, HandoverActivates
<1>4. ASSUME NEW k \in Calls, CancelConfirmed(k) PROVE [H!Next]_(H!vars)
  <2>1. UNCHANGED <<post, out, arrived>>
    BY <1>4 DEF CancelConfirmed
  <2>2. out.state = "committed" => UNCHANGED into
    BY <1>4 DEF CancelConfirmed, TransferInv, CancelledGone, NothingLost
  <2>3. QED
    BY <2>1, <2>2, HandoverSees
<1>5. ASSUME NEW k \in Calls, TimesOut(k) \/ GivesUp(k) \/ MoveStarts(k) \/ CancelStarts(k)
      PROVE  UNCHANGED <<post, out, into, arrived>>
  BY <1>5 DEF TimesOut, GivesUp, WithoutAnswer, Confirms, MoveStarts, CancelStarts
<1>6. ASSUME Changed PROVE [H!Next]_(H!vars)
  <2>1. /\ post # 0 /\ out.state # "prepared" /\ post' \in {0, post + 1}
        /\ UNCHANGED <<out, into, arrived>>
    BY <1>6 DEF Changed
  <2>2. out.state # "committed" /\ post \in Nat
    BY <2>1 DEF TransferInv, FrozenHere, TypeOK
  <2>3. CASE post' = 0
    BY <2>1, <2>2, <2>3 DEF H!Next, H!Withdraw, H!vars, Where, Says
  <2>4. CASE post' = post + 1
    BY <2>1, <2>2, <2>4 DEF H!Next, H!Change, H!vars, Where, Says
  <2>5. QED
    BY <2>1, <2>3, <2>4
<1>7. ASSUME \/ \E r \in requests : Lost(r)
             \/ Dies \/ Renamed \/ UNCHANGED vars
      PROVE  UNCHANGED <<post, out, into, arrived>>
  BY <1>7 DEF Lost, Dies, Renamed, vars
<1>8. QED
  BY <1>1, <1>2, <1>3, <1>4, <1>5, <1>6, <1>7 DEF Next, Goes

(* A transfer is a handover: whatever is lost, repeated, cancelled or late, the post is
   frozen, thawed and moved as Handover says, and what arrives is what was frozen. *)
THEOREM HandoverImplemented == Spec => ImplementsHandover
<1>1. QED
  BY HandoverInit, HandoverStep, TransferInvHolds, PTL
     DEF Spec, ImplementsHandover, H!Spec
=============================================================================
