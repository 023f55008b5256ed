---------------------------- MODULE PostTransfer ----------------------------
(***************************************************************************)
(* The transfer of one post from a public wall that hosts it to its author's *)
(* own home (social_feed/migration.py, transfer_runner.py, public_gateway.py, *)
(* routers/social_sites_router.py).  The old home keeps the post and a row of *)
(* the transfer out, the new home a row of the transfer in; each is changed  *)
(* in one transaction.  Between the two there are only the requests of the   *)
(* new home: calls of move_hosted_post and of the cancellation, any number    *)
(* of them at once, each of which sends a request, awaits its reply and may   *)
(* lose either; a request that its call no longer awaits may still be         *)
(* handled later.                                                            *)
(***************************************************************************)
EXTENDS Integers, FiniteSets

CONSTANTS
  Calls,           \* bound: calls of the new home's owner that may be under way at once
  Names,           \* bound: identifiers in use at once (uuid4, so that a new one is one
                   \* that nothing holds)
  MaxDisturbances  \* bound: changes of the post and of names, withdrawals,
                   \* cancellations, lost requests and replies, deaths, all together

ASSUME TransferAssumption ==
  /\ Names \subseteq Nat \ {0}
  /\ MaxDisturbances \in Nat

VARIABLES
  post,      \* wall_moments at the old home: what the post says, 0 when it is withdrawn
  people,    \* the display names a snapshot would have
  out,       \* wall_transfer_out at the old home: the row of the post
  into,      \* wall_transfer_in at the new home: the row of the post
  arrived,   \* wall_moments at the new home: what it says there, 0 before
  calls,     \* volatile: move_hosted_post and cancel_migration at the new home
  requests,  \* requests on their way to the old home or being handled there
  disturbances

vars == <<post, people, out, into, arrived, calls, requests, disturbances>>

-----------------------------------------------------------------------------
(* Rows *)

NoDigest == [post |-> 0, people |-> 0]
Digests == [post : Nat, people : Nat]
Ids == Names \cup {0}

NoOut == [state |-> "none", id |-> 0, digest |-> NoDigest, place |-> 0]
Refused == [NoOut EXCEPT !.state = "refused"]
Outs == [state : {"none", "prepared", "committed", "cancelled"}, id : Ids,
         digest : Digests, place : Ids]

(* The answer of the old home is a row of the transfer or an HTTP error. *)
Answers == Outs \cup {Refused}

(* place is the destination_moment_id, proof the call that holds the proof whose hash
   the row has. *)
NoInto == [state |-> "none", id |-> 0, digest |-> NoDigest, place |-> 0, proof |-> 0]
Intos == [state : {"none", "staged", "active"}, id : Ids, digest : Digests, place : Ids,
          proof : Calls \cup {0}]

(* What a call awaits, of which transfer, and the answer once it is there. *)
Waits == {"prepare", "ask", "commit", "confirm", "cancel"}
NoCall == [at |-> "over", id |-> 0, digest |-> NoDigest, reply |-> NoOut]
CallRows == [at : Waits \cup {"over"}, id : Ids, digest : Digests, reply : Answers]

(* at: the commit first asks the new home for the proof of its row. *)
Requests == [from : Calls, op : Waits, id : Ids, place : Ids, digest : Digests,
             at : {"sent", "asks", "proven"}]

UsedIds ==
  {out.id, into.id} \cup {calls[k].id : k \in Calls} \cup {calls[k].reply.id : k \in Calls}
    \cup {r.id : r \in requests}
UsedPlaces ==
  {out.place, into.place} \cup {calls[k].reply.place : k \in Calls}
    \cup {r.place : r \in requests}
New(used) == CHOOSE n \in Names : n \notin used

Disturb == disturbances < MaxDisturbances /\ disturbances' = disturbances + 1

-----------------------------------------------------------------------------
(* The old home handles a request *)

Answer(r, answer) ==
  /\ requests' = requests \ {r}
  /\ calls' = IF calls[r.from].at = r.op THEN [calls EXCEPT ![r.from].reply = answer]
              ELSE calls

(* migration.prepare: the same transfer again if it was prepared already, as long as
   the snapshot is still the same. *)
Prepares(r) ==
  LET now == [post |-> post, people |-> people]
      row == IF out.state = "prepared" THEN out
             ELSE [state |-> "prepared", id |-> New(UsedIds), digest |-> now, place |-> 0]
  IN
  /\ r.op = "prepare" /\ (out.state # "prepared" => Names \ UsedIds # {})
  /\ IF post # 0 /\ row.digest = now
       THEN out' = row /\ Answer(r, row)
       ELSE Answer(r, Refused) /\ UNCHANGED out
  /\ UNCHANGED <<post, people, into, arrived, disturbances>>

(* migration.outbound_status *)
TellsStatus(r) ==
  /\ r.op \in {"ask", "confirm"}
  /\ Answer(r, IF out.id = r.id THEN out ELSE Refused)
  /\ UNCHANGED <<post, people, out, into, arrived, disturbances>>

(* migration.cancel *)
Cancels(r) ==
  /\ r.op = "cancel"
  /\ IF out.id = r.id /\ out.state # "committed"
       THEN /\ out' = [out EXCEPT !.state = "cancelled"]
            /\ Answer(r, [out EXCEPT !.state = "cancelled"])
       ELSE Answer(r, Refused) /\ UNCHANGED out
  /\ UNCHANGED <<post, people, into, arrived, disturbances>>

(* transfer_commit reads the status and, unless it is over, goes to the new home. *)
CommitArrives(r) ==
  /\ r.op = "commit" /\ r.at = "sent"
  /\ IF out.id = r.id /\ out.state # "committed"
       THEN /\ requests' = (requests \ {r}) \cup {[r EXCEPT !.at = "asks", !.digest = out.digest]}
            /\ UNCHANGED calls
       ELSE Answer(r, IF out.id = r.id /\ out.place = r.place THEN out ELSE Refused)
  /\ UNCHANGED <<post, people, out, into, arrived, disturbances>>

(* verify_remote_stage and, at the new home, migration.prove: an active row has no
   proof left. *)
Proves(r) ==
  /\ r.op = "commit" /\ r.at = "asks"
  /\ IF /\ into.state = "staged" /\ into.id = r.id /\ into.digest = r.digest
        /\ into.place = r.place /\ into.proof = r.from
       THEN requests' = (requests \ {r}) \cup {[r EXCEPT !.at = "proven"]} /\ UNCHANGED calls
       ELSE Answer(r, Refused)
  /\ UNCHANGED <<post, people, out, into, arrived, disturbances>>

(* Mutants: the state is not looked at again after the proof was awaited; the post is
   not blanked. *)
CommitsAnyway(r) ==
  LET row == [out EXCEPT !.state = "committed", !.place = r.place] IN
  /\ r.op = "commit" /\ r.at = "proven"
  /\ IF out.id = r.id THEN out' = row /\ post' = 0 /\ Answer(r, row)
     ELSE Answer(r, Refused) /\ UNCHANGED <<post, out>>
  /\ UNCHANGED <<people, into, arrived, disturbances>>

CommitsKeeping(r) ==
  LET row == [out EXCEPT !.state = "committed", !.place = r.place] IN
  /\ r.op = "commit" /\ r.at = "proven"
  /\ IF out.id = r.id /\ out.state = "prepared"
       THEN out' = row /\ Answer(r, row)
       ELSE Answer(r, IF out = row THEN out ELSE Refused) /\ UNCHANGED out
  /\ UNCHANGED <<post, people, into, arrived, disturbances>>

(* migration.commit: the row is looked at again; the post is blanked with it. *)
Commits(r) ==
  LET row == [out EXCEPT !.state = "committed", !.place = r.place] IN
  /\ r.op = "commit" /\ r.at = "proven"
  /\ IF out.id = r.id /\ out.state = "prepared"
       THEN out' = row /\ post' = 0 /\ Answer(r, row)
       ELSE /\ Answer(r, IF out = row THEN out ELSE Refused)
            /\ UNCHANGED <<post, out>>
  /\ UNCHANGED <<people, into, arrived, disturbances>>

Handles(r) ==
  Prepares(r) \/ TellsStatus(r) \/ Cancels(r) \/ CommitArrives(r) \/ Proves(r) \/ Commits(r)

(* The request does not come through, or the old home dies while it handles it. *)
Lost(r) ==
  /\ Disturb
  /\ requests' = requests \ {r}
  /\ UNCHANGED <<post, people, out, into, arrived, calls>>

-----------------------------------------------------------------------------
(* The new home *)

Free(k) == calls[k].at = "over" /\ \A r \in requests : r.from # k

Sends(k, wait, id, place, digest) ==
  /\ calls' = [calls EXCEPT ![k] = [at |-> wait, id |-> id, digest |-> digest, reply |-> NoOut]]
  /\ requests' = requests \cup {[from |-> k, op |-> wait, id |-> id, place |-> place,
                                 digest |-> NoDigest, at |-> "sent"]}

Ends(k) == calls' = [calls EXCEPT ![k] = NoCall] /\ UNCHANGED requests

(* move_hosted_post: a row of an earlier attempt is taken up, or the transfer prepared. *)
MoveStarts(k) ==
  /\ Free(k)
  /\ IF into.state = "none" THEN Sends(k, "prepare", 0, 0, NoDigest)
     ELSE Sends(k, "ask", into.id, 0, into.digest)
  /\ UNCHANGED <<post, people, out, into, arrived, disturbances>>

(* migration.stage, then the commit is asked for: a row of the same transfer gets a new
   proof; a row of another one is in the way (UNIQUE). *)
Stages(k, id, digest) ==
  LET place == IF into.id = id THEN into.place ELSE New(UsedPlaces) IN
  /\ into.id # id => Names \ UsedPlaces # {}
  /\ IF into.state = "none" \/ (into.id = id /\ into.state = "staged" /\ into.digest = digest)
       THEN /\ into' = [state |-> "staged", id |-> id, digest |-> digest, place |-> place,
                        proof |-> k]
            /\ Sends(k, "commit", id, place, digest)
       ELSE Ends(k) /\ UNCHANGED into
  /\ UNCHANGED arrived

(* migration.activate, with the status the old home told. *)
Activates(k, status) ==
  /\ IF /\ status.state = "committed" /\ into.state = "staged" /\ into.id = status.id
        /\ into.digest = status.digest /\ into.place = status.place
       THEN /\ into' = [into EXCEPT !.state = "active", !.proof = 0]
            /\ arrived' = into.digest.post
       ELSE UNCHANGED <<into, arrived>>
  /\ Ends(k)

MovePrepared(k) ==
  LET reply == calls[k].reply IN
  /\ calls[k].at = "prepare" /\ reply # NoOut
  /\ IF reply = Refused THEN Ends(k) /\ UNCHANGED <<into, arrived>>
     ELSE Stages(k, reply.id, reply.digest)
  /\ UNCHANGED <<post, people, out, disturbances>>

(* Mutant: only a transfer that is still prepared is taken up again. *)
MoveAskedOnce(k) ==
  LET reply == calls[k].reply IN
  /\ calls[k].at = "ask" /\ reply # NoOut
  /\ IF reply.state = "prepared" THEN Stages(k, calls[k].id, calls[k].digest)
     ELSE Ends(k) /\ UNCHANGED <<into, arrived>>
  /\ UNCHANGED <<post, people, out, disturbances>>

(* The status of an earlier attempt: it is over there, or goes on, or cannot. *)
MoveAsked(k) ==
  LET reply == calls[k].reply IN
  /\ calls[k].at = "ask" /\ reply # NoOut
  /\ CASE reply.state = "committed" -> Activates(k, reply)
       [] reply.state = "prepared" -> Stages(k, calls[k].id, calls[k].digest)
       [] OTHER -> Ends(k) /\ UNCHANGED <<into, arrived>>
  /\ UNCHANGED <<post, people, out, disturbances>>

(* After a commit whose answer was an error or did not come, the durable status. *)
Confirms(k) ==
  Sends(k, "confirm", calls[k].id, 0, calls[k].digest) /\ UNCHANGED <<into, arrived>>

MoveCommitted(k) ==
  LET reply == calls[k].reply IN
  /\ calls[k].at = "commit" /\ reply # NoOut
  /\ IF reply = Refused THEN Confirms(k) ELSE Activates(k, reply)
  /\ UNCHANGED <<post, people, out, disturbances>>

MoveConfirmed(k) ==
  LET reply == calls[k].reply IN
  /\ calls[k].at = "confirm" /\ reply # NoOut
  /\ IF reply.state = "committed" THEN Activates(k, reply)
     ELSE Ends(k) /\ UNCHANGED <<into, arrived>>
  /\ UNCHANGED <<post, people, out, disturbances>>

(* cancel_migration: only a row that is staged is listed and cancelled. *)
CancelStarts(k) ==
  /\ Free(k) /\ into.state = "staged"
  /\ Disturb
  /\ Sends(k, "cancel", into.id, 0, into.digest)
  /\ UNCHANGED <<post, people, out, into, arrived>>

(* migration.discard_staged, once the old home has confirmed. *)
CancelConfirmed(k) ==
  /\ calls[k].at = "cancel" /\ calls[k].reply # NoOut
  /\ into' = IF /\ calls[k].reply.state = "cancelled"
                /\ into.id = calls[k].id /\ into.state = "staged"
             THEN NoInto ELSE into
  /\ Ends(k)
  /\ UNCHANGED <<post, people, out, arrived, disturbances>>

(* No answer comes: a commit may have been made all the same. *)
WithoutAnswer(k) ==
  /\ calls[k].at # "over"
  /\ IF calls[k].at = "commit" THEN Confirms(k) ELSE Ends(k) /\ UNCHANGED <<into, arrived>>
  /\ UNCHANGED <<post, people, out>>

TimesOut(k) ==
  /\ calls[k].reply = NoOut
  /\ \A r \in requests : r.from = k => r.op # calls[k].at
  /\ WithoutAnswer(k)
  /\ UNCHANGED disturbances

(* The answer is late or lost. *)
GivesUp(k) == WithoutAnswer(k) /\ Disturb

Goes(k) ==
  MovePrepared(k) \/ MoveAsked(k) \/ MoveCommitted(k) \/ MoveConfirmed(k)
    \/ CancelConfirmed(k) \/ TimesOut(k)

(* The process of the new home dies and is started again. *)
Dies ==
  /\ Disturb
  /\ calls' = [k \in Calls |-> NoCall]
  /\ UNCHANGED <<post, people, out, into, arrived, requests>>

-----------------------------------------------------------------------------
(* The visitors of the old home *)

(* Mutant: the post can be changed while its transfer is prepared. *)
ChangedAnyway ==
  /\ post # 0
  /\ Disturb
  /\ post' \in {0, post + 1}
  /\ UNCHANGED <<people, out, into, arrived, calls, requests>>

(* edit_moment, add_comment, delete_comment, set_like, withdraw: assert_mutable. *)
Changed ==
  /\ post # 0 /\ out.state # "prepared"
  /\ Disturb
  /\ post' \in {0, post + 1}
  /\ UNCHANGED <<people, out, into, arrived, calls, requests>>

(* set_profile: a name in the snapshot is not part of the post. *)
Renamed ==
  /\ Disturb
  /\ people' = people + 1
  /\ UNCHANGED <<post, out, into, arrived, calls, requests>>

-----------------------------------------------------------------------------
Init ==
  /\ post = 1 /\ people = 0
  /\ out = NoOut /\ into = NoInto /\ arrived = 0
  /\ calls = [k \in Calls |-> NoCall]
  /\ requests = {}
  /\ disturbances = 0

Next ==
  \/ \E r \in requests : Handles(r) \/ Lost(r)
  \/ \E k \in Calls : MoveStarts(k) \/ CancelStarts(k) \/ Goes(k) \/ GivesUp(k)
  \/ Dies \/ Changed \/ Renamed

Spec == Init /\ [][Next]_vars

(* The owner moves the post again as long as it has not arrived; a request that is not
   lost is handled, and a call goes on when its answer comes or its time is over. *)
Fairness ==
  /\ WF_vars(\E k \in Calls : MoveStarts(k))
  /\ \A k \in Calls : WF_vars(Goes(k)) /\ WF_vars(\E r \in requests : r.from = k /\ Handles(r))

FairSpec == Spec /\ Fairness

-----------------------------------------------------------------------------
(* Properties *)

(* The rows and the volatile records have their types. *)
TypeOK ==
  /\ post \in Nat /\ people \in Nat /\ arrived \in Nat
  /\ out \in Outs
  /\ into \in Intos
  /\ calls \in [Calls -> CallRows]
  /\ requests \subseteq Requests
  /\ disturbances \in 0..MaxDisturbances

(* Never at two homes: what is shown at the new home is blanked at the old one. *)
OneHome == arrived # 0 => out.state = "committed" /\ post = 0

(* Never at none: once the old home has blanked the post, the new home holds what it
   said, under the name the old home was told, whatever was cancelled, discarded,
   staged again or lost meanwhile. *)
NothingLost ==
  out.state = "committed" =>
    /\ into.state \in {"staged", "active"}
    /\ into.id = out.id /\ into.digest = out.digest /\ into.place = out.place
    /\ into.state = "active" => arrived = out.digest.post

(* A transfer to the end is a handover of the post as it was when it was frozen. *)
Where == IF out.state = "committed" THEN "new" ELSE IF post = 0 THEN "withdrawn" ELSE "old"
Says ==
  IF out.state # "committed" THEN post
  ELSE IF into.state = "active" THEN arrived ELSE into.digest.post

H == INSTANCE Handover
       WITH home <- Where, text <- Says, frozen <- out.state = "prepared"
ImplementsHandover == H!Spec

(* What has left the old home is shown at the new one, if the move is tried again. *)
Arrives == out.state = "committed" ~> arrived # 0

(* A frozen post is moved or thawed, if the move is tried again. *)
FrozenEnds == out.state = "prepared" ~> out.state # "prepared"
=============================================================================
