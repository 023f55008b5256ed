---------------------------- MODULE CognitionBooks ----------------------------
(***************************************************************************)
(* The maintenance of the cognition books: each day has a run over the world *)
(* book, whose proposals are reviewed and may wait for a person, and a run   *)
(* over the self book, which nobody reviews.  A run is resumed from its      *)
(* checkpoint when it is started again.  A person edits, deletes and         *)
(* restores entries and decides on the items of the ledger, by requests that *)
(* run in threads of their own: they come in wherever books.LOCK is free,    *)
(* between two writes of a run too, and may be sent again.                   *)
(*                                                                          *)
(* A run makes one proposal.  A step that makes several writes may end with  *)
(* the death of the process after any of them.                               *)
(***************************************************************************)
EXTENDS BookLedger

CONSTANT MaxDisturbances  \* bound: deaths, failing calls, requests by hand and
                          \* previews, all together

ASSUME DisturbancesAssumption == MaxDisturbances \in Nat

VARIABLES
  runs,      \* cognition_maintenance/runs and subjective_runs: the checkpoints
  lane,      \* volatile: the run under way in each book, under its asyncio.Lock
  requests,  \* the edits and deletions a person has asked for, to be sent or sent again
  preview,   \* volatile: a signed preview that a person has in hand
  disturbances

laneVars == <<runs, lane, requests, preview, disturbances>>
vars == <<bookVars, laneVars>>

-----------------------------------------------------------------------------
(* Checkpoints and processes *)

RunIds == Books \X (1..MaxRun)

(* status, the proposal (proposals, output), its review, and the revision of the
   catalogue that the review saw or the output was made on (snapshot). *)
NewRun == [status |-> "none", body |-> "none", review |-> "none", seen |-> 0]
RunRows == [status : {"none", "running", "error", "completed"}, body : Bodies \cup {"none"},
            review : {"none", "auto", "person", "observe"}, seen : Nat]

(* The run under way: it awaits the extraction or the review, or has come to its
   item, to the commit of a new one, or to its end. *)
NoLane == [at |-> "none", run |-> 0, seen |-> 0]
Lanes == [at : {"none", "extract", "review", "item", "commit", "finish"},
          run : 0..MaxRun, seen : Nat]

NoPreview ==
  [id |-> Lane("world", 0, "none"), over |-> 0, item |-> Item("rejected", 0, FALSE)]
Previews == [id : Ids, over : Nat, item : Items]

Current(b) == <<b, lane[b].run>>
ItemOf(b) == Lane(b, lane[b].run, runs[Current(b)].body)

Disturb ==
  disturbances < MaxDisturbances /\ disturbances' = disturbances + 1

(* After saved of the n writes of a step: it is done and leaves the processes as
   after, or the process has died. *)
Whole(saved, n, after) ==
  IF saved = n
    THEN lane' = after /\ UNCHANGED <<preview, disturbances>>
    ELSE lane' = [b \in Books |-> NoLane] /\ preview' = NoPreview /\ Disturb

Goes(b, at) == [lane EXCEPT ![b].at = at]

-----------------------------------------------------------------------------
(* A run starts, asks the model, ends: maintenance.run_evidence, autonomous.run_evidence *)

(* Mutant: a checkpoint that a death left running is not taken up again. *)
StartSettled(b, n) ==
  /\ lane[b].at = "none" /\ runs[<<b, n>>].status \in {"none", "error"}
  /\ runs' = [runs EXCEPT ![<<b, n>>].status = "running"]
  /\ LET run == runs[<<b, n>>]
         at == IF run.body = "none" THEN "extract"
               ELSE IF b = "world" /\ run.review = "none" THEN "review" ELSE "item"
     IN  lane' = [lane EXCEPT ![b] = [at |-> at, run |-> n, seen |-> files[b]]]
  /\ UNCHANGED <<bookVars, requests, preview, disturbances>>

Start(b, n) ==
  /\ lane[b].at = "none" /\ runs[<<b, n>>].status # "completed"
  /\ runs' = [runs EXCEPT ![<<b, n>>].status = "running"]
  /\ LET run == runs[<<b, n>>]
         at == IF run.body = "none" THEN "extract"
               ELSE IF b = "world" /\ run.review = "none" THEN "review" ELSE "item"
     IN  lane' = [lane EXCEPT ![b] = [at |-> at, run |-> n, seen |-> files[b]]]
  /\ UNCHANGED <<bookVars, requests, preview, disturbances>>

(* The model has made its proposal; the self lane keeps the catalogue with it, and
   goes on to its item without waiting. *)
Extracted(b) ==
  /\ lane[b].at = "extract"
  /\ \E body \in Bodies :
       runs' = [runs EXCEPT ![Current(b)].body = body,
                            ![Current(b)].seen = IF b = "self" THEN lane[b].seen ELSE @]
  /\ lane' = Goes(b, IF b = "self" THEN "item" ELSE "review")
  /\ UNCHANGED <<bookVars, requests, preview, disturbances>>

(* The second model has reviewed it, against the catalogue this attempt began with. *)
Reviewed ==
  /\ lane["world"].at = "review"
  /\ \E review \in {"auto", "person", "observe"} :
       runs' = [runs EXCEPT ![Current("world")].review = review,
                            ![Current("world")].seen = lane["world"].seen]
  /\ lane' = Goes("world", "item")
  /\ UNCHANGED <<bookVars, requests, preview, disturbances>>

(* A call fails or is cancelled: the checkpoint stays. *)
CallFails(b) ==
  /\ lane[b].at \in {"extract", "review"}
  /\ Disturb
  /\ runs' = [runs EXCEPT ![Current(b)].status = "error"]
  /\ lane' = [lane EXCEPT ![b] = NoLane]
  /\ UNCHANGED <<bookVars, requests, preview>>

Finish(b) ==
  /\ lane[b].at = "finish"
  /\ runs' = [runs EXCEPT ![Current(b)].status = "completed"]
  /\ lane' = [lane EXCEPT ![b] = NoLane]
  /\ UNCHANGED <<bookVars, requests, preview, disturbances>>

(* What an exception leaves: a conflict makes the self lane ask anew. *)
Raised(b, outcome) ==
  IF b = "self" /\ outcome = "conflict"
    THEN [NewRun EXCEPT !.status = "error"] ELSE [runs[Current(b)] EXCEPT !.status = "error"]

(* maintenance.commit called by a run.  The world lane takes a conflict for an item
   that waits for a person. *)
LaneCommits(b, i, over, automatic, saved, n) ==
  LET outcome == Outcome(i, over)
      goesOn == outcome \in {"there", "saves"} \/ (b = "world" /\ outcome = "conflict")
  IN  /\ Committed(i, over, automatic, saved - (n - 3))
      /\ Whole(saved, n, IF goesOn THEN Goes(b, "finish") ELSE [lane EXCEPT ![b] = NoLane])
      /\ runs' = IF goesOn \/ saved < n THEN runs
                 ELSE [runs EXCEPT ![Current(b)] = Raised(b, outcome)]

-----------------------------------------------------------------------------
(* The world lane comes to its item *)

(* Mutant: the review's catalogue is not compared. *)
AutoUnseen(i) == runs[Current("world")].review = "auto"

(* auto_reason *)
MayAutoApply(i) ==
  runs[Current("world")].review = "auto" /\ runs[Current("world")].seen = files["world"]

(* An item on record is only taken up again if its commit was under way. *)
WorldResumes ==
  LET i == ItemOf("world") IN
  /\ lane["world"].at = "item" /\ i \in DOMAIN ledger
  /\ IF ledger[i].status = "applying"
       THEN \E saved \in 0..3 :
              LaneCommits("world", i, ledger[i].over, ledger[i].automatic, saved, 3)
       ELSE /\ lane' = Goes("world", "finish")
            /\ UNCHANGED <<bookVars, runs, preview, disturbances>>
  /\ UNCHANGED requests

(* A new item is observed, or written and left as it is, or committed at once. *)
WorldDecides ==
  LET i == ItemOf("world")
      over == files["world"]
      status == IF runs[Current("world")].review = "observe" THEN "observing"
                ELSE IF BodyOf(over) = i.body THEN "unchanged" ELSE "pending"
  IN
  /\ lane["world"].at = "item" /\ i \notin DOMAIN ledger
  /\ IF status = "pending" /\ MayAutoApply(i)
       THEN \E saved \in 2..4 : LaneCommits("world", i, over, TRUE, saved, 4)
       ELSE /\ Write(i, Item(status, over, FALSE))
            /\ lane' = Goes("world", "finish")
            /\ UNCHANGED <<contents, files, runs, preview, disturbances>>
  /\ UNCHANGED requests

(* The process dies before the new item, which is not only observed, is committed. *)
WorldDies ==
  LET i == ItemOf("world") IN
  /\ lane["world"].at = "item" /\ i \notin DOMAIN ledger
  /\ runs[Current("world")].review # "observe"
  /\ Write(i, Item("pending", files["world"], FALSE))
  /\ Whole(1, 4, lane)
  /\ UNCHANGED <<contents, files, runs, requests>>

-----------------------------------------------------------------------------
(* The self lane comes to its item *)

(* Mutant: only an item whose write is under way is committed again. *)
SelfResumesApplying ==
  LET i == ItemOf("self") IN
  /\ lane["self"].at = "item" /\ i \in DOMAIN ledger
  /\ IF ledger[i].status = "applying"
       THEN \E saved \in 0..3 : LaneCommits("self", i, ledger[i].over, TRUE, saved, 3)
       ELSE /\ lane' = Goes("self", "finish")
            /\ UNCHANGED <<bookVars, runs, preview, disturbances>>
  /\ UNCHANGED requests

(* An item on record is committed again with the plan it had. *)
SelfResumes ==
  LET i == ItemOf("self") IN
  /\ lane["self"].at = "item" /\ i \in DOMAIN ledger
  /\ IF ledger[i].status \in {"applying", "error"}
       THEN \E saved \in 0..3 : LaneCommits("self", i, ledger[i].over, TRUE, saved, 3)
       ELSE /\ lane' = Goes("self", "finish")
            /\ UNCHANGED <<bookVars, runs, preview, disturbances>>
  /\ UNCHANGED requests

(* A new item is planned, without the lock, if the entry is what the output saw. *)
SelfPlans ==
  LET i == ItemOf("self")
      seen == runs[Current("self")].seen
  IN
  /\ lane["self"].at = "item" /\ i \notin DOMAIN ledger
  /\ CASE seen # files["self"] ->
            /\ runs' = [runs EXCEPT ![Current("self")] = Raised("self", "conflict")]
            /\ lane' = [lane EXCEPT !["self"] = NoLane]
            /\ UNCHANGED ledger
       [] seen = files["self"] /\ BodyOf(seen) = i.body ->
            /\ Write(i, Item("unchanged", seen, TRUE))
            /\ lane' = Goes("self", "finish")
            /\ UNCHANGED runs
       [] OTHER ->
            /\ lane' = Goes("self", "commit")
            /\ UNCHANGED <<ledger, runs>>
  /\ UNCHANGED <<contents, files, requests, preview, disturbances>>

SelfCommits ==
  /\ lane["self"].at = "commit"
  /\ \E saved \in 0..3 :
       LaneCommits("self", ItemOf("self"), runs[Current("self")].seen, TRUE, saved, 3)
  /\ UNCHANGED requests

-----------------------------------------------------------------------------
(* A person *)

(* An edit or a deletion of the entry as it is on the page now. *)
Ask ==
  /\ Disturb
  /\ \E b \in Books, body \in Bodies :
       \E i \in {Edit(b, files[b], body), Delete(b, files[b])} :
         /\ i.kind = "delete" => files[b] # 0
         /\ requests' = requests \cup {i}
  /\ UNCHANGED <<bookVars, runs, lane, preview>>

(* PUT and DELETE books/{domain}/{name}: a request arrives, the first time or again. *)
Arrives(i) ==
  /\ i \in requests
  /\ \E saved \in 0..3 :
       /\ IF i.kind = "edit" THEN EditSaved(i, saved) ELSE Deleted(i, saved)
       /\ Whole(saved, 3, lane)
  /\ UNCHANGED <<runs, requests>>

(* POST deleted/{rid}/restore *)
Restore(i) ==
  /\ i \in DOMAIN ledger /\ i.kind = "delete" /\ ledger[i].status = "applied"
  /\ \E saved \in 0..3 : Restored(i, saved) /\ Whole(saved, 3, lane)
  /\ UNCHANGED <<runs, requests>>

(* POST maintenance/{rid}/preview *)
Preview(i) ==
  /\ i \in DOMAIN ledger /\ ledger[i].status \in {"pending", "applying"}
  /\ Disturb
  /\ preview' = [id |-> i, item |-> ledger[i],
                 over |-> IF ledger[i].status = "applying" THEN ledger[i].over
                          ELSE files[i.book]]
  /\ UNCHANGED <<bookVars, runs, lane, requests>>

(* POST maintenance/{rid}/decide, to apply: the item must be the one previewed, and an
   entry that was to be made must not have been made by somebody else. *)
Apply ==
  LET i == preview.id IN
  /\ preview # NoPreview
  /\ IF ledger[i] = preview.item /\ (preview.over = 0 => ReceiptPresent(i) \/ files[i.book] = 0)
       THEN \E saved \in 0..3 :
              /\ Committed(i, preview.over,
                           ledger[i].status = "applying" /\ ledger[i].automatic, saved)
              /\ IF saved = 3 THEN preview' = NoPreview /\ UNCHANGED <<lane, disturbances>>
                 ELSE Whole(saved, 3, lane)
       ELSE /\ preview' = NoPreview
            /\ UNCHANGED <<bookVars, lane, disturbances>>
  /\ UNCHANGED <<runs, requests>>

(* Mutant: an item whose write is under way may be rejected. *)
RejectAny(i) ==
  /\ i \in DOMAIN ledger /\ ledger[i].status \in {"pending", "applying"}
  /\ Write(i, [ledger[i] EXCEPT !.status = "rejected"])
  /\ UNCHANGED <<contents, files, laneVars>>

(* POST maintenance/{rid}/decide, to reject: never an item whose write is under way. *)
Reject(i) ==
  /\ i \in DOMAIN ledger /\ ledger[i].status = "pending"
  /\ Write(i, [ledger[i] EXCEPT !.status = "rejected"])
  /\ UNCHANGED <<contents, files, laneVars>>

Dies ==
  /\ Disturb
  /\ lane' = [b \in Books |-> NoLane]
  /\ preview' = NoPreview
  /\ UNCHANGED <<bookVars, runs, requests>>

-----------------------------------------------------------------------------
Init ==
  /\ BooksInit
  /\ runs = [r \in RunIds |-> NewRun]
  /\ lane = [b \in Books |-> NoLane]
  /\ requests = {} /\ preview = NoPreview
  /\ disturbances = 0

Comes(b) == \E n \in 1..MaxRun : Start(b, n)

Lives(b) ==
  \/ Extracted(b) \/ Finish(b)
  \/ b = "world" /\ (Reviewed \/ WorldResumes \/ WorldDecides)
  \/ b = "self" /\ (SelfResumes \/ SelfPlans \/ SelfCommits)

Person ==
  \/ Ask \/ Apply
  \/ \E i \in requests : Arrives(i)
  \/ \E i \in DOMAIN ledger : Restore(i) \/ Preview(i) \/ Reject(i)

Next ==
  \/ \E b \in Books : Comes(b) \/ Lives(b) \/ CallFails(b)
  \/ WorldDies \/ Dies \/ Person

Spec == Init /\ [][Next]_vars

(* A run is started until it is completed, as the host's retry does when it is asked
   to, and what it awaits comes back. *)
FairSpec ==
  Spec /\ \A b \in Books : WF_vars(Comes(b)) /\ WF_vars(Lives(b))

-----------------------------------------------------------------------------
(* Properties *)

(* Every file has the values the code can give it. *)
TypeOK ==
  /\ BooksTypeOK
  /\ runs \in [RunIds -> RunRows]
  /\ lane \in [Books -> Lanes]
  /\ requests \subseteq Ids
  /\ preview \in Previews
  /\ disturbances \in 0..MaxDisturbances

(* Nothing is overwritten unseen: whoever replaces an entry, and whatever died in
   between, replaces the revision the plan on record was made for, and what no person
   decided on the world book replaces the revision the review saw. *)
SavesAsPlanned ==
  [][\A v \in (Len(contents) + 1)..Len(contents') :
       LET i == contents'[v].by IN
       i.kind # "delete" =>
         /\ contents'[v].over = files[i.book]
         /\ i \in DOMAIN ledger' /\ ledger'[i].over = files[i.book]
         /\ i.book = "world" /\ ledger'[i].automatic =>
              runs[<<"world", i.run>>].seen = files[i.book]]_vars

(* A retry, a second request or a recovery never saves again what the entry holds. *)
SavedOnce ==
  \A v \in 1..Len(contents) :
    contents[v].by.kind # "delete" => contents[v].by \notin ReceiptsOf(contents[v].over)

(* A run that is completed has left nothing half done: its proposal is on record, no
   automatic save is under way, and nobody is asked about the self book. *)
CompletedOwesNothing ==
  \A r \in RunIds : runs[r].status = "completed" =>
    LET i == Lane(r[1], r[2], runs[r].body) IN
    /\ i \in DOMAIN ledger
    /\ ledger[i].status = "applying" => ~ledger[i].automatic
    /\ r[1] = "self" => ledger[i].status \in {"auto_applied", "unchanged"}

(* What a person has rejected is not in the book, unless by the restore of an entry
   that held it when it was deleted. *)
RejectedStaysOut ==
  \A i \in DOMAIN ledger : ledger[i].status = "rejected" /\ ReceiptPresent(i) =>
    \E d \in DOMAIN ledger :
      d.kind = "delete" /\ ledger[d].restore # "none" /\ i \in ReceiptsOf(d.over)

(* A run over the world book that is started again after every failure is completed. *)
WorldRunEnds ==
  \A n \in 1..MaxRun :
    runs[<<"world", n>>].status # "none" ~> runs[<<"world", n>>].status = "completed"
=============================================================================
