----------------------- MODULE WanderSchedulerProofs -----------------------
(***************************************************************************)
(* Theorems about WanderScheduler for sessions of every length, with and   *)
(* without torn writes: each safety invariant of the session, and that     *)
(* what has ended stays as it was recorded.                                *)
(***************************************************************************)
EXTENDS WanderScheduler, TLAPS

-----------------------------------------------------------------------------
(* The inductive invariant *)

(* What the runner awaits is a run in the state that await is made in. *)
JobFits ==
  /\ job # Idle => live.started /\ job.at # "idle"
  /\ job.at # "idle" => job.r \in RunIds
  /\ job.at \in {"settle", "chat"} => runs[job.r].state = "open"
  /\ job.at = "sidecar" => runs[job.r].state \in Ended /\ note[job.r].status = "none"

(* A planner holds the note it claimed and no other; a note is consumed only by
   the plan that was told it, and only an accepted plan was told one. *)
Claim(r) == [status |-> "claimed", by |-> r]
ClaimedBy(n, r) == note[n].status = "claimed" /\ note[n].by = r
ClaimFits ==
  /\ \A n \in RunIds : note[n].status \in {"claimed", "consumed"} =>
       note[n].by \in RunIds
  /\ \A n \in RunIds : note[n].status = "consumed" => told[note[n].by] = n
  /\ job.at = "plan" => \A n \in RunIds : ClaimedBy(n, job.r) <=> n = job.note
  /\ \A r \in RunIds : told[r] # 0 => runs[r].state \notin {"absent", "planning"}

(* Runs are created one after another, and a planner has the session to itself. *)
InLine == \A q, r \in RunIds : q < r /\ runs[r].state # "absent" => runs[q].state # "absent"
PlannerAlone ==
  \A q, r \in RunIds : q # r /\ runs[r].state = "planning" =>
    runs[q].state \in {"absent"} \cup Ended

(* A reply marks whatever could still schedule something, or else a run of the chat
   tool that was put beside it. *)
MarkedAfter(q) ==
  \E c \in RunIds : c > q /\ runs[c].kind = "chat" /\ runs[c].interrupt
ReplyFits ==
  replied => /\ job.at = "plan" => live.suppress
             /\ \A r \in RunIds :
                  runs[r].state = "open" /\ runs[r].kind = "wander" /\ ~runs[r].interrupt
                    => MarkedAfter(r)

(* A run of the chat tool is open from the start. *)
KindFits ==
  \A r \in RunIds : runs[r].state \in {"absent", "planning"} => runs[r].kind = "wander"

SessionInv ==
  /\ TypeOK
  /\ JobFits
  /\ NoGhostPlanner
  /\ PlansAlone
  /\ ClaimFits
  /\ NotesUsedOnce
  /\ NotesOfCompleted
  /\ ReplyFits
  /\ ReplySilences
  /\ KindFits
  /\ InLine
  /\ PlannerAlone

-----------------------------------------------------------------------------
(* Types *)

(* The rows and jobs the actions write are rows and jobs. *)
LEMMA RowTypes ==
  /\ NoRun \in RunRows
  /\ NoWake \in WakeRows
  /\ \A r \in 0..MaxRuns : WakeBy(r) \in WakeRows
  /\ NoNote \in NoteRows /\ Pending \in NoteRows
  /\ \A r \in RunIds : Claim(r) \in NoteRows
  /\ Idle \in Jobs
  /\ \A r \in RunIds, n \in 0..MaxRuns :
       \A at \in {"plan", "settle", "sidecar", "chat"} : Awaiting(at, r, n) \in Jobs
<1>1. 0 \in 0..MaxRuns /\ RunIds \subseteq 0..MaxRuns
  BY SessionAssumption DEF RunIds
<1>2. QED
  BY <1>1 DEF NoRun, RunRows, UnderWay, Ended, Kinds, Outcomes, NoWake, WakeRows,
              WakeBy, NoNote, Pending, Claim, NoteRows, Idle, Awaiting, Jobs

(* Initially every row and record has its type. *)
LEMMA TypeInit == Init => TypeOK
<1> SUFFICES ASSUME Init PROVE TypeOK
  OBVIOUS
<1>1. NoRun \in RunRows /\ NoWake \in WakeRows /\ NoNote \in NoteRows /\ Idle \in Jobs
  BY RowTypes
<1>2. 0 \in 0..MaxRuns /\ Down \in [started : BOOLEAN, suppress : BOOLEAN]
  BY SessionAssumption DEF Down
<1>3. QED BY <1>1, <1>2 DEF Init, TypeOK

(* However many saves succeed, the process is left with a well-typed memory. *)
LEMMA LeftTypes ==
  ASSUME NEW all \in BOOLEAN, NEW liveThen \in [started : BOOLEAN, suppress : BOOLEAN],
         NEW jobThen \in Jobs, Left(all, liveThen, jobThen)
  PROVE  live' \in [started : BOOLEAN, suppress : BOOLEAN] /\ job' \in Jobs
<1>1. Idle \in Jobs /\ Down \in [started : BOOLEAN, suppress : BOOLEAN]
  BY RowTypes DEF Down
<1>2. CASE all
  BY <1>2 DEF Left
<1>3. CASE ~all
  BY <1>1, <1>3 DEF Left
<1>4. QED BY <1>2, <1>3

(* Every step keeps every row and record well-typed. *)
LEMMA TypeStep == TypeOK /\ JobFits /\ [Next]_sessionVars => TypeOK'
<1> SUFFICES ASSUME TypeOK, JobFits, [Next]_sessionVars PROVE TypeOK'
  OBVIOUS
<1>u. /\ 0 \in 0..MaxRuns /\ RunIds \subseteq 0..MaxRuns
      /\ Up \in [started : BOOLEAN, suppress : BOOLEAN]
      /\ Down \in [started : BOOLEAN, suppress : BOOLEAN]
      /\ \A k \in Nat : \A saved \in Saves(k) : (saved = k) \in BOOLEAN
  BY SessionAssumption DEF RunIds, Up, Down
<1>e. \A r \in RunIds : /\ PlanEnded(r, "plan_failed") \in [RunIds -> RunRows]
                         /\ PlanEnded(r, "user_interrupt_before_plan")
                              \in [RunIds -> RunRows]
  <2>1. \A row \in RunRows, why \in Outcomes :
          [row EXCEPT !.state = "aborted", !.outcome = why] \in RunRows
    BY DEF RunRows, Ended
  <2> QED BY <2>1 DEF TypeOK, PlanEnded, Outcomes
<1>1. CASE Initialize
  <2>1. \A r \in RunIds : RunRecovered(r) \in RunRows
    BY DEF TypeOK, RunRecovered, RunRows, Ended, UnderWay, Outcomes
  <2>2. \A n \in RunIds : NoteRecovered(n) \in NoteRows
    BY RowTypes DEF TypeOK, NoteRecovered
  <2> QED BY <1>1, <1>u, <2>1, <2>2, RowTypes DEF Initialize, TypeOK
<1>2. ASSUME NEW r \in RunIds, StartRun(r) PROVE TypeOK'
  <2>1. PICK saved \in Saves(3), n \in 0..MaxRuns :
          /\ IF NotesWait THEN n \in RunIds /\ OldestNote(n) ELSE n = 0
          /\ runs' = IF saved >= 2 THEN [runs EXCEPT ![r].state = "planning"] ELSE runs
          /\ note' = IF saved = 3 /\ n # 0 THEN [note EXCEPT ![n] = Claim(r)] ELSE note
          /\ Left(saved = 3, live, Awaiting("plan", r, n))
    BY <1>2 DEF StartRun, Claim
  <2>2. runs' \in [RunIds -> RunRows]
    BY <2>1 DEF TypeOK, RunRows, UnderWay
  <2>3. note' \in [RunIds -> NoteRows]
    BY <2>1, RowTypes DEF TypeOK
  <2>4. live' \in [started : BOOLEAN, suppress : BOOLEAN] /\ job' \in Jobs
    BY <2>1, RowTypes, LeftTypes DEF TypeOK
  <2> QED BY <1>2, <2>2, <2>3, <2>4, RowTypes DEF StartRun, TypeOK
<1>3. ASSUME NEW r \in RunIds, PlannerFails(r) PROVE TypeOK'
  <2>1. PICK saved \in Saves(3) :
          /\ note' = Released(r)
          /\ runs' = IF saved >= 2 THEN PlanEnded(r, "plan_failed") ELSE runs
          /\ wake' = IF saved = 3 THEN RetryWake ELSE wake
          /\ Left(saved = 3, Up, Idle)
    BY <1>3 DEF PlannerFails
  <2>2. runs' \in [RunIds -> RunRows]
    BY <2>1, <1>e DEF TypeOK
  <2>3. note' \in [RunIds -> NoteRows] /\ wake' \in WakeRows
    BY <2>1, <1>u, RowTypes DEF TypeOK, Released, RetryWake
  <2>4. live' \in [started : BOOLEAN, suppress : BOOLEAN] /\ job' \in Jobs
    BY <2>1, <1>u, RowTypes, LeftTypes
  <2> QED BY <1>3, <2>2, <2>3, <2>4 DEF PlannerFails, TypeOK
<1>4. ASSUME NEW r \in RunIds, PlanDropped(r) PROVE TypeOK'
  <2>1. PICK saved \in Saves(2) :
          /\ note' = Released(r)
          /\ runs' = IF saved = 2 THEN PlanEnded(r, "user_interrupt_before_plan")
                                  ELSE runs
          /\ Left(saved = 2, Up, Idle)
    BY <1>4 DEF PlanDropped
  <2>2. runs' \in [RunIds -> RunRows]
    BY <2>1, <1>e DEF TypeOK
  <2>3. note' \in [RunIds -> NoteRows]
    BY <2>1, RowTypes DEF TypeOK, Released
  <2>4. live' \in [started : BOOLEAN, suppress : BOOLEAN] /\ job' \in Jobs
    BY <2>1, <1>u, RowTypes, LeftTypes
  <2> QED BY <1>4, <2>2, <2>3, <2>4 DEF PlanDropped, TypeOK
<1>5. ASSUME NEW r \in RunIds, PlanAccepted(r) PROVE TypeOK'
  <2>1. PICK saved \in Saves(2) :
          /\ note' = IF saved = 2 THEN Consumed(r) ELSE note
          /\ Left(saved = 2, live, Idle)
    BY <1>5 DEF PlanAccepted
  <2>2. runs' \in [RunIds -> RunRows] /\ told' \in [RunIds -> 0..MaxRuns]
    BY <1>5 DEF PlanAccepted, TypeOK, RunRows, UnderWay, Jobs
  <2>3. note' \in [RunIds -> NoteRows]
    BY <2>1 DEF TypeOK, Consumed, NoteRows
  <2>4. live' \in [started : BOOLEAN, suppress : BOOLEAN] /\ job' \in Jobs
    BY <2>1, RowTypes, LeftTypes DEF TypeOK
  <2> QED BY <1>5, <2>2, <2>3, <2>4 DEF PlanAccepted, TypeOK
<1>6. ASSUME NEW r \in RunIds, BeginSettle(r) \/ StartChat(r) PROVE TypeOK'
  <2>1. job' \in Jobs
    BY <1>6, <1>u, RowTypes DEF BeginSettle, StartChat
  <2>2. CASE BeginSettle(r)
    BY <2>1, <2>2 DEF BeginSettle, TypeOK
  <2>3. CASE StartChat(r)
    <3>1. \A row \in RunRows : [row EXCEPT !.kind = "chat", !.state = "open"] \in RunRows
      BY DEF RunRows, UnderWay, Kinds
    <3> QED BY <2>1, <2>3, <3>1 DEF StartChat, TypeOK
  <2> QED BY <1>6, <2>2, <2>3
<1>7. ASSUME NEW r \in RunIds, SettlementReturns(r) PROVE TypeOK'
  <2>1. PICK ending \in Endings(r), saved \in Saves(2) :
          /\ wake' = WakeAfter(r, ending)
          /\ runs' = IF saved = 2 THEN [runs EXCEPT ![r].state = ending] ELSE runs
          /\ Left(saved = 2, IF Silent(r, ending) THEN Up ELSE live,
                  Awaiting("sidecar", r, 0))
    BY <1>7 DEF SettlementReturns
  <2>2. runs' \in [RunIds -> RunRows]
    BY <2>1 DEF TypeOK, Endings, RunRows, Ended
  <2>3. wake' \in WakeRows
    BY <2>1, <1>u, RowTypes DEF TypeOK, WakeAfter
  <2>4. live' \in [started : BOOLEAN, suppress : BOOLEAN] /\ job' \in Jobs
    BY <2>1, <1>u, RowTypes, LeftTypes DEF TypeOK
  <2> QED BY <1>7, <2>2, <2>3, <2>4 DEF SettlementReturns, TypeOK
<1>8. ASSUME NEW r \in RunIds, SidecarReturns(r) \/ ChatReturns(r) PROVE TypeOK'
  BY <1>8, RowTypes DEF SidecarReturns, ChatReturns, TypeOK, RunRows, Ended
<1>9. CASE Interrupt
  <2>1. runs' \in [RunIds -> RunRows]
    <3>1. \A row \in RunRows : [row EXCEPT !.interrupt = TRUE] \in RunRows
      BY DEF RunRows
    <3> QED BY <1>9, <3>1 DEF Interrupt, TypeOK
  <2>2. job' \in Jobs
    BY <1>9 DEF Interrupt, TypeOK, Jobs
  <2>3. live' \in [started : BOOLEAN, suppress : BOOLEAN]
    BY <1>9 DEF Interrupt, TypeOK, NoneActive
  <2> QED BY <1>9, <2>1, <2>2, <2>3, RowTypes DEF Interrupt, TypeOK
<1>10. CASE TimePasses
  BY <1>10 DEF TimePasses, TypeOK, WakeRows
<1>11. CASE Cancelled \/ Crash
  BY <1>11, <1>u, RowTypes DEF Cancelled, Crash, TypeOK
<1>12. CASE UNCHANGED sessionVars
  BY <1>12 DEF sessionVars, TypeOK
<1> QED
  BY <1>1, <1>2, <1>3, <1>4, <1>5, <1>6, <1>7, <1>8, <1>9, <1>10, <1>11, <1>12
     DEF Next, Returns, PlannerReturns

-----------------------------------------------------------------------------
(* Every step keeps the invariant: one lemma for each group of actions *)

(* Whether a note is claimed by a run is read off its two columns. *)
LEMMA ClaimColumns ==
  ASSUME TypeOK, NEW r \in RunIds, NEW n \in RunIds
  PROVE  /\ note[n] = Claim(r) <=> ClaimedBy(n, r)
         /\ Released(r)[n] = IF ClaimedBy(n, r) THEN Pending ELSE note[n]
         /\ Consumed(r)[n].status = IF ClaimedBy(n, r) THEN "consumed"
                                                       ELSE note[n].status
         /\ Consumed(r)[n].by = note[n].by
<1>1. note[n] \in NoteRows
  BY DEF TypeOK
<1>2. note[n] = Claim(r) <=> ClaimedBy(n, r)
  BY <1>1 DEF NoteRows, Claim, ClaimedBy
<1>3. Released(r)[n] = IF ClaimedBy(n, r) THEN Pending ELSE note[n]
  BY <1>2 DEF Released, Claim
<1>4. /\ Consumed(r)[n].status = IF ClaimedBy(n, r) THEN "consumed" ELSE note[n].status
      /\ Consumed(r)[n].by = note[n].by
  BY <1>1, <1>2 DEF Consumed, Claim, NoteRows
<1>5. QED BY <1>2, <1>3, <1>4

(* A process that died awaits nothing. *)
LEMMA DownIsQuiet == live' = Down /\ job' = Idle => JobFits' /\ NoGhostPlanner'
BY DEF Down, Idle, JobFits, NoGhostPlanner

(* The start of a process clears what the planners of the last one left. *)
LEMMA InitializeKeeps ==
  ASSUME SessionInv, TypeOK', Initialize
  PROVE  SessionInv'
<1>1. /\ ~live.started /\ job = Idle /\ job' = Idle /\ live'.started /\ ~replied'
      /\ told' = told
  BY DEF Initialize, MayRecover, SessionInv, JobFits, TypeOK
<1>2. /\ \A r \in RunIds : runs'[r] = RunRecovered(r)
      /\ \A n \in RunIds : note'[n] = NoteRecovered(n)
  BY DEF Initialize
<1>3. \A r \in RunIds :
        /\ runs'[r].kind = runs[r].kind
        /\ runs'[r].state = IF runs[r].state = "planning" THEN "aborted" ELSE runs[r].state
  <2>1. runs \in [RunIds -> RunRows]
    BY DEF SessionInv, TypeOK
  <2>2. ASSUME NEW r \in RunIds
        PROVE  /\ RunRecovered(r).kind = runs[r].kind
               /\ RunRecovered(r).state =
                    IF runs[r].state = "planning" THEN "aborted" ELSE runs[r].state
    BY <2>1, <2>2 DEF RunRecovered, RunRows
  <2>3. QED
    BY <1>2, <2>2
<1>4. JobFits'
  BY <1>1 DEF JobFits, Idle
<1>5. NoGhostPlanner'
  BY <1>1, <1>3 DEF NoGhostPlanner, Planning, Idle
<1>6. PlansAlone'
  BY <1>3 DEF SessionInv, PlansAlone, Ended
<1>7. ClaimFits' /\ NotesUsedOnce'
  <2>1. \A n \in RunIds :
          \/ note'[n] = note[n] /\ (note[n].status = "claimed" =>
                                     runs[note[n].by].state # "planning")
          \/ /\ note'[n].status = "pending" /\ note[n].status = "claimed"
             /\ runs[note[n].by].state = "planning"
    BY <1>2 DEF NoteRecovered, Pending
  <2>2. \A r \in RunIds : told[r] # 0 => told[r] \in RunIds
    BY SessionAssumption DEF SessionInv, TypeOK, RunIds
  <2>3. ClaimFits'
    BY <1>1, <1>3, <2>1 DEF SessionInv, ClaimFits, Idle
  <2>4. ASSUME NEW r \in RunIds, told[r] # 0
        PROVE  note'[told[r]] = note[told[r]]
    BY <2>1, <2>2, <2>4 DEF SessionInv, NotesUsedOnce, ClaimFits
  <2>5. NotesUsedOnce'
    BY <1>1, <1>3, <2>1, <2>2, <2>4 DEF SessionInv, NotesUsedOnce, ClaimFits
  <2> QED BY <2>3, <2>5
<1>8. NotesOfCompleted'
  BY <1>2, <1>3 DEF SessionInv, NotesOfCompleted, NoteRecovered, Pending
<1>9. ReplyFits' /\ ReplySilences'
  BY <1>1 DEF ReplyFits, ReplySilences
<1>10. KindFits' /\ InLine' /\ PlannerAlone'
  BY <1>3 DEF SessionInv, KindFits, InLine, PlannerAlone
<1>11. QED
  BY <1>4, <1>5, <1>6, <1>7, <1>8, <1>9, <1>10 DEF SessionInv

(* A new run is the youngest, and it has left no note and been told none. *)
LEMMA NextRunIsNew ==
  ASSUME SessionInv, NEW r \in RunIds, NextRun(r)
  PROVE  /\ \A q \in RunIds : r < q => runs[q].state = "absent"
         /\ \A q \in RunIds : q < r => runs[q].state # "absent"
         /\ runs[r].state = "absent" /\ runs[r].kind = "wander"
         /\ note[r].status = "none" /\ told[r] = 0
<1>1. \A q \in RunIds : r < q => runs[q].state = "absent"
  BY DEF NextRun, SessionInv, InLine
<1>2. runs[r].kind = "wander"
  BY DEF NextRun, SessionInv, KindFits
<1>3. note[r].status = "none" /\ told[r] = 0
  BY DEF NextRun, SessionInv, NotesOfCompleted, ClaimFits
<1>4. QED BY <1>1, <1>2, <1>3 DEF NextRun

(* A run of the wander follows runs that have all ended. *)
LEMMA NextRunIsAlone ==
  ASSUME SessionInv, NEW r \in RunIds, NextRun(r), NoneActive
  PROVE  /\ \A q \in RunIds : q < r => runs[q].state \in Ended
         /\ \A q \in RunIds : r < q => runs[q].state = "absent"
         /\ \A q \in RunIds : runs[q].state \in {"absent"} \cup Ended
         /\ runs[r].kind = "wander"
         /\ note[r].status = "none" /\ told[r] = 0
<1>1. \A q \in RunIds : runs[q].state \in {"absent"} \cup Ended
  BY DEF NoneActive, SessionInv, TypeOK, RunRows
<1>2. \A q \in RunIds : q < r => runs[q].state \in Ended
  BY <1>1, NextRunIsNew
<1>3. QED BY <1>1, <1>2, NextRunIsNew

(* While no planner is awaited no run is in planning. *)
LEMMA NoPlanner ==
  ASSUME SessionInv, live.started, job.at # "plan"
  PROVE  \A q \in RunIds : runs[q].state # "planning"
BY DEF SessionInv, NoGhostPlanner, Planning

(* An open run that a reply did not mark keeps the marked chat run it is excused by,
   as long as the rows keep their kinds and marks. *)
LEMMA MarksStay ==
  ASSUME \A q \in RunIds : runs[q].kind = "chat" =>
           runs'[q].kind = "chat" /\ runs'[q].interrupt = runs[q].interrupt
  PROVE  \A q \in RunIds : MarkedAfter(q) => MarkedAfter(q)'
BY DEF MarkedAfter

(* A wake written before stays excused likewise. *)
LEMMA WakeStays ==
  ASSUME ReplySilences, replied' = replied,
         wake' # NoWake => wake # NoWake /\ wake'.by = wake.by,
         \A q \in RunIds : ~runs[q].interrupt => ~runs'[q].interrupt,
         \A q \in RunIds : runs[q].kind = "chat" =>
           runs'[q].kind = "chat" /\ runs'[q].interrupt = runs[q].interrupt
  PROVE  ReplySilences'
BY DEF ReplySilences

(* A planning run is the only one under way, and takes a note nobody used. *)
LEMMA StartRunKeeps ==
  ASSUME SessionInv, TypeOK', NEW r \in RunIds, StartRun(r)
  PROVE  SessionInv'
<1>1. PICK saved \in Saves(3), n \in 0..MaxRuns :
        /\ IF NotesWait THEN n \in RunIds /\ OldestNote(n) ELSE n = 0
        /\ runs' = IF saved >= 2 THEN [runs EXCEPT ![r].state = "planning"] ELSE runs
        /\ note' = IF saved = 3 /\ n # 0 THEN [note EXCEPT ![n] = Claim(r)] ELSE note
        /\ Left(saved = 3, live, Awaiting("plan", r, n))
  BY DEF StartRun, Claim
<1>2. /\ live.started /\ job = Idle /\ runs[r].state = "absent"
      /\ wake' = NoWake /\ ~replied' /\ told' = told
      /\ NextRun(r) /\ NoneActive
  BY DEF StartRun, NextRun, SessionInv, TypeOK
<1>3. /\ \A q \in RunIds : q < r => runs[q].state \in Ended
      /\ \A q \in RunIds : r < q => runs[q].state = "absent"
      /\ \A q \in RunIds : runs[q].state \in {"absent"} \cup Ended
      /\ runs[r].kind = "wander" /\ note[r].status = "none" /\ told[r] = 0
  BY <1>2, NextRunIsAlone
<1>4. \A q \in RunIds :
        /\ runs'[q].kind = runs[q].kind
        /\ runs'[q].state = IF q = r /\ saved >= 2 THEN "planning" ELSE runs[q].state
  BY <1>1 DEF SessionInv, TypeOK, RunRows
<1>5. ASSUME saved = 3
      PROVE  JobFits' /\ NoGhostPlanner' /\ ClaimFits' /\ NotesUsedOnce'
             /\ NotesOfCompleted'
  <2>1. job' = Awaiting("plan", r, n) /\ live' = live
    BY <1>1, <1>5 DEF Left
  <2>2. /\ job'.at = "plan" /\ job'.r = r /\ job'.note = n /\ job' # Idle
    BY <2>1 DEF Awaiting, Idle
  <2>3. n # 0 => n \in RunIds /\ note[n].status = "pending"
    BY <1>1 DEF OldestNote
  <2>4. \A m \in RunIds : m # n => note'[m] = note[m]
    BY <1>1, <1>5 DEF SessionInv, TypeOK
  <2>5. n # 0 => note'[n].status = "claimed" /\ note'[n].by = r
    BY <1>1, <1>5, <2>3 DEF SessionInv, TypeOK, Claim
  <2>6. \A m \in RunIds : ~ClaimedBy(m, r)
    BY <1>3, <1>2 DEF SessionInv, NotesUsedOnce, ClaimedBy, RunIds
  <2>7. JobFits'
    BY <1>2, <2>1, <2>2 DEF JobFits
  <2>8. NoGhostPlanner'
    BY <1>3, <1>4, <1>5, <2>2 DEF NoGhostPlanner, Planning, Ended
  <2>9. ClaimFits'
    BY <1>2, <1>3, <1>4, <1>5, <2>2, <2>3, <2>4, <2>5, <2>6
       DEF SessionInv, ClaimFits, ClaimedBy, RunIds
  <2>10. NotesUsedOnce'
    <3>1. ASSUME NEW q \in RunIds, told[q] # 0
          PROVE  told[q] \in RunIds /\ told[q] # n
      <4>1. told[q] \in RunIds
        BY <3>1, SessionAssumption DEF SessionInv, TypeOK, RunIds
      <4> QED BY <3>1, <4>1, <2>3 DEF SessionInv, NotesUsedOnce
    <3>2. \A q \in RunIds : told[q] # 0 => note'[told[q]] = note[told[q]]
      BY <3>1, <2>4
    <3>3. ASSUME NEW m \in RunIds, note'[m].status \in {"claimed", "consumed"}
          PROVE  told[note'[m].by] = m \/ runs'[note'[m].by].state = "planning"
      <4>1. CASE m = n
        BY <4>1, <1>4, <1>5, <2>5 DEF RunIds
      <4>2. CASE m # n
        BY <4>2, <3>3, <1>4, <1>5, <2>4 DEF SessionInv, ClaimFits, NotesUsedOnce
      <4> QED BY <4>1, <4>2
    <3> QED BY <1>2, <3>2, <3>3 DEF SessionInv, NotesUsedOnce
  <2>11. NotesOfCompleted'
    <3>1. \A m \in RunIds : note'[m].status # "none" => note[m].status # "none"
      BY <2>3, <2>4 DEF RunIds
    <3> QED BY <1>3, <1>4, <3>1 DEF SessionInv, NotesOfCompleted
  <2> QED
    BY <2>7, <2>8, <2>9, <2>10, <2>11
<1>6. ASSUME saved # 3
      PROVE  JobFits' /\ NoGhostPlanner' /\ ClaimFits' /\ NotesUsedOnce'
             /\ NotesOfCompleted'
  <2>1. note' = note /\ job' = Idle /\ live' = Down
    BY <1>1, <1>6 DEF Left
  <2>2. JobFits' /\ NoGhostPlanner'
    BY <2>1, DownIsQuiet
  <2>3. ClaimFits' /\ NotesUsedOnce'
    BY <1>2, <1>3, <1>4, <2>1
       DEF SessionInv, ClaimFits, NotesUsedOnce, Idle
  <2>4. NotesOfCompleted'
    BY <1>3, <1>4, <2>1 DEF SessionInv, NotesOfCompleted
  <2> QED BY <2>2, <2>3, <2>4
<1>7. PlansAlone'
  BY <1>3, <1>4 DEF SessionInv, PlansAlone, Ended, RunIds
<1>8. /\ ReplyFits' /\ ReplySilences' /\ KindFits'
      /\ InLine' /\ PlannerAlone'
  BY <1>2, <1>3, <1>4
     DEF SessionInv, ReplyFits, ReplySilences, KindFits, InLine, PlannerAlone, Ended
<1>9. JobFits' /\ NoGhostPlanner' /\ ClaimFits' /\ NotesUsedOnce' /\ NotesOfCompleted'
  BY <1>5, <1>6
<1>10. QED BY <1>7, <1>8, <1>9 DEF SessionInv

(* A run the chat tool opens may stand beside open ones, never beside a planner. *)
LEMMA StartChatKeeps ==
  ASSUME SessionInv, TypeOK', NEW r \in RunIds, StartChat(r)
  PROVE  SessionInv'
<1>1. /\ live.started /\ live' = live /\ job = Idle /\ job.at = "idle"
      /\ job' = Awaiting("chat", r, 0) /\ wake' = wake /\ note' = note
      /\ told' = told /\ replied' = replied /\ NextRun(r)
  BY DEF StartChat, Idle
<1>2. /\ \A q \in RunIds : r < q => runs[q].state = "absent"
      /\ \A q \in RunIds : q < r => runs[q].state # "absent"
      /\ runs[r].state = "absent" /\ runs[r].kind = "wander"
      /\ note[r].status = "none" /\ told[r] = 0
  BY <1>1, NextRunIsNew
<1>3. /\ runs'[r].kind = "chat" /\ runs'[r].state = "open"
      /\ runs'[r].interrupt = runs[r].interrupt
      /\ \A q \in RunIds : q # r => runs'[q] = runs[q]
  BY DEF StartChat, SessionInv, TypeOK, RunRows
<1>4. job'.at = "chat" /\ job'.r = r /\ job' # Idle
  BY <1>1 DEF Awaiting, Idle
<1>5. \A q \in RunIds : runs[q].state # "planning"
  BY <1>1, NoPlanner
<1>6. JobFits' /\ NoGhostPlanner'
  BY <1>1, <1>3, <1>4, <1>5 DEF JobFits, NoGhostPlanner, Planning
<1>7. PlansAlone' /\ KindFits' /\ InLine' /\ PlannerAlone'
  BY <1>2, <1>3, <1>5
     DEF SessionInv, PlansAlone, KindFits, InLine, PlannerAlone, RunIds
<1>8. ClaimFits' /\ NotesUsedOnce'
  <2>1. ClaimFits'
    BY <1>1, <1>2, <1>3, <1>4 DEF SessionInv, ClaimFits
  <2> QED BY <2>1, <1>1, <1>3, <1>5 DEF SessionInv, ClaimFits, NotesUsedOnce
<1>9. NotesOfCompleted'
  BY <1>1, <1>2, <1>3 DEF SessionInv, NotesOfCompleted
<1>10. \A q \in RunIds : runs[q].kind = "chat" =>
         runs'[q].kind = "chat" /\ runs'[q].interrupt = runs[q].interrupt
  BY <1>2, <1>3
<1>11. ReplyFits'
  <2>1. \A q \in RunIds : MarkedAfter(q) => MarkedAfter(q)'
    BY <1>10, MarksStay
  <2> QED BY <2>1, <1>1, <1>3, <1>4 DEF SessionInv, ReplyFits
<1>12. ReplySilences'
  BY <1>1, <1>3, <1>10, WakeStays DEF SessionInv
<1>13. QED
  BY <1>6, <1>7, <1>8, <1>9, <1>11, <1>12 DEF SessionInv

(* A planner that fails, or whose plan is dropped, gives its note back. *)
LEMMA PlanLostKeeps ==
  ASSUME SessionInv, TypeOK', NEW r \in RunIds, PlannerFails(r) \/ PlanDropped(r)
  PROVE  SessionInv'
<1>1. Planning(r) /\ live.started /\ runs[r].state = "planning"
  <2>1. Planning(r)
    BY DEF PlannerFails, PlanDropped
  <2>2. job # Idle
    BY <2>1 DEF Planning, Idle
  <2> QED BY <2>1, <2>2 DEF SessionInv, JobFits, NoGhostPlanner
<1>2. told' = told /\ replied' = replied /\ job' = Idle /\ note' = Released(r)
  BY DEF PlannerFails, PlanDropped, Left
<1>3. \E why \in Outcomes :
        /\ runs' \in {runs, PlanEnded(r, why)}
        /\ live' # Down => runs' = PlanEnded(r, why)
  <2>1. CASE PlannerFails(r)
    BY <2>1 DEF PlannerFails, Left, Up, Down, Saves, Outcomes
  <2>2. CASE PlanDropped(r)
    BY <2>2 DEF PlanDropped, Left, Up, Down, Saves, Outcomes
  <2> QED BY <2>1, <2>2
<1>4. /\ \A q \in RunIds : q # r => runs'[q] = runs[q]
      /\ runs'[r].kind = runs[r].kind /\ runs'[r].interrupt = runs[r].interrupt
      /\ runs'[r].state \in {"planning", "aborted"}
      /\ live' # Down => runs'[r].state = "aborted"
  BY <1>1, <1>3 DEF PlanEnded, SessionInv, TypeOK, RunRows
<1>5. \A n \in RunIds : note'[n] = IF ClaimedBy(n, r) THEN Pending ELSE note[n]
  BY <1>2, ClaimColumns DEF SessionInv
<1>6. wake' \in {wake, RetryWake}
  BY DEF PlannerFails, PlanDropped
<1>7. JobFits'
  BY <1>2 DEF JobFits, Idle
<1>8. NoGhostPlanner'
  BY <1>1, <1>2, <1>4 DEF SessionInv, NoGhostPlanner, Planning, Idle, Down
<1>9. PlansAlone'
  BY <1>1, <1>4 DEF SessionInv, PlansAlone, Ended
<1>10. ClaimFits'
  BY <1>1, <1>2, <1>4, <1>5
     DEF SessionInv, ClaimFits, ClaimedBy, Pending, Idle
<1>11. NotesUsedOnce'
  <2>1. ASSUME NEW q \in RunIds, told[q] # 0
        PROVE  note'[told[q]] = note[told[q]]
    <3>1. told[q] \in RunIds /\ q # r
      BY <2>1, <1>1, SessionAssumption DEF SessionInv, ClaimFits, TypeOK, RunIds
    <3> QED BY <2>1, <3>1, <1>5 DEF SessionInv, NotesUsedOnce, ClaimedBy
  <2>2. ASSUME NEW n \in RunIds, note'[n].status \in {"claimed", "consumed"}
        PROVE  told[note'[n].by] = n \/ runs'[note'[n].by].state = "planning"
    <3>1. note'[n] = note[n] /\ ~ClaimedBy(n, r)
      BY <2>2, <1>5 DEF Pending
    <3>2. note[n].by = r => told[r] = n
      BY <2>2, <3>1 DEF SessionInv, ClaimFits, ClaimedBy
    <3> QED BY <2>2, <3>1, <3>2, <1>4 DEF SessionInv, ClaimFits, NotesUsedOnce
  <2> QED BY <1>2, <2>1, <2>2 DEF SessionInv, NotesUsedOnce
<1>12. NotesOfCompleted'
  BY <1>1, <1>4, <1>5 DEF SessionInv, NotesOfCompleted, ClaimedBy, Pending
<1>a. \A q \in RunIds : runs'[q].kind = runs[q].kind /\ runs'[q].interrupt = runs[q].interrupt
  BY <1>4
<1>13. ReplyFits'
  <2>1. \A q \in RunIds : MarkedAfter(q) => MarkedAfter(q)'
    BY <1>a, MarksStay
  <2> QED BY <2>1, <1>1, <1>2, <1>4 DEF SessionInv, ReplyFits, Idle
<1>14. ReplySilences'
  <2>1. CASE ~replied
    BY <2>1, <1>2 DEF ReplySilences
  <2>2. CASE replied
    <3>1. live.suppress
      BY <2>2, <1>1 DEF SessionInv, ReplyFits, Planning
    <3>2. wake' = wake
      BY <3>1, <1>6 DEF RetryWake
    <3> QED BY <3>2, <1>2, <1>a, WakeStays DEF SessionInv
  <2> QED BY <2>1, <2>2
<1>15. KindFits' /\ InLine' /\ PlannerAlone'
  BY <1>1, <1>4 DEF SessionInv, KindFits, InLine, PlannerAlone, Ended
<1>16. QED
  BY <1>7, <1>8, <1>9, <1>10, <1>11, <1>12, <1>13, <1>14, <1>15 DEF SessionInv

(* An accepted plan is told the one note its run has claimed. *)
LEMMA PlanAcceptedKeeps ==
  ASSUME SessionInv, TypeOK', NEW r \in RunIds, PlanAccepted(r)
  PROVE  SessionInv'
<1>1. Planning(r) /\ live.started /\ ~live.suppress /\ runs[r].state = "planning"
  <2>1. Planning(r) /\ ~live.suppress
    BY DEF PlanAccepted
  <2>2. job # Idle
    BY <2>1 DEF Planning, Idle
  <2> QED BY <2>1, <2>2 DEF SessionInv, JobFits, NoGhostPlanner
<1>2. /\ ~replied /\ ~replied' /\ wake' = wake /\ job' = Idle
  BY <1>1 DEF PlanAccepted, Left, SessionInv, ReplyFits, Planning
<1>3. /\ \A q \in RunIds : q # r => runs'[q] = runs[q]
      /\ runs'[r].kind = runs[r].kind /\ runs'[r].state = "open"
  BY DEF PlanAccepted, SessionInv, TypeOK, RunRows
<1>4. told'[r] = job.note /\ \A q \in RunIds : q # r => told'[q] = told[q]
  BY DEF PlanAccepted, SessionInv, TypeOK
<1>5. \A n \in RunIds :
        /\ note'[n].by = note[n].by
        /\ \/ note'[n].status = note[n].status
           \/ ClaimedBy(n, r) /\ note'[n].status = "consumed"
  <2>1. note' \in {note, Consumed(r)}
    BY DEF PlanAccepted
  <2> QED BY <2>1, ClaimColumns DEF SessionInv
<1>6. \A n \in RunIds : ClaimedBy(n, r) <=> n = job.note
  BY <1>1 DEF SessionInv, ClaimFits, Planning
<1>7. told[r] = 0 /\ job.note \in 0..MaxRuns
  BY <1>1 DEF SessionInv, ClaimFits, TypeOK, Jobs
<1>8. JobFits'
  BY <1>2 DEF JobFits, Idle
<1>9. NoGhostPlanner'
  BY <1>1, <1>2, <1>3 DEF SessionInv, NoGhostPlanner, Planning, Idle
<1>10. PlansAlone'
  BY <1>1, <1>3 DEF SessionInv, PlansAlone, Ended
<1>11. ClaimFits'
  <2>1. \A n \in RunIds : note'[n].status \in {"claimed", "consumed"} =>
          note'[n].by \in RunIds
    BY <1>5 DEF SessionInv, ClaimFits, ClaimedBy
  <2>2. ASSUME NEW n \in RunIds, note'[n].status = "consumed"
        PROVE  told'[note'[n].by] = n
    <3>1. CASE ClaimedBy(n, r)
      BY <3>1, <1>4, <1>5, <1>6 DEF ClaimedBy
    <3>2. CASE ~ClaimedBy(n, r)
      <4>1. note[n].status = "consumed" /\ note'[n].by = note[n].by
        BY <3>2, <2>2, <1>5
      <4>2. told[note[n].by] = n /\ note[n].by \in RunIds /\ n # 0
        BY <4>1 DEF SessionInv, ClaimFits, RunIds
      <4>3. note[n].by # r
        BY <4>2, <1>7
      <4> QED BY <4>1, <4>2, <4>3, <1>4
    <3> QED BY <3>1, <3>2
  <2>3. \A q \in RunIds : told'[q] # 0 => runs'[q].state \notin {"absent", "planning"}
    BY <1>3, <1>4 DEF SessionInv, ClaimFits
  <2> QED BY <1>2, <2>1, <2>2, <2>3 DEF ClaimFits, Idle
<1>12. NotesUsedOnce'
  <2>1. ASSUME NEW q \in RunIds, told'[q] # 0
        PROVE  /\ note'[told'[q]].status \in {"claimed", "consumed"}
               /\ note'[told'[q]].by = q
    <3>1. CASE q = r
      <4>1. told'[q] = job.note /\ job.note \in RunIds
        BY <2>1, <3>1, <1>4, <1>7, SessionAssumption DEF RunIds
      <4>2. note[job.note].status = "claimed" /\ note[job.note].by = r
        BY <4>1, <1>6 DEF ClaimedBy
      <4> QED BY <3>1, <4>1, <4>2, <1>5
    <3>2. CASE q # r
      <4>1. told'[q] = told[q] /\ told[q] \in RunIds
        BY <2>1, <3>2, <1>4, SessionAssumption DEF SessionInv, TypeOK, RunIds
      <4>2. note[told[q]].status \in {"claimed", "consumed"} /\ note[told[q]].by = q
        BY <2>1, <4>1 DEF SessionInv, NotesUsedOnce
      <4> QED BY <4>1, <4>2, <1>5
    <3> QED BY <3>1, <3>2
  <2>2. ASSUME NEW n \in RunIds, note'[n].status \in {"claimed", "consumed"}
        PROVE  \/ told'[note'[n].by] = n
               \/ runs'[note'[n].by].state = "planning"
    <3>1. CASE ClaimedBy(n, r)
      BY <3>1, <1>4, <1>5, <1>6 DEF ClaimedBy
    <3>2. CASE ~ClaimedBy(n, r)
      <4>1. /\ note[n].status \in {"claimed", "consumed"}
            /\ note'[n].by = note[n].by /\ note[n].by \in RunIds
        BY <3>2, <2>2, <1>5 DEF SessionInv, ClaimFits
      <4>2. note[n].by = r => FALSE
        <5>1. note[n].by = r => note[n].status = "consumed"
          BY <3>2, <4>1 DEF ClaimedBy
        <5> QED BY <5>1, <1>7 DEF SessionInv, ClaimFits, RunIds
      <4> QED BY <4>1, <4>2, <1>3, <1>4 DEF SessionInv, NotesUsedOnce
    <3> QED BY <3>1, <3>2
  <2> QED BY <2>1, <2>2 DEF NotesUsedOnce
<1>13. NotesOfCompleted'
  <2>1. \A n \in RunIds : note'[n].status # "none" => note[n].status # "none"
    BY <1>5 DEF ClaimedBy
  <2> QED BY <2>1, <1>1, <1>3 DEF SessionInv, NotesOfCompleted
<1>14. ReplyFits' /\ ReplySilences'
  BY <1>2 DEF ReplyFits, ReplySilences
<1>15. KindFits' /\ InLine' /\ PlannerAlone'
  BY <1>1, <1>3 DEF SessionInv, KindFits, InLine, PlannerAlone, Ended
<1>16. QED
  BY <1>8, <1>9, <1>10, <1>11, <1>12, <1>13, <1>14, <1>15 DEF SessionInv

(* A settlement begins only when nothing else is awaited. *)
LEMMA BeginSettleKeeps ==
  ASSUME SessionInv, TypeOK', NEW r \in RunIds, BeginSettle(r)
  PROVE  SessionInv'
<1>1. /\ live.started /\ live' = live /\ job = Idle /\ runs[r].state = "open"
      /\ job' = Awaiting("settle", r, 0) /\ runs' = runs /\ wake' = wake
      /\ note' = note /\ told' = told /\ replied' = replied
  BY DEF BeginSettle
<1>2. job'.at = "settle" /\ job'.r = r /\ job.at = "idle"
  BY <1>1 DEF Awaiting, Idle
<1>3. JobFits'
  BY <1>1, <1>2 DEF JobFits, Idle
<1>4. NoGhostPlanner'
  BY <1>1, <1>2 DEF SessionInv, NoGhostPlanner, Planning
<1>5. ClaimFits' /\ ReplyFits'
  BY <1>1, <1>2 DEF SessionInv, ClaimFits, ReplyFits, ClaimedBy, MarkedAfter
<1>6. QED
  BY <1>1, <1>3, <1>4, <1>5
     DEF SessionInv, PlansAlone, NotesUsedOnce, NotesOfCompleted, ReplySilences,
         KindFits, InLine, PlannerAlone

(* How an open run that ends, by its settlement or in the chat tool, changes
   the rows. *)
LEMMA RunEndKeeps ==
  ASSUME SessionInv, TypeOK', NEW r \in RunIds, runs[r].state = "open",
         job.at \in {"settle", "chat"}, note' = note, told' = told,
         replied' = replied, \A q \in RunIds : q # r => runs'[q] = runs[q],
         runs'[r].kind = runs[r].kind, runs'[r].interrupt = runs[r].interrupt,
         runs'[r].state \in Ended \cup {"open"},
         job'.at \in {"idle", "sidecar"}
  PROVE  /\ PlansAlone' /\ ClaimFits' /\ NotesUsedOnce'
         /\ NotesOfCompleted' /\ ReplyFits' /\ KindFits'
         /\ InLine' /\ PlannerAlone'
<1>1. PlansAlone'
  BY DEF SessionInv, PlansAlone, Ended
<1>2. ClaimFits'
  BY DEF SessionInv, ClaimFits, Ended
<1>3. NotesUsedOnce'
  <2>1. \A q \in RunIds : runs'[q].state = "planning" <=> runs[q].state = "planning"
    BY DEF Ended
  <2> QED BY <2>1 DEF SessionInv, NotesUsedOnce, ClaimFits
<1>4. NotesOfCompleted'
  BY DEF SessionInv, NotesOfCompleted
<1>5. ReplyFits'
  <2>1. \A q \in RunIds : MarkedAfter(q) => MarkedAfter(q)'
    BY MarksStay
  <2> QED BY <2>1 DEF SessionInv, ReplyFits, Ended
<1>6. KindFits' /\ InLine' /\ PlannerAlone'
  BY DEF SessionInv, KindFits, InLine, PlannerAlone, Ended
<1>7. QED BY <1>1, <1>2, <1>3, <1>4, <1>5, <1>6

(* A settlement writes the wake and then ends its run. *)
LEMMA SettlementReturnsKeeps ==
  ASSUME SessionInv, TypeOK', NEW r \in RunIds, SettlementReturns(r)
  PROVE  SessionInv'
<1>1. PICK ending \in Endings(r), saved \in Saves(2) :
        /\ wake' = WakeAfter(r, ending)
        /\ runs' = IF saved = 2 THEN [runs EXCEPT ![r].state = ending] ELSE runs
        /\ Left(saved = 2, IF Silent(r, ending) THEN Up ELSE live,
                Awaiting("sidecar", r, 0))
  BY DEF SettlementReturns
<1>2. /\ job.at = "settle" /\ job.r = r /\ runs[r].state = "open" /\ live.started
      /\ note' = note /\ told' = told /\ replied' = replied
  BY DEF SettlementReturns, SessionInv, JobFits, Idle
<1>3. /\ \A q \in RunIds : q # r => runs'[q] = runs[q]
      /\ runs'[r].kind = runs[r].kind /\ runs'[r].interrupt = runs[r].interrupt
      /\ runs'[r].state = IF saved = 2 THEN ending ELSE "open"
      /\ ending \in Ended
  BY <1>1, <1>2 DEF SessionInv, TypeOK, RunRows, Endings, Ended
<1>4. JobFits' /\ NoGhostPlanner'
  <2>1. CASE saved = 2
    <3>1. job'.at = "sidecar" /\ job'.r = r /\ job' # Idle /\ live'.started
      BY <1>1, <1>2, <2>1 DEF Left, Awaiting, Idle, Up
    <3>2. JobFits'
      BY <3>1, <1>2, <1>3, <2>1 DEF SessionInv, NotesOfCompleted, JobFits
    <3>3. NoGhostPlanner'
      BY <3>1, <1>2, <1>3 DEF SessionInv, NoGhostPlanner, Planning, Ended
    <3> QED BY <3>2, <3>3
  <2>2. CASE saved # 2
    BY <1>1, <2>2, DownIsQuiet DEF Left
  <2> QED BY <2>1, <2>2
<1>5. job'.at \in {"idle", "sidecar"}
  BY <1>1 DEF Left, Awaiting, Idle
<1>6. /\ PlansAlone' /\ ClaimFits' /\ NotesUsedOnce'
      /\ NotesOfCompleted' /\ ReplyFits' /\ KindFits' /\ InLine' /\ PlannerAlone'
  BY <1>2, <1>3, <1>5, RunEndKeeps
<1>7. ReplySilences'
  <2>1. wake' # NoWake =>
          wake'.by = r /\ runs[r].kind = "wander" /\ ending # "interrupted"
    BY <1>1 DEF WakeAfter, WakeBy, Silent, SessionInv, TypeOK, RunRows, Kinds
  <2>2. ending # "interrupted" => ~runs[r].interrupt
    BY DEF Endings
  <2>3. \A q \in RunIds : MarkedAfter(q) => MarkedAfter(q)'
    BY <1>3, MarksStay
  <2>4. replied /\ wake' # NoWake => MarkedAfter(r)'
    BY <1>2, <2>1, <2>2, <2>3 DEF SessionInv, ReplyFits
  <2> QED BY <1>2, <1>3, <2>1, <2>2, <2>4 DEF ReplySilences, MarkedAfter
<1>8. QED BY <1>4, <1>6, <1>7 DEF SessionInv

(* The chat tool ends its run. *)
LEMMA ChatReturnsKeeps ==
  ASSUME SessionInv, TypeOK', NEW r \in RunIds, ChatReturns(r)
  PROVE  SessionInv'
<1>1. PICK ending \in {"completed", "aborted"} :
        runs' = [runs EXCEPT ![r].state = ending]
  BY DEF ChatReturns
<1>2. /\ job.at = "chat" /\ job.r = r /\ runs[r].state = "open" /\ job' = Idle
      /\ note' = note /\ told' = told /\ replied' = replied /\ wake' = wake
      /\ live' = live
  BY DEF ChatReturns, SessionInv, JobFits
<1>3. /\ \A q \in RunIds : q # r => runs'[q] = runs[q]
      /\ runs'[r].kind = runs[r].kind /\ runs'[r].interrupt = runs[r].interrupt
      /\ runs'[r].state \in Ended
  BY <1>1 DEF SessionInv, TypeOK, RunRows, Ended
<1>4. JobFits'
  BY <1>2 DEF JobFits, Idle
<1>5. NoGhostPlanner'
  BY <1>2, <1>3 DEF SessionInv, NoGhostPlanner, Planning, Idle, Ended
<1>6. /\ PlansAlone' /\ ClaimFits' /\ NotesUsedOnce'
      /\ NotesOfCompleted' /\ ReplyFits' /\ KindFits' /\ InLine' /\ PlannerAlone'
  BY <1>2, <1>3, RunEndKeeps DEF Idle
<1>7. ReplySilences'
  BY <1>2, <1>3, WakeStays DEF SessionInv
<1>8. QED BY <1>4, <1>5, <1>6, <1>7 DEF SessionInv

(* The sidecar leaves at most one note, of a completed run that had none used. *)
LEMMA SidecarReturnsKeeps ==
  ASSUME SessionInv, TypeOK', NEW r \in RunIds, SidecarReturns(r)
  PROVE  SessionInv'
<1>1. /\ job.at = "sidecar" /\ job' = Idle /\ runs' = runs /\ wake' = wake
      /\ live' = live /\ told' = told /\ replied' = replied
  BY DEF SidecarReturns
<1>2. \A n \in RunIds :
        \/ note'[n] = note[n]
        \/ /\ n = r /\ note'[n].status = "pending"
           /\ runs[n].kind = "wander" /\ runs[n].state = "completed"
  BY DEF SidecarReturns, MayLeaveNote, Pending, SessionInv, TypeOK
<1>3. note[r].status = "none" /\ told[r] # r
  <2>1. note[r].status = "none"
    BY DEF SidecarReturns, SessionInv, JobFits
  <2> QED BY <2>1 DEF SessionInv, NotesUsedOnce, RunIds
<1>4. \A q \in RunIds : told[q] # r
  BY <1>3 DEF SessionInv, NotesUsedOnce, RunIds
<1>5. JobFits' /\ NoGhostPlanner'
  BY <1>1 DEF SessionInv, JobFits, NoGhostPlanner, Planning, Idle
<1>6. ClaimFits'
  BY <1>1, <1>2 DEF SessionInv, ClaimFits, Idle
<1>7. NotesUsedOnce'
  <2>1. ASSUME NEW q \in RunIds, told[q] # 0
        PROVE  note'[told[q]] = note[told[q]]
    <3>1. told[q] \in RunIds
      BY <2>1, SessionAssumption DEF SessionInv, TypeOK, RunIds
    <3> QED BY <3>1, <1>2, <1>4
  <2> QED BY <1>1, <1>2, <2>1 DEF SessionInv, NotesUsedOnce
<1>8. NotesOfCompleted'
  BY <1>1, <1>2 DEF SessionInv, NotesOfCompleted
<1>9. /\ PlansAlone' /\ ReplyFits' /\ ReplySilences' /\ KindFits'
      /\ InLine' /\ PlannerAlone'
  BY <1>1 DEF SessionInv, PlansAlone, ReplyFits, MarkedAfter, ReplySilences, KindFits,
              InLine, PlannerAlone, Idle
<1>10. QED
  BY <1>5, <1>6, <1>7, <1>8, <1>9 DEF SessionInv

(* A reply marks one open run and silences the planner being awaited.  Of two open runs
   the younger is one of the chat tool. *)
LEMMA InterruptKeeps ==
  ASSUME SessionInv, TypeOK', Interrupt
  PROVE  SessionInv'
<1>1. /\ live.started /\ live'.started /\ live'.suppress = ~NoneActive
      /\ wake' = NoWake /\ note' = note /\ told' = told
  BY DEF Interrupt, SessionInv, TypeOK
<1>2. /\ job'.at = job.at /\ job'.r = job.r /\ job'.note = job.note
      /\ job' # Idle => job # Idle
  BY DEF Interrupt, SessionInv, TypeOK, Jobs
<1>3. \A r \in RunIds :
        runs'[r].kind = runs[r].kind /\ runs'[r].state = runs[r].state
  BY DEF Interrupt, SessionInv, TypeOK, RunRows
<1>a. \A r \in RunIds : runs[r].state = "open" =>
        \E a \in RunIds : runs[a].state = "open" /\ runs'[a].interrupt
  BY DEF Interrupt, SessionInv, TypeOK, RunRows
<1>4. JobFits' /\ NoGhostPlanner'
  BY <1>1, <1>2, <1>3 DEF SessionInv, JobFits, NoGhostPlanner, Planning
<1>5. ReplyFits'
  <2>1. job.at = "plan" => ~NoneActive
    <3>1. job.at = "plan" => job # Idle /\ job.r \in RunIds /\ Planning(job.r)
      BY DEF SessionInv, JobFits, Idle, Planning
    <3> QED BY <3>1, <1>1 DEF SessionInv, NoGhostPlanner, NoneActive, UnderWay
  <2>2. ASSUME NEW q \in RunIds, runs'[q].state = "open", runs'[q].kind = "wander",
               ~runs'[q].interrupt
        PROVE  MarkedAfter(q)'
    <3>1. PICK a \in RunIds : runs[a].state = "open" /\ runs'[a].interrupt
      BY <1>a, <1>3, <2>2
    <3>2. a # q /\ runs[q].state = "open" /\ runs[q].kind = "wander"
      BY <3>1, <1>3, <2>2
    <3>3. ~(a < q) /\ (q < a => runs[a].kind # "wander")
      BY <3>1, <3>2 DEF SessionInv, PlansAlone, Ended
    <3>4. a > q
      BY <3>2, <3>3 DEF RunIds
    <3>5. runs'[a].kind = "chat"
      BY <1>3, <3>3, <3>4 DEF SessionInv, TypeOK, RunRows, Kinds, RunIds
    <3> QED BY <3>1, <3>4, <3>5 DEF MarkedAfter
  <2> QED BY <1>1, <1>2, <2>1, <2>2 DEF ReplyFits
<1>6. ClaimFits'
  BY <1>1, <1>2, <1>3 DEF SessionInv, ClaimFits, ClaimedBy
<1>7. /\ PlansAlone' /\ NotesOfCompleted' /\ KindFits' /\ ReplySilences'
      /\ InLine' /\ PlannerAlone'
  BY <1>1, <1>3 DEF SessionInv, PlansAlone, NotesOfCompleted, KindFits, ReplySilences,
                    InLine, PlannerAlone
<1>8. NotesUsedOnce'
  BY <1>1, <1>3 DEF SessionInv, NotesUsedOnce, ClaimFits
<1>9. QED
  BY <1>4, <1>5, <1>6, <1>7, <1>8 DEF SessionInv

(* Time, a cancelled await and the death of the process only take away. *)
LEMMA EnvironmentKeeps ==
  ASSUME SessionInv, TypeOK', TimePasses \/ Cancelled \/ Crash
  PROVE  SessionInv'
<1>1. runs' = runs /\ note' = note /\ told' = told /\ replied' = replied
  BY DEF TimePasses, Cancelled, Crash
<1>2. wake' # NoWake => wake # NoWake /\ wake'.by = wake.by
  BY DEF TimePasses, Cancelled, Crash, NoWake, SessionInv, TypeOK, WakeRows
<1>3. \/ job' = job /\ live' = live
      \/ job' = Idle /\ live' = live /\ job.at # "plan"
      \/ job' = Idle /\ live' = Down
  BY DEF TimePasses, Cancelled, Crash
<1>4. JobFits' /\ NoGhostPlanner'
  <2>1. CASE job' = job /\ live' = live
    BY <1>1, <2>1 DEF SessionInv, JobFits, NoGhostPlanner, Planning
  <2>2. CASE job' = Idle /\ live' = live /\ job.at # "plan"
    BY <1>1, <2>2 DEF SessionInv, JobFits, NoGhostPlanner, Planning, Idle
  <2>3. CASE job' = Idle /\ live' = Down
    BY <2>3, DownIsQuiet
  <2> QED BY <1>3, <2>1, <2>2, <2>3
<1>5. ClaimFits' /\ ReplyFits'
  BY <1>1, <1>3 DEF SessionInv, ClaimFits, ReplyFits, ClaimedBy, MarkedAfter, Idle
<1>6. ReplySilences'
  BY <1>1, <1>2, WakeStays DEF SessionInv
<1>7. QED
  BY <1>1, <1>4, <1>5, <1>6
     DEF SessionInv, PlansAlone, NotesUsedOnce, NotesOfCompleted, KindFits,
         InLine, PlannerAlone

-----------------------------------------------------------------------------
(* The theorems *)

(* Initially there is no run, no note and no job. *)
LEMMA SessionInit == Init => SessionInv
<1> SUFFICES ASSUME Init PROVE SessionInv
  OBVIOUS
<1>1. TypeOK
  BY TypeInit
<1>2. JobFits /\ NoGhostPlanner
  BY DEF Init, Idle, Down, JobFits, NoGhostPlanner
<1>3. PlansAlone /\ ClaimFits /\ NotesUsedOnce /\ NotesOfCompleted
  BY DEF Init, NoRun, NoNote, Idle, PlansAlone, ClaimFits, NotesUsedOnce,
         NotesOfCompleted
<1>4. ReplyFits /\ ReplySilences /\ KindFits /\ InLine /\ PlannerAlone
  BY DEF Init, NoRun, ReplyFits, ReplySilences, KindFits, InLine, PlannerAlone
<1>5. QED BY <1>1, <1>2, <1>3, <1>4 DEF SessionInv

(* Every step of the session keeps its invariant. *)
LEMMA SessionStep == SessionInv /\ [Next]_sessionVars => SessionInv'
<1> SUFFICES ASSUME SessionInv, [Next]_sessionVars PROVE SessionInv'
  OBVIOUS
<1>1. TypeOK'
  BY TypeStep DEF SessionInv
<1>2. CASE Initialize
  BY <1>1, <1>2, InitializeKeeps
<1>3. ASSUME NEW r \in RunIds, StartRun(r) \/ BeginSettle(r) \/ StartChat(r)
      PROVE  SessionInv'
  BY <1>1, <1>3, StartRunKeeps, BeginSettleKeeps, StartChatKeeps
<1>4. ASSUME NEW r \in RunIds, Returns(r)
      PROVE  SessionInv'
  BY <1>1, <1>4, PlanLostKeeps, PlanAcceptedKeeps, SettlementReturnsKeeps,
     SidecarReturnsKeeps, ChatReturnsKeeps DEF Returns, PlannerReturns
<1>5. CASE Interrupt
  BY <1>1, <1>5, InterruptKeeps
<1>6. CASE TimePasses \/ Cancelled \/ Crash
  BY <1>1, <1>6, EnvironmentKeeps
<1>7. CASE UNCHANGED sessionVars
  BY <1>1, <1>7
     DEF sessionVars, SessionInv, JobFits, NoGhostPlanner, Planning, PlansAlone,
         ClaimFits, ClaimedBy, NotesUsedOnce, NotesOfCompleted, ReplyFits,
         ReplySilences, KindFits, MarkedAfter, InLine, PlannerAlone
<1> QED
  BY <1>2, <1>3, <1>4, <1>5, <1>6, <1>7 DEF Next

(* The invariant of the session holds in every state. *)
LEMMA SessionHolds == Spec => []SessionInv
BY SessionInit, SessionStep, PTL DEF Spec

(* Rows and records keep their types, for sessions of every length. *)
THEOREM SessionTypeCorrect == Spec => []TypeOK
<1>1. SessionInv => TypeOK
  BY DEF SessionInv
<1>2. QED BY <1>1, SessionHolds, PTL

(* Once a process has initialised, a planning run is one whose planner is being
   awaited: neither a cancelled planner nor a crash between two saves leaves a
   run that blocks the session (recover_stale_planning_runs). *)
THEOREM NoGhostPlannerHolds == Spec => []NoGhostPlanner
<1>1. SessionInv => NoGhostPlanner
  BY DEF SessionInv
<1>2. QED BY <1>1, SessionHolds, PTL

(* A plan is made only behind runs that have all ended, whatever the chat tool has left
   open beside one another before (get_active_run, execute_chat_xhs). *)
THEOREM PlansAloneHolds == Spec => []PlansAlone
<1>1. SessionInv => PlansAlone
  BY DEF SessionInv
<1>2. QED BY <1>1, SessionHolds, PTL

(* An inclination note informs at most one accepted plan, whatever is lost
   between claiming, accepting and consuming it. *)
THEOREM NotesUsedOnceHolds == Spec => []NotesUsedOnce
<1>1. SessionInv => NotesUsedOnce
  BY DEF SessionInv
<1>2. QED BY <1>1, SessionHolds, PTL

(* Every note was left by a run that completed. *)
THEOREM NotesOfCompletedHolds == Spec => []NotesOfCompleted
<1>1. SessionInv => NotesOfCompleted
  BY DEF SessionInv
<1>2. QED BY <1>1, SessionHolds, PTL

(* After a reply no planner and no settlement still under way writes a wake, but that of
   a run the reply did not reach because it marked a chat run put beside it. *)
THEOREM ReplySilencesHolds == Spec => []ReplySilences
<1>1. SessionInv => ReplySilences
  BY DEF SessionInv
<1>2. QED BY <1>1, SessionHolds, PTL

(* An ended run's row never changes again. *)
LEMMA EndedStep ==
  SessionInv /\ [Next]_sessionVars =>
    \A r \in RunIds : runs[r].state \in Ended => runs'[r] = runs[r]
<1> SUFFICES ASSUME SessionInv, [Next]_sessionVars,
                    NEW q \in RunIds, runs[q].state \in Ended
             PROVE  runs'[q] = runs[q]
  OBVIOUS
<1>0. runs \in [RunIds -> RunRows] /\ runs[q].state \notin {"absent", "planning", "open"}
  BY DEF SessionInv, TypeOK, Ended
<1>1. CASE Initialize
  BY <1>0, <1>1 DEF Initialize, RunRecovered
<1>2. ASSUME NEW r \in RunIds, StartRun(r) \/ StartChat(r) \/ BeginSettle(r)
      PROVE  runs'[q] = runs[q]
  BY <1>0, <1>2 DEF StartRun, StartChat, BeginSettle, NextRun
<1>3. ASSUME NEW r \in RunIds, PlannerReturns(r)
      PROVE  runs'[q] = runs[q]
  <2>1. Planning(r)
    BY <1>3 DEF PlannerReturns, PlannerFails, PlanDropped, PlanAccepted
  <2>2. runs[r].state = "planning"
    BY <2>1 DEF SessionInv, JobFits, NoGhostPlanner, Planning, Idle
  <2> QED BY <1>0, <1>3, <2>2
       DEF PlannerReturns, PlannerFails, PlanDropped, PlanAccepted, PlanEnded
<1>4. ASSUME NEW r \in RunIds, SettlementReturns(r) \/ ChatReturns(r)
      PROVE  runs'[q] = runs[q]
  <2>1. runs[r].state = "open"
    BY <1>4 DEF SettlementReturns, ChatReturns, SessionInv, JobFits
  <2> QED BY <1>0, <1>4, <2>1 DEF SettlementReturns, ChatReturns
<1>5. ASSUME NEW r \in RunIds, SidecarReturns(r)
      PROVE  runs'[q] = runs[q]
  BY <1>5 DEF SidecarReturns
<1>6. CASE Interrupt
  BY <1>0, <1>6 DEF Interrupt
<1>7. CASE TimePasses \/ Cancelled \/ Crash \/ UNCHANGED sessionVars
  BY <1>7 DEF TimePasses, Cancelled, Crash, sessionVars
<1> QED
  BY <1>1, <1>2, <1>3, <1>4, <1>5, <1>6, <1>7 DEF Next, Returns

(* What has ended stays as it was recorded, whatever planner, settlement or
   recovery comes later. *)
THEOREM EndedStaysHolds == Spec => EndedStays
BY EndedStep, SessionHolds, PTL DEF Spec, EndedStays
=============================================================================
