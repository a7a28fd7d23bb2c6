--------------------------- MODULE UpdateTaskProofs ---------------------------
(***************************************************************************)
(* For any number of presses, of scripts killed and of panel crashes: the  *)
(* update task is well typed, at most one script updates at a time, and     *)
(* while the service updates, the panel refuses changes, but for claims over *)
(* a claim and verdicts that came too late.                                *)
(***************************************************************************)
EXTENDS UpdateTask, TLAPS

USE DEF vars, fileVars, statusVars, jobVars, panelVars, bounds

(* kota-autoupdate frees the lock when it ends, so whoever else could work  *)
(* must not have taken it over meanwhile: while it looks it holds the lock. *)
LockInv ==
    /\ TypeOK
    /\ job["auto"] = "looking" => lock = "auto"

\* What is written keeps its type.
LEMMA StatusTypes ==
    /\ Unknown \in Status
    /\ \A run \in Runs : \A state \in {"running", "success", "failed"} :
         Write(run, state) =>
             /\ status' \in Status /\ status'.state = state /\ ~status'.starting
             /\ age' = "fresh" /\ current' = {} /\ mistaken' = FALSE
<1>1. Unknown \in Status
  BY DEF Unknown, Status, Runs
<1>2. ASSUME NEW run \in Runs, NEW state \in {"running", "success", "failed"},
             Write(run, state)
      PROVE  /\ status' \in Status /\ status'.state = state /\ ~status'.starting
             /\ age' = "fresh" /\ current' = {} /\ mistaken' = FALSE
  <2>1. /\ status' = [run |-> run, state |-> state, starting |-> FALSE]
        /\ age' = "fresh" /\ current' = {} /\ mistaken' = FALSE
    BY <1>2 DEF Write
  <2>2. state \in {"none", "running", "success", "failed"}
    OBVIOUS
  <2>3. QED
    BY <2>1, <2>2 DEF Status
<1>3. QED
  BY <1>1, <1>2

\* A verdict is written, or is not.
LEMMA VerdictTypes ==
    ASSUME TypeOK, NEW q \in Presses \cup {Poll}, NEW step \in Doomed, Verdict(q, step)
    PROVE  /\ status' \in Status /\ age' \in {"fresh", "stale", "old"}
           /\ current' \subseteq current \ {q} /\ mistaken' \in BOOLEAN
           /\ faults' \in 0..MaxFaults
<1>1. progress[q] \in Status
  BY DEF TypeOK
<1>2. CASE /\ status' = [run |-> progress[q].run, state |-> "failed", starting |-> FALSE]
           /\ age' = "fresh" /\ current' = {}
           /\ mistaken' = (q \notin current \/ step = "guessed")
           /\ UNCHANGED faults
  <2>1. status' \in Status
    BY <1>1, <1>2 DEF Status
  <2>2. mistaken' \in BOOLEAN
    BY <1>2
  <2>3. QED
    BY <1>2, <2>1, <2>2 DEF TypeOK
<1>3. CASE /\ faults < MaxFaults /\ faults' = faults + 1
           /\ current' = current \ {q} /\ UNCHANGED fileVars
  BY <1>3, BoundAssumption DEF TypeOK
<1>4. QED
  BY <1>2, <1>3 DEF Verdict

\* Asking systemctl keeps the bound.
LEMMA AskedTypes ==
    ASSUME TypeOK, NEW active \in Answers, Asked(active)
    PROVE  faults' \in 0..MaxFaults /\ active \in BOOLEAN
<1>1. CASE active = UnitActive
  BY <1>1 DEF TypeOK, Asked, UnitActive
<1>2. CASE active # UnitActive
  <2>1. faults < MaxFaults /\ active \in BOOLEAN
    BY <1>2 DEF Answers
  <2>2. QED
    BY <1>2, <2>1, BoundAssumption DEF TypeOK, Asked
<1>3. QED
  BY <1>1, <1>2

\* A new panel process keeps the types and touches no script.
LEMMA PanelTypes ==
    ASSUME TypeOK, PanelStartsAnew
    PROVE  /\ memRunning' \in BOOLEAN
           /\ press' \in [Presses -> InFlight \cup
                            {"new", "accepted", "refused", "failed", "lost"}]
           /\ poll' \in Doomed \cup {"idle", "read", "checked", "judged"}
           /\ progress' \in [Presses \cup {Poll} -> Status]
BY StatusTypes DEF TypeOK, PanelStartsAnew

\* Handlers of the panel: presses and polls.
LEMMA PressStep ==
    ASSUME LockInv, NEW p \in Presses, Press(p)
    PROVE  LockInv'
<1> USE StatusTypes DEF LockInv, TypeOK, Runs, InFlight, Claiming, Doomed, Working, Jobs
<1>1. CASE PressRead(p)
  BY <1>1 DEF PressRead, At, Read
<1>2. CASE PressJudge(p)
  <2>1. PICK active \in Answers :
          /\ Asked(active)
          /\ IF Dead(p, active) THEN At(p, Doom(active)) /\ UNCHANGED <<progress, current>>
                                ELSE At(p, "judged") /\ Forget(p)
    BY <1>2 DEF PressJudge
  <2>2. faults' \in 0..MaxFaults
    BY <2>1, AskedTypes
  <2>3. Doom(active) \in Doomed
    BY DEF Doom
  <2>4. QED
    BY <1>2, <2>1, <2>2, <2>3 DEF PressJudge, At, Forget
<1>3. CASE PressGivesUp(p)
  <2>1. press[p] \in Doomed /\ Verdict(p, press[p])
    BY <1>3 DEF PressGivesUp
  <2>2. /\ status' \in Status /\ age' \in {"fresh", "stale", "old"}
        /\ current' \subseteq current \ {p} /\ mistaken' \in BOOLEAN
        /\ faults' \in 0..MaxFaults
    BY <2>1, VerdictTypes
  <2>3. QED
    BY <1>3, <2>2 DEF PressGivesUp, At
<1>4. CASE PressClears(p)
  BY <1>4 DEF PressClears, At
<1>5. CASE PressGate(p)
  <2>1. PICK active \in Answers :
          /\ Asked(active)
          /\ At(p, IF RunningBy(active) THEN "refused" ELSE "gated")
    BY <1>5 DEF PressGate
  <2>2. faults' \in 0..MaxFaults
    BY <2>1, AskedTypes
  <2>3. QED
    BY <1>5, <2>1, <2>2 DEF PressGate, At
<1>6. CASE PressClaim(p)
  <2>1. /\ overlapping' \in BOOLEAN /\ memRunning' \in BOOLEAN
        /\ press' \in [Presses -> InFlight \cup {"new", "accepted", "refused", "failed", "lost"}]
    BY <1>6 DEF PressClaim, At
  <2>2. QED
    BY <1>6, <2>1 DEF PressClaim
<1>7. CASE PressWriteStatus(p)
  BY <1>7 DEF PressWriteStatus, At, Status
<1>8. CASE PressWriteContext(p)
  BY <1>8 DEF PressWriteContext, At
<1>9. CASE PressStart(p)
  BY <1>9 DEF PressStart, At
<1>10. CASE PressFails(p)
  BY <1>10 DEF PressFails, At
<1>11. CASE PressEnds(p)
  BY <1>11 DEF PressEnds, At
<1>12. QED
  BY <1>1, <1>2, <1>3, <1>4, <1>5, <1>6, <1>7, <1>8, <1>9, <1>10, <1>11 DEF Press

\* Polls keep the types and touch no script.
LEMMA PollStep ==
    ASSUME LockInv, Polling
    PROVE  LockInv'
<1> USE StatusTypes DEF LockInv, TypeOK, Runs, Doomed, Working, Jobs
<1>1. CASE PollRead
  BY <1>1 DEF PollRead, Read
<1>2. CASE PollJudge
  <2>1. PICK active \in Answers :
          /\ Asked(active)
          /\ poll' = IF Dead(Poll, active) THEN Doom(active) ELSE "checked"
    BY <1>2 DEF PollJudge
  <2>2. faults' \in 0..MaxFaults
    BY <2>1, AskedTypes
  <2>3. QED
    BY <1>2, <2>1, <2>2 DEF PollJudge, Doom
<1>3. CASE PollJudgeStart
  BY <1>3 DEF PollJudgeStart
<1>4. CASE PollGivesUp
  <2>1. poll \in Doomed /\ Verdict(Poll, poll)
    BY <1>4 DEF PollGivesUp
  <2>2. /\ status' \in Status /\ age' \in {"fresh", "stale", "old"}
        /\ current' \subseteq current \ {Poll} /\ mistaken' \in BOOLEAN
        /\ faults' \in 0..MaxFaults
    BY <2>1, VerdictTypes
  <2>3. progress' \in [Presses \cup {Poll} -> Status]
    <3>1. progress[Poll] \in Status
      OBVIOUS
    <3>2. [progress[Poll] EXCEPT !.state = "failed", !.starting = FALSE] \in Status
      BY <3>1 DEF Status
    <3>3. progress' = [progress EXCEPT ![Poll] =
                         [progress[Poll] EXCEPT !.state = "failed", !.starting = FALSE]]
      BY <1>4 DEF PollGivesUp
    <3>4. QED
      BY <3>2, <3>3
  <2>4. QED
    BY <1>4, <2>2, <2>3 DEF PollGivesUp
<1>5. CASE PollStore
  BY <1>5 DEF PollStore
<1>6. QED
  BY <1>1, <1>2, <1>3, <1>4, <1>5 DEF Polling

\* What a script writes keeps the type of the status.
LEMMA ReportTypes ==
    ASSUME TypeOK, NEW j \in Jobs, NEW state \in {"running", "success", "failed"},
           Report(j, state)
    PROVE  /\ status' \in Status /\ age' \in {"fresh", "stale", "old"}
           /\ current' \subseteq Presses \cup {Poll} /\ mistaken' \in BOOLEAN
<1>1. CASE j \in Scripted
  <2>1. runOf[j] \in Runs /\ Write(runOf[j], state)
    BY <1>1 DEF TypeOK, Report
  <2>2. QED
    BY <2>1, StatusTypes
<1>2. CASE j \notin Scripted
  BY <1>2 DEF TypeOK, Report
<1>3. QED
  BY <1>1, <1>2

\* Scripts take, keep and free the lock.
LEMMA ScriptStep ==
    ASSUME LockInv, NEW j \in Jobs, Script(j) \/ NextStage(j) \/ Killed(j)
    PROVE  LockInv'
<1> USE DEF LockInv, TypeOK, Working, Step
<1>1. CASE ScriptBegins(j)
  BY <1>1, StatusTypes DEF ScriptBegins, Jobs, Scripted
<1>2. CASE LockUpdate(j)
  BY <1>2, ReportTypes DEF LockUpdate, Jobs
<1>3. CASE CancelUpdate(j)
  BY <1>3 DEF CancelUpdate, Jobs
<1>4. CASE UpdateFails(j)
  BY <1>4, ReportTypes DEF UpdateFails, Jobs
<1>5. CASE Install(j)
  BY <1>5, ReportTypes, PanelTypes DEF Install, Jobs
<1>6. CASE UpdateDone(j)
  BY <1>6, ReportTypes DEF UpdateDone, Jobs
<1>7. CASE ScriptEnds(j)
  <2>1. /\ status' \in Status /\ age' = "fresh"
        /\ current' = {} /\ mistaken' = FALSE
    <3>1. PICK state \in {"success", "failed"} : Write(runOf[j], state)
      BY <1>7 DEF ScriptEnds
    <3>2. runOf[j] \in Runs
      OBVIOUS
    <3>3. QED
      BY <3>1, <3>2, StatusTypes
  <2>2. QED
    BY <1>7, <2>1 DEF ScriptEnds, Gone, Jobs, Runs
<1>8. CASE NextStage(j)
  BY <1>8, ReportTypes DEF NextStage
<1>9. CASE Killed(j)
  <2>1. /\ status' \in Status /\ age' \in {"fresh", "stale", "old"}
        /\ current' \subseteq Presses \cup {Poll} /\ mistaken' \in BOOLEAN
    BY <1>9, ReportTypes DEF Killed
  <2>2. faults' \in 0..MaxFaults
    BY <1>9, BoundAssumption DEF Killed
  <2>3. QED
    BY <1>9, <2>1, <2>2 DEF Killed, Gone, Jobs, Runs
<1>10. QED
  BY <1>1, <1>2, <1>3, <1>4, <1>5, <1>6, <1>7, <1>8, <1>9 DEF Script

\* Every step keeps the lock with the script that works.
LEMMA LockStep == LockInv /\ [Next]_vars => LockInv'
<1> SUFFICES ASSUME LockInv, [Next]_vars
             PROVE  LockInv'
  OBVIOUS
<1> USE DEF LockInv, TypeOK, Working, Step, Jobs
<1>1. CASE TimePasses
  BY <1>1 DEF TimePasses
<1>2. CASE PanelDies
  BY <1>2, PanelTypes, BoundAssumption DEF PanelDies
<1>3. CASE AutoCheck
  BY <1>3, BoundAssumption DEF AutoCheck
<1>4. CASE AutoUpToDate
  BY <1>4 DEF AutoUpToDate
<1>5. CASE AutoFindsCommit
  BY <1>5 DEF AutoFindsCommit
<1>6. CASE ShellStarts
  BY <1>6 DEF ShellStarts
<1>7. CASE UNCHANGED vars
  BY <1>7
<1>8. ASSUME NEW p \in Presses, Press(p)
      PROVE  LockInv'
  BY <1>8, PressStep
<1>9. CASE Polling
  BY <1>9, PollStep
<1>10. ASSUME NEW j \in Jobs, Script(j) \/ NextStage(j) \/ Killed(j)
       PROVE  LockInv'
  BY <1>10, ScriptStep
<1>11. QED
  BY <1>1, <1>2, <1>3, <1>4, <1>5, <1>6, <1>7, <1>8, <1>9, <1>10 DEF Next, AutoDecides

\* The script that works holds update.lock, and the script that could free it
\* under another's hands still holds it itself.
THEOREM LockCorrect == Spec => []LockInv
<1>1. Init => LockInv
  <2> SUFFICES ASSUME Init
               PROVE  LockInv
    OBVIOUS
  <2>1. /\ status \in Status /\ progress \in [Presses \cup {Poll} -> Status]
        /\ press \in [Presses -> InFlight \cup {"new", "accepted", "refused", "failed", "lost"}]
    BY StatusTypes DEF Init
  <2>2. faults \in 0..MaxFaults /\ checks \in 0..MaxChecks
    BY BoundAssumption DEF Init
  <2>3. QED
    BY <2>1, <2>2 DEF Init, LockInv, TypeOK, Runs, Working, Jobs
<1>2. QED
  BY <1>1, LockStep, PTL DEF Spec

\* Every variable of the update task keeps its range.
THEOREM UpdateTypeCorrect == Spec => []TypeOK
<1>1. LockInv => TypeOK
  BY DEF LockInv
<1>2. QED
  BY <1>1, LockCorrect, PTL

\* However presses, the daily check, manual updates, kills and crashes
\* interleave, no two scripts replace programs and restart services at once.
THEOREM OneUpdaterOnly == Spec => []OneUpdater
<1>1. LockInv => OneUpdater
  BY DEF LockInv, TypeOK, OneUpdater
<1>2. QED
  BY <1>1, LockCorrect, PTL
-----------------------------------------------------------------------------
(* What keeps the panel's gate shut while the service works.                 *)

Begun == job["unit"] \notin {"off", "begin"}
Stage(q) == IF q = Poll THEN poll ELSE press[q]
Reading == {"read", "checked"} \cup Doomed

\* kota-autoupdate holds the lock as long as it runs (and so never works): its
\* last words never fall into the service's work.  An administrator's update has
\* none.
LastWords ==
    /\ job["auto"] # "off" => lock = "auto" /\ job["auto"] \notin Working
    /\ job["shell"] \notin {"done", "failed"}

\* Two claims at once, a claim beside the service, and so a start not yet
\* reported beside a service that began, are of a press that overlapped.
ClaimsOverlap ==
    /\ \A p, q \in Presses : press[p] \in Claiming /\ press[q] \in Claiming => p = q \/ overlapping
    /\ \A p \in Presses : press[p] \in Claiming /\ UnitActive => overlapping
    /\ status.starting /\ Begun => overlapping

\* A verdict in preparation that no write has overtaken is on what the status
\* says, and the service was off when systemctl answered: had it begun since, it
\* would have written.
VerdictsStand ==
    \A q \in current :
        /\ Stage(q) \in Reading => progress[q] = status
        /\ Stage(q) = "doomed" => (Begun => overlapping)

StatusSays == job["unit"] \in Working => status.state = "running" \/ overlapping \/ mistaken

GateInv == LastWords /\ ClaimsOverlap /\ VerdictsStand /\ StatusSays

\* Where a press is, once it moved, and where every other reader is.
LEMMA PressMoves ==
    ASSUME TypeOK, NEW p \in Presses, NEW step, At(p, step), UNCHANGED poll
    PROVE  /\ Stage(p)' = step
           /\ \A r \in Presses : press'[r] = IF r = p THEN step ELSE press[r]
           /\ \A r \in (Presses \cup {Poll}) \ {p} : Stage(r)' = Stage(r)
BY PollAssumption DEF TypeOK, At, Stage

\* A reader moves, and nothing is written: the others' verdicts stand.
LEMMA ReaderMoves ==
    ASSUME VerdictsStand, NEW q \in Presses \cup {Poll},
           UNCHANGED <<status, job, overlapping>>,
           current \subseteq Presses \cup {Poll}, current' \subseteq current \cup {q},
           \A r \in (Presses \cup {Poll}) \ {q} :
               Stage(r)' = Stage(r) /\ progress'[r] = progress[r],
           q \in current' /\ Stage(q)' \in Reading => progress'[q] = status,
           q \in current' /\ Stage(q)' = "doomed" => (Begun => overlapping)
    PROVE  VerdictsStand'
<1> SUFFICES ASSUME NEW r \in current'
             PROVE  /\ Stage(r)' \in Reading => progress'[r] = status'
                    /\ Stage(r)' = "doomed" => (Begun' => overlapping')
  BY DEF VerdictsStand
<1>1. Begun' = Begun
  BY DEF Begun
<1>2. CASE r = q
  BY <1>1, <1>2
<1>3. CASE r # q
  BY <1>1, <1>3 DEF VerdictsStand
<1>4. QED
  BY <1>2, <1>3

\* Nothing is left to stand once the status is written.
LEMMA NothingStands ==
    ASSUME current' = {}
    PROVE  VerdictsStand'
BY DEF VerdictsStand

\* A verdict of the panel takes "running" away from a working service only if it
\* is mistaken, or the service was started over a claim.
LEMMA VerdictGate ==
    ASSUME GateInv, NEW q \in Presses \cup {Poll}, Stage(q) \in Doomed,
           Verdict(q, Stage(q)), UNCHANGED <<job, overlapping>>
    PROVE  StatusSays' /\ (status'.starting => status.starting)
<1>1. CASE /\ status' = [run |-> progress[q].run, state |-> "failed", starting |-> FALSE]
           /\ mistaken' = (q \notin current \/ Stage(q) = "guessed")
  <2>1. q \in current /\ Stage(q) = "doomed" => (Begun => overlapping)
    BY DEF GateInv, VerdictsStand
  <2>2. job["unit"] \in Working => Begun
    BY DEF Working, Begun
  <2>3. job["unit"] \in Working => overlapping \/ mistaken'
    <3>1. CASE q \in current /\ Stage(q) = "doomed"
      BY <2>1, <2>2, <3>1
    <3>2. CASE ~(q \in current /\ Stage(q) = "doomed")
      <4>1. Stage(q) = "doomed" \/ Stage(q) = "guessed"
        BY DEF Doomed
      <4>2. mistaken' = TRUE
        BY <1>1, <3>2, <4>1
      <4>3. QED
        BY <4>2
    <3>3. QED
      BY <3>1, <3>2
  <2>4. QED
    BY <1>1, <2>3 DEF StatusSays
<1>2. CASE UNCHANGED fileVars
  BY <1>2 DEF GateInv, StatusSays
<1>3. QED
  BY <1>1, <1>2 DEF Verdict

\* Reading, judging and clearing: the claims stay what they are.
LEMMA ClaimsKept ==
    ASSUME ClaimsOverlap, UNCHANGED <<job, overlapping>>,
           status'.starting => status.starting,
           \A p \in Presses : press'[p] \in Claiming => press[p] \in Claiming
    PROVE  ClaimsOverlap'
BY DEF ClaimsOverlap, UnitActive, Begun

\* Handlers of the panel before the claim.
LEMMA JudgingGateInv ==
    ASSUME LockInv, GateInv, NEW p \in Presses,
           PressRead(p) \/ PressJudge(p) \/ PressGivesUp(p) \/ PressClears(p) \/ PressGate(p)
    PROVE  GateInv'
<1>1. TypeOK /\ UNCHANGED <<lock, job, poll, overlapping>>
  BY DEF LockInv, PressRead, PressJudge, PressGivesUp, PressClears, PressGate
<1>2. PICK step \in {"read", "doomed", "guessed", "clearing", "judged", "refused", "gated"} :
        At(p, step)
  BY DEF PressRead, PressJudge, PressGivesUp, PressClears, PressGate, Doom
<1>3. /\ Stage(p)' = step
      /\ \A r \in Presses : press'[r] = IF r = p THEN step ELSE press[r]
      /\ \A r \in (Presses \cup {Poll}) \ {p} : Stage(r)' = Stage(r)
  BY <1>1, <1>2, PressMoves
<1>4. \A r \in Presses : press'[r] \in Claiming => press[r] \in Claiming
  BY <1>3 DEF Claiming
<1>5. LastWords'
  BY <1>1 DEF GateInv, LastWords
<1>6. Stage(p) = press[p] /\ current \subseteq Presses \cup {Poll}
  BY <1>1, PollAssumption DEF TypeOK, Stage
<1>7. CASE PressRead(p)
  <2>1. /\ UNCHANGED <<status, mistaken>> /\ current' = current \cup {p}
        /\ step = "read"
    BY <1>3, <1>6, <1>7 DEF PressRead, At, Read, TypeOK, Stage
  <2>2. \A r \in Presses \cup {Poll} : progress'[r] = IF r = p THEN status ELSE progress[r]
    BY <1>1, <1>7 DEF PressRead, Read, TypeOK
  <2>3. VerdictsStand'
    BY <1>1, <1>3, <1>6, <2>1, <2>2, ReaderMoves DEF GateInv
  <2>4. ClaimsOverlap' /\ StatusSays'
    BY <1>1, <1>4, <2>1, ClaimsKept DEF GateInv, StatusSays
  <2>5. QED
    BY <1>5, <2>3, <2>4 DEF GateInv
<1>8. CASE PressJudge(p)
  <2>1. PICK active \in Answers :
          IF Dead(p, active) THEN At(p, Doom(active)) /\ UNCHANGED <<progress, current>>
                             ELSE At(p, "judged") /\ Forget(p)
    BY <1>8 DEF PressJudge
  <2>2. UNCHANGED <<status, mistaken>> /\ press[p] = "read"
    BY <1>8 DEF PressJudge
  <2>3. ClaimsOverlap' /\ StatusSays'
    BY <1>1, <1>4, <2>2, ClaimsKept DEF GateInv, StatusSays
  <2>4. CASE Dead(p, active)
    <3>1. UNCHANGED <<progress, current>> /\ Stage(p)' = Doom(active)
      BY <1>1, <2>1, <2>4, PressMoves
    <3>2. p \in current => progress[p] = status
      BY <1>6, <2>2 DEF GateInv, VerdictsStand, Reading
    <3>3. p \in current /\ Stage(p)' = "doomed" => ~Begun
      <4> SUFFICES ASSUME p \in current, Stage(p)' = "doomed"
                   PROVE  ~UnitActive
        BY DEF Begun, UnitActive
      <4>1. status.state = "running" /\ ~RunningBy(active)
        BY <2>4, <3>2 DEF Dead
      <4>2. active = UnitActive
        BY <3>1 DEF Doom
      <4>3. QED
        BY <4>1, <4>2 DEF RunningBy
    <3>4. VerdictsStand'
      BY <1>1, <1>3, <1>6, <2>2, <3>1, <3>2, <3>3, ReaderMoves DEF GateInv
    <3>5. QED
      BY <1>5, <2>3, <3>4 DEF GateInv
  <2>5. CASE ~Dead(p, active)
    <3>1. /\ current' = current \ {p}
          /\ \A r \in (Presses \cup {Poll}) \ {p} : progress'[r] = progress[r]
      BY <1>1, <2>1, <2>5 DEF Forget, TypeOK
    <3>2. VerdictsStand'
      BY <1>1, <1>3, <1>6, <2>2, <3>1, ReaderMoves DEF GateInv
    <3>3. QED
      BY <1>5, <2>3, <3>2 DEF GateInv
  <2>6. QED
    BY <2>4, <2>5
<1>9. CASE PressGivesUp(p)
  <2>1. /\ press[p] \in Doomed /\ Verdict(p, press[p])
        /\ progress' = [progress EXCEPT ![p] = Unknown]
    BY <1>9 DEF PressGivesUp
  <2>2. StatusSays' /\ (status'.starting => status.starting)
    BY <1>1, <1>6, <2>1, VerdictGate
  <2>3. ClaimsOverlap'
    BY <1>1, <1>4, <2>2, ClaimsKept DEF GateInv
  <2>4. VerdictsStand'
    <3>1. CASE current' = {}
      BY <3>1, NothingStands
    <3>2. CASE current' = current \ {p} /\ UNCHANGED status
      <4>1. \A r \in (Presses \cup {Poll}) \ {p} : progress'[r] = progress[r]
        BY <1>1, <2>1 DEF TypeOK
      <4>2. QED
        BY <1>1, <1>3, <1>6, <3>2, <4>1, ReaderMoves DEF GateInv
    <3>3. QED
      BY <2>1, <3>1, <3>2 DEF Verdict
  <2>5. QED
    BY <1>5, <2>2, <2>3, <2>4 DEF GateInv
<1>10. CASE PressClears(p) \/ PressGate(p)
  <2>1. /\ UNCHANGED <<status, mistaken, current, progress>>
        /\ At(p, "judged") \/ At(p, "refused") \/ At(p, "gated")
    BY <1>10 DEF PressClears, PressGate
  <2>2. Stage(p)' \in {"judged", "refused", "gated"}
    BY <1>1, <2>1, PressMoves
  <2>3. VerdictsStand'
    <3>1. Stage(p)' \notin Reading
      BY <2>2 DEF Reading, Doomed
    <3>2. QED
      BY <1>1, <1>3, <1>6, <2>1, <3>1, ReaderMoves DEF GateInv, Reading, Doomed
  <2>4. ClaimsOverlap' /\ StatusSays'
    BY <1>1, <1>4, <2>1, ClaimsKept DEF GateInv, StatusSays
  <2>5. QED
    BY <1>5, <2>3, <2>4 DEF GateInv
<1>11. QED
  BY <1>7, <1>8, <1>9, <1>10

\* Handlers of the panel from the claim on: the claim notices what it overlaps.
LEMMA ClaimingGateInv ==
    ASSUME LockInv, GateInv, NEW p \in Presses,
           \/ PressClaim(p) \/ PressWriteStatus(p) \/ PressWriteContext(p)
           \/ PressStart(p) \/ PressFails(p) \/ PressEnds(p)
    PROVE  GateInv'
<1>1. TypeOK /\ UNCHANGED <<lock, poll, progress>>
  BY DEF LockInv, PressClaim, PressWriteStatus, PressWriteContext, PressStart, PressFails,
         PressEnds
<1>2. PICK step \in {"refused", "claimed", "written", "armed", "accepted", "ending", "failed"} :
        At(p, step)
  BY DEF PressClaim, PressWriteStatus, PressWriteContext, PressStart, PressFails, PressEnds
<1>3. /\ Stage(p)' = step
      /\ \A r \in Presses : press'[r] = IF r = p THEN step ELSE press[r]
      /\ \A r \in (Presses \cup {Poll}) \ {p} : Stage(r)' = Stage(r)
  BY <1>1, <1>2, PressMoves
<1>4. Stage(p)' \notin Reading /\ current \subseteq Presses \cup {Poll}
  BY <1>1, <1>3 DEF Reading, Doomed, TypeOK
<1>5. UNCHANGED job => LastWords'
  BY <1>1 DEF GateInv, LastWords
<1>6. UNCHANGED <<status, job, overlapping, current>> => VerdictsStand'
  BY <1>1, <1>3, <1>4, ReaderMoves DEF GateInv, Reading, Doomed
<1>7. CASE PressClaim(p) /\ ~memRunning
  <2>1. /\ UNCHANGED <<status, mistaken, current, job>>
        /\ step = "claimed"
        /\ overlapping' = (UnitActive \/ \E q \in Presses \ {p} : press[q] \in Claiming)
    BY <1>1, <1>3, <1>7, PressMoves DEF PressClaim
  <2>2. (UnitActive => overlapping') /\ \A q \in Presses \ {p} : press[q] \in Claiming => overlapping'
    <3>1. CASE UnitActive \/ \E q \in Presses \ {p} : press[q] \in Claiming
      BY <2>1, <3>1
    <3>2. CASE ~(UnitActive \/ \E q \in Presses \ {p} : press[q] \in Claiming)
      BY <3>2
    <3>3. QED
      BY <3>1, <3>2
  <2>3. Begun => overlapping'
    BY <2>2 DEF Begun, UnitActive
  <2>4. ClaimsOverlap'
    <3>1. \A q, r \in Presses : press'[q] \in Claiming /\ press'[r] \in Claiming =>
                                    q = r \/ overlapping'
      BY <1>3, <2>2
    <3>2. QED
      BY <2>1, <2>2, <2>3, <3>1 DEF ClaimsOverlap, UnitActive, Begun
  <2>5. VerdictsStand'
    <3> SUFFICES ASSUME NEW r \in current
                 PROVE  /\ Stage(r)' \in Reading => progress[r] = status
                        /\ Stage(r)' = "doomed" => (Begun => overlapping')
      BY <1>1, <2>1 DEF VerdictsStand, Begun
    <3>1. CASE r = p
      BY <1>4, <2>3, <3>1
    <3>2. CASE r # p
      BY <1>3, <1>4, <2>3, <3>2 DEF GateInv, VerdictsStand
    <3>3. QED
      BY <3>1, <3>2
  <2>6. StatusSays'
    BY <2>1, <2>3 DEF StatusSays, Begun, Working
  <2>7. QED
    BY <1>5, <2>1, <2>4, <2>5, <2>6 DEF GateInv
<1>8. CASE (PressClaim(p) /\ memRunning) \/ PressWriteContext(p) \/ PressEnds(p)
  <2>1. UNCHANGED <<status, mistaken, current, job, overlapping>>
    BY <1>8 DEF PressClaim, PressWriteContext, PressEnds
  <2>2. At(p, "refused") \/ At(p, "failed") \/ (At(p, "armed") /\ press[p] = "written")
    BY <1>8 DEF PressClaim, PressWriteContext, PressEnds
  <2>3. \A r \in Presses : press'[r] \in Claiming => press[r] \in Claiming
    <3>1. press'[p] \in Claiming => press[p] \in Claiming
      BY <1>1, <2>2 DEF Claiming, At, TypeOK
    <3>2. QED
      BY <1>3, <3>1
  <2>4. ClaimsOverlap' /\ StatusSays'
    BY <2>1, <2>3, ClaimsKept DEF GateInv, StatusSays
  <2>5. QED
    BY <1>5, <1>6, <2>1, <2>4 DEF GateInv
<1>9. CASE PressWriteStatus(p)
  <2>1. /\ press[p] = "claimed" /\ status'.state = "running" /\ current' = {}
        /\ UNCHANGED <<job, overlapping>>
    BY <1>9 DEF PressWriteStatus
  <2>2. UnitActive => overlapping
    BY <2>1 DEF GateInv, ClaimsOverlap, Claiming
  <2>3. \A r \in Presses : press'[r] \in Claiming => press[r] \in Claiming
    BY <1>3, <2>1 DEF Claiming
  <2>4. ClaimsOverlap'
    BY <2>1, <2>2, <2>3 DEF GateInv, ClaimsOverlap, UnitActive, Begun
  <2>5. StatusSays' /\ VerdictsStand'
    BY <2>1, NothingStands DEF StatusSays
  <2>6. QED
    BY <1>5, <2>1, <2>4, <2>5 DEF GateInv
<1>10. CASE PressStart(p)
  <2>1. /\ UNCHANGED <<status, mistaken, current, overlapping>> /\ press[p] = "armed"
        /\ press'[p] = "accepted"
        /\ job' = [job EXCEPT !["unit"] = IF @ = "off" THEN "begin" ELSE @]
    BY <1>1, <1>10 DEF PressStart, At, TypeOK
  <2>2. /\ \A j \in Jobs \ {"unit"} : job'[j] = job[j]
        /\ job'["unit"] = IF job["unit"] = "off" THEN "begin" ELSE job["unit"]
    BY <1>1, <2>1 DEF TypeOK, Jobs
  <2>3. LastWords'
    BY <1>1, <2>2 DEF GateInv, LastWords, Jobs
  <2>4. Begun' = Begun /\ (job'["unit"] \in Working <=> job["unit"] \in Working)
    BY <2>2 DEF Begun, Working
  <2>5. \A r \in Presses : press'[r] \in Claiming => r # p /\ press[r] \in Claiming
    BY <1>3, <2>1 DEF Claiming
  <2>6. \A r \in Presses : press'[r] \in Claiming => overlapping
    BY <2>1, <2>5 DEF GateInv, ClaimsOverlap, Claiming
  <2>7. ClaimsOverlap'
    BY <2>1, <2>4, <2>6 DEF GateInv, ClaimsOverlap
  <2>8. VerdictsStand'
    <3> SUFFICES ASSUME NEW r \in current
                 PROVE  /\ Stage(r)' \in Reading => progress[r] = status
                        /\ Stage(r)' = "doomed" => (Begun => overlapping)
      BY <1>1, <2>1, <2>4 DEF VerdictsStand
    <3>1. CASE r = p
      BY <1>4, <3>1 DEF Reading, Doomed
    <3>2. CASE r # p
      BY <1>3, <1>4, <3>2 DEF GateInv, VerdictsStand
    <3>3. QED
      BY <3>1, <3>2
  <2>9. StatusSays'
    BY <2>1, <2>4 DEF GateInv, StatusSays
  <2>10. QED
    BY <2>3, <2>7, <2>8, <2>9 DEF GateInv
<1>11. CASE PressFails(p)
  <2>1. /\ press[p] \in Claiming /\ At(p, "ending") /\ UNCHANGED <<job, overlapping>>
    BY <1>11 DEF PressFails
  <2>2. UnitActive => overlapping
    BY <2>1 DEF GateInv, ClaimsOverlap
  <2>3. \A r \in Presses : press'[r] \in Claiming => press[r] \in Claiming
    BY <1>3, <2>1
  <2>4. \/ current' = {} /\ ~status'.starting
        \/ UNCHANGED <<status, mistaken, current>>
    BY <1>11 DEF PressFails, Write
  <2>5. ClaimsOverlap'
    BY <2>1, <2>3, <2>4, ClaimsKept DEF GateInv
  <2>6. VerdictsStand'
    BY <1>6, <2>1, <2>4, NothingStands
  <2>7. StatusSays'
    <3>1. job["unit"] \in Working => overlapping
      BY <2>2 DEF UnitActive, Working
    <3>2. QED
      BY <2>1, <3>1 DEF StatusSays
  <2>8. QED
    BY <1>5, <2>1, <2>5, <2>6, <2>7 DEF GateInv
<1>12. QED
  BY <1>7, <1>8, <1>9, <1>10, <1>11

\* A press keeps the gate shut.
LEMMA PressGateInv ==
    ASSUME LockInv, GateInv, NEW p \in Presses, Press(p)
    PROVE  GateInv'
BY JudgingGateInv, ClaimingGateInv DEF Press

\* A poll that finds the start unreported beside a service that began found the
\* start of a press that overlapped.
LEMMA PollGateInv ==
    ASSUME LockInv, GateInv, Polling
    PROVE  GateInv'
<1>1. TypeOK /\ UNCHANGED <<lock, press, job, overlapping>>
  BY DEF LockInv, Polling, PollRead, PollJudge, PollJudgeStart, PollGivesUp, PollStore
<1>2. /\ Stage(Poll) = poll /\ Stage(Poll)' = poll'
      /\ \A r \in (Presses \cup {Poll}) \ {Poll} : Stage(r)' = Stage(r)
  BY <1>1 DEF Stage
<1>3. \A r \in Presses : press'[r] \in Claiming => press[r] \in Claiming
  BY <1>1
<1>4. LastWords' /\ current \subseteq Presses \cup {Poll}
  BY <1>1 DEF GateInv, LastWords, TypeOK
<1>5. UNCHANGED <<status, mistaken>> => ClaimsOverlap' /\ StatusSays'
  BY <1>1, <1>3, ClaimsKept DEF GateInv, StatusSays
<1>6. \A r \in (Presses \cup {Poll}) \ {Poll} : progress'[r] = progress[r]
  BY <1>1 DEF Polling, PollRead, Read, PollJudge, PollJudgeStart, PollGivesUp, PollStore, TypeOK
<1>7. CASE PollRead
  <2>1. /\ UNCHANGED <<status, mistaken>> /\ current' = current \cup {Poll}
        /\ poll' = "read" /\ progress'[Poll] = status
    BY <1>1, <1>7 DEF PollRead, Read, TypeOK
  <2>2. VerdictsStand'
    BY <1>1, <1>2, <1>4, <1>6, <2>1, ReaderMoves DEF GateInv
  <2>3. QED
    BY <1>4, <1>5, <2>1, <2>2 DEF GateInv
<1>8. CASE PollJudge
  <2>1. PICK active \in Answers :
          poll' = IF Dead(Poll, active) THEN Doom(active) ELSE "checked"
    BY <1>8 DEF PollJudge
  <2>2. UNCHANGED <<status, mistaken, current, progress>> /\ poll = "read"
    BY <1>8 DEF PollJudge
  <2>3. Poll \in current => progress[Poll] = status
    BY <1>2, <2>2 DEF GateInv, VerdictsStand, Reading
  <2>4. Poll \in current /\ poll' = "doomed" => ~Begun
    <3> SUFFICES ASSUME Poll \in current, poll' = "doomed"
                 PROVE  ~UnitActive
      BY DEF Begun, UnitActive
    <3>1. Dead(Poll, active) /\ Doom(active) = "doomed"
      BY <2>1
    <3>2. status.state = "running" /\ ~RunningBy(active)
      BY <2>3, <3>1 DEF Dead
    <3>3. active = UnitActive
      BY <3>1 DEF Doom
    <3>4. QED
      BY <3>2, <3>3 DEF RunningBy
  <2>5. VerdictsStand'
    BY <1>1, <1>2, <1>4, <1>6, <2>2, <2>3, <2>4, ReaderMoves DEF GateInv
  <2>6. QED
    BY <1>4, <1>5, <2>2, <2>5 DEF GateInv
<1>9. CASE PollJudgeStart
  <2>1. UNCHANGED <<status, mistaken, progress>> /\ poll = "checked"
    BY <1>9 DEF PollJudgeStart
  <2>2. Poll \in current => progress[Poll] = status
    BY <1>2, <2>1 DEF GateInv, VerdictsStand, Reading
  <2>3. CASE Unreported(Poll)
    <3>1. current' = current /\ poll' = "doomed"
      BY <1>9, <2>3 DEF PollJudgeStart
    <3>2. Poll \in current => (Begun => overlapping)
      BY <2>2, <2>3 DEF Unreported, GateInv, ClaimsOverlap
    <3>3. VerdictsStand'
      BY <1>1, <1>2, <1>4, <1>6, <2>1, <2>2, <3>1, <3>2, ReaderMoves DEF GateInv
    <3>4. QED
      BY <1>4, <1>5, <2>1, <3>3 DEF GateInv
  <2>4. CASE ~Unreported(Poll)
    <3>1. current' = current \ {Poll} /\ poll' = "judged"
      BY <1>9, <2>4 DEF PollJudgeStart
    <3>2. VerdictsStand'
      BY <1>1, <1>2, <1>4, <1>6, <2>1, <3>1, ReaderMoves DEF GateInv
    <3>3. QED
      BY <1>4, <1>5, <2>1, <3>2 DEF GateInv
  <2>5. QED
    BY <2>3, <2>4
<1>10. CASE PollGivesUp
  <2>1. poll \in Doomed /\ Verdict(Poll, poll)
    BY <1>10 DEF PollGivesUp
  <2>2. StatusSays' /\ (status'.starting => status.starting)
    BY <1>1, <1>2, <2>1, VerdictGate
  <2>3. ClaimsOverlap'
    BY <1>1, <1>3, <2>2, ClaimsKept DEF GateInv
  <2>4. VerdictsStand'
    <3>1. CASE current' = {}
      BY <3>1, NothingStands
    <3>2. CASE current' = current \ {Poll} /\ UNCHANGED status
      BY <1>1, <1>2, <1>4, <1>6, <3>2, ReaderMoves DEF GateInv
    <3>3. QED
      BY <2>1, <3>1, <3>2 DEF Verdict
  <2>5. QED
    BY <1>4, <2>2, <2>3, <2>4 DEF GateInv
<1>11. CASE PollStore
  <2>1. UNCHANGED <<status, mistaken, current>> /\ poll' = "idle"
    BY <1>11 DEF PollStore
  <2>2. VerdictsStand'
    BY <1>1, <1>2, <1>4, <1>6, <2>1, ReaderMoves DEF GateInv, Reading, Doomed
  <2>3. QED
    BY <1>4, <1>5, <2>1, <2>2 DEF GateInv
<1>12. QED
  BY <1>7, <1>8, <1>9, <1>10, <1>11 DEF Polling

\* The panel goes on, or a new process knows of nothing: no claim is made, and no
\* verdict prepared.
LEMMA PanelGoesOn ==
    ASSUME TypeOK, GateInv, UNCHANGED overlapping,
           UNCHANGED <<press, poll, progress>> \/ PanelStartsAnew
    PROVE  /\ \A p \in Presses : press'[p] \in Claiming => press[p] \in Claiming
           /\ (Begun' => Begun) /\ UNCHANGED status /\ current' \subseteq current => VerdictsStand'
<1>1. CASE UNCHANGED <<press, poll, progress>>
  <2>1. \A r : Stage(r)' = Stage(r)
    BY <1>1 DEF Stage
  <2>2. QED
    BY <1>1, <2>1 DEF GateInv, VerdictsStand
<1>2. CASE PanelStartsAnew
  <2>1. \A p \in Presses : press'[p] \notin InFlight
    BY <1>2 DEF PanelStartsAnew, InFlight, Claiming, Doomed
  <2>2. poll' = "idle"
    BY <1>2 DEF PanelStartsAnew
  <2>3. Claiming \subseteq InFlight /\ Doomed \subseteq InFlight /\ "read" \in InFlight
    BY DEF InFlight
  <2>4. \A p \in Presses : press'[p] # "checked"
    BY <1>2 DEF PanelStartsAnew, TypeOK, InFlight, Claiming, Doomed
  <2>5. current' \subseteq current => \A r \in current' : Stage(r)' \notin Reading
    BY <2>1, <2>2, <2>3, <2>4 DEF Stage, Reading, Doomed, TypeOK
  <2>6. current' \subseteq current => VerdictsStand'
    BY <2>5 DEF VerdictsStand, Reading, Doomed
  <2>7. QED
    BY <2>1, <2>3, <2>6
<1>3. QED
  BY <1>1, <1>2

\* Where a script that runs goes.
Goes(j, step) ==
    /\ job[j] # "off" /\ job' = [job EXCEPT ![j] = step]
    /\ step \in {"done", "failed"} => j \in Scripted
    /\ step \in Working => LockUpdate(j) \/ job[j] \in Working

\* Every script that does something goes somewhere.
LEMMA ScriptMoves ==
    ASSUME TypeOK, NEW j \in Jobs, Script(j) \/ NextStage(j) \/ Killed(j)
    PROVE  \E step : Goes(j, step)
<1> USE DEF Goes, Step, Working
<1>1. CASE ScriptBegins(j)
  <2>1. Goes(j, "called")
    BY <1>1 DEF ScriptBegins
  <2>2. QED
    BY <2>1
<1>2. CASE LockUpdate(j)
  <2>1. Goes(j, "working")
    BY <1>2 DEF LockUpdate
  <2>2. QED
    BY <2>1
<1>3. CASE CancelUpdate(j)
  <2>1. Goes(j, "failed") \/ Goes(j, "off")
    BY <1>3 DEF CancelUpdate
  <2>2. QED
    BY <2>1
<1>4. CASE UpdateFails(j)
  <2>1. Goes(j, "failed") \/ Goes(j, "off")
    BY <1>4 DEF UpdateFails
  <2>2. QED
    BY <2>1
<1>5. CASE Install(j)
  <2>1. Goes(j, "restarted")
    BY <1>5 DEF Install
  <2>2. QED
    BY <2>1
<1>6. CASE UpdateDone(j)
  <2>1. Goes(j, "done") \/ Goes(j, "off")
    BY <1>6 DEF UpdateDone
  <2>2. QED
    BY <2>1
<1>7. CASE ScriptEnds(j)
  <2>1. Goes(j, "off")
    BY <1>7 DEF ScriptEnds, Gone
  <2>2. QED
    BY <2>1
<1>8. CASE NextStage(j)
  <2>1. Goes(j, "working")
    BY <1>8 DEF NextStage, TypeOK
  <2>2. QED
    BY <2>1
<1>9. CASE Killed(j)
  <2>1. Goes(j, "off")
    BY <1>9 DEF Killed, Gone
  <2>2. QED
    BY <2>1
<1>10. QED
  BY <1>1, <1>2, <1>3, <1>4, <1>5, <1>6, <1>7, <1>8, <1>9 DEF Script

\* What a script writes: the daily one's last word comes before its lock goes.
LEMMA ScriptGateInv ==
    ASSUME LockInv, GateInv, NEW j \in Jobs, Script(j) \/ NextStage(j) \/ Killed(j)
    PROVE  GateInv'
<1>1. /\ TypeOK /\ UNCHANGED overlapping
      /\ UNCHANGED <<press, poll, progress>> \/ PanelStartsAnew
  BY DEF LockInv, Script, ScriptBegins, LockUpdate, CancelUpdate, UpdateFails, Install,
         UpdateDone, ScriptEnds, NextStage, Killed
<1>2. \A p \in Presses : press'[p] \in Claiming => press[p] \in Claiming
  BY <1>1, PanelGoesOn
<1>3. PICK step :
        /\ job[j] # "off" /\ job' = [job EXCEPT ![j] = step]
        /\ step \in {"done", "failed"} => j \in Scripted
        /\ step \in Working => LockUpdate(j) \/ job[j] \in Working
  BY <1>1, ScriptMoves DEF Goes
<1>4. job[j] # "off" /\ \A k \in Jobs : job'[k] = IF k = j THEN step ELSE job[k]
  BY <1>1, <1>3 DEF TypeOK
<1>5. {"unit", "auto", "shell"} = Jobs /\ Scripted \subseteq Jobs
  BY DEF Jobs, Scripted
<1>6. UnitActive' => UnitActive
  BY <1>4, <1>5 DEF UnitActive
<1>7. \A k \in Jobs : job[k] \in Working => lock = k
  BY <1>1 DEF TypeOK
\* What it writes, and where it stands then.
<1>8. \/ UNCHANGED statusVars /\ (Begun' => Begun)
      \/ /\ j \in Scripted /\ current' = {} /\ ~status'.starting
         /\ \/ status'.state = "running"
            \/ job'[j] \notin Working
  <2> USE DEF Report, Write
  <2>1. CASE ScriptBegins(j)
    BY <2>1 DEF ScriptBegins
  <2>2. CASE LockUpdate(j) \/ NextStage(j) \/ Install(j)
    <3>1. Begun' => Begun
      BY <1>4, <1>5, <2>2 DEF LockUpdate, NextStage, Install, Step, Begun, Working
    <3>2. QED
      BY <2>2, <3>1 DEF LockUpdate, NextStage, Install
  <2>3. CASE CancelUpdate(j) \/ UpdateFails(j) \/ UpdateDone(j)
    <3>1. /\ job[j] \notin {"off", "begin"}
          /\ \E to \in {"off", "failed", "done"} : job' = [job EXCEPT ![j] = to]
      BY <2>3 DEF CancelUpdate, UpdateFails, UpdateDone, Step
    <3>2. job'[j] \in {"off", "failed", "done"}
      BY <1>1, <3>1 DEF TypeOK
    <3>3. job'[j] \notin Working /\ (Begun' => Begun)
      BY <1>4, <1>5, <3>1, <3>2 DEF Begun, Working
    <3>4. QED
      BY <2>3, <3>3 DEF CancelUpdate, UpdateFails, UpdateDone
  <2>4. CASE ScriptEnds(j) \/ Killed(j)
    <3>1. job' = [job EXCEPT ![j] = "off"]
      BY <2>4 DEF ScriptEnds, Killed, Gone
    <3>2. job'[j] = "off" /\ (Begun' => Begun)
      BY <1>1, <1>5, <3>1 DEF Begun, TypeOK
    <3>3. j \in Scripted \/ Killed(j)
      BY <1>5, <2>4 DEF ScriptEnds, GateInv, LastWords, Scripted
    <3>4. QED
      BY <2>4, <3>2, <3>3 DEF ScriptEnds, Killed, Working
  <2>5. QED
    BY <2>1, <2>2, <2>3, <2>4 DEF Script
<1>9. LastWords'
  <2>1. job'["auto"] # "off" => job["auto"] # "off" /\ lock = "auto"
    BY <1>4, <1>5 DEF GateInv, LastWords
  <2>2. job'["auto"] # "off" => lock' = "auto"
    <3> SUFFICES ASSUME job'["auto"] # "off"
                 PROVE  lock' = "auto"
      OBVIOUS
    <3>1. CASE UNCHANGED lock
      BY <2>1, <3>1
    <3>2. CASE LockUpdate(j)
      BY <2>1, <3>2 DEF LockUpdate
    <3>3. CASE UpdateFails(j) \/ UpdateDone(j)
      <4>1. job[j] \in Working
        BY <3>3 DEF UpdateFails, UpdateDone, Step, Working
      <4>2. j = "auto" /\ job["auto"] \notin Working
        BY <1>7, <2>1, <4>1 DEF GateInv, LastWords
      <4>3. QED
        BY <4>1, <4>2
    <3>4. CASE Gone(j)
      <4>1. job' = [job EXCEPT ![j] = "off"]
        BY <3>4 DEF Gone
      <4>2. j # "auto"
        BY <1>1, <1>5, <4>1 DEF TypeOK
      <4>3. QED
        BY <2>1, <3>4, <4>2 DEF Gone
    <3>5. QED
      BY <3>1, <3>2, <3>3, <3>4 DEF Script, ScriptBegins, CancelUpdate, Install, ScriptEnds,
                                    NextStage, Killed
  <2>3. job'["auto"] # "off" => job'["auto"] \notin Working
    <3> SUFFICES ASSUME job'["auto"] # "off", job'["auto"] \in Working
                 PROVE  FALSE
      OBVIOUS
    <3>1. job["auto"] \notin Working /\ lock = "auto"
      BY <2>1 DEF GateInv, LastWords
    <3>2. j = "auto" /\ step \in Working
      BY <1>4, <1>5, <3>1
    <3>3. LockUpdate(j) \/ job[j] \in Working
      BY <1>3, <3>2
    <3>4. QED
      BY <3>1, <3>2, <3>3 DEF LockUpdate
  <2>4. job'["shell"] \notin {"done", "failed"}
    <3>1. CASE j # "shell"
      BY <1>4, <1>5, <3>1 DEF GateInv, LastWords
    <3>2. CASE j = "shell"
      <4>1. step \notin {"done", "failed"}
        BY <1>3, <3>2 DEF GateInv, LastWords, Scripted
      <4>2. QED
        BY <1>4, <1>5, <3>2, <4>1
    <3>3. QED
      BY <3>1, <3>2
  <2>5. QED
    BY <2>2, <2>3, <2>4 DEF LastWords
<1>10. ClaimsOverlap'
  <2>1. status'.starting /\ Begun' => overlapping
    BY <1>8 DEF GateInv, ClaimsOverlap
  <2>2. QED
    BY <1>1, <1>2, <1>6, <2>1 DEF GateInv, ClaimsOverlap
<1>11. VerdictsStand'
  BY <1>1, <1>8, PanelGoesOn, NothingStands
<1>12. StatusSays'
  <2> SUFFICES ASSUME job'["unit"] \in Working
               PROVE  status'.state = "running" \/ overlapping \/ mistaken'
    BY <1>1 DEF StatusSays
  <2>1. CASE UNCHANGED statusVars /\ job["unit"] \in Working
    BY <2>1 DEF GateInv, StatusSays
  <2>2. CASE UNCHANGED statusVars /\ job["unit"] \notin Working
    <3>1. j = "unit"
      BY <1>4, <1>5, <2>2
    <3>2. LockUpdate(j)
      BY <1>3, <1>4, <2>2, <3>1
    <3>3. status'.state = "running"
      BY <3>1, <3>2 DEF LockUpdate, Report, Write, Scripted
    <3>4. QED
      BY <3>3
  <2>3. CASE j \in Scripted /\ job'[j] \notin Working /\ current' = {}
    <3>1. j = "auto"
      BY <2>3 DEF Scripted
    <3>2. lock = "auto"
      BY <1>4, <3>1 DEF GateInv, LastWords
    <3>3. job["unit"] \in Working
      BY <1>4, <1>5, <3>1
    <3>4. QED
      BY <1>5, <1>7, <3>2, <3>3
  <2>4. QED
    BY <1>8, <2>1, <2>2, <2>3
<1>13. QED
  BY <1>9, <1>10, <1>11, <1>12 DEF GateInv

\* Every step keeps the gate shut.
LEMMA GateStep == LockInv /\ GateInv /\ [Next]_vars => GateInv'
<1> SUFFICES ASSUME LockInv, GateInv, [Next]_vars
             PROVE  GateInv'
  OBVIOUS
<1>1. TypeOK
  BY DEF LockInv
\* The status is not written, and the service does what it did.
<1>2. ASSUME UNCHANGED <<status, mistaken, current, overlapping>>,
             UNCHANGED <<press, poll, progress>> \/ PanelStartsAnew,
             job'["unit"] = job["unit"]
      PROVE  ClaimsOverlap' /\ VerdictsStand' /\ StatusSays'
  <2>1. \A p \in Presses : press'[p] \in Claiming => press[p] \in Claiming
    BY <1>1, <1>2, PanelGoesOn
  <2>2. Begun' = Begun /\ UnitActive' = UnitActive
    BY <1>2 DEF Begun, UnitActive
  <2>3. VerdictsStand'
    BY <1>1, <1>2, <2>2, PanelGoesOn
  <2>4. QED
    BY <1>2, <2>1, <2>2, <2>3 DEF GateInv, ClaimsOverlap, StatusSays
<1>3. CASE TimePasses \/ PanelDies \/ UNCHANGED vars
  <2>1. UNCHANGED <<status, mistaken, current, overlapping, job, lock>>
    BY <1>3 DEF TimePasses, PanelDies
  <2>2. UNCHANGED <<press, poll, progress>> \/ PanelStartsAnew
    BY <1>3 DEF TimePasses, PanelDies
  <2>3. QED
    BY <1>2, <2>1, <2>2 DEF GateInv, LastWords
<1>4. CASE AutoCheck \/ AutoDecides \/ ShellStarts
  <2>1. UNCHANGED <<status, mistaken, current, overlapping, press, poll, progress>>
    BY <1>4 DEF AutoCheck, AutoDecides, AutoUpToDate, AutoFindsCommit, ShellStarts
  <2>2. job'["unit"] = job["unit"] /\ job'["shell"] \notin {"done", "failed"}
    BY <1>1, <1>4 DEF AutoCheck, AutoDecides, AutoUpToDate, AutoFindsCommit, ShellStarts, Step,
                      TypeOK, Jobs, GateInv, LastWords
  <2>3. job'["auto"] # "off" => lock' = "auto" /\ job'["auto"] \notin Working
    BY <1>1, <1>4 DEF AutoCheck, AutoDecides, AutoUpToDate, AutoFindsCommit, ShellStarts, Step,
                      TypeOK, Jobs, GateInv, LastWords, Working
  <2>4. QED
    BY <1>2, <2>1, <2>2, <2>3 DEF GateInv, LastWords
<1>5. ASSUME NEW p \in Presses, Press(p)
      PROVE  GateInv'
  BY <1>5, PressGateInv
<1>6. CASE Polling
  BY <1>6, PollGateInv
<1>7. ASSUME NEW j \in Jobs, Script(j) \/ NextStage(j) \/ Killed(j)
      PROVE  GateInv'
  BY <1>7, ScriptGateInv
<1>8. QED
  BY <1>3, <1>4, <1>5, <1>6, <1>7 DEF Next

\* While kota-update.service works, the status says so and so the panel refuses
\* changes, unless the service was started over a claim that was not done with,
\* or a verdict that was overtaken by another write, or that systemctl had no
\* part in, stands until the service's next report.
THEOREM PanelIsBlocked == Spec => []BlocksWhileWorking
<1>1. Init => GateInv
  BY DEF Init, GateInv, LastWords, ClaimsOverlap, VerdictsStand, StatusSays, Begun, UnitActive,
         Working, Claiming, Unknown, Jobs
<1>2. GateInv => BlocksWhileWorking
  <2> SUFFICES ASSUME GateInv, job["unit"] \in Working, ~overlapping, ~mistaken
               PROVE  IsRunning
    BY DEF BlocksWhileWorking
  <2>1. status.state = "running" /\ UnitActive
    BY DEF GateInv, StatusSays, UnitActive, Working
  <2>2. QED
    BY <2>1 DEF IsRunning, RunningBy
<1>3. QED
  BY <1>1, <1>2, LockCorrect, GateStep, PTL DEF Spec
=============================================================================
