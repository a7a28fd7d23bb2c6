------------------------------ MODULE UpdateTask ------------------------------
(***************************************************************************)
(* The panel's update on a systemd host: presses of the update button      *)
(* (updatePanel), polls of its progress (updateStatus), and the scripts    *)
(* that update: kota-update.service running kotaui-update-run, the daily   *)
(* kota-autoupdate, and an administrator's `kota update`.  They share the  *)
(* file update.status, and the scripts the file lock update.lock.          *)
(*                                                                         *)
(* While updateIsRunning, the panel refuses to change configuration or     *)
(* control services.  Progress messages are left out, but for the one      *)
(* updateStatus looks for ("starting").                                    *)
(***************************************************************************)
EXTENDS Naturals, FiniteSets

CONSTANTS
    Presses,    \* presses of the button; each is its own run id
    NoRun,      \* the empty run id
    MaxFaults,  \* bound: scripts killed, panel crashes, calls of systemctl and
                \* writes of a verdict that fail
    MaxChecks   \* bound: runs of kota-autoupdate

ASSUME NoRunAssumption == NoRun \notin Presses
ASSUME BoundAssumption == MaxFaults \in Nat /\ MaxChecks \in Nat

Jobs == {"unit", "auto", "shell"}
Scripted == {"unit", "auto"}    \* those that run kotaui-update-run

VARIABLES
    status,     \* update.status
    age,        \* since it was written: "fresh", "stale" (15 s), "old" (1 min)
    context,    \* the run id in update.context
    lock,       \* whose open file holds update.lock, or "free"
    job,        \* where each script is
    runOf,      \* the run id kotaui-update-run took from the context
    memRunning, \* App.updateRunning
    press,      \* where each press is
    poll,       \* the poll in flight: "idle", "read", "checked", ..., "judged"
    progress,   \* what a press and the poll read from update.status
    current,    \* history: readers since whose reading nothing was written
    mistaken,   \* history: the status is a verdict on an older one, or a guess
    overlapping, \* history: at the last claim an earlier one was not done with
    faults, checks

Poll == "poll"

ASSUME PollAssumption == Poll \notin Presses

fileVars == <<status, age, mistaken>>
statusVars == <<fileVars, current>>
jobVars == <<context, lock, job, runOf>>
panelVars == <<memRunning, press, poll, progress, overlapping>>
bounds == <<faults, checks>>
vars == <<status, age, context, lock, job, runOf, memRunning, press, poll, progress,
          current, mistaken, overlapping, faults, checks>>

Runs == Presses \cup {NoRun}
Status == [run : Runs, state : {"none", "running", "success", "failed"}, starting : BOOLEAN]
Unknown == [run |-> NoRun, state |-> "none", starting |-> FALSE]

Claiming == {"claimed", "written", "armed"}
Doomed == {"doomed", "guessed"}     \* about to write that the task failed
InFlight == Claiming \cup Doomed \cup {"read", "clearing", "judged", "gated", "ending"}
Working == {"working", "restarted"}

Init ==
    /\ status = Unknown /\ age = "fresh"
    /\ context = NoRun /\ lock = "free"
    /\ job = [j \in Jobs |-> "off"] /\ runOf = [j \in Jobs |-> NoRun]
    /\ memRunning = FALSE
    /\ press = [p \in Presses |-> "new"]
    /\ poll = "idle"
    /\ progress = [q \in Presses \cup {Poll} |-> Unknown]
    /\ current = {} /\ mistaken = FALSE /\ overlapping = FALSE
    /\ faults = 0 /\ checks = 0

\* writeTaskProgress and the scripts' write_status: a file renamed into place.
Write(run, state) ==
    /\ status' = [run |-> run, state |-> state, starting |-> FALSE]
    /\ age' = "fresh" /\ current' = {} /\ mistaken' = FALSE

UnitActive == job["unit"] # "off"

\* updateServiceActive: a call of systemctl that fails counts as "inactive".
Answers == IF status.state = "running" /\ UnitActive /\ faults < MaxFaults
           THEN BOOLEAN ELSE {UnitActive}
Asked(active) == faults' = IF active = UnitActive THEN faults ELSE faults + 1

\* Mutant: the flag in memory alone decides.
RunningByMemory(active) == memRunning

\* updateIsRunning, by what systemctl answers
RunningBy(active) == IF status.state = "running" THEN active \/ age = "fresh" ELSE memRunning

IsRunning == RunningBy(UnitActive)

TimePasses ==
    /\ age # "old"
    /\ age' = IF age = "fresh" THEN "stale" ELSE "old"
    /\ UNCHANGED <<status, mistaken, current, jobVars, panelVars, bounds>>
-----------------------------------------------------------------------------
(* Reading and judging, the same in updatePanel and updateStatus.  Nothing is *)
(* locked from one step to the next.                                        *)

At(p, step) == press' = [press EXCEPT ![p] = step]

Read(q) == progress' = [progress EXCEPT ![q] = status] /\ current' = current \cup {q}
Forget(q) == progress' = [progress EXCEPT ![q] = Unknown] /\ current' = current \ {q}

\* A reader takes the task it read about for dead.
Dead(q, active) == progress[q].state = "running" /\ ~RunningBy(active)
Doom(active) == IF active = UnitActive THEN "doomed" ELSE "guessed"

\* "failed" is written for the run it read about, whoever wrote meanwhile; an
\* error of the write is dropped.
Verdict(q, step) ==
    \/ /\ status' = [run |-> progress[q].run, state |-> "failed", starting |-> FALSE]
       /\ age' = "fresh" /\ current' = {}
       /\ mistaken' = (q \notin current \/ step = "guessed")
       /\ UNCHANGED faults
    \/ /\ faults < MaxFaults /\ faults' = faults + 1
       /\ current' = current \ {q} /\ UNCHANGED fileVars
-----------------------------------------------------------------------------
(* updatePanel *)

PressRead(p) ==
    /\ press[p] = "new" /\ At(p, "read") /\ Read(p)
    /\ UNCHANGED <<fileVars, jobVars, memRunning, poll, overlapping, bounds>>

PressJudge(p) ==
    /\ press[p] = "read"
    /\ \E active \in Answers :
        /\ Asked(active)
        /\ IF Dead(p, active) THEN At(p, Doom(active)) /\ UNCHANGED <<progress, current>>
                              ELSE At(p, "judged") /\ Forget(p)
    /\ UNCHANGED <<fileVars, jobVars, memRunning, poll, overlapping, checks>>

\* finishUpdateForRun for the task that stopped without a word: the file, then
\* the flag.
PressGivesUp(p) ==
    /\ press[p] \in Doomed /\ At(p, "clearing")
    /\ Verdict(p, press[p])
    /\ progress' = [progress EXCEPT ![p] = Unknown]
    /\ UNCHANGED <<jobVars, memRunning, poll, overlapping, checks>>

PressClears(p) ==
    /\ press[p] = "clearing" /\ At(p, "judged")
    /\ memRunning' = FALSE
    /\ UNCHANGED <<statusVars, jobVars, poll, progress, overlapping, bounds>>

PressGate(p) ==
    /\ press[p] = "judged"
    /\ \E active \in Answers :
        /\ Asked(active)
        /\ At(p, IF RunningBy(active) THEN "refused" ELSE "gated")
    /\ UNCHANGED <<statusVars, jobVars, memRunning, poll, progress, overlapping, checks>>

\* Under updateMu.
PressClaim(p) ==
    /\ press[p] = "gated"
    /\ IF memRunning THEN At(p, "refused") /\ UNCHANGED <<memRunning, overlapping>>
       ELSE /\ At(p, "claimed") /\ memRunning' = TRUE
            /\ overlapping' = (UnitActive \/ \E q \in Presses \ {p} : press[q] \in Claiming)
    /\ UNCHANGED <<statusVars, jobVars, poll, progress, bounds>>

PressWriteStatus(p) ==
    /\ press[p] = "claimed" /\ At(p, "written")
    /\ status' = [run |-> p, state |-> "running", starting |-> TRUE]
    /\ age' = "fresh" /\ current' = {} /\ mistaken' = FALSE
    /\ UNCHANGED <<jobVars, memRunning, poll, progress, overlapping, bounds>>

PressWriteContext(p) ==
    /\ press[p] = "written" /\ At(p, "armed")
    /\ context' = p
    /\ UNCHANGED <<statusVars, lock, job, runOf, memRunning, poll, progress, overlapping, bounds>>

\* systemctl start --no-block: nothing happens if the unit is still active.
PressStart(p) ==
    /\ press[p] = "armed" /\ At(p, "accepted")
    /\ job' = [job EXCEPT !["unit"] = IF @ = "off" THEN "begin" ELSE @]
    /\ UNCHANGED <<statusVars, context, lock, runOf, memRunning, poll, progress, overlapping,
                   bounds>>

\* A file or the service manager refuses; finishUpdateForRun drops the error of
\* its own write, and then clears the flag.
PressFails(p) ==
    /\ press[p] \in Claiming /\ At(p, "ending")
    /\ Write(p, "failed") \/ UNCHANGED statusVars
    /\ UNCHANGED <<jobVars, memRunning, poll, progress, overlapping, bounds>>

PressEnds(p) ==
    /\ press[p] = "ending" /\ At(p, "failed")
    /\ memRunning' = FALSE
    /\ UNCHANGED <<statusVars, jobVars, poll, progress, overlapping, bounds>>
-----------------------------------------------------------------------------
(* updateStatus.  A poll that asks for another run returns at once.         *)

PollRead ==
    /\ poll = "idle" /\ poll' = "read" /\ Read(Poll)
    /\ UNCHANGED <<fileVars, jobVars, memRunning, press, overlapping, bounds>>

\* Mutant: a poll waits for the first report only.
PollJudgeNothing ==
    /\ poll = "read" /\ poll' = "checked"
    /\ UNCHANGED <<statusVars, jobVars, memRunning, press, progress, overlapping, bounds>>

\* Is the task dead?
PollJudge ==
    /\ poll = "read"
    /\ \E active \in Answers :
        /\ Asked(active)
        /\ poll' = IF Dead(Poll, active) THEN Doom(active) ELSE "checked"
    /\ UNCHANGED <<statusVars, jobVars, memRunning, press, progress, overlapping, checks>>

\* Was the unit started a minute ago, without a word from it?
Unreported(q) == progress[q].state = "running" /\ progress[q].starting /\ age = "old"

PollJudgeStart ==
    /\ poll = "checked"
    /\ IF Unreported(Poll) THEN poll' = "doomed" /\ UNCHANGED current
                           ELSE poll' = "judged" /\ current' = current \ {Poll}
    /\ UNCHANGED <<fileVars, jobVars, memRunning, press, progress, overlapping, bounds>>

PollGivesUp ==
    /\ poll \in Doomed /\ poll' = "judged"
    /\ Verdict(Poll, poll)
    /\ progress' = [progress EXCEPT ![Poll].state = "failed", ![Poll].starting = FALSE]
    /\ UNCHANGED <<jobVars, memRunning, press, overlapping, checks>>

\* Mutant: a failed task leaves the flag set.
PollStoreSuccessOnly ==
    /\ poll = "judged" /\ poll' = "idle"
    /\ progress' = [progress EXCEPT ![Poll] = Unknown]
    /\ memRunning' = CASE progress[Poll].state = "running" -> TRUE
                       [] progress[Poll].state = "success" -> FALSE
                       [] OTHER -> memRunning
    /\ UNCHANGED <<statusVars, jobVars, press, overlapping, bounds>>

\* The flag follows what was read, under updateMu but maybe long after.
PollStore ==
    /\ poll = "judged" /\ poll' = "idle"
    /\ progress' = [progress EXCEPT ![Poll] = Unknown]
    /\ memRunning' = CASE progress[Poll].state = "running" -> TRUE
                       [] progress[Poll].state = "none" -> memRunning
                       [] OTHER -> FALSE
    /\ UNCHANGED <<statusVars, jobVars, press, overlapping, bounds>>

\* A new panel process knows of nothing.
PanelStartsAnew ==
    /\ memRunning' = FALSE
    /\ press' = [p \in Presses |-> IF press[p] \in InFlight THEN "lost" ELSE press[p]]
    /\ poll' = "idle"
    /\ progress' = [q \in DOMAIN progress |-> Unknown]

PanelDies ==
    /\ faults < MaxFaults /\ faults' = faults + 1
    /\ PanelStartsAnew
    /\ UNCHANGED <<statusVars, jobVars, overlapping, checks>>
-----------------------------------------------------------------------------
(* The scripts. *)

Step(j, from, to) == job[j] = from /\ job' = [job EXCEPT ![j] = to]

\* update_status writes only for the panel's updates.
Report(j, state) == IF j \in Scripted THEN Write(runOf[j], state) ELSE UNCHANGED statusVars

\* kota-autoupdate opens and locks update.lock, or gives up for today.
AutoCheck ==
    /\ checks < MaxChecks /\ checks' = checks + 1
    /\ lock = "free" /\ lock' = "auto" /\ Step("auto", "off", "looking")
    /\ UNCHANGED <<statusVars, context, runOf, panelVars, faults>>

\* No new commit: it exits, and its lock goes.
AutoUpToDate ==
    /\ Step("auto", "looking", "off") /\ lock' = "free"
    /\ UNCHANGED <<statusVars, context, runOf, panelVars, bounds>>

AutoFindsCommit ==
    /\ Step("auto", "looking", "begin")
    /\ UNCHANGED <<statusVars, context, lock, runOf, panelVars, bounds>>

ShellStarts ==
    /\ Step("shell", "off", "called")
    /\ UNCHANGED <<statusVars, context, lock, runOf, panelVars, bounds>>

\* kotaui-update-run reads the context and calls kota update.
ScriptBegins(j) ==
    /\ j \in Scripted /\ Step(j, "begin", "called")
    /\ runOf' = [runOf EXCEPT ![j] = context]
    /\ Write(context, "running")
    /\ UNCHANGED <<context, lock, panelVars, bounds>>

\* Mutant: kota update goes on without the lock.
LockUpdateUnguarded(j) ==
    /\ Step(j, "called", "working") /\ lock' = j
    /\ Report(j, "running")
    /\ UNCHANGED <<context, runOf, panelVars, bounds>>

\* kota update opens update.lock itself: flock sees another open file's lock,
\* the calling script's too.
LockUpdate(j) ==
    /\ lock = "free"
    /\ Step(j, "called", "working") /\ lock' = j
    /\ Report(j, "running")
    /\ UNCHANGED <<context, runOf, panelVars, bounds>>

\* "Another update task is running, this one is cancelled."
CancelUpdate(j) ==
    /\ lock # "free"
    /\ Step(j, "called", IF j \in Scripted THEN "failed" ELSE "off")
    /\ UNCHANGED <<statusVars, context, lock, runOf, panelVars, bounds>>

\* do_update, stage by stage.
NextStage(j) ==
    /\ job[j] = "working" /\ Report(j, "running")
    /\ UNCHANGED <<jobVars, panelVars, bounds>>

UpdateFails(j) ==
    /\ Step(j, "working", IF j \in Scripted THEN "failed" ELSE "off")
    /\ Report(j, "failed") /\ lock' = "free"
    /\ UNCHANGED <<context, runOf, panelVars, bounds>>

\* The programs are replaced and the panel restarted.
Install(j) ==
    /\ Step(j, "working", "restarted")
    /\ Report(j, "running")
    /\ PanelStartsAnew
    /\ UNCHANGED <<context, lock, runOf, overlapping, bounds>>

UpdateDone(j) ==
    /\ Step(j, "restarted", IF j \in Scripted THEN "done" ELSE "off")
    /\ Report(j, "success") /\ lock' = "free"
    /\ UNCHANGED <<context, runOf, panelVars, bounds>>

\* What goes when script j is gone.
Gone(j) ==
    /\ job' = [job EXCEPT ![j] = "off"] /\ runOf' = [runOf EXCEPT ![j] = NoRun]
    /\ lock' = IF lock = j THEN "free" ELSE lock

\* kotaui-update-run writes the outcome once more.
ScriptEnds(j) ==
    /\ job[j] \in {"done", "failed"} /\ Gone(j)
    /\ Write(runOf[j], IF job[j] = "done" THEN "success" ELSE "failed")
    /\ UNCHANGED <<context, panelVars, bounds>>

\* Time limit, memory, signals.  Whether sh runs the EXIT trap depends on the
\* signal and on the shell.
Killed(j) ==
    /\ job[j] # "off" /\ Gone(j)
    /\ faults < MaxFaults /\ faults' = faults + 1
    /\ \/ job[j] # "begin" /\ job[j] # "looking" /\ Report(j, "failed")
       \/ UNCHANGED statusVars
    /\ UNCHANGED <<context, panelVars, checks>>
-----------------------------------------------------------------------------
Press(p) ==
    \/ PressRead(p) \/ PressJudge(p) \/ PressGivesUp(p) \/ PressClears(p)
    \/ PressGate(p) \/ PressClaim(p) \/ PressWriteStatus(p) \/ PressWriteContext(p)
    \/ PressStart(p) \/ PressFails(p) \/ PressEnds(p)

Polling == PollRead \/ PollJudge \/ PollJudgeStart \/ PollGivesUp \/ PollStore

Script(j) ==
    \/ ScriptBegins(j) \/ LockUpdate(j) \/ CancelUpdate(j)
    \/ UpdateFails(j) \/ Install(j) \/ UpdateDone(j) \/ ScriptEnds(j)

AutoDecides == AutoUpToDate \/ AutoFindsCommit

Next ==
    \/ TimePasses
    \/ \E p \in Presses : Press(p)
    \/ Polling
    \/ PanelDies
    \/ AutoCheck \/ AutoDecides \/ ShellStarts
    \/ \E j \in Jobs : Script(j) \/ NextStage(j) \/ Killed(j)

Spec == Init /\ [][Next]_vars

(* systemd runs what it started and ends it after half an hour; a handler,
   once called, is scheduled, and an administrator who updates by hand leaves
   the restarted panel the time to answer.                                 *)
Unwatched ==
    /\ Spec
    /\ WF_vars(TimePasses)
    /\ \A p \in Presses : WF_vars(press[p] # "new" /\ Press(p))
    /\ \A j \in Jobs : WF_vars(Script(j))
    /\ WF_vars(AutoDecides)
    /\ SF_vars(PollJudge) /\ SF_vars(PollJudgeStart)
    /\ SF_vars(PollGivesUp) /\ SF_vars(PollStore)

\* The page is open: waitForUpdate polls every second.
Watched == Unwatched /\ WF_vars(PollRead)
-----------------------------------------------------------------------------
(* Correctness. *)

\* Every variable stays in its range, and the scripts hold the lock they work
\* under.
TypeOK ==
    /\ status \in Status /\ age \in {"fresh", "stale", "old"}
    /\ context \in Runs /\ lock \in Jobs \cup {"free"}
    /\ job \in [Jobs -> {"off", "looking", "begin", "called", "done", "failed"} \cup Working]
    /\ runOf \in [Jobs -> Runs]
    /\ memRunning \in BOOLEAN
    /\ press \in [Presses -> InFlight \cup {"new", "accepted", "refused", "failed", "lost"}]
    /\ poll \in Doomed \cup {"idle", "read", "checked", "judged"}
    /\ progress \in [Presses \cup {Poll} -> Status]
    /\ current \subseteq Presses \cup {Poll} /\ {mistaken, overlapping} \subseteq BOOLEAN
    /\ faults \in 0..MaxFaults /\ checks \in 0..MaxChecks
    /\ \A j \in Jobs : job[j] \in Working => lock = j

\* At most one script is in do_update, replacing programs and restarting
\* services, whichever way updates are started, killed and started again.
OneUpdater == \A i, j \in Jobs : job[i] \in Working /\ job[j] \in Working => i = j

\* While kota-update.service works, the panel refuses changes and service
\* control (as long as systemctl answers), whatever polls, its own restart, kills
\* and the other scripts do; unless it was started over a claim that was not
\* done with, or until its next report after a verdict that was overtaken by
\* another write, or that systemctl had no part in.
BlocksWhileWorking == job["unit"] \in Working => IsRunning \/ overlapping \/ mistaken

\* The panel never stays blocked: whatever dies, and whatever the polls read
\* too early or too late, updateIsRunning lets go again.
Unblocks == IsRunning ~> ~IsRunning

\* Whoever pressed the button hears how it ended: an accepted run is replaced
\* by another or its status leaves "running".
Resolved == \A p \in Presses :
    press[p] = "accepted" ~> status.run # p \/ status.state # "running"

\* What kota update prints of a cancelled update: another one is running.
CancelledForAnother == [][\A j \in Jobs :
    job[j] = "called" /\ job'[j] = "failed" /\ lock # "free" =>
        \E i \in Jobs \ {j} : job[i] # "off"]_vars
=============================================================================
