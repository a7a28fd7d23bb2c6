---------------------------- MODULE ConfigCommit ----------------------------
(***************************************************************************)
(* How a change reaches the proxy core: a request mutates the state kept   *)
(* by store.Store, the sing-box configuration generated from it replaces   *)
(* the live one, state.json is saved, and the managed core is restarted.   *)
(*                                                                         *)
(* Every request performs one operation, once, so a state is abstracted to *)
(* the set of requests whose mutation it contains: data is the in-memory   *)
(* state, disk what state.json holds, file what config.json was generated  *)
(* from and loaded what the running core read when it started.             *)
(*                                                                         *)
(* Locks: mu stands for App.mu together with Store.mu, which every commit  *)
(* holds over the same steps; coreMu is App.coreReloadMu.                  *)
(* A check of updateIsRunning that refuses a request changes nothing and   *)
(* is a stuttering step; the update task has a module of its own.          *)
(***************************************************************************)
EXTENDS FiniteSets

CONSTANTS
    Requests,       \* requests and background steps, each performed once
    Kind,           \* which operation a request performs
    Faults,         \* the failures that may happen in this instance
    BoundByRequires,\* TRUE: kotaui-singbox.service has Requires=kotaui.service
    NoOne           \* the holder of a free lock

(* mutate    App.mutate: an interactive change of inbounds or clients
   settings  App.startSettingsApply: access-control settings
   month     App.resetMonth
   persist   App.persistStateOnly: bookkeeping the configuration leaves out
   traffic   App.syncTraffic when a client's quota status changed
   service   App.serviceAction: start or restart of the core             *)
Kinds == {"mutate", "settings", "month", "persist", "traffic", "service"}

FaultKinds == {"check", "save", "restart", "core", "crash"}

ASSUME KindAssumption == Kind \in [Requests -> Kinds]
ASSUME FaultAssumption == Faults \subseteq FaultKinds
ASSUME RequiresAssumption == BoundByRequires \in BOOLEAN
ASSUME NoOneAssumption == NoOne \notin Requests

VARIABLES
    panel,      \* the panel process: "up", "starting" or "down"
    data, disk, file, loaded,
    coreUp,     \* the core is running
    cand,       \* UpdateWith's candidate
    mu, coreMu,
    pc,         \* where each request is
    applying,   \* App.settingsApplying
    applyErr,   \* App.settingsApplyErr is not empty
    acked,      \* the requests answered with success
    depRestart  \* the supervisor owes the core a restart after the panel's

panelVars == <<panel, applying, applyErr, depRestart>>
vars == <<panel, data, disk, file, loaded, coreUp, cand, mu, coreMu, pc,
          applying, applyErr, acked, depRestart>>

\* Steps between the two ends of a.mu's critical section in UpdateWith.
Locked == {"stage", "save", "rollback"}
\* A committed request that still has the core's restart ahead of it.
Owing == {"regen", "restart", "waiting"}
Ended == {"acked", "done", "failed", "lost"}
Steps == {"new", "gate", "clearOk", "clearFailed"} \cup Locked \cup Owing \cup Ended

\* proxy.Write depends on nothing a persist request changes.
Gen(s) == {r \in s : Kind[r] # "persist"}

Init ==
    /\ panel = "up"
    /\ data = {} /\ disk = {} /\ file = {} /\ loaded = {}
    /\ coreUp = TRUE
    /\ cand = {}
    /\ mu = NoOne /\ coreMu = NoOne
    /\ pc = [r \in Requests |-> "new"]
    /\ applying = FALSE /\ applyErr = FALSE
    /\ acked = {}
    /\ depRestart = FALSE

Goto(r, step) == pc' = [pc EXCEPT ![r] = step]
-----------------------------------------------------------------------------
(* The gates in front of a commit.  Each reads its flag and lets go of the
   flag's lock before a.mu is taken.                                       *)

\* mutate, persistStateOnly, resetMonth: refused while settings are applied.
PassGate(r) ==
    /\ panel = "up" /\ pc[r] = "new"
    /\ Kind[r] \in {"mutate", "persist", "month"}
    /\ Goto(r, IF applying THEN "failed" ELSE "gate")
    /\ UNCHANGED <<panelVars, data, disk, file, loaded, coreUp, cand, mu, coreMu, acked>>

\* startSettingsApply: tests and sets settingsApplying in one critical section.
BeginSettings(r) ==
    /\ panel = "up" /\ pc[r] = "new" /\ Kind[r] = "settings"
    /\ IF applying
       THEN Goto(r, "failed") /\ UNCHANGED <<applying, applyErr>>
       ELSE Goto(r, "gate") /\ applying' = TRUE /\ applyErr' = FALSE
    /\ UNCHANGED <<panel, depRestart, data, disk, file, loaded, coreUp, cand, mu, coreMu, acked>>

\* serviceAction: straight to controlManagedSingBox.
BeginService(r) ==
    /\ panel = "up" /\ pc[r] = "new" /\ Kind[r] = "service"
    /\ Goto(r, "restart")
    /\ UNCHANGED <<panelVars, data, disk, file, loaded, coreUp, cand, mu, coreMu, acked>>

\* syncTraffic crosses a quota: Store.Update saves, UpdateNoSave does not, and
\* neither takes a.mu; a failed save returns early and changes nothing.
BookTraffic(r) ==
    /\ panel = "up" /\ pc[r] = "new" /\ Kind[r] = "traffic"
    /\ mu = NoOne
    /\ \/ /\ data' = data \cup {r}
          /\ disk' \in {disk, data'}
          /\ Goto(r, "regen")
       \/ /\ "save" \in Faults
          /\ Goto(r, "failed")
          /\ UNCHANGED <<data, disk>>
    /\ UNCHANGED <<panelVars, file, loaded, coreUp, cand, mu, coreMu, acked>>
-----------------------------------------------------------------------------
(* commitConfigMutation and Store.UpdateWith. *)

\* Mutant: a failed commit forgets that its request holds settingsApplying.
FailedStepKeepsFlag(r) == "failed"

\* Where a request whose commit failed goes: settings still hold the flag.
FailedStep(r) == IF Kind[r] = "settings" THEN "clearFailed" ELSE "failed"

\* Mutant: the state is cloned without waiting for the lock.
LockUnguarded(r) ==
    /\ pc[r] = "gate"
    /\ mu' = r /\ cand' = data \cup {r} /\ Goto(r, "stage")
    /\ UNCHANGED <<panelVars, data, disk, file, loaded, coreUp, coreMu, acked>>

\* Take the locks and run fn on a clone; fn's own error ends the request.
Lock(r) ==
    /\ pc[r] = "gate" /\ mu = NoOne
    /\ \/ /\ mu' = r /\ cand' = data \cup {r} /\ Goto(r, "stage")
       \/ /\ Goto(r, FailedStep(r)) /\ UNCHANGED <<mu, cand>>
    /\ UNCHANGED <<panelVars, data, disk, file, loaded, coreUp, coreMu, acked>>

\* writeAndValidateConfig: stage, check, rename over the live configuration.
Apply(r) ==
    /\ pc[r] = "stage"
    /\ \/ file' = Gen(cand) /\ Goto(r, "save") /\ UNCHANGED mu
       \/ /\ "check" \in Faults
          /\ mu' = NoOne /\ Goto(r, FailedStep(r)) /\ UNCHANGED file
    /\ UNCHANGED <<panelVars, data, disk, loaded, coreUp, cand, coreMu, acked>>

\* Mutant: the handler answers before the core's restart.
SaveAnswersEarly(r) ==
    /\ pc[r] = "save"
    /\ disk' = cand /\ data' = cand /\ mu' = NoOne
    /\ Goto(r, IF Kind[r] = "persist" THEN "done" ELSE "restart")
    /\ acked' = acked \cup {r}
    /\ UNCHANGED <<panelVars, file, loaded, coreUp, cand, coreMu>>

\* Mutant: settings are committed like bookkeeping, without a restart.
SaveSkipsRestart(r) ==
    /\ pc[r] = "save"
    /\ disk' = cand /\ data' = cand /\ mu' = NoOne
    /\ Goto(r, CASE Kind[r] = "persist" -> "done"
                 [] Kind[r] = "settings" -> "clearOk"
                 [] OTHER -> "restart")
    /\ acked' = IF Kind[r] = "settings" THEN acked \cup {r} ELSE acked
    /\ UNCHANGED <<panelVars, file, loaded, coreUp, cand, coreMu>>

\* save renames state.json, then s.data = candidate and the locks are freed.
\* A settings request is answered (202) here, the others only after the core.
Save(r) ==
    /\ pc[r] = "save"
    /\ disk' = cand /\ data' = cand
    /\ mu' = NoOne
    /\ Goto(r, IF Kind[r] = "persist" THEN "done" ELSE "restart")
    /\ acked' = IF Kind[r] = "settings" THEN acked \cup {r} ELSE acked
    /\ UNCHANGED <<panelVars, file, loaded, coreUp, cand, coreMu>>

SaveFails(r) ==
    /\ "save" \in Faults
    /\ pc[r] = "save" /\ Goto(r, "rollback")
    /\ UNCHANGED <<panelVars, data, disk, file, loaded, coreUp, cand, mu, coreMu, acked>>

\* Mutant: the configuration of the unsaved candidate stays live.
RollbackForgotten(r) ==
    /\ pc[r] = "rollback"
    /\ mu' = NoOne /\ Goto(r, FailedStep(r))
    /\ UNCHANGED <<panelVars, data, disk, file, loaded, coreUp, cand, coreMu, acked>>

\* Mutant: the error path returns without unlocking.
RollbackKeepsLock(r) ==
    /\ pc[r] = "rollback"
    /\ file' = Gen(data) /\ Goto(r, FailedStep(r))
    /\ UNCHANGED <<panelVars, data, disk, loaded, coreUp, cand, mu, coreMu, acked>>

\* apply(previous) is best effort: its error is dropped.
Rollback(r) ==
    /\ pc[r] = "rollback"
    /\ \/ file' = Gen(data)
       \/ "check" \in Faults /\ UNCHANGED file
    /\ mu' = NoOne /\ Goto(r, FailedStep(r))
    /\ UNCHANGED <<panelVars, data, disk, loaded, coreUp, cand, coreMu, acked>>

\* syncTraffic's own regeneration, under a.mu, from a fresh Snapshot.
Regenerate(r) ==
    /\ pc[r] = "regen" /\ mu = NoOne
    /\ \/ file' = Gen(data) /\ Goto(r, "restart")
       \/ "check" \in Faults /\ Goto(r, "failed") /\ UNCHANGED file
    /\ UNCHANGED <<panelVars, data, disk, loaded, coreUp, cand, mu, coreMu, acked>>
-----------------------------------------------------------------------------
(* controlManagedSingBox: the service command, then waitForServiceRunning. *)

\* The service command restarts the core, which reads config.json.
RestartCore(r) ==
    /\ pc[r] = "restart" /\ coreMu = NoOne
    /\ coreMu' = r
    /\ loaded' = file /\ coreUp' = TRUE
    /\ Goto(r, "waiting")
    /\ UNCHANGED <<panelVars, data, disk, file, cand, mu, acked>>

\* Where a request goes once its restart is over.
AfterRestart(r, ok) ==
    /\ Goto(r, CASE Kind[r] = "settings" /\ ok -> "clearOk"
                 [] Kind[r] = "settings" /\ ~ok -> "clearFailed"
                 [] Kind[r] = "mutate" /\ ok -> "acked"
                 [] Kind[r] \notin {"settings", "mutate"} /\ ok -> "done"
                 [] OTHER -> "failed")
    /\ acked' = IF ok /\ Kind[r] = "mutate" THEN acked \cup {r} ELSE acked
    /\ applyErr' = (applyErr \/ (Kind[r] = "settings" /\ ~ok))

\* Mutant: the service command's error is dropped.
RestartErrorDropped(r) ==
    /\ "restart" \in Faults
    /\ pc[r] = "restart" /\ coreMu = NoOne
    /\ coreUp' \in {coreUp, FALSE}
    /\ AfterRestart(r, TRUE)
    /\ UNCHANGED <<panel, applying, depRestart, data, disk, file, loaded, cand, mu, coreMu>>

\* The service command itself fails: the core is left running or stopped.
RestartFails(r) ==
    /\ "restart" \in Faults
    /\ pc[r] = "restart" /\ coreMu = NoOne
    /\ coreUp' \in {coreUp, FALSE}
    /\ AfterRestart(r, FALSE)
    /\ UNCHANGED <<panel, applying, depRestart, data, disk, file, loaded, cand, mu, coreMu>>

\* waitForServiceRunning sees the core, or gives up after 12 seconds.
Confirm(r) ==
    /\ pc[r] = "waiting"
    /\ coreMu' = NoOne
    /\ AfterRestart(r, coreUp)
    /\ UNCHANGED <<panel, applying, depRestart, data, disk, file, loaded, coreUp, cand, mu>>

\* The settings goroutine, or its failed commit, gives settingsApplying back.
ClearApplying(r) ==
    /\ pc[r] \in {"clearOk", "clearFailed"}
    /\ applying' = FALSE
    /\ Goto(r, IF pc[r] = "clearOk" THEN "done" ELSE "failed")
    /\ UNCHANGED <<panel, applyErr, depRestart, data, disk, file, loaded, coreUp, cand, mu, coreMu, acked>>
-----------------------------------------------------------------------------
(* Crashes and the supervisor. *)

\* The core dies; the service manager starts it again, with the file it finds.
CoreDies ==
    /\ "core" \in Faults
    /\ coreUp /\ coreUp' = FALSE
    /\ UNCHANGED <<panelVars, data, disk, file, loaded, cand, mu, coreMu, pc, acked>>

CoreRespawns ==
    /\ ~coreUp /\ coreUp' = TRUE /\ loaded' = file
    /\ UNCHANGED <<panelVars, data, disk, file, cand, mu, coreMu, pc, acked>>

\* The panel process ends between any two steps: its memory and locks are gone.
PanelDies ==
    /\ "crash" \in Faults
    /\ panel = "up" /\ panel' = "down"
    /\ pc' = [r \in Requests |-> IF pc[r] \in Ended \cup {"new"} THEN pc[r] ELSE "lost"]
    /\ mu' = NoOne /\ coreMu' = NoOne
    /\ applying' = FALSE /\ applyErr' = FALSE
    /\ depRestart' = BoundByRequires
    /\ UNCHANGED <<data, disk, file, loaded, coreUp, cand, acked>>

PanelSpawns ==
    /\ panel = "down" /\ panel' = "starting"
    /\ UNCHANGED <<applying, applyErr, depRestart, data, disk, file, loaded, coreUp, cand,
                   mu, coreMu, pc, acked>>

\* New: store.Open reads state.json and the configuration is generated again.
PanelOpens ==
    /\ panel = "starting" /\ panel' = "up"
    /\ data' = disk /\ file' = Gen(disk)
    /\ UNCHANGED <<applying, applyErr, depRestart, disk, loaded, coreUp, cand, mu, coreMu,
                   pc, acked>>

\* The restart Requires= propagates; Type=simple, so it does not wait for New.
DependentRestart ==
    /\ depRestart /\ panel # "down"
    /\ depRestart' = FALSE
    /\ IF coreUp THEN loaded' = file ELSE UNCHANGED loaded
    /\ UNCHANGED <<panel, applying, applyErr, data, disk, file, coreUp, cand, mu, coreMu,
                   pc, acked>>
-----------------------------------------------------------------------------
Commit(r) == Lock(r) \/ Apply(r) \/ Save(r) \/ SaveFails(r) \/ Rollback(r) \/ Regenerate(r)
Restart(r) == RestartCore(r) \/ RestartFails(r) \/ Confirm(r) \/ ClearApplying(r)
Begin(r) == PassGate(r) \/ BeginSettings(r) \/ BeginService(r) \/ BookTraffic(r)
Supervisor == CoreRespawns \/ PanelSpawns \/ PanelOpens \/ DependentRestart

Next ==
    \/ \E r \in Requests : Begin(r) \/ Commit(r) \/ Restart(r)
    \/ Supervisor
    \/ CoreDies \/ PanelDies

Spec == Init /\ [][Next]_vars

(* A request that has begun is at exactly one step.  Its goroutine is
   scheduled, and sync.Mutex hands a waiter the lock after 1 ms of starvation,
   so the step is taken if it is enabled again and again (strong fairness).
   The supervisor restarts what died.  Nothing makes a user send a request.  *)
Fairness ==
    /\ \A r \in Requests : SF_vars(Commit(r) \/ Restart(r))
    /\ WF_vars(CoreRespawns)
    /\ WF_vars(PanelSpawns \/ PanelOpens)
    /\ WF_vars(DependentRestart)

FairSpec == Spec /\ Fairness
-----------------------------------------------------------------------------
(* Correctness. *)

\* Every variable stays in its range, and a lock is held by the request whose
\* step is inside the critical section.
TypeOK ==
    /\ panel \in {"up", "starting", "down"}
    /\ data \subseteq Requests /\ disk \subseteq Requests
    /\ file \subseteq Requests /\ loaded \subseteq Requests
    /\ coreUp \in BOOLEAN
    /\ cand \subseteq Requests
    /\ mu \in Requests \cup {NoOne} /\ coreMu \in Requests \cup {NoOne}
    /\ pc \in [Requests -> Steps]
    /\ applying \in BOOLEAN /\ applyErr \in BOOLEAN
    /\ acked \subseteq Requests
    /\ depRestart \in BOOLEAN
    /\ \A r \in Requests : pc[r] \in Locked <=> mu = r
    /\ \A r \in Requests : pc[r] = "waiting" <=> coreMu = r

\* What a user was told is saved is in state.json, and an interactive change
\* (mutate) that was answered is in every configuration the core has loaded
\* since: failures, rollbacks and crashes of other requests take nothing back.
AckedInForce ==
    /\ acked \subseteq disk
    /\ \A r \in acked : Kind[r] = "mutate" => r \in loaded

\* A committed change the running core does not serve is owed a restart by the
\* request that made it, or that request reported failure (or died with the
\* panel): the core is never silently behind the panel.
StaleIsOwed ==
    panel = "up" /\ coreUp =>
        \A r \in Gen(data) \ loaded :
            pc[r] \in Owing \cup {"clearFailed", "failed", "lost"}

\* With nobody inside a commit the live config.json is the one of the panel's
\* state, but for quota changes still to be regenerated: a failed save is
\* rolled back and New repairs what a crash left.  (Where validation cannot
\* fail; the rollback is best effort.)
FileMatchesState ==
    panel = "up" /\ mu = NoOne /\ "check" \notin Faults =>
        \A r \in (file \cup Gen(data)) \ (file \cap Gen(data)) : pc[r] = "regen"

\* A settings application always comes to an end: the flag that blocks every
\* other change is given back on each path, failed commit and failed restart
\* included.
SettingsApplyEnds == applying ~> ~applying

\* When requests stop and only the core itself fails, the core ends up serving
\* exactly the panel's state, whatever the order in which the restarts of
\* concurrent requests took effect.
CoreConverges == <>[](loaded = Gen(data))

\* The abstract promise: an answer is given only for what is durable, and what
\* was answered stays in force.
Promise == INSTANCE DurableConfig WITH
    Deferred <- {r \in Requests : Kind[r] = "settings"},
    committed <- disk, answered <- acked, inForce <- loaded

\* The commit pipeline implements that promise.
KeepsPromise == Promise!Spec
=============================================================================
