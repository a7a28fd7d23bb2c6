------------------------- MODULE ConfigCommitProofs --------------------------
(***************************************************************************)
(* For any requests, of any kinds, under any of the faults: the commit      *)
(* pipeline is well typed, an answer is never taken back, the core is never *)
(* silently behind the panel, the file never strays from the state, and the *)
(* whole implements DurableConfig.                                          *)
(***************************************************************************)
EXTENDS ConfigCommit, TLAPS

\* The changes that count: the state of the panel, or what it will find when it
\* starts again.
Held == IF panel = "up" THEN data ELSE disk

(* What is saved is in the state, too; a commit's candidate is the state with *)
(* its own request; a request is not in the state before its commit; and a    *)
(* panel that is not up has no request under way.                             *)
StateInv ==
    /\ panel = "up" => disk \subseteq data
    /\ panel # "up" => \A r \in Requests : pc[r] \in Ended \cup {"new"}
    /\ mu # NoOne => cand = data \cup {mu}
    /\ \A r \in Held : pc[r] \notin {"new", "gate"} \cup Locked

(* Only a quota change reaches the state before the file; and only requests   *)
(* that have not restarted the core yet, or have failed, are in the state and *)
(* not in the core.                                                          *)
CoreInv ==
    /\ \A r \in Requests : pc[r] \in {"save", "rollback"} => file = Gen(cand)
    /\ \A r \in Gen(Held) \ file :
         /\ Kind[r] = "traffic"
         /\ pc[r] \in {"regen", "failed", "lost"}
         /\ panel = "up" /\ "check" \notin Faults => pc[r] = "regen"
    /\ \A r \in Gen(Held) \ loaded : pc[r] \in {"regen", "restart", "clearFailed", "failed", "lost"}

\* Answers: what was answered, or will be after the restart, is saved.
AnswerInv ==
    /\ acked \subseteq disk
    /\ \A r \in acked : Kind[r] = "settings" \/ (Kind[r] = "mutate" /\ pc[r] = "acked")
    /\ \A r \in Requests : Kind[r] = "mutate" /\ pc[r] \in {"restart", "waiting"} => r \in disk
    /\ \A r \in Requests : pc[r] = "regen" => Kind[r] = "traffic"

\* Nothing is in the file that is not in the state, but in the middle of a commit.
FileInv ==
    "check" \notin Faults /\ panel = "up" /\ (\A r \in Requests : pc[r] \notin {"save", "rollback"})
        => file \subseteq Gen(data)

CommitInv == TypeOK /\ StateInv /\ CoreInv /\ AnswerInv /\ FileInv

LEMMA TypeStep ==
    ASSUME TypeOK, Next
    PROVE  TypeOK'
<1> USE KindAssumption, NoOneAssumption, RequiresAssumption
    DEF TypeOK, Gen, Kinds, Steps, Locked, Owing, Ended, Goto, panelVars
<1>1. ASSUME NEW r \in Requests, PassGate(r)
      PROVE  TypeOK'
  BY <1>1 DEF PassGate
<1>2. ASSUME NEW r \in Requests, BeginSettings(r)
      PROVE  TypeOK'
  <2> USE <1>2 DEF BeginSettings
  <2>1. pc' \in [Requests -> Steps]
    OBVIOUS
  <2>2. \A q \in Requests : (pc'[q] \in Locked <=> mu' = q) /\ (pc'[q] = "waiting" <=> coreMu' = q)
    OBVIOUS
  <2>3. QED
    BY <2>1, <2>2
<1>3. ASSUME NEW r \in Requests, BeginService(r)
      PROVE  TypeOK'
  BY <1>3 DEF BeginService
<1>4. ASSUME NEW r \in Requests, BookTraffic(r)
      PROVE  TypeOK'
  BY <1>4 DEF BookTraffic
<1>5. ASSUME NEW r \in Requests, Lock(r)
      PROVE  TypeOK'
  BY <1>5 DEF Lock, FailedStep
<1>6. ASSUME NEW r \in Requests, Apply(r)
      PROVE  TypeOK'
  BY <1>6 DEF Apply, FailedStep
<1>7. ASSUME NEW r \in Requests, Save(r)
      PROVE  TypeOK'
  BY <1>7 DEF Save
<1>8. ASSUME NEW r \in Requests, SaveFails(r)
      PROVE  TypeOK'
  BY <1>8 DEF SaveFails
<1>9. ASSUME NEW r \in Requests, Rollback(r)
      PROVE  TypeOK'
  BY <1>9 DEF Rollback, FailedStep
<1>10. ASSUME NEW r \in Requests, Regenerate(r)
      PROVE  TypeOK'
  BY <1>10 DEF Regenerate
<1>11. ASSUME NEW r \in Requests, RestartCore(r)
      PROVE  TypeOK'
  BY <1>11 DEF RestartCore
<1>12. ASSUME NEW r \in Requests, RestartFails(r)
      PROVE  TypeOK'
  BY <1>12 DEF RestartFails, AfterRestart
<1>13. ASSUME NEW r \in Requests, Confirm(r)
      PROVE  TypeOK'
  BY <1>13 DEF Confirm, AfterRestart
<1>14. ASSUME NEW r \in Requests, ClearApplying(r)
      PROVE  TypeOK'
  BY <1>14 DEF ClearApplying
<1>15. CASE CoreRespawns
  BY <1>15 DEF CoreRespawns
<1>16. CASE PanelSpawns
  BY <1>16 DEF PanelSpawns
<1>17. CASE PanelOpens
  BY <1>17 DEF PanelOpens
<1>18. CASE DependentRestart
  BY <1>18 DEF DependentRestart
<1>19. CASE CoreDies
  BY <1>19 DEF CoreDies
<1>20. CASE PanelDies
  BY <1>20 DEF PanelDies
<1>21. QED
  BY <1>1, <1>2, <1>3, <1>4, <1>5, <1>6, <1>7, <1>8, <1>9, <1>10, <1>11, <1>12, <1>13, <1>14, <1>15, <1>16, <1>17, <1>18, <1>19, <1>20
  DEF Next, Begin, Commit, Restart, Supervisor

\* The gates: a request begins or is refused.
LEMMA GateStep ==
    ASSUME CommitInv, TypeOK', NEW r \in Requests, Begin(r)
    PROVE  CommitInv'
<1> USE KindAssumption, NoOneAssumption
    DEF CommitInv, TypeOK, StateInv, CoreInv, AnswerInv, FileInv, Held, Gen,
        Kinds, Steps, Locked, Owing, Ended, Goto, panelVars
<1>1. CASE PassGate(r)
  <2> USE <1>1 DEF PassGate
  <2>1. StateInv'
    OBVIOUS
  <2>2. CoreInv'
    OBVIOUS
  <2>3. AnswerInv'
    OBVIOUS
  <2>4. FileInv'
    OBVIOUS
  <2>5. QED
    BY <2>1, <2>2, <2>3, <2>4
<1>2. CASE BeginSettings(r)
  <2> USE <1>2 DEF BeginSettings
  <2>1. StateInv'
    OBVIOUS
  <2>2. CoreInv'
    OBVIOUS
  <2>3. AnswerInv'
    OBVIOUS
  <2>4. FileInv'
    OBVIOUS
  <2>5. QED
    BY <2>1, <2>2, <2>3, <2>4
<1>3. CASE BeginService(r)
  <2> USE <1>3 DEF BeginService
  <2>1. StateInv'
    OBVIOUS
  <2>2. CoreInv'
    OBVIOUS
  <2>3. AnswerInv'
    OBVIOUS
  <2>4. FileInv'
    OBVIOUS
  <2>5. QED
    BY <2>1, <2>2, <2>3, <2>4
<1>4. CASE BookTraffic(r)
  <2> USE <1>4 DEF BookTraffic
  <2>1. StateInv'
    OBVIOUS
  <2>2. CoreInv'
    OBVIOUS
  <2>3. AnswerInv'
    OBVIOUS
  <2>4. FileInv'
    OBVIOUS
  <2>5. QED
    BY <2>1, <2>2, <2>3, <2>4
<1>5. QED
  BY <1>1, <1>2, <1>3, <1>4 DEF Begin

\* The commit: nothing leaves the state, and the file follows the candidate.
LEMMA CommitStep ==
    ASSUME CommitInv, TypeOK', NEW r \in Requests, Commit(r)
    PROVE  CommitInv'
<1> USE KindAssumption, NoOneAssumption
    DEF CommitInv, TypeOK, StateInv, CoreInv, AnswerInv, FileInv, Held, Gen,
        Kinds, Steps, Locked, Owing, Ended, Goto, panelVars
<1>1. CASE Lock(r)
  <2> USE <1>1 DEF Lock, FailedStep
  <2>1. StateInv'
    OBVIOUS
  <2>2. CoreInv'
    OBVIOUS
  <2>3. AnswerInv'
    OBVIOUS
  <2>4. FileInv'
    OBVIOUS
  <2>5. QED
    BY <2>1, <2>2, <2>3, <2>4
<1>2. CASE Apply(r)
  <2> USE <1>2 DEF Apply, FailedStep
  <2>1. StateInv'
    OBVIOUS
  <2>2. CoreInv'
    OBVIOUS
  <2>3. AnswerInv'
    OBVIOUS
  <2>4. FileInv'
    OBVIOUS
  <2>5. QED
    BY <2>1, <2>2, <2>3, <2>4
<1>3. CASE Save(r)
  <2> USE <1>3 DEF Save
  <2>1. StateInv'
    OBVIOUS
  <2>2. CoreInv'
    OBVIOUS
  <2>3. AnswerInv'
    OBVIOUS
  <2>4. FileInv'
    OBVIOUS
  <2>5. QED
    BY <2>1, <2>2, <2>3, <2>4
<1>4. CASE SaveFails(r)
  <2> USE <1>4 DEF SaveFails
  <2>1. StateInv'
    OBVIOUS
  <2>2. CoreInv'
    OBVIOUS
  <2>3. AnswerInv'
    OBVIOUS
  <2>4. FileInv'
    OBVIOUS
  <2>5. QED
    BY <2>1, <2>2, <2>3, <2>4
<1>5. CASE Rollback(r)
  <2> USE <1>5 DEF Rollback, FailedStep
  <2>1. StateInv'
    OBVIOUS
  <2>2. CoreInv'
    OBVIOUS
  <2>3. AnswerInv'
    OBVIOUS
  <2>4. FileInv'
    OBVIOUS
  <2>5. QED
    BY <2>1, <2>2, <2>3, <2>4
<1>6. CASE Regenerate(r)
  <2> USE <1>6 DEF Regenerate
  <2>1. StateInv'
    OBVIOUS
  <2>2. CoreInv'
    OBVIOUS
  <2>3. AnswerInv'
    OBVIOUS
  <2>4. FileInv'
    OBVIOUS
  <2>5. QED
    BY <2>1, <2>2, <2>3, <2>4
<1>7. QED
  BY <1>1, <1>2, <1>3, <1>4, <1>5, <1>6 DEF Commit

\* The core's restart, which answers a request only once its change is loaded.
LEMMA RestartStep ==
    ASSUME CommitInv, TypeOK', NEW r \in Requests, Restart(r)
    PROVE  CommitInv'
<1> USE KindAssumption, NoOneAssumption
    DEF CommitInv, TypeOK, StateInv, CoreInv, AnswerInv, FileInv, Held, Gen,
        Kinds, Steps, Locked, Owing, Ended, Goto, panelVars
<1>1. CASE RestartCore(r)
  <2> USE <1>1 DEF RestartCore
  <2>1. StateInv'
    OBVIOUS
  <2>2. CoreInv'
    OBVIOUS
  <2>3. AnswerInv'
    OBVIOUS
  <2>4. FileInv'
    OBVIOUS
  <2>5. QED
    BY <2>1, <2>2, <2>3, <2>4
<1>2. CASE RestartFails(r)
  <2> USE <1>2 DEF RestartFails, AfterRestart
  <2>1. StateInv'
    OBVIOUS
  <2>2. CoreInv'
    OBVIOUS
  <2>3. AnswerInv'
    OBVIOUS
  <2>4. FileInv'
    OBVIOUS
  <2>5. QED
    BY <2>1, <2>2, <2>3, <2>4
<1>3. CASE Confirm(r)
  <2> USE <1>3 DEF Confirm, AfterRestart
  <2>1. StateInv'
    OBVIOUS
  <2>2. CoreInv'
    OBVIOUS
  <2>3. AnswerInv'
    OBVIOUS
  <2>4. FileInv'
    OBVIOUS
  <2>5. QED
    BY <2>1, <2>2, <2>3, <2>4
<1>4. CASE ClearApplying(r)
  <2> USE <1>4 DEF ClearApplying
  <2>1. StateInv'
    OBVIOUS
  <2>2. CoreInv'
    OBVIOUS
  <2>3. AnswerInv'
    OBVIOUS
  <2>4. FileInv'
    OBVIOUS
  <2>5. QED
    BY <2>1, <2>2, <2>3, <2>4
<1>5. QED
  BY <1>1, <1>2, <1>3, <1>4 DEF Restart

\* Deaths and the service manager.
LEMMA SupervisorStep ==
    ASSUME CommitInv, TypeOK', Supervisor \/ CoreDies \/ PanelDies
    PROVE  CommitInv'
<1> USE KindAssumption, NoOneAssumption
    DEF CommitInv, TypeOK, StateInv, CoreInv, AnswerInv, FileInv, Held, Gen,
        Kinds, Steps, Locked, Owing, Ended, Goto, panelVars
<1>1. CASE CoreRespawns
  <2> USE <1>1 DEF CoreRespawns
  <2>1. StateInv'
    OBVIOUS
  <2>2. CoreInv'
    OBVIOUS
  <2>3. AnswerInv'
    OBVIOUS
  <2>4. FileInv'
    OBVIOUS
  <2>5. QED
    BY <2>1, <2>2, <2>3, <2>4
<1>2. CASE PanelSpawns
  <2> USE <1>2 DEF PanelSpawns
  <2>1. StateInv'
    OBVIOUS
  <2>2. CoreInv'
    OBVIOUS
  <2>3. AnswerInv'
    OBVIOUS
  <2>4. FileInv'
    OBVIOUS
  <2>5. QED
    BY <2>1, <2>2, <2>3, <2>4
<1>3. CASE PanelOpens
  <2> USE <1>3 DEF PanelOpens
  <2>1. StateInv'
    OBVIOUS
  <2>2. CoreInv'
    OBVIOUS
  <2>3. AnswerInv'
    OBVIOUS
  <2>4. FileInv'
    OBVIOUS
  <2>5. QED
    BY <2>1, <2>2, <2>3, <2>4
<1>4. CASE DependentRestart
  <2> USE <1>4 DEF DependentRestart
  <2>1. StateInv'
    OBVIOUS
  <2>2. CoreInv'
    OBVIOUS
  <2>3. AnswerInv'
    OBVIOUS
  <2>4. FileInv'
    OBVIOUS
  <2>5. QED
    BY <2>1, <2>2, <2>3, <2>4
<1>5. CASE CoreDies
  <2> USE <1>5 DEF CoreDies
  <2>1. StateInv'
    OBVIOUS
  <2>2. CoreInv'
    OBVIOUS
  <2>3. AnswerInv'
    OBVIOUS
  <2>4. FileInv'
    OBVIOUS
  <2>5. QED
    BY <2>1, <2>2, <2>3, <2>4
<1>6. CASE PanelDies
  <2> USE <1>6 DEF PanelDies
  <2>1. StateInv'
    OBVIOUS
  <2>2. CoreInv'
    OBVIOUS
  <2>3. AnswerInv'
    OBVIOUS
  <2>4. FileInv'
    OBVIOUS
  <2>5. QED
    BY <2>1, <2>2, <2>3, <2>4
<1>7. QED
  BY <1>1, <1>2, <1>3, <1>4, <1>5, <1>6 DEF Supervisor

LEMMA CommitInit == Init => CommitInv
<1> SUFFICES ASSUME Init PROVE CommitInv
  OBVIOUS
<1> USE NoOneAssumption DEF Init, Gen, Held, Steps, Locked, Owing, Ended
<1>1. TypeOK
  BY DEF TypeOK
<1>2. StateInv /\ CoreInv /\ AnswerInv /\ FileInv
  BY DEF StateInv, CoreInv, AnswerInv, FileInv
<1>3. QED
  BY <1>1, <1>2 DEF CommitInv

LEMMA CommitNext == CommitInv /\ [Next]_vars => CommitInv'
<1> SUFFICES ASSUME CommitInv, [Next]_vars
             PROVE  CommitInv'
  OBVIOUS
<1>1. CASE Next
  <2>1. TypeOK'
    BY <1>1, TypeStep DEF CommitInv
  <2>2. ASSUME NEW r \in Requests, Begin(r) \/ Commit(r) \/ Restart(r)
        PROVE  CommitInv'
    BY <2>1, <2>2, GateStep, CommitStep, RestartStep
  <2>3. CASE Supervisor \/ CoreDies \/ PanelDies
    BY <2>1, <2>3, SupervisorStep
  <2>4. QED
    BY <1>1, <2>2, <2>3 DEF Next
<1>2. CASE UNCHANGED vars
  BY <1>2 DEF vars, CommitInv, TypeOK, StateInv, CoreInv, AnswerInv, FileInv, Held, Gen
<1>3. QED
  BY <1>1, <1>2

\* The inductive invariant holds whatever requests there are and whatever fails.
THEOREM CommitCorrect == Spec => []CommitInv
BY CommitInit, CommitNext, PTL DEF Spec

\* Every lock is held by the request inside its critical section, and no
\* variable leaves its range.
THEOREM CommitTypeCorrect == Spec => []TypeOK
BY CommitCorrect, PTL DEF CommitInv

LEMMA AnswersStand == CommitInv => AckedInForce
<1> SUFFICES ASSUME CommitInv, NEW r \in acked, Kind[r] = "mutate"
             PROVE  acked \subseteq disk /\ r \in loaded
  BY DEF AckedInForce, CommitInv, AnswerInv
<1>1. acked \subseteq disk /\ disk \subseteq Held /\ pc[r] = "acked"
  BY DEF CommitInv, AnswerInv, StateInv, Held
<1>2. r \in Gen(Held)
  BY <1>1 DEF Gen
<1>3. QED
  BY <1>1, <1>2 DEF CommitInv, CoreInv

\* No failure, rollback or crash takes back a change that was answered: it stays
\* in state.json, and an interactive one in every configuration the core loads.
THEOREM AnswersKept == Spec => []AckedInForce
BY CommitCorrect, AnswersStand, PTL

\* Whatever a running panel and core disagree about is owed a restart, or was
\* reported as failed: the core is never silently behind the panel.
THEOREM NeverSilentlyStale == Spec => []StaleIsOwed
<1>1. CommitInv => StaleIsOwed
  BY DEF CommitInv, CoreInv, StaleIsOwed, Held, Owing
<1>2. QED
  BY <1>1, CommitCorrect, PTL

\* Where validation cannot fail, config.json is the configuration of the panel's
\* state between commits: failed saves are rolled back, crashes repaired by New.
THEOREM FileIsTheState == Spec => []FileMatchesState
<1>1. CommitInv => FileMatchesState
  <2> SUFFICES ASSUME CommitInv, panel = "up", mu = NoOne, "check" \notin Faults,
                      NEW r \in (file \cup Gen(data)) \ (file \cap Gen(data))
               PROVE  pc[r] = "regen"
    BY DEF FileMatchesState
  <2>1. \A q \in Requests : pc[q] \notin {"save", "rollback"}
    BY NoOneAssumption DEF CommitInv, TypeOK, Locked
  <2>2. r \in Gen(Held) \ file
    BY <2>1 DEF CommitInv, FileInv, Held
  <2>3. QED
    BY <2>2 DEF CommitInv, CoreInv
<1>2. QED
  BY <1>1, CommitCorrect, PTL
-----------------------------------------------------------------------------
(* The refinement. *)

Deferred == {r \in Requests : Kind[r] = "settings"}

\* A step of the pipeline that loads the file into the core, and nothing else, is
\* a reload that leaves no answered change out.
LEMMA LoadingIsReload ==
    ASSUME CommitInv, CommitInv', AckedInForce', loaded' = file, UNCHANGED <<disk, acked>>
    PROVE  Promise!Reload
<1>1. acked \ Deferred \subseteq loaded'
  <2> SUFFICES ASSUME NEW r \in acked \ Deferred
               PROVE  r \in loaded'
    OBVIOUS
  <2>1. r \in acked' /\ Kind[r] = "mutate"
    BY DEF CommitInv, AnswerInv, TypeOK, Deferred
  <2>2. QED
    BY <2>1 DEF AckedInForce
<1>2. loaded' \in SUBSET Requests
  BY DEF CommitInv, TypeOK
<1>3. QED
  BY <1>1, <1>2 DEF Promise!Reload, Deferred

\* A step that saves more, and answers at most a settings request it saved.
LEMMA SavingIsCommit ==
    ASSUME CommitInv', disk \subseteq disk', loaded' = loaded,
           NEW now \in SUBSET Deferred, now \subseteq disk', acked' = acked \cup now
    PROVE  Promise!Commit
<1>1. disk' \in SUBSET Requests /\ disk' = disk \cup disk'
  BY DEF CommitInv, TypeOK
<1>2. QED
  BY <1>1 DEF Promise!Commit, Deferred

\* Every step of a request is a step of the promise, or none.
LEMMA RequestRefines ==
    ASSUME CommitInv, CommitInv', AckedInForce', NEW r \in Requests, Begin(r) \/ Commit(r) \/ Restart(r)
    PROVE  Promise!Next \/ UNCHANGED Promise!vars
<1> USE DEF Promise!vars, Promise!Next, panelVars
<1>1. CASE BookTraffic(r)
  <2>1. panel = "up" /\ disk \subseteq data
    BY <1>1 DEF BookTraffic, CommitInv, StateInv
  <2>2. disk \subseteq disk' /\ loaded' = loaded /\ acked' = acked \cup {}
    BY <1>1, <2>1 DEF BookTraffic
  <2>3. {} \in SUBSET Deferred /\ {} \subseteq disk'
    OBVIOUS
  <2>4. QED
    BY <2>2, <2>3, SavingIsCommit
<1>2. CASE Save(r)
  <2>1. mu = r /\ panel = "up"
    BY <1>2 DEF Save, CommitInv, StateInv, TypeOK, Locked, Ended
  <2>2. disk \subseteq cand /\ r \in cand
    BY <2>1, NoOneAssumption DEF CommitInv, StateInv
  <2>3. \E now \in SUBSET Deferred : now \subseteq disk' /\ acked' = acked \cup now
    <3>1. CASE Kind[r] = "settings"
      BY <1>2, <2>2, <3>1 DEF Save, Deferred
    <3>2. CASE Kind[r] # "settings"
      <4>1. acked' = acked \cup {}
        BY <1>2, <3>2 DEF Save
      <4>2. {} \in SUBSET Deferred /\ {} \subseteq disk'
        OBVIOUS
      <4>3. QED
        BY <4>1, <4>2
    <3>3. QED
      BY <3>1, <3>2
  <2>4. QED
    BY <1>2, <2>2, <2>3, SavingIsCommit DEF Save
<1>3. CASE RestartCore(r)
  BY <1>3, LoadingIsReload DEF RestartCore
<1>4. CASE Confirm(r)
  <2>1. CASE acked' = acked
    BY <1>4, <2>1 DEF Confirm
  <2>2. CASE acked' = acked \cup {r} /\ Kind[r] = "mutate"
    <3>1. r \in acked' /\ disk' = disk /\ loaded' = loaded
      BY <1>4, <2>2 DEF Confirm
    <3>2. r \in disk \cap loaded
      BY <2>2, <3>1 DEF AckedInForce, CommitInv, AnswerInv
    <3>3. QED
      BY <2>2, <3>1, <3>2 DEF Promise!Answer
  <2>3. QED
    BY <1>4, <2>1, <2>2 DEF Confirm, AfterRestart
<1>5. CASE PassGate(r) \/ BeginSettings(r) \/ BeginService(r)
  BY <1>5 DEF PassGate, BeginSettings, BeginService
<1>6. CASE Lock(r) \/ Apply(r) \/ SaveFails(r) \/ Rollback(r) \/ Regenerate(r)
  BY <1>6 DEF Lock, Apply, SaveFails, Rollback, Regenerate
<1>7. CASE RestartFails(r) \/ ClearApplying(r)
  BY <1>7 DEF RestartFails, AfterRestart, ClearApplying
<1>8. QED
  BY <1>1, <1>2, <1>3, <1>4, <1>5, <1>6, <1>7 DEF Begin, Commit, Restart

LEMMA SupervisorRefines ==
    ASSUME CommitInv, CommitInv', AckedInForce', Supervisor \/ CoreDies \/ PanelDies
    PROVE  Promise!Next \/ UNCHANGED Promise!vars
<1> USE DEF Promise!vars, Promise!Next, panelVars
<1>1. CASE CoreRespawns
  BY <1>1, LoadingIsReload DEF CoreRespawns
<1>2. CASE DependentRestart
  BY <1>2, LoadingIsReload DEF DependentRestart
<1>3. CASE PanelSpawns \/ PanelOpens \/ CoreDies \/ PanelDies
  BY <1>3 DEF PanelSpawns, PanelOpens, CoreDies, PanelDies
<1>4. QED
  BY <1>1, <1>2, <1>3 DEF Supervisor

\* The commit pipeline, with its files, locks, failures and crashes, implements
\* DurableConfig: changes become durable and stay so, and an answer is given only
\* for what is durable and in force, and stays.
THEOREM PipelineKeepsPromise == Spec => KeepsPromise
<1>1. Init => Promise!Init
  BY DEF Init, Promise!Init
<1>2. CommitInv /\ CommitInv' /\ AckedInForce' /\ [Next]_vars => [Promise!Next]_(Promise!vars)
  <2> SUFFICES ASSUME CommitInv, CommitInv', AckedInForce', [Next]_vars
               PROVE  Promise!Next \/ UNCHANGED Promise!vars
    OBVIOUS
  <2>1. CASE Next
    BY <2>1, RequestRefines, SupervisorRefines DEF Next
  <2>2. CASE UNCHANGED vars
    BY <2>2 DEF vars, Promise!vars
  <2>3. QED
    BY <2>1, <2>2
<1>3. QED
  BY <1>1, <1>2, CommitCorrect, AnswersKept, PTL DEF Spec, KeepsPromise, Promise!Spec
=============================================================================
