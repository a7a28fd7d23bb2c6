----------------------------- MODULE PingHistory -------------------------------
(***************************************************************************)
(* Network quality: the panel pings its targets every two minutes, a new     *)
(* target at once, and keeps the samples of a day in memory and in one file. *)
(* Targets live in the store, samples in the pingManager; the pings run      *)
(* outside both locks, so a target may be gone when its sample arrives.      *)
(***************************************************************************)
EXTENDS Integers, FiniteSets

CONSTANTS
    Hosts,
    MaxTargets,     \* maxPingTargets
    Ttl,            \* pingHistoryTTL, in ticks
    MaxClock,       \* bound: ticks that pass
    MaxIds          \* bound: targets ever added

Ids == 1..MaxIds

VARIABLES
    clock,
    targets,        \* Settings.PingTargets: id and address
    ids,            \* ids given out
    samples,        \* pingManager.samples
    disk,           \* ping-history.json
    pingRunning,
    round,          \* per target: pings of rounds in flight
    first,          \* targets whose ping by addPingTarget is in flight
    removing,       \* removed from the store, samples not yet
    unsaved,        \* history: the last write of the file failed
    left,           \* history: targets removed while pinged, or not from the file
    taken,          \* history: samples of the last day of the targets there are
    lost            \* history: samples in no file, or a damaged one, at a restart

pingVars == <<clock, targets, ids, samples, disk, pingRunning, round, first, removing,
              unsaved, left, taken, lost>>
storeVars == <<targets, ids>>
flight == <<pingRunning, round, first>>
history == <<left, taken, lost>>

Sample == [of : Ids, at : 0..MaxClock, by : {"round", "first"}]

TargetIds == {t.id : t \in targets}

InFlight(i) == round[i] > 0 \/ i \in first

\* pruneLocked
Fresh(S) == {s \in S : s.at > clock - Ttl}

Init ==
    /\ clock = 0
    /\ targets = {} /\ ids = 0
    /\ samples = {} /\ disk = {} /\ unsaved = FALSE
    /\ pingRunning = FALSE /\ round = [i \in Ids |-> 0] /\ first = {}
    /\ removing = {}
    /\ left = {} /\ taken = {} /\ lost = {}

Tick ==
    /\ clock < MaxClock /\ clock' = clock + 1
    /\ UNCHANGED <<storeVars, samples, disk, flight, removing, unsaved, history>>
-----------------------------------------------------------------------------
(* Targets *)

\* addPingTarget: the limit and the addresses are checked under the store's
\* lock, and the first ping starts whether or not a round is running.
AddTarget(address) ==
    /\ Cardinality(targets) < MaxTargets /\ ids < MaxIds
    /\ \A t \in targets : t.address # address
    /\ ids' = ids + 1
    /\ targets' = targets \cup {[id |-> ids', address |-> address]}
    /\ first' = first \cup {ids'}
    /\ UNCHANGED <<clock, samples, disk, pingRunning, round, removing, unsaved, history>>

\* pingTargetAction, the store's part; an id that is not there is refused.
RemoveTarget(t) ==
    /\ targets' = targets \ {t}
    /\ removing' = removing \cup {t.id}
    /\ taken' = {s \in taken : s.of # t.id}
    /\ UNCHANGED <<clock, ids, samples, disk, flight, unsaved, left, lost>>

\* The file is written anew from memory, and a failure goes unnoticed.
WriteFile(written) ==
    /\ disk' = IF written THEN samples' ELSE disk
    /\ unsaved' = ~written

\* Mutant: the file is left for the next sample to write.
RemoveSamplesFromMemory(i, written) ==
    /\ i \in removing /\ removing' = removing \ {i}
    /\ samples' = {s \in samples : s.of # i}
    /\ left' = IF InFlight(i) THEN left \cup {i} ELSE left
    /\ UNCHANGED <<clock, storeVars, disk, unsaved, flight, taken, lost>>

\* pingManager.removeTarget
RemoveSamples(i, written) ==
    /\ i \in removing /\ removing' = removing \ {i}
    /\ samples' = {s \in samples : s.of # i}
    /\ WriteFile(written)
    /\ left' = IF InFlight(i) \/ ~written THEN left \cup {i} ELSE left
    /\ UNCHANGED <<clock, storeVars, flight, taken, lost>>
-----------------------------------------------------------------------------
(* Pings *)

\* Mutant: the flag is not asked for.
BeginRoundAnyway ==
    /\ targets # {}
    /\ pingRunning' = TRUE
    /\ round' = [i \in Ids |-> IF i \in TargetIds THEN round[i] + 1 ELSE round[i]]
    /\ UNCHANGED <<clock, storeVars, samples, disk, first, removing, unsaved, history>>

\* dispatchPingChecks and runPingChecks: the targets of a Snapshot.
BeginRound ==
    /\ ~pingRunning /\ targets # {}
    /\ pingRunning' = TRUE
    /\ round' = [i \in Ids |-> IF i \in TargetIds THEN round[i] + 1 ELSE round[i]]
    /\ UNCHANGED <<clock, storeVars, samples, disk, first, removing, unsaved, history>>

\* Mutant: the file is written before the sample is added.
AddSampleAfterFile(i, by, written) ==
    /\ samples' = Fresh(samples \cup {[of |-> i, at |-> clock, by |-> by]})
    /\ taken' = IF i \in TargetIds
                THEN Fresh(taken \cup {[of |-> i, at |-> clock, by |-> by]})
                ELSE Fresh(taken)
    /\ disk' = IF written THEN samples ELSE disk
    /\ unsaved' = ~written
    /\ UNCHANGED <<clock, storeVars, pingRunning, removing, left, lost>>

\* pingManager.add: append, prune, write.
AddSample(i, by, written) ==
    /\ samples' = Fresh(samples \cup {[of |-> i, at |-> clock, by |-> by]})
    /\ taken' = IF i \in TargetIds
                THEN Fresh(taken \cup {[of |-> i, at |-> clock, by |-> by]})
                ELSE Fresh(taken)
    /\ WriteFile(written)
    /\ UNCHANGED <<clock, storeVars, pingRunning, removing, left, lost>>

PingEnds(i, written) ==
    \/ /\ round[i] > 0 /\ round' = [round EXCEPT ![i] = @ - 1]
       /\ AddSample(i, "round", written)
       /\ UNCHANGED first
    \/ /\ i \in first /\ first' = first \ {i}
       /\ AddSample(i, "first", written)
       /\ UNCHANGED round

\* All pings of the round are in.
EndRound ==
    /\ pingRunning /\ \A i \in Ids : round[i] = 0
    /\ pingRunning' = FALSE
    /\ UNCHANGED <<clock, storeVars, samples, disk, round, first, removing, unsaved, history>>

\* The panel stops and starts: newPingManager reads the file, and one that does
\* not parse (the power failed, and the write was not synced) as an empty one.
Restart(parses) ==
    /\ disk' = IF parses THEN disk ELSE {}
    /\ samples' = Fresh(disk')
    /\ pingRunning' = FALSE /\ round' = [i \in Ids |-> 0] /\ first' = {}
    /\ removing' = {} /\ left' = left \cup removing
    /\ lost' = IF unsaved \/ ~parses THEN lost \cup (samples \ disk') ELSE lost
    /\ unsaved' = FALSE
    /\ UNCHANGED <<clock, storeVars, taken>>

\* What networkQuality answers; without targets the filter is off.
Shown == Fresh(IF targets = {} THEN samples ELSE {s \in samples : s.of \in TargetIds})

Next ==
    \/ Tick
    \/ \E address \in Hosts : AddTarget(address)
    \/ \E t \in targets : RemoveTarget(t)
    \/ \E i \in Ids, written \in BOOLEAN : RemoveSamples(i, written) \/ PingEnds(i, written)
    \/ BeginRound \/ EndRound
    \/ \E parses \in BOOLEAN : Restart(parses)

Spec == Init /\ [][Next]_pingVars
-----------------------------------------------------------------------------
(* Correctness. *)

\* Every variable stays in its range; targets are few, and differ in address.
TypeOK ==
    /\ clock \in 0..MaxClock /\ ids \in 0..MaxIds
    /\ targets \subseteq [id : 1..ids, address : Hosts]
    /\ Cardinality(targets) <= MaxTargets
    /\ \A t, u \in targets : t.address = u.address => t = u
    /\ samples \cup disk \cup taken \cup lost \subseteq Sample
    /\ {pingRunning, unsaved} \subseteq BOOLEAN
    /\ round \in [Ids -> Nat]
    /\ first \cup removing \cup left \subseteq Ids

\* Rounds do not overlap, however long their pings take: no target is pinged
\* twice at once by the scheduler, and none after its round is over.
RoundsDoNotOverlap == \A i \in Ids : round[i] <= (IF pingRunning THEN 1 ELSE 0)

\* The history of a removed target goes with it.  Samples of targets that are
\* gone are shown (when no target is left), or kept on disk, only while the
\* removal is under way, if a ping was in flight when it was made, or if it did
\* not reach the file because the write failed or the panel stopped.
RemovedTargetsForgotten ==
    \A s \in Shown \cup disk : s.of \in TargetIds \cup removing \cup left

\* No sample of a target is forgotten before its day is over, whatever other
\* targets come and go and however often the panel restarts, but for those
\* whose file could not be written before a restart, or was damaged by it.
NothingForgotten ==
    Fresh(taken) \subseteq samples \cup lost
=============================================================================
