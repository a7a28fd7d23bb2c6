-------------------------- MODULE TrafficAccounting -------------------------
(***************************************************************************)
(* How App.syncTraffic turns the core's cumulative counters into the       *)
(* traffic billed to each client, while clients are created, reset and     *)
(* deleted, the core restarts (and counts from zero again) and the panel   *)
(* is restarted from a state.json that may be behind its memory.           *)
(*                                                                         *)
(* Upload and download are counted the same way and independently; one     *)
(* direction is modelled.  The relay user of a landing host is one more    *)
(* counter treated like a client's.  Renaming a client is left out.        *)
(* Month and day buckets belong to QuotaEnforcement.                       *)
(***************************************************************************)
EXTENDS Integers, FiniteSets

CONSTANTS
    Users,      \* usernames, the keys of the core's counters
    MaxBytes    \* bound: what the core carries for one username

ASSUME MaxBytesAssumption == MaxBytes \in Nat

VARIABLES
    core,       \* the running core's counter of each username
    served,     \* usernames in the configuration the core loaded
    mem, disk,  \* the store: in memory, and state.json
    sync,       \* syncTraffic's progress: "idle", "began" or "queried"
    seen,       \*   the usernames of its Snapshot
    current,    \*   what the query returned
    saveDue,    \* a minute has passed since lastTrafficSave
    carried,    \* history: bytes carried for a username since installation
    undisturbed \* history: usernames no reset, deletion or counter loss met

clientVars == <<mem, disk>>
coreVars == <<core, served, carried>>
syncVars == <<sync, seen, current>>
vars == <<core, served, mem, disk, sync, seen, current, saveDue, carried, undisturbed>>

Zero == [u \in Users |-> 0]

\* The part of config.State accounting works on: the clients with their
\* UsedBytes, and TrafficCounters with the names it has entries for.  An
\* absent entry of the map reads as zero.
State == [clients : SUBSET Users, used : [Users -> Nat],
          counters : [Users -> Nat], names : SUBSET Users]

Empty == [clients |-> {}, used |-> Zero, counters |-> Zero, names |-> {}]

Init ==
    /\ core = Zero /\ served = {} /\ carried = Zero
    /\ mem = Empty /\ disk = Empty
    /\ sync = "idle" /\ seen = {} /\ current = Zero
    /\ saveDue = TRUE
    /\ undisturbed = Users

\* Mutant: a restarted core is not recognised.
DeltaNoRestart(now, before) == now - before

\* trafficDelta: a counter that went back means the core started again.
Delta(now, before) == IF now < before THEN now ELSE now - before
-----------------------------------------------------------------------------
(* The core (external): it counts per user of its configuration, in memory. *)

Carry(u) ==
    /\ u \in served /\ carried[u] < MaxBytes
    /\ core' = [core EXCEPT ![u] = @ + 1]
    /\ carried' = [carried EXCEPT ![u] = @ + 1]
    /\ UNCHANGED <<served, clientVars, syncVars, saveDue, undisturbed>>

\* After every client mutation, on request, or because it died.
CoreRestart ==
    /\ core' = Zero
    /\ served' = mem.clients
    /\ undisturbed' = {u \in undisturbed : core[u] = 0}
    /\ UNCHANGED <<carried, clientVars, syncVars, saveDue>>
-----------------------------------------------------------------------------
(* Client handlers: App.mutate saves the whole state with the change; a     *)
(* failed commit changes nothing.                                           *)

Commit(state) == mem' = state /\ disk' = state

CreateClient(u) ==
    /\ u \notin mem.clients
    /\ Commit([mem EXCEPT !.clients = @ \cup {u}, !.used[u] = 0])
    /\ UNCHANGED <<coreVars, syncVars, saveDue, undisturbed>>

\* clientAction "reset".  The syncTraffic it calls first is the one below.
ResetClient(u) ==
    /\ u \in mem.clients
    /\ Commit([mem EXCEPT !.used[u] = 0])
    /\ undisturbed' = undisturbed \ {u}
    /\ UNCHANGED <<coreVars, syncVars, saveDue>>

\* clientAction "delete": the counter stays until the next sync drops it.
DeleteClient(u) ==
    /\ u \in mem.clients
    /\ Commit([mem EXCEPT !.clients = @ \ {u}, !.used[u] = 0])
    /\ undisturbed' = undisturbed \ {u}
    /\ UNCHANGED <<coreVars, syncVars, saveDue>>

\* Any other commit (settings, inbounds, daily bookkeeping) saves what the
\* memory holds.
CommitOther ==
    /\ Commit(mem)
    /\ UNCHANGED <<coreVars, syncVars, saveDue, undisturbed>>
-----------------------------------------------------------------------------
(* syncTraffic, under trafficMu: Snapshot, query, update.  Nothing is locked *)
(* between the three.                                                        *)

\* Without clients there is nothing to query.
SyncBegin ==
    /\ sync = "idle" /\ mem.clients # {}
    /\ sync' = "began" /\ seen' = mem.clients
    /\ UNCHANGED <<current, coreVars, clientVars, saveDue, undisturbed>>

\* queryUserTraffic keeps the counters of the names asked for; a name without
\* one reads as zero in the map.
SyncQuery ==
    /\ sync = "began"
    /\ sync' = "queried"
    /\ current' = [u \in Users |-> IF u \in seen THEN core[u] ELSE 0]
    /\ UNCHANGED <<seen, coreVars, clientVars, saveDue, undisturbed>>

SyncDone == sync' = "idle" /\ seen' = {} /\ current' = Zero

\* The core does not answer within 1.2 s, or the save fails.
SyncFails ==
    /\ sync \in {"began", "queried"}
    /\ SyncDone
    /\ UNCHANGED <<coreVars, clientVars, saveDue, undisturbed>>

\* The decisions are taken on the Snapshot; TrafficCounters cannot have changed
\* since, the client list can.
NeedsSave ==
    \/ Cardinality(mem.names) # Cardinality(seen)
    \/ \E u \in seen : mem.counters[u] # current[u]
Structural ==
    \/ Cardinality(mem.names) # Cardinality(seen)
    \/ ~(mem.names \subseteq seen)

\* Mutant: the first counter seen of a client only sets its baseline.
BilledFromBaseline(s) ==
    [s EXCEPT
        !.used = [u \in Users |-> IF u \in s.clients \cap s.names
                                  THEN @[u] + Delta(current[u], s.counters[u])
                                  ELSE @[u]],
        !.counters = [u \in Users |-> IF u \in s.clients THEN current[u] ELSE 0],
        !.names = s.clients]

\* The mutation, run on the state as it is now.
Billed(s) ==
    [s EXCEPT
        !.used = [u \in Users |-> IF u \in s.clients
                                  THEN @[u] + Delta(current[u], s.counters[u])
                                  ELSE @[u]],
        !.counters = [u \in Users |-> IF u \in s.clients THEN current[u] ELSE 0],
        !.names = s.clients]

\* Nothing new: return before the update.
SyncIdle ==
    /\ sync = "queried" /\ ~NeedsSave
    /\ SyncDone
    /\ UNCHANGED <<coreVars, clientVars, saveDue, undisturbed>>

\* Mutant: counters are taken for volatile and left out of state.json.
SyncApplySavesUsageOnly ==
    /\ sync = "queried" /\ NeedsSave
    /\ mem' = Billed(mem)
    /\ IF Structural \/ saveDue
       THEN disk' = [mem' EXCEPT !.counters = disk.counters] /\ saveDue' = FALSE
       ELSE UNCHANGED <<disk, saveDue>>
    /\ SyncDone
    /\ UNCHANGED <<coreVars, undisturbed>>

\* Store.Update when the structure changed or a minute has passed, else
\* Store.UpdateNoSave.
SyncApply ==
    /\ sync = "queried" /\ NeedsSave
    /\ mem' = Billed(mem)
    /\ IF Structural \/ saveDue
       THEN disk' = mem' /\ saveDue' = FALSE
       ELSE UNCHANGED <<disk, saveDue>>
    /\ SyncDone
    /\ UNCHANGED <<coreVars, undisturbed>>

MinutePasses ==
    /\ saveDue' = TRUE
    /\ UNCHANGED <<coreVars, clientVars, syncVars, undisturbed>>

\* store.Open after a crash, an update or a service restart.
PanelRestart ==
    /\ mem' = disk
    /\ SyncDone
    /\ saveDue' = TRUE
    /\ UNCHANGED <<disk, coreVars, undisturbed>>
-----------------------------------------------------------------------------
SyncStep == SyncBegin \/ SyncQuery \/ SyncIdle \/ SyncApply

ClientStep(u) == CreateClient(u) \/ ResetClient(u) \/ DeleteClient(u)

Next ==
    \/ \E u \in Users : Carry(u) \/ ClientStep(u)
    \/ CommitOther
    \/ SyncStep \/ SyncFails \/ MinutePasses
    \/ CoreRestart \/ PanelRestart

Spec == Init /\ [][Next]_vars
-----------------------------------------------------------------------------
(* Correctness. *)

TypeOK ==
    /\ core \in [Users -> Nat] /\ carried \in [Users -> Nat]
    /\ served \subseteq Users
    /\ mem \in State /\ disk \in State
    /\ sync \in {"idle", "began", "queried"}
    /\ seen \subseteq Users /\ current \in [Users -> Nat]
    /\ saveDue \in BOOLEAN
    /\ undisturbed \subseteq Users

\* Nobody is ever billed a byte that was not carried for that username,
\* however core restarts, panel restarts, queries in flight and client changes
\* interleave; nor would the next sync, nor one after a crash, bill it.
NeverOverbilled ==
    \A u \in Users, s \in {mem, disk} :
        s.used[u] + Delta(core[u], s.counters[u]) <= carried[u]

\* While the core lives every carried byte is either billed or still to be
\* billed, exactly once, from memory and from what a crash would leave:
\* batching state.json writes loses nothing.
ExactWhileCoreLives ==
    \A u \in undisturbed, s \in {mem, disk} :
        s.used[u] + (core[u] - s.counters[u]) = carried[u]
-----------------------------------------------------------------------------
(* The inductive invariant behind NeverOverbilled. *)

\* Bytes carried for a username before the running core started.
Before(u) == carried[u] - core[u]

\* What a store billed is covered by the earlier cores and, if its counter may
\* come from the running core, by that counter.
Covered(s, u) ==
    s.used[u] <= Before(u) + (IF s.counters[u] <= core[u] THEN s.counters[u] ELSE 0)

\* What the answer in flight will have billed is covered in the same way; the
\* answer has nothing for a client created since the Snapshot, which owes
\* nothing yet.
AnswerCovered(u) ==
    mem.used[u] + Delta(current[u], mem.counters[u])
        <= Before(u) + (IF current[u] <= core[u] THEN current[u] ELSE 0)

BillingInv ==
    /\ TypeOK
    /\ \A u \in Users : core[u] <= carried[u]
    /\ \A u \in Users, s \in {mem, disk} : Covered(s, u)
    /\ \A u \in Users : u \notin mem.clients => mem.used[u] = 0
    /\ \A u \in Users : u \notin disk.clients => disk.used[u] = 0
    /\ sync = "began" => \A u \in Users \ seen : mem.used[u] = 0
    /\ sync = "queried" => \A u \in Users : AnswerCovered(u)
=============================================================================
