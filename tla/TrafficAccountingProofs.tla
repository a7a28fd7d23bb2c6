----------------------- MODULE TrafficAccountingProofs ----------------------
(***************************************************************************)
(* For every set of usernames: accounting is well typed, nobody is ever    *)
(* billed a byte that was not carried, and while the core lives every byte *)
(* is billed exactly once.                                                 *)
(***************************************************************************)
EXTENDS TrafficAccounting, TLAPS

USE DEF vars, clientVars, coreVars, syncVars

-----------------------------------------------------------------------------
(* What the operators return. *)

\* A difference between two counters is never negative and never more than
\* the counter itself.
LEMMA DeltaRange ==
    ASSUME NEW now \in Nat, NEW before \in Nat
    PROVE  Delta(now, before) \in Nat /\ Delta(now, before) <= now
BY DEF Delta

\* Billing a state touches only the clients' usage and the counters.
LEMMA BilledState ==
    ASSUME NEW s \in State, current \in [Users -> Nat]
    PROVE  /\ Billed(s) \in State
           /\ Billed(s).clients = s.clients
           /\ \A u \in Users :
                /\ u \in s.clients =>
                     /\ Billed(s).used[u] = s.used[u] + Delta(current[u], s.counters[u])
                     /\ Billed(s).counters[u] = current[u]
                /\ u \notin s.clients =>
                     /\ Billed(s).used[u] = s.used[u]
                     /\ Billed(s).counters[u] = 0
<1>1. \A u \in Users : Delta(current[u], s.counters[u]) \in Nat
  BY DeltaRange DEF State
<1>2. \A u \in Users : s.used[u] + Delta(current[u], s.counters[u]) \in Nat
  BY <1>1 DEF State
<1>3. QED
  BY <1>2 DEF Billed, State

\* The empty state is a state.
LEMMA EmptyState == Empty \in State /\ Zero \in [Users -> Nat]
BY DEF Empty, Zero, State
-----------------------------------------------------------------------------
\* Type correctness, preserved by every step.
LEMMA TypeStep == TypeOK /\ [Next]_vars => TypeOK'
<1> SUFFICES ASSUME TypeOK, [Next]_vars
             PROVE  TypeOK'
  OBVIOUS
<1> USE EmptyState DEF TypeOK
<1>1. ASSUME NEW u \in Users, Carry(u)
      PROVE  TypeOK'
  BY <1>1 DEF Carry
<1>2. ASSUME NEW u \in Users, CreateClient(u)
      PROVE  TypeOK'
  BY <1>2 DEF CreateClient, Commit, State
<1>3. ASSUME NEW u \in Users, ResetClient(u)
      PROVE  TypeOK'
  BY <1>3 DEF ResetClient, Commit, State
<1>4. ASSUME NEW u \in Users, DeleteClient(u)
      PROVE  TypeOK'
  BY <1>4 DEF DeleteClient, Commit, State
<1>5. CASE CommitOther
  BY <1>5 DEF CommitOther, Commit
<1>6. CASE SyncBegin
  BY <1>6 DEF SyncBegin, State
<1>7. CASE SyncQuery
  BY <1>7 DEF SyncQuery
<1>8. CASE SyncIdle
  BY <1>8 DEF SyncIdle, SyncDone
<1>9. CASE SyncApply
  BY <1>9, BilledState DEF SyncApply, SyncDone
<1>10. CASE SyncFails
  BY <1>10 DEF SyncFails, SyncDone
<1>11. CASE MinutePasses
  BY <1>11 DEF MinutePasses
<1>12. CASE CoreRestart
  BY <1>12 DEF CoreRestart, State
<1>13. CASE PanelRestart
  BY <1>13 DEF PanelRestart, SyncDone
<1>14. CASE UNCHANGED vars
  BY <1>14
<1>15. QED
  BY <1>1, <1>2, <1>3, <1>4, <1>5, <1>6, <1>7, <1>8, <1>9, <1>10, <1>11, <1>12,
     <1>13, <1>14 DEF Next, SyncStep, ClientStep

\* The store, the query in flight and the history keep their types, for every
\* set of usernames: syncTraffic never bills a negative amount.
THEOREM TypeCorrect == Spec => []TypeOK
<1>1. Init => TypeOK
  BY EmptyState DEF Init, TypeOK, Zero
<1>2. QED
  BY <1>1, TypeStep, PTL DEF Spec
-----------------------------------------------------------------------------
(* Never overbilled. *)

\* A client's usage can only be put back to zero by its handlers: what covers
\* the old state covers the new one.
LEMMA HandlerKeepsCover ==
    ASSUME BillingInv, NEW new \in State,
           \A v \in Users : /\ new.used[v] = mem.used[v] \/ new.used[v] = 0
                            /\ v \notin new.clients => new.used[v] = 0
                            /\ new.counters[v] = mem.counters[v],
           mem' = new, disk' = new, UNCHANGED <<coreVars, syncVars>>, TypeOK'
    PROVE  BillingInv'
<1> USE DEF BillingInv, TypeOK, State
<1>1. \A v \in Users : Covered(mem, v)'
  BY DEF Covered, Before
<1>2. \A v \in Users : Covered(disk, v)'
  BY <1>1 DEF Covered, Before
<1>3. ASSUME sync' = "queried", NEW v \in Users
      PROVE  AnswerCovered(v)'
  <2>1. AnswerCovered(v)
    BY <1>3
  <2>2. Delta(current[v], mem.counters[v]) \in Nat
    BY DeltaRange
  <2>3. QED
    BY <2>1, <2>2 DEF AnswerCovered, Before, Delta
<1>4. QED
  BY <1>1, <1>2, <1>3

LEMMA BillingStep == BillingInv /\ [Next]_vars => BillingInv'
<1> SUFFICES ASSUME BillingInv, [Next]_vars
             PROVE  BillingInv'
  OBVIOUS
<1>0. TypeOK /\ TypeOK'
  BY TypeStep DEF BillingInv
<1>1. ASSUME NEW u \in Users, Carry(u)
      PROVE  BillingInv'
  <2>1. \A v \in Users : Before(v)' = Before(v) /\ core[v] <= core'[v]
    BY <1>0, <1>1 DEF Carry, Before, TypeOK
  <2>2. ASSUME NEW v \in Users, NEW s \in State, Covered(s, v)
        PROVE  s.used[v] <= Before(v)' + (IF s.counters[v] <= core'[v]
                                          THEN s.counters[v] ELSE 0)
    <3>1. /\ s.used[v] \in Nat /\ s.counters[v] \in Nat
          /\ core[v] \in Nat /\ core'[v] \in Nat /\ Before(v) \in Int
      BY <1>0 DEF TypeOK, State, Before
    <3>2. QED
      BY <2>1, <2>2, <3>1 DEF Covered
  <2>2a. \A v \in Users : Covered(mem, v)' /\ Covered(disk, v)'
    BY <1>0, <1>1, <2>2 DEF Carry, Covered, BillingInv, TypeOK
  <2>3. sync' = "queried" => \A v \in Users : AnswerCovered(v)'
    <3> SUFFICES ASSUME sync' = "queried", NEW v \in Users
                 PROVE  AnswerCovered(v)'
      OBVIOUS
    <3>1. AnswerCovered(v) /\ Delta(current[v], mem.counters[v]) \in Nat
      BY <1>0, <1>1, DeltaRange DEF Carry, BillingInv, TypeOK, State
    <3>2. QED
      BY <1>0, <1>1, <2>1, <3>1 DEF Carry, AnswerCovered, TypeOK, State, Before
  <2>4. QED
    BY <1>0, <1>1, <2>2a, <2>3 DEF Carry, BillingInv, TypeOK
<1>2. ASSUME NEW u \in Users, CreateClient(u)
      PROVE  BillingInv'
  <2>1. /\ mem' \in State /\ disk' = mem' /\ UNCHANGED <<coreVars, syncVars>>
        /\ \A v \in Users : mem'.counters[v] = mem.counters[v]
    BY <1>0, <1>2 DEF CreateClient, Commit, TypeOK, State
  <2>2. \A v \in Users : /\ mem'.used[v] = mem.used[v] \/ mem'.used[v] = 0
                         /\ v \notin mem'.clients => mem'.used[v] = 0
    BY <1>0, <1>2 DEF CreateClient, Commit, BillingInv, TypeOK, State
  <2>3. QED
    BY <1>0, <2>1, <2>2, HandlerKeepsCover
<1>3. ASSUME NEW u \in Users, ResetClient(u)
      PROVE  BillingInv'
  <2>1. /\ mem' \in State /\ disk' = mem' /\ UNCHANGED <<coreVars, syncVars>>
        /\ \A v \in Users : mem'.counters[v] = mem.counters[v]
    BY <1>0, <1>3 DEF ResetClient, Commit, TypeOK, State
  <2>2. \A v \in Users : /\ mem'.used[v] = mem.used[v] \/ mem'.used[v] = 0
                         /\ v \notin mem'.clients => mem'.used[v] = 0
    BY <1>0, <1>3 DEF ResetClient, Commit, BillingInv, TypeOK, State
  <2>3. QED
    BY <1>0, <2>1, <2>2, HandlerKeepsCover
<1>4. ASSUME NEW u \in Users, DeleteClient(u)
      PROVE  BillingInv'
  <2>1. /\ mem' \in State /\ disk' = mem' /\ UNCHANGED <<coreVars, syncVars>>
        /\ \A v \in Users : mem'.counters[v] = mem.counters[v]
    BY <1>0, <1>4 DEF DeleteClient, Commit, TypeOK, State
  <2>2. \A v \in Users : /\ mem'.used[v] = mem.used[v] \/ mem'.used[v] = 0
                         /\ v \notin mem'.clients => mem'.used[v] = 0
    BY <1>0, <1>4 DEF DeleteClient, Commit, BillingInv, TypeOK, State
  <2>3. QED
    BY <1>0, <2>1, <2>2, HandlerKeepsCover
<1>5. CASE CommitOther
  <2>1. mem \in State /\ mem' = mem /\ disk' = mem /\ UNCHANGED <<coreVars, syncVars>>
    BY <1>0, <1>5 DEF CommitOther, Commit, TypeOK
  <2>2. QED
    BY <1>0, <2>1, HandlerKeepsCover DEF BillingInv
<1>6. CASE SyncBegin
  BY <1>0, <1>6 DEF SyncBegin, BillingInv, Covered, Before
<1>7. CASE SyncQuery
  <2>1. ASSUME NEW v \in Users
        PROVE  AnswerCovered(v)'
    <3>1. Covered(mem, v) /\ core[v] <= carried[v]
      BY DEF BillingInv
    <3>2. CASE v \in seen
      BY <1>0, <1>7, <3>1, <3>2
         DEF SyncQuery, AnswerCovered, Covered, Before, Delta, TypeOK, State
    <3>3. CASE v \notin seen
      BY <1>0, <1>7, <3>1, <3>3
         DEF SyncQuery, AnswerCovered, Before, Delta, TypeOK, State, BillingInv
    <3>4. QED
      BY <3>2, <3>3
  <2>2. QED
    BY <1>0, <1>7, <2>1 DEF SyncQuery, BillingInv, Covered, Before
<1>8. CASE SyncIdle
  BY <1>0, <1>8 DEF SyncIdle, SyncDone, BillingInv, Covered, Before
<1>9. CASE SyncApply
  <2>1. /\ mem' = Billed(mem) /\ disk' \in {disk, mem'}
        /\ sync' = "idle" /\ UNCHANGED coreVars
    BY <1>9 DEF SyncApply, SyncDone
  <2>2. ASSUME NEW v \in Users
        PROVE  Covered(mem, v)' /\ (v \notin mem'.clients => mem'.used[v] = 0)
    <3>1. CASE v \in mem.clients
      <4>1. AnswerCovered(v)
        BY <1>9 DEF SyncApply, BillingInv
      <4>2. QED
        BY <1>0, <2>1, <3>1, <4>1, BilledState
           DEF AnswerCovered, Covered, Before, TypeOK
    <3>2. CASE v \notin mem.clients
      BY <1>0, <2>1, <3>2, BilledState DEF Covered, Before, TypeOK, BillingInv
    <3>3. QED
      BY <3>1, <3>2
  <2>3. \A v \in Users : Covered(disk, v)' /\ (v \notin disk'.clients => disk'.used[v] = 0)
    BY <2>1, <2>2 DEF BillingInv, Covered, Before
  <2>4. QED
    BY <1>0, <2>1, <2>2, <2>3 DEF BillingInv
<1>10. CASE SyncFails
  BY <1>0, <1>10 DEF SyncFails, SyncDone, BillingInv, Covered, Before
<1>11. CASE MinutePasses
  BY <1>0, <1>11 DEF MinutePasses, BillingInv, Covered, Before, AnswerCovered
<1>12. CASE CoreRestart
  <2>1. ASSUME NEW v \in Users
        PROVE  /\ core'[v] = 0 /\ Before(v)' = Before(v) + core[v]
               /\ core[v] \in Nat /\ Before(v) \in Nat
    BY <1>0, <1>12 DEF CoreRestart, Zero, Before, TypeOK, BillingInv
  <2>2. \A v \in Users : Covered(mem, v)' /\ Covered(disk, v)'
    BY <1>0, <1>12, <2>1 DEF CoreRestart, Covered, BillingInv, TypeOK, State
  <2>3. sync' = "queried" => \A v \in Users : AnswerCovered(v)'
    <3> SUFFICES ASSUME sync' = "queried", NEW v \in Users
                 PROVE  AnswerCovered(v)'
      OBVIOUS
    <3>1. AnswerCovered(v) /\ Delta(current[v], mem.counters[v]) \in Nat
      BY <1>0, <1>12, DeltaRange DEF CoreRestart, BillingInv, TypeOK, State
    <3>2. QED
      BY <1>0, <1>12, <2>1, <3>1 DEF CoreRestart, AnswerCovered, TypeOK, State
  <2>4. QED
    BY <1>0, <1>12, <2>1, <2>2, <2>3 DEF CoreRestart, BillingInv, TypeOK
<1>13. CASE PanelRestart
  BY <1>0, <1>13 DEF PanelRestart, SyncDone, BillingInv, Covered, Before
<1>14. CASE UNCHANGED vars
  BY <1>0, <1>14 DEF BillingInv, Covered, Before, AnswerCovered
<1>15. QED
  BY <1>1, <1>2, <1>3, <1>4, <1>5, <1>6, <1>7, <1>8, <1>9, <1>10, <1>11, <1>12,
     <1>13, <1>14 DEF Next, SyncStep, ClientStep

\* The invariant that a store, and the query in flight, never get ahead of the
\* cores that counted.
THEOREM BillingCorrect == Spec => []BillingInv
<1>1. Init => BillingInv
  <2>1. Init => TypeOK
    BY EmptyState DEF Init, TypeOK, Zero
  <2>2. QED
    BY <2>1 DEF Init, BillingInv, Covered, Before, Empty, Zero
<1>2. QED
  BY <1>1, BillingStep, PTL DEF Spec

\* No interleaving of syncs, core restarts, panel restarts from a state.json
\* that is behind, and client changes ever bills a byte that was not carried.
THEOREM NobodyOverbilled == Spec => []NeverOverbilled
<1>1. BillingInv => NeverOverbilled
  <2> SUFFICES ASSUME BillingInv, NEW u \in Users, NEW s \in {mem, disk}
               PROVE  s.used[u] + Delta(core[u], s.counters[u]) <= carried[u]
    BY DEF NeverOverbilled
  <2>1. Covered(s, u) /\ s \in State /\ core[u] \in Nat /\ carried[u] \in Nat
    BY DEF BillingInv, TypeOK
  <2>2. QED
    BY <2>1 DEF Covered, Before, Delta, State
<1>2. QED
  BY <1>1, BillingCorrect, PTL
-----------------------------------------------------------------------------
(* Exact while the core lives. *)

\* A store is exact about a username: the core's counter is at or ahead of the
\* stored one by what is still to be billed, and a username without a client
\* has neither usage nor a counter.
Exact(s, u) ==
    /\ s.counters[u] <= core[u]
    /\ s.used[u] + (core[u] - s.counters[u]) = carried[u]
    /\ u \notin s.clients => s.used[u] = 0 /\ s.counters[u] = 0

\* The answer in flight lies between the stored counter and the core's; a client
\* created since the Snapshot has no counter stored.
ExactInv ==
    /\ TypeOK
    /\ \A u \in undisturbed : Exact(mem, u) /\ Exact(disk, u)
    /\ sync = "began" => \A u \in undisturbed \ seen : mem.counters[u] = 0
    /\ sync = "queried" => \A u \in undisturbed :
                                mem.counters[u] <= current[u] /\ current[u] <= core[u]

LEMMA ExactStep == ExactInv /\ [Next]_vars => ExactInv'
<1> SUFFICES ASSUME ExactInv, [Next]_vars
             PROVE  ExactInv'
  OBVIOUS
<1>0. TypeOK /\ TypeOK'
  BY TypeStep DEF ExactInv
<1>1. ASSUME NEW u \in Users, Carry(u)
      PROVE  ExactInv'
  BY <1>0, <1>1 DEF Carry, ExactInv, Exact, TypeOK, State
<1>2. ASSUME NEW u \in Users, CreateClient(u)
      PROVE  ExactInv'
  BY <1>0, <1>2 DEF CreateClient, Commit, ExactInv, Exact, TypeOK, State
<1>3. ASSUME NEW u \in Users, ResetClient(u)
      PROVE  ExactInv'
  BY <1>0, <1>3 DEF ResetClient, Commit, ExactInv, Exact, TypeOK, State
<1>4. ASSUME NEW u \in Users, DeleteClient(u)
      PROVE  ExactInv'
  BY <1>0, <1>4 DEF DeleteClient, Commit, ExactInv, Exact, TypeOK, State
<1>5. CASE CommitOther
  BY <1>0, <1>5 DEF CommitOther, Commit, ExactInv, Exact
<1>6. CASE SyncBegin
  BY <1>0, <1>6 DEF SyncBegin, ExactInv, Exact
<1>7. CASE SyncQuery
  <2>1. ASSUME NEW v \in undisturbed
        PROVE  mem.counters[v] <= current'[v] /\ current'[v] <= core'[v]
    BY <1>0, <1>7, <2>1 DEF SyncQuery, ExactInv, Exact, TypeOK, State
  <2>2. QED
    BY <1>0, <1>7, <2>1 DEF SyncQuery, ExactInv, Exact
<1>8. CASE SyncIdle
  BY <1>0, <1>8 DEF SyncIdle, SyncDone, ExactInv, Exact
<1>9. CASE SyncApply
  <2>1. /\ mem' = Billed(mem) /\ disk' \in {disk, mem'}
        /\ sync' = "idle" /\ UNCHANGED <<core, carried, undisturbed>>
    BY <1>9 DEF SyncApply, SyncDone
  <2>2. ASSUME NEW v \in undisturbed
        PROVE  Exact(mem, v)'
    <3>1. /\ Exact(mem, v)
          /\ mem.counters[v] <= current[v] /\ current[v] <= core[v]
      BY <1>9, <2>2 DEF SyncApply, ExactInv
    <3>2. /\ v \in Users /\ mem \in State
          /\ core[v] \in Nat /\ current[v] \in Nat /\ carried[v] \in Nat
          /\ mem.counters[v] \in Nat /\ mem.used[v] \in Nat
      BY <1>0, <2>2 DEF TypeOK, State
    <3>3. Delta(current[v], mem.counters[v]) = current[v] - mem.counters[v]
      BY <3>1, <3>2 DEF Delta
    <3>4. CASE v \in mem.clients
      BY <1>0, <2>1, <3>1, <3>2, <3>3, <3>4, BilledState DEF Exact, TypeOK
    <3>5. CASE v \notin mem.clients
      BY <1>0, <2>1, <3>1, <3>2, <3>5, BilledState DEF Exact, TypeOK
    <3>6. QED
      BY <3>4, <3>5
  <2>3. \A v \in undisturbed : Exact(disk, v)'
    BY <2>1, <2>2 DEF ExactInv, Exact
  <2>4. QED
    BY <1>0, <2>1, <2>2, <2>3 DEF ExactInv
<1>10. CASE SyncFails
  BY <1>0, <1>10 DEF SyncFails, SyncDone, ExactInv, Exact
<1>11. CASE MinutePasses
  BY <1>0, <1>11 DEF MinutePasses, ExactInv, Exact
<1>12. CASE CoreRestart
  <2>1. ASSUME NEW v \in undisturbed'
        PROVE  v \in undisturbed /\ core[v] = 0 /\ core'[v] = 0
    BY <1>0, <1>12, <2>1 DEF CoreRestart, Zero, TypeOK
  <2>2. QED
    BY <1>0, <1>12, <2>1 DEF CoreRestart, ExactInv, Exact
<1>13. CASE PanelRestart
  BY <1>0, <1>13 DEF PanelRestart, SyncDone, ExactInv, Exact
<1>14. CASE UNCHANGED vars
  BY <1>0, <1>14 DEF ExactInv, Exact
<1>15. QED
  BY <1>1, <1>2, <1>3, <1>4, <1>5, <1>6, <1>7, <1>8, <1>9, <1>10, <1>11, <1>12,
     <1>13, <1>14 DEF Next, SyncStep, ClientStep

\* For a username no reset, deletion or lost counter met, every carried byte is
\* billed or still to be billed, once, in memory and in the state.json a crash
\* would leave: batching its writes loses nothing.
THEOREM NothingLostWhileCoreLives == Spec => []ExactWhileCoreLives
<1>1. Init => ExactInv
  <2>1. Init => TypeOK
    BY EmptyState DEF Init, TypeOK, Zero
  <2>2. QED
    BY <2>1 DEF Init, ExactInv, Exact, Empty, Zero
<1>2. ExactInv => ExactWhileCoreLives
  BY DEF ExactInv, Exact, ExactWhileCoreLives
<1>3. QED
  BY <1>1, <1>2, ExactStep, PTL DEF Spec
=============================================================================
