-------------------------- MODULE PanelRecordsProofs ---------------------------
(***************************************************************************)
(* The samples of the ping targets, the traffic of each day and the settings *)
(* with the relay: their invariants, for every number of targets, clients, *)
(* pages and days; the sums the traffic needs; and the types of all parts.  *)
(***************************************************************************)
EXTENDS PanelPartsProofs, SiteLedgerProofs, SequenceTheorems

-----------------------------------------------------------------------------
(* The history of the ping targets (network_quality.go) *)

LEMMA PingCounts == \A S : Ping!Cardinality(S) = Cardinality(S)
BY DEF Ping!Cardinality, Cardinality

\* Targets whose samples may be kept.
Known == Ping!TargetIds \cup removing \cup left

\* An id is given once, and a removed target keeps none.
IdInv ==
    /\ IsFiniteSet(targets)
    /\ \A t, u \in targets : t.id = u.id => t = u
    /\ removing \subseteq 1..ids /\ removing \cap Ping!TargetIds = {}

\* Whoever is pinged, or has samples, is known; what counts as taken is of the
\* targets there are; and memory that is no longer unsaved is in the file.
SampleInv ==
    /\ \A i \in Ping!Ids : Ping!InFlight(i) => i \in Known
    /\ \A s \in samples \cup disk : s.of \in Known
    /\ \A s \in taken : s.of \in Ping!TargetIds
    /\ ~unsaved => samples \subseteq disk
    /\ NothingForgotten

PingInv == Ping!TypeOK /\ IdInv /\ RoundsDoNotOverlap /\ SampleInv

\* A sample that arrives.
LEMMA AddSampleStep ==
  ASSUME PingInv, NEW i \in Ping!Ids, NEW by \in {"round", "first"}, NEW w \in BOOLEAN,
         Ping!InFlight(i), Ping!AddSample(i, by, w),
         round' \in [Ping!Ids -> Nat], \A j \in Ping!Ids : round'[j] <= round[j],
         first' \subseteq first
  PROVE  PingInv'
<1>1. PICK x \in Ping!Sample : x = [of |-> i, at |-> clock, by |-> by] /\ x.of = i
  <2>1. clock \in 0..MaxClock
    BY DEF PingInv, Ping!TypeOK
  <2>2. [of |-> i, at |-> clock, by |-> by] \in Ping!Sample
    BY <2>1 DEF Ping!Sample
  <2> QED
    BY <2>2
<1>2. /\ samples' = Ping!Fresh(samples \cup {x})
      /\ taken' = IF i \in Ping!TargetIds THEN Ping!Fresh(taken \cup {x}) ELSE Ping!Fresh(taken)
      /\ disk' = IF w THEN samples' ELSE disk
      /\ unsaved' = ~w
      /\ UNCHANGED <<clock, targets, ids, pingRunning, removing, left, lost>>
  BY <1>1 DEF Ping!AddSample, Ping!WriteFile, Ping!storeVars
<1>3. /\ samples' \subseteq samples \cup {x} /\ disk' \subseteq disk \cup samples'
      /\ taken' \subseteq taken \cup {x} /\ (taken' \subseteq taken \/ i \in Ping!TargetIds)
      /\ Ping!Fresh(taken)' \subseteq Ping!Fresh(taken) \cup {x}
      /\ Ping!Fresh(samples)' = samples'
      /\ Ping!Fresh(samples) \subseteq samples'
      /\ x \in Ping!Fresh(taken)' => x \in samples'
  BY <1>2 DEF Ping!Fresh
<1>4. Ping!TargetIds' = Ping!TargetIds /\ Known' = Known
  BY <1>2 DEF Ping!TargetIds, Known
<1>5. Ping!TypeOK'
  BY <1>1, <1>2, <1>3, PingCounts DEF PingInv, Ping!TypeOK
<1>6. IdInv'
  BY <1>2, <1>4 DEF PingInv, IdInv
<1>7. RoundsDoNotOverlap'
  BY <1>2 DEF PingInv, RoundsDoNotOverlap, Ping!RoundsDoNotOverlap, Ping!TypeOK
<1>8. \A j \in Ping!Ids : Ping!InFlight(j)' => j \in Known'
  BY <1>4 DEF PingInv, SampleInv, Ping!InFlight, Ping!TypeOK
<1>9. \A s \in samples' \cup disk' : s.of \in Known'
  BY <1>1, <1>3, <1>4 DEF PingInv, SampleInv
<1>10. \A s \in taken' : s.of \in Ping!TargetIds'
  BY <1>1, <1>3, <1>4 DEF PingInv, SampleInv
<1>11. ~unsaved' => samples' \subseteq disk'
  BY <1>2
<1>12. NothingForgotten'
  <2>1. Ping!Fresh(taken)' \subseteq samples' \cup lost'
    BY <1>2, <1>3 DEF PingInv, SampleInv, NothingForgotten, Ping!NothingForgotten, Ping!Fresh
  <2> QED
    BY <2>1 DEF NothingForgotten, Ping!NothingForgotten, Ping!Fresh
<1> QED
  BY <1>5, <1>6, <1>7, <1>8, <1>9, <1>10, <1>11, <1>12 DEF PingInv, SampleInv

LEMMA AddTargetStep ==
  ASSUME PingInv, NEW address \in Hosts, Ping!AddTarget(address)
  PROVE  PingInv'
<1>1. PICK t : t = [id |-> ids + 1, address |-> address]
  OBVIOUS
<1>2. /\ Cardinality(targets) < MaxTargets /\ ids < MaxIds
      /\ \A u \in targets : u.address # address
      /\ ids' = ids + 1 /\ targets' = targets \cup {t} /\ first' = first \cup {ids + 1}
      /\ UNCHANGED <<clock, samples, disk, pingRunning, round, removing, unsaved, left, taken, lost>>
  BY <1>1, PingCounts DEF Ping!AddTarget, Ping!history
<1>3. /\ ids \in Nat /\ MaxIds \in Nat /\ ids' \in 0..MaxIds /\ ids + 1 \in Ping!Ids
      /\ targets \subseteq [id : 1..ids, address : Hosts]
      /\ t.id = ids + 1 /\ t.address = address
  BY <1>1, <1>2, PingAssumption DEF PingInv, Ping!TypeOK, Ping!Ids
<1>4. targets' \subseteq [id : 1..ids', address : Hosts]
  <2>1. 1..ids \subseteq 1..ids' /\ ids + 1 \in 1..ids'
    BY <1>2, <1>3
  <2> QED
    BY <1>1, <1>2, <1>3, <2>1
<1>5. IsFiniteSet(targets') /\ Cardinality(targets') <= MaxTargets
  <2>1. /\ IsFiniteSet(targets') /\ Cardinality(targets) \in Nat
        /\ \/ Cardinality(targets') = Cardinality(targets)
           \/ Cardinality(targets') = Cardinality(targets) + 1
    BY <1>2, FS_AddElement, FS_CardinalityType DEF PingInv, IdInv
  <2> QED
    BY <1>2, <2>1, PingAssumption
<1>6. Ping!TypeOK'
  <2>1. \A u, v \in targets' : u.address = v.address => u = v
    BY <1>2, <1>3 DEF PingInv, Ping!TypeOK
  <2> QED
    BY <1>2, <1>3, <1>4, <1>5, <2>1, PingCounts DEF PingInv, Ping!TypeOK
<1>7. Ping!TargetIds' = Ping!TargetIds \cup {ids + 1} /\ Ping!TargetIds \subseteq 1..ids
  BY <1>2, <1>3 DEF Ping!TargetIds
<1>8. IdInv'
  <2>1. \A u \in targets : u.id # ids + 1
    BY <1>3
  <2>2. \A u, v \in targets' : u.id = v.id => u = v
    BY <1>2, <1>3, <2>1 DEF PingInv, IdInv
  <2>3. removing' \subseteq 1..ids' /\ removing' \cap Ping!TargetIds' = {}
    BY <1>2, <1>3, <1>7 DEF PingInv, IdInv
  <2> QED
    BY <1>5, <2>2, <2>3 DEF IdInv
<1>9. SampleInv'
  BY <1>2, <1>7 DEF PingInv, SampleInv, Known, Ping!InFlight, NothingForgotten,
     Ping!NothingForgotten, Ping!Fresh, Ping!Sample
<1> QED
  BY <1>2, <1>6, <1>8, <1>9 DEF PingInv, RoundsDoNotOverlap, Ping!RoundsDoNotOverlap

LEMMA RemoveTargetStep ==
  ASSUME PingInv, NEW t \in targets, Ping!RemoveTarget(t)
  PROVE  PingInv'
<1>1. /\ targets' = targets \ {t} /\ removing' = removing \cup {t.id}
      /\ taken' = {s \in taken : s.of # t.id}
      /\ UNCHANGED <<clock, ids, samples, disk, pingRunning, round, first, unsaved, left, lost>>
  BY DEF Ping!RemoveTarget, Ping!flight
<1>2. t.id \in 1..ids /\ t.id \in Ping!Ids
  BY PingAssumption DEF PingInv, Ping!TypeOK, Ping!Ids
<1>3. Ping!TargetIds' = Ping!TargetIds \ {t.id}
  BY <1>1 DEF PingInv, IdInv, Ping!TargetIds
<1>4. IsFiniteSet(targets') /\ Cardinality(targets') <= MaxTargets
  <2>1. /\ IsFiniteSet(targets') /\ Cardinality(targets) \in Nat /\ Cardinality(targets') \in Nat
        /\ Cardinality(targets') <= Cardinality(targets)
    BY <1>1, FS_Subset, FS_CardinalityType DEF PingInv, IdInv
  <2>2. Cardinality(targets) <= MaxTargets
    BY PingCounts DEF PingInv, Ping!TypeOK
  <2> QED
    BY <2>1, <2>2, PingAssumption
<1>5. Ping!TypeOK'
  BY <1>1, <1>2, <1>4, PingCounts DEF PingInv, Ping!TypeOK
<1>6. IdInv'
  BY <1>1, <1>2, <1>3, <1>4 DEF PingInv, IdInv
<1>7. SampleInv'
  BY <1>1, <1>3 DEF PingInv, SampleInv, Known, Ping!InFlight, NothingForgotten,
     Ping!NothingForgotten, Ping!Fresh
<1> QED
  BY <1>1, <1>5, <1>6, <1>7 DEF PingInv, RoundsDoNotOverlap, Ping!RoundsDoNotOverlap

LEMMA RemoveSamplesStep ==
  ASSUME PingInv, NEW i \in Ping!Ids, NEW w \in BOOLEAN, Ping!RemoveSamples(i, w)
  PROVE  PingInv'
<1>1. /\ i \in removing /\ removing' = removing \ {i}
      /\ samples' = {s \in samples : s.of # i}
      /\ disk' = IF w THEN samples' ELSE disk
      /\ unsaved' = ~w
      /\ left' = IF Ping!InFlight(i) \/ ~w THEN left \cup {i} ELSE left
      /\ UNCHANGED <<clock, targets, ids, pingRunning, round, first, taken, lost>>
  BY DEF Ping!RemoveSamples, Ping!WriteFile, Ping!storeVars, Ping!flight
<1>2. Ping!TargetIds' = Ping!TargetIds /\ i \notin Ping!TargetIds
  BY <1>1 DEF PingInv, IdInv, Ping!TargetIds
<1>3. Ping!TypeOK'
  BY <1>1, PingCounts DEF PingInv, Ping!TypeOK
<1>4. IdInv'
  BY <1>1, <1>2 DEF PingInv, IdInv
<1>5. Known \subseteq Known' \cup {i} /\ (i \notin Known' => w /\ ~Ping!InFlight(i))
  BY <1>1, <1>2 DEF Known
<1>6. \A j \in Ping!Ids : Ping!InFlight(j)' => j \in Known'
  BY <1>1, <1>5 DEF PingInv, SampleInv, Ping!InFlight
<1>7. \A s \in samples' \cup disk' : s.of \in Known'
  BY <1>1, <1>5 DEF PingInv, SampleInv
<1>8. NothingForgotten'
  BY <1>1, <1>2 DEF PingInv, SampleInv, NothingForgotten, Ping!NothingForgotten, Ping!Fresh
<1>9. SampleInv'
  BY <1>1, <1>2, <1>6, <1>7, <1>8 DEF PingInv, SampleInv
<1> QED
  BY <1>1, <1>3, <1>4, <1>9 DEF PingInv, RoundsDoNotOverlap, Ping!RoundsDoNotOverlap

LEMMA PingStep ==
  ASSUME PingInv, [Ping!Next]_pingVars
  PROVE  PingInv'
<1>1. CASE Ping!Tick
  <2>1. /\ clock' = clock + 1 /\ clock' \in 0..MaxClock /\ clock \in Int /\ Ttl \in Nat
        /\ UNCHANGED <<targets, ids, samples, disk, pingRunning, round, first, removing, unsaved,
                       left, taken, lost>>
    BY <1>1, PingAssumption DEF Ping!Tick, Ping!storeVars, Ping!flight, Ping!history, PingInv,
       Ping!TypeOK
  <2>2. Ping!TypeOK'
    BY <2>1, PingCounts DEF PingInv, Ping!TypeOK
  <2>3. Ping!Fresh(taken)' \subseteq Ping!Fresh(taken)
    <3>1. \A s \in taken : s.at \in Int
      BY PingAssumption DEF PingInv, Ping!TypeOK, Ping!Sample
    <3> QED
      BY <2>1, <3>1 DEF Ping!Fresh
  <2>4. NothingForgotten'
    BY <2>1, <2>3 DEF PingInv, SampleInv, NothingForgotten, Ping!NothingForgotten, Ping!Fresh
  <2> QED
    BY <2>1, <2>2, <2>4 DEF PingInv, IdInv, Ping!TargetIds, RoundsDoNotOverlap,
       Ping!RoundsDoNotOverlap, SampleInv, Known, Ping!InFlight
<1>2. ASSUME NEW address \in Hosts, Ping!AddTarget(address)
      PROVE  PingInv'
  BY <1>2, AddTargetStep
<1>3. ASSUME NEW t \in targets, Ping!RemoveTarget(t)
      PROVE  PingInv'
  BY <1>3, RemoveTargetStep
<1>4. ASSUME NEW i \in Ping!Ids, NEW w \in BOOLEAN, Ping!RemoveSamples(i, w)
      PROVE  PingInv'
  BY <1>4, RemoveSamplesStep
<1>5. ASSUME NEW i \in Ping!Ids, NEW w \in BOOLEAN, Ping!PingEnds(i, w)
      PROVE  PingInv'
  <2>1. CASE /\ round[i] > 0 /\ round' = [round EXCEPT ![i] = @ - 1]
             /\ Ping!AddSample(i, "round", w)
             /\ UNCHANGED first
    <3>1. round \in [Ping!Ids -> Nat]
      BY DEF PingInv, Ping!TypeOK
    <3>2. /\ round' \in [Ping!Ids -> Nat] /\ \A j \in Ping!Ids : round'[j] <= round[j]
          /\ Ping!InFlight(i) /\ first' \subseteq first
      BY <2>1, <3>1 DEF Ping!InFlight
    <3> QED
      BY <2>1, <3>2, AddSampleStep
  <2>2. CASE /\ i \in first /\ first' = first \ {i}
             /\ Ping!AddSample(i, "first", w)
             /\ UNCHANGED round
    <3>1. /\ round' \in [Ping!Ids -> Nat] /\ \A j \in Ping!Ids : round'[j] <= round[j]
          /\ Ping!InFlight(i) /\ first' \subseteq first
      BY <2>2 DEF Ping!InFlight, PingInv, Ping!TypeOK
    <3> QED
      BY <2>2, <3>1, AddSampleStep
  <2> QED
    BY <1>5, <2>1, <2>2 DEF Ping!PingEnds
<1>6. CASE Ping!BeginRound
  <2>1. /\ ~pingRunning /\ pingRunning' = TRUE
        /\ round' = [i \in Ping!Ids |-> IF i \in Ping!TargetIds THEN round[i] + 1 ELSE round[i]]
        /\ UNCHANGED <<clock, targets, ids, samples, disk, first, removing, unsaved, left, taken, lost>>
    BY <1>6 DEF Ping!BeginRound, Ping!storeVars, Ping!history
  <2>2. \A i \in Ping!Ids : round[i] = 0
    BY <2>1 DEF PingInv, RoundsDoNotOverlap, Ping!RoundsDoNotOverlap, Ping!TypeOK
  <2>3. round' \in [Ping!Ids -> Nat] /\ \A i \in Ping!Ids : round'[i] <= 1
    BY <2>1, <2>2
  <2>4. Ping!TypeOK'
    BY <2>1, <2>3, PingCounts DEF PingInv, Ping!TypeOK
  <2>5. \A i \in Ping!Ids : Ping!InFlight(i)' => Ping!InFlight(i) \/ i \in Ping!TargetIds
    BY <2>1, <2>2 DEF Ping!InFlight
  <2>6. RoundsDoNotOverlap'
    BY <2>1, <2>3 DEF RoundsDoNotOverlap, Ping!RoundsDoNotOverlap
  <2>7. SampleInv'
    BY <2>1, <2>5 DEF PingInv, SampleInv, Known, Ping!TargetIds, NothingForgotten,
       Ping!NothingForgotten, Ping!Fresh
  <2> QED
    BY <2>1, <2>4, <2>6, <2>7 DEF PingInv, IdInv, Ping!TargetIds
<1>7. CASE Ping!EndRound
  <2>1. /\ pingRunning' = FALSE /\ \A i \in Ping!Ids : round[i] = 0
        /\ UNCHANGED <<clock, targets, ids, samples, disk, round, first, removing, unsaved,
                       left, taken, lost>>
    BY <1>7 DEF Ping!EndRound, Ping!storeVars, Ping!history
  <2>2. Ping!TypeOK' /\ RoundsDoNotOverlap'
    <3>1. Ping!TypeOK'
      BY <2>1, PingCounts DEF PingInv, Ping!TypeOK
    <3>2. RoundsDoNotOverlap'
      BY <2>1 DEF RoundsDoNotOverlap, Ping!RoundsDoNotOverlap
    <3> QED
      BY <3>1, <3>2
  <2> QED
    BY <2>1, <2>2 DEF PingInv, IdInv, Ping!TargetIds, SampleInv, Known, Ping!InFlight,
       NothingForgotten, Ping!NothingForgotten, Ping!Fresh
<1>8. ASSUME NEW parses \in BOOLEAN, Ping!Restart(parses) PROVE PingInv'
  <2>1. /\ disk' = IF parses THEN disk ELSE {}
        /\ samples' = Ping!Fresh(disk') /\ pingRunning' = FALSE
        /\ round' = [i \in Ping!Ids |-> 0] /\ first' = {}
        /\ removing' = {} /\ left' = left \cup removing
        /\ lost' = IF unsaved \/ ~parses THEN lost \cup (samples \ disk') ELSE lost
        /\ unsaved' = FALSE
        /\ UNCHANGED <<clock, targets, ids, taken>>
    BY <1>8 DEF Ping!Restart, Ping!storeVars
  <2>2. Ping!TypeOK'
    BY <2>1, PingCounts DEF PingInv, Ping!TypeOK, Ping!Fresh
  <2>3. Ping!TargetIds' = Ping!TargetIds /\ Known' = Known
    BY <2>1 DEF Ping!TargetIds, Known
  <2>4. NothingForgotten'
    BY <2>1 DEF PingInv, SampleInv, NothingForgotten, Ping!NothingForgotten, Ping!Fresh
  <2>5. SampleInv'
    BY <2>1, <2>3, <2>4 DEF PingInv, SampleInv, Ping!InFlight, Ping!Fresh
  <2>6. RoundsDoNotOverlap'
    BY <2>1 DEF RoundsDoNotOverlap, Ping!RoundsDoNotOverlap
  <2> QED
    BY <2>1, <2>2, <2>3, <2>5, <2>6 DEF PingInv, IdInv
<1>9. CASE UNCHANGED pingVars
  BY <1>9 DEF pingVars, PingInv, Ping!TypeOK, IdInv, Ping!TargetIds, RoundsDoNotOverlap,
     Ping!RoundsDoNotOverlap, SampleInv, Known, Ping!InFlight, NothingForgotten,
     Ping!NothingForgotten, Ping!Fresh
<1> QED
  BY <1>1, <1>2, <1>3, <1>4, <1>5, <1>6, <1>7, <1>8, <1>9 DEF Ping!Next

\* The history of the ping targets (pingManager): ids are given once, a removed
\* target's samples are all in the hands of its removal, and what memory lacks
\* was lost with a write that failed.
THEOREM PingCorrect == PartsSpec => []PingInv
<1>1. ASSUME PartsInit PROVE PingInv
  <2>1. Cardinality({}) = 0 /\ IsFiniteSet({})
    BY FS_EmptySet
  <2>2. Ping!Init
    BY <1>1, PartsBegin
  <2>3. Ping!TypeOK
    <3>1. MaxClock \in Nat /\ MaxIds \in Nat /\ MaxTargets \in Nat
      BY PingAssumption
    <3>2. 0 \in 0..MaxClock /\ 0 \in 0..MaxIds /\ 0 <= MaxTargets
      BY <3>1
    <3>3. [i \in Ping!Ids |-> 0] \in [Ping!Ids -> Nat]
      OBVIOUS
    <3> QED
      BY <2>1, <2>2, <3>2, <3>3, PingCounts DEF Ping!Init, Ping!TypeOK
  <2> QED
    BY <2>1, <2>2, <2>3 DEF Ping!Init, PingInv, IdInv, Ping!TargetIds, RoundsDoNotOverlap,
       Ping!RoundsDoNotOverlap, SampleInv, Known, Ping!InFlight, NothingForgotten,
       Ping!NothingForgotten, Ping!Fresh
<1>2. PingInv /\ [PartsNext]_partVars => PingInv'
  BY PartsStep, PingStep
<1> QED
  BY <1>1, <1>2, PTL DEF PartsSpec

\* Rounds of pings never overlap: the flag is released only when all pings of a
\* round are in.
THEOREM RoundsApart == PartsSpec => []RoundsDoNotOverlap
<1>1. PingInv => RoundsDoNotOverlap
  BY DEF PingInv
<1> QED
  BY PingCorrect, <1>1, PTL

\* Samples of targets that are gone are shown or kept in the file only for the
\* reasons named: a removal under way, a ping in flight then, a failed write.
THEOREM RemovedForgotten == PartsSpec => []RemovedTargetsForgotten
<1>1. PingInv => RemovedTargetsForgotten
  BY DEF PingInv, SampleInv, Known, RemovedTargetsForgotten, Ping!RemovedTargetsForgotten,
     Ping!Shown, Ping!Fresh
<1> QED
  BY PingCorrect, <1>1, PTL

\* Every sample of the last day of a target there is, is in memory, or was in no
\* file when the panel stopped.
THEOREM SamplesKept == PartsSpec => []NothingForgotten
<1>1. PingInv => NothingForgotten
  BY DEF PingInv, SampleInv
<1> QED
  BY PingCorrect, <1>1, PTL

-----------------------------------------------------------------------------
(* The traffic of each day (traffic.go, app.go) *)

\* A list of rows, whatever their bytes.
Rows(rows) == \E S : rows \in Seq(S) /\ \A row \in S : row.date \in Int

\* Its days ascend and end before the day d.
OneADay(rows, d) == Rows(rows) /\ Daily!Ascending(rows, d)

LEMMA NoRows == ASSUME NEW d PROVE OneADay(<<>>, d)
<1>1. \A row \in {} : row.date \in Int
  OBVIOUS
<1>2. <<>> \in Seq({}) /\ Len(<<>>) = 0
  BY EmptySeq
<1>3. 2..Len(<<>>) = {}
  BY <1>2
<1> QED
  BY <1>1, <1>2, <1>3 DEF OneADay, Rows, Daily!Ascending

LEMMA EarlierStill ==
  ASSUME NEW rows, NEW d \in Int, NEW e \in Int, d <= e, OneADay(rows, d)
  PROVE  OneADay(rows, e)
<1>1. PICK S : rows \in Seq(S) /\ \A row \in S : row.date \in Int
  BY DEF OneADay, Rows
<1>2. ASSUME rows # <<>> PROVE rows[Len(rows)].date < e
  <2>1. Len(rows) \in 1..Len(rows)
    BY <1>1, <1>2, EmptySeq
  <2>2. rows[Len(rows)] \in S
    BY <1>1, <2>1, ElementOfSeq
  <2>3. PICK n \in Int : n = rows[Len(rows)].date
    BY <1>1, <2>2
  <2>4. n < d
    BY <1>2, <2>3 DEF OneADay, Daily!Ascending
  <2> QED
    BY <2>3, <2>4
<1> QED
  BY <1>2 DEF OneADay, Daily!Ascending

\* The row of a day that ended goes behind those of earlier days.
LEMMA AppendedRow ==
  ASSUME NEW rows, NEW row, NEW d \in Int, NEW e \in Int, NEW most \in Nat \ {0},
         row.date = d, OneADay(rows, d), d < e
  PROVE  OneADay(Daily!Appended(rows, row, most), e)
<1>1. PICK S : rows \in Seq(S) /\ \A r \in S : r.date \in Int
  BY DEF OneADay, Rows
<1>2. PICK T : T = S \cup {row}
  OBVIOUS
<1>3. row \in T /\ \A r \in T : r.date \in Int
  BY <1>1, <1>2
<1>4. rows \in Seq(T) /\ Len(rows) \in Nat
  BY <1>1, <1>2, SeqMonotonic, LenProperties
<1>5. PICK all : all = Append(rows, row)
  OBVIOUS
<1>6. /\ all \in Seq(T) /\ Len(all) = Len(rows) + 1
      /\ all[Len(all)] = row
      /\ \A i \in 1..Len(rows) : all[i] = rows[i]
  BY <1>3, <1>4, <1>5, AppendProperties
<1>7. ASSUME NEW i \in 2..Len(all) PROVE all[i - 1].date < all[i].date
  <2>1. CASE i = Len(all)
    <3>1. i - 1 = Len(rows) /\ i - 1 \in 1..Len(rows)
      BY <1>4, <1>6, <2>1
    <3>2. rows # <<>>
      BY <3>1, <1>4, EmptySeq
    <3>3. all[i - 1] = rows[Len(rows)] /\ all[i] = row
      BY <1>6, <2>1, <3>1
    <3> QED
      BY <3>2, <3>3 DEF OneADay, Daily!Ascending
  <2>2. CASE i # Len(all)
    <3>1. i \in 2..Len(rows) /\ i \in 1..Len(rows) /\ i - 1 \in 1..Len(rows)
      BY <1>4, <1>6, <2>2
    <3> QED
      BY <1>6, <3>1 DEF OneADay, Daily!Ascending
  <2> QED
    BY <2>1, <2>2
<1>8. PICK k \in 1..Len(all) : k = IF Len(all) > most THEN Len(all) - most + 1 ELSE 1
  <2>1. Len(all) \in Nat \ {0}
    BY <1>4, <1>6
  <2>2. CASE Len(all) > most
    <3>1. Len(all) - most + 1 \in 1..Len(all)
      BY <2>1, <2>2
    <3> QED
      BY <2>2, <3>1
  <2>3. CASE ~(Len(all) > most)
    BY <2>1, <2>3
  <2> QED
    BY <2>2, <2>3
<1>9. PICK kept : kept = SubSeq(all, k, Len(all))
  OBVIOUS
<1>10. /\ kept \in Seq(T) /\ Len(kept) = Len(all) - k + 1
       /\ \A i \in 1..Len(kept) : kept[i] = all[k + i - 1]
  <2>1. k \in Int /\ Len(all) \in Int /\ k <= Len(all)
    BY <1>4, <1>6
  <2>2. ASSUME NEW i \in k..Len(all) PROVE all[i] \in T
    <3>1. i \in 1..Len(all)
      BY <2>1
    <3> QED
      BY <1>6, <3>1, ElementOfSeq
  <2>3. /\ kept \in Seq(T) /\ Len(kept) = IF k <= Len(all) THEN Len(all) - k + 1 ELSE 0
        /\ \A i \in 1..(Len(all) - k + 1) : kept[i] = all[k + i - 1]
    BY <1>9, <2>1, <2>2, SubSeqProperties
  <2> QED
    BY <2>1, <2>3
<1>11. ASSUME NEW i \in 2..Len(kept) PROVE kept[i - 1].date < kept[i].date
  <2>0. PICK m \in Nat, l \in Int : m = Len(all) /\ l = Len(kept) /\ l = m - k + 1
    BY <1>4, <1>6, <1>10
  <2>1. /\ i \in 1..Len(kept) /\ i - 1 \in 1..Len(kept)
        /\ k + i - 1 \in 2..Len(all) /\ k + (i - 1) - 1 = (k + i - 1) - 1
    BY <2>0
  <2>2. kept[i] = all[k + i - 1] /\ kept[i - 1] = all[(k + i - 1) - 1]
    BY <1>10, <2>1
  <2> QED
    BY <1>7, <2>1, <2>2
<1>12. kept[Len(kept)].date < e
  <2>1. Len(kept) \in 1..Len(kept) /\ k + Len(kept) - 1 = Len(all)
    BY <1>4, <1>6, <1>10
  <2>2. kept[Len(kept)] = row
    BY <1>6, <1>10, <2>1
  <2> QED
    BY <2>2
<1>13. kept = Daily!Appended(rows, row, most)
  BY <1>5, <1>8, <1>9 DEF Daily!Appended
<1>14. OneADay(kept, e)
  BY <1>3, <1>10, <1>11, <1>12 DEF OneADay, Rows, Daily!Ascending
<1> QED
  BY <1>13, <1>14

\* The records of the report are of their form, whatever numbers they hold: the
\* sums in them take no part in which day a row is of.
IsClient(u) == u = [used |-> u.used, date |-> u.date, bytes |-> u.bytes, rows |-> u.rows,
                    all |-> u.all, gone |-> u.gone]

IsStore(st) ==
    /\ st = [clients |-> st.clients, date |-> st.date, anchor |-> st.anchor, rows |-> st.rows,
             billed |-> st.billed, gone |-> st.gone, touched |-> st.touched]
    /\ st.clients = [c \in DOMAIN st.clients |-> st.clients[c]]

\* A client whose day a sync can only leave behind.
ClientInv(c, u) ==
    /\ IsClient(u)
    /\ c \notin crossed => /\ u.date \in 1..day
                           /\ OneADay(u.rows, u.date)
                           /\ syncDay # 0 => u.date <= syncDay

StoreInv(st) ==
    /\ IsStore(st)
    /\ st.date \in 0..day
    /\ OneADay(st.rows, st.date)
    /\ \A c \in DOMAIN st.clients : ClientInv(c, st.clients[c])

DailyInv ==
    /\ day \in 1..LastDay /\ syncDay \in 0..day
    /\ totalRead # -1 => readDay \in 1..day /\ mem.date < readDay
    /\ DOMAIN saved.clients = DOMAIN mem.clients
    /\ StoreInv(mem) /\ StoreInv(saved)

\* A client is billed, and if its day is another, that day ends.
LEMMA BilledClient ==
  ASSUME NEW c, NEW u, NEW n, NEW v, v = Daily!Charged(Daily!Rolled(u), n),
         ClientInv(c, u), syncDay # 0, day' = day, syncDay' = 0, crossed' = crossed,
         day \in Nat, syncDay \in 0..day
  PROVE  ClientInv(c, v)'
<1>1. PICK r : r = Daily!Rolled(u)
  OBVIOUS
<1>2. v = Daily!Charged(r, n)
  BY <1>1
<1>3. IsClient(r) /\ r.date = syncDay
  BY <1>1 DEF Daily!Rolled, ClientInv, IsClient
<1>4. IsClient(v) /\ v.date = syncDay /\ v.rows = r.rows
  BY <1>2, <1>3 DEF Daily!Charged, IsClient
<1>5. ASSUME c \notin crossed PROVE OneADay(r.rows, syncDay)
  <2>1. CASE u.date = syncDay
    BY <1>1, <1>5, <2>1 DEF Daily!Rolled, ClientInv
  <2>2. CASE u.date # syncDay
    <3>1. r.rows = Daily!Appended(u.rows, Daily!Row(u.date, u.bytes), MaxDailyRows)
      BY <1>1, <2>2 DEF Daily!Rolled, ClientInv, IsClient
    <3>2. Daily!Row(u.date, u.bytes).date = u.date
      BY DEF Daily!Row
    <3>3. u.date \in Int /\ syncDay \in Int /\ u.date < syncDay /\ OneADay(u.rows, u.date)
      BY <1>5, <2>2 DEF ClientInv
    <3> QED
      BY <3>1, <3>2, <3>3, AppendedRow, DailyAssumption
  <2> QED
    BY <2>1, <2>2
<1> QED
  BY <1>4, <1>5 DEF ClientInv, IsClient, OneADay, Rows, Daily!Ascending

\* Clients and stores that stay as they are, while the days pass.
LEMMA SameClient ==
  ASSUME NEW c, NEW u, ClientInv(c, u), day \in Nat, day' \in Nat, day <= day',
         syncDay' \in {0, syncDay, day}, c \in crossed => c \in crossed'
  PROVE  ClientInv(c, u)'
BY DEF ClientInv, IsClient, OneADay, Rows, Daily!Ascending

LEMMA SameStore ==
  ASSUME NEW st, StoreInv(st), day \in Nat, day' \in Nat, day <= day',
         syncDay' \in {0, syncDay, day},
         \A c \in DOMAIN st.clients : c \in crossed => c \in crossed'
  PROVE  StoreInv(st)'
<1>1. ASSUME NEW c \in DOMAIN st.clients PROVE ClientInv(c, st.clients[c])'
  <2>1. PICK u : u = st.clients[c]
    OBVIOUS
  <2>2. ClientInv(c, u)
    BY <2>1 DEF StoreInv
  <2>3. ClientInv(c, u)'
    BY <2>2, SameClient
  <2> QED
    BY <2>1, <2>3
<1> QED
  BY <1>1 DEF StoreInv, IsStore, OneADay, Rows, Daily!Ascending

LEMMA ClientsChange ==
  ASSUME DailyInv, UNCHANGED <<day, totalRead, readDay>>, syncDay' \in {0, syncDay},
         NEW clients, NEW billed, NEW touched,
         mem' = [mem EXCEPT !.clients = clients, !.billed = billed, !.touched = touched],
         clients = [c \in DOMAIN clients |-> clients[c]],
         \A c \in DOMAIN clients : ClientInv(c, clients[c])',
         \/ saved' = mem'
         \/ saved' = saved /\ DOMAIN clients = DOMAIN mem.clients /\ crossed' = crossed
  PROVE  DailyInv'
<1>1. PICK st, new : st = mem /\ new = mem'
  OBVIOUS
<1>2. StoreInv(st)
  BY <1>1 DEF DailyInv
<1>3. /\ new = [st EXCEPT !.clients = clients, !.billed = billed, !.touched = touched]
      /\ day' = day
  BY <1>1
<1>4. StoreInv(new)' /\ new.clients = clients /\ new.date = st.date
  <2>1. /\ new = [clients |-> clients, date |-> st.date, anchor |-> st.anchor,
                 rows |-> st.rows, billed |-> billed, gone |-> st.gone, touched |-> touched]
        /\ st.date \in 0..day /\ OneADay(st.rows, st.date)
    BY <1>2, <1>3 DEF StoreInv, IsStore
  <2>2. /\ new.clients = clients /\ new.date = st.date /\ new.rows = st.rows
        /\ IsStore(new)
    BY <2>1 DEF IsStore
  <2> QED
    BY <1>3, <2>1, <2>2 DEF StoreInv, IsStore, OneADay, Rows, Daily!Ascending
<1>5. ASSUME saved' = saved, DOMAIN clients = DOMAIN mem.clients, crossed' = crossed
      PROVE  StoreInv(saved)' /\ DOMAIN saved.clients = DOMAIN clients
  <2>1. PICK old : old = saved
    OBVIOUS
  <2>2. StoreInv(old)
    BY <2>1 DEF DailyInv
  <2>3. StoreInv(old)'
    BY <1>5, <2>2, SameStore DEF DailyInv
  <2> QED
    BY <1>5, <2>1, <2>3 DEF DailyInv, StoreInv
<1>6. StoreInv(mem)' /\ StoreInv(saved)' /\ DOMAIN saved'.clients = DOMAIN mem'.clients
  BY <1>1, <1>4, <1>5 DEF StoreInv
<1>7. mem'.date = mem.date
  BY <1>1, <1>4
<1> QED
  BY <1>6, <1>7 DEF DailyInv

LEMMA CreateStep ==
  ASSUME DailyInv, NEW c \in Clients, Daily!Create(c)
  PROVE  DailyInv'
<1>1. PICK clients : clients = [x \in DOMAIN mem.clients \cup {c} |->
                                  IF x = c THEN Daily!NewClient(day) ELSE mem.clients[x]]
  OBVIOUS
<1>2. mem' = [mem EXCEPT !.clients = clients, !.billed = mem.billed, !.touched = mem.touched]
  <2>1. mem' = [mem EXCEPT !.clients = clients]
    BY <1>1 DEF Daily!Create, Daily!Commit, Daily!Present
  <2> QED
    BY <2>1 DEF DailyInv, StoreInv, IsStore
<1>3. ASSUME NEW x \in DOMAIN clients PROVE ClientInv(x, clients[x])'
  <2>1. /\ day \in Nat \ {0} /\ day' = day /\ syncDay' = syncDay
        /\ crossed' = IF syncDay \notin {0, day} THEN crossed \cup {c} ELSE crossed
    BY DailyAssumption DEF DailyInv, Daily!Create, Daily!recording
  <2>2. CASE x = c
    <3>1. PICK u : u = Daily!NewClient(day)
      OBVIOUS
    <3>2. IsClient(u) /\ u.date = day /\ u.rows = <<>>
      BY <3>1 DEF Daily!NewClient, IsClient
    <3>3. OneADay(u.rows, u.date)
      BY <3>2, NoRows
    <3>4. x \notin crossed' => u.date \in 1..day' /\ (syncDay' # 0 => u.date <= syncDay')
      BY <2>1, <2>2, <3>2
    <3>5. ClientInv(x, u)'
      BY <3>2, <3>3, <3>4 DEF ClientInv, IsClient, OneADay, Rows, Daily!Ascending
    <3> QED
      BY <1>1, <2>2, <3>1, <3>5
  <2>3. CASE x # c
    <3>1. PICK u : u = mem.clients[x]
      OBVIOUS
    <3>2. ClientInv(x, u) /\ clients[x] = u
      BY <1>1, <2>3, <3>1 DEF DailyInv, StoreInv
    <3>3. ClientInv(x, u)'
      BY <2>1, <3>2, SameClient
    <3> QED
      BY <3>2, <3>3
  <2> QED
    BY <2>2, <2>3
<1>4. /\ UNCHANGED <<day, totalRead, readDay>> /\ syncDay' = syncDay /\ saved' = mem'
      /\ clients = [x \in DOMAIN clients |-> clients[x]]
  BY <1>1 DEF Daily!Create, Daily!Commit, Daily!recording
<1> QED
  BY <1>2, <1>3, <1>4, ClientsChange

LEMMA DeleteStep ==
  ASSUME DailyInv, NEW c \in Clients, Daily!Delete(c)
  PROVE  DailyInv'
<1>1. PICK clients : clients = [x \in DOMAIN mem.clients \ {c} |-> mem.clients[x]]
  OBVIOUS
<1>2. PICK touched : touched = (mem.touched \/ mem.clients[c].used > 0)
  OBVIOUS
<1>3. mem' = [mem EXCEPT !.clients = clients, !.billed = mem.billed, !.touched = touched]
  <2>1. mem' = [mem EXCEPT !.clients = clients, !.touched = touched]
    BY <1>1, <1>2 DEF Daily!Delete, Daily!Commit, Daily!Present
  <2> QED
    BY <2>1 DEF DailyInv, StoreInv, IsStore
<1>4. ASSUME NEW x \in DOMAIN clients PROVE ClientInv(x, clients[x])'
  <2>1. PICK u : u = mem.clients[x]
    OBVIOUS
  <2>2. ClientInv(x, u) /\ clients[x] = u /\ x # c
    BY <1>1, <2>1 DEF DailyInv, StoreInv
  <2>3. ClientInv(x, u)'
    BY <2>2 DEF DailyInv, Daily!Delete, Daily!recording, ClientInv, IsClient, OneADay, Rows,
       Daily!Ascending
  <2> QED
    BY <2>2, <2>3
<1>5. /\ UNCHANGED <<day, totalRead, readDay>> /\ syncDay' = syncDay /\ saved' = mem'
      /\ clients = [x \in DOMAIN clients |-> clients[x]]
  BY <1>1 DEF Daily!Delete, Daily!Commit, Daily!recording
<1> QED
  BY <1>3, <1>4, <1>5, ClientsChange

LEMMA ResetStep ==
  ASSUME DailyInv, NEW c \in Clients, Daily!Reset(c)
  PROVE  DailyInv'
<1>1. PICK clients : clients = [mem.clients EXCEPT ![c] = [@ EXCEPT !.used = 0]]
  OBVIOUS
<1>2. mem' = [mem EXCEPT !.clients = clients, !.billed = mem.billed, !.touched = TRUE]
  BY <1>1 DEF Daily!Reset, Daily!Commit, DailyInv, StoreInv, IsStore
<1>3. /\ DOMAIN clients = DOMAIN mem.clients
      /\ \A x \in DOMAIN mem.clients :
            clients[x] = IF x = c THEN [mem.clients[c] EXCEPT !.used = 0] ELSE mem.clients[x]
  BY <1>1 DEF DailyInv, StoreInv, IsStore
<1>4. ASSUME NEW x \in DOMAIN clients PROVE ClientInv(x, clients[x])'
  <2>1. PICK u, v : u = mem.clients[x] /\ v = clients[x]
    OBVIOUS
  <2>2. ClientInv(x, u)
    BY <1>3, <2>1 DEF DailyInv, StoreInv
  <2>3. IsClient(v) /\ v.date = u.date /\ v.rows = u.rows
    BY <1>3, <2>1, <2>2 DEF ClientInv, IsClient
  <2>4. ClientInv(x, v)'
    BY <2>2, <2>3 DEF Daily!Reset, Daily!recording, ClientInv, IsClient, OneADay, Rows,
       Daily!Ascending
  <2> QED
    BY <2>1, <2>4
<1>5. /\ UNCHANGED <<day, totalRead, readDay>> /\ syncDay' = syncDay /\ saved' = mem'
      /\ clients = [x \in DOMAIN clients |-> clients[x]]
  BY <1>1 DEF Daily!Reset, Daily!Commit, Daily!recording, DailyInv, StoreInv, IsStore
<1> QED
  BY <1>2, <1>4, <1>5, ClientsChange

LEMMA SyncUpdatesStep ==
  ASSUME DailyInv, NEW c \in Clients, NEW n \in 0..1, Daily!SyncUpdates(c, n)
  PROVE  DailyInv'
<1>1. PICK clients : clients = [x \in DOMAIN mem.clients |->
          Daily!Charged(Daily!Rolled(mem.clients[x]), IF x = c THEN n ELSE 0)]
  OBVIOUS
<1>2. PICK billed : billed = IF mem.date = 0 THEN 0 ELSE mem.billed + n
  OBVIOUS
<1>3. mem' = [mem EXCEPT !.clients = clients, !.billed = billed, !.touched = mem.touched]
  <2>1. mem' = [mem EXCEPT !.clients = clients, !.billed = billed]
    BY <1>1, <1>2 DEF Daily!SyncUpdates, Daily!Present
  <2> QED
    BY <2>1 DEF DailyInv, StoreInv, IsStore
<1>4. /\ syncDay # 0 /\ syncDay' = 0 /\ day' = day /\ crossed' = crossed
      /\ totalRead' = totalRead /\ readDay' = readDay
      /\ saved' = mem' \/ saved' = saved
      /\ day \in Nat /\ syncDay \in 0..day
  BY DailyAssumption DEF Daily!SyncUpdates, Daily!recording, DailyInv
<1>5. ASSUME NEW x \in DOMAIN clients PROVE ClientInv(x, clients[x])'
  <2>1. PICK u, v, m : /\ u = mem.clients[x] /\ v = clients[x]
                       /\ m = IF x = c THEN n ELSE 0
    OBVIOUS
  <2>2. ClientInv(x, u) /\ v = Daily!Charged(Daily!Rolled(u), m)
    BY <1>1, <2>1 DEF DailyInv, StoreInv
  <2>3. ClientInv(x, v)'
    BY <1>4, <2>2, BilledClient
  <2> QED
    BY <2>1, <2>3
<1>6. DOMAIN clients = DOMAIN mem.clients /\ clients = [x \in DOMAIN clients |-> clients[x]]
  BY <1>1
<1> QED
  BY <1>3, <1>4, <1>5, <1>6, ClientsChange

\* What a step that leaves the store alone may do.
LEMMA StoreRests ==
  ASSUME DailyInv, mem' = mem, crossed' = crossed, saved' \in {saved, mem},
         day' \in day..LastDay, syncDay' \in {0, syncDay, day}, syncDay' \in 0..day',
         totalRead' # -1 => readDay' \in 1..day' /\ mem.date < readDay'
  PROVE  DailyInv'
<1>1. PICK st, old : st = mem /\ old = saved
  OBVIOUS
<1>2. day \in Nat \ {0} /\ day' \in Nat /\ day <= day' /\ day' \in 1..LastDay
  BY DailyAssumption DEF DailyInv
<1>3. StoreInv(st) /\ StoreInv(old)
  BY <1>1 DEF DailyInv
<1>4. StoreInv(st)' /\ StoreInv(old)'
  BY <1>2, <1>3, SameStore
<1>5. StoreInv(mem)' /\ StoreInv(saved)'
  BY <1>1, <1>4
<1> QED
  BY <1>2, <1>5 DEF DailyInv

LEMMA CrashStep ==
  ASSUME DailyInv, Daily!Crash
  PROVE  DailyInv'
<1>1. /\ day' = day /\ syncDay' = 0 /\ totalRead' = -1 /\ mem' = saved /\ saved' = saved
      /\ crossed' = crossed \cap DOMAIN saved.clients /\ day \in Nat
  BY DailyAssumption DEF Daily!Crash, Daily!Returned, DailyInv
<1>2. PICK old : old = saved
  OBVIOUS
<1>3. StoreInv(old)
  BY <1>2 DEF DailyInv
<1>4. StoreInv(old)'
  BY <1>1, <1>2, <1>3, SameStore
<1>5. StoreInv(mem)' /\ StoreInv(saved)'
  BY <1>1, <1>2, <1>4
<1> QED
  BY <1>1, <1>5 DEF DailyInv

LEMMA RecordStep ==
  ASSUME DailyInv, Daily!Record
  PROVE  DailyInv'
<1>1. /\ totalRead # -1 /\ totalRead' = -1 /\ saved' = mem'
      /\ UNCHANGED <<day, syncDay, changes, crossed>>
  BY DEF Daily!Record, Daily!Returned, Daily!Commit
<1>2. PICK st, new : st = mem /\ new = mem'
  OBVIOUS
<1>3. /\ StoreInv(st) /\ day \in Nat \ {0} /\ readDay \in 1..day
      /\ st.date \in Nat /\ st.date < readDay /\ OneADay(st.rows, st.date)
  BY <1>1, <1>2, DailyAssumption DEF DailyInv, StoreInv
<1>4. PICK rows, anchor, billed, gone :
         /\ new = [clients |-> st.clients, date |-> readDay, anchor |-> anchor, rows |-> rows,
                   billed |-> billed, gone |-> gone, touched |-> st.touched]
         /\ OneADay(rows, readDay)
  <2>1. CASE mem.date = 0
    <3>1. PICK billed : billed = Daily!AtLeastZero(Daily!Total(mem) - totalRead)
      OBVIOUS
    <3>2. new = [st EXCEPT !.date = readDay, !.anchor = totalRead, !.billed = billed]
      BY <1>2, <2>1, <3>1 DEF Daily!Record, Daily!Commit
    <3>3. new = [clients |-> st.clients, date |-> readDay, anchor |-> totalRead,
                 rows |-> st.rows, billed |-> billed, gone |-> st.gone, touched |-> st.touched]
      BY <1>3, <3>2 DEF StoreInv, IsStore
    <3>4. OneADay(st.rows, readDay)
      BY <1>3, EarlierStill
    <3> QED
      BY <3>3, <3>4
  <2>2. CASE mem.date # 0
    <3>1. PICK row, rows :
             /\ row = Daily!Row(st.date, Daily!AtLeastZero(totalRead - st.anchor))
             /\ rows = Daily!Appended(st.rows, row, MaxUsageRows)
      OBVIOUS
    <3>2. PICK gone : gone = st.gone + Daily!Bytes(st.rows) + row.bytes - Daily!Bytes(rows)
      OBVIOUS
    <3>3. new = [st EXCEPT !.date = readDay, !.anchor = totalRead, !.rows = rows, !.gone = gone]
      BY <1>2, <2>2, <3>1, <3>2 DEF Daily!Record, Daily!Commit
    <3>4. new = [clients |-> st.clients, date |-> readDay, anchor |-> totalRead, rows |-> rows,
                 billed |-> st.billed, gone |-> gone, touched |-> st.touched]
      BY <1>3, <3>3 DEF StoreInv, IsStore
    <3>5. row.date = st.date
      BY <3>1 DEF Daily!Row
    <3>6. OneADay(rows, readDay)
      BY <1>3, <3>1, <3>5, AppendedRow, DailyAssumption
    <3> QED
      BY <3>4, <3>6
  <2> QED
    BY <2>1, <2>2
<1>5. /\ new.clients = st.clients /\ new.date = readDay /\ new.rows = rows /\ IsStore(new)
  BY <1>3, <1>4 DEF StoreInv, IsStore
<1>6. StoreInv(st)'
  BY <1>1, <1>3, SameStore
<1>7. StoreInv(new)'
  BY <1>1, <1>3, <1>4, <1>5, <1>6 DEF StoreInv, OneADay, Rows, Daily!Ascending, IsStore
<1> QED
  BY <1>1, <1>2, <1>7 DEF DailyInv

LEMMA DailyStep ==
  ASSUME DailyInv, [Daily!Next]_dayVars
  PROVE  DailyInv'
<1> USE DEF Daily!recording
<1>1. /\ day \in Nat \ {0} /\ LastDay \in Nat \ {0} /\ day <= LastDay
      /\ mem.date \in 0..day
  BY DailyAssumption DEF DailyInv, StoreInv
<1>2. CASE Daily!DayPasses
  <2>1. /\ day' = day + 1 /\ day < LastDay
        /\ UNCHANGED <<mem, saved, syncDay, totalRead, readDay, crossed>>
    BY <1>2 DEF Daily!DayPasses
  <2> QED
    BY <1>1, <2>1, StoreRests DEF DailyInv
<1>3. CASE Daily!SyncBegins \/ Daily!SyncEnds
  <2>1. /\ syncDay' \in {0, day}
        /\ UNCHANGED <<day, mem, saved, totalRead, readDay, crossed>>
    BY <1>3 DEF Daily!SyncBegins, Daily!SyncEnds
  <2> QED
    BY <1>1, <2>1, StoreRests DEF DailyInv
<1>4. CASE Daily!Save
  <2>1. saved' = mem /\ UNCHANGED <<day, mem, syncDay, totalRead, readDay, crossed>>
    BY <1>4 DEF Daily!Save
  <2> QED
    BY <1>1, <2>1, StoreRests DEF DailyInv
<1>5. CASE Daily!ReadTotal
  <2>1. /\ mem.date # day /\ readDay' = day
        /\ UNCHANGED <<day, mem, saved, syncDay, crossed>>
    BY <1>5 DEF Daily!ReadTotal
  <2> QED
    BY <1>1, <2>1, StoreRests DEF DailyInv
<1>6. CASE Daily!RecordRefused
  <2>1. totalRead' = -1 /\ UNCHANGED <<day, mem, saved, syncDay, crossed>>
    BY <1>6 DEF Daily!RecordRefused, Daily!Returned
  <2> QED
    BY <1>1, <2>1, StoreRests DEF DailyInv
<1>7. CASE UNCHANGED dayVars
  BY <1>1, <1>7, StoreRests DEF dayVars, DailyInv
<1> QED
  BY <1>2, <1>3, <1>4, <1>5, <1>6, <1>7, CreateStep, DeleteStep, ResetStep, SyncUpdatesStep,
     CrashStep, RecordStep DEF Daily!Next

\* The days of the reports (syncTraffic, recordDailyUsage): in the store and in
\* the file every list of rows ascends and ends before its current day, a total
\* read for a new day is of a day later than the bucket's, and no client but
\* the crossed ones is ahead of the sync in flight.
THEOREM DailyCorrect == PartsSpec => []DailyInv
<1>1. ASSUME PartsInit PROVE DailyInv
  <2>1. PICK st : st = Daily!NewStore
    OBVIOUS
  <2>2. /\ st.clients = <<>> /\ st.date = 0 /\ st.rows = <<>> /\ IsStore(st)
    BY <2>1 DEF Daily!NewStore, IsStore
  <2>3. DOMAIN st.clients = {}
    BY <2>2
  <2>4. /\ day = 1 /\ syncDay = 0 /\ totalRead = -1 /\ mem = st /\ saved = st
    BY <1>1, <2>1, PartsBegin DEF Daily!Init
  <2>5. StoreInv(st)
    BY <2>2, <2>3, <2>4, NoRows DEF StoreInv
  <2> QED
    BY <2>4, <2>5, DailyAssumption DEF DailyInv
<1>2. DailyInv /\ [PartsNext]_partVars => DailyInv'
  BY PartsStep, DailyStep
<1> QED
  BY <1>1, <1>2, PTL DEF PartsSpec

\* Each day has one row, in the list of all clients and in that of each client
\* not created while a sync of the day before ran, whatever crashes, resets,
\* refusals and days come in between.
THEOREM DaysHaveOneRow == PartsSpec => []OneRowPerDay
<1>1. DailyInv => OneRowPerDay
  BY DEF DailyInv, StoreInv, ClientInv, OneADay, OneRowPerDay, Daily!OneRowPerDay,
     Daily!Present
<1> QED
  BY DailyCorrect, <1>1, PTL

-----------------------------------------------------------------------------
(* Sums over finite sets *)

\* Of the sets of a family within a finite set, one loses the family with every
\* element it loses.
LEMMA SmallestOf ==
  ASSUME NEW S, IsFiniteSet(S), NEW Q, Q \subseteq SUBSET S, Q # {}
  PROVE  \E m \in Q : \A x \in m : m \ {x} \notin Q
<1>1. PICK R : R = StrictSubsetOrdering(S)
  OBVIOUS
<1>2. IsWellFoundedOn(R, SUBSET S)
  BY <1>1, FS_StrictSubsetOrderingWellFounded, FS_FiniteSubsetsOfFinite
<1>3. PICK m \in Q : \A y \in Q : <<y, m>> \notin R
  BY <1>2, WFMin
<1>4. ASSUME NEW x \in m, m \ {x} \in Q PROVE FALSE
  <2>1. m \ {x} \subseteq m /\ m \ {x} # m
    OBVIOUS
  <2>2. <<m \ {x}, m>> \in R
    BY <1>1, <1>4, <2>1 DEF StrictSubsetOrdering
  <2> QED
    BY <1>3, <1>4, <2>2
<1> QED
  BY <1>4

OneOf(s) == CHOOSE x \in s : TRUE

\* A function that adds f up over each set within S, one element after the other,
\* as SumFunctionOnSet does.
AddsUp(it, f, S) ==
    it = [s \in SUBSET S |-> IF s = {} THEN 0 ELSE f[OneOf(s)] + it[s \ {OneOf(s)}]]

LEMMA OneOfIs == \A s : s # {} => OneOf(s) \in s
BY DEF OneOf

LEMMA SameSums ==
  ASSUME NEW f, NEW S, IsFiniteSet(S), NEW R, NEW g, AddsUp(g, f, S), NEW h, AddsUp(h, f, R),
         NEW T, T \subseteq S, T \subseteq R
  PROVE  g[T] = h[T]
<1>1. PICK Q : Q = {s \in SUBSET T : g[s] # h[s]}
  OBVIOUS
<1>2. SUFFICES ASSUME Q # {} PROVE FALSE
  BY <1>1
<1>3. IsFiniteSet(T) /\ Q \subseteq SUBSET T
  BY <1>1, FS_Subset
<1>4. PICK m \in Q : \A x \in m : m \ {x} \notin Q
  BY <1>2, <1>3, SmallestOf
<1>5. m \in SUBSET S /\ m \in SUBSET R /\ m \in SUBSET T
  BY <1>1
<1>6. /\ g[m] = IF m = {} THEN 0 ELSE f[OneOf(m)] + g[m \ {OneOf(m)}]
      /\ h[m] = IF m = {} THEN 0 ELSE f[OneOf(m)] + h[m \ {OneOf(m)}]
  BY <1>5 DEF AddsUp
<1>7. m # {}
  BY <1>1, <1>6
<1>8. m \ {OneOf(m)} \in SUBSET T /\ m \ {OneOf(m)} \notin Q
  BY <1>4, <1>5, <1>7, OneOfIs
<1>9. g[m \ {OneOf(m)}] = h[m \ {OneOf(m)}]
  BY <1>1, <1>8
<1> QED
  BY <1>1, <1>6, <1>9

LEMMA SumsExist ==
  ASSUME NEW f, NEW S, IsFiniteSet(S)
  PROVE  \E it : AddsUp(it, f, S)
<1>1. PICK Q : Q = {s \in SUBSET S : ~ \E it : AddsUp(it, f, s)}
  OBVIOUS
<1>2. SUFFICES ASSUME Q # {} PROVE FALSE
  BY <1>1
<1>3. PICK m \in Q : \A x \in m : m \ {x} \notin Q
  BY <1>1, <1>2, SmallestOf
<1>4. m \in SUBSET S /\ IsFiniteSet(m)
  BY <1>1, <1>3, FS_Subset
<1>5. ASSUME NEW x \in m PROVE \E it : AddsUp(it, f, m \ {x})
  BY <1>1, <1>3, <1>4
<1>6. PICK g : g = [x \in m |-> CHOOSE it : AddsUp(it, f, m \ {x})]
  OBVIOUS
<1>7. \A x \in m : AddsUp(g[x], f, m \ {x})
  BY <1>5, <1>6
\* The sum of a set in the family of any element it lacks.
<1>8. PICK k : k = [s \in SUBSET m |-> IF s = m THEN 0 ELSE g[OneOf(m \ s)][s]]
  OBVIOUS
<1>9. PICK it : it = [s \in SUBSET m |->
                        IF s = m /\ s # {} THEN f[OneOf(s)] + k[s \ {OneOf(s)}] ELSE k[s]]
  OBVIOUS
<1>10. ASSUME NEW s \in SUBSET m
       PROVE  it[s] = IF s = {} THEN 0 ELSE f[OneOf(s)] + it[s \ {OneOf(s)}]
  <2>1. CASE s = m /\ s # {}
    <3>1. s \ {OneOf(s)} \in SUBSET m /\ s \ {OneOf(s)} # m
      BY <2>1, OneOfIs
    <3> QED
      BY <1>9, <2>1, <3>1
  <2>2. CASE s = m /\ s = {}
    BY <1>8, <1>9, <2>2
  <2>3. CASE s # m
    <3>1. PICK x \in m : x = OneOf(m \ s) /\ x \notin s
      <4>1. m \ s # {}
        BY <2>3
      <4>2. OneOf(m \ s) \in m \ s
        BY <4>1, OneOfIs
      <4> QED
        BY <4>2
    <3>2. it[s] = g[x][s] /\ s \in SUBSET (m \ {x})
      BY <1>8, <1>9, <2>3, <3>1
    <3>3. g[x][s] = IF s = {} THEN 0 ELSE f[OneOf(s)] + g[x][s \ {OneOf(s)}]
      BY <1>7, <3>2 DEF AddsUp
    <3>4. ASSUME s # {} PROVE it[s \ {OneOf(s)}] = g[x][s \ {OneOf(s)}]
      <4>1. PICK r \in SUBSET m : r = s \ {OneOf(s)} /\ r # m /\ r \subseteq m \ {x}
        BY <2>3, <3>2
      <4>2. PICK y \in m : y = OneOf(m \ r) /\ y \notin r
        <5>1. m \ r # {}
          BY <4>1
        <5>2. OneOf(m \ r) \in m \ r
          BY <5>1, OneOfIs
        <5> QED
          BY <5>2
      <4>3. it[r] = g[y][r] /\ r \subseteq m \ {y}
        BY <1>8, <1>9, <4>1, <4>2
      <4>4. IsFiniteSet(m \ {y})
        BY <1>4, FS_RemoveElement
      <4>5. PICK gx, gy : gx = g[x] /\ gy = g[y]
        OBVIOUS
      <4>6. AddsUp(gx, f, m \ {x}) /\ AddsUp(gy, f, m \ {y})
        BY <1>7, <4>5
      <4>7. PICK U, W : U = m \ {y} /\ W = m \ {x}
        OBVIOUS
      <4>8. IsFiniteSet(U) /\ AddsUp(gy, f, U) /\ AddsUp(gx, f, W) /\ r \subseteq U /\ r \subseteq W
        BY <4>1, <4>3, <4>4, <4>6, <4>7
      <4>9. gy[r] = gx[r]
        BY <4>8, SameSums
      <4> QED
        BY <4>1, <4>3, <4>5, <4>9
    <3> QED
      BY <3>2, <3>3, <3>4
  <2> QED
    BY <2>1, <2>2, <2>3
<1>11. AddsUp(it, f, m)
  <2>1. it = [s \in SUBSET m |-> it[s]]
    BY <1>9
  <2>2. [s \in SUBSET m |-> it[s]]
          = [s \in SUBSET m |-> IF s = {} THEN 0 ELSE f[OneOf(s)] + it[s \ {OneOf(s)}]]
    BY <1>10
  <2> QED
    BY <2>1, <2>2 DEF AddsUp
<1> QED
  BY <1>1, <1>3, <1>11


\* What the library's sums are, from the sum of one element less.
LEMMA SumStep ==
  ASSUME NEW f, NEW S, IsFiniteSet(S)
  PROVE  SumFunctionOnSet(f, S) =
           IF S = {} THEN 0 ELSE f[OneOf(S)] + SumFunctionOnSet(f, S \ {OneOf(S)})
<1>1. ASSUME NEW R, IsFiniteSet(R)
      PROVE  \E it : AddsUp(it, f, R) /\ SumFunctionOnSet(f, R) = it[R]
  <2>1. PICK it : it = CHOOSE g : AddsUp(g, f, R)
    OBVIOUS
  <2>2. AddsUp(it, f, R)
    BY <1>1, <2>1, SumsExist
  <2>3. SumFunctionOnSet(f, R) = it[R]
    BY <2>1 DEF AddsUp, OneOf, SumFunctionOnSet, FoldFunctionOnSet, MapThenFoldSet
  <2> QED
    BY <2>2, <2>3
<1>2. PICK it : AddsUp(it, f, S) /\ SumFunctionOnSet(f, S) = it[S]
  BY <1>1
<1>3. it[S] = IF S = {} THEN 0 ELSE f[OneOf(S)] + it[S \ {OneOf(S)}]
  BY <1>2 DEF AddsUp
<1>4. ASSUME S # {} PROVE it[S \ {OneOf(S)}] = SumFunctionOnSet(f, S \ {OneOf(S)})
  <2>1. PICK R : R = S \ {OneOf(S)} /\ IsFiniteSet(R)
    BY FS_RemoveElement
  <2>2. PICK g : AddsUp(g, f, R) /\ SumFunctionOnSet(f, R) = g[R]
    BY <1>1, <2>1
  <2>3. it[R] = g[R]
    BY <1>2, <2>1, <2>2, SameSums
  <2> QED
    BY <2>1, <2>2, <2>3
<1> QED
  BY <1>2, <1>3, <1>4

LEMMA SumType ==
  ASSUME NEW f, NEW S, IsFiniteSet(S), \A x \in S : f[x] \in Nat
  PROVE  SumFunctionOnSet(f, S) \in Nat
<1>1. PICK Q : Q = {s \in SUBSET S : SumFunctionOnSet(f, s) \notin Nat}
  OBVIOUS
<1>2. SUFFICES ASSUME Q # {} PROVE FALSE
  BY <1>1
<1>3. PICK m \in Q : \A x \in m : m \ {x} \notin Q
  BY <1>1, <1>2, SmallestOf
<1>4. m \in SUBSET S /\ IsFiniteSet(m)
  BY <1>1, FS_Subset
<1>5. SumFunctionOnSet(f, m) =
        IF m = {} THEN 0 ELSE f[OneOf(m)] + SumFunctionOnSet(f, m \ {OneOf(m)})
  BY <1>4, SumStep
<1>6. m # {}
  BY <1>1, <1>5
<1>7. OneOf(m) \in m
  BY <1>6, OneOfIs
<1>8. SumFunctionOnSet(f, m \ {OneOf(m)}) \in Nat /\ f[OneOf(m)] \in Nat
  BY <1>1, <1>3, <1>4, <1>7
<1> QED
  BY <1>1, <1>5, <1>6, <1>8

\* Equal functions have equal sums.
LEMMA SumSame ==
  ASSUME NEW f, NEW g, NEW S, IsFiniteSet(S), \A x \in S : f[x] = g[x]
  PROVE  SumFunctionOnSet(f, S) = SumFunctionOnSet(g, S)
<1>1. PICK Q : Q = {s \in SUBSET S : SumFunctionOnSet(f, s) # SumFunctionOnSet(g, s)}
  OBVIOUS
<1>2. SUFFICES ASSUME Q # {} PROVE FALSE
  BY <1>1
<1>3. PICK m \in Q : \A x \in m : m \ {x} \notin Q
  BY <1>1, <1>2, SmallestOf
<1>4. m \in SUBSET S /\ IsFiniteSet(m)
  BY <1>1, FS_Subset
<1>5. /\ SumFunctionOnSet(f, m) =
           IF m = {} THEN 0 ELSE f[OneOf(m)] + SumFunctionOnSet(f, m \ {OneOf(m)})
      /\ SumFunctionOnSet(g, m) =
           IF m = {} THEN 0 ELSE g[OneOf(m)] + SumFunctionOnSet(g, m \ {OneOf(m)})
  BY <1>4, SumStep
<1>6. m # {}
  BY <1>1, <1>5
<1>7. OneOf(m) \in m
  BY <1>6, OneOfIs
<1>8. /\ SumFunctionOnSet(f, m \ {OneOf(m)}) = SumFunctionOnSet(g, m \ {OneOf(m)})
      /\ f[OneOf(m)] = g[OneOf(m)]
  BY <1>1, <1>3, <1>4, <1>7
<1> QED
  BY <1>1, <1>5, <1>6, <1>8

\* Any element may be added last.
LEMMA SumWithout ==
  ASSUME NEW f, NEW S, IsFiniteSet(S), \A x \in S : f[x] \in Nat, NEW e \in S
  PROVE  SumFunctionOnSet(f, S) = f[e] + SumFunctionOnSet(f, S \ {e})
<1>1. PICK Q : Q = {s \in SUBSET S : \E x \in s :
                      SumFunctionOnSet(f, s) # f[x] + SumFunctionOnSet(f, s \ {x})}
  OBVIOUS
<1>2. SUFFICES ASSUME Q # {} PROVE FALSE
  BY <1>1
<1>3. PICK m \in Q : \A x \in m : m \ {x} \notin Q
  BY <1>1, <1>2, SmallestOf
<1>4. m \in SUBSET S /\ IsFiniteSet(m) /\ \A x \in m : f[x] \in Nat
  BY <1>1, FS_Subset
<1>5. PICK x \in m : SumFunctionOnSet(f, m) # f[x] + SumFunctionOnSet(f, m \ {x})
  BY <1>1
<1>6. PICK y \in m : y = OneOf(m)
  BY <1>5, OneOfIs
<1>7. SumFunctionOnSet(f, m) = f[y] + SumFunctionOnSet(f, m \ {y})
  BY <1>4, <1>6, SumStep
<1>8. x # y
  BY <1>5, <1>7
<1>9. SumFunctionOnSet(f, m \ {y}) = f[x] + SumFunctionOnSet(f, (m \ {y}) \ {x})
  <2>1. m \ {y} \in SUBSET S /\ m \ {y} \notin Q /\ x \in m \ {y}
    BY <1>3, <1>4, <1>8
  <2> QED
    BY <1>1, <2>1
<1>10. SumFunctionOnSet(f, m \ {x}) = f[y] + SumFunctionOnSet(f, (m \ {x}) \ {y})
  <2>1. m \ {x} \in SUBSET S /\ m \ {x} \notin Q /\ y \in m \ {x}
    BY <1>3, <1>4, <1>8
  <2> QED
    BY <1>1, <2>1
<1>11. PICK r : r = (m \ {x}) \ {y} /\ r = (m \ {y}) \ {x} /\ IsFiniteSet(r)
  <2>1. (m \ {x}) \ {y} = (m \ {y}) \ {x}
    OBVIOUS
  <2>2. IsFiniteSet(m \ {x})
    BY <1>4, FS_RemoveElement
  <2>3. IsFiniteSet((m \ {x}) \ {y})
    BY <2>2, FS_RemoveElement
  <2> QED
    BY <2>1, <2>3
<1>12. SumFunctionOnSet(f, r) \in Nat /\ f[x] \in Nat /\ f[y] \in Nat
  <2>1. \A z \in r : f[z] \in Nat
    BY <1>4, <1>11
  <2> QED
    BY <1>4, <1>11, <2>1, SumType
<1>13. PICK a, b, z : a = f[x] /\ b = f[y] /\ z = SumFunctionOnSet(f, r)
  OBVIOUS
<1>14. SumFunctionOnSet(f, m) = b + (a + z) /\ SumFunctionOnSet(f, m \ {x}) = b + z
  BY <1>7, <1>9, <1>10, <1>11, <1>13
<1>15. a \in Nat /\ b \in Nat /\ z \in Nat
  BY <1>12, <1>13
<1>16. b + (a + z) = a + (b + z)
  BY <1>15
<1> QED
  BY <1>5, <1>13, <1>14, <1>16

\* The end of a list holds no more than the list.
LEMMA SumOfEnd ==
  ASSUME NEW l \in Nat, NEW k \in Nat, NEW f, NEW g,
         \A i \in 1..(k + l) : f[i] \in Nat, \A i \in 1..l : g[i] = f[k + i]
  PROVE  SumFunctionOnSet(g, 1..l) <= SumFunctionOnSet(f, 1..(k + l))
<1>1. PICK Q : Q = {j \in 0..l :
                      ~(SumFunctionOnSet(g, 1..j) <= SumFunctionOnSet(f, 1..(k + j)))}
  OBVIOUS
<1>2. SUFFICES ASSUME Q # {} PROVE FALSE
  BY <1>1
<1>3. Q \subseteq Nat
  BY <1>1
<1>4. PICK j \in Q : \A i \in Q : j <= i
  BY <1>2, <1>3, SmallestNumber
<1>5. j \in 0..l /\ j \in Nat
  BY <1>1
<1>6. ASSUME NEW n \in Nat, n <= l
      PROVE  /\ SumFunctionOnSet(g, 1..n) \in Nat /\ SumFunctionOnSet(f, 1..(k + n)) \in Nat
             /\ IsFiniteSet(1..n) /\ IsFiniteSet(1..(k + n))
             /\ \A x \in 1..n : g[x] \in Nat
             /\ \A x \in 1..(k + n) : f[x] \in Nat
  <2>1. \A x \in 1..n : x \in 1..l /\ k + x \in 1..(k + l)
    BY <1>6
  <2>2. \A x \in 1..n : g[x] \in Nat
    BY <2>1
  <2>3. \A x \in 1..(k + n) : f[x] \in Nat
    BY <1>6
  <2>4. IsFiniteSet(1..n) /\ IsFiniteSet(1..(k + n))
    BY FS_Interval
  <2> QED
    BY <2>2, <2>3, <2>4, SumType
<1>7. j # 0
  <2>1. 1..0 = {} /\ k + 0 = k
    OBVIOUS
  <2>2. SumFunctionOnSet(g, {}) = 0
    BY SumStep, FS_EmptySet
  <2>3. SumFunctionOnSet(f, 1..(k + 0)) \in Nat
    BY <1>6
  <2>4. SumFunctionOnSet(g, 1..0) <= SumFunctionOnSet(f, 1..(k + 0))
    BY <2>1, <2>2, <2>3
  <2> QED
    BY <1>1, <2>4
<1>8. PICK n \in Nat : j = n + 1 /\ n <= l /\ n \in 0..l /\ ~(j <= n) /\ k + j = (k + n) + 1
  <2>1. j - 1 \in Nat /\ j = (j - 1) + 1 /\ j - 1 <= l /\ j - 1 \in 0..l /\ ~(j <= j - 1)
    BY <1>5, <1>7
  <2>2. k + j = (k + (j - 1)) + 1
    BY <1>5
  <2> QED
    BY <2>1, <2>2
<1>9. SumFunctionOnSet(g, 1..n) <= SumFunctionOnSet(f, 1..(k + n))
  BY <1>1, <1>4, <1>8
<1>10. SumFunctionOnSet(g, 1..j) = g[j] + SumFunctionOnSet(g, 1..n)
  <2>1. (1..j) \ {j} = 1..n /\ j \in 1..j /\ j <= l
    BY <1>5, <1>8
  <2>2. PICK e, S : e = j /\ S = 1..j
    OBVIOUS
  <2>3. IsFiniteSet(S) /\ e \in S /\ \A x \in S : g[x] \in Nat
    BY <1>5, <1>6, <2>1, <2>2
  <2>4. SumFunctionOnSet(g, S) = g[e] + SumFunctionOnSet(g, S \ {e})
    BY <2>3, SumWithout
  <2> QED
    BY <2>1, <2>2, <2>4
<1>11. SumFunctionOnSet(f, 1..(k + j)) = f[k + j] + SumFunctionOnSet(f, 1..(k + n))
  <2>1. (1..(k + j)) \ {k + j} = 1..(k + n) /\ k + j \in 1..(k + j) /\ j <= l
    BY <1>5, <1>8
  <2>2. PICK e, S : e = k + j /\ S = 1..(k + j)
    OBVIOUS
  <2>3. IsFiniteSet(S) /\ e \in S /\ \A x \in S : f[x] \in Nat
    BY <1>5, <1>6, <2>1, <2>2
  <2>4. SumFunctionOnSet(f, S) = f[e] + SumFunctionOnSet(f, S \ {e})
    BY <2>3, SumWithout
  <2> QED
    BY <2>1, <2>2, <2>4
<1>12. g[j] = f[k + j] /\ f[k + j] \in Nat
  BY <1>5, <1>7
<1>13. PICK a, x, y : a = f[k + j] /\ x = SumFunctionOnSet(g, 1..n)
                      /\ y = SumFunctionOnSet(f, 1..(k + n))
  OBVIOUS
<1>14. a \in Nat /\ x \in Nat /\ y \in Nat /\ x <= y
  BY <1>6, <1>8, <1>9, <1>12, <1>13
<1>15. a + x <= a + y
  BY <1>14
<1>16. SumFunctionOnSet(g, 1..j) <= SumFunctionOnSet(f, 1..(k + j))
  BY <1>10, <1>11, <1>12, <1>13, <1>15
<1> QED
  BY <1>1, <1>16

-----------------------------------------------------------------------------
(* What the days add up to *)

LEMMA DailySums == \A f : Daily!SumFunction(f) = SumFunctionOnSet(f, DOMAIN f)
BY DEF Daily!SumFunction, Daily!SumFunctionOnSet, Daily!FoldFunctionOnSet, Daily!MapThenFoldSet,
       SumFunctionOnSet, FoldFunctionOnSet, MapThenFoldSet

RowType == [date : 1..LastDay, bytes : Nat]

\* The bytes of the rows, by their place.
BytesAt(rows) == [i \in DOMAIN rows |-> rows[i].bytes]

\* The rows' bytes are a sum over their places.
LEMMA BytesSum ==
  ASSUME NEW rows \in Seq(RowType)
  PROVE  /\ Len(rows) \in Nat /\ DOMAIN rows = 1..Len(rows)
         /\ \A i \in 1..Len(rows) : rows[i] \in RowType
         /\ \A i \in 1..Len(rows) : BytesAt(rows)[i] = rows[i].bytes /\ rows[i].bytes \in Nat
         /\ Daily!Bytes(rows) = SumFunctionOnSet(BytesAt(rows), 1..Len(rows))
         /\ Daily!Bytes(rows) \in Nat
<1>1. Len(rows) \in Nat /\ DOMAIN rows = 1..Len(rows)
  BY LenProperties
<1>2. \A i \in 1..Len(rows) : rows[i] \in RowType
  BY ElementOfSeq
<1>3. \A i \in 1..Len(rows) : BytesAt(rows)[i] = rows[i].bytes /\ rows[i].bytes \in Nat
  BY <1>1, <1>2 DEF BytesAt, RowType
<1>4. PICK f : f = BytesAt(rows) /\ DOMAIN f = 1..Len(rows)
  <2>1. DOMAIN BytesAt(rows) = DOMAIN rows
    BY DEF BytesAt
  <2> QED
    BY <1>1, <2>1
<1>5. Daily!Bytes(rows) = SumFunctionOnSet(f, 1..Len(rows))
  <2>1. Daily!Bytes(rows) = Daily!SumFunction(f)
    BY <1>4 DEF Daily!Bytes, BytesAt
  <2> QED
    BY <1>4, <2>1, DailySums
<1>6. SumFunctionOnSet(f, 1..Len(rows)) \in Nat
  <2>1. IsFiniteSet(1..Len(rows))
    BY <1>1, FS_Interval
  <2>2. \A i \in 1..Len(rows) : f[i] \in Nat
    BY <1>3, <1>4
  <2> QED
    BY <2>1, <2>2, SumType
<1> QED
  BY <1>1, <1>2, <1>3, <1>4, <1>5, <1>6

LEMMA NoBytes == <<>> \in Seq(RowType) /\ Daily!Bytes(<<>>) = 0
<1>1. <<>> \in Seq(RowType) /\ Len(<<>>) = 0
  BY EmptySeq
<1>2. 1..Len(<<>>) = {}
  BY <1>1
<1>3. Daily!Bytes(<<>>) = SumFunctionOnSet(BytesAt(<<>>), {})
  BY <1>1, <1>2, BytesSum
<1>4. SumFunctionOnSet(BytesAt(<<>>), {}) = 0
  BY SumStep, FS_EmptySet
<1> QED
  BY <1>1, <1>3, <1>4

\* A row behind the others adds its bytes.
LEMMA BytesAfter ==
  ASSUME NEW rows \in Seq(RowType), NEW row \in RowType
  PROVE  /\ Append(rows, row) \in Seq(RowType) /\ Len(Append(rows, row)) = Len(rows) + 1
         /\ Daily!Bytes(Append(rows, row)) = Daily!Bytes(rows) + row.bytes
<1>1. PICK all : all = Append(rows, row)
  OBVIOUS
<1>2. PICK n \in Nat : n = Len(rows)
  BY LenProperties
<1>3. /\ all \in Seq(RowType) /\ Len(all) = n + 1 /\ all[n + 1] = row
      /\ \A i \in 1..n : all[i] = rows[i]
  BY <1>1, <1>2, AppendProperties
<1>4. PICK f, g : f = BytesAt(all) /\ g = BytesAt(rows)
  OBVIOUS
<1>5. /\ Daily!Bytes(all) = SumFunctionOnSet(f, 1..(n + 1))
      /\ \A i \in 1..(n + 1) : f[i] = all[i].bytes /\ f[i] \in Nat
  BY <1>3, <1>4, BytesSum
<1>6. /\ Daily!Bytes(rows) = SumFunctionOnSet(g, 1..n)
      /\ \A i \in 1..n : g[i] = rows[i].bytes
  BY <1>2, <1>4, BytesSum
<1>7. (1..(n + 1)) \ {n + 1} = 1..n /\ n + 1 \in 1..(n + 1) /\ 1..n \subseteq 1..(n + 1)
  OBVIOUS
<1>8. IsFiniteSet(1..(n + 1)) /\ IsFiniteSet(1..n)
  BY FS_Interval
<1>9. SumFunctionOnSet(f, 1..(n + 1)) = f[n + 1] + SumFunctionOnSet(f, (1..(n + 1)) \ {n + 1})
  <2>1. PICK I, e : I = 1..(n + 1) /\ e = n + 1 /\ e \in I /\ IsFiniteSet(I)
    BY <1>7, <1>8
  <2>2. \A x \in I : f[x] \in Nat
    BY <1>5, <2>1
  <2>3. SumFunctionOnSet(f, I) = f[e] + SumFunctionOnSet(f, I \ {e})
    BY <2>1, <2>2, SumWithout
  <2> QED
    BY <2>1, <2>3
<1>10. SumFunctionOnSet(f, 1..n) = SumFunctionOnSet(g, 1..n)
  <2>1. \A i \in 1..n : f[i] = g[i]
    BY <1>3, <1>5, <1>6, <1>7
  <2> QED
    BY <1>8, <2>1, SumSame
<1>11. f[n + 1] = row.bytes
  BY <1>3, <1>5, <1>7
<1>12. PICK x, y : x = row.bytes /\ y = SumFunctionOnSet(g, 1..n)
  OBVIOUS
<1>13. x \in Nat /\ y \in Nat
  <2>1. Daily!Bytes(rows) \in Nat
    BY BytesSum
  <2> QED
    BY <1>6, <1>12, <2>1 DEF RowType
<1>14. Daily!Bytes(all) = x + y /\ Daily!Bytes(rows) + row.bytes = y + x
  BY <1>5, <1>6, <1>7, <1>9, <1>10, <1>11, <1>12
<1>15. x + y = y + x
  BY <1>13
<1> QED
  BY <1>1, <1>2, <1>3, <1>14, <1>15

\* Rows that are no longer kept take their bytes along, and no others.
LEMMA BytesKept ==
  ASSUME NEW rows \in Seq(RowType), NEW row \in RowType, NEW most \in Nat \ {0},
         NEW kept, kept = Daily!Appended(rows, row, most)
  PROVE  /\ kept \in Seq(RowType) /\ Len(kept) <= most
         /\ Daily!Bytes(kept) \in Nat
         /\ Daily!Bytes(kept) <= Daily!Bytes(rows) + row.bytes
<1>1. PICK all \in Seq(RowType), m \in Nat \ {0} :
         all = Append(rows, row) /\ m = Len(all)
  <2>1. Len(rows) + 1 \in Nat \ {0}
    BY LenProperties
  <2> QED
    BY <2>1, BytesAfter
<1>2. PICK k \in Nat, l \in Nat :
         /\ k + l = m /\ l >= 1 /\ l <= most
         /\ k + 1 = IF m > most THEN m - most + 1 ELSE 1
  <2>1. CASE m > most
    <3>1. m - most \in Nat /\ (m - most) + most = m
      BY <2>1
    <3> QED
      BY <2>1, <3>1
  <2>2. CASE ~(m > most)
    <3>1. 0 + m = m /\ 0 \in Nat /\ m >= 1 /\ m <= most /\ 0 + 1 = 1
      BY <2>2
    <3> QED
      BY <2>2, <3>1
  <2> QED
    BY <2>1, <2>2
<1>3. kept = SubSeq(all, k + 1, m)
  BY <1>1, <1>2 DEF Daily!Appended
<1>4. /\ kept \in Seq(RowType) /\ Len(kept) = l
      /\ \A i \in 1..l : kept[i] = all[k + i]
  <2>1. k + 1 \in Int /\ m \in Int /\ k + 1 <= m /\ m - (k + 1) + 1 = l
    BY <1>2
  <2>2. ASSUME NEW i \in (k + 1)..m PROVE all[i] \in RowType
    <3>1. i \in 1..m
      BY <2>1
    <3> QED
      BY <1>1, <3>1, ElementOfSeq
  <2>3. /\ kept \in Seq(RowType)
        /\ Len(kept) = IF k + 1 <= m THEN m - (k + 1) + 1 ELSE 0
        /\ \A i \in 1..(m - (k + 1) + 1) : kept[i] = all[(k + 1) + i - 1]
    BY <1>3, <2>1, <2>2, SubSeqProperties
  <2>4. \A i \in 1..l : (k + 1) + i - 1 = k + i
    OBVIOUS
  <2> QED
    BY <2>1, <2>3, <2>4
<1>5. PICK f, g : f = BytesAt(all) /\ g = BytesAt(kept)
  OBVIOUS
<1>6. /\ Daily!Bytes(all) = SumFunctionOnSet(f, 1..(k + l))
      /\ \A i \in 1..(k + l) : f[i] = all[i].bytes /\ f[i] \in Nat
  BY <1>1, <1>2, <1>5, BytesSum
<1>7. /\ Daily!Bytes(kept) = SumFunctionOnSet(g, 1..l) /\ Daily!Bytes(kept) \in Nat
      /\ \A i \in 1..l : g[i] = kept[i].bytes
  BY <1>4, <1>5, BytesSum
<1>8. \A i \in 1..l : g[i] = f[k + i]
  <2>1. \A i \in 1..l : k + i \in 1..(k + l)
    OBVIOUS
  <2> QED
    BY <1>4, <1>6, <1>7, <2>1
<1>9. SumFunctionOnSet(g, 1..l) <= SumFunctionOnSet(f, 1..(k + l))
  BY <1>6, <1>8, SumOfEnd
<1>10. Daily!Bytes(all) = Daily!Bytes(rows) + row.bytes
  BY <1>1, BytesAfter
<1> QED
  BY <1>2, <1>4, <1>6, <1>7, <1>9, <1>10

-----------------------------------------------------------------------------
(* What is billed to the clients *)

\* A client whose own days add up to what was billed to it.
ClientAdds(u) ==
    /\ u \in Daily!ClientType /\ Len(u.rows) <= MaxDailyRows
    /\ Daily!Bytes(u.rows) + u.gone + u.bytes = u.all

ClientsAdd(clients) ==
    /\ IsFiniteSet(DOMAIN clients) /\ DOMAIN clients \subseteq Clients
    /\ \A c \in DOMAIN clients : ClientAdds(clients[c])

\* A list of the days of all clients.
DayRows(rows) ==
    rows \in Seq([date : 1..LastDay, bytes : Nat]) /\ Len(rows) <= MaxUsageRows

\* The days shown hold at most what was billed: the rows kept and gone, what
\* the clients' total, read as `read`, is beyond the anchor, and what it has
\* grown since then to `total`.
Covered(st, read, total) ==
    /\ Daily!Bytes(st.rows) + st.gone + Daily!AtLeastZero(read - st.anchor)
         + Daily!AtLeastZero(total - read) <= st.billed
    /\ ~st.touched => /\ st.anchor <= read
                      /\ Daily!Bytes(st.rows) + st.gone + total - st.anchor = st.billed

\* Before the first anchor nothing is shown.
Billing(st, total) ==
    /\ {st.anchor, st.billed, st.gone} \subseteq Nat /\ st.touched \in BOOLEAN
    /\ DayRows(st.rows)
    /\ IF st.date = 0 THEN st.rows = <<>> /\ st.gone = 0 ELSE Covered(st, total, total)

\* The same with the total recordDailyUsage has read and not yet used.
ReadBefore(st, read, total) ==
    /\ ~st.touched => read <= total
    /\ st.date # 0 => Covered(st, read, total)

StoreAdds(st) == ClientsAdd(st.clients) /\ Billing(st, Daily!Total(st))

AddingInv ==
    /\ totalRead \in Nat \cup {-1} /\ readDay \in 0..day
    /\ changes \in 0..MaxChanges /\ crossed \subseteq Clients
    /\ StoreAdds(mem) /\ StoreAdds(saved)
    /\ totalRead # -1 => ReadBefore(mem, totalRead, Daily!Total(mem))

\* totalClientUsage, a sum over the clients.
Used(clients) == [c \in DOMAIN clients |-> clients[c].used]
TotalOf(clients) == SumFunctionOnSet(Used(clients), DOMAIN clients)

LEMMA TotalSum == \A st : Daily!Total(st) = TotalOf(st.clients)
<1>1. ASSUME NEW st PROVE Daily!Total(st) = TotalOf(st.clients)
  <2>1. PICK f : f = Used(st.clients)
    OBVIOUS
  <2>2. DOMAIN f = DOMAIN st.clients
    BY <2>1 DEF Used
  <2>3. Daily!Total(st) = Daily!SumFunction(f)
    BY <2>1 DEF Daily!Total, Used
  <2> QED
    BY <2>1, <2>2, <2>3, DailySums DEF TotalOf
<1> QED
  BY <1>1

LEMMA UsedType ==
  ASSUME NEW clients, ClientsAdd(clients)
  PROVE  /\ \A c \in DOMAIN clients :
              Used(clients)[c] = clients[c].used /\ Used(clients)[c] \in Nat
         /\ TotalOf(clients) \in Nat
<1>1. \A c \in DOMAIN clients : Used(clients)[c] = clients[c].used /\ clients[c].used \in Nat
  BY DEF ClientsAdd, ClientAdds, Daily!ClientType, Used
<1>2. PICK f : f = Used(clients)
  OBVIOUS
<1>3. SumFunctionOnSet(f, DOMAIN clients) \in Nat
  BY <1>1, <1>2, SumType DEF ClientsAdd
<1> QED
  BY <1>1, <1>2, <1>3 DEF TotalOf

\* One client's usage changes.
LEMMA OneUsed ==
  ASSUME NEW old, ClientsAdd(old), NEW new, ClientsAdd(new), DOMAIN new = DOMAIN old,
         NEW c \in DOMAIN old, \A x \in DOMAIN old \ {c} : new[x].used = old[x].used
  PROVE  \E rest \in Nat : TotalOf(old) = old[c].used + rest /\ TotalOf(new) = new[c].used + rest
<1>1. PICK f, g, S : f = Used(old) /\ g = Used(new) /\ S = DOMAIN old
  OBVIOUS
<1>2. \A x \in S : f[x] = old[x].used /\ g[x] = new[x].used /\ f[x] \in Nat /\ g[x] \in Nat
  BY <1>1, UsedType
<1>3. \A x \in S \ {c} : f[x] = g[x]
  BY <1>1, <1>2
<1>4. IsFiniteSet(S) /\ c \in S
  BY <1>1 DEF ClientsAdd
<1>5. PICK rest \in Nat : /\ SumFunctionOnSet(f, S) = f[c] + rest
                          /\ SumFunctionOnSet(g, S) = g[c] + rest
  <2>1. \A x \in S : f[x] \in Nat /\ g[x] \in Nat
    BY <1>2
  <2>2. SumFunctionOnSet(f, S) = f[c] + SumFunctionOnSet(f, S \ {c})
    BY <1>4, <2>1, SumWithout
  <2>3. SumFunctionOnSet(g, S) = g[c] + SumFunctionOnSet(g, S \ {c})
    BY <1>4, <2>1, SumWithout
  <2>4. IsFiniteSet(S \ {c}) /\ \A x \in S \ {c} : f[x] \in Nat
    BY <1>4, <2>1, FS_RemoveElement
  <2>5. SumFunctionOnSet(f, S \ {c}) = SumFunctionOnSet(g, S \ {c})
    BY <1>3, <2>4, SumSame
  <2>6. SumFunctionOnSet(f, S \ {c}) \in Nat
    BY <2>4, SumType
  <2> QED
    BY <2>2, <2>3, <2>5, <2>6
<1> QED
  BY <1>1, <1>2, <1>4, <1>5 DEF TotalOf

\* A client less, or one more.
LEMMA OneLess ==
  ASSUME NEW more, ClientsAdd(more), NEW c \in DOMAIN more,
         NEW less, ClientsAdd(less), DOMAIN less = DOMAIN more \ {c},
         \A x \in DOMAIN less : less[x].used = more[x].used
  PROVE  TotalOf(more) = more[c].used + TotalOf(less)
<1>1. PICK f, g, S, R : f = Used(more) /\ g = Used(less) /\ S = DOMAIN more /\ R = S \ {c}
  OBVIOUS
<1>2. \A x \in S : f[x] = more[x].used /\ f[x] \in Nat
  BY <1>1, UsedType
<1>3. \A x \in R : g[x] = less[x].used /\ g[x] = f[x]
  BY <1>1, <1>2, UsedType
<1>4. IsFiniteSet(S) /\ IsFiniteSet(R) /\ c \in S
  BY <1>1 DEF ClientsAdd
<1>5. SumFunctionOnSet(f, S) = f[c] + SumFunctionOnSet(f, R)
  <2>1. SumFunctionOnSet(f, S) = f[c] + SumFunctionOnSet(f, S \ {c})
    BY <1>2, <1>4, SumWithout
  <2> QED
    BY <1>1, <2>1
<1>6. SumFunctionOnSet(f, R) = SumFunctionOnSet(g, R)
  BY <1>3, <1>4, SumSame
<1> QED
  BY <1>1, <1>2, <1>4, <1>5, <1>6 DEF TotalOf

\* The day of a client ends, or not, and it is billed.
LEMMA BilledAdds ==
  ASSUME NEW u, ClientAdds(u), NEW n \in Nat, syncDay \in 1..LastDay,
         NEW v, v = Daily!Charged(Daily!Rolled(u), n)
  PROVE  ClientAdds(v) /\ v.used = u.used + n
<1>1. PICK r : r = Daily!Rolled(u)
  OBVIOUS
<1>2. /\ u.used \in Nat /\ u.date \in 1..LastDay /\ u.bytes \in Nat /\ u.all \in Nat /\ u.gone \in Nat
      /\ u.rows \in Seq(RowType) /\ Len(u.rows) <= MaxDailyRows
      /\ Daily!Bytes(u.rows) + u.gone + u.bytes = u.all
      /\ Daily!Bytes(u.rows) \in Nat
      /\ u = [used |-> u.used, date |-> u.date, bytes |-> u.bytes, rows |-> u.rows,
              all |-> u.all, gone |-> u.gone]
  BY BytesSum DEF ClientAdds, Daily!ClientType, RowType
<1>3. PICK rows, bytes, gone :
        /\ r = [used |-> u.used, date |-> syncDay, bytes |-> bytes, rows |-> rows,
                all |-> u.all, gone |-> gone]
        /\ bytes \in Nat /\ gone \in Nat
        /\ rows \in Seq(RowType) /\ Len(rows) <= MaxDailyRows
        /\ Daily!Bytes(rows) \in Nat /\ Daily!Bytes(rows) + gone + bytes = u.all
  <2>1. CASE u.date = syncDay
    BY <1>1, <1>2, <2>1 DEF Daily!Rolled
  <2>2. CASE u.date # syncDay
    <3>1. PICK row : row = Daily!Row(u.date, u.bytes)
      OBVIOUS
    <3>2. row \in RowType /\ row.bytes = u.bytes
      BY <1>2, <3>1 DEF Daily!Row, RowType
    <3>3. PICK rows : rows = Daily!Appended(u.rows, row, MaxDailyRows)
      OBVIOUS
    <3>4. /\ rows \in Seq(RowType) /\ Len(rows) <= MaxDailyRows
          /\ Daily!Bytes(rows) \in Nat /\ Daily!Bytes(rows) <= Daily!Bytes(u.rows) + u.bytes
      BY <1>2, <3>2, <3>3, BytesKept, DailyAssumption
    <3>5. PICK gone : gone = u.gone + Daily!Bytes(u.rows) + u.bytes - Daily!Bytes(rows)
      OBVIOUS
    <3>6. r = [u EXCEPT !.date = syncDay, !.bytes = 0, !.rows = rows, !.gone = gone]
      BY <1>1, <2>2, <3>1, <3>3, <3>5 DEF Daily!Rolled
    <3>7. r = [used |-> u.used, date |-> syncDay, bytes |-> 0, rows |-> rows,
               all |-> u.all, gone |-> gone]
      BY <1>2, <3>6
    <3>8. gone \in Nat /\ Daily!Bytes(rows) + gone + 0 = u.all
      BY <1>2, <3>4, <3>5
    <3> QED
      BY <3>4, <3>7, <3>8
  <2> QED
    BY <2>1, <2>2
<1>4. v = [r EXCEPT !.used = @ + n, !.bytes = @ + n, !.all = @ + n]
  BY <1>1 DEF Daily!Charged
<1>5. v = [used |-> u.used + n, date |-> syncDay, bytes |-> bytes + n, rows |-> rows,
           all |-> u.all + n, gone |-> gone]
  BY <1>3, <1>4
<1>6. u.used + n \in Nat /\ bytes + n \in Nat /\ u.all + n \in Nat
  <2>1. u.used \in Nat /\ bytes \in Nat /\ u.all \in Nat
    BY <1>2, <1>3
  <2>2. \A k \in Nat : k + n \in Nat
    OBVIOUS
  <2> QED
    BY <2>1, <2>2
<1>7. v \in Daily!ClientType
  BY <1>3, <1>5, <1>6 DEF Daily!ClientType, RowType
<1>8. Daily!Bytes(rows) + gone + (bytes + n) = u.all + n
  BY <1>2, <1>3
<1> QED
  BY <1>3, <1>5, <1>7, <1>8 DEF ClientAdds

\* Clients are billed n bytes, or some usage goes: what is shown stays covered.
LEMMA BillingGoesOn ==
  ASSUME NEW st, NEW new, NEW total \in Nat, NEW grown \in Nat, NEW n \in Nat, NEW read \in Nat,
         Billing(st, total), ReadBefore(st, read, total),
         new.date = st.date, new.anchor = st.anchor, new.rows = st.rows, new.gone = st.gone,
         new.touched \in BOOLEAN, new.billed \in Nat,
         st.date # 0 => new.billed = st.billed + n,
         grown <= total + n, ~new.touched => ~st.touched /\ grown = total + n
  PROVE  Billing(new, grown) /\ ReadBefore(new, read, grown)
<1>1. PICK b : b = Daily!Bytes(st.rows)
  OBVIOUS
<1>2. b \in Nat /\ st.anchor \in Nat /\ st.gone \in Nat /\ st.billed \in Nat
  BY <1>1, BytesSum DEF Billing, DayRows, RowType
<1>3. ASSUME NEW from \in Nat, Covered(st, from, total), st.date # 0,
             ~st.touched => from <= total
      PROVE  Covered(new, from, grown)
  <2>1. /\ b + st.gone + Daily!AtLeastZero(from - st.anchor) + Daily!AtLeastZero(total - from)
             <= st.billed
        /\ ~st.touched => st.anchor <= from /\ b + st.gone + total - st.anchor = st.billed
    BY <1>1, <1>3 DEF Covered
  <2>2. b + st.gone + Daily!AtLeastZero(from - st.anchor) + Daily!AtLeastZero(grown - from)
             <= st.billed + n
    BY <1>2, <2>1 DEF Daily!AtLeastZero
  <2>3. ~new.touched => st.anchor <= from /\ b + st.gone + grown - st.anchor = st.billed + n
    <3>1. ASSUME ~new.touched PROVE b + st.gone + grown - st.anchor = st.billed + n
      <4>1. grown = total + n /\ b + st.gone + total - st.anchor = st.billed
        BY <2>1, <3>1
      <4> QED
        BY <1>2, <4>1
    <3> QED
      BY <2>1, <3>1
  <2> QED
    BY <1>1, <1>3, <2>2, <2>3 DEF Covered
<1>4. st.date # 0 => Covered(new, read, grown)
  BY <1>3 DEF ReadBefore
<1>5. ~new.touched => read <= grown
  <2>1. ASSUME ~new.touched PROVE read <= grown
    <3>1. grown = total + n /\ read <= total
      BY <2>1 DEF ReadBefore
    <3> QED
      BY <3>1
  <2> QED
    BY <2>1
<1>6. st.date # 0 => Covered(new, grown, grown)
  <2>1. ASSUME st.date # 0 PROVE Covered(new, total, grown)
    BY <1>3, <2>1 DEF Billing
  <2>2. ASSUME st.date # 0 PROVE Covered(new, grown, grown)
    <3>1. /\ b + st.gone + Daily!AtLeastZero(total - st.anchor) + Daily!AtLeastZero(grown - total)
              <= new.billed
          /\ ~new.touched => st.anchor <= total /\ b + st.gone + grown - st.anchor = new.billed
      BY <1>1, <2>1, <2>2 DEF Covered
    <3>2. b + st.gone + Daily!AtLeastZero(grown - st.anchor) + Daily!AtLeastZero(grown - grown)
              <= new.billed
      <4>1. PICK m \in Nat : m = new.billed
        OBVIOUS
      <4> QED
        BY <1>2, <3>1, <4>1 DEF Daily!AtLeastZero
    <3>3. ~new.touched => st.anchor <= grown
      <4>1. ASSUME ~new.touched PROVE st.anchor <= grown
        <5>1. grown = total + n /\ st.anchor <= total
          BY <3>1, <4>1
        <5> QED
          BY <1>2, <5>1
      <4> QED
        BY <4>1
    <3> QED
      BY <1>1, <3>1, <3>2, <3>3 DEF Covered
  <2> QED
    BY <2>2
<1>7. st.date = 0 => new.rows = <<>> /\ new.gone = 0
  BY DEF Billing
<1>8. {new.anchor, new.billed, new.gone} \subseteq Nat /\ DayRows(new.rows)
  BY <1>2 DEF Billing
<1> QED
  BY <1>4, <1>5, <1>6, <1>7, <1>8 DEF Billing, ReadBefore

\* A commit that changes clients.
LEMMA ClientsCount ==
  ASSUME DailyInv, AddingInv, UNCHANGED <<totalRead, readDay, day>>,
         changes' \in 0..MaxChanges, crossed' \subseteq Clients,
         NEW clients, NEW billed \in Nat, NEW touched \in BOOLEAN, NEW n \in Nat,
         mem' = [mem EXCEPT !.clients = clients, !.billed = billed, !.touched = touched],
         ClientsAdd(clients), saved' \in {saved, mem'},
         mem.date # 0 => billed = mem.billed + n,
         TotalOf(clients) <= TotalOf(mem.clients) + n,
         ~touched => ~mem.touched /\ TotalOf(clients) = TotalOf(mem.clients) + n
  PROVE  AddingInv'
<1>1. PICK st, new, total, grown :
         /\ st = mem /\ new = mem'
         /\ total = TotalOf(mem.clients) /\ grown = TotalOf(clients)
  OBVIOUS
<1>2. /\ new = [st EXCEPT !.clients = clients, !.billed = billed, !.touched = touched]
      /\ st = [clients |-> st.clients, date |-> st.date, anchor |-> st.anchor, rows |-> st.rows,
               billed |-> st.billed, gone |-> st.gone, touched |-> st.touched]
  BY <1>1 DEF DailyInv, StoreInv, IsStore
<1>3. new = [clients |-> clients, date |-> st.date, anchor |-> st.anchor, rows |-> st.rows,
             billed |-> billed, gone |-> st.gone, touched |-> touched]
  BY <1>2
<1>4. /\ new.clients = clients /\ new.date = st.date /\ new.anchor = st.anchor
      /\ new.rows = st.rows /\ new.gone = st.gone
      /\ new.touched = touched /\ new.billed = billed
  BY <1>3
<1>5. total \in Nat /\ grown \in Nat
  BY <1>1, UsedType DEF AddingInv, StoreAdds
<1>6. Billing(st, total) /\ (totalRead # -1 => ReadBefore(st, totalRead, total))
  BY <1>1, TotalSum DEF AddingInv, StoreAdds
<1>7. ASSUME NEW read \in Nat, ReadBefore(st, read, total)
      PROVE  Billing(new, grown) /\ ReadBefore(new, read, grown)
  <2>1. /\ new.billed \in Nat /\ new.touched \in BOOLEAN
        /\ st.date # 0 => new.billed = st.billed + n
        /\ grown <= total + n
        /\ ~new.touched => ~st.touched /\ grown = total + n
    BY <1>1, <1>4
  <2> QED
    BY <1>4, <1>5, <1>6, <1>7, <2>1, BillingGoesOn
<1>8. ReadBefore(st, total, total)
  BY <1>5, <1>6 DEF Billing, ReadBefore
<1>9. Billing(new, grown) /\ (totalRead # -1 => ReadBefore(new, totalRead, grown))
  BY <1>5, <1>6, <1>7, <1>8 DEF AddingInv
<1>10. Daily!Total(new) = grown
  BY <1>1, <1>4, TotalSum
<1>11. StoreAdds(new)
  BY <1>4, <1>9, <1>10 DEF StoreAdds
<1>12. totalRead # -1 => ReadBefore(new, totalRead, Daily!Total(new))
  BY <1>9, <1>10
<1> QED
  BY <1>1, <1>11, <1>12 DEF AddingInv

\* Creating, deleting and resetting clients is bounded.
LEMMA Changed ==
  ASSUME AddingInv, Daily!Change
  PROVE  changes' \in 0..MaxChanges
BY DailyAssumption DEF AddingInv, Daily!Change

LEMMA CreateAdds ==
  ASSUME DailyInv, AddingInv, NEW c \in Clients, Daily!Create(c)
  PROVE  AddingInv'
<1>1. PICK old, clients, u :
         /\ old = mem.clients /\ u = Daily!NewClient(day)
         /\ clients = [x \in DOMAIN old \cup {c} |-> IF x = c THEN u ELSE old[x]]
  OBVIOUS
<1>2. mem' = [mem EXCEPT !.clients = clients, !.billed = mem.billed, !.touched = mem.touched]
  <2>1. mem' = [mem EXCEPT !.clients = clients]
    BY <1>1 DEF Daily!Create, Daily!Commit, Daily!Present
  <2> QED
    BY <2>1 DEF DailyInv, StoreInv, IsStore
<1>3. ClientsAdd(old) /\ c \notin DOMAIN old /\ TotalOf(old) \in Nat
  BY <1>1, UsedType DEF AddingInv, StoreAdds, Daily!Create, Daily!Present
<1>4. ClientAdds(u) /\ u.used = 0
  <2>1. /\ u = [used |-> 0, date |-> day, bytes |-> 0, rows |-> <<>>, all |-> 0, gone |-> 0]
        /\ day \in 1..LastDay
    BY <1>1 DEF Daily!NewClient, DailyInv
  <2>2. u \in Daily!ClientType
    BY <2>1, NoBytes DEF Daily!ClientType, RowType
  <2>3. Len(<<>>) = 0
    BY EmptySeq
  <2> QED
    BY <2>1, <2>2, <2>3, NoBytes, DailyAssumption DEF ClientAdds
<1>5. ClientsAdd(clients)
  <2>1. IsFiniteSet(DOMAIN old \cup {c})
    BY <1>3, FS_AddElement DEF ClientsAdd
  <2>2. DOMAIN clients = DOMAIN old \cup {c}
    BY <1>1
  <2> QED
    BY <1>1, <1>3, <1>4, <2>1, <2>2 DEF ClientsAdd
<1>6. TotalOf(clients) = TotalOf(old)
  <2>1. c \in DOMAIN clients /\ DOMAIN old = DOMAIN clients \ {c}
    BY <1>1, <1>3
  <2>2. \A x \in DOMAIN old : old[x].used = clients[x].used
    BY <1>1, <1>3
  <2>3. TotalOf(clients) = clients[c].used + TotalOf(old)
    BY <1>3, <1>5, <2>1, <2>2, OneLess
  <2> QED
    BY <1>1, <1>3, <1>4, <2>3
<1>7. /\ UNCHANGED <<totalRead, readDay, day>> /\ changes' \in 0..MaxChanges
      /\ crossed' \subseteq Clients /\ saved' \in {saved, mem'}
  BY Changed DEF Daily!Create, Daily!Commit, Daily!recording, AddingInv
<1>8. /\ mem.billed \in Nat /\ mem.touched \in BOOLEAN
      /\ mem.date # 0 => mem.billed = mem.billed + 0
      /\ TotalOf(clients) <= TotalOf(mem.clients) + 0
      /\ ~mem.touched => ~mem.touched /\ TotalOf(clients) = TotalOf(mem.clients) + 0
  BY <1>1, <1>3, <1>6 DEF AddingInv, StoreAdds, Billing
<1> QED
  BY <1>2, <1>5, <1>7, <1>8, ClientsCount

LEMMA DeleteAdds ==
  ASSUME DailyInv, AddingInv, NEW c \in Clients, Daily!Delete(c)
  PROVE  AddingInv'
<1>1. PICK old, clients, touched :
         /\ old = mem.clients
         /\ clients = [x \in DOMAIN old \ {c} |-> old[x]]
         /\ touched = (mem.touched \/ old[c].used > 0)
  OBVIOUS
<1>2. mem' = [mem EXCEPT !.clients = clients, !.billed = mem.billed, !.touched = touched]
  <2>1. mem' = [mem EXCEPT !.clients = clients, !.touched = touched]
    BY <1>1 DEF Daily!Delete, Daily!Commit, Daily!Present
  <2> QED
    BY <2>1 DEF DailyInv, StoreInv, IsStore
<1>3. ClientsAdd(old) /\ c \in DOMAIN old /\ old[c].used \in Nat
  BY <1>1 DEF AddingInv, StoreAdds, Daily!Delete, Daily!Present, ClientsAdd, ClientAdds,
     Daily!ClientType
<1>4. ClientsAdd(clients) /\ TotalOf(clients) \in Nat
  <2>1. IsFiniteSet(DOMAIN old \ {c})
    BY <1>3, FS_RemoveElement DEF ClientsAdd
  <2>2. DOMAIN clients = DOMAIN old \ {c}
    BY <1>1
  <2>3. ClientsAdd(clients)
    BY <1>1, <1>3, <2>1, <2>2 DEF ClientsAdd
  <2> QED
    BY <2>3, UsedType
<1>5. TotalOf(old) = old[c].used + TotalOf(clients)
  <2>1. DOMAIN clients = DOMAIN old \ {c} /\ \A x \in DOMAIN clients : clients[x].used = old[x].used
    BY <1>1
  <2> QED
    BY <1>3, <1>4, <2>1, OneLess
<1>6. /\ UNCHANGED <<totalRead, readDay, day>> /\ changes' \in 0..MaxChanges
      /\ crossed' \subseteq Clients /\ saved' \in {saved, mem'}
  BY Changed DEF Daily!Delete, Daily!Commit, Daily!recording, AddingInv
<1>7. mem.billed \in Nat /\ mem.touched \in BOOLEAN
  BY DEF AddingInv, StoreAdds, Billing
<1>8. /\ touched \in BOOLEAN /\ (mem.date # 0 => mem.billed = mem.billed + 0)
      /\ TotalOf(clients) <= TotalOf(mem.clients) + 0
      /\ ~touched => ~mem.touched /\ TotalOf(clients) = TotalOf(mem.clients) + 0
  <2>1. TotalOf(clients) <= TotalOf(old)
    BY <1>3, <1>4, <1>5
  <2>2. ~touched => old[c].used = 0 /\ ~mem.touched
    <3>1. ~touched => ~mem.touched /\ ~(old[c].used > 0)
      BY <1>1, Zenon
    <3>2. ~(old[c].used > 0) => old[c].used = 0
      BY <1>3
    <3> QED
      BY <3>1, <3>2
  <2>3. old[c].used = 0 => TotalOf(clients) = TotalOf(old)
    BY <1>4, <1>5
  <2>4. TotalOf(old) \in Nat
    BY <1>3, <1>4, <1>5
  <2> QED
    BY <1>1, <1>7, <2>1, <2>2, <2>3, <2>4
<1> QED
  BY <1>2, <1>4, <1>6, <1>7, <1>8, ClientsCount

LEMMA ResetAdds ==
  ASSUME DailyInv, AddingInv, NEW c \in Clients, Daily!Reset(c)
  PROVE  AddingInv'
<1>1. PICK old, clients :
         old = mem.clients /\ clients = [old EXCEPT ![c] = [@ EXCEPT !.used = 0]]
  OBVIOUS
<1>2. mem' = [mem EXCEPT !.clients = clients, !.billed = mem.billed, !.touched = TRUE]
  BY <1>1 DEF Daily!Reset, Daily!Commit, DailyInv, StoreInv, IsStore
<1>3. ClientsAdd(old) /\ c \in DOMAIN old /\ old[c].used \in Nat
  BY <1>1 DEF AddingInv, StoreAdds, Daily!Reset, Daily!Present, ClientsAdd, ClientAdds,
     Daily!ClientType
<1>4. PICK u : u = [old[c] EXCEPT !.used = 0]
  OBVIOUS
<1>5. /\ DOMAIN clients = DOMAIN old
      /\ \A x \in DOMAIN old : clients[x] = IF x = c THEN u ELSE old[x]
  BY <1>1, <1>4 DEF DailyInv, StoreInv, IsStore
<1>6. ClientAdds(u) /\ u.used = 0
  <2>1. PICK v : v = old[c] /\ v \in Daily!ClientType
    BY <1>3 DEF ClientsAdd, ClientAdds
  <2>2. /\ u \in Daily!ClientType /\ u.used = 0 /\ u.rows = v.rows /\ u.gone = v.gone
        /\ u.bytes = v.bytes /\ u.all = v.all
    BY <1>4, <2>1 DEF Daily!ClientType
  <2>3. ClientAdds(v)
    BY <1>3, <2>1 DEF ClientsAdd
  <2> QED
    BY <2>2, <2>3 DEF ClientAdds
<1>7. ClientsAdd(clients)
  BY <1>3, <1>5, <1>6 DEF ClientsAdd
<1>8. PICK rest \in Nat : /\ TotalOf(old) = old[c].used + rest
                          /\ TotalOf(clients) = clients[c].used + rest
  <2>1. \A x \in DOMAIN old \ {c} : clients[x].used = old[x].used
    BY <1>5
  <2> QED
    BY <1>3, <1>5, <1>7, <2>1, OneUsed
<1>9. /\ UNCHANGED <<totalRead, readDay, day>> /\ changes' \in 0..MaxChanges
      /\ crossed' \subseteq Clients /\ saved' \in {saved, mem'}
  BY Changed DEF Daily!Reset, Daily!Commit, Daily!recording, AddingInv
<1>10. mem.billed \in Nat
  BY DEF AddingInv, StoreAdds, Billing
<1>11. TotalOf(clients) <= TotalOf(mem.clients) + 0 /\ mem.billed = mem.billed + 0
  <2>1. clients[c].used = 0
    BY <1>3, <1>5, <1>6
  <2> QED
    BY <1>1, <1>3, <1>8, <1>10, <2>1
<1> QED
  BY <1>2, <1>7, <1>9, <1>10, <1>11, ClientsCount

LEMMA SyncUpdatesAdds ==
  ASSUME DailyInv, AddingInv, NEW c \in Clients, NEW n \in 0..1, Daily!SyncUpdates(c, n)
  PROVE  AddingInv'
<1>1. PICK old, clients, billed :
         /\ old = mem.clients
         /\ clients = [x \in DOMAIN old |->
                         Daily!Charged(Daily!Rolled(old[x]), IF x = c THEN n ELSE 0)]
         /\ billed = IF mem.date = 0 THEN 0 ELSE mem.billed + n
  OBVIOUS
<1>2. mem' = [mem EXCEPT !.clients = clients, !.billed = billed, !.touched = mem.touched]
  <2>1. mem' = [mem EXCEPT !.clients = clients, !.billed = billed]
    BY <1>1 DEF Daily!SyncUpdates, Daily!Present
  <2> QED
    BY <2>1 DEF DailyInv, StoreInv, IsStore
<1>3. ClientsAdd(old) /\ c \in DOMAIN old /\ TotalOf(old) \in Nat
  BY <1>1, UsedType DEF AddingInv, StoreAdds, Daily!SyncUpdates, Daily!Present
<1>4. syncDay \in 1..LastDay
  BY DailyAssumption DEF DailyInv, Daily!SyncUpdates
<1>5. ASSUME NEW x \in DOMAIN old
      PROVE  /\ ClientAdds(clients[x])
             /\ clients[x].used = old[x].used + (IF x = c THEN n ELSE 0)
             /\ old[x].used \in Nat
  <2>1. PICK u, v, k : u = old[x] /\ v = clients[x] /\ k = (IF x = c THEN n ELSE 0) /\ k \in Nat
    OBVIOUS
  <2>2. ClientAdds(u) /\ v = Daily!Charged(Daily!Rolled(u), k) /\ k \in Nat
    BY <1>1, <1>3, <2>1 DEF ClientsAdd
  <2>3. ClientAdds(v) /\ v.used = u.used + k
    BY <1>4, <2>2, BilledAdds
  <2>4. u.used \in Nat
    BY <2>2 DEF ClientAdds, Daily!ClientType
  <2> QED
    BY <2>1, <2>3, <2>4
<1>6. DOMAIN clients = DOMAIN old
  BY <1>1
<1>7. ClientsAdd(clients)
  BY <1>3, <1>5, <1>6 DEF ClientsAdd
<1>8. TotalOf(clients) = TotalOf(old) + n
  <2>1. \A x \in DOMAIN old \ {c} : clients[x].used = old[x].used
    BY <1>5
  <2>2. PICK rest \in Nat : /\ TotalOf(old) = old[c].used + rest
                            /\ TotalOf(clients) = clients[c].used + rest
    BY <1>3, <1>6, <1>7, <2>1, OneUsed
  <2>3. PICK k \in Nat : k = old[c].used
    BY <1>3, <1>5
  <2>4. clients[c].used = k + n
    BY <1>3, <1>5, <2>3
  <2> QED
    BY <2>2, <2>3, <2>4
<1>9. /\ UNCHANGED <<totalRead, readDay, day>> /\ changes' \in 0..MaxChanges
      /\ crossed' \subseteq Clients /\ saved' \in {saved, mem'}
  BY DEF Daily!SyncUpdates, Daily!recording, AddingInv
<1>10. mem.billed \in Nat /\ mem.touched \in BOOLEAN
  BY DEF AddingInv, StoreAdds, Billing
<1>11. /\ billed \in Nat /\ n \in Nat
       /\ mem.date # 0 => billed = mem.billed + n
       /\ TotalOf(clients) <= TotalOf(mem.clients) + n
       /\ ~mem.touched => ~mem.touched /\ TotalOf(clients) = TotalOf(mem.clients) + n
  BY <1>1, <1>3, <1>8, <1>10
<1> QED
  BY <1>2, <1>7, <1>9, <1>10, <1>11, ClientsCount

\* A row for the day that ended; or the first anchor.
LEMMA RecordAdds ==
  ASSUME DailyInv, AddingInv, Daily!Record
  PROVE  AddingInv'
<1>1. /\ totalRead # -1 /\ totalRead' = -1 /\ readDay' = 0 /\ saved' = mem'
      /\ UNCHANGED <<day, syncDay, changes, crossed>>
  BY DEF Daily!Record, Daily!Returned, Daily!Commit
<1>2. PICK st, new, total, read :
         st = mem /\ new = mem' /\ total = Daily!Total(mem) /\ read = totalRead
  OBVIOUS
<1>3. /\ IsStore(st) /\ st.date \in 0..LastDay /\ readDay \in 1..LastDay /\ day \in Nat
      /\ ClientsAdd(st.clients) /\ Billing(st, total)
      /\ read \in Nat /\ ReadBefore(st, read, total)
  BY <1>1, <1>2, DailyAssumption DEF DailyInv, StoreInv, AddingInv, StoreAdds
<1>4. total \in Nat
  <2>1. total = TotalOf(st.clients)
    BY <1>2, TotalSum
  <2> QED
    BY <1>3, <2>1, UsedType
<1>5. PICK b : b = Daily!Bytes(st.rows)
  OBVIOUS
<1>6. /\ st.rows \in Seq(RowType) /\ b \in Nat /\ st.anchor \in Nat /\ st.gone \in Nat
      /\ st.billed \in Nat /\ st.touched \in BOOLEAN
  BY <1>3, <1>5, BytesSum DEF Billing, DayRows, RowType
<1>7. /\ new.clients = st.clients /\ Billing(new, total)
  <2>1. CASE mem.date = 0
    <3>1. PICK billed : billed = Daily!AtLeastZero(total - read)
      OBVIOUS
    <3>2. new = [st EXCEPT !.date = readDay, !.anchor = read, !.billed = billed]
      BY <1>2, <2>1, <3>1 DEF Daily!Record, Daily!Commit
    <3>3. new = [clients |-> st.clients, date |-> readDay, anchor |-> read,
                 rows |-> st.rows, billed |-> billed, gone |-> st.gone, touched |-> st.touched]
      BY <1>3, <3>2 DEF IsStore
    <3>4. billed \in Nat
      BY <1>3, <1>4, <3>1 DEF Daily!AtLeastZero
    <3>5. st.rows = <<>> /\ st.gone = 0 /\ b = 0
      BY <1>2, <1>3, <1>5, <2>1, NoBytes DEF Billing
    <3>6. 0 + 0 + Daily!AtLeastZero(total - read) + Daily!AtLeastZero(total - total) <= billed
      BY <1>3, <1>4, <3>1, <3>4 DEF Daily!AtLeastZero
    <3>7. ~st.touched => read <= total /\ 0 + 0 + total - read = billed
      <4>1. ~st.touched => read <= total
        BY <1>3 DEF ReadBefore
      <4>2. read <= total => 0 + 0 + total - read = billed
        BY <1>3, <1>4, <3>1 DEF Daily!AtLeastZero
      <4> QED
        BY <4>1, <4>2
    <3>8. Covered(new, total, total)
      BY <1>5, <3>3, <3>5, <3>6, <3>7 DEF Covered
    <3> QED
      BY <1>3, <1>6, <3>3, <3>4, <3>8 DEF Billing
  <2>2. CASE mem.date # 0
    <3>1. PICK row, rows :
             /\ row = Daily!Row(st.date, Daily!AtLeastZero(read - st.anchor))
             /\ rows = Daily!Appended(st.rows, row, MaxUsageRows)
      OBVIOUS
    <3>2. row \in RowType /\ row.bytes = Daily!AtLeastZero(read - st.anchor)
      <4>1. Daily!AtLeastZero(read - st.anchor) \in Nat
        BY <1>3, <1>6 DEF Daily!AtLeastZero
      <4>2. st.date \in 1..LastDay
        BY <1>2, <1>3, <2>2
      <4> QED
        BY <3>1, <4>1, <4>2 DEF Daily!Row, RowType
    <3>3. PICK a, kept : a = row.bytes /\ kept = Daily!Bytes(rows)
      OBVIOUS
    <3>4. /\ rows \in Seq(RowType) /\ Len(rows) <= MaxUsageRows
          /\ kept \in Nat /\ kept <= b + a
      BY <1>5, <1>6, <3>1, <3>2, <3>3, BytesKept, DailyAssumption
    <3>5. PICK gone : gone = st.gone + b + a - kept
      OBVIOUS
    <3>6. new = [st EXCEPT !.date = readDay, !.anchor = read, !.rows = rows, !.gone = gone]
      BY <1>2, <1>5, <2>2, <3>1, <3>3, <3>5 DEF Daily!Record, Daily!Commit
    <3>7. new = [clients |-> st.clients, date |-> readDay, anchor |-> read, rows |-> rows,
                 billed |-> st.billed, gone |-> gone, touched |-> st.touched]
      BY <1>3, <3>6 DEF IsStore
    <3>8. a \in Nat
      BY <3>2, <3>3 DEF RowType
    <3>9. gone \in Nat /\ kept + gone = b + st.gone + a
      BY <1>6, <3>4, <3>5, <3>8
    <3>10. /\ b + st.gone + a + Daily!AtLeastZero(total - read) <= st.billed
           /\ ~st.touched => /\ st.anchor <= read /\ read <= total
                             /\ b + st.gone + total - st.anchor = st.billed
      BY <1>2, <1>3, <1>5, <2>2, <3>2, <3>3 DEF ReadBefore, Covered
    <3>11. kept + gone + Daily!AtLeastZero(total - read) + Daily!AtLeastZero(total - total)
             <= st.billed
      BY <1>3, <1>4, <1>6, <3>4, <3>8, <3>9, <3>10 DEF Daily!AtLeastZero
    <3>12. ~st.touched => read <= total /\ kept + gone + total - read = st.billed
      <4>1. ~st.touched => st.anchor <= read /\ read <= total
        BY <3>10
      <4>2. st.anchor <= read => a = read - st.anchor
        BY <1>3, <1>6, <3>2, <3>3 DEF Daily!AtLeastZero
      <4>3. ASSUME a = read - st.anchor, b + st.gone + total - st.anchor = st.billed
            PROVE  kept + gone + total - read = st.billed
        <5>1. PICK g, k, z : g = st.gone /\ k = st.anchor /\ z = st.billed
          OBVIOUS
        <5>2. /\ g \in Nat /\ k \in Nat /\ z \in Nat /\ gone \in Nat
              /\ kept + gone = b + g + a /\ a = read - k /\ b + g + total - k = z
          BY <1>6, <3>9, <4>3, <5>1
        <5>3. kept + gone + total - read = z
          BY <1>3, <1>4, <1>6, <3>4, <3>8, <5>2
        <5> QED
          BY <5>1, <5>3
      <4> QED
        BY <3>10, <4>1, <4>2, <4>3
    <3>13. Covered(new, total, total)
      BY <3>3, <3>7, <3>11, <3>12 DEF Covered
    <3>14. DayRows(rows)
      BY <3>4 DEF DayRows, RowType
    <3> QED
      BY <1>3, <1>6, <3>7, <3>9, <3>13, <3>14 DEF Billing
  <2> QED
    BY <2>1, <2>2
<1>8. Daily!Total(new) = total
  BY <1>2, <1>7, TotalSum
<1>9. StoreAdds(new)
  BY <1>3, <1>7, <1>8 DEF StoreAdds
<1> QED
  BY <1>1, <1>2, <1>3, <1>9 DEF AddingInv

LEMMA AddingStep ==
  ASSUME DailyInv, AddingInv, [Daily!Next]_dayVars
  PROVE  AddingInv'
<1> USE DEF Daily!recording
<1>1. day \in Nat /\ readDay \in 0..day
  BY DailyAssumption DEF DailyInv, AddingInv
<1>2. ASSUME UNCHANGED <<mem, saved, changes, crossed, totalRead, readDay>>, day' \in Nat, day <= day'
      PROVE  AddingInv'
  BY <1>1, <1>2 DEF AddingInv
<1>3. CASE Daily!DayPasses
  <2>1. day' = day + 1
    BY <1>3 DEF Daily!DayPasses
  <2> QED
    BY <1>1, <1>2, <1>3, <2>1 DEF Daily!DayPasses
<1>4. CASE Daily!SyncBegins \/ Daily!SyncEnds \/ UNCHANGED dayVars
  BY <1>1, <1>2, <1>4 DEF Daily!SyncBegins, Daily!SyncEnds, dayVars
<1>5. CASE Daily!Save
  BY <1>5 DEF Daily!Save, AddingInv
<1>6. CASE Daily!Crash
  BY <1>1, <1>6 DEF Daily!Crash, Daily!Returned, AddingInv
<1>7. CASE Daily!ReadTotal
  <2>1. /\ totalRead' = Daily!Total(mem) /\ readDay' = day
        /\ UNCHANGED <<day, mem, saved, changes, crossed>>
    BY <1>7 DEF Daily!ReadTotal
  <2>2. PICK st, total : st = mem /\ total = Daily!Total(mem)
    OBVIOUS
  <2>3. total \in Nat
    BY <2>2, TotalSum, UsedType DEF AddingInv, StoreAdds
  <2>4. ReadBefore(st, total, total)
    BY <2>2, <2>3 DEF AddingInv, StoreAdds, Billing, ReadBefore
  <2> QED
    BY <1>1, <2>1, <2>2, <2>3, <2>4 DEF AddingInv
<1>8. CASE Daily!RecordRefused
  BY <1>1, <1>8 DEF Daily!RecordRefused, Daily!Returned, AddingInv
<1> QED
  BY <1>3, <1>4, <1>5, <1>6, <1>7, <1>8, CreateAdds, DeleteAdds, ResetAdds, SyncUpdatesAdds,
     RecordAdds DEF Daily!Next

\* What is billed (syncTraffic) and what the days show (recordDailyUsage), in the
\* store and in the file: a client's rows, the day it is in and the rows no longer
\* kept hold all that was billed to it, the days of all clients never more than
\* was billed, and the same is so with a total that has been read and not used.
THEOREM AddingCorrect == PartsSpec => []AddingInv
<1>1. ASSUME PartsInit PROVE AddingInv
  <2>1. PICK st : st = Daily!NewStore
    OBVIOUS
  <2>2. /\ st.clients = <<>> /\ st.date = 0 /\ st.anchor = 0 /\ st.rows = <<>>
        /\ st.billed = 0 /\ st.gone = 0 /\ st.touched = FALSE
    BY <2>1 DEF Daily!NewStore
  <2>3. DOMAIN st.clients = {}
    BY <2>2
  <2>4. /\ totalRead = -1 /\ readDay = 0 /\ day = 1 /\ changes = 0 /\ crossed = {}
        /\ mem = st /\ saved = st
    BY <1>1, <2>1, PartsBegin DEF Daily!Init
  <2>5. ClientsAdd(st.clients)
    BY <2>3, FS_EmptySet DEF ClientsAdd
  <2>6. DayRows(st.rows)
    <3>1. <<>> \in Seq([date : 1..LastDay, bytes : Nat]) /\ Len(<<>>) = 0
      BY EmptySeq
    <3> QED
      BY <2>2, <3>1, DailyAssumption DEF DayRows
  <2>7. Billing(st, Daily!Total(st))
    <3>1. st.anchor \in Nat /\ st.billed \in Nat /\ st.gone \in Nat
      BY <2>2
    <3>2. st.touched \in BOOLEAN
      BY <2>2, Zenon
    <3> QED
      BY <2>2, <2>6, <3>1, <3>2 DEF Billing
  <2>8. StoreAdds(st)
    BY <2>5, <2>7 DEF StoreAdds
  <2> QED
    BY <2>4, <2>8, DailyAssumption DEF AddingInv
<1>2. DailyInv /\ AddingInv /\ [PartsNext]_partVars => AddingInv'
  BY PartsStep, AddingStep
<1> QED
  BY DailyCorrect, <1>1, <1>2, PTL DEF PartsSpec

\* The days of all clients never add up to more than was billed since the first
\* anchor, and to exactly that while no usage was reset or deleted; a client's own
\* days add up to all that was billed to it.  For any number of clients and days,
\* whatever is billed, refused or lost in a crash between the reading of the total
\* and the commit that uses it.
THEOREM DaysAreRight == PartsSpec => []DaysAddUp
<1>1. ASSUME DailyInv, AddingInv PROVE DaysAddUp
  <2>1. PICK st, total, b : st = mem /\ total = Daily!Total(mem) /\ b = Daily!Bytes(mem.rows)
    OBVIOUS
  <2>2. ClientsAdd(st.clients) /\ Billing(st, total)
    BY <1>1, <2>1 DEF AddingInv, StoreAdds
  <2>3. total \in Nat /\ b \in Nat /\ st.anchor \in Nat /\ st.gone \in Nat /\ st.billed \in Nat
    BY <2>1, <2>2, TotalSum, UsedType, BytesSum DEF Billing, DayRows, RowType
  <2>4. PICK soFar : soFar = Daily!Today(mem)
    OBVIOUS
  <2>5. soFar = Daily!AtLeastZero(total - st.anchor)
    BY <2>1, <2>4 DEF Daily!Today
  <2>6. ASSUME mem.date # 0
        PROVE  /\ b + st.gone + soFar <= st.billed
               /\ ~st.touched => b + st.gone + soFar = st.billed
    <3>1. /\ b + st.gone + Daily!AtLeastZero(total - st.anchor) + Daily!AtLeastZero(total - total)
               <= st.billed
          /\ ~st.touched => st.anchor <= total /\ b + st.gone + total - st.anchor = st.billed
      BY <2>1, <2>2, <2>6 DEF Billing, Covered
    <3>2. b + st.gone + soFar <= st.billed
      BY <2>3, <2>5, <3>1 DEF Daily!AtLeastZero
    <3>3. ASSUME st.anchor <= total, b + st.gone + total - st.anchor = st.billed
          PROVE  b + st.gone + soFar = st.billed
      BY <2>3, <2>5, <3>3 DEF Daily!AtLeastZero
    <3> QED
      BY <3>1, <3>2, <3>3
  <2>7. \A c \in DOMAIN mem.clients :
          LET u == mem.clients[c] IN Daily!Bytes(u.rows) + u.gone + u.bytes = u.all
    BY <2>1, <2>2 DEF ClientsAdd, ClientAdds
  <2> QED
    BY <2>1, <2>4, <2>6, <2>7 DEF DaysAddUp, Daily!DaysAddUp, Daily!Present
<1> QED
  BY DailyCorrect, AddingCorrect, <1>1, PTL

-----------------------------------------------------------------------------
(* The settings and the relay (app.go, settings_apply.go) *)

\* A landing host with the port and the secret it needs to be reached.
Whole(r) == r.role = "landing" => r.port # 0 /\ r.secret # 0

\* Every port in use, on a page or on its way was handed out before; an inbound
\* has one of them only if it took it afterwards.
PortInv ==
    /\ settings.relay.port \in handed \cup {0}
    /\ \A h \in Pages : page[h].port \in handed \cup {0}
    /\ \A h \in Pages : request[h].relay.port \in handed \cup {0}
    /\ handed \cap inbounds \subseteq doubled

\* Steps of a request that normalizeRelay has completed.
Completed == {"normalized", "save", "apply", "commit"}

\* What a page shows is a landing host's or none; a request under way is what
\* the page showed, unless it was completed while the host was none.
Honest(h) ==
    /\ Whole(page[h]) /\ Whole(request[h].shown)
    /\ request[h].step = "received" => ~request[h].first
    /\ request[h].step \in Completed => Whole(request[h].relay)
    /\ request[h].shown.role = "landing" /\ request[h].relay.role = "landing" /\ ~request[h].first
         => request[h].relay = request[h].shown
    /\ request[h].step = "save" /\ request[h].alone
         => request[h].access = settings.access /\ request[h].relay = settings.relay

RequestInv == \A h \in Pages : Honest(h)

ReqType == [step : Settings!Steps \cup {"none", "ok", "refused"}, access : 0..1, detail : BOOLEAN,
            shown : Settings!Relays, relay : Settings!Relays, first : BOOLEAN, alone : BOOLEAN]

\* The types, with the requests as a function.
SettingsTypes ==
    /\ settings \in [access : 0..1, detail : BOOLEAN, relay : Settings!Relays]
    /\ Whole(settings.relay)
    /\ inbounds \subseteq RelayPorts /\ applying \in BOOLEAN
    /\ page \in [Pages -> Settings!Relays]
    /\ request \in [Pages -> ReqType]
    /\ given \in 0..MaxGiven /\ requests \in 0..MaxRequests
    /\ handed \subseteq RelayPorts /\ doubled \subseteq inbounds

SettingsInv == SettingsTypes /\ PortInv /\ RequestInv

LEMMA RelayFields ==
  ASSUME NEW r \in Settings!Relays
  PROVE  /\ r.role \in {"off", "transit", "landing"}
         /\ r.port \in RelayPorts \cup {0} /\ r.secret \in 0..MaxGiven
         /\ r.role = "landing" \/ r = Settings!Relay(r.role, 0, 0)
         /\ r = Settings!Relay(r.role, r.port, r.secret)
BY SettingsAssumption DEF Settings!Relays, Settings!Off, Settings!Relay

LEMMA RelayMade ==
  ASSUME NEW p \in RelayPorts \cup {0}, NEW n \in 0..MaxGiven
  PROVE  /\ Settings!Relay("landing", p, n) \in Settings!Relays
         /\ Settings!Relay("off", 0, 0) \in Settings!Relays
         /\ Settings!Relay("transit", 0, 0) \in Settings!Relays
BY DEF Settings!Relays, Settings!Off, Settings!Relay

LEMMA RelayParts ==
  ASSUME NEW role, NEW p, NEW n
  PROVE  /\ Settings!Relay(role, p, n).role = role
         /\ Settings!Relay(role, p, n).port = p
         /\ Settings!Relay(role, p, n).secret = n
BY DEF Settings!Relay

\* A request that is answered, with success or not, leaves the others as they
\* were but for meeting it.
LEMMA Answered ==
  ASSUME SettingsInv, NEW h \in Pages, NEW o \in {"ok", "refused"},
         request' = [Settings!Alone(h) EXCEPT ![h] = Settings!Rest(o)]
  PROVE  /\ request' \in [Pages -> ReqType]
         /\ request'[h] = Settings!Rest(o)
         /\ \A g \in Pages \ {h} :
              /\ request'[g].step = request[g].step /\ request'[g].access = request[g].access
              /\ request'[g].shown = request[g].shown /\ request'[g].relay = request[g].relay
              /\ request'[g].first = request[g].first
              /\ Settings!Pending(g) => ~request'[g].alone
<1>1. Settings!Rest(o) \in ReqType
  <2>1. Settings!Off \in Settings!Relays
    BY DEF Settings!Relays
  <2> QED
    BY <2>1 DEF Settings!Rest, ReqType
<1>2. request \in [Pages -> ReqType]
  BY DEF SettingsInv, SettingsTypes
<1>3. request' = [g \in Pages |-> IF g = h THEN Settings!Rest(o)
                                  ELSE IF Settings!Pending(g)
                                       THEN [request[g] EXCEPT !.alone = FALSE]
                                       ELSE request[g]]
  BY DEF Settings!Alone
<1>4. \A g \in Pages : [request[g] EXCEPT !.alone = FALSE] \in ReqType
  BY <1>2 DEF ReqType
<1>5. request' \in [Pages -> ReqType]
  BY <1>1, <1>2, <1>3, <1>4
<1> QED
  BY <1>2, <1>3, <1>5 DEF ReqType

\* A request that goes on, the others as they were.
LEMMA GoesOn ==
  ASSUME SettingsInv, NEW h \in Pages, NEW q \in ReqType, request' = [request EXCEPT ![h] = q]
  PROVE  /\ request' \in [Pages -> ReqType]
         /\ request'[h] = q
         /\ \A g \in Pages \ {h} : request'[g] = request[g]
BY DEF SettingsInv, SettingsTypes

LEMMA LoadPageStep ==
  ASSUME SettingsInv, NEW h \in Pages, Settings!LoadPage(h)
  PROVE  SettingsInv'
<1>1. /\ page' = [page EXCEPT ![h] = settings.relay]
      /\ UNCHANGED <<settings, inbounds, applying, request, given, handed, doubled, requests>>
  BY DEF Settings!LoadPage
<1>2. settings.relay \in Settings!Relays /\ page \in [Pages -> Settings!Relays]
  BY DEF SettingsInv, SettingsTypes
<1>3. /\ page' \in [Pages -> Settings!Relays]
      /\ \A g \in Pages : page'[g] = page[g] \/ page'[g] = settings.relay
  BY <1>1, <1>2
<1> QED
  BY <1>1, <1>3 DEF SettingsInv, SettingsTypes, PortInv, RequestInv, Honest, Whole

LEMMA SendStep ==
  ASSUME SettingsInv, NEW h \in Pages, NEW access \in 0..1, NEW shows \in BOOLEAN, NEW role,
         role \in {"off", "transit", "landing"},
         Settings!Send(h, access, shows, role)
  PROVE  SettingsInv'
<1>1. PICK r : r = IF role = "landing" THEN Settings!Relay(role, page[h].port, page[h].secret)
                   ELSE Settings!Relay(role, 0, 0)
  OBVIOUS
<1>2. PICK alone \in BOOLEAN : alone = \A g \in Pages : ~Settings!Pending(g)
  OBVIOUS
<1>3. page[h] \in Settings!Relays /\ Whole(page[h]) /\ page[h].port \in handed \cup {0}
  BY DEF SettingsInv, SettingsTypes, PortInv, RequestInv, Honest, Completed
<1>4. /\ page[h].port \in RelayPorts \cup {0} /\ page[h].secret \in 0..MaxGiven
      /\ page[h] = Settings!Relay(page[h].role, page[h].port, page[h].secret)
  BY <1>3, RelayFields
<1>5. /\ r \in Settings!Relays /\ r.port \in handed \cup {0}
      /\ page[h].role = "landing" /\ r.role = "landing" => r = page[h]
  BY <1>1, <1>3, <1>4, RelayMade, RelayParts
<1>6. PICK q \in ReqType :
        q = [step |-> "received", access |-> access, detail |-> shows, shown |-> page[h],
             relay |-> r, first |-> FALSE, alone |-> alone]
  <2>1. "received" \in Settings!Steps
    BY DEF Settings!Steps
  <2> QED
    BY <1>3, <1>5, <2>1 DEF ReqType
<1>0. q.step = "received" /\ ~q.first /\ q.shown = page[h] /\ q.relay = r
  BY <1>6
<1>7. /\ request' = [request EXCEPT ![h] = q] /\ requests' = requests + 1 /\ requests < MaxRequests
      /\ UNCHANGED <<settings, inbounds, applying, page, given, handed, doubled>>
  BY <1>1, <1>2, <1>6 DEF Settings!Send
<1>8. /\ request' \in [Pages -> ReqType] /\ request'[h] = q
      /\ \A g \in Pages \ {h} : request'[g] = request[g]
  BY <1>7, GoesOn
<1>9. SettingsTypes'
  BY <1>7, <1>8, SettingsAssumption DEF SettingsInv, SettingsTypes, Whole
<1>10. PortInv'
  BY <1>5, <1>6, <1>7, <1>8 DEF SettingsInv, PortInv
<1>11. ASSUME NEW g \in Pages PROVE Honest(g)'
  <2>1. CASE g = h
    <3>1. page'[h] = page[h] /\ request'[h] = q
      BY <1>7, <1>8
    <3>2. q.step \notin Completed /\ q.step # "save"
      BY <1>0 DEF Completed
    <3> QED
      BY <1>0, <1>3, <1>5, <2>1, <3>1, <3>2 DEF Honest, Whole
  <2>2. CASE g # h
    BY <1>7, <1>8, <2>2 DEF SettingsInv, RequestInv, Honest, Whole
  <2> QED
    BY <2>1, <2>2
<1> QED
  BY <1>9, <1>10, <1>11 DEF SettingsInv, RequestInv

LEMMA ProceedStep ==
  ASSUME SettingsInv, NEW h \in Pages, NEW r \in Settings!Relays, Settings!Proceed(h, r),
         request[h].step = "received",
         UNCHANGED <<settings, inbounds, applying, page, doubled, requests>>,
         given' \in 0..MaxGiven, handed' \subseteq RelayPorts, handed \subseteq handed',
         handed' \cap inbounds \subseteq doubled, r.port \in handed' \cup {0}, Whole(r),
         \/ r = request[h].relay
         \/ settings.relay.role # "landing"
         \/ request[h].shown.role # "landing"
  PROVE  SettingsInv'
<1>1. request[h] \in ReqType
  BY DEF SettingsInv, SettingsTypes
<1>2. PICK none \in BOOLEAN : none = (settings.relay.role # "landing")
  OBVIOUS
<1>3. PICK q \in ReqType : q = [request[h] EXCEPT !.relay = r, !.step = "normalized", !.first = none]
  <2>1. "normalized" \in Settings!Steps
    BY DEF Settings!Steps
  <2> QED
    BY <1>1, <1>2, <2>1 DEF ReqType
<1>4. /\ q.relay = r /\ q.step = "normalized" /\ q.first = none /\ q.shown = request[h].shown
  BY <1>1, <1>3 DEF ReqType
<1>5. request' = [request EXCEPT ![h] = q]
  BY <1>1, <1>2, <1>3 DEF Settings!Proceed, SettingsInv, SettingsTypes
<1>6. /\ request' \in [Pages -> ReqType] /\ request'[h] = q
      /\ \A g \in Pages \ {h} : request'[g] = request[g]
  BY <1>5, GoesOn
<1>7. SettingsTypes'
  BY <1>6 DEF SettingsInv, SettingsTypes, Whole
<1>8. PortInv'
  BY <1>4, <1>6 DEF SettingsInv, PortInv
<1>9. ~request[h].first
  BY DEF SettingsInv, RequestInv, Honest
<1>10. ASSUME NEW g \in Pages PROVE Honest(g)'
  <2>1. Honest(g)
    BY DEF SettingsInv, RequestInv
  <2>2. CASE g = h
    <3>1. page'[h] = page[h] /\ request'[h] = q
      BY <1>6
    <3>2. q.step # "received" /\ q.step # "save"
      BY <1>4
    <3>3. ~q.first /\ q.shown.role = "landing" => q.relay = q.shown
                                                \/ q.relay.role # "landing"
      BY <1>2, <1>4, <1>9, <2>1, <2>2 DEF Honest
    <3> QED
      BY <1>4, <2>1, <2>2, <3>1, <3>2, <3>3 DEF Honest, Whole
  <2>3. CASE g # h
    BY <1>6, <2>1, <2>3 DEF Honest, Whole
  <2> QED
    BY <2>2, <2>3
<1> QED
  BY <1>7, <1>8, <1>10 DEF SettingsInv, RequestInv

LEMMA NormalizeStep ==
  ASSUME SettingsInv, NEW h \in Pages, Settings!Normalize(h)
  PROVE  SettingsInv'
<1>1. PICK sent \in Settings!Relays : sent = request[h].relay
  BY DEF SettingsInv, SettingsTypes, ReqType
<1>2. PICK none \in BOOLEAN : none = (settings.relay.role # "landing")
  OBVIOUS
<1>3. /\ request[h].step = "received"
      /\ UNCHANGED <<settings, inbounds, applying, page, doubled, requests>>
  BY DEF Settings!Normalize
<1>4. /\ sent.port \in handed \cup {0} /\ sent.port \in RelayPorts \cup {0}
      /\ sent.secret \in 0..MaxGiven
      /\ given \in 0..MaxGiven /\ handed \subseteq RelayPorts
      /\ handed \cap inbounds \subseteq doubled
  BY <1>1, RelayFields DEF SettingsInv, SettingsTypes, PortInv
<1>5. CASE sent.role # "landing" \/ ~(none \/ sent.port = 0 \/ sent.secret = 0)
  <2>1. Settings!Proceed(h, sent) /\ UNCHANGED <<given, handed>>
    BY <1>1, <1>2, <1>5 DEF Settings!Normalize
  <2>2. Whole(sent)
    BY <1>5 DEF Whole
  <2> QED
    BY <1>1, <1>3, <1>4, <2>1, <2>2, ProceedStep
<1>6. CASE sent.role = "landing" /\ (none \/ sent.port = 0 \/ sent.secret = 0)
  <2>1. /\ given < MaxGiven /\ given' = given + 1
        /\ \E p \in IF none \/ sent.port = 0 THEN Settings!FreePorts ELSE {sent.port} :
             /\ Settings!Proceed(h, Settings!Relay("landing", p,
                                      IF none \/ sent.secret = 0 THEN given' ELSE sent.secret))
             /\ handed' = handed \cup {p}
    BY <1>1, <1>2, <1>6 DEF Settings!Normalize
  <2>2. PICK p : /\ p \in IF none \/ sent.port = 0 THEN Settings!FreePorts ELSE {sent.port}
                 /\ Settings!Proceed(h, Settings!Relay("landing", p,
                                          IF none \/ sent.secret = 0 THEN given' ELSE sent.secret))
                 /\ handed' = handed \cup {p}
    BY <2>1
  <2>3. PICK n : n = IF none \/ sent.secret = 0 THEN given + 1 ELSE sent.secret
    OBVIOUS
  <2>4. n \in 0..MaxGiven /\ n # 0 /\ given' \in 0..MaxGiven
    BY <1>4, <2>1, <2>3, SettingsAssumption
  <2>5. /\ p \in RelayPorts /\ p # 0 /\ (p \notin inbounds \/ p \in handed)
    BY <1>4, <2>2, SettingsAssumption DEF Settings!FreePorts
  <2>6. PICK r \in Settings!Relays : r = Settings!Relay("landing", p, n)
    BY <2>4, <2>5, RelayMade
  <2>7. r.port = p /\ Whole(r)
    BY <2>4, <2>5, <2>6, RelayParts DEF Whole
  <2>8. Settings!Proceed(h, r)
    BY <2>1, <2>2, <2>3, <2>6
  <2>9. none \/ request[h].shown.role # "landing"
    BY <1>1, <1>3, <1>6 DEF SettingsInv, RequestInv, Honest, Whole
  <2> QED
    BY <1>2, <1>3, <1>4, <2>2, <2>4, <2>5, <2>7, <2>8, <2>9, ProceedStep
<1> QED
  BY <1>5, <1>6

\* A success: the settings are as they were, or what the request asks for.
LEMMA AnswerStep ==
  ASSUME SettingsInv, NEW h \in Pages, Settings!Answer(h), Settings!Pending(h),
         request[h].step \in Completed,
         settings' \in [access : 0..1, detail : BOOLEAN, relay : Settings!Relays],
         settings'.relay \in {settings.relay, request[h].relay},
         UNCHANGED <<inbounds, applying, given, handed, doubled, requests>>
  PROVE  SettingsInv'
<1>1. /\ request' = [Settings!Alone(h) EXCEPT ![h] = Settings!Rest("ok")]
      /\ page' = [page EXCEPT ![h] = settings'.relay]
  BY DEF Settings!Answer
<1>2. /\ request' \in [Pages -> ReqType]
      /\ request'[h] = Settings!Rest("ok")
      /\ \A g \in Pages \ {h} :
           /\ request'[g].step = request[g].step /\ request'[g].access = request[g].access
           /\ request'[g].shown = request[g].shown /\ request'[g].relay = request[g].relay
           /\ request'[g].first = request[g].first
           /\ Settings!Pending(g) => ~request'[g].alone
  BY <1>1, Answered
<1>3. Whole(settings'.relay) /\ settings'.relay.port \in handed \cup {0}
  BY DEF SettingsInv, SettingsTypes, PortInv, RequestInv, Honest, Completed
<1>4. /\ page' \in [Pages -> Settings!Relays]
      /\ \A g \in Pages : page'[g] = page[g] \/ page'[g] = settings'.relay
  BY <1>1 DEF SettingsInv, SettingsTypes
<1>5. /\ Settings!Rest("ok").step = "ok" /\ Settings!Rest("ok").relay.port = 0
      /\ Settings!Rest("ok").shown.role = "off"
  BY DEF Settings!Rest, Settings!Off, Settings!Relay
<1>6. SettingsTypes'
  BY <1>2, <1>3, <1>4 DEF SettingsInv, SettingsTypes, Whole
<1>7. PortInv'
  BY <1>2, <1>3, <1>4, <1>5 DEF SettingsInv, PortInv
<1>8. \A g \in Pages : Whole(page'[g]) /\ Whole(request'[g].shown)
  BY <1>2, <1>3, <1>4, <1>5 DEF SettingsInv, RequestInv, Honest, Whole
<1>9. \A g \in Pages : request'[g].step = "save" => ~request'[g].alone
  BY <1>2, <1>5 DEF Settings!Pending, Settings!Steps
<1>10. ASSUME NEW g \in Pages PROVE Honest(g)'
  <2>1. CASE g = h
    <3>1. /\ request'[h].step = "ok" /\ request'[h].shown.role = "off"
      BY <1>2, <1>5
    <3>2. request'[h].step \notin Completed /\ request'[h].step # "save"
      BY <3>1 DEF Completed
    <3> QED
      BY <1>8, <2>1, <3>1, <3>2 DEF Honest, Whole
  <2>2. CASE g # h
    BY <1>2, <1>8, <1>9, <2>2 DEF SettingsInv, RequestInv, Honest, Whole
  <2> QED
    BY <2>1, <2>2
<1> QED
  BY <1>6, <1>7, <1>10 DEF SettingsInv, RequestInv

\* A request that takes a step of its own, nothing else changing but the flag.
LEMMA OwnStep ==
  ASSUME SettingsInv, NEW h \in Pages, NEW s \in Settings!Steps, s # "received",
         request' = [request EXCEPT ![h].step = s], applying' \in BOOLEAN,
         request[h].step \in Completed,
         s = "save" => /\ request[h].access = settings.access
                       /\ request[h].relay = settings.relay,
         UNCHANGED <<settings, inbounds, page, given, handed, doubled, requests>>
  PROVE  SettingsInv'
<1>1. request[h] \in ReqType
  BY DEF SettingsInv, SettingsTypes
<1>2. PICK q \in ReqType : q = [request[h] EXCEPT !.step = s]
  BY <1>1 DEF ReqType
<1>3. /\ q.step = s /\ q.relay = request[h].relay /\ q.shown = request[h].shown
      /\ q.access = request[h].access /\ q.first = request[h].first /\ q.alone = request[h].alone
  BY <1>1, <1>2 DEF ReqType
<1>4. request' = [request EXCEPT ![h] = q]
  BY <1>2 DEF SettingsInv, SettingsTypes
<1>5. /\ request' \in [Pages -> ReqType] /\ request'[h] = q
      /\ \A g \in Pages \ {h} : request'[g] = request[g]
  BY <1>4, GoesOn
<1>6. SettingsTypes'
  BY <1>5 DEF SettingsInv, SettingsTypes, Whole
<1>7. PortInv'
  BY <1>3, <1>5 DEF SettingsInv, PortInv
<1>8. ASSUME NEW g \in Pages PROVE Honest(g)'
  <2>1. Honest(g)
    BY DEF SettingsInv, RequestInv
  <2>2. CASE g = h
    BY <1>3, <1>5, <2>1, <2>2 DEF Honest, Whole
  <2>3. CASE g # h
    BY <1>5, <2>1, <2>3 DEF Honest, Whole
  <2> QED
    BY <2>2, <2>3
<1> QED
  BY <1>6, <1>7, <1>8 DEF SettingsInv, RequestInv

LEMMA DecideStep ==
  ASSUME SettingsInv, NEW h \in Pages, Settings!Decide(h)
  PROVE  SettingsInv'
<1>1. /\ request[h].step \in Completed /\ applying' \in BOOLEAN
      /\ "apply" \in Settings!Steps /\ "save" \in Settings!Steps
      /\ UNCHANGED <<settings, inbounds, page, given, handed, doubled, requests>>
  BY DEF Settings!Decide, Completed, SettingsInv, SettingsTypes, Settings!Steps
<1>2. CASE request' = [request EXCEPT ![h].step = "apply"]
  BY <1>1, <1>2, OwnStep
<1>3. CASE /\ request' = [request EXCEPT ![h].step = "save"]
           /\ ~Settings!CoreConcerned(h)
  BY <1>1, <1>3, OwnStep DEF Settings!CoreConcerned
<1> QED
  BY <1>2, <1>3 DEF Settings!Decide

LEMMA StartApplyStep ==
  ASSUME SettingsInv, NEW h \in Pages, Settings!StartApply(h)
  PROVE  SettingsInv'
<1>1. /\ request[h].step \in Completed /\ applying' \in BOOLEAN
      /\ "commit" \in Settings!Steps /\ request' = [request EXCEPT ![h].step = "commit"]
      /\ UNCHANGED <<settings, inbounds, page, given, handed, doubled, requests>>
  BY DEF Settings!StartApply, Completed, SettingsInv, SettingsTypes, Settings!Steps
<1> QED
  BY <1>1, OwnStep

LEMMA AnswersStep ==
  ASSUME SettingsInv, NEW h \in Pages,
         Settings!NothingToDo(h) \/ Settings!Save(h) \/ Settings!CommitApply(h)
  PROVE  SettingsInv'
<1>1. /\ settings \in [access : 0..1, detail : BOOLEAN, relay : Settings!Relays]
      /\ request[h] \in ReqType
  BY DEF SettingsInv, SettingsTypes
<1>2. CASE Settings!NothingToDo(h)
  BY <1>1, <1>2, AnswerStep DEF Settings!NothingToDo, Completed, Settings!Pending, Settings!Steps
<1>3. CASE Settings!Save(h)
  <2>1. /\ settings' = [settings EXCEPT !.detail = request[h].detail] /\ request[h].step = "save"
        /\ Settings!Answer(h) /\ UNCHANGED <<inbounds, applying, given, handed, doubled, requests>>
    BY <1>3 DEF Settings!Save
  <2>2. /\ settings' \in [access : 0..1, detail : BOOLEAN, relay : Settings!Relays]
        /\ settings'.relay = settings.relay
    BY <1>1, <2>1 DEF ReqType
  <2> QED
    BY <2>1, <2>2, AnswerStep DEF Completed, Settings!Pending, Settings!Steps
<1>4. CASE Settings!CommitApply(h)
  <2>1. /\ settings' = [settings EXCEPT !.access = request[h].access, !.relay = request[h].relay]
        /\ request[h].step = "commit" /\ Settings!Answer(h)
        /\ UNCHANGED <<inbounds, applying, given, handed, doubled, requests>>
    BY <1>4 DEF Settings!CommitApply
  <2>2. /\ settings' \in [access : 0..1, detail : BOOLEAN, relay : Settings!Relays]
        /\ settings'.relay = request[h].relay
    BY <1>1, <2>1 DEF ReqType
  <2> QED
    BY <2>1, <2>2, AnswerStep DEF Completed, Settings!Pending, Settings!Steps
<1> QED
  BY <1>2, <1>3, <1>4

LEMMA RefuseStep ==
  ASSUME SettingsInv, NEW h \in Pages, Settings!Refuse(h)
  PROVE  SettingsInv'
<1>1. /\ request' = [Settings!Alone(h) EXCEPT ![h] = Settings!Rest("refused")]
      /\ applying' \in BOOLEAN
      /\ UNCHANGED <<settings, inbounds, page, given, handed, doubled, requests>>
  BY DEF Settings!Refuse
<1>2. /\ request' \in [Pages -> ReqType]
      /\ request'[h] = Settings!Rest("refused")
      /\ \A g \in Pages \ {h} :
           /\ request'[g].step = request[g].step /\ request'[g].access = request[g].access
           /\ request'[g].shown = request[g].shown /\ request'[g].relay = request[g].relay
           /\ request'[g].first = request[g].first
           /\ Settings!Pending(g) => ~request'[g].alone
  BY <1>1, Answered
<1>3. /\ request'[h].step = "refused" /\ request'[h].relay.port = 0
      /\ request'[h].shown.role = "off"
  BY <1>2 DEF Settings!Rest, Settings!Off, Settings!Relay
<1>4. SettingsTypes'
  BY <1>1, <1>2 DEF SettingsInv, SettingsTypes, Whole
<1>5. PortInv'
  BY <1>1, <1>2, <1>3 DEF SettingsInv, PortInv
<1>6. \A g \in Pages : request'[g].step = "save" => ~request'[g].alone
  BY <1>2, <1>3 DEF Settings!Pending, Settings!Steps
<1>7. ASSUME NEW g \in Pages PROVE Honest(g)'
  <2>1. Honest(g)
    BY DEF SettingsInv, RequestInv
  <2>2. CASE g = h
    <3>1. request'[h].step \notin Completed /\ request'[h].step # "save"
      BY <1>3 DEF Completed
    <3> QED
      BY <1>1, <1>3, <2>1, <2>2, <3>1 DEF Honest, Whole
  <2>3. CASE g # h
    BY <1>1, <1>2, <1>6, <2>1, <2>3 DEF Honest, Whole
  <2> QED
    BY <2>2, <2>3
<1> QED
  BY <1>4, <1>5, <1>7 DEF SettingsInv, RequestInv

LEMMA SettingsStep ==
  ASSUME SettingsInv, [Settings!Next]_settingsVars
  PROVE  SettingsInv'
<1>1. ASSUME NEW h \in Pages, NEW access \in 0..1, NEW shows \in BOOLEAN,
             NEW role \in {"off", "transit", "landing"}, Settings!Send(h, access, shows, role)
      PROVE  SettingsInv'
  BY <1>1, SendStep
<1>2. CASE Settings!Applied
  BY <1>2 DEF Settings!Applied, SettingsInv, SettingsTypes, PortInv, RequestInv, Honest, Whole
<1>3. ASSUME NEW p \in RelayPorts, Settings!AddInbound(p)
      PROVE  SettingsInv'
  BY <1>3 DEF Settings!AddInbound, SettingsInv, SettingsTypes, PortInv, RequestInv, Honest, Whole
<1>4. ASSUME NEW p \in RelayPorts, Settings!DeleteInbound(p)
      PROVE  SettingsInv'
  BY <1>4 DEF Settings!DeleteInbound, SettingsInv, SettingsTypes, PortInv, RequestInv, Honest, Whole
<1>5. CASE UNCHANGED settingsVars
  BY <1>5 DEF settingsVars, SettingsInv, SettingsTypes, PortInv, RequestInv, Honest, Whole
<1> QED
  BY <1>1, <1>2, <1>3, <1>4, <1>5, LoadPageStep, NormalizeStep, DecideStep, StartApplyStep,
     AnswersStep, RefuseStep DEF Settings!Next

LEMMA SettingsBegin ==
  ASSUME Settings!Init
  PROVE  SettingsInv
<1>1. PICK relay \in {Settings!Off} \cup {Settings!Relay("landing", p, 1) : p \in RelayPorts} :
        /\ settings = [access |-> 0, detail |-> TRUE, relay |-> relay]
        /\ page = [h \in Pages |-> relay]
        /\ given = relay.secret /\ handed = {relay.port} \ {0}
  BY DEF Settings!Init
<1>2. 1 \in 0..MaxGiven /\ 0 \in 0..MaxGiven
  BY SettingsAssumption
<1>3. /\ relay \in Settings!Relays /\ Whole(relay)
      /\ relay.secret \in 0..MaxGiven /\ relay.port \in RelayPorts \cup {0}
  <2>1. CASE relay = Settings!Off
    BY <1>2, <2>1 DEF Settings!Off, Settings!Relay, Settings!Relays, Whole
  <2>2. ASSUME NEW p \in RelayPorts, relay = Settings!Relay("landing", p, 1)
        PROVE  /\ relay \in Settings!Relays /\ Whole(relay)
               /\ relay.secret \in 0..MaxGiven /\ relay.port \in RelayPorts \cup {0}
    BY <1>2, <2>2, RelayMade, RelayParts, SettingsAssumption DEF Whole
  <2> QED
    BY <1>1, <2>1, <2>2
<1>4. /\ request = [h \in Pages |-> Settings!Rest("none")]
      /\ inbounds = {} /\ applying = FALSE /\ doubled = {} /\ requests = 0
  BY DEF Settings!Init
<1>5. /\ Settings!Rest("none") \in ReqType
      /\ Settings!Rest("none").step = "none" /\ Settings!Rest("none").relay.port = 0
      /\ Settings!Rest("none").shown.role = "off"
  <2>1. Settings!Off \in Settings!Relays /\ Settings!Off.port = 0 /\ Settings!Off.role = "off"
    BY DEF Settings!Relays, Settings!Off, Settings!Relay
  <2> QED
    BY <2>1 DEF Settings!Rest, ReqType
<1>6. SettingsTypes
  <2>1. settings \in [access : 0..1, detail : BOOLEAN, relay : Settings!Relays]
    BY <1>1, <1>3
  <2>2. page \in [Pages -> Settings!Relays] /\ request \in [Pages -> ReqType]
    BY <1>1, <1>3, <1>4, <1>5
  <2>3. given \in 0..MaxGiven /\ requests \in 0..MaxRequests
    BY <1>1, <1>3, <1>4, SettingsAssumption
  <2>4. /\ Whole(settings.relay) /\ inbounds \subseteq RelayPorts /\ applying \in BOOLEAN
        /\ handed \subseteq RelayPorts /\ doubled \subseteq inbounds
    BY <1>1, <1>3, <1>4
  <2> QED
    BY <2>1, <2>2, <2>3, <2>4 DEF SettingsTypes
<1>7. PortInv
  BY <1>1, <1>3, <1>4, <1>5 DEF PortInv
<1>8. "none" \notin Completed
  BY DEF Completed
<1>9. RequestInv
  BY <1>1, <1>3, <1>4, <1>5, <1>8 DEF RequestInv, Honest, Whole
<1> QED
  BY <1>6, <1>7, <1>9 DEF SettingsInv

\* The settings with the relay (settings, normalizeRelay): a landing host has its port and
\* secret, every port in use or on its way was handed out, and a request that
\* was completed and met no other still asks for what it was sent with.
THEOREM SettingsCorrect == PartsSpec => []SettingsInv
<1>1. PartsInit => SettingsInv
  BY PartsBegin, SettingsBegin
<1>2. SettingsInv /\ [PartsNext]_partVars => SettingsInv'
  BY PartsStep, SettingsStep
<1> QED
  BY <1>1, <1>2, PTL DEF PartsSpec

\* The relay's port is an inbound's only if the inbound took it afterwards.
THEOREM PortsStayApart == PartsSpec => []PortsApart
<1>1. SettingsInv => PortsApart
  BY SettingsAssumption DEF SettingsInv, SettingsTypes, PortInv, PortsApart, Settings!PortsApart
<1> QED
  BY SettingsCorrect, <1>1, PTL

\* A page gets success by one of the three ways a request may end well.
LEMMA AcceptedHow ==
  ASSUME SettingsInv, [Settings!Next]_settingsVars, NEW h \in Pages, Settings!Accepted(h)
  PROVE  Settings!NothingToDo(h) \/ Settings!Save(h) \/ Settings!CommitApply(h)
<1>1. /\ request[h].step \in Settings!Steps /\ request[h].step # "ok" /\ request'[h].step = "ok"
      /\ request \in [Pages -> ReqType]
  BY DEF Settings!Accepted, Settings!Pending, Settings!Steps, SettingsInv, SettingsTypes
<1>2. request' # request
  BY <1>1
<1>3. ASSUME NEW g \in Pages, NEW r, Settings!Proceed(g, r)
      PROVE  FALSE
  <2>1. request'[h].step = "normalized" \/ request'[h].step = request[h].step
    BY <1>1, <1>3 DEF Settings!Proceed, ReqType
  <2> QED
    BY <1>1, <2>1
<1>4. ASSUME NEW g \in Pages, NEW s, request' = [request EXCEPT ![g].step = s]
      PROVE  s = "ok"
  BY <1>1, <1>4 DEF ReqType
<1>5. ASSUME NEW g \in Pages, NEW o \in {"ok", "refused"},
             request' = [Settings!Alone(g) EXCEPT ![g] = Settings!Rest(o)]
      PROVE  g = h /\ o = "ok"
  <2>1. Settings!Rest(o).step = o
    BY DEF Settings!Rest
  <2> QED
    BY <1>1, <1>5, <2>1, Answered
<1>6. ASSUME NEW g \in Pages, NEW access \in 0..1, NEW shows \in BOOLEAN,
             NEW role \in {"off", "transit", "landing"}, Settings!Send(g, access, shows, role)
      PROVE  FALSE
  <2>1. g # h
    BY <1>1, <1>6 DEF Settings!Send, Settings!Pending
  <2> QED
    BY <1>1, <1>6, <2>1 DEF Settings!Send
<1>7. ASSUME NEW g \in Pages, Settings!LoadPage(g) PROVE FALSE
  BY <1>2, <1>7 DEF Settings!LoadPage
<1>8. ASSUME NEW g \in Pages, Settings!Normalize(g) PROVE FALSE
  BY <1>3, <1>8 DEF Settings!Normalize
<1>9. ASSUME NEW g \in Pages, Settings!Decide(g) \/ Settings!StartApply(g) PROVE FALSE
  BY <1>4, <1>9 DEF Settings!Decide, Settings!StartApply
<1>10. ASSUME NEW g \in Pages, Settings!Refuse(g) PROVE FALSE
  BY <1>5, <1>10 DEF Settings!Refuse
<1>11. ASSUME NEW g \in Pages,
              Settings!NothingToDo(g) \/ Settings!Save(g) \/ Settings!CommitApply(g)
       PROVE  g = h
  BY <1>5, <1>11 DEF Settings!NothingToDo, Settings!Save, Settings!CommitApply, Settings!Answer
<1>12. ASSUME Settings!Applied \/ \E p \in RelayPorts : Settings!AddInbound(p) \/ Settings!DeleteInbound(p)
       PROVE  FALSE
  BY <1>2, <1>12 DEF Settings!Applied, Settings!AddInbound, Settings!DeleteInbound
<1> QED
  BY <1>2, <1>6, <1>7, <1>8, <1>9, <1>10, <1>11, <1>12 DEF Settings!Next, settingsVars

\* The relay of the settings changes by a commit only.
LEMMA RelayChanges ==
  ASSUME SettingsInv, [Settings!Next]_settingsVars, settings'.relay # settings.relay
  PROVE  \E h \in Pages : Settings!CommitApply(h)
<1>1. settings' # settings
  OBVIOUS
<1>2. ASSUME NEW h \in Pages, Settings!Save(h) PROVE FALSE
  BY <1>2 DEF Settings!Save, SettingsInv, SettingsTypes
<1> QED
  BY <1>1, <1>2 DEF Settings!Next, settingsVars, Settings!LoadPage, Settings!Send,
     Settings!Normalize, Settings!NothingToDo, Settings!Decide, Settings!StartApply,
     Settings!Refuse, Settings!Applied, Settings!AddInbound, Settings!DeleteInbound

\* Port and secret of a landing host move only by a request that saw others, or
\* was completed while the host was none.
THEOREM LandingFixed == PartsSpec => LandingIsFixed
<1>1. ASSUME SettingsInv, [PartsNext]_partVars, Settings!LandingMoves
      PROVE  \E h \in Pages : /\ Settings!Accepted(h)
                             /\ \/ request[h].first
                                \/ request[h].shown # settings.relay
  <2>1. PICK h \in Pages : Settings!CommitApply(h)
    BY <1>1, PartsStep, RelayChanges DEF Settings!LandingMoves
  <2>2. /\ settings' = [settings EXCEPT !.access = request[h].access, !.relay = request[h].relay]
        /\ request[h].step = "commit"
        /\ request' = [Settings!Alone(h) EXCEPT ![h] = Settings!Rest("ok")]
    BY <2>1 DEF Settings!CommitApply, Settings!Answer
  <2>3. settings'.relay = request[h].relay
    BY <1>1, <2>2 DEF SettingsInv, SettingsTypes
  <2>4. request'[h].step = "ok"
    BY <1>1, <2>2, Answered DEF Settings!Rest
  <2>5. Settings!Accepted(h)
    BY <2>2, <2>4 DEF Settings!Accepted, Settings!Pending, Settings!Steps
  <2>6. request[h].first \/ request[h].shown # settings.relay
    BY <1>1, <2>3 DEF Settings!LandingMoves, SettingsInv, RequestInv, Honest
  <2> QED
    BY <2>5, <2>6
<1>2. SettingsInv /\ [PartsNext]_partVars
        => [Settings!LandingMoves
            => \E h \in Pages : /\ Settings!Accepted(h)
                               /\ \/ request[h].first
                                  \/ request[h].shown # settings.relay]_settingsVars
  BY <1>1
<1> QED
  BY SettingsCorrect, <1>2, PTL
     DEF PartsSpec, LandingIsFixed, Settings!LandingIsFixed, settingsVars, Settings!settingsVars

\* A request that met no other and is answered with success is what the settings
\* are afterwards.
THEOREM AnsweredSaved == PartsSpec => AnsweredIsSaved
<1>1. ASSUME SettingsInv, [PartsNext]_partVars, NEW h \in Pages,
             Settings!Accepted(h), request[h].alone
      PROVE  /\ settings'.access = request[h].access
             /\ settings'.relay = request[h].relay
             /\ settings'.detail = request[h].detail \/ request[h].step = "commit"
  <2>1. Settings!NothingToDo(h) \/ Settings!Save(h) \/ Settings!CommitApply(h)
    BY <1>1, PartsStep, AcceptedHow
  <2>2. settings \in [access : 0..1, detail : BOOLEAN, relay : Settings!Relays]
    BY <1>1 DEF SettingsInv, SettingsTypes
  <2>3. CASE Settings!NothingToDo(h)
    BY <2>3 DEF Settings!NothingToDo, Settings!CoreConcerned
  <2>4. CASE Settings!Save(h)
    BY <1>1, <2>2, <2>4 DEF Settings!Save, SettingsInv, RequestInv, Honest
  <2>5. CASE Settings!CommitApply(h)
    BY <2>2, <2>5 DEF Settings!CommitApply
  <2> QED
    BY <2>1, <2>3, <2>4, <2>5
<1>2. SettingsInv /\ [PartsNext]_partVars
        => [\A h \in Pages :
              Settings!Accepted(h) /\ request[h].alone
              => /\ settings'.access = request[h].access
                 /\ settings'.relay = request[h].relay
                 /\ settings'.detail = request[h].detail \/ request[h].step = "commit"]_settingsVars
  BY <1>1
<1> QED
  BY SettingsCorrect, <1>2, PTL
     DEF PartsSpec, AnsweredIsSaved, Settings!AnsweredIsSaved, settingsVars, Settings!settingsVars

-----------------------------------------------------------------------------
(* The types of all parts *)

\* A page whose request is not in the handler has none, or its answer.
RestInv ==
    \A h \in Pages : \/ Settings!Pending(h)
                     \/ \E o \in {"none", "ok", "refused"} : request[h] = Settings!Rest(o)

LEMMA GoesOnOrRests ==
  ASSUME SettingsInv, RestInv, NEW h \in Pages,
         request' = [request EXCEPT ![h] = request'[h]], request'[h].step \in Settings!Steps
  PROVE  RestInv'
<1>1. request \in [Pages -> ReqType]
  BY DEF SettingsInv, SettingsTypes
<1>2. \A g \in Pages \ {h} : request'[g] = request[g]
  BY <1>1
<1> QED
  BY <1>2 DEF RestInv, Settings!Pending

LEMMA AnsweredOrRests ==
  ASSUME SettingsInv, RestInv, NEW h \in Pages, NEW o \in {"ok", "refused"},
         request' = [Settings!Alone(h) EXCEPT ![h] = Settings!Rest(o)]
  PROVE  RestInv'
<1>1. request'[h] = Settings!Rest(o)
  BY DEF Settings!Alone
<1>2. ASSUME NEW g \in Pages \ {h} PROVE Settings!Pending(g) \/ request'[g] = request[g]
  BY <1>2 DEF Settings!Alone
<1>3. ASSUME NEW g \in Pages \ {h}, Settings!Pending(g) PROVE request'[g].step \in Settings!Steps
  BY <1>3, Answered DEF Settings!Pending
<1> QED
  BY <1>1, <1>2, <1>3 DEF RestInv, Settings!Pending

LEMMA RestStep ==
  ASSUME SettingsInv, RestInv, [Settings!Next]_settingsVars
  PROVE  RestInv'
<1>1. /\ request \in [Pages -> ReqType]
      /\ Settings!Steps = {"received", "normalized", "save", "apply", "commit"}
  BY DEF SettingsInv, SettingsTypes, Settings!Steps
<1>2. ASSUME request' = request PROVE RestInv'
  BY <1>2 DEF RestInv, Settings!Pending
<1>3. ASSUME NEW h \in Pages, NEW access \in 0..1, NEW shows \in BOOLEAN,
             NEW role \in {"off", "transit", "landing"}, Settings!Send(h, access, shows, role)
      PROVE  RestInv'
  <2>1. PICK relay, alone, q :
          /\ request' = [request EXCEPT ![h] = q]
          /\ q = [step |-> "received", access |-> access, detail |-> shows, shown |-> page[h],
                  relay |-> relay, first |-> FALSE, alone |-> alone]
    BY <1>3, Zenon DEF Settings!Send
  <2>2. request'[h] = q /\ q.step = "received"
    BY <1>1, <2>1
  <2> QED
    BY <1>1, <2>1, <2>2, GoesOnOrRests
<1>4. ASSUME NEW h \in Pages, Settings!Normalize(h) PROVE RestInv'
  <2>1. PICK relay : Settings!Proceed(h, relay)
    BY <1>4 DEF Settings!Normalize
  <2>2. /\ request' = [request EXCEPT ![h] = request'[h]]
        /\ request'[h].step = "normalized"
    BY <1>1, <2>1 DEF Settings!Proceed, ReqType
  <2> QED
    BY <1>1, <2>2, GoesOnOrRests
<1>5. ASSUME NEW h \in Pages, Settings!Decide(h) \/ Settings!StartApply(h) PROVE RestInv'
  <2>1. PICK s \in Settings!Steps : request' = [request EXCEPT ![h].step = s]
    BY <1>1, <1>5 DEF Settings!Decide, Settings!StartApply
  <2>2. request' = [request EXCEPT ![h] = request'[h]] /\ request'[h].step = s
    BY <1>1, <2>1 DEF ReqType
  <2> QED
    BY <2>2, GoesOnOrRests
<1>6. ASSUME NEW h \in Pages,
             Settings!NothingToDo(h) \/ Settings!Save(h) \/ Settings!CommitApply(h)
      PROVE  RestInv'
  <2>1. request' = [Settings!Alone(h) EXCEPT ![h] = Settings!Rest("ok")]
    BY <1>6 DEF Settings!NothingToDo, Settings!Save, Settings!CommitApply, Settings!Answer
  <2> QED
    BY <2>1, AnsweredOrRests
<1>7. ASSUME NEW h \in Pages, Settings!Refuse(h) PROVE RestInv'
  BY <1>7, AnsweredOrRests DEF Settings!Refuse
<1>8. CASE \/ \E h \in Pages : Settings!LoadPage(h)
           \/ Settings!Applied
           \/ \E p \in RelayPorts : Settings!AddInbound(p) \/ Settings!DeleteInbound(p)
           \/ UNCHANGED settingsVars
  BY <1>2, <1>8 DEF Settings!LoadPage, Settings!Applied, Settings!AddInbound,
     Settings!DeleteInbound, settingsVars
<1> QED
  BY <1>3, <1>4, <1>5, <1>6, <1>7, <1>8 DEF Settings!Next

\* The handler of the settings leaves no request half way: a page whose request is
\* not under way has been answered, or has sent none since it was loaded.
THEOREM RequestsRest == PartsSpec => []RestInv
<1>1. ASSUME PartsInit PROVE RestInv
  <2>1. request = [h \in Pages |-> Settings!Rest("none")]
    BY <1>1, PartsBegin DEF Settings!Init
  <2> QED
    BY <2>1 DEF RestInv
<1>2. SettingsInv /\ RestInv /\ [PartsNext]_partVars => RestInv'
  BY PartsStep, RestStep
<1> QED
  BY SettingsCorrect, <1>1, <1>2, PTL DEF PartsSpec

\* What the types of the parts follow from.
LEMMA LedgerTypes ==
  ASSUME LedgerInv
  PROVE  TypeOK
BY DEF LedgerInv

LEMMA DailyTypes ==
  ASSUME DailyInv, AddingInv
  PROVE  Daily!TypeOK
<1>1. /\ day \in 1..LastDay /\ syncDay \in 0..day /\ totalRead \in Nat \cup {-1}
      /\ readDay \in 0..day /\ changes \in 0..MaxChanges /\ crossed \subseteq Clients
  BY DEF DailyInv, AddingInv
<1>2. ASSUME NEW st, StoreInv(st), StoreAdds(st)
      PROVE  /\ DOMAIN st.clients \subseteq Clients
             /\ \A c \in DOMAIN st.clients :
                  st.clients[c] \in Daily!ClientType /\ Len(st.clients[c].rows) <= MaxDailyRows
             /\ st.date \in 0..day /\ {st.anchor, st.billed, st.gone} \subseteq Nat
             /\ st.rows \in Seq([date : 1..LastDay, bytes : Nat]) /\ Len(st.rows) <= MaxUsageRows
             /\ st.touched \in BOOLEAN
  BY <1>2 DEF StoreInv, StoreAdds, ClientsAdd, ClientAdds, Billing, DayRows
<1>3. PICK st, old : st = mem /\ old = saved
  OBVIOUS
<1>4. StoreInv(st) /\ StoreAdds(st) /\ StoreInv(old) /\ StoreAdds(old)
  BY <1>3 DEF DailyInv, AddingInv
<1> QED
  BY <1>1, <1>2, <1>3, <1>4 DEF Daily!TypeOK

LEMMA SettingsTyped ==
  ASSUME SettingsInv, RestInv
  PROVE  Settings!TypeOK
<1>1. ASSUME NEW h \in Pages
      PROVE  request[h] \in Settings!Requests
                              \cup {Settings!Rest(o) : o \in {"none", "ok", "refused"}}
  <2>1. request[h] \in ReqType
    BY DEF SettingsInv, SettingsTypes
  <2>2. CASE Settings!Pending(h)
    BY <2>1, <2>2 DEF Settings!Pending, Settings!Requests, ReqType
  <2>3. CASE ~Settings!Pending(h)
    BY <2>3 DEF RestInv
  <2> QED
    BY <2>2, <2>3
<1> QED
  BY <1>1 DEF SettingsInv, SettingsTypes, Whole, Settings!TypeOK

\* Every part stays within its types, for every value of the constants: tables and
\* histories within their limits (loginFailMapCap, addSample, appendDailyUsage), a
\* landing host with its port and secret, a truncated record file read to its end.
THEOREM TypesCorrect == PartsSpec => []TypesOK
<1>1. PartsInit => LedgerInv
  BY PartsBegin, LedgerBegins
<1>2. LedgerInv /\ [PartsNext]_partVars => LedgerInv'
  BY PartsStep, LedgerStep
<1>3. LedgerInv /\ LoginInv /\ CertificateInv /\ RulesInv /\ PingInv /\ DailyInv /\ AddingInv
        /\ SettingsInv /\ RestInv => TypesOK
  BY LedgerTypes, DailyTypes, SettingsTyped
     DEF LoginInv, CertificateInv, RulesInv, PingInv, TypesOK
<1> QED
  BY LoginCorrect, CertificateCorrect, RulesCorrect, PingCorrect, DailyCorrect, AddingCorrect,
     SettingsCorrect, RequestsRest, <1>1, <1>2, <1>3, PTL DEF PartsSpec
=============================================================================
