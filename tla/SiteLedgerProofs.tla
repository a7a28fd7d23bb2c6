---------------------------- MODULE SiteLedgerProofs ---------------------------
(***************************************************************************)
(* No record is counted twice but for interrupted passes, and none that can *)
(* be kept is lost, for every number of records, days and interruptions and  *)
(* every size of the file.                                                  *)
(***************************************************************************)
EXTENDS SiteLedger, SequenceTheorems, WellFoundedInduction, TLAPS

USE DEF dayFiles

-----------------------------------------------------------------------------
(* Positions in the record file *)

UnitType == [of : Records, part : {"head", "tail"}]

\* A set of naturals with a bound has a largest element.
LEMMA Largest ==
  ASSUME NEW b \in Nat, NEW T, T \subseteq 0..b, T # {}
  PROVE  \E m \in T : \A n \in T : n <= m
<1>1. PICK R : R = OpToRel(<, Nat)
  OBVIOUS
<1>2. IsWellFoundedOn(R, Nat)
  BY <1>1, NatLessThanWellFounded
<1>3. \A x, y \in Nat : <<x, y>> \in R <=> x < y
  BY <1>1 DEF OpToRel
<1>4. PICK S : S = {b - n : n \in T}
  OBVIOUS
<1>5. S \subseteq Nat /\ S # {}
  <2>1. ASSUME NEW y \in S PROVE y \in Nat
    <3>1. PICK n \in T : y = b - n
      BY <1>4
    <3>2. n \in 0..b
      OBVIOUS
    <3> QED
      BY <3>1, <3>2
  <2>2. PICK n \in T : TRUE
    OBVIOUS
  <2>3. b - n \in S
    BY <1>4, <2>2
  <2> QED
    BY <2>1, <2>3
<1>6. PICK x \in S : \A y \in S : <<y, x>> \notin R
  BY <1>2, <1>5, WFMin
<1>7. PICK m \in T : x = b - m
  BY <1>4
<1>8. ASSUME NEW n \in T PROVE n <= m
  <2>1. PICK y \in S : y = b - n
    BY <1>4
  <2>2. ~(y < x)
    BY <1>3, <1>5, <1>6
  <2> QED
    BY <1>7, <2>1, <2>2
<1> QED
  BY <1>8

\* What the file holds are heads and tails of lines.
LEMMA Units ==
  ASSUME TypeOK
  PROVE  /\ Len(log) \in Nat /\ DOMAIN log = 1..Len(log)
         /\ \A k \in 1..Len(log) : log[k] \in UnitType
         /\ log = <<>> <=> Len(log) = 0
BY LenProperties, ElementOfSeq, EmptySeq DEF TypeOK, UnitType

\* A unit is its record and its part.
LEMMA UnitFields ==
  /\ \A r \in Records : Unit(r, "head") \in UnitType /\ Unit(r, "tail") \in UnitType
  /\ \A r, p : Unit(r, p).of = r /\ Unit(r, p).part = p
  /\ \A u \in UnitType : /\ u.of \in Records /\ u.part \in {"head", "tail"}
                         /\ u = Unit(u.of, u.part)
BY DEF Unit, UnitType

\* The file grows by a unit.
LEMMA Grown ==
  ASSUME TypeOK, NEW u \in UnitType, log' = Append(log, u)
  PROVE  /\ log' \in Seq(UnitType)
         /\ Len(log) \in Nat /\ Len(log') = Len(log) + 1
         /\ log'[Len(log) + 1] = u
         /\ \A k \in 1..Len(log) : log'[k] = log[k]
<1>1. log \in Seq(UnitType)
  BY DEF TypeOK, UnitType
<1> QED
  BY <1>1, AppendProperties, LenProperties

\* A pass begins somewhere in the file.
LEMMA StartInRange ==
  ASSUME TypeOK
  PROVE  Start \in 0..Len(log)
<1>1. Len(log) \in Nat
  BY Units
<1>2. CASE offset = Damaged
  BY <1>1, <1>2 DEF Start
<1>3. CASE offset # Damaged
  <2>1. offset \in Nat
    BY <1>3 DEF TypeOK
  <2> QED
    BY <1>1, <1>3, <2>1 DEF Start
<1> QED
  BY <1>2, <1>3

\* A pass reads up to the end of a line.
LEMMA LastLineEnds ==
  ASSUME TypeOK
  PROVE  /\ LastLine \in Start..Len(log)
         /\ LastLine = Start \/ log[LastLine].part = "tail"
<1>1. PICK b \in Nat : b = Len(log)
  BY Units
<1>2. PICK s \in 0..b : s = Start
  BY <1>1, StartInRange
<1>3. PICK T : T = {k \in s..b : k = s \/ log[k].part = "tail"}
  OBVIOUS
<1>4. T \subseteq 0..b /\ s \in T
  BY <1>3
<1>5. PICK m \in T : \A n \in T : n <= m
  BY <1>4, Largest
<1>6. m \in s..b /\ (m = s \/ log[m].part = "tail")
  BY <1>3
<1>7. \A j \in (m + 1)..b : log[j].part # "tail"
  <2>1. ASSUME NEW j \in (m + 1)..b, log[j].part = "tail" PROVE FALSE
    <3>1. j \in T
      BY <1>3, <1>6, <2>1
    <3>2. j <= m
      BY <1>5, <3>1
    <3> QED
      BY <1>6, <3>2
  <2> QED
    BY <2>1
<1> QED
  BY <1>1, <1>2, <1>6, <1>7 DEF LastLine

-----------------------------------------------------------------------------
(* The inductive invariant *)

HeadAt(r, k) == k \in 1..Len(log) /\ log[k] = Unit(r, "head")

Reading == pc \in {"days", "offset"}

\* A record has one head; its line is whole once the core finished it, and no
\* other line runs into it unless it is spoiled.
LogInv ==
    /\ \A r \in Records, i, j \in Int : HeadAt(r, i) /\ HeadAt(r, j) => i = j
    /\ \A k \in 1..Len(log) : log[k].part = "tail" => log[k].of \in written
    /\ \A r \in written, k \in Int : HeadAt(r, k)
            => k + 1 \in 1..Len(log) /\ log[k + 1] = Unit(r, "tail")
    /\ \A r \in Records \ spoiled, k \in Int : HeadAt(r, k) /\ k # 1 => log[k - 1].part = "tail"

\* A pass has a good offset, and read whole lines of what is in the file.
PassInv ==
    /\ pc # "idle" => offset # Damaged
    /\ pc = "idle" => batch = {}
    /\ pc # "days" => todo = {}
    /\ Reading \/ pc = "truncate" => size <= Len(log)
    /\ Reading => end > 0 /\ log[end].part = "tail"

\* A record that a pass to come may read was counted in interrupted passes only.
CountInv ==
    /\ batch \subseteq written /\ \A r \in Records : Counted(r) > 0 => r \in written
    /\ CountedOnce
    /\ \A r \in Records, k \in Int : HeadAt(r, k) /\ k > Start
            => Counted(r) <= interrupts \/ (Reading /\ r \in batch /\ Day[r] \notin todo)
    /\ Reading => \A r \in Records, k \in Int : HeadAt(r, k) /\ k > end
            => r \notin batch /\ Counted(r) <= interrupts
    /\ \A r \in batch : Day[r] \in todo => Counted(r) <= interrupts
    /\ pc = "zero" => \A r \in Records, k \in Int : HeadAt(r, k) => Counted(r) <= interrupts

\* Unless an offset was lost or left stale, it is behind a whole line, and what
\* the pass in flight reads from there is in its batch, in a ledger, or excused.
LossInv ==
    /\ offset # Damaged /\ ~staleOffset /\ pc # "zero"
         => offset <= Len(log) /\ (offset > 0 => log[offset].part = "tail")
    /\ Reading /\ ~staleOffset
         => offset < end /\ Lines(offset + 1, end) \subseteq batch \cup excused
    /\ Reading => \A r \in batch : Day[r] \in todo \/ Counted(r) > 0
    /\ NoneLost

LedgerInv == TypeOK /\ LogInv /\ PassInv /\ CountInv /\ LossInv

-----------------------------------------------------------------------------
(* Steps of the core *)

\* The day a connection was closed on has a ledger, which counts it; a damaged
\* one counts nothing.
LEMMA DaysOf ==
  /\ \A r \in Records : Day[r] \in Days
  /\ TypeOK => \A d \in Days : Loaded(d) \in [Records -> Nat]
  /\ TypeOK => \A r \in Records : Counted(r) \in Nat
<1>1. \A r \in Records : Day[r] \in Days
  BY DayAssumption DEF Days
<1>2. ASSUME TypeOK, NEW d \in Days
      PROVE  Loaded(d) \in [Records -> Nat]
  BY <1>2 DEF TypeOK, Loaded, Empty
<1> QED
  BY <1>1, <1>2 DEF Counted

\* What growth of the file does not change: the lines a pass read, and where the
\* next one begins but for later.
LEMMA AfterGrowth ==
  ASSUME LedgerInv, NEW u \in UnitType, log' = Append(log, u),
         UNCHANGED <<offset, pc, size, end, batch, todo, staleOffset>>
  PROVE  /\ PassInv'
         /\ Start \in Int /\ Start' \in Int /\ Start <= Start'
         /\ Reading /\ ~staleOffset => Lines(offset + 1, end)' = Lines(offset + 1, end)
         /\ offset # Damaged /\ ~staleOffset => \A q \in Records : Unread(q) => Unread(q)'
         /\ LossInv => (offset # Damaged /\ ~staleOffset /\ pc # "zero"
              => offset <= Len(log') /\ (offset > 0 => log'[offset].part = "tail"))
<1>1. PICK n \in Nat : n = Len(log)
  BY Units DEF LedgerInv
<1>2. /\ Len(log') = n + 1 /\ \A k \in 1..n : log'[k] = log[k]
  BY <1>1, Grown DEF LedgerInv
<1>3. Start' >= Start /\ Start \in Int /\ Start' \in Int
  BY <1>1, <1>2 DEF Start, LedgerInv, TypeOK
<1>4. ASSUME Reading, ~staleOffset PROVE Lines(offset + 1, end)' = Lines(offset + 1, end)
  <2>0. /\ offset \in Nat /\ end \in Nat /\ size \in Nat /\ end <= size
        /\ size <= n
    <3>1. end \in 0..size /\ size \in Nat /\ offset \in Nat \cup {Damaged}
      BY DEF LedgerInv, TypeOK
    <3>2. size <= n /\ offset # Damaged
      BY <1>1, <1>4 DEF LedgerInv, PassInv, Reading
    <3> QED
      BY <3>1, <3>2
  <2>1. PICK i, j \in Nat : i = offset + 1 /\ j = end /\ i > 0 /\ j <= n
    BY <2>0
  <2>2. \A k \in i..(j - 1) : /\ log'[k] = log[k] /\ log'[k + 1] = log[k + 1]
                              /\ k > i => log'[k - 1] = log[k - 1]
    BY <1>2, <2>1
  <2>3. Lines(i, j)' = Lines(i, j)
    BY <2>2 DEF Lines
  <2> QED
    BY <2>1, <2>3
<1>5. offset # Damaged /\ ~staleOffset /\ pc # "zero"
        => offset \in 0..n /\ Start = offset /\ Start' = offset
  BY <1>1, <1>2 DEF LedgerInv, LossInv, TypeOK, Start
<1>6. ASSUME offset # Damaged, ~staleOffset, NEW q \in Records, Unread(q) PROVE Unread(q)'
  <2>1. PICK from \in 0..n : from = IF pc = "zero" THEN 0 ELSE Start
    BY <1>1, <1>5, <1>6
  <2>2. PICK k \in (from + 1)..n : log[k] = Unit(q, "head")
    BY <1>1, <1>6, <2>1 DEF Unread
  <2>3. k \in (from + 1)..(n + 1) /\ log'[k] = Unit(q, "head")
    BY <1>2, <2>2
  <2>4. from = IF pc' = "zero" THEN 0 ELSE Start'
    BY <1>5, <1>6, <2>1
  <2> QED
    BY <1>2, <2>3, <2>4 DEF Unread
<1>7. ASSUME LossInv, offset # Damaged, ~staleOffset, pc # "zero"
      PROVE  offset <= Len(log') /\ (offset > 0 => log'[offset].part = "tail")
  BY <1>1, <1>2, <1>5, <1>7 DEF LossInv
<1>8. PassInv'
  <2>1. (pc' # "idle" => offset' # Damaged) /\ (pc' = "idle" => batch' = {})
        /\ (pc' # "days" => todo' = {})
    BY DEF LedgerInv, PassInv
  <2>2. (Reading \/ pc = "truncate") => size <= n /\ size <= n + 1
    BY <1>1 DEF LedgerInv, PassInv, TypeOK
  <2>3. Reading => end \in 1..n /\ log[end].part = "tail"
    BY <1>1 DEF LedgerInv, PassInv, TypeOK
  <2> QED
    BY <1>2, <2>1, <2>2, <2>3 DEF PassInv, Reading
<1> QED
  BY <1>3, <1>4, <1>6, <1>7, <1>8

\* The core begins a line: behind half a line, the record is spoiled.
LEMMA WriteHeadStep ==
  ASSUME LedgerInv, NEW r \in Records, WriteHead(r)
  PROVE  LedgerInv'
<1>1. PICK u \in UnitType : u = Unit(r, "head") /\ log' = Append(log, u)
  BY UnitFields DEF WriteHead
<1>2. PICK n \in Nat : n = Len(log)
  BY Units DEF LedgerInv
<1>3. /\ log' \in Seq(UnitType) /\ Len(log') = n + 1 /\ log'[n + 1] = u
      /\ \A k \in 1..n : log'[k] = log[k]
  BY <1>1, <1>2, Grown DEF LedgerInv
<1>4. /\ UNCHANGED <<today, written, offset, ledger, corrupt, detail, asked, pc, size, end, batch, todo,
                     excused, cut, dropped, interrupts, staleOffset>>
      /\ spoiled' = IF log # <<>> /\ log[Len(log)].part = "head"
                    THEN spoiled \cup {r} ELSE spoiled
      /\ r \notin Begun
  BY DEF WriteHead, panelVars, passVars
<1>5. r \notin written /\ \A k \in 1..n : log[k].of # r
  BY <1>2, <1>4, Units DEF Begun, LedgerInv
<1>6. \A q \in Records, k \in Int :
          HeadAt(q, k)' <=> HeadAt(q, k) \/ (q = r /\ k = n + 1)
  BY <1>1, <1>2, <1>3, UnitFields DEF HeadAt
<1>7. TypeOK'
  <2>1. log' \in Seq([of : Records, part : {"head", "tail"}])
    BY <1>3 DEF UnitType
  <2>2. spoiled' \subseteq Records
    BY <1>4 DEF LedgerInv, TypeOK
  <2> QED
    BY <1>4, <2>1, <2>2 DEF LedgerInv, TypeOK
<1>8. LogInv'
  <2>1. \A q \in Records, i, j \in Int : HeadAt(q, i)' /\ HeadAt(q, j)' => i = j
    <3>1. \A k \in Int : ~HeadAt(r, k)
      BY <1>2, <1>5, UnitFields DEF HeadAt
    <3> QED
      BY <1>6, <3>1 DEF LedgerInv, LogInv
  <2>2. \A k \in 1..Len(log') : log'[k].part = "tail" => log'[k].of \in written'
    BY <1>1, <1>2, <1>3, <1>4, UnitFields DEF LedgerInv, LogInv
  <2>3. \A q \in written', k \in Int : HeadAt(q, k)'
            => k + 1 \in 1..Len(log') /\ log'[k + 1] = Unit(q, "tail")
    BY <1>2, <1>3, <1>4, <1>5, <1>6 DEF LedgerInv, LogInv, TypeOK
  <2>4. \A q \in Records \ spoiled', k \in Int : HeadAt(q, k)' /\ k # 1
            => log'[k - 1].part = "tail"
    <3>1. ASSUME NEW q \in Records \ spoiled', NEW k \in Int, HeadAt(q, k), k # 1
          PROVE  log'[k - 1].part = "tail"
      <4>1. q \notin spoiled /\ k - 1 \in 1..n
        BY <1>2, <1>4, <3>1 DEF HeadAt
      <4> QED
        BY <1>3, <3>1, <4>1 DEF LedgerInv, LogInv
    <3>2. ASSUME r \notin spoiled', n + 1 # 1 PROVE log'[n].part = "tail"
      <4>1. n \in 1..n /\ log # <<>>
        BY <1>2, <3>2, Units DEF LedgerInv
      <4>2. log[n].part # "head" /\ log[n] \in UnitType
        BY <1>2, <1>4, <3>2, <4>1, Units DEF LedgerInv
      <4> QED
        BY <1>3, <4>1, <4>2, UnitFields
    <3> QED
      BY <1>6, <3>1, <3>2
  <2> QED
    BY <2>1, <2>2, <2>3, <2>4 DEF LogInv
<1>9. PassInv'
  BY <1>1, <1>4, AfterGrowth
<1>10. Counted(r)' = 0 /\ \A q \in Records : Counted(q)' = Counted(q)
  BY <1>4, <1>5, DaysOf DEF Counted, Loaded, LedgerInv, CountInv
<1>11. interrupts \in Nat /\ end \in Int
  BY DEF LedgerInv, TypeOK
<1>12. Start \in Int /\ Start' \in Int /\ Start <= Start'
  BY <1>1, <1>4, AfterGrowth
<1>13. CountInv'
  <2>1. /\ batch' \subseteq written' /\ \A q \in Records : Counted(q)' > 0 => q \in written'
        /\ CountedOnce'
        /\ \A q \in batch' : Day[q] \in todo' => Counted(q)' <= interrupts'
    BY <1>4, <1>10, DaysOf DEF LedgerInv, TypeOK, CountInv, CountedOnce
  <2>2. \A q \in Records, k \in Int : HeadAt(q, k)' /\ k > Start'
          => Counted(q)' <= interrupts' \/ (Reading /\ q \in batch /\ Day[q] \notin todo)'
    BY <1>4, <1>6, <1>10, <1>11, <1>12 DEF LedgerInv, CountInv, Reading
  <2>3. Reading' => \A q \in Records, k \in Int : HeadAt(q, k)' /\ k > end'
          => q \notin batch' /\ Counted(q)' <= interrupts'
    BY <1>4, <1>5, <1>6, <1>10, <1>11 DEF LedgerInv, CountInv, Reading
  <2>4. pc' = "zero" => \A q \in Records, k \in Int : HeadAt(q, k)' => Counted(q)' <= interrupts'
    BY <1>4, <1>6, <1>10, <1>11 DEF LedgerInv, CountInv
  <2> QED
    BY <2>1, <2>2, <2>3, <2>4 DEF CountInv
<1>14. LossInv'
  <2>1. NoneLost'
    BY <1>1, <1>4, <1>10, AfterGrowth DEF LedgerInv, LossInv, NoneLost, Expired, TypeOK
  <2>2. Reading' => \A q \in batch' : Day[q] \in todo' \/ Counted(q)' > 0
    BY <1>4, <1>10 DEF LedgerInv, LossInv, Reading, TypeOK
  <2> QED
    BY <1>1, <1>4, <2>1, <2>2, AfterGrowth DEF LedgerInv, LossInv, Reading
<1> QED
  BY <1>7, <1>8, <1>9, <1>13, <1>14 DEF LedgerInv

\* The core finishes the line it began last.
LEMMA WriteTailStep ==
  ASSUME LedgerInv, NEW r \in Records, WriteTail(r)
  PROVE  LedgerInv'
<1>1. PICK u \in UnitType : u = Unit(r, "tail") /\ log' = Append(log, u)
  BY UnitFields DEF WriteTail
<1>2. PICK n \in Nat : n = Len(log)
  BY Units DEF LedgerInv
<1>3. /\ log' \in Seq(UnitType) /\ Len(log') = n + 1 /\ log'[n + 1] = u
      /\ \A k \in 1..n : log'[k] = log[k]
  BY <1>1, <1>2, Grown DEF LedgerInv
<1>4. /\ UNCHANGED <<today, offset, ledger, corrupt, detail, asked, pc, size, end, batch, todo,
                     excused, cut, spoiled, dropped, interrupts, staleOffset>>
      /\ written' = written \cup {r}
  BY DEF WriteTail, panelVars, passVars, history
<1>5. (n > 0 /\ HeadAt(r, n)) \/ (n = 0 /\ r \in cut)
  BY <1>2, Units DEF WriteTail, HeadAt, LedgerInv
<1>6. \A q \in Records, k \in Int : HeadAt(q, k)' <=> HeadAt(q, k)
  BY <1>1, <1>2, <1>3, UnitFields DEF HeadAt
<1>7. TypeOK'
  <2>1. log' \in Seq([of : Records, part : {"head", "tail"}])
    BY <1>3 DEF UnitType
  <2>2. written' \subseteq Records
    BY <1>4 DEF LedgerInv, TypeOK
  <2> QED
    BY <1>4, <2>1, <2>2 DEF LedgerInv, TypeOK
<1>8. LogInv'
  <2>1. \A q \in Records, i, j \in Int : HeadAt(q, i)' /\ HeadAt(q, j)' => i = j
    BY <1>6 DEF LedgerInv, LogInv
  <2>2. \A k \in 1..Len(log') : log'[k].part = "tail" => log'[k].of \in written'
    BY <1>1, <1>2, <1>3, <1>4, UnitFields DEF LedgerInv, LogInv
  <2>3. ASSUME NEW q \in written', NEW k \in Int, HeadAt(q, k)'
        PROVE  k + 1 \in 1..Len(log') /\ log'[k + 1] = Unit(q, "tail")
    <3>1. q \in Records /\ HeadAt(q, k) /\ k \in 1..n
      BY <1>2, <1>4, <1>6, <2>3 DEF LedgerInv, TypeOK, HeadAt
    <3>2. CASE q \in written
      BY <1>2, <1>3, <3>1, <3>2 DEF LedgerInv, LogInv
    <3>3. CASE q = r
      <4>1. k = n
        BY <1>5, <3>1, <3>3 DEF LedgerInv, LogInv
      <4> QED
        BY <1>1, <1>3, <3>3, <4>1
    <3> QED
      BY <1>4, <3>2, <3>3
  <2>4. \A q \in Records \ spoiled', k \in Int : HeadAt(q, k)' /\ k # 1
            => log'[k - 1].part = "tail"
    <3>1. ASSUME NEW q \in Records \ spoiled', NEW k \in Int, HeadAt(q, k), k # 1
          PROVE  log'[k - 1].part = "tail"
      <4>1. q \notin spoiled /\ k - 1 \in 1..n
        BY <1>2, <1>4, <3>1 DEF HeadAt
      <4> QED
        BY <1>3, <3>1, <4>1 DEF LedgerInv, LogInv
    <3> QED
      BY <1>6, <3>1
  <2> QED
    BY <2>1, <2>2, <2>3, <2>4 DEF LogInv
<1>9. PassInv'
  BY <1>1, <1>4, AfterGrowth
<1>10. \A q \in Records : Counted(q)' = Counted(q)
  BY <1>4 DEF Counted, Loaded
<1>11. interrupts \in Nat /\ end \in Int
  BY DEF LedgerInv, TypeOK
<1>12. Start \in Int /\ Start' \in Int /\ Start <= Start'
  BY <1>1, <1>4, AfterGrowth
<1>13. CountInv'
  <2>1. /\ batch' \subseteq written' /\ \A q \in Records : Counted(q)' > 0 => q \in written'
        /\ CountedOnce'
        /\ \A q \in batch' : Day[q] \in todo' => Counted(q)' <= interrupts'
    BY <1>4, <1>10, DaysOf DEF LedgerInv, TypeOK, CountInv, CountedOnce
  <2>2. \A q \in Records, k \in Int : HeadAt(q, k)' /\ k > Start'
          => Counted(q)' <= interrupts' \/ (Reading /\ q \in batch /\ Day[q] \notin todo)'
    BY <1>4, <1>6, <1>10, <1>11, <1>12 DEF LedgerInv, CountInv, Reading
  <2>3. Reading' => \A q \in Records, k \in Int : HeadAt(q, k)' /\ k > end'
          => q \notin batch' /\ Counted(q)' <= interrupts'
    BY <1>4, <1>6, <1>10, <1>11 DEF LedgerInv, CountInv, Reading
  <2>4. pc' = "zero" => \A q \in Records, k \in Int : HeadAt(q, k)' => Counted(q)' <= interrupts'
    BY <1>4, <1>6, <1>10, <1>11 DEF LedgerInv, CountInv
  <2> QED
    BY <2>1, <2>2, <2>3, <2>4 DEF CountInv
<1>14. LossInv'
  <2>1. ASSUME offset # Damaged, ~staleOffset, r \notin cut PROVE Unread(r)
    <3>1. n > 0 /\ HeadAt(r, n) /\ log[n] = Unit(r, "head")
      BY <1>5, <2>1 DEF HeadAt
    <3>2. CASE pc = "zero"
      BY <1>2, <3>1, <3>2 DEF Unread
    <3>3. CASE pc # "zero"
      <4>1. offset \in Nat /\ offset <= n /\ (offset > 0 => log[offset].part = "tail")
        BY <1>2, <2>1, <3>3 DEF LedgerInv, LossInv, TypeOK
      <4>2. offset # n
        BY <3>1, <4>1, UnitFields
      <4>3. Start = offset
        BY <1>2, <2>1, <4>1 DEF Start
      <4> QED
        BY <1>2, <3>1, <3>3, <4>1, <4>2, <4>3 DEF Unread
    <3> QED
      BY <3>2, <3>3
  <2>2. NoneLost'
    BY <1>1, <1>4, <1>10, <2>1, AfterGrowth DEF LedgerInv, LossInv, NoneLost, Expired, TypeOK
  <2>3. Reading' => \A q \in batch' : Day[q] \in todo' \/ Counted(q)' > 0
    BY <1>4, <1>10 DEF LedgerInv, LossInv, Reading, TypeOK
  <2> QED
    BY <1>1, <1>4, <2>2, <2>3, AfterGrowth DEF LedgerInv, LossInv, Reading
<1> QED
  BY <1>7, <1>8, <1>9, <1>13, <1>14 DEF LedgerInv

-----------------------------------------------------------------------------
(* Steps that leave file and ledgers alone *)

\* What is out of retention stays so.
LEMMA LaterDays ==
  \A d, before, after, keep \in Int :
      before <= after /\ d < before - (keep - 1) => d < after - (keep - 1)
OBVIOUS

\* Steps that touch neither the file, nor the pass, nor a ledger.
LEMMA QuietStep ==
  ASSUME LedgerInv, DayPasses \/ Call \/ UNCHANGED vars \/ \E on \in BOOLEAN : SetDetail(on)
  PROVE  LedgerInv'
<1>1. /\ UNCHANGED <<log, written, offset, ledger, corrupt, pc, size, end, batch, todo, excused, cut,
                     spoiled, dropped, interrupts, staleOffset>>
      /\ today' \in Days /\ today' >= today
      /\ detail' \in BOOLEAN /\ asked' \subseteq BOOLEAN
  BY BoundAssumption DEF DayPasses, Call, SetDetail, vars, fileVars, passVars, panelVars, history,
     LedgerInv, TypeOK, Days
<1>2. TypeOK'
  BY <1>1 DEF LedgerInv, TypeOK
<1>3. LogInv' /\ PassInv'
  BY <1>1 DEF LedgerInv, LogInv, PassInv, HeadAt, Reading
<1>4. CountInv'
  BY <1>1 DEF LedgerInv, CountInv, CountedOnce, HeadAt, Reading, Counted, Loaded, Start
<1>5. NoneLost'
  <2>1. /\ today \in Int /\ today' \in Int /\ Retention \in Int
        /\ \A r \in Records : Day[r] \in Int
    <3>1. Days \subseteq Int /\ Retention \in Int
      BY SizeAssumption, BoundAssumption DEF Days
    <3>2. today \in Days /\ today' \in Days
      BY <1>1 DEF LedgerInv, TypeOK
    <3> QED
      BY <3>1, <3>2, DaysOf
  <2>2. \A r \in Records : Expired(Day[r]) => Expired(Day[r])'
    <3>1. PICK before, after, keep \in Int :
            before = today /\ after = today' /\ keep = Retention /\ before <= after
      BY <1>1, <2>1
    <3>2. \A d \in Int : d < before - (keep - 1) => d < after - (keep - 1)
      BY <3>1, LaterDays
    <3> QED
      BY <2>1, <3>1, <3>2 DEF Expired
  <2>3. \A r \in Records : Unread(r)' <=> Unread(r)
    BY <1>1 DEF Unread, Start
  <2>4. \A r \in Records : Counted(r)' = Counted(r)
    BY <1>1 DEF Counted, Loaded
  <2> QED
    BY <1>1, <2>2, <2>3, <2>4 DEF LedgerInv, LossInv, NoneLost, TypeOK
<1>6. LossInv'
  BY <1>1, <1>5 DEF LedgerInv, LossInv, Lines, Reading, Counted, Loaded
<1> QED
  BY <1>2, <1>3, <1>4, <1>6 DEF LedgerInv

\* A damaged offset: the next pass begins at the end, and no loss is claimed away.
LEMMA LoseOffsetStep ==
  ASSUME LedgerInv, LoseOffset
  PROVE  LedgerInv'
<1>1. /\ UNCHANGED <<today, log, written, ledger, corrupt, detail, asked, pc, size, end, batch, todo,
                     excused, cut, spoiled, dropped, interrupts, staleOffset>>
      /\ pc = "idle" /\ offset' = Damaged
  BY DEF LoseOffset, fileVars, passVars, panelVars, history
<1>2. TypeOK'
  BY <1>1 DEF LedgerInv, TypeOK
<1>3. LogInv' /\ PassInv'
  BY <1>1 DEF LedgerInv, LogInv, PassInv, HeadAt, Reading
<1>4. CountInv'
  <2>1. Start' = Len(log) /\ Len(log) \in Nat
    BY <1>1, Units DEF Start, LedgerInv
  <2>2. \A r \in Records, k \in Int : ~(HeadAt(r, k)' /\ k > Start')
    BY <1>1, <2>1 DEF HeadAt
  <2> QED
    BY <1>1, <2>2 DEF LedgerInv, CountInv, CountedOnce, Reading, Counted, Loaded
<1>5. LossInv'
  BY <1>1 DEF LossInv, NoneLost, Expired, Reading
<1> QED
  BY <1>2, <1>3, <1>4, <1>5 DEF LedgerInv

\* A damaged day: what it counted may be counted again, and is known as dropped.
LEMMA LoseDayStep ==
  ASSUME LedgerInv, NEW d \in Days, LoseDay(d)
  PROVE  LedgerInv'
<1>1. /\ UNCHANGED <<today, log, written, offset, ledger, detail, asked, pc, size, end, batch,
                     todo, excused, cut, spoiled, interrupts, staleOffset>>
      /\ pc = "idle" /\ d \notin corrupt /\ corrupt' = corrupt \cup {d}
      /\ dropped' = dropped \cup {r \in Records : Day[r] = d /\ ledger[d][r] > 0}
  BY DEF LoseDay, fileVars, passVars, panelVars
<1>2. TypeOK'
  BY <1>1 DEF LedgerInv, TypeOK
<1>3. LogInv' /\ PassInv'
  BY <1>1 DEF LedgerInv, LogInv, PassInv, HeadAt, Reading
<1>4. \A r \in Records :
         Counted(r) \in Nat /\ Counted(r)' = IF Day[r] = d THEN 0 ELSE Counted(r)
  BY <1>1, DaysOf DEF LedgerInv, Counted, Loaded, Empty
<1>5. /\ Start' = Start /\ interrupts \in Nat
      /\ \A r \in Records : Unread(r)' <=> Unread(r)
      /\ \A r \in Records, k \in Int : HeadAt(r, k)' <=> HeadAt(r, k)
  BY <1>1 DEF LedgerInv, TypeOK, Start, Unread, HeadAt
<1>6. CountInv'
  BY <1>1, <1>4, <1>5 DEF LedgerInv, PassInv, CountInv, CountedOnce, Reading
<1>7. LossInv'
  <2>1. ASSUME NEW r \in Records, r \notin dropped', Counted(r) > 0
        PROVE  Counted(r)' > 0
    <3>1. Day[r] # d
      BY <1>1, <2>1 DEF Counted, Loaded
    <3> QED
      BY <1>4, <2>1, <3>1
  <2>2. NoneLost'
    BY <1>1, <1>5, <2>1 DEF LedgerInv, TypeOK, LossInv, NoneLost, Expired
  <2> QED
    BY <1>1, <2>2 DEF LedgerInv, LossInv, Reading
<1> QED
  BY <1>2, <1>3, <1>6, <1>7 DEF LedgerInv

\* A pass ends where it is.
LEMMA InterruptStep ==
  ASSUME LedgerInv, Interrupt
  PROVE  LedgerInv'
<1>1. /\ UNCHANGED <<today, log, written, offset, ledger, corrupt, detail, asked, excused, cut, spoiled, dropped>>
      /\ pc' = "idle" /\ size' = 0 /\ end' = 0 /\ batch' = {} /\ todo' = {}
      /\ interrupts' = IF Reading /\ todo # {Day[r] : r \in batch}
                       THEN interrupts + 1 ELSE interrupts
      /\ staleOffset' = (staleOffset \/ pc = "zero")
  BY DEF Interrupt, Idle, fileVars, panelVars, Reading
<1>2. interrupts \in Nat /\ interrupts' \in Nat /\ interrupts <= interrupts'
  BY <1>1 DEF LedgerInv, TypeOK
<1>3. TypeOK'
  BY <1>1, <1>2 DEF LedgerInv, TypeOK
<1>4. LogInv' /\ PassInv'
  BY <1>1 DEF LedgerInv, LogInv, PassInv, HeadAt, Reading
<1>5. /\ Start' = Start
      /\ \A r \in Records : Counted(r)' = Counted(r) /\ Counted(r) \in Nat
      /\ \A r \in Records, k \in Int : HeadAt(r, k)' <=> HeadAt(r, k)
  BY <1>1, DaysOf DEF Start, Counted, Loaded, HeadAt, LedgerInv
<1>6. ASSUME NEW r \in Records, NEW k \in Int, HeadAt(r, k), k > Start
      PROVE  Counted(r) <= interrupts'
  <2>1. CASE Counted(r) <= interrupts
    BY <1>2, <1>5, <2>1
  <2>2. CASE Reading /\ r \in batch /\ Day[r] \notin todo
    <3>1. interrupts' = interrupts + 1
      BY <1>1, <2>2
    <3> QED
      BY <1>2, <3>1 DEF LedgerInv, CountInv, CountedOnce
  <2> QED
    BY <1>6, <2>1, <2>2 DEF LedgerInv, CountInv
<1>7. CountInv'
  <2>1. \A r \in Records : Counted(r)' <= 1 + interrupts'
    BY <1>2, <1>5 DEF LedgerInv, CountInv, CountedOnce
  <2> QED
    BY <1>1, <1>5, <1>6, <2>1 DEF LedgerInv, CountInv, CountedOnce, Reading
<1>8. LossInv'
  <2>1. CASE staleOffset'
    BY <1>1, <2>1 DEF LossInv, NoneLost, Expired, Reading
  <2>2. CASE ~staleOffset'
    BY <1>1, <1>3, <1>5, <2>2 DEF LedgerInv, LossInv, NoneLost, Expired, Unread, Reading, TypeOK
  <2> QED
    BY <2>1, <2>2
<1> QED
  BY <1>3, <1>4, <1>7, <1>8 DEF LedgerInv

-----------------------------------------------------------------------------
(* Steps of a pass *)

\* The clean-up before a pass: a day's ledger goes only out of retention.
LEMMA CleanUp ==
  ASSUME TypeOK, Clean \/ UNCHANGED dayFiles, today' = today
  PROVE  /\ ledger' \in [Days -> [Records -> Nat]] /\ corrupt' \subseteq Days
         /\ \A r \in Records :
                /\ Counted(r) \in Nat
                /\ \/ Counted(r)' = Counted(r)
                   \/ Counted(r)' = 0 /\ Expired(Day[r])
<1>1. CASE UNCHANGED dayFiles
  BY <1>1, DaysOf DEF TypeOK, Counted, Loaded
<1>2. CASE Clean
  <2>1. ledger' \in [Days -> [Records -> Nat]] /\ corrupt' \subseteq Days
    <3>1. Empty \in [Records -> Nat]
      BY DEF Empty
    <3> QED
      BY <1>2, <3>1 DEF Clean, TypeOK
  <2>2. ASSUME NEW r \in Records
        PROVE  \/ Counted(r)' = Counted(r)
               \/ Counted(r)' = 0 /\ Expired(Day[r])
    <3>1. CASE Expired(Day[r])
      <4>1. Day[r] \notin corrupt' /\ ledger'[Day[r]] = Empty
        BY <1>2, <3>1, DaysOf DEF Clean
      <4> QED
        BY <3>1, <4>1 DEF Counted, Loaded, Empty
    <3>2. CASE ~Expired(Day[r])
      <4>1. /\ Day[r] \in corrupt' <=> Day[r] \in corrupt
            /\ ledger'[Day[r]] = ledger[Day[r]]
        BY <1>2, <3>2, DaysOf DEF Clean
      <4> QED
        BY <4>1 DEF Counted, Loaded
    <3> QED
      BY <3>1, <3>2
  <2> QED
    BY <2>1, <2>2, DaysOf
<1> QED
  BY <1>1, <1>2

\* No new line: only ledgers out of retention go.
LEMMA NothingToReadStep ==
  ASSUME LedgerInv, pc = "idle", (Clean \/ UNCHANGED dayFiles), asked' \subseteq asked,
         UNCHANGED <<today, log, written, offset, detail, pc, size, end, batch, todo, excused,
                     cut, spoiled, dropped, interrupts, staleOffset>>
  PROVE  LedgerInv'
<1>1. TypeOK'
  BY CleanUp DEF LedgerInv, TypeOK
<1>2. LogInv' /\ PassInv'
  BY DEF LedgerInv, LogInv, PassInv, HeadAt, Reading
<1>3. \A r \in Records : /\ Counted(r) \in Nat /\ Counted(r)' \in Nat
                         /\ Counted(r)' <= Counted(r)
                         /\ \/ Counted(r)' = Counted(r)
                            \/ Counted(r)' = 0 /\ Expired(Day[r])
  BY CleanUp DEF LedgerInv
<1>4. /\ Start' = Start /\ interrupts \in Nat
      /\ \A r \in Records : Unread(r)' <=> Unread(r)
      /\ \A r \in Records, k \in Int : HeadAt(r, k)' <=> HeadAt(r, k)
  BY DEF LedgerInv, TypeOK, Start, Unread, HeadAt
<1>5. CountInv'
  BY <1>3, <1>4 DEF LedgerInv, PassInv, CountInv, CountedOnce, Reading
<1>6. LossInv'
  <2>1. NoneLost'
    BY <1>3, <1>4 DEF LedgerInv, TypeOK, LossInv, NoneLost, Expired
  <2> QED
    BY <2>1 DEF LedgerInv, LossInv, Reading
<1> QED
  BY <1>1, <1>2, <1>5, <1>6 DEF LedgerInv

\* A pass takes the lines from Start to the last complete one into its batch.
LEMMA BeginStep ==
  ASSUME LedgerInv, Begin
  PROVE  LedgerInv'
<1>1. PICK on \in asked :
        /\ pc = "idle" /\ asked' = asked \ {on} /\ (Clean \/ UNCHANGED dayFiles)
        /\ IF Start = Len(log) \/ LastLine = Start
           THEN UNCHANGED <<passVars, excused>>
           ELSE LET read == Lines(Start + 1, LastLine) IN
                /\ size' = Len(log) /\ end' = LastLine
                /\ batch' = IF on THEN read ELSE {}
                /\ todo' = {Day[r] : r \in batch'}
                /\ pc' = IF todo' = {} THEN "offset" ELSE "days"
                /\ excused' = IF on THEN excused ELSE excused \cup read
  BY DEF Begin
<1>2. UNCHANGED <<today, log, written, offset, detail, cut, spoiled, dropped, interrupts, staleOffset>>
  BY DEF Begin, fileVars
<1>3. CASE Start = Len(log) \/ LastLine = Start
  BY <1>1, <1>2, <1>3, NothingToReadStep DEF passVars
<1>4. CASE ~(Start = Len(log) \/ LastLine = Start)
  <2>1. PICK n, s, e \in Nat :
           /\ n = Len(log) /\ s = Start /\ e = LastLine /\ s < e /\ e <= n
           /\ log[e].part = "tail"
    <3>1. PICK n \in Nat : n = Len(log)
      BY Units DEF LedgerInv
    <3>2. PICK s \in 0..n : s = Start
      BY <3>1, StartInRange DEF LedgerInv
    <3>3. PICK e \in s..n : e = LastLine /\ (e = s \/ log[e].part = "tail")
      BY <3>1, <3>2, LastLineEnds DEF LedgerInv
    <3>4. e \in Nat /\ s < e /\ e <= n
      BY <1>4, <3>2, <3>3
    <3> QED
      BY <1>4, <3>1, <3>2, <3>3, <3>4
  <2>2. PICK read : read = Lines(s + 1, e)
    OBVIOUS
  <2>3. /\ size' = n /\ end' = e
        /\ \/ batch' = read /\ excused' = excused
           \/ batch' = {} /\ excused' = excused \cup read
        /\ todo' = {Day[r] : r \in batch'}
        /\ pc' = IF todo' = {} THEN "offset" ELSE "days"
    BY <1>1, <1>4, <2>1, <2>2
  <2>4. ASSUME NEW r \in read
        PROVE  /\ r \in Records /\ r \in written
               /\ \E k \in Int : HeadAt(r, k) /\ k > s /\ k < e
    <3>1. PICK k \in (s + 1)..(e - 1) : log[k] = Unit(r, "head") /\ log[k + 1] = Unit(r, "tail")
      BY <2>2 DEF Lines
    <3>2. HeadAt(r, k) /\ k > s /\ k < e /\ k + 1 \in 1..n
      BY <2>1, <3>1 DEF HeadAt
    <3>3. r \in written
      BY <2>1, <3>1, <3>2, UnitFields DEF LedgerInv, LogInv
    <3> QED
      BY <3>2, <3>3 DEF LedgerInv, TypeOK
  <2>5. \A r \in Records : /\ Counted(r) \in Nat /\ Counted(r)' \in Nat
                           /\ Counted(r)' <= Counted(r)
                           /\ \/ Counted(r)' = Counted(r)
                              \/ Counted(r)' = 0 /\ Expired(Day[r])
    BY <1>1, <1>2, CleanUp DEF LedgerInv
  <2>6. /\ Start' = s /\ interrupts \in Nat
        /\ \A r \in Records, k \in Int : HeadAt(r, k)' <=> HeadAt(r, k)
        /\ Reading' /\ ~Reading /\ pc' # "zero" /\ pc' # "idle"
    BY <1>1, <1>2, <2>1, <2>3 DEF LedgerInv, TypeOK, Start, HeadAt, Reading
  <2>7. \A r \in Records, k \in Int : HeadAt(r, k) /\ k > s => Counted(r) <= interrupts
    BY <2>1, <2>6 DEF LedgerInv, CountInv
  <2>8. batch' \subseteq read /\ read \subseteq Records
    BY <2>3, <2>4
  <2>9. TypeOK'
    <3>1. ledger' \in [Days -> [Records -> Nat]] /\ corrupt' \subseteq Days
      BY <1>1, <1>2, CleanUp DEF LedgerInv
    <3>2. todo' \subseteq Days
      BY <2>3, <2>8, DaysOf
    <3>3. size' \in Nat /\ end' \in 0..size' /\ pc' \in {"days", "offset"}
          /\ excused' \subseteq Records /\ batch' \subseteq Records
      BY <2>1, <2>3, <2>8 DEF LedgerInv, TypeOK
    <3> QED
      BY <1>1, <1>2, <3>1, <3>2, <3>3 DEF LedgerInv, TypeOK
  <2>10. LogInv'
    BY <1>2 DEF LedgerInv, LogInv, HeadAt
  <2>11. PassInv'
    <3>1. offset # Damaged
      BY <2>1 DEF Start
    <3>2. (pc' # "days" => todo' = {}) /\ size' <= Len(log')
      <4>1. pc' # "days" => todo' = {}
        BY <2>3
      <4>2. size' = n /\ Len(log') = n /\ n <= n
        BY <1>2, <2>1, <2>3
      <4> QED
        BY <4>1, <4>2
    <3>3. end' > 0 /\ log'[end'].part = "tail"
      BY <1>2, <2>1, <2>3
    <3> QED
      BY <1>2, <2>6, <3>1, <3>2, <3>3 DEF PassInv
  <2>12. CountInv'
    <3>1. batch' \subseteq written' /\ \A r \in Records : Counted(r)' > 0 => r \in written'
      BY <1>2, <2>4, <2>5, <2>8 DEF LedgerInv, CountInv
    <3>2. CountedOnce'
      BY <1>2, <2>5, <2>6 DEF LedgerInv, CountInv, CountedOnce
    <3>3. \A r \in Records, k \in Int : HeadAt(r, k)' /\ k > s => Counted(r)' <= interrupts'
      BY <1>2, <2>5, <2>6, <2>7
    <3>4. \A r \in Records, k \in Int : HeadAt(r, k)' /\ k > end'
            => r \notin batch' /\ Counted(r)' <= interrupts'
      <4>1. ASSUME NEW r \in Records, NEW k \in Int, HeadAt(r, k), k > e PROVE r \notin batch'
        BY <2>1, <2>4, <2>8, <4>1 DEF LedgerInv, LogInv
      <4> QED
        BY <2>1, <2>3, <2>6, <3>3, <4>1
    <3>5. \A r \in batch' : Counted(r)' <= interrupts'
      BY <1>2, <2>4, <2>5, <2>6, <2>7, <2>8
    <3> QED
      BY <2>6, <3>1, <3>2, <3>3, <3>4, <3>5 DEF CountInv
  <2>13. LossInv'
    <3>1. offset # Damaged /\ ~staleOffset => s = offset /\ offset <= n
      BY <1>1, <2>1 DEF LedgerInv, LossInv, TypeOK, Start
    <3>2. offset # Damaged
      BY <2>1 DEF Start
    <3>3. ~staleOffset => offset < end' /\ Lines(offset + 1, end)' \subseteq batch' \cup excused'
      <4>1. Lines(s + 1, e)' = read
        BY <1>2, <2>2 DEF Lines
      <4>2. ~staleOffset => Lines(offset + 1, end)' = read /\ offset < end'
        BY <1>2, <2>1, <2>3, <3>1, <3>2, <4>1
      <4> QED
        BY <2>3, <4>2
    <3>4. \A r \in batch' : Day[r] \in todo'
      BY <2>3
    <3>5. NoneLost'
      <4>1. \A r \in Records : Unread(r)' <=> Unread(r)
        BY <1>1, <1>2, <2>1, <2>6 DEF Unread
      <4> QED
        BY <1>2, <2>3, <2>5, <4>1 DEF LedgerInv, TypeOK, LossInv, NoneLost, Expired
    <3>6. offset' # Damaged /\ ~staleOffset' /\ pc' # "zero"
            => offset' <= Len(log') /\ (offset' > 0 => log'[offset'].part = "tail")
      BY <1>1, <1>2 DEF LedgerInv, LossInv
    <3> QED
      BY <1>2, <2>6, <3>3, <3>4, <3>5, <3>6 DEF LossInv
  <2> QED
    BY <2>9, <2>10, <2>11, <2>12, <2>13 DEF LedgerInv
<1> QED
  BY <1>3, <1>4

\* Adding a batch to a day counts what it holds of that day once more.
LEMMA WriteDayStep ==
  ASSUME LedgerInv, NEW d \in Days, WriteDay(d)
  PROVE  LedgerInv'
<1>1. /\ pc = "days" /\ d \in todo /\ todo' = todo \ {d}
      /\ pc' = IF todo' = {} THEN "offset" ELSE "days"
      /\ ledger' = [ledger EXCEPT ![d] = [r \in Records |->
                      Loaded(d)[r] + (IF r \in batch /\ Day[r] = d THEN 1 ELSE 0)]]
      /\ corrupt' = corrupt \ {d}
      /\ UNCHANGED <<today, log, written, offset, detail, asked, size, end, batch, excused, cut,
                     spoiled, dropped, interrupts, staleOffset>>
  BY DEF WriteDay, fileVars, panelVars, history
<1>2. /\ Reading /\ Reading' /\ Start' = Start /\ interrupts \in Nat /\ batch \subseteq Records
      /\ pc' # "zero" /\ pc' # "idle" /\ pc # "zero"
      /\ \A r \in Records, k \in Int : HeadAt(r, k)' <=> HeadAt(r, k)
      /\ \A r \in Records : Unread(r)' <=> Unread(r)
  BY <1>1 DEF LedgerInv, TypeOK, Reading, Start, HeadAt, Unread
<1>3. ledger' \in [Days -> [Records -> Nat]] /\ corrupt' \subseteq Days
  <2>1. PICK row : row = [r \in Records |->
                            Loaded(d)[r] + (IF r \in batch /\ Day[r] = d THEN 1 ELSE 0)]
    OBVIOUS
  <2>2. row \in [Records -> Nat]
    BY <2>1, DaysOf DEF LedgerInv
  <2>3. ledger' = [ledger EXCEPT ![d] = row]
    BY <1>1, <2>1
  <2> QED
    BY <1>1, <2>2, <2>3 DEF LedgerInv, TypeOK
<1>4. \A r \in Records :
         /\ Counted(r) \in Nat
         /\ Counted(r)' = Counted(r) + (IF r \in batch /\ Day[r] = d THEN 1 ELSE 0)
  <2> TAKE r \in Records
  <2>1. Counted(r) \in Nat /\ Day[r] \in Days
    BY DaysOf DEF LedgerInv
  <2>2. CASE Day[r] = d
    <3>1. d \notin corrupt' /\ ledger'[d][r] = Loaded(d)[r] + (IF r \in batch THEN 1 ELSE 0)
      BY <1>1, <2>2 DEF LedgerInv, TypeOK
    <3>2. Counted(r)' = ledger'[d][r] /\ Counted(r) = Loaded(d)[r]
      BY <2>2, <3>1 DEF Counted, Loaded
    <3> QED
      BY <2>1, <2>2, <3>1, <3>2
  <2>3. CASE Day[r] # d
    <3>1. ledger'[Day[r]] = ledger[Day[r]] /\ (Day[r] \in corrupt' <=> Day[r] \in corrupt)
      BY <1>1, <2>1, <2>3 DEF LedgerInv, TypeOK
    <3>2. Counted(r)' = Counted(r)
      BY <3>1 DEF Counted, Loaded
    <3> QED
      BY <2>1, <2>3, <3>2
  <2> QED
    BY <2>2, <2>3
<1>5. TypeOK'
  <2>1. todo' \subseteq Days /\ pc' \in {"days", "offset"}
    BY <1>1 DEF LedgerInv, TypeOK
  <2> QED
    BY <1>1, <1>3, <2>1 DEF LedgerInv, TypeOK
<1>6. LogInv'
  BY <1>1 DEF LedgerInv, LogInv, HeadAt
<1>7. PassInv'
  BY <1>1, <1>2 DEF LedgerInv, PassInv
<1>8. CountInv'
  <2>1. batch' \subseteq written' /\ \A r \in Records : Counted(r)' > 0 => r \in written'
    BY <1>1, <1>4 DEF LedgerInv, CountInv
  <2>2. ASSUME NEW r \in Records, r \in batch, Day[r] = d
        PROVE  Counted(r)' <= 1 + interrupts /\ Day[r] \notin todo'
    BY <1>1, <1>2, <1>4, <2>2 DEF LedgerInv, CountInv
  <2>3. CountedOnce'
    BY <1>1, <1>2, <1>4, <2>2 DEF LedgerInv, CountInv, CountedOnce
  <2>4. ASSUME NEW r \in Records, ~(r \in batch /\ Day[r] = d)
        PROVE  Counted(r)' = Counted(r) /\ (Day[r] \in todo' <=> Day[r] \in todo \ {d})
    BY <1>1, <1>4, <2>4
  <2>5. ASSUME NEW r \in Records, NEW k \in Int, HeadAt(r, k)', k > Start'
        PROVE  Counted(r)' <= interrupts' \/ (Reading /\ r \in batch /\ Day[r] \notin todo)'
    <3>1. CASE r \in batch /\ Day[r] = d
      BY <1>1, <1>2, <2>2, <3>1
    <3>2. CASE ~(r \in batch /\ Day[r] = d)
      BY <1>1, <1>2, <2>4, <2>5, <3>2 DEF LedgerInv, CountInv
    <3> QED
      BY <3>1, <3>2
  <2>6. ASSUME NEW r \in Records, NEW k \in Int, HeadAt(r, k)', k > end'
        PROVE  r \notin batch' /\ Counted(r)' <= interrupts'
    BY <1>1, <1>2, <1>4, <2>6 DEF LedgerInv, CountInv
  <2>7. ASSUME NEW r \in batch', Day[r] \in todo' PROVE Counted(r)' <= interrupts'
    BY <1>1, <1>2, <2>2, <2>4, <2>7 DEF LedgerInv, CountInv
  <2> QED
    BY <1>2, <2>1, <2>3, <2>5, <2>6, <2>7 DEF CountInv
<1>9. LossInv'
  <2>1. \A r \in batch' : Day[r] \in todo' \/ Counted(r)' > 0
    BY <1>1, <1>2, <1>4 DEF LedgerInv, LossInv
  <2>2. ~staleOffset => offset < end /\ Lines(offset + 1, end)' \subseteq batch \cup excused
    BY <1>1, <1>2 DEF LedgerInv, LossInv, Lines
  <2>3. NoneLost'
    <3>1. \A r \in Records : Counted(r) > 0 => Counted(r)' > 0
      BY <1>4
    <3>2. written \subseteq Records /\ NoneLost
      BY DEF LedgerInv, TypeOK, LossInv
    <3> QED
      BY <1>1, <1>2, <3>1, <3>2 DEF NoneLost, Expired
  <2>4. offset' # Damaged /\ ~staleOffset'
          => offset' <= Len(log') /\ (offset' > 0 => log'[offset'].part = "tail")
    BY <1>1, <1>2 DEF LedgerInv, LossInv
  <2> QED
    BY <1>1, <2>1, <2>2, <2>3, <2>4 DEF LossInv
<1> QED
  BY <1>5, <1>6, <1>7, <1>8, <1>9 DEF LedgerInv

\* What the pass read is counted, or excused, when the offset moves behind it.
LEMMA WriteOffsetStep ==
  ASSUME LedgerInv, WriteOffset
  PROVE  LedgerInv'
<1>1. /\ pc = "offset" /\ offset' = end
      /\ UNCHANGED <<today, log, written, ledger, corrupt, detail, asked, excused, cut, spoiled, dropped,
                     interrupts, staleOffset>>
      /\ \/ /\ pc' = "truncate" /\ end = size
            /\ UNCHANGED <<size, end, batch, todo>>
         \/ /\ pc' = "idle" /\ size' = 0 /\ end' = 0 /\ batch' = {} /\ todo' = {}
  BY DEF WriteOffset, Idle, fileVars, panelVars, history
<1>2. PICK n \in Nat, e \in Nat : n = Len(log) /\ e = end /\ e <= n /\ e > 0
                                 /\ log[e].part = "tail" /\ e <= size /\ size <= n
  <2>1. Len(log) \in Nat /\ end \in Nat /\ size \in Nat /\ end <= size
    BY Units DEF LedgerInv, TypeOK
  <2>2. size <= Len(log) /\ end > 0 /\ log[end].part = "tail"
    BY <1>1 DEF LedgerInv, PassInv, Reading
  <2> QED
    BY <2>1, <2>2
<1>3. /\ Reading /\ ~Reading' /\ todo = {} /\ pc # "zero" /\ pc' # "zero" /\ offset # Damaged
      /\ Start' = e /\ interrupts \in Nat
      /\ \A r \in Records, k \in Int : HeadAt(r, k)' <=> HeadAt(r, k)
      /\ \A r \in Records : Counted(r)' = Counted(r) /\ Counted(r) \in Nat
  BY <1>1, <1>2, DaysOf
     DEF LedgerInv, TypeOK, PassInv, Reading, Start, HeadAt, Counted, Loaded, Damaged
<1>4. TypeOK'
  BY <1>1, <1>2 DEF LedgerInv, TypeOK
<1>5. LogInv'
  BY <1>1 DEF LedgerInv, LogInv, HeadAt
<1>6. PassInv'
  <2>1. offset' # Damaged
    BY <1>1, <1>2 DEF Damaged
  <2>2. pc' = "truncate" => size' <= Len(log')
    BY <1>1, <1>2
  <2> QED
    BY <1>1, <1>3, <2>1, <2>2 DEF PassInv
<1>7. CountInv'
  BY <1>1, <1>2, <1>3 DEF LedgerInv, CountInv, CountedOnce
<1>8. LossInv'
  <2>1. ASSUME ~staleOffset, NEW r \in written \ (excused \cup cut \cup spoiled \cup dropped), NEW k \in Int,
               HeadAt(r, k), k > offset, k <= e
        PROVE  Counted(r) > 0
    <3>1. r \in Records /\ k + 1 \in 1..n /\ log[k + 1] = Unit(r, "tail")
      BY <1>2, <2>1 DEF LedgerInv, TypeOK, LogInv
    <3>2. k # e
      BY <1>2, <2>1, UnitFields DEF HeadAt
    <3>0. offset \in Nat
      BY <1>3 DEF LedgerInv, TypeOK
    <3>3. offset \in Nat /\ k \in (offset + 1)..(e - 1)
      BY <2>1, <3>2, <3>0
    <3>4. k > offset + 1 => log[k - 1].part = "tail"
      BY <2>1, <3>1, <3>3 DEF LedgerInv, LogInv
    <3>5. r \in Lines(offset + 1, e)
      BY <2>1, <3>1, <3>3, <3>4 DEF Lines, HeadAt
    <3>6. r \in batch
      BY <1>2, <1>3, <2>1, <3>5 DEF LedgerInv, LossInv
    <3> QED
      BY <1>3, <3>6 DEF LedgerInv, LossInv
  <2>2. NoneLost'
    <3>1. ASSUME ~staleOffset, NEW r \in written \ (excused \cup cut \cup spoiled \cup dropped), Unread(r)
          PROVE  Counted(r) > 0 \/ Unread(r)'
      <4>1. Start = offset /\ offset \in Nat
        BY <1>2, <1>3, <3>1 DEF LedgerInv, LossInv, TypeOK, Start
      <4>2. PICK k \in (offset + 1)..n : log[k] = Unit(r, "head")
        BY <1>2, <1>3, <3>1, <4>1 DEF Unread
      <4>3. HeadAt(r, k) /\ k > offset
        BY <1>2, <4>1, <4>2 DEF HeadAt
      <4>4. CASE k <= e
        BY <2>1, <3>1, <4>3, <4>4
      <4>5. CASE k > e
        BY <1>1, <1>2, <1>3, <4>1, <4>2, <4>5 DEF Unread
      <4> QED
        BY <1>2, <4>1, <4>4, <4>5
    <3> QED
      BY <1>1, <1>3, <3>1 DEF LedgerInv, LossInv, NoneLost, Expired, TypeOK
  <2>3. offset' <= Len(log') /\ (offset' > 0 => log'[offset'].part = "tail")
    BY <1>1, <1>2
  <2> QED
    BY <1>3, <2>2, <2>3 DEF LossInv
<1> QED
  BY <1>4, <1>5, <1>6, <1>7, <1>8 DEF LedgerInv

\* The file goes, and with it what was written behind the pass.
LEMMA TruncateStep ==
  ASSUME LedgerInv, Truncate
  PROVE  LedgerInv'
<1>1. /\ pc = "truncate" /\ pc' = "zero" /\ log' = <<>>
      /\ cut' = cut \cup {log[k].of : k \in (size + 1)..Len(log)}
      /\ UNCHANGED <<today, written, offset, ledger, corrupt, detail, asked, size, end, batch, todo,
                     excused, spoiled, dropped, interrupts, staleOffset>>
  BY DEF Truncate, panelVars
<1>2. PICK n, z \in Nat : /\ n = Len(log) /\ z = size /\ z <= n /\ offset = z /\ Start = z
  BY <1>1, Units DEF LedgerInv, TypeOK, PassInv, Start, Damaged
<1>3. /\ Len(log') = 0 /\ log' \in Seq([of : Records, part : {"head", "tail"}])
      /\ 1..Len(log') = {}
  BY <1>1, EmptySeq
<1>4. \A r, k : ~HeadAt(r, k)'
  BY <1>3 DEF HeadAt
<1>5. /\ Start' \in Int /\ Start' >= 0
      /\ \A r \in Records : Counted(r)' = Counted(r)
  BY <1>1, <1>2, <1>3 DEF Start, Counted, Loaded
<1>6. TypeOK'
  <2>1. cut' \subseteq Records
    <3>1. \A k \in (z + 1)..n : log[k].of \in Records
      BY <1>2, Units, UnitFields DEF LedgerInv
    <3> QED
      BY <1>1, <1>2, <3>1 DEF LedgerInv, TypeOK
  <2> QED
    BY <1>1, <1>3, <2>1 DEF LedgerInv, TypeOK
<1>7. LogInv'
  BY <1>3, <1>4 DEF LogInv
<1>8. PassInv'
  BY <1>1 DEF LedgerInv, PassInv, Reading
<1>9. CountInv'
  <2>1. batch' \subseteq written' /\ \A r \in Records : Counted(r)' > 0 => r \in written'
    BY <1>1, <1>5 DEF LedgerInv, CountInv
  <2>2. CountedOnce'
    BY <1>1, <1>5 DEF LedgerInv, CountInv, CountedOnce
  <2>3. ~Reading' /\ todo' = {}
    BY <1>1 DEF LedgerInv, PassInv, Reading
  <2> QED
    BY <1>4, <2>1, <2>2, <2>3 DEF CountInv
<1>10. NoneLost'
  <2>1. ASSUME NEW r \in Records, Unread(r) PROVE r \in cut'
    <3>1. PICK k \in (z + 1)..n : log[k] = Unit(r, "head")
      BY <1>1, <1>2, <2>1 DEF Unread
    <3>2. log[k].of = r
      BY <3>1, UnitFields
    <3> QED
      BY <1>1, <1>2, <3>2
  <2> QED
    BY <1>1, <1>5, <2>1 DEF LedgerInv, LossInv, NoneLost, Expired, TypeOK
<1>11. LossInv'
  BY <1>1, <1>10 DEF LossInv, Reading
<1> QED
  BY <1>6, <1>7, <1>8, <1>9, <1>11 DEF LedgerInv

\* The offset returns to the beginning of the truncated file.
LEMMA WriteZeroStep ==
  ASSUME LedgerInv, WriteZero
  PROVE  LedgerInv'
<1>1. /\ pc = "zero" /\ offset' = 0 /\ pc' = "idle" /\ size' = 0 /\ end' = 0 /\ batch' = {}
      /\ todo' = {}
      /\ UNCHANGED <<today, log, written, ledger, corrupt, detail, asked, excused, cut, spoiled, dropped,
                     interrupts, staleOffset>>
  BY DEF WriteZero, Idle, fileVars, panelVars, history
<1>2. /\ Len(log) \in Nat /\ Start' = 0 /\ ~Reading' /\ offset # Damaged
      /\ \A r \in Records, k \in Int : HeadAt(r, k)' <=> HeadAt(r, k)
      /\ \A r \in Records : Counted(r)' = Counted(r)
  BY <1>1, Units DEF LedgerInv, PassInv, Reading, Start, HeadAt, Counted, Loaded, Damaged
<1>3. TypeOK'
  BY <1>1 DEF LedgerInv, TypeOK
<1>4. LogInv' /\ PassInv'
  BY <1>1, <1>2 DEF LedgerInv, LogInv, PassInv, HeadAt, Damaged
<1>5. CountInv'
  BY <1>1, <1>2 DEF LedgerInv, CountInv, CountedOnce
<1>6. \A r \in Records : Unread(r)' <=> Unread(r)
  BY <1>1, <1>2 DEF Unread
<1>7. LossInv'
  BY <1>1, <1>2, <1>6 DEF LedgerInv, LossInv, NoneLost, Expired, TypeOK
<1> QED
  BY <1>3, <1>4, <1>5, <1>7 DEF LedgerInv

-----------------------------------------------------------------------------
(* The theorems *)

\* The invariant holds at first, before any line is written.
LEMMA LedgerBegins == Init => LedgerInv
<1> SUFFICES ASSUME Init PROVE LedgerInv
  OBVIOUS
<1>1. /\ Len(log) = 0 /\ log \in Seq([of : Records, part : {"head", "tail"}])
      /\ 1..Len(log) = {}
  BY EmptySeq DEF Init
<1>2. TypeOK
  <2>1. Empty \in [Records -> Nat]
    BY DEF Empty
  <2>2. ledger \in [Days -> [Records -> Nat]] /\ corrupt \subseteq Days
    BY <2>1 DEF Init
  <2>3. /\ today \in Days /\ pc \in {"idle", "days", "offset", "truncate", "zero"}
        /\ size \in Nat /\ end \in 0..size /\ batch \subseteq Records /\ todo \subseteq Days
        /\ interrupts \in Nat /\ staleOffset \in BOOLEAN
        /\ offset \in Nat \cup {Damaged} /\ detail \in BOOLEAN /\ asked \subseteq BOOLEAN
    BY BoundAssumption DEF Init, Days
  <2>4. excused \cup cut \cup spoiled \cup dropped \subseteq Records /\ written \subseteq Records
        /\ pc = "idle"
    BY DEF Init
  <2> QED
    BY <1>1, <2>2, <2>3, <2>4 DEF TypeOK
<1>3. /\ \A r, k : ~HeadAt(r, k)
      /\ \A r \in Records : Counted(r) = 0
      /\ pc = "idle" /\ batch = {} /\ todo = {} /\ written = {} /\ offset = 0 /\ ~Reading
      /\ interrupts = 0 /\ staleOffset = FALSE
  BY <1>1, DaysOf DEF Init, HeadAt, Counted, Loaded, Empty, Reading
<1>4. LogInv
  BY <1>1, <1>3 DEF LogInv
<1>5. PassInv
  BY <1>3 DEF PassInv, Damaged, Reading
<1>6. CountInv
  BY <1>3 DEF CountInv, CountedOnce
<1>7. LossInv
  BY <1>1, <1>3 DEF LossInv, NoneLost, Expired
<1> QED
  BY <1>2, <1>4, <1>5, <1>6, <1>7 DEF LedgerInv

\* Every step of the core, the panel and the calendar preserves the invariant.
LEMMA LedgerStep ==
  ASSUME LedgerInv, [Next]_vars
  PROVE  LedgerInv'
<1>1. CASE DayPasses \/ (\E on \in BOOLEAN : SetDetail(on)) \/ Call \/ UNCHANGED vars
  BY <1>1, QuietStep
<1>2. CASE LoseOffset \/ \E d \in Days : LoseDay(d)
  BY <1>2, LoseOffsetStep, LoseDayStep
<1>3. CASE Core
  BY <1>3, WriteHeadStep, WriteTailStep DEF Core
<1>4. CASE Begin
  BY <1>4, BeginStep
<1>5. CASE Pass
  BY <1>5, WriteDayStep, WriteOffsetStep, TruncateStep, WriteZeroStep DEF Pass
<1>6. CASE Interrupt
  BY <1>6, InterruptStep
<1> QED
  BY <1>1, <1>2, <1>3, <1>4, <1>5, <1>6 DEF Next

\* The parts of LedgerInv hold together in every reachable state: what stands in
\* the record file, in the pass that reads it and in the ledgers fits together
\* after every write of aggregateSiteRecords, wherever it was interrupted.
THEOREM LedgerCorrect == Spec => []LedgerInv
<1>1. LedgerInv /\ [Next]_vars => LedgerInv'
  BY LedgerStep
<1> QED
  BY <1>1, LedgerBegins, PTL DEF Spec

\* The variables of the ledger stay in their ranges, and a file is truncated only
\* by a pass that read all it found in it (advanceSiteOffset).
THEOREM LedgerTypeCorrect == Spec => []TypeOK
<1>1. LedgerInv => TypeOK
  BY DEF LedgerInv
<1> QED
  BY <1>1, LedgerCorrect, PTL

\* A record is in its ledger at most once more than passes were interrupted
\* between a ledger and the offset, for any number of interruptions.
THEOREM RecordsCountedOnce == Spec => []CountedOnce
<1>1. LedgerInv => CountedOnce
  BY DEF LedgerInv, CountInv
<1> QED
  BY <1>1, LedgerCorrect, PTL

\* A finished line is in its ledger, still ahead of the offset or out of
\* retention, but for the losses the code accepts, which NoneLost names.
THEOREM NoRecordLost == Spec => []NoneLost
<1>1. LedgerInv => NoneLost
  BY DEF LedgerInv, LossInv
<1> QED
  BY <1>1, LedgerCorrect, PTL
=============================================================================
