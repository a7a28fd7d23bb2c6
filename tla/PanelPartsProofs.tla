--------------------------- MODULE PanelPartsProofs ----------------------------
(***************************************************************************)
(* Login, certificate renewal and the rule-set watch keep their promises, for *)
(* every number of addresses, attempts and rule sets.  Each part has an    *)
(* inductive invariant: its type invariant, and what its properties rest on. *)
(* A step of the whole is a step of one part that leaves the others alone. *)
(***************************************************************************)
EXTENDS MCPanelParts, FiniteSetTheorems, TLAPS

LEMMA PartsBegin ==
  ASSUME PartsInit
  PROVE  /\ Init /\ Login!Init /\ Certificate!Init /\ Rules!Init /\ Ping!Init
         /\ Daily!Init /\ Settings!Init
BY DEF PartsInit

LEMMA PartsStep ==
  ASSUME [PartsNext]_partVars
  PROVE  /\ [Next]_vars
         /\ [Login!Next]_loginVars
         /\ [Certificate!Next]_certVars
         /\ [Rules!Next]_ruleVars
         /\ [Ping!Next]_pingVars
         /\ [Daily!Next]_dayVars
         /\ [Settings!Next]_settingsVars
BY DEF PartsNext, partVars

-----------------------------------------------------------------------------
(* Login and its throttle (app.go) *)

\* The throttle's instance counts as everybody else does.
LEMMA LoginCounts == \A S : Login!Cardinality(S) = Cardinality(S)
BY DEF Login!Cardinality, Cardinality

\* An entry's ban ends within the time its last ban is long; the entry of an
\* address that never was banned holds none.
BansInv ==
    \A a \in DOMAIN fails :
        IF fails[a].bans = 0 THEN fails[a].blockedUntil = -1
        ELSE fails[a].blockedUntil <= now + Login!BanDuration(fails[a].bans)

LoginInv == Login!TypeOK /\ Login!BanStopsNewAttempts /\ BansInv

\* A set of naturals has a smallest element.
LEMMA SmallestNumber ==
  ASSUME NEW Q, Q \subseteq Nat, Q # {}
  PROVE  \E m \in Q : \A n \in Q : m <= n
<1>1. PICK R : R = OpToRel(<, Nat)
  OBVIOUS
<1>2. IsWellFoundedOn(R, Nat)
  BY <1>1, NatLessThanWellFounded
<1>3. \A x, y \in Nat : <<x, y>> \in R <=> x < y
  BY <1>1 DEF OpToRel
<1>4. PICK m \in Q : \A n \in Q : <<n, m>> \notin R
  BY <1>2, WFMin
<1>5. ASSUME NEW n \in Q PROVE m <= n
  <2>1. m \in Nat /\ n \in Nat /\ ~(n < m)
    BY <1>3, <1>4
  <2> QED
    BY <2>1
<1> QED
  BY <1>5

\* What follows a ban of the length d: twice as long, within the longest.
AfterBan(d) == IF 2 * d >= MaxBan THEN MaxBan ELSE 2 * d

\* The first n bans.
Lengthens(ban, n) == ban = [i \in 1..n |-> IF i = 1 THEN FirstBan ELSE AfterBan(ban[i - 1])]

LEMMA SameBans ==
  ASSUME NEW n \in Nat, NEW g, Lengthens(g, n), NEW k \in Nat, NEW h, Lengthens(h, k),
         NEW j \in Nat \ {0}, j <= n, j <= k
  PROVE  g[j] = h[j]
<1>1. PICK Q : Q = {i \in 1..j : g[i] # h[i]}
  OBVIOUS
<1>2. SUFFICES ASSUME Q # {} PROVE FALSE
  BY <1>1
<1>3. PICK m \in Q : \A i \in Q : m <= i
  BY <1>1, <1>2, SmallestNumber
<1>4. m \in 1..j /\ m \in 1..n /\ m \in 1..k
  BY <1>1
<1>5. g[m] = IF m = 1 THEN FirstBan ELSE AfterBan(g[m - 1])
  BY <1>4 DEF Lengthens
<1>6. h[m] = IF m = 1 THEN FirstBan ELSE AfterBan(h[m - 1])
  BY <1>4 DEF Lengthens
<1>7. m # 1
  BY <1>1, <1>5, <1>6
<1>8. m - 1 \in 1..j /\ ~(m <= m - 1)
  BY <1>4, <1>7
<1>9. g[m - 1] = h[m - 1]
  BY <1>1, <1>3, <1>8
<1> QED
  BY <1>1, <1>5, <1>6, <1>9

LEMMA BansExist ==
  ASSUME NEW n \in Nat
  PROVE  \E ban : Lengthens(ban, n)
<1>1. PICK Q : Q = {k \in Nat : ~ \E ban : Lengthens(ban, k)}
  OBVIOUS
<1>2. SUFFICES ASSUME Q # {} PROVE FALSE
  BY <1>1
<1>3. PICK m \in Q : \A i \in Q : m <= i
  BY <1>1, <1>2, SmallestNumber
<1>4. m # 0
  <2>1. PICK ban : ban = [i \in 1..0 |-> IF i = 1 THEN FirstBan ELSE AfterBan(<<>>[i - 1])]
    OBVIOUS
  <2>2. ban = [i \in 1..0 |-> IF i = 1 THEN FirstBan ELSE AfterBan(ban[i - 1])]
    BY <2>1
  <2>3. Lengthens(ban, 0)
    BY <2>2 DEF Lengthens
  <2> QED
    BY <1>1, <2>3
<1>5. PICK k \in Nat : m = k + 1
  <2>1. m - 1 \in Nat /\ m = (m - 1) + 1
    BY <1>1, <1>4
  <2> QED
    BY <2>1
<1>6. PICK g : Lengthens(g, k)
  <2>1. ~(m <= k)
    BY <1>5
  <2> QED
    BY <1>1, <1>3, <2>1
<1>7. PICK ban : ban = [i \in 1..m |->
                          IF i = m THEN IF i = 1 THEN FirstBan ELSE AfterBan(g[k]) ELSE g[i]]
  OBVIOUS
<1>8. ASSUME NEW i \in 1..m
      PROVE  ban[i] = IF i = 1 THEN FirstBan ELSE AfterBan(ban[i - 1])
  <2>1. CASE i = m
    <3>1. i # 1 => ban[i - 1] = g[k]
      <4>1. i - 1 = k /\ (i # 1 => i - 1 \in 1..m /\ i - 1 # m)
        BY <1>5, <2>1
      <4> QED
        BY <1>7, <4>1
    <3> QED
      BY <1>7, <2>1, <3>1
  <2>2. CASE i # m
    <3>1. i \in 1..k
      BY <1>5, <2>2
    <3>2. g[i] = IF i = 1 THEN FirstBan ELSE AfterBan(g[i - 1])
      BY <1>6, <3>1 DEF Lengthens
    <3>3. i # 1 => i - 1 \in 1..m /\ i - 1 # m
      BY <1>5, <3>1
    <3> QED
      BY <1>7, <2>2, <3>2, <3>3
  <2> QED
    BY <2>1, <2>2
<1>9. ban = [i \in 1..m |-> IF i = 1 THEN FirstBan ELSE AfterBan(ban[i - 1])]
  BY <1>7, <1>8
<1> QED
  BY <1>1, <1>9 DEF Lengthens

\* The loop's next value from the one before.
LEMMA NextBan ==
  ASSUME NEW n \in Nat \ {0}
  PROVE  /\ Login!BanDuration(1) = FirstBan
         /\ Login!BanDuration(n + 1) = AfterBan(Login!BanDuration(n))
<1>1. ASSUME NEW k \in Nat \ {0}
      PROVE  \E ban : Lengthens(ban, k) /\ Login!BanDuration(k) = ban[k]
  <2>1. PICK ban : ban = CHOOSE b : Lengthens(b, k)
    OBVIOUS
  <2>2. Lengthens(ban, k)
    BY <2>1, BansExist
  <2>3. Login!BanDuration(k) = ban[k]
    BY <2>1 DEF Login!BanDuration, Lengthens, AfterBan
  <2> QED
    BY <2>2, <2>3
<1>2. PICK one : Lengthens(one, 1) /\ Login!BanDuration(1) = one[1]
  BY <1>1
<1>3. one[1] = FirstBan
  <2>1. 1 \in 1..1
    OBVIOUS
  <2> QED
    BY <1>2, <2>1 DEF Lengthens
<1>4. PICK g : Lengthens(g, n) /\ Login!BanDuration(n) = g[n]
  BY <1>1
<1>5. PICK k \in Nat \ {0} : k = n + 1 /\ k # 1 /\ k - 1 = n /\ n <= k
  OBVIOUS
<1>6. PICK h : Lengthens(h, k) /\ Login!BanDuration(k) = h[k]
  BY <1>1
<1>7. h[k] = AfterBan(h[n])
  <2>1. k \in 1..k
    OBVIOUS
  <2> QED
    BY <1>5, <1>6, <2>1 DEF Lengthens
<1>8. h[n] = g[n]
  BY <1>4, <1>5, <1>6, SameBans
<1> QED
  BY <1>2, <1>3, <1>4, <1>5, <1>6, <1>7, <1>8

LEMMA BanDurationType ==
  ASSUME NEW n \in Nat \ {0}
  PROVE  Login!BanDuration(n) \in 0..MaxBan
<1>1. PICK Q : Q = {k \in Nat \ {0} : Login!BanDuration(k) \notin 0..MaxBan}
  OBVIOUS
<1>2. SUFFICES ASSUME Q # {} PROVE FALSE
  BY <1>1
<1>3. PICK m \in Q : \A i \in Q : m <= i
  BY <1>1, <1>2, SmallestNumber
<1>4. m # 1
  BY <1>1, NextBan, LoginAssumption
<1>5. PICK k \in Nat \ {0} : m = k + 1 /\ ~(m <= k)
  <2>1. m - 1 \in Nat \ {0} /\ m = (m - 1) + 1 /\ ~(m <= m - 1)
    BY <1>1, <1>4
  <2> QED
    BY <2>1
<1>6. PICK d \in 0..MaxBan : d = Login!BanDuration(k)
  BY <1>1, <1>3, <1>5
<1>7. Login!BanDuration(m) = AfterBan(d)
  BY <1>5, <1>6, NextBan
<1>8. AfterBan(d) \in 0..MaxBan
  BY LoginAssumption DEF AfterBan
<1> QED
  BY <1>1, <1>7, <1>8

\* The sweep leaves a table within its cap alone; one over the cap it rids of
\* the stale entries, and then of the oldest window if that is not enough.
LEMMA SweptTable ==
  ASSUME NEW f, NEW g \in Login!Swept(f), IsFiniteSet(DOMAIN f)
  PROVE  \/ g = f /\ Cardinality(DOMAIN f) <= Cap
         \/ g = Login!Without(f, Login!Stale(f)) /\ Cardinality(DOMAIN g) <= Cap
         \/ /\ Cardinality(DOMAIN f \ Login!Stale(f)) > Cap
            /\ \E x \in DOMAIN f \ Login!Stale(f) :
                 /\ g = Login!Without(Login!Without(f, Login!Stale(f)), {x})
                 /\ \A b \in DOMAIN f \ Login!Stale(f) : f[x].windowStart <= f[b].windowStart
<1> DEFINE kept == Login!Without(f, Login!Stale(f))
<1>1. /\ DOMAIN kept = DOMAIN f \ Login!Stale(f)
      /\ \A a \in DOMAIN kept : kept[a] = f[a]
  BY DEF Login!Without
<1>2. Cardinality(DOMAIN f) \in Nat /\ Cardinality(DOMAIN kept) \in Nat
  BY <1>1, FS_Subset, FS_CardinalityType
<1>3. CASE Cardinality(DOMAIN f) <= Cap
  BY <1>3, LoginCounts DEF Login!Swept
<1>4. CASE ~(Cardinality(DOMAIN f) <= Cap) /\ Cardinality(DOMAIN kept) <= Cap
  <2>1. g = kept
    BY <1>4, LoginCounts DEF Login!Swept
  <2> QED
    BY <1>4, <2>1
<1>5. CASE ~(Cardinality(DOMAIN f) <= Cap) /\ ~(Cardinality(DOMAIN kept) <= Cap)
  <2>1. PICK x \in DOMAIN kept : /\ g = Login!Without(kept, {x})
                                 /\ \A b \in DOMAIN kept :
                                      kept[x].windowStart <= kept[b].windowStart
    BY <1>5, LoginCounts DEF Login!Swept
  <2>2. \A b \in DOMAIN f \ Login!Stale(f) : f[x].windowStart <= f[b].windowStart
    BY <1>1, <2>1
  <2>3. Cardinality(DOMAIN f \ Login!Stale(f)) > Cap
    BY <1>1, <1>2, <1>5, LoginAssumption
  <2> QED
    BY <1>1, <2>1, <2>2, <2>3
<1> QED
  BY <1>3, <1>4, <1>5

\* The entry a failure of a leaves behind.
NotedNow(a) == Login!Noted(Login!AttemptOf(a))

LEMMA NotedFits ==
  ASSUME LoginInv, NEW a \in Addresses
  PROVE  /\ NotedNow(a) \in Login!Attempt
         /\ NotedNow(a).bans # 0
              => NotedNow(a).blockedUntil <= now + Login!BanDuration(NotedNow(a).bans)
         /\ NotedNow(a).bans = 0 => NotedNow(a).blockedUntil = -1
<1>1. PICK t : t = Login!AttemptOf(a)
  OBVIOUS
<1>2. /\ t \in Login!Attempt
      /\ IF t.bans = 0 THEN t.blockedUntil = -1
         ELSE t.blockedUntil <= now + Login!BanDuration(t.bans)
  BY <1>1, LoginAssumption
     DEF LoginInv, Login!TypeOK, BansInv, Login!AttemptOf, Login!NoAttempt, Login!Attempt
<1>3. now \in Int /\ t.bans + 1 \in Nat \ {0}
  BY <1>2, LoginAssumption DEF LoginInv, Login!TypeOK, Login!Attempt
<1>4. Login!BanDuration(t.bans + 1) \in Int
  BY <1>3, BanDurationType
<1>5. PICK start \in Int, count \in Nat :
        /\ start = IF now - t.windowStart > Window THEN now ELSE t.windowStart
        /\ count = (IF now - t.windowStart > Window THEN 0 ELSE t.count) + 1
  BY <1>2, <1>3, LoginAssumption DEF Login!Attempt
<1>6. NotedNow(a) = IF count < MaxAttempts
                    THEN [t EXCEPT !.count = count, !.windowStart = start]
                    ELSE [count |-> 0, windowStart |-> now, bans |-> t.bans + 1,
                          blockedUntil |-> now + Login!BanDuration(t.bans + 1)]
  BY <1>1, <1>5 DEF NotedNow, Login!Noted
<1>7. CASE count < MaxAttempts
  <2>0. count \in 0..(MaxAttempts - 1)
    BY <1>5, <1>7, LoginAssumption
  <2>1. /\ NotedNow(a).bans = t.bans /\ NotedNow(a).blockedUntil = t.blockedUntil
        /\ NotedNow(a) \in Login!Attempt
    BY <1>2, <1>5, <1>6, <1>7, <2>0 DEF Login!Attempt
  <2> QED
    BY <1>2, <2>1
<1>8. CASE ~(count < MaxAttempts)
  BY <1>3, <1>4, <1>6, <1>8, LoginAssumption DEF Login!Attempt
<1> QED
  BY <1>7, <1>8

\* What one failure does to the table.
LEMMA FailTable ==
  ASSUME LoginInv, NEW a \in Addresses, Login!Fail(a)
  PROVE  /\ DOMAIN fails' \subseteq DOMAIN fails \cup {a}
         /\ \A b \in DOMAIN fails' : fails'[b] = IF b = a THEN NotedNow(a) ELSE fails[b]
         /\ Cardinality(DOMAIN fails') <= Cap
<1> DEFINE f == [b \in DOMAIN fails \cup {a} |-> IF b = a THEN NotedNow(a) ELSE fails[b]]
<1>1. fails' \in Login!Swept(f)
  BY DEF Login!Fail, NotedNow
<1>2. IsFiniteSet(DOMAIN fails) /\ Cardinality(DOMAIN fails) \in Nat
  BY FS_Subset, FS_CardinalityType, LoginAssumption DEF LoginInv, Login!TypeOK
<1>3. /\ IsFiniteSet(DOMAIN fails \cup {a})
      /\ Cardinality(DOMAIN fails \cup {a}) <= Cap + 1
  <2>1. Cardinality(DOMAIN fails) <= Cap
    BY LoginCounts DEF LoginInv, Login!TypeOK
  <2>2. /\ IsFiniteSet(DOMAIN fails \cup {a})
        /\ \/ Cardinality(DOMAIN fails \cup {a}) = Cardinality(DOMAIN fails)
           \/ Cardinality(DOMAIN fails \cup {a}) = Cardinality(DOMAIN fails) + 1
    BY <1>2, FS_AddElement
  <2> QED
    BY <1>2, <2>1, <2>2, LoginAssumption
<1>4. DOMAIN f = DOMAIN fails \cup {a}
  OBVIOUS
<1>5. CASE fails' = f /\ Cardinality(DOMAIN f) <= Cap
  BY <1>5
<1>6. CASE fails' = Login!Without(f, Login!Stale(f)) /\ Cardinality(DOMAIN fails') <= Cap
  BY <1>6 DEF Login!Without
<1>7. ASSUME NEW x \in DOMAIN f \ Login!Stale(f),
             fails' = Login!Without(Login!Without(f, Login!Stale(f)), {x})
      PROVE  /\ DOMAIN fails' \subseteq (DOMAIN fails \cup {a}) \ {x}
             /\ \A b \in DOMAIN fails' : fails'[b] = f[b]
             /\ Cardinality(DOMAIN fails') <= Cap
  <2>1. /\ DOMAIN fails' \subseteq (DOMAIN fails \cup {a}) \ {x}
        /\ \A b \in DOMAIN fails' : fails'[b] = f[b]
    BY <1>7 DEF Login!Without
  <2>2. /\ IsFiniteSet((DOMAIN fails \cup {a}) \ {x})
        /\ Cardinality((DOMAIN fails \cup {a}) \ {x}) <= Cap
    <3>1. Cardinality(DOMAIN fails \cup {a}) \in Nat
      BY <1>3, FS_CardinalityType
    <3>2. /\ IsFiniteSet((DOMAIN fails \cup {a}) \ {x})
          /\ Cardinality((DOMAIN fails \cup {a}) \ {x}) = Cardinality(DOMAIN fails \cup {a}) - 1
      BY <1>3, <1>4, FS_RemoveElement
    <3> QED
      BY <1>3, <3>1, <3>2, LoginAssumption
  <2>3. Cardinality(DOMAIN fails') <= Cardinality((DOMAIN fails \cup {a}) \ {x})
    BY <2>1, <2>2, FS_Subset
  <2>4. Cardinality(DOMAIN fails') \in Nat /\ Cardinality((DOMAIN fails \cup {a}) \ {x}) \in Nat
    BY <2>1, <2>2, FS_Subset, FS_CardinalityType
  <2> QED
    BY <2>1, <2>2, <2>3, <2>4, LoginAssumption
<1> QED
  BY <1>1, <1>3, <1>4, <1>5, <1>6, <1>7, SweptTable

\* An address that keeps its entry, or loses it, is banned no longer than before.
LEMMA OthersAsBefore ==
  ASSUME LoginInv, NEW b \in Addresses, now' = now,
         b \in DOMAIN fails' => b \in DOMAIN fails /\ fails'[b] = fails[b],
         Login!Blocked(b)'
  PROVE  Login!Blocked(b)
BY LoginAssumption DEF LoginInv, Login!TypeOK, Login!Blocked, Login!AttemptOf, Login!NoAttempt

LEMMA FailStep ==
  ASSUME LoginInv, NEW a \in Addresses, Login!Fail(a)
  PROVE  LoginInv'
<1>1. /\ now' = now /\ judging[a] > 0
      /\ judging' = [judging EXCEPT ![a] = @ - 1]
      /\ judged' = [judged EXCEPT ![a] = IF Login!Blocked(a) THEN @ + 1 ELSE 0]
  BY DEF Login!Fail
<1>2. /\ DOMAIN fails' \subseteq DOMAIN fails \cup {a}
      /\ \A b \in DOMAIN fails' : fails'[b] = IF b = a THEN NotedNow(a) ELSE fails[b]
      /\ Cardinality(DOMAIN fails') <= Cap
  BY FailTable
<1>3. now \in 0..MaxNow /\ judging \in [Addresses -> 0..MaxOverlap] /\ judged \in [Addresses -> Nat]
  BY DEF LoginInv, Login!TypeOK
<1>4. judging' \in [Addresses -> 0..MaxOverlap] /\ judged' \in [Addresses -> Nat]
  BY <1>1, <1>3, LoginAssumption
<1>5. \A b \in DOMAIN fails' : fails'[b] \in Login!Attempt
  BY <1>2, NotedFits DEF LoginInv, Login!TypeOK
<1>6. Login!TypeOK'
  BY <1>1, <1>2, <1>3, <1>4, <1>5, LoginCounts DEF LoginInv, Login!TypeOK, Login!Attempt
<1>7. BansInv'
  <2>1. ASSUME NEW b \in DOMAIN fails'
        PROVE  IF fails'[b].bans = 0 THEN fails'[b].blockedUntil = -1
               ELSE fails'[b].blockedUntil <= now + Login!BanDuration(fails'[b].bans)
    <3>1. CASE b = a
      BY <1>2, <3>1, NotedFits
    <3>2. CASE b # a
      BY <1>2, <3>2 DEF LoginInv, BansInv
    <3> QED
      BY <3>1, <3>2
  <2> QED
    BY <1>1, <2>1 DEF BansInv, Login!BanDuration
<1>8. ASSUME NEW b \in Addresses, Login!Blocked(b)'
      PROVE  judged'[b] + judging'[b] < MaxOverlap
  <2>1. CASE b = a
    BY <1>1, <1>3, <2>1, LoginAssumption DEF LoginInv, Login!BanStopsNewAttempts
  <2>2. CASE b # a
    <3>1. Login!Blocked(b)
      BY <1>1, <1>2, <1>8, <2>2, OthersAsBefore
    <3> QED
      BY <1>1, <1>3, <2>2, <3>1 DEF LoginInv, Login!BanStopsNewAttempts
  <2> QED
    BY <2>1, <2>2
<1> QED
  BY <1>6, <1>7, <1>8 DEF LoginInv, Login!BanStopsNewAttempts

LEMMA SucceedStep ==
  ASSUME LoginInv, NEW a \in Addresses, Login!Succeed(a)
  PROVE  LoginInv'
<1>1. /\ now' = now /\ judging[a] > 0
      /\ judging' = [judging EXCEPT ![a] = @ - 1] /\ judged' = [judged EXCEPT ![a] = 0]
      /\ DOMAIN fails' = DOMAIN fails \ {a}
      /\ \A b \in DOMAIN fails' : fails'[b] = fails[b]
  BY DEF Login!Succeed, Login!Without
<1>2. /\ now \in 0..MaxNow /\ judging \in [Addresses -> 0..MaxOverlap]
      /\ judged \in [Addresses -> Nat]
      /\ IsFiniteSet(DOMAIN fails) /\ Cardinality(DOMAIN fails) <= Cap
  BY LoginCounts, FS_Subset, LoginAssumption DEF LoginInv, Login!TypeOK
<1>3. judging' \in [Addresses -> 0..MaxOverlap] /\ judged' \in [Addresses -> Nat]
  BY <1>1, <1>2, LoginAssumption
<1>4. Cardinality(DOMAIN fails') <= Cap
  <2>1. Cardinality(DOMAIN fails') <= Cardinality(DOMAIN fails)
    BY <1>1, <1>2, FS_Subset
  <2>2. Cardinality(DOMAIN fails) \in Nat /\ Cardinality(DOMAIN fails') \in Nat
    BY <1>1, <1>2, FS_Subset, FS_CardinalityType
  <2> QED
    BY <1>2, <2>1, <2>2, LoginAssumption
<1>5. Login!TypeOK'
  BY <1>1, <1>2, <1>3, <1>4, LoginCounts DEF LoginInv, Login!TypeOK, Login!Attempt
<1>6. BansInv'
  BY <1>1 DEF LoginInv, BansInv, Login!BanDuration
<1>7. ASSUME NEW b \in Addresses, Login!Blocked(b)'
      PROVE  judged'[b] + judging'[b] < MaxOverlap
  <2>1. CASE b = a
    BY <1>1, <1>2, <2>1, LoginAssumption
  <2>2. CASE b # a
    <3>1. Login!Blocked(b)
      BY <1>1, <1>7, <2>2, OthersAsBefore
    <3> QED
      BY <1>1, <1>2, <2>2, <3>1 DEF LoginInv, Login!BanStopsNewAttempts
  <2> QED
    BY <2>1, <2>2
<1> QED
  BY <1>5, <1>6, <1>7 DEF LoginInv, Login!BanStopsNewAttempts

LEMMA LoginStep ==
  ASSUME LoginInv, [Login!Next]_loginVars
  PROVE  LoginInv'
<1>1. ASSUME NEW a \in Addresses, Login!Check(a)
      PROVE  LoginInv'
  <2>1. UNCHANGED <<now, fails, judged>> /\ judging' = [judging EXCEPT ![a] = @ + 1]
    BY <1>1 DEF Login!Check
  <2>2. Login!TypeOK'
    BY <1>1, <2>1, LoginAssumption DEF LoginInv, Login!TypeOK, Login!Attempt, Login!Check
  <2>3. BansInv'
    BY <2>1 DEF LoginInv, BansInv, Login!BanDuration
  <2>4. ASSUME NEW b \in Addresses, Login!Blocked(b)'
        PROVE  judged'[b] + judging'[b] < MaxOverlap
    <3>1. Login!Blocked(b) /\ ~Login!Blocked(a)
      BY <1>1, <2>1, <2>4 DEF Login!Check, Login!Blocked, Login!AttemptOf, Login!NoAttempt
    <3> QED
      BY <2>1, <3>1 DEF LoginInv, Login!BanStopsNewAttempts, Login!TypeOK
  <2> QED
    BY <2>2, <2>3, <2>4 DEF LoginInv, Login!BanStopsNewAttempts
<1>2. ASSUME NEW a \in Addresses, Login!Fail(a)
      PROVE  LoginInv'
  BY <1>2, FailStep
<1>3. ASSUME NEW a \in Addresses, Login!Succeed(a)
      PROVE  LoginInv'
  BY <1>3, SucceedStep
<1>4. CASE Login!Tick
  <2>1. /\ now' = now + 1 /\ now < MaxNow /\ now \in 0..MaxNow
        /\ UNCHANGED <<fails, judging, judged>>
    BY <1>4 DEF Login!Tick, LoginInv, Login!TypeOK
  <2>2. Login!TypeOK'
    BY <2>1, LoginAssumption DEF LoginInv, Login!TypeOK, Login!Attempt
  <2>3. ASSUME NEW a \in DOMAIN fails, fails[a].bans # 0
        PROVE  fails[a].blockedUntil <= now + 1 + Login!BanDuration(fails[a].bans)
    <3>1. fails[a].blockedUntil \in Int /\ fails[a].bans \in Nat \ {0}
      BY <2>3 DEF LoginInv, Login!TypeOK, Login!Attempt
    <3>2. Login!BanDuration(fails[a].bans) \in Int
      BY <3>1, BanDurationType
    <3> QED
      BY <2>1, <2>3, <3>1, <3>2, LoginAssumption DEF LoginInv, BansInv
  <2>4. BansInv'
    BY <2>1, <2>3 DEF LoginInv, BansInv, Login!BanDuration
  <2>5. \A b \in Addresses : Login!Blocked(b)' => Login!Blocked(b)
    BY <2>1, LoginAssumption
       DEF LoginInv, Login!TypeOK, Login!Attempt, Login!Blocked, Login!AttemptOf, Login!NoAttempt
  <2> QED
    BY <2>1, <2>2, <2>4, <2>5 DEF LoginInv, Login!BanStopsNewAttempts
<1>5. CASE Login!Restart
  <2>1. /\ now' = now /\ DOMAIN fails' = {}
        /\ judging' = [a \in Addresses |-> 0] /\ judged' = [a \in Addresses |-> 0]
    BY <1>5 DEF Login!Restart
  <2>2. Login!TypeOK'
    BY <2>1, FS_EmptySet, LoginCounts, LoginAssumption DEF LoginInv, Login!TypeOK, Login!Attempt
  <2> QED
    BY <2>1, <2>2, LoginAssumption DEF LoginInv, BansInv, Login!BanStopsNewAttempts
<1>6. CASE UNCHANGED loginVars
  BY <1>6 DEF loginVars, LoginInv, Login!TypeOK, Login!Attempt, BansInv, Login!BanDuration,
     Login!BanStopsNewAttempts, Login!Blocked, Login!AttemptOf, Login!NoAttempt
<1> QED
  BY <1>1, <1>2, <1>3, <1>4, <1>5, <1>6 DEF Login!Next

LEMMA LoginBegin ==
  ASSUME Login!Init
  PROVE  LoginInv
<1>1. now = 0 /\ DOMAIN fails = {}
      /\ judging = [a \in Addresses |-> 0] /\ judged = [a \in Addresses |-> 0]
  BY DEF Login!Init
<1>2. Login!TypeOK
  BY <1>1, FS_EmptySet, LoginCounts, LoginAssumption DEF Login!TypeOK, Login!Attempt
<1> QED
  BY <1>1, <1>2, LoginAssumption DEF LoginInv, BansInv, Login!BanStopsNewAttempts

\* A ban is never shorter than the one before.
LEMMA BanGrows ==
  ASSUME NEW n \in Nat \ {0}
  PROVE  Login!BanDuration(n) <= Login!BanDuration(n + 1)
<1>1. PICK d \in 0..MaxBan : d = Login!BanDuration(n)
  BY BanDurationType
<1>2. Login!BanDuration(n + 1) = AfterBan(d)
  BY <1>1, NextBan
<1> QED
  BY <1>1, <1>2, LoginAssumption DEF AfterBan

\* The entry of a banned address that fails once more is banned as long, or longer.
LEMMA NotedServes ==
  ASSUME LoginInv, NEW a \in Addresses, Login!Blocked(a)
  PROVE  NotedNow(a).blockedUntil >= fails[a].blockedUntil
<1>1. a \in DOMAIN fails /\ Login!AttemptOf(a) = fails[a]
  BY LoginAssumption DEF LoginInv, Login!TypeOK, Login!Blocked, Login!AttemptOf, Login!NoAttempt
<1>2. PICK t \in Login!Attempt : t = fails[a]
  BY <1>1 DEF LoginInv, Login!TypeOK
<1>3. now \in 0..MaxNow /\ now < t.blockedUntil /\ t.blockedUntil \in Int
  BY <1>1, <1>2, LoginAssumption DEF LoginInv, Login!TypeOK, Login!Blocked, Login!Attempt
<1>4. /\ t.bans \in Nat \ {0}
      /\ t.blockedUntil <= now + Login!BanDuration(t.bans)
  BY <1>1, <1>2, <1>3, LoginAssumption DEF LoginInv, BansInv, Login!Attempt
<1>5. /\ Login!BanDuration(t.bans) \in Int /\ Login!BanDuration(t.bans + 1) \in Int
      /\ Login!BanDuration(t.bans) <= Login!BanDuration(t.bans + 1)
  BY <1>4, BanDurationType, BanGrows
<1>6. \/ NotedNow(a).blockedUntil = t.blockedUntil
      \/ NotedNow(a).blockedUntil = now + Login!BanDuration(t.bans + 1)
  BY <1>1, <1>2 DEF NotedNow, Login!Noted, Login!Attempt
<1> QED
  BY <1>2, <1>3, <1>4, <1>5, <1>6, LoginAssumption

LEMMA FailServes ==
  ASSUME LoginInv, NEW a \in Addresses, Login!Fail(a),
         NEW b \in Addresses, Login!Blocked(b)
  PROVE  Login!Served(b)
<1> DEFINE f == [c \in DOMAIN fails \cup {a} |-> IF c = a THEN NotedNow(a) ELSE fails[c]]
<1>1. /\ b \in DOMAIN fails /\ fails[b] \in Login!Attempt
      /\ now \in 0..MaxNow /\ now < fails[b].blockedUntil
  BY LoginAssumption
     DEF LoginInv, Login!TypeOK, Login!Blocked, Login!AttemptOf, Login!NoAttempt
<1>2. f[b].blockedUntil >= fails[b].blockedUntil
  BY <1>1, NotedServes DEF Login!Attempt
<1>3. f[b].blockedUntil \in Int
  BY <1>1, NotedFits DEF Login!Attempt
<1>4. b \in DOMAIN f \ Login!Stale(f)
  BY <1>1, <1>2, <1>3, LoginAssumption DEF Login!Stale, Login!Attempt
<1>5. CASE b \in DOMAIN fails'
  <2>1. fails'[b] = f[b]
    BY <1>1, <1>5, FailTable
  <2> QED
    BY <1>2, <1>5, <2>1 DEF Login!Served
<1>6. CASE b \notin DOMAIN fails'
  <2>1. fails' \in Login!Swept(f)
    BY DEF Login!Fail, NotedNow
  <2>2. DOMAIN f = DOMAIN fails \cup {a}
    OBVIOUS
  <2>3. /\ IsFiniteSet(DOMAIN fails) /\ Cardinality(DOMAIN fails) \in Nat
        /\ Cardinality(DOMAIN fails) <= Cap
    BY FS_Subset, FS_CardinalityType, LoginAssumption, LoginCounts DEF LoginInv, Login!TypeOK
  <2>4. /\ IsFiniteSet(DOMAIN f) /\ Cardinality(DOMAIN f) \in Nat
        /\ Cardinality(DOMAIN f)
             = IF a \in DOMAIN fails THEN Cardinality(DOMAIN fails)
               ELSE Cardinality(DOMAIN fails) + 1
    BY <2>2, <2>3, FS_AddElement, FS_CardinalityType
  <2>5. fails' # f /\ fails' # Login!Without(f, Login!Stale(f))
    BY <1>4, <1>6 DEF Login!Without
  <2>6. Cardinality(DOMAIN f \ Login!Stale(f)) > Cap
    BY <2>1, <2>4, <2>5, SweptTable
  <2>7. PICK x \in DOMAIN f \ Login!Stale(f) :
          /\ fails' = Login!Without(Login!Without(f, Login!Stale(f)), {x})
          /\ \A c \in DOMAIN f \ Login!Stale(f) : f[x].windowStart <= f[c].windowStart
    BY <2>1, <2>4, <2>5, SweptTable
  <2>8. /\ Cardinality(DOMAIN f \ Login!Stale(f)) \in Nat
        /\ Cardinality(DOMAIN f \ Login!Stale(f)) <= Cardinality(DOMAIN f)
        /\ Cardinality(DOMAIN f \ Login!Stale(f)) = Cardinality(DOMAIN f)
             => DOMAIN f \ Login!Stale(f) = DOMAIN f
    BY <2>4, FS_Subset, FS_CardinalityType
  <2>9. Cardinality(DOMAIN fails) = Cap /\ a \notin DOMAIN fails /\ Cardinality(DOMAIN f) = Cap + 1
    BY <2>3, <2>4, <2>6, <2>8, LoginAssumption
  <2>10. DOMAIN f \ Login!Stale(f) = DOMAIN f
    BY <2>6, <2>8, <2>9, LoginAssumption
  <2>11. x = b
    BY <1>4, <1>6, <2>7 DEF Login!Without
  <2>12. DOMAIN fails' = DOMAIN f \ {b}
    BY <2>7, <2>10, <2>11 DEF Login!Without
  <2>13. Cardinality(DOMAIN fails') = Cap
    <3>1. Cardinality(DOMAIN f \ {b}) = Cardinality(DOMAIN f) - 1
      BY <2>2, <2>4, <1>1, FS_RemoveElement
    <3> QED
      BY <2>9, <2>12, <3>1, LoginAssumption
  <2>14. \A c \in DOMAIN fails : c \notin Login!Stale(fails)
    <3>1. \A c \in DOMAIN fails : c \notin Login!Stale(f) /\ f[c] = fails[c]
      BY <2>9, <2>10
    <3> QED
      BY <3>1 DEF Login!Stale
  <2>15. \A c \in DOMAIN fails : fails[b].windowStart <= fails[c].windowStart
    BY <1>1, <2>7, <2>9, <2>10, <2>11
  <2>16. Login!Stale(fails) = {}
    BY <2>14 DEF Login!Stale
  <2> QED
    BY <2>9, <2>13, <2>15, <2>16, LoginCounts DEF Login!Served
<1> QED
  BY <1>5, <1>6

LEMMA BansAreServed ==
  ASSUME LoginInv, [Login!Next]_loginVars, NEW b \in Addresses, Login!Blocked(b)
  PROVE  Login!Served(b) \/ UNCHANGED loginVars
<1>1. /\ b \in DOMAIN fails /\ fails[b].blockedUntil \in Int
  BY LoginAssumption
     DEF LoginInv, Login!TypeOK, Login!Attempt, Login!Blocked, Login!AttemptOf, Login!NoAttempt
<1>2. ASSUME fails' = fails PROVE Login!Served(b)
  BY <1>1, <1>2 DEF Login!Served
<1>3. ASSUME NEW a \in Addresses, Login!Check(a) PROVE Login!Served(b)
  BY <1>2, <1>3 DEF Login!Check
<1>4. ASSUME NEW a \in Addresses, Login!Fail(a) PROVE Login!Served(b)
  BY <1>4, FailServes
<1>5. ASSUME NEW a \in Addresses, Login!Succeed(a) PROVE Login!Served(b)
  <2>1. CASE a = b
    <3>1. b \notin DOMAIN fails'
      BY <1>5, <2>1 DEF Login!Succeed, Login!Without
    <3>2. judging'[b] < judging[b]
      BY <1>5, <2>1, LoginAssumption DEF Login!Succeed, LoginInv, Login!TypeOK
    <3> QED
      BY <3>1, <3>2 DEF Login!Served
  <2>2. CASE a # b
    BY <1>1, <1>5, <2>2 DEF Login!Succeed, Login!Without, Login!Served
  <2> QED
    BY <2>1, <2>2
<1>6. ASSUME Login!Tick PROVE Login!Served(b)
  BY <1>2, <1>6 DEF Login!Tick
<1>7. ASSUME Login!Restart PROVE Login!Served(b)
  BY <1>7 DEF Login!Restart, Login!Served
<1> QED
  BY <1>3, <1>4, <1>5, <1>6, <1>7 DEF Login!Next

\* The throttle of the login (loginBlocked, noteLoginFailure, sweepLoginFailsLocked):
\* the table stays within its cap and its entries of their form, no entry's ban
\* reaches further than the length of its last ban, and the attempts let in
\* before a ban are all that are still judged during it.
THEOREM LoginCorrect == PartsSpec => []LoginInv
<1>1. PartsInit => LoginInv
  BY PartsBegin, LoginBegin
<1>2. LoginInv /\ [PartsNext]_partVars => LoginInv'
  BY PartsStep, LoginStep
<1> QED
  BY <1>1, <1>2, PTL DEF PartsSpec

\* While an address is banned, the passwords judged since and those still being
\* judged are together fewer than may overlap: the check before the password
\* lets nobody else in, for any number of attempts at once.
THEOREM BansStopNewAttempts == PartsSpec => []BanStopsNewAttempts
<1>1. LoginInv => BanStopsNewAttempts
  BY DEF LoginInv, BanStopsNewAttempts
<1> QED
  BY LoginCorrect, <1>1, PTL

\* No failure and no sweep ends or shortens a ban that runs; only a right
\* password let in before it, a restart, or the last resort of a full table.
\* It rests on bans that only grow.
THEOREM BansServed == PartsSpec => BanIsServed
<1>1. LoginInv /\ [PartsNext]_partVars
        => [\A a \in Addresses : Login!Blocked(a) => Login!Served(a)]_loginVars
  BY PartsStep, BansAreServed
<1> QED
  BY LoginCorrect, <1>1, PTL DEF PartsSpec, BanIsServed, Login!BanIsServed, loginVars, Login!loginVars

-----------------------------------------------------------------------------
(* The renewal of the certificate (certificate.go) *)

\* The press holds the flag, and nobody's "running" was left behind.
ClaimInv ==
    /\ certificateRenewing <=> press # "none"
    /\ status = "running" => press \in {"marked", "waiting"} \/ unfinished
    /\ press \in {"marked", "waiting"} => status \in {"running", "failed"}

\* How the script went agrees with what the file says of it.
ReportInv ==
    /\ press = "marked" => outcome = "none"
    /\ script = "ok" => outcome \in Certificate!EndedWell
    /\ script = "bad" => outcome = "failed"
    /\ status = "success" => outcome \in Certificate!EndedWell
    /\ status = "failed" /\ outcome \in Certificate!EndedWell /\ press # "waiting" =>
           overtaken \/ unfinished

CertificateInv == Certificate!TypeOK /\ ClaimInv /\ ReportInv

LEMMA CertificateTypes ==
  ASSUME CertificateInv, [Certificate!Next]_certVars
  PROVE  Certificate!TypeOK'
<1> USE StaleAssumption
        DEF CertificateInv, Certificate!TypeOK, Certificate!Statuses, Certificate!Result,
            Certificate!WriteStatus, Certificate!EndedWell, ClaimInv
<1>0. 0 \in 0..(StaleAge + 1)
  OBVIOUS
<1>1. CASE Certificate!Press
  BY <1>1 DEF Certificate!Press, Certificate!Refused
<1>2. CASE Certificate!MarkRunning
  BY <1>0, <1>2 DEF Certificate!MarkRunning
<1>3. CASE Certificate!MarkFails
  BY <1>3 DEF Certificate!MarkFails, Certificate!Release
<1>4. CASE Certificate!StartScript
  BY <1>4 DEF Certificate!StartScript
<1>5. CASE Certificate!Released
  BY <1>5 DEF Certificate!Released, Certificate!Release
<1>6. ASSUME NEW w \in BOOLEAN, Certificate!NoDirectory(w)
      PROVE  Certificate!TypeOK'
  BY <1>0, <1>6 DEF Certificate!NoDirectory
<1>7. ASSUME NEW w \in BOOLEAN, Certificate!StartFails(w)
      PROVE  Certificate!TypeOK'
  BY <1>0, <1>7 DEF Certificate!StartFails
<1>8. ASSUME NEW w \in BOOLEAN, Certificate!Finish(w)
      PROVE  Certificate!TypeOK'
  BY <1>0, <1>8 DEF Certificate!Finish
<1>9. CASE Certificate!StatusReadsOld
  BY <1>9 DEF Certificate!StatusReadsOld
<1>10. CASE Certificate!StatusWritesFailed
  BY <1>0, <1>10 DEF Certificate!StatusWritesFailed
<1>11. ASSUME NEW how \in {"ok", "bad"}, Certificate!ScriptEnds(how)
       PROVE  Certificate!TypeOK'
  BY <1>11 DEF Certificate!ScriptEnds
<1>12. CASE Certificate!Replace
  BY <1>12 DEF Certificate!Replace
<1>13. CASE Certificate!HookRestart
  BY <1>13 DEF Certificate!HookRestart, Certificate!PanelStops
<1>14. CASE Certificate!PanelRestart
  BY <1>14 DEF Certificate!PanelRestart, Certificate!PanelStops
<1>15. CASE Certificate!Tick
  BY <1>15 DEF Certificate!Tick
<1>16. CASE UNCHANGED certVars
  BY <1>16 DEF certVars
<1>17. ASSUME NEW how \in {"ok", "bad"}, Certificate!HookFails(how)
       PROVE  Certificate!TypeOK'
  BY <1>17 DEF Certificate!HookFails
<1> QED
  BY <1>1, <1>2, <1>3, <1>4, <1>5, <1>6, <1>7, <1>8, <1>9, <1>10, <1>11, <1>12,
     <1>13, <1>14, <1>15, <1>16, <1>17 DEF Certificate!Next

LEMMA CertificateClaims ==
  ASSUME CertificateInv, [Certificate!Next]_certVars
  PROVE  ClaimInv'
<1> USE StaleAssumption
        DEF CertificateInv, Certificate!TypeOK, Certificate!Statuses, Certificate!Result,
            Certificate!WriteStatus, Certificate!EndedWell, ClaimInv
<1>1. CASE Certificate!Press
  BY <1>1 DEF Certificate!Press, Certificate!Refused
<1>2. CASE Certificate!MarkRunning
  BY <1>2 DEF Certificate!MarkRunning
<1>3. CASE Certificate!MarkFails
  BY <1>3 DEF Certificate!MarkFails, Certificate!Release
<1>4. CASE Certificate!StartScript
  BY <1>4 DEF Certificate!StartScript
<1>5. CASE Certificate!Released
  BY <1>5 DEF Certificate!Released, Certificate!Release
<1>6. ASSUME NEW w \in BOOLEAN, Certificate!NoDirectory(w)
      PROVE  ClaimInv'
  BY <1>6 DEF Certificate!NoDirectory
<1>7. ASSUME NEW w \in BOOLEAN, Certificate!StartFails(w)
      PROVE  ClaimInv'
  BY <1>7 DEF Certificate!StartFails
<1>8. ASSUME NEW w \in BOOLEAN, Certificate!Finish(w)
      PROVE  ClaimInv'
  BY <1>8 DEF Certificate!Finish
<1>9. CASE Certificate!StatusReadsOld
  BY <1>9 DEF Certificate!StatusReadsOld
<1>10. CASE Certificate!StatusWritesFailed
  BY <1>10 DEF Certificate!StatusWritesFailed
<1>11. ASSUME NEW how \in {"ok", "bad"}, Certificate!ScriptEnds(how)
       PROVE  ClaimInv'
  BY <1>11 DEF Certificate!ScriptEnds
<1>12. CASE Certificate!Replace
  BY <1>12 DEF Certificate!Replace
<1>13. CASE Certificate!HookRestart
  BY <1>13 DEF Certificate!HookRestart, Certificate!PanelStops
<1>14. CASE Certificate!PanelRestart
  BY <1>14 DEF Certificate!PanelRestart, Certificate!PanelStops
<1>15. CASE Certificate!Tick
  BY <1>15 DEF Certificate!Tick
<1>16. CASE UNCHANGED certVars
  BY <1>16 DEF certVars
<1>17. ASSUME NEW how \in {"ok", "bad"}, Certificate!HookFails(how)
       PROVE  ClaimInv'
  BY <1>17 DEF Certificate!HookFails
<1> QED
  BY <1>1, <1>2, <1>3, <1>4, <1>5, <1>6, <1>7, <1>8, <1>9, <1>10, <1>11, <1>12,
     <1>13, <1>14, <1>15, <1>16, <1>17 DEF Certificate!Next

LEMMA CertificateReports ==
  ASSUME CertificateInv, [Certificate!Next]_certVars
  PROVE  ReportInv'
<1> USE StaleAssumption
        DEF CertificateInv, Certificate!TypeOK, Certificate!Statuses, Certificate!Result,
            Certificate!WriteStatus, Certificate!EndedWell, ClaimInv, ReportInv
<1>1. CASE Certificate!Press
  BY <1>1 DEF Certificate!Press, Certificate!Refused
<1>2. CASE Certificate!MarkRunning
  BY <1>2 DEF Certificate!MarkRunning
<1>3. CASE Certificate!MarkFails
  BY <1>3 DEF Certificate!MarkFails, Certificate!Release
<1>4. CASE Certificate!StartScript
  BY <1>4 DEF Certificate!StartScript
<1>5. CASE Certificate!Released
  BY <1>5 DEF Certificate!Released, Certificate!Release
<1>6. ASSUME NEW w \in BOOLEAN, Certificate!NoDirectory(w)
      PROVE  ReportInv'
  BY <1>6 DEF Certificate!NoDirectory
<1>7. ASSUME NEW w \in BOOLEAN, Certificate!StartFails(w)
      PROVE  ReportInv'
  BY <1>7 DEF Certificate!StartFails
<1>8. ASSUME NEW w \in BOOLEAN, Certificate!Finish(w)
      PROVE  ReportInv'
  BY <1>8 DEF Certificate!Finish
<1>9. CASE Certificate!StatusReadsOld
  BY <1>9 DEF Certificate!StatusReadsOld
<1>10. CASE Certificate!StatusWritesFailed
  BY <1>10 DEF Certificate!StatusWritesFailed
<1>11. ASSUME NEW how \in {"ok", "bad"}, Certificate!ScriptEnds(how)
       PROVE  ReportInv'
  BY <1>11 DEF Certificate!ScriptEnds
<1>12. CASE Certificate!Replace
  BY <1>12 DEF Certificate!Replace
<1>13. CASE Certificate!HookRestart
  BY <1>13 DEF Certificate!HookRestart, Certificate!PanelStops
<1>14. CASE Certificate!PanelRestart
  BY <1>14 DEF Certificate!PanelRestart, Certificate!PanelStops
<1>15. CASE Certificate!Tick
  BY <1>15 DEF Certificate!Tick
<1>16. CASE UNCHANGED certVars
  BY <1>16 DEF certVars
<1>17. ASSUME NEW how \in {"ok", "bad"}, Certificate!HookFails(how)
       PROVE  ReportInv'
  BY <1>17 DEF Certificate!HookFails
<1> QED
  BY <1>1, <1>2, <1>3, <1>4, <1>5, <1>6, <1>7, <1>8, <1>9, <1>10, <1>11, <1>12,
     <1>13, <1>14, <1>15, <1>16, <1>17 DEF Certificate!Next

\* The renewal (renewCertificate, its goroutine, certificateRenewStatus): the flag
\* is held by exactly the press that is at work, "running" is a press's or was
\* left behind, and what the file says agrees with how the script went.
THEOREM CertificateCorrect == PartsSpec => []CertificateInv
<1>1. ASSUME PartsInit PROVE CertificateInv
  BY <1>1, PartsBegin, StaleAssumption
     DEF Certificate!Init, CertificateInv, ClaimInv, ReportInv, Certificate!TypeOK, Certificate!Statuses,
         Certificate!EndedWell
<1>2. CertificateInv /\ [PartsNext]_partVars => CertificateInv'
  BY PartsStep, CertificateTypes, CertificateClaims, CertificateReports DEF CertificateInv
<1> QED
  BY <1>1, <1>2, PTL DEF PartsSpec

\* A press of the button is refused only while another press is at work, or for
\* StaleAge after one that was left unfinished.
THEOREM RenewalRefusedForAReason == PartsSpec => []RefusedForAReason
<1>1. CertificateInv => RefusedForAReason
  BY StaleAssumption DEF CertificateInv, ClaimInv, Certificate!TypeOK, RefusedForAReason,
     Certificate!RefusedForAReason, Certificate!Refused, Certificate!Old
<1> QED
  BY CertificateCorrect, <1>1, PTL

\* The renewal reports success only of a script that ended well and restarted
\* nothing (so after a replacement only if the reload failed), and failure of one
\* that ended well only if its result was overtaken or never written.
THEOREM RenewalReportIsHonest == PartsSpec => []ReportIsHonest
<1>1. CertificateInv => ReportIsHonest
  BY DEF CertificateInv, ReportInv, ReportIsHonest, Certificate!ReportIsHonest
<1> QED
  BY CertificateCorrect, <1>1, PTL

-----------------------------------------------------------------------------
(* The watch for newer rule sets (app.go, kota-autoupdate) *)

\* A set the core holds in an old version is excused, or the news of it is on
\* its way: the updater has still to mark it, the mark is still to be seen, or
\* the restart is still to come.
NewsInv ==
    Rules!Behind \subseteq mayLag \/ changed \/ step = "restart" \/ applied # mark

RulesInv == Rules!TypeOK /\ NewsInv

\* A core that has read the files is behind none of them.
LEMMA CoreReadsAll ==
  ASSUME RulesInv, NEW named \in SUBSET RuleSets, Rules!CoreReads(named), file' = file
  PROVE  /\ loaded' \in [RuleSets -> 0..MaxVersion]
         /\ \A s \in RuleSets : loaded'[s] <= file[s]
         /\ mayLag' = {} /\ Rules!Behind' = {}
<1>1. /\ loaded' = [s \in RuleSets |-> IF s \in named THEN file[s] ELSE 0] /\ mayLag' = {}
      /\ file \in [RuleSets -> 0..MaxVersion]
  BY DEF Rules!CoreReads, Rules!Read, RulesInv, Rules!TypeOK
<1> QED
  BY <1>1, RulesAssumption DEF Rules!Behind

LEMMA NamedSets == ASSUME NEW on PROVE Rules!Named(on) \in SUBSET RuleSets
BY DEF Rules!Named

LEMMA RulesStep ==
  ASSUME RulesInv, [Rules!Next]_ruleVars
  PROVE  RulesInv'
<1>1. CASE Rules!BeginFetch
  BY <1>1 DEF Rules!BeginFetch, RulesInv, Rules!TypeOK, NewsInv, Rules!Behind,
     Rules!coreVars, Rules!watch
<1>2. CASE Rules!MarkChange
  <2>1. /\ mark' = mark + 1 /\ mark' \in 0..MaxMark /\ mark \in Nat /\ applied \in 0..mark
        /\ applied' = applied /\ next \in 0..mark
    BY <1>2, RulesAssumption DEF Rules!MarkChange, RulesInv, Rules!TypeOK, Rules!watch
  <2>2. applied' # mark' /\ applied \in 0..mark' /\ next \in 0..mark'
    BY <2>1
  <2>3. Rules!TypeOK'
    BY <1>2, <2>1, <2>2 DEF Rules!MarkChange, RulesInv, Rules!TypeOK, Rules!coreVars, Rules!watch
  <2> QED
    BY <2>2, <2>3 DEF RulesInv, NewsInv
<1>3. CASE Rules!FetchStops
  BY <1>3 DEF Rules!FetchStops, RulesInv, Rules!TypeOK, NewsInv, Rules!Behind,
     Rules!coreVars, Rules!watch
<1>4. ASSUME NEW s \in RuleSets, NEW new \in 0..MaxVersion, Rules!Fetch(s, new)
      PROVE  RulesInv'
  <2>1. /\ file' = [file EXCEPT ![s] = new] /\ new \in {file[s], file[s] + 1}
        /\ fetching' \subseteq RuleSets /\ loaded' = loaded
        /\ changed' = (changed \/ new # file[s])
        /\ UNCHANGED <<mark, categories, config, applied, step, next, mayLag, switches>>
    BY <1>4 DEF Rules!Fetch, Rules!coreVars, Rules!watch, RulesInv, Rules!TypeOK
  <2>2. /\ file \in [RuleSets -> 0..MaxVersion] /\ loaded \in [RuleSets -> 0..MaxVersion]
        /\ \A r \in RuleSets : loaded[r] <= file[r]
    BY DEF RulesInv, Rules!TypeOK
  <2>3. /\ file' \in [RuleSets -> 0..MaxVersion]
        /\ \A r \in RuleSets : loaded'[r] <= file'[r]
    <3>1. file' \in [RuleSets -> 0..MaxVersion]
      BY <2>1, <2>2
    <3>2. ASSUME NEW r \in RuleSets
          PROVE  loaded'[r] <= file'[r]
      <4>1. loaded[r] \in Int /\ file[r] \in Int /\ loaded[r] <= file[r] /\ loaded'[r] = loaded[r]
        BY <2>1, <2>2, RulesAssumption
      <4>2. CASE r = s
        <5>1. file'[r] = new /\ (new = file[r] + 1 \/ new = file[r])
          BY <2>1, <2>2, <4>2
        <5> QED
          BY <4>1, <5>1
      <4>3. CASE r # s
        <5>1. file'[r] = file[r]
          BY <2>1, <2>2, <4>3
        <5> QED
          BY <4>1, <5>1
      <4> QED
        BY <4>2, <4>3
    <3> QED
      BY <3>1, <3>2
  <2>4. changed' \in BOOLEAN
    BY <2>1
  <2>5. Rules!TypeOK'
    BY <2>1, <2>3, <2>4 DEF RulesInv, Rules!TypeOK
  <2>6. CASE new = file[s]
    <3>1. \A r \in RuleSets : file'[r] = file[r]
      BY <2>1, <2>2, <2>6
    <3> QED
      BY <2>1, <2>5, <3>1 DEF RulesInv, NewsInv, Rules!Behind
  <2>7. CASE new # file[s]
    BY <2>1, <2>5, <2>7 DEF RulesInv, NewsInv
  <2> QED
    BY <2>6, <2>7
<1>5. ASSUME NEW on \in BOOLEAN, Rules!Commit(on)
      PROVE  RulesInv'
  <2>1. /\ categories' = on /\ config' = Rules!Named(on) /\ switches' \in 0..MaxSwitches
        /\ UNCHANGED <<file, mark, fetching, changed, applied, step, next>>
    BY <1>5, RulesAssumption DEF Rules!Commit, Rules!updater, Rules!watch, RulesInv, Rules!TypeOK
  <2>2. CASE UNCHANGED <<loaded, mayLag>>
    BY <2>1, <2>2, NamedSets DEF RulesInv, Rules!TypeOK, NewsInv, Rules!Behind
  <2>3. CASE Rules!CoreReads(Rules!Named(on))
    <3>1. /\ loaded' \in [RuleSets -> 0..MaxVersion]
          /\ \A s \in RuleSets : loaded'[s] <= file[s]
          /\ mayLag' = {} /\ Rules!Behind' = {}
      BY <2>1, <2>3, NamedSets, CoreReadsAll
    <3> QED
      BY <2>1, <3>1, NamedSets DEF RulesInv, Rules!TypeOK, NewsInv
  <2> QED
    BY <1>5, <2>2, <2>3 DEF Rules!Commit
<1>6. CASE Rules!Regenerate
  BY <1>6, NamedSets DEF Rules!Regenerate, RulesInv, Rules!TypeOK, NewsInv, Rules!Behind,
     Rules!updater, Rules!watch
<1>7. CASE Rules!CoreRestart
  <2>1. /\ loaded' \in [RuleSets -> 0..MaxVersion]
        /\ \A s \in RuleSets : loaded'[s] <= file[s]
        /\ mayLag' = {} /\ Rules!Behind' = {}
    BY <1>7, CoreReadsAll DEF Rules!CoreRestart, RulesInv, Rules!TypeOK
  <2> QED
    BY <1>7, <2>1 DEF Rules!CoreRestart, Rules!updater, Rules!watch, RulesInv, Rules!TypeOK,
       NewsInv
<1>8. CASE Rules!PanelRestart
  <2>1. /\ config' \in SUBSET RuleSets /\ applied' = 0 /\ step' = "idle" /\ next' = 0
        /\ mayLag' = IF step = "restart" THEN mayLag \cup Rules!Behind ELSE mayLag
        /\ UNCHANGED <<file, mark, fetching, changed, categories, loaded, switches>>
    BY <1>8, NamedSets DEF Rules!PanelRestart, Rules!updater
  <2>2. mark \in Nat /\ applied \in 0..mark /\ Rules!Behind' = Rules!Behind
    BY <2>1, RulesAssumption DEF RulesInv, Rules!TypeOK, Rules!Behind
  <2>3. Rules!TypeOK'
    BY <2>1, <2>2 DEF RulesInv, Rules!TypeOK, Rules!Behind
  <2>4. NewsInv'
    BY <2>1, <2>2 DEF RulesInv, NewsInv
  <2> QED
    BY <2>3, <2>4 DEF RulesInv
<1>9. CASE Rules!Baseline
  BY <1>9, RulesAssumption DEF Rules!Baseline, RulesInv, Rules!TypeOK, NewsInv, Rules!Behind,
     Rules!updater, Rules!coreVars
<1>10. CASE Rules!NewMark
  BY <1>10, RulesAssumption DEF Rules!NewMark, RulesInv, Rules!TypeOK, NewsInv, Rules!updater,
     Rules!coreVars
<1>11. CASE Rules!WatchRestarts
  <2>1. /\ loaded' \in [RuleSets -> 0..MaxVersion]
        /\ \A s \in RuleSets : loaded'[s] <= file[s]
        /\ mayLag' = {} /\ Rules!Behind' = {}
    BY <1>11, CoreReadsAll DEF Rules!WatchRestarts, RulesInv, Rules!TypeOK
  <2> QED
    BY <1>11, <2>1, RulesAssumption
       DEF Rules!WatchRestarts, Rules!updater, RulesInv, Rules!TypeOK, NewsInv
<1>12. CASE Rules!WatchRestartFails
  BY <1>12, RulesAssumption DEF Rules!WatchRestartFails, RulesInv, Rules!TypeOK, NewsInv,
     Rules!Behind, Rules!updater, Rules!coreVars
<1>13. CASE UNCHANGED ruleVars
  BY <1>13 DEF ruleVars, RulesInv, Rules!TypeOK, NewsInv, Rules!Behind
<1> QED
  BY <1>1, <1>2, <1>3, <1>4, <1>5, <1>6, <1>7, <1>8, <1>9, <1>10, <1>11, <1>12, <1>13
     DEF Rules!Next

\* The watch for newer rule sets (kota-autoupdate, relayRuleSetWatchStep): whatever
\* set the core holds in an old version, the news of it is still on its way -
\* to be marked, to be seen, or to be restarted for - or it is excused.
THEOREM RulesCorrect == PartsSpec => []RulesInv
<1>1. ASSUME PartsInit PROVE RulesInv
  BY <1>1, PartsBegin, RulesAssumption
     DEF Rules!Init, RulesInv, Rules!TypeOK, NewsInv, Rules!Behind
<1>2. RulesInv /\ [PartsNext]_partVars => RulesInv'
  BY PartsStep, RulesStep
<1> QED
  BY <1>1, <1>2, PTL DEF PartsSpec

\* Once the panel has dealt with the last mark the updater wrote, the core runs
\* the newest rules, but for the excused sets.
THEOREM NewestRulesAreInForce == PartsSpec => []NewestRulesInForce
<1>1. RulesInv => NewestRulesInForce
  BY DEF RulesInv, NewsInv, NewestRulesInForce, Rules!NewestRulesInForce, Rules!CaughtUp
<1> QED
  BY RulesCorrect, <1>1, PTL

=============================================================================
