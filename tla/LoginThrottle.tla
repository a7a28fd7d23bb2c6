---------------------------- MODULE LoginThrottle -----------------------------
(***************************************************************************)
(* The login throttle: failed logins are counted per client address in a   *)
(* window, the address is banned when a window holds too many, each ban is  *)
(* twice as long as the one before, and the table of addresses is capped.  *)
(* The handler asks whether the address is banned and notes the outcome     *)
(* under two separate takings of loginMu, so attempts of one address        *)
(* overlap; the table is in memory and a restart of the panel empties it.  *)
(***************************************************************************)
EXTENDS Integers, FiniteSets

CONSTANTS
    Addresses,      \* what loginClientKey tells apart
    MaxAttempts,    \* loginMaxAttempts
    Window,         \* loginAttemptWindow, in ticks
    FirstBan,       \* a minute, in ticks
    MaxBan,         \* loginMaxBan, in ticks
    Cap,            \* loginFailMapCap
    MaxNow,         \* bound: ticks that pass
    MaxOverlap      \* bound: attempts of an address in flight

VARIABLES
    now,
    fails,          \* loginFails
    judging,        \* attempts past loginBlocked whose outcome is not noted
    judged          \* history: attempts noted during the current ban

loginVars == <<now, fails, judging, judged>>

Attempt == [count : 0..(MaxAttempts - 1), windowStart : Int, blockedUntil : Int, bans : Nat]

\* The zero value of the map: its window ended long ago.
NoAttempt == [count |-> 0, windowStart |-> -(Window + 1), blockedUntil |-> -1, bans |-> 0]

AttemptOf(a) == IF a \in DOMAIN fails THEN fails[a] ELSE NoAttempt

\* loginBlocked
Blocked(a) == now < AttemptOf(a).blockedUntil

\* loginBanDuration: a minute, doubled for every ban before, and capped.
BanDuration(n) ==
    LET ban[i \in 1..n] == IF i = 1 THEN FirstBan
                           ELSE IF 2 * ban[i - 1] >= MaxBan THEN MaxBan ELSE 2 * ban[i - 1]
    IN ban[n]

\* A failure opens a new window when the old one is over, and the one that
\* fills the window starts a ban.
Noted(t) ==
    LET fresh == now - t.windowStart > Window
        start == IF fresh THEN now ELSE t.windowStart
        count == (IF fresh THEN 0 ELSE t.count) + 1
    IN IF count < MaxAttempts
       THEN [t EXCEPT !.count = count, !.windowStart = start]
       ELSE [count |-> 0, windowStart |-> now, bans |-> t.bans + 1,
             blockedUntil |-> now + BanDuration(t.bans + 1)]

Without(f, S) == [a \in DOMAIN f \ S |-> f[a]]

\* Mutant: an entry is stale when its window is over, ban or not.
StaleByWindow(f) == {a \in DOMAIN f : now - f[a].windowStart > Window}

Stale(f) == {a \in DOMAIN f : /\ now > f[a].blockedUntil
                              /\ now - f[a].windowStart > Window}

\* Mutant: only stale entries go.
SweptStale(f) == IF Cardinality(DOMAIN f) <= Cap THEN {f} ELSE {Without(f, Stale(f))}

\* sweepLoginFailsLocked: over the cap the stale entries go, then the oldest
\* windows.  A failure adds one entry at most, so one is enough; among equal
\* windows the order of the map decides.
Swept(f) ==
    IF Cardinality(DOMAIN f) <= Cap THEN {f}
    ELSE LET kept == Without(f, Stale(f))
             oldest == {a \in DOMAIN kept :
                          \A b \in DOMAIN kept : kept[a].windowStart <= kept[b].windowStart}
         IN IF Cardinality(DOMAIN kept) <= Cap THEN {kept}
            ELSE {Without(kept, {a}) : a \in oldest}

Init ==
    /\ now = 0
    /\ fails = <<>>
    /\ judging = [a \in Addresses |-> 0]
    /\ judged = [a \in Addresses |-> 0]
-----------------------------------------------------------------------------
\* Mutant: the ban is not asked for.
CheckNothing(a) ==
    /\ judging[a] < MaxOverlap
    /\ judging' = [judging EXCEPT ![a] = @ + 1]
    /\ UNCHANGED <<now, fails, judged>>

\* login up to the comparison: a banned address is answered 429.
Check(a) ==
    /\ judging[a] < MaxOverlap
    /\ ~Blocked(a)
    /\ judging' = [judging EXCEPT ![a] = @ + 1]
    /\ UNCHANGED <<now, fails, judged>>

\* The name or the password was wrong: noteLoginFailure.
Fail(a) ==
    /\ judging[a] > 0
    /\ judging' = [judging EXCEPT ![a] = @ - 1]
    /\ fails' \in Swept([b \in DOMAIN fails \cup {a} |-> IF b = a THEN Noted(AttemptOf(a))
                                                           ELSE fails[b]])
    /\ judged' = [judged EXCEPT ![a] = IF Blocked(a) THEN @ + 1 ELSE 0]
    /\ UNCHANGED now

\* Both were right: clearLoginFailures.
Succeed(a) ==
    /\ judging[a] > 0
    /\ judging' = [judging EXCEPT ![a] = @ - 1]
    /\ fails' = Without(fails, {a})
    /\ judged' = [judged EXCEPT ![a] = 0]
    /\ UNCHANGED now

Tick ==
    /\ now < MaxNow /\ now' = now + 1
    /\ UNCHANGED <<fails, judging, judged>>

\* The panel restarts: the requests in flight are cut off.
Restart ==
    /\ now > 0 /\ fails # <<>>
    /\ fails' = <<>>
    /\ judging' = [a \in Addresses |-> 0] /\ judged' = [a \in Addresses |-> 0]
    /\ UNCHANGED now

Next ==
    \/ \E a \in Addresses : Check(a) \/ Fail(a) \/ Succeed(a)
    \/ Tick \/ Restart

Spec == Init /\ [][Next]_loginVars
-----------------------------------------------------------------------------
(* Correctness. *)

\* Every variable stays in its range, and the table within its cap.
TypeOK ==
    /\ now \in 0..MaxNow
    /\ DOMAIN fails \subseteq Addresses /\ \A a \in DOMAIN fails : fails[a] \in Attempt
    /\ Cardinality(DOMAIN fails) <= Cap
    /\ judging \in [Addresses -> 0..MaxOverlap]
    /\ judged \in [Addresses -> Nat]

\* Attempts overlap, and a ban does not stop those that were let in before it;
\* but it does stop all others: while an address is banned, the attempts noted
\* since and those still in flight are together fewer than may overlap.
BanStopsNewAttempts ==
    \A a \in Addresses : Blocked(a) => judged[a] + judging[a] < MaxOverlap

\* A ban is served in full.  No failure, of this address or of another, and no
\* sweep ends it or cuts it short: only a right password that was let in before
\* the ban, a restart of the panel, or the last resort of the sweep, which takes
\* the oldest window of a table that is full of entries none of which is stale.
Served(a) ==
    \/ a \in DOMAIN fails' /\ fails'[a].blockedUntil >= fails[a].blockedUntil
    \/ judging'[a] < judging[a] /\ a \notin DOMAIN fails'
    \/ fails' = <<>>
    \/ /\ Cardinality(DOMAIN fails) = Cap /\ Cardinality(DOMAIN fails') = Cap
       /\ Stale(fails) = {}
       /\ \A b \in DOMAIN fails : fails[a].windowStart <= fails[b].windowStart

BanIsServed == [][\A a \in Addresses : Blocked(a) => Served(a)]_loginVars
=============================================================================
