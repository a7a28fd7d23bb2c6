--------------------------- MODULE QuotaEnforcement --------------------------
(***************************************************************************)
(* Which clients the core serves: a client is active while it is not       *)
(* paused, has not expired and is below its total, monthly and daily       *)
(* limits (config.Client.Active).  Usage grows as syncTraffic bills it,    *)
(* days and months roll over, terms are edited; the generated configuration*)
(* holds the active clients, and only a restart makes the core read it.    *)
(*                                                                         *)
(* A commit is one step here (its steps are ConfigCommit's), billing is    *)
(* exact unless the core restarts (its races are TrafficAccounting's), and *)
(* the panel does not crash.  Refused requests are stuttering steps.       *)
(***************************************************************************)
EXTENDS Integers, FiniteSets

CONSTANTS
    Clients,
    Terms,          \* limits and last day a client may be given; 0 is none
    FirstTerms,     \* what each client starts with
    DaysPerMonth,
    MaxDay,         \* bound: days that pass
    MaxBytes,       \* bound: usage of one client
    MaxEdits        \* bound: client mutations

ASSUME TermsAssumption ==
    Terms \subseteq [total : Nat, monthly : Nat, daily : Nat, expires : Nat]
ASSUME FirstTermsAssumption == FirstTerms \in [Clients -> Terms]
ASSUME CalendarAssumption == DaysPerMonth \in Nat \ {0} /\ MaxDay \in Nat
ASSUME BoundAssumption == MaxBytes \in Nat /\ MaxEdits \in Nat

VARIABLES
    day,            \* today
    mem,            \* the store's clients
    booked,         \* State.DailyDate
    file,           \* the clients in config.json
    loaded,         \* the clients of the running core
    unbilled,       \* bytes the core counted since the last billing
    sync,           \* syncTraffic: "idle", "began", "due" or "reload"
    now,            \*   its nowTime
    restarts,       \* restarts owed to the core by requests and goroutines
    reloadFailed,   \* history: a regeneration or a restart failed
    unnoticed,      \* history: clients overlooked at the turn of a month
    edits           \* history: client mutations so far

periodVars == <<day, booked>>
coreVars == <<loaded, unbilled>>
syncVars == <<sync, now>>
history == <<reloadFailed, unnoticed, edits>>
vars == <<day, mem, booked, file, loaded, unbilled, sync, now, restarts,
          reloadFailed, unnoticed, edits>>

Month(d) == d \div DaysPerMonth

\* The fields of config.Client that decide whether it is served.
Client == [paused : BOOLEAN, terms : Terms, month : Nat, date : Nat,
           used : Nat, monthly : Nat, daily : Nat]

Reached(limit, bytes) == limit > 0 /\ bytes >= limit

Expired(c, d) == c.terms.expires # 0 /\ d > c.terms.expires

\* Client.Active
Active(c, d) ==
    /\ ~c.paused
    /\ ~Expired(c, d)
    /\ ~Reached(c.terms.total, c.used)
    /\ ~Reached(c.terms.monthly, c.monthly)
    /\ ~Reached(c.terms.daily, c.daily)

\* A month's usage does not count once the month is over.
RollMonth(c, d) ==
    IF c.month = Month(d) THEN c ELSE [c EXCEPT !.month = Month(d), !.monthly = 0]

\* activeClients: the clients proxy.Write generates a configuration for.
Generated(m, d) == {c \in Clients : Active(RollMonth(m[c], d), d)}

Init ==
    /\ day = 0 /\ booked = 0
    /\ mem = [c \in Clients |->
                [paused |-> FALSE, terms |-> FirstTerms[c], month |-> 0, date |-> 0,
                 used |-> 0, monthly |-> 0, daily |-> 0]]
    /\ file = Clients /\ loaded = Clients
    /\ unbilled = [c \in Clients |-> 0]
    /\ sync = "idle" /\ now = 0
    /\ restarts = 0
    /\ reloadFailed = FALSE /\ unnoticed = {} /\ edits = 0
-----------------------------------------------------------------------------
(* Time and the core (external). *)

DayPasses ==
    /\ day < MaxDay /\ day' = day + 1
    /\ UNCHANGED <<mem, booked, file, coreVars, syncVars, restarts, history>>

\* The core serves whoever its configuration names, active or not.
Carry(c) ==
    /\ c \in loaded
    /\ mem[c].used + unbilled[c] < MaxBytes
    /\ unbilled' = [unbilled EXCEPT ![c] = @ + 1]
    /\ UNCHANGED <<mem, file, loaded, periodVars, syncVars, restarts, history>>

\* Its counters start again from zero.
CoreReads == loaded' = file /\ unbilled' = [c \in Clients |-> 0]

\* It died, or someone restarted it.
CoreRestart ==
    /\ CoreReads
    /\ UNCHANGED <<mem, file, periodVars, syncVars, restarts, history>>

\* Mutant: every waiting restart goes through at once.
OwedRestartUnguarded ==
    /\ restarts' = restarts - 1
    /\ CoreReads
    /\ UNCHANGED <<mem, file, periodVars, syncVars, history>>

\* restartManagedSingBox, for whoever called it.
OwedRestart ==
    /\ restarts > 0 /\ restarts' = restarts - 1
    /\ CoreReads
    /\ UNCHANGED <<mem, file, periodVars, syncVars, history>>

\* Its error goes to the log or the answer; nobody tries again.
OwedRestartFails ==
    /\ restarts > 0 /\ restarts' = restarts - 1
    /\ reloadFailed' = TRUE
    /\ UNCHANGED <<mem, file, coreVars, periodVars, syncVars, unnoticed, edits>>
-----------------------------------------------------------------------------
(* Commits. *)

\* App.mutate: the new state, its configuration, and a restart.
Mutate(m) ==
    /\ mem' = m
    /\ file' = Generated(m, day)
    /\ restarts' = restarts + 1

Edit(m) ==
    /\ edits < MaxEdits /\ edits' = edits + 1
    /\ Mutate(m)
    /\ UNCHANGED <<coreVars, periodVars, syncVars, reloadFailed, unnoticed>>

\* clientAction "pause" and "resume"
SetPaused(c, paused) == Edit([mem EXCEPT ![c].paused = paused])

\* clientAction "reset": the daily usage stays.  The syncTraffic it calls
\* first is the one below.
Reset(c) == Edit([mem EXCEPT ![c].used = 0, ![c].monthly = 0])

\* updateClient
SetTerms(c, terms) == Edit([mem EXCEPT ![c].terms = terms])

\* resetMonth, before every page: all clients of an earlier (or, after a slow
\* sync, later) month.
ResetMonth ==
    /\ \E c \in Clients : mem[c].month # Month(day)
    /\ Mutate([c \in Clients |-> RollMonth(mem[c], day)])
    /\ UNCHANGED <<coreVars, periodVars, syncVars, history>>

\* recordDailyUsage, by persistStateOnly: a configuration and no restart.
RecordDailyUsage ==
    /\ booked # day /\ booked' = day
    /\ file' = Generated(mem, day)
    /\ UNCHANGED <<day, mem, coreVars, syncVars, restarts, history>>
-----------------------------------------------------------------------------
(* syncTraffic *)

\* nowTime and the Snapshot, from which needsSave is decided.
SyncBegin ==
    /\ sync = "idle"
    /\ now' = day
    /\ sync' = IF \E c \in Clients : mem[c].month # Month(day) \/ mem[c].date # day
               THEN "due" ELSE "began"
    /\ UNCHANGED <<mem, file, coreVars, periodVars, restarts, history>>

SyncDone == sync' = "idle" /\ now' = 0

\* The core does not answer in 1.2 s, or nothing needs saving.
SyncEnds ==
    /\ sync \in {"began", "due"} /\ SyncDone
    /\ UNCHANGED <<mem, file, coreVars, periodVars, restarts, history>>

RollDay(c) == IF c.date = now THEN c ELSE [c EXCEPT !.date = now, !.daily = 0]

Billed(c, bytes) ==
    [c EXCEPT !.used = @ + bytes, !.monthly = @ + bytes, !.daily = @ + bytes]

Updated == [c \in Clients |-> Billed(RollDay(RollMonth(mem[c], now)), unbilled[c])]

\* Clients whose standing the comparison in the update misses at the turn of a
\* month.  Active judges by the usage of the month the client is in, old or new;
\* activeClients forgives the usage of any month but today's.  So the first
\* bytes of a month may reach a limit unseen, and so may bytes that a sync begun
\* before midnight bills to the old month.
Overlooked == {c \in Clients :
    /\ Active(mem[c], now) = Active(Updated[c], now)
    /\ (c \in Generated(mem, day)) # (c \in Generated(Updated, day))}

Update(reload) ==
    /\ sync = "due" \/ (sync = "began" /\ \E c \in Clients : unbilled[c] > 0)
    /\ mem' = Updated
    /\ unbilled' = [c \in Clients |-> 0]
    /\ IF reload
       THEN sync' = "reload" /\ now' = 0 /\ UNCHANGED unnoticed
       ELSE SyncDone /\ unnoticed' = unnoticed \cup Overlooked
    /\ UNCHANGED <<file, loaded, periodVars, restarts, reloadFailed, edits>>

\* Mutant: only a client that stops being active reloads the core.
SyncUpdateCutsOnly ==
    Update(\E c \in Clients : Active(mem[c], now) /\ ~Active(Updated[c], now))

\* The update, on the state as it is then; Active is evaluated at nowTime.
SyncUpdate ==
    Update(\E c \in Clients : Active(mem[c], now) # Active(Updated[c], now))

\* Mutant: the new configuration is left for the core to find.
ReloadWithoutRestart ==
    /\ sync = "reload" /\ SyncDone
    /\ file' = Generated(mem, day)
    /\ UNCHANGED <<mem, coreVars, periodVars, restarts, history>>

\* reloadCore: regenerate, and restart in a goroutine.
Reload ==
    /\ sync = "reload" /\ SyncDone
    /\ file' = Generated(mem, day)
    /\ restarts' = restarts + 1
    /\ UNCHANGED <<mem, coreVars, periodVars, history>>

\* The configuration cannot be written or checked.
ReloadFails ==
    /\ sync = "reload" /\ SyncDone
    /\ reloadFailed' = TRUE
    /\ UNCHANGED <<mem, file, coreVars, periodVars, restarts, unnoticed, edits>>
-----------------------------------------------------------------------------
ClientStep(c) ==
    \/ Carry(c)
    \/ \E paused \in BOOLEAN : SetPaused(c, paused)
    \/ Reset(c)
    \/ \E terms \in Terms : SetTerms(c, terms)

Next ==
    \/ DayPasses
    \/ \E c \in Clients : ClientStep(c)
    \/ CoreRestart \/ OwedRestart \/ OwedRestartFails
    \/ ResetMonth \/ RecordDailyUsage
    \/ SyncBegin \/ SyncEnds \/ SyncUpdate \/ Reload \/ ReloadFails

Spec == Init /\ [][Next]_vars

(* backgroundSchedulerLoop syncs every 15 seconds, and the core answers
   sooner or later; a goroutine that regenerates or restarts is scheduled.
   Days, requests and traffic are up to the world.                         *)
Fairness ==
    /\ WF_vars(SyncBegin)
    /\ SF_vars(SyncUpdate)
    /\ WF_vars(SyncEnds \/ SyncUpdate)
    /\ WF_vars(Reload \/ ReloadFails)
    /\ WF_vars(OwedRestart \/ OwedRestartFails)

FairSpec == Spec /\ Fairness
-----------------------------------------------------------------------------
(* Correctness. *)

\* Every variable stays in its range; no restart is done that nobody owed.
TypeOK ==
    /\ day \in Nat /\ booked \in Nat /\ now \in Nat
    /\ mem \in [Clients -> Client]
    /\ file \subseteq Clients /\ loaded \subseteq Clients
    /\ unbilled \in [Clients -> Nat]
    /\ sync \in {"idle", "began", "due", "reload"}
    /\ restarts \in Nat
    /\ reloadFailed \in BOOLEAN /\ unnoticed \subseteq Clients /\ edits \in Nat

\* syncTraffic has the new day or month of this client still to enter.
RollDue(c) == mem[c].date # day \/ mem[c].month # Month(day)

\* Whatever billing, rollovers, edits and restarts interleave: if the core
\* serves a client it should not, or refuses one it should serve, a reload is
\* on its way.  There are two exceptions: nothing restarts the core when a
\* client expires, and a client overlooked at the turn of a month.
DisagreementIsOwed ==
    ~reloadFailed =>
        \A c \in Clients \ unnoticed :
            (c \in loaded) # (c \in Generated(mem, day)) =>
                sync = "reload" \/ restarts > 0 \/ RollDue(c) \/ Expired(mem[c], day)

\* When the world rests (the bounds are reached) and no reload failed, the core
\* serves exactly the clients that are active, with the same exceptions; one
\* over its limit is cut off, one whose day or month began anew served again.
ServesTheActive ==
    <>[](reloadFailed \/
         \A c \in Clients \ unnoticed :
             ~Expired(mem[c], day) => (c \in loaded <=> Active(mem[c], day)))

\* What persistStateOnly's comment says of the daily bookkeeping: it never
\* affects the generated configuration.
BookkeepingKeepsConfig == [][booked' # booked => file' = file]_vars
=============================================================================
