------------------------ MODULE QuotaEnforcementProofs ------------------------
(***************************************************************************)
(* For any clients, terms, calendar and number of edits: the bookkeeping   *)
(* is well typed, and the core serves a client wrongly only while a reload *)
(* or a rollover is on its way.                                            *)
(***************************************************************************)
EXTENDS QuotaEnforcement, TLAPS

USE DEF periodVars, coreVars, syncVars, history

(* Nobody is ahead of today.                                                 *)
CalendarInv ==
    /\ now <= day
    /\ \A c \in Clients : mem[c].date <= day /\ mem[c].month <= Month(day)

(* A client has the standing in a set of clients that Active gives it, by the *)
(* usage of the month it is in, or that activeClients gives it, by today's,  *)
(* unless a reload follows.  The invariant needs both: a configuration made  *)
(* before the client enters a month may go by either, and the update that    *)
(* enters it compares them.                                                  *)
InStanding(c, served) ==
    \/ sync = "reload"
    \/ Expired(mem[c], day)
    \/ served <=> Active(mem[c], day)
    \/ served <=> c \in Generated(mem, day)

FileInv ==
    ~reloadFailed => \A c \in Clients \ unnoticed : InStanding(c, c \in file)

(* The core reads the file when it is restarted, so the file must be right   *)
(* earlier than the core.                                                    *)
LoadInv ==
    ~reloadFailed => \A c \in Clients \ unnoticed : restarts > 0 \/ InStanding(c, c \in loaded)

QuotaInv == TypeOK /\ CalendarInv /\ FileInv /\ LoadInv
-----------------------------------------------------------------------------
(* Lemmas about the operators. *)

\* Months are numbers, and later days are not in earlier months.
LEMMA Months ==
    ASSUME NEW d \in Nat, NEW e \in Nat, d <= e
    PROVE  Month(d) \in Nat /\ Month(d) <= Month(e)
BY CalendarAssumption DEF Month

\* Entering a month or a day and billing keep the type and the terms.
LEMMA MonthRolled ==
    ASSUME NEW c \in Client, NEW d \in Nat
    PROVE  /\ RollMonth(c, d) \in Client /\ RollMonth(c, d).month = Month(d)
           /\ RollMonth(c, d).terms = c.terms /\ RollMonth(c, d).date = c.date
<1>1. Month(d) \in Nat
  BY Months
<1>2. QED
  BY <1>1 DEF RollMonth, Client

\* The day's usage begins anew.
LEMMA DayRolled ==
    ASSUME NEW c \in Client, now \in Nat
    PROVE  /\ RollDay(c) \in Client /\ RollDay(c).month = c.month
           /\ RollDay(c).terms = c.terms /\ RollDay(c).date = now
BY DEF RollDay, Client

\* Billing adds to the three counters.
LEMMA BilledClient ==
    ASSUME NEW c \in Client, NEW bytes \in Nat
    PROVE  /\ Billed(c, bytes) \in Client /\ Billed(c, bytes).month = c.month
           /\ Billed(c, bytes).terms = c.terms /\ Billed(c, bytes).date = c.date
<1>1. PICK u \in Nat, m \in Nat, d \in Nat :
        u = c.used + bytes /\ m = c.monthly + bytes /\ d = c.daily + bytes
  BY DEF Client
<1>2. Billed(c, bytes) = [c EXCEPT !.used = u, !.monthly = m, !.daily = d]
  BY <1>1 DEF Billed, Client
<1>3. QED
  BY <1>2 DEF Client

\* Of a client that does not expire, Active says the same on every day.
LEMMA SameEveryDay ==
    ASSUME NEW c \in Client, NEW d \in Nat, NEW e \in Nat, d <= e, ~Expired(c, e)
    PROVE  ~Expired(c, d) /\ (Active(c, d) <=> Active(c, e))
BY TermsAssumption DEF Expired, Active, Client

\* The state the update makes of a client.
LEMMA UpdatedClient ==
    ASSUME TypeOK, NEW c \in Clients
    PROVE  /\ Updated[c] \in Client /\ Updated[c].month = Month(now)
           /\ Updated[c].date = now /\ Updated[c].terms = mem[c].terms
<1>1. mem[c] \in Client /\ now \in Nat /\ unbilled[c] \in Nat
  BY DEF TypeOK
<1>2. PICK x : x = RollMonth(mem[c], now)
  OBVIOUS
<1>3. x \in Client /\ x.month = Month(now) /\ x.terms = mem[c].terms
  BY <1>1, <1>2, MonthRolled
<1>4. PICK y : y = RollDay(x)
  OBVIOUS
<1>5. y \in Client /\ y.month = Month(now) /\ y.terms = mem[c].terms /\ y.date = now
  BY <1>1, <1>3, <1>4, DayRolled
<1>6. Updated[c] = Billed(y, unbilled[c])
  BY <1>2, <1>4 DEF Updated
<1>7. PICK bytes \in Nat : bytes = unbilled[c]
  BY <1>1
<1>8. /\ Billed(y, bytes) \in Client /\ Billed(y, bytes).month = y.month
      /\ Billed(y, bytes).terms = y.terms /\ Billed(y, bytes).date = y.date
  BY <1>5, BilledClient
<1>9. QED
  BY <1>5, <1>6, <1>7, <1>8
-----------------------------------------------------------------------------
(* The steps. *)

\* Midnight changes no standing but that of the expired.
LEMMA DayStep ==
    ASSUME QuotaInv, DayPasses
    PROVE  QuotaInv'
<1>1. /\ day \in Nat /\ day' = day + 1
      /\ UNCHANGED <<mem, booked, file, loaded, unbilled, sync, now, restarts,
                     reloadFailed, unnoticed, edits>>
  BY DEF QuotaInv, TypeOK, DayPasses
<1>2. TypeOK /\ CalendarInv /\ FileInv /\ LoadInv
  BY DEF QuotaInv
<1>3. TypeOK'
  BY <1>1, <1>2 DEF TypeOK
<1>4. Month(day) \in Nat /\ Month(day') \in Nat /\ Month(day) <= Month(day')
  BY <1>1, Months
<1>5. CalendarInv'
  <2>1. \A c \in Clients : mem[c].month \in Nat /\ mem[c].date \in Nat
    BY <1>2 DEF TypeOK, Client
  <2>2. Month(day)' = Month(day')
    BY DEF Month
  <2>3. now \in Nat
    BY <1>2 DEF TypeOK
  <2>4. QED
    BY <1>1, <1>2, <1>4, <2>1, <2>2, <2>3 DEF CalendarInv
<1>6. ASSUME NEW c \in Clients, ~Expired(mem[c], day)'
      PROVE  /\ ~Expired(mem[c], day) /\ (Active(mem[c], day)' <=> Active(mem[c], day))
             /\ \/ (c \in Generated(mem, day))' <=> c \in Generated(mem, day)
                \/ c \in Generated(mem, day) <=> Active(mem[c], day)
  <2>1. mem[c] \in Client /\ mem[c].month \in Nat /\ mem[c].month <= Month(day)
    BY <1>2 DEF TypeOK, CalendarInv, Client
  <2>2. ~Expired(mem[c], day')
    BY <1>1, <1>6 DEF Expired
  <2>3. ~Expired(mem[c], day) /\ (Active(mem[c], day) <=> Active(mem[c], day'))
    BY <1>1, <2>1, <2>2, SameEveryDay
  <2>4. Active(mem[c], day)' <=> Active(mem[c], day')
    BY <1>1 DEF Active, Expired
  <2>5. /\ c \in Generated(mem, day) <=> Active(RollMonth(mem[c], day), day)
        /\ (c \in Generated(mem, day))' <=> Active(RollMonth(mem[c], day'), day')
    BY <1>1 DEF Generated, RollMonth, Active, Expired, Month
  <2>6. CASE mem[c].month = Month(day)
    BY <2>3, <2>4, <2>5, <2>6 DEF RollMonth
  <2>7. CASE mem[c].month # Month(day)
    <3>1. PICK x : x = [mem[c] EXCEPT !.month = Month(day), !.monthly = 0]
      OBVIOUS
    <3>2. PICK y : y = [mem[c] EXCEPT !.month = Month(day'), !.monthly = 0]
      OBVIOUS
    <3>3. x = RollMonth(mem[c], day) /\ y = RollMonth(mem[c], day')
      BY <1>4, <2>1, <2>7, <3>1, <3>2 DEF RollMonth
    <3>4. /\ x.paused = y.paused /\ x.terms = y.terms /\ x.terms = mem[c].terms
          /\ x.used = y.used /\ x.monthly = y.monthly /\ x.daily = y.daily
      BY <2>1, <3>1, <3>2 DEF Client
    <3>5. Active(x, day') <=> Active(y, day')
      BY <3>4 DEF Active, Expired
    <3>6. x \in Client
      BY <1>1, <2>1, <3>3, MonthRolled
    <3>7. ~Expired(x, day')
      BY <2>2, <3>4 DEF Expired
    <3>8. Active(x, day) <=> Active(x, day')
      BY <1>1, <3>6, <3>7, SameEveryDay
    <3>9. QED
      BY <2>3, <2>4, <2>5, <3>3, <3>5, <3>8
  <2>8. QED
    BY <2>3, <2>4, <2>6, <2>7
<1>7. FileInv' /\ LoadInv'
  BY <1>1, <1>2, <1>6 DEF FileInv, LoadInv, InStanding
<1>8. QED
  BY <1>3, <1>5, <1>7 DEF QuotaInv

\* A core that starts reads a file that is right or will be replaced.
LEMMA CoreStep ==
    ASSUME QuotaInv, CoreRestart \/ OwedRestart \/ OwedRestartFails
    PROVE  QuotaInv'
<1>1. /\ UNCHANGED <<mem, file, day, booked, sync, now, unnoticed, edits>>
      /\ restarts' \in {restarts, restarts - 1} /\ restarts' \in Nat
      /\ \/ /\ loaded' = file /\ unbilled' = [c \in Clients |-> 0]
            /\ reloadFailed' = reloadFailed
         \/ UNCHANGED <<loaded, unbilled>> /\ reloadFailed' = TRUE
  BY DEF QuotaInv, TypeOK, CoreRestart, OwedRestart, OwedRestartFails, CoreReads
<1>2. TypeOK'
  <2>1. loaded' \subseteq Clients /\ unbilled' \in [Clients -> Nat]
    BY <1>1 DEF QuotaInv, TypeOK
  <2>2. reloadFailed' \in BOOLEAN
    BY <1>1 DEF QuotaInv, TypeOK
  <2>3. QED
    BY <1>1, <2>1, <2>2 DEF QuotaInv, TypeOK
<1>3. CalendarInv'
  BY <1>1 DEF QuotaInv, CalendarInv, Month
<1>4. \A c \in Clients : /\ (c \in Generated(mem, day))' <=> c \in Generated(mem, day)
                         /\ Active(mem[c], day)' <=> Active(mem[c], day)
                         /\ Expired(mem[c], day)' <=> Expired(mem[c], day)
  BY <1>1 DEF Generated, RollMonth, Active, Expired, Month
<1>5. FileInv' /\ LoadInv'
  BY <1>1, <1>4 DEF QuotaInv, FileInv, LoadInv, InStanding
<1>6. QED
  BY <1>2, <1>3, <1>5 DEF QuotaInv

\* A commit makes the file from the new state and owes the core a restart.
LEMMA CommitStep ==
    ASSUME QuotaInv, NEW m \in [Clients -> Client], Mutate(m),
           \A c \in Clients : m[c].date <= day /\ m[c].month <= Month(day),
           UNCHANGED <<day, booked, loaded, unbilled, sync, now, reloadFailed, unnoticed>>,
           edits' \in Nat
    PROVE  QuotaInv'
<1>1. mem' = m /\ file' = Generated(m, day) /\ restarts' = restarts + 1
  BY DEF Mutate
<1>2. TypeOK'
  BY <1>1 DEF QuotaInv, TypeOK, Generated
<1>3. CalendarInv'
  BY <1>1 DEF QuotaInv, CalendarInv, Month
<1>4. Generated(mem, day)' = file'
  BY <1>1 DEF Generated, RollMonth, Active, Expired, Month
<1>5. FileInv' /\ LoadInv'
  <2>1. restarts' > 0
    BY <1>1 DEF QuotaInv, TypeOK
  <2>2. QED
    BY <1>4, <2>1 DEF FileInv, LoadInv, InStanding
<1>6. QED
  BY <1>2, <1>3, <1>5 DEF QuotaInv

\* Requests change the terms, the pause and the usage of a client.
LEMMA EditStep ==
    ASSUME QuotaInv, NEW c \in Clients,
           \/ \E paused \in BOOLEAN : SetPaused(c, paused)
           \/ Reset(c)
           \/ \E terms \in Terms : SetTerms(c, terms)
    PROVE  QuotaInv'
<1>1. PICK m : /\ Edit(m)
               /\ \/ \E paused \in BOOLEAN : m = [mem EXCEPT ![c].paused = paused]
                  \/ m = [mem EXCEPT ![c].used = 0, ![c].monthly = 0]
                  \/ \E terms \in Terms : m = [mem EXCEPT ![c].terms = terms]
  BY DEF SetPaused, Reset, SetTerms
<1>2. mem \in [Clients -> Client]
  BY DEF QuotaInv, TypeOK
<1>3. /\ m \in [Clients -> Client]
      /\ \A k \in Clients : m[k].date = mem[k].date /\ m[k].month = mem[k].month
  BY <1>1, <1>2 DEF Client
<1>4. edits' \in Nat /\ UNCHANGED <<day, booked, loaded, unbilled, sync, now, reloadFailed, unnoticed>>
  BY <1>1 DEF Edit, QuotaInv, TypeOK
<1>5. \A k \in Clients : m[k].date <= day /\ m[k].month <= Month(day)
  BY <1>3 DEF QuotaInv, CalendarInv
<1>6. QED
  BY <1>1, <1>3, <1>4, <1>5, CommitStep DEF Edit

\* Entering a month, before every page.
LEMMA ResetStep ==
    ASSUME QuotaInv, ResetMonth
    PROVE  QuotaInv'
<1>1. PICK m : m = [c \in Clients |-> RollMonth(mem[c], day)]
  OBVIOUS
<1>2. /\ mem \in [Clients -> Client] /\ day \in Nat /\ edits \in Nat
      /\ \A c \in Clients : mem[c].date <= day
  BY DEF QuotaInv, TypeOK, CalendarInv
<1>3. Month(day) \in Nat
  BY <1>2, Months
<1>4. \A c \in Clients : /\ m[c] \in Client /\ m[c].month = Month(day)
                         /\ m[c].date = mem[c].date
  BY <1>1, <1>2, MonthRolled
<1>5. m \in [Clients -> Client]
  BY <1>1, <1>4
<1>6. /\ Mutate(m) /\ edits' = edits
      /\ UNCHANGED <<day, booked, loaded, unbilled, sync, now, reloadFailed, unnoticed>>
  BY <1>1 DEF ResetMonth
<1>7. QED
  BY <1>2, <1>3, <1>4, <1>5, <1>6, CommitStep

\* The update of a sync: a client whose standing it changes is noticed, or
\* overlooked.
LEMMA UpdateStep ==
    ASSUME QuotaInv, SyncUpdate
    PROVE  QuotaInv'
<1>1. PICK reload \in BOOLEAN :
        /\ reload <=> \E c \in Clients : Active(mem[c], now) # Active(Updated[c], now)
        /\ Update(reload)
  BY DEF SyncUpdate
<1>2. /\ mem' = Updated /\ unbilled' = [c \in Clients |-> 0] /\ sync # "reload"
      /\ UNCHANGED <<file, loaded, day, booked, restarts, reloadFailed, edits>>
      /\ reload => sync' = "reload" /\ now' = 0 /\ unnoticed' = unnoticed
      /\ ~reload => sync' = "idle" /\ now' = 0 /\ unnoticed' = unnoticed \cup Overlooked
  BY <1>1 DEF Update, SyncDone
<1>3. TypeOK /\ CalendarInv /\ FileInv /\ LoadInv
  BY DEF QuotaInv
<1>4. \A c \in Clients : /\ Updated[c] \in Client /\ Updated[c].month = Month(now)
                         /\ Updated[c].date = now /\ Updated[c].terms = mem[c].terms
  BY <1>3, UpdatedClient
<1>5. day \in Nat /\ now \in Nat /\ now <= day /\ Month(now) <= Month(day)
  BY <1>3, Months DEF TypeOK, CalendarInv
<1>6. TypeOK'
  <2>1. Updated \in [Clients -> Client]
    BY <1>4 DEF Updated
  <2>2. now' = 0 /\ sync' \in {"idle", "reload"} /\ unnoticed' \subseteq Clients
    BY <1>2, <1>3 DEF TypeOK, Overlooked
  <2>3. unbilled' \in [Clients -> Nat]
    BY <1>2
  <2>4. QED
    BY <1>2, <1>3, <2>1, <2>2, <2>3 DEF TypeOK
<1>7. CalendarInv'
  <2>1. Month(day)' = Month(day) /\ now' = 0
    BY <1>2 DEF Month
  <2>2. QED
    BY <1>2, <1>4, <1>5, <2>1 DEF CalendarInv
<1>8. ASSUME ~reload, NEW c \in Clients \ unnoticed', ~Expired(mem[c], day)'
      PROVE  /\ c \notin unnoticed /\ ~Expired(mem[c], day)
             /\ Active(mem[c], day)' <=> Active(mem[c], day)
             /\ (c \in Generated(mem, day))' <=> c \in Generated(mem, day)
  <2>1. c \notin unnoticed /\ c \notin Overlooked
    BY <1>2, <1>8
  <2>2. Active(mem[c], now) = Active(Updated[c], now)
    BY <1>1, <1>8
  <2>3. ~Expired(Updated[c], day) /\ ~Expired(mem[c], day)
    BY <1>2, <1>4, <1>8 DEF Expired
  <2>4. mem[c] \in Client
    BY <1>3 DEF TypeOK
  <2>5. Active(Updated[c], now) <=> Active(Updated[c], day)
    BY <1>4, <1>5, <2>3, SameEveryDay
  <2>6. Active(mem[c], now) <=> Active(mem[c], day)
    BY <1>5, <2>3, <2>4, SameEveryDay
  <2>7. Active(mem[c], day)' <=> Active(Updated[c], day)
    BY <1>2 DEF Active, Expired
  <2>8. (c \in Generated(mem, day)) = (c \in Generated(Updated, day))
    BY <2>1, <2>2 DEF Overlooked
  <2>9. (c \in Generated(mem, day))' <=> c \in Generated(Updated, day)
    BY <1>2 DEF Generated, RollMonth, Active, Expired, Month
  <2>10. Active(mem[c], day)' <=> Active(mem[c], day)
    BY <2>2, <2>5, <2>6, <2>7
  <2>11. (c \in Generated(mem, day))' <=> c \in Generated(mem, day)
    BY <2>8, <2>9
  <2>12. QED
    BY <2>1, <2>3, <2>10, <2>11
<1>9. FileInv' /\ LoadInv'
  <2>1. CASE reload
    BY <1>2, <2>1 DEF FileInv, LoadInv, InStanding
  <2>2. CASE ~reload
    BY <1>2, <1>3, <1>8, <2>2 DEF FileInv, LoadInv, InStanding
  <2>3. QED
    BY <2>1, <2>2
<1>10. QED
  BY <1>6, <1>7, <1>9 DEF QuotaInv

\* Bookkeeping, reloads and what else leaves the clients as they are.
LEMMA FileStep ==
    ASSUME QuotaInv,
           \/ \E c \in Clients : Carry(c)
           \/ RecordDailyUsage \/ SyncBegin \/ SyncEnds \/ Reload \/ ReloadFails
           \/ UNCHANGED vars
    PROVE  QuotaInv'
<1>1. TypeOK /\ CalendarInv /\ FileInv /\ LoadInv
  BY DEF QuotaInv
<1>2. UNCHANGED <<day, mem, loaded, unnoticed, edits>>
  BY DEF Carry, RecordDailyUsage, SyncBegin, SyncEnds, SyncDone, Reload, ReloadFails, vars
<1>3. TypeOK'
  <2>1. Generated(mem, day) \subseteq Clients
    BY DEF Generated
  <2>2. ASSUME NEW c \in Clients, Carry(c) PROVE TypeOK'
    BY <1>1, <2>2 DEF TypeOK, Carry
  <2>3. CASE RecordDailyUsage
    BY <1>1, <2>1, <2>3 DEF TypeOK, RecordDailyUsage
  <2>4. CASE SyncBegin \/ SyncEnds
    BY <1>1, <2>4 DEF TypeOK, SyncBegin, SyncEnds, SyncDone
  <2>5. CASE Reload \/ ReloadFails
    <3>1. reloadFailed' \in BOOLEAN
      BY <1>1, <2>5 DEF TypeOK, Reload, ReloadFails
    <3>2. file' \subseteq Clients /\ restarts' \in Nat
      BY <1>1, <2>1, <2>5 DEF TypeOK, Reload, ReloadFails
    <3>3. QED
      BY <1>1, <1>2, <2>5, <3>1, <3>2 DEF TypeOK, SyncDone, Reload, ReloadFails
  <2>6. CASE UNCHANGED vars
    BY <1>1, <2>6 DEF TypeOK, vars
  <2>7. QED
    BY <2>2, <2>3, <2>4, <2>5, <2>6
<1>4. now' \in {now, day, 0}
  BY DEF Carry, RecordDailyUsage, SyncBegin, SyncEnds, SyncDone, Reload, ReloadFails, vars
<1>5. CalendarInv'
  BY <1>1, <1>2, <1>4 DEF CalendarInv, TypeOK, Month
<1>6. /\ Generated(mem, day)' = Generated(mem, day)
      /\ \A c \in Clients : /\ Active(mem[c], day)' <=> Active(mem[c], day)
                            /\ Expired(mem[c], day)' <=> Expired(mem[c], day)
  BY <1>2 DEF Generated, RollMonth, Active, Expired, Month
<1>7. \/ UNCHANGED <<file, restarts, reloadFailed>> /\ (sync = "reload" => sync' = "reload")
      \/ file' = Generated(mem, day) /\ UNCHANGED <<sync, restarts, reloadFailed>>
      \/ file' = Generated(mem, day) /\ restarts' = restarts + 1 /\ reloadFailed' = reloadFailed
      \/ reloadFailed'
  BY DEF Carry, RecordDailyUsage, SyncBegin, SyncEnds, SyncDone, Reload, ReloadFails, vars
<1>8. restarts \in Nat
  BY <1>1 DEF TypeOK
<1>9. FileInv' /\ LoadInv'
  <2>1. FileInv'
    BY <1>1, <1>2, <1>6, <1>7 DEF FileInv, InStanding
  <2>2. LoadInv'
    BY <1>1, <1>2, <1>6, <1>7, <1>8 DEF LoadInv, InStanding
  <2>3. QED
    BY <2>1, <2>2
<1>10. QED
  BY <1>3, <1>5, <1>9 DEF QuotaInv
-----------------------------------------------------------------------------
(* The specification. *)

\* Nobody has used anything, so everybody is active.
LEMMA QuotaInit == Init => QuotaInv
<1> SUFFICES ASSUME Init PROVE QuotaInv
  OBVIOUS
<1>1. \A c \in Clients : FirstTerms[c] \in Terms
  BY FirstTermsAssumption
<1>2. mem \in [Clients -> Client]
  BY <1>1 DEF Init, Client
<1>3. \A c \in Clients : mem[c].date = 0 /\ mem[c].month = 0
  BY DEF Init
<1>4. 0 <= Month(day) /\ day = 0
  BY Months DEF Init
<1>5. TypeOK /\ CalendarInv
  <2>1. unbilled \in [Clients -> Nat]
    BY DEF Init
  <2>2. TypeOK
    BY <1>2, <2>1 DEF Init, TypeOK
  <2>3. CalendarInv
    BY <1>3, <1>4 DEF Init, CalendarInv
  <2>4. QED
    BY <2>2, <2>3
<1>6. \A c \in Clients : Active(mem[c], day)
  BY <1>1, TermsAssumption DEF Init, Active, Expired, Reached
<1>7. QED
  BY <1>5, <1>6 DEF Init, QuotaInv, FileInv, LoadInv, InStanding

\* The inductive invariant, for every instance.
THEOREM QuotaCorrect == Spec => []QuotaInv
<1>1. QuotaInv /\ [Next]_vars => QuotaInv'
  BY DayStep, CoreStep, EditStep, ResetStep, UpdateStep, FileStep DEF Next, ClientStep
<1>2. QED
  BY <1>1, QuotaInit, PTL DEF Spec

\* Every variable stays in its range.
THEOREM QuotaTypeCorrect == Spec => []TypeOK
<1>1. QuotaInv => TypeOK
  BY DEF QuotaInv
<1>2. QED
  BY <1>1, QuotaCorrect, PTL

\* A client is served wrongly only while something is on its way: a reload, a
\* restart or a rollover; but for the expired and the overlooked.
THEOREM DisagreementAlwaysOwed == Spec => []DisagreementIsOwed
<1>1. QuotaInv => DisagreementIsOwed
  <2> SUFFICES ASSUME QuotaInv, ~reloadFailed, NEW c \in Clients \ unnoticed,
                      (c \in loaded) # (c \in Generated(mem, day)),
                      sync # "reload", ~(restarts > 0), mem[c].month = Month(day),
                      ~Expired(mem[c], day)
               PROVE  FALSE
    BY DEF DisagreementIsOwed, RollDue
  <2>1. c \in loaded <=> Active(mem[c], day)
    BY DEF QuotaInv, LoadInv, InStanding
  <2>2. c \in Generated(mem, day) <=> Active(mem[c], day)
    BY DEF Generated, RollMonth
  <2>3. QED
    BY <2>1, <2>2
<1>2. QED
  BY <1>1, QuotaCorrect, PTL
=============================================================================
