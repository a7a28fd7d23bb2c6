----------------------------- MODULE DailyTraffic -------------------------------
(***************************************************************************)
(* The traffic of each day, reported twice: per client (syncTraffic turns     *)
(* the client's day into a row of DailyHistory) and for all clients together  *)
(* (recordDailyUsage compares their total with the total at the day's         *)
(* beginning, the anchor).  A sync is dated when it begins and the total is   *)
(* read before the commit that uses it; clients come, go and are reset, and   *)
(* a crash takes the panel back to what it saved last.                       *)
(*                                                                         *)
(* Days are numbered from 1.  How much a sync bills is TrafficAccounting's.  *)
(***************************************************************************)
EXTENDS Integers, Sequences, SequencesExt

CONSTANTS
    Clients,
    MaxUsageRows,   \* rows of DailyUsage kept, 14
    MaxDailyRows,   \* rows of a client's DailyHistory kept, 31
    LastDay,        \* bound: days
    MaxBilled,      \* bound: bytes billed
    MaxChanges      \* bound: clients created, deleted and reset

VARIABLES
    day,
    mem,            \* the store
    saved,          \* state.json
    syncDay,        \* syncTraffic in flight: its day, 0 is none
    totalRead,      \* recordDailyUsage in flight: totalUsed, -1 is none,
    readDay,        \*   and its day
    changes,        \* history: changes so far
    crossed         \* history: clients created while a sync of the day before ran

dayVars == <<day, mem, saved, syncDay, totalRead, readDay, changes, crossed>>
recording == <<totalRead, readDay>>

Row(d, bytes) == [date |-> d, bytes |-> bytes]

\* Rows of a day are appended and only the newest kept.
Appended(rows, row, most) ==
    LET all == Append(rows, row)
    IN SubSeq(all, IF Len(all) > most THEN Len(all) - most + 1 ELSE 1, Len(all))

Bytes(rows) == SumFunction([i \in DOMAIN rows |-> rows[i].bytes])

\* A client as it is created: no usage, and the day it is.  `all` counts the
\* bytes ever billed to it and `gone` those of rows no longer kept (history).
NewClient(d) == [used |-> 0, date |-> d, bytes |-> 0, rows |-> <<>>, all |-> 0, gone |-> 0]

\* The store: its clients, DailyDate, DailyAnchor and DailyUsage.  `billed`
\* counts bytes billed since the first anchor, `gone` those of rows no longer
\* kept, and `touched` says that a client's usage was reset or deleted since.
NewStore == [clients |-> <<>>, date |-> 0, anchor |-> 0, rows |-> <<>>,
             billed |-> 0, gone |-> 0, touched |-> FALSE]

Present == DOMAIN mem.clients

\* totalClientUsage
Total(st) == SumFunction([c \in DOMAIN st.clients |-> st.clients[c].used])

AtLeastZero(n) == IF n < 0 THEN 0 ELSE n

\* What lastSevenDays shows for the current day.
Today(st) == AtLeastZero(Total(st) - st.anchor)

Commit(st) == mem' = st /\ saved' = st

Init ==
    /\ day = 1
    /\ mem = NewStore /\ saved = NewStore
    /\ syncDay = 0 /\ totalRead = -1 /\ readDay = 0
    /\ changes = 0 /\ crossed = {}

DayPasses ==
    /\ day < LastDay /\ day' = day + 1
    /\ UNCHANGED <<mem, saved, syncDay, recording, changes, crossed>>
-----------------------------------------------------------------------------
(* Clients *)

Change == changes < MaxChanges /\ changes' = changes + 1

\* clients, POST
Create(c) ==
    /\ Change /\ c \notin Present
    /\ Commit([mem EXCEPT !.clients = [x \in Present \cup {c} |->
                  IF x = c THEN NewClient(day) ELSE mem.clients[x]]])
    /\ crossed' = IF syncDay \notin {0, day} THEN crossed \cup {c} ELSE crossed
    /\ UNCHANGED <<day, syncDay, recording>>

Delete(c) ==
    /\ Change /\ c \in Present
    /\ Commit([mem EXCEPT !.clients = [x \in Present \ {c} |-> mem.clients[x]],
                          !.touched = @ \/ mem.clients[c].used > 0])
    /\ crossed' = crossed \ {c}
    /\ UNCHANGED <<day, syncDay, recording>>

\* clientAction "reset": the day's bytes stay.
Reset(c) ==
    /\ Change /\ c \in Present /\ mem.clients[c].used > 0
    /\ Commit([mem EXCEPT !.clients[c].used = 0, !.touched = TRUE])
    /\ UNCHANGED <<day, syncDay, recording, crossed>>
-----------------------------------------------------------------------------
(* syncTraffic *)

SyncBegins ==
    /\ syncDay = 0 /\ mem.clients # <<>>
    /\ syncDay' = day
    /\ UNCHANGED <<day, mem, saved, recording, changes, crossed>>

\* The core does not answer, or nothing needs saving.
SyncEnds ==
    /\ syncDay # 0 /\ syncDay' = 0
    /\ UNCHANGED <<day, mem, saved, recording, changes, crossed>>

\* Mutant: the client keeps its old day.
RolledWithoutDate(c) ==
    IF c.date = syncDay THEN c
    ELSE [c EXCEPT !.bytes = 0, !.rows = Appended(c.rows, Row(c.date, c.bytes), MaxDailyRows)]

\* Another day than the client's: its bytes become a row.
Rolled(c) ==
    IF c.date = syncDay THEN c
    ELSE [c EXCEPT !.date = syncDay, !.bytes = 0,
                   !.rows = Appended(c.rows, Row(c.date, c.bytes), MaxDailyRows),
                   !.gone = @ + Bytes(c.rows) + c.bytes
                              - Bytes(Appended(c.rows, Row(c.date, c.bytes), MaxDailyRows))]

Charged(c, n) == [c EXCEPT !.used = @ + n, !.bytes = @ + n, !.all = @ + n]

\* The update.  A new day is saved at once, growth alone once a minute.
SyncUpdates(c, n) ==
    /\ syncDay # 0 /\ syncDay' = 0
    /\ mem.billed + n <= MaxBilled /\ Total(mem) + n <= MaxBilled
    /\ c \in Present
    /\ mem' = [mem EXCEPT
                 !.clients = [x \in Present |->
                     Charged(Rolled(mem.clients[x]), IF x = c THEN n ELSE 0)],
                 !.billed = IF mem.date = 0 THEN 0 ELSE @ + n]
    /\ saved' = mem' \/ (saved' = saved /\ \A x \in Present \ crossed : mem.clients[x].date = syncDay)
    /\ UNCHANGED <<day, recording, changes, crossed>>

Returned == totalRead' = -1 /\ readDay' = 0

\* A save that failed, or a minute that passed.
Save ==
    /\ saved # mem /\ saved' = mem
    /\ UNCHANGED <<day, mem, syncDay, recording, changes, crossed>>

Crash ==
    /\ mem' = saved /\ syncDay' = 0 /\ Returned
    /\ crossed' = crossed \cap DOMAIN saved.clients
    /\ UNCHANGED <<day, saved, changes>>
-----------------------------------------------------------------------------
(* recordDailyUsage, after each sync of the scheduler *)

\* Nothing happens while the bucket is the day's.
ReadTotal ==
    /\ totalRead = -1 /\ mem.date # day
    /\ totalRead' = Total(mem) /\ readDay' = day
    /\ UNCHANGED <<day, mem, saved, syncDay, changes, crossed>>

\* An update or settings in the making refuse it: tried again at the next tick.
RecordRefused ==
    /\ totalRead # -1 /\ Returned
    /\ UNCHANGED <<day, mem, saved, syncDay, changes, crossed>>

\* Mutant: the new anchor is read when the commit is made.
RecordAnchorsAnew ==
    /\ totalRead # -1 /\ Returned
    /\ IF mem.date = 0
       THEN Commit([mem EXCEPT !.date = readDay, !.anchor = totalRead,
                       !.billed = AtLeastZero(Total(mem) - totalRead)])
       ELSE LET row == Row(mem.date, AtLeastZero(totalRead - mem.anchor))
                rows == Appended(mem.rows, row, MaxUsageRows)
            IN Commit([mem EXCEPT !.date = readDay, !.anchor = Total(mem), !.rows = rows,
                          !.gone = @ + Bytes(mem.rows) + row.bytes - Bytes(rows)])
    /\ UNCHANGED <<day, syncDay, changes, crossed>>

\* The first time only the anchor; then a row for the day that ended.
Record ==
    /\ totalRead # -1 /\ Returned
    /\ IF mem.date = 0
       THEN Commit([mem EXCEPT !.date = readDay, !.anchor = totalRead,
                       !.billed = AtLeastZero(Total(mem) - totalRead)])
       ELSE LET row == Row(mem.date, AtLeastZero(totalRead - mem.anchor))
                rows == Appended(mem.rows, row, MaxUsageRows)
            IN Commit([mem EXCEPT !.date = readDay, !.anchor = totalRead, !.rows = rows,
                          !.gone = @ + Bytes(mem.rows) + row.bytes - Bytes(rows)])
    /\ UNCHANGED <<day, syncDay, changes, crossed>>

Next ==
    \/ DayPasses \/ SyncBegins \/ SyncEnds \/ Save \/ Crash
    \/ \E c \in Clients : \/ Create(c) \/ Delete(c) \/ Reset(c)
                          \/ \E n \in 0..1 : SyncUpdates(c, n)
    \/ ReadTotal \/ RecordRefused \/ Record

Spec == Init /\ [][Next]_dayVars
-----------------------------------------------------------------------------
(* Correctness. *)

ClientType == [used : Nat, date : 1..LastDay, bytes : Nat, all : Nat, gone : Nat,
               rows : Seq([date : 1..LastDay, bytes : Nat])]

\* Every variable stays in its range, and no more rows are kept than wanted.
TypeOK ==
    /\ day \in 1..LastDay /\ syncDay \in 0..day /\ totalRead \in Nat \cup {-1} /\ readDay \in 0..day
    /\ \A st \in {mem, saved} :
        /\ DOMAIN st.clients \subseteq Clients
        /\ \A c \in DOMAIN st.clients :
            st.clients[c] \in ClientType /\ Len(st.clients[c].rows) <= MaxDailyRows
        /\ st.date \in 0..day /\ {st.anchor, st.billed, st.gone} \subseteq Nat
        /\ st.rows \in Seq([date : 1..LastDay, bytes : Nat]) /\ Len(st.rows) <= MaxUsageRows
        /\ st.touched \in BOOLEAN
    /\ changes \in 0..MaxChanges /\ crossed \subseteq Clients

\* The days of all clients together never add up to more than was billed since
\* the first anchor, and to exactly that if no usage was reset or deleted since:
\* bytes billed, and refusals and crashes, between the reading of the total and
\* the commit move bytes to the next day, and lose and double none.  A client's
\* own days add up to all that was billed to it, whatever is reset.
DaysAddUp ==
    /\ LET shown == Bytes(mem.rows) + mem.gone + Today(mem)
       IN mem.date # 0 => /\ shown <= mem.billed
                          /\ ~mem.touched => shown = mem.billed
    /\ \A c \in Present : LET u == mem.clients[c]
                           IN Bytes(u.rows) + u.gone + u.bytes = u.all

\* Days ascend in a list of rows that ends before the day d.
Ascending(rows, d) ==
    /\ \A i \in 2..Len(rows) : rows[i - 1].date < rows[i].date
    /\ rows # <<>> => rows[Len(rows)].date < d

\* Each day has one row, for both reports look a day up by its date: the first
\* (dailyTrafficByUser) or the last (lastSevenDays) of two rows would be all
\* that is seen.  The exception is a client created while a sync begun the day
\* before is waiting for the core: that sync takes its day back.
OneRowPerDay ==
    /\ Ascending(mem.rows, mem.date)
    /\ \A c \in Present \ crossed : Ascending(mem.clients[c].rows, mem.clients[c].date)

=============================================================================
