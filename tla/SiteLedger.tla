------------------------------ MODULE SiteLedger -----------------------------
(***************************************************************************)
(* The site ledger: the core appends a record per closed connection to one *)
(* file, the panel (aggregateSiteRecords) adds the new records to a ledger *)
(* per day, remembers how far it read and truncates the file when it has   *)
(* read all of a large one.  Core and panel share nothing but the file, and *)
(* the panel may stop between any two of its writes.                       *)
(*                                                                         *)
(* A line is two units, so that half a line can be met; a record's bytes,   *)
(* host and service are left out: a ledger counts how often it holds it.   *)
(***************************************************************************)
EXTENDS Integers, Sequences, FiniteSets

CONSTANTS
    Records,        \* connections, each closed once
    Day,            \* the day (Shanghai time) a connection was closed on
    Retention,      \* siteLedgerRetentionDays
    MaxSize,        \* siteRecordsMaxBytes, in units
    MaxDay,         \* bound: days that pass
    MaxInterrupts   \* bound: passes that end between ledgers and offset

ASSUME DayAssumption == Day \in [Records -> 0..MaxDay]
ASSUME SizeAssumption == MaxSize \in Nat /\ Retention \in Nat \ {0}
ASSUME BoundAssumption == MaxDay \in Nat /\ MaxInterrupts \in Nat

Days == 0..MaxDay
Damaged == -1       \* the offset file does not parse

VARIABLES
    today,
    log,            \* the record file
    written,        \* records whose line the core finished
    offset,         \* the offset file
    ledger,         \* the day files: how often each holds a record
    corrupt,        \* days whose file does not parse
    detail,         \* Settings.SiteDetailEnabled
    asked,          \* its value in the Snapshots of callers awaiting the mutex
    pc,             \* the pass: "idle", "days", "offset", "truncate", "zero"
    size, end,      \*   its size and newOffset
    batch,          \*   the records of the lines it read
    todo,           \*   days of byDay not written yet
    excused,        \* history: drained while details are off
    cut,            \* history: in the file when it was truncated, unread
    spoiled,        \* history: written behind an unfinished line
    dropped,        \* history: in a day's file when it was damaged
    interrupts,     \* history: passes ended between a ledger and the offset
    staleOffset     \* history: a pass ended between truncation and "0"

fileVars == <<log, written>>
dayFiles == <<ledger, corrupt>>
passVars == <<pc, size, end, batch, todo>>
panelVars == <<detail, asked>>
history == <<excused, cut, spoiled, dropped, interrupts, staleOffset>>
vars == <<today, log, written, offset, ledger, corrupt, detail, asked, pc, size, end, batch,
          todo, excused, cut, spoiled, dropped, interrupts, staleOffset>>

Unit(r, part) == [of |-> r, part |-> part]

\* Whole lines of a record among the units from i to j, both included: what
\* json.Unmarshal accepts.  A line begins where the pass does or after another.
Lines(i, j) == {r \in Records : \E k \in i..(j - 1) :
    /\ log[k] = Unit(r, "head") /\ log[k + 1] = Unit(r, "tail")
    /\ k > i => log[k - 1].part = "tail"}

\* Mutant: a damaged offset counts for zero.
StartFromZero == IF offset = Damaged \/ offset > Len(log) THEN 0 ELSE offset

\* Where a pass begins: at the end if the offset is damaged, at the beginning
\* if the file is shorter, for it was truncated.
Start == IF offset = Damaged THEN Len(log)
         ELSE IF offset > Len(log) THEN 0
         ELSE offset

Empty == [r \in Records |-> 0]

\* loadDaySiteLedger: a file that does not parse counts for an empty one.
Loaded(d) == IF d \in corrupt THEN Empty ELSE ledger[d]

Idle == pc' = "idle" /\ size' = 0 /\ end' = 0 /\ batch' = {} /\ todo' = {}

Init ==
    /\ today = 0
    /\ log = <<>> /\ written = {}
    /\ offset = 0
    /\ ledger = [d \in Days |-> Empty] /\ corrupt = {}
    /\ detail \in BOOLEAN /\ asked = {}
    /\ pc = "idle" /\ size = 0 /\ end = 0 /\ batch = {} /\ todo = {}
    /\ excused = {} /\ cut = {} /\ spoiled = {} /\ dropped = {}
    /\ interrupts = 0 /\ staleOffset = FALSE
-----------------------------------------------------------------------------
(* The world and the core's site_log writer (external). *)

DayPasses ==
    /\ today < MaxDay /\ today' = today + 1
    /\ UNCHANGED <<fileVars, offset, dayFiles, panelVars, passVars, history>>

Begun == {log[k].of : k \in DOMAIN log} \cup written \cup cut

\* write() with O_APPEND; another process may see the first part alone, and
\* the core may die with it written.
WriteHead(r) ==
    /\ r \notin Begun /\ Day[r] = today
    /\ log' = Append(log, Unit(r, "head"))
    /\ spoiled' = IF log # <<>> /\ log[Len(log)].part = "head"
                  THEN spoiled \cup {r} ELSE spoiled
    /\ UNCHANGED <<today, written, offset, dayFiles, panelVars, passVars, excused, cut,
                   dropped, interrupts, staleOffset>>

\* The writer is one goroutine: it finishes the line it began last, wherever
\* the file ends by then.
WriteTail(r) ==
    /\ r \notin written
    /\ \/ log # <<>> /\ log[Len(log)] = Unit(r, "head")
       \/ log = <<>> /\ r \in cut
    /\ log' = Append(log, Unit(r, "tail"))
    /\ written' = written \cup {r}
    /\ UNCHANGED <<today, offset, dayFiles, panelVars, passVars, history>>

\* Settings.SiteDetailEnabled is saved by the settings handler.
SetDetail(on) ==
    /\ detail' = on
    /\ UNCHANGED <<today, fileVars, offset, dayFiles, asked, passVars, history>>

\* A power failure leaves an offset file whose content never reached the disk
\* (writeFileAtomic does not sync).
LoseOffset ==
    /\ pc = "idle" /\ offset > 0 /\ offset' = Damaged
    /\ UNCHANGED <<today, fileVars, dayFiles, panelVars, passVars, history>>

\* And so may a day's file be left: what it held is lost.
LoseDay(d) ==
    /\ pc = "idle" /\ d \notin corrupt
    /\ \E r \in Records : ledger[d][r] > 0
    /\ corrupt' = corrupt \cup {d}
    /\ dropped' = dropped \cup {r \in Records : Day[r] = d /\ ledger[d][r] > 0}
    /\ UNCHANGED <<today, fileVars, offset, ledger, panelVars, passVars, excused, cut, spoiled,
                   interrupts, staleOffset>>
-----------------------------------------------------------------------------
(* aggregateSiteRecords *)

\* The dashboard and the drill-down take their Snapshot before the mutex.
Call ==
    /\ asked' = asked \cup {detail}
    /\ UNCHANGED <<today, fileVars, offset, dayFiles, detail, passVars, history>>

\* Day files before the cutoff go, at most once an hour.
Expired(d) == d < today - (Retention - 1)
Clean ==
    /\ ledger' = [d \in Days |-> IF Expired(d) THEN Empty ELSE ledger[d]]
    /\ corrupt' = {d \in corrupt : ~Expired(d)}

\* Mutant: the unfinished line is taken for read.
EndOfFile == Len(log)

\* The position after the last newline of the file, from Start on.
LastLine == CHOOSE k \in Start..Len(log) :
    /\ k = Start \/ log[k].part = "tail"
    /\ \A j \in (k + 1)..Len(log) : log[j].part # "tail"

\* Size, offset, the lines read and the day each belongs to; the file only
\* grows while the pass runs.  Nothing new, or no complete line: no pass.
Begin ==
    /\ pc = "idle"
    /\ \E on \in asked :
        /\ asked' = asked \ {on}
        /\ Clean \/ UNCHANGED dayFiles
        /\ IF Start = Len(log) \/ LastLine = Start
           THEN UNCHANGED <<passVars, excused>>
           ELSE LET read == Lines(Start + 1, LastLine) IN
                /\ size' = Len(log) /\ end' = LastLine
                /\ batch' = IF on THEN read ELSE {}
                /\ todo' = {Day[r] : r \in batch'}
                /\ pc' = IF todo' = {} THEN "offset" ELSE "days"
                /\ excused' = IF on THEN excused ELSE excused \cup read
    /\ UNCHANGED <<today, fileVars, offset, detail, cut, spoiled, dropped, interrupts, staleOffset>>

\* One day's file is loaded, added to and renamed into place; the days come in
\* the order of a map.
WriteDay(d) ==
    /\ pc = "days" /\ d \in todo
    /\ ledger' = [ledger EXCEPT ![d] = [r \in Records |->
                    Loaded(d)[r] + (IF r \in batch /\ Day[r] = d THEN 1 ELSE 0)]]
    /\ corrupt' = corrupt \ {d}
    /\ todo' = todo \ {d}
    /\ pc' = IF todo' = {} THEN "offset" ELSE "days"
    /\ UNCHANGED <<today, fileVars, offset, panelVars, size, end, batch, history>>

\* Mutant: the file is truncated although its last line is unfinished.
WriteOffsetThenCutAny ==
    /\ pc = "offset"
    /\ offset' = end
    /\ IF size > MaxSize THEN pc' = "truncate" /\ UNCHANGED <<size, end, batch, todo>>
                         ELSE Idle
    /\ UNCHANGED <<today, fileVars, dayFiles, panelVars, history>>

\* advanceSiteOffset
WriteOffset ==
    /\ pc = "offset"
    /\ offset' = end
    /\ IF size > MaxSize /\ end = size
       THEN pc' = "truncate" /\ UNCHANGED <<size, end, batch, todo>>
       ELSE Idle
    /\ UNCHANGED <<today, fileVars, dayFiles, panelVars, history>>

\* Whatever was appended since the size was taken goes too.
Truncate ==
    /\ pc = "truncate" /\ pc' = "zero"
    /\ log' = <<>>
    /\ cut' = cut \cup {log[k].of : k \in (size + 1)..Len(log)}
    /\ UNCHANGED <<today, written, offset, dayFiles, panelVars, size, end, batch, todo, excused,
                   spoiled, dropped, interrupts, staleOffset>>

WriteZero ==
    /\ pc = "zero" /\ offset' = 0 /\ Idle
    /\ UNCHANGED <<today, fileVars, dayFiles, panelVars, history>>

\* A write fails, or the panel stops: the pass ends where it is.
Interrupt ==
    /\ pc # "idle" /\ interrupts < MaxInterrupts /\ Idle
    /\ interrupts' = IF pc \in {"days", "offset"} /\ todo # {Day[r] : r \in batch}
                     THEN interrupts + 1 ELSE interrupts
    /\ staleOffset' = (staleOffset \/ pc = "zero")
    /\ UNCHANGED <<today, fileVars, offset, dayFiles, panelVars, excused, cut, spoiled, dropped>>
-----------------------------------------------------------------------------
Core == \E r \in Records : WriteHead(r) \/ WriteTail(r)

Pass == \/ \E d \in Days : WriteDay(d)
        \/ WriteOffset \/ Truncate \/ WriteZero

Next ==
    \/ DayPasses \/ LoseOffset \/ \E d \in Days : LoseDay(d)
    \/ Core
    \/ \E on \in BOOLEAN : SetDetail(on)
    \/ Call \/ Begin \/ Pass \/ Interrupt

Spec == Init /\ [][Next]_vars

\* Someone has the dashboard open: it calls every two seconds.
FairSpec == Spec /\ WF_vars(Call) /\ WF_vars(Begin) /\ WF_vars(Pass)
-----------------------------------------------------------------------------
(* Correctness. *)

\* Every variable stays in its range, and a file is truncated only by a pass
\* that read all it found in it.
TypeOK ==
    /\ today \in Days
    /\ log \in Seq([of : Records, part : {"head", "tail"}]) /\ written \subseteq Records
    /\ offset \in Nat \cup {Damaged}
    /\ ledger \in [Days -> [Records -> Nat]] /\ corrupt \subseteq Days
    /\ detail \in BOOLEAN /\ asked \subseteq BOOLEAN
    /\ pc \in {"idle", "days", "offset", "truncate", "zero"}
    /\ size \in Nat /\ end \in 0..size /\ batch \subseteq Records /\ todo \subseteq Days
    /\ excused \cup cut \cup spoiled \cup dropped \subseteq Records
    /\ interrupts \in Nat /\ staleOffset \in BOOLEAN
    /\ pc \in {"truncate", "zero"} => offset = size /\ end = size

Counted(r) == Loaded(Day[r])[r]

\* A record is in its ledger at most once more than passes were interrupted
\* between a ledger and the offset, whatever the file, the offset and the
\* switch go through: without interruptions never twice.
CountedOnce == \A r \in Records : Counted(r) <= 1 + interrupts

\* A record still to be read: the next pass begins at or before its line.
Unread(r) == LET from == IF pc = "zero" THEN 0 ELSE Start IN
    \E k \in (from + 1)..Len(log) : log[k] = Unit(r, "head")

\* No finished line is lost: it is in its ledger, still ahead of the offset, or
\* out of retention; unless details were off, it was cut by a truncation that
\* did not see it, it stood behind half a line, or a power failure took the
\* offset or the ledger it was in.
NoneLost ==
    offset # Damaged /\ ~staleOffset =>
        \A r \in written \ (excused \cup cut \cup spoiled \cup dropped) :
            Counted(r) > 0 \/ Unread(r) \/ Expired(Day[r])

\* What readSiteOffset's comment says of a damaged offset: the panel skips to
\* the end of the file and loses only the records of the gap.  So the passes
\* that follow leave a good offset behind.
OffsetRecovers == offset = Damaged ~> offset # Damaged
=============================================================================
