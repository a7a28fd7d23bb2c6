---------------------------- MODULE RuleSetWatch -------------------------------
(***************************************************************************)
(* The rule sets of a transit host: kota-autoupdate fetches them once a day  *)
(* and marks that something changed; the panel's scheduler looks for a new   *)
(* mark once a minute and restarts the core, which reads the files its       *)
(* configuration names when it starts.  A configuration names the files that *)
(* were there when it was generated.                                        *)
(***************************************************************************)
EXTENDS Integers

CONSTANTS
    RuleSets,       \* the sets of the categories the host relays
    MaxVersion,     \* bound: versions of a set's content
    MaxMark,        \* bound: marks written
    MaxSwitches     \* bound: times the relay is switched on or off

VARIABLES
    file,           \* version of each set's file, 0 is none
    mark,           \* rule-sets/.updated, 0 is none
    fetching,       \* sets kota-autoupdate has still to fetch today
    changed,        \*   whether it replaced a file
    categories,     \* the relay is on, as transit, by categories
    config,         \* sets config.json names
    loaded,         \* version of each set in the running core, 0 is none
    applied,        \* relayApplied of the scheduler, 0 is ""
    step,           \* relayRuleSetWatchStep: "idle" or "restart"
    next,           \*   the mark it read
    mayLag,        \* history: sets the core may hold an old version of, see below
    switches        \* history: switches so far

ruleVars == <<file, mark, fetching, changed, categories, config, loaded, applied, step, next,
              mayLag, switches>>

coreVars == <<config, loaded>>
updater == <<fetching, changed>>
watch == <<applied, step, next>>

\* relayRuleSets: only files that exist are named.
Named(on) == IF on THEN {s \in RuleSets : file[s] # 0} ELSE {}

Read(named) == [s \in RuleSets |-> IF s \in named THEN file[s] ELSE 0]

\* Sets the core holds in another version than the file's.
Behind == {s \in RuleSets : loaded[s] # 0 /\ loaded[s] # file[s]}

Init ==
    /\ file = [s \in RuleSets |-> 0] /\ mark = 0
    /\ fetching = {} /\ changed = FALSE
    /\ categories \in BOOLEAN
    /\ config = {} /\ loaded = [s \in RuleSets |-> 0]
    /\ applied = 0 /\ step = "idle" /\ next = 0
    /\ mayLag = {} /\ switches = 0
-----------------------------------------------------------------------------
(* kota-autoupdate: update_relay_rule_sets *)

BeginFetch ==
    /\ fetching = {} /\ ~changed
    /\ fetching' = RuleSets
    /\ UNCHANGED <<file, mark, changed, categories, coreVars, watch, mayLag, switches>>

\* A download that differs is moved into place; one that fails or is the same
\* leaves the file.
Fetch(s, new) ==
    /\ s \in fetching /\ fetching' = fetching \ {s}
    /\ new # file[s] => new = file[s] + 1 /\ new <= MaxVersion
    /\ file' = [file EXCEPT ![s] = new]
    /\ changed' = (changed \/ new # file[s])
    /\ UNCHANGED <<mark, categories, coreVars, watch, mayLag, switches>>

\* date +%s > .updated
MarkChange ==
    /\ mark < MaxMark
    /\ fetching = {} /\ changed
    /\ mark' = mark + 1 /\ changed' = FALSE
    /\ UNCHANGED <<file, fetching, categories, coreVars, watch, mayLag, switches>>

\* The updater is stopped (its unit's timeout, a shutdown) between a file and
\* the mark.  Tomorrow's comparison finds these files unchanged.
FetchStops ==
    /\ fetching # {} \/ changed
    /\ fetching' = {} /\ changed' = FALSE
    /\ mayLag' = mayLag \cup Behind
    /\ UNCHANGED <<file, mark, categories, coreVars, watch, switches>>
-----------------------------------------------------------------------------
(* The configuration and the core. *)

CoreReads(named) ==
    /\ loaded' = Read(named)
    /\ mayLag' = {}

\* Any commit generates the configuration and restarts the core, or tries to; a
\* commit of the settings may switch the relay.
Commit(on) ==
    /\ on # categories => switches < MaxSwitches
    /\ switches' = IF on # categories THEN switches + 1 ELSE switches
    /\ categories' = on /\ config' = Named(on)
    /\ CoreReads(Named(on)) \/ UNCHANGED <<loaded, mayLag>>
    /\ UNCHANGED <<file, mark, updater, watch>>

\* The daily bookkeeping generates it and leaves the core alone.
Regenerate ==
    /\ config' = Named(categories)
    /\ UNCHANGED <<file, mark, updater, categories, loaded, watch, mayLag, switches>>

\* The core dies, or somebody restarts it.
CoreRestart ==
    /\ CoreReads(config)
    /\ UNCHANGED <<file, mark, updater, categories, config, watch, switches>>

\* The panel dies and starts again: New generates the configuration, and the
\* scheduler forgets which mark it saw.
PanelRestart ==
    /\ config' = Named(categories)
    /\ applied' = 0 /\ step' = "idle" /\ next' = 0
    /\ mayLag' = IF step = "restart" THEN mayLag \cup Behind ELSE mayLag
    /\ UNCHANGED <<file, mark, updater, categories, loaded, switches>>
-----------------------------------------------------------------------------
(* relayRuleSetWatchStep, every fourth tick of backgroundSchedulerLoop *)

\* nextRelayRuleSetMarker: the first mark is a baseline.
Baseline ==
    /\ step = "idle" /\ categories
    /\ mark # 0 /\ applied = 0
    /\ applied' = mark
    /\ mayLag' = mayLag \cup Behind
    /\ UNCHANGED <<file, mark, updater, categories, coreVars, step, next, switches>>

NewMark ==
    /\ step = "idle" /\ categories
    /\ mark # 0 /\ applied # 0 /\ mark # applied
    /\ step' = "restart" /\ next' = mark
    /\ UNCHANGED <<file, mark, updater, categories, coreVars, applied, mayLag, switches>>

\* Mutant: the mark is read again after the restart.
WatchRestartsThenReads ==
    /\ step = "restart"
    /\ \/ next # 0 /\ loaded' = Read(config) /\ next' = 0 /\ UNCHANGED <<applied, step>>
       \/ next = 0 /\ applied' = mark /\ step' = "idle" /\ UNCHANGED <<loaded, next>>
    /\ UNCHANGED <<file, mark, updater, categories, config, mayLag, switches>>

\* The core restarts; the scheduler remembers the mark it had read before.
WatchRestarts ==
    /\ step = "restart" /\ step' = "idle"
    /\ applied' = next /\ next' = 0
    /\ CoreReads(config)
    /\ UNCHANGED <<file, mark, updater, categories, config, switches>>

\* The restart fails: the mark counts as applied all the same.
WatchRestartFails ==
    /\ step = "restart" /\ step' = "idle"
    /\ applied' = next /\ next' = 0
    /\ mayLag' = mayLag \cup Behind
    /\ UNCHANGED <<file, mark, updater, categories, coreVars, switches>>

Next ==
    \/ BeginFetch \/ MarkChange \/ FetchStops
    \/ \E s \in RuleSets, new \in 0..MaxVersion : Fetch(s, new)
    \/ \E on \in BOOLEAN : Commit(on)
    \/ Regenerate \/ CoreRestart \/ PanelRestart
    \/ Baseline \/ NewMark \/ WatchRestarts \/ WatchRestartFails

Spec == Init /\ [][Next]_ruleVars
-----------------------------------------------------------------------------
(* Correctness. *)

\* Every variable stays in its range; the core holds no set newer than the
\* file, and the scheduler has applied no mark that was not written.
TypeOK ==
    /\ file \in [RuleSets -> 0..MaxVersion] /\ mark \in 0..MaxMark
    /\ fetching \subseteq RuleSets /\ changed \in BOOLEAN
    /\ categories \in BOOLEAN /\ config \subseteq RuleSets
    /\ loaded \in [RuleSets -> 0..MaxVersion] /\ \A s \in RuleSets : loaded[s] <= file[s]
    /\ applied \in 0..mark /\ next \in 0..mark /\ step \in {"idle", "restart"}
    /\ mayLag \subseteq RuleSets /\ switches \in 0..MaxSwitches

\* The scheduler has seen the last mark and no fetch is under way.
CaughtUp == categories /\ applied = mark /\ step = "idle" /\ fetching = {} /\ ~changed

\* What kota-autoupdate's comment promises: once the panel has dealt with the
\* last mark, the core runs the newest rules, whatever restarts, commits and
\* fetches came in between.  Except for what a core held when its panel, newly
\* started, took the mark for a baseline, when the restart failed, or when a
\* fetch was stopped before its mark - until the core starts again.
NewestRulesInForce == CaughtUp => Behind \subseteq mayLag
=============================================================================
