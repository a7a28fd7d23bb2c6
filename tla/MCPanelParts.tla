---------------------------- MODULE MCPanelParts ------------------------------
(***************************************************************************)
(* Parts of the panel that share no state.  The first step of a behaviour   *)
(* is to choose the part it is about: an interleaving of two of them shows  *)
(* each what it would see alone.                                           *)
(***************************************************************************)
EXTENDS SiteLedger, TLC

CONSTANTS r1, r2, r3, a1, a2, a3

MCDay == [r \in Records |-> IF r = r3 THEN 1 ELSE 0]

VARIABLE part       \* the part the behaviour is about

CONSTANTS Addresses, MaxAttempts, Window, FirstBan, MaxBan, Cap, MaxNow, MaxOverlap
ASSUME LoginAssumption ==
    /\ IsFiniteSet(Addresses)
    /\ MaxAttempts \in Nat \ {0} /\ Window \in Nat /\ Cap \in Nat
    /\ FirstBan \in Nat \ {0} /\ MaxBan \in Nat /\ FirstBan <= MaxBan
    /\ MaxNow \in Nat /\ MaxOverlap \in Nat \ {0}
VARIABLES now, fails, judging, judged
loginVars == <<now, fails, judging, judged>>
Login == INSTANCE LoginThrottle

CONSTANT StaleAge
ASSUME StaleAssumption == StaleAge \in Nat
VARIABLES certificateRenewing, press, status, age, script, reading, outcome, unfinished, overtaken
certVars == <<certificateRenewing, press, status, age, script, reading, outcome, unfinished,
              overtaken>>
Certificate == INSTANCE CertificateRenewal

CONSTANTS RuleSets, MaxVersion, MaxMark, MaxSwitches
ASSUME RulesAssumption == MaxVersion \in Nat /\ MaxMark \in Nat /\ MaxSwitches \in Nat
VARIABLES file, mark, fetching, changed, categories, config, loaded, applied, step, next, mayLag,
          switches
ruleVars == <<file, mark, fetching, changed, categories, config, loaded, applied, step, next,
              mayLag, switches>>
Rules == INSTANCE RuleSetWatch

CONSTANTS Hosts, MaxTargets, Ttl, MaxClock, MaxIds
ASSUME PingAssumption == {MaxTargets, Ttl, MaxClock, MaxIds} \subseteq Nat
VARIABLES clock, targets, ids, samples, disk, pingRunning, round, first, removing, unsaved, left,
          taken, lost
pingVars == <<clock, targets, ids, samples, disk, pingRunning, round, first, removing, unsaved,
              left, taken, lost>>
Ping == INSTANCE PingHistory

CONSTANTS Clients, MaxUsageRows, MaxDailyRows, LastDay, MaxBilled, MaxChanges
ASSUME DailyAssumption ==
    /\ {MaxUsageRows, MaxDailyRows, LastDay} \subseteq Nat \ {0}
    /\ MaxBilled \in Nat /\ MaxChanges \in Nat
VARIABLES day, mem, saved, syncDay, totalRead, readDay, changes, crossed
dayVars == <<day, mem, saved, syncDay, totalRead, readDay, changes, crossed>>
Daily == INSTANCE DailyTraffic

CONSTANTS Pages, RelayPorts, MaxGiven, MaxRequests
ASSUME SettingsAssumption ==
    /\ 0 \notin RelayPorts
    /\ MaxGiven \in Nat \ {0} /\ MaxRequests \in Nat
VARIABLES settings, inbounds, applying, page, request, given, handed, doubled, requests
settingsVars == <<settings, inbounds, applying, page, request, given, handed, doubled, requests>>
Settings == INSTANCE SettingsRelay

partVars == <<part, vars, loginVars, certVars, ruleVars, pingVars, dayVars, settingsVars>>

PartsInit ==
    /\ part \in {"ledger", "login", "certificate", "rules", "ping", "daily", "settings"}
    /\ Init /\ Login!Init /\ Certificate!Init /\ Rules!Init /\ Ping!Init /\ Daily!Init
    /\ Settings!Init
    \* The parts a behaviour is not about begin in one way.
    /\ part # "ledger" => detail
    /\ part # "rules" => categories
    /\ part # "settings" => settings.relay.role = "off"

PartsNext ==
    \/ /\ part = "ledger" /\ Next
       /\ UNCHANGED <<part, loginVars, certVars, ruleVars, pingVars, dayVars, settingsVars>>
    \/ /\ part = "login" /\ Login!Next
       /\ UNCHANGED <<part, vars, certVars, ruleVars, pingVars, dayVars, settingsVars>>
    \/ /\ part = "certificate" /\ Certificate!Next
       /\ UNCHANGED <<part, vars, loginVars, ruleVars, pingVars, dayVars, settingsVars>>
    \/ /\ part = "rules" /\ Rules!Next
       /\ UNCHANGED <<part, vars, loginVars, certVars, pingVars, dayVars, settingsVars>>
    \/ /\ part = "ping" /\ Ping!Next
       /\ UNCHANGED <<part, vars, loginVars, certVars, ruleVars, dayVars, settingsVars>>
    \/ /\ part = "daily" /\ Daily!Next
       /\ UNCHANGED <<part, vars, loginVars, certVars, ruleVars, pingVars, settingsVars>>
    \/ /\ part = "settings" /\ Settings!Next
       /\ UNCHANGED <<part, vars, loginVars, certVars, ruleVars, pingVars, dayVars>>

PartsSpec == PartsInit /\ [][PartsNext]_partVars

\* Every part is well typed.
TypesOK ==
    /\ TypeOK /\ Login!TypeOK /\ Certificate!TypeOK /\ Rules!TypeOK /\ Ping!TypeOK
    /\ Daily!TypeOK /\ Settings!TypeOK

\* The properties of the parts, stated where they are defined.
BanStopsNewAttempts == Login!BanStopsNewAttempts
BanIsServed == Login!BanIsServed
RefusedForAReason == Certificate!RefusedForAReason
ReportIsHonest == Certificate!ReportIsHonest
NewestRulesInForce == Rules!NewestRulesInForce
RoundsDoNotOverlap == Ping!RoundsDoNotOverlap
RemovedTargetsForgotten == Ping!RemovedTargetsForgotten
NothingForgotten == Ping!NothingForgotten
DaysAddUp == Daily!DaysAddUp
OneRowPerDay == Daily!OneRowPerDay
LandingIsFixed == Settings!LandingIsFixed
AnsweredIsSaved == Settings!AnsweredIsSaved
PortsApart == Settings!PortsApart

\* The sets of all parts but the ledger share the values a1 and a2, so that
\* exchanging the two is one permutation and not one for each set; r1 and r2 are
\* of one day.
Symmetry == Permutations({a1, a2}) \cup Permutations({r1, r2})
=============================================================================
