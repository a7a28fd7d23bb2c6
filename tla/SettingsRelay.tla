----------------------------- MODULE SettingsRelay ------------------------------
(***************************************************************************)
(* The settings request, with the relay between two hosts.  A page sends all  *)
(* its fields, those of the relay as it last saw them; the handler completes  *)
(* the relay (normalizeRelay), compares the request with the settings, and    *)
(* then saves it, applies it to the core in the background, or does nothing.  *)
(* Each of the three looks at the settings anew, and pages overlap.          *)
(*                                                                         *)
(* `access` stands for the outbound strategy, the blocked domains and the     *)
(* BitTorrent switch, `secret` for name and password of the landing host.    *)
(* Commits are ConfigCommit's; here they succeed or are refused.             *)
(***************************************************************************)
EXTENDS Integers

CONSTANTS
    Pages,          \* browser pages, each with one request at a time
    RelayPorts,     \* ports inbounds and the landing host may use
    MaxGiven,       \* bound: landing ports and secrets made up
    MaxRequests     \* bound: requests sent

VARIABLES
    settings,       \* the store's: access, SiteDetailEnabled, relay
    inbounds,       \* ports of the inbounds
    applying,       \* settingsApplying
    page,           \* the relay each page shows
    request,        \* the request of each page in the handler
    given,          \* secrets made up so far
    handed,         \* history: ports handed to a landing host
    doubled,        \* history: ports an inbound has that it took after that
    requests        \* history: requests so far

settingsVars == <<settings, inbounds, applying, page, request, given, handed, doubled, requests>>

Relay(role, port, secret) == [role |-> role, port |-> port, secret |-> secret]
Off == Relay("off", 0, 0)

Relays == {Off, Relay("transit", 0, 0)}
          \cup {Relay("landing", p, n) : p \in RelayPorts \cup {0}, n \in 0..MaxGiven}

Rest(outcome) == [step |-> outcome, access |-> 0, detail |-> FALSE, shown |-> Off,
                  relay |-> Off, first |-> FALSE, alone |-> TRUE]

Steps == {"received", "normalized", "save", "apply", "commit"}
Pending(h) == request[h].step \in Steps

\* The panel starts with what was saved, and the pages show it.
Init ==
    /\ \E relay \in {Off} \cup {Relay("landing", p, 1) : p \in RelayPorts} :
         /\ settings = [access |-> 0, detail |-> TRUE, relay |-> relay]
         /\ page = [h \in Pages |-> relay]
         /\ given = relay.secret /\ handed = {relay.port} \ {0}
    /\ request = [h \in Pages |-> Rest("none")]
    /\ inbounds = {} /\ applying = FALSE
    /\ doubled = {} /\ requests = 0
-----------------------------------------------------------------------------
(* The pages *)

LoadPage(h) ==
    /\ ~Pending(h) /\ page[h] # settings.relay
    /\ page' = [page EXCEPT ![h] = settings.relay]
    /\ UNCHANGED <<settings, inbounds, applying, request, given, handed, doubled, requests>>

\* relayPayload: port and secret of a landing host are those the page has.
Send(h, access, detail, role) ==
    /\ ~Pending(h)
    /\ requests < MaxRequests /\ requests' = requests + 1
    /\ request' = [request EXCEPT ![h] =
         [step |-> "received", access |-> access, detail |-> detail, shown |-> page[h],
          relay |-> IF role = "landing" THEN Relay(role, page[h].port, page[h].secret)
                    ELSE Relay(role, 0, 0),
          first |-> FALSE, alone |-> \A g \in Pages : ~Pending(g)]]
    /\ UNCHANGED <<settings, inbounds, applying, page, given, handed, doubled>>

Alone(h) == [g \in Pages |-> IF g # h /\ Pending(g) THEN [request[g] EXCEPT !.alone = FALSE]
                             ELSE request[g]]

\* The answer of success brings the page the settings.
Answer(h) ==
    /\ request' = [Alone(h) EXCEPT ![h] = Rest("ok")]
    /\ page' = [page EXCEPT ![h] = settings'.relay]
-----------------------------------------------------------------------------
(* The handler: settings, PUT *)

\* Mutant: the inbounds' ports are not left out.
AllPorts == RelayPorts

\* randomRelayPort: any port that no inbound had in the Snapshot.
FreePorts == RelayPorts \ inbounds

\* `first`: the host was no landing host when the request was completed.
Proceed(h, relay) ==
    request' = [request EXCEPT ![h].relay = relay, ![h].step = "normalized",
                               ![h].first = settings.relay.role # "landing"]

\* Mutant: a landing host's port is compared with the inbounds' again.
NormalizeAfresh(h) ==
    /\ request[h].step = "received" /\ given < MaxGiven
    /\ LET sent == request[h].relay
       IN IF sent.role # "landing" THEN Proceed(h, sent) /\ UNCHANGED <<given, handed>>
          ELSE \E p \in FreePorts :
                 /\ Proceed(h, Relay("landing", p, given + 1))
                 /\ given' = given + 1 /\ handed' = handed \cup {p}
    /\ UNCHANGED <<settings, inbounds, applying, page, doubled, requests>>

\* normalizeRelay: port and secret are made up when the host was no landing
\* host, or where the request leaves them out; what it sends is taken.
Normalize(h) ==
    /\ request[h].step = "received"
    /\ LET sent == request[h].relay
           none == settings.relay.role # "landing"
           needPort == none \/ sent.port = 0
           needSecret == none \/ sent.secret = 0
       IN IF sent.role # "landing" \/ ~(needPort \/ needSecret)
          THEN Proceed(h, sent) /\ UNCHANGED <<given, handed>>
          ELSE /\ given < MaxGiven /\ given' = given + 1
               /\ \E p \in IF needPort THEN FreePorts ELSE {sent.port} :
                    /\ Proceed(h, Relay("landing", p, IF needSecret THEN given' ELSE sent.secret))
                    /\ handed' = handed \cup {p}
    /\ UNCHANGED <<settings, inbounds, applying, page, doubled, requests>>

CoreConcerned(h) == request[h].access # settings.access \/ request[h].relay # settings.relay

\* "The settings have not changed": nothing is done.
NothingToDo(h) ==
    /\ request[h].step = "normalized"
    /\ ~CoreConcerned(h) /\ request[h].detail = settings.detail
    /\ UNCHANGED <<settings, inbounds, applying, given, handed, doubled, requests>>
    /\ Answer(h)

\* requiresCoreApply, of a Snapshot; without it the handler only looks whether
\* settings are being applied.
Decide(h) ==
    /\ request[h].step = "normalized"
    /\ \/ /\ CoreConcerned(h)
          /\ request' = [request EXCEPT ![h].step = "apply"]
       \/ /\ ~CoreConcerned(h) /\ request[h].detail # settings.detail /\ ~applying
          /\ request' = [request EXCEPT ![h].step = "save"]
    /\ UNCHANGED <<settings, inbounds, applying, page, given, handed, doubled, requests>>

\* Mutant: the switch is not saved here either.
SaveNothing(h) ==
    /\ request[h].step = "save"
    /\ UNCHANGED settings
    /\ Answer(h)
    /\ UNCHANGED <<inbounds, applying, given, handed, doubled, requests>>

\* The store is updated without the core: only what does not concern it.
Save(h) ==
    /\ request[h].step = "save"
    /\ settings' = [settings EXCEPT !.detail = request[h].detail]
    /\ Answer(h)
    /\ UNCHANGED <<inbounds, applying, given, handed, doubled, requests>>

\* startSettingsApply: the flag first, then the commit.
StartApply(h) ==
    /\ request[h].step = "apply" /\ ~applying /\ applying' = TRUE
    /\ request' = [request EXCEPT ![h].step = "commit"]
    /\ UNCHANGED <<settings, inbounds, page, given, handed, doubled, requests>>

\* SiteDetailEnabled is not among the fields that are committed.
CommitApply(h) ==
    /\ request[h].step = "commit"
    /\ settings' = [settings EXCEPT !.access = request[h].access, !.relay = request[h].relay]
    /\ Answer(h)
    /\ UNCHANGED <<inbounds, applying, given, handed, doubled, requests>>

\* No free port is found, settings are being applied, an update runs, or the
\* commit fails, which ends the applying as well.
Refuse(h) ==
    /\ Pending(h)
    /\ applying' = (applying /\ request[h].step # "commit")
    /\ request' = [Alone(h) EXCEPT ![h] = Rest("refused")]
    /\ UNCHANGED <<settings, inbounds, page, given, handed, doubled, requests>>

\* The goroutine's restart of the core returned.
Applied ==
    /\ applying /\ applying' = FALSE
    /\ \A h \in Pages : request[h].step # "commit"
    /\ UNCHANGED <<settings, inbounds, page, request, given, handed, doubled, requests>>
-----------------------------------------------------------------------------
\* saveInbound compares the port with the inbounds' and the panel's only.
AddInbound(p) ==
    /\ p \notin inbounds
    /\ inbounds' = inbounds \cup {p}
    /\ doubled' = doubled \cup ({p} \cap handed)
    /\ UNCHANGED <<settings, applying, page, request, given, handed, requests>>

DeleteInbound(p) ==
    /\ p \in inbounds
    /\ inbounds' = inbounds \ {p} /\ doubled' = doubled \ {p}
    /\ UNCHANGED <<settings, applying, page, request, given, handed, requests>>

Next ==
    \/ \E h \in Pages :
        \/ LoadPage(h)
        \/ \E access \in 0..1, detail \in BOOLEAN, role \in {"off", "transit", "landing"} :
             Send(h, access, detail, role)
        \/ Normalize(h) \/ NothingToDo(h) \/ Decide(h) \/ Save(h)
        \/ StartApply(h) \/ CommitApply(h) \/ Refuse(h)
    \/ Applied
    \/ \E p \in RelayPorts : AddInbound(p) \/ DeleteInbound(p)

Spec == Init /\ [][Next]_settingsVars
-----------------------------------------------------------------------------
(* Correctness. *)

Requests == [step : Steps, access : 0..1, detail : BOOLEAN,
             shown : Relays, relay : Relays, first : BOOLEAN, alone : BOOLEAN]

\* Every variable stays in its range; a landing host in the settings has its
\* port and its secret.
TypeOK ==
    /\ settings \in [access : 0..1, detail : BOOLEAN, relay : Relays]
    /\ settings.relay.role = "landing" => settings.relay.port # 0 /\ settings.relay.secret # 0
    /\ inbounds \subseteq RelayPorts /\ applying \in BOOLEAN
    /\ page \in [Pages -> Relays]
    /\ \A h \in Pages : request[h] \in Requests \cup {Rest(o) : o \in {"none", "ok", "refused"}}
    /\ given \in 0..MaxGiven /\ requests \in 0..MaxRequests
    /\ handed \subseteq RelayPorts /\ doubled \subseteq inbounds

Accepted(h) == Pending(h) /\ request'[h].step = "ok"

\* "Made up when it is first switched on, and then fixed": as long as the host
\* is a landing host, its port and secret change only by a request from a page
\* that showed others, or by one that was completed while the host was none and
\* another request brought the old ones back before it was committed.
LandingMoves ==
    /\ settings.relay.role = "landing" /\ settings'.relay.role = "landing"
    /\ settings'.relay # settings.relay

LandingIsFixed ==
    [][LandingMoves => \E h \in Pages : /\ Accepted(h)
                                       /\ \/ request[h].first
                                          \/ request[h].shown # settings.relay]_settingsVars

\* A request that met no other is saved as it was sent once it is answered with
\* success; but for the details switch when the core is concerned as well.
AnsweredIsSaved ==
    [][\A h \in Pages :
         Accepted(h) /\ request[h].alone
         => /\ settings'.access = request[h].access
            /\ settings'.relay = request[h].relay
            /\ settings'.detail = request[h].detail \/ request[h].step = "commit"]_settingsVars

\* A port made up for the landing host is no inbound's.  An inbound may take it
\* afterwards, for nothing compares the two; that is the only way they meet.
PortsApart ==
    settings.relay.role = "landing" /\ settings.relay.port \in inbounds
        => settings.relay.port \in doubled
=============================================================================
