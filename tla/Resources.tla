------------------------------- MODULE Resources ------------------------------
(***************************************************************************)
(* The inbounds and clients an administrator manages: which client may use *)
(* which inbound with which secret, through any sequence of the handlers   *)
(* inbounds, inboundAction, clients, clientAction and updateClient, and    *)
(* restarts of the panel.  Two readers must agree about them: the core's   *)
(* configuration (proxy.Write) and the links a client is handed            *)
(* (proxy.Subscription).                                                   *)
(*                                                                         *)
(* A handler's mutation is one step (its steps are ConfigCommit's); an edit*)
(* of an inbound also reads the store before.  A secret is its kind and    *)
(* the operation that made it.  Names, hosts and bandwidths are left out.  *)
(***************************************************************************)
EXTENDS Naturals, FiniteSets, Functions

CONSTANTS
    Inbounds, Clients,  \* ids; each is given once
    Ports, Reserved,    \* what may be asked for; what the panel listens on
    MaxOps              \* bound: operations that make a secret or a key

ASSUME ReservedAssumption == Reserved \subseteq Ports
ASSUME MaxOpsAssumption == MaxOps \in Nat

VARIABLES
    inbounds,   \* State.Inbounds, by id
    clients,    \* State.Clients, by id
    used,       \* ids that were given
    active,     \* clients that are Active
    drafts,     \* edits of inbounds that read the store and did not commit yet
    retyped,    \* history: inbounds whose protocol changed since the panel started
    handed,     \* history: links handed out that nothing has made void
    revoked,    \* history: secrets withdrawn from a client
    ops         \* such operations so far

state == <<inbounds, clients, used, active>>
vars == <<inbounds, clients, used, active, drafts, retyped, handed, revoked, ops>>

Protocols == {"reality", "hysteria2", "tuic", "shadowsocks2022"}

\* newClientCredentials: what a secret looks like.
Kind(protocol) == CASE protocol \in {"reality", "tuic"} -> "uuid"
                    [] protocol = "shadowsocks2022" -> "base64"
                    [] OTHER -> "token"

Fresh(protocol) == [kind |-> Kind(protocol), made |-> ops]

\* ValidUUID, validSS2022Key; Hysteria 2 takes any password.
Fits(secret, protocol) == protocol = "hysteria2" \/ secret.kind = Kind(protocol)

Type(i) == inbounds[i].type

TUIC(ids) == {i \in ids : Type(i) = "tuic"}

\* REALITY has a key pair and a short id, Shadowsocks 2022 a server key; the
\* others' key is 0.
Keyed == {"reality", "shadowsocks2022"}

NewKey(protocol) == IF protocol \in Keyed THEN ops ELSE 0

Empty == [i \in {} |-> 0]

Init ==
    /\ inbounds = Empty /\ clients = Empty
    /\ used = {} /\ active = {} /\ drafts = {}
    /\ retyped = {} /\ handed = {} /\ revoked = {}
    /\ ops = 1
-----------------------------------------------------------------------------
(* The two readers. *)

\* A client has what a user of the inbound needs.
Equipped(client, i, protocol) ==
    /\ i \in DOMAIN client.secrets
    /\ protocol = "tuic" => i \in DOMAIN client.passwords

\* proxy.Write: those of the clients `who` that it lists under an inbound.
Users(who, ins, cls, i) == {c \in who \cap DOMAIN cls :
    i \in DOMAIN ins /\ ins[i].enabled /\ Equipped(cls[c], i, ins[i].type)}

Link(c, i) == [client |-> c, inbound |-> i, type |-> Type(i), port |-> inbounds[i].port,
               key |-> inbounds[i].key, secret |-> clients[c].secrets[i]]

\* proxy.Subscription: the links of a client.
Links(c) == {Link(c, i) : i \in {j \in clients[c].bound :
    /\ c \in active /\ j \in DOMAIN inbounds /\ inbounds[j].enabled
    /\ Equipped(clients[c], j, Type(j))}}

\* `sing-box check` (external) of what proxy.Write generates: a TUIC user needs
\* a UUID, a Shadowsocks 2022 user a key; VLESS makes a UUID of any text.
Check(who, ins, cls) ==
    \A i \in DOMAIN ins : ins[i].type \in {"tuic", "shadowsocks2022"} =>
        \A c \in Users(who, ins, cls, i) : Fits(cls[c].secrets[i], ins[i].type)
-----------------------------------------------------------------------------
(* Every handler: App.mutate, with the configuration checked before it is     *)
(* saved; whoever asks gets the new links.                                    *)

Op == ops < MaxOps /\ ops' = ops + 1

CommitFor(who, ins, cls) ==
    /\ Check(who, ins, cls)
    /\ inbounds' = ins /\ clients' = cls

Commit(ins, cls) == CommitFor(active, ins, cls)

AllLinks == UNION {Links(c) : c \in DOMAIN clients}

\* The links of `void` are broken on purpose.
Hand(void) == handed' = (handed \ void) \cup AllLinks'

LinksOf(cs, is) == {l \in handed : l.client \in cs /\ l.inbound \in is}

\* Secrets of client c withdrawn at the inbounds in ids.
Withdraw(c, ids) == revoked' = revoked \cup
    {[client |-> c, inbound |-> i, secret |-> clients[c].secrets[i]] :
        i \in ids \cap DOMAIN clients[c].secrets}

PortFree(port, except) ==
    /\ port \notin Reserved
    /\ \A i \in DOMAIN inbounds \ {except} : inbounds[i].port # port
-----------------------------------------------------------------------------
(* inbounds and inboundAction *)

CreateInbound(i, protocol, port) ==
    /\ Op /\ i \notin used /\ used' = used \cup {i}
    /\ PortFree(port, i)
    /\ Commit([j \in DOMAIN inbounds \cup {i} |->
                IF j = i THEN [type |-> protocol, port |-> port, enabled |-> TRUE,
                             key |-> NewKey(protocol)]
                         ELSE inbounds[j]], clients)
    /\ UNCHANGED <<active, drafts, retyped, revoked>>
    /\ Hand({})

\* Mutant: an edit that leaves the keys out makes new ones.
EditedKeyAnew(i, protocol, keys) == NewKey(protocol)

\* The key pair or server key of an edited inbound: REALITY keys left out are
\* those of the Snapshot, a server key left out is made anew.
EditedKey(i, protocol, keys) ==
    IF protocol = Type(i) /\ \/ keys = "repeated"
                             \/ keys = "left out" /\ protocol = "reality"
    THEN inbounds[i].key ELSE NewKey(protocol)

\* PATCH until the mutation: the Snapshot, prepareRealityInbound and
\* validateInbound.
BeginEdit(i, protocol, port, keys) ==
    /\ Op /\ i \in DOMAIN inbounds
    /\ drafts' = drafts \cup {[inbound |-> i, type |-> protocol, port |-> port, keys |-> keys,
                               key |-> EditedKey(i, protocol, keys), read |-> inbounds[i].key]}
    /\ UNCHANGED <<state, retyped, handed, revoked>>

\* What an edit breaks on purpose, and in two ways by accident: it replaces the
\* server key of Shadowsocks 2022 it was not given, and puts back the keys it
\* read although another edit changed them meanwhile.
Breaks(d) ==
    LET now == inbounds[d.inbound] IN
    \/ d.type # now.type \/ d.port # now.port \/ d.keys = "new"
    \/ d.type = "shadowsocks2022" /\ d.keys = "left out"
    \/ d.read # now.key

\* Mutant: the port of an edited inbound is not compared with the others.
EditPortUnchecked(d) ==
    LET i == d.inbound IN
    /\ drafts' = drafts \ {d} /\ i \in DOMAIN inbounds
    /\ d.port \notin Reserved
    /\ Commit([inbounds EXCEPT ![i].type = d.type, ![i].port = d.port, ![i].key = d.key], clients)
    /\ retyped' = IF d.type = Type(i) THEN retyped ELSE retyped \cup {i}
    /\ UNCHANGED <<used, active, revoked, ops>>
    /\ Hand(IF Breaks(d) THEN LinksOf(Clients, {i}) ELSE {})

\* PATCH's mutation.  Clients keep the secrets of the old protocol.
Edit(d) ==
    LET i == d.inbound IN
    /\ drafts' = drafts \ {d} /\ i \in DOMAIN inbounds
    /\ PortFree(d.port, i)
    /\ Commit([inbounds EXCEPT ![i].type = d.type, ![i].port = d.port, ![i].key = d.key], clients)
    /\ retyped' = IF d.type = Type(i) THEN retyped ELSE retyped \cup {i}
    /\ UNCHANGED <<used, active, revoked, ops>>
    /\ Hand(IF Breaks(d) THEN LinksOf(Clients, {i}) ELSE {})

Toggle(i) ==
    /\ i \in DOMAIN inbounds
    /\ Commit([inbounds EXCEPT ![i].enabled = ~@], clients)
    /\ UNCHANGED <<used, active, drafts, retyped, revoked, ops>>
    /\ Hand({})

\* detachInboundFromClients
Detached(client, i) ==
    [bound |-> client.bound \ {i},
     secrets |-> Restrict(client.secrets, DOMAIN client.secrets \ {i}),
     passwords |-> Restrict(client.passwords, DOMAIN client.passwords \ {i})]

DeleteInbound(i) ==
    /\ i \in DOMAIN inbounds
    /\ Commit(Restrict(inbounds, DOMAIN inbounds \ {i}),
              [c \in DOMAIN clients |-> Detached(clients[c], i)])
    /\ retyped' = retyped \ {i}
    /\ UNCHANGED <<used, active, drafts, revoked, ops>>
    /\ Hand(LinksOf(Clients, {i}))
-----------------------------------------------------------------------------
(* clients, clientAction and updateClient.  At least one inbound is chosen,  *)
(* and all that are chosen exist.                                            *)

Chosen(ids) == ids # {} /\ ids \subseteq DOMAIN inbounds

CreateClient(c, ids) ==
    /\ Op /\ c \notin used /\ used' = used \cup {c} /\ Chosen(ids)
    /\ active' = active \cup {c}
    /\ CommitFor(active', inbounds, [k \in DOMAIN clients \cup {c} |->
                IF k # c THEN clients[k]
                ELSE [bound |-> ids, secrets |-> [i \in ids |-> Fresh(Type(i))],
                      passwords |-> [i \in TUIC(ids) |-> ops]]])
    /\ UNCHANGED <<drafts, retyped, revoked>>
    /\ Hand({})

\* Mutant: the secrets of inbounds no longer chosen stay in the map.
UpdatedKeepsOld(client, ids) ==
    LET old == DOMAIN client.secrets IN
    [bound |-> ids,
     secrets |-> [i \in ids \cup old |-> IF i \in old THEN client.secrets[i] ELSE Fresh(Type(i))],
     passwords |-> [i \in TUIC(ids \cup old) |->
                        IF i \in DOMAIN client.passwords THEN client.passwords[i] ELSE ops]]

\* A secret is kept, for TUIC if it is a UUID with a password.
Updated(client, ids) ==
    LET kept == {i \in ids \cap DOMAIN client.secrets : Type(i) = "tuic" =>
                    client.secrets[i].kind = "uuid" /\ i \in DOMAIN client.passwords}
    IN  [bound |-> ids,
         secrets |-> [i \in ids |-> IF i \in kept THEN client.secrets[i] ELSE Fresh(Type(i))],
         passwords |-> [i \in TUIC(ids) |-> IF i \in kept THEN client.passwords[i] ELSE ops]]

UpdateClient(c, ids) ==
    /\ Op /\ c \in DOMAIN clients /\ Chosen(ids)
    /\ Commit(inbounds, [clients EXCEPT ![c] = Updated(@, ids)])
    /\ Withdraw(c, Inbounds \ ids)
    /\ UNCHANGED <<used, active, drafts, retyped>>
    /\ Hand(LinksOf({c}, (Inbounds \ ids) \cup retyped))

\* Mutant: inbounds that are switched off are passed over.
RotatedWhereEnabled(client) ==
    LET on == {i \in DOMAIN client.secrets : inbounds[i].enabled} IN
    [client EXCEPT
        !.secrets = [i \in DOMAIN @ |-> IF i \in on THEN Fresh(Type(i)) ELSE @[i]],
        !.passwords = [i \in TUIC(DOMAIN client.secrets) |-> ops]]

Rotated(client) ==
    [client EXCEPT
        !.secrets = [i \in DOMAIN @ |-> Fresh(Type(i))],
        !.passwords = [i \in TUIC(DOMAIN client.secrets) |-> ops]]

Rotate(c) ==
    /\ Op /\ c \in DOMAIN clients
    /\ Commit(inbounds, [clients EXCEPT ![c] = Rotated(@)])
    /\ Withdraw(c, Inbounds)
    /\ UNCHANGED <<used, active, drafts, retyped>>
    /\ Hand(LinksOf({c}, Inbounds))

DeleteClient(c) ==
    /\ c \in DOMAIN clients
    /\ Commit(inbounds, Restrict(clients, DOMAIN clients \ {c}))
    /\ active' = active \ {c}
    /\ Withdraw(c, Inbounds)
    /\ UNCHANGED <<used, drafts, retyped, ops>>
    /\ Hand(LinksOf({c}, Inbounds))

\* Pause and resume, quotas and expiry: without a check when time does it.
Activity(c) ==
    /\ c \in DOMAIN clients
    /\ active' = IF c \in active THEN active \ {c} ELSE active \cup {c}
    /\ UNCHANGED <<inbounds, clients, used, drafts, retyped, revoked, ops>>
    /\ Hand({})
-----------------------------------------------------------------------------
(* New *)

\* Mutant: TUIC is forgotten.
NormalizedWithoutTUIC(client) ==
    [client EXCEPT !.secrets = [i \in DOMAIN @ |->
        IF Fits(@[i], Type(i)) \/ Type(i) = "tuic" THEN @[i] ELSE Fresh(Type(i))]]

\* normalizeProtocolSecrets replaces what does not fit.
Normalized(client) ==
    LET missing == TUIC(DOMAIN client.secrets) \ DOMAIN client.passwords IN
    [client EXCEPT
        !.secrets = [i \in DOMAIN @ |-> IF Fits(@[i], Type(i)) THEN @[i] ELSE Fresh(Type(i))],
        !.passwords = [i \in DOMAIN @ \cup missing |-> IF i \in missing THEN ops ELSE @[i]]]

\* The links of retyped inbounds may break.
PanelRestart ==
    /\ Op
    /\ inbounds' = inbounds
    /\ clients' = [c \in DOMAIN clients |-> Normalized(clients[c])]
    /\ drafts' = {} /\ retyped' = {}
    /\ UNCHANGED <<used, active, revoked>>
    /\ Hand(LinksOf(Clients, retyped))
-----------------------------------------------------------------------------
InboundStep(i) ==
    \/ \E protocol \in Protocols, port \in Ports : CreateInbound(i, protocol, port)
    \/ \E protocol \in Protocols, port \in Ports, keys \in {"left out", "repeated", "new"} :
           /\ keys = "left out" \/ protocol \in Keyed
           /\ BeginEdit(i, protocol, port, keys)
    \/ Toggle(i) \/ DeleteInbound(i)

ClientStep(c) ==
    \/ \E ids \in SUBSET Inbounds : CreateClient(c, ids) \/ UpdateClient(c, ids)
    \/ Rotate(c) \/ DeleteClient(c) \/ Activity(c)

Next ==
    \/ \E i \in Inbounds : InboundStep(i)
    \/ \E d \in drafts : Edit(d)
    \/ \E c \in Clients : ClientStep(c)
    \/ PanelRestart

Spec == Init /\ [][Next]_vars
-----------------------------------------------------------------------------
(* Correctness. *)

Secret == [kind : {"uuid", "base64", "token"}, made : Nat]

\* Every variable stays in its range, and no two listeners share a port.
TypeOK ==
    /\ DOMAIN inbounds \subseteq Inbounds /\ DOMAIN clients \subseteq Clients
    /\ \A i \in DOMAIN inbounds :
          inbounds[i] \in [type : Protocols, port : Ports, enabled : BOOLEAN, key : Nat]
    /\ \A c \in DOMAIN clients :
          /\ clients[c].bound \subseteq Inbounds
          /\ clients[c].secrets \in [DOMAIN clients[c].secrets -> Secret]
          /\ DOMAIN clients[c].passwords \subseteq DOMAIN clients[c].secrets
    /\ used \subseteq Inbounds \cup Clients /\ active \subseteq DOMAIN clients
    /\ retyped \subseteq DOMAIN inbounds
    /\ ops \in Nat
    /\ \A i \in DOMAIN inbounds : PortFree(inbounds[i].port, i)

\* What a client is offered is what the core lets it use: no link that is
\* refused and no inbound open to a client whose subscription lacks it,
\* although one reads the bindings and the other the secrets.
SubscriptionIsServed ==
    \A c \in active, i \in DOMAIN inbounds :
        c \in Users(active, inbounds, clients, i) <=> \E l \in Links(c) : l.inbound = i

\* Every secret suits its inbound's protocol, so the core's check never
\* rejects what the panel saved (whoever becomes active, and whatever is
\* switched on), and every bound client is served: but for inbounds whose
\* protocol was changed since the panel started.
CredentialsFit ==
    \A c \in DOMAIN clients : \A i \in clients[c].bound \ retyped :
        /\ i \in DOMAIN inbounds /\ Equipped(clients[c], i, Type(i))
        /\ Fits(clients[c].secrets[i], Type(i))

\* A link once handed out works for as long as its client is active and its
\* inbound on, until an administrator does what must break it: rotation,
\* deletion, unbinding, another port, protocol or key.  Edits, toggles,
\* restarts of the panel and changes of others do not.
LinksLast ==
    \A l \in handed :
        /\ l.inbound \in DOMAIN inbounds /\ l.client \in DOMAIN clients
        /\ l.client \in active /\ inbounds[l.inbound].enabled => l \in Links(l.client)

\* A secret withdrawn by rotation, unbinding or deletion never works again.
RevokedStays ==
    \A r \in revoked : r.client \in DOMAIN clients =>
        LET now == clients[r.client].secrets IN
        r.inbound \in DOMAIN now => now[r.inbound] # r.secret
=============================================================================
