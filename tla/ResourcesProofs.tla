---------------------------- MODULE ResourcesProofs ---------------------------
(***************************************************************************)
(* For any inbounds, clients, ports and any number of operations: the store *)
(* is well typed, core and subscription agree about every client, secrets   *)
(* suit their protocols, links last and withdrawn secrets stay withdrawn.   *)
(***************************************************************************)
EXTENDS Resources, TLAPS

Inbound == [type : Protocols, port : Ports, enabled : BOOLEAN, key : Nat]

Asked == {"left out", "repeated", "new"}

Draft == [inbound : Inbounds, type : Protocols, port : Ports,
          keys : Asked, key : Nat, read : Nat]

Partial(S) == UNION {[D -> S] : D \in SUBSET Inbounds}

Client == [bound : SUBSET Inbounds, secrets : Partial(Secret), passwords : Partial(Nat)]

(* The lists hold records, and ids are given once.                            *)
ShapeInv ==
    /\ inbounds \in [DOMAIN inbounds -> Inbound]
    /\ clients \in [DOMAIN clients -> Client]
    /\ drafts \subseteq Draft
    /\ DOMAIN inbounds \cup DOMAIN clients \subseteq used
    /\ \A d \in drafts : d.inbound \in used

(* A client has a secret for each inbound it is bound to and for no other:    *)
(* the bindings, which the subscription reads, and the secrets, which the     *)
(* core reads, name the same inbounds, and these exist.                       *)
BoundInv ==
    \A c \in DOMAIN clients :
        /\ DOMAIN clients[c].secrets = clients[c].bound
        /\ DOMAIN clients[c].passwords \subseteq clients[c].bound
        /\ clients[c].bound \subseteq DOMAIN inbounds

Earlier == 0..(ops - 1)

(* What exists was made by an earlier operation, so what an operation makes   *)
(* is new.                                                                   *)
AgeInv ==
    /\ ops \in Nat \ {0}
    /\ \A c \in DOMAIN clients : \A i \in clients[c].bound :
         clients[c].secrets[i].made \in Earlier
    /\ \A r \in revoked : r.client \in used /\ r.secret.made \in Earlier
    /\ \A i \in DOMAIN inbounds : inbounds[i].key \in Earlier
    /\ \A d \in drafts : {d.key, d.read} \subseteq Earlier

(* What holds a key: an inbound, or a draft that may become one.              *)
Holders == {inbounds[i] : i \in DOMAIN inbounds} \cup drafts

(* A key belongs to one protocol, for good.                                    *)
Coloured ==
    /\ \A x \in Holders : x.key = 0 <=> x.type \notin Keyed
    /\ \A x, y \in Holders : x.key = y.key /\ x.key # 0 => x.type = y.type

(* A record of a step's end has a protocol and key that were held before, or  *)
(* the key the step makes.                                                    *)
Known(x, protocol) ==
    \/ \E y \in Holders : x.type = y.type /\ x.key = y.key
    \/ x.type = protocol /\ x.key = NewKey(protocol)

(* A draft has the key it read, or no key, or its edit is one of those that   *)
(* break links, or it read the key of another protocol.                      *)
Traced(d) ==
    \/ d.type \notin Keyed
    \/ d.key = d.read
    \/ d.keys = "new"
    \/ d.type = "shadowsocks2022" /\ d.keys = "left out"
    \/ \A x \in Holders : x.key = d.read => x.type # d.type

KeyInv == Coloured /\ \A d \in drafts : Traced(d)

(* What the invariants ask of one client.                                      *)
Proper(client) ==
    /\ client \in Client
    /\ DOMAIN client.secrets = client.bound
    /\ DOMAIN client.passwords \subseteq client.bound
    /\ client.bound \subseteq DOMAIN inbounds
    /\ \A i \in client.bound : client.secrets[i].made \in Earlier

Suited(client) ==
    \A i \in client.bound \ retyped :
        /\ i \in DOMAIN inbounds /\ Equipped(client, i, Type(i))
        /\ Fits(client.secrets[i], Type(i))

(* A link handed out is still the link of that client and inbound.            *)
Stands(l) ==
    /\ l.client \in DOMAIN clients
    /\ l.inbound \in clients[l.client].bound
    /\ Equipped(clients[l.client], l.inbound, Type(l.inbound))
    /\ l = Link(l.client, l.inbound)

HandInv == \A l \in handed : Stands(l)

ResourceInv ==
    /\ TypeOK /\ ShapeInv /\ BoundInv /\ AgeInv /\ KeyInv /\ CredentialsFit /\ HandInv
    /\ RevokedStays
-----------------------------------------------------------------------------
(* Lemmas about the operators. *)

\* What an operation makes has the type of a secret, and is new.
LEMMA FreshSecret ==
    ASSUME AgeInv, NEW protocol
    PROVE  /\ Fresh(protocol) \in Secret
           /\ Fresh(protocol).made = ops
           /\ Fits(Fresh(protocol), protocol)
BY DEF AgeInv, Fresh, Secret, Kind, Fits

\* One more operation: what was earlier still is.
LEMMA TimePasses ==
    ASSUME AgeInv, ops' = ops \/ ops' = ops + 1
    PROVE  /\ Earlier \subseteq Earlier' /\ ops' \in Nat \ {0}
           /\ ops' = ops + 1 => ops \in Earlier'
           /\ 0 \in Earlier /\ ops \notin Earlier
BY DEF AgeInv, Earlier

\* The links there are after a step stand, and so do those left of the old ones.
LEMMA HandStep ==
    ASSUME BoundInv', NEW void, Hand(void), \A l \in handed \ void : Stands(l)'
    PROVE  HandInv'
<1>1. \A l \in AllLinks' : Stands(l)'
  <2> SUFFICES ASSUME NEW c \in DOMAIN clients', NEW l \in Links(c)'
               PROVE  Stands(l)'
    BY DEF AllLinks
  <2>1. PICK i \in clients'[c].bound :
           /\ l = Link(c, i)'
           /\ Equipped(clients[c], i, Type(i))'
    BY DEF Links
  <2>2. l.client = c /\ l.inbound = i
    BY <2>1 DEF Link
  <2>3. QED
    BY <2>1, <2>2 DEF Stands
<1>2. QED
  BY <1>1 DEF Hand, HandInv

\* A step that makes one key at most leaves every key with its protocol.
LEMMA KeysGrow ==
    ASSUME ShapeInv, KeyInv, AgeInv, NEW protocol \in Protocols,
           \A j \in DOMAIN inbounds' : Known(inbounds'[j], protocol),
           \A d \in drafts' : Known(d, protocol)
    PROVE  Coloured' /\ \A d \in drafts : Traced(d)'
<1> DEFINE Old(x) == \E y \in Holders : x.type = y.type /\ x.key = y.key
           New(x) == x.type = protocol /\ x.key = NewKey(protocol)
<1>1. \A x \in Holders' : Old(x) \/ New(x)
  BY DEF Holders, Known
<1>2. \A y \in Holders : y.key \in Nat /\ y.key < ops
  BY DEF AgeInv, Earlier, Holders
<1>3. /\ protocol \in Keyed => NewKey(protocol) = ops
      /\ protocol \notin Keyed => NewKey(protocol) = 0
      /\ ops \in Nat \ {0}
  BY DEF NewKey, AgeInv
<1>4. \A x \in Holders' : x.key = 0 <=> x.type \notin Keyed
  BY <1>1, <1>3 DEF KeyInv, Coloured
<1>5. ASSUME NEW x \in Holders', NEW y \in Holders', x.key = y.key, x.key # 0
      PROVE  x.type = y.type
  <2>1. CASE Old(x) /\ Old(y)
    BY <1>5, <2>1 DEF KeyInv, Coloured
  <2>2. CASE New(x) /\ Old(y)
    BY <1>2, <1>3, <1>5, <2>2
  <2>3. CASE Old(x) /\ New(y)
    <3>1. x.key \in Nat /\ x.key < ops
      BY <1>2, <2>3
    <3>2. x.key = NewKey(protocol)
      BY <1>5, <2>3
    <3>3. QED
      BY <1>3, <1>5, <3>1, <3>2
  <2>4. QED
    BY <1>1, <2>1, <2>2, <2>3
<1>6. ASSUME NEW d \in drafts PROVE Traced(d)'
  <2>1. SUFFICES ASSUME d.type \in Keyed, \A x \in Holders : x.key = d.read => x.type # d.type,
                        NEW x \in Holders', x.key = d.read, x.type = d.type
                 PROVE  FALSE
    BY DEF KeyInv, Traced
  <2>2. CASE Old(x)
    BY <2>1, <2>2
  <2>3. CASE New(x)
    <3>1. d.read \in Nat /\ d.read < ops
      BY DEF AgeInv, Earlier
    <3>2. QED
      BY <1>3, <2>1, <2>3, <3>1
  <2>4. QED
    BY <1>1, <2>2, <2>3
<1>7. QED
  BY <1>4, <1>5, <1>6 DEF Coloured

\* A step that makes no key.
LEMMA KeysStay ==
    ASSUME ShapeInv, KeyInv, AgeInv, drafts' \subseteq drafts,
           \A j \in DOMAIN inbounds' : Known(inbounds'[j], "tuic")
    PROVE  KeyInv'
<1>1. "tuic" \in Protocols
  BY DEF Protocols
<1>2. \A d \in drafts' : Known(d, "tuic")
  BY DEF Holders, Known
<1>3. Coloured' /\ \A d \in drafts : Traced(d)'
  BY <1>1, <1>2, KeysGrow
<1>4. QED
  BY <1>3 DEF KeyInv

USE DEF Op, Commit, CommitFor, state

\* Pause, resume, quotas and expiry change who is active.
LEMMA ActivityStep ==
    ASSUME ResourceInv, NEW c \in Clients, Activity(c)
    PROVE  ResourceInv'
<1> USE DEF ResourceInv, Activity
<1>1. TypeOK' /\ ShapeInv' /\ BoundInv'
  BY DEF TypeOK, ShapeInv, BoundInv, PortFree
<1>2. AgeInv' /\ KeyInv'
  <2>1. Holders' = Holders
    BY DEF Holders
  <2>2. QED
    BY <2>1 DEF AgeInv, Earlier, KeyInv, Coloured, Traced
<1>3. CredentialsFit' /\ RevokedStays'
  BY DEF CredentialsFit, RevokedStays, Type
<1>4. HandInv'
  <2>1. \A l \in handed : Stands(l)'
    BY DEF HandInv, Stands, Type, Link
  <2>2. QED
    BY <1>1, <2>1, HandStep
<1>5. QED
  BY <1>1, <1>2, <1>3, <1>4

\* Switching an inbound on or off changes no key, port or secret.
LEMMA ToggleStep ==
    ASSUME ResourceInv, NEW i \in Inbounds, Toggle(i)
    PROVE  ResourceInv'
<1> USE DEF ResourceInv, Toggle
<1>1. ShapeInv' /\ BoundInv'
  BY DEF ShapeInv, BoundInv, Inbound
<1>2. \A j \in DOMAIN inbounds : /\ inbounds'[j].type = inbounds[j].type
                                 /\ inbounds'[j].port = inbounds[j].port
                                 /\ inbounds'[j].key = inbounds[j].key
  BY DEF ShapeInv, Inbound
<1>3. TypeOK'
  BY <1>1, <1>2 DEF TypeOK, ShapeInv, PortFree, Inbound
<1>4. AgeInv'
  BY <1>2 DEF AgeInv, Earlier
<1>5. KeyInv'
  BY <1>2, KeysStay DEF Holders, Known
<1>6. CredentialsFit' /\ RevokedStays'
  BY <1>2 DEF CredentialsFit, RevokedStays, Type, BoundInv
<1>7. HandInv'
  <2>1. \A l \in handed : Stands(l)'
    BY <1>2 DEF HandInv, Stands, Type, Link, BoundInv
  <2>2. QED
    BY <1>1, <2>1, HandStep
<1>8. QED
  BY <1>3, <1>1, <1>4, <1>5, <1>6, <1>7

\* A new inbound takes a free port and, if it has a key, a new one.
LEMMA CreateInboundStep ==
    ASSUME ResourceInv, NEW i \in Inbounds, NEW protocol \in Protocols, NEW port \in Ports,
           CreateInbound(i, protocol, port)
    PROVE  ResourceInv'
<1> USE DEF ResourceInv, CreateInbound
<1>1. /\ i \notin DOMAIN inbounds
      /\ DOMAIN inbounds' = DOMAIN inbounds \cup {i}
      /\ \A j \in DOMAIN inbounds : inbounds'[j] = inbounds[j]
      /\ inbounds'[i] = [type |-> protocol, port |-> port, enabled |-> TRUE,
                         key |-> NewKey(protocol)]
      /\ UNCHANGED <<clients, active, drafts, retyped, revoked>>
      /\ ops' = ops + 1 /\ used' = used \cup {i} /\ PortFree(port, i)
  BY DEF ShapeInv
<1>2. NewKey(protocol) \in Nat /\ Earlier \subseteq Earlier' /\ NewKey(protocol) \in Earlier'
  BY TimePasses DEF NewKey, AgeInv
<1> HIDE DEF CreateInbound
<1>3. ShapeInv' /\ BoundInv'
  <2>1. inbounds' \in [DOMAIN inbounds' -> Inbound]
    BY <1>1, <1>2 DEF CreateInbound, ShapeInv, Inbound
  <2>2. QED
    BY <1>1, <2>1 DEF ShapeInv, BoundInv
<1>4. TypeOK'
  BY <1>1, <1>3 DEF TypeOK, ShapeInv, AgeInv, PortFree, Inbound
<1>5. AgeInv'
  BY <1>1, <1>2, TimePasses DEF AgeInv
<1>6. KeyInv'
  <2>1. Coloured' /\ \A d \in drafts : Traced(d)'
    BY <1>1, KeysGrow DEF Holders, Known
  <2>2. QED
    BY <1>1, <2>1 DEF KeyInv
<1>7. CredentialsFit' /\ RevokedStays'
  BY <1>1 DEF CredentialsFit, RevokedStays, Type, BoundInv
<1>8. HandInv'
  <2>1. \A l \in handed : Stands(l)'
    BY <1>1 DEF HandInv, Stands, Type, Link, BoundInv
  <2>2. QED
    BY <1>3, <2>1, HandStep DEF CreateInbound
<1>9. QED
  BY <1>3, <1>4, <1>5, <1>6, <1>7, <1>8

\* An edit reads the store: its draft has the key it read or a new one.
LEMMA BeginEditStep ==
    ASSUME ResourceInv, NEW i \in Inbounds, NEW protocol \in Protocols, NEW port \in Ports,
           NEW keys \in Asked, BeginEdit(i, protocol, port, keys)
    PROVE  ResourceInv'
<1>1. PICK d0 :
        /\ d0 = [inbound |-> i, type |-> protocol, port |-> port, keys |-> keys,
                 key |-> EditedKey(i, protocol, keys), read |-> inbounds[i].key]
        /\ drafts' = drafts \cup {d0}
  BY DEF BeginEdit
<1>2. /\ i \in DOMAIN inbounds /\ ops' = ops + 1
      /\ UNCHANGED <<inbounds, clients, used, active, retyped, handed, revoked>>
  BY DEF BeginEdit
<1>3. TypeOK /\ ShapeInv /\ BoundInv /\ AgeInv /\ KeyInv /\ CredentialsFit
  BY DEF ResourceInv
<1>4. inbounds[i].key \in Earlier /\ Earlier \subseteq Nat
  BY <1>2, <1>3 DEF AgeInv, Earlier
<1>5. \/ protocol = Type(i) /\ d0.key = inbounds[i].key
      \/ d0.key = NewKey(protocol)
  BY <1>1 DEF EditedKey
<1>6. /\ NewKey(protocol) \in Nat /\ NewKey(protocol) \in Earlier'
      /\ Earlier \subseteq Earlier'
  BY <1>2, <1>3, TimePasses DEF NewKey, AgeInv
<1>7. TypeOK'
  BY <1>2, <1>3 DEF TypeOK, PortFree
<1>8. BoundInv' /\ CredentialsFit'
  BY <1>2, <1>3 DEF BoundInv, CredentialsFit, Type, Equipped
<1>9. RevokedStays' /\ HandInv'
  BY <1>2 DEF ResourceInv, RevokedStays, HandInv, Stands, Type, Link, Equipped
<1>10. ShapeInv'
  <2>1. d0 \in Draft /\ d0.inbound \in used
    BY <1>1, <1>2, <1>3, <1>4, <1>5, <1>6 DEF Draft, ShapeInv
  <2>2. QED
    BY <1>1, <1>2, <1>3, <2>1 DEF ShapeInv
<1>11. AgeInv'
  <2>1. d0.key \in Earlier' /\ d0.read \in Earlier'
    BY <1>1, <1>4, <1>5, <1>6
  <2>2. QED
    BY <1>1, <1>2, <1>3, <1>6, <2>1 DEF AgeInv
<1>12. KeyInv'
  <2>1. inbounds[i] \in Holders /\ d0.type = protocol /\ d0.read = inbounds[i].key
    BY <1>1, <1>2 DEF Holders
  <2>2. ASSUME NEW d \in drafts' PROVE Known(d, protocol)
    <3>1. CASE d \in drafts
      BY <3>1 DEF Holders, Known
    <3>2. CASE d = d0
      <4>1. \/ d.type = inbounds[i].type /\ d.key = inbounds[i].key
            \/ d.type = protocol /\ d.key = NewKey(protocol)
        BY <1>5, <2>1, <3>2 DEF Type
      <4>2. QED
        BY <2>1, <4>1 DEF Known
    <3>3. QED
      BY <1>1, <3>1, <3>2
  <2>3. \A j \in DOMAIN inbounds' : Known(inbounds'[j], protocol)
    BY <1>2 DEF Holders, Known
  <2>4. Coloured' /\ \A d \in drafts : Traced(d)'
    BY <1>3, <2>2, <2>3, KeysGrow
  <2>5. Traced(d0)'
    <3>1. CASE protocol = Type(i)
      BY <1>1, <3>1 DEF Traced, EditedKey, Keyed, Asked
    <3>2. CASE protocol # Type(i) /\ protocol \in Keyed
      <4>1. inbounds'[i] \in Holders' /\ d0.read = inbounds'[i].key /\ d0.type = protocol
        BY <1>1, <1>2 DEF Holders
      <4>2. \A x \in Holders' : x.key = d0.read => x.type # protocol
        BY <1>2, <2>4, <3>2, <4>1 DEF Coloured, Type
      <4>3. QED
        BY <4>1, <4>2 DEF Traced
    <3>3. CASE protocol \notin Keyed
      BY <2>1, <3>3 DEF Traced
    <3>4. QED
      BY <3>1, <3>2, <3>3
  <2>6. QED
    BY <1>1, <2>4, <2>5 DEF KeyInv
<1>13. QED
  BY <1>7, <1>8, <1>9, <1>10, <1>11, <1>12 DEF ResourceInv

\* The mutation of an edit; it breaks links only when it says so.
LEMMA EditStep ==
    ASSUME ResourceInv, NEW d \in drafts, NEW i, i = d.inbound, Edit(d)
    PROVE  ResourceInv'
<1>1. /\ drafts' = drafts \ {d} /\ i \in DOMAIN inbounds /\ PortFree(d.port, i)
      /\ UNCHANGED <<clients, used, active, revoked, ops>>
      /\ retyped' = IF d.type = Type(i) THEN retyped ELSE retyped \cup {i}
      /\ Hand(IF Breaks(d) THEN LinksOf(Clients, {i}) ELSE {})
  BY DEF Edit
<1>2. TypeOK /\ ShapeInv /\ BoundInv /\ AgeInv /\ KeyInv /\ CredentialsFit
  BY DEF ResourceInv
<1>3. d.type \in Protocols /\ d.port \in Ports /\ d.key \in Nat
  BY <1>2 DEF ShapeInv, Draft
<1>4. /\ inbounds' \in [DOMAIN inbounds -> Inbound] /\ DOMAIN inbounds' = DOMAIN inbounds
      /\ \A j \in DOMAIN inbounds : j # i => inbounds'[j] = inbounds[j]
      /\ inbounds'[i] = [type |-> d.type, port |-> d.port, enabled |-> inbounds[i].enabled,
                         key |-> d.key]
  <2>1. inbounds' = [inbounds EXCEPT ![i].type = d.type, ![i].port = d.port, ![i].key = d.key]
    BY DEF Edit
  <2>2. inbounds \in [DOMAIN inbounds -> Inbound] /\ i \in DOMAIN inbounds
    BY <1>1, <1>2 DEF ShapeInv
  <2>3. /\ DOMAIN inbounds' = DOMAIN inbounds
        /\ \A j \in DOMAIN inbounds : j # i => inbounds'[j] = inbounds[j]
    BY <2>1, <2>2
  <2>4. inbounds'[i] = [type |-> d.type, port |-> d.port, enabled |-> inbounds[i].enabled,
                       key |-> d.key]
    BY <2>1, <2>2 DEF Inbound
  <2>5. inbounds'[i] \in Inbound
    BY <1>3, <2>2, <2>4 DEF Inbound
  <2>6. inbounds' = [j \in DOMAIN inbounds |-> inbounds'[j]]
    BY <2>1, <2>2
  <2>7. QED
    BY <2>2, <2>3, <2>4, <2>5, <2>6
<1>5. TypeOK'
  <2>1. \A j \in DOMAIN inbounds' : PortFree(inbounds[j].port, j)'
    BY <1>1, <1>2, <1>4 DEF TypeOK, PortFree
  <2>2. QED
    BY <1>1, <1>2, <1>4, <2>1 DEF TypeOK, Inbound
<1>6. ShapeInv' /\ BoundInv'
  BY <1>1, <1>2, <1>4 DEF ShapeInv, BoundInv
<1>7. AgeInv'
  <2>1. d.key \in Earlier
    BY <1>2 DEF AgeInv
  <2>2. QED
    BY <1>1, <1>2, <1>4, <2>1 DEF AgeInv, Earlier
<1>8. KeyInv'
  <2>1. \A j \in DOMAIN inbounds' : Known(inbounds'[j], "tuic")
    BY <1>4 DEF Holders, Known
  <2>2. QED
    BY <1>1, <1>2, <2>1, KeysStay
<1>9. CredentialsFit' /\ RevokedStays'
  <2>1. CredentialsFit'
    BY <1>1, <1>2, <1>4 DEF CredentialsFit, Type, Equipped, BoundInv
  <2>2. RevokedStays'
    BY <1>1 DEF ResourceInv, RevokedStays
  <2>3. QED
    BY <2>1, <2>2
<1>10. ASSUME ~Breaks(d)
       PROVE  inbounds'[i].type = Type(i) /\ inbounds'[i].port = inbounds[i].port
              /\ inbounds'[i].key = inbounds[i].key
  <2>1. /\ d.type = Type(i) /\ d.port = inbounds[i].port /\ d.keys # "new"
        /\ ~(d.type = "shadowsocks2022" /\ d.keys = "left out") /\ d.read = inbounds[i].key
    BY <1>10 DEF Breaks, Type
  <2>2. inbounds[i] \in Holders /\ d \in Holders
    BY <1>1 DEF Holders
  <2>3. inbounds'[i].type = d.type /\ inbounds'[i].port = d.port /\ inbounds'[i].key = d.key
    BY <1>4
  <2>4. d.key = inbounds[i].key
    <3>1. CASE d.type \notin Keyed
      <4>1. d.key = 0
        BY <1>2, <2>2, <3>1 DEF KeyInv, Coloured
      <4>2. inbounds[i].key = 0
        BY <1>2, <2>1, <2>2, <3>1 DEF KeyInv, Coloured, Type
      <4>3. QED
        BY <4>1, <4>2
    <3>2. CASE d.type \in Keyed
      BY <1>2, <2>1, <2>2, <3>2 DEF KeyInv, Traced, Type
    <3>3. QED
      BY <3>1, <3>2
  <2>5. QED
    BY <2>1, <2>3, <2>4
<1>11. HandInv'
  <2>1. ASSUME NEW l \in handed \ (IF Breaks(d) THEN LinksOf(Clients, {i}) ELSE {})
        PROVE  Stands(l)'
    <3>1. Stands(l)
      BY DEF ResourceInv, HandInv
    <3>2. l.inbound = i => ~Breaks(d)
      BY <1>2, <3>1 DEF Stands, TypeOK, LinksOf
    <3>3. /\ inbounds'[l.inbound].type = Type(l.inbound)
          /\ inbounds'[l.inbound].port = inbounds[l.inbound].port
          /\ inbounds'[l.inbound].key = inbounds[l.inbound].key
      BY <1>2, <1>4, <1>10, <3>1, <3>2 DEF Stands, BoundInv, Type
    <3>4. QED
      BY <1>1, <3>1, <3>3 DEF Stands, Link, Type, Equipped
  <2>2. QED
    BY <1>1, <1>6, <2>1, HandStep
<1>12. QED
  BY <1>5, <1>6, <1>7, <1>8, <1>9, <1>11 DEF ResourceInv

\* Part of a function is a function.
LEMMA Parts ==
    ASSUME NEW S, NEW f \in Partial(S), NEW D, D \subseteq DOMAIN f
    PROVE  /\ Restrict(f, D) \in Partial(S) /\ DOMAIN Restrict(f, D) = D
           /\ \A x \in D : Restrict(f, D)[x] = f[x]
BY DEF Partial, Restrict

\* A deleted inbound is detached from every client.
LEMMA DeleteInboundStep ==
    ASSUME ResourceInv, NEW i \in Inbounds, DeleteInbound(i)
    PROVE  ResourceInv'
<1>1. /\ DOMAIN inbounds' = DOMAIN inbounds \ {i}
      /\ \A j \in DOMAIN inbounds' : inbounds'[j] = inbounds[j]
      /\ inbounds' = [j \in DOMAIN inbounds' |-> inbounds'[j]]
      /\ clients' = [c \in DOMAIN clients |-> Detached(clients[c], i)]
      /\ retyped' = retyped \ {i}
      /\ UNCHANGED <<used, active, drafts, revoked, ops>>
      /\ Hand(LinksOf(Clients, {i}))
  BY DEF DeleteInbound, Restrict
<1>2. TypeOK /\ ShapeInv /\ BoundInv /\ AgeInv /\ KeyInv /\ CredentialsFit
  BY DEF ResourceInv
<1>3. ASSUME NEW c \in DOMAIN clients
      PROVE  /\ clients'[c] \in Client
             /\ clients'[c].bound = clients[c].bound \ {i}
             /\ DOMAIN clients'[c].secrets = clients'[c].bound
             /\ \A j \in clients'[c].bound : clients'[c].secrets[j] = clients[c].secrets[j]
             /\ DOMAIN clients'[c].passwords = DOMAIN clients[c].passwords \ {i}
  <2>1. clients[c] \in Client /\ DOMAIN clients[c].secrets = clients[c].bound
    BY <1>2 DEF ShapeInv, BoundInv
  <2>2. clients[c].secrets \in Partial(Secret) /\ clients[c].passwords \in Partial(Nat)
    BY <2>1 DEF Client
  <2>3. /\ clients'[c].bound = clients[c].bound \ {i}
        /\ clients'[c].secrets = Restrict(clients[c].secrets, DOMAIN clients[c].secrets \ {i})
        /\ clients'[c].passwords = Restrict(clients[c].passwords, DOMAIN clients[c].passwords \ {i})
        /\ clients'[c] = [bound |-> clients'[c].bound, secrets |-> clients'[c].secrets,
                          passwords |-> clients'[c].passwords]
    BY <1>1 DEF Detached
  <2>4. clients'[c].secrets \in Partial(Secret) /\ clients'[c].passwords \in Partial(Nat)
    BY <2>2, <2>3, Parts
  <2>5. clients'[c] \in Client
    BY <2>1, <2>3, <2>4 DEF Client
  <2>6. QED
    BY <2>1, <2>2, <2>3, <2>5, Parts
<1>4. DOMAIN clients' = DOMAIN clients /\ clients' \in [DOMAIN clients' -> Client]
  BY <1>1, <1>3
<1>5. ShapeInv'
  <2>1. inbounds' \in [DOMAIN inbounds' -> Inbound]
    BY <1>1, <1>2 DEF ShapeInv
  <2>2. QED
    BY <1>1, <1>2, <1>4, <2>1 DEF ShapeInv
<1>6. BoundInv'
  BY <1>1, <1>2, <1>3, <1>4 DEF BoundInv
<1>7. TypeOK'
  <2>1. \A c \in DOMAIN clients' : /\ clients'[c].bound \subseteq Inbounds
                                   /\ clients'[c].secrets \in [DOMAIN clients'[c].secrets -> Secret]
    BY <1>3, <1>4 DEF Client, Partial
  <2>2. \A j \in DOMAIN inbounds' : PortFree(inbounds[j].port, j)'
    BY <1>1, <1>2 DEF TypeOK, PortFree
  <2>3. QED
    BY <1>1, <1>2, <1>4, <1>6, <2>1, <2>2 DEF TypeOK, BoundInv
<1>8. AgeInv'
  BY <1>1, <1>2, <1>3, <1>4 DEF AgeInv, Earlier
<1>9. KeyInv'
  <2>1. \A j \in DOMAIN inbounds' : Known(inbounds'[j], "tuic")
    BY <1>1 DEF Holders, Known
  <2>2. QED
    BY <1>1, <1>2, <2>1, KeysStay
<1>10. CredentialsFit'
  BY <1>1, <1>2, <1>3, <1>4 DEF CredentialsFit, Equipped, Type, BoundInv
<1>11. RevokedStays'
  BY <1>1, <1>2, <1>3, <1>4 DEF ResourceInv, RevokedStays, BoundInv
<1>12. HandInv'
  <2>1. ASSUME NEW l \in handed \ LinksOf(Clients, {i}) PROVE Stands(l)'
    <3>1. Stands(l)
      BY DEF ResourceInv, HandInv
    <3>2. l.inbound # i
      BY <1>2, <3>1 DEF Stands, TypeOK, LinksOf
    <3>3. QED
      BY <1>1, <1>2, <1>3, <1>4, <3>1, <3>2 DEF Stands, Link, Type, Equipped, BoundInv
  <2>2. QED
    BY <1>1, <1>6, <2>1, HandStep
<1>13. QED
  BY <1>5, <1>6, <1>7, <1>8, <1>9, <1>10, <1>11, <1>12 DEF ResourceInv

\* A step that changes clients keeps the invariants if every client is proper
\* and suited after it, and each secret it has is new or was its own before.
LEMMA ClientsChange ==
    ASSUME ResourceInv, ops' = ops \/ ops' = ops + 1,
           inbounds' = inbounds, drafts' \subseteq drafts, retyped' \subseteq retyped,
           used \subseteq used', used' \subseteq Inbounds \cup Clients,
           clients' = [c \in DOMAIN clients' |-> clients'[c]],
           DOMAIN clients' \subseteq Clients \cap used', active' \subseteq DOMAIN clients',
           \A c \in DOMAIN clients' : Proper(clients[c])' /\ Suited(clients[c])',
           \A r \in revoked' : r.client \in used' /\ r.secret.made \in Earlier,
           \A c \in DOMAIN clients' : \A i \in DOMAIN clients'[c].secrets :
             \/ clients'[c].secrets[i].made = ops
             \/ /\ c \in DOMAIN clients /\ i \in DOMAIN clients[c].secrets
                /\ clients'[c].secrets[i] = clients[c].secrets[i]
                /\ \A r \in revoked' \ revoked : r.client # c \/ r.inbound # i
    PROVE  TypeOK' /\ ShapeInv' /\ BoundInv' /\ AgeInv' /\ KeyInv' /\ CredentialsFit'
           /\ RevokedStays'
<1>1. TypeOK /\ ShapeInv /\ BoundInv /\ AgeInv /\ KeyInv /\ CredentialsFit /\ RevokedStays
  BY DEF ResourceInv
<1>2. Earlier \subseteq Earlier' /\ ops' \in Nat \ {0} /\ ops \notin Earlier
  BY <1>1, TimePasses
<1>3. ShapeInv' /\ BoundInv'
  BY <1>1 DEF ShapeInv, BoundInv, Proper
<1>4. TypeOK'
  <2>1. \A c \in DOMAIN clients' : /\ clients'[c].bound \subseteq Inbounds
                                   /\ clients'[c].secrets \in [DOMAIN clients'[c].secrets -> Secret]
    BY DEF Proper, Client, Partial
  <2>2. QED
    BY <1>1, <1>2, <1>3, <2>1 DEF TypeOK, BoundInv, PortFree
<1>5. AgeInv'
  BY <1>1, <1>2 DEF AgeInv, Proper
<1>6. KeyInv'
  <2>1. \A j \in DOMAIN inbounds' : Known(inbounds'[j], "tuic")
    BY DEF Holders, Known
  <2>2. QED
    BY <1>1, <2>1, KeysStay
<1>7. CredentialsFit'
  BY DEF CredentialsFit, Suited
<1>8. RevokedStays'
  BY <1>1, <1>2 DEF RevokedStays
<1>9. QED
  BY <1>3, <1>4, <1>5, <1>6, <1>7, <1>8

\* A client the step leaves alone.
LEMMA Untouched ==
    ASSUME ResourceInv, ops' = ops \/ ops' = ops + 1, inbounds' = inbounds,
           retyped' = retyped, NEW c \in DOMAIN clients, clients'[c] = clients[c]
    PROVE  Proper(clients[c])' /\ Suited(clients[c])'
<1>1. ShapeInv /\ BoundInv /\ AgeInv /\ CredentialsFit
  BY DEF ResourceInv
<1>2. Earlier \subseteq Earlier'
  BY <1>1, TimePasses
<1>3. clients[c] \in Client
  BY <1>1 DEF ShapeInv
<1>4. Proper(clients[c])'
  BY <1>1, <1>2, <1>3 DEF Proper, BoundInv, AgeInv
<1>5. Suited(clients[c])'
  BY <1>1 DEF Suited, CredentialsFit, Equipped, Type
<1>6. QED
  BY <1>4, <1>5

\* The link of a client that keeps the secret and the password of an inbound.
LEMMA LinkStays ==
    ASSUME inbounds' = inbounds, NEW l, Stands(l), l.client \in DOMAIN clients',
           l.inbound \in clients'[l.client].bound,
           l.inbound \in DOMAIN clients'[l.client].secrets,
           clients'[l.client].secrets[l.inbound] = clients[l.client].secrets[l.inbound],
           l.inbound \in DOMAIN clients[l.client].passwords
             => l.inbound \in DOMAIN clients'[l.client].passwords
    PROVE  Stands(l)'
BY DEF Stands, Link, Type, Equipped

\* What is withdrawn is old, and a secret of this client at one of the inbounds.
LEMMA Withdrawn ==
    ASSUME ResourceInv, NEW c \in DOMAIN clients, NEW ids, Withdraw(c, ids)
    PROVE  /\ \A r \in revoked' : r.client \in used /\ r.secret.made \in Earlier
           /\ \A r \in revoked' \ revoked : r.client = c /\ r.inbound \in ids
<1>1. ShapeInv /\ BoundInv /\ AgeInv
  BY DEF ResourceInv
<1>2. ASSUME NEW r \in revoked' \ revoked
      PROVE  r.client = c /\ r.inbound \in ids /\ r.secret.made \in Earlier
  <2>1. PICK i \in ids \cap DOMAIN clients[c].secrets :
           r = [client |-> c, inbound |-> i, secret |-> clients[c].secrets[i]]
    BY DEF Withdraw
  <2>2. clients[c].secrets[i].made \in Earlier
    BY <1>1 DEF BoundInv, AgeInv
  <2>3. QED
    BY <2>1, <2>2
<1>3. c \in used
  BY <1>1 DEF ShapeInv
<1>4. QED
  BY <1>1, <1>2, <1>3 DEF AgeInv

\* A deleted client takes its links and secrets with it.
LEMMA DeleteClientStep ==
    ASSUME ResourceInv, NEW c \in Clients, DeleteClient(c)
    PROVE  ResourceInv'
<1>1. /\ c \in DOMAIN clients /\ inbounds' = inbounds
      /\ DOMAIN clients' = DOMAIN clients \ {c}
      /\ \A k \in DOMAIN clients' : clients'[k] = clients[k]
      /\ clients' = [k \in DOMAIN clients' |-> clients'[k]]
      /\ active' = active \ {c} /\ UNCHANGED <<used, drafts, retyped, ops>>
      /\ Withdraw(c, Inbounds) /\ Hand(LinksOf({c}, Inbounds))
  BY DEF DeleteClient, Restrict
<1>2. /\ \A r \in revoked' : r.client \in used /\ r.secret.made \in Earlier
      /\ \A r \in revoked' \ revoked : r.client = c /\ r.inbound \in Inbounds
  BY <1>1, Withdrawn
<1>3. TypeOK /\ ShapeInv /\ BoundInv
  BY DEF ResourceInv
<1>4. \A k \in DOMAIN clients' : Proper(clients[k])' /\ Suited(clients[k])'
  BY <1>1, Untouched
<1>5. TypeOK' /\ ShapeInv' /\ BoundInv' /\ AgeInv' /\ KeyInv' /\ CredentialsFit' /\ RevokedStays'
  <2>1. /\ used' \subseteq Inbounds \cup Clients /\ active' \subseteq DOMAIN clients'
        /\ DOMAIN clients' \subseteq Clients \cap used'
    BY <1>1, <1>3 DEF TypeOK, ShapeInv
  <2>2. QED
    BY <1>1, <1>2, <1>4, <2>1, ClientsChange
<1>6. HandInv'
  <2>1. ASSUME NEW l \in handed \ LinksOf({c}, Inbounds) PROVE Stands(l)'
    <3>1. Stands(l)
      BY DEF ResourceInv, HandInv
    <3>2. l.client # c
      BY <1>1, <1>3, <3>1 DEF Stands, TypeOK, LinksOf
    <3>3. QED
      BY <1>1, <1>3, <3>1, <3>2, LinkStays DEF Stands, BoundInv
  <2>2. QED
    BY <1>1, <1>5, <2>1, HandStep
<1>7. QED
  BY <1>5, <1>6 DEF ResourceInv

\* A new client gets new secrets for the inbounds chosen.
LEMMA CreateClientStep ==
    ASSUME ResourceInv, NEW c \in Clients, NEW ids \in SUBSET Inbounds, CreateClient(c, ids)
    PROVE  ResourceInv'
<1>1. PICK new :
        /\ new = [bound |-> ids, secrets |-> [i \in ids |-> Fresh(Type(i))],
                  passwords |-> [i \in TUIC(ids) |-> ops]]
        /\ clients' = [k \in DOMAIN clients \cup {c} |-> IF k # c THEN clients[k] ELSE new]
  BY DEF CreateClient
<1>2. /\ c \notin used /\ used' = used \cup {c} /\ ids \subseteq DOMAIN inbounds
      /\ active' = active \cup {c} /\ inbounds' = inbounds /\ ops' = ops + 1
      /\ UNCHANGED <<drafts, retyped, revoked>> /\ Hand({})
  BY DEF CreateClient, Chosen
<1>3. TypeOK /\ ShapeInv /\ BoundInv /\ AgeInv
  BY DEF ResourceInv
<1>4. /\ DOMAIN clients' = DOMAIN clients \cup {c} /\ c \notin DOMAIN clients
      /\ clients' = [k \in DOMAIN clients' |-> clients'[k]]
      /\ \A k \in DOMAIN clients : clients'[k] = clients[k]
      /\ clients'[c] = new
  BY <1>1, <1>2, <1>3 DEF ShapeInv
<1>5. ops \in Nat /\ ops \in Earlier' /\ Earlier \subseteq Earlier'
  BY <1>2, <1>3, TimePasses DEF AgeInv
<1>6. /\ new.bound = ids /\ DOMAIN new.secrets = ids /\ DOMAIN new.passwords = TUIC(ids)
      /\ \A i \in ids : new.secrets[i] = Fresh(Type(i))
  BY <1>1
<1>7. new \in Client
  <2>1. \A i \in ids : Fresh(Type(i)) \in Secret
    BY <1>3, FreshSecret
  <2>2. [i \in ids |-> Fresh(Type(i))] \in Partial(Secret)
    BY <2>1 DEF Partial
  <2>3. [i \in TUIC(ids) |-> ops] \in Partial(Nat)
    <3>1. [i \in TUIC(ids) |-> ops] \in [TUIC(ids) -> Nat] /\ TUIC(ids) \subseteq ids
      BY <1>5 DEF TUIC
    <3>2. QED
      BY <3>1 DEF Partial
  <2>4. QED
    BY <1>1, <2>2, <2>3 DEF Client
<1>8. Proper(clients[c])'
  <2>1. \A i \in ids : new.secrets[i].made = ops
    BY <1>3, <1>6, FreshSecret
  <2>2. QED
    BY <1>2, <1>4, <1>5, <1>6, <1>7, <2>1 DEF Proper, TUIC
<1>9. Suited(clients[c])'
  <2>1. \A i \in ids : Fits(Fresh(Type(i)), Type(i))
    BY <1>3, FreshSecret
  <2>2. \A i \in ids : Type(i)' = Type(i)
    BY <1>2 DEF Type
  <2>3. QED
    BY <1>2, <1>4, <1>6, <2>1, <2>2 DEF Suited, Equipped, TUIC
<1>10. \A k \in DOMAIN clients' : Proper(clients[k])' /\ Suited(clients[k])'
  BY <1>2, <1>4, <1>8, <1>9, Untouched
<1>11. TypeOK' /\ ShapeInv' /\ BoundInv' /\ AgeInv' /\ KeyInv' /\ CredentialsFit' /\ RevokedStays'
  <2>1. /\ used' \subseteq Inbounds \cup Clients /\ active' \subseteq DOMAIN clients'
        /\ DOMAIN clients' \subseteq Clients \cap used'
    BY <1>2, <1>3, <1>4 DEF TypeOK, ShapeInv
  <2>2. \A r \in revoked' : r.client \in used' /\ r.secret.made \in Earlier
    BY <1>2, <1>3 DEF AgeInv
  <2>3. \A k \in DOMAIN clients' : \A i \in DOMAIN clients'[k].secrets :
           \/ clients'[k].secrets[i].made = ops
           \/ /\ k \in DOMAIN clients /\ i \in DOMAIN clients[k].secrets
              /\ clients'[k].secrets[i] = clients[k].secrets[i]
    BY <1>3, <1>4, <1>6, FreshSecret
  <2>4. QED
    BY <1>2, <1>4, <1>10, <2>1, <2>2, <2>3, ClientsChange
<1>12. HandInv'
  <2>1. ASSUME NEW l \in handed PROVE Stands(l)'
    <3>1. Stands(l)
      BY DEF ResourceInv, HandInv
    <3>2. QED
      BY <1>2, <1>3, <1>4, <3>1, LinkStays DEF Stands, BoundInv
  <2>2. QED
    BY <1>2, <1>11, <2>1, HandStep
<1>13. QED
  BY <1>11, <1>12 DEF ResourceInv

\* An updated client keeps the secrets of inbounds it stays bound to.
LEMMA UpdateClientStep ==
    ASSUME ResourceInv, NEW c \in Clients, NEW ids \in SUBSET Inbounds, UpdateClient(c, ids)
    PROVE  ResourceInv'
<1>1. PICK new : new = Updated(clients[c], ids) /\ clients' = [clients EXCEPT ![c] = new]
  BY DEF UpdateClient
<1>2. /\ c \in DOMAIN clients /\ ids \subseteq DOMAIN inbounds /\ inbounds' = inbounds
      /\ ops' = ops + 1 /\ UNCHANGED <<used, active, drafts, retyped>>
      /\ Withdraw(c, Inbounds \ ids) /\ Hand(LinksOf({c}, (Inbounds \ ids) \cup retyped))
  BY DEF UpdateClient, Chosen
<1>3. TypeOK /\ ShapeInv /\ BoundInv /\ AgeInv /\ CredentialsFit
  BY DEF ResourceInv
<1>4. /\ DOMAIN clients' = DOMAIN clients
      /\ clients' = [k \in DOMAIN clients' |-> clients'[k]]
      /\ \A k \in DOMAIN clients : k # c => clients'[k] = clients[k]
      /\ clients'[c] = new
  BY <1>1, <1>2, <1>3 DEF ShapeInv
<1>5. ops \in Nat /\ ops \in Earlier' /\ Earlier \subseteq Earlier'
  BY <1>2, <1>3, TimePasses DEF AgeInv
<1>6. PICK kept :
        /\ kept = {i \in ids \cap DOMAIN clients[c].secrets : Type(i) = "tuic" =>
                      clients[c].secrets[i].kind = "uuid" /\ i \in DOMAIN clients[c].passwords}
        /\ new = [bound |-> ids,
                  secrets |-> [i \in ids |-> IF i \in kept THEN clients[c].secrets[i]
                                                          ELSE Fresh(Type(i))],
                  passwords |-> [i \in TUIC(ids) |-> IF i \in kept THEN clients[c].passwords[i]
                                                                 ELSE ops]]
  BY <1>1 DEF Updated
<1>7. /\ new.bound = ids /\ DOMAIN new.secrets = ids /\ DOMAIN new.passwords = TUIC(ids)
      /\ \A i \in ids : new.secrets[i] = IF i \in kept THEN clients[c].secrets[i]
                                                       ELSE Fresh(Type(i))
  BY <1>6
<1>8. clients[c] \in Client /\ DOMAIN clients[c].secrets = clients[c].bound
  BY <1>2, <1>3 DEF ShapeInv, BoundInv
<1>9. new \in Client
  <2>1. clients[c].secrets \in Partial(Secret) /\ clients[c].passwords \in Partial(Nat)
    BY <1>8 DEF Client
  <2>2. /\ \A i \in DOMAIN clients[c].secrets : clients[c].secrets[i] \in Secret
        /\ \A i \in DOMAIN clients[c].passwords : clients[c].passwords[i] \in Nat
    BY <2>1 DEF Partial
  <2>3. \A i \in ids : Fresh(Type(i)) \in Secret
    BY <1>3, FreshSecret
  <2>4. new.secrets \in [ids -> Secret]
    BY <1>6, <2>2, <2>3
  <2>5. new.passwords \in [TUIC(ids) -> Nat] /\ TUIC(ids) \subseteq ids
    BY <1>5, <1>6, <2>2 DEF TUIC
  <2>6. new.secrets \in Partial(Secret) /\ new.passwords \in Partial(Nat)
    BY <2>4, <2>5 DEF Partial
  <2>7. QED
    BY <1>6, <2>6 DEF Client
<1>10. \A i \in ids : \/ new.secrets[i].made = ops
                      \/ i \in DOMAIN clients[c].secrets /\ new.secrets[i] = clients[c].secrets[i]
  BY <1>3, <1>6, <1>7, FreshSecret
<1>11. Proper(clients[c])'
  <2>1. \A i \in ids : new.secrets[i].made \in Earlier'
    BY <1>2, <1>3, <1>5, <1>8, <1>10 DEF AgeInv
  <2>2. QED
    BY <1>2, <1>4, <1>7, <1>9, <2>1 DEF Proper, TUIC
<1>12. Suited(clients[c])'
  <2>1. \A i \in ids : Fits(Fresh(Type(i)), Type(i))
    BY <1>3, FreshSecret
  <2>2. \A i \in kept \ retyped : Fits(clients[c].secrets[i], Type(i))
    BY <1>2, <1>3, <1>6, <1>8 DEF CredentialsFit
  <2>3. \A i \in ids \ retyped : Fits(new.secrets[i], Type(i))
    BY <1>7, <2>1, <2>2
  <2>4. \A i \in ids : Type(i)' = Type(i)
    BY <1>2 DEF Type
  <2>5. QED
    BY <1>2, <1>4, <1>7, <2>3, <2>4 DEF Suited, Equipped, TUIC
<1>13. \A k \in DOMAIN clients' : Proper(clients[k])' /\ Suited(clients[k])'
  BY <1>2, <1>4, <1>11, <1>12, Untouched
<1>14. TypeOK' /\ ShapeInv' /\ BoundInv' /\ AgeInv' /\ KeyInv' /\ CredentialsFit' /\ RevokedStays'
  <2>1. /\ used' \subseteq Inbounds \cup Clients /\ active' \subseteq DOMAIN clients'
        /\ DOMAIN clients' \subseteq Clients \cap used'
    BY <1>2, <1>3, <1>4 DEF TypeOK, ShapeInv
  <2>2. /\ \A r \in revoked' : r.client \in used' /\ r.secret.made \in Earlier
        /\ \A r \in revoked' \ revoked : r.client = c /\ r.inbound \in Inbounds \ ids
    BY <1>2, Withdrawn
  <2>3. \A k \in DOMAIN clients' : \A i \in DOMAIN clients'[k].secrets :
           \/ clients'[k].secrets[i].made = ops
           \/ /\ k \in DOMAIN clients /\ i \in DOMAIN clients[k].secrets
              /\ clients'[k].secrets[i] = clients[k].secrets[i]
              /\ \A r \in revoked' \ revoked : r.client # k \/ r.inbound # i
    BY <1>4, <1>7, <1>10, <2>2
  <2>4. QED
    BY <1>2, <1>4, <1>13, <2>1, <2>2, <2>3, ClientsChange
<1>15. HandInv'
  <2>1. ASSUME NEW l \in handed \ LinksOf({c}, (Inbounds \ ids) \cup retyped)
        PROVE  Stands(l)'
    <3>1. Stands(l)
      BY DEF ResourceInv, HandInv
    <3>2. CASE l.client # c
      BY <1>2, <1>3, <1>4, <3>1, <3>2, LinkStays DEF Stands, BoundInv
    <3>3. CASE l.client = c
      <4>1. l.inbound \in ids \ retyped
        BY <1>3, <3>1, <3>3 DEF Stands, TypeOK, LinksOf
      <4>2. l.inbound \in kept
        BY <1>2, <1>3, <1>6, <1>8, <3>1, <3>3, <4>1
           DEF Stands, CredentialsFit, Equipped, Fits, Kind
      <4>3. QED
        BY <1>2, <1>4, <1>7, <3>1, <3>3, <4>1, <4>2 DEF Stands, Link, Type, Equipped, TUIC
    <3>4. QED
      BY <3>2, <3>3
  <2>2. QED
    BY <1>2, <1>14, <2>1, HandStep
<1>16. QED
  BY <1>14, <1>15 DEF ResourceInv

\* Rotation replaces every secret of a client and withdraws the old ones.
LEMMA RotateStep ==
    ASSUME ResourceInv, NEW c \in Clients, Rotate(c)
    PROVE  ResourceInv'
<1>1. PICK new : new = Rotated(clients[c]) /\ clients' = [clients EXCEPT ![c] = new]
  BY DEF Rotate
<1>2. /\ c \in DOMAIN clients /\ inbounds' = inbounds
      /\ ops' = ops + 1 /\ UNCHANGED <<used, active, drafts, retyped>>
      /\ Withdraw(c, Inbounds) /\ Hand(LinksOf({c}, Inbounds))
  BY DEF Rotate
<1>3. TypeOK /\ ShapeInv /\ BoundInv /\ AgeInv /\ CredentialsFit
  BY DEF ResourceInv
<1>4. /\ DOMAIN clients' = DOMAIN clients
      /\ clients' = [k \in DOMAIN clients' |-> clients'[k]]
      /\ \A k \in DOMAIN clients : k # c => clients'[k] = clients[k]
      /\ clients'[c] = new
  BY <1>1, <1>2, <1>3 DEF ShapeInv
<1>5. ops \in Nat /\ ops \in Earlier' /\ Earlier \subseteq Earlier'
  BY <1>2, <1>3, TimePasses DEF AgeInv
<1>6. /\ clients[c] \in Client /\ DOMAIN clients[c].secrets = clients[c].bound
      /\ clients[c].bound \subseteq DOMAIN inbounds /\ clients[c].bound \subseteq Inbounds
  BY <1>2, <1>3 DEF ShapeInv, BoundInv, TypeOK
<1>7. PICK ids : ids = clients[c].bound
  OBVIOUS
<1>8. /\ new.bound = ids
      /\ new.secrets = [i \in ids |-> Fresh(Type(i))]
      /\ new.passwords = [i \in TUIC(ids) |-> ops]
      /\ new = [bound |-> new.bound, secrets |-> new.secrets, passwords |-> new.passwords]
  BY <1>1, <1>6, <1>7 DEF Rotated, Client
<1>9. \A i \in ids : /\ new.secrets[i] \in Secret /\ new.secrets[i].made = ops
                     /\ Fits(new.secrets[i], Type(i))
  BY <1>3, <1>8, FreshSecret
<1>10. DOMAIN new.secrets = ids /\ DOMAIN new.passwords = TUIC(ids)
  BY <1>8
<1>11. new \in Client
  <2>1. new.secrets \in [ids -> Secret]
    BY <1>8, <1>9
  <2>2. new.passwords \in [TUIC(ids) -> Nat] /\ TUIC(ids) \subseteq ids
    BY <1>5, <1>8 DEF TUIC
  <2>3. new.secrets \in Partial(Secret) /\ new.passwords \in Partial(Nat)
    BY <1>6, <1>7, <2>1, <2>2 DEF Partial
  <2>4. QED
    BY <1>6, <1>7, <1>8, <2>3 DEF Client
<1>12. Proper(clients[c])'
  BY <1>2, <1>4, <1>5, <1>6, <1>7, <1>8, <1>9, <1>10, <1>11 DEF Proper, TUIC
<1>13. Suited(clients[c])'
  <2>1. \A i \in ids : Type(i)' = Type(i)
    BY <1>2 DEF Type
  <2>2. QED
    BY <1>2, <1>4, <1>6, <1>7, <1>8, <1>9, <1>10, <2>1 DEF Suited, Equipped, TUIC
<1>14. \A k \in DOMAIN clients' : Proper(clients[k])' /\ Suited(clients[k])'
  BY <1>2, <1>4, <1>12, <1>13, Untouched
<1>15. TypeOK' /\ ShapeInv' /\ BoundInv' /\ AgeInv' /\ KeyInv' /\ CredentialsFit' /\ RevokedStays'
  <2>1. /\ used' \subseteq Inbounds \cup Clients /\ active' \subseteq DOMAIN clients'
        /\ DOMAIN clients' \subseteq Clients \cap used'
    BY <1>2, <1>3, <1>4 DEF TypeOK, ShapeInv
  <2>2. /\ \A r \in revoked' : r.client \in used' /\ r.secret.made \in Earlier
        /\ \A r \in revoked' \ revoked : r.client = c /\ r.inbound \in Inbounds
    BY <1>2, Withdrawn
  <2>3. \A k \in DOMAIN clients' : \A i \in DOMAIN clients'[k].secrets :
           \/ clients'[k].secrets[i].made = ops
           \/ /\ k \in DOMAIN clients /\ i \in DOMAIN clients[k].secrets
              /\ clients'[k].secrets[i] = clients[k].secrets[i]
              /\ \A r \in revoked' \ revoked : r.client # k \/ r.inbound # i
    BY <1>4, <1>9, <1>10, <2>2
  <2>4. QED
    BY <1>2, <1>4, <1>14, <2>1, <2>2, <2>3, ClientsChange
<1>16. HandInv'
  <2>1. ASSUME NEW l \in handed \ LinksOf({c}, Inbounds) PROVE Stands(l)'
    <3>1. Stands(l)
      BY DEF ResourceInv, HandInv
    <3>2. l.client # c
      BY <1>2, <1>3, <3>1 DEF Stands, TypeOK, LinksOf
    <3>3. QED
      BY <1>2, <1>3, <1>4, <3>1, <3>2, LinkStays DEF Stands, BoundInv
  <2>2. QED
    BY <1>2, <1>15, <2>1, HandStep
<1>17. QED
  BY <1>15, <1>16 DEF ResourceInv

\* A client as New leaves it.
LEMMA NormalizedClient ==
    ASSUME ResourceInv, NEW c \in DOMAIN clients, NEW new, new = Normalized(clients[c])
    PROVE  /\ new \in Client /\ new.bound = clients[c].bound
           /\ DOMAIN new.secrets = new.bound /\ DOMAIN new.passwords \subseteq new.bound
           /\ DOMAIN clients[c].passwords \subseteq DOMAIN new.passwords
           /\ TUIC(new.bound) \subseteq DOMAIN new.passwords
           /\ \A i \in new.bound : Fits(new.secrets[i], Type(i))
           /\ \A i \in new.bound : \/ new.secrets[i].made = ops
                                  \/ new.secrets[i] = clients[c].secrets[i]
           /\ \A i \in new.bound : Fits(clients[c].secrets[i], Type(i))
                                    => new.secrets[i] = clients[c].secrets[i]
<1>1. ShapeInv /\ BoundInv /\ AgeInv
  BY DEF ResourceInv
<1>2. /\ clients[c] \in Client /\ DOMAIN clients[c].secrets = clients[c].bound
      /\ DOMAIN clients[c].passwords \subseteq clients[c].bound
  BY <1>1 DEF ShapeInv, BoundInv
<1>3. PICK ids : ids = clients[c].bound
  OBVIOUS
<1>4. PICK missing : missing = TUIC(ids) \ DOMAIN clients[c].passwords
  OBVIOUS
<1>5. /\ new.bound = ids
      /\ new.secrets = [i \in ids |-> IF Fits(clients[c].secrets[i], Type(i))
                                      THEN clients[c].secrets[i] ELSE Fresh(Type(i))]
      /\ new.passwords = [i \in DOMAIN clients[c].passwords \cup missing |->
                            IF i \in missing THEN ops ELSE clients[c].passwords[i]]
      /\ new = [bound |-> new.bound, secrets |-> new.secrets, passwords |-> new.passwords]
  BY <1>2, <1>3, <1>4 DEF Normalized, Client
<1>6. TUIC(ids) \subseteq ids
  BY DEF TUIC
<1>7. \A i \in ids : /\ Fits(Fresh(Type(i)), Type(i)) /\ Fresh(Type(i)).made = ops
                     /\ Fresh(Type(i)) \in Secret
  BY <1>1, FreshSecret
<1>8. new \in Client
  <2>1. clients[c].secrets \in Partial(Secret) /\ clients[c].passwords \in Partial(Nat)
        /\ ids \subseteq Inbounds /\ ops \in Nat
    BY <1>1, <1>2, <1>3 DEF Client, AgeInv
  <2>2. /\ \A i \in ids : clients[c].secrets[i] \in Secret
        /\ \A i \in DOMAIN clients[c].passwords : clients[c].passwords[i] \in Nat
    BY <1>2, <1>3, <2>1 DEF Partial
  <2>3. new.secrets \in [ids -> Secret]
    BY <1>5, <1>7, <2>2
  <2>4. new.passwords \in [DOMAIN clients[c].passwords \cup missing -> Nat]
    BY <1>5, <2>1, <2>2
  <2>5. DOMAIN clients[c].passwords \cup missing \subseteq Inbounds
    BY <1>2, <1>3, <1>4, <1>6, <2>1
  <2>6. new.secrets \in Partial(Secret) /\ new.passwords \in Partial(Nat)
    BY <2>1, <2>3, <2>4, <2>5 DEF Partial
  <2>7. QED
    BY <1>5, <2>1, <2>6 DEF Client
<1>9. /\ DOMAIN new.secrets = ids
      /\ DOMAIN new.passwords = DOMAIN clients[c].passwords \cup missing
      /\ \A i \in ids : new.secrets[i] = IF Fits(clients[c].secrets[i], Type(i))
                                      THEN clients[c].secrets[i] ELSE Fresh(Type(i))
  BY <1>5
<1>10. new.bound = ids
  BY <1>5
<1>11. QED
  BY <1>2, <1>3, <1>4, <1>6, <1>7, <1>8, <1>9, <1>10

\* A restart replaces exactly the secrets that do not suit their protocol.
LEMMA PanelRestartStep ==
    ASSUME ResourceInv, PanelRestart
    PROVE  ResourceInv'
<1>1. /\ inbounds' = inbounds /\ clients' = [c \in DOMAIN clients |-> Normalized(clients[c])]
      /\ drafts' = {} /\ retyped' = {} /\ UNCHANGED <<used, active, revoked>>
      /\ ops' = ops + 1 /\ Hand(LinksOf(Clients, retyped))
  BY DEF PanelRestart
<1>2. TypeOK /\ ShapeInv /\ BoundInv /\ AgeInv /\ CredentialsFit
  BY DEF ResourceInv
<1>3. ops \in Nat /\ ops \in Earlier' /\ Earlier \subseteq Earlier'
  BY <1>1, <1>2, TimePasses DEF AgeInv
<1>4. /\ DOMAIN clients' = DOMAIN clients
      /\ clients' = [c \in DOMAIN clients' |-> clients'[c]]
      /\ \A c \in DOMAIN clients : clients'[c] = Normalized(clients[c])
  BY <1>1
<1>5. ASSUME NEW c \in DOMAIN clients
      PROVE  /\ Proper(clients[c])' /\ Suited(clients[c])'
             /\ clients'[c].bound = clients[c].bound
             /\ DOMAIN clients'[c].secrets = clients[c].bound
             /\ DOMAIN clients[c].passwords \subseteq DOMAIN clients'[c].passwords
             /\ \A i \in clients[c].bound : \/ clients'[c].secrets[i].made = ops
                                           \/ clients'[c].secrets[i] = clients[c].secrets[i]
             /\ \A i \in clients[c].bound : Fits(clients[c].secrets[i], Type(i))
                                => clients'[c].secrets[i] = clients[c].secrets[i]
  <2>1. PICK new : new = Normalized(clients[c])
    OBVIOUS
  <2>2. /\ new \in Client /\ new.bound = clients[c].bound
        /\ DOMAIN new.secrets = new.bound /\ DOMAIN new.passwords \subseteq new.bound
        /\ DOMAIN clients[c].passwords \subseteq DOMAIN new.passwords
        /\ TUIC(new.bound) \subseteq DOMAIN new.passwords
    BY <2>1, NormalizedClient
  <2>3. \A i \in new.bound : Fits(new.secrets[i], Type(i))
    BY <2>1, NormalizedClient
  <2>4. \A i \in new.bound : new.secrets[i].made = ops \/ new.secrets[i] = clients[c].secrets[i]
    BY <2>1, NormalizedClient
  <2>5. \A i \in new.bound : Fits(clients[c].secrets[i], Type(i))
                             => new.secrets[i] = clients[c].secrets[i]
    BY <2>1, NormalizedClient
  <2>6. clients'[c] = new
    BY <1>4, <2>1
  <2>7. \A i \in new.bound : new.secrets[i].made \in Earlier'
    BY <1>2, <1>3, <2>2, <2>4 DEF AgeInv
  <2>8. Proper(clients[c])'
    BY <1>1, <1>2, <2>2, <2>6, <2>7 DEF Proper, BoundInv
  <2>9. Suited(clients[c])'
    <3>1. \A i \in new.bound : Type(i)' = Type(i) /\ i \in DOMAIN inbounds'
      BY <1>1, <1>2, <2>2 DEF Type, BoundInv
    <3>2. \A i \in new.bound : Type(i) = "tuic" => i \in DOMAIN new.passwords
      BY <2>2 DEF TUIC
    <3>3. QED
      BY <2>2, <2>3, <2>6, <3>1, <3>2 DEF Suited, Equipped
  <2>10. QED
    BY <2>2, <2>4, <2>5, <2>6, <2>8, <2>9
<1>6. TypeOK' /\ ShapeInv' /\ BoundInv' /\ AgeInv' /\ KeyInv' /\ CredentialsFit' /\ RevokedStays'
  <2>1. /\ used' \subseteq Inbounds \cup Clients /\ active' \subseteq DOMAIN clients'
        /\ DOMAIN clients' \subseteq Clients \cap used'
        /\ drafts' \subseteq drafts /\ retyped' \subseteq retyped /\ used \subseteq used'
    BY <1>1, <1>2, <1>4 DEF TypeOK, ShapeInv
  <2>2. \A r \in revoked' : r.client \in used' /\ r.secret.made \in Earlier
    BY <1>1, <1>2 DEF AgeInv
  <2>3. \A k \in DOMAIN clients' : Proper(clients[k])' /\ Suited(clients[k])'
    BY <1>4, <1>5
  <2>4. \A k \in DOMAIN clients' : \A i \in DOMAIN clients'[k].secrets :
           \/ clients'[k].secrets[i].made = ops
           \/ /\ k \in DOMAIN clients /\ i \in DOMAIN clients[k].secrets
              /\ clients'[k].secrets[i] = clients[k].secrets[i]
              /\ \A r \in revoked' \ revoked : r.client # k \/ r.inbound # i
    BY <1>1, <1>2, <1>4, <1>5 DEF BoundInv
  <2>5. QED
    BY <1>1, <1>4, <2>1, <2>2, <2>3, <2>4, ClientsChange
<1>7. HandInv'
  <2>1. ASSUME NEW l \in handed \ LinksOf(Clients, retyped) PROVE Stands(l)'
    <3>1. Stands(l)
      BY DEF ResourceInv, HandInv
    <3>2. l.inbound \notin retyped /\ l.client \in DOMAIN clients
          /\ l.inbound \in clients[l.client].bound
      BY <1>2, <3>1 DEF Stands, TypeOK, LinksOf
    <3>3. clients'[l.client].secrets[l.inbound] = clients[l.client].secrets[l.inbound]
      BY <1>2, <1>5, <3>2 DEF CredentialsFit
    <3>4. QED
      BY <1>1, <1>4, <1>5, <3>1, <3>2, <3>3, LinkStays
  <2>2. QED
    BY <1>1, <1>6, <2>1, HandStep
<1>8. QED
  BY <1>6, <1>7 DEF ResourceInv

-----------------------------------------------------------------------------
(* The specification. *)

\* The empty store satisfies the invariant.
LEMMA ResourceInit == Init => ResourceInv
<1> SUFFICES ASSUME Init PROVE ResourceInv
  OBVIOUS
<1> USE DEF Init, Empty
<1>1. DOMAIN inbounds = {} /\ DOMAIN clients = {}
  OBVIOUS
<1>2. ShapeInv /\ BoundInv
  <2>1. inbounds \in [{} -> Inbound] /\ clients \in [{} -> Client]
    OBVIOUS
  <2>2. QED
    BY <1>1, <2>1 DEF ShapeInv, BoundInv
<1>3. TypeOK /\ CredentialsFit
  BY <1>1 DEF TypeOK, CredentialsFit
<1>4. AgeInv /\ RevokedStays /\ HandInv
  BY <1>1 DEF AgeInv, RevokedStays, HandInv
<1>5. KeyInv
  BY <1>1 DEF KeyInv, Coloured, Holders
<1>6. QED
  BY <1>2, <1>3, <1>4, <1>5 DEF ResourceInv

\* Every step keeps it.
LEMMA ResourceNext == ResourceInv /\ [Next]_vars => ResourceInv'
<1> SUFFICES ASSUME ResourceInv, [Next]_vars PROVE ResourceInv'
  OBVIOUS
<1>1. ASSUME NEW i \in Inbounds, InboundStep(i) PROVE ResourceInv'
  <2>1. ASSUME NEW protocol \in Protocols, NEW port \in Ports, NEW keys \in Asked,
               BeginEdit(i, protocol, port, keys)
        PROVE  ResourceInv'
    BY <2>1, BeginEditStep
  <2>2. QED
    BY <1>1, <2>1, CreateInboundStep, ToggleStep, DeleteInboundStep DEF InboundStep, Asked
<1>2. ASSUME NEW d \in drafts, Edit(d) PROVE ResourceInv'
  BY <1>2, EditStep
<1>3. ASSUME NEW c \in Clients, ClientStep(c) PROVE ResourceInv'
  BY <1>3, CreateClientStep, UpdateClientStep, RotateStep, DeleteClientStep, ActivityStep
     DEF ClientStep
<1>4. CASE PanelRestart
  BY <1>4, PanelRestartStep
<1>5. CASE UNCHANGED vars
  <2>1. UNCHANGED <<inbounds, clients, used, active, drafts, retyped, handed, revoked, ops>>
    BY <1>5 DEF vars
  <2>2. TypeOK' /\ ShapeInv' /\ BoundInv' /\ AgeInv'
    BY <2>1 DEF ResourceInv, TypeOK, PortFree, ShapeInv, BoundInv, AgeInv, Earlier
  <2>3. Holders' = Holders
    BY <2>1 DEF Holders
  <2>4. KeyInv'
    BY <2>1, <2>3 DEF ResourceInv, KeyInv, Coloured, Traced
  <2>5. CredentialsFit' /\ RevokedStays'
    BY <2>1 DEF ResourceInv, CredentialsFit, Equipped, Type, RevokedStays
  <2>6. HandInv'
    BY <2>1 DEF ResourceInv, HandInv, Stands, Link, Equipped, Type
  <2>7. QED
    BY <2>2, <2>4, <2>5, <2>6 DEF ResourceInv
<1>6. QED
  BY <1>1, <1>2, <1>3, <1>4, <1>5 DEF Next

\* Bindings and secrets name the same inbounds, so core and subscription agree.
LEMMA BoundAreServed == TypeOK /\ BoundInv => SubscriptionIsServed
<1> SUFFICES ASSUME TypeOK, BoundInv, NEW c \in active, NEW i \in DOMAIN inbounds
             PROVE  c \in Users(active, inbounds, clients, i) <=> \E l \in Links(c) : l.inbound = i
  BY DEF SubscriptionIsServed
<1>1. /\ c \in DOMAIN clients
      /\ i \in clients[c].bound <=> i \in DOMAIN clients[c].secrets
  BY DEF TypeOK, BoundInv
<1>2. ASSUME c \in Users(active, inbounds, clients, i)
      PROVE  \E l \in Links(c) : l.inbound = i
  <2>1. /\ i \in clients[c].bound /\ inbounds[i].enabled
        /\ Equipped(clients[c], i, inbounds[i].type)
    BY <1>1, <1>2 DEF Users, Equipped
  <2>2. Link(c, i) \in Links(c) /\ Link(c, i).inbound = i
    BY <2>1 DEF Links, Link, Type
  <2>3. QED
    BY <2>2
<1>3. ASSUME NEW l \in Links(c), l.inbound = i
      PROVE  c \in Users(active, inbounds, clients, i)
  <2>1. PICK j \in clients[c].bound : /\ l = Link(c, j) /\ inbounds[j].enabled
                                     /\ Equipped(clients[c], j, Type(j))
    BY <1>3 DEF Links
  <2>2. j = i
    BY <1>3, <2>1 DEF Link
  <2>3. QED
    BY <1>1, <2>1, <2>2 DEF Users, Type
<1>4. QED
  BY <1>2, <1>3

\* A link that stands works while its client is active and its inbound on.
LEMMA StandingWorks == BoundInv /\ HandInv => LinksLast
<1> SUFFICES ASSUME BoundInv, HandInv, NEW l \in handed
             PROVE  /\ l.inbound \in DOMAIN inbounds /\ l.client \in DOMAIN clients
                    /\ l.client \in active /\ inbounds[l.inbound].enabled => l \in Links(l.client)
  BY DEF LinksLast
<1>1. Stands(l)
  BY DEF HandInv
<1>2. l.client \in DOMAIN clients /\ l.inbound \in DOMAIN inbounds
  BY <1>1 DEF Stands, BoundInv
<1>3. ASSUME l.client \in active, inbounds[l.inbound].enabled PROVE l \in Links(l.client)
  BY <1>1, <1>2, <1>3 DEF Stands, Links
<1>4. QED
  BY <1>2, <1>3

\* The inductive invariant, for every instance.
THEOREM ResourcesCorrect == Spec => []ResourceInv
<1>1. Init => ResourceInv
  BY ResourceInit
<1>2. ResourceInv /\ [Next]_vars => ResourceInv'
  BY ResourceNext
<1>3. QED
  BY <1>1, <1>2, PTL DEF Spec

\* Every variable stays in its range and no two listeners share a port.
THEOREM ResourcesTypeCorrect == Spec => []TypeOK
<1>1. ResourceInv => TypeOK
  BY DEF ResourceInv
<1>2. QED
  BY <1>1, ResourcesCorrect, PTL

\* The core serves exactly the clients whose subscription offers the inbound.
THEOREM SubscriptionAgrees == Spec => []SubscriptionIsServed
<1>1. ResourceInv => SubscriptionIsServed
  BY BoundAreServed DEF ResourceInv
<1>2. QED
  BY <1>1, ResourcesCorrect, PTL

\* Secrets suit their inbounds, but for those whose protocol changed.
THEOREM SecretsSuit == Spec => []CredentialsFit
<1>1. ResourceInv => CredentialsFit
  BY DEF ResourceInv
<1>2. QED
  BY <1>1, ResourcesCorrect, PTL

\* A link handed out works until something that must break it.
THEOREM LinksKeepWorking == Spec => []LinksLast
<1>1. ResourceInv => LinksLast
  BY StandingWorks DEF ResourceInv
<1>2. QED
  BY <1>1, ResourcesCorrect, PTL

\* A withdrawn secret never works again.
THEOREM WithdrawnForGood == Spec => []RevokedStays
<1>1. ResourceInv => RevokedStays
  BY DEF ResourceInv
<1>2. QED
  BY <1>1, ResourcesCorrect, PTL
=============================================================================
