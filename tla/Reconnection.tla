----------------------------- MODULE Reconnection -----------------------------
(***************************************************************************)
(* How a Hub keeps track of where its paired peers are (internal/hub/      *)
(* hub.go): a connection that authenticated a peer shows its address, and  *)
(* a beacon from an address nobody is recorded at makes the Hub dial that  *)
(* address as each of its peers in turn.  Peers move between addresses.    *)
(***************************************************************************)
EXTENDS Integers, FiniteSets

CONSTANTS Hosts, Ports,
          Movers,            \* paired peers
          ReconcileMaxPeers, \* candidates of one attempt (8)
          MaxSightings,      \* bound: connections observed at a time
          MaxMoves           \* bound: moves of peers
ASSUME ReconnectionConstants == ReconcileMaxPeers \in Nat \ {0} /\ IsFiniteSet(Movers)

Endpoints == Hosts \X Ports
Host(a) == a[1]
PortOf(a) == a[2]

VARIABLES located,   \* [Movers -> where the peer listens]
          stored,    \* [Movers -> the address in the peer store]
          met,       \* [Movers -> where it has been while paired]
          tried,     \* endpoints inside the cooldown (90 s)
          attempts,  \* reconnection attempts: [addr, left]
          sightings, \* authenticated addresses not yet written: [peer, addr]
          moves
reconVars == <<located, stored, met, tried, attempts, sightings, moves>>

ReconnectionInit ==
    /\ located \in [Movers -> Endpoints] /\ stored = located
    /\ \A p, q \in Movers : p # q => located[p] # located[q]
    /\ met = [p \in Movers |-> {located[p]}]
    /\ tried = {} /\ attempts = {} /\ sightings = {} /\ moves = 0

MovePeer(p, a) ==
    /\ moves < MaxMoves /\ moves' = moves + 1
    /\ \A q \in Movers : located[q] # a
    /\ located' = [located EXCEPT ![p] = a] /\ met' = [met EXCEPT ![p] = @ \cup {a}]
    /\ UNCHANGED <<stored, tried, attempts, sightings>>

(* ------------------------------- beacons ------------------------------- *)

\* Hosts are compared, not endpoints.
HasPeerAtAddress(a) == \E q \in Movers : Host(stored[q]) = Host(a)

\* A beacon proposes the address of any machine.  The candidates are the peers
\* recorded elsewhere, up to a number.
OnNodeDiscovered(a) ==
    LET elsewhere == {p \in Movers : stored[p] # a}
        most == IF Cardinality(elsewhere) < ReconcileMaxPeers THEN Cardinality(elsewhere)
                ELSE ReconcileMaxPeers
    IN /\ ~HasPeerAtAddress(a) /\ a \notin tried
       /\ tried' = tried \cup {a}
       /\ \E c \in SUBSET elsewhere : Cardinality(c) = most /\ attempts' = attempts \cup {[addr |-> a, left |-> c]}
       /\ UNCHANGED <<located, stored, met, sightings, moves>>
CooldownOver(a) ==
    /\ a \in tried /\ \A t \in attempts : t.addr # a
    /\ tried' = tried \ {a} /\ UNCHANGED <<located, stored, met, attempts, sightings, moves>>

ReconcileDial_Unpinned(t, p) ==
    /\ t \in attempts /\ p \in t.left
    /\ sightings' = sightings \cup {[peer |-> p, addr |-> t.addr]}
    /\ attempts' = attempts \ {t}
    /\ UNCHANGED <<located, stored, met, tried, moves>>

\* One pinned dial: the handshake succeeds with the peer's own certificate only.
ReconcileDial(t, p) ==
    /\ t \in attempts /\ p \in t.left
    /\ IF located[p] = t.addr
       THEN /\ sightings' = sightings \cup {[peer |-> p, addr |-> t.addr]}
            /\ attempts' = attempts \ {t}
       ELSE /\ attempts' = (attempts \ {t}) \cup {[t EXCEPT !.left = @ \ {p}]}
            /\ UNCHANGED sightings
    /\ UNCHANGED <<located, stored, met, tried, moves>>
ReconcileEnds(t) ==
    /\ t \in attempts /\ t.left = {}
    /\ attempts' = attempts \ {t}
    /\ UNCHANGED <<located, stored, met, tried, sightings, moves>>

(* ----------------------------- observations ---------------------------- *)

Sight(p, a) == Cardinality(sightings) < MaxSightings /\ sightings' = sightings \cup {[peer |-> p, addr |-> a]}
\* An outgoing connection of any kind goes to the recorded address.
DialPeerContext(p) ==
    /\ located[p] = stored[p] /\ Sight(p, stored[p])
    /\ UNCHANGED <<located, stored, met, tried, attempts, moves>>
\* An incoming one shows the host; the port is the recorded one, as read here.
ObserveInbound(p) ==
    /\ Sight(p, <<Host(located[p]), PortOf(stored[p])>>)
    /\ UNCHANGED <<located, stored, met, tried, attempts, moves>>
\* observeAuthenticatedPeer writes it a moment later.
ConfirmPeerAddress(s) ==
    /\ s \in sightings /\ sightings' = sightings \ {s}
    /\ stored' = [stored EXCEPT ![s.peer] = s.addr]
    /\ UNCHANGED <<located, met, tried, attempts, moves>>

ReconnectionNext ==
    \/ \E a \in Endpoints : OnNodeDiscovered(a) \/ CooldownOver(a) \/ \E p \in Movers : MovePeer(p, a)
    \/ \E t \in attempts : ReconcileEnds(t) \/ \E p \in Movers : ReconcileDial(t, p)
    \/ \E p \in Movers : DialPeerContext(p) \/ ObserveInbound(p)
    \/ \E s \in sightings : ConfirmPeerAddress(s)

ReconcileAt(a) ==
    \E t \in attempts : t.addr = a /\ (ReconcileEnds(t) \/ \E p \in Movers : ReconcileDial(t, p))
ConfirmOf(p) == \E s \in sightings : s.peer = p /\ ConfirmPeerAddress(s)
\* A running peer keeps broadcasting its beacon, cooldowns pass, and dials
\* and writes end.
ReconnectionFairness ==
    /\ \A a \in Endpoints :
          /\ WF_reconVars(a \in {located[p] : p \in Movers} /\ OnNodeDiscovered(a))
          /\ WF_reconVars(CooldownOver(a)) /\ WF_reconVars(ReconcileAt(a))
    /\ \A p \in Movers : WF_reconVars(ConfirmOf(p))
ReconnectionSpec == ReconnectionInit /\ [][ReconnectionNext]_reconVars /\ ReconnectionFairness

(* ----------------------------- properties ------------------------------ *)

ReconnectionTypeOK ==
    /\ located \in [Movers -> Endpoints] /\ stored \in [Movers -> Endpoints] /\ tried \subseteq Endpoints
    /\ \A t \in attempts : t.left \subseteq Movers /\ Cardinality(t.left) <= ReconcileMaxPeers

\* Discovery may propose an address, only a handshake disposes of one: what is
\* recorded of a peer is a host it was on and a port it listened at, never the
\* address of a stranger or of another peer.
AddressWasProven ==
    \A p \in Movers : /\ Host(stored[p]) \in {Host(a) : a \in met[p]}
                      /\ PortOf(stored[p]) \in {PortOf(a) : a \in met[p]}

Shadowed(p) == \E q \in Movers : Host(stored[q]) = Host(located[p])
\* A peer that changed network is found again, unless its new host is one some
\* peer is recorded at.
MovedPeerFoundUnlessShadowed == \A p \in Movers :
    (stored[p] # located[p] /\ ~Shadowed(p)) ~> (stored[p] = located[p] \/ Shadowed(p))
\* "A peer that changed network, or moved its port, is now found again."
MovedPeerFound == \A p \in Movers : (stored[p] # located[p]) ~> (stored[p] = located[p])
=============================================================================
