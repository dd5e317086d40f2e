--------------------------- MODULE TunnelService ---------------------------
(***************************************************************************)
(* What the client of a tunnel configuration is promised of the gateway it *)
(* was told to use, from the answer of POST .../tunnel-configurations to   *)
(* the WireGuard interface: which addresses a gateway may route to a peer, *)
(* and from when on it does so.                                            *)
(*                                                                         *)
(* Outbox, generations, deliveries and retries do not appear: how a        *)
(* configuration reaches the gateway is left to the implementation         *)
(* (SnapshotDelivery).  What a gateway does to the peers it is told to     *)
(* remove, and to those that inherit their addresses, is promised by       *)
(* nobody: see the findings about removed peers and old generations.       *)
(***************************************************************************)
CONSTANTS Gateways, Devices

VARIABLES
    answers,        \* by <<device, Idempotency-Key>>: the answered configuration
    removing,       \* gateways with an assignment that was marked for removal
    acknowledged,   \* by gateway: devices whose configuration it acknowledged
    interface       \* by gateway: addresses by peer

tunnels == <<answers, removing, acknowledged, interface>>

\* An address that wg took away from a peer and gave to another one.
NoAddress == 0

\* Device d was answered gateway g and the addresses of peer.
Told(g, d, peer) ==
    \E e \in DOMAIN answers :
        /\ e[1] = d
        /\ answers[e].response.gateway = g
        /\ answers[e].response.v4 = peer.v4
        /\ answers[e].response.v6 = peer.v6

\* The tunnel of d works: g routes both its addresses to it.
Served(g, d) == d \in DOMAIN interface[g] /\ Told(g, d, interface[g][d])

\* A device is answered one configuration for its life, under as many keys as
\* it likes, and as long as nothing is removed from the gateway no address
\* that any other device of the gateway was ever answered.
Answer(e) ==
    LET new == answers'[e].response IN
    /\ e \notin DOMAIN answers
    /\ DOMAIN answers' = DOMAIN answers \cup {e}
    /\ \A f \in DOMAIN answers :
          LET old == answers[f].response IN
          /\ answers'[f] = answers[f]
          /\ f[1] = e[1] => old = new
          /\ f[1] # e[1] /\ old.gateway = new.gateway /\ new.gateway \notin removing =>
                old.v4 # new.v4 /\ old.v6 # new.v6
    /\ UNCHANGED <<removing, acknowledged, interface>>

\* The operator begins to remove peers from g.
Remove(g) ==
    /\ removing' = removing \cup {g}
    /\ UNCHANGED <<answers, acknowledged, interface>>

\* Peer e keeps its addresses, but for those that peer d has now.
LosesOnlyTo(g, e, d) ==
    /\ e \in DOMAIN interface'[g] <=> e \in DOMAIN interface[g]
    /\ e \in DOMAIN interface[g] =>
          LET old == interface[g][e]
              new == interface'[g][e]
          IN  /\ new.v4 # old.v4 => /\ new.v4 = NoAddress
                                    /\ d \in DOMAIN interface'[g]
                                    /\ interface'[g][d].v4 = old.v4
              /\ new.v6 # old.v6 => /\ new.v6 = NoAddress
                                    /\ d \in DOMAIN interface'[g]
                                    /\ interface'[g][d].v6 = old.v6

\* The interface of g changes for one peer at a time.  A peer is configured
\* as its device was told, with both addresses and nobody beside it, or is
\* gone.  While nothing is removed, the tunnels that work go on working.
Configure(g, d) ==
    /\ \A h \in Gateways \ {g} : interface'[h] = interface[h]
    /\ \A e \in Devices \ {d} : LosesOnlyTo(g, e, d)
    /\ d \in DOMAIN interface'[g] => Served(g, d)'
    /\ d \in DOMAIN interface'[g] =>
          \A e \in DOMAIN interface'[g] \ {d} :
              /\ interface'[g][e].v4 # interface'[g][d].v4
              /\ interface'[g][e].v6 # interface'[g][d].v6
    /\ g \notin removing => \A e \in Devices : Served(g, e) => Served(g, e)'
    /\ UNCHANGED <<answers, removing, acknowledged>>

\* The gateway acknowledges the configurations of the devices D.  While
\* nothing is removed, their tunnels work from now on.
Acknowledge(g, D) ==
    /\ g \notin removing => \A d \in D : Served(g, d)
    /\ acknowledged' = [acknowledged EXCEPT ![g] = @ \cup D]
    /\ UNCHANGED <<answers, removing, interface>>

TunnelInit ==
    /\ answers = [e \in {} |-> e]
    /\ removing = {}
    /\ acknowledged = [g \in Gateways |-> {}]
    /\ interface = [g \in Gateways |-> [d \in {} |-> d]]

TunnelNext ==
    \/ \E e \in DOMAIN answers' : Answer(e)
    \/ \E g \in Gateways :
          \/ Remove(g)
          \/ \E d \in Devices : Configure(g, d)
          \/ \E D \in SUBSET Devices : Acknowledge(g, D)

TunnelPromise == TunnelInit /\ [][TunnelNext]_tunnels

-----------------------------------------------------------------------------
(***************************************************************************)
(* What follows from the promise.                                          *)
(***************************************************************************)
\* A gateway routes to a peer no address but those its device was answered.
RoutesAsTold ==
    \A g \in Gateways : \A d \in DOMAIN interface[g] :
        \E e \in DOMAIN answers :
            LET told == answers[e].response IN
            /\ e[1] = d
            /\ told.gateway = g
            /\ interface[g][d].v4 \in {told.v4, NoAddress}
            /\ interface[g][d].v6 \in {told.v6, NoAddress}

\* A tunnel that was acknowledged works until something is removed.
AcknowledgedServed ==
    \A g \in Gateways \ removing : \A d \in acknowledged[g] : Served(g, d)
=============================================================================
