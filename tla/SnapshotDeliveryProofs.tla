----------------------- MODULE SnapshotDeliveryProofs -----------------------
(***************************************************************************)
(* Proofs about SnapshotDelivery, for every number of gateways, devices,   *)
(* generations, deliveries and faults.                                     *)
(*                                                                         *)
(* The composition implements ControlStore, so the invariant of the store  *)
(* is at hand.  On top of it five invariants are proved inductive, each    *)
(* with the help of the ones before it:                                    *)
(*   DeliveryHeld     agents and writers hold what the outbox says,        *)
(*   DeliveryContent  rows are readings of the assignments, in order,      *)
(*   KernelInv        the interface of a gateway without removals,         *)
(*   InterfaceInv     the interface of any gateway while no fault makes an *)
(*                    agent forget,                                        *)
(*   StrandInv        as many deliveries without a holder as faults.       *)
(* Then the composition is shown to implement TunnelService, whose two     *)
(* consequences need no more than its own actions, and to forget nothing:  *)
(* two small invariants say that the queries of reconciler and claim       *)
(* complement each other.                                                  *)
(* A step is looked at once: the lemmas ...Effect say what each action     *)
(* changes, StepEffect sums them up as seen from one gateway, and the      *)
(* proofs that follow use nothing else of the actions.                     *)
(***************************************************************************)
EXTENDS SnapshotDelivery, DevicePromiseProofs, WellFoundedInduction

-----------------------------------------------------------------------------
(***************************************************************************)
(* The store under the composition.                                        *)
(***************************************************************************)
\* A non-empty set of natural numbers has a least element: the CHOOSE behind
\* Min of FiniteSetsExt finds one.
LEMMA NatMin ==
    ASSUME NEW T \in SUBSET Nat, T # {}
    PROVE  \E x \in T : \A y \in T : x <= y
<1>1. PICK x \in T : \A y \in T : ~ (<<y, x>> \in OpToRel(<, Nat))
  BY WFMin, NatLessThanWellFounded, Zenon
<1>2. \A y \in T : ~(y < x)
  BY <1>1, Zenon DEF OpToRel
<1> QED
  BY <1>2

\* A step of the store drops no row, moves no assignment to another device or
\* gateway, changes no address and brings nothing back: what is live was live
\* before, what is pending or active was never marked for removal.
StoreRowsKept ==
    \A s \in DOMAIN assignments :
        /\ s \in DOMAIN assignments'
        /\ assignments'[s].gateway = assignments[s].gateway
        /\ assignments'[s].device = assignments[s].device
        /\ leases'[s].v4 = leases[s].v4
        /\ leases'[s].v6 = leases[s].v6
        /\ LiveAssignment(s)' => LiveAssignment(s)
        /\ assignments'[s].state \in {"pending", "active"} =>
              assignments[s].state \in {"pending", "active"}

\* Every transaction of the store, seen as a step of AllocationLedger, keeps
\* its rows in this sense.
LEMMA LedgerKeepsRows ==
    ASSUME StoreInv, [LedgerNext]_storeVars
    PROVE  StoreRowsKept
<1>0. /\ DOMAIN leases = DOMAIN assignments
      /\ \A s \in DOMAIN assignments : assignments[s] \in Assignment
      /\ \A s \in DOMAIN assignments : leases[s] \in Lease
  BY DEF StoreInv, LeaseFollowsAssignment, StoreTypeOK, IsTable
<1>1. ASSUME UNCHANGED <<leases, assignments>> PROVE StoreRowsKept
  BY <1>1 DEF StoreRowsKept, LiveAssignment
<1>2. ASSUME NEW u \in Users, NEW d \in Devices, NEW r \in Regions,
             NEW k \in IdemKeys, AllocateFree(u, d, r, k)
      PROVE  StoreRowsKept
  BY <1>0, <1>2 DEF AllocateFree, InsertAllocation, Insert, StoreRowsKept, LiveAssignment
<1>3. ASSUME NEW g \in Gateways, NEW gen \in 1..MaxGeneration,
             NEW seen \in SUBSET Slots, ConfirmAmong(g, gen, seen)
      PROVE  StoreRowsKept
  <2>1. ASSUME NEW s \in DOMAIN assignments
        PROVE  /\ ConfirmedAssignments(g, gen)[s].gateway = assignments[s].gateway
               /\ ConfirmedAssignments(g, gen)[s].device = assignments[s].device
               /\ ConfirmedAssignments(g, gen)[s].state \in LiveStates =>
                     assignments[s].state \in LiveStates
               /\ ConfirmedAssignments(g, gen)[s].state \in {"pending", "active"} =>
                     assignments[s].state \in {"pending", "active"}
    BY <1>0 DEF ConfirmedAssignments, Assignment, LiveStates
  <2>2. ASSUME NEW s \in DOMAIN assignments
        PROVE  /\ leases'[s].v4 = leases[s].v4
               /\ leases'[s].v6 = leases[s].v6
    BY <1>0, <1>3 DEF ConfirmAmong, Lease
  <2> QED
    BY <1>3, <2>1, <2>2 DEF ConfirmAmong, StoreRowsKept, LiveAssignment
<1>4. ASSUME NEW s \in Slots, OperatorMarksRemoval(s)
      PROVE  StoreRowsKept
  BY <1>0, <1>4 DEF OperatorMarksRemoval, StoreRowsKept, LiveAssignment, LiveStates, Assignment
<1> QED
  BY <1>1, <1>2, <1>3, <1>4
  DEF LedgerNext, OperatorNext, RegisterDevice, RequestRevocation, ReuseConfiguration,
      OperatorSetsGateway, OperatorSetsRegion, storeVars

\* Writers, agents, handlers and time touch the store through
\* ConfirmGatewaySnapshot only.
LEMMA DeliveryStepIsStoreStep ==
    ASSUME [Next]_vars
    PROVE  [StoreNext]_storeVars
<1> SUFFICES ASSUME Next PROVE StoreNext \/ UNCHANGED storeVars
  BY DEF vars, storeVars
<1>1. ClientNext \/ OperatorNext => StoreNext
  BY DEF StoreNext
<1>2. WriterNext => UNCHANGED storeVars
  BY DEF WriterNext, ListGateways, ReadGeneration, ReadPeers, InsertSnapshot, WriterFails
<1>3. ASSUME NEW g \in Gateways, AgentNext(g)
      PROVE  UNCHANGED storeVars
  BY <1>3 DEF AgentNext, ClaimDelivery, ClaimLost, VerifyDelivery, ApplyOperation,
      AppliedAll, ApplyFails, RetryDelivery, RetryLost, AckSnapshot, AckLost, AgentRestarts
<1>4. ASSUME NEW g \in Gateways, NEW n \in Generations,
             HandlerNext(g, n) \/ RowBecomesDue(g, n) \/ SnapshotExpires(g, n)
      PROVE  StoreNext \/ UNCHANGED storeVars
  BY <1>4 DEF HandlerNext, ConfirmDelivery, ConfirmUnanswered, ConfirmFails,
      RowBecomesDue, SnapshotExpires, StoreNext, Generations
<1> QED
  BY <1>1, <1>2, <1>3, <1>4 DEF Next

\* The whole system implements ControlStore: the delivery of snapshots adds
\* no step to the store that ControlStore does not have.
THEOREM DeliveryImplementsStore == Spec => StoreSpec
<1>1. Init => StoreInit
  BY DEF Init
<1> QED
  BY <1>1, DeliveryStepIsStoreStep, PTL DEF Spec, StoreSpec

\* So everything proved of the store holds of it in the composition: whatever
\* the agents and the handlers do, no index fires, capacities are respected,
\* replays are current, and a revocation is not undone.
THEOREM DeliveryKeepsStore ==
    Spec => /\ [](/\ LiveAddressesUnique
                  /\ OneLiveAllocationPerDevice
                  /\ LeaseFollowsAssignment
                  /\ RevokedHoldsNothing
                  /\ ReplayedConfigurationIsCurrent
                  /\ CapacityRespected)
            /\ RevocationIsFinal
<1>1. StoreSpec => RevocationIsFinal
  BY RevocationNeverUndone
<1> QED
  BY <1>1, DeliveryImplementsStore, StoreImplementsLedger, LedgerSafety, PTL

\* And the composition is a device service: an address is told to no two
\* devices that may both use it, also while gateways are late, confirm what
\* they did not apply or apply what was confirmed long ago.
THEOREM DeliveryKeepsPromise == Spec => StoreKeepsPromise
BY DeliveryImplementsStore, ControlStoreKeepsPromise, PTL

\* Every answer has its row in the composition, and every row its answer.
LEMMA DeliveryAnswers == Spec => [](StoreInv /\ AnswersInv)
BY DeliveryImplementsStore, StoreImplementsLedger, LedgerAnswers, PTL

-----------------------------------------------------------------------------
(***************************************************************************)
(* Data: tables of peers, rows, outboxes, agents, writers.                 *)
(***************************************************************************)
\* The types of the variables as sets, for the provers: a table of peers,
PeerTables == UNION {[D -> Peer] : D \in SUBSET Devices}

\* a row of gateway_snapshots,
Row == [state : RowStates, attempts : 0..MaxDeliveries, due : BOOLEAN,
        expired : BOOLEAN, peers : PeerTables]

\* a gateway's rows, whose generations are 1, 2, ... without a gap,
Outboxes == UNION {[1..k -> Row] : k \in 0..MaxGeneration}

\* an operation of Diff,
Operation == [kind : {"add", "update", "remove"}, key : Devices]

\* the Worker of a gateway agent,
Agent == [step : {"idle", "verify", "apply", "retry", "ack", "wait"},
          gen : 0..MaxGeneration, ops : SUBSET Operation,
          current : 0..MaxGeneration, view : PeerTables]

\* and what a snapshot writer has read.
WriterState == [step : {"loop", "peers", "insert"}, todo : SUBSET Gateways,
                gateway : Gateways \cup {NoGateway}, gen : 0..MaxGeneration,
                peers : PeerTables]

\* The types of the six variables of SnapshotDelivery.
DeliveryState ==
    /\ outbox \in [Gateways -> Outboxes]
    /\ writer \in [Writers -> WriterState]
    /\ confirming \in [Gateways -> SUBSET Generations]
    /\ agent \in [Gateways -> Agent]
    /\ kernel \in [Gateways -> PeerTables]
    /\ faults \in 0..MaxFaults

\* The two ways to say that p is a table of peers agree.
LEMMA PeerTableIs ==
    ASSUME NEW p
    PROVE  p \in PeerTables <=> IsPeers(p)
BY DEF PeerTables, IsPeers, IsTable

\* The empty table is one.
LEMMA NoPeersIsTable == NoPeers \in PeerTables /\ DOMAIN NoPeers = {}
<1>1. DOMAIN NoPeers = {} /\ NoPeers \in [{} -> Peer]
  BY DEF NoPeers
<1> QED
  BY <1>1 DEF PeerTables

\* Tables of peers are equal when they agree peer by peer.
LEMMA SamePeerTables ==
    ASSUME NEW p \in PeerTables, NEW q \in PeerTables,
           DOMAIN p = DOMAIN q, \A d \in DOMAIN p : p[d] = q[d]
    PROVE  p = q
BY DEF PeerTables

\* The generations of an outbox are an initial segment of 1, 2, 3, ...
LEMMA OutboxIs ==
    ASSUME NEW o \in Outboxes
    PROVE  \E k \in 0..MaxGeneration : DOMAIN o = 1..k /\ o \in [1..k -> Row]
BY DEF Outboxes

\* Its rows are well-formed, and below a generation it holds there is no gap.
LEMMA RowsOf ==
    ASSUME NEW o \in Outboxes
    PROVE  /\ DOMAIN o \subseteq Generations
           /\ \A n \in DOMAIN o : o[n] \in Row
           /\ \A n \in DOMAIN o : \A m \in 1..n : m \in DOMAIN o
<1>1. PICK k \in 0..MaxGeneration : DOMAIN o = 1..k /\ o \in [1..k -> Row]
  BY OutboxIs
<1> QED
  BY <1>1, ControlStoreAssumptions DEF Generations

\* An UPDATE of one row leaves an outbox an outbox.
LEMMA OutboxUpdated ==
    ASSUME NEW o \in Outboxes, NEW n \in DOMAIN o, NEW row \in Row
    PROVE  [o EXCEPT ![n] = row] \in Outboxes
<1>1. PICK k \in 0..MaxGeneration : DOMAIN o = 1..k /\ o \in [1..k -> Row]
  BY OutboxIs
<1>2. [o EXCEPT ![n] = row] \in [1..k -> Row]
  BY <1>1
<1> QED
  BY <1>2 DEF Outboxes

\* NextGatewaySnapshotGeneration is the first generation the outbox does not
\* hold.
LEMMA NextInLine ==
    ASSUME NEW g \in Gateways, outbox[g] \in Outboxes
    PROVE  /\ NextGeneration(g) \in Nat \ {0}
           /\ NextGeneration(g) \notin DOMAIN outbox[g]
           /\ NextGeneration(g) - 1 \in DOMAIN outbox[g] \cup {0}
<1>1. PICK k \in 0..MaxGeneration : DOMAIN outbox[g] = 1..k
  BY OutboxIs
<1>2. k \in {0} \cup 1..k /\ \A y \in {0} \cup 1..k : k >= y
  BY ControlStoreAssumptions
<1>3. Max({0} \cup 1..k) \in {0} \cup 1..k
      /\ \A y \in {0} \cup 1..k : Max({0} \cup 1..k) >= y
  BY <1>2 DEF Max
<1>4. Max({0} \cup 1..k) = k
  <2> HIDE DEF Max
  <2> QED
    BY <1>2, <1>3
<1> QED
  BY <1>1, <1>4 DEF NextGeneration

\* An INSERT with the next generation, or with one that was next when it was
\* read and still is free, leaves no gap.
LEMMA OutboxExtended ==
    ASSUME NEW o \in Outboxes, NEW n \in Generations, n \notin DOMAIN o,
           n - 1 \in DOMAIN o \cup {0}, NEW row \in Row
    PROVE  Insert(o, n, row) \in Outboxes
<1>1. PICK k \in 0..MaxGeneration : DOMAIN o = 1..k /\ o \in [1..k -> Row]
  BY OutboxIs
<1>2. n = k + 1 /\ n \in 0..MaxGeneration /\ 1..k \cup {n} = 1..n
  BY <1>1, ControlStoreAssumptions DEF Generations
<1>3. Insert(o, n, row) \in [1..n -> Row]
  BY <1>1, <1>2 DEF Insert
<1> QED
  BY <1>2, <1>3 DEF Outboxes

\* What an UPDATE of row n of g that ends in the given state does: contents
\* and other rows stay.
RowChanged(g, n, state) ==
    /\ outbox' \in [Gateways -> Outboxes]
    /\ \A h \in Gateways : h # g => outbox'[h] = outbox[h]
    /\ DOMAIN outbox'[g] = DOMAIN outbox[g]
    /\ \A m \in DOMAIN outbox[g] : m # n => outbox'[g][m] = outbox[g][m]
    /\ outbox'[g][n].state = state
    /\ outbox'[g][n].peers = outbox[g][n].peers

\* Writing a row with the same contents is such an UPDATE.
LEMMA RowUpdated ==
    ASSUME outbox \in [Gateways -> Outboxes], NEW g \in Gateways,
           NEW n \in DOMAIN outbox[g], NEW row \in Row,
           row.peers = outbox[g][n].peers,
           outbox' = [outbox EXCEPT ![g][n] = row]
    PROVE  RowChanged(g, n, row.state)
<1>1. [outbox[g] EXCEPT ![n] = row] \in Outboxes
  BY OutboxUpdated
<1>2. outbox' = [outbox EXCEPT ![g] = [outbox[g] EXCEPT ![n] = row]]
  OBVIOUS
<1> QED
  BY <1>1, <1>2 DEF RowChanged

\* ClaimNextSnapshot marks a row that was queued or failed as in flight.
LEMMA ClaimChangesRow ==
    ASSUME outbox \in [Gateways -> Outboxes], NEW g \in Gateways, ClaimNextSnapshot(g)
    PROVE  /\ Min(Claimable(g)) \in DOMAIN outbox[g]
           /\ outbox[g][Min(Claimable(g))].state \in {"queued", "failed"}
           /\ RowChanged(g, Min(Claimable(g)), "in_flight")
<1> DEFINE n == Min(Claimable(g))
           old == outbox[g][n]
           row == [old EXCEPT !.state = "in_flight", !.attempts = old.attempts + 1]
<1>0. outbox[g] \in Outboxes
  OBVIOUS
<1>1. Claimable(g) \in SUBSET Nat
  BY <1>0, RowsOf DEF Claimable, Generations
<1>2. n \in Claimable(g)
  BY <1>1, NatMin DEF ClaimNextSnapshot, Min
<1>3. n \in DOMAIN outbox[g] /\ old.state \in {"queued", "failed"}
      /\ old.attempts < MaxDeliveries
  BY <1>2 DEF Claimable
<1>4. old \in Row
  BY <1>0, <1>3, RowsOf
<1>5. row \in Row /\ row.state = "in_flight" /\ row.peers = old.peers
  <2>1. old.attempts + 1 \in 0..MaxDeliveries
    BY <1>3, <1>4, DeliveryAssumptions DEF Row
  <2> QED
    BY <1>4, <2>1 DEF Row, RowStates
<1>6. outbox' = [outbox EXCEPT ![g][n] = row]
  BY <1>0, <1>4 DEF ClaimNextSnapshot, Row
<1> QED
  BY <1>3, <1>5, <1>6, RowUpdated

-----------------------------------------------------------------------------
(***************************************************************************)
(* Deliveries in hand.                                                     *)
(***************************************************************************)
\* What ties the agent of g to its outbox.  The delivery in hand is a row
\* that exists and is in flight until its acknowledgement, acked after it;
\* the operations remove what the snapshot does not have and nothing else;
\* Current is a row, or no snapshot yet, and CurrentPeers are its peers.
HeldInv(g) ==
    /\ agent[g].step = "idle" => agent[g].gen = 0
    /\ agent[g].step # "idle" => agent[g].gen \in DOMAIN outbox[g]
    /\ agent[g].step \in {"verify", "apply", "retry", "ack"} =>
          outbox[g][agent[g].gen].state = "in_flight"
    /\ agent[g].step = "wait" => outbox[g][agent[g].gen].state = "acked"
    /\ agent[g].step = "apply" =>
          \A op \in agent[g].ops :
             op.kind = "remove" <=> op.key \notin DOMAIN outbox[g][agent[g].gen].peers
    /\ confirming[g] \subseteq DOMAIN outbox[g]
    /\ agent[g].current = 0 => agent[g].view = NoPeers
    /\ agent[g].current # 0 =>
          /\ agent[g].current \in DOMAIN outbox[g]
          /\ agent[g].view = outbox[g][agent[g].current].peers

\* The generation a writer has read leaves no gap when it is inserted, however
\* late that is.
WriterHeld(w) ==
    writer[w].step # "loop" =>
          /\ writer[w].gateway \in Gateways
          /\ writer[w].gen \in Generations
          /\ writer[w].gen - 1 \in DOMAIN outbox[writer[w].gateway] \cup {0}

\* The first inductive invariant: types, agents and writers.
DeliveryHeld ==
    /\ DeliveryState
    /\ \A g \in Gateways : HeldInv(g)
    /\ \A w \in Writers : WriterHeld(w)

-----------------------------------------------------------------------------
(***************************************************************************)
(* What a snapshot materialises.                                           *)
(***************************************************************************)
\* An assignment of g gave device d the addresses of peer p; live or not.
Assigned(g, d, p) ==
    \E s \in DOMAIN assignments :
        /\ assignments[s].gateway = g
        /\ assignments[s].device = d
        /\ leases[s].v4 = p.v4
        /\ leases[s].v6 = p.v6

\* Device d has a live assignment on g.
LiveFor(g, d) ==
    \E s \in DOMAIN assignments :
        /\ LiveAssignment(s)
        /\ assignments[s].gateway = g
        /\ assignments[s].device = d

\* Every peer was assigned as it is.
FromAssignments(g, peers) == \A d \in DOMAIN peers : Assigned(g, d, peers[d])

\* No two peers share an address.
DistinctPeers(peers) ==
    \A d, e \in DOMAIN peers :
        d # e => peers[d].v4 # peers[e].v4 /\ peers[d].v6 # peers[e].v6

\* What MaterializedPeers returns: the devices with a live assignment on g,
\* with the addresses of their assignments, all different.
LEMMA Materialized ==
    ASSUME StoreInv, NEW g \in Gateways
    PROVE  /\ MaterializedPeers(g) \in PeerTables
           /\ \A d : d \in DOMAIN MaterializedPeers(g) <=> LiveFor(g, d)
           /\ FromAssignments(g, MaterializedPeers(g))
           /\ DistinctPeers(MaterializedPeers(g))
<1> DEFINE slots == {s \in DOMAIN assignments :
                        LiveAssignment(s) /\ assignments[s].gateway = g}
           slot(d) == CHOOSE t \in slots : assignments[t].device = d
           M == MaterializedPeers(g)
<1>1. /\ DOMAIN leases = DOMAIN assignments
      /\ \A s \in DOMAIN assignments : assignments[s].device \in Devices
      /\ \A s \in DOMAIN assignments : leases[s].v4 \in Nat /\ leases[s].v6 \in Nat
  BY DEF StoreInv, LeaseFollowsAssignment, StoreTypeOK, IsTable, Lease, Assignment
<1>2. DOMAIN M = {assignments[s].device : s \in slots}
  BY DEF MaterializedPeers
<1>8. M = [d \in DOMAIN M |-> [v4 |-> leases[slot(d)].v4, v6 |-> leases[slot(d)].v6]]
  BY <1>2 DEF MaterializedPeers
<1>3. \A d \in DOMAIN M : slot(d) \in slots /\ assignments[slot(d)].device = d
  BY <1>2
<1> HIDE DEF slot, M
<1>9. ASSUME NEW d \in DOMAIN M
      PROVE  M[d].v4 = leases[slot(d)].v4 /\ M[d].v6 = leases[slot(d)].v6
  <2>1. M[d] = [v4 |-> leases[slot(d)].v4, v6 |-> leases[slot(d)].v6]
    BY <1>8
  <2> QED
    BY <2>1
<1>4. M \in PeerTables
  <2>1. ASSUME NEW d \in DOMAIN M
        PROVE  [v4 |-> leases[slot(d)].v4, v6 |-> leases[slot(d)].v6] \in Peer
    BY <1>1, <1>3 DEF Peer
  <2>2. DOMAIN M \in SUBSET Devices
    BY <1>1, <1>2
  <2>3. M \in [DOMAIN M -> Peer]
    BY <1>8, <2>1
  <2> QED
    BY <2>2, <2>3 DEF PeerTables
<1>5. \A d : d \in DOMAIN M <=> LiveFor(g, d)
  BY <1>2 DEF LiveFor
<1>6. \A d \in DOMAIN M : Assigned(g, d, M[d])
  <2> SUFFICES ASSUME NEW d \in DOMAIN M PROVE Assigned(g, d, M[d])
    OBVIOUS
  <2>1. M[d].v4 = leases[slot(d)].v4 /\ M[d].v6 = leases[slot(d)].v6
    BY <1>9
  <2>2. slot(d) \in DOMAIN assignments /\ assignments[slot(d)].device = d
        /\ assignments[slot(d)].gateway = g
    BY <1>3
  <2> QED
    BY <2>1, <2>2 DEF Assigned
<1>7. ASSUME NEW d \in DOMAIN M, NEW e \in DOMAIN M, d # e
      PROVE  M[d].v4 # M[e].v4 /\ M[d].v6 # M[e].v6
  <2> DEFINE s == slot(d)
             t == slot(e)
  <2>1. /\ s \in DOMAIN leases /\ t \in DOMAIN leases
        /\ LiveAssignment(s) /\ LiveAssignment(t)
        /\ assignments[s].gateway = g /\ assignments[t].gateway = g
        /\ assignments[s].device = d /\ assignments[t].device = e
    BY <1>1, <1>3
  <2>2. /\ M[d].v4 = leases[s].v4 /\ M[d].v6 = leases[s].v6
        /\ M[e].v4 = leases[t].v4 /\ M[e].v6 = leases[t].v6
    BY <1>9
  <2> HIDE DEF s, t
  <2>3. HeldLease(s) /\ HeldLease(t) /\ leases[s].region = leases[t].region /\ s # t
    BY <1>7, <2>1 DEF StoreInv, LeaseFollowsAssignment
  <2> QED
    BY <2>1, <2>2, <2>3 DEF StoreInv, LiveAddressesUnique
<1> QED
  BY <1>4, <1>5, <1>6, <1>7 DEF FromAssignments, DistinctPeers, M

-----------------------------------------------------------------------------
(***************************************************************************)
(* What the steps do.                                                      *)
(***************************************************************************)
\* A row of an outbox is typed.
LEMMA RowHeldTyped ==
    ASSUME DeliveryState, NEW g \in Gateways, NEW n \in DOMAIN outbox[g]
    PROVE  /\ outbox[g] \in Outboxes
           /\ n \in Generations /\ n \in 1..MaxGeneration
           /\ outbox[g][n] \in Row
           /\ outbox[g][n].peers \in PeerTables
<1>1. outbox[g] \in Outboxes
  BY DEF DeliveryState
<1>2. outbox[g][n] \in Row /\ n \in Generations
  BY <1>1, RowsOf
<1> QED
  BY <1>1, <1>2 DEF Row, Generations

\* Diff returns operations.
LEMMA DiffTyped ==
    ASSUME NEW p \in PeerTables, NEW q \in PeerTables
    PROVE  Diff(p, q) \in SUBSET Operation
<1>1. DOMAIN p \subseteq Devices /\ DOMAIN q \subseteq Devices
  BY DEF PeerTables
<1> QED
  BY <1>1 DEF Diff, Operation

\* wg set ... allowed-ips leaves an interface an interface.
LEMMA SetPeerTyped ==
    ASSUME NEW interface \in PeerTables, NEW d \in Devices, NEW peer \in Peer
    PROVE  SetPeer(interface, d, peer) \in PeerTables
<1>1. DOMAIN interface \in SUBSET Devices /\ interface \in [DOMAIN interface -> Peer]
  BY DEF PeerTables
<1>2. \A e \in DOMAIN interface : interface[e].v4 \in Nat /\ interface[e].v6 \in Nat
  BY <1>1 DEF Peer
<1>3. ASSUME NEW e \in DOMAIN interface
      PROVE [v4 |-> IF interface[e].v4 = peer.v4 THEN NoAddress
                                                  ELSE interface[e].v4,
              v6 |-> IF interface[e].v6 = peer.v6 THEN NoAddress
                                                  ELSE interface[e].v6] \in Peer
  BY <1>2 DEF Peer, NoAddress
<1>4. SetPeer(interface, d, peer) \in [DOMAIN interface \cup {d} -> Peer]
  BY <1>3 DEF SetPeer
<1> QED
  BY <1>1, <1>4 DEF PeerTables

\* wg set ... remove does, too.
LEMMA RemovePeerTyped ==
    ASSUME NEW interface \in PeerTables, NEW d
    PROVE  RemovePeer(interface, d) \in PeerTables
<1>1. DOMAIN interface \in SUBSET Devices /\ interface \in [DOMAIN interface -> Peer]
  BY DEF PeerTables
<1>2. RemovePeer(interface, d) \in [DOMAIN interface \ {d} -> Peer]
  BY <1>1 DEF RemovePeer
<1> QED
  BY <1>1, <1>2 DEF PeerTables

\* The steps of the writers that read, or fail, keep the types.
LEMMA WriterTyped ==
    ASSUME StoreInv, DeliveryHeld, NEW w \in Writers,
           \/ ListGateways
           \/ \E g \in Gateways : ReadGeneration(w, g)
           \/ ReadPeers(w)
           \/ WriterFails(w)
    PROVE  DeliveryState'
<1> USE DEF DeliveryHeld, DeliveryState
<1>0. /\ writer \in [Writers -> WriterState]
      /\ NoPeers \in PeerTables
      /\ IdleWriter \in WriterState
  BY NoPeersIsTable, ControlStoreAssumptions DEF IdleWriter, WriterState
<1>1. CASE ListGateways
  <2>1. GatewaysNeedingSnapshot \in SUBSET Gateways
    BY DEF GatewaysNeedingSnapshot, StoreInv, StoreTypeOK
  <2>2. writer' \in [Writers -> WriterState]
    BY <1>0, <1>1, <2>1 DEF ListGateways, WriterState
  <2> QED
    BY <1>1, <2>2 DEF ListGateways
<1>2. CASE \E g \in Gateways : ReadGeneration(w, g)
  <2>1. PICK g \in Gateways : ReadGeneration(w, g)
    BY <1>2
  <2>2. NextGeneration(g) \in 0..MaxGeneration
    BY <2>1, NextInLine DEF ReadGeneration
  <2>3. [step |-> "peers", todo |-> writer[w].todo \ {g}, gateway |-> g,
         gen |-> NextGeneration(g), peers |-> NoPeers] \in WriterState
    BY <1>0, <2>2 DEF WriterState
  <2>4. writer' \in [Writers -> WriterState]
    BY <1>0, <2>1, <2>3 DEF ReadGeneration
  <2> QED
    BY <2>1, <2>4 DEF ReadGeneration
<1>3. CASE ReadPeers(w)
  <2>1. MaterializedPeers(writer[w].gateway) \in PeerTables
    BY <1>3, Materialized DEF WriterHeld, ReadPeers
  <2>2. writer' \in [Writers -> WriterState]
    BY <1>0, <1>3, <2>1 DEF ReadPeers, WriterState
  <2> QED
    BY <1>3, <2>2 DEF ReadPeers
<1>4. CASE WriterFails(w)
  <2>1. writer[w].todo \in SUBSET Gateways
    BY <1>0 DEF WriterState
  <2>2. \A todo \in {{}, writer[w].todo} : [IdleWriter EXCEPT !.todo = todo] \in WriterState
    BY <1>0, <2>1 DEF WriterState
  <2>3. writer' \in [Writers -> WriterState]
    BY <1>0, <1>4, <2>2 DEF WriterFails
  <2> QED
    BY <1>4, <2>3, DeliveryAssumptions DEF WriterFails, Fault
<1> QED
  BY <1>1, <1>2, <1>3, <1>4

\* The row EnqueueSnapshot inserts.
NewRow(w) == [state |-> "queued", attempts |-> 0, due |-> TRUE,
              expired |-> FALSE, peers |-> writer[w].peers]

\* What InsertSnapshot does: one row more, or nothing when the generation is
\* taken by now.
LEMMA InsertEffect ==
    ASSUME DeliveryHeld, NEW w \in Writers, InsertSnapshot(w)
    PROVE  LET g == writer[w].gateway
               n == writer[w].gen
           IN  /\ DeliveryState'
               /\ g \in Gateways
               /\ writer' = [writer EXCEPT ![w] = NextGateway(w)]
               /\ n \in DOMAIN outbox[g] => outbox' = outbox
               /\ n \notin DOMAIN outbox[g] =>
                     outbox' = [outbox EXCEPT ![g] = Insert(outbox[g], n, NewRow(w))]
<1> DEFINE g == writer[w].gateway
           n == writer[w].gen
<1>1. /\ writer \in [Writers -> WriterState] /\ outbox \in [Gateways -> Outboxes]
      /\ g \in Gateways /\ n \in Generations /\ n - 1 \in DOMAIN outbox[g] \cup {0}
      /\ writer[w].peers \in PeerTables
  BY DEF DeliveryHeld, DeliveryState, InsertSnapshot, WriterHeld, WriterState
<1>2. NewRow(w) \in Row
  BY <1>1, DeliveryAssumptions DEF NewRow, Row, RowStates
<1>3. /\ n \in DOMAIN outbox[g] => outbox' = outbox
      /\ n \notin DOMAIN outbox[g] =>
            outbox' = [outbox EXCEPT ![g] = Insert(outbox[g], n, NewRow(w))]
      /\ writer' = [writer EXCEPT ![w] = NextGateway(w)]
  BY DEF InsertSnapshot, NewRow
<1>4. outbox' \in [Gateways -> Outboxes]
  <2>1. CASE n \in DOMAIN outbox[g]
    BY <1>1, <1>3, <2>1
  <2>2. CASE n \notin DOMAIN outbox[g]
    <3>1. Insert(outbox[g], n, NewRow(w)) \in Outboxes
      BY <1>1, <1>2, <2>2, OutboxExtended
    <3> HIDE DEF g, n
    <3> QED
      BY <1>1, <1>3, <2>2, <3>1
  <2> QED
    BY <2>1, <2>2
<1>5. NextGateway(w) \in WriterState
  BY <1>1, NoPeersIsTable, ControlStoreAssumptions DEF NextGateway, IdleWriter, WriterState
<1>6. writer' \in [Writers -> WriterState]
  BY <1>1, <1>3, <1>5
<1>7. UNCHANGED <<confirming, agent, kernel, faults>>
  BY DEF InsertSnapshot
<1> QED
  BY <1>1, <1>3, <1>4, <1>6, <1>7 DEF DeliveryHeld, DeliveryState

\* The states of the Worker.
AgentSteps == {"idle", "verify", "apply", "retry", "ack", "wait"}

\* What a step of g's agent, handler or outbox leaves alone.
OnlyAt(g) ==
    /\ \A h \in Gateways : h # g =>
          /\ outbox'[h] = outbox[h]
          /\ confirming'[h] = confirming[h]
          /\ agent'[h] = agent[h]
          /\ kernel'[h] = kernel[h]
    /\ writer' = writer
    /\ faults' = 0 => faults = 0

\* The Worker of g moves on; Current and CurrentPeers stay.
AgentBecomes(g, step, gen, ops) ==
    /\ agent' \in [Gateways -> Agent]
    /\ \A h \in Gateways : h # g => agent'[h] = agent[h]
    /\ agent'[g].step = step
    /\ agent'[g].gen = gen
    /\ agent'[g].ops = ops
    /\ agent'[g].current = agent[g].current
    /\ agent'[g].view = agent[g].view

\* An assignment to step, delivery and operations is such a move.
LEMMA AgentUpdated ==
    ASSUME agent \in [Gateways -> Agent], NEW g \in Gateways,
           NEW step \in AgentSteps, NEW gen \in 0..MaxGeneration, NEW ops \in SUBSET Operation,
           agent' = [agent EXCEPT ![g].step = step, ![g].gen = gen, ![g].ops = ops]
    PROVE  AgentBecomes(g, step, gen, ops)
BY DEF AgentBecomes, Agent, AgentSteps

\* Going back to the top of Worker.Run is one.
LEMMA ToIdleEffect ==
    ASSUME agent \in [Gateways -> Agent], NEW g \in Gateways, ToIdle(g)
    PROVE  AgentBecomes(g, "idle", 0, {})
<1>1. /\ "idle" \in AgentSteps /\ 0 \in 0..MaxGeneration /\ {} \in SUBSET Operation
  BY ControlStoreAssumptions DEF AgentSteps
<1> QED
  BY <1>1, AgentUpdated DEF ToIdle

\* The same for a step that keeps the delivery in hand.
LEMMA AgentMoved ==
    ASSUME agent \in [Gateways -> Agent], NEW g \in Gateways,
           NEW step \in AgentSteps, NEW ops \in SUBSET Operation,
           agent' = [agent EXCEPT ![g].step = step, ![g].ops = ops]
    PROVE  AgentBecomes(g, step, agent[g].gen, ops)
BY DEF AgentBecomes, Agent, AgentSteps

\* A fault leaves a trace in the counter, whatever its kind.
LEMMA FaultCounted ==
    ASSUME DeliveryState, NEW kind, Fault(kind)
    PROVE  faults' \in 0..MaxFaults /\ faults' # 0
BY DeliveryAssumptions DEF Fault, DeliveryState

\* The following lemmas say of each step of the agent what it changes, as the
\* proofs below need it.  ClaimDelivery: a row goes in flight and is in hand.
LEMMA ClaimDeliveryEffect ==
    ASSUME DeliveryHeld, NEW g \in Gateways, ClaimDelivery(g)
    PROVE  /\ DeliveryState'
           /\ OnlyAt(g)
           /\ \E n \in DOMAIN outbox[g] :
                 /\ outbox[g][n].state \in {"queued", "failed"}
                 /\ RowChanged(g, n, "in_flight")
                 /\ AgentBecomes(g, "verify", n, agent[g].ops)
           /\ UNCHANGED <<storeVars, writer, confirming, kernel, faults>>
<1> DEFINE n == Min(Claimable(g))
<1>1. outbox \in [Gateways -> Outboxes] /\ agent \in [Gateways -> Agent]
  BY DEF DeliveryHeld, DeliveryState
<1>2. /\ n \in DOMAIN outbox[g]
      /\ outbox[g][n].state \in {"queued", "failed"}
      /\ RowChanged(g, n, "in_flight")
  BY <1>1, ClaimChangesRow DEF ClaimDelivery
<1>3. AgentBecomes(g, "verify", n, agent[g].ops)
  <2>1. n \in 0..MaxGeneration
    BY <1>1, <1>2, RowsOf DEF Generations
  <2>2. agent' = [agent EXCEPT ![g].step = "verify", ![g].gen = n]
    BY DEF ClaimDelivery
  <2> HIDE DEF n
  <2> QED
    BY <1>1, <2>1, <2>2 DEF AgentBecomes, Agent
<1> QED
  BY <1>2, <1>3 DEF ClaimDelivery, DeliveryHeld, DeliveryState, OnlyAt, RowChanged, AgentBecomes

\* ClaimLost: a row goes in flight and nobody has it.
LEMMA ClaimLostEffect ==
    ASSUME DeliveryHeld, NEW g \in Gateways, ClaimLost(g)
    PROVE  /\ DeliveryState'
           /\ OnlyAt(g)
           /\ \E n \in DOMAIN outbox[g] :
                 /\ outbox[g][n].state \in {"queued", "failed"}
                 /\ RowChanged(g, n, "in_flight")
           /\ UNCHANGED <<storeVars, writer, confirming, agent, kernel>>
           /\ faults' # 0
<1> DEFINE n == Min(Claimable(g))
<1>1. outbox \in [Gateways -> Outboxes]
  BY DEF DeliveryHeld, DeliveryState
<1>2. /\ n \in DOMAIN outbox[g]
      /\ outbox[g][n].state \in {"queued", "failed"}
      /\ RowChanged(g, n, "in_flight")
  BY <1>1, ClaimChangesRow DEF ClaimLost
<1>3. faults' \in 0..MaxFaults /\ faults' # 0
  BY FaultCounted DEF ClaimLost, DeliveryHeld
<1> QED
  BY <1>2, <1>3 DEF ClaimLost, DeliveryHeld, DeliveryState, OnlyAt, RowChanged

\* VerifyDelivery: hand back, acknowledge as it is, or apply the difference.
LEMMA VerifyDeliveryEffect ==
    ASSUME DeliveryHeld, NEW g \in Gateways, VerifyDelivery(g)
    PROVE  LET row == outbox[g][agent[g].gen]
           IN  /\ DeliveryState'
               /\ OnlyAt(g)
               /\ agent[g].step = "verify"
               /\ \/ AgentBecomes(g, "retry", agent[g].gen, agent[g].ops)
                  \/ /\ agent[g].gen <= agent[g].current
                     /\ AgentBecomes(g, "ack", agent[g].gen, agent[g].ops)
                  \/ /\ agent[g].gen > agent[g].current
                     /\ ValidPeers(row.peers)
                     /\ AgentBecomes(g, "apply", agent[g].gen, Diff(row.peers, agent[g].view))
               /\ UNCHANGED <<storeVars, outbox, writer, confirming, kernel, faults>>
<1> DEFINE row == outbox[g][agent[g].gen]
           ops == Diff(row.peers, agent[g].view)
<1>1. /\ agent \in [Gateways -> Agent] /\ agent[g] \in Agent
      /\ agent[g].step = "verify" /\ agent[g].gen \in DOMAIN outbox[g]
  BY DEF DeliveryHeld, DeliveryState, HeldInv, VerifyDelivery
<1>2. ops \in SUBSET Operation
  <2>1. row.peers \in PeerTables /\ agent[g].view \in PeerTables
    BY <1>1, RowHeldTyped DEF DeliveryHeld, Agent
  <2> QED
    BY <2>1, DiffTyped
<1>3. \A step \in AgentSteps : agent' = [agent EXCEPT ![g].step = step] =>
          AgentBecomes(g, step, agent[g].gen, agent[g].ops)
  BY <1>1 DEF AgentBecomes, Agent, AgentSteps
<1>4. agent' = [agent EXCEPT ![g].step = "apply", ![g].ops = ops] =>
          AgentBecomes(g, "apply", agent[g].gen, ops)
  <2> HIDE DEF ops
  <2>1. "apply" \in AgentSteps
    BY DEF AgentSteps
  <2> QED
    BY <1>1, <1>2, <2>1, AgentMoved
<1>5. \/ AgentBecomes(g, "retry", agent[g].gen, agent[g].ops)
      \/ /\ agent[g].gen <= agent[g].current
         /\ AgentBecomes(g, "ack", agent[g].gen, agent[g].ops)
      \/ /\ agent[g].gen > agent[g].current
         /\ ValidPeers(row.peers)
         /\ AgentBecomes(g, "apply", agent[g].gen, ops)
  <2>1. /\ "retry" \in AgentSteps /\ "ack" \in AgentSteps
    BY DEF AgentSteps
  <2> QED
    BY <1>1, <1>3, <1>4, <2>1 DEF VerifyDelivery, Superseded, Agent
<1>6. UNCHANGED <<storeVars, outbox, writer, confirming, kernel, faults>>
  BY DEF VerifyDelivery
<1>7. agent' \in [Gateways -> Agent] /\ \A h \in Gateways : h # g => agent'[h] = agent[h]
  BY <1>5 DEF AgentBecomes
<1> HIDE DEF ops
<1> QED
  BY <1>1, <1>5, <1>6, <1>7 DEF DeliveryHeld, DeliveryState, OnlyAt, ops

\* ApplyOperation: one operation reaches the interface.
LEMMA ApplyOperationEffect ==
    ASSUME DeliveryHeld, NEW g \in Gateways, ApplyOperation(g)
    PROVE  LET target == outbox[g][agent[g].gen].peers
           IN  /\ DeliveryState'
               /\ OnlyAt(g)
               /\ agent[g].step = "apply"
               /\ \E op \in agent[g].ops :
                     /\ kernel'[g] = IF op.kind = "remove"
                                     THEN RemovePeer(kernel[g], op.key)
                                     ELSE SetPeer(kernel[g], op.key, target[op.key])
                     /\ AgentBecomes(g, "apply", agent[g].gen, agent[g].ops \ {op})
               /\ UNCHANGED <<storeVars, outbox, writer, confirming, faults>>
<1> DEFINE target == outbox[g][agent[g].gen].peers
<1>1. /\ agent \in [Gateways -> Agent] /\ agent[g] \in Agent
      /\ kernel \in [Gateways -> PeerTables]
      /\ agent[g].step = "apply" /\ agent[g].gen \in DOMAIN outbox[g]
  BY DEF DeliveryHeld, DeliveryState, HeldInv, ApplyOperation
<1>2. PICK op \in agent[g].ops :
         /\ kernel' = [kernel EXCEPT ![g] =
               IF op.kind = "remove" THEN RemovePeer(kernel[g], op.key)
                                     ELSE SetPeer(kernel[g], op.key, target[op.key])]
         /\ agent' = [agent EXCEPT ![g].ops = agent[g].ops \ {op}]
  BY DEF ApplyOperation
<1>3. op \in Operation /\ op.key \in Devices
  BY <1>1 DEF Agent, Operation
<1>4. target \in PeerTables
  BY <1>1, RowHeldTyped DEF DeliveryHeld
<1>5. op.kind # "remove" => target[op.key] \in Peer
  <2>1. op.kind # "remove" => op.key \in DOMAIN target
    BY <1>1 DEF DeliveryHeld, HeldInv
  <2> QED
    BY <1>4, <2>1 DEF PeerTables
<1> HIDE DEF target
<1>6. kernel' \in [Gateways -> PeerTables]
  <2>1. op.kind = "remove" => RemovePeer(kernel[g], op.key) \in PeerTables
    BY <1>1, RemovePeerTyped
  <2>2. op.kind # "remove" => SetPeer(kernel[g], op.key, target[op.key]) \in PeerTables
    BY <1>1, <1>3, <1>5, SetPeerTyped
  <2> QED
    BY <1>1, <1>2, <2>1, <2>2
<1>7. AgentBecomes(g, "apply", agent[g].gen, agent[g].ops \ {op})
  <2>1. agent[g].ops \ {op} \in SUBSET Operation
    BY <1>1 DEF Agent
  <2> QED
    BY <1>1, <1>2, <2>1 DEF AgentBecomes, Agent
<1>8. UNCHANGED <<storeVars, outbox, writer, confirming, faults>>
  BY DEF ApplyOperation
<1>9. DeliveryState' /\ OnlyAt(g)
  BY <1>1, <1>2, <1>6, <1>7, <1>8 DEF DeliveryHeld, DeliveryState, OnlyAt, AgentBecomes
<1> QED
  BY <1>1, <1>2, <1>7, <1>8, <1>9 DEF target

\* AppliedAll: on to the acknowledgement.
LEMMA AppliedAllEffect ==
    ASSUME DeliveryHeld, NEW g \in Gateways, AppliedAll(g)
    PROVE  /\ DeliveryState'
           /\ OnlyAt(g)
           /\ AgentBecomes(g, "ack", agent[g].gen, {})
           /\ UNCHANGED <<storeVars, outbox, writer, confirming, kernel, faults>>
<1>1. agent \in [Gateways -> Agent] /\ agent[g].ops = {}
  BY DEF DeliveryHeld, DeliveryState, AppliedAll
<1>2. AgentBecomes(g, "ack", agent[g].gen, agent[g].ops)
  BY <1>1 DEF AppliedAll, AgentBecomes, Agent
<1> QED
  BY <1>1, <1>2 DEF AppliedAll, DeliveryHeld, DeliveryState, OnlyAt, AgentBecomes

\* ApplyFails: on to the retry call, the interface half way.
LEMMA ApplyFailsEffect ==
    ASSUME DeliveryHeld, NEW g \in Gateways, ApplyFails(g)
    PROVE  /\ DeliveryState'
           /\ OnlyAt(g)
           /\ AgentBecomes(g, "retry", agent[g].gen, {})
           /\ faults' # 0
           /\ UNCHANGED <<storeVars, outbox, writer, confirming, kernel>>
<1>1. agent \in [Gateways -> Agent]
  BY DEF DeliveryHeld, DeliveryState
<1>2. AgentBecomes(g, "retry", agent[g].gen, {})
  <2>1. "retry" \in AgentSteps /\ {} \in SUBSET Operation
    BY DEF AgentSteps
  <2> QED
    BY <1>1, <2>1, AgentMoved DEF ApplyFails
<1>3. faults' \in 0..MaxFaults /\ faults' # 0
  BY FaultCounted DEF ApplyFails, DeliveryHeld
<1> QED
  BY <1>2, <1>3 DEF ApplyFails, DeliveryHeld, DeliveryState, OnlyAt, AgentBecomes

\* RetryDelivery: the row in hand is failed and no longer in hand.
LEMMA RetryDeliveryEffect ==
    ASSUME DeliveryHeld, NEW g \in Gateways, RetryDelivery(g)
    PROVE  /\ DeliveryState'
           /\ OnlyAt(g)
           /\ outbox[g][agent[g].gen].state = "in_flight"
           /\ RowChanged(g, agent[g].gen, "failed")
           /\ AgentBecomes(g, "idle", 0, {})
           /\ UNCHANGED <<storeVars, writer, confirming, kernel, faults>>
<1> DEFINE n == agent[g].gen
           old == outbox[g][n]
           row == [old EXCEPT !.state = "failed", !.due = FALSE]
<1>1. /\ agent \in [Gateways -> Agent] /\ outbox \in [Gateways -> Outboxes]
      /\ n \in DOMAIN outbox[g]
  BY DEF DeliveryHeld, DeliveryState, HeldInv, RetryDelivery
<1>2. old \in Row
  BY <1>1, RowHeldTyped DEF DeliveryHeld
<1>3. row \in Row /\ row.state = "failed" /\ row.peers = old.peers
  BY <1>2 DEF Row, RowStates
<1>4. outbox' = [outbox EXCEPT ![g][n] = row]
  BY <1>1, <1>2 DEF RetryDelivery, Row
<1>5. RowChanged(g, n, "failed")
  <2> HIDE DEF row
  <2> QED
    BY <1>1, <1>3, <1>4, RowUpdated
<1>6. AgentBecomes(g, "idle", 0, {})
  BY <1>1, ToIdleEffect DEF RetryDelivery
<1> QED
  BY <1>1, <1>5, <1>6
  DEF RetryDelivery, DeliveryHeld, DeliveryState, OnlyAt, RowChanged, AgentBecomes

\* A call that does not arrive, or whose answer does not: only the agent moves.
LEMMA LostCallEffect ==
    ASSUME DeliveryHeld, NEW g \in Gateways, RetryLost(g) \/ AckLost(g)
    PROVE  /\ DeliveryState'
           /\ OnlyAt(g)
           /\ AgentBecomes(g, "idle", 0, {})
           /\ faults' # 0
           /\ UNCHANGED <<storeVars, outbox, writer, confirming, kernel>>
<1>1. AgentBecomes(g, "idle", 0, {})
  BY ToIdleEffect DEF RetryLost, AckLost, DeliveryHeld, DeliveryState
<1>2. faults' \in 0..MaxFaults /\ faults' # 0
  BY FaultCounted DEF RetryLost, AckLost, DeliveryHeld
<1> QED
  BY <1>1, <1>2 DEF RetryLost, AckLost, DeliveryHeld, DeliveryState, OnlyAt, AgentBecomes

\* AckSnapshot: the row in hand is acked, its confirmation is open.
LEMMA AckSnapshotEffect ==
    ASSUME DeliveryHeld, NEW g \in Gateways, AckSnapshot(g)
    PROVE  /\ DeliveryState'
           /\ OnlyAt(g)
           /\ agent[g].step = "ack"
           /\ RowChanged(g, agent[g].gen, "acked")
           /\ confirming'[g] = confirming[g] \cup {agent[g].gen}
           /\ AgentBecomes(g, "wait", agent[g].gen, agent[g].ops)
           /\ UNCHANGED <<storeVars, writer, kernel, faults>>
<1> DEFINE n == agent[g].gen
           old == outbox[g][n]
           row == [old EXCEPT !.state = "acked"]
<1>1. /\ agent \in [Gateways -> Agent] /\ outbox \in [Gateways -> Outboxes]
      /\ confirming \in [Gateways -> SUBSET Generations]
      /\ n \in DOMAIN outbox[g]
  BY DEF DeliveryHeld, DeliveryState, HeldInv, AckSnapshot
<1>2. old \in Row /\ n \in Generations
  BY <1>1, RowHeldTyped DEF DeliveryHeld
<1>3. row \in Row /\ row.state = "acked" /\ row.peers = old.peers
  BY <1>2 DEF Row, RowStates
<1>4. outbox' = [outbox EXCEPT ![g][n] = row]
  BY <1>1, <1>2 DEF AckSnapshot, Row
<1>5. RowChanged(g, n, "acked")
  <2> HIDE DEF row
  <2> QED
    BY <1>1, <1>3, <1>4, RowUpdated
<1>6. AgentBecomes(g, "wait", n, agent[g].ops)
  BY <1>1 DEF AckSnapshot, AgentBecomes, Agent
<1>7. /\ confirming' \in [Gateways -> SUBSET Generations]
      /\ confirming'[g] = confirming[g] \cup {n}
      /\ \A h \in Gateways : h # g => confirming'[h] = confirming[h]
  BY <1>1, <1>2 DEF AckSnapshot
<1> HIDE DEF n, row
<1> QED
  BY <1>5, <1>6, <1>7
  DEF AckSnapshot, DeliveryHeld, DeliveryState, OnlyAt, RowChanged, AgentBecomes, n

\* AgentRestarts: the Worker is as new.
LEMMA AgentRestartsEffect ==
    ASSUME DeliveryHeld, NEW g \in Gateways, AgentRestarts(g)
    PROVE  /\ DeliveryState'
           /\ OnlyAt(g)
           /\ agent'[g] = IdleAgent
           /\ faults' # 0
           /\ UNCHANGED <<storeVars, outbox, writer, confirming, kernel>>
<1>1. IdleAgent \in Agent
  BY NoPeersIsTable, ControlStoreAssumptions DEF IdleAgent, Agent
<1>2. faults' \in 0..MaxFaults /\ faults' # 0
  BY FaultCounted DEF AgentRestarts, DeliveryHeld
<1> QED
  BY <1>1, <1>2 DEF AgentRestarts, DeliveryHeld, DeliveryState, OnlyAt

\* The second half of the acknowledgement handler: the agent that waits for
\* this generation is answered, or gives up; Current moves only when the
\* generation is newer, and only to the delivery in hand.
LEMMA HandlerEffect ==
    ASSUME DeliveryHeld, NEW g \in Gateways, NEW n \in Generations, HandlerNext(g, n)
    PROVE  /\ DeliveryState'
           /\ OnlyAt(g)
           /\ confirming'[g] \subseteq confirming[g]
           /\ \/ agent'[g] = agent[g]
              \/ /\ agent[g].step = "wait"
                 /\ ConfirmDelivery(g, n) => agent[g].gen <= agent[g].current
                 /\ AgentBecomes(g, "idle", 0, {})
              \/ /\ agent[g].step = "wait"
                 /\ agent[g].gen > agent[g].current
                 /\ agent'[g] = [step |-> "idle", gen |-> 0, ops |-> {},
                                 current |-> agent[g].gen,
                                 view |-> outbox[g][agent[g].gen].peers]
           /\ UNCHANGED <<outbox, writer, kernel>>
<1>1. /\ agent \in [Gateways -> Agent] /\ agent[g] \in Agent
      /\ confirming \in [Gateways -> SUBSET Generations]
  BY DEF DeliveryHeld, DeliveryState
<1>2. /\ confirming' = [confirming EXCEPT ![g] = confirming[g] \ {n}]
      /\ UNCHANGED <<outbox, writer, kernel>>
  BY DEF HandlerNext, ConfirmDelivery, ConfirmUnanswered, ConfirmFails
<1>3. faults' \in 0..MaxFaults /\ (faults' = 0 => faults' = faults)
  <2>1. faults' = faults \/ (faults' \in 0..MaxFaults /\ faults' # 0)
    BY FaultCounted DEF HandlerNext, ConfirmDelivery, ConfirmUnanswered, ConfirmFails, DeliveryHeld
  <2> QED
    BY <2>1 DEF DeliveryHeld, DeliveryState
<1>4. ASSUME ToIdle(g)
      PROVE  AgentBecomes(g, "idle", 0, {}) /\ agent' \in [Gateways -> Agent]
             /\ \A h \in Gateways : h # g => agent'[h] = agent[h]
  BY <1>1, <1>4, ToIdleEffect DEF AgentBecomes
<1>5. ASSUME Waiting(g, n), agent[g].gen > agent[g].current, AgentAcked(g)
      PROVE  /\ agent' \in [Gateways -> Agent]
             /\ \A h \in Gateways : h # g => agent'[h] = agent[h]
             /\ agent'[g] = [step |-> "idle", gen |-> 0, ops |-> {},
                             current |-> agent[g].gen,
                             view |-> outbox[g][agent[g].gen].peers]
  <2> DEFINE acked == [step |-> "idle", gen |-> 0, ops |-> {}, current |-> agent[g].gen,
                       view |-> outbox[g][agent[g].gen].peers]
  <2>1. agent[g].gen \in DOMAIN outbox[g]
    BY <1>5 DEF DeliveryHeld, HeldInv, Waiting
  <2>2. outbox[g][agent[g].gen].peers \in PeerTables
    BY <2>1, RowHeldTyped DEF DeliveryHeld
  <2>3. acked \in Agent
    BY <1>1, <2>2, ControlStoreAssumptions DEF Agent
  <2>4. agent' = [agent EXCEPT ![g] = acked]
    BY <1>1, <1>5 DEF AgentAcked, Superseded, Agent
  <2> HIDE DEF acked
  <2>5. agent' \in [Gateways -> Agent] /\ agent'[g] = acked
        /\ \A h \in Gateways : h # g => agent'[h] = agent[h]
    BY <1>1, <2>3, <2>4
  <2> QED
    BY <2>5 DEF acked
<1>6. /\ agent' \in [Gateways -> Agent]
      /\ \A h \in Gateways : h # g => agent'[h] = agent[h]
      /\ \/ agent'[g] = agent[g]
         \/ /\ agent[g].step = "wait"
            /\ ConfirmDelivery(g, n) => agent[g].gen <= agent[g].current
            /\ AgentBecomes(g, "idle", 0, {})
         \/ /\ agent[g].step = "wait"
            /\ agent[g].gen > agent[g].current
            /\ agent'[g] = [step |-> "idle", gen |-> 0, ops |-> {},
                            current |-> agent[g].gen,
                            view |-> outbox[g][agent[g].gen].peers]
  <2>1. CASE ConfirmDelivery(g, n)
    <3>1. CASE ~Waiting(g, n)
      BY <1>1, <2>1, <3>1 DEF ConfirmDelivery
    <3>2. CASE Waiting(g, n) /\ agent[g].gen > agent[g].current
      BY <1>5, <2>1, <3>2 DEF ConfirmDelivery, Waiting
    <3>3. CASE Waiting(g, n) /\ ~(agent[g].gen > agent[g].current)
      <4>1. agent[g].gen <= agent[g].current
        BY <1>1, <3>3 DEF Agent
      <4> QED
        BY <1>4, <2>1, <3>3, <4>1 DEF ConfirmDelivery, Waiting, AgentAcked, Superseded
    <3> QED
      BY <3>1, <3>2, <3>3
  <2>2. CASE ConfirmUnanswered(g, n)
    <3>1. ~ConfirmDelivery(g, n)
      BY <2>2 DEF ConfirmUnanswered, ConfirmDelivery, Fault, DeliveryHeld, DeliveryState
    <3> QED
      BY <1>4, <2>2, <3>1 DEF ConfirmUnanswered, Waiting
  <2>3. CASE ConfirmFails(g, n)
    <3>1. ~ConfirmDelivery(g, n)
      BY <2>3 DEF ConfirmFails, ConfirmDelivery, Fault, DeliveryHeld, DeliveryState
    <3> QED
      BY <1>1, <1>4, <2>3, <3>1 DEF ConfirmFails, Waiting
  <2> QED
    BY <2>1, <2>2, <2>3 DEF HandlerNext
<1> QED
  BY <1>1, <1>2, <1>3, <1>6 DEF DeliveryHeld, DeliveryState, OnlyAt

\* The passing of time touches two flags of a row.
LEMMA TimeEffect ==
    ASSUME DeliveryHeld, NEW g \in Gateways, NEW n \in Generations,
           RowBecomesDue(g, n) \/ SnapshotExpires(g, n)
    PROVE  /\ DeliveryState'
           /\ OnlyAt(g)
           /\ n \in DOMAIN outbox[g]
           /\ RowChanged(g, n, outbox[g][n].state)
           /\ UNCHANGED <<storeVars, writer, confirming, agent, kernel>>
<1>1. outbox \in [Gateways -> Outboxes] /\ n \in DOMAIN outbox[g]
  BY DEF DeliveryHeld, DeliveryState, RowBecomesDue, SnapshotExpires
<1>2. outbox[g][n] \in Row
  BY <1>1, RowHeldTyped DEF DeliveryHeld
<1>3. \E row \in Row :
         /\ row.peers = outbox[g][n].peers /\ row.state = outbox[g][n].state
         /\ outbox' = [outbox EXCEPT ![g][n] = row]
  <2>1. CASE RowBecomesDue(g, n)
    <3> DEFINE row == [outbox[g][n] EXCEPT !.due = TRUE]
    <3>1. row \in Row /\ row.peers = outbox[g][n].peers /\ row.state = outbox[g][n].state
      BY <1>2 DEF Row
    <3>2. outbox' = [outbox EXCEPT ![g][n] = row]
      BY <1>1, <1>2, <2>1 DEF RowBecomesDue, Row
    <3> QED
      BY <3>1, <3>2
  <2>2. CASE SnapshotExpires(g, n)
    <3> DEFINE row == [outbox[g][n] EXCEPT !.expired = TRUE]
    <3>1. row \in Row /\ row.peers = outbox[g][n].peers /\ row.state = outbox[g][n].state
      BY <1>2 DEF Row
    <3>2. outbox' = [outbox EXCEPT ![g][n] = row]
      BY <1>1, <1>2, <2>2 DEF SnapshotExpires, Row
    <3> QED
      BY <3>1, <3>2
  <2> QED
    BY <2>1, <2>2
<1>4. RowChanged(g, n, outbox[g][n].state)
  BY <1>1, <1>3, RowUpdated
<1>5. faults' \in 0..MaxFaults /\ (faults' = 0 => faults = 0)
      /\ UNCHANGED <<storeVars, writer, confirming, agent, kernel>>
  <2>1. faults' = faults \/ (faults' \in 0..MaxFaults /\ faults' # 0)
    BY FaultCounted DEF RowBecomesDue, SnapshotExpires, DeliveryHeld
  <2> QED
    BY <2>1 DEF RowBecomesDue, SnapshotExpires, DeliveryHeld, DeliveryState
<1> QED
  BY <1>1, <1>4, <1>5 DEF DeliveryHeld, DeliveryState, OnlyAt, RowChanged

\* What the gateways' own steps have in common with all others: rows are
\* never dropped, their contents never change, 'acked' is final.
RowsKept(g) ==
    /\ DOMAIN outbox[g] \subseteq DOMAIN outbox'[g]
    /\ \A n \in DOMAIN outbox[g] :
          /\ outbox'[g][n].peers = outbox[g][n].peers
          /\ outbox[g][n].state = "acked" => outbox'[g][n].state = "acked"

\* A step that leaves the agent and the interface of g alone: rows are added
\* as queued, and claimed by a call whose answer is lost.
Quiet(g) ==
    /\ agent'[g] = agent[g]
    /\ kernel'[g] = kernel[g]
    /\ confirming'[g] \subseteq confirming[g]
    /\ RowsKept(g)
    /\ \A n \in DOMAIN outbox[g] :
          \/ outbox'[g][n].state = outbox[g][n].state
          \/ outbox[g][n].state \in {"queued", "failed"} /\ outbox'[g][n].state = "in_flight"
    /\ \A n \in DOMAIN outbox'[g] \ DOMAIN outbox[g] : outbox'[g][n].state = "queued"
    /\ faults' = 0 => faults = 0

\* A step of one gateway is quiet for the others.
LEMMA QuietElsewhere ==
    ASSUME NEW h \in Gateways, OnlyAt(h), NEW g \in Gateways, g # h
    PROVE  Quiet(g) /\ DOMAIN outbox'[g] = DOMAIN outbox[g]
BY DEF OnlyAt, Quiet, RowsKept

\* The steps in which the agent of g moves, or its interface changes.
OwnStep(g) ==
    \/ ClaimDelivery(g)
    \/ VerifyDelivery(g)
    \/ ApplyOperation(g)
    \/ AppliedAll(g)
    \/ ApplyFails(g)
    \/ RetryDelivery(g)
    \/ RetryLost(g)
    \/ AckSnapshot(g)
    \/ AckLost(g)
    \/ AgentRestarts(g)
    \/ \E n \in Generations : HandlerNext(g, n)

\* None of them drops a row, adds one or changes its contents.
LEMMA OwnStepEffect ==
    ASSUME DeliveryHeld, NEW g \in Gateways, OwnStep(g)
    PROVE  DeliveryState' /\ OnlyAt(g) /\ RowsKept(g)
           /\ DOMAIN outbox'[g] = DOMAIN outbox[g]
<1>1. ASSUME NEW n \in DOMAIN outbox[g], NEW state, RowChanged(g, n, state),
             outbox[g][n].state # "acked"
      PROVE  RowsKept(g) /\ DOMAIN outbox'[g] = DOMAIN outbox[g]
  BY <1>1 DEF RowChanged, RowsKept
<1>2. outbox' = outbox => RowsKept(g) /\ DOMAIN outbox'[g] = DOMAIN outbox[g]
  BY DEF RowsKept
<1>3. CASE ClaimDelivery(g)
  <2>1. PICK n \in DOMAIN outbox[g] : outbox[g][n].state \in {"queued", "failed"}
                                      /\ RowChanged(g, n, "in_flight")
    BY <1>3, ClaimDeliveryEffect
  <2> QED
    BY <1>1, <1>3, <2>1, ClaimDeliveryEffect
<1>4. CASE VerifyDelivery(g)
  BY <1>2, <1>4, VerifyDeliveryEffect
<1>5. CASE ApplyOperation(g)
  BY <1>2, <1>5, ApplyOperationEffect
<1>6. CASE AppliedAll(g)
  BY <1>2, <1>6, AppliedAllEffect
<1>7. CASE ApplyFails(g)
  BY <1>2, <1>7, ApplyFailsEffect
<1>8. CASE RetryDelivery(g)
  <2>1. agent[g].gen \in DOMAIN outbox[g]
    BY <1>8 DEF RetryDelivery, DeliveryHeld, HeldInv
  <2> QED
    BY <1>1, <1>8, <2>1, RetryDeliveryEffect
<1>9. CASE RetryLost(g) \/ AckLost(g)
  BY <1>2, <1>9, LostCallEffect
<1>10. CASE AckSnapshot(g)
  <2>1. agent[g].gen \in DOMAIN outbox[g] /\ outbox[g][agent[g].gen].state = "in_flight"
    BY <1>10 DEF AckSnapshot, DeliveryHeld, HeldInv
  <2> QED
    BY <1>1, <1>10, <2>1, AckSnapshotEffect
<1>11. CASE AgentRestarts(g)
  BY <1>2, <1>11, AgentRestartsEffect
<1>12. CASE \E n \in Generations : HandlerNext(g, n)
  BY <1>2, <1>12, HandlerEffect
<1> QED
  BY <1>3, <1>4, <1>5, <1>6, <1>7, <1>8, <1>9, <1>10, <1>11, <1>12 DEF OwnStep

\* Steps that touch the outbox of g behind its agent's back.
LEMMA QuietAtHome ==
    ASSUME DeliveryHeld, NEW g \in Gateways,
           ClaimLost(g) \/ \E n \in Generations : RowBecomesDue(g, n) \/ SnapshotExpires(g, n)
    PROVE  DeliveryState' /\ OnlyAt(g) /\ Quiet(g) /\ writer' = writer
           /\ DOMAIN outbox'[g] = DOMAIN outbox[g]
<1>1. CASE ClaimLost(g)
  <2>1. PICK n \in DOMAIN outbox[g] : outbox[g][n].state \in {"queued", "failed"}
                                      /\ RowChanged(g, n, "in_flight")
    BY <1>1, ClaimLostEffect
  <2> QED
    BY <1>1, <2>1, ClaimLostEffect DEF Quiet, RowsKept, RowChanged
<1>2. ASSUME NEW n \in Generations, RowBecomesDue(g, n) \/ SnapshotExpires(g, n)
      PROVE  DeliveryState' /\ OnlyAt(g) /\ Quiet(g) /\ writer' = writer
             /\ DOMAIN outbox'[g] = DOMAIN outbox[g]
  BY <1>2, TimeEffect DEF Quiet, RowsKept, RowChanged, OnlyAt
<1> QED
  BY <1>1, <1>2

\* A row is only added for a writer that has read it.
Added(g, w) ==
    /\ writer[w].step = "insert"
    /\ writer[w].gateway = g
    /\ writer[w].gen \notin DOMAIN outbox[g]
    /\ DOMAIN outbox'[g] = DOMAIN outbox[g] \cup {writer[w].gen}
    /\ outbox'[g][writer[w].gen].peers = writer[w].peers
    /\ UNCHANGED storeVars

\* How a writer moves: it starts over, reads the generation that is next, or
\* reads the peers of that moment.
WriterMoves(w) ==
    \/ writer'[w] = writer[w]
    \/ writer'[w].step = "loop"
    \/ \E g \in Gateways :
          /\ writer'[w].step = "peers"
          /\ writer'[w].gateway = g
          /\ writer'[w].gen = NextGeneration(g)
          /\ NextGeneration(g) \in Generations
          /\ UNCHANGED outbox
    \/ /\ writer[w].step = "peers"
       /\ writer'[w].step = "insert"
       /\ writer'[w].gateway = writer[w].gateway
       /\ writer'[w].gen = writer[w].gen
       /\ writer'[w].peers = MaterializedPeers(writer[w].gateway)
       /\ UNCHANGED <<storeVars, outbox>>

\* An insertion is quiet for every gateway.
LEMMA InsertIsQuiet ==
    ASSUME DeliveryHeld, NEW w \in Writers, InsertSnapshot(w), NEW g \in Gateways
    PROVE  /\ Quiet(g)
           /\ DOMAIN outbox'[g] = DOMAIN outbox[g] \/ Added(g, w)
<1> DEFINE h == writer[w].gateway
           n == writer[w].gen
<1>1. /\ h \in Gateways /\ outbox \in [Gateways -> Outboxes]
      /\ n \in DOMAIN outbox[h] => outbox' = outbox
      /\ n \notin DOMAIN outbox[h] =>
            outbox' = [outbox EXCEPT ![h] = Insert(outbox[h], n, NewRow(w))]
  BY InsertEffect DEF DeliveryHeld, DeliveryState
<1>2. UNCHANGED <<storeVars, confirming, agent, kernel, faults>> /\ writer[w].step = "insert"
  BY DEF InsertSnapshot
<1>3. CASE n \in DOMAIN outbox[h] \/ g # h
  <2>1. outbox'[g] = outbox[g]
    BY <1>1, <1>3
  <2> QED
    BY <1>2, <2>1 DEF Quiet, RowsKept
<1>4. CASE n \notin DOMAIN outbox[h] /\ g = h
  <2>1. outbox'[g] = Insert(outbox[g], n, NewRow(w))
    BY <1>1, <1>4
  <2>2. /\ DOMAIN outbox'[g] = DOMAIN outbox[g] \cup {n}
        /\ \A m \in DOMAIN outbox[g] : outbox'[g][m] = outbox[g][m]
        /\ outbox'[g][n] = NewRow(w)
    BY <1>4, <2>1 DEF Insert
  <2>3. outbox'[g][n].state = "queued" /\ outbox'[g][n].peers = writer[w].peers
    BY <2>2 DEF NewRow
  <2> QED
    BY <1>2, <1>4, <2>2, <2>3 DEF Quiet, RowsKept, Added
<1> QED
  BY <1>3, <1>4

\* So is every step of the writers; only an insertion adds a row.
LEMMA WriterEffect ==
    ASSUME StoreInv, DeliveryHeld, WriterNext
    PROVE  /\ DeliveryState'
           /\ \A w \in Writers : WriterMoves(w)
           /\ \A g \in Gateways :
                 /\ Quiet(g)
                 /\ \/ DOMAIN outbox'[g] = DOMAIN outbox[g]
                    \/ \E w \in Writers : Added(g, w)
<1>0. /\ writer \in [Writers -> WriterState]
      /\ \A w \in Writers : writer[w] \in WriterState
  BY DEF DeliveryHeld, DeliveryState
<1>1. CASE ListGateways
  <2>1. /\ Reconciler \in Writers
        /\ UNCHANGED <<outbox, confirming, agent, kernel, faults>>
        /\ writer[Reconciler].step = "loop"
    BY <1>1 DEF ListGateways, IdleWriter
  <2>2. \A w \in Writers : writer'[w] = writer[w] \/ writer'[w].step = "loop"
    BY <1>0, <1>1, <2>1 DEF ListGateways, WriterState
  <2>3. DeliveryState'
    BY <1>1, <2>1, WriterTyped
  <2> QED
    BY <2>1, <2>2, <2>3 DEF WriterMoves, Quiet, RowsKept
<1>2. ASSUME NEW w \in Writers, NEW g \in Gateways, ReadGeneration(w, g)
      PROVE  /\ DeliveryState'
             /\ \A v \in Writers : WriterMoves(v)
             /\ \A h \in Gateways : Quiet(h) /\ DOMAIN outbox'[h] = DOMAIN outbox[h]
  <2>1. NextGeneration(g) \in Generations
    BY <1>2, NextInLine, ControlStoreAssumptions
    DEF ReadGeneration, Generations, DeliveryHeld, DeliveryState
  <2>2. /\ writer'[w].step = "peers" /\ writer'[w].gateway = g
        /\ writer'[w].gen = NextGeneration(g)
        /\ \A v \in Writers : v # w => writer'[v] = writer[v]
    BY <1>0, <1>2 DEF ReadGeneration
  <2>3. UNCHANGED <<outbox, confirming, agent, kernel, faults>>
    BY <1>2 DEF ReadGeneration
  <2>4. DeliveryState'
    BY <1>2, WriterTyped
  <2> QED
    BY <2>1, <2>2, <2>3, <2>4 DEF WriterMoves, Quiet, RowsKept
<1>3. ASSUME NEW w \in Writers, ReadPeers(w)
      PROVE  /\ DeliveryState'
             /\ \A v \in Writers : WriterMoves(v)
             /\ \A h \in Gateways : Quiet(h) /\ DOMAIN outbox'[h] = DOMAIN outbox[h]
  <2> DEFINE peers == MaterializedPeers(writer[w].gateway)
  <2>1. writer' = [writer EXCEPT ![w] = [writer[w] EXCEPT !.step = "insert", !.peers = peers]]
    BY <1>0, <1>3 DEF ReadPeers, WriterState
  <2> HIDE DEF peers
  <2>2. /\ writer'[w].step = "insert" /\ writer'[w].gateway = writer[w].gateway
        /\ writer'[w].gen = writer[w].gen
        /\ writer'[w].peers = peers
        /\ \A v \in Writers : v # w => writer'[v] = writer[v]
    BY <1>0, <2>1 DEF WriterState
  <2>3. UNCHANGED <<storeVars, outbox, confirming, agent, kernel, faults>>
        /\ writer[w].step = "peers"
    BY <1>3 DEF ReadPeers
  <2>4. DeliveryState'
    BY <1>3, WriterTyped
  <2> QED
    BY <2>2, <2>3, <2>4 DEF WriterMoves, Quiet, RowsKept, peers
<1>4. ASSUME NEW w \in Writers, InsertSnapshot(w)
      PROVE  /\ DeliveryState'
             /\ \A v \in Writers : WriterMoves(v)
             /\ \A h \in Gateways : /\ Quiet(h)
                                    /\ \/ DOMAIN outbox'[h] = DOMAIN outbox[h]
                                       \/ Added(h, w)
  <2>1. DeliveryState' /\ writer' = [writer EXCEPT ![w] = NextGateway(w)]
    BY <1>4, InsertEffect
  <2>2. NextGateway(w).step = "loop"
    BY DEF NextGateway, IdleWriter
  <2>3. \A v \in Writers : writer'[v] = writer[v] \/ writer'[v].step = "loop"
    BY <1>0, <2>1, <2>2
  <2> QED
    BY <1>4, <2>1, <2>3, InsertIsQuiet DEF WriterMoves
<1>5. ASSUME NEW w \in Writers, WriterFails(w)
      PROVE  /\ DeliveryState'
             /\ \A v \in Writers : WriterMoves(v)
             /\ \A h \in Gateways : Quiet(h) /\ DOMAIN outbox'[h] = DOMAIN outbox[h]
  <2>1. PICK todo : writer' = [writer EXCEPT ![w] = [IdleWriter EXCEPT !.todo = todo]]
    BY <1>5 DEF WriterFails
  <2>2. [IdleWriter EXCEPT !.todo = todo].step = "loop"
    BY DEF IdleWriter
  <2>3. \A v \in Writers : writer'[v] = writer[v] \/ writer'[v].step = "loop"
    BY <1>0, <2>1, <2>2
  <2>4. UNCHANGED <<outbox, confirming, agent, kernel>> /\ faults' # 0
    BY <1>5, FaultCounted DEF WriterFails, DeliveryHeld
  <2>5. DeliveryState'
    BY <1>5, WriterTyped
  <2> QED
    BY <2>3, <2>4, <2>5 DEF WriterMoves, Quiet, RowsKept
<1> QED
  BY <1>1, <1>2, <1>3, <1>4, <1>5 DEF WriterNext, WriterMoves

\* A step of the whole system, seen from each gateway and each writer.
SystemMoves ==
    /\ DeliveryState'
    /\ \A w \in Writers : WriterMoves(w)
    /\ \A g \in Gateways :
          /\ OwnStep(g) \/ Quiet(g)
          /\ RowsKept(g)
          /\ \/ DOMAIN outbox'[g] = DOMAIN outbox[g]
             \/ \E w \in Writers : Added(g, w)

\* Every step of the system is one of these.
LEMMA StepEffect ==
    ASSUME StoreInv, DeliveryHeld, [Next]_vars
    PROVE  SystemMoves
<1>1. ASSUME UNCHANGED deliveryVars PROVE SystemMoves
  BY <1>1 DEF SystemMoves, deliveryVars, DeliveryHeld, DeliveryState, WriterMoves, Quiet, RowsKept
<1>2. ASSUME WriterNext PROVE SystemMoves
  BY <1>2, WriterEffect DEF SystemMoves, Quiet
<1>3. ASSUME NEW g \in Gateways, OwnStep(g) PROVE SystemMoves
  <2>1. DeliveryState' /\ OnlyAt(g) /\ RowsKept(g) /\ DOMAIN outbox'[g] = DOMAIN outbox[g]
    BY <1>3, OwnStepEffect
  <2>2. \A h \in Gateways : h # g => Quiet(h) /\ DOMAIN outbox'[h] = DOMAIN outbox[h]
    BY <2>1, QuietElsewhere
  <2> QED
    BY <1>3, <2>1, <2>2 DEF SystemMoves, OnlyAt, WriterMoves, Quiet
<1>4. ASSUME NEW g \in Gateways,
             ClaimLost(g) \/ \E n \in Generations : RowBecomesDue(g, n) \/ SnapshotExpires(g, n)
      PROVE  SystemMoves
  <2>1. /\ DeliveryState' /\ OnlyAt(g) /\ Quiet(g) /\ writer' = writer
        /\ DOMAIN outbox'[g] = DOMAIN outbox[g]
    BY <1>4, QuietAtHome
  <2>2. \A h \in Gateways : h # g => Quiet(h) /\ DOMAIN outbox'[h] = DOMAIN outbox[h]
    BY <2>1, QuietElsewhere
  <2> QED
    BY <2>1, <2>2 DEF SystemMoves, WriterMoves, Quiet
<1>5. ASSUME NEW g \in Gateways, AgentNext(g) PROVE SystemMoves
  BY <1>3, <1>4, <1>5 DEF AgentNext, OwnStep
<1>6. ASSUME NEW g \in Gateways, NEW n \in Generations,
             HandlerNext(g, n) \/ RowBecomesDue(g, n) \/ SnapshotExpires(g, n)
      PROVE  SystemMoves
  BY <1>3, <1>4, <1>6 DEF OwnStep
<1>7. ASSUME UNCHANGED vars PROVE SystemMoves
  BY <1>1, <1>7 DEF vars
<1>8. CASE Next
  <2>1. CASE (ClientNext \/ OperatorNext) /\ UNCHANGED deliveryVars
    BY <1>1, <2>1
  <2>2. CASE WriterNext
    BY <1>2, <2>2
  <2>3. CASE \E g \in Gateways :
               \/ AgentNext(g)
               \/ \E n \in Generations :
                     HandlerNext(g, n) \/ RowBecomesDue(g, n) \/ SnapshotExpires(g, n)
    BY <1>5, <1>6, <2>3
  <2> QED
    BY <1>8, <2>1, <2>2, <2>3 DEF Next
<1> QED
  BY <1>7, <1>8

\* Diff removes exactly the keys that are not desired.
LEMMA DiffKinds ==
    ASSUME NEW desired \in PeerTables, NEW observed \in PeerTables,
           NEW op \in Diff(desired, observed)
    PROVE  op.kind = "remove" <=> op.key \notin DOMAIN desired
BY DEF Diff

-----------------------------------------------------------------------------
(***************************************************************************)
(* The first invariant is inductive.                                       *)
(***************************************************************************)
\* Quiet steps keep HeldInv: the row in hand stays what it is.
LEMMA HeldQuietly ==
    ASSUME NEW g \in Gateways, HeldInv(g), Quiet(g)
    PROVE  HeldInv(g)'
BY DEF HeldInv, Quiet, RowsKept

\* The steps of the agent and its handler keep HeldInv.
LEMMA HeldByOwnStep ==
    ASSUME DeliveryHeld, NEW g \in Gateways, OwnStep(g)
    PROVE  HeldInv(g)'
<1>0. /\ HeldInv(g)
      /\ outbox[g] \in Outboxes /\ DOMAIN outbox[g] \subseteq Generations
      /\ agent[g] \in Agent
      /\ agent[g].gen \in Nat /\ agent[g].current \in Nat
      /\ 0 \notin DOMAIN outbox[g]
  BY RowsOf DEF DeliveryHeld, DeliveryState, Generations, Agent
<1>1. CASE ClaimDelivery(g)
  <2>1. PICK n \in DOMAIN outbox[g] :
           /\ outbox[g][n].state \in {"queued", "failed"}
           /\ RowChanged(g, n, "in_flight")
           /\ AgentBecomes(g, "verify", n, agent[g].ops)
    BY <1>1, ClaimDeliveryEffect
  <2>2. confirming' = confirming /\ agent[g].step = "idle"
    BY <1>1 DEF ClaimDelivery
  <2> QED
    BY <1>0, <2>1, <2>2 DEF RowChanged, AgentBecomes, HeldInv
<1>2. CASE VerifyDelivery(g)
  <2>1. UNCHANGED <<outbox, confirming>> /\ agent[g].step = "verify"
    BY <1>2, VerifyDeliveryEffect
  <2>2. CASE AgentBecomes(g, "retry", agent[g].gen, agent[g].ops)
             \/ AgentBecomes(g, "ack", agent[g].gen, agent[g].ops)
    BY <1>0, <2>1, <2>2 DEF AgentBecomes, HeldInv
  <2>3. CASE AgentBecomes(g, "apply", agent[g].gen,
                          Diff(outbox[g][agent[g].gen].peers, agent[g].view))
    <3>1. outbox[g][agent[g].gen].peers \in PeerTables /\ agent[g].view \in PeerTables
      BY <1>0, <2>1, RowHeldTyped DEF DeliveryHeld, HeldInv, Agent
    <3>2. \A op \in Diff(outbox[g][agent[g].gen].peers, agent[g].view) :
             op.kind = "remove" <=> op.key \notin DOMAIN outbox[g][agent[g].gen].peers
      BY <3>1, DiffKinds
    <3> QED
      BY <1>0, <2>1, <2>3, <3>2 DEF AgentBecomes, HeldInv
  <2> QED
    BY <1>2, <2>2, <2>3, VerifyDeliveryEffect
<1>3. CASE ApplyOperation(g)
  <2>1. PICK op \in agent[g].ops : AgentBecomes(g, "apply", agent[g].gen, agent[g].ops \ {op})
    BY <1>3, ApplyOperationEffect
  <2>2. UNCHANGED <<outbox, confirming>> /\ agent[g].step = "apply"
    BY <1>3, ApplyOperationEffect
  <2> QED
    BY <1>0, <2>1, <2>2 DEF AgentBecomes, HeldInv
<1>4. CASE AppliedAll(g)
  <2>1. /\ UNCHANGED <<outbox, confirming>> /\ agent[g].step = "apply"
        /\ AgentBecomes(g, "ack", agent[g].gen, {})
    BY <1>4, AppliedAllEffect DEF AppliedAll
  <2> QED
    BY <1>0, <2>1 DEF AgentBecomes, HeldInv
<1>5. CASE ApplyFails(g)
  <2>1. /\ UNCHANGED <<outbox, confirming>> /\ agent[g].step = "apply"
        /\ AgentBecomes(g, "retry", agent[g].gen, {})
    BY <1>5, ApplyFailsEffect DEF ApplyFails
  <2> QED
    BY <1>0, <2>1 DEF AgentBecomes, HeldInv
<1>6. CASE RetryDelivery(g)
  <2>1. /\ UNCHANGED confirming /\ agent[g].step = "retry"
        /\ RowChanged(g, agent[g].gen, "failed")
        /\ AgentBecomes(g, "idle", 0, {})
    BY <1>6, RetryDeliveryEffect DEF RetryDelivery
  <2> QED
    BY <1>0, <2>1 DEF AgentBecomes, HeldInv, RowChanged
<1>7. CASE RetryLost(g) \/ AckLost(g)
  <2>1. UNCHANGED <<outbox, confirming>> /\ AgentBecomes(g, "idle", 0, {})
    BY <1>7, LostCallEffect
  <2> QED
    BY <1>0, <2>1 DEF AgentBecomes, HeldInv
<1>8. CASE AckSnapshot(g)
  <2>1. /\ agent[g].step = "ack"
        /\ confirming'[g] = confirming[g] \cup {agent[g].gen}
        /\ RowChanged(g, agent[g].gen, "acked")
        /\ AgentBecomes(g, "wait", agent[g].gen, agent[g].ops)
    BY <1>8, AckSnapshotEffect
  <2> QED
    BY <1>0, <2>1 DEF AgentBecomes, HeldInv, RowChanged
<1>9. CASE AgentRestarts(g)
  <2>1. UNCHANGED <<outbox, confirming>> /\ agent'[g] = IdleAgent
    BY <1>9, AgentRestartsEffect
  <2> QED
    BY <1>0, <2>1 DEF IdleAgent, HeldInv
<1>10. ASSUME NEW n \in Generations, HandlerNext(g, n) PROVE HeldInv(g)'
  <2>1. UNCHANGED outbox /\ confirming'[g] \subseteq confirming[g]
    BY <1>10, HandlerEffect
  <2>2. CASE agent'[g] = agent[g]
    BY <1>0, <2>1, <2>2 DEF HeldInv
  <2>3. CASE AgentBecomes(g, "idle", 0, {})
    BY <1>0, <2>1, <2>3 DEF HeldInv, AgentBecomes
  <2>4. CASE /\ agent[g].step = "wait"
             /\ agent'[g] = [step |-> "idle", gen |-> 0, ops |-> {},
                             current |-> agent[g].gen,
                             view |-> outbox[g][agent[g].gen].peers]
    BY <1>0, <2>1, <2>4 DEF HeldInv
  <2> QED
    BY <1>10, <2>2, <2>3, <2>4, HandlerEffect
<1> QED
  BY <1>1, <1>2, <1>3, <1>4, <1>5, <1>6, <1>7, <1>8, <1>9, <1>10 DEF OwnStep

\* Writers keep WriterHeld: rows may be added meanwhile, none goes.
LEMMA WriterStaysHeld ==
    ASSUME DeliveryHeld, NEW w \in Writers, WriterMoves(w), \A g \in Gateways : RowsKept(g)
    PROVE  WriterHeld(w)'
<1>1. CASE writer'[w] = writer[w]
  BY <1>1 DEF DeliveryHeld, WriterHeld, RowsKept
<1>2. CASE writer'[w].step = "loop"
  BY <1>2 DEF WriterHeld
<1>3. ASSUME NEW g \in Gateways,
             writer'[w].step = "peers", writer'[w].gateway = g,
             writer'[w].gen = NextGeneration(g), NextGeneration(g) \in Generations,
             UNCHANGED outbox
      PROVE  WriterHeld(w)'
  BY <1>3, NextInLine DEF WriterHeld, DeliveryHeld, DeliveryState
<1>4. CASE /\ writer[w].step = "peers"
           /\ writer'[w].gateway = writer[w].gateway
           /\ writer'[w].gen = writer[w].gen
           /\ UNCHANGED outbox
  BY <1>4 DEF WriterHeld, DeliveryHeld
<1> QED
  BY <1>1, <1>2, <1>3, <1>4 DEF WriterMoves

\* DeliveryHeld is inductive, given the invariant of the store.
LEMMA NextKeepsHeld ==
    ASSUME StoreInv, DeliveryHeld, [Next]_vars
    PROVE  DeliveryHeld'
<1>1. SystemMoves
  BY StepEffect
<1>2. ASSUME NEW g \in Gateways PROVE HeldInv(g)'
  BY <1>1, HeldQuietly, HeldByOwnStep DEF SystemMoves, DeliveryHeld
<1>3. ASSUME NEW w \in Writers PROVE WriterHeld(w)'
  BY <1>1, WriterStaysHeld DEF SystemMoves
<1> QED
  BY <1>1, <1>2, <1>3 DEF SystemMoves, DeliveryHeld

\* It holds initially.
LEMMA InitialHeld ==
    ASSUME Init
    PROVE  DeliveryHeld
<1>1. /\ NoPeers \in PeerTables /\ IdleAgent \in Agent /\ IdleWriter \in WriterState
      /\ 0 \in 0..MaxFaults
  BY NoPeersIsTable, ControlStoreAssumptions, DeliveryAssumptions
  DEF IdleAgent, Agent, IdleWriter, WriterState
<1>2. [n \in {} |-> n] \in Outboxes /\ DOMAIN [n \in {} |-> n] = {}
  <2>1. 0 \in 0..MaxGeneration /\ 1..0 = {}
    BY ControlStoreAssumptions
  <2>2. [n \in {} |-> n] \in [1..0 -> Row]
    BY <2>1
  <2> QED
    BY <2>1, <2>2 DEF Outboxes
<1>3. DeliveryState
  BY <1>1, <1>2 DEF Init, DeliveryState
<1>4. ASSUME NEW g \in Gateways PROVE HeldInv(g)
  <2>1. agent[g] = IdleAgent /\ confirming[g] = {}
    BY DEF Init
  <2> QED
    BY <2>1 DEF IdleAgent, HeldInv
<1>5. ASSUME NEW w \in Writers PROVE WriterHeld(w)
  BY DEF Init, IdleWriter, WriterHeld
<1> QED
  BY <1>3, <1>4, <1>5 DEF DeliveryHeld

\* In every state the store is consistent, the agents hold what the outbox
\* says they hold, and writers cannot leave a gap.
THEOREM DeliveriesAlwaysHeld == Spec => [](StoreInv /\ DeliveryHeld)
<1>1. Init => DeliveryHeld
  BY InitialHeld
<1>2. StoreInv /\ DeliveryHeld /\ [Next]_vars => DeliveryHeld'
  BY NextKeepsHeld
<1>3. Spec => []StoreInv
  BY DeliveryImplementsStore, StoreInvariant, PTL
<1> QED
  BY <1>1, <1>2, <1>3, PTL DEF Spec

\* Type correctness of the composition.
THEOREM DeliveryTypeCorrect == Spec => []DeliveryTypeOK
<1>1. StoreInv /\ DeliveryHeld => DeliveryTypeOK
  <2> SUFFICES ASSUME StoreInv, DeliveryHeld PROVE DeliveryTypeOK
    OBVIOUS
  <2>1. ASSUME NEW g \in Gateways
        PROVE  /\ DOMAIN outbox[g] \subseteq Generations
               /\ \A n \in DOMAIN outbox[g] : IsRow(outbox[g][n])
    <3>1. outbox[g] \in Outboxes
      BY DEF DeliveryHeld, DeliveryState
    <3>2. ASSUME NEW n \in DOMAIN outbox[g] PROVE IsRow(outbox[g][n])
      <4>1. outbox[g][n] \in Row
        BY <3>1, RowsOf
      <4> QED
        BY <4>1, PeerTableIs DEF Row, IsRow
    <3> QED
      BY <3>1, <3>2, RowsOf
  <2>2. ASSUME NEW g \in Gateways
        PROVE  /\ confirming[g] \subseteq DOMAIN outbox[g]
               /\ agent[g].step \in {"idle", "verify", "apply", "retry", "ack", "wait"}
               /\ agent[g].gen \in DOMAIN outbox[g] \cup {0}
               /\ agent[g].current \in DOMAIN outbox[g] \cup {0}
               /\ IsPeers(agent[g].view)
               /\ IsPeers(kernel[g])
    <3>1. agent[g] \in Agent /\ kernel[g] \in PeerTables /\ HeldInv(g)
      BY DEF DeliveryHeld, DeliveryState
    <3> QED
      BY <3>1, PeerTableIs DEF HeldInv, Agent
  <2>3. ASSUME NEW w \in Writers
        PROVE  /\ writer[w].todo \subseteq Gateways
               /\ writer[w].gen \in Generations \cup {0}
               /\ IsPeers(writer[w].peers)
    <3>1. writer[w] \in WriterState
      BY DEF DeliveryHeld, DeliveryState
    <3> QED
      BY <3>1, PeerTableIs, ControlStoreAssumptions DEF WriterState, Generations
  <2> QED
    BY <2>1, <2>2, <2>3 DEF DeliveryTypeOK, StoreInv, DeliveryHeld, DeliveryState
<1> QED
  BY <1>1, DeliveriesAlwaysHeld, PTL

\* No acknowledgement and no retry of an agent that arrives meets a row in
\* another state: the 404 of AckSnapshot and RetrySnapshot is never answered
\* to the agent that holds the delivery, whatever was lost or restarted.
THEOREM DeliveriesStayInHand == Spec => []DeliveryHeldByAgent
<1>1. DeliveryHeld => DeliveryHeldByAgent
  BY DEF DeliveryHeld, HeldInv, DeliveryHeldByAgent
<1> QED
  BY <1>1, DeliveriesAlwaysHeld, PTL

-----------------------------------------------------------------------------
(***************************************************************************)
(* Contents of snapshots.                                                  *)
(***************************************************************************)
\* peers can be generation n of g: ...
FollowsRows(g, n, peers) ==
    \A l \in DOMAIN outbox[g] : l < n =>
        /\ \A d \in DOMAIN outbox[g][l].peers \ DOMAIN peers : ~LiveFor(g, d)
        /\ \A m \in DOMAIN outbox[g] : l < m /\ m < n =>
              DOMAIN outbox[g][l].peers \cap DOMAIN peers
                  \subseteq DOMAIN outbox[g][m].peers

\* peers are what some reading of the assignments returned, taken after every
\* reading that rows below n are made of.
SnapshotOf(g, n, peers) ==
    /\ FromAssignments(g, peers)
    /\ DistinctPeers(peers)
    /\ FollowsRows(g, n, peers)

\* All rows of g are such readings, in the order of their generations.
ContentInv(g) == \A n \in DOMAIN outbox[g] : SnapshotOf(g, n, outbox[g][n].peers)

\* So is what a writer is about to insert.
WriterContent(w) ==
    writer[w].step = "insert" =>
        SnapshotOf(writer[w].gateway, writer[w].gen, writer[w].peers)

\* The second inductive invariant, about contents.
DeliveryContent ==
    /\ \A g \in Gateways : ContentInv(g)
    /\ \A w \in Writers : WriterContent(w)

\* What was assigned stays assigned, and a device that is no longer live does
\* not come back: no device gets a second row (OneSlotPerDevice).
LEMMA AssignmentsStay ==
    ASSUME StoreInv, StoreInv', StoreRowsKept, NEW g, NEW d, NEW p, Assigned(g, d, p)
    PROVE  /\ Assigned(g, d, p)'
           /\ LiveFor(g, d)' => LiveFor(g, d)
<1>1. PICK s \in DOMAIN assignments :
         /\ assignments[s].gateway = g /\ assignments[s].device = d
         /\ leases[s].v4 = p.v4 /\ leases[s].v6 = p.v6
  BY DEF Assigned
<1>2. /\ s \in DOMAIN assignments'
      /\ assignments'[s].gateway = g /\ assignments'[s].device = d
      /\ leases'[s].v4 = p.v4 /\ leases'[s].v6 = p.v6
  BY <1>1 DEF StoreRowsKept
<1>3. Assigned(g, d, p)'
  BY <1>2 DEF Assigned
<1>4. ASSUME LiveFor(g, d)' PROVE LiveFor(g, d)
  <2>1. PICK t \in DOMAIN assignments' :
           LiveAssignment(t)' /\ assignments'[t].gateway = g /\ assignments'[t].device = d
    BY <1>4 DEF LiveFor
  <2>2. s = t
    BY <1>2, <2>1 DEF StoreInv, LeaseFollowsAssignment, OneSlotPerDevice
  <2> QED
    BY <1>1, <2>1, <2>2 DEF LiveFor, StoreRowsKept
<1> QED
  BY <1>3, <1>4

\* A generation that is not there yet is above all that are.
LEMMA RowsAppended ==
    ASSUME NEW o \in Outboxes, NEW n \in DOMAIN o, NEW l \in Nat \ {0}, l \notin DOMAIN o
    PROVE  n < l
<1>1. n \in Nat /\ (l <= n => l \in 1..n)
  BY RowsOf DEF Generations
<1> QED
  BY <1>1, RowsOf

\* A reading that can be generation n can still be after any step: rows come
\* only above n - 1, and what is not live does not come back.
LEMMA SnapshotStays ==
    ASSUME StoreInv, StoreInv', StoreRowsKept,
           NEW g \in Gateways, outbox[g] \in Outboxes, outbox'[g] \in Outboxes,
           RowsKept(g), ContentInv(g),
           NEW n \in Nat, n - 1 \in DOMAIN outbox[g] \cup {0},
           NEW peers, SnapshotOf(g, n, peers)
    PROVE  SnapshotOf(g, n, peers)'
<1>1. FromAssignments(g, peers)'
  BY AssignmentsStay DEF SnapshotOf, FromAssignments
<1>2. ASSUME NEW l \in DOMAIN outbox'[g], l < n
      PROVE  l \in DOMAIN outbox[g] /\ outbox'[g][l].peers = outbox[g][l].peers
  <2>1. l \in Nat \ {0}
    BY RowsOf DEF Generations
  <2>2. l \in DOMAIN outbox[g]
    <3>1. CASE n - 1 = 0
      BY <1>2, <2>1, <3>1
    <3>2. CASE n - 1 \in DOMAIN outbox[g]
      <4>1. l \notin DOMAIN outbox[g] => n - 1 < l
        BY <2>1, <3>2, RowsAppended
      <4> QED
        BY <1>2, <2>1, <4>1
    <3> QED
      BY <3>1, <3>2
  <2> QED
    BY <2>2 DEF RowsKept
<1>3. FollowsRows(g, n, peers)'
  <2> SUFFICES ASSUME NEW l \in DOMAIN outbox'[g], l < n
               PROVE  /\ \A d \in DOMAIN outbox'[g][l].peers \ DOMAIN peers : ~LiveFor(g, d)'
                      /\ \A m \in DOMAIN outbox'[g] : l < m /\ m < n =>
                            DOMAIN outbox'[g][l].peers \cap DOMAIN peers
                                \subseteq DOMAIN outbox'[g][m].peers
    BY DEF FollowsRows
  <2>1. l \in DOMAIN outbox[g] /\ outbox'[g][l].peers = outbox[g][l].peers
    BY <1>2
  <2>2. ASSUME NEW d \in DOMAIN outbox[g][l].peers \ DOMAIN peers
        PROVE  ~LiveFor(g, d)'
    <3>1. ~LiveFor(g, d)
      BY <2>1, <2>2 DEF SnapshotOf, FollowsRows
    <3>2. Assigned(g, d, outbox[g][l].peers[d])
      BY <2>1, <2>2 DEF ContentInv, SnapshotOf, FromAssignments
    <3> QED
      BY <3>1, <3>2, AssignmentsStay
  <2>3. ASSUME NEW m \in DOMAIN outbox'[g], l < m, m < n
        PROVE  DOMAIN outbox[g][l].peers \cap DOMAIN peers \subseteq DOMAIN outbox'[g][m].peers
    <3>1. m \in DOMAIN outbox[g] /\ outbox'[g][m].peers = outbox[g][m].peers
      BY <1>2, <2>3
    <3> QED
      BY <2>1, <2>3, <3>1 DEF SnapshotOf, FollowsRows
  <2> QED
    BY <2>1, <2>2, <2>3
<1> QED
  BY <1>1, <1>3 DEF SnapshotOf, DistinctPeers

\* The reading of this moment can be any generation that is not below a row.
LEMMA FreshSnapshot ==
    ASSUME StoreInv, NEW g \in Gateways, outbox[g] \in Outboxes, ContentInv(g), NEW n \in Nat
    PROVE  SnapshotOf(g, n, MaterializedPeers(g))
<1> DEFINE M == MaterializedPeers(g)
<1>1. /\ \A d : d \in DOMAIN M <=> LiveFor(g, d)
      /\ FromAssignments(g, M)
      /\ DistinctPeers(M)
  BY Materialized
<1> HIDE DEF M
<1>2. ASSUME NEW l \in DOMAIN outbox[g], NEW m \in DOMAIN outbox[g], l < m
      PROVE  DOMAIN outbox[g][l].peers \cap DOMAIN M \subseteq DOMAIN outbox[g][m].peers
  BY <1>1, <1>2 DEF ContentInv, SnapshotOf, FollowsRows
<1>3. FollowsRows(g, n, M)
  BY <1>1, <1>2 DEF FollowsRows
<1> QED
  BY <1>1, <1>3 DEF SnapshotOf, M

\* DeliveryContent is inductive, given the two invariants before it.
LEMMA NextKeepsContent ==
    ASSUME StoreInv, StoreInv', DeliveryHeld, DeliveryHeld', DeliveryContent, [Next]_vars
    PROVE  DeliveryContent'
<1>1. SystemMoves /\ StoreRowsKept
  <2>1. [LedgerNext]_storeVars
    BY DeliveryStepIsStoreStep, StoreStepIsLedgerStep DEF StoreInv
  <2> QED
    BY <2>1, StepEffect, LedgerKeepsRows
<1>2. \A g \in Gateways : /\ outbox[g] \in Outboxes /\ outbox'[g] \in Outboxes
                          /\ RowsKept(g) /\ ContentInv(g)
  BY <1>1 DEF SystemMoves, DeliveryHeld, DeliveryState, DeliveryContent
<1>3. ASSUME NEW w \in Writers, writer[w].step = "insert"
      PROVE  /\ SnapshotOf(writer[w].gateway, writer[w].gen, writer[w].peers)
             /\ writer[w].gateway \in Gateways
             /\ writer[w].gen \in Nat
             /\ writer[w].gen - 1 \in DOMAIN outbox[writer[w].gateway] \cup {0}
  BY <1>3 DEF DeliveryContent, WriterContent, DeliveryHeld, WriterHeld, Generations
<1>4. ASSUME NEW g \in Gateways, NEW n \in DOMAIN outbox'[g]
      PROVE  SnapshotOf(g, n, outbox[g][n].peers)'
  <2>1. CASE n \in DOMAIN outbox[g]
    <3>1. n \in Nat /\ n - 1 \in DOMAIN outbox[g] \cup {0}
      <4>1. n \in Generations /\ (\A m \in 1..n : m \in DOMAIN outbox[g])
        BY <1>2, <2>1, RowsOf
      <4>2. n = 1 \/ n - 1 \in 1..n
        BY <4>1 DEF Generations
      <4> QED
        BY <4>1, <4>2 DEF Generations
    <3>2. \A peers : SnapshotOf(g, n, peers) => SnapshotOf(g, n, peers)'
      BY <1>1, <1>2, <3>1, SnapshotStays
    <3>3. SnapshotOf(g, n, outbox[g][n].peers) /\ outbox'[g][n].peers = outbox[g][n].peers
      BY <1>2, <2>1 DEF ContentInv, RowsKept
    <3> QED
      BY <3>2, <3>3 DEF SnapshotOf, FromAssignments, DistinctPeers, FollowsRows
  <2>2. CASE n \notin DOMAIN outbox[g]
    <3>1. PICK w \in Writers : Added(g, w)
      BY <1>1, <2>2 DEF SystemMoves
    <3>2. n = writer[w].gen /\ writer[w].gateway = g
          /\ outbox'[g][n].peers = writer[w].peers /\ writer[w].step = "insert"
      BY <2>2, <3>1 DEF Added
    <3>3. \A peers : SnapshotOf(g, n, peers) => SnapshotOf(g, n, peers)'
      BY <1>1, <1>2, <1>3, <3>2, SnapshotStays
    <3> QED
      BY <1>3, <3>2, <3>3 DEF SnapshotOf, FromAssignments, DistinctPeers, FollowsRows
  <2> QED
    BY <2>1, <2>2
<1>5. ASSUME NEW w \in Writers PROVE WriterContent(w)'
  <2> SUFFICES ASSUME writer'[w].step = "insert"
               PROVE  SnapshotOf(writer[w].gateway, writer[w].gen, writer[w].peers)'
    BY DEF WriterContent
  <2>1. CASE writer'[w] = writer[w]
    <3> DEFINE g == writer[w].gateway
               n == writer[w].gen
    <3>1. \A peers : SnapshotOf(g, n, peers) => SnapshotOf(g, n, peers)'
      <4> SUFFICES ASSUME NEW h, h = g, NEW k, k = n, NEW peers, SnapshotOf(h, k, peers)
                   PROVE  SnapshotOf(h, k, peers)'
        BY <2>1 DEF SnapshotOf, FromAssignments, DistinctPeers, FollowsRows
      <4> QED
        BY <1>1, <1>2, <1>3, <2>1, SnapshotStays
    <3> QED
      BY <1>3, <2>1, <3>1 DEF SnapshotOf, FromAssignments, DistinctPeers, FollowsRows
  <2>2. CASE /\ writer[w].step = "peers"
             /\ writer'[w].gateway = writer[w].gateway
             /\ writer'[w].gen = writer[w].gen
             /\ writer'[w].peers = MaterializedPeers(writer[w].gateway)
             /\ UNCHANGED <<storeVars, outbox>>
    <3>1. writer[w].gateway \in Gateways /\ writer[w].gen \in Nat
      BY <2>2 DEF DeliveryHeld, WriterHeld, Generations
    <3>2. SnapshotOf(writer[w].gateway, writer[w].gen, MaterializedPeers(writer[w].gateway))
      BY <1>2, <3>1, FreshSnapshot
    <3> HIDE DEF MaterializedPeers
    <3> QED
      BY <2>2, <3>2 DEF SnapshotOf, FromAssignments, DistinctPeers, FollowsRows,
                        Assigned, LiveFor, LiveAssignment, storeVars
  <2> QED
    BY <1>1, <2>1, <2>2 DEF SystemMoves, WriterMoves
<1> QED
  BY <1>4, <1>5 DEF DeliveryContent, ContentInv

\* It holds initially: there is no row.
LEMMA InitialContent ==
    ASSUME Init
    PROVE  DeliveryContent
BY DEF Init, IdleWriter, DeliveryContent, ContentInv, WriterContent

\* The three invariants together.
LEMMA DeliveryInvariant == Spec => [](StoreInv /\ DeliveryHeld /\ DeliveryContent)
<1>1. Init => DeliveryContent
  BY InitialContent
<1>2. /\ StoreInv /\ StoreInv' /\ DeliveryHeld /\ DeliveryHeld'
      /\ DeliveryContent /\ [Next]_vars
      => DeliveryContent'
  BY NextKeepsContent
<1> QED
  BY <1>1, <1>2, DeliveriesAlwaysHeld, PTL DEF Spec

\* Generations are in the order their contents were read: a peer gone from one
\* generation is in no later one, however the two writers interleave.
THEOREM GenerationsInOrder == Spec => []GenerationsFollowContents
<1>1. DeliveryHeld /\ DeliveryContent => GenerationsFollowContents
  <2> SUFFICES ASSUME DeliveryHeld, DeliveryContent, NEW g \in Gateways,
                      NEW l \in DOMAIN outbox[g], NEW m \in DOMAIN outbox[g],
                      NEW n \in DOMAIN outbox[g], l < m, m < n
               PROVE  DOMAIN outbox[g][l].peers \cap DOMAIN outbox[g][n].peers
                          \subseteq DOMAIN outbox[g][m].peers
    BY DEF GenerationsFollowContents
  <2>1. FollowsRows(g, n, outbox[g][n].peers)
    BY DEF DeliveryContent, ContentInv, SnapshotOf
  <2>2. l \in Nat /\ m \in Nat /\ n \in Nat
    BY RowsOf DEF DeliveryHeld, DeliveryState, Generations
  <2> QED
    BY <2>1, <2>2 DEF FollowsRows
<1> QED
  BY <1>1, DeliveryInvariant, PTL

\* The part of Snapshot.Validate that compares addresses.
PeersDistinct == \A g \in Gateways : \A n \in DOMAIN outbox[g] : DistinctPeers(outbox[g][n].peers)

\* No snapshot carries an address twice, with no assumption on the capacities.
THEOREM PeersAreDistinct == Spec => []PeersDistinct
<1>1. DeliveryContent => PeersDistinct
  BY DEF DeliveryContent, ContentInv, SnapshotOf, PeersDistinct
<1> QED
  BY <1>1, DeliveryInvariant, PTL

-----------------------------------------------------------------------------
(***************************************************************************)
(* Sizes of snapshots.                                                     *)
(***************************************************************************)
\* peers are finitely many, at most as many as g may carry.
Sized(g, peers) == IsFiniteSet(DOMAIN peers) /\ Cardinality(DOMAIN peers) <= Capacity[g]

\* Rows and what is about to be inserted are.
DeliverySized ==
    /\ \A g \in Gateways : \A n \in DOMAIN outbox[g] : Sized(g, outbox[g][n].peers)
    /\ \A w \in Writers :
          writer[w].step = "insert" => Sized(writer[w].gateway, writer[w].peers)

\* A reading has at most as many peers as the gateway has live assignments.
LEMMA MaterializedIsSized ==
    ASSUME CapacityInv, NEW g \in Gateways
    PROVE  Sized(g, MaterializedPeers(g))
<1> DEFINE D == {assignments[s].device : s \in LiveOn(g)}
           f == [s \in LiveOn(g) |-> assignments[s].device]
<1>1. DOMAIN MaterializedPeers(g) = D
  BY DEF MaterializedPeers, LiveOn
<1>2. f \in Surjection(LiveOn(g), D)
  BY DEF Surjection
<1>3. IsFiniteSet(LiveOn(g)) /\ Cardinality(LiveOn(g)) = Load(g) /\ Load(g) \in Nat
  BY LoadIsNat DEF CapacityInv
<1> HIDE DEF D, f
<1>4. IsFiniteSet(D) /\ Cardinality(D) <= Cardinality(LiveOn(g))
  BY <1>2, <1>3, FS_Surjection
<1>5. Cardinality(D) \in Nat /\ Capacity[g] \in Nat /\ Load(g) <= Capacity[g]
  BY <1>4, FS_CardinalityType, ControlStoreAssumptions DEF CapacityInv, CapacityRespected
<1>6. Cardinality(D) <= Capacity[g]
  BY <1>3, <1>4, <1>5
<1> QED
  BY <1>1, <1>4, <1>6 DEF Sized

\* Sizes are kept: contents of rows never change.
LEMMA NextKeepsSizes ==
    ASSUME StoreInv, CapacityInv, DeliveryHeld, DeliverySized, [Next]_vars
    PROVE  DeliverySized'
<1>1. SystemMoves
  BY StepEffect
<1>2. ASSUME NEW g \in Gateways, NEW n \in DOMAIN outbox'[g]
      PROVE  Sized(g, outbox'[g][n].peers)
  <2>1. CASE n \in DOMAIN outbox[g]
    BY <1>1, <2>1 DEF SystemMoves, RowsKept, DeliverySized
  <2>2. CASE n \notin DOMAIN outbox[g]
    <3>1. PICK w \in Writers : Added(g, w)
      BY <1>1, <2>2 DEF SystemMoves
    <3>2. outbox'[g][n].peers = writer[w].peers /\ writer[w].gateway = g
          /\ writer[w].step = "insert"
      BY <2>2, <3>1 DEF Added
    <3> QED
      BY <3>2 DEF DeliverySized
  <2> QED
    BY <2>1, <2>2
<1>3. ASSUME NEW w \in Writers, writer'[w].step = "insert"
      PROVE  Sized(writer'[w].gateway, writer'[w].peers)
  <2>1. CASE writer'[w] = writer[w]
    BY <1>3, <2>1 DEF DeliverySized
  <2>2. CASE /\ writer[w].step = "peers"
             /\ writer'[w].gateway = writer[w].gateway
             /\ writer'[w].peers = MaterializedPeers(writer[w].gateway)
    <3>1. writer[w].gateway \in Gateways
      BY <2>2 DEF DeliveryHeld, WriterHeld
    <3> QED
      BY <2>2, <3>1, MaterializedIsSized
  <2> QED
    BY <1>1, <1>3, <2>1, <2>2 DEF SystemMoves, WriterMoves
<1> QED
  BY <1>2, <1>3 DEF DeliverySized, Sized

\* No snapshot has more peers than capacity_peers of its gateway.
LEMMA SnapshotsFit == Spec => [](DeliverySized)
<1>1. Init => DeliverySized
  BY DEF Init, IdleWriter, DeliverySized
<1>2. StoreInv /\ CapacityInv /\ DeliveryHeld /\ DeliverySized /\ [Next]_vars => DeliverySized'
  BY NextKeepsSizes
<1>3. Spec => []CapacityInv
  BY DeliveryImplementsStore, StoreImplementsLedger, LedgerCapacity, PTL
<1> QED
  BY <1>1, <1>2, <1>3, DeliveriesAlwaysHeld, PTL DEF Spec

\* Every snapshot passes the validation of the agent, provided that no gateway
\* has a capacity beyond maxPeersPerSnapshot.  The schema only asks for
\* capacity_peers > 0 (migrations/0001_initial.sql), so this is a condition on
\* the operator and not an assumption of the model.
THEOREM SnapshotsPassValidation ==
    ASSUME \A g \in Gateways : Capacity[g] <= MaxPeers
    PROVE  Spec => []SnapshotsAreValid
<1>1. DeliveryContent /\ DeliverySized => SnapshotsAreValid
  <2> SUFFICES ASSUME DeliveryContent, DeliverySized,
                      NEW g \in Gateways, NEW n \in DOMAIN outbox[g]
               PROVE  ValidPeers(outbox[g][n].peers)
    BY DEF SnapshotsAreValid
  <2>1. DistinctPeers(outbox[g][n].peers)
    BY DEF DeliveryContent, ContentInv, SnapshotOf
  <2>2. Cardinality(DOMAIN outbox[g][n].peers) \in Nat
        /\ Cardinality(DOMAIN outbox[g][n].peers) <= Capacity[g]
    BY FS_CardinalityType DEF DeliverySized, Sized
  <2>3. Capacity[g] \in Nat /\ MaxPeers \in Nat
    BY ControlStoreAssumptions, DeliveryAssumptions
  <2>4. Cardinality(DOMAIN outbox[g][n].peers) <= MaxPeers
    BY <2>2, <2>3
  <2> QED
    BY <2>1, <2>4 DEF ValidPeers, DistinctPeers
<1> QED
  BY <1>1, DeliveryInvariant, SnapshotsFit, PTL

-----------------------------------------------------------------------------
(***************************************************************************)
(* The interface without removals.                                         *)
(***************************************************************************)
\* All peers are configured as they are.
Configured(peers, interface) ==
    \A d \in DOMAIN peers : d \in DOMAIN interface /\ interface[d] = peers[d]

\* All peers of acknowledged generations are.
AckedConfigured(g) ==
    \A n \in DOMAIN outbox[g] :
        outbox[g][n].state = "acked" => Configured(outbox[g][n].peers, kernel[g])

\* The peers of the delivery in hand.
Target(g) == outbox[g][agent[g].gen].peers

\* The operations left only add peers of the delivery in hand.
OnlyAdds(g) == \A op \in agent[g].ops : op.kind = "add" /\ op.key \in DOMAIN Target(g)

\* Each of its peers is configured or about to be.
Underway(g) ==
    \A d \in DOMAIN Target(g) :
        \/ d \in DOMAIN kernel[g] /\ kernel[g][d] = Target(g)[d]
        \/ \E op \in agent[g].ops : op.key = d

\* The interface has CurrentPeers, everything that was acknowledged, and what
\* the application has got to.
KernelHolds(g) ==
    /\ Configured(agent[g].view, kernel[g])
    /\ agent[g].step = "apply" => OnlyAdds(g) /\ Underway(g)
    /\ agent[g].step = "ack" => Configured(Target(g), kernel[g])
    /\ AckedConfigured(g)

\* Moreover it has no peer that was not assigned: then no two of its peers
\* share an address, and wg set takes none away.
KernelFollows(g) == FromAssignments(g, kernel[g]) /\ KernelHolds(g)

\* The third inductive invariant, for gateways without removals.
KernelInv == \A g \in Gateways : NoRemovals(g) => KernelFollows(g)

\* A device has one assignment, so one pair of addresses.
LEMMA AssignedOnce ==
    ASSUME StoreInv, NEW g, NEW d, NEW p \in Peer, NEW q \in Peer,
           Assigned(g, d, p), Assigned(g, d, q)
    PROVE  p = q
<1>1. PICK s \in DOMAIN assignments :
         assignments[s].device = d /\ leases[s].v4 = p.v4 /\ leases[s].v6 = p.v6
  BY DEF Assigned
<1>2. PICK t \in DOMAIN assignments :
         assignments[t].device = d /\ leases[t].v4 = q.v4 /\ leases[t].v6 = q.v6
  BY DEF Assigned
<1>3. s = t
  BY <1>1, <1>2 DEF StoreInv, LeaseFollowsAssignment, OneSlotPerDevice
<1> QED
  BY <1>1, <1>2, <1>3 DEF Peer

\* Without removals, everything ever assigned on g is live, and apart.
LEMMA AddressesApart ==
    ASSUME StoreInv, NEW g \in Gateways, NoRemovals(g), NEW d, NEW e, d # e,
           NEW p, NEW q, Assigned(g, d, p), Assigned(g, e, q)
    PROVE  p.v4 # q.v4 /\ p.v6 # q.v6
<1>1. PICK s \in DOMAIN assignments :
         /\ assignments[s].gateway = g /\ assignments[s].device = d
         /\ leases[s].v4 = p.v4 /\ leases[s].v6 = p.v6
  BY DEF Assigned
<1>2. PICK t \in DOMAIN assignments :
         /\ assignments[t].gateway = g /\ assignments[t].device = e
         /\ leases[t].v4 = q.v4 /\ leases[t].v6 = q.v6
  BY DEF Assigned
<1>3. LiveAssignment(s) /\ LiveAssignment(t) /\ s # t
  BY <1>1, <1>2 DEF NoRemovals, LiveAssignment, LiveStates
<1>4. /\ s \in DOMAIN leases /\ t \in DOMAIN leases /\ HeldLease(s) /\ HeldLease(t)
      /\ leases[s].region = leases[t].region
  BY <1>1, <1>2, <1>3 DEF StoreInv, LeaseFollowsAssignment
<1> QED
  BY <1>1, <1>2, <1>3, <1>4 DEF StoreInv, LiveAddressesUnique

\* The rows of an outbox, in the terms of the proofs below.
LEMMA RowTables ==
    ASSUME DeliveryHeld, NEW g \in Gateways, NEW n \in DOMAIN outbox[g]
    PROVE  /\ n \in Nat /\ n # 0
           /\ outbox[g][n].peers \in PeerTables
           /\ \A d \in DOMAIN outbox[g][n].peers : d \in Devices /\ outbox[g][n].peers[d] \in Peer
<1>1. outbox[g][n].peers \in PeerTables /\ n \in Generations
  BY RowHeldTyped DEF DeliveryHeld
<1> QED
  BY <1>1 DEF Generations, PeerTables

\* Without removals, a later generation has the peers of an earlier one.
LEMMA RowsGrow ==
    ASSUME StoreInv, DeliveryHeld, DeliveryContent, NEW g \in Gateways, NoRemovals(g),
           NEW l \in DOMAIN outbox[g], NEW n \in DOMAIN outbox[g], l <= n
    PROVE  Configured(outbox[g][l].peers, outbox[g][n].peers)
<1>1. CASE l = n
  BY <1>1 DEF Configured
<1>2. CASE l < n
  <2> SUFFICES ASSUME NEW d \in DOMAIN outbox[g][l].peers
               PROVE  /\ d \in DOMAIN outbox[g][n].peers
                      /\ outbox[g][n].peers[d] = outbox[g][l].peers[d]
    BY DEF Configured
  <2>1. Assigned(g, d, outbox[g][l].peers[d])
    BY DEF DeliveryContent, ContentInv, SnapshotOf, FromAssignments
  <2>2. LiveFor(g, d)
    BY <2>1 DEF Assigned, NoRemovals, LiveFor, LiveAssignment, LiveStates
  <2>3. d \in DOMAIN outbox[g][n].peers
    BY <1>2, <2>2 DEF DeliveryContent, ContentInv, SnapshotOf, FollowsRows
  <2>4. Assigned(g, d, outbox[g][n].peers[d])
    BY <2>3 DEF DeliveryContent, ContentInv, SnapshotOf, FromAssignments
  <2> QED
    BY <2>1, <2>3, <2>4, RowTables, AssignedOnce
<1> QED
  BY <1>1, <1>2, RowTables

\* So CurrentPeers are among the peers of a newer delivery.
LEMMA ViewBefore ==
    ASSUME StoreInv, DeliveryHeld, DeliveryContent, NEW g \in Gateways, NoRemovals(g),
           agent[g].gen \in DOMAIN outbox[g], agent[g].current <= agent[g].gen
    PROVE  Configured(agent[g].view, Target(g))
<1>1. CASE agent[g].current = 0
  BY <1>1, NoPeersIsTable DEF DeliveryHeld, HeldInv, Configured
<1>2. CASE agent[g].current # 0
  BY <1>2, RowsGrow DEF DeliveryHeld, HeldInv, Target
<1> QED
  BY <1>1, <1>2

\* No other peer of the interface has an address of this one.
AwayFrom(interface, e, peer) ==
    \A d \in DOMAIN interface :
        d # e => interface[d].v4 # peer.v4 /\ interface[d].v6 # peer.v6

\* The peers other than e stay as they are.
KeepsOthers(before, after, e) ==
    \A d \in DOMAIN before : d # e => d \in DOMAIN after /\ after[d] = before[d]

\* Then wg set takes nothing from them.
LEMMA SetPeerKeeps ==
    ASSUME NEW interface \in PeerTables, NEW e, NEW peer, AwayFrom(interface, e, peer)
    PROVE  LET after == SetPeer(interface, e, peer)
           IN  /\ \A d : d \in DOMAIN after <=> d \in DOMAIN interface \/ d = e
               /\ after[e] = peer
               /\ KeepsOthers(interface, after, e)
<1>1. \A d \in DOMAIN interface : interface[d] \in Peer
  BY DEF PeerTables
<1>2. ASSUME NEW d \in DOMAIN interface, d # e
      PROVE  SetPeer(interface, e, peer)[d] = interface[d]
  <2>1. SetPeer(interface, e, peer)[d] = [v4 |-> interface[d].v4, v6 |-> interface[d].v6]
    BY <1>2 DEF SetPeer, AwayFrom
  <2> QED
    BY <1>1, <2>1 DEF Peer
<1> QED
  BY <1>2 DEF SetPeer, KeepsOthers

\* When no operation of the agent removes or moves a peer, setting one keeps the others.
LEMMA AddKeepsPeers ==
    ASSUME StoreInv, DeliveryHeld, DeliveryContent, NEW g \in Gateways, NoRemovals(g),
           FromAssignments(g, kernel[g]),
           agent[g].gen \in DOMAIN outbox[g], NEW e \in DOMAIN Target(g),
           kernel'[g] = SetPeer(kernel[g], e, Target(g)[e])
    PROVE  /\ FromAssignments(g, kernel'[g])
           /\ e \in DOMAIN kernel'[g] /\ kernel'[g][e] = Target(g)[e]
           /\ KeepsOthers(kernel[g], kernel'[g], e)
           /\ \A peers \in PeerTables :
                 FromAssignments(g, peers) /\ Configured(peers, kernel[g])
                 => Configured(peers, kernel'[g])
<1>1. Assigned(g, e, Target(g)[e]) /\ Target(g)[e] \in Peer
  BY RowTables DEF DeliveryContent, ContentInv, SnapshotOf, FromAssignments, Target
<1>2. kernel[g] \in PeerTables
  BY DEF DeliveryHeld, DeliveryState
<1>3. AwayFrom(kernel[g], e, Target(g)[e])
  BY <1>1, AddressesApart DEF FromAssignments, AwayFrom
<1>4. /\ \A d : d \in DOMAIN kernel'[g] <=> d \in DOMAIN kernel[g] \/ d = e
      /\ kernel'[g][e] = Target(g)[e]
      /\ KeepsOthers(kernel[g], kernel'[g], e)
  BY <1>2, <1>3, SetPeerKeeps
<1>5. FromAssignments(g, kernel'[g])
  BY <1>1, <1>4 DEF FromAssignments, KeepsOthers
<1>6. ASSUME NEW peers \in PeerTables, FromAssignments(g, peers), Configured(peers, kernel[g])
      PROVE  Configured(peers, kernel'[g])
  <2>1. e \in DOMAIN peers => peers[e] = Target(g)[e]
    <3>1. e \in DOMAIN peers => peers[e] \in Peer /\ Assigned(g, e, peers[e])
      BY <1>6 DEF PeerTables, FromAssignments
    <3> QED
      BY <1>1, <3>1, AssignedOnce
  <2> QED
    BY <1>4, <1>6, <2>1 DEF Configured, KeepsOthers
<1> QED
  BY <1>4, <1>5, <1>6

\* Diff has an operation for every peer that is desired and not there.
LEMMA DiffAdds ==
    ASSUME NEW desired, NEW observed, NEW d \in DOMAIN desired \ DOMAIN observed
    PROVE  \E op \in Diff(desired, observed) : op.key = d
<1>1. [kind |-> "add", key |-> d] \in Diff(desired, observed)
  BY DEF Diff
<1> QED
  BY <1>1

\* Quiet steps keep KernelHolds: rows are not acked, contents stay.
LEMMA KernelQuietly ==
    ASSUME NEW g \in Gateways, HeldInv(g), 0 \notin DOMAIN outbox[g], KernelHolds(g), Quiet(g)
    PROVE  KernelHolds(g)'
<1>1. /\ agent'[g] = agent[g] /\ kernel'[g] = kernel[g]
      /\ \A n \in DOMAIN outbox[g] :
            n \in DOMAIN outbox'[g] /\ outbox'[g][n].peers = outbox[g][n].peers
  BY DEF Quiet, RowsKept
<1>2. agent[g].step \in {"apply", "ack"} => Target(g)' = Target(g)
  BY <1>1 DEF Target, HeldInv
<1>3. AckedConfigured(g)'
  BY <1>1 DEF Quiet, KernelHolds, AckedConfigured
<1>4. agent[g].step = "apply" => (OnlyAdds(g) /\ Underway(g))'
  BY <1>1, <1>2 DEF KernelHolds, OnlyAdds, Underway
<1>5. agent[g].step = "ack" => Configured(Target(g), kernel[g])'
  BY <1>1, <1>2 DEF KernelHolds, Configured
<1>6. Configured(agent[g].view, kernel[g])'
  BY <1>1 DEF KernelHolds, Configured
<1> QED
  BY <1>1, <1>3, <1>4, <1>5, <1>6 DEF KernelHolds

\* An own step that leaves the interface as it is.
LEMMA KernelByAgent ==
    ASSUME StoreInv, DeliveryHeld, DeliveryContent, NEW g \in Gateways, NoRemovals(g),
           KernelFollows(g), OwnStep(g), ~ApplyOperation(g)
    PROVE  kernel'[g] = kernel[g] /\ KernelHolds(g)'
<1>0. /\ HeldInv(g) /\ KernelHolds(g)
      /\ agent[g] \in Agent /\ agent[g].gen \in Nat /\ agent[g].current \in Nat
      /\ RowsKept(g) /\ DOMAIN outbox'[g] = DOMAIN outbox[g]
  BY OwnStepEffect DEF DeliveryHeld, DeliveryState, Agent, KernelFollows
<1>a. ASSUME kernel'[g] = kernel[g],
             AckedConfigured(g)', Configured(agent'[g].view, kernel[g]),
             agent'[g].step \notin {"apply", "ack"}
      PROVE  KernelHolds(g)'
  BY <1>a DEF KernelHolds
<1>b. ASSUME kernel'[g] = kernel[g],
             \A n \in DOMAIN outbox[g] :
                outbox'[g][n].state = "acked" => outbox[g][n].state = "acked"
      PROVE  AckedConfigured(g)'
  BY <1>0, <1>b DEF RowsKept, KernelHolds, AckedConfigured
<1>1. CASE ClaimDelivery(g)
  <2>1. PICK n \in DOMAIN outbox[g] :
           /\ RowChanged(g, n, "in_flight")
           /\ AgentBecomes(g, "verify", n, agent[g].ops)
    BY <1>1, ClaimDeliveryEffect
  <2>2. kernel' = kernel
    BY <1>1, ClaimDeliveryEffect
  <2>3. AckedConfigured(g)'
    BY <1>b, <2>1, <2>2 DEF RowChanged
  <2> QED
    BY <1>0, <1>a, <2>1, <2>2, <2>3 DEF AgentBecomes, KernelHolds
<1>2. CASE VerifyDelivery(g)
  <2>0. /\ UNCHANGED <<outbox, kernel>> /\ agent[g].gen \in DOMAIN outbox[g]
        /\ agent[g].gen # 0
    BY <1>0, <1>2, VerifyDeliveryEffect, RowTables DEF HeldInv
  <2>1. AckedConfigured(g)'
    BY <1>b, <2>0
  <2>2. CASE AgentBecomes(g, "retry", agent[g].gen, agent[g].ops)
    BY <1>0, <1>a, <2>0, <2>1, <2>2 DEF AgentBecomes, KernelHolds
  <2>3. CASE /\ agent[g].gen <= agent[g].current
             /\ AgentBecomes(g, "ack", agent[g].gen, agent[g].ops)
    <3>1. Target(g)' = Target(g)
      BY <2>0, <2>3 DEF AgentBecomes, Target
    <3>2. /\ agent[g].current \in DOMAIN outbox[g]
          /\ agent[g].view = outbox[g][agent[g].current].peers
      BY <1>0, <2>0, <2>3 DEF HeldInv
    <3>3. Configured(Target(g), agent[g].view)
      BY <2>0, <2>3, <3>2, RowsGrow DEF Target
    <3>4. Configured(Target(g), kernel[g])
      BY <1>0, <3>3 DEF KernelHolds, Configured
    <3>5. agent'[g].step = "ack" /\ agent'[g].view = agent[g].view
      BY <2>3 DEF AgentBecomes
    <3>6. Configured(Target(g), kernel[g])' /\ Configured(agent[g].view, kernel[g])'
      BY <1>0, <2>0, <3>1, <3>4, <3>5 DEF KernelHolds, Configured
    <3> QED
      BY <2>0, <2>1, <3>5, <3>6 DEF KernelHolds
  <2>4. CASE /\ agent[g].gen > agent[g].current
             /\ AgentBecomes(g, "apply", agent[g].gen, Diff(Target(g), agent[g].view))
    <3>1. Target(g)' = Target(g)
      BY <2>0, <2>4 DEF AgentBecomes, Target
    <3>2. Configured(agent[g].view, Target(g)) /\ Configured(agent[g].view, kernel[g])
      BY <1>0, <2>0, <2>4, ViewBefore DEF KernelHolds
    <3>3. \A op \in Diff(Target(g), agent[g].view) : op.kind = "add" /\ op.key \in DOMAIN Target(g)
      BY <3>2 DEF Diff, Configured
    <3>4. \A d \in DOMAIN Target(g) :
             \/ d \in DOMAIN kernel[g] /\ kernel[g][d] = Target(g)[d]
             \/ \E op \in Diff(Target(g), agent[g].view) : op.key = d
      BY <3>2, DiffAdds DEF Configured
    <3>5. agent'[g].step = "apply" /\ agent'[g].view = agent[g].view
          /\ agent'[g].ops = Diff(Target(g), agent[g].view)
      BY <2>4 DEF AgentBecomes
    <3>6. OnlyAdds(g)'
      BY <3>1, <3>3, <3>5 DEF OnlyAdds
    <3>7. Underway(g)'
      BY <2>0, <3>1, <3>4, <3>5 DEF Underway
    <3>8. Configured(agent[g].view, kernel[g])'
      BY <2>0, <3>2, <3>5 DEF Configured
    <3> QED
      BY <2>0, <2>1, <3>5, <3>6, <3>7, <3>8 DEF KernelHolds
  <2> QED
    BY <1>2, <2>0, <2>2, <2>3, <2>4, VerifyDeliveryEffect DEF Target
<1>3. CASE AppliedAll(g)
  <2>1. /\ UNCHANGED <<outbox, kernel>> /\ agent[g].step = "apply" /\ agent[g].ops = {}
        /\ AgentBecomes(g, "ack", agent[g].gen, {})
    BY <1>3, AppliedAllEffect DEF AppliedAll
  <2>2. AckedConfigured(g)'
    BY <1>b, <2>1
  <2>3. Target(g)' = Target(g) /\ Configured(Target(g), kernel[g])
    BY <1>0, <2>1 DEF KernelHolds, Underway, Configured, AgentBecomes, Target
  <2>4. Configured(Target(g), kernel[g])' /\ Configured(agent[g].view, kernel[g])'
    BY <1>0, <2>1, <2>3 DEF Configured, AgentBecomes, KernelHolds
  <2> QED
    BY <2>1, <2>2, <2>4 DEF AgentBecomes, KernelHolds
<1>4. CASE ApplyFails(g)
  <2>1. UNCHANGED <<outbox, kernel>> /\ AgentBecomes(g, "retry", agent[g].gen, {})
    BY <1>4, ApplyFailsEffect
  <2>2. AckedConfigured(g)'
    BY <1>b, <2>1
  <2> QED
    BY <1>0, <1>a, <2>1, <2>2 DEF AgentBecomes, KernelHolds
<1>5. CASE RetryDelivery(g)
  <2>1. /\ RowChanged(g, agent[g].gen, "failed") /\ UNCHANGED kernel
        /\ AgentBecomes(g, "idle", 0, {})
    BY <1>5, RetryDeliveryEffect
  <2>2. AckedConfigured(g)'
    BY <1>b, <2>1 DEF RowChanged
  <2> QED
    BY <1>0, <1>a, <2>1, <2>2 DEF AgentBecomes, KernelHolds
<1>6. CASE RetryLost(g) \/ AckLost(g)
  <2>1. UNCHANGED <<outbox, kernel>> /\ AgentBecomes(g, "idle", 0, {})
    BY <1>6, LostCallEffect
  <2>2. AckedConfigured(g)'
    BY <1>b, <2>1
  <2> QED
    BY <1>0, <1>a, <2>1, <2>2 DEF AgentBecomes, KernelHolds
<1>7. CASE AckSnapshot(g)
  <2>1. /\ RowChanged(g, agent[g].gen, "acked") /\ UNCHANGED kernel
        /\ agent[g].step = "ack"
        /\ AgentBecomes(g, "wait", agent[g].gen, agent[g].ops)
    BY <1>7, AckSnapshotEffect
  <2>2. AckedConfigured(g)'
    BY <1>0, <2>1 DEF RowChanged, RowsKept, KernelHolds, AckedConfigured, Target
  <2> QED
    BY <1>0, <1>a, <2>1, <2>2 DEF AgentBecomes, KernelHolds
<1>8. CASE AgentRestarts(g)
  <2>1. UNCHANGED <<outbox, kernel>> /\ agent'[g] = IdleAgent
    BY <1>8, AgentRestartsEffect
  <2>2. AckedConfigured(g)'
    BY <1>b, <2>1
  <2>3. agent'[g].step = "idle" /\ Configured(agent'[g].view, kernel[g])
    BY <2>1, NoPeersIsTable DEF IdleAgent, Configured
  <2> QED
    BY <1>a, <2>1, <2>2, <2>3
<1>9. ASSUME NEW n \in Generations, HandlerNext(g, n)
      PROVE  kernel'[g] = kernel[g] /\ KernelHolds(g)'
  <2>1. UNCHANGED <<outbox, kernel>>
    BY <1>9, HandlerEffect
  <2>2. AckedConfigured(g)'
    BY <1>b, <2>1
  <2>3. CASE agent'[g] = agent[g]
    <3>1. Target(g)' = Target(g)
      BY <2>1, <2>3 DEF Target
    <3> QED
      BY <1>0, <2>1, <2>2, <2>3, <3>1 DEF KernelHolds, OnlyAdds, Underway, Configured
  <2>4. CASE AgentBecomes(g, "idle", 0, {})
    BY <1>0, <1>a, <2>1, <2>2, <2>4 DEF AgentBecomes, KernelHolds
  <2>5. CASE /\ agent[g].step = "wait"
             /\ agent'[g] = [step |-> "idle", gen |-> 0, ops |-> {},
                             current |-> agent[g].gen,
                             view |-> outbox[g][agent[g].gen].peers]
    <3>1. Configured(outbox[g][agent[g].gen].peers, kernel[g])
      BY <1>0, <2>5 DEF HeldInv, KernelHolds, AckedConfigured
    <3> QED
      BY <1>a, <2>1, <2>2, <2>5, <3>1
  <2> QED
    BY <1>9, <2>1, <2>3, <2>4, <2>5, HandlerEffect
<1>10. kernel'[g] = kernel[g]
  BY <1>9, ClaimDeliveryEffect, VerifyDeliveryEffect, AppliedAllEffect, ApplyFailsEffect,
     RetryDeliveryEffect, LostCallEffect, AckSnapshotEffect, AgentRestartsEffect DEF OwnStep
<1> QED
  BY <1>1, <1>2, <1>3, <1>4, <1>5, <1>6, <1>7, <1>8, <1>9, <1>10 DEF OwnStep

\* An operation keeps it: it adds a peer and takes nothing away.
LEMMA KernelByOperation ==
    ASSUME StoreInv, DeliveryHeld, DeliveryContent, NEW g \in Gateways, NoRemovals(g),
           KernelFollows(g), ApplyOperation(g)
    PROVE  FromAssignments(g, kernel'[g]) /\ KernelHolds(g)'
<1>1. PICK op \in agent[g].ops :
         /\ kernel'[g] = IF op.kind = "remove"
                         THEN RemovePeer(kernel[g], op.key)
                         ELSE SetPeer(kernel[g], op.key, Target(g)[op.key])
         /\ AgentBecomes(g, "apply", agent[g].gen, agent[g].ops \ {op})
  BY ApplyOperationEffect DEF Target
<1>2. /\ UNCHANGED outbox /\ agent[g].step = "apply" /\ agent[g].gen \in DOMAIN outbox[g]
      /\ OnlyAdds(g) /\ Underway(g) /\ FromAssignments(g, kernel[g])
      /\ Configured(agent[g].view, kernel[g]) /\ AckedConfigured(g)
  BY ApplyOperationEffect DEF DeliveryHeld, HeldInv, KernelFollows, KernelHolds
<1>3. op.key \in DOMAIN Target(g)
      /\ kernel'[g] = SetPeer(kernel[g], op.key, Target(g)[op.key])
  BY <1>1, <1>2 DEF OnlyAdds
<1> DEFINE e == op.key
<1> HIDE DEF e
<1>4. /\ FromAssignments(g, kernel'[g])
      /\ e \in DOMAIN kernel'[g] /\ kernel'[g][e] = Target(g)[e]
      /\ KeepsOthers(kernel[g], kernel'[g], e)
      /\ \A peers \in PeerTables :
            FromAssignments(g, peers) /\ Configured(peers, kernel[g])
            => Configured(peers, kernel'[g])
  <2>1. e \in DOMAIN Target(g) /\ kernel'[g] = SetPeer(kernel[g], e, Target(g)[e])
    BY <1>3 DEF e
  <2> QED
    BY <1>2, <2>1, AddKeepsPeers
<1>5. ASSUME NEW n \in DOMAIN outbox[g]
      PROVE  outbox[g][n].peers \in PeerTables /\ FromAssignments(g, outbox[g][n].peers)
  BY RowTables DEF DeliveryContent, ContentInv, SnapshotOf
<1>6. AckedConfigured(g)'
  BY <1>2, <1>4, <1>5 DEF AckedConfigured
<1>7. Configured(agent[g].view, kernel'[g])
  <2>1. CASE agent[g].current = 0
    BY <2>1, NoPeersIsTable DEF DeliveryHeld, HeldInv, Configured
  <2>2. CASE agent[g].current # 0
    BY <1>2, <1>4, <1>5, <2>2 DEF DeliveryHeld, HeldInv
  <2> QED
    BY <2>1, <2>2
<1>8. /\ agent'[g].step = "apply" /\ agent'[g].view = agent[g].view
      /\ agent'[g].ops = agent[g].ops \ {op} /\ Target(g)' = Target(g)
  BY <1>1, <1>2 DEF AgentBecomes, Target
<1>9. OnlyAdds(g)'
  BY <1>2, <1>8 DEF OnlyAdds
<1>10. Underway(g)'
  <2> SUFFICES ASSUME NEW d \in DOMAIN Target(g)
               PROVE  \/ d \in DOMAIN kernel'[g] /\ kernel'[g][d] = Target(g)[d]
                      \/ \E other \in agent[g].ops \ {op} : other.key = d
    BY <1>8 DEF Underway
  <2>1. CASE d = e
    BY <1>4, <2>1
  <2>2. CASE d # e
    BY <1>2, <1>4, <2>2 DEF Underway, KeepsOthers, e
  <2> QED
    BY <2>1, <2>2
<1>11. Configured(agent[g].view, kernel[g])'
  BY <1>7, <1>8 DEF Configured
<1> QED
  BY <1>4, <1>6, <1>8, <1>9, <1>10, <1>11 DEF KernelHolds

\* KernelInv is inductive, given the invariants before it; a gateway without
\* removals after a step had none before.
LEMMA NextKeepsKernel ==
    ASSUME StoreInv, StoreInv', DeliveryHeld, DeliveryContent, KernelInv, [Next]_vars
    PROVE  KernelInv'
<1>1. SystemMoves /\ StoreRowsKept
  <2>1. [LedgerNext]_storeVars
    BY DeliveryStepIsStoreStep, StoreStepIsLedgerStep DEF StoreInv
  <2> QED
    BY <2>1, StepEffect, LedgerKeepsRows
<1> SUFFICES ASSUME NEW g \in Gateways, NoRemovals(g)'
             PROVE  KernelFollows(g)'
  BY DEF KernelInv
<1>2. NoRemovals(g)
  BY <1>1 DEF StoreRowsKept, NoRemovals
<1>3. KernelFollows(g) /\ HeldInv(g) /\ 0 \notin DOMAIN outbox[g]
  BY <1>2, RowTables DEF KernelInv, DeliveryHeld
<1>4. FromAssignments(g, kernel'[g]) /\ KernelHolds(g)'
  <2>1. CASE Quiet(g)
    <3>1. kernel'[g] = kernel[g]
      BY <2>1 DEF Quiet
    <3> QED
      BY <1>3, <2>1, <3>1, KernelQuietly DEF KernelFollows
  <2>2. CASE OwnStep(g) /\ ~ApplyOperation(g)
    <3>1. kernel'[g] = kernel[g] /\ KernelHolds(g)'
      BY <1>2, <1>3, <2>2, KernelByAgent
    <3> QED
      BY <1>3, <3>1 DEF KernelFollows
  <2>3. CASE ApplyOperation(g)
    BY <1>2, <1>3, <2>3, KernelByOperation
  <2> QED
    BY <1>1, <2>1, <2>2, <2>3 DEF SystemMoves
<1>5. FromAssignments(g, kernel[g])'
  BY <1>1, <1>4, AssignmentsStay DEF FromAssignments
<1> QED
  BY <1>4, <1>5 DEF KernelFollows

\* It holds in every state.
LEMMA KernelAlwaysFollows == Spec => []KernelInv
<1>1. Init => KernelInv
  <2> SUFFICES ASSUME Init, NEW g \in Gateways PROVE KernelFollows(g)
    BY DEF KernelInv
  <2>1. agent[g] = IdleAgent /\ kernel[g] = NoPeers /\ DOMAIN outbox[g] = {}
    BY DEF Init
  <2>2. FromAssignments(g, kernel[g]) /\ AckedConfigured(g)
    BY <2>1, NoPeersIsTable DEF FromAssignments, AckedConfigured
  <2> QED
    BY <2>1, <2>2, NoPeersIsTable DEF IdleAgent, Configured, KernelHolds, KernelFollows
<1>2. /\ StoreInv /\ StoreInv' /\ DeliveryHeld /\ DeliveryContent
      /\ KernelInv /\ [Next]_vars
      => KernelInv'
  BY NextKeepsKernel
<1> QED
  BY <1>1, <1>2, DeliveryInvariant, PTL DEF Spec

\* As long as nothing is removed from a gateway, the interface has every peer
\* of every acknowledged generation, whatever fails, restarts or is delivered
\* twice.
THEOREM AckedPeersConfigured == Spec => []AckedPeersReachKernel
<1>1. KernelInv => AckedPeersReachKernel
  BY DEF KernelInv, KernelFollows, KernelHolds, AckedConfigured, Configured, AckedPeersReachKernel
<1> QED
  BY <1>1, KernelAlwaysFollows, PTL

-----------------------------------------------------------------------------
(***************************************************************************)
(* The interface while no fault makes an agent forget.                     *)
(***************************************************************************)
\* Device d is done: configured as the delivery in hand has it; or not yet.
Settled(g, d) ==
    \/ \E op \in agent[g].ops : op.key = d
    \/ d \notin DOMAIN kernel[g] /\ d \notin DOMAIN Target(g)
    \/ /\ d \in DOMAIN kernel[g] /\ d \in DOMAIN Target(g)
       /\ kernel[g][d] = Target(g)[d]

\* Nothing has failed, or nothing can but what comes before an application.
Untroubled == faults = 0 \/ Faults \subseteq BeforeApplication

\* The faults that are left then.
LEMMA NoTrouble ==
    ASSUME DeliveryHeld, Untroubled',
           NEW kind \in FaultKinds \ BeforeApplication
    PROVE  ~Fault(kind)
<1>1. Fault(kind) => faults' # 0 /\ kind \in Faults
  BY FaultCounted DEF Fault, DeliveryHeld
<1> QED
  BY <1>1 DEF Untroubled

\* Then the interface is CurrentPeers between applications, and the
\* delivery in hand after one; in between, a device without an operation is
\* done.
InterfaceHolds(g) ==
    /\ agent[g].step \in {"idle", "verify", "retry"} => kernel[g] = agent[g].view
    /\ agent[g].step = "apply" =>
          /\ agent[g].gen > agent[g].current
          /\ DistinctPeers(Target(g))
          /\ \A d \in Devices : Settled(g, d)
    /\ agent[g].step \in {"ack", "wait"} =>
          kernel[g] = IF agent[g].gen > agent[g].current THEN Target(g) ELSE agent[g].view

\* The fourth inductive invariant.
InterfaceInv == Untroubled => \A g \in Gateways : InterfaceHolds(g)

\* Quiet steps keep InterfaceHolds.
LEMMA InterfaceQuietly ==
    ASSUME NEW g \in Gateways, HeldInv(g), InterfaceHolds(g), Quiet(g)
    PROVE  InterfaceHolds(g)'
<1>1. /\ agent'[g] = agent[g] /\ kernel'[g] = kernel[g]
      /\ \A n \in DOMAIN outbox[g] : outbox'[g][n].peers = outbox[g][n].peers
  BY DEF Quiet, RowsKept
<1>2. agent[g].step \in {"apply", "ack", "wait"} => Target(g)' = Target(g)
  BY <1>1 DEF Target, HeldInv
<1>3. agent[g].step = "apply" => (\A d \in Devices : Settled(g, d))'
  BY <1>1, <1>2 DEF InterfaceHolds, Settled
<1>4. agent[g].step = "apply" => DistinctPeers(Target(g))'
  BY <1>1, <1>2 DEF InterfaceHolds, DistinctPeers
<1> QED
  BY <1>1, <1>2, <1>3, <1>4 DEF InterfaceHolds

\* What wg set does to one other peer.
LEMMA SetPeerAt ==
    ASSUME NEW interface \in PeerTables, NEW e, NEW peer, NEW d, d # e
    PROVE  /\ d \in DOMAIN SetPeer(interface, e, peer) <=> d \in DOMAIN interface
           /\ d \in DOMAIN interface /\ interface[d].v4 # peer.v4 /\ interface[d].v6 # peer.v6
              => SetPeer(interface, e, peer)[d] = interface[d]
<1>1. ASSUME d \in DOMAIN interface, interface[d].v4 # peer.v4, interface[d].v6 # peer.v6
      PROVE  SetPeer(interface, e, peer)[d] = interface[d]
  <2>1. SetPeer(interface, e, peer)[d] = [v4 |-> interface[d].v4, v6 |-> interface[d].v6]
    BY <1>1 DEF SetPeer
  <2>2. interface[d] \in Peer
    BY <1>1 DEF PeerTables
  <2> QED
    BY <2>1, <2>2 DEF Peer
<1> QED
  BY <1>1 DEF SetPeer

\* A device without an operation is the same on both sides of Diff.
LEMMA DiffSettles ==
    ASSUME NEW g \in Gateways, NEW d
    PROVE  \/ \E op \in Diff(Target(g), kernel[g]) : op.key = d
           \/ d \notin DOMAIN kernel[g] /\ d \notin DOMAIN Target(g)
           \/ d \in DOMAIN kernel[g] /\ d \in DOMAIN Target(g) /\ kernel[g][d] = Target(g)[d]
<1> DEFINE desired == Target(g)
           observed == kernel[g]
<1> HIDE DEF desired, observed
<1>1. d \in DOMAIN desired \ DOMAIN observed
      => [kind |-> "add", key |-> d] \in Diff(desired, observed)
  BY DEF Diff
<1>2. d \in DOMAIN desired \cap DOMAIN observed /\ desired[d] # observed[d]
      => [kind |-> "update", key |-> d] \in Diff(desired, observed)
  BY DEF Diff
<1>3. d \in DOMAIN observed \ DOMAIN desired
      => [kind |-> "remove", key |-> d] \in Diff(desired, observed)
  BY DEF Diff
<1>4. \/ \E op \in Diff(desired, observed) : op.key = d
      \/ d \notin DOMAIN observed /\ d \notin DOMAIN desired
      \/ d \in DOMAIN observed /\ d \in DOMAIN desired /\ observed[d] = desired[d]
  BY <1>1, <1>2, <1>3
<1> QED
  BY <1>4 DEF desired, observed

\* An operation settles its device and unsettles none: an address taken away
\* belongs to a peer with an operation to come, as the addresses of the
\* delivery in hand are different.
LEMMA InterfaceByOperation ==
    ASSUME DeliveryHeld, NEW g \in Gateways, InterfaceHolds(g), ApplyOperation(g)
    PROVE  InterfaceHolds(g)'
<1>1. PICK op \in agent[g].ops :
         /\ kernel'[g] = IF op.kind = "remove"
                         THEN RemovePeer(kernel[g], op.key)
                         ELSE SetPeer(kernel[g], op.key, Target(g)[op.key])
         /\ AgentBecomes(g, "apply", agent[g].gen, agent[g].ops \ {op})
  BY ApplyOperationEffect DEF Target
<1>2. /\ UNCHANGED outbox /\ agent[g].step = "apply"
      /\ kernel[g] \in PeerTables
      /\ op.kind = "remove" <=> op.key \notin DOMAIN Target(g)
      /\ DistinctPeers(Target(g)) /\ agent[g].gen > agent[g].current
  BY ApplyOperationEffect DEF DeliveryHeld, DeliveryState, HeldInv, InterfaceHolds, Target
<1>3. /\ agent'[g].step = "apply" /\ agent'[g].gen = agent[g].gen
      /\ agent'[g].current = agent[g].current
      /\ agent'[g].ops = agent[g].ops \ {op} /\ Target(g)' = Target(g)
  BY <1>1, <1>2 DEF AgentBecomes, Target
<1>4. ASSUME NEW d \in Devices PROVE Settled(g, d)'
  <2>0. Settled(g, d)
    BY <1>2 DEF InterfaceHolds
  <2> SUFFICES ASSUME \A other \in agent[g].ops \ {op} : other.key # d
               PROVE  \/ d \notin DOMAIN kernel'[g] /\ d \notin DOMAIN Target(g)
                      \/ /\ d \in DOMAIN kernel'[g] /\ d \in DOMAIN Target(g)
                         /\ kernel'[g][d] = Target(g)[d]
    BY <1>3 DEF Settled
  <2>1. CASE op.kind = "remove" /\ d = op.key
    BY <1>1, <1>2, <2>1 DEF RemovePeer
  <2>2. CASE op.kind = "remove" /\ d # op.key
    BY <1>1, <2>0, <2>2 DEF RemovePeer, Settled
  <2>3. CASE op.kind # "remove" /\ d = op.key
    <3>1. /\ kernel'[g] = SetPeer(kernel[g], d, Target(g)[d])
          /\ d \in DOMAIN Target(g)
      BY <1>1, <1>2, <2>3
    <3> QED
      BY <3>1 DEF SetPeer
  <2>4. CASE op.kind # "remove" /\ d # op.key
    <3> DEFINE e == op.key
    <3>1. /\ kernel'[g] = SetPeer(kernel[g], e, Target(g)[e])
          /\ e \in DOMAIN Target(g)
      BY <1>1, <1>2, <2>4
    <3>2. \/ d \notin DOMAIN kernel[g] /\ d \notin DOMAIN Target(g)
          \/ /\ d \in DOMAIN kernel[g] /\ d \in DOMAIN Target(g)
             /\ kernel[g][d] = Target(g)[d]
      BY <2>0, <2>4 DEF Settled
    <3>3. d \in DOMAIN Target(g) =>
             Target(g)[d].v4 # Target(g)[e].v4 /\ Target(g)[d].v6 # Target(g)[e].v6
      BY <1>2, <2>4, <3>1 DEF DistinctPeers
    <3> HIDE DEF e
    <3>4. d # e
      BY <2>4 DEF e
    <3> QED
      BY <1>2, <3>1, <3>2, <3>3, <3>4, SetPeerAt
  <2> QED
    BY <2>1, <2>2, <2>3, <2>4
<1>5. DistinctPeers(Target(g))'
  BY <1>2, <1>3 DEF DistinctPeers
<1> QED
  BY <1>2, <1>3, <1>4, <1>5 DEF InterfaceHolds

\* The other steps of the agent keep it.
LEMMA InterfaceByAgent ==
    ASSUME DeliveryHeld, NEW g \in Gateways, InterfaceHolds(g), OwnStep(g), ~ApplyOperation(g),
           Untroubled'
    PROVE  InterfaceHolds(g)'
<1>0. /\ HeldInv(g) /\ agent[g] \in Agent /\ kernel[g] \in PeerTables
      /\ agent[g].gen \in Nat /\ agent[g].current \in Nat
  BY DEF DeliveryHeld, DeliveryState, Agent
<1>1. CASE ClaimDelivery(g)
  <2>1. PICK n \in DOMAIN outbox[g] :
           AgentBecomes(g, "verify", n, agent[g].ops)
    BY <1>1, ClaimDeliveryEffect
  <2>2. kernel' = kernel /\ agent[g].step = "idle"
    BY <1>1, ClaimDeliveryEffect DEF ClaimDelivery
  <2> QED
    BY <2>1, <2>2 DEF AgentBecomes, InterfaceHolds
<1>2. CASE VerifyDelivery(g)
  <2>1. /\ UNCHANGED <<outbox, kernel>> /\ agent[g].step = "verify"
        /\ kernel[g] = agent[g].view /\ agent[g].gen \in DOMAIN outbox[g]
    BY <1>0, <1>2, VerifyDeliveryEffect DEF InterfaceHolds, HeldInv
  <2>2. CASE AgentBecomes(g, "retry", agent[g].gen, agent[g].ops)
    BY <2>1, <2>2 DEF AgentBecomes, InterfaceHolds
  <2>3. CASE agent[g].gen <= agent[g].current
             /\ AgentBecomes(g, "ack", agent[g].gen, agent[g].ops)
    BY <1>0, <2>1, <2>3 DEF AgentBecomes, InterfaceHolds
  <2>4. CASE /\ agent[g].gen > agent[g].current
             /\ ValidPeers(Target(g))
             /\ AgentBecomes(g, "apply", agent[g].gen, Diff(Target(g), agent[g].view))
    <3>1. /\ agent'[g].step = "apply" /\ agent'[g].gen = agent[g].gen
          /\ agent'[g].current = agent[g].current
          /\ agent'[g].ops = Diff(Target(g), kernel[g]) /\ Target(g)' = Target(g)
      BY <2>1, <2>4 DEF AgentBecomes, Target
    <3>2. ASSUME NEW d \in Devices PROVE Settled(g, d)'
      <4>1. \/ \E op \in Diff(Target(g), kernel[g]) : op.key = d
            \/ d \notin DOMAIN kernel[g] /\ d \notin DOMAIN Target(g)
            \/ /\ d \in DOMAIN kernel[g] /\ d \in DOMAIN Target(g)
               /\ kernel[g][d] = Target(g)[d]
        BY DiffSettles
      <4> QED
        BY <2>1, <3>1, <4>1 DEF Settled
    <3>3. DistinctPeers(Target(g))'
      BY <2>4, <3>1 DEF DistinctPeers, ValidPeers
    <3> QED
      BY <2>4, <3>1, <3>2, <3>3 DEF InterfaceHolds
  <2> QED
    BY <1>2, <2>2, <2>3, <2>4, VerifyDeliveryEffect DEF Target
<1>3. CASE AppliedAll(g)
  <2>1. /\ UNCHANGED <<outbox, kernel>> /\ agent[g].step = "apply" /\ agent[g].ops = {}
        /\ AgentBecomes(g, "ack", agent[g].gen, {})
    BY <1>3, AppliedAllEffect DEF AppliedAll
  <2>2. \A d \in Devices :
           \/ d \notin DOMAIN kernel[g] /\ d \notin DOMAIN Target(g)
           \/ d \in DOMAIN kernel[g] /\ d \in DOMAIN Target(g) /\ kernel[g][d] = Target(g)[d]
    BY <2>1 DEF InterfaceHolds, Settled
  <2>3. Target(g) \in PeerTables
    BY <1>0, <2>1, RowTables DEF HeldInv, Target
  <2>4. DOMAIN kernel[g] \subseteq Devices /\ DOMAIN Target(g) \subseteq Devices
    BY <1>0, <2>3 DEF PeerTables
  <2>5. kernel[g] = Target(g)
    <3>1. /\ DOMAIN kernel[g] = DOMAIN Target(g)
          /\ \A d \in DOMAIN kernel[g] : kernel[g][d] = Target(g)[d]
      BY <2>2, <2>4
    <3> QED
      BY <1>0, <2>3, <3>1, SamePeerTables
  <2>6. /\ agent'[g].step = "ack" /\ agent'[g].gen = agent[g].gen
        /\ agent'[g].current = agent[g].current /\ Target(g)' = Target(g)
    BY <2>1 DEF AgentBecomes, Target
  <2> QED
    BY <2>1, <2>5, <2>6 DEF InterfaceHolds
<1>4. ~ApplyFails(g) /\ ~AckLost(g) /\ ~AgentRestarts(g)
  <2>1. {"apply_fails", "ack_lost", "agent_restarts"} \subseteq FaultKinds \ BeforeApplication
    BY DEF FaultKinds, BeforeApplication
  <2> QED
    BY <2>1, NoTrouble DEF ApplyFails, AckLost, AgentRestarts
<1>5. CASE RetryDelivery(g) \/ RetryLost(g)
  <2>1. UNCHANGED kernel /\ agent[g].step = "retry" /\ AgentBecomes(g, "idle", 0, {})
    BY <1>5, RetryDeliveryEffect, LostCallEffect DEF RetryDelivery, RetryLost
  <2> QED
    BY <2>1 DEF AgentBecomes, InterfaceHolds
<1>6. CASE AckSnapshot(g)
  <2>1. /\ RowChanged(g, agent[g].gen, "acked") /\ UNCHANGED kernel
        /\ agent[g].step = "ack"
        /\ AgentBecomes(g, "wait", agent[g].gen, agent[g].ops)
    BY <1>6, AckSnapshotEffect
  <2>2. /\ agent'[g].step = "wait" /\ agent'[g].gen = agent[g].gen
        /\ agent'[g].view = agent[g].view
        /\ agent'[g].current = agent[g].current /\ Target(g)' = Target(g)
    BY <2>1 DEF AgentBecomes, Target, RowChanged
  <2> QED
    BY <2>1, <2>2 DEF InterfaceHolds
<1>7. ASSUME NEW n \in Generations, HandlerNext(g, n)
      PROVE  InterfaceHolds(g)'
  <2>0. ConfirmDelivery(g, n)
    <3>1. {"confirm_lost", "confirm_fails"} \subseteq FaultKinds \ BeforeApplication
      BY DEF FaultKinds, BeforeApplication
    <3> QED
      BY <1>7, <3>1, NoTrouble DEF HandlerNext, ConfirmUnanswered, ConfirmFails
  <2>1. UNCHANGED <<outbox, kernel>>
    BY <1>7, HandlerEffect
  <2>2. CASE agent'[g] = agent[g]
    <3>1. Target(g)' = Target(g)
      BY <2>1, <2>2 DEF Target
    <3> QED
      BY <2>1, <2>2, <3>1 DEF InterfaceHolds, Settled, DistinctPeers
  <2>3. CASE /\ agent[g].step = "wait"
             /\ agent[g].gen <= agent[g].current
             /\ AgentBecomes(g, "idle", 0, {})
    BY <1>0, <2>1, <2>3 DEF AgentBecomes, InterfaceHolds
  <2>4. CASE /\ agent[g].step = "wait"
             /\ agent[g].gen > agent[g].current
             /\ agent'[g] = [step |-> "idle", gen |-> 0, ops |-> {},
                             current |-> agent[g].gen,
                             view |-> outbox[g][agent[g].gen].peers]
    BY <2>1, <2>4 DEF InterfaceHolds, Target
  <2> QED
    BY <1>7, <2>0, <2>2, <2>3, <2>4, HandlerEffect
<1> QED
  BY <1>1, <1>2, <1>3, <1>4, <1>5, <1>6, <1>7 DEF OwnStep

\* InterfaceInv is inductive, given DeliveryHeld.
LEMMA NextKeepsInterface ==
    ASSUME StoreInv, DeliveryHeld, InterfaceInv, [Next]_vars
    PROVE  InterfaceInv'
<1> SUFFICES ASSUME Untroubled', NEW g \in Gateways PROVE InterfaceHolds(g)'
  BY DEF InterfaceInv
<1>1. SystemMoves
  BY StepEffect
<1>2. Untroubled
  BY <1>1, OwnStepEffect DEF SystemMoves, Quiet, OnlyAt, Untroubled
<1>3. InterfaceHolds(g) /\ HeldInv(g)
  BY <1>2 DEF InterfaceInv, DeliveryHeld
<1> QED
  BY <1>1, <1>3, InterfaceQuietly, InterfaceByOperation, InterfaceByAgent DEF SystemMoves

\* It holds in every state.
LEMMA InterfaceAlwaysHolds == Spec => []InterfaceInv
<1>1. Init => InterfaceInv
  BY DEF Init, IdleAgent, InterfaceInv, InterfaceHolds
<1>2. StoreInv /\ DeliveryHeld /\ InterfaceInv /\ [Next]_vars => InterfaceInv'
  BY NextKeepsInterface
<1> QED
  BY <1>1, <1>2, DeliveriesAlwaysHeld, PTL DEF Spec

\* Until an application or its acknowledgement fails or an agent restarts, the
\* interface has exactly the peers of the newest snapshot applied, with removals and addresses that move between devices.
THEOREM InterfaceFollows == Spec => []InterfaceFollowsSnapshots
<1>1. InterfaceInv => InterfaceFollowsSnapshots
  BY DEF InterfaceInv, InterfaceHolds, Target, InterfaceFollowsSnapshots, Untroubled
<1> QED
  BY <1>1, InterfaceAlwaysHolds, PTL

-----------------------------------------------------------------------------
(***************************************************************************)
(* Stranded deliveries.                                                    *)
(***************************************************************************)
\* Generation n of g is in flight and in nobody's hands.
StrandedAt(g, n) == InFlight(g, n) /\ ~Holds(g, n)

\* A step that strands nothing at g, and frees nothing.
StrandsNone(g) == \A n \in Generations : StrandedAt(g, n)' <=> StrandedAt(g, n)

\* One that may strand generation x, and frees nothing.
StrandsOne(g, x) ==
    \A n \in Generations : /\ StrandedAt(g, n) => StrandedAt(g, n)'
                           /\ StrandedAt(g, n)' => StrandedAt(g, n) \/ n = x

\* What a step does to the stranded deliveries of g: a fault strands one at
\* most, any other step none.
StrandsByFault(g) ==
    \/ StrandsNone(g) /\ faults' \in {faults, faults + 1}
    \/ faults' = faults + 1 /\ \E x \in Generations : StrandsOne(g, x)

\* A row that changes under the agent's hands.
LEMMA RowInHand ==
    ASSUME NEW g \in Gateways, NEW x \in Generations, NEW state, RowChanged(g, x, state),
           x \in DOMAIN outbox[g],
           ~StrandedAt(g, x), ~StrandedAt(g, x)',
           \A n \in Generations : n # x => ~Holds(g, n) /\ ~Holds(g, n)'
    PROVE  StrandsNone(g)
BY DEF StrandsNone, StrandedAt, InFlight, RowChanged

\* The agent lets go of the row it holds, or of none.
LEMMA RowLetGo ==
    ASSUME NEW g \in Gateways, outbox' = outbox, agent'[g].step \in {"idle", "wait"},
           faults' = faults + 1, agent[g].gen \in Generations \cup {0}
    PROVE  StrandsByFault(g)
<1>1. \A n \in Generations : ~Holds(g, n)'
  BY DEF Holds
<1>2. CASE agent[g].gen = 0
  <2>1. 0 \notin Generations
    BY DEF Generations
  <2>2. \A n \in Generations : ~Holds(g, n)
    BY <1>2, <2>1 DEF Holds
  <2> QED
    BY <1>1, <2>2 DEF StrandsByFault, StrandsNone, StrandedAt, InFlight
<1>3. CASE agent[g].gen \in Generations
  <2>1. \A n \in Generations : n # agent[g].gen => ~Holds(g, n)
    BY DEF Holds
  <2> QED
    BY <1>1, <1>3, <2>1 DEF StrandsByFault, StrandsOne, StrandedAt, InFlight
<1> QED
  BY <1>2, <1>3

\* The agent goes on with the same row, or has none.
LEMMA RowKeptInHand ==
    ASSUME NEW g \in Gateways, outbox' = outbox, faults' \in {faults, faults + 1},
           \A n \in Generations : Holds(g, n)' <=> Holds(g, n)
    PROVE  StrandsByFault(g)
BY DEF StrandsByFault, StrandsNone, StrandedAt, InFlight

\* The steps of the agent and its handler.
LEMMA StrandedByOwnStep ==
    ASSUME DeliveryHeld, NEW g \in Gateways, OwnStep(g)
    PROVE  StrandsByFault(g)
<1>0. /\ HeldInv(g) /\ DOMAIN outbox[g] \subseteq Generations /\ 0 \notin Generations
      /\ agent[g].gen \in Generations \cup {0}
      /\ agent[g].step = "idle" => agent[g].gen = 0
      /\ agent[g].step # "idle" => agent[g].gen \in DOMAIN outbox[g]
  BY RowsOf DEF DeliveryHeld, DeliveryState, Generations, HeldInv
<1>1. CASE ClaimDelivery(g)
  <2>1. PICK x \in DOMAIN outbox[g] :
           /\ outbox[g][x].state \in {"queued", "failed"}
           /\ RowChanged(g, x, "in_flight")
           /\ AgentBecomes(g, "verify", x, agent[g].ops)
    BY <1>1, ClaimDeliveryEffect
  <2>2. agent[g].step = "idle" /\ faults' = faults
    BY <1>1 DEF ClaimDelivery
  <2>3. StrandsNone(g)
    <3>1. /\ agent'[g].step = "verify" /\ agent'[g].gen = x /\ x \in Generations
      BY <1>0, <2>1 DEF AgentBecomes
    <3>2. \A n \in Generations : ~Holds(g, n) /\ (Holds(g, n)' <=> n = x)
      BY <2>2, <3>1 DEF Holds
    <3>3. ~StrandedAt(g, x) /\ ~StrandedAt(g, x)'
      BY <2>1, <3>1, <3>2 DEF StrandedAt, InFlight
    <3> QED
      BY <2>1, <3>1, <3>2, <3>3, RowInHand
  <2> QED
    BY <2>2, <2>3 DEF StrandsByFault
<1>2. CASE VerifyDelivery(g)
  <2>1. UNCHANGED <<outbox, faults>> /\ agent[g].step = "verify"
    BY <1>2, VerifyDeliveryEffect
  <2>2. /\ agent'[g].step \in {"retry", "ack", "apply"}
        /\ agent'[g].gen = agent[g].gen
    BY <1>2, VerifyDeliveryEffect DEF AgentBecomes
  <2> QED
    BY <2>1, <2>2, RowKeptInHand DEF Holds
<1>3. CASE ApplyOperation(g)
  <2>1. /\ UNCHANGED <<outbox, faults>> /\ agent[g].step = "apply"
        /\ agent'[g].step = "apply" /\ agent'[g].gen = agent[g].gen
    BY <1>3, ApplyOperationEffect DEF AgentBecomes
  <2> QED
    BY <2>1, RowKeptInHand DEF Holds
<1>4. CASE AppliedAll(g)
  <2>1. /\ UNCHANGED <<outbox, faults>> /\ agent[g].step = "apply"
        /\ agent'[g].step = "ack" /\ agent'[g].gen = agent[g].gen
    BY <1>4, AppliedAllEffect DEF AgentBecomes, AppliedAll
  <2> QED
    BY <2>1, RowKeptInHand DEF Holds
<1>5. CASE ApplyFails(g)
  <2>1. /\ UNCHANGED outbox /\ agent[g].step = "apply" /\ faults' = faults + 1
        /\ agent'[g].step = "retry" /\ agent'[g].gen = agent[g].gen
    BY <1>5, ApplyFailsEffect DEF AgentBecomes, ApplyFails, Fault
  <2> QED
    BY <2>1, RowKeptInHand DEF Holds
<1>6. CASE RetryDelivery(g)
  <2>1. /\ agent[g].step = "retry" /\ faults' = faults
        /\ RowChanged(g, agent[g].gen, "failed") /\ agent'[g].step = "idle"
    BY <1>6, RetryDeliveryEffect DEF RetryDelivery, AgentBecomes
  <2>2. \A n \in Generations : ~Holds(g, n)' /\ (Holds(g, n) <=> n = agent[g].gen)
    BY <2>1 DEF Holds
  <2>3. ~StrandedAt(g, agent[g].gen) /\ agent[g].gen \in DOMAIN outbox[g]
    BY <1>0, <2>1, <2>2 DEF StrandedAt
  <2>4. StrandsNone(g)
    <3> DEFINE x == agent[g].gen
    <3>1. \A n \in Generations : n = x => ~StrandedAt(g, n)'
      BY <2>1 DEF StrandedAt, InFlight, RowChanged
    <3>2. \A n \in Generations : n # x => (InFlight(g, n)' <=> InFlight(g, n))
      BY <2>1 DEF InFlight, RowChanged
    <3> QED
      BY <2>2, <2>3, <3>1, <3>2 DEF StrandsNone, StrandedAt
  <2> QED
    BY <2>1, <2>4 DEF StrandsByFault
<1>7. CASE RetryLost(g) \/ AckLost(g)
  <2>1. UNCHANGED outbox /\ agent'[g].step = "idle" /\ faults' = faults + 1
    BY <1>7, LostCallEffect DEF AgentBecomes, RetryLost, AckLost, Fault
  <2> QED
    BY <1>0, <2>1, RowLetGo
<1>8. CASE AckSnapshot(g)
  <2>1. /\ agent[g].step = "ack" /\ faults' = faults
        /\ RowChanged(g, agent[g].gen, "acked") /\ agent'[g].step = "wait"
    BY <1>8, AckSnapshotEffect DEF AgentBecomes
  <2>2. \A n \in Generations : ~Holds(g, n)' /\ (Holds(g, n) <=> n = agent[g].gen)
    BY <2>1 DEF Holds
  <2>3. StrandsNone(g)
    <3> DEFINE x == agent[g].gen
    <3>1. \A n \in Generations : n = x => ~StrandedAt(g, n)'
      BY <2>1 DEF StrandedAt, InFlight, RowChanged
    <3>2. \A n \in Generations : n # x => (InFlight(g, n)' <=> InFlight(g, n))
      BY <2>1 DEF InFlight, RowChanged
    <3> QED
      BY <2>2, <3>1, <3>2 DEF StrandsNone, StrandedAt
  <2> QED
    BY <2>1, <2>3 DEF StrandsByFault
<1>9. CASE AgentRestarts(g)
  <2>1. UNCHANGED outbox /\ agent'[g].step = "idle" /\ faults' = faults + 1
    <3>1. agent'[g] = IdleAgent /\ UNCHANGED outbox
      BY <1>9, AgentRestartsEffect
    <3>2. faults' = faults + 1
      BY <1>9 DEF AgentRestarts, Fault
    <3> QED
      BY <3>1, <3>2 DEF IdleAgent
  <2> QED
    BY <1>0, <2>1, RowLetGo
<1>10. ASSUME NEW m \in Generations, HandlerNext(g, m) PROVE StrandsByFault(g)
  <2>1. UNCHANGED outbox /\ faults' \in {faults, faults + 1}
    BY <1>10 DEF HandlerNext, ConfirmDelivery, ConfirmUnanswered, ConfirmFails, Fault
  <2>2. agent'[g] = agent[g] \/ (agent[g].step = "wait" /\ agent'[g].step = "idle")
    <3>1. \/ agent'[g] = agent[g]
          \/ agent[g].step = "wait" /\ AgentBecomes(g, "idle", 0, {})
          \/ /\ agent[g].step = "wait"
             /\ agent'[g] = [step |-> "idle", gen |-> 0, ops |-> {},
                             current |-> agent[g].gen,
                             view |-> outbox[g][agent[g].gen].peers]
      BY <1>10, HandlerEffect
    <3> QED
      BY <3>1 DEF AgentBecomes
  <2> QED
    BY <2>1, <2>2, RowKeptInHand DEF Holds
<1> QED
  BY <1>1, <1>2, <1>3, <1>4, <1>5, <1>6, <1>7, <1>8, <1>9, <1>10 DEF OwnStep

\* A claim whose answer is lost strands the row it marks; time strands none.
LEMMA StrandedBehindAgent ==
    ASSUME DeliveryHeld, NEW g \in Gateways,
           ClaimLost(g) \/ \E n \in Generations : RowBecomesDue(g, n) \/ SnapshotExpires(g, n)
    PROVE  StrandsByFault(g)
<1>0. DOMAIN outbox[g] \subseteq Generations
  BY RowsOf DEF DeliveryHeld, DeliveryState
<1>1. CASE ClaimLost(g)
  <2>1. PICK x \in DOMAIN outbox[g] :
           /\ outbox[g][x].state \in {"queued", "failed"}
           /\ RowChanged(g, x, "in_flight")
    BY <1>1, ClaimLostEffect
  <2>2. agent' = agent /\ faults' = faults + 1
    BY <1>1 DEF ClaimLost, Fault
  <2>3. StrandsOne(g, x)
    <3>1. ~StrandedAt(g, x)
      BY <2>1 DEF StrandedAt, InFlight
    <3> QED
      BY <2>1, <2>2, <3>1 DEF StrandsOne, StrandedAt, InFlight, Holds, RowChanged
  <2> QED
    BY <1>0, <2>2, <2>3 DEF StrandsByFault
<1>2. ASSUME NEW x \in Generations, RowBecomesDue(g, x) \/ SnapshotExpires(g, x)
      PROVE  StrandsByFault(g)
  <2>1. x \in DOMAIN outbox[g] /\ RowChanged(g, x, outbox[g][x].state) /\ agent' = agent
    BY <1>2, TimeEffect
  <2>2. faults' \in {faults, faults + 1}
    BY <1>2 DEF RowBecomesDue, SnapshotExpires, Fault
  <2>3. \A n \in Generations : InFlight(g, n)' <=> InFlight(g, n)
    BY <2>1 DEF InFlight, RowChanged
  <2> QED
    BY <2>1, <2>2, <2>3 DEF StrandsByFault, StrandsNone, StrandedAt, Holds
<1> QED
  BY <1>1, <1>2

\* Steps of another gateway strand nothing here.
LEMMA StrandedElsewhere ==
    ASSUME NEW h \in Gateways, OnlyAt(h), NEW g \in Gateways, g # h
    PROVE  StrandsNone(g)
BY DEF OnlyAt, StrandsNone, StrandedAt, InFlight, Holds

\* Writers add rows that are queued.
LEMMA StrandedByWriters ==
    ASSUME DeliveryHeld, WriterNext
    PROVE  (\A g \in Gateways : StrandsNone(g)) /\ faults' \in {faults, faults + 1}
<1>1. ASSUME outbox' = outbox, agent' = agent PROVE \A g \in Gateways : StrandsNone(g)
  BY <1>1 DEF StrandsNone, StrandedAt, InFlight, Holds
<1>2. ASSUME NEW w \in Writers, InsertSnapshot(w), NEW g \in Gateways PROVE StrandsNone(g)
  <2> DEFINE h == writer[w].gateway
             x == writer[w].gen
  <2>1. /\ h \in Gateways /\ outbox \in [Gateways -> Outboxes] /\ agent' = agent
        /\ x \in DOMAIN outbox[h] => outbox' = outbox
        /\ x \notin DOMAIN outbox[h] =>
              outbox' = [outbox EXCEPT ![h] = Insert(outbox[h], x, NewRow(w))]
    BY <1>2, InsertEffect DEF DeliveryHeld, DeliveryState, InsertSnapshot
  <2>2. CASE x \in DOMAIN outbox[h]
    BY <1>1, <2>1, <2>2
  <2>3. CASE x \notin DOMAIN outbox[h] /\ g # h
    <3>1. outbox'[g] = outbox[g]
      BY <2>1, <2>3
    <3> QED
      BY <2>1, <3>1 DEF StrandsNone, StrandedAt, InFlight, Holds
  <2>4. CASE x \notin DOMAIN outbox[h] /\ g = h
    <3>1. outbox'[g] = Insert(outbox[g], x, NewRow(w))
      BY <2>1, <2>4
    <3>2. /\ DOMAIN outbox'[g] = DOMAIN outbox[g] \cup {x}
          /\ \A m \in DOMAIN outbox[g] : outbox'[g][m] = outbox[g][m]
          /\ outbox'[g][x].state = "queued"
      BY <2>4, <3>1 DEF Insert, NewRow
    <3>3. \A n \in Generations : InFlight(g, n)' <=> InFlight(g, n)
      BY <2>4, <3>2 DEF InFlight
    <3> QED
      BY <2>1, <3>3 DEF StrandsNone, StrandedAt, Holds
  <2> QED
    BY <2>2, <2>3, <2>4
<1>3. faults' \in {faults, faults + 1}
  BY DEF WriterNext, ListGateways, ReadGeneration, ReadPeers, InsertSnapshot, WriterFails, Fault
<1>4. CASE \E w \in Writers : InsertSnapshot(w)
  BY <1>2, <1>3, <1>4
<1>5. CASE ~\E w \in Writers : InsertSnapshot(w)
  <2>1. outbox' = outbox /\ agent' = agent
    BY <1>5 DEF WriterNext, ListGateways, ReadGeneration, ReadPeers, WriterFails
  <2> QED
    BY <1>1, <1>3, <2>1
<1> QED
  BY <1>4, <1>5

\* Every step of the system.
StrandStep ==
    \/ (\A g \in Gateways : StrandsNone(g)) /\ faults' \in {faults, faults + 1}
    \/ /\ faults' = faults + 1
       /\ \E g \in Gateways, x \in Generations :
             StrandsOne(g, x) /\ \A h \in Gateways \ {g} : StrandsNone(h)

\* Reconciler, publisher, agents, handlers, clock and store, one after the other.
LEMMA StrandEffect ==
    ASSUME StoreInv, DeliveryHeld, [Next]_vars
    PROVE  StrandStep
<1>1. ASSUME UNCHANGED deliveryVars PROVE StrandStep
  BY <1>1 DEF deliveryVars, StrandStep, StrandsNone, StrandedAt, InFlight, Holds
<1>2. ASSUME WriterNext PROVE StrandStep
  BY <1>2, StrandedByWriters DEF StrandStep
<1>3. ASSUME NEW g \in Gateways, OnlyAt(g), StrandsByFault(g) PROVE StrandStep
  <2>1. \A h \in Gateways \ {g} : StrandsNone(h)
    BY <1>3, StrandedElsewhere
  <2> QED
    BY <1>3, <2>1 DEF StrandsByFault, StrandStep
<1>4. ASSUME NEW g \in Gateways, OwnStep(g) PROVE StrandStep
  BY <1>3, <1>4, OwnStepEffect, StrandedByOwnStep
<1>5. ASSUME NEW g \in Gateways,
             ClaimLost(g) \/ \E n \in Generations : RowBecomesDue(g, n) \/ SnapshotExpires(g, n)
      PROVE  StrandStep
  BY <1>3, <1>5, QuietAtHome, StrandedBehindAgent
<1>6. ASSUME NEW g \in Gateways, AgentNext(g) PROVE StrandStep
  BY <1>4, <1>5, <1>6 DEF AgentNext, OwnStep
<1>7. ASSUME NEW g \in Gateways, NEW n \in Generations,
             HandlerNext(g, n) \/ RowBecomesDue(g, n) \/ SnapshotExpires(g, n)
      PROVE  StrandStep
  BY <1>4, <1>5, <1>7 DEF OwnStep
<1> QED
  BY <1>1, <1>2, <1>6, <1>7 DEF Next, vars

\* The fifth inductive invariant: as many stranded deliveries as faults.
StrandInv == IsFiniteSet(Stranded) /\ Cardinality(Stranded) <= faults

\* The set, one delivery at a time.
LEMMA StrandedIs ==
    ASSUME NEW g \in Gateways, NEW n \in Generations
    PROVE  /\ <<g, n>> \in Stranded <=> StrandedAt(g, n)
           /\ <<g, n>> \in Stranded' <=> StrandedAt(g, n)'
BY DEF Stranded, StrandedAt

\* StrandInv is inductive: at most one delivery joins, and then a fault was spent.
LEMMA NextKeepsStranded ==
    ASSUME StoreInv, DeliveryHeld, DeliveryHeld', StrandInv, [Next]_vars
    PROVE  StrandInv'
<1>0. faults \in Nat /\ faults' \in Nat /\ Cardinality(Stranded) \in Nat
  BY FS_CardinalityType, DeliveryAssumptions DEF DeliveryHeld, DeliveryState, StrandInv
<1>1. StrandStep
  BY StrandEffect
<1>2. Stranded' \subseteq Gateways \X Generations
  BY DEF Stranded
<1>3. CASE (\A g \in Gateways : StrandsNone(g)) /\ faults' \in {faults, faults + 1}
  <2>1. Stranded' \subseteq Stranded
    BY <1>2, <1>3, StrandedIs DEF StrandsNone
  <2>2. IsFiniteSet(Stranded)' /\ Cardinality(Stranded)' <= Cardinality(Stranded)
    BY <2>1, FS_Subset DEF StrandInv
  <2>3. Cardinality(Stranded)' \in Nat
    BY <2>2, FS_CardinalityType
  <2> QED
    BY <1>0, <1>3, <2>2, <2>3 DEF StrandInv
<1>4. CASE /\ faults' = faults + 1
           /\ \E g \in Gateways, x \in Generations :
                 StrandsOne(g, x) /\ \A h \in Gateways \ {g} : StrandsNone(h)
  <2>1. PICK g \in Gateways, x \in Generations :
           StrandsOne(g, x) /\ \A h \in Gateways \ {g} : StrandsNone(h)
    BY <1>4
  <2>2. Stranded' \subseteq Stranded \cup {<<g, x>>}
    BY <1>2, <2>1, StrandedIs DEF StrandsNone, StrandsOne
  <2>3. /\ IsFiniteSet(Stranded \cup {<<g, x>>})
        /\ Cardinality(Stranded \cup {<<g, x>>}) <= Cardinality(Stranded) + 1
    <3>1. IsFiniteSet(Stranded)
      BY DEF StrandInv
    <3>2. /\ IsFiniteSet(Stranded \cup {<<g, x>>})
          /\ \/ Cardinality(Stranded \cup {<<g, x>>}) = Cardinality(Stranded)
             \/ Cardinality(Stranded \cup {<<g, x>>}) = Cardinality(Stranded) + 1
      BY <3>1, FS_AddElement
    <3> QED
      BY <1>0, <3>2
  <2>4. /\ IsFiniteSet(Stranded)'
        /\ Cardinality(Stranded)' <= Cardinality(Stranded \cup {<<g, x>>})
    BY <2>2, <2>3, FS_Subset
  <2>5. Cardinality(Stranded)' \in Nat /\ Cardinality(Stranded \cup {<<g, x>>}) \in Nat
    BY <2>3, <2>4, FS_CardinalityType
  <2> QED
    BY <1>0, <1>4, <2>3, <2>4, <2>5 DEF StrandInv
<1> QED
  BY <1>1, <1>3, <1>4 DEF StrandStep

\* Only faults strand deliveries, each one at most.
THEOREM StrandedByFaults == Spec => []OnlyFaultsStrand
<1>1. Init => StrandInv
  <2> SUFFICES ASSUME Init PROVE StrandInv
    OBVIOUS
  <2>1. Stranded = {}
    BY DEF Init, Stranded, InFlight
  <2> QED
    BY <2>1, FS_EmptySet DEF Init, StrandInv
<1>2. StoreInv /\ DeliveryHeld /\ DeliveryHeld' /\ StrandInv /\ [Next]_vars => StrandInv'
  BY NextKeepsStranded
<1>3. StrandInv => OnlyFaultsStrand
  BY DEF StrandInv, OnlyFaultsStrand
<1> QED
  BY <1>1, <1>2, <1>3, DeliveriesAlwaysHeld, PTL DEF Spec

\* A delivery that is stranded stays in flight for ever, and as long as it is
\* the reconciler passes over its gateway: no claim, retry, acknowledgement,
\* restart or later generation settles it.
THEOREM StrandedForGood ==
    ASSUME NEW g \in Gateways, NEW n \in Generations
    PROVE  Spec => [](<<g, n>> \in Stranded =>
                         [](InFlight(g, n) /\ g \notin GatewaysNeedingSnapshot))
<1> DEFINE S == <<g, n>> \in Stranded
           T == InFlight(g, n) /\ g \notin GatewaysNeedingSnapshot
<1>1. StoreInv /\ DeliveryHeld /\ S /\ [Next]_vars => S'
  BY StrandEffect, StrandedIs DEF StrandStep, StrandsNone, StrandsOne
<1>2. S => T
  BY DEF Stranded, InFlight, GatewaysNeedingSnapshot
<1> HIDE DEF S, T
<1>3. Spec => [](S => []T)
  BY <1>1, <1>2, DeliveriesAlwaysHeld, PTL DEF Spec
<1> QED
  BY <1>3 DEF S, T

-----------------------------------------------------------------------------
(***************************************************************************)
(* The tunnels a client was told.                                          *)
(***************************************************************************)
\* Host addresses begin at 2: none is the 0 of a peer that lost its address.
RealAddresses == \A s \in DOMAIN leases : leases[s].v4 # NoAddress /\ leases[s].v6 # NoAddress

\* No statement of the ledger gives a lease the address 0: candidates begin at 2.
LEMMA LedgerKeepsRealAddresses ==
    ASSUME StoreInv, RealAddresses, [LedgerNext]_storeVars
    PROVE  RealAddresses'
<1>1. DOMAIN leases = DOMAIN assignments /\ StoreRowsKept
  BY LedgerKeepsRows DEF StoreInv, LeaseFollowsAssignment
<1>2. ASSUME NEW u \in Users, NEW d \in Devices, NEW r \in Regions,
             NEW k \in IdemKeys, AllocateFree(u, d, r, k)
      PROVE  RealAddresses'
  <2>1. PICK g \in ready, s \in Slots \ DOMAIN leases,
             v4 \in HostCandidates(Pool4[r]), v6 \in HostCandidates(Pool6[r]) :
                InsertAllocation(d, r, k, s, g, v4, v6)
    BY <1>2 DEF AllocateFree
  <2>2. v4 # NoAddress /\ v6 # NoAddress
    BY MaxAttemptsAssumption DEF HostCandidates, NoAddress
  <2>3. /\ DOMAIN leases' = DOMAIN leases \cup {s}
        /\ leases'[s].v4 = v4 /\ leases'[s].v6 = v6
        /\ \A x \in DOMAIN leases : leases'[x] = leases[x]
    BY <2>1 DEF InsertAllocation, Insert
  <2> QED
    BY <2>2, <2>3 DEF RealAddresses
<1>3. ASSUME DOMAIN leases' = DOMAIN leases PROVE RealAddresses'
  BY <1>1, <1>3 DEF RealAddresses, StoreRowsKept
<1>4. ASSUME NEW g \in Gateways, NEW gen \in 1..MaxGeneration,
             NEW seen \in SUBSET Slots, ConfirmAmong(g, gen, seen)
      PROVE  DOMAIN leases' = DOMAIN leases
  BY <1>4 DEF ConfirmAmong
<1> QED
  BY <1>2, <1>3, <1>4
  DEF LedgerNext, OperatorNext, RegisterDevice, RequestRevocation, ReuseConfiguration,
      OperatorMarksRemoval, OperatorSetsGateway, OperatorSetsRegion, storeVars

\* So no lease has it in any state of the composition.
LEMMA DeliveryRealAddresses == Spec => []RealAddresses
<1>1. StoreInit => RealAddresses
  BY DEF StoreInit, RealAddresses
<1>2. StoreInv /\ RealAddresses /\ [LedgerNext]_storeVars => RealAddresses'
  BY LedgerKeepsRealAddresses
<1>3. LedgerSpec => []RealAddresses
  BY <1>1, <1>2, LedgerInvariant, PTL DEF LedgerSpec
<1> QED
  BY <1>3, DeliveryImplementsStore, StoreImplementsLedger, PTL

-----------------------------------------------------------------------------
\* What is assigned was answered: answer and lease are written by one statement.
LEMMA AssignedIsTold ==
    ASSUME StoreInv, AnswersInv, NEW g, NEW d, NEW p, Assigned(g, d, p)
    PROVE  Tunnels!Told(g, d, p)
<1>1. PICK s \in DOMAIN leases :
         /\ assignments[s].gateway = g
         /\ leases[s].device = d
         /\ leases[s].v4 = p.v4 /\ leases[s].v6 = p.v6
  BY DEF Assigned, StoreInv, LeaseFollowsAssignment
<1>2. PICK e \in DOMAIN idem : idem[e].response.assignment = s
  BY DEF AnswersInv
<1>3. Describes(e)
  BY DEF AnswersInv
<1> QED
  BY <1>1, <1>2, <1>3 DEF Describes, Tunnels!Told

ToldAsAssigned ==
    \A e \in DOMAIN idem : Assigned(idem[e].response.gateway, e[1], idem[e].response)

\* The converse: every stored answer names what the device is assigned.
LEMMA ToldIsAssigned == StoreInv /\ AnswersInv => ToldAsAssigned
BY DEF AnswersInv, Describes, StoreInv, LeaseFollowsAssignment, Assigned, ToldAsAssigned

\* A device is always answered the same.
OneAnswer ==
    \A e, f \in DOMAIN idem : f[1] = e[1] => idem[f].response = idem[e].response

\* It holds because a device keeps its one assignment, whatever key it asks with.
LEMMA AnsweredOnce == StoreInv /\ AnswersInv => OneAnswer
<1> SUFFICES ASSUME StoreInv, AnswersInv, NEW e \in DOMAIN idem, NEW f \in DOMAIN idem,
                    f[1] = e[1]
             PROVE  idem[f].response = idem[e].response
  BY DEF OneAnswer
<1>1. Describes(e) /\ Describes(f)
  BY DEF AnswersInv
<1>2. idem[e].response.assignment = idem[f].response.assignment
  BY <1>1 DEF Describes, StoreInv, OneSlotPerDevice
<1>3. idem[e].response \in Configuration /\ idem[f].response \in Configuration
  BY DEF StoreInv, StoreTypeOK, IsTable, StoredResponse
<1> QED
  BY <1>1, <1>2, <1>3 DEF Describes, Configuration

\* Without removals, two devices of a gateway are answered different addresses.
ApartOn(g) ==
    \A e, f \in DOMAIN idem :
        LET one == idem[e].response
            two == idem[f].response
        IN  f[1] # e[1] /\ one.gateway = g /\ two.gateway = g =>
                two.v4 # one.v4 /\ two.v6 # one.v6

AnswersApart == \A g \in Gateways : NoRemovals(g) => ApartOn(g)

\* It holds because the ledger never gives one address of a gateway twice.
LEMMA AnsweredApart == StoreInv /\ AnswersInv => AnswersApart
<1> SUFFICES ASSUME StoreInv, AnswersInv, NEW g \in Gateways, NoRemovals(g),
                    NEW e \in DOMAIN idem, NEW f \in DOMAIN idem, f[1] # e[1],
                    idem[e].response.gateway = g, idem[f].response.gateway = g
             PROVE  /\ idem[f].response.v4 # idem[e].response.v4
                    /\ idem[f].response.v6 # idem[e].response.v6
  BY DEF AnswersApart, ApartOn
<1>1. Assigned(g, e[1], idem[e].response) /\ Assigned(g, f[1], idem[f].response)
  BY ToldIsAssigned DEF ToldAsAssigned
<1> QED
  BY <1>1, AddressesApart

\* So a new answer keeps the promise.
LEMMA NewAnswer ==
    ASSUME StoreInv', AnswersInv', NEW e, e \notin DOMAIN idem,
           DOMAIN idem' = DOMAIN idem \cup {e},
           \A f \in DOMAIN idem : idem'[f] = idem[f],
           \A g \in Gateways : NoRemovals(g)' <=> NoRemovals(g),
           UNCHANGED deliveryVars
    PROVE  Tunnels!TunnelNext
<1>1. OneAnswer' /\ AnswersApart'
  <2>1. (StoreInv /\ AnswersInv)' => (OneAnswer /\ AnswersApart)'
    BY AnsweredOnce, AnsweredApart, PTL
  <2> QED
    BY <2>1
<1>2. UNCHANGED <<Removing, Acknowledged, kernel>>
  BY DEF Removing, Acknowledged, AckedRows, deliveryVars
<1>3. ASSUME NEW f \in DOMAIN idem
      PROVE  /\ f[1] = e[1] => idem[f].response = idem'[e].response
             /\ /\ f[1] # e[1]
                /\ idem[f].response.gateway = idem'[e].response.gateway
                /\ idem'[e].response.gateway \notin Removing
                => /\ idem[f].response.v4 # idem'[e].response.v4
                   /\ idem[f].response.v6 # idem'[e].response.v6
  <2>1. idem'[f] = idem[f] /\ f \in DOMAIN idem' /\ e \in DOMAIN idem'
    OBVIOUS
  <2>2. f[1] = e[1] => idem[f].response = idem'[e].response
    BY <1>1, <2>1 DEF OneAnswer
  <2>3. ASSUME NEW h \in Gateways, h \notin Removing, f[1] # e[1],
               idem[f].response.gateway = h, idem'[e].response.gateway = h
        PROVE  /\ idem[f].response.v4 # idem'[e].response.v4
               /\ idem[f].response.v6 # idem'[e].response.v6
    <3>1. ApartOn(h)'
      BY <1>1, <2>3 DEF AnswersApart, Removing
    <3> QED
      BY <2>1, <2>3, <3>1 DEF ApartOn
  <2>4. idem'[e].response.gateway \in Gateways
    BY <2>1 DEF StoreInv, StoreTypeOK, IsTable, StoredResponse, Configuration
  <2> QED
    BY <2>2, <2>3, <2>4
<1>4. Tunnels!Answer(e)
  BY <1>2, <1>3 DEF Tunnels!Answer
<1> QED
  BY <1>4 DEF Tunnels!TunnelNext

-----------------------------------------------------------------------------
\* Steps of clients and the operator.
LEMMA TunnelByStore ==
    ASSUME StoreInv, StoreInv', AnswersInv', ClientNext \/ OperatorNext,
           UNCHANGED deliveryVars
    PROVE  [Tunnels!TunnelNext]_(Tunnels!tunnels)
<1>1. ASSUME UNCHANGED <<assignments, idem>> PROVE UNCHANGED Tunnels!tunnels
  BY <1>1 DEF Tunnels!tunnels, Removing, NoRemovals, Acknowledged, AckedRows, deliveryVars
<1>2. ASSUME NEW u \in Users, NEW d \in Devices, NEW r \in Regions,
             NEW k \in IdemKeys, ReuseConfiguration(u, d, r, k)
      PROVE  Tunnels!TunnelNext
  <2> DEFINE e == <<d, k>>
  <2>1. PICK row : idem' = Insert(idem, e, row)
    BY <1>2 DEF ReuseConfiguration
  <2>2. e \notin DOMAIN idem /\ assignments' = assignments
    BY <1>2 DEF ReuseConfiguration, Stored
  <2> HIDE DEF e
  <2>3. DOMAIN idem' = DOMAIN idem \cup {e} /\ \A f \in DOMAIN idem : idem'[f] = idem[f]
    BY <2>1, <2>2 DEF Insert
  <2>4. \A g \in Gateways : NoRemovals(g)' <=> NoRemovals(g)
    BY <2>2 DEF NoRemovals
  <2> QED
    BY <2>2, <2>3, <2>4, NewAnswer
<1>3. ASSUME NEW u \in Users, NEW d \in Devices, NEW r \in Regions,
             NEW k \in IdemKeys, AllocateConfiguration(u, d, r, k)
      PROVE  Tunnels!TunnelNext
  <2> DEFINE e == <<d, k>>
  <2>1. PICK g \in UNION {PickGateway(r, locked) : locked \in SUBSET Gateways},
             v4 \in FirstFree(Pool4[r], UsedV4(r)), v6 \in FirstFree(Pool6[r], UsedV6(r)),
             s \in Slots \ DOMAIN leases : InsertAllocation(d, r, k, s, g, v4, v6)
    BY <1>3 DEF AllocateConfiguration
  <2>2. e \notin DOMAIN idem /\ s \notin DOMAIN assignments
    BY <1>3 DEF AllocateConfiguration, Stored, StoreInv, LeaseFollowsAssignment
  <2>3. DOMAIN idem' = DOMAIN idem \cup {e} /\ \A f \in DOMAIN idem : idem'[f] = idem[f]
    BY <2>1, <2>2 DEF InsertAllocation, Insert
  <2>4. /\ DOMAIN assignments' = DOMAIN assignments \cup {s}
        /\ assignments'[s].state = "pending"
        /\ \A x \in DOMAIN assignments : assignments'[x] = assignments[x]
    BY <2>1, <2>2 DEF InsertAllocation, Insert
  <2>5. \A h \in Gateways : NoRemovals(h)' <=> NoRemovals(h)
    BY <2>4 DEF NoRemovals
  <2> HIDE DEF e
  <2> QED
    BY <2>2, <2>3, <2>5, NewAnswer
<1>4. ASSUME NEW s \in Slots, OperatorMarksRemoval(s) PROVE Tunnels!TunnelNext
  <2>1. s \in DOMAIN assignments /\ assignments[s] \in Assignment
    BY <1>4 DEF OperatorMarksRemoval, StoreInv, StoreTypeOK, IsTable
  <2>2. PICK g \in Gateways : g = assignments[s].gateway
    BY <2>1 DEF Assignment
  <2>3. /\ DOMAIN assignments' = DOMAIN assignments
        /\ assignments'[s].state = "removal_pending" /\ assignments'[s].gateway = g
        /\ \A x \in DOMAIN assignments : x # s => assignments'[x] = assignments[x]
    BY <1>4, <2>1, <2>2 DEF OperatorMarksRemoval, Assignment
  <2>4. ~NoRemovals(g)' /\ \A h \in Gateways : h # g => (NoRemovals(h)' <=> NoRemovals(h))
    BY <2>1, <2>2, <2>3 DEF NoRemovals
  <2>5. Removing' = Removing \cup {g}
    BY <2>4 DEF Removing
  <2>6. UNCHANGED <<idem, Acknowledged, kernel>>
    BY <1>4 DEF Acknowledged, AckedRows, deliveryVars, OperatorMarksRemoval
  <2>7. Tunnels!Remove(g)
    BY <2>5, <2>6 DEF Tunnels!Remove
  <2> QED
    BY <2>7 DEF Tunnels!TunnelNext
<1> QED
  BY <1>1, <1>2, <1>3, <1>4
  DEF ClientNext, OperatorNext, RegisterDevice, RequestRevocation, RefuseConfiguration,
      OperatorSetsGateway, OperatorSetsRegion, storeVars

\* A confirmation marks nothing for removal.
LEMMA ConfirmationMarksNothing ==
    ASSUME StoreInv, NEW g \in Gateways, NEW n, ConfirmGatewaySnapshot(g, n)
    PROVE  UNCHANGED <<idem, Removing>>
<1>1. /\ DOMAIN assignments' = DOMAIN assignments
      /\ \A s \in DOMAIN assignments : assignments'[s] = ConfirmedAssignments(g, n)[s]
  BY DEF ConfirmGatewaySnapshot, ConfirmedAssignments
<1>2. ASSUME NEW s \in DOMAIN assignments
      PROVE  /\ assignments'[s].gateway = assignments[s].gateway
             /\ assignments'[s].state \in {"pending", "active"} <=>
                   assignments[s].state \in {"pending", "active"}
  <2>1. assignments[s] \in Assignment
    BY DEF StoreInv, StoreTypeOK, IsTable
  <2> QED
    BY <1>1, <2>1 DEF ConfirmedAssignments, Assignment, LiveStates
<1>3. \A h \in Gateways : NoRemovals(h)' <=> NoRemovals(h)
  BY <1>1, <1>2 DEF NoRemovals
<1> QED
  BY <1>3 DEF Removing, ConfirmGatewaySnapshot

-----------------------------------------------------------------------------
\* The devices of the generations g has acknowledged.
AckedDevices(g) == UNION {DOMAIN outbox[g][n].peers : n \in AckedRows(g)}

\* What the promise calls acknowledged, gateway by gateway.
LEMMA AcknowledgedIs ==
    /\ (\A g \in Gateways : AckedDevices(g)' = AckedDevices(g)) => Acknowledged' = Acknowledged
    /\ \A g \in Gateways : \A D :
          (\A h \in Gateways : AckedDevices(h)' = IF h = g THEN AckedDevices(h) \cup D
                                                           ELSE AckedDevices(h))
          => Acknowledged' = [Acknowledged EXCEPT ![g] = @ \cup D]
BY DEF Acknowledged, AckedDevices

\* They are the same as long as no row of g goes to 'acked'.
LEMMA NothingAcked ==
    ASSUME NEW g \in Gateways, DOMAIN outbox[g] \subseteq DOMAIN outbox'[g],
           \A n \in DOMAIN outbox'[g] : outbox'[g][n].state = "acked" =>
               n \in DOMAIN outbox[g] /\ outbox[g][n].state = "acked",
           \A n \in DOMAIN outbox[g] :
               /\ outbox'[g][n].peers = outbox[g][n].peers
               /\ outbox[g][n].state = "acked" => outbox'[g][n].state = "acked"
    PROVE  AckedDevices(g)' = AckedDevices(g)
<1>1. AckedRows(g)' = AckedRows(g)
  BY DEF AckedRows
<1>2. \A n \in AckedRows(g) : outbox'[g][n].peers = outbox[g][n].peers
  BY DEF AckedRows
<1> QED
  BY <1>1, <1>2 DEF AckedDevices

\* So with a quiet step, and with a row that changes between other states.
LEMMA NothingAckedQuietly ==
    ASSUME NEW g \in Gateways, Quiet(g)
    PROVE  AckedDevices(g)' = AckedDevices(g)
<1>1. ASSUME NEW n \in DOMAIN outbox'[g], outbox'[g][n].state = "acked"
      PROVE  n \in DOMAIN outbox[g] /\ outbox[g][n].state = "acked"
  BY <1>1 DEF Quiet
<1> QED
  BY <1>1, NothingAcked DEF Quiet, RowsKept

\* 'acked' is neither the state the row leaves nor the one it takes.
LEMMA NothingAckedByChange ==
    ASSUME NEW g \in Gateways, NEW n \in DOMAIN outbox[g], NEW state, state # "acked",
           outbox[g][n].state # "acked", RowChanged(g, n, state)
    PROVE  AckedDevices(g)' = AckedDevices(g)
BY NothingAcked DEF RowChanged

\* A step of g that acknowledges nothing is none of the promise when it leaves
\* interface, answers and removals alone.
LEMMA NoTunnelStep ==
    ASSUME NEW g \in Gateways, OnlyAt(g), AckedDevices(g)' = AckedDevices(g),
           UNCHANGED <<kernel, idem, Removing>>
    PROVE  UNCHANGED Tunnels!tunnels
<1>1. \A h \in Gateways : AckedDevices(h)' = AckedDevices(h)
  BY QuietElsewhere, NothingAckedQuietly
<1> QED
  BY <1>1, AcknowledgedIs DEF Tunnels!tunnels

\* Answers and removals are data of the store.
LEMMA RemovingStays ==
    ASSUME UNCHANGED storeVars
    PROVE  UNCHANGED <<idem, Removing>>
BY DEF storeVars, Removing, NoRemovals

\* AckSnapshot: the interface has all peers of the delivery in hand, as they
\* were assigned and answered.
LEMMA TunnelByAck ==
    ASSUME StoreInv, AnswersInv, DeliveryHeld, DeliveryContent, KernelInv,
           NEW g \in Gateways, AckSnapshot(g)
    PROVE  Tunnels!TunnelNext
<1> DEFINE D == DOMAIN Target(g)
           n == agent[g].gen
<1>1. /\ OnlyAt(g) /\ agent[g].step = "ack" /\ RowChanged(g, n, "acked")
      /\ UNCHANGED <<storeVars, kernel>>
  BY AckSnapshotEffect
<1>2. n \in DOMAIN outbox[g]
  BY <1>1 DEF DeliveryHeld, HeldInv
<1>3. D \in SUBSET Devices
  BY <1>2, RowTables DEF Target
<1>4. ASSUME NEW d \in D, g \notin Removing PROVE Tunnels!Served(g, d)
  <2>1. Configured(Target(g), kernel[g])
    BY <1>1, <1>4 DEF KernelInv, KernelFollows, KernelHolds, Removing
  <2>2. Assigned(g, d, Target(g)[d])
    BY <1>2 DEF DeliveryContent, ContentInv, SnapshotOf, FromAssignments, Target
  <2>3. Tunnels!Told(g, d, Target(g)[d])
    BY <2>2, AssignedIsTold
  <2> QED
    BY <2>1, <2>3 DEF Configured, Tunnels!Served
<1>5. AckedDevices(g)' = AckedDevices(g) \cup D
  <2>1. AckedRows(g)' = AckedRows(g) \cup {n}
    BY <1>1, <1>2 DEF AckedRows, RowChanged
  <2>2. \A m \in DOMAIN outbox[g] : outbox'[g][m].peers = outbox[g][m].peers
    BY <1>1 DEF RowChanged
  <2>3. n \in AckedRows(g)' /\ AckedRows(g)' \subseteq DOMAIN outbox[g]
    BY <1>2, <2>1 DEF AckedRows
  <2> HIDE DEF n
  <2>4. D = DOMAIN outbox[g][n].peers
    BY DEF Target, n
  <2> HIDE DEF D
  <2> QED
    BY <1>2, <2>1, <2>2, <2>3, <2>4 DEF AckedDevices, AckedRows
<1>6. \A h \in Gateways : AckedDevices(h)' = IF h = g THEN AckedDevices(h) \cup D
                                                      ELSE AckedDevices(h)
  BY <1>1, <1>5, QuietElsewhere, NothingAckedQuietly
<1> HIDE DEF D
<1>7. Acknowledged' = [Acknowledged EXCEPT ![g] = @ \cup D]
  BY <1>6, AcknowledgedIs
<1>8. UNCHANGED <<idem, Removing, kernel>>
  BY <1>1, RemovingStays
<1>9. Tunnels!Acknowledge(g, D)
  BY <1>4, <1>7, <1>8 DEF Tunnels!Acknowledge
<1> QED
  BY <1>3, <1>9 DEF Tunnels!TunnelNext

\* What wg set takes from another peer.
LEMMA SetPeerTakes ==
    ASSUME NEW before \in PeerTables, NEW d, NEW peer, peer.v4 # NoAddress, peer.v6 # NoAddress,
           NEW after, after = SetPeer(before, d, peer), NEW e, e # d
    PROVE  /\ d \in DOMAIN after /\ after[d] = peer
           /\ e \in DOMAIN after <=> e \in DOMAIN before
           /\ e \in DOMAIN before =>
                 /\ after[e].v4 # peer.v4 /\ after[e].v6 # peer.v6
                 /\ after[e].v4 # before[e].v4 => after[e].v4 = NoAddress /\ before[e].v4 = peer.v4
                 /\ after[e].v6 # before[e].v6 => after[e].v6 = NoAddress /\ before[e].v6 = peer.v6
<1>1. /\ \A x : x \in DOMAIN after <=> x \in DOMAIN before \/ x = d
      /\ after[d] = peer
  BY DEF SetPeer
<1>2. e \in DOMAIN before =>
         after[e] = [v4 |-> IF before[e].v4 = peer.v4 THEN NoAddress ELSE before[e].v4,
                     v6 |-> IF before[e].v6 = peer.v6 THEN NoAddress ELSE before[e].v6]
  BY DEF SetPeer
<1> QED
  BY <1>1, <1>2

\* ApplyOperation: one peer is configured as the delivery in hand has it, or
\* removed; without removals it is added, and takes nothing from the others.
LEMMA TunnelByOperation ==
    ASSUME StoreInv, AnswersInv, RealAddresses, DeliveryHeld, DeliveryContent, KernelInv,
           NEW g \in Gateways, ApplyOperation(g)
    PROVE  Tunnels!TunnelNext
<1>1. PICK op \in agent[g].ops :
         kernel'[g] = IF op.kind = "remove"
                      THEN RemovePeer(kernel[g], op.key)
                      ELSE SetPeer(kernel[g], op.key, Target(g)[op.key])
  BY ApplyOperationEffect DEF Target
<1>2. /\ OnlyAt(g) /\ agent[g].step = "apply" /\ UNCHANGED <<storeVars, outbox>>
      /\ agent[g].gen \in DOMAIN outbox[g] /\ op \in Operation /\ kernel[g] \in PeerTables
      /\ op.kind = "remove" <=> op.key \notin DOMAIN Target(g)
  BY ApplyOperationEffect DEF DeliveryHeld, DeliveryState, HeldInv, Agent, Target
<1>3. PICK d \in Devices : d = op.key
  BY <1>2 DEF Operation
<1>4. UNCHANGED <<idem, Removing, Acknowledged>>
  BY <1>2, RemovingStays DEF Acknowledged, AckedRows
<1>5. \A h \in Gateways \ {g} : kernel'[h] = kernel[h]
  BY <1>2 DEF OnlyAt
<1>6. CASE op.kind = "remove"
  <2>1. /\ \A e : e \in DOMAIN kernel'[g] <=> e \in DOMAIN kernel[g] /\ e # d
        /\ \A e \in DOMAIN kernel[g] : e # d => kernel'[g][e] = kernel[g][e]
    BY <1>1, <1>3, <1>6 DEF RemovePeer
  <2>2. \A e \in Devices \ {d} : Tunnels!LosesOnlyTo(g, e, d)
    BY <2>1 DEF Tunnels!LosesOnlyTo
  <2>3. g \in Removing
    <3>1. g \notin Removing => OnlyAdds(g)
      BY <1>2 DEF KernelInv, KernelFollows, KernelHolds, Removing
    <3> QED
      BY <1>6, <3>1 DEF OnlyAdds
  <2>4. Tunnels!Configure(g, d)
    BY <1>4, <1>5, <2>1, <2>2, <2>3 DEF Tunnels!Configure
  <2> QED
    BY <2>4 DEF Tunnels!TunnelNext
<1>7. CASE op.kind # "remove"
  <2> DEFINE peer == Target(g)[d]
  <2>1. d \in DOMAIN Target(g) /\ kernel'[g] = SetPeer(kernel[g], d, peer)
    BY <1>1, <1>2, <1>3, <1>7
  <2>2. Assigned(g, d, peer)
    BY <1>2, <2>1 DEF DeliveryContent, ContentInv, SnapshotOf, FromAssignments, Target
  <2>3. Tunnels!Told(g, d, peer)
    BY <2>2, AssignedIsTold
  <2>4. peer.v4 # NoAddress /\ peer.v6 # NoAddress
    BY <2>2 DEF Assigned, RealAddresses, StoreInv, LeaseFollowsAssignment
  <2>5. g \notin Removing => KeepsOthers(kernel[g], kernel'[g], d)
    BY <1>2, <2>1, AddKeepsPeers DEF KernelInv, KernelFollows, Removing
  <2> HIDE DEF peer
  <2>6. d \in DOMAIN kernel'[g] /\ kernel'[g][d] = peer
    BY <2>1 DEF SetPeer
  <2>7. ASSUME NEW e, e # d
        PROVE  /\ e \in DOMAIN kernel'[g] <=> e \in DOMAIN kernel[g]
               /\ e \in DOMAIN kernel[g] =>
                     /\ kernel'[g][e].v4 # peer.v4 /\ kernel'[g][e].v6 # peer.v6
                     /\ kernel'[g][e].v4 # kernel[g][e].v4 =>
                           kernel'[g][e].v4 = NoAddress /\ kernel[g][e].v4 = peer.v4
                     /\ kernel'[g][e].v6 # kernel[g][e].v6 =>
                           kernel'[g][e].v6 = NoAddress /\ kernel[g][e].v6 = peer.v6
    BY <1>2, <2>1, <2>4, <2>7, SetPeerTakes
  <2>8. \A e \in Devices \ {d} : Tunnels!LosesOnlyTo(g, e, d)
    BY <2>6, <2>7 DEF Tunnels!LosesOnlyTo, Tunnels!NoAddress, NoAddress
  <2>9. \A e : Tunnels!Served(g, e)' <=> e \in DOMAIN kernel'[g] /\ Tunnels!Told(g, e, kernel'[g][e])
    BY <1>4 DEF Tunnels!Served, Tunnels!Told
  <2>10. Tunnels!Served(g, d)'
    BY <2>3, <2>6, <2>9
  <2>11. ASSUME g \notin Removing, NEW e \in Devices, Tunnels!Served(g, e)
         PROVE  Tunnels!Served(g, e)'
    <3>1. CASE e = d
      BY <2>10, <3>1
    <3>2. CASE e # d
      BY <2>5, <2>9, <2>11, <3>2 DEF KeepsOthers, Tunnels!Served
    <3> QED
      BY <3>1, <3>2
  <2>12. \A e \in DOMAIN kernel'[g] \ {d} :
            /\ kernel'[g][e].v4 # kernel'[g][d].v4
            /\ kernel'[g][e].v6 # kernel'[g][d].v6
    BY <2>6, <2>7
  <2>13. Tunnels!Configure(g, d)
    BY <1>4, <1>5, <2>8, <2>10, <2>11, <2>12 DEF Tunnels!Configure
  <2> QED
    BY <2>13 DEF Tunnels!TunnelNext
<1> QED
  BY <1>6, <1>7

\* The steps of an agent, its handlers and the clock that are left.
LEMMA TunnelByOthers ==
    ASSUME StoreInv, DeliveryHeld, NEW g \in Gateways,
           \/ OwnStep(g) /\ ~ApplyOperation(g) /\ ~AckSnapshot(g)
           \/ ClaimLost(g)
           \/ \E n \in Generations : RowBecomesDue(g, n) \/ SnapshotExpires(g, n)
    PROVE  UNCHANGED Tunnels!tunnels
<1>1. ASSUME UNCHANGED <<storeVars, outbox, kernel>> PROVE UNCHANGED Tunnels!tunnels
  BY <1>1, RemovingStays DEF Acknowledged, AckedRows, Tunnels!tunnels
<1>2. ASSUME NEW n \in DOMAIN outbox[g], NEW state, state # "acked",
             outbox[g][n].state # "acked", RowChanged(g, n, state),
             OnlyAt(g), UNCHANGED <<storeVars, kernel>>
      PROVE  UNCHANGED Tunnels!tunnels
  BY <1>2, RemovingStays, NothingAckedByChange, NoTunnelStep
<1>3. CASE ClaimDelivery(g)
  <2>1. PICK n \in DOMAIN outbox[g] : outbox[g][n].state \in {"queued", "failed"}
                                      /\ RowChanged(g, n, "in_flight")
    BY <1>3, ClaimDeliveryEffect
  <2> QED
    BY <1>2, <1>3, <2>1, ClaimDeliveryEffect
<1>4. CASE RetryDelivery(g)
  <2>1. agent[g].gen \in DOMAIN outbox[g]
    BY <1>4 DEF RetryDelivery, DeliveryHeld, HeldInv
  <2> QED
    BY <1>2, <1>4, <2>1, RetryDeliveryEffect
<1>5. CASE VerifyDelivery(g) \/ AppliedAll(g) \/ ApplyFails(g) \/ RetryLost(g) \/ AckLost(g)
           \/ AgentRestarts(g)
  BY <1>1, <1>5
  DEF VerifyDelivery, AppliedAll, ApplyFails, RetryLost, AckLost, AgentRestarts
<1>6. ASSUME NEW n \in Generations, HandlerNext(g, n) PROVE UNCHANGED Tunnels!tunnels
  <2>1. UNCHANGED <<outbox, kernel>> /\ OnlyAt(g)
    BY <1>6, HandlerEffect
  <2>2. UNCHANGED storeVars \/ ConfirmGatewaySnapshot(g, n)
    BY <1>6 DEF HandlerNext, ConfirmDelivery, ConfirmUnanswered, ConfirmFails
  <2>3. UNCHANGED <<idem, Removing>>
    BY <2>2, RemovingStays, ConfirmationMarksNothing
  <2> QED
    BY <2>1, <2>3 DEF Acknowledged, AckedRows, Tunnels!tunnels
<1>7. CASE ClaimLost(g) \/ \E n \in Generations : RowBecomesDue(g, n) \/ SnapshotExpires(g, n)
  <2>1. OnlyAt(g) /\ Quiet(g)
    BY <1>7, QuietAtHome
  <2>2. UNCHANGED <<storeVars, kernel>>
    BY <1>7 DEF ClaimLost, RowBecomesDue, SnapshotExpires
  <2> QED
    BY <2>1, <2>2, RemovingStays, NothingAckedQuietly, NoTunnelStep
<1> QED
  BY <1>3, <1>4, <1>5, <1>6, <1>7 DEF OwnStep

\* Reconciler and publisher only read the store and insert generations to deliver.
LEMMA TunnelByWriters ==
    ASSUME StoreInv, DeliveryHeld, WriterNext
    PROVE  UNCHANGED Tunnels!tunnels
<1>1. UNCHANGED <<storeVars, kernel>>
  BY DEF WriterNext, ListGateways, ReadGeneration, ReadPeers, InsertSnapshot, WriterFails
<1>2. \A g \in Gateways : AckedDevices(g)' = AckedDevices(g)
  BY WriterEffect, NothingAckedQuietly
<1> QED
  BY <1>1, <1>2, RemovingStays, AcknowledgedIs DEF Tunnels!tunnels

\* Every step of the system is a step of the promise, or none.
LEMMA StepKeepsTunnels ==
    ASSUME StoreInv, StoreInv', AnswersInv, AnswersInv', RealAddresses,
           DeliveryHeld, DeliveryContent, KernelInv, [Next]_vars
    PROVE  [Tunnels!TunnelNext]_(Tunnels!tunnels)
<1>1. CASE (ClientNext \/ OperatorNext) /\ UNCHANGED deliveryVars
  BY <1>1, TunnelByStore
<1>2. CASE WriterNext
  BY <1>2, TunnelByWriters
<1>3. ASSUME NEW g \in Gateways, OwnStep(g) PROVE [Tunnels!TunnelNext]_(Tunnels!tunnels)
  <2>1. CASE ApplyOperation(g)
    BY <2>1, TunnelByOperation
  <2>2. CASE AckSnapshot(g)
    BY <2>2, TunnelByAck
  <2>3. CASE ~ApplyOperation(g) /\ ~AckSnapshot(g)
    BY <1>3, <2>3, TunnelByOthers
  <2> QED
    BY <2>1, <2>2, <2>3
<1>4. ASSUME NEW g \in Gateways, AgentNext(g) PROVE [Tunnels!TunnelNext]_(Tunnels!tunnels)
  BY <1>3, <1>4, TunnelByOthers DEF AgentNext, OwnStep
<1>5. ASSUME NEW g \in Gateways, NEW n \in Generations,
             HandlerNext(g, n) \/ RowBecomesDue(g, n) \/ SnapshotExpires(g, n)
      PROVE  [Tunnels!TunnelNext]_(Tunnels!tunnels)
  BY <1>3, <1>5, TunnelByOthers DEF OwnStep
<1>6. CASE UNCHANGED vars
  BY <1>6, RemovingStays DEF vars, deliveryVars, Acknowledged, AckedRows, Tunnels!tunnels
<1> QED
  BY <1>1, <1>2, <1>4, <1>5, <1>6 DEF Next

\* The system begins with no answer, no removal, no peer and no acknowledgement.
LEMMA InitialTunnels == Init => Tunnels!TunnelInit
<1> SUFFICES ASSUME Init PROVE Tunnels!TunnelInit
  OBVIOUS
<1>1. idem = [e \in {} |-> e] /\ kernel = [g \in Gateways |-> [d \in {} |-> d]]
  BY DEF Init, StoreInit, NoPeers
<1>2. Removing = {}
  BY DEF Init, StoreInit, Removing, NoRemovals
<1>3. Acknowledged = [g \in Gateways |-> {}]
  <2>1. \A g \in Gateways : AckedRows(g) = {}
    BY DEF Init, AckedRows
  <2> QED
    BY <2>1 DEF Acknowledged
<1> QED
  BY <1>1, <1>2, <1>3 DEF Tunnels!TunnelInit

\* The invariants of the composition, together.
SystemInv ==
    /\ StoreInv /\ AnswersInv /\ RealAddresses
    /\ DeliveryHeld /\ DeliveryContent /\ KernelInv

\* They are theorems of this module and of those it extends.
LEMMA SystemInvariant == Spec => []SystemInv
<1>1. StoreInv /\ AnswersInv /\ RealAddresses /\ DeliveryHeld /\ DeliveryContent /\ KernelInv
      => SystemInv
  BY DEF SystemInv
<1> QED
  BY <1>1, DeliveryAnswers, DeliveryRealAddresses, DeliveryInvariant, KernelAlwaysFollows, PTL

\* The way of a configuration from the answer of the API to the interface of
\* the gateway, through outbox, deliveries, handlers and agents that fail,
\* implements TunnelService.
THEOREM DeliveryImplementsTunnels == Spec => DeliveryKeepsTunnelPromise
<1>1. SystemInv /\ SystemInv' /\ [Next]_vars => [Tunnels!TunnelNext]_(Tunnels!tunnels)
  BY StepKeepsTunnels DEF SystemInv
<1> QED
  BY <1>1, InitialTunnels, SystemInvariant, PTL
  DEF Spec, DeliveryKeepsTunnelPromise, Tunnels!TunnelPromise

-----------------------------------------------------------------------------
\* Peers, and acknowledged peers, are devices.
TunnelTypes ==
    \A g \in Gateways : /\ DOMAIN kernel[g] \subseteq Devices
                        /\ Acknowledged[g] \subseteq Devices

\* Because a delivery's peers are those of a row, and a row's are devices.
LEMMA TunnelsTyped == DeliveryHeld => TunnelTypes
<1> SUFFICES ASSUME DeliveryHeld, NEW g \in Gateways
             PROVE  DOMAIN kernel[g] \subseteq Devices /\ Acknowledged[g] \subseteq Devices
  BY DEF TunnelTypes
<1>1. DOMAIN kernel[g] \subseteq Devices
  BY DEF DeliveryHeld, DeliveryState, PeerTables
<1>2. \A n \in AckedRows(g) : DOMAIN outbox[g][n].peers \subseteq Devices
  BY RowTables DEF AckedRows
<1> QED
  BY <1>1, <1>2 DEF Acknowledged

\* The promise alone, without the implementation, gives the first consequence:
LEMMA PromiseRoutesAsTold ==
    ASSUME TunnelTypes', Tunnels!RoutesAsTold, [Tunnels!TunnelNext]_(Tunnels!tunnels)
    PROVE  Tunnels!RoutesAsTold'
<1>1. ASSUME UNCHANGED kernel, DOMAIN idem \subseteq DOMAIN idem',
             \A e \in DOMAIN idem : idem'[e] = idem[e]
      PROVE  Tunnels!RoutesAsTold'
  BY <1>1 DEF Tunnels!RoutesAsTold, Tunnels!NoAddress
<1>2. ASSUME NEW g \in Gateways, NEW d \in Devices, Tunnels!Configure(g, d)
      PROVE  Tunnels!RoutesAsTold'
  <2> SUFFICES ASSUME NEW h \in Gateways, NEW e \in DOMAIN kernel'[h]
               PROVE  \E f \in DOMAIN idem :
                         /\ f[1] = e
                         /\ idem[f].response.gateway = h
                         /\ kernel'[h][e].v4 \in {idem[f].response.v4, NoAddress}
                         /\ kernel'[h][e].v6 \in {idem[f].response.v6, NoAddress}
    BY <1>2 DEF Tunnels!Configure, Tunnels!RoutesAsTold, Tunnels!NoAddress, NoAddress
  <2>1. CASE h # g
    <3>1. kernel'[h] = kernel[h]
      BY <1>2, <2>1 DEF Tunnels!Configure
    <3> QED
      BY <3>1 DEF Tunnels!RoutesAsTold, Tunnels!NoAddress, NoAddress
  <2>2. CASE h = g /\ e = d
    <3>1. Tunnels!Served(g, d)' /\ idem' = idem
      BY <1>2, <2>2 DEF Tunnels!Configure
    <3> QED
      BY <2>2, <3>1 DEF Tunnels!Served, Tunnels!Told
  <2>3. CASE h = g /\ e # d
    <3>1. e \in Devices
      BY DEF TunnelTypes
    <3>2. Tunnels!LosesOnlyTo(g, e, d)
      BY <1>2, <2>3, <3>1 DEF Tunnels!Configure
    <3>3. /\ e \in DOMAIN kernel[g]
          /\ kernel'[g][e].v4 \in {kernel[g][e].v4, NoAddress}
          /\ kernel'[g][e].v6 \in {kernel[g][e].v6, NoAddress}
      BY <2>3, <3>2 DEF Tunnels!LosesOnlyTo, Tunnels!NoAddress, NoAddress
    <3>4. PICK f \in DOMAIN idem :
             /\ f[1] = e
             /\ idem[f].response.gateway = g
             /\ kernel[g][e].v4 \in {idem[f].response.v4, NoAddress}
             /\ kernel[g][e].v6 \in {idem[f].response.v6, NoAddress}
      BY <3>3 DEF Tunnels!RoutesAsTold, Tunnels!NoAddress, NoAddress
    <3> QED
      BY <2>3, <3>3, <3>4
  <2> QED
    BY <2>1, <2>2, <2>3
<1> QED
  BY <1>1, <1>2
  DEF Tunnels!TunnelNext, Tunnels!Answer, Tunnels!Remove, Tunnels!Acknowledge, Tunnels!tunnels

\* and the second:
LEMMA PromiseServes ==
    ASSUME TunnelTypes, Tunnels!AcknowledgedServed, [Tunnels!TunnelNext]_(Tunnels!tunnels)
    PROVE  Tunnels!AcknowledgedServed'
<1>1. ASSUME UNCHANGED <<kernel, Acknowledged>>, Removing \subseteq Removing',
             DOMAIN idem \subseteq DOMAIN idem', \A e \in DOMAIN idem : idem'[e] = idem[e]
      PROVE  Tunnels!AcknowledgedServed'
  BY <1>1 DEF Tunnels!AcknowledgedServed, Tunnels!Served, Tunnels!Told
<1>2. ASSUME NEW g \in Gateways, NEW d \in Devices, Tunnels!Configure(g, d)
      PROVE  Tunnels!AcknowledgedServed'
  <2> SUFFICES ASSUME NEW h \in Gateways \ Removing, NEW e \in Acknowledged[h]
               PROVE  Tunnels!Served(h, e)'
    BY <1>2 DEF Tunnels!Configure, Tunnels!AcknowledgedServed
  <2>1. Tunnels!Served(h, e) /\ e \in Devices
    BY DEF Tunnels!AcknowledgedServed, TunnelTypes
  <2>2. CASE h # g
    <3>1. kernel'[h] = kernel[h] /\ idem' = idem
      BY <1>2, <2>2 DEF Tunnels!Configure
    <3> QED
      BY <2>1, <3>1 DEF Tunnels!Served, Tunnels!Told
  <2>3. CASE h = g
    BY <1>2, <2>1, <2>3 DEF Tunnels!Configure
  <2> QED
    BY <2>2, <2>3
<1>3. ASSUME NEW g \in Gateways, NEW D \in SUBSET Devices, Tunnels!Acknowledge(g, D)
      PROVE  Tunnels!AcknowledgedServed'
  <2>1. /\ UNCHANGED <<idem, Removing, kernel>>
        /\ g \notin Removing => \A d \in D : Tunnels!Served(g, d)
        /\ \A h \in Gateways : Acknowledged'[h] \subseteq Acknowledged[h]
                                  \cup (IF h = g THEN D ELSE {})
    BY <1>3 DEF Tunnels!Acknowledge, Acknowledged
  <2> SUFFICES ASSUME NEW h \in Gateways \ Removing, NEW e \in Acknowledged'[h]
               PROVE  Tunnels!Served(h, e)
    BY <2>1 DEF Tunnels!AcknowledgedServed, Tunnels!Served, Tunnels!Told
  <2> QED
    BY <2>1 DEF Tunnels!AcknowledgedServed
<1> QED
  BY <1>1, <1>2, <1>3
  DEF Tunnels!TunnelNext, Tunnels!Answer, Tunnels!Remove, Tunnels!tunnels

\* So no gateway ever routes to a peer an address its device was not told, ...
THEOREM GatewaysRouteAsTold == Spec => []Tunnels!RoutesAsTold
<1>1. Tunnels!TunnelInit => Tunnels!RoutesAsTold
  BY DEF Tunnels!TunnelInit, Tunnels!RoutesAsTold
<1>2. TunnelTypes' /\ Tunnels!RoutesAsTold /\ [Tunnels!TunnelNext]_(Tunnels!tunnels)
      => Tunnels!RoutesAsTold'
  BY PromiseRoutesAsTold
<1>3. SystemInv => TunnelTypes
  BY TunnelsTyped DEF SystemInv
<1> QED
  BY <1>1, <1>2, <1>3, SystemInvariant, DeliveryImplementsTunnels, PTL
  DEF DeliveryKeepsTunnelPromise, Tunnels!TunnelPromise

\* ... and a tunnel that its gateway has acknowledged works, with both
\* addresses the client was told, until a removal begins there.
THEOREM AcknowledgedTunnelsWork == Spec => []Tunnels!AcknowledgedServed
<1>1. Tunnels!TunnelInit => Tunnels!AcknowledgedServed
  BY DEF Tunnels!TunnelInit, Tunnels!AcknowledgedServed
<1>2. TunnelTypes /\ Tunnels!AcknowledgedServed /\ [Tunnels!TunnelNext]_(Tunnels!tunnels)
      => Tunnels!AcknowledgedServed'
  BY PromiseServes
<1>3. SystemInv => TunnelTypes
  BY TunnelsTyped DEF SystemInv
<1> QED
  BY <1>1, <1>2, <1>3, SystemInvariant, DeliveryImplementsTunnels, PTL
  DEF DeliveryKeepsTunnelPromise, Tunnels!TunnelPromise

-----------------------------------------------------------------------------
(***************************************************************************)
(* Nothing is forgotten.                                                   *)
(***************************************************************************)
\* What the reconciler's query compares: an assignment that has something to
\* confirm is ahead of what was observed, and no assignment is behind it.
OwedAt(a) ==
    /\ a.desired >= a.observed
    /\ a.state \in {"pending", "removal_pending"} => a.desired > a.observed

Owed == \A s \in DOMAIN assignments : OwedAt(assignments[s])

\* Every transaction of the store keeps it: an insertion begins ahead, marking
\* for removal goes ahead, a confirmation catches up and changes the state.
LEMMA LedgerOwes ==
    ASSUME StoreInv, Owed, [LedgerNext]_storeVars
    PROVE  Owed'
<1>0. \A s \in DOMAIN assignments :
         assignments[s] \in Assignment /\ assignments[s].desired \in Nat
         /\ assignments[s].observed \in Nat
  BY DEF StoreInv, StoreTypeOK, IsTable, Assignment
<1>1. ASSUME assignments' = assignments PROVE Owed'
  BY <1>1 DEF Owed
<1>2. ASSUME NEW u \in Users, NEW d \in Devices, NEW r \in Regions,
             NEW k \in IdemKeys, AllocateFree(u, d, r, k)
      PROVE  Owed'
  <2>1. PICK g \in ready, s \in Slots \ DOMAIN leases,
             v4 \in HostCandidates(Pool4[r]), v6 \in HostCandidates(Pool6[r]) :
                InsertAllocation(d, r, k, s, g, v4, v6)
    BY <1>2 DEF AllocateFree
  <2>2. s \notin DOMAIN assignments
    BY DEF StoreInv, LeaseFollowsAssignment
  <2>3. /\ DOMAIN assignments' = DOMAIN assignments \cup {s}
        /\ assignments'[s].desired = 1 /\ assignments'[s].observed = 0
        /\ \A x \in DOMAIN assignments : assignments'[x] = assignments[x]
    BY <2>1, <2>2 DEF InsertAllocation, Insert
  <2> QED
    BY <2>3 DEF Owed, OwedAt
<1>3. ASSUME NEW s \in Slots, OperatorMarksRemoval(s) PROVE Owed'
  <2>1. /\ s \in DOMAIN assignments
        /\ DOMAIN assignments' = DOMAIN assignments
        /\ assignments'[s].desired = assignments[s].desired + 1
        /\ assignments'[s].observed = assignments[s].observed
        /\ \A x \in DOMAIN assignments : x # s => assignments'[x] = assignments[x]
    BY <1>0, <1>3 DEF OperatorMarksRemoval, Assignment
  <2>2. OwedAt(assignments'[s])
    BY <1>0, <2>1 DEF Owed, OwedAt
  <2> QED
    BY <2>1, <2>2 DEF Owed
<1>4. ASSUME NEW g \in Gateways, NEW gen \in 1..MaxGeneration,
             NEW seen \in SUBSET Slots, ConfirmAmong(g, gen, seen)
      PROVE  Owed'
  <2>1. ASSUME NEW s \in DOMAIN assignments
        PROVE  OwedAt(ConfirmedAssignments(g, gen)[s])
    BY <1>0, <2>1 DEF ConfirmedAssignments, Owed, OwedAt, Assignment, LiveStates
  <2>2. /\ DOMAIN assignments' = DOMAIN assignments
        /\ \A s \in DOMAIN assignments :
              assignments'[s] \in {ConfirmedAssignments(g, gen)[s], assignments[s]}
    BY <1>4 DEF ConfirmAmong
  <2> QED
    BY <2>1, <2>2 DEF Owed
<1> QED
  BY <1>1, <1>2, <1>3, <1>4
  DEF LedgerNext, OperatorNext, RegisterDevice, RequestRevocation, ReuseConfiguration,
      OperatorSetsGateway, OperatorSetsRegion, storeVars

\* So it holds in the composition.
LEMMA AlwaysOwed == Spec => []Owed
<1>1. StoreInit => Owed
  BY DEF StoreInit, Owed
<1>2. StoreInv /\ Owed /\ [LedgerNext]_storeVars => Owed'
  BY LedgerOwes
<1>3. LedgerSpec => []Owed
  BY <1>1, <1>2, LedgerInvariant, PTL DEF LedgerSpec
<1> QED
  BY <1>3, DeliveryImplementsStore, StoreImplementsLedger, PTL

\* What the claim's query compares: a row that is queued was never claimed.
QueuedAfresh ==
    \A g \in Gateways : \A n \in DOMAIN outbox[g] :
        outbox[g][n].state = "queued" => outbox[g][n].due /\ outbox[g][n].attempts = 0

\* Only an insertion queues a row, and nothing changes it before its claim.
LEMMA NextQueuesAfresh ==
    ASSUME DeliveryHeld, QueuedAfresh, [Next]_vars
    PROVE  QueuedAfresh'
<1>0. /\ outbox \in [Gateways -> Outboxes]
      /\ \A g \in Gateways : \A n \in DOMAIN outbox[g] : outbox[g][n] \in Row
  BY RowsOf DEF DeliveryHeld, DeliveryState
<1>1. ASSUME outbox' = outbox PROVE QueuedAfresh'
  BY <1>1 DEF QueuedAfresh
\* One row of one gateway changes.
<1>2. ASSUME NEW g \in Gateways, NEW n \in DOMAIN outbox[g], NEW row,
             outbox' = [outbox EXCEPT ![g][n] = row],
             row.state = "queued" => row.due /\ row.attempts = 0
      PROVE  QueuedAfresh'
  <2>1. /\ \A h \in Gateways : h # g => outbox'[h] = outbox[h]
        /\ DOMAIN outbox'[g] = DOMAIN outbox[g] /\ outbox'[g][n] = row
        /\ \A m \in DOMAIN outbox[g] : m # n => outbox'[g][m] = outbox[g][m]
    BY <1>0, <1>2
  <2>2. ASSUME NEW h \in Gateways, NEW m \in DOMAIN outbox'[h], outbox'[h][m].state = "queued"
        PROVE  outbox'[h][m].due /\ outbox'[h][m].attempts = 0
    BY <1>2, <2>1, <2>2 DEF QueuedAfresh
  <2> QED
    BY <2>2 DEF QueuedAfresh
<1>3. ASSUME NEW w \in Writers, InsertSnapshot(w) PROVE QueuedAfresh'
  <2> DEFINE g == writer[w].gateway
             x == writer[w].gen
  <2>1. /\ g \in Gateways
        /\ x \in DOMAIN outbox[g] => outbox' = outbox
        /\ x \notin DOMAIN outbox[g] =>
              outbox' = [outbox EXCEPT ![g] = Insert(outbox[g], x, NewRow(w))]
    BY <1>3, InsertEffect
  <2> HIDE DEF g, x
  <2>2. CASE x \notin DOMAIN outbox[g]
    <3>1. /\ \A h \in Gateways : h # g => outbox'[h] = outbox[h]
          /\ outbox'[g] = Insert(outbox[g], x, NewRow(w))
      BY <1>0, <2>1, <2>2
    <3>2. /\ DOMAIN outbox'[g] = DOMAIN outbox[g] \cup {x}
          /\ \A m \in DOMAIN outbox[g] : outbox'[g][m] = outbox[g][m]
          /\ outbox'[g][x].due /\ outbox'[g][x].attempts = 0
      BY <2>2, <3>1 DEF Insert, NewRow
    <3>3. ASSUME NEW h \in Gateways, NEW m \in DOMAIN outbox'[h], outbox'[h][m].state = "queued"
          PROVE  outbox'[h][m].due /\ outbox'[h][m].attempts = 0
      BY <3>1, <3>2, <3>3 DEF QueuedAfresh
    <3> QED
      BY <3>3 DEF QueuedAfresh
  <2> QED
    BY <1>1, <2>1, <2>2
<1>4. ASSUME NEW g \in Gateways, ClaimNextSnapshot(g) PROVE QueuedAfresh'
  <2> DEFINE n == Min(Claimable(g))
             row == [outbox[g][n] EXCEPT !.state = "in_flight",
                                         !.attempts = outbox[g][n].attempts + 1]
  <2>1. n \in DOMAIN outbox[g]
    BY <1>0, <1>4, ClaimChangesRow
  <2>2. outbox' = [outbox EXCEPT ![g][n] = row]
    BY <1>0, <1>4, <2>1 DEF ClaimNextSnapshot
  <2>3. row.state = "in_flight"
    BY <1>0, <2>1 DEF Row
  <2> HIDE DEF n, row
  <2> QED
    BY <1>2, <2>1, <2>2, <2>3
<1>5. ASSUME NEW g \in Gateways, NEW n \in DOMAIN outbox[g], NEW state, NEW due,
             state # "queued",
             outbox' = [outbox EXCEPT ![g][n].state = state, ![g][n].due = due]
      PROVE  QueuedAfresh'
  <2>1. outbox' = [outbox EXCEPT ![g][n] = [outbox[g][n] EXCEPT !.state = state, !.due = due]]
    BY <1>0, <1>5
  <2>2. [outbox[g][n] EXCEPT !.state = state, !.due = due].state # "queued"
    BY <1>0, <1>5 DEF Row
  <2> QED
    BY <1>2, <2>1, <2>2
<1>6. ASSUME NEW g \in Gateways, RetryDelivery(g) PROVE QueuedAfresh'
  <2>1. agent[g].gen \in DOMAIN outbox[g]
    BY <1>6 DEF RetryDelivery, DeliveryHeld, HeldInv
  <2> QED
    BY <1>5, <1>6, <2>1 DEF RetryDelivery
<1>7. ASSUME NEW g \in Gateways, AckSnapshot(g) PROVE QueuedAfresh'
  <2>1. agent[g].gen \in DOMAIN outbox[g]
    BY <1>7 DEF AckSnapshot, DeliveryHeld, HeldInv
  <2>2. outbox' = [outbox EXCEPT ![g][agent[g].gen] =
                      [outbox[g][agent[g].gen] EXCEPT !.state = "acked"]]
    BY <1>0, <1>7 DEF AckSnapshot
  <2>3. [outbox[g][agent[g].gen] EXCEPT !.state = "acked"].state # "queued"
    BY <1>0, <2>1 DEF Row
  <2> QED
    BY <1>2, <2>1, <2>2, <2>3
<1>8. ASSUME NEW g \in Gateways, NEW n \in Generations,
             RowBecomesDue(g, n) \/ SnapshotExpires(g, n)
      PROVE  QueuedAfresh'
  <2>1. n \in DOMAIN outbox[g]
    BY <1>8 DEF RowBecomesDue, SnapshotExpires
  <2>2. CASE RowBecomesDue(g, n)
    <3>1. outbox' = [outbox EXCEPT ![g][n] = [outbox[g][n] EXCEPT !.due = TRUE]]
      BY <1>0, <2>2 DEF RowBecomesDue
    <3>2. LET row == [outbox[g][n] EXCEPT !.due = TRUE]
          IN  row.state = "queued" => row.due /\ row.attempts = 0
      BY <1>0, <2>1 DEF QueuedAfresh, Row
    <3> QED
      BY <1>2, <2>1, <3>1, <3>2
  <2>3. CASE SnapshotExpires(g, n)
    <3>1. outbox' = [outbox EXCEPT ![g][n] = [outbox[g][n] EXCEPT !.expired = TRUE]]
      BY <1>0, <2>3 DEF SnapshotExpires
    <3>2. LET row == [outbox[g][n] EXCEPT !.expired = TRUE]
          IN  row.state = "queued" => row.due /\ row.attempts = 0
      BY <1>0, <2>1 DEF QueuedAfresh, Row
    <3> QED
      BY <1>2, <2>1, <3>1, <3>2
  <2> QED
    BY <1>8, <2>2, <2>3
<1>9. CASE UNCHANGED deliveryVars
  BY <1>1, <1>9 DEF deliveryVars
<1>10. CASE WriterNext
  BY <1>1, <1>3, <1>10
  DEF WriterNext, ListGateways, ReadGeneration, ReadPeers, WriterFails
<1>11. ASSUME NEW g \in Gateways, AgentNext(g) PROVE QueuedAfresh'
  BY <1>1, <1>4, <1>6, <1>7, <1>11
  DEF AgentNext, ClaimDelivery, ClaimLost, VerifyDelivery, ApplyOperation, AppliedAll,
      ApplyFails, RetryLost, AckLost, AgentRestarts
<1>12. ASSUME NEW g \in Gateways, NEW n \in Generations, HandlerNext(g, n) PROVE QueuedAfresh'
  BY <1>1, <1>12 DEF HandlerNext, ConfirmDelivery, ConfirmUnanswered, ConfirmFails
<1> QED
  BY <1>8, <1>9, <1>10, <1>11, <1>12 DEF Next, vars

\* So it holds in every reachable state.
LEMMA AlwaysQueuedAfresh == Spec => []QueuedAfresh
<1>1. Init => QueuedAfresh
  BY DEF Init, QueuedAfresh
<1>2. DeliveryHeld /\ QueuedAfresh /\ [Next]_vars => QueuedAfresh'
  BY NextQueuesAfresh
<1> QED
  BY <1>1, <1>2, DeliveriesAlwaysHeld, PTL DEF Spec

\* A row that keeps the reconciler from its gateway can be claimed now, is in
\* the hands of the agent, or was stranded by a fault.
LEMMA QueueNeverBlocks ==
    ASSUME DeliveryHeld, QueuedAfresh, NEW g \in Gateways, NEW n \in DOMAIN outbox[g],
           outbox[g][n].state \in {"queued", "in_flight"}
    PROVE  n \in Claimable(g) \/ Holds(g, n) \/ <<g, n>> \in Stranded
<1>1. outbox[g][n] \in Row /\ n \in Generations
  BY RowHeldTyped DEF DeliveryHeld
<1>2. CASE outbox[g][n].state = "queued"
  BY <1>1, <1>2, DeliveryAssumptions DEF Claimable, QueuedAfresh
<1>3. CASE outbox[g][n].state = "in_flight"
  BY <1>1, <1>3 DEF Stranded, InFlight
<1> QED
  BY <1>2, <1>3

\* The safety half of PendingEventuallyConfirmed, for removals as well: while
\* something is unconfirmed on a ready gateway a step of somebody is to come,
\* unless a delivery is stranded, which takes a fault (StrandedByFaults).
THEOREM WorkIsNeverForgotten == Spec => []NothingForgotten
<1>1. ASSUME StoreInv, DeliveryHeld, Owed, QueuedAfresh, NEW g \in ready, Unconfirmed(g) # {}
      PROVE  \/ g \in GatewaysNeedingSnapshot
             \/ \E n \in DOMAIN outbox[g] :
                   n \in Claimable(g) \/ Holds(g, n) \/ <<g, n>> \in Stranded
  <2>1. g \in Gateways
    BY <1>1 DEF StoreInv, StoreTypeOK
  <2>2. PICK s \in Unconfirmed(g) : TRUE
    BY <1>1
  <2>3. /\ s \in DOMAIN assignments /\ assignments[s].gateway = g /\ LiveAssignment(s)
        /\ assignments[s].desired > assignments[s].observed
    BY <1>1 DEF Unconfirmed, Owed, OwedAt, LiveAssignment, LiveStates
  <2>4. CASE \A n \in DOMAIN outbox[g] : outbox[g][n].state \notin {"queued", "in_flight"}
    BY <2>3, <2>4 DEF GatewaysNeedingSnapshot
  <2>5. CASE \E n \in DOMAIN outbox[g] : outbox[g][n].state \in {"queued", "in_flight"}
    BY <1>1, <2>1, <2>5, QueueNeverBlocks
  <2> QED
    BY <2>4, <2>5
<1>2. StoreInv /\ DeliveryHeld /\ Owed /\ QueuedAfresh => NothingForgotten
  BY <1>1 DEF NothingForgotten
<1> QED
  BY <1>2, SystemInvariant, AlwaysOwed, AlwaysQueuedAfresh, PTL DEF SystemInv
=============================================================================
