------------------------- MODULE SnapshotDelivery -------------------------
(***************************************************************************)
(* How desired peers reach a gateway's kernel.  Composes ControlStore with *)
(*   - the outbox table gateway_snapshots and its operations               *)
(*     (postgres/store.go, httpapi/gateway.go),                            *)
(*   - the writers that fill it: cmd/reconciler, cmd/snapshot-publisher,   *)
(*   - the gateway agent: agent/worker.go, snapshot.go, wireguard.go, one  *)
(*     process per gateway, and the WireGuard interface it drives.         *)
(*                                                                         *)
(* Each HTTP call is split where it can break: the request may be lost,    *)
(* the handler may stop between its two transactions, the response may be  *)
(* lost (faults, at most MaxFaults of them).  Clocks are reduced to what   *)
(* the code compares: a failed row is due or not yet (available_at), a     *)
(* snapshot has expired or not (ExpiresAt).  Signatures, identities and    *)
(* encodings are right by construction here: a row is only ever written by *)
(* EnqueueCurrentGatewaySnapshot and read back for its own gateway.        *)
(***************************************************************************)
EXTENDS ControlStore, FiniteSetsExt

CONSTANTS
    Reconciler, Publisher,  \* the two programs that write snapshots
    Writers,                \* those of them that run
    NoGateway,              \* a writer between two gateways
    MaxDeliveries,          \* 100 in the code: claims per row
    MaxPeers,               \* maxPeersPerSnapshot, 100000 in the code
    Faults,                 \* the kinds of fault that happen in a model
    MaxFaults               \* bound on their number

FaultKinds == {"writer_fails", "claim_lost", "apply_fails", "retry_lost",
               "ack_lost", "confirm_fails", "confirm_lost", "agent_restarts",
               "expires"}

\* Public keys are ordered: Diff sorts its operations by them.
ASSUME DeliveryAssumptions ==
    /\ Devices \subseteq Nat
    /\ Writers \subseteq {Reconciler, Publisher}
    /\ Reconciler # Publisher
    /\ NoGateway \notin Gateways
    /\ MaxDeliveries \in Nat \ {0}
    /\ MaxPeers \in Nat
    /\ Faults \subseteq FaultKinds
    /\ MaxFaults \in Nat

VARIABLES
    outbox,         \* gateway_snapshots: per gateway, rows by generation
    writer,         \* what each writer has read so far
    confirming,     \* per gateway, acknowledgements between the two transactions
    agent,          \* Worker: the delivery in hand, Current and CurrentPeers
    kernel,         \* the WireGuard interface: allowed IPs by public key
    faults          \* faults so far

deliveryVars == <<outbox, writer, confirming, agent, kernel, faults>>
vars == <<storeVars, deliveryVars>>

Generations == 1..MaxGeneration

\* The two allowed IPs of a peer; 0 when another peer took one over.
NoAddress == 0
Peer == [v4 : Nat, v6 : Nat]
IsPeers(peers) == IsTable(peers, Devices, Peer)
NoPeers == [d \in {} |-> d]

RowStates == {"queued", "in_flight", "acked", "failed"}

IsRow(row) ==
    /\ DOMAIN row = {"state", "attempts", "due", "expired", "peers"}
    /\ row.state \in RowStates
    /\ row.attempts \in 0..MaxDeliveries
    /\ row.due \in BOOLEAN /\ row.expired \in BOOLEAN
    /\ IsPeers(row.peers)

Fault(kind) ==
    /\ kind \in Faults
    /\ faults < MaxFaults
    /\ faults' = faults + 1

-----------------------------------------------------------------------------
(***************************************************************************)
(* Writers: list, read the generation, read the peers, insert, each in a   *)
(* statement of its own.                                                   *)
(***************************************************************************)
\* Mutant: a snapshot that failed is waited for like one that is queued.
GatewaysWithNothingPending ==
    {g \in ready :
        /\ \E s \in DOMAIN assignments :
              /\ assignments[s].gateway = g
              /\ LiveAssignment(s)
              /\ assignments[s].desired > assignments[s].observed
        /\ \A n \in DOMAIN outbox[g] : outbox[g][n].state = "acked"}

\* Ready gateways with an unconfirmed assignment and no snapshot on its way.
GatewaysNeedingSnapshot ==
    {g \in ready :
        /\ \E s \in DOMAIN assignments :
              /\ assignments[s].gateway = g
              /\ LiveAssignment(s)
              /\ assignments[s].desired > assignments[s].observed
        /\ \A n \in DOMAIN outbox[g] :
              outbox[g][n].state \notin {"queued", "in_flight"}}

NextGeneration(g) == 1 + Max({0} \cup DOMAIN outbox[g])

\* Mutant: the state of the assignment is not filtered.
MaterializedPeersAll(g) ==
    LET slots == {s \in DOMAIN assignments : assignments[s].gateway = g}
    IN  [d \in {assignments[s].device : s \in slots} |->
            LET s == CHOOSE t \in slots : assignments[t].device = d
            IN  [v4 |-> leases[s].v4, v6 |-> leases[s].v6]]

\* The peers a snapshot of g materialises now, removal_pending ones included.
MaterializedPeers(g) ==
    LET slots == {s \in DOMAIN assignments :
                     LiveAssignment(s) /\ assignments[s].gateway = g}
    IN  [d \in {assignments[s].device : s \in slots} |->
            LET s == CHOOSE t \in slots : assignments[t].device = d
            IN  [v4 |-> leases[s].v4, v6 |-> leases[s].v6]]

IdleWriter == [step |-> "loop", todo |-> {}, gateway |-> NoGateway, gen |-> 0,
               peers |-> NoPeers]

\* reconcile(): one pass starts with the list of gateways.
ListGateways ==
    /\ Reconciler \in Writers
    /\ writer[Reconciler] = IdleWriter
    /\ GatewaysNeedingSnapshot # {}
    /\ writer' = [writer EXCEPT ![Reconciler].todo = GatewaysNeedingSnapshot]
    /\ UNCHANGED <<storeVars, outbox, confirming, agent, kernel, faults>>

\* NextGatewaySnapshotGeneration for the gateway the writer turns to: the
\* reconciler takes the ones it listed, the publisher the one it is told.
ReadGeneration(w, g) ==
    /\ writer[w].step = "loop"
    /\ w = Reconciler => g \in writer[w].todo
    /\ NextGeneration(g) <= MaxGeneration
    /\ writer' = [writer EXCEPT
                     ![w] = [step |-> "peers", todo |-> writer[w].todo \ {g},
                             gateway |-> g, gen |-> NextGeneration(g),
                             peers |-> NoPeers]]
    /\ UNCHANGED <<storeVars, outbox, confirming, agent, kernel, faults>>

\* EnqueueCurrentGatewaySnapshot, its SELECT.
ReadPeers(w) ==
    /\ writer[w].step = "peers"
    /\ writer' = [writer EXCEPT
                     ![w].step = "insert",
                     ![w].peers = MaterializedPeers(writer[w].gateway)]
    /\ UNCHANGED <<storeVars, outbox, confirming, agent, kernel, faults>>

NextGateway(w) == [IdleWriter EXCEPT !.todo = writer[w].todo]

\* Mutant: the generation is renewed on insertion instead of turned away.
InsertSnapshotRenumbered(w) ==
    LET g == writer[w].gateway
        n == NextGeneration(g)
    IN  /\ writer[w].step = "insert"
        /\ n <= MaxGeneration
        /\ outbox' = [outbox EXCEPT ![g] = Insert(outbox[g], n,
                [state |-> "queued", attempts |-> 0, due |-> TRUE,
                 expired |-> FALSE, peers |-> writer[w].peers])]
        /\ writer' = [writer EXCEPT ![w] = NextGateway(w)]
        /\ UNCHANGED <<storeVars, confirming, agent, kernel, faults>>

\* EnqueueSnapshot.  A generation that exists by now is a unique violation;
\* the writer logs it and goes on to the next gateway.
InsertSnapshot(w) ==
    LET g == writer[w].gateway
        n == writer[w].gen
    IN  /\ writer[w].step = "insert"
        /\ IF n \in DOMAIN outbox[g]
           THEN UNCHANGED outbox
           ELSE outbox' = [outbox EXCEPT ![g] = Insert(outbox[g], n,
                    [state |-> "queued", attempts |-> 0, due |-> TRUE,
                     expired |-> FALSE, peers |-> writer[w].peers])]
        /\ writer' = [writer EXCEPT ![w] = NextGateway(w)]
        /\ UNCHANGED <<storeVars, confirming, agent, kernel, faults>>

\* A query fails or times out, or the program is restarted.
WriterFails(w) ==
    /\ writer[w] # IdleWriter
    /\ Fault("writer_fails")
    /\ \E todo \in {{}, writer[w].todo} :
          writer' = [writer EXCEPT ![w] = [IdleWriter EXCEPT !.todo = todo]]
    /\ UNCHANGED <<storeVars, outbox, confirming, agent, kernel>>

-----------------------------------------------------------------------------
(***************************************************************************)
(* Delivery.  The agent of g runs ApplyOnce in a loop: claim, verify,      *)
(* apply operation by operation, then acknowledge or hand back.            *)
(***************************************************************************)
\* Mutant: attempts are counted and never looked at.
ClaimableForever(g) ==
    {n \in DOMAIN outbox[g] :
        outbox[g][n].state \in {"queued", "failed"} /\ outbox[g][n].due}

\* ClaimNextSnapshot: the lowest generation that is queued or failed, due
\* and not out of attempts.
Claimable(g) ==
    {n \in DOMAIN outbox[g] :
        /\ outbox[g][n].state \in {"queued", "failed"}
        /\ outbox[g][n].due
        /\ outbox[g][n].attempts < MaxDeliveries}

\* Mutant: the claim is counted and the row stays claimable.
ClaimNextSnapshotUnmarked(g) ==
    /\ Claimable(g) # {}
    /\ outbox' = [outbox EXCEPT ![g][Min(Claimable(g))].attempts = @ + 1]

\* Mutant: every row that can be claimed is marked.
ClaimNextSnapshotAll(g) ==
    /\ Claimable(g) # {}
    /\ outbox' = [outbox EXCEPT ![g] = [n \in DOMAIN outbox[g] |->
           IF n \in Claimable(g)
           THEN [outbox[g][n] EXCEPT !.state = "in_flight", !.attempts = @ + 1]
           ELSE outbox[g][n]]]

\* UPDATE ... SET state = 'in_flight', attempts = attempts + 1
ClaimNextSnapshot(g) ==
    /\ Claimable(g) # {}
    /\ LET n == Min(Claimable(g))
       IN  outbox' = [outbox EXCEPT
                         ![g][n].state = "in_flight",
                         ![g][n].attempts = outbox[g][n].attempts + 1]

\* GET /snapshots/next answered.  An empty outbox is a stuttering step.
ClaimDelivery(g) ==
    /\ agent[g].step = "idle"
    /\ ClaimNextSnapshot(g)
    /\ agent' = [agent EXCEPT ![g].step = "verify", ![g].gen = Min(Claimable(g))]
    /\ UNCHANGED <<storeVars, writer, confirming, kernel, faults>>

\* The claim commits but the agent never sees the response.
ClaimLost(g) ==
    /\ agent[g].step = "idle"
    /\ ClaimNextSnapshot(g)
    /\ Fault("claim_lost")
    /\ UNCHANGED <<storeVars, writer, confirming, agent, kernel>>

\* Snapshot.Validate on the delivered peers: expiry, size, unique addresses.
ValidPeers(peers) ==
    /\ Cardinality(DOMAIN peers) <= MaxPeers
    /\ \A d, e \in DOMAIN peers :
          d # e => peers[d].v4 # peers[e].v4 /\ peers[d].v6 # peers[e].v6

\* Mutant: a peer whose address another peer takes over is not removed.
DiffWithoutMoved(desired, observed) ==
    {[kind |-> "add", key |-> d] : d \in DOMAIN desired \ DOMAIN observed}
    \cup {[kind |-> "remove", key |-> d] :
             d \in {e \in DOMAIN observed \ DOMAIN desired :
                       \A f \in DOMAIN desired : desired[f].v4 # observed[e].v4}}

\* Diff, as a set: at most one operation per key.
Diff(desired, observed) ==
    {[kind |-> "add", key |-> d] : d \in DOMAIN desired \ DOMAIN observed}
    \cup {[kind |-> "update", key |-> d] :
             d \in {e \in DOMAIN desired \cap DOMAIN observed :
                       desired[e] # observed[e]}}
    \cup {[kind |-> "remove", key |-> d] : d \in DOMAIN observed \ DOMAIN desired}

\* Mutant: only the generation that was applied last is known.
SupersededIfCurrent(g) == agent[g].gen = agent[g].current

\* The delivery in hand is not newer than the snapshot applied last.
Superseded(g) == agent[g].gen <= agent[g].current

\* ApplyOnce up to Apply: an invalid or expired snapshot is handed back, one
\* that is not newer than Current is acknowledged as it is, any other is
\* turned into operations.  Apply refuses more than MaxPeers of them.
VerifyDelivery(g) ==
    LET row == outbox[g][agent[g].gen]
        ops == Diff(row.peers, agent[g].view)
        to(step) == agent' = [agent EXCEPT ![g].step = step]
    IN  /\ agent[g].step = "verify"
        /\ \/ (row.expired \/ ~ValidPeers(row.peers)) /\ to("retry")
           \/ /\ ~row.expired /\ ValidPeers(row.peers)
              /\ \/ Superseded(g) /\ to("ack")
                 \/ /\ ~Superseded(g)
                    /\ IF Cardinality(ops) > MaxPeers
                       THEN to("retry")
                       ELSE agent' = [agent EXCEPT ![g].step = "apply",
                                                   ![g].ops = ops]
        /\ UNCHANGED <<storeVars, outbox, writer, confirming, kernel, faults>>

\* wg set <interface> peer <key> allowed-ips <v4>,<v6>: replaces the peer's
\* allowed IPs and takes the addresses away from any other peer.
SetPeer(interface, key, peer) ==
    [d \in DOMAIN interface \cup {key} |->
        IF d = key THEN peer
        ELSE [v4 |-> IF interface[d].v4 = peer.v4 THEN NoAddress
                                                  ELSE interface[d].v4,
              v6 |-> IF interface[d].v6 = peer.v6 THEN NoAddress
                                                  ELSE interface[d].v6]]

\* wg set <interface> peer <key> remove: no error when there is no such peer.
RemovePeer(interface, key) ==
    [d \in DOMAIN interface \ {key} |-> interface[d]]

\* The next operation in key order succeeds.
ApplyOperation(g) ==
    /\ agent[g].step = "apply"
    /\ \E op \in agent[g].ops :
          /\ \A other \in agent[g].ops : op.key <= other.key
          /\ kernel' = [kernel EXCEPT ![g] =
                 IF op.kind = "remove"
                 THEN RemovePeer(kernel[g], op.key)
                 ELSE SetPeer(kernel[g], op.key,
                              outbox[g][agent[g].gen].peers[op.key])]
          /\ agent' = [agent EXCEPT ![g].ops = agent[g].ops \ {op}]
    /\ UNCHANGED <<storeVars, outbox, writer, confirming, faults>>

\* All operations succeeded.
AppliedAll(g) ==
    /\ agent[g].step = "apply"
    /\ agent[g].ops = {}
    /\ agent' = [agent EXCEPT ![g].step = "ack"]
    /\ UNCHANGED <<storeVars, outbox, writer, confirming, kernel, faults>>

\* Mutant: CurrentPeers is assigned before Apply is known to have succeeded.
ApplyFailsRemembered(g) ==
    /\ agent[g].step = "apply"
    /\ agent[g].ops # {}
    /\ Fault("apply_fails")
    /\ agent' = [agent EXCEPT ![g].step = "retry", ![g].ops = {},
                              ![g].view = outbox[g][agent[g].gen].peers]
    /\ UNCHANGED <<storeVars, outbox, writer, confirming, kernel>>

\* An operation fails: the ones before it stay applied.
ApplyFails(g) ==
    /\ agent[g].step = "apply"
    /\ agent[g].ops # {}
    /\ Fault("apply_fails")
    /\ agent' = [agent EXCEPT ![g].step = "retry", ![g].ops = {}]
    /\ UNCHANGED <<storeVars, outbox, writer, confirming, kernel>>

\* Back to the top of Worker.Run, Current and CurrentPeers as they were.
ToIdle(g) == agent' = [agent EXCEPT ![g].step = "idle", ![g].gen = 0, ![g].ops = {}]

\* POST .../retry: RetrySnapshot puts the row back, due one minute later.
RetryDelivery(g) ==
    /\ agent[g].step = "retry"
    /\ outbox[g][agent[g].gen].state = "in_flight"
    /\ outbox' = [outbox EXCEPT ![g][agent[g].gen].state = "failed",
                                ![g][agent[g].gen].due = FALSE]
    /\ ToIdle(g)
    /\ UNCHANGED <<storeVars, writer, confirming, kernel, faults>>

\* The retry call does not reach RetrySnapshot (network or database).
RetryLost(g) ==
    /\ agent[g].step = "retry"
    /\ Fault("retry_lost")
    /\ ToIdle(g)
    /\ UNCHANGED <<storeVars, outbox, writer, confirming, kernel>>

\* POST .../ack, first transaction: AckSnapshot.
AckSnapshot(g) ==
    /\ agent[g].step = "ack"
    /\ outbox[g][agent[g].gen].state = "in_flight"
    /\ outbox' = [outbox EXCEPT ![g][agent[g].gen].state = "acked"]
    /\ confirming' = [confirming EXCEPT ![g] = confirming[g] \cup {agent[g].gen}]
    /\ agent' = [agent EXCEPT ![g].step = "wait"]
    /\ UNCHANGED <<storeVars, writer, kernel, faults>>

\* The ack call does not reach AckSnapshot: ApplyOnce returns the error and
\* the applied snapshot is not remembered.
AckLost(g) ==
    /\ agent[g].step = "ack"
    /\ Fault("ack_lost")
    /\ ToIdle(g)
    /\ UNCHANGED <<storeVars, outbox, writer, confirming, kernel>>

Waiting(g, n) == agent[g].step = "wait" /\ agent[g].gen = n

\* A successful answer: Current and CurrentPeers become the snapshot, unless
\* it was acknowledged without being applied.
AgentAcked(g) ==
    IF Superseded(g)
    THEN ToIdle(g)
    ELSE agent' = [agent EXCEPT ![g] =
             [step |-> "idle", gen |-> 0, ops |-> {}, current |-> agent[g].gen,
              view |-> outbox[g][agent[g].gen].peers]]

\* Second transaction: ConfirmGatewaySnapshot, and the answer to the agent if
\* it is still there.
ConfirmDelivery(g, n) ==
    /\ n \in confirming[g]
    /\ ConfirmGatewaySnapshot(g, n)
    /\ confirming' = [confirming EXCEPT ![g] = confirming[g] \ {n}]
    /\ IF Waiting(g, n) THEN AgentAcked(g) ELSE UNCHANGED agent
    /\ UNCHANGED <<outbox, writer, kernel, faults>>

\* The confirmation commits and its answer is lost.
ConfirmUnanswered(g, n) ==
    /\ n \in confirming[g]
    /\ Waiting(g, n)
    /\ Fault("confirm_lost")
    /\ ConfirmGatewaySnapshot(g, n)
    /\ confirming' = [confirming EXCEPT ![g] = confirming[g] \ {n}]
    /\ ToIdle(g)
    /\ UNCHANGED <<outbox, writer, kernel>>

\* The handler stops after AckSnapshot (crash, cancelled request,
\* serialization failure): the row is acked, nothing is confirmed.
ConfirmFails(g, n) ==
    /\ n \in confirming[g]
    /\ Fault("confirm_fails")
    /\ confirming' = [confirming EXCEPT ![g] = confirming[g] \ {n}]
    /\ IF Waiting(g, n) THEN ToIdle(g) ELSE UNCHANGED agent
    /\ UNCHANGED <<storeVars, outbox, writer, kernel>>

IdleAgent == [step |-> "idle", gen |-> 0, ops |-> {}, current |-> 0, view |-> NoPeers]

\* cmd/gateway-agent restarts: Current is the zero Snapshot, CurrentPeers an
\* empty map; the WireGuard interface keeps its peers.
AgentRestarts(g) ==
    /\ agent[g] # IdleAgent
    /\ Fault("agent_restarts")
    /\ agent' = [agent EXCEPT ![g] = IdleAgent]
    /\ UNCHANGED <<storeVars, outbox, writer, confirming, kernel>>

-----------------------------------------------------------------------------
(***************************************************************************)
(* Time.                                                                   *)
(***************************************************************************)
\* available_at of a failed row is reached.
RowBecomesDue(g, n) ==
    /\ n \in DOMAIN outbox[g]
    /\ ~outbox[g][n].due
    /\ outbox' = [outbox EXCEPT ![g][n].due = TRUE]
    /\ UNCHANGED <<storeVars, writer, confirming, agent, kernel, faults>>

\* ExpiresAt of a snapshot passes; snapshots expire in the order they were
\* written.  An acknowledged row is never looked at again.
SnapshotExpires(g, n) ==
    /\ n \in DOMAIN outbox[g]
    /\ ~outbox[g][n].expired
    /\ outbox[g][n].state # "acked"
    /\ \A m \in DOMAIN outbox[g] :
          m < n => outbox[g][m].expired \/ outbox[g][m].state = "acked"
    /\ Fault("expires")
    /\ outbox' = [outbox EXCEPT ![g][n].expired = TRUE]
    /\ UNCHANGED <<storeVars, writer, confirming, agent, kernel>>

-----------------------------------------------------------------------------
Init ==
    /\ StoreInit
    /\ outbox = [g \in Gateways |-> [n \in {} |-> n]]
    /\ writer = [w \in Writers |-> IdleWriter]
    /\ confirming = [g \in Gateways |-> {}]
    /\ agent = [g \in Gateways |-> IdleAgent]
    /\ kernel = [g \in Gateways |-> NoPeers]
    /\ faults = 0

WriterNext ==
    \/ ListGateways
    \/ \E w \in Writers :
          \/ \E g \in Gateways : ReadGeneration(w, g)
          \/ ReadPeers(w)
          \/ InsertSnapshot(w)
          \/ WriterFails(w)

AgentNext(g) ==
    \/ ClaimDelivery(g)
    \/ ClaimLost(g)
    \/ VerifyDelivery(g)
    \/ ApplyOperation(g)
    \/ AppliedAll(g)
    \/ ApplyFails(g)
    \/ RetryDelivery(g)
    \/ RetryLost(g)
    \/ AckSnapshot(g)
    \/ AckLost(g)
    \/ AgentRestarts(g)

HandlerNext(g, n) ==
    \/ ConfirmDelivery(g, n)
    \/ ConfirmUnanswered(g, n)
    \/ ConfirmFails(g, n)

Next ==
    \/ (ClientNext \/ OperatorNext) /\ UNCHANGED deliveryVars
    \/ WriterNext
    \/ \E g \in Gateways :
          \/ AgentNext(g)
          \/ \E n \in Generations :
                \/ HandlerNext(g, n)
                \/ RowBecomesDue(g, n)
                \/ SnapshotExpires(g, n)

Spec == Init /\ [][Next]_vars

(***************************************************************************)
(* Fairness: the reconciler's ticker and Worker.Run loop forever, so each  *)
(* of their steps that stays possible is taken; a handler that has begun   *)
(* runs on; time passes.  Faults, clients, the operator and the publisher  *)
(* are under no obligation.                                                *)
(***************************************************************************)
Fairness ==
    /\ WF_vars(ListGateways)
    /\ \A g \in Gateways :
          /\ WF_vars(Reconciler \in Writers /\ ReadGeneration(Reconciler, g))
          /\ WF_vars(ClaimDelivery(g))
          /\ WF_vars(VerifyDelivery(g))
          /\ WF_vars(ApplyOperation(g))
          /\ WF_vars(AppliedAll(g))
          /\ WF_vars(RetryDelivery(g))
          /\ WF_vars(AckSnapshot(g))
          /\ \A n \in Generations :
                WF_vars(ConfirmDelivery(g, n)) /\ WF_vars(RowBecomesDue(g, n))
    /\ \A w \in Writers : WF_vars(ReadPeers(w)) /\ WF_vars(InsertSnapshot(w))

FairSpec == Spec /\ Fairness

-----------------------------------------------------------------------------
(***************************************************************************)
(* Properties.                                                             *)
(***************************************************************************)
\* Type correctness of the outbox, the writers, the agents and the kernels.
DeliveryTypeOK ==
    /\ StoreTypeOK
    /\ \A g \in Gateways :
          /\ DOMAIN outbox[g] \subseteq Generations
          /\ \A n \in DOMAIN outbox[g] : IsRow(outbox[g][n])
          /\ confirming[g] \subseteq DOMAIN outbox[g]
          /\ agent[g].step \in {"idle", "verify", "apply", "retry", "ack", "wait"}
          /\ agent[g].gen \in DOMAIN outbox[g] \cup {0}
          /\ agent[g].current \in DOMAIN outbox[g] \cup {0}
          /\ IsPeers(agent[g].view)
          /\ IsPeers(kernel[g])
    /\ \A w \in Writers :
          /\ writer[w].todo \subseteq Gateways
          /\ writer[w].gen \in Generations \cup {0}
          /\ IsPeers(writer[w].peers)
    /\ faults \in 0..MaxFaults

\* Every snapshot written to the outbox passes the validation the agent runs
\* on it (Snapshot.Validate: unique IPv4 and IPv6), although peers of devices
\* being removed are materialised too and freed addresses are reused at once.
SnapshotsAreValid ==
    \A g \in Gateways : \A n \in DOMAIN outbox[g] : ValidPeers(outbox[g][n].peers)

\* Generations are in the order their contents were read, whatever the two
\* writers do between reading the generation, reading the peers and inserting:
\* a peer that is gone from a generation is not in a later one.  (It rests on
\* the unique index over (gateway_id, generation) turning the slower of two
\* writers away.)
GenerationsFollowContents ==
    \A g \in Gateways : \A l, m, n \in DOMAIN outbox[g] :
        l < m /\ m < n =>
            DOMAIN outbox[g][l].peers \cap DOMAIN outbox[g][n].peers
                \subseteq DOMAIN outbox[g][m].peers

\* Faults after which the agent still remembers what it has applied.
BeforeApplication == {"writer_fails", "claim_lost", "retry_lost", "expires"}

\* Until an application or its acknowledgement fails or an agent restarts, the
\* interface has exactly the peers of the newest snapshot applied, each with
\* its own addresses, also when an address moved from a removed device to
\* another one: whichever of the two operations key order puts first, the
\* later one undoes nothing of the earlier.
InterfaceFollowsSnapshots ==
    faults = 0 \/ Faults \subseteq BeforeApplication => \A g \in Gateways :
        /\ agent[g].step = "idle" => kernel[g] = agent[g].view
        /\ agent[g].step \in {"ack", "wait"} /\ agent[g].gen > agent[g].current =>
              kernel[g] = outbox[g][agent[g].gen].peers

\* The delivery the agent has in hand is the one the outbox holds for it, so
\* no ack or retry that arrives is answered 404: not after lost calls, not
\* after a restart, not while an older handler is still confirming.
DeliveryHeldByAgent ==
    \A g \in Gateways :
        /\ agent[g].step \in {"verify", "apply", "retry", "ack"} =>
              outbox[g][agent[g].gen].state = "in_flight"
        /\ agent[g].step = "wait" => outbox[g][agent[g].gen].state = "acked"

InFlight(g, n) == n \in DOMAIN outbox[g] /\ outbox[g][n].state = "in_flight"

Holds(g, n) == agent[g].step \in {"verify", "apply", "retry", "ack"} /\ agent[g].gen = n

\* Deliveries that were claimed and that no agent is working on.
Stranded == {e \in Gateways \X Generations : InFlight(e[1], e[2]) /\ ~Holds(e[1], e[2])}

\* A lost call or a restart strands one delivery at most (for good, see the
\* last property), and nothing else strands any: no order of claims, retries,
\* acknowledgements and new generations leaves a row in flight by itself.
OnlyFaultsStrand == Cardinality(Stranded) <= faults

\* Assignments whose peer the gateway has still to configure or to remove.
Unconfirmed(g) ==
    {s \in DOMAIN assignments : /\ assignments[s].gateway = g
                                /\ assignments[s].state \in {"pending", "removal_pending"}}

\* Nothing is forgotten: as long as something is unconfirmed on a ready
\* gateway, the reconciler will list it, or it waits for a row that can be
\* claimed now or is in the agent's hands, or a fault has stranded a row.  The
\* query of the reconciler and the one of the claim look at states, attempts
\* and due times by different conditions; rows that ran out of attempts, that
\* wait for their next one or whose confirmation failed hold nothing up.
NothingForgotten ==
    \A g \in ready : Unconfirmed(g) # {} =>
        \/ g \in GatewaysNeedingSnapshot
        \/ \E n \in DOMAIN outbox[g] :
              n \in Claimable(g) \/ Holds(g, n) \/ <<g, n>> \in Stranded

\* No assignment of the gateway was ever marked for removal.
NoRemovals(g) ==
    \A s \in DOMAIN assignments :
        assignments[s].gateway = g => assignments[s].state \in {"pending", "active"}

\* As long as nothing is removed, every peer of an acknowledged generation is
\* configured in the kernel with both its addresses, also when the generation
\* was acknowledged without being applied (it was older than Current), when
\* an earlier application stopped half way, and when the agent restarted with
\* an empty CurrentPeers and an older generation was delivered again.
AckedPeersReachKernel ==
    \A g \in Gateways : NoRemovals(g) =>
        \A n \in DOMAIN outbox[g] :
            outbox[g][n].state = "acked" =>
                \A d \in DOMAIN outbox[g][n].peers :
                    /\ d \in DOMAIN kernel[g]
                    /\ kernel[g][d] = outbox[g][n].peers[d]

(***************************************************************************)
(* The whole path, from the answer of an API request to the interface of   *)
(* the gateway, implements TunnelService.                                  *)
(***************************************************************************)
Removing == {g \in Gateways : ~NoRemovals(g)}

AckedRows(g) == {n \in DOMAIN outbox[g] : outbox[g][n].state = "acked"}

Acknowledged ==
    [g \in Gateways |-> UNION {DOMAIN outbox[g][n].peers : n \in AckedRows(g)}]

Tunnels == INSTANCE TunnelService
               WITH answers <- idem, removing <- Removing,
                    acknowledged <- Acknowledged, interface <- kernel

\* What clients may rely on: a gateway routes to a peer only what the device
\* was answered, changes one peer at a time, and serves every tunnel it has
\* acknowledged until a removal begins on it; through lost calls, repeated
\* and late deliveries, half-applied snapshots and restarts of the agent.
DeliveryKeepsTunnelPromise == Tunnels!TunnelPromise

Pending(s) == s \in DOMAIN assignments /\ assignments[s].state = "pending"

\* Reconciliation finishes: an assignment does not stay pending for ever,
\* although applications fail, snapshots expire before they are applied,
\* confirmations stop half way and writers fail (each finitely often).
PendingEventuallyConfirmed == \A s \in Slots : Pending(s) ~> ~Pending(s)

(***************************************************************************)
(* What the documentation or a comment says and the code does not do; each *)
(* is refuted by a run of its own.                                         *)
(***************************************************************************)
\* store.go, ConfirmGatewaySnapshot: an assignment becomes active "only after
\* the agent has acknowledged the corresponding generation", one that has it.
ActiveMeansConfigured ==
    \A s \in DOMAIN assignments :
        assignments[s].state = "active" =>
            assignments[s].device \in DOMAIN kernel[assignments[s].gateway]

\* docs/control-plane.md, "Revogação": a device is revoked when the gateway
\* has confirmed the removal of its peer.
RevokedNotConfigured ==
    \A g \in Gateways : \A d \in DOMAIN kernel[g] : devState[d] # "revoked"

\* docs/gateway-agent.md: the agent refuses a generation that is not newer
\* than the last one applied.  Here: it changes the kernel for a generation
\* only while no newer one was acknowledged.
NoRollback ==
    [][\A g \in Gateways :
          kernel'[g] # kernel[g] =>
              \A n \in DOMAIN outbox[g] :
                  n > agent[g].gen => outbox[g][n].state # "acked"]_vars

\* docs/mtls-operations.md: a delivery whose agent went away can be claimed
\* again ("outbox permite reclamar/repetir").
InFlightEventuallySettles ==
    \A g \in Gateways, n \in Generations : InFlight(g, n) ~> ~InFlight(g, n)
=============================================================================
