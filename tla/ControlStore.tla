--------------------------- MODULE ControlStore ---------------------------
(***************************************************************************)
(* The PostgreSQL control-plane store: postgres.Store in                   *)
(* services/api/internal/postgres/store.go over the tables of              *)
(* services/api/migrations/0001_initial.sql.                               *)
(*                                                                         *)
(* One action is one committed transaction.  Every writer of ip_leases and *)
(* peer_assignments runs at SERIALIZABLE, and the single-row statements on *)
(* devices are ordered with them by row locks, so committed histories are  *)
(* serial ones; a transaction that is refused, rolled back or aborted      *)
(* leaves the tables alone (RefuseConfiguration, or a stuttering step).    *)
(*                                                                         *)
(* Abstractions.  A device row is identified with its WireGuard public     *)
(* key, which is globally unique and never deleted.  A lease and the       *)
(* assignment that points to it are inserted by the same transaction and   *)
(* share a row id (a Slot; gen_random_uuid in the schema).  A pool's       *)
(* addresses are offsets (module AddressPool).  The partial unique indexes *)
(* of the schema are NOT built into the actions: that no committed         *)
(* transaction would trip one is what the invariants say.                  *)
(***************************************************************************)
EXTENDS AddressPool, FiniteSets

CONSTANTS
    Users,          \* user ids, taken from the access token
    Devices,        \* WireGuard public keys, one device row each
    Regions,
    Gateways,
    Slots,          \* row ids for (lease, assignment) pairs: bounds allocations
    IdemKeys,       \* Idempotency-Key values
    MaxGeneration,  \* bound on generations a gateway may acknowledge
    Drainable,      \* gateways the operator takes in and out of 'ready'
    Closable,       \* regions the operator opens and closes
    GatewayRegion,  \* gateways.region_id
    Capacity,       \* gateways.capacity_peers
    Pool4, Pool6,   \* regions.ipv4_pool, regions.ipv6_pool
    NoUser          \* owner of a device that is not registered

ASSUME ControlStoreAssumptions ==
    /\ GatewayRegion \in [Gateways -> Regions]
    /\ Capacity \in [Gateways -> Nat \ {0}]
    /\ Pool4 \in [Regions -> Pools]
    /\ Pool6 \in [Regions -> Pools]
    /\ MaxGeneration \in Nat
    /\ Drainable \subseteq Gateways
    /\ Closable \subseteq Regions
    /\ NoUser \notin Users

VARIABLES
    devState,       \* devices.state, "none" before registration
    devOwner,       \* devices.user_id
    leases,         \* ip_leases rows, by Slot
    assignments,    \* peer_assignments rows, by Slot
    idem,           \* idempotency_keys rows, by <<device, key>>
    ready,          \* gateways whose state is 'ready'
    available       \* regions whose available flag is set

storeVars == <<devState, devOwner, leases, assignments, idem, ready, available>>

DeviceStates == {"none", "active", "revocation_pending", "revoked"}
LiveStates == {"pending", "active", "removal_pending"}
AssignmentStates == LiveStates \cup {"removed"}

\* ip_leases: released stands for released_at IS NOT NULL.
Lease == [region : Regions, device : Devices, v4 : Nat, v6 : Nat,
          released : BOOLEAN]

Assignment == [device : Devices, gateway : Gateways, state : AssignmentStates,
               desired : Nat, observed : Nat]

\* The part of a TunnelConfiguration that differs between two replies.
Configuration == [assignment : Slots, gateway : Gateways, v4 : Nat, v6 : Nat]

\* idempotency_keys: the request hash is the hash of the region id.
StoredResponse == [region : Regions, response : Configuration]

\* A table of rows keyed by ids of K: a function on the ids inserted so far.
IsTable(table, K, Row) ==
    /\ DOMAIN table \subseteq K
    /\ table \in [DOMAIN table -> Row]

Insert(table, id, row) ==
    [i \in DOMAIN table \cup {id} |-> IF i = id THEN row ELSE table[i]]

LiveAssignment(s) ==
    s \in DOMAIN assignments /\ assignments[s].state \in LiveStates

HeldLease(s) == s \in DOMAIN leases /\ ~leases[s].released

\* SELECT count(*) ... WHERE gateway_id = g.id AND state IN (live states)
Load(g) ==
    Cardinality({s \in DOMAIN assignments :
                    LiveAssignment(s) /\ assignments[s].gateway = g})

-----------------------------------------------------------------------------
(***************************************************************************)
(* Devices.                                                                *)
(***************************************************************************)
\* RegisterDevice: a public key already in the table is a unique violation
\* (ErrConflict), whoever owns it.
RegisterDevice(u, d) ==
    /\ devState[d] = "none"
    /\ devState' = [devState EXCEPT ![d] = "active"]
    /\ devOwner' = [devOwner EXCEPT ![d] = u]
    /\ UNCHANGED <<leases, assignments, idem, ready, available>>

\* Mutants of the next definition: the assignment's enum used for the device,
\* and a missing CASE.
RevocationStateMistyped(d) == "removal_pending"
RevocationStateUnchecked(d) == "revocation_pending"

\* CASE WHEN state = 'revoked' THEN state ELSE 'revocation_pending' END
RevocationState(d) ==
    IF devState[d] = "revoked" THEN devState[d] ELSE "revocation_pending"

\* RequestRevocation: one UPDATE on devices, scoped to the owner.  The
\* device's assignment is not touched.
RequestRevocation(u, d) ==
    /\ devState[d] # "none"
    /\ devOwner[d] = u
    /\ devState' = [devState EXCEPT ![d] = RevocationState(d)]
    /\ UNCHANGED <<devOwner, leases, assignments, idem, ready, available>>

-----------------------------------------------------------------------------
(***************************************************************************)
(* CreateTunnelConfiguration(u, d, r, k): owner, device, region, key.      *)
(***************************************************************************)
\* The device lookup is scoped to the owner and locks the row.
Admitted(u, d) == devOwner[d] = u /\ devState[d] = "active"

Stored(d, k) == <<d, k>> \in DOMAIN idem

\* Mutant: an assignment the gateway has not confirmed is overlooked.
LiveSlotsConfirmedOnly(d) ==
    {s \in DOMAIN assignments :
        assignments[s].device = d /\ assignments[s].state = "active"}

\* The live allocation that is looked up before a new one is made.
LiveSlots(d) ==
    {s \in DOMAIN assignments :
        /\ assignments[s].device = d
        /\ LiveAssignment(s)
        /\ HeldLease(s)}

\* Mutant: the region of the allocation found is not compared.
ReusableAnywhere(d, r) == LiveSlots(d)

\* The allocation a request for region r is answered with.
Reusable(d, r) == {s \in LiveSlots(d) : leases[s].region = r}

\* Mutant: off by one at capacity.
PickGatewayAtCapacity(r, locked) ==
    {g \in ready \ locked : GatewayRegion[g] = r /\ Load(g) <= Capacity[g]}

\* Ready gateways of the region below capacity, least loaded first.  Rows
\* another transaction has locked are skipped (FOR UPDATE ... SKIP LOCKED).
PickGateway(r, locked) ==
    LET open == {g \in ready \ locked :
                    GatewayRegion[g] = r /\ Load(g) < Capacity[g]}
    IN  {g \in open : \A h \in open : Load(g) <= Load(h)}

\* Mutant: the address of an assignment that is not active yet counts as free.
UsedV4ConfirmedOnly(r) ==
    {leases[s].v4 : s \in {t \in DOMAIN leases :
        leases[t].region = r /\ assignments[t].state = "active"}}

\* activeAddresses: the addresses of the region's unreleased leases.
UsedV4(r) == {leases[s].v4 : s \in {t \in DOMAIN leases :
                                        HeldLease(t) /\ leases[t].region = r}}
UsedV6(r) == {leases[s].v6 : s \in {t \in DOMAIN leases :
                                        HeldLease(t) /\ leases[t].region = r}}

\* Everything that returns without writing: device not found or not active;
\* a key seen before (the stored response if the region agrees, ErrConflict
\* otherwise); region unknown or closed; a live allocation in another region;
\* no unlocked gateway below capacity; no free address.
Refusals(u, d, r, k) ==
    {why \in {"device", "key", "region", "allocated", "gateway", "address"} :
        \/ why = "device" /\ ~Admitted(u, d)
        \/ why = "key" /\ Stored(d, k)
        \/ why = "region" /\ r \notin available
        \/ why = "allocated" /\ LiveSlots(d) \ Reusable(d, r) # {}
        \/ /\ why = "gateway"
           /\ LiveSlots(d) = {}
           /\ \E locked \in SUBSET Gateways : PickGateway(r, locked) = {}
        \/ /\ why = "address"
           /\ LiveSlots(d) = {}
           /\ \/ FirstFree(Pool4[r], UsedV4(r)) = {}
              \/ FirstFree(Pool6[r], UsedV6(r)) = {}}

RefuseConfiguration(u, d, r, k) ==
    /\ Refusals(u, d, r, k) # {}
    /\ UNCHANGED storeVars

\* A new key while the device holds an allocation in the region: the
\* existing configuration is stored under the new key and returned.
ReuseConfiguration(u, d, r, k) ==
    /\ Admitted(u, d)
    /\ ~Stored(d, k)
    /\ r \in available
    /\ \E s \in Reusable(d, r) :
          idem' = Insert(idem, <<d, k>>,
              [region |-> r,
               response |-> [assignment |-> s,
                             gateway |-> assignments[s].gateway,
                             v4 |-> leases[s].v4, v6 |-> leases[s].v6]])
    /\ UNCHANGED <<devState, devOwner, leases, assignments, ready, available>>

\* The lease, the assignment and the stored response, in one transaction.
\* desired_generation and observed_generation take the schema's defaults.
InsertAllocation(d, r, k, s, g, v4, v6) ==
    /\ leases' = Insert(leases, s,
           [region |-> r, device |-> d, v4 |-> v4, v6 |-> v6, released |-> FALSE])
    /\ assignments' = Insert(assignments, s,
           [device |-> d, gateway |-> g, state |-> "pending",
            desired |-> 1, observed |-> 0])
    /\ idem' = Insert(idem, <<d, k>>,
           [region |-> r,
            response |-> [assignment |-> s, gateway |-> g, v4 |-> v4, v6 |-> v6]])

AllocateConfiguration(u, d, r, k) ==
    /\ Admitted(u, d)
    /\ ~Stored(d, k)
    /\ r \in available
    /\ LiveSlots(d) = {}
    /\ \E g \in UNION {PickGateway(r, locked) : locked \in SUBSET Gateways},
          v4 \in FirstFree(Pool4[r], UsedV4(r)),
          v6 \in FirstFree(Pool6[r], UsedV6(r)),
          s \in Slots \ DOMAIN leases :
             InsertAllocation(d, r, k, s, g, v4, v6)
    /\ UNCHANGED <<devState, devOwner, ready, available>>

-----------------------------------------------------------------------------
(***************************************************************************)
(* ConfirmGatewaySnapshot(g, gen): three UPDATEs in one transaction, each  *)
(* reading what the one before it wrote.                                   *)
(***************************************************************************)
ConfirmedAssignments(g, gen) ==
    [s \in DOMAIN assignments |->
        LET a == assignments[s] IN
        IF a.gateway = g /\ a.desired <= gen /\ a.state \in LiveStates
        THEN [a EXCEPT !.state = IF @ = "removal_pending" THEN "removed"
                                                          ELSE "active",
                       !.observed = a.desired]
        ELSE a]

\* Mutants: the state is not looked at, or one state too early.
RemovedFromAnyState(g, table) == {s \in DOMAIN table : table[s].gateway = g}
RemovedFromTooEarly(g, table) ==
    {s \in DOMAIN table :
        table[s].gateway = g /\ table[s].state \in {"removal_pending", "removed"}}

\* The assignments whose leases and devices the second and third UPDATE touch.
RemovedFrom(g, table) ==
    {s \in DOMAIN table : table[s].gateway = g /\ table[s].state = "removed"}

ConfirmGatewaySnapshot(g, gen) ==
    /\ assignments' = ConfirmedAssignments(g, gen)
    /\ LET removed == RemovedFrom(g, assignments')
       IN  /\ leases' = [s \in DOMAIN leases |->
                            IF s \in removed
                            THEN [leases[s] EXCEPT !.released = TRUE]
                            ELSE leases[s]]
           /\ devState' = [d \in Devices |->
                            IF /\ devState[d] = "revocation_pending"
                               /\ \E s \in removed : assignments[s].device = d
                            THEN "revoked"
                            ELSE devState[d]]
    /\ UNCHANGED <<devOwner, idem, ready, available>>

-----------------------------------------------------------------------------
(***************************************************************************)
(* External: no code of the repository marks an assignment for removal,    *)
(* moves a gateway in and out of 'ready' or opens and closes a region.     *)
(* These are the operator's updates the code's queries provide for; the    *)
(* removal is the documented completion of a revocation.                   *)
(***************************************************************************)
OperatorMarksRemoval(s) ==
    /\ s \in DOMAIN assignments
    /\ assignments[s].state \in {"pending", "active"}
    /\ devState[assignments[s].device] = "revocation_pending"
    /\ assignments' = [assignments EXCEPT ![s].state = "removal_pending",
                                          ![s].desired = @ + 1]
    /\ UNCHANGED <<devState, devOwner, leases, idem, ready, available>>

OperatorSetsGateway(g) ==
    /\ ready' = IF g \in ready THEN ready \ {g} ELSE ready \cup {g}
    /\ UNCHANGED <<devState, devOwner, leases, assignments, idem, available>>

OperatorSetsRegion(r) ==
    /\ available' = IF r \in available THEN available \ {r}
                                       ELSE available \cup {r}
    /\ UNCHANGED <<devState, devOwner, leases, assignments, idem, ready>>

-----------------------------------------------------------------------------
StoreInit ==
    /\ devState = [d \in Devices |-> "none"]
    /\ devOwner = [d \in Devices |-> NoUser]
    /\ leases = [s \in {} |-> s]
    /\ assignments = [s \in {} |-> s]
    /\ idem = [s \in {} |-> s]
    /\ ready = Gateways
    /\ available = Regions

\* Requests of the HTTP API.
ClientNext ==
    \/ \E u \in Users, d \in Devices : RegisterDevice(u, d)
    \/ \E u \in Users, d \in Devices : RequestRevocation(u, d)
    \/ \E u \in Users, d \in Devices, r \in Regions, k \in IdemKeys :
          \/ RefuseConfiguration(u, d, r, k)
          \/ ReuseConfiguration(u, d, r, k)
          \/ AllocateConfiguration(u, d, r, k)

OperatorNext ==
    \/ \E s \in Slots : OperatorMarksRemoval(s)
    \/ \E g \in Drainable : OperatorSetsGateway(g)
    \/ \E r \in Closable : OperatorSetsRegion(r)

StoreNext ==
    \/ ClientNext
    \/ OperatorNext
    \/ \E g \in Gateways, gen \in 1..MaxGeneration : ConfirmGatewaySnapshot(g, gen)

StoreSpec == StoreInit /\ [][StoreNext]_storeVars

-----------------------------------------------------------------------------
(***************************************************************************)
(* Properties.                                                             *)
(***************************************************************************)
\* Type correctness of the seven tables and flags.
StoreTypeOK ==
    /\ devState \in [Devices -> DeviceStates]
    /\ devOwner \in [Devices -> Users \cup {NoUser}]
    /\ IsTable(leases, Slots, Lease)
    /\ IsTable(assignments, Slots, Assignment)
    /\ IsTable(idem, Devices \X IdemKeys, StoredResponse)
    /\ ready \subseteq Gateways
    /\ available \subseteq Regions

\* The indexes ip_leases_active_ipv4_idx and ip_leases_active_ipv6_idx never
\* fire: two unreleased leases of a region differ in both addresses, although
\* releases and allocations on several gateways interleave and a released
\* address is handed out again at once.
LiveAddressesUnique ==
    \A s, t \in DOMAIN leases :
        /\ s # t
        /\ HeldLease(s)
        /\ HeldLease(t)
        /\ leases[s].region = leases[t].region
        => leases[s].v4 # leases[t].v4 /\ leases[s].v6 # leases[t].v6

\* ip_leases_active_device_idx and peer_assignments_live_device_idx never
\* fire: CreateTunnelConfiguration looks for an assignment that is live AND
\* whose lease is unreleased, so this rests on LeaseFollowsAssignment.
OneLiveAllocationPerDevice ==
    \A s, t \in DOMAIN leases :
        /\ s # t
        /\ leases[s].device = leases[t].device
        => /\ ~(HeldLease(s) /\ HeldLease(t))
           /\ ~(LiveAssignment(s) /\ LiveAssignment(t))

\* A lease is held exactly while its assignment is live, for the same device
\* and in the region of the assignment's gateway: ConfirmGatewaySnapshot
\* never releases an address that a gateway is still told to route, and
\* never leaks one whose peer is gone.
LeaseFollowsAssignment ==
    /\ DOMAIN leases = DOMAIN assignments
    /\ \A s \in DOMAIN leases :
          /\ HeldLease(s) <=> LiveAssignment(s)
          /\ leases[s].device = assignments[s].device
          /\ leases[s].region = GatewayRegion[assignments[s].gateway]

\* No gateway carries more live assignments than capacity_peers, also when
\* the least loaded gateway is skipped because its row is locked and while
\* removals that are not confirmed still count.
CapacityRespected == \A g \in Gateways : Load(g) <= Capacity[g]

\* A device is 'revoked' only when nothing of it is live any more: no lease
\* held, no assignment in a snapshot to come (docs/control-plane.md,
\* "Revogação").
RevokedHoldsNothing ==
    \A d \in Devices :
        devState[d] = "revoked" =>
            \A s \in DOMAIN leases :
                leases[s].device = d => ~HeldLease(s) /\ ~LiveAssignment(s)

\* The stored response e names a live assignment of its device, with the
\* gateway, addresses and region that assignment has now.
ResponseIsCurrent(e) ==
    LET c == idem[e].response IN
    /\ LiveAssignment(c.assignment)
    /\ HeldLease(c.assignment)
    /\ assignments[c.assignment].device = e[1]
    /\ assignments[c.assignment].gateway = c.gateway
    /\ leases[c.assignment].v4 = c.v4
    /\ leases[c.assignment].v6 = c.v6
    /\ leases[c.assignment].region = idem[e].region

\* A response kept for idempotent replay never goes stale while
\* CreateTunnelConfiguration can replay it, that is, while the device is
\* active: the rows it was built from are live and unchanged.
ReplayedConfigurationIsCurrent ==
    \A e \in DOMAIN idem : devState[e[1]] = "active" => ResponseIsCurrent(e)

\* Revocation is one-way: whatever the order of requests, confirmations and
\* operator updates, a device never returns to 'active' once revocation was
\* requested, and 'revoked' is final.
RevocationIsFinal ==
    [][\A d \in Devices :
          /\ devState[d] = "revocation_pending" =>
                devState'[d] \in {"revocation_pending", "revoked"}
          /\ devState[d] = "revoked" => devState'[d] = "revoked"]_storeVars

\* The store is a DeviceService: whatever gateways, the operator and other
\* requests do, an answer is a repeated one or shares no address with the
\* answer of any device that is not revoked, answers do not change, and a
\* device goes one way from active to revoked.
Promised == INSTANCE DeviceService
                WITH state <- devState, owner <- devOwner, answers <- idem

StoreKeepsPromise == Promised!Promise

\* What docs/control-plane.md says of DELETE /devices/{id}: the assignment is
\* marked removal_pending in the transaction that makes the device
\* revocation_pending.
RevocationMarksAssignment ==
    \A s \in DOMAIN assignments :
        devState[assignments[s].device] = "revocation_pending" =>
            assignments[s].state \in {"removal_pending", "removed"}
=============================================================================
