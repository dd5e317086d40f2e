------------------------ MODULE StoreTransactions ------------------------
(***************************************************************************)
(* The two SERIALIZABLE transactions of postgres/store.go,                 *)
(* CreateTunnelConfiguration and ConfirmGatewaySnapshot, statement by      *)
(* statement, run concurrently by the API's handlers over the committed    *)
(* tables of ControlStore.                                                 *)
(*                                                                         *)
(* PostgreSQL is external.  A transaction reads the tables as they were    *)
(* when its first statement began, so that what every statement of it will *)
(* read is known then (read).  FOR UPDATE and UPDATE wait for the holder   *)
(* of a row and fail with 40001 when the row was changed since.            *)
(* pg_advisory_xact_lock waits and changes nothing of that.  A unique      *)
(* index looks at the committed tables.  Of serializability only one       *)
(* consequence is used: two concurrent allocations in a region, each of    *)
(* which reads what the other writes, do not both commit.  PostgreSQL      *)
(* aborts more than that, and any transaction may roll back at any time    *)
(* (refusal, 40001, unique violation, the five seconds of                  *)
(* operationTimeout, a cancelled request): RollBack.                       *)
(***************************************************************************)
EXTENDS AllocationLedger

CONSTANTS
    Handlers,           \* transactions under way
    KeysOf              \* the idempotency keys a device's client makes up

ASSUME TransactionsAssumption == KeysOf \in [Devices -> SUBSET IdemKeys]

VARIABLE tx             \* by handler: what its transaction has done so far

txVars == <<storeVars, tx>>

Idle == [step |-> "idle"]

\* What a configuration transaction has read and decided before it has.
Nothing == [kind |-> "none"]

Goto(t, step) == tx' = [tx EXCEPT ![t].step = step]

\* What was read is not looked at again.
Decide(t, plan) ==
    tx' = [tx EXCEPT ![t].step = "commit", ![t].plan = plan, ![t].read = Nothing]

(***************************************************************************)
(* Locks, all kept until the transaction ends.                             *)
(***************************************************************************)
HoldsDevice(t, d) ==
    tx[t].step \in {"region", "rows", "commit"} /\ tx[t].device = d

\* The advisory lock of the region's id, then the row of regions.
HoldsRegion(t, r) == tx[t].step \in {"rows", "commit"} /\ tx[t].region = r

\* Locked by FOR UPDATE OF g, whichever query found the row.
HoldsGateway(t, g) == tx[t].step = "commit" /\ tx[t].plan.gateway = g

\* The assignment and lease found by the query for a live allocation.
HoldsSlot(t, s) ==
    tx[t].step = "commit" /\ tx[t].plan.kind # "allocate" /\ tx[t].plan.slot = s

Others(t) == Handlers \ {t}

\* Row ids are never generated twice.
PlannedSlots == {tx[t].plan.slot : t \in {o \in Handlers : tx[o].step = "commit"}}

-----------------------------------------------------------------------------
(***************************************************************************)
(* CreateTunnelConfiguration(u, d, r, k).                                  *)
(***************************************************************************)
\* What the statements read: the region; the live allocations of the device;
\* the gateways that would be picked, by the rows that turn out to be locked;
\* the first free addresses, if any.
Reading(d, r) ==
    [open |-> r \in available,
     live |-> [s \in LiveSlots(d) |->
                  [assignment |-> assignments[s], lease |-> leases[s],
                   up |-> assignments[s].gateway \in ready]],
     pick |-> [locked \in SUBSET Gateways |-> PickGateway(r, locked)],
     v4 |-> FirstFree(Pool4[r], UsedV4(r)),
     v6 |-> FirstFree(Pool6[r], UsedV6(r))]

\* BEGIN, and the device query up to its row lock: the device is the user's
\* and active, the key is new (otherwise nothing is written).  missed
\* collects the regions in which others commit an allocation from now on.
BeginConfiguration(t, u, d, r, k) ==
    /\ tx[t] = Idle
    /\ Admitted(u, d)
    /\ ~Stored(d, k)
    /\ tx' = [tx EXCEPT ![t] =
           [step |-> "device", user |-> u, device |-> d, region |-> r, key |-> k,
            read |-> Reading(d, r), missed |-> {}, plan |-> Nothing]]
    /\ UNCHANGED storeVars

\* Mutant: the device is read without FOR UPDATE.
LockDeviceUnlocked(t) ==
    /\ tx[t].step = "device"
    /\ Goto(t, "region")
    /\ UNCHANGED storeVars

\* The row of the device is locked; it is as it was.
LockDevice(t) ==
    LET d == tx[t].device IN
    /\ tx[t].step = "device"
    /\ \A o \in Others(t) : ~HoldsDevice(o, d)
    /\ Admitted(tx[t].user, d)
    /\ Goto(t, "region")
    /\ UNCHANGED storeVars

\* pg_advisory_xact_lock, then the region's row, open then and now.
LockRegion(t) ==
    LET r == tx[t].region IN
    /\ tx[t].step = "region"
    /\ \A o \in Others(t) : ~HoldsRegion(o, r)
    /\ tx[t].read.open
    /\ r \in available
    /\ Goto(t, "rows")
    /\ UNCHANGED storeVars

\* A live allocation is found: FOR UPDATE OF pa, l, g.  One of another
\* region is an error: nothing is left but to roll back.
FindAllocation(t) ==
    /\ tx[t].step = "rows"
    /\ \E s \in DOMAIN tx[t].read.live :
          LET found == tx[t].read.live[s]
              g == found.assignment.gateway
          IN  /\ \A o \in Others(t) : ~HoldsGateway(o, g)
              /\ assignments[s] = found.assignment
              /\ leases[s] = found.lease
              /\ (g \in ready) = found.up
              /\ Decide(t, [kind |-> IF found.lease.region = tx[t].region
                                     THEN "reuse" ELSE "refuse",
                            slot |-> s, gateway |-> g,
                            v4 |-> found.lease.v4, v6 |-> found.lease.v6])
    /\ UNCHANGED storeVars

\* The INSERTs meet no unique index of the committed tables: the address
\* pairs of the region and the live allocation of the device.
NoUniqueViolation(d, r, v4, v6) ==
    \A s \in DOMAIN leases :
        HeldLease(s) => /\ leases[s].device # d
                        /\ leases[s].region = r =>
                              leases[s].v4 # v4 /\ leases[s].v6 # v6

\* None is found: a gateway is picked and locked (FOR UPDATE OF g SKIP
\* LOCKED), which is ready now as it was then; the least free addresses are
\* taken; lease and assignment are inserted.
PlanAllocation(t) ==
    LET read == tx[t].read
        locked == {g \in Gateways : \E o \in Others(t) : HoldsGateway(o, g)}
    IN  /\ tx[t].step = "rows"
        /\ DOMAIN read.live = {}
        /\ \E g \in read.pick[locked] \cap ready,
              v4 \in read.v4, v6 \in read.v6,
              s \in Slots \ (DOMAIN leases \cup PlannedSlots) :
                 /\ NoUniqueViolation(tx[t].device, tx[t].region, v4, v6)
                 /\ Decide(t, [kind |-> "allocate", slot |-> s, gateway |-> g,
                               v4 |-> v4, v6 |-> v6])
        /\ UNCHANGED storeVars

\* Mutant: the transaction runs at REPEATABLE READ.
SerializableRepeatableRead(t) == TRUE

\* No allocation of the region was committed since the view was taken.
Serializable(t) == tx[t].region \notin tx[t].missed

\* COMMIT of a new allocation; the primary key of idempotency_keys is free.
CommitAllocation(t) ==
    LET p == tx[t].plan IN
    /\ tx[t].step = "commit"
    /\ p.kind = "allocate"
    /\ Serializable(t)
    /\ ~Stored(tx[t].device, tx[t].key)
    /\ InsertAllocation(tx[t].device, tx[t].region, tx[t].key,
                        p.slot, p.gateway, p.v4, p.v6)
    /\ tx' = [o \in Handlers |->
                 IF o = t THEN Idle
                 ELSE IF tx[o].step \in {"idle", "confirm"} THEN tx[o]
                 ELSE [tx[o] EXCEPT !.missed = @ \cup {tx[t].region}]]
    /\ UNCHANGED <<devState, devOwner, ready, available>>

\* COMMIT of an existing allocation stored under a new key.
CommitReuse(t) ==
    LET p == tx[t].plan IN
    /\ tx[t].step = "commit"
    /\ p.kind = "reuse"
    /\ ~Stored(tx[t].device, tx[t].key)
    /\ idem' = Insert(idem, <<tx[t].device, tx[t].key>>,
           [region |-> tx[t].region,
            response |-> [assignment |-> p.slot, gateway |-> p.gateway,
                          v4 |-> p.v4, v6 |-> p.v6]])
    /\ tx' = [tx EXCEPT ![t] = Idle]
    /\ UNCHANGED <<devState, devOwner, leases, assignments, ready, available>>

\* Every refusal, failure and replay: the tables stay as they are.
RollBack(t) ==
    /\ tx[t] # Idle
    /\ tx' = [tx EXCEPT ![t] = Idle]
    /\ UNCHANGED storeVars

-----------------------------------------------------------------------------
(***************************************************************************)
(* ConfirmGatewaySnapshot(g, gen).                                         *)
(***************************************************************************)
\* BEGIN, and what the UPDATEs match in the tables as they are now: live
\* assignments up to the generation (nothing is written when there is none);
\* then, among the removed ones, held leases and devices to be revoked.
BeginConfirmation(t, g, gen) ==
    LET matched == {s \in DOMAIN assignments :
                       /\ assignments[s].gateway = g
                       /\ assignments[s].desired <= gen
                       /\ LiveAssignment(s)}
        removed == RemovedFrom(g, ConfirmedAssignments(g, gen))
    IN  /\ tx[t] = Idle
        /\ matched # {}
        /\ tx' = [tx EXCEPT ![t] =
               [step |-> "confirm", gateway |-> g, gen |-> gen,
                matched |-> [s \in matched |-> assignments[s]],
                released |-> {s \in removed : HeldLease(s)},
                revoked |-> {d \in Devices :
                                /\ devState[d] = "revocation_pending"
                                /\ \E s \in removed : assignments[s].device = d}]]
        /\ UNCHANGED storeVars

\* Mutant: UPDATEs at READ COMMITTED, which do not mind a changed row.
RowsUnchangedIgnored(t) == TRUE

\* No matched row was changed since then, or is locked.
RowsUnchanged(t) ==
    LET c == tx[t] IN
    /\ \A s \in DOMAIN c.matched : assignments[s] = c.matched[s]
    /\ \A s \in c.released : HeldLease(s)
    /\ \A d \in c.revoked : devState[d] = "revocation_pending"
    /\ \A o \in Others(t) :
          /\ \A s \in DOMAIN c.matched \cup c.released : ~HoldsSlot(o, s)
          /\ \A d \in c.revoked : ~HoldsDevice(o, d)

\* The UPDATEs and COMMIT.
CommitConfirmation(t) ==
    LET c == tx[t] IN
    /\ c.step = "confirm"
    /\ RowsUnchanged(t)
    /\ assignments' = [s \in DOMAIN assignments |->
                          IF s \in DOMAIN c.matched
                          THEN ConfirmedAssignments(c.gateway, c.gen)[s]
                          ELSE assignments[s]]
    /\ leases' = [s \in DOMAIN leases |->
                     [leases[s] EXCEPT !.released = @ \/ s \in c.released]]
    /\ devState' = [d \in Devices |-> IF d \in c.revoked THEN "revoked"
                                                         ELSE devState[d]]
    /\ tx' = [tx EXCEPT ![t] = Idle]
    /\ UNCHANGED <<devOwner, idem, ready, available>>

-----------------------------------------------------------------------------
(***************************************************************************)
(* The single-statement writers, which wait for the row they update.       *)
(***************************************************************************)
DeviceStatements ==
    \E u \in Users, d \in Devices :
        \/ RegisterDevice(u, d)
        \/ RequestRevocation(u, d) /\ \A t \in Handlers : ~HoldsDevice(t, d)

OperatorStatements ==
    \/ \E s \in Slots : OperatorMarksRemoval(s) /\ \A t \in Handlers : ~HoldsSlot(t, s)
    \/ \E g \in Drainable :
          OperatorSetsGateway(g) /\ \A t \in Handlers : ~HoldsGateway(t, g)
    \/ \E r \in Closable :
          OperatorSetsRegion(r) /\ \A t \in Handlers : ~HoldsRegion(t, r)

Init == StoreInit /\ tx = [t \in Handlers |-> Idle]

Next ==
    \/ \E t \in Handlers :
          \/ \E u \in Users, d \in Devices, r \in Regions : \E k \in KeysOf[d] :
                BeginConfiguration(t, u, d, r, k)
          \/ LockDevice(t)
          \/ LockRegion(t)
          \/ FindAllocation(t)
          \/ PlanAllocation(t)
          \/ CommitAllocation(t)
          \/ CommitReuse(t)
          \/ RollBack(t)
          \/ \E g \in Gateways, gen \in 1..MaxGeneration : BeginConfirmation(t, g, gen)
          \/ CommitConfirmation(t)
    \/ (DeviceStatements \/ OperatorStatements) /\ UNCHANGED tx

Spec == Init /\ [][Next]_txVars

-----------------------------------------------------------------------------
(***************************************************************************)
(* Properties, besides those of ControlStore over the committed tables.    *)
(***************************************************************************)
Steps == {"idle", "device", "region", "rows", "commit", "confirm"}

\* Type correctness of the tables and of the transactions under way; the
\* locks exclude each other.
TransactionsTypeOK ==
    /\ StoreTypeOK
    /\ \A t \in Handlers :
          /\ tx[t].step \in Steps
          /\ tx[t].step = "commit" =>
                /\ tx[t].plan.slot \in Slots
                /\ tx[t].plan.gateway \in Gateways
                /\ {tx[t].plan.v4, tx[t].plan.v6} \subseteq Nat
    /\ \A t, o \in Handlers :
          t # o =>
            /\ \A d \in Devices : ~(HoldsDevice(t, d) /\ HoldsDevice(o, d))
            /\ \A r \in Regions : ~(HoldsRegion(t, r) /\ HoldsRegion(o, r))
            /\ \A g \in Gateways : ~(HoldsGateway(t, g) /\ HoldsGateway(o, g))
=============================================================================
