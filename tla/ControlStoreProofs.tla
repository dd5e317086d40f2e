------------------------ MODULE ControlStoreProofs ------------------------
(***************************************************************************)
(* Proofs about ControlStore, for every value of its constants.            *)
(*                                                                         *)
(* The invariants are proved of AllocationLedger, which leaves more choice *)
(* to an allocation and a confirmation than ControlStore does, and are     *)
(* inherited by everything that implements it.                             *)
(***************************************************************************)
EXTENDS AllocationLedger, FiniteSetTheorems, TLAPS

-----------------------------------------------------------------------------
(***************************************************************************)
(* Tables.                                                                 *)
(***************************************************************************)
\* Inserting a well-formed row keeps a table well-formed.
LEMMA InsertKeepsTable ==
    ASSUME NEW table, NEW K, NEW Row, NEW id \in K, NEW row \in Row,
           IsTable(table, K, Row)
    PROVE  IsTable(Insert(table, id, row), K, Row)
BY DEF Insert, IsTable

\* Host addresses are offsets into the pool (firstAvailableAddress).
LEMMA HostsAreOffsets ==
    ASSUME NEW pool, NEW a \in HostCandidates(pool)
    PROVE  a \in Nat
BY MaxAttemptsAssumption DEF HostCandidates

-----------------------------------------------------------------------------
(***************************************************************************)
(* Type correctness.                                                       *)
(***************************************************************************)
\* The rows that InsertAllocation writes are well-formed.
LEMMA AllocateTyped ==
    ASSUME StoreTypeOK,
           NEW u \in Users, NEW d \in Devices, NEW r \in Regions,
           NEW k \in IdemKeys, AllocateFree(u, d, r, k)
    PROVE  StoreTypeOK'
<1>1. PICK g \in ready, s \in Slots, v4 \in Nat, v6 \in Nat :
          InsertAllocation(d, r, k, s, g, v4, v6)
  BY HostsAreOffsets DEF AllocateFree
<1>2. g \in Gateways
  BY DEF StoreTypeOK
<1>3. IsTable(leases, Slots, Lease)'
  BY <1>1, InsertKeepsTable DEF InsertAllocation, StoreTypeOK, Lease
<1>4. IsTable(assignments, Slots, Assignment)'
  BY <1>1, <1>2, InsertKeepsTable
  DEF InsertAllocation, StoreTypeOK, Assignment, AssignmentStates, LiveStates
<1>5. IsTable(idem, Devices \X IdemKeys, StoredResponse)'
  <2>1. [region |-> r,
         response |-> [assignment |-> s, gateway |-> g, v4 |-> v4, v6 |-> v6]]
           \in StoredResponse
    BY <1>2 DEF StoredResponse, Configuration
  <2>2. <<d, k>> \in Devices \X IdemKeys
    OBVIOUS
  <2> QED
    BY <1>1, <2>1, <2>2, InsertKeepsTable DEF InsertAllocation, StoreTypeOK
<1> QED
  BY <1>3, <1>4, <1>5 DEF AllocateFree, StoreTypeOK

\* A response stored again under a new key is well typed.
LEMMA ReuseTyped ==
    ASSUME StoreTypeOK,
           NEW u \in Users, NEW d \in Devices, NEW r \in Regions,
           NEW k \in IdemKeys, ReuseConfiguration(u, d, r, k)
    PROVE  StoreTypeOK'
<1>1. PICK s \in LiveSlots(d) :
          idem' = Insert(idem, <<d, k>>,
                 [region |-> r,
                  response |-> [assignment |-> s,
                                gateway |-> assignments[s].gateway,
                                v4 |-> leases[s].v4, v6 |-> leases[s].v6]])
  BY DEF ReuseConfiguration, Reusable
<1>2. /\ s \in Slots
      /\ assignments[s].gateway \in Gateways
      /\ leases[s].v4 \in Nat /\ leases[s].v6 \in Nat
  BY DEF LiveSlots, LiveAssignment, HeldLease, StoreTypeOK, IsTable, Lease, Assignment
<1>3. [region |-> r,
       response |-> [assignment |-> s, gateway |-> assignments[s].gateway,
                     v4 |-> leases[s].v4, v6 |-> leases[s].v6]]
         \in StoredResponse
  BY <1>2 DEF StoredResponse, Configuration
<1>4. <<d, k>> \in Devices \X IdemKeys
  OBVIOUS
<1>5. IsTable(idem, Devices \X IdemKeys, StoredResponse)'
  BY <1>1, <1>3, <1>4, InsertKeepsTable DEF StoreTypeOK
<1> QED
  BY <1>5 DEF ReuseConfiguration, StoreTypeOK

\* The three UPDATEs of ConfirmGatewaySnapshot keep the tables well typed.
LEMMA ConfirmTyped ==
    ASSUME StoreTypeOK, NEW g \in Gateways, NEW gen \in 1..MaxGeneration,
           NEW seen \in SUBSET Slots, ConfirmAmong(g, gen, seen)
    PROVE  StoreTypeOK'
<1>1. IsTable(assignments, Slots, Assignment)'
  <2>1. ASSUME NEW s \in DOMAIN assignments
        PROVE  ConfirmedAssignments(g, gen)[s] \in Assignment
    <3>1. assignments[s] \in Assignment
      BY DEF StoreTypeOK, IsTable
    <3> QED
      BY <3>1 DEF ConfirmedAssignments, Assignment, AssignmentStates, LiveStates
  <2>2. DOMAIN assignments' = DOMAIN assignments
        /\ \A s \in DOMAIN assignments :
              assignments'[s] \in {ConfirmedAssignments(g, gen)[s], assignments[s]}
    BY DEF ConfirmAmong
  <2>3. assignments' = [s \in DOMAIN assignments' |-> assignments'[s]]
    BY DEF ConfirmAmong
  <2> QED
    BY <2>1, <2>2, <2>3 DEF StoreTypeOK, IsTable
<1>2. IsTable(leases, Slots, Lease)'
  BY DEF ConfirmAmong, StoreTypeOK, IsTable, Lease
<1>3. devState' \in [Devices -> DeviceStates]
  BY DEF ConfirmAmong, StoreTypeOK, DeviceStates
<1> QED
  BY <1>1, <1>2, <1>3 DEF ConfirmAmong, StoreTypeOK

\* The tables keep their types under every transaction.
LEMMA LedgerKeepsTypes ==
    ASSUME StoreTypeOK, [LedgerNext]_storeVars
    PROVE  StoreTypeOK'
<1>1. ASSUME NEW u \in Users, NEW d \in Devices, RegisterDevice(u, d)
      PROVE  StoreTypeOK'
  BY <1>1 DEF RegisterDevice, StoreTypeOK, DeviceStates
<1>2. ASSUME NEW u \in Users, NEW d \in Devices, RequestRevocation(u, d)
      PROVE  StoreTypeOK'
  BY <1>2 DEF RequestRevocation, RevocationState, StoreTypeOK, DeviceStates
<1>3. ASSUME NEW u \in Users, NEW d \in Devices, NEW r \in Regions,
             NEW k \in IdemKeys,
             \/ ReuseConfiguration(u, d, r, k)
             \/ AllocateFree(u, d, r, k)
      PROVE  StoreTypeOK'
  BY <1>3, ReuseTyped, AllocateTyped
<1>4. ASSUME NEW g \in Gateways, NEW gen \in 1..MaxGeneration,
             NEW seen \in SUBSET Slots, ConfirmAmong(g, gen, seen)
      PROVE  StoreTypeOK'
  BY <1>4, ConfirmTyped
<1>5. ASSUME NEW s \in Slots, OperatorMarksRemoval(s)
      PROVE  StoreTypeOK'
  BY <1>5 DEF OperatorMarksRemoval, StoreTypeOK, IsTable, Assignment,
              AssignmentStates, LiveStates
<1>6. ASSUME NEW g \in Drainable, OperatorSetsGateway(g)
      PROVE  StoreTypeOK'
  BY <1>6, ControlStoreAssumptions DEF OperatorSetsGateway, StoreTypeOK
<1>7. ASSUME NEW r \in Closable, OperatorSetsRegion(r)
      PROVE  StoreTypeOK'
  BY <1>7, ControlStoreAssumptions DEF OperatorSetsRegion, StoreTypeOK
<1>8. CASE UNCHANGED storeVars
  BY <1>8 DEF storeVars, StoreTypeOK
<1> QED
  BY <1>1, <1>2, <1>3, <1>4, <1>5, <1>6, <1>7, <1>8 DEF LedgerNext, OperatorNext

\* The tables of the ledger are well typed.
LEMMA LedgerTypeCorrect == LedgerSpec => []StoreTypeOK
<1>1. StoreInit => StoreTypeOK
  BY DEF StoreInit, StoreTypeOK, IsTable, DeviceStates
<1>2. StoreTypeOK /\ [LedgerNext]_storeVars => StoreTypeOK'
  BY LedgerKeepsTypes
<1> QED
  BY <1>1, <1>2, PTL DEF LedgerSpec

-----------------------------------------------------------------------------
(***************************************************************************)
(* ControlStore implements AllocationLedger.                               *)
(***************************************************************************)
\* The least loaded open gateway is one with room, and the first free
\* address is a free one.
LEMMA AllocationIsFree ==
    ASSUME NEW u \in Users, NEW d \in Devices, NEW r \in Regions,
           NEW k \in IdemKeys, AllocateConfiguration(u, d, r, k)
    PROVE  AllocateFree(u, d, r, k)
<1>1. PICK g \in UNION {PickGateway(r, locked) : locked \in SUBSET Gateways},
           v4 \in FirstFree(Pool4[r], UsedV4(r)),
           v6 \in FirstFree(Pool6[r], UsedV6(r)),
           s \in Slots \ DOMAIN leases :
              InsertAllocation(d, r, k, s, g, v4, v6)
  BY DEF AllocateConfiguration
<1>2. g \in ready /\ GatewayRegion[g] = r /\ Load(g) < Capacity[g]
  BY DEF PickGateway
<1>3. /\ v4 \in HostCandidates(Pool4[r]) \ UsedV4(r)
      /\ v6 \in HostCandidates(Pool6[r]) \ UsedV6(r)
  BY DEF FirstFree
<1> QED
  BY <1>1, <1>2, <1>3 DEF AllocateConfiguration, AllocateFree

\* A confirmation that runs by itself sees every assignment.
LEMMA ConfirmationSeesAll ==
    ASSUME StoreTypeOK, NEW g \in Gateways, NEW gen \in 1..MaxGeneration,
           ConfirmGatewaySnapshot(g, gen)
    PROVE  ConfirmAmong(g, gen, Slots)
<1>1. DOMAIN assignments \subseteq Slots
  BY DEF StoreTypeOK, IsTable
<1>2. DOMAIN ConfirmedAssignments(g, gen) = DOMAIN assignments
  BY DEF ConfirmedAssignments
<1>3. [s \in DOMAIN assignments |-> IF s \in Slots
                                    THEN ConfirmedAssignments(g, gen)[s]
                                    ELSE assignments[s]]
        = ConfirmedAssignments(g, gen)
  BY <1>1, <1>2 DEF ConfirmedAssignments
<1> QED
  BY <1>3 DEF ConfirmGatewaySnapshot, ConfirmAmong

\* Every transaction of ControlStore is one of the ledger; a refused request
\* is none.
LEMMA StoreStepIsLedgerStep ==
    ASSUME StoreTypeOK, [StoreNext]_storeVars
    PROVE  [LedgerNext]_storeVars
<1> SUFFICES ASSUME StoreNext
             PROVE  LedgerNext \/ UNCHANGED storeVars
  OBVIOUS
<1>1. ASSUME NEW u \in Users, NEW d \in Devices,
             RegisterDevice(u, d) \/ RequestRevocation(u, d)
      PROVE  LedgerNext
  BY <1>1 DEF LedgerNext
<1>2. ASSUME NEW u \in Users, NEW d \in Devices, NEW r \in Regions,
             NEW k \in IdemKeys,
             ReuseConfiguration(u, d, r, k) \/ AllocateConfiguration(u, d, r, k)
      PROVE  LedgerNext
  <2>1. ReuseConfiguration(u, d, r, k) \/ AllocateFree(u, d, r, k)
    BY <1>2, AllocationIsFree
  <2> QED
    BY <2>1 DEF LedgerNext
<1>3. ASSUME NEW u \in Users, NEW d \in Devices, NEW r \in Regions,
             NEW k \in IdemKeys, RefuseConfiguration(u, d, r, k)
      PROVE  UNCHANGED storeVars
  BY <1>3 DEF RefuseConfiguration
<1>4. ASSUME NEW g \in Gateways, NEW gen \in 1..MaxGeneration,
             ConfirmGatewaySnapshot(g, gen)
      PROVE  LedgerNext
  <2>1. ConfirmAmong(g, gen, Slots)
    BY <1>4, ConfirmationSeesAll
  <2>2. Slots \in SUBSET Slots
    OBVIOUS
  <2> QED
    BY <2>1, <2>2 DEF LedgerNext
<1>5. OperatorNext => LedgerNext
  BY DEF LedgerNext
<1> QED
  BY <1>1, <1>2, <1>3, <1>4, <1>5 DEF StoreNext, ClientNext

\* The store implements the ledger.
THEOREM StoreImplementsLedger == StoreSpec => LedgerSpec
<1>1. StoreInit => StoreTypeOK
  BY DEF StoreInit, StoreTypeOK, IsTable, DeviceStates
<1>2. StoreTypeOK /\ [StoreNext]_storeVars => [LedgerNext]_storeVars
  BY StoreStepIsLedgerStep
<1>3. StoreTypeOK /\ [LedgerNext]_storeVars => StoreTypeOK'
  BY LedgerKeepsTypes
<1> QED
  BY <1>1, <1>2, <1>3, PTL DEF StoreSpec, LedgerSpec

\* The tables of the control store are well typed.
THEOREM StoreTypeCorrect == StoreSpec => []StoreTypeOK
BY LedgerTypeCorrect, StoreImplementsLedger, PTL

-----------------------------------------------------------------------------
(***************************************************************************)
(* Safety.  None of the invariants is inductive alone.  The look-up of     *)
(* CreateTunnelConfiguration sees an allocation only through its live      *)
(* assignment, so its result is right only if leases and assignments move  *)
(* together (LeaseFollowsAssignment) and if an active device never has a   *)
(* removed one (RemovalsAreRevocations); the latter also keeps stored      *)
(* responses current and makes 'revoked' mean that nothing is live.        *)
(***************************************************************************)
\* Removals only ever concern devices whose revocation was requested.
RemovalsAreRevocations ==
    \A s \in DOMAIN assignments :
        assignments[s].state \in {"removal_pending", "removed"} =>
            devState[assignments[s].device] \in {"revocation_pending", "revoked"}

\* Nothing is removed before its device is revoked.
RemovedMeansRevoked ==
    \A s \in DOMAIN assignments :
        assignments[s].state = "removed" =>
            devState[assignments[s].device] = "revoked"

\* An active device with no live allocation never had one.
OneSlotPerDevice ==
    \A s, t \in DOMAIN leases :
        s # t => leases[s].device # leases[t].device

\* Only registered devices have rows in the other tables.
RowsOfRegisteredDevices ==
    /\ \A s \in DOMAIN leases : devState[leases[s].device] # "none"
    /\ \A e \in DOMAIN idem : devState[e[1]] # "none"

StoreInv ==
    /\ StoreTypeOK
    /\ LeaseFollowsAssignment
    /\ LiveAddressesUnique
    /\ RemovalsAreRevocations
    /\ RemovedMeansRevoked
    /\ OneSlotPerDevice
    /\ RowsOfRegisteredDevices
    /\ RevokedHoldsNothing
    /\ ReplayedConfigurationIsCurrent

\* RegisterDevice touches a device that has no rows yet.
LEMMA RegisterKeepsInv ==
    ASSUME StoreInv, StoreTypeOK', NEW u \in Users, NEW d \in Devices,
           RegisterDevice(u, d)
    PROVE  StoreInv'
<1>1. \A x \in Devices : devState'[x] = IF x = d THEN "active" ELSE devState[x]
  BY DEF RegisterDevice, StoreInv, StoreTypeOK
<1>2. \A s \in DOMAIN leases : leases[s].device \in Devices \ {d}
  BY DEF RegisterDevice, StoreInv, StoreTypeOK, IsTable, Lease,
         RowsOfRegisteredDevices
<1>3. \A e \in DOMAIN idem : e[1] \in Devices \ {d}
  BY DEF RegisterDevice, StoreInv, StoreTypeOK, IsTable, RowsOfRegisteredDevices
<1>4. UNCHANGED <<leases, assignments, idem>>
  BY DEF RegisterDevice
<1>5. LeaseFollowsAssignment' /\ LiveAddressesUnique' /\ OneSlotPerDevice'
  BY <1>4 DEF StoreInv, LeaseFollowsAssignment, LiveAddressesUnique,
              OneSlotPerDevice, HeldLease, LiveAssignment
<1>6. RemovalsAreRevocations' /\ RemovedMeansRevoked'
  BY <1>1, <1>2, <1>4 DEF StoreInv, LeaseFollowsAssignment, RemovalsAreRevocations,
     RemovedMeansRevoked
<1>7. RowsOfRegisteredDevices'
  BY <1>1, <1>2, <1>3, <1>4 DEF StoreInv, RowsOfRegisteredDevices
<1>8. RevokedHoldsNothing'
  BY <1>1, <1>4 DEF StoreInv, RevokedHoldsNothing, HeldLease, LiveAssignment
<1>9. ReplayedConfigurationIsCurrent'
  BY <1>1, <1>3, <1>4
  DEF StoreInv, ReplayedConfigurationIsCurrent, ResponseIsCurrent,
      HeldLease, LiveAssignment
<1> QED
  BY <1>5, <1>6, <1>7, <1>8, <1>9 DEF StoreInv

\* RequestRevocation only moves a device towards revocation_pending.
LEMMA RevocationKeepsInv ==
    ASSUME StoreInv, StoreTypeOK', NEW u \in Users, NEW d \in Devices,
           RequestRevocation(u, d)
    PROVE  StoreInv'
<1>1. \A x \in Devices :
         devState'[x] = IF x = d /\ devState[x] # "revoked"
                        THEN "revocation_pending" ELSE devState[x]
  BY DEF RequestRevocation, RevocationState, StoreInv, StoreTypeOK
<1>2. UNCHANGED <<leases, assignments, idem>>
  BY DEF RequestRevocation, RevocationState
<1>3. /\ \A s \in DOMAIN leases : leases[s].device \in Devices
      /\ \A s \in DOMAIN assignments : assignments[s].device \in Devices
      /\ \A e \in DOMAIN idem : e[1] \in Devices
  BY DEF StoreInv, StoreTypeOK, IsTable, Lease, Assignment
<1>4. LeaseFollowsAssignment' /\ LiveAddressesUnique' /\ OneSlotPerDevice'
  BY <1>2 DEF StoreInv, LeaseFollowsAssignment, LiveAddressesUnique,
              OneSlotPerDevice, HeldLease, LiveAssignment
<1>5. RemovalsAreRevocations' /\ RemovedMeansRevoked'
  BY <1>1, <1>2, <1>3 DEF StoreInv, RemovalsAreRevocations, RemovedMeansRevoked
<1>6. RowsOfRegisteredDevices'
  BY <1>1, <1>2, <1>3 DEF StoreInv, RowsOfRegisteredDevices
<1>7. RevokedHoldsNothing'
  BY <1>1, <1>2 DEF StoreInv, RevokedHoldsNothing, HeldLease, LiveAssignment
<1>8. ReplayedConfigurationIsCurrent'
  BY <1>1, <1>2, <1>3
  DEF StoreInv, ReplayedConfigurationIsCurrent, ResponseIsCurrent,
      HeldLease, LiveAssignment
<1> QED
  BY <1>4, <1>5, <1>6, <1>7, <1>8 DEF StoreInv

\* The stored response of a reuse is read from the rows it describes.
LEMMA ReuseKeepsInv ==
    ASSUME StoreInv, StoreTypeOK', NEW u \in Users, NEW d \in Devices,
           NEW r \in Regions, NEW k \in IdemKeys, ReuseConfiguration(u, d, r, k)
    PROVE  StoreInv'
<1>1. PICK s \in LiveSlots(d) :
          /\ leases[s].region = r
          /\ idem' = Insert(idem, <<d, k>>,
                 [region |-> r,
                  response |-> [assignment |-> s,
                                gateway |-> assignments[s].gateway,
                                v4 |-> leases[s].v4, v6 |-> leases[s].v6]])
  BY DEF ReuseConfiguration, Reusable
<1>2. UNCHANGED <<devState, leases, assignments>>
  BY DEF ReuseConfiguration
<1>3. LeaseFollowsAssignment' /\ LiveAddressesUnique' /\ OneSlotPerDevice'
      /\ RemovalsAreRevocations' /\ RemovedMeansRevoked' /\ RevokedHoldsNothing'
  BY <1>2 DEF StoreInv, LeaseFollowsAssignment, LiveAddressesUnique,
              OneSlotPerDevice, RemovalsAreRevocations, RemovedMeansRevoked,
              RevokedHoldsNothing, HeldLease, LiveAssignment
<1>4. /\ DOMAIN idem' = DOMAIN idem \cup {<<d, k>>}
      /\ idem'[<<d, k>>] =
            [region |-> r,
             response |-> [assignment |-> s, gateway |-> assignments[s].gateway,
                           v4 |-> leases[s].v4, v6 |-> leases[s].v6]]
      /\ \A e \in DOMAIN idem : e # <<d, k>> => idem'[e] = idem[e]
  BY <1>1 DEF Insert
<1>5. RowsOfRegisteredDevices'
  BY <1>2, <1>4 DEF StoreInv, RowsOfRegisteredDevices, ReuseConfiguration, Admitted
<1>6. ReplayedConfigurationIsCurrent'
  <2> SUFFICES ASSUME NEW e \in DOMAIN idem', devState'[e[1]] = "active"
               PROVE  ResponseIsCurrent(e)'
    BY DEF ReplayedConfigurationIsCurrent
  <2>1. CASE e = <<d, k>>
    BY <2>1, <1>1, <1>2, <1>4
    DEF LiveSlots, LiveAssignment, HeldLease, ResponseIsCurrent
  <2>2. CASE e # <<d, k>>
    BY <2>2, <1>2, <1>4
    DEF StoreInv, ReplayedConfigurationIsCurrent, ResponseIsCurrent,
        LiveAssignment, HeldLease
  <2> QED
    BY <2>1, <2>2
<1> QED
  BY <1>3, <1>5, <1>6 DEF StoreInv

\* An allocation goes to an active device that has no row at all, at
\* addresses no unreleased lease of the region has.
LEMMA AllocateKeepsInv ==
    ASSUME StoreInv, StoreTypeOK', NEW u \in Users, NEW d \in Devices,
           NEW r \in Regions, NEW k \in IdemKeys, AllocateFree(u, d, r, k)
    PROVE  StoreInv'
<1>1. PICK g \in Gateways, s \in Slots \ DOMAIN leases, v4 \in Nat, v6 \in Nat :
          /\ GatewayRegion[g] = r
          /\ v4 \notin UsedV4(r) /\ v6 \notin UsedV6(r)
          /\ InsertAllocation(d, r, k, s, g, v4, v6)
  BY HostsAreOffsets DEF AllocateFree, StoreInv, StoreTypeOK
<1> DEFINE lease == [region |-> r, device |-> d, v4 |-> v4, v6 |-> v6,
                     released |-> FALSE]
           asg   == [device |-> d, gateway |-> g, state |-> "pending",
                     desired |-> 1, observed |-> 0]
           resp  == [region |-> r,
                     response |-> [assignment |-> s, gateway |-> g,
                                   v4 |-> v4, v6 |-> v6]]
<1>2. /\ DOMAIN leases' = DOMAIN leases \cup {s}
      /\ leases'[s] = lease
      /\ \A t \in DOMAIN leases : leases'[t] = leases[t]
  BY <1>1 DEF InsertAllocation, Insert
<1>3. /\ DOMAIN assignments' = DOMAIN assignments \cup {s}
      /\ assignments'[s] = asg
      /\ \A t \in DOMAIN assignments : assignments'[t] = assignments[t]
  BY <1>1 DEF InsertAllocation, Insert, StoreInv, LeaseFollowsAssignment
<1>4. /\ DOMAIN idem' = DOMAIN idem \cup {<<d, k>>}
      /\ idem'[<<d, k>>] = resp
      /\ \A e \in DOMAIN idem : e # <<d, k>> => idem'[e] = idem[e]
  BY <1>1 DEF InsertAllocation, Insert
<1>5. devState' = devState /\ devState[d] = "active"
  BY DEF AllocateFree, Admitted
<1>6. DOMAIN leases = DOMAIN assignments
  BY DEF StoreInv, LeaseFollowsAssignment
<1>7. \A t \in DOMAIN leases : leases[t].device # d
  <2> SUFFICES ASSUME NEW t \in DOMAIN leases, leases[t].device = d PROVE FALSE
    OBVIOUS
  <2>1. assignments[t].device = d /\ assignments[t].state \in AssignmentStates
    BY <1>6 DEF StoreInv, LeaseFollowsAssignment, StoreTypeOK, IsTable, Assignment
  <2>2. assignments[t].state # "removed"
    BY <1>5, <1>6, <2>1 DEF StoreInv, RemovalsAreRevocations
  <2>3. t \in LiveSlots(d)
    BY <1>6, <2>1, <2>2 DEF StoreInv, LeaseFollowsAssignment, LiveSlots,
       LiveAssignment, HeldLease, AssignmentStates
  <2> QED
    BY <2>3 DEF AllocateFree
<1>8. /\ LiveAssignment(s)' /\ HeldLease(s)'
      /\ \A t \in DOMAIN leases : /\ LiveAssignment(t)' <=> LiveAssignment(t)
                                  /\ HeldLease(t)' <=> HeldLease(t)
  BY <1>2, <1>3, <1>6 DEF LiveAssignment, HeldLease, LiveStates
<1>9. LeaseFollowsAssignment'
  BY <1>1, <1>2, <1>3, <1>6, <1>8 DEF StoreInv, LeaseFollowsAssignment
<1>10. LiveAddressesUnique'
  <2>1. \A t \in DOMAIN leases : HeldLease(t) /\ leases[t].region = r =>
            leases[t].v4 # v4 /\ leases[t].v6 # v6
    BY <1>1 DEF UsedV4, UsedV6
  <2> QED
    BY <1>2, <1>8, <2>1 DEF StoreInv, LiveAddressesUnique
<1>11. RemovalsAreRevocations' /\ RemovedMeansRevoked'
  BY <1>3, <1>5 DEF StoreInv, RemovalsAreRevocations, RemovedMeansRevoked
<1>12. OneSlotPerDevice'
  BY <1>2, <1>7 DEF StoreInv, OneSlotPerDevice
<1>13. RowsOfRegisteredDevices'
  BY <1>2, <1>4, <1>5 DEF StoreInv, RowsOfRegisteredDevices
<1>14. RevokedHoldsNothing'
  BY <1>2, <1>5, <1>8 DEF StoreInv, RevokedHoldsNothing
<1>15. ReplayedConfigurationIsCurrent'
  <2> SUFFICES ASSUME NEW e \in DOMAIN idem', devState'[e[1]] = "active"
               PROVE  ResponseIsCurrent(e)'
    BY DEF ReplayedConfigurationIsCurrent
  <2>1. CASE e = <<d, k>>
    BY <2>1, <1>2, <1>3, <1>4, <1>8 DEF ResponseIsCurrent
  <2>2. CASE e # <<d, k>>
    <3>1. e \in DOMAIN idem /\ idem'[e] = idem[e]
      BY <2>2, <1>4
    <3>2. idem[e].response.assignment \in DOMAIN leases
      BY <3>1, <1>5 DEF StoreInv, ReplayedConfigurationIsCurrent,
         ResponseIsCurrent, HeldLease
    <3> QED
      BY <3>1, <3>2, <1>2, <1>3, <1>5, <1>6, <1>8
      DEF StoreInv, ReplayedConfigurationIsCurrent, ResponseIsCurrent
  <2> QED
    BY <2>1, <2>2
<1> QED
  BY <1>9, <1>10, <1>11, <1>12, <1>13, <1>14, <1>15 DEF StoreInv

\* A confirmation moves live assignments to active or removed, releases
\* exactly the leases of removed ones, and revokes only devices whose single
\* allocation is removed.
LEMMA ConfirmKeepsInv ==
    ASSUME StoreInv, StoreTypeOK', NEW g \in Gateways,
           NEW gen \in 1..MaxGeneration, NEW seen \in SUBSET Slots,
           ConfirmAmong(g, gen, seen)
    PROVE  StoreInv'
<1> DEFINE removed == RemovedFrom(g, assignments')
<1>1. /\ DOMAIN leases = DOMAIN assignments
      /\ DOMAIN assignments' = DOMAIN assignments
      /\ DOMAIN leases' = DOMAIN leases
      /\ idem' = idem
  BY DEF StoreInv, LeaseFollowsAssignment, ConfirmAmong
<1>2. \A s \in DOMAIN assignments :
         /\ assignments'[s].device = assignments[s].device
         /\ assignments'[s].gateway = assignments[s].gateway
         /\ assignments[s].state \in AssignmentStates
         /\ \/ assignments'[s].state = assignments[s].state
            \/ /\ assignments'[s].state = "active"
               /\ assignments[s].state \in {"pending", "active"}
            \/ /\ assignments'[s].state = "removed"
               /\ assignments[s].state = "removal_pending"
               /\ assignments[s].gateway = g
  <2> TAKE s \in DOMAIN assignments
  <2> DEFINE a == assignments[s]
             hit == /\ s \in seen
                    /\ a.gateway = g /\ a.desired <= gen /\ a.state \in LiveStates
  <2>1. a \in Assignment
    BY DEF StoreInv, StoreTypeOK, IsTable
  <2>2. CASE hit
    <3>1. assignments'[s] =
             [a EXCEPT !.state = IF a.state = "removal_pending" THEN "removed"
                                                                ELSE "active",
                       !.observed = a.desired]
      BY <2>2 DEF ConfirmAmong, ConfirmedAssignments
    <3> QED
      BY <2>1, <2>2, <3>1 DEF Assignment, AssignmentStates, LiveStates
  <2>3. CASE ~hit
    <3>1. assignments'[s] = a
      BY <2>3 DEF ConfirmAmong, ConfirmedAssignments
    <3> QED
      BY <2>1, <3>1 DEF Assignment
  <2> QED
    BY <2>2, <2>3
<1>3. \A s \in DOMAIN leases :
         /\ leases'[s].region = leases[s].region
         /\ leases'[s].device = leases[s].device
         /\ leases'[s].v4 = leases[s].v4
         /\ leases'[s].v6 = leases[s].v6
         /\ leases[s].released \in BOOLEAN
         /\ leases'[s].released = (leases[s].released \/ s \in removed)
  BY DEF StoreInv, StoreTypeOK, IsTable, Lease, ConfirmAmong
<1>4. \A d \in Devices :
         /\ \/ devState'[d] = devState[d]
            \/ /\ devState[d] = "revocation_pending"
               /\ devState'[d] = "revoked"
               /\ \E s \in removed : assignments[s].device = d
         /\ devState[d] = "revocation_pending" =>
               \A s \in removed : assignments[s].device = d =>
                                      devState'[d] = "revoked"
  BY DEF ConfirmAmong
<1>5. removed \subseteq DOMAIN leases
      /\ \A s \in DOMAIN leases :
            s \in removed <=> /\ assignments[s].gateway = g
                              /\ assignments'[s].state = "removed"
  BY <1>1, <1>2 DEF RemovedFrom
<1>6. \A s \in DOMAIN leases :
         /\ LiveAssignment(s) <=> ~(assignments[s].state = "removed")
         /\ LiveAssignment(s)' <=> ~(assignments'[s].state = "removed")
         /\ HeldLease(s) <=> ~leases[s].released
         /\ HeldLease(s)' <=> ~leases'[s].released
  <2>1. \A s \in DOMAIN leases : assignments'[s].state \in AssignmentStates
    BY <1>1, <1>2 DEF AssignmentStates, LiveStates
  <2> QED
    BY <2>1, <1>1, <1>2 DEF LiveAssignment, HeldLease, AssignmentStates, LiveStates
<1>7. LeaseFollowsAssignment'
  <2> SUFFICES ASSUME NEW s \in DOMAIN leases
               PROVE  /\ HeldLease(s)' <=> LiveAssignment(s)'
                      /\ leases'[s].device = assignments'[s].device
                      /\ leases'[s].region = GatewayRegion[assignments'[s].gateway]
    BY <1>1 DEF LeaseFollowsAssignment
  <2>1. /\ HeldLease(s) <=> LiveAssignment(s)
        /\ leases[s].device = assignments[s].device
        /\ leases[s].region = GatewayRegion[assignments[s].gateway]
    BY DEF StoreInv, LeaseFollowsAssignment
  <2>2. leases[s].released <=> assignments[s].state = "removed"
    BY <2>1, <1>6
  <2>3. leases'[s].released <=> assignments'[s].state = "removed"
    BY <2>2, <1>1, <1>2, <1>3, <1>5
  <2> QED
    BY <2>1, <2>3, <1>1, <1>2, <1>3, <1>6
<1>8. LiveAddressesUnique'
  BY <1>1, <1>3, <1>6 DEF StoreInv, LiveAddressesUnique
<1>9. OneSlotPerDevice'
  BY <1>1, <1>3 DEF StoreInv, OneSlotPerDevice
<1>10. /\ \A s \in DOMAIN leases : leases[s].device \in Devices
       /\ \A s \in DOMAIN assignments : assignments[s].device \in Devices
       /\ \A e \in DOMAIN idem : e[1] \in Devices
  BY DEF StoreInv, StoreTypeOK, IsTable, Lease, Assignment
<1>11. RemovalsAreRevocations' /\ RemovedMeansRevoked'
  <2>1. RemovalsAreRevocations'
    BY <1>1, <1>2, <1>4, <1>10 DEF StoreInv, RemovalsAreRevocations
  <2>2. ASSUME NEW s \in DOMAIN assignments, assignments'[s].state = "removed"
        PROVE  devState'[assignments[s].device] = "revoked"
    <3>1. CASE assignments[s].state = "removed"
      BY <3>1, <1>4, <1>10 DEF StoreInv, RemovedMeansRevoked
    <3>2. CASE assignments[s].state = "removal_pending"
      <4>1. s \in removed
        BY <2>2, <3>2, <1>1, <1>2, <1>5
      <4>2. devState[assignments[s].device] \in {"revocation_pending", "revoked"}
        BY <3>2 DEF StoreInv, RemovalsAreRevocations
      <4> QED
        BY <4>1, <4>2, <1>4, <1>10
    <3> QED
      BY <2>2, <3>1, <3>2, <1>2
  <2> QED
    BY <2>1, <2>2, <1>1, <1>2 DEF RemovedMeansRevoked
<1>12. RowsOfRegisteredDevices'
  BY <1>1, <1>3, <1>4, <1>10 DEF StoreInv, RowsOfRegisteredDevices
<1>13. RevokedHoldsNothing'
  <2> SUFFICES ASSUME NEW d \in Devices, devState'[d] = "revoked",
                      NEW s \in DOMAIN leases', leases'[s].device = d
               PROVE  ~HeldLease(s)' /\ ~LiveAssignment(s)'
    BY DEF RevokedHoldsNothing
  <2>1. CASE devState[d] = "revoked"
    <3>1. ~HeldLease(s) /\ ~LiveAssignment(s)
      BY <2>1, <1>1, <1>3 DEF StoreInv, RevokedHoldsNothing
    <3> QED
      BY <3>1, <1>1, <1>2, <1>3, <1>6
  <2>2. CASE devState[d] # "revoked"
    <3>1. PICK t \in removed : assignments[t].device = d
      BY <2>2, <1>4
    <3>2. t = s
      BY <3>1, <1>1, <1>3, <1>5 DEF StoreInv, LeaseFollowsAssignment, OneSlotPerDevice
    <3> QED
      BY <3>2, <1>1, <1>3, <1>5, <1>6
  <2> QED
    BY <2>1, <2>2
<1>14. ReplayedConfigurationIsCurrent'
  <2> SUFFICES ASSUME NEW e \in DOMAIN idem', devState'[e[1]] = "active"
               PROVE  ResponseIsCurrent(e)'
    BY DEF ReplayedConfigurationIsCurrent
  <2> DEFINE s == idem[e].response.assignment
  <2>1. devState[e[1]] = "active" /\ e \in DOMAIN idem
    BY <1>1, <1>4, <1>10
  <2>2. ResponseIsCurrent(e)
    BY <2>1 DEF StoreInv, ReplayedConfigurationIsCurrent
  <2>3. /\ s \in DOMAIN leases
        /\ assignments[s].device = e[1]
        /\ LiveAssignment(s) /\ HeldLease(s)
    BY <2>2 DEF ResponseIsCurrent, HeldLease
  <2>4. assignments[s].state # "removal_pending"
    BY <2>1, <2>3, <1>1 DEF StoreInv, RemovalsAreRevocations
  <2>5. LiveAssignment(s)' /\ HeldLease(s)'
    BY <2>3, <2>4, <1>1, <1>2, <1>3, <1>5, <1>6
  <2> QED
    BY <2>2, <2>3, <2>5, <1>1, <1>2, <1>3 DEF ResponseIsCurrent
<1> QED
  BY <1>7, <1>8, <1>9, <1>11, <1>12, <1>13, <1>14 DEF StoreInv

\* Marking a removal keeps the assignment live and its device revoking.
LEMMA MarkKeepsInv ==
    ASSUME StoreInv, StoreTypeOK', NEW s \in Slots, OperatorMarksRemoval(s)
    PROVE  StoreInv'
<1>1. /\ DOMAIN assignments' = DOMAIN assignments
      /\ UNCHANGED <<devState, leases, idem>>
      /\ devState[assignments[s].device] = "revocation_pending"
  BY DEF OperatorMarksRemoval
<1>2. \A t \in DOMAIN assignments :
         /\ assignments'[t].device = assignments[t].device
         /\ assignments'[t].gateway = assignments[t].gateway
         /\ t # s => assignments'[t] = assignments[t]
         /\ LiveAssignment(t)' <=> LiveAssignment(t)
         /\ HeldLease(t)' <=> HeldLease(t)
  BY DEF OperatorMarksRemoval, StoreInv, StoreTypeOK, IsTable, Assignment,
         LiveAssignment, HeldLease, LiveStates
<1>3. LeaseFollowsAssignment' /\ LiveAddressesUnique' /\ OneSlotPerDevice'
      /\ RowsOfRegisteredDevices'
  BY <1>1, <1>2 DEF StoreInv, LeaseFollowsAssignment, LiveAddressesUnique,
     OneSlotPerDevice, RowsOfRegisteredDevices
<1>4. RemovalsAreRevocations' /\ RemovedMeansRevoked'
  <2>1. RemovalsAreRevocations'
    BY <1>1, <1>2 DEF StoreInv, RemovalsAreRevocations
  <2>2. s \in DOMAIN assignments /\ assignments'[s].state = "removal_pending"
    BY DEF OperatorMarksRemoval, StoreInv, StoreTypeOK, IsTable, Assignment
  <2> QED
    BY <1>1, <1>2, <2>1, <2>2 DEF StoreInv, RemovedMeansRevoked
<1>5. RevokedHoldsNothing'
  BY <1>1, <1>2 DEF StoreInv, LeaseFollowsAssignment, RevokedHoldsNothing
<1>6. ReplayedConfigurationIsCurrent'
  BY <1>1, <1>2 DEF StoreInv, LeaseFollowsAssignment,
     ReplayedConfigurationIsCurrent, ResponseIsCurrent, LiveAssignment
<1> QED
  BY <1>3, <1>4, <1>5, <1>6 DEF StoreInv

\* Steps that leave devices, leases, assignments and responses alone.
LEMMA OtherStepsKeepInv ==
    ASSUME StoreInv, StoreTypeOK', UNCHANGED <<devState, leases, assignments, idem>>
    PROVE  StoreInv'
BY DEF StoreInv, LeaseFollowsAssignment, LiveAddressesUnique, OneSlotPerDevice,
       RemovalsAreRevocations, RemovedMeansRevoked, RowsOfRegisteredDevices,
       RevokedHoldsNothing, ReplayedConfigurationIsCurrent, ResponseIsCurrent, HeldLease, LiveAssignment

\* StoreInv holds of the empty tables ...
LEMMA InitialInv ==
    ASSUME StoreInit
    PROVE  StoreInv
BY DEF StoreInit, StoreInv, StoreTypeOK, IsTable, DeviceStates,
       LeaseFollowsAssignment, LiveAddressesUnique, OneSlotPerDevice,
       RemovalsAreRevocations, RemovedMeansRevoked, RowsOfRegisteredDevices,
       RevokedHoldsNothing, ReplayedConfigurationIsCurrent

\* ... and every transaction of the ledger keeps it.
LEMMA LedgerKeepsInv ==
    ASSUME StoreInv, [LedgerNext]_storeVars
    PROVE  StoreInv'
<1>0. StoreTypeOK'
  BY LedgerKeepsTypes DEF StoreInv
<1>1. ASSUME NEW u \in Users, NEW d \in Devices, RegisterDevice(u, d)
      PROVE  StoreInv'
  BY <1>1, <1>0, RegisterKeepsInv
<1>2. ASSUME NEW u \in Users, NEW d \in Devices, RequestRevocation(u, d)
      PROVE  StoreInv'
  BY <1>2, <1>0, RevocationKeepsInv
<1>3. ASSUME NEW u \in Users, NEW d \in Devices, NEW r \in Regions,
             NEW k \in IdemKeys, ReuseConfiguration(u, d, r, k)
      PROVE  StoreInv'
  BY <1>3, <1>0, ReuseKeepsInv
<1>4. ASSUME NEW u \in Users, NEW d \in Devices, NEW r \in Regions,
             NEW k \in IdemKeys, AllocateFree(u, d, r, k)
      PROVE  StoreInv'
  BY <1>4, <1>0, AllocateKeepsInv
<1>5. ASSUME NEW g \in Gateways, NEW gen \in 1..MaxGeneration,
             NEW seen \in SUBSET Slots, ConfirmAmong(g, gen, seen)
      PROVE  StoreInv'
  BY <1>5, <1>0, ConfirmKeepsInv
<1>6. ASSUME NEW s \in Slots, OperatorMarksRemoval(s)
      PROVE  StoreInv'
  BY <1>6, <1>0, MarkKeepsInv
<1>7. ASSUME NEW g \in Drainable, OperatorSetsGateway(g)
      PROVE  StoreInv'
  BY <1>7, <1>0, OtherStepsKeepInv DEF OperatorSetsGateway
<1>8. ASSUME NEW r \in Closable, OperatorSetsRegion(r)
      PROVE  StoreInv'
  BY <1>8, <1>0, OtherStepsKeepInv DEF OperatorSetsRegion
<1>9. CASE UNCHANGED storeVars
  BY <1>9, <1>0, OtherStepsKeepInv DEF storeVars
<1> QED
  BY <1>1, <1>2, <1>3, <1>4, <1>5, <1>6, <1>7, <1>8, <1>9
  DEF LedgerNext, OperatorNext

\* StoreInv is an inductive invariant of the ledger.
LEMMA LedgerInvariant == LedgerSpec => []StoreInv
<1>1. StoreInit => StoreInv
  BY InitialInv
<1>2. StoreInv /\ [LedgerNext]_storeVars => StoreInv'
  BY LedgerKeepsInv
<1> QED
  BY <1>1, <1>2, PTL DEF LedgerSpec

\* StoreInv is an invariant of the store.
THEOREM StoreInvariant == StoreSpec => []StoreInv
BY LedgerInvariant, StoreImplementsLedger, PTL

\* The per-region unique indexes on live addresses never fire.
THEOREM AddressesNeverCollide == StoreSpec => []LiveAddressesUnique
<1>1. StoreInv => LiveAddressesUnique
  BY DEF StoreInv
<1> QED
  BY <1>1, StoreInvariant, PTL

\* The per-device unique indexes on live leases and assignments never fire.
THEOREM AllocationsNeverDouble == StoreSpec => []OneLiveAllocationPerDevice
<1>1. StoreInv => OneLiveAllocationPerDevice
  BY DEF StoreInv, OneSlotPerDevice, OneLiveAllocationPerDevice
<1> QED
  BY <1>1, StoreInvariant, PTL

\* Leases are held exactly while their assignments are live.
THEOREM LeasesFollowAssignments == StoreSpec => []LeaseFollowsAssignment
<1>1. StoreInv => LeaseFollowsAssignment
  BY DEF StoreInv
<1> QED
  BY <1>1, StoreInvariant, PTL

\* A device reported revoked holds no lease and no live assignment.
THEOREM RevokedDevicesHoldNothing == StoreSpec => []RevokedHoldsNothing
<1>1. StoreInv => RevokedHoldsNothing
  BY DEF StoreInv
<1> QED
  BY <1>1, StoreInvariant, PTL

\* Idempotent replays return the device's current configuration.
THEOREM ReplaysAreCurrent == StoreSpec => []ReplayedConfigurationIsCurrent
<1>1. StoreInv => ReplayedConfigurationIsCurrent
  BY DEF StoreInv
<1> QED
  BY <1>1, StoreInvariant, PTL

\* No transaction takes a device back from revocation_pending to active, or
\* out of revoked.
THEOREM RevocationNeverUndone == StoreSpec => RevocationIsFinal
<1> DEFINE Final == \A d \in Devices :
          /\ devState[d] = "revocation_pending" =>
                devState'[d] \in {"revocation_pending", "revoked"}
          /\ devState[d] = "revoked" => devState'[d] = "revoked"
<1>1. StoreTypeOK /\ [StoreNext]_storeVars => [Final]_storeVars
  <2> SUFFICES ASSUME StoreTypeOK, StoreNext
               PROVE  Final
    OBVIOUS
  <2>1. ASSUME NEW u \in Users, NEW d \in Devices, RegisterDevice(u, d)
        PROVE  Final
    BY <2>1 DEF RegisterDevice, StoreTypeOK
  <2>2. ASSUME NEW u \in Users, NEW d \in Devices, RequestRevocation(u, d)
        PROVE  Final
    BY <2>2 DEF RequestRevocation, RevocationState, StoreTypeOK
  <2>3. ASSUME NEW g \in Gateways, NEW gen \in 1..MaxGeneration,
               ConfirmGatewaySnapshot(g, gen)
        PROVE  Final
    BY <2>3 DEF ConfirmGatewaySnapshot
  <2>4. ASSUME UNCHANGED devState
        PROVE  Final
    BY <2>4
  <2> QED
    BY <2>1, <2>2, <2>3, <2>4
    DEF StoreNext, ClientNext, OperatorNext, RefuseConfiguration,
        ReuseConfiguration, AllocateConfiguration, OperatorMarksRemoval,
        OperatorSetsGateway, OperatorSetsRegion, storeVars
<1> QED
  BY <1>1, StoreTypeCorrect, PTL DEF StoreSpec, RevocationIsFinal

-----------------------------------------------------------------------------
(***************************************************************************)
(* Capacity.  Counting needs the table to be finite, which it is: rows are *)
(* inserted one at a time.                                                 *)
(***************************************************************************)
LiveOn(g) == {s \in DOMAIN assignments :
                 LiveAssignment(s) /\ assignments[s].gateway = g}

CapacityInv == IsFiniteSet(DOMAIN assignments) /\ CapacityRespected

\* Load(g) is a natural number as long as the table is finite.
LEMMA LoadIsNat ==
    ASSUME IsFiniteSet(DOMAIN assignments), NEW g
    PROVE  /\ IsFiniteSet(LiveOn(g))
           /\ Load(g) = Cardinality(LiveOn(g))
           /\ Load(g) \in Nat
<1>1. LiveOn(g) \subseteq DOMAIN assignments
  BY DEF LiveOn
<1>2. IsFiniteSet(LiveOn(g))
  BY <1>1, FS_Subset
<1>3. Load(g) = Cardinality(LiveOn(g))
  BY DEF Load, LiveOn
<1> QED
  BY <1>2, <1>3, FS_CardinalityType

\* A step that makes no assignment live raises no load.
LEMMA LoadShrinks ==
    ASSUME IsFiniteSet(DOMAIN assignments), DOMAIN assignments' = DOMAIN assignments,
           \A s \in DOMAIN assignments :
              /\ assignments'[s].gateway = assignments[s].gateway
              /\ LiveAssignment(s)' => LiveAssignment(s),
           CapacityRespected
    PROVE  CapacityInv'
<1>1. ASSUME NEW g \in Gateways PROVE Load(g)' <= Capacity[g]
  <2>1. LiveOn(g)' \subseteq LiveOn(g)
    BY DEF LiveOn
  <2>2. IsFiniteSet(LiveOn(g)) /\ Load(g) = Cardinality(LiveOn(g)) /\ Load(g) \in Nat
    BY LoadIsNat
  <2>3. Cardinality(LiveOn(g)') <= Cardinality(LiveOn(g))
        /\ Cardinality(LiveOn(g)') \in Nat
    BY <2>1, <2>2, FS_Subset, FS_CardinalityType
  <2>4. Load(g)' = Cardinality(LiveOn(g)')
    BY DEF Load, LiveOn
  <2>5. Capacity[g] \in Nat /\ Load(g) <= Capacity[g]
    BY ControlStoreAssumptions DEF CapacityRespected
  <2> QED
    BY <2>2, <2>3, <2>4, <2>5
<1> QED
  BY <1>1 DEF CapacityInv, CapacityRespected

\* An allocation adds one live assignment, to a gateway below capacity.
LEMMA AllocateKeepsCapacity ==
    ASSUME CapacityInv, StoreInv, NEW u \in Users, NEW d \in Devices,
           NEW r \in Regions, NEW k \in IdemKeys, AllocateFree(u, d, r, k)
    PROVE  CapacityInv'
<1>1. PICK g \in Gateways, s \in Slots \ DOMAIN leases, v4 \in Nat, v6 \in Nat :
          Load(g) < Capacity[g] /\ InsertAllocation(d, r, k, s, g, v4, v6)
  BY HostsAreOffsets DEF AllocateFree, StoreInv, StoreTypeOK
<1>2. /\ s \notin DOMAIN assignments
      /\ DOMAIN assignments' = DOMAIN assignments \cup {s}
      /\ assignments'[s].gateway = g
      /\ \A t \in DOMAIN assignments : assignments'[t] = assignments[t]
  BY <1>1 DEF InsertAllocation, Insert, StoreInv, LeaseFollowsAssignment
<1>3. IsFiniteSet(DOMAIN assignments')
  BY <1>2, FS_AddElement DEF CapacityInv
<1>4. ASSUME NEW h \in Gateways PROVE Load(h)' <= Capacity[h]
  <2>1. IsFiniteSet(LiveOn(h)) /\ Load(h) = Cardinality(LiveOn(h)) /\ Load(h) \in Nat
    BY LoadIsNat DEF CapacityInv
  <2>2. Load(h)' = Cardinality(LiveOn(h)')
    BY DEF Load, LiveOn
  <2>3. Capacity[h] \in Nat /\ Load(h) <= Capacity[h]
    BY ControlStoreAssumptions DEF CapacityInv, CapacityRespected
  <2>4. CASE h = g
    <3>1. LiveOn(h)' \subseteq LiveOn(h) \cup {s}
      BY <1>2 DEF LiveOn, LiveAssignment
    <3>2. s \notin LiveOn(h)
      BY <1>2 DEF LiveOn
    <3>3. /\ IsFiniteSet(LiveOn(h) \cup {s})
          /\ Cardinality(LiveOn(h) \cup {s}) = Cardinality(LiveOn(h)) + 1
      BY <2>1, <3>2, FS_AddElement
    <3>4. Cardinality(LiveOn(h)') <= Cardinality(LiveOn(h) \cup {s})
          /\ Cardinality(LiveOn(h)') \in Nat
      BY <3>1, <3>3, FS_Subset, FS_CardinalityType
    <3> QED
      BY <1>1, <2>1, <2>2, <2>3, <2>4, <3>3, <3>4
  <2>5. CASE h # g
    <3>1. LiveOn(h)' = LiveOn(h)
      BY <1>2, <2>5 DEF LiveOn, LiveAssignment
    <3> QED
      BY <2>1, <2>2, <2>3, <3>1
  <2> QED
    BY <2>4, <2>5
<1> QED
  BY <1>3, <1>4 DEF CapacityInv, CapacityRespected

\* The empty table respects every capacity ...
LEMMA InitialCapacity ==
    ASSUME StoreInit
    PROVE  CapacityInv
<1>1. DOMAIN assignments = {}
  BY DEF StoreInit
<1>2. IsFiniteSet(DOMAIN assignments)
  BY <1>1, FS_EmptySet
<1>3. \A g \in Gateways : LiveOn(g) = {}
  BY <1>1 DEF LiveOn
<1>4. \A g \in Gateways : Load(g) = 0
  BY <1>2, <1>3, LoadIsNat, FS_EmptySet
<1> QED
  BY <1>2, <1>4, ControlStoreAssumptions DEF CapacityInv, CapacityRespected

\* ... and no transaction of the ledger takes a gateway over capacity_peers.
LEMMA LedgerKeepsCapacity ==
    ASSUME CapacityInv, StoreInv, [LedgerNext]_storeVars
    PROVE  CapacityInv'
<1>1. ASSUME NEW u \in Users, NEW d \in Devices, NEW r \in Regions,
             NEW k \in IdemKeys, AllocateFree(u, d, r, k)
      PROVE  CapacityInv'
  BY <1>1, AllocateKeepsCapacity
<1>2. ASSUME NEW g \in Gateways, NEW gen \in 1..MaxGeneration,
             NEW seen \in SUBSET Slots, ConfirmAmong(g, gen, seen)
      PROVE  CapacityInv'
  <2>1. DOMAIN assignments' = DOMAIN assignments
    BY <1>2 DEF ConfirmAmong
  <2>2. ASSUME NEW s \in DOMAIN assignments
        PROVE  /\ assignments'[s].gateway = assignments[s].gateway
               /\ LiveAssignment(s)' => LiveAssignment(s)
    <3>1. assignments[s] \in Assignment
      BY DEF StoreInv, StoreTypeOK, IsTable
    <3> QED
      BY <1>2, <2>1, <3>1
      DEF ConfirmAmong, ConfirmedAssignments, Assignment, LiveAssignment
  <2> QED
    BY <2>1, <2>2, LoadShrinks DEF CapacityInv
<1>3. ASSUME NEW s \in Slots, OperatorMarksRemoval(s)
      PROVE  CapacityInv'
  <2>1. /\ DOMAIN assignments' = DOMAIN assignments
        /\ \A t \in DOMAIN assignments :
              /\ assignments'[t].gateway = assignments[t].gateway
              /\ LiveAssignment(t)' => LiveAssignment(t)
    BY <1>3 DEF OperatorMarksRemoval, StoreInv, StoreTypeOK, IsTable, Assignment,
                LiveAssignment, LiveStates
  <2> QED
    BY <2>1, LoadShrinks DEF CapacityInv
<1>4. ASSUME UNCHANGED assignments
      PROVE  CapacityInv'
  BY <1>4, LoadShrinks DEF CapacityInv, LiveAssignment
<1> QED
  BY <1>1, <1>2, <1>3, <1>4
  DEF LedgerNext, OperatorNext, RegisterDevice, RequestRevocation,
      ReuseConfiguration, OperatorSetsGateway, OperatorSetsRegion, storeVars

\* CapacityInv is an invariant of the ledger.
LEMMA LedgerCapacity == LedgerSpec => []CapacityInv
<1>1. StoreInit => CapacityInv
  BY InitialCapacity
<1>2. CapacityInv /\ StoreInv /\ [LedgerNext]_storeVars => CapacityInv'
  BY LedgerKeepsCapacity
<1> QED
  BY <1>1, <1>2, LedgerInvariant, PTL DEF LedgerSpec

\* No gateway is ever given more peers than capacity_peers.
THEOREM CapacityNeverExceeded == StoreSpec => []CapacityRespected
<1>1. CapacityInv => CapacityRespected
  BY DEF CapacityInv
<1> QED
  BY <1>1, LedgerCapacity, StoreImplementsLedger, PTL

\* Whatever implements the ledger keeps its tables consistent: a transaction
\* that decides on an older snapshot may pick another free address or gateway,
\* or miss an assignment it would confirm, without any index firing.
THEOREM LedgerSafety ==
    LedgerSpec => [](/\ LiveAddressesUnique
                     /\ OneLiveAllocationPerDevice
                     /\ LeaseFollowsAssignment
                     /\ RevokedHoldsNothing
                     /\ ReplayedConfigurationIsCurrent
                     /\ CapacityRespected)
<1>1. StoreInv => /\ LiveAddressesUnique
                  /\ OneLiveAllocationPerDevice
                  /\ LeaseFollowsAssignment
                  /\ RevokedHoldsNothing
                  /\ ReplayedConfigurationIsCurrent
  BY DEF StoreInv, OneSlotPerDevice, OneLiveAllocationPerDevice
<1>2. CapacityInv => CapacityRespected
  BY DEF CapacityInv
<1> QED
  BY <1>1, <1>2, LedgerInvariant, LedgerCapacity, PTL
=============================================================================
