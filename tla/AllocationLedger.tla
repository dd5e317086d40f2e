------------------------- MODULE AllocationLedger -------------------------
(***************************************************************************)
(* What the tables of the control store promise in the order in which      *)
(* transactions COMMIT (migrations/0001_initial.sql: the partial unique    *)
(* indexes of ip_leases and peer_assignments, capacity_peers).             *)
(*                                                                         *)
(* ControlStore decides and commits in one step.  In the database a        *)
(* transaction decides on the snapshot it took when it began.  The serial  *)
(* order that SERIALIZABLE guarantees need not be the order of the         *)
(* commits, so that, seen from outside, an allocation may not take the     *)
(* FIRST free address or the LEAST loaded gateway, and a confirmation may  *)
(* miss an assignment that was inserted while it ran.  This module allows  *)
(* exactly that and nothing more: both ControlStore and StoreTransactions  *)
(* implement it.                                                           *)
(***************************************************************************)
EXTENDS ControlStore

\* Any ready gateway of the region with room, any free host addresses.
AllocateFree(u, d, r, k) ==
    /\ Admitted(u, d)
    /\ ~Stored(d, k)
    /\ r \in available
    /\ LiveSlots(d) = {}
    /\ \E g \in ready, s \in Slots \ DOMAIN leases,
          v4 \in HostCandidates(Pool4[r]) \ UsedV4(r),
          v6 \in HostCandidates(Pool6[r]) \ UsedV6(r) :
             /\ GatewayRegion[g] = r
             /\ Load(g) < Capacity[g]
             /\ InsertAllocation(d, r, k, s, g, v4, v6)
    /\ UNCHANGED <<devState, devOwner, ready, available>>

\* The effect of a confirmation that sees the assignments of `seen`.
ConfirmAmong(g, gen, seen) ==
    /\ assignments' = [s \in DOMAIN assignments |->
                          IF s \in seen THEN ConfirmedAssignments(g, gen)[s]
                                        ELSE assignments[s]]
    /\ LET removed == RemovedFrom(g, assignments')
       IN  /\ leases' = [s \in DOMAIN leases |->
                            IF s \in removed
                            THEN [leases[s] EXCEPT !.released = TRUE]
                            ELSE leases[s]]
           /\ devState' = [d \in Devices |->
                            IF /\ devState[d] = "revocation_pending"
                               /\ \E s \in removed : assignments[s].device = d
                            THEN "revoked"
                            ELSE devState[d]]
    /\ UNCHANGED <<devOwner, idem, ready, available>>

LedgerNext ==
    \/ \E u \in Users, d \in Devices :
          \/ RegisterDevice(u, d)
          \/ RequestRevocation(u, d)
          \/ \E r \in Regions, k \in IdemKeys :
                \/ ReuseConfiguration(u, d, r, k)
                \/ AllocateFree(u, d, r, k)
    \/ OperatorNext
    \/ \E g \in Gateways, gen \in 1..MaxGeneration, seen \in SUBSET Slots :
          ConfirmAmong(g, gen, seen)

LedgerSpec == StoreInit /\ [][LedgerNext]_storeVars
=============================================================================
