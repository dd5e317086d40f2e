-------------------------- MODULE ControlService --------------------------
(***************************************************************************)
(* The in-memory implementation of the device service: control.Service in  *)
(* services/api/internal/control/service.go.                               *)
(*                                                                         *)
(* Every method holds the mutex from its first read to its last write, so  *)
(* one action is one call.  A device is identified with its public key,    *)
(* and an assignment (a random UUID) with the region and host number it    *)
(* was made for.  The two addresses 10.70.0.<host>/32 and fd70::<host>/128 *)
(* are the host number: they are the same in every region.                 *)
(***************************************************************************)
EXTENDS AddressPool, FiniteSets

CONSTANTS
    Users, Devices, Regions, IdemKeys, NoUser,
    Offered,            \* regions whose Available flag NewService was given
    LastHost            \* 254 in the code

\* How many values a counter of hosts has.
Uint16 == 65536

\* What the theorems about this module assume: the uint16 counters do not wrap.
ControlServiceAssumption ==
    /\ Offered \subseteq Regions
    /\ LastHost \in Nat
    /\ 1 < LastHost /\ LastHost + 1 < Uint16
    /\ NoUser \notin Users

VARIABLES
    state,              \* devices[d].State, "none" when there is no entry
    owner,              \* devices[d].ownerID
    idempotency,        \* by <<device, key>>; the owner is the device's
    regionNextHost      \* uint16

serviceVars == <<state, owner, idempotency, regionNextHost>>

NewService ==
    /\ state = [d \in Devices |-> "none"]
    /\ owner = [d \in Devices |-> NoUser]
    /\ idempotency = [e \in {} |-> e]
    /\ regionNextHost = [r \in Regions |-> 2]

\* A key in publicKeys is a conflict, whoever owns it.
RegisterDevice(u, d) ==
    /\ state[d] = "none"
    /\ state' = [state EXCEPT ![d] = "active"]
    /\ owner' = [owner EXCEPT ![d] = u]
    /\ UNCHANGED <<idempotency, regionNextHost>>

\* Nothing in memory ever completes a revocation.
RequestRevocation(u, d) ==
    /\ owner[d] = u
    /\ state' = [state EXCEPT ![d] = IF @ = "revoked" THEN @ ELSE "revocation_pending"]
    /\ UNCHANGED <<owner, idempotency, regionNextHost>>

\* The checks that every tunnel request passes first: a replay needs the
\* region to be offered, too.
Accepted(u, d, r) == owner[d] = u /\ state[d] = "active" /\ r \in Offered

\* Mutant: one host too many.
HostLeftOffByOne(r) == regionNextHost[r] <= LastHost + 1

HostLeft(r) == regionNextHost[r] <= LastHost

\* Not accepted, replayed, in conflict with the key's first request, or out
\* of hosts: nothing is written.
RefuseOrReplay(u, d, r, k) ==
    /\ \/ ~Accepted(u, d, r)
       \/ <<d, k>> \in DOMAIN idempotency
       \/ ~HostLeft(r)
    /\ UNCHANGED serviceVars

\* Mutant: the counter is advanced when the service starts only.
NextHostKept(r) == regionNextHost

\* regionNextHost[regionID]++
NextHost(r) == [regionNextHost EXCEPT ![r] = (@ + 1) % Uint16]

\* A new key is a new assignment, also for a device that has one.
CreateTunnelConfiguration(u, d, r, k) ==
    /\ Accepted(u, d, r)
    /\ <<d, k>> \notin DOMAIN idempotency
    /\ HostLeft(r)
    /\ LET host == regionNextHost[r]
           new == [region |-> r,
                   response |-> [assignment |-> <<r, host>>, v4 |-> host, v6 |-> host]]
       IN  idempotency' = [e \in DOMAIN idempotency \cup {<<d, k>>} |->
                              IF e = <<d, k>> THEN new ELSE idempotency[e]]
    /\ regionNextHost' = NextHost(r)
    /\ UNCHANGED <<state, owner>>

ServiceNext ==
    \E u \in Users, d \in Devices :
        \/ RegisterDevice(u, d)
        \/ RequestRevocation(u, d)
        \/ \E r \in Regions, k \in IdemKeys :
              RefuseOrReplay(u, d, r, k) \/ CreateTunnelConfiguration(u, d, r, k)

ServiceSpec == NewService /\ [][ServiceNext]_serviceVars

-----------------------------------------------------------------------------
(***************************************************************************)
(* Properties.                                                             *)
(***************************************************************************)
\* Type correctness of the maps of Service.
ServiceTypeOK ==
    /\ state \in [Devices -> {"none", "active", "revocation_pending", "revoked"}]
    /\ owner \in [Devices -> Users \cup {NoUser}]
    /\ DOMAIN idempotency \subseteq Devices \X IdemKeys
    /\ \A e \in DOMAIN idempotency :
          /\ idempotency[e].region \in Offered
          /\ idempotency[e].response.v4 \in 2..LastHost
    /\ regionNextHost \in [Regions -> 2..(LastHost + 1)]

\* The host numbers answered in a region.
HostsOf(r) == {idempotency[e].response.v4 :
                  e \in {f \in DOMAIN idempotency : idempotency[f].region = r}}

\* The counter hands out what the store's allocator would hand out from an
\* IPv4 pool of the same size (254 is the last host of 10.70.0.0/24) as long
\* as nothing is released, and both run out with the same request.
CounterIsTheAllocator ==
    \A r \in Regions :
        LET pool == [family |-> "ipv4", size |-> LastHost + 2]
        IN  FirstAvailableAddress(pool, HostsOf(r)) =
                IF HostLeft(r) THEN regionNextHost[r] ELSE Exhausted

\* The in-memory service is a DeviceService, too.
Promised == INSTANCE DeviceService WITH answers <- idempotency

MemoryKeepsPromise == Promised!Promise
=============================================================================
