---------------------- MODULE StoreTransactionsProofs ----------------------
(***************************************************************************)
(* StoreTransactions implements AllocationLedger, for every number of      *)
(* handlers, devices, regions and gateways: what a transaction decided on  *)
(* its snapshot is still right, in the sense of the ledger, when it        *)
(* commits.                                                                *)
(*                                                                         *)
(* Three things keep it right.  What a row lock protects has not changed   *)
(* (the device, the region, the gateway, an allocation that was found);    *)
(* load and used addresses only shrink unless an allocation is committed   *)
(* in the region, and then the region is in `missed` and the transaction   *)
(* does not commit; rows that a confirmation matched are compared again.   *)
(***************************************************************************)
EXTENDS StoreTransactions, DevicePromiseProofs

ConfigurationSteps == {"device", "region", "rows", "commit"}

\* A transaction of CreateTunnelConfiguration, field by field.
IsConfiguration(c) ==
    /\ c = [step |-> c.step, user |-> c.user, device |-> c.device,
            region |-> c.region, key |-> c.key, read |-> c.read,
            missed |-> c.missed, plan |-> c.plan]
    /\ c.step \in ConfigurationSteps
    /\ c.user \in Users
    /\ c.device \in Devices
    /\ c.region \in Regions
    /\ c.key \in IdemKeys

\* Gateway g has room for a peer of region r.
Roomy(g, r) == GatewayRegion[g] = r /\ Load(g) < Capacity[g]

Free4(r) == HostCandidates(Pool4[r]) \ UsedV4(r)
Free6(r) == HostCandidates(Pool6[r]) \ UsedV6(r)

\* What transaction t read, as far as it is still to be used.
ReadOK(t) ==
    LET c == tx[t] IN
    /\ \A s \in DOMAIN c.read.live :
          /\ s \in DOMAIN assignments
          /\ c.read.live[s].assignment.device = c.device
          /\ c.read.live[s].assignment.state \in LiveStates
          /\ ~c.read.live[s].lease.released
    /\ \A locked \in SUBSET Gateways : c.read.pick[locked] \cap locked = {}
    /\ c.read.v4 \subseteq Nat /\ c.read.v6 \subseteq Nat
    /\ \A r \in Regions \ c.missed : c.region = r =>
          /\ \A locked \in SUBSET Gateways :
                \A g \in c.read.pick[locked] : g \in Gateways /\ Roomy(g, r)
          /\ c.read.v4 \subseteq Free4(r)
          /\ c.read.v6 \subseteq Free6(r)

\* A plan to allocate: the device has nothing, the slot is new, the gateway
\* is ready and, unless the transaction cannot commit, has room.
AllocationOK(t) ==
    LET c == tx[t]
        p == tx[t].plan
    IN  /\ p.slot \notin DOMAIN leases
        /\ \A s \in DOMAIN leases : HeldLease(s) => leases[s].device # c.device
        /\ p.gateway \in ready
        /\ \A r \in Regions \ c.missed : c.region = r =>
              /\ \A g \in Gateways : p.gateway = g => Roomy(g, r)
              /\ p.v4 \in Free4(r)
              /\ p.v6 \in Free6(r)

\* A plan to answer with an allocation that was found and is locked.
ReuseOK(t) ==
    LET c == tx[t]
        p == tx[t].plan
    IN  /\ p.slot \in LiveSlots(c.device)
        /\ leases[p.slot].region = c.region
        /\ p.gateway = assignments[p.slot].gateway
        /\ p.v4 = leases[p.slot].v4
        /\ p.v6 = leases[p.slot].v6

PlanOK(t) ==
    LET p == tx[t].plan IN
    /\ p.kind \in {"allocate", "reuse", "refuse"}
    /\ p.slot \in Slots
    /\ p.gateway \in Gateways
    /\ p.v4 \in Nat /\ p.v6 \in Nat
    /\ p.kind = "allocate" => AllocationOK(t)
    /\ p.kind = "reuse" => ReuseOK(t)

ConfigurationOK(t) ==
    LET c == tx[t] IN
    /\ IsConfiguration(c)
    /\ c.step # "device" => Admitted(c.user, c.device)
    /\ c.step \in {"rows", "commit"} => c.region \in available
    /\ c.step # "commit" => ReadOK(t)
    /\ c.step = "commit" => PlanOK(t)

\* A transaction of ConfirmGatewaySnapshot: the live assignments it matched,
\* the leases of those to be removed, and their devices.
ConfirmationOK(t) ==
    LET c == tx[t] IN
    /\ c.step = "confirm"
    /\ c.gateway \in Gateways
    /\ c.gen \in 1..MaxGeneration
    /\ \A s \in DOMAIN c.matched :
          /\ s \in DOMAIN assignments
          /\ c.matched[s].gateway = c.gateway
          /\ c.matched[s].desired <= c.gen
          /\ c.matched[s].state \in LiveStates
    /\ c.released = {s \in DOMAIN c.matched :
                        c.matched[s].state = "removal_pending"}
    /\ c.revoked = {c.matched[s].device : s \in c.released}

TxOK(t) == tx[t] = Idle \/ ConfigurationOK(t) \/ ConfirmationOK(t)

\* Row locks exclude each other.
LocksExclude ==
    \A t, o \in Handlers :
        t # o =>
            /\ \A d \in Devices : ~(HoldsDevice(t, d) /\ HoldsDevice(o, d))
            /\ \A r \in Regions : ~(HoldsRegion(t, r) /\ HoldsRegion(o, r))
            /\ \A g \in Gateways : ~(HoldsGateway(t, g) /\ HoldsGateway(o, g))

\* No two transactions are about to insert the same row id.
NewSlotsDiffer ==
    \A t, o \in Handlers :
        /\ t # o
        /\ tx[t].step = "commit" /\ tx[t].plan.kind = "allocate"
        /\ tx[o].step = "commit" /\ tx[o].plan.kind = "allocate"
        => tx[t].plan.slot # tx[o].plan.slot

TxInv ==
    /\ tx = [t \in Handlers |-> tx[t]]
    /\ \A t \in Handlers : TxOK(t)
    /\ LocksExclude
    /\ NewSlotsDiffer

TablesInv == StoreInv /\ CapacityInv

-----------------------------------------------------------------------------
(***************************************************************************)
(* What a step of one transaction leaves of another.                       *)
(***************************************************************************)
\* Another transaction is as it was, but for what it has missed.
Follows(o) ==
    \/ tx'[o] = tx[o]
    \/ /\ tx[o].step \in ConfigurationSteps
       /\ \E R : tx'[o] = [tx[o] EXCEPT !.missed = @ \cup R]

LEMMA FieldsFollow ==
    ASSUME NEW o \in Handlers, TxOK(o), Follows(o)
    PROVE  /\ tx'[o].step = tx[o].step
           /\ ~ConfigurationOK(o) => tx'[o] = tx[o]
           /\ ConfigurationOK(o) =>
                 /\ IsConfiguration(tx[o])'
                 /\ tx'[o].user = tx[o].user
                 /\ tx'[o].device = tx[o].device
                 /\ tx'[o].region = tx[o].region
                 /\ tx'[o].key = tx[o].key
                 /\ tx'[o].read = tx[o].read
                 /\ tx'[o].plan = tx[o].plan
                 /\ tx[o].missed \subseteq tx'[o].missed
<1>1. CASE tx'[o] = tx[o]
  BY <1>1 DEF ConfigurationOK
<1>2. CASE tx[o].step \in ConfigurationSteps
           /\ \E R : tx'[o] = [tx[o] EXCEPT !.missed = @ \cup R]
  <2>1. PICK R : tx'[o] = [tx[o] EXCEPT !.missed = @ \cup R]
    BY <1>2
  <2>2. tx[o].step # "idle" /\ tx[o].step # "confirm"
    BY <1>2 DEF ConfigurationSteps
  <2>3. ConfigurationOK(o)
    BY <2>2 DEF TxOK, Idle, ConfirmationOK
  <2>4. IsConfiguration(tx[o])
    BY <2>3 DEF ConfigurationOK
  <2>5. tx'[o] = [step |-> tx[o].step, user |-> tx[o].user,
                  device |-> tx[o].device, region |-> tx[o].region,
                  key |-> tx[o].key, read |-> tx[o].read,
                  missed |-> tx[o].missed \cup R, plan |-> tx[o].plan]
    BY <2>1, <2>4 DEF IsConfiguration
  <2> QED
    BY <2>3, <2>4, <2>5 DEF IsConfiguration
<1> QED
  BY <1>1, <1>2 DEF Follows

\* What a transaction of region r has read of load and addresses is still
\* true, if not exact.
ViewKept(r) ==
    /\ \A g \in Gateways : Roomy(g, r) => Roomy(g, r)'
    /\ UsedV4(r)' \subseteq UsedV4(r)
    /\ UsedV6(r)' \subseteq UsedV6(r)

\* The change of the tables respects what transaction o holds and relies on.
Respects(o) ==
    /\ DOMAIN assignments \subseteq DOMAIN assignments'
    /\ \A d \in Devices : HoldsDevice(o, d) /\ devState[d] = "active" =>
          devState'[d] = "active" /\ devOwner'[d] = devOwner[d]
    /\ \A r \in Regions : HoldsRegion(o, r) /\ r \in available => r \in available'
    /\ \A g \in Gateways : HoldsGateway(o, g) /\ g \in ready => g \in ready'
    /\ \A s \in DOMAIN leases : HoldsSlot(o, s) =>
          /\ s \in DOMAIN leases' /\ leases'[s] = leases[s]
          /\ assignments'[s] = assignments[s]
    /\ tx[o].step = "commit" /\ tx[o].plan.kind = "allocate" =>
          \A s \in DOMAIN leases' :
             \/ /\ s \in DOMAIN leases
                /\ leases'[s].device = leases[s].device
                /\ HeldLease(s)' => HeldLease(s)
             \/ s # tx[o].plan.slot /\ leases'[s].device # tx[o].device
    /\ tx[o].step \in ConfigurationSteps =>
          \A r \in Regions \ tx'[o].missed : tx[o].region = r => ViewKept(r)

\* A confirmation relies on nothing but that rows are not deleted.
LEMMA ConfirmationUndisturbed ==
    ASSUME NEW o \in Handlers, ConfirmationOK(o), tx'[o] = tx[o],
           DOMAIN assignments \subseteq DOMAIN assignments'
    PROVE  ConfirmationOK(o)'
BY DEF ConfirmationOK

LEMMA ConfigurationUndisturbed ==
    ASSUME NEW o \in Handlers, TablesInv, ConfigurationOK(o), Follows(o), Respects(o)
    PROVE  ConfigurationOK(o)'
<1> DEFINE c == tx[o]
<1>1. /\ tx'[o].step = c.step
      /\ IsConfiguration(tx[o])'
      /\ tx'[o].user = c.user /\ tx'[o].device = c.device
      /\ tx'[o].region = c.region /\ tx'[o].key = c.key
      /\ tx'[o].read = c.read /\ tx'[o].plan = c.plan
      /\ c.missed \subseteq tx'[o].missed
  BY FieldsFollow DEF TxOK
<1>2. c.step \in ConfigurationSteps /\ c.device \in Devices /\ c.region \in Regions
  BY DEF ConfigurationOK, IsConfiguration
<1>3. c.step # "device" => Admitted(c.user, c.device)'
  <2> SUFFICES ASSUME c.step # "device"
               PROVE  devOwner'[c.device] = c.user /\ devState'[c.device] = "active"
    BY <1>1 DEF Admitted
  <2>1. HoldsDevice(o, c.device)
    BY <1>2 DEF HoldsDevice, ConfigurationSteps
  <2>2. devOwner[c.device] = c.user /\ devState[c.device] = "active"
    BY DEF ConfigurationOK, Admitted
  <2> QED
    BY <1>2, <2>1, <2>2 DEF Respects
<1>4. c.step \in {"rows", "commit"} => tx'[o].region \in available'
  <2> SUFFICES ASSUME c.step \in {"rows", "commit"}
               PROVE  c.region \in available'
    BY <1>1
  <2>1. HoldsRegion(o, c.region) /\ c.region \in available
    BY DEF HoldsRegion, ConfigurationOK
  <2> QED
    BY <1>2, <2>1 DEF Respects
<1>5. \A r \in Regions \ tx'[o].missed : c.region = r =>
          /\ r \notin c.missed
          /\ \A g \in Gateways : Roomy(g, r) => Roomy(g, r)'
          /\ Free4(r) \subseteq Free4(r)'
          /\ Free6(r) \subseteq Free6(r)'
  BY <1>1, <1>2 DEF Respects, ViewKept, Free4, Free6
<1>6. c.step # "commit" => ReadOK(o)'
  <2> SUFFICES ASSUME c.step # "commit"
               PROVE  ReadOK(o)'
    OBVIOUS
  <2>1. ReadOK(o)
    BY DEF ConfigurationOK
  <2>2. \A s \in DOMAIN c.read.live : s \in DOMAIN assignments'
    BY <2>1 DEF ReadOK, Respects
  <2>3. \A r \in Regions \ tx'[o].missed : c.region = r =>
          /\ \A locked \in SUBSET Gateways :
                \A g \in c.read.pick[locked] : g \in Gateways /\ Roomy(g, r)'
          /\ c.read.v4 \subseteq Free4(r)'
          /\ c.read.v6 \subseteq Free6(r)'
    BY <2>1, <1>5 DEF ReadOK
  <2> QED
    BY <2>1, <2>2, <2>3, <1>1 DEF ReadOK
<1>7. c.step = "commit" => PlanOK(o)'
  <2> SUFFICES ASSUME c.step = "commit"
               PROVE  PlanOK(o)'
    OBVIOUS
  <2> DEFINE p == c.plan
  <2>1. PlanOK(o)
    BY DEF ConfigurationOK
  <2>2. ASSUME p.kind = "allocate"
        PROVE  AllocationOK(o)'
    <3>1. AllocationOK(o)
      BY <2>1, <2>2 DEF PlanOK
    <3>2. \A s \in DOMAIN leases' :
             \/ /\ s \in DOMAIN leases
                /\ leases'[s].device = leases[s].device
                /\ HeldLease(s)' => HeldLease(s)
             \/ s # p.slot /\ leases'[s].device # c.device
      BY <2>2 DEF Respects
    <3>3. p.slot \notin DOMAIN leases'
      BY <3>1, <3>2 DEF AllocationOK
    <3>4. \A s \in DOMAIN leases' : HeldLease(s)' => leases'[s].device # c.device
      BY <3>1, <3>2 DEF AllocationOK
    <3>5. p.gateway \in ready'
      <4>1. HoldsGateway(o, p.gateway) /\ p.gateway \in Gateways
        BY <2>1 DEF HoldsGateway, PlanOK
      <4> QED
        BY <4>1, <3>1 DEF Respects, AllocationOK
    <3>6. \A r \in Regions \ tx'[o].missed : c.region = r =>
              /\ \A g \in Gateways : p.gateway = g => Roomy(g, r)'
              /\ p.v4 \in Free4(r)'
              /\ p.v6 \in Free6(r)'
      BY <3>1, <1>5 DEF AllocationOK
    <3> QED
      BY <3>3, <3>4, <3>5, <3>6, <1>1 DEF AllocationOK
  <2>3. ASSUME p.kind = "reuse"
        PROVE  ReuseOK(o)'
    <3>1. ReuseOK(o)
      BY <2>1, <2>3 DEF PlanOK
    <3>2. /\ p.slot \in DOMAIN assignments /\ p.slot \in DOMAIN leases
          /\ HoldsSlot(o, p.slot)
      BY <3>1, <2>3 DEF ReuseOK, LiveSlots, HeldLease, HoldsSlot
    <3>3. /\ p.slot \in DOMAIN leases' /\ leases'[p.slot] = leases[p.slot]
          /\ p.slot \in DOMAIN assignments'
          /\ assignments'[p.slot] = assignments[p.slot]
      BY <3>2 DEF Respects
    <3> QED
      BY <3>1, <3>3, <1>1 DEF ReuseOK, LiveSlots, LiveAssignment, HeldLease
  <2> QED
    BY <2>1, <2>2, <2>3, <1>1 DEF PlanOK
<1> QED
  BY <1>1, <1>3, <1>4, <1>6, <1>7 DEF ConfigurationOK

\* A transaction that the step respects stays as good as it was.
LEMMA Undisturbed ==
    ASSUME NEW o \in Handlers, TablesInv, TxOK(o), Follows(o), Respects(o)
    PROVE  TxOK(o)'
<1>1. CASE tx[o] = Idle
  <2>1. tx[o].step \notin ConfigurationSteps
    BY <1>1 DEF Idle, ConfigurationSteps
  <2> QED
    BY <1>1, <2>1 DEF Follows, TxOK
<1>2. CASE ConfirmationOK(o)
  <2>1. tx'[o] = tx[o]
    BY <1>2 DEF ConfirmationOK, Follows, ConfigurationSteps
  <2> QED
    BY <1>2, <2>1, ConfirmationUndisturbed DEF Respects, TxOK
<1>3. CASE ConfigurationOK(o)
  BY <1>3, ConfigurationUndisturbed DEF TxOK
<1> QED
  BY <1>1, <1>2, <1>3 DEF TxOK

\* The locks still exclude each other if what transaction t holds after the
\* step was held by no other one.
LEMMA LocksKept ==
    ASSUME LocksExclude, \A x \in Handlers : TxOK(x), NEW t \in Handlers,
           \A o \in Others(t) : Follows(o),
           \A d \in Devices : HoldsDevice(t, d)' =>
               \A o \in Others(t) : ~HoldsDevice(o, d),
           \A r \in Regions : HoldsRegion(t, r)' =>
               \A o \in Others(t) : ~HoldsRegion(o, r),
           \A g \in Gateways : HoldsGateway(t, g)' =>
               \A o \in Others(t) : ~HoldsGateway(o, g)
    PROVE  LocksExclude'
<1>1. ASSUME NEW o \in Others(t)
      PROVE  /\ \A d \in Devices : HoldsDevice(o, d)' => HoldsDevice(o, d)
             /\ \A r \in Regions : HoldsRegion(o, r)' => HoldsRegion(o, r)
             /\ \A g \in Gateways : HoldsGateway(o, g)' => HoldsGateway(o, g)
  <2>1. o \in Handlers /\ TxOK(o) /\ Follows(o)
    BY DEF Others
  <2>2. /\ tx'[o].step = tx[o].step
        /\ ~ConfigurationOK(o) => tx'[o] = tx[o]
        /\ ConfigurationOK(o) => /\ tx'[o].device = tx[o].device
                                 /\ tx'[o].region = tx[o].region
                                 /\ tx'[o].plan = tx[o].plan
    BY <2>1, FieldsFollow
  <2> QED
    BY <2>2 DEF HoldsDevice, HoldsRegion, HoldsGateway
<1> QED
  BY <1>1 DEF LocksExclude, Others

\* New row ids still differ if the one t plans to insert is new.
LEMMA NewSlotsKept ==
    ASSUME NewSlotsDiffer, \A x \in Handlers : TxOK(x), NEW t \in Handlers,
           \A o \in Others(t) : Follows(o),
           tx'[t].step = "commit" /\ tx'[t].plan.kind = "allocate" =>
               \A o \in Others(t) :
                  tx[o].step = "commit" => tx[o].plan.slot # tx'[t].plan.slot
    PROVE  NewSlotsDiffer'
<1>1. ASSUME NEW o \in Others(t)
      PROVE  /\ tx'[o].step = tx[o].step
             /\ tx[o].step = "commit" => tx'[o].plan = tx[o].plan
  <2>1. o \in Handlers /\ TxOK(o) /\ Follows(o)
    BY DEF Others
  <2> QED
    BY <2>1, FieldsFollow
<1> QED
  BY <1>1 DEF NewSlotsDiffer, Others

\* One step of transaction t, as far as it is not about t alone.
LEMMA StepKeepsTx ==
    ASSUME TxInv, TablesInv, NEW t \in Handlers,
           tx' = [x \in Handlers |-> tx'[x]],
           TxOK(t)',
           \A o \in Others(t) : Follows(o) /\ Respects(o),
           \A d \in Devices : HoldsDevice(t, d)' =>
               \A o \in Others(t) : ~HoldsDevice(o, d),
           \A r \in Regions : HoldsRegion(t, r)' =>
               \A o \in Others(t) : ~HoldsRegion(o, r),
           \A g \in Gateways : HoldsGateway(t, g)' =>
               \A o \in Others(t) : ~HoldsGateway(o, g),
           tx'[t].step = "commit" /\ tx'[t].plan.kind = "allocate" =>
               \A o \in Others(t) :
                  tx[o].step = "commit" => tx[o].plan.slot # tx'[t].plan.slot
    PROVE  TxInv'
<1>1. ASSUME NEW x \in Handlers
      PROVE  TxOK(x)'
  <2>1. CASE x = t
    BY <2>1
  <2>2. CASE x \in Others(t)
    BY <2>2, Undisturbed DEF TxInv
  <2> QED
    BY <2>1, <2>2 DEF Others
<1>2. LocksExclude'
  BY LocksKept DEF TxInv
<1>3. NewSlotsDiffer'
  BY NewSlotsKept DEF TxInv
<1> QED
  BY <1>1, <1>2, <1>3 DEF TxInv

\* Nothing is disturbed where no table but idempotency_keys changes.
LEMMA QuietRespects ==
    ASSUME UNCHANGED <<devState, devOwner, leases, assignments, ready, available>>,
           NEW o \in Handlers
    PROVE  Respects(o)
<1>1. \A r \in Regions : ViewKept(r)
  BY DEF ViewKept, Roomy, Load, LiveAssignment, UsedV4, UsedV6, HeldLease
<1> QED
  BY <1>1 DEF Respects, HeldLease

-----------------------------------------------------------------------------
(***************************************************************************)
(* The steps that read: the tables stay as they are.                       *)
(***************************************************************************)
\* A step of t that changes nothing but tx[t].
LEMMA ReadingStep ==
    ASSUME TxInv, TablesInv, NEW t \in Handlers, NEW c,
           UNCHANGED storeVars, tx' = [tx EXCEPT ![t] = c],
           TxOK(t)',
           \A d \in Devices : HoldsDevice(t, d)' =>
               \A o \in Others(t) : ~HoldsDevice(o, d),
           \A r \in Regions : HoldsRegion(t, r)' =>
               \A o \in Others(t) : ~HoldsRegion(o, r),
           \A g \in Gateways : HoldsGateway(t, g)' =>
               \A o \in Others(t) : ~HoldsGateway(o, g),
           tx'[t].step = "commit" /\ tx'[t].plan.kind = "allocate" =>
               \A o \in Others(t) :
                  tx[o].step = "commit" => tx[o].plan.slot # tx'[t].plan.slot
    PROVE  TxInv'
<1>1. \A o \in Others(t) : Follows(o) /\ Respects(o)
  BY QuietRespects DEF Follows, TxInv, Others, storeVars
<1>2. tx' = [x \in Handlers |-> tx'[x]]
  BY DEF TxInv
<1> QED
  BY <1>1, <1>2, StepKeepsTx

\* RollBack gives up everything.
LEMMA RollBackKeepsTx ==
    ASSUME TxInv, TablesInv, NEW t \in Handlers, RollBack(t)
    PROVE  TxInv'
<1>1. tx' = [tx EXCEPT ![t] = Idle] /\ tx'[t] = Idle /\ UNCHANGED storeVars
  BY DEF RollBack, TxInv
<1>2. TxOK(t)'
  BY <1>1 DEF TxOK
<1>3. tx'[t].step = "idle"
  BY <1>1 DEF Idle
<1> QED
  BY <1>1, <1>2, <1>3, ReadingStep DEF HoldsDevice, HoldsRegion, HoldsGateway

\* What BeginConfiguration reads is true of the tables it reads.
LEMMA BeginConfigurationKeepsTx ==
    ASSUME TxInv, TablesInv, NEW t \in Handlers, NEW u \in Users,
           NEW d \in Devices, NEW r \in Regions, NEW k \in KeysOf[d],
           BeginConfiguration(t, u, d, r, k)
    PROVE  TxInv'
<1> DEFINE c == [step |-> "device", user |-> u, device |-> d, region |-> r,
                 key |-> k, read |-> Reading(d, r), missed |-> {},
                 plan |-> Nothing]
<1>1. tx' = [tx EXCEPT ![t] = c] /\ tx'[t] = c /\ UNCHANGED storeVars
  BY DEF BeginConfiguration, TxInv
<1>2. IsConfiguration(tx[t])'
  BY <1>1, TransactionsAssumption DEF IsConfiguration, ConfigurationSteps
<1>3. ReadOK(t)'
  <2> DEFINE read == Reading(d, r)
  <2>1. \A s \in DOMAIN read.live :
          /\ s \in DOMAIN assignments
          /\ read.live[s].assignment.device = d
          /\ read.live[s].assignment.state \in LiveStates
          /\ ~read.live[s].lease.released
    BY DEF Reading, LiveSlots, LiveAssignment, HeldLease
  <2>2. \A locked \in SUBSET Gateways :
          /\ read.pick[locked] \cap locked = {}
          /\ \A g \in read.pick[locked] : g \in Gateways /\ Roomy(g, r)
    BY DEF Reading, PickGateway, Roomy, TablesInv, StoreInv, StoreTypeOK
  <2>3. /\ read.v4 \subseteq Free4(r) /\ read.v6 \subseteq Free6(r)
        /\ read.v4 \subseteq Nat /\ read.v6 \subseteq Nat
    BY HostsAreOffsets DEF Reading, FirstFree, Free4, Free6
  <2>4. /\ UNCHANGED assignments
        /\ \A g : Roomy(g, r)' <=> Roomy(g, r)
        /\ Free4(r)' = Free4(r) /\ Free6(r)' = Free6(r)
    BY <1>1 DEF storeVars, Roomy, Load, LiveAssignment, Free4, Free6,
                UsedV4, UsedV6, HeldLease
  <2> HIDE DEF read
  <2>5. tx'[t].read = read /\ tx'[t].device = d /\ tx'[t].region = r
    BY <1>1 DEF read
  <2> QED
    BY <2>1, <2>2, <2>3, <2>4, <2>5 DEF ReadOK
<1>4. tx'[t].step = "device"
  BY <1>1
<1>5. TxOK(t)'
  BY <1>2, <1>3, <1>4 DEF TxOK, ConfigurationOK
<1> QED
  BY <1>1, <1>4, <1>5, ReadingStep DEF HoldsDevice, HoldsRegion, HoldsGateway

\* A transaction that has begun a configuration is one.
LEMMA ConfigurationByStep ==
    ASSUME TxInv, NEW t \in Handlers, tx[t].step \in ConfigurationSteps
    PROVE  ConfigurationOK(t) /\ IsConfiguration(tx[t])
<1>1. tx[t].step # "idle" /\ tx[t].step # "confirm"
  BY DEF ConfigurationSteps
<1> QED
  BY <1>1 DEF TxInv, TxOK, Idle, ConfirmationOK, ConfigurationOK

\* Goto changes the step and nothing else.
LEMMA GotoKeepsRest ==
    ASSUME TxInv, NEW t \in Handlers, tx[t].step \in {"device", "region", "rows"},
           NEW step \in ConfigurationSteps, Goto(t, step), UNCHANGED storeVars
    PROVE  /\ tx' = [tx EXCEPT ![t] = tx'[t]]
           /\ IsConfiguration(tx[t])'
           /\ tx'[t].step = step
           /\ tx'[t].user = tx[t].user
           /\ tx'[t].device = tx[t].device
           /\ tx'[t].region = tx[t].region
           /\ ReadOK(t)'
<1> DEFINE c == tx[t]
           new == [step |-> step, user |-> c.user, device |-> c.device,
                   region |-> c.region, key |-> c.key, read |-> c.read,
                   missed |-> c.missed, plan |-> c.plan]
<1>1. ConfigurationOK(t) /\ IsConfiguration(c)
  BY ConfigurationByStep DEF ConfigurationSteps
<1>2. [c EXCEPT !.step = step] = new
  BY <1>1 DEF IsConfiguration
<1>3. tx' = [tx EXCEPT ![t] = new] /\ tx'[t] = new
  BY <1>2 DEF Goto, TxInv
<1>4. ReadOK(t)
  BY <1>1 DEF ConfigurationOK
<1>5. /\ UNCHANGED assignments
      /\ \A g, r : Roomy(g, r)' <=> Roomy(g, r)
      /\ \A r : Free4(r)' = Free4(r) /\ Free6(r)' = Free6(r)
  BY DEF storeVars, Roomy, Load, LiveAssignment, Free4, Free6,
         UsedV4, UsedV6, HeldLease
<1>6. /\ tx'[t].read = c.read /\ tx'[t].missed = c.missed
      /\ tx'[t].region = c.region /\ tx'[t].device = c.device
  BY <1>3
<1>7. ReadOK(t)'
  BY <1>4, <1>5, <1>6 DEF ReadOK
<1>8. IsConfiguration(tx[t])'
  BY <1>1, <1>3 DEF IsConfiguration
<1>9. tx' = [tx EXCEPT ![t] = tx'[t]]
  BY <1>3
<1>10. /\ tx'[t].step = step
       /\ tx'[t].user = tx[t].user
       /\ tx'[t].device = tx[t].device
       /\ tx'[t].region = tx[t].region
  BY <1>3
<1> QED
  BY <1>7, <1>8, <1>9, <1>10

\* LockDevice looks at the row again under its lock.
LEMMA LockDeviceKeepsTx ==
    ASSUME TxInv, TablesInv, NEW t \in Handlers, LockDevice(t)
    PROVE  TxInv'
<1>1. /\ tx' = [tx EXCEPT ![t] = tx'[t]]
      /\ IsConfiguration(tx[t])'
      /\ tx'[t].step = "region"
      /\ tx'[t].user = tx[t].user
      /\ tx'[t].device = tx[t].device
      /\ ReadOK(t)'
  BY GotoKeepsRest DEF LockDevice, ConfigurationSteps
<1>2. Admitted(tx[t].user, tx[t].device)'
  BY <1>1 DEF LockDevice, Admitted, storeVars
<1>3. TxOK(t)'
  BY <1>1, <1>2 DEF TxOK, ConfigurationOK
<1>4. \A d \in Devices : HoldsDevice(t, d)' => \A o \in Others(t) : ~HoldsDevice(o, d)
  <2> SUFFICES ASSUME NEW d \in Devices, d = tx[t].device
               PROVE  \A o \in Others(t) : ~HoldsDevice(o, d)
    BY <1>1 DEF HoldsDevice
  <2> QED
    BY DEF LockDevice, HoldsDevice
<1>5. UNCHANGED storeVars
  BY DEF LockDevice
<1> QED
  BY <1>1, <1>3, <1>4, <1>5, ReadingStep DEF HoldsRegion, HoldsGateway

\* What a transaction already holds is held by no other one.
LEMMA HeldAlone ==
    ASSUME TxInv, NEW t \in Handlers
    PROVE  /\ \A d \in Devices : HoldsDevice(t, d) =>
                  \A o \in Others(t) : ~HoldsDevice(o, d)
           /\ \A r \in Regions : HoldsRegion(t, r) =>
                  \A o \in Others(t) : ~HoldsRegion(o, r)
BY DEF TxInv, LocksExclude, Others

\* LockRegion looks at the region again under its lock.
LEMMA LockRegionKeepsTx ==
    ASSUME TxInv, TablesInv, NEW t \in Handlers, LockRegion(t)
    PROVE  TxInv'
<1>1. /\ tx' = [tx EXCEPT ![t] = tx'[t]]
      /\ IsConfiguration(tx[t])'
      /\ tx'[t].step = "rows"
      /\ tx'[t].user = tx[t].user
      /\ tx'[t].device = tx[t].device
      /\ tx'[t].region = tx[t].region
      /\ ReadOK(t)'
  BY GotoKeepsRest DEF LockRegion, ConfigurationSteps
<1>2. tx[t].step = "region" /\ UNCHANGED storeVars
  BY DEF LockRegion
<1>3. ConfigurationOK(t)
  BY <1>2, ConfigurationByStep DEF ConfigurationSteps
<1>4. Admitted(tx[t].user, tx[t].device)'
  BY <1>1, <1>2, <1>3 DEF ConfigurationOK, Admitted, storeVars
<1>5. tx'[t].region \in available'
  BY <1>1, <1>2 DEF LockRegion, storeVars
<1>6. TxOK(t)'
  BY <1>1, <1>4, <1>5 DEF TxOK, ConfigurationOK
<1>7. \A d \in Devices : HoldsDevice(t, d)' => \A o \in Others(t) : ~HoldsDevice(o, d)
  <2>1. \A d \in Devices : HoldsDevice(t, d)' => HoldsDevice(t, d)
    BY <1>1, <1>2 DEF HoldsDevice
  <2> QED
    BY <2>1, HeldAlone
<1>8. \A r \in Regions : HoldsRegion(t, r)' => \A o \in Others(t) : ~HoldsRegion(o, r)
  <2> SUFFICES ASSUME NEW r \in Regions, r = tx[t].region
               PROVE  \A o \in Others(t) : ~HoldsRegion(o, r)
    BY <1>1 DEF HoldsRegion
  <2> QED
    BY DEF LockRegion, HoldsRegion
<1> QED
  BY <1>1, <1>2, <1>6, <1>7, <1>8, ReadingStep DEF HoldsGateway

\* Decide fixes the plan and forgets what was read.
LEMMA DecideFields ==
    ASSUME TxInv, NEW t \in Handlers, tx[t].step = "rows", NEW plan,
           Decide(t, plan), UNCHANGED storeVars
    PROVE  /\ tx' = [tx EXCEPT ![t] = tx'[t]]
           /\ IsConfiguration(tx[t])'
           /\ tx'[t].step = "commit"
           /\ tx'[t].user = tx[t].user
           /\ tx'[t].device = tx[t].device
           /\ tx'[t].region = tx[t].region
           /\ tx'[t].missed = tx[t].missed
           /\ tx'[t].plan = plan
           /\ Admitted(tx[t].user, tx[t].device)'
           /\ tx'[t].region \in available'
<1> DEFINE c == tx[t]
           new == [step |-> "commit", user |-> c.user, device |-> c.device,
                   region |-> c.region, key |-> c.key, read |-> Nothing,
                   missed |-> c.missed, plan |-> plan]
<1>1. ConfigurationOK(t) /\ IsConfiguration(c)
  BY ConfigurationByStep DEF ConfigurationSteps
<1>2. [c EXCEPT !.step = "commit", !.plan = plan, !.read = Nothing] = new
  <2> DEFINE c1 == [step |-> "commit", user |-> c.user, device |-> c.device,
                    region |-> c.region, key |-> c.key, read |-> c.read,
                    missed |-> c.missed, plan |-> c.plan]
             c2 == [step |-> "commit", user |-> c.user, device |-> c.device,
                    region |-> c.region, key |-> c.key, read |-> c.read,
                    missed |-> c.missed, plan |-> plan]
  <2>1. [c EXCEPT !.step = "commit"] = c1
    BY <1>1 DEF IsConfiguration
  <2>2. [c1 EXCEPT !.plan = plan] = c2
    OBVIOUS
  <2>3. [c2 EXCEPT !.read = Nothing] = new
    OBVIOUS
  <2> HIDE DEF c1, c2, new
  <2> QED
    BY <2>1, <2>2, <2>3
<1>3. tx' = [tx EXCEPT ![t] = new] /\ tx'[t] = new
  BY <1>2 DEF Decide, TxInv
<1>4. IsConfiguration(tx[t])'
  BY <1>1, <1>3 DEF IsConfiguration, ConfigurationSteps
<1>5. Admitted(tx[t].user, tx[t].device)' /\ tx'[t].region \in available'
  BY <1>1, <1>3 DEF ConfigurationOK, Admitted, storeVars
<1>6. tx' = [tx EXCEPT ![t] = tx'[t]]
  BY <1>3
<1>7. /\ tx'[t].step = "commit"
      /\ tx'[t].user = tx[t].user
      /\ tx'[t].device = tx[t].device
      /\ tx'[t].region = tx[t].region
      /\ tx'[t].missed = tx[t].missed
      /\ tx'[t].plan = plan
  BY <1>3
<1> QED
  BY <1>4, <1>5, <1>6, <1>7

\* A decision adds the lock of a gateway that no other transaction holds.
LEMMA DecideKeepsTx ==
    ASSUME TxInv, TablesInv, NEW t \in Handlers, tx[t].step = "rows", NEW plan,
           Decide(t, plan), UNCHANGED storeVars, PlanOK(t)',
           \A o \in Others(t) : ~HoldsGateway(o, plan.gateway),
           plan.kind = "allocate" => plan.slot \notin PlannedSlots
    PROVE  TxInv'
<1>1. /\ tx' = [tx EXCEPT ![t] = tx'[t]]
      /\ IsConfiguration(tx[t])'
      /\ tx'[t].step = "commit"
      /\ tx'[t].user = tx[t].user
      /\ tx'[t].device = tx[t].device
      /\ tx'[t].region = tx[t].region
      /\ tx'[t].plan = plan
      /\ Admitted(tx[t].user, tx[t].device)'
      /\ tx'[t].region \in available'
  BY DecideFields
<1>2. TxOK(t)'
  BY <1>1 DEF TxOK, ConfigurationOK
<1>3. /\ \A d \in Devices : HoldsDevice(t, d)' => \A o \in Others(t) : ~HoldsDevice(o, d)
      /\ \A r \in Regions : HoldsRegion(t, r)' => \A o \in Others(t) : ~HoldsRegion(o, r)
  <2>1. /\ \A d \in Devices : HoldsDevice(t, d)' => HoldsDevice(t, d)
        /\ \A r \in Regions : HoldsRegion(t, r)' => HoldsRegion(t, r)
    BY <1>1 DEF HoldsDevice, HoldsRegion
  <2> QED
    BY <2>1, HeldAlone
<1>4. \A g \in Gateways : HoldsGateway(t, g)' => \A o \in Others(t) : ~HoldsGateway(o, g)
  BY <1>1 DEF HoldsGateway
<1>5. tx'[t].plan.kind = "allocate" =>
         \A o \in Others(t) :
            tx[o].step = "commit" => tx[o].plan.slot # tx'[t].plan.slot
  BY <1>1 DEF PlannedSlots, Others
<1> QED
  BY <1>1, <1>2, <1>3, <1>4, <1>5, ReadingStep

\* The allocation found is the device's live one and is locked with its
\* gateway.
LEMMA FindAllocationKeepsTx ==
    ASSUME TxInv, TablesInv, NEW t \in Handlers, FindAllocation(t)
    PROVE  TxInv'
<1> DEFINE c == tx[t]
<1>1. c.step = "rows" /\ UNCHANGED storeVars
  BY DEF FindAllocation
<1>2. PICK s \in DOMAIN c.read.live :
          LET found == c.read.live[s]
              g == found.assignment.gateway
          IN  /\ \A o \in Others(t) : ~HoldsGateway(o, g)
              /\ assignments[s] = found.assignment
              /\ leases[s] = found.lease
              /\ Decide(t, [kind |-> IF found.lease.region = c.region
                                     THEN "reuse" ELSE "refuse",
                            slot |-> s, gateway |-> g,
                            v4 |-> found.lease.v4, v6 |-> found.lease.v6])
  BY DEF FindAllocation
<1> DEFINE g == assignments[s].gateway
           plan == [kind |-> IF leases[s].region = c.region
                             THEN "reuse" ELSE "refuse",
                    slot |-> s, gateway |-> g,
                    v4 |-> leases[s].v4, v6 |-> leases[s].v6]
<1>3. /\ \A o \in Others(t) : ~HoldsGateway(o, g)
      /\ Decide(t, plan)
  BY <1>2
<1>4. /\ s \in DOMAIN assignments
      /\ assignments[s].device = c.device
      /\ assignments[s].state \in LiveStates
      /\ ~leases[s].released
  <2>1. ReadOK(t)
    BY <1>1, ConfigurationByStep DEF ConfigurationSteps, ConfigurationOK
  <2> QED
    BY <2>1, <1>2 DEF ReadOK
<1>5. /\ s \in DOMAIN leases /\ s \in Slots
      /\ g \in Gateways /\ leases[s].v4 \in Nat /\ leases[s].v6 \in Nat
  BY <1>4 DEF TablesInv, StoreInv, LeaseFollowsAssignment, StoreTypeOK, IsTable,
              Assignment, Lease
<1> HIDE DEF plan
<1>6. tx'[t].plan = plan /\ tx'[t].device = c.device /\ tx'[t].region = c.region
  BY <1>1, <1>3, DecideFields
<1>7. PlanOK(t)'
  <2>1. UNCHANGED <<leases, assignments>>
    BY <1>1 DEF storeVars
  <2>2. plan.kind = "reuse" => ReuseOK(t)'
    BY <1>4, <1>5, <1>6, <2>1
    DEF plan, ReuseOK, LiveSlots, LiveAssignment, HeldLease
  <2>3. plan.kind \in {"reuse", "refuse"}
    BY DEF plan
  <2>4. plan.slot \in Slots /\ plan.gateway \in Gateways
        /\ plan.v4 \in Nat /\ plan.v6 \in Nat
    BY <1>5 DEF plan
  <2> QED
    BY <1>6, <2>2, <2>3, <2>4 DEF PlanOK
<1>8. plan.kind # "allocate" /\ plan.gateway = g
  BY DEF plan
<1> QED
  BY <1>1, <1>3, <1>7, <1>8, DecideKeepsTx

\* The gateway picked is not locked, and the indexes are not violated.
LEMMA PlanAllocationKeepsTx ==
    ASSUME TxInv, TablesInv, NEW t \in Handlers, PlanAllocation(t)
    PROVE  TxInv'
<1> DEFINE c == tx[t]
           locked == {g \in Gateways : \E o \in Others(t) : HoldsGateway(o, g)}
<1>1. c.step = "rows" /\ UNCHANGED storeVars
  BY DEF PlanAllocation
<1>2. PICK g \in c.read.pick[locked] \cap ready, v4 \in c.read.v4, v6 \in c.read.v6,
           s \in Slots \ (DOMAIN leases \cup PlannedSlots) :
              /\ NoUniqueViolation(c.device, c.region, v4, v6)
              /\ Decide(t, [kind |-> "allocate", slot |-> s, gateway |-> g,
                            v4 |-> v4, v6 |-> v6])
  BY DEF PlanAllocation
<1> DEFINE plan == [kind |-> "allocate", slot |-> s, gateway |-> g,
                    v4 |-> v4, v6 |-> v6]
<1>3. ReadOK(t) /\ IsConfiguration(c)
  BY <1>1, ConfigurationByStep DEF ConfigurationSteps, ConfigurationOK
<1>4. g \in Gateways /\ g \in ready
  BY <1>2 DEF TablesInv, StoreInv, StoreTypeOK
<1>5. g \notin locked
  <2>1. locked \in SUBSET Gateways
    OBVIOUS
  <2> QED
    BY <1>2, <1>3, <2>1 DEF ReadOK
<1>6. \A r \in Regions \ c.missed : c.region = r =>
          Roomy(g, r) /\ v4 \in Free4(r) /\ v6 \in Free6(r)
  BY <1>2, <1>3 DEF ReadOK
<1>7. v4 \in Nat /\ v6 \in Nat
  BY <1>2, <1>3 DEF ReadOK
<1> HIDE DEF plan
<1>8. /\ tx'[t].plan = plan /\ tx'[t].device = c.device
      /\ tx'[t].region = c.region /\ tx'[t].missed = c.missed
  BY <1>1, <1>2, DecideFields DEF plan
<1>9. PlanOK(t)'
  <2>1. /\ UNCHANGED <<leases, ready>>
        /\ \A h, r : Roomy(h, r)' <=> Roomy(h, r)
        /\ \A r : Free4(r)' = Free4(r) /\ Free6(r)' = Free6(r)
    BY <1>1 DEF storeVars, Roomy, Load, LiveAssignment, Free4, Free6,
                UsedV4, UsedV6, HeldLease
  <2>2. \A x \in DOMAIN leases' : HeldLease(x)' => leases'[x].device # c.device
    BY <1>2, <2>1 DEF NoUniqueViolation, HeldLease
  <2>3. AllocationOK(t)'
    BY <1>2, <1>4, <1>6, <1>8, <2>1, <2>2 DEF plan, AllocationOK
  <2> QED
    BY <1>2, <1>4, <1>7, <1>8, <2>3 DEF plan, PlanOK
<1>10. /\ Decide(t, plan)
       /\ \A o \in Others(t) : ~HoldsGateway(o, plan.gateway)
       /\ plan.slot \notin PlannedSlots
  BY <1>2, <1>4, <1>5 DEF plan
<1> QED
  BY <1>1, <1>9, <1>10, DecideKeepsTx

\* What BeginConfirmation matches determines what it will release and revoke:
\* an assignment that is removed already has no lease and no device left.
LEMMA BeginConfirmationKeepsTx ==
    ASSUME TxInv, TablesInv, NEW t \in Handlers, NEW g \in Gateways,
           NEW gen \in 1..MaxGeneration, BeginConfirmation(t, g, gen)
    PROVE  TxInv'
<1> DEFINE matched == {s \in DOMAIN assignments :
                          /\ assignments[s].gateway = g
                          /\ assignments[s].desired <= gen
                          /\ LiveAssignment(s)}
           removed == RemovedFrom(g, ConfirmedAssignments(g, gen))
           released == {s \in removed : HeldLease(s)}
           revoked == {d \in Devices :
                          /\ devState[d] = "revocation_pending"
                          /\ \E s \in removed : assignments[s].device = d}
           rows == [s \in matched |-> assignments[s]]
           c == [step |-> "confirm", gateway |-> g, gen |-> gen,
                 matched |-> rows, released |-> released, revoked |-> revoked]
<1>1. tx' = [tx EXCEPT ![t] = c] /\ tx'[t] = c /\ UNCHANGED storeVars
  BY DEF BeginConfirmation, TxInv
<1>2. \A s \in DOMAIN assignments :
         /\ s \in DOMAIN leases
         /\ assignments[s] \in Assignment
         /\ leases[s].device = assignments[s].device
         /\ HeldLease(s) <=> assignments[s].state # "removed"
         /\ LiveAssignment(s) <=> assignments[s].state # "removed"
  <2>1. \A s \in DOMAIN assignments :
           /\ s \in DOMAIN leases
           /\ assignments[s] \in Assignment
           /\ leases[s].device = assignments[s].device
           /\ HeldLease(s) <=> LiveAssignment(s)
    BY DEF TablesInv, StoreInv, LeaseFollowsAssignment, StoreTypeOK, IsTable
  <2> QED
    BY <2>1 DEF LiveAssignment, Assignment, AssignmentStates, LiveStates
<1>3. \A s \in DOMAIN assignments :
         s \in removed <=>
            /\ assignments[s].gateway = g
            /\ \/ assignments[s].state = "removed"
               \/ s \in matched /\ assignments[s].state = "removal_pending"
  <2> TAKE s \in DOMAIN assignments
  <2> DEFINE a == assignments[s]
             hit == a.gateway = g /\ a.desired <= gen /\ a.state \in LiveStates
  <2>1. a \in Assignment
    BY <1>2
  <2>2. CASE hit
    <3>1. ConfirmedAssignments(g, gen)[s] =
             [a EXCEPT !.state = IF a.state = "removal_pending" THEN "removed"
                                                                ELSE "active",
                       !.observed = a.desired]
      BY <2>2 DEF ConfirmedAssignments
    <3>2. /\ ConfirmedAssignments(g, gen)[s].gateway = a.gateway
          /\ ConfirmedAssignments(g, gen)[s].state =
                IF a.state = "removal_pending" THEN "removed" ELSE "active"
      BY <2>1, <3>1 DEF Assignment
    <3> QED
      BY <2>2, <3>2 DEF RemovedFrom, LiveAssignment, LiveStates, ConfirmedAssignments
  <2>3. CASE ~hit
    <3>1. ConfirmedAssignments(g, gen)[s] = a
      BY <2>3 DEF ConfirmedAssignments
    <3> QED
      BY <2>3, <3>1 DEF RemovedFrom, LiveAssignment, ConfirmedAssignments
  <2> QED
    BY <2>2, <2>3
<1>4. removed \subseteq DOMAIN assignments
  BY DEF RemovedFrom, ConfirmedAssignments
<1> HIDE DEF removed
<1>5. released = {s \in matched : assignments[s].state = "removal_pending"}
  BY <1>2, <1>3, <1>4
<1>6. \A s \in released : devState[assignments[s].device] = "revocation_pending"
  BY <1>2, <1>5 DEF TablesInv, StoreInv, RemovalsAreRevocations, RevokedHoldsNothing,
                    Assignment
<1>7. revoked = {assignments[s].device : s \in released}
  <2>1. \A s \in released : assignments[s].device \in revoked
    BY <1>2, <1>4, <1>6 DEF Assignment
  <2>2. ASSUME NEW d \in revoked
        PROVE  \E s \in released : assignments[s].device = d
    <3>1. PICK s \in removed : assignments[s].device = d
      OBVIOUS
    <3>2. assignments[s].state # "removed"
      BY <1>4, <3>1 DEF TablesInv, StoreInv, RemovedMeansRevoked
    <3> QED
      BY <1>2, <1>4, <3>1, <3>2
  <2> QED
    BY <2>1, <2>2
<1>8. \A s \in matched : /\ s \in DOMAIN assignments
                         /\ assignments[s].gateway = g
                         /\ assignments[s].desired <= gen
                         /\ assignments[s].state \in LiveStates
  BY DEF LiveAssignment
<1> HIDE DEF matched, released, revoked
<1>9. DOMAIN rows = matched /\ \A s \in matched : rows[s] = assignments[s]
  OBVIOUS
<1>10. /\ released = {s \in DOMAIN rows : rows[s].state = "removal_pending"}
       /\ revoked = {rows[s].device : s \in released}
  BY <1>5, <1>7, <1>9
<1> HIDE DEF rows
<1>11. /\ tx'[t].step = "confirm" /\ tx'[t].gateway = g /\ tx'[t].gen = gen
       /\ tx'[t].matched = rows /\ tx'[t].released = released
       /\ tx'[t].revoked = revoked
  BY <1>1
<1>12. ConfirmationOK(t)'
  BY <1>1, <1>8, <1>9, <1>10, <1>11 DEF ConfirmationOK, storeVars
<1> QED
  BY <1>1, <1>11, <1>12, ReadingStep
  DEF TxOK, HoldsDevice, HoldsRegion, HoldsGateway

-----------------------------------------------------------------------------
(***************************************************************************)
(* The steps that write.                                                   *)
(***************************************************************************)
\* Loads and used addresses of a region do not grow if its gateways get no
\* live assignment and it gets no held lease.
LEMMA ViewShrinks ==
    ASSUME IsFiniteSet(DOMAIN assignments), NEW r \in Regions,
           \A g \in Gateways : GatewayRegion[g] = r => LiveOn(g)' \subseteq LiveOn(g),
           \A s \in DOMAIN leases' : HeldLease(s)' /\ leases'[s].region = r =>
              /\ s \in DOMAIN leases /\ HeldLease(s) /\ leases[s].region = r
              /\ leases'[s].v4 = leases[s].v4 /\ leases'[s].v6 = leases[s].v6
    PROVE  ViewKept(r)
<1>1. ASSUME NEW g \in Gateways, Roomy(g, r)
      PROVE  Roomy(g, r)'
  <2>1. /\ IsFiniteSet(LiveOn(g)) /\ Load(g) \in Nat
        /\ Load(g) = Cardinality(LiveOn(g))
    BY LoadIsNat
  <2>2. LiveOn(g)' \subseteq LiveOn(g)
    BY <1>1 DEF Roomy
  <2>3. Cardinality(LiveOn(g)') <= Cardinality(LiveOn(g))
        /\ Cardinality(LiveOn(g)') \in Nat
    BY <2>1, <2>2, FS_Subset, FS_CardinalityType
  <2>4. Load(g)' = Cardinality(LiveOn(g)')
    BY DEF Load, LiveOn
  <2>5. Capacity[g] \in Nat
    BY ControlStoreAssumptions
  <2>6. Load(g)' < Capacity[g]
    BY <1>1, <2>1, <2>3, <2>4, <2>5 DEF Roomy
  <2> QED
    BY <1>1, <2>6 DEF Roomy
<1>2. UsedV4(r)' \subseteq UsedV4(r) /\ UsedV6(r)' \subseteq UsedV6(r)
  <2>1. ASSUME NEW s \in DOMAIN leases', HeldLease(s)', leases'[s].region = r
        PROVE  leases'[s].v4 \in UsedV4(r) /\ leases'[s].v6 \in UsedV6(r)
    BY <2>1 DEF UsedV4, UsedV6
  <2> QED
    BY <2>1 DEF UsedV4, UsedV6, HeldLease
<1> QED
  BY <1>1, <1>2 DEF ViewKept

\* A step that inserts nothing and makes nothing live again shrinks every view.
LEMMA UpdatesShrinkViews ==
    ASSUME TablesInv, DOMAIN leases' = DOMAIN leases,
           DOMAIN assignments' = DOMAIN assignments,
           \A s \in DOMAIN leases :
              /\ leases'[s].region = leases[s].region
              /\ leases'[s].v4 = leases[s].v4 /\ leases'[s].v6 = leases[s].v6
              /\ HeldLease(s)' => HeldLease(s)
              /\ assignments'[s].gateway = assignments[s].gateway
              /\ LiveAssignment(s)' => LiveAssignment(s)
    PROVE  \A r \in Regions : ViewKept(r)
<1>1. DOMAIN leases = DOMAIN assignments
  BY DEF TablesInv, StoreInv, LeaseFollowsAssignment
<1>2. \A g \in Gateways : LiveOn(g)' \subseteq LiveOn(g)
  BY <1>1 DEF LiveOn
<1> QED
  BY <1>2, ViewShrinks DEF TablesInv, CapacityInv

\* A statement outside the transactions keeps them as they are if it respects
\* their locks.
LEMMA StatementKeepsTx ==
    ASSUME TxInv, TablesInv, UNCHANGED tx, \A o \in Handlers : Respects(o)
    PROVE  TxInv'
<1>1. \A o \in Handlers : TxOK(o)'
  BY Undisturbed DEF TxInv, Follows
<1>2. LocksExclude' /\ NewSlotsDiffer'
  BY DEF TxInv, LocksExclude, NewSlotsDiffer, HoldsDevice, HoldsRegion, HoldsGateway
<1> QED
  BY <1>1, <1>2 DEF TxInv

LEMMA DeviceStatementsKeepTx ==
    ASSUME TxInv, TablesInv, DeviceStatements, UNCHANGED tx
    PROVE  TxInv'
<1>1. UNCHANGED <<leases, assignments, ready, available>>
  BY DEF DeviceStatements, RegisterDevice, RequestRevocation
<1>2. PICK e \in Devices :
         /\ \A d \in Devices \ {e} : devState'[d] = devState[d]
                                     /\ devOwner'[d] = devOwner[d]
         /\ \/ devState[e] # "active"
            \/ \A t \in Handlers : ~HoldsDevice(t, e)
  <2>1. PICK e \in Devices : \E u \in Users :
           \/ RegisterDevice(u, e)
           \/ RequestRevocation(u, e) /\ \A t \in Handlers : ~HoldsDevice(t, e)
    BY DEF DeviceStatements
  <2>2. \A d \in Devices \ {e} : devState'[d] = devState[d]
                                 /\ devOwner'[d] = devOwner[d]
    BY <2>1 DEF RegisterDevice, RequestRevocation, TablesInv, StoreInv, StoreTypeOK
  <2>3. \/ devState[e] # "active"
        \/ \A t \in Handlers : ~HoldsDevice(t, e)
    BY <2>1 DEF RegisterDevice
  <2> QED
    BY <2>2, <2>3
<1>3. ASSUME NEW o \in Handlers
      PROVE  Respects(o)
  <2>1. \A r \in Regions : ViewKept(r)
    BY <1>1 DEF ViewKept, Roomy, Load, LiveAssignment, UsedV4, UsedV6, HeldLease
  <2> QED
    BY <1>1, <1>2, <2>1 DEF Respects, HeldLease
<1> QED
  BY <1>3, StatementKeepsTx

LEMMA OperatorStatementsKeepTx ==
    ASSUME TxInv, TablesInv, OperatorStatements, UNCHANGED tx
    PROVE  TxInv'
<1>1. ASSUME NEW s \in Slots, OperatorMarksRemoval(s),
             \A t \in Handlers : ~HoldsSlot(t, s), NEW o \in Handlers
      PROVE  Respects(o)
  <2>1. /\ UNCHANGED <<devState, devOwner, leases, ready, available>>
        /\ DOMAIN assignments' = DOMAIN assignments
        /\ \A x \in DOMAIN assignments :
              /\ x # s => assignments'[x] = assignments[x]
              /\ assignments'[x].gateway = assignments[x].gateway
              /\ LiveAssignment(x)' => LiveAssignment(x)
    BY <1>1 DEF OperatorMarksRemoval, TablesInv, StoreInv, StoreTypeOK, IsTable,
                Assignment, LiveAssignment, LiveStates
  <2>2. DOMAIN leases = DOMAIN assignments
    BY DEF TablesInv, StoreInv, LeaseFollowsAssignment
  <2>3. \A r \in Regions : ViewKept(r)
    BY <2>1, <2>2, UpdatesShrinkViews DEF HeldLease
  <2> QED
    BY <1>1, <2>1, <2>2, <2>3 DEF Respects, HeldLease
<1>2. ASSUME NEW g \in Drainable, OperatorSetsGateway(g),
             \A t \in Handlers : ~HoldsGateway(t, g), NEW o \in Handlers
      PROVE  Respects(o)
  <2>1. /\ UNCHANGED <<devState, devOwner, leases, assignments, available>>
        /\ \A h \in Gateways \ {g} : h \in ready => h \in ready'
    BY <1>2 DEF OperatorSetsGateway
  <2>2. \A r \in Regions : ViewKept(r)
    BY <2>1 DEF ViewKept, Roomy, Load, LiveAssignment, UsedV4, UsedV6, HeldLease
  <2> QED
    BY <1>2, <2>1, <2>2 DEF Respects, HeldLease
<1>3. ASSUME NEW e \in Closable, OperatorSetsRegion(e),
             \A t \in Handlers : ~HoldsRegion(t, e), NEW o \in Handlers
      PROVE  Respects(o)
  <2>1. /\ UNCHANGED <<devState, devOwner, leases, assignments, ready>>
        /\ \A r \in Regions \ {e} : r \in available => r \in available'
    BY <1>3 DEF OperatorSetsRegion
  <2>2. \A r \in Regions : ViewKept(r)
    BY <2>1 DEF ViewKept, Roomy, Load, LiveAssignment, UsedV4, UsedV6, HeldLease
  <2> QED
    BY <1>3, <2>1, <2>2 DEF Respects, HeldLease
<1> QED
  BY <1>1, <1>2, <1>3, StatementKeepsTx DEF OperatorStatements

\* A transaction that ends holds nothing: the rest is as after any step.
LEMMA EndingStep ==
    ASSUME TxInv, TablesInv, NEW t \in Handlers,
           tx' = [x \in Handlers |-> tx'[x]], tx'[t] = Idle,
           \A o \in Others(t) : Follows(o) /\ Respects(o)
    PROVE  TxInv'
<1>1. TxOK(t)'
  BY DEF TxOK
<1>2. tx'[t].step = "idle"
  BY DEF Idle
<1> QED
  BY <1>1, <1>2, StepKeepsTx DEF HoldsDevice, HoldsRegion, HoldsGateway

\* CommitReuse writes to idempotency_keys only ...
LEMMA CommitReuseKeepsTx ==
    ASSUME TxInv, TablesInv, NEW t \in Handlers, CommitReuse(t)
    PROVE  TxInv'
<1>1. /\ tx' = [tx EXCEPT ![t] = Idle]
      /\ UNCHANGED <<devState, devOwner, leases, assignments, ready, available>>
  BY DEF CommitReuse
<1>2. tx'[t] = Idle /\ \A o \in Others(t) : Follows(o)
  BY <1>1 DEF TxInv, Others, Follows
<1>3. \A o \in Others(t) : Respects(o)
  BY <1>1, QuietRespects DEF Others
<1>4. tx' = [x \in Handlers |-> tx'[x]]
  BY <1>1 DEF TxInv
<1> QED
  BY <1>2, <1>3, <1>4, EndingStep

\* ... and what it stores is the live allocation of an active device.
LEMMA CommitReuseIsLedgerStep ==
    ASSUME TxInv, TablesInv, NEW t \in Handlers, CommitReuse(t)
    PROVE  LedgerNext
<1>1. tx[t].step = "commit" /\ tx[t].plan.kind = "reuse"
  BY DEF CommitReuse
<1>2. ConfigurationOK(t) /\ IsConfiguration(tx[t])
  BY <1>1, ConfigurationByStep DEF ConfigurationSteps
<1>3. PICK u \in Users, d \in Devices, r \in Regions, k \in IdemKeys :
         u = tx[t].user /\ d = tx[t].device /\ r = tx[t].region /\ k = tx[t].key
  BY <1>2 DEF IsConfiguration
<1>4. Admitted(u, d) /\ r \in available
  BY <1>1, <1>2, <1>3 DEF ConfigurationOK
<1>5. ReuseOK(t)
  BY <1>1, <1>2 DEF ConfigurationOK, PlanOK
<1>6. ReuseConfiguration(u, d, r, k)
  BY <1>3, <1>4, <1>5 DEF CommitReuse, ReuseConfiguration, ReuseOK, Reusable
<1> QED
  BY <1>6 DEF LedgerNext

\* CommitAllocation takes the gateway, the addresses and the slot it planned;
\* if it may commit, the ledger would let it.
LEMMA CommitAllocationIsLedgerStep ==
    ASSUME TxInv, TablesInv, NEW t \in Handlers, CommitAllocation(t)
    PROVE  LedgerNext
<1> DEFINE p == tx[t].plan
<1>1. tx[t].step = "commit" /\ p.kind = "allocate"
  BY DEF CommitAllocation
<1>2. ConfigurationOK(t) /\ IsConfiguration(tx[t])
  BY <1>1, ConfigurationByStep DEF ConfigurationSteps
<1>3. PICK u \in Users, d \in Devices, r \in Regions, k \in IdemKeys :
         u = tx[t].user /\ d = tx[t].device /\ r = tx[t].region /\ k = tx[t].key
  BY <1>2 DEF IsConfiguration
<1>4. Admitted(u, d) /\ r \in available
  BY <1>1, <1>2, <1>3 DEF ConfigurationOK
<1>5. PlanOK(t) /\ AllocationOK(t)
  BY <1>1, <1>2 DEF ConfigurationOK, PlanOK
<1>6. LiveSlots(d) = {}
  <2> SUFFICES ASSUME NEW s \in LiveSlots(d) PROVE FALSE
    OBVIOUS
  <2>1. s \in DOMAIN leases /\ HeldLease(s) /\ assignments[s].device = d
    BY DEF LiveSlots, HeldLease
  <2>2. leases[s].device = d
    BY <2>1 DEF TablesInv, StoreInv, LeaseFollowsAssignment
  <2> QED
    BY <1>3, <1>5, <2>1, <2>2 DEF AllocationOK
<1>7. r \in Regions \ tx[t].missed
  BY <1>3 DEF CommitAllocation, Serializable
<1>8. /\ p.gateway \in ready /\ p.slot \in Slots \ DOMAIN leases
      /\ Roomy(p.gateway, r) /\ p.v4 \in Free4(r) /\ p.v6 \in Free6(r)
  BY <1>3, <1>5, <1>7 DEF PlanOK, AllocationOK
<1>9. /\ ~Stored(d, k)
      /\ InsertAllocation(d, r, k, p.slot, p.gateway, p.v4, p.v6)
      /\ UNCHANGED <<devState, devOwner, ready, available>>
  BY <1>3 DEF CommitAllocation
<1>10. AllocateFree(u, d, r, k)
  BY <1>4, <1>6, <1>8, <1>9 DEF AllocateFree, Roomy, Free4, Free6
<1> QED
  BY <1>10 DEF LedgerNext

\* Whoever else is allocating in the region has missed it; whoever else has
\* planned an allocation has planned another slot for another device.
LEMMA CommitAllocationKeepsTx ==
    ASSUME TxInv, TablesInv, NEW t \in Handlers, CommitAllocation(t)
    PROVE  TxInv'
<1> DEFINE c == tx[t]
           p == tx[t].plan
<1>1. c.step = "commit" /\ p.kind = "allocate"
  BY DEF CommitAllocation
<1>2. ConfigurationOK(t) /\ IsConfiguration(c)
  BY <1>1, ConfigurationByStep DEF ConfigurationSteps
<1>3. PlanOK(t) /\ AllocationOK(t)
  BY <1>1, <1>2 DEF ConfigurationOK, PlanOK
<1>4. GatewayRegion[p.gateway] = c.region
  BY <1>2, <1>3 DEF CommitAllocation, Serializable, PlanOK, AllocationOK, Roomy,
                    IsConfiguration
<1>5. /\ DOMAIN leases' = DOMAIN leases \cup {p.slot}
      /\ DOMAIN assignments' = DOMAIN assignments \cup {p.slot}
      /\ p.slot \notin DOMAIN leases
      /\ p.slot \notin DOMAIN assignments
      /\ leases'[p.slot].region = c.region
      /\ leases'[p.slot].device = c.device
      /\ assignments'[p.slot].gateway = p.gateway
      /\ \A s \in DOMAIN leases : leases'[s] = leases[s]
      /\ \A s \in DOMAIN assignments : assignments'[s] = assignments[s]
      /\ UNCHANGED <<devState, devOwner, ready, available>>
  <2>1. p.slot \notin DOMAIN leases /\ DOMAIN leases = DOMAIN assignments
    BY <1>3 DEF AllocationOK, TablesInv, StoreInv, LeaseFollowsAssignment
  <2>2. InsertAllocation(c.device, c.region, c.key, p.slot, p.gateway, p.v4, p.v6)
        /\ UNCHANGED <<devState, devOwner, ready, available>>
    BY DEF CommitAllocation
  <2> QED
    BY <2>1, <2>2 DEF InsertAllocation, Insert
<1>6. ASSUME NEW r \in Regions, r # c.region
      PROVE  ViewKept(r)
  <2>1. \A g \in Gateways : GatewayRegion[g] = r => LiveOn(g)' \subseteq LiveOn(g)
    BY <1>4, <1>5, <1>6 DEF LiveOn, LiveAssignment
  <2>2. \A s \in DOMAIN leases' : HeldLease(s)' /\ leases'[s].region = r =>
              /\ s \in DOMAIN leases /\ HeldLease(s) /\ leases[s].region = r
              /\ leases'[s].v4 = leases[s].v4 /\ leases'[s].v6 = leases[s].v6
    BY <1>5, <1>6 DEF HeldLease
  <2> QED
    BY <2>1, <2>2, ViewShrinks DEF TablesInv, CapacityInv
<1>7. tx' = [o \in Handlers |->
                IF o = t THEN Idle
                ELSE IF tx[o].step \in {"idle", "confirm"} THEN tx[o]
                ELSE [tx[o] EXCEPT !.missed = @ \cup {c.region}]]
  BY DEF CommitAllocation
<1>8. ASSUME NEW o \in Others(t)
      PROVE  Follows(o) /\ Respects(o)
  <2>1. o \in Handlers /\ o # t /\ TxOK(o)
    BY DEF TxInv, Others
  <2>2. tx[o].step \in ConfigurationSteps \cup {"idle", "confirm"}
    BY <2>1 DEF TxOK, Idle, ConfirmationOK, ConfigurationOK, IsConfiguration
  <2>3. \/ tx[o].step \in {"idle", "confirm"} /\ tx'[o] = tx[o]
        \/ /\ tx[o].step \in ConfigurationSteps
           /\ tx'[o] = [tx[o] EXCEPT !.missed = @ \cup {c.region}]
    BY <1>7, <2>1, <2>2
  <2>4. Follows(o)
    BY <2>3 DEF Follows
  <2>5. tx[o].step \in ConfigurationSteps => c.region \in tx'[o].missed
    <3> SUFFICES ASSUME tx[o].step \in ConfigurationSteps
                 PROVE  c.region \in tx'[o].missed
      OBVIOUS
    <3>1. IsConfiguration(tx[o])
      BY <2>1, ConfigurationByStep
    <3>2. tx'[o] = [tx[o] EXCEPT !.missed = @ \cup {c.region}]
      BY <2>3 DEF ConfigurationSteps
    <3>3. tx'[o].missed = tx[o].missed \cup {c.region}
      BY <3>1, <3>2 DEF IsConfiguration
    <3> QED
      BY <3>3
  <2>6. tx[o].step = "commit" /\ tx[o].plan.kind = "allocate" =>
           p.slot # tx[o].plan.slot
    BY <1>1, <2>1 DEF TxInv, NewSlotsDiffer
  <2>7. tx[o].step = "commit" => tx[o].device # c.device
    <3>1. HoldsDevice(t, c.device) /\ c.device \in Devices
      BY <1>1, <1>2 DEF HoldsDevice, IsConfiguration
    <3> QED
      BY <2>1, <3>1 DEF TxInv, LocksExclude, HoldsDevice
  <2>8. tx[o].step \in ConfigurationSteps =>
          \A r \in Regions \ tx'[o].missed : tx[o].region = r => ViewKept(r)
    BY <1>6, <2>5
  <2>9. DOMAIN leases = DOMAIN assignments
    BY DEF TablesInv, StoreInv, LeaseFollowsAssignment
  <2>10. Respects(o)
    BY <1>5, <2>6, <2>7, <2>8, <2>9 DEF Respects, HeldLease
  <2> QED
    BY <2>4, <2>10
<1>9. tx' = [x \in Handlers |-> tx'[x]] /\ tx'[t] = Idle
  BY <1>7
<1> QED
  BY <1>8, <1>9, EndingStep

\* What a confirmation that commits has matched is what the tables hold now.
LEMMA ConfirmationRows ==
    ASSUME TxInv, TablesInv, NEW t \in Handlers, CommitConfirmation(t)
    PROVE  /\ tx[t].gateway \in Gateways /\ tx[t].gen \in 1..MaxGeneration
           /\ DOMAIN leases = DOMAIN assignments
           /\ \A s \in DOMAIN tx[t].matched :
                 /\ s \in DOMAIN assignments
                 /\ assignments[s].gateway = tx[t].gateway
                 /\ assignments[s].desired <= tx[t].gen
                 /\ assignments[s].state \in LiveStates
           /\ tx[t].released = {s \in DOMAIN tx[t].matched :
                                   assignments[s].state = "removal_pending"}
           /\ tx[t].revoked = {assignments[s].device : s \in tx[t].released}
<1> DEFINE c == tx[t]
<1>1. ConfirmationOK(t)
  <2>1. c.step = "confirm" /\ TxOK(t)
    BY DEF CommitConfirmation, TxInv
  <2> QED
    BY <2>1 DEF TxOK, Idle, ConfigurationOK, IsConfiguration, ConfigurationSteps
<1>2. \A s \in DOMAIN c.matched : assignments[s] = c.matched[s]
  BY DEF CommitConfirmation, RowsUnchanged
<1>3. DOMAIN leases = DOMAIN assignments
  BY DEF TablesInv, StoreInv, LeaseFollowsAssignment
<1>4. c.released = {s \in DOMAIN c.matched : assignments[s].state = "removal_pending"}
  BY <1>1, <1>2 DEF ConfirmationOK
<1>5. c.revoked = {assignments[s].device : s \in c.released}
  <2>1. c.revoked = {c.matched[s].device : s \in c.released}
    BY <1>1 DEF ConfirmationOK
  <2>2. \A s \in c.released : assignments[s] = c.matched[s]
    BY <1>2, <1>4
  <2> QED
    BY <2>1, <2>2
<1> QED
  BY <1>1, <1>2, <1>3, <1>4, <1>5 DEF ConfirmationOK

\* A confirmation sees the rows it matched; those it missed need nothing.
LEMMA CommitConfirmationIsLedgerStep ==
    ASSUME TxInv, TablesInv, NEW t \in Handlers, CommitConfirmation(t)
    PROVE  LedgerNext
<1>1. PICK g \in Gateways, gen \in 1..MaxGeneration : g = tx[t].gateway /\ gen = tx[t].gen
  BY ConfirmationRows
<1> DEFINE seen == DOMAIN tx[t].matched
           released == tx[t].released
           removed == RemovedFrom(g, assignments')
<1>2. /\ \A s \in seen : /\ s \in DOMAIN assignments
                         /\ assignments[s].gateway = g
                         /\ assignments[s].desired <= gen
                         /\ assignments[s].state \in LiveStates
      /\ released = {s \in seen : assignments[s].state = "removal_pending"}
      /\ tx[t].revoked = {assignments[s].device : s \in released}
      /\ DOMAIN leases = DOMAIN assignments
  BY <1>1, ConfirmationRows
<1>3. seen \in SUBSET Slots
  BY <1>2 DEF TablesInv, StoreInv, StoreTypeOK, IsTable
<1>4. assignments' = [s \in DOMAIN assignments |->
                         IF s \in seen THEN ConfirmedAssignments(g, gen)[s]
                                       ELSE assignments[s]]
  BY <1>1 DEF CommitConfirmation
<1>5. ASSUME NEW s \in DOMAIN assignments
      PROVE  IF s \in seen
             THEN s \in removed <=> s \in released
             ELSE s \in removed => assignments[s].state = "removed"
  <2>1. assignments[s] \in Assignment
    BY DEF TablesInv, StoreInv, StoreTypeOK, IsTable
  <2>2. CASE s \in seen
    <3>1. assignments'[s] = [assignments[s] EXCEPT
              !.state = IF @ = "removal_pending" THEN "removed" ELSE "active",
              !.observed = assignments[s].desired]
      BY <1>2, <1>4, <2>2 DEF ConfirmedAssignments
    <3>2. /\ assignments'[s].gateway = g
          /\ assignments'[s].state = "removed" <=> assignments[s].state = "removal_pending"
      BY <1>2, <2>1, <2>2, <3>1 DEF Assignment
    <3> QED
      BY <1>2, <1>4, <2>2, <3>2 DEF RemovedFrom
  <2>3. CASE s \notin seen
    BY <1>4, <2>3 DEF RemovedFrom
  <2> QED
    BY <2>2, <2>3
<1>6. released \subseteq removed /\ removed \subseteq DOMAIN assignments
  BY <1>2, <1>4, <1>5 DEF RemovedFrom
<1>7. \A s \in removed \ released :
         /\ ~LiveAssignment(s)
         /\ devState[assignments[s].device] = "revoked"
  <2>1. \A s \in removed \ released : assignments[s].state = "removed"
    BY <1>5, <1>6
  <2> QED
    BY <1>6, <2>1 DEF LiveAssignment, LiveStates, TablesInv, StoreInv,
                      RemovedMeansRevoked
<1> HIDE DEF seen, removed, released
<1>8. leases' = [s \in DOMAIN leases |->
                    IF s \in removed THEN [leases[s] EXCEPT !.released = TRUE]
                                     ELSE leases[s]]
  <2>1. leases' = [s \in DOMAIN leases |->
                      [leases[s] EXCEPT !.released = @ \/ s \in released]]
    BY DEF CommitConfirmation, released
  <2>2. ASSUME NEW s \in DOMAIN leases
        PROVE  leases'[s] = IF s \in removed
                            THEN [leases[s] EXCEPT !.released = TRUE]
                            ELSE leases[s]
    <3>1. leases[s] \in Lease
      BY DEF TablesInv, StoreInv, StoreTypeOK, IsTable
    <3>2. leases'[s] = [leases[s] EXCEPT !.released = leases[s].released \/ s \in released]
      BY <2>1
    <3>3. CASE s \in released
      <4>1. (leases[s].released \/ s \in released) = TRUE
        BY <3>3
      <4> QED
        BY <1>6, <3>2, <3>3, <4>1
    <3>4. CASE s \notin released
      <4>1. leases[s].released \in BOOLEAN
        BY <3>1 DEF Lease
      <4>2. (leases[s].released \/ s \in released) = leases[s].released
        BY <3>4, <4>1
      <4>3. leases'[s] = [leases[s] EXCEPT !.released = leases[s].released]
        BY <3>2, <4>2
      <4>4. leases'[s] = leases[s]
        BY <3>1, <4>3 DEF Lease
      <4>5. s \in removed => leases[s].released = TRUE
        <5>1. s \in removed => ~LiveAssignment(s)
          BY <1>7, <3>4
        <5>2. HeldLease(s) <=> LiveAssignment(s)
          BY DEF TablesInv, StoreInv, LeaseFollowsAssignment
        <5> QED
          BY <4>1, <5>1, <5>2 DEF HeldLease
      <4> QED
        BY <3>1, <4>4, <4>5 DEF Lease
    <3> QED
      BY <3>3, <3>4
  <2> QED
    BY <2>1, <2>2
<1>9. devState' = [d \in Devices |->
                      IF /\ devState[d] = "revocation_pending"
                         /\ \E s \in removed : assignments[s].device = d
                      THEN "revoked"
                      ELSE devState[d]]
  <2>1. devState' = [d \in Devices |-> IF d \in tx[t].revoked THEN "revoked"
                                                             ELSE devState[d]]
    BY DEF CommitConfirmation
  <2>2. \A d \in tx[t].revoked : devState[d] = "revocation_pending"
    BY DEF CommitConfirmation, RowsUnchanged
  <2>3. tx[t].revoked = {assignments[s].device : s \in released}
    BY <1>2 DEF released
  <2>4. \A d \in tx[t].revoked : \E s \in removed : assignments[s].device = d
    BY <1>6, <2>3
  <2>5. ASSUME NEW d \in Devices, devState[d] = "revocation_pending",
               NEW s \in removed, assignments[s].device = d
        PROVE  d \in tx[t].revoked
    <3>1. s \in released
      BY <1>7, <2>5
    <3> QED
      BY <2>3, <2>5, <3>1
  <2> QED
    BY <2>1, <2>2, <2>4, <2>5
<1>10. UNCHANGED <<devOwner, idem, ready, available>>
  BY DEF CommitConfirmation
<1>11. ConfirmAmong(g, gen, seen)
  BY <1>4, <1>8, <1>9, <1>10 DEF ConfirmAmong, removed, seen
<1> QED
  BY <1>3, <1>11 DEF LedgerNext

\* A confirmation takes nothing from another transaction: it waits for the
\* rows that are held, and otherwise only ends leases and assignments.
LEMMA CommitConfirmationKeepsTx ==
    ASSUME TxInv, TablesInv, NEW t \in Handlers, CommitConfirmation(t)
    PROVE  TxInv'
<1> DEFINE c == tx[t]
<1>1. /\ DOMAIN leases = DOMAIN assignments
      /\ \A s \in DOMAIN c.matched : s \in DOMAIN assignments
                                     /\ assignments[s].state \in LiveStates
      /\ c.released \subseteq DOMAIN c.matched
  BY ConfirmationRows
<1>2. /\ DOMAIN leases' = DOMAIN leases
      /\ \A s \in DOMAIN leases :
            leases'[s] = [leases[s] EXCEPT !.released = @ \/ s \in c.released]
  BY DEF CommitConfirmation
<1>3. ASSUME NEW s \in DOMAIN leases
      PROVE  /\ leases'[s].region = leases[s].region
             /\ leases'[s].device = leases[s].device
             /\ leases'[s].v4 = leases[s].v4 /\ leases'[s].v6 = leases[s].v6
             /\ HeldLease(s)' => HeldLease(s)
             /\ s \notin c.released => leases'[s] = leases[s]
  <2>1. leases[s] \in Lease
    BY DEF TablesInv, StoreInv, StoreTypeOK, IsTable
  <2>2. leases'[s] = [leases[s] EXCEPT !.released = leases[s].released \/ s \in c.released]
    BY <1>2
  <2>3. leases'[s].released <=> leases[s].released \/ s \in c.released
    BY <2>1, <2>2 DEF Lease
  <2>4. /\ leases'[s].region = leases[s].region
        /\ leases'[s].device = leases[s].device
        /\ leases'[s].v4 = leases[s].v4 /\ leases'[s].v6 = leases[s].v6
    BY <2>1, <2>2 DEF Lease
  <2>5. ASSUME s \notin c.released
        PROVE  leases'[s] = leases[s]
    <3>1. leases[s].released \in BOOLEAN
      BY <2>1 DEF Lease
    <3>2. (leases[s].released \/ s \in c.released) = leases[s].released
      BY <2>5, <3>1
    <3>3. leases'[s] = [leases[s] EXCEPT !.released = leases[s].released]
      BY <2>2, <3>2
    <3> QED
      BY <2>1, <3>3 DEF Lease
  <2> QED
    BY <2>3, <2>4, <2>5 DEF HeldLease
<1>4. DOMAIN assignments' = DOMAIN assignments
  BY DEF CommitConfirmation
<1>5. ASSUME NEW s \in DOMAIN assignments
      PROVE  /\ assignments'[s].gateway = assignments[s].gateway
             /\ LiveAssignment(s)' => LiveAssignment(s)
             /\ s \notin DOMAIN c.matched => assignments'[s] = assignments[s]
  <2>1. assignments[s] \in Assignment
    BY DEF TablesInv, StoreInv, StoreTypeOK, IsTable
  <2>2. assignments'[s] = IF s \in DOMAIN c.matched
                          THEN ConfirmedAssignments(c.gateway, c.gen)[s]
                          ELSE assignments[s]
    BY DEF CommitConfirmation
  <2>3. ConfirmedAssignments(c.gateway, c.gen)[s].gateway = assignments[s].gateway
    BY <2>1 DEF ConfirmedAssignments, Assignment
  <2>4. s \in DOMAIN c.matched => LiveAssignment(s)
    BY <1>1 DEF LiveAssignment
  <2> QED
    BY <2>2, <2>3, <2>4 DEF LiveAssignment
<1>6. /\ UNCHANGED <<devOwner, ready, available>>
      /\ \A d \in Devices : devState[d] = "active" => devState'[d] = "active"
  <2>1. /\ devState' = [d \in Devices |-> IF d \in c.revoked THEN "revoked"
                                                            ELSE devState[d]]
        /\ UNCHANGED <<devOwner, ready, available>>
    BY DEF CommitConfirmation
  <2>2. \A d \in c.revoked : devState[d] = "revocation_pending"
    BY DEF CommitConfirmation, RowsUnchanged
  <2> QED
    BY <2>1, <2>2
<1>7. \A o \in Others(t) : \A s \in DOMAIN c.matched \cup c.released : ~HoldsSlot(o, s)
  BY DEF CommitConfirmation, RowsUnchanged
<1>8. \A r \in Regions : ViewKept(r)
  BY <1>1, <1>2, <1>3, <1>4, <1>5, UpdatesShrinkViews
<1>9. tx' = [tx EXCEPT ![t] = Idle]
  BY DEF CommitConfirmation
<1>10. tx' = [x \in Handlers |-> tx'[x]] /\ tx'[t] = Idle
  BY <1>9 DEF TxInv
<1>11. ASSUME NEW o \in Others(t)
       PROVE  Follows(o) /\ Respects(o)
  <2>1. tx'[o] = tx[o]
    BY <1>9 DEF TxInv, Others
  <2>2. \A s \in DOMAIN leases : HoldsSlot(o, s) =>
          /\ s \in DOMAIN leases' /\ leases'[s] = leases[s]
          /\ assignments'[s] = assignments[s]
    BY <1>1, <1>2, <1>3, <1>5, <1>7
  <2>3. Respects(o)
    BY <1>2, <1>3, <1>4, <1>6, <1>8, <2>2 DEF Respects
  <2> QED
    BY <2>1, <2>3 DEF Follows
<1> QED
  BY <1>10, <1>11, EndingStep

-----------------------------------------------------------------------------
(***************************************************************************)
(* The refinement.                                                         *)
(***************************************************************************)
\* The single-statement writers are steps of the ledger as they are.
LEMMA StatementsAreLedgerSteps ==
    ASSUME DeviceStatements \/ OperatorStatements
    PROVE  LedgerNext
BY DEF DeviceStatements, OperatorStatements, LedgerNext, OperatorNext

\* A step that reads, locks, plans or rolls back leaves the tables alone.
TxNextQuiet(t) ==
    \/ \E u \in Users, d \in Devices, r \in Regions : \E k \in KeysOf[d] :
          BeginConfiguration(t, u, d, r, k)
    \/ LockDevice(t)
    \/ LockRegion(t)
    \/ FindAllocation(t)
    \/ PlanAllocation(t)
    \/ RollBack(t)
    \/ \E g \in Gateways, gen \in 1..MaxGeneration : BeginConfirmation(t, g, gen)

LEMMA QuietSteps ==
    ASSUME TxInv, TablesInv, NEW t \in Handlers, TxNextQuiet(t)
    PROVE  TxInv' /\ UNCHANGED storeVars
<1>1. ASSUME NEW u \in Users, NEW d \in Devices, NEW r \in Regions,
             NEW k \in KeysOf[d], BeginConfiguration(t, u, d, r, k)
      PROVE  TxInv' /\ UNCHANGED storeVars
  BY <1>1, BeginConfigurationKeepsTx DEF BeginConfiguration
<1>2. CASE LockDevice(t)
  BY <1>2, LockDeviceKeepsTx DEF LockDevice
<1>3. CASE LockRegion(t)
  BY <1>3, LockRegionKeepsTx DEF LockRegion
<1>4. CASE FindAllocation(t)
  BY <1>4, FindAllocationKeepsTx DEF FindAllocation
<1>5. CASE PlanAllocation(t)
  BY <1>5, PlanAllocationKeepsTx DEF PlanAllocation
<1>6. CASE RollBack(t)
  BY <1>6, RollBackKeepsTx DEF RollBack
<1>7. ASSUME NEW g \in Gateways, NEW gen \in 1..MaxGeneration,
             BeginConfirmation(t, g, gen)
      PROVE  TxInv' /\ UNCHANGED storeVars
  BY <1>7, BeginConfirmationKeepsTx DEF BeginConfirmation
<1> QED
  BY <1>1, <1>2, <1>3, <1>4, <1>5, <1>6, <1>7 DEF TxNextQuiet

\* Every step keeps the transactions right and is a step of the ledger.
LEMMA StepIsLedgerStep ==
    ASSUME TxInv, TablesInv, [Next]_txVars
    PROVE  TxInv' /\ [LedgerNext]_storeVars
<1>1. CASE UNCHANGED txVars
  <2>1. UNCHANGED storeVars /\ UNCHANGED tx
    BY <1>1 DEF txVars
  <2>2. \A o \in Handlers : Respects(o)
    BY <2>1, QuietRespects DEF storeVars
  <2> QED
    BY <2>1, <2>2, StatementKeepsTx
<1>2. CASE DeviceStatements /\ UNCHANGED tx
  BY <1>2, DeviceStatementsKeepTx, StatementsAreLedgerSteps
<1>3. CASE OperatorStatements /\ UNCHANGED tx
  BY <1>3, OperatorStatementsKeepTx, StatementsAreLedgerSteps
<1>4. ASSUME NEW t \in Handlers, TxNextQuiet(t)
      PROVE  TxInv' /\ [LedgerNext]_storeVars
  BY <1>4, QuietSteps
<1>5. ASSUME NEW t \in Handlers, CommitAllocation(t)
      PROVE  TxInv' /\ [LedgerNext]_storeVars
  BY <1>5, CommitAllocationKeepsTx, CommitAllocationIsLedgerStep
<1>6. ASSUME NEW t \in Handlers, CommitReuse(t)
      PROVE  TxInv' /\ [LedgerNext]_storeVars
  BY <1>6, CommitReuseKeepsTx, CommitReuseIsLedgerStep
<1>7. ASSUME NEW t \in Handlers, CommitConfirmation(t)
      PROVE  TxInv' /\ [LedgerNext]_storeVars
  BY <1>7, CommitConfirmationKeepsTx, CommitConfirmationIsLedgerStep
<1> QED
  BY <1>1, <1>2, <1>3, <1>4, <1>5, <1>6, <1>7 DEF Next, TxNextQuiet

\* No transaction under way at first.
LEMMA InitialTx ==
    ASSUME Init
    PROVE  TxInv /\ TablesInv
<1>1. TablesInv
  BY InitialInv, InitialCapacity DEF Init, TablesInv
<1>2. tx = [t \in Handlers |-> tx[t]] /\ \A t \in Handlers : tx[t] = Idle
  BY DEF Init
<1>3. \A t \in Handlers : tx[t].step = "idle"
  BY <1>2 DEF Idle
<1>4. (\A t \in Handlers : TxOK(t)) /\ LocksExclude /\ NewSlotsDiffer
  BY <1>2, <1>3 DEF TxOK, LocksExclude, NewSlotsDiffer, HoldsDevice, HoldsRegion,
                    HoldsGateway
<1> QED
  BY <1>1, <1>2, <1>4 DEF TxInv

\* The inductive invariant of the transactions and the tables.
LEMMA TransactionsInvariant == Spec => [](TxInv /\ TablesInv)
<1>1. Init => TxInv /\ TablesInv
  BY InitialTx
<1>2. TxInv /\ TablesInv /\ [Next]_txVars => (TxInv /\ TablesInv)'
  <2> SUFFICES ASSUME TxInv, TablesInv, [Next]_txVars
               PROVE  (TxInv /\ TablesInv)'
    OBVIOUS
  <2>1. TxInv' /\ [LedgerNext]_storeVars
    BY StepIsLedgerStep
  <2>2. StoreInv /\ CapacityInv
    BY DEF TablesInv
  <2>3. StoreInv'
    BY <2>1, <2>2, LedgerKeepsInv
  <2>4. CapacityInv'
    BY <2>1, <2>2, LedgerKeepsCapacity
  <2> QED
    BY <2>1, <2>3, <2>4 DEF TablesInv
<1> QED
  BY <1>1, <1>2, PTL DEF Spec

\* Transactions that decide on an old snapshot and commit later write what a
\* transaction of the ledger, deciding and committing at once, would write.
THEOREM TransactionsImplementLedger == Spec => LedgerSpec
<1>1. Init => StoreInit
  BY DEF Init
<1>2. TxInv /\ TablesInv /\ [Next]_txVars => [LedgerNext]_storeVars
  BY StepIsLedgerStep
<1> QED
  BY <1>1, <1>2, TransactionsInvariant, PTL DEF Spec, LedgerSpec

\* So the committed tables keep what the ledger keeps: addresses and
\* allocations are unique, leases follow assignments, revoked devices hold
\* nothing, replays are current and no gateway is over capacity, whatever
\* the interleaving of the handlers' statements.
THEOREM TransactionsSafety ==
    Spec => [](/\ LiveAddressesUnique
               /\ OneLiveAllocationPerDevice
               /\ LeaseFollowsAssignment
               /\ RevokedHoldsNothing
               /\ ReplayedConfigurationIsCurrent
               /\ CapacityRespected)
BY TransactionsImplementLedger, LedgerSafety, PTL

\* The tables keep their types, a transaction about to commit has planned
\* well-typed rows, and FOR UPDATE and the advisory lock exclude each other.
THEOREM TransactionsTypeCorrect == Spec => []TransactionsTypeOK
<1>1. TxInv /\ TablesInv => TransactionsTypeOK
  <2> SUFFICES ASSUME TxInv, TablesInv
               PROVE  TransactionsTypeOK
    OBVIOUS
  <2>1. ASSUME NEW t \in Handlers
        PROVE  /\ tx[t].step \in Steps
               /\ tx[t].step = "commit" =>
                     /\ tx[t].plan.slot \in Slots
                     /\ tx[t].plan.gateway \in Gateways
                     /\ {tx[t].plan.v4, tx[t].plan.v6} \subseteq Nat
    <3>1. TxOK(t)
      BY DEF TxInv
    <3>2. tx[t].step \in Steps
      BY <3>1 DEF TxOK, Idle, ConfirmationOK, ConfigurationOK, IsConfiguration,
                  ConfigurationSteps, Steps
    <3>3. tx[t].step = "commit" => PlanOK(t)
      BY <3>1, ConfigurationByStep DEF ConfigurationOK, ConfigurationSteps
    <3> QED
      BY <3>2, <3>3 DEF PlanOK
  <2>2. StoreTypeOK
    BY DEF TablesInv, StoreInv
  <2> QED
    BY <2>1, <2>2 DEF TransactionsTypeOK, TxInv, LocksExclude
<1> QED
  BY <1>1, TransactionsInvariant, PTL

\* A store whose transactions interleave statement by statement is a device
\* service all the same.
THEOREM TransactionsKeepPromise == Spec => StoreKeepsPromise
BY LedgerKeepsPromise, TransactionsImplementLedger, PTL
=============================================================================
