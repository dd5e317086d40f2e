----------------------- MODULE ControlServiceProofs -----------------------
(***************************************************************************)
(* The in-memory control service implements the device service, for every  *)
(* number of users, devices, regions and keys, as long as its counters     *)
(* stay below 2^16.  The two ways of choosing an address, the loop of      *)
(* AddressPool and the counter, agree with each other and with the         *)
(* reference definition of the least free host, for every pool.            *)
(***************************************************************************)
EXTENDS ControlService, MCAddressPool, FiniteSetTheorems, WellFoundedInduction,
        TLAPS

(***************************************************************************)
(* The loop of the database's allocator.  What a recursive function        *)
(* computes for every input is shown with the library's theorem that a     *)
(* set of naturals has a minimal element, applied to the iterations at     *)
(* which it would differ.                                                  *)
(***************************************************************************)
\* A set of natural numbers that is not empty has a least element: the
\* library's fact on minimal elements, for the order of Nat.
LEMMA NatMin ==
    ASSUME NEW T \in SUBSET Nat, T # {}
    PROVE  \E x \in T : \A y \in T : x <= y
<1>1. PICK x \in T : \A y \in T : ~ (<<y, x>> \in OpToRel(<, Nat))
  BY WFMin, NatLessThanWellFounded, Zenon
<1>2. \A y \in T : ~(y < x)
  BY <1>1, Zenon DEF OpToRel
<1> QED
  BY <1>2

\* Iteration i of the loop gives up.
Stops(p, i) ==
    \/ i = MaxAttempts
    \/ ~Contains(p, FirstHost + i)
    \/ LastReserved(p, FirstHost + i)

\* What iteration i and those after it may return, and the least of it.
FreeFrom(p, held, i) == {a \in HostCandidates(p) \ held : a >= FirstHost + i}

LeastFree(p, held, i) ==
    IF FreeFrom(p, held, i) = {}
    THEN Exhausted
    ELSE CHOOSE a \in FreeFrom(p, held, i) : \A b \in FreeFrom(p, held, i) : a <= b

\* The equation that the loop of FirstAvailableAddress satisfies.
Iterates(f, p, held) ==
    f = [i \in 0..MaxAttempts |->
            IF Stops(p, i) THEN Exhausted
            ELSE IF FirstHost + i \notin held THEN FirstHost + i ELSE f[i + 1]]

\* TLA+ defines a recursive function as some solution of its equation.
LEMMA LoopIsChosen ==
    ASSUME NEW p, NEW held
    PROVE  FirstAvailableAddress(p, held) = (CHOOSE f : Iterates(f, p, held))[0]
BY DEF FirstAvailableAddress, Iterates, Stops

\* The loop gives up beyond the last host, and tries hosts only.
LEMMA CandidateIsHost ==
    ASSUME NEW p \in Pools, NEW i \in 0..MaxAttempts
    PROVE  /\ Stops(p, i) => \A a \in HostCandidates(p) : a < FirstHost + i
           /\ ~Stops(p, i) => /\ FirstHost + i \in HostCandidates(p)
                              /\ i + 1 \in 0..MaxAttempts
<1> USE MaxAttemptsAssumption
    DEF Stops, HostCandidates, Contains, LastReserved, FirstHost
<1>1. p.size \in Nat
  BY DEF Pools
<1>2. Stops(p, i) => \A a \in HostCandidates(p) : a < FirstHost + i
  BY <1>1
<1>3. ~Stops(p, i) => FirstHost + i \in HostCandidates(p) /\ i + 1 \in 0..MaxAttempts
  BY <1>1
<1> QED
  BY <1>2, <1>3

\* LeastFree is a minimum.
LEMMA LeastFreeIsLeast ==
    ASSUME NEW p, NEW held, NEW i \in Nat, FreeFrom(p, held, i) # {}
    PROVE  /\ LeastFree(p, held, i) \in FreeFrom(p, held, i)
           /\ \A b \in FreeFrom(p, held, i) : LeastFree(p, held, i) <= b
<1>1. FreeFrom(p, held, i) \in SUBSET Nat
  BY MaxAttemptsAssumption DEF FreeFrom, HostCandidates
<1> QED
  BY <1>1, NatMin DEF LeastFree

\* LeastFree satisfies the equation of the loop: an address that is held is
\* passed over, and beyond the last host nothing is free.
LEMMA LeastFreeIterates ==
    ASSUME NEW p \in Pools, NEW held, NEW i \in 0..MaxAttempts
    PROVE  LeastFree(p, held, i) =
              IF Stops(p, i) THEN Exhausted
              ELSE IF FirstHost + i \notin held THEN FirstHost + i
              ELSE LeastFree(p, held, i + 1)
<1>0. \A a \in HostCandidates(p) : a \in Nat
  BY MaxAttemptsAssumption DEF HostCandidates
<1>1. CASE Stops(p, i)
  <2>1. FreeFrom(p, held, i) = {}
    BY <1>0, <1>1, CandidateIsHost, MaxAttemptsAssumption DEF FreeFrom, FirstHost
  <2> QED
    BY <1>1, <2>1 DEF LeastFree
<1>2. CASE ~Stops(p, i) /\ FirstHost + i \notin held
  <2>1. /\ FirstHost + i \in FreeFrom(p, held, i)
        /\ \A b \in FreeFrom(p, held, i) : b \in Nat /\ FirstHost + i <= b
    BY <1>0, <1>2, CandidateIsHost, MaxAttemptsAssumption DEF FreeFrom, FirstHost
  <2>2. /\ LeastFree(p, held, i) \in FreeFrom(p, held, i)
        /\ LeastFree(p, held, i) <= FirstHost + i
    BY <2>1, LeastFreeIsLeast
  <2>3. LeastFree(p, held, i) = FirstHost + i
    BY <2>1, <2>2 DEF FirstHost
  <2> QED
    BY <1>2, <2>3
<1>3. CASE ~Stops(p, i) /\ FirstHost + i \in held
  <2>1. FreeFrom(p, held, i) = FreeFrom(p, held, i + 1)
    BY <1>0, <1>3 DEF FreeFrom, FirstHost
  <2> QED
    BY <1>3, <2>1 DEF LeastFree
<1> QED
  BY <1>1, <1>2, <1>3

\* So the equation of the loop has a solution,
LEMMA LoopIterates ==
    ASSUME NEW p \in Pools, NEW held
    PROVE  Iterates([i \in 0..MaxAttempts |-> LeastFree(p, held, i)], p, held)
<1> DEFINE f == [i \in 0..MaxAttempts |-> LeastFree(p, held, i)]
<1>1. ASSUME NEW i \in 0..MaxAttempts
      PROVE  f[i] = IF Stops(p, i) THEN Exhausted
                    ELSE IF FirstHost + i \notin held THEN FirstHost + i ELSE f[i + 1]
  <2>1. ~Stops(p, i) => f[i + 1] = LeastFree(p, held, i + 1)
    BY CandidateIsHost
  <2> QED
    BY <2>1, LeastFreeIterates
<1>2. DOMAIN f = 0..MaxAttempts /\ f = [i \in 0..MaxAttempts |-> f[i]]
  OBVIOUS
<1> HIDE DEF f
<1>3. Iterates(f, p, held)
  BY <1>1, <1>2 DEF Iterates
<1> QED
  BY <1>3 DEF f

\* and no other one: where a solution differs from LeastFree, consider the
\* last iteration i at which it does; it is not the one at which the loop
\* stops, and iteration i + 1 agrees.
LEMMA LoopIsUnique ==
    ASSUME NEW p \in Pools, NEW held, NEW f, Iterates(f, p, held),
           NEW i \in 0..MaxAttempts
    PROVE  f[i] = LeastFree(p, held, i)
<1> DEFINE Bad == {k \in Nat : /\ k <= MaxAttempts
                               /\ f[MaxAttempts - k] #
                                     LeastFree(p, held, MaxAttempts - k)}
<1>0. \A j \in 0..MaxAttempts :
         f[j] = IF Stops(p, j) THEN Exhausted
                ELSE IF FirstHost + j \notin held THEN FirstHost + j ELSE f[j + 1]
  BY DEF Iterates
<1>1. SUFFICES ASSUME Bad # {} PROVE FALSE
  <2>1. /\ MaxAttempts - i \in Nat /\ MaxAttempts - i <= MaxAttempts
        /\ MaxAttempts - (MaxAttempts - i) = i
    BY MaxAttemptsAssumption
  <2> QED
    BY <2>1
<1>2. PICK k \in Bad : \A y \in Bad : k <= y
  BY <1>1, NatMin
<1> DEFINE j == MaxAttempts - k
<1>3. j \in 0..MaxAttempts /\ f[j] # LeastFree(p, held, j)
  BY MaxAttemptsAssumption
<1>4. ~Stops(p, j) /\ FirstHost + j \in held /\ f[j + 1] # LeastFree(p, held, j + 1)
  BY <1>0, <1>3, LeastFreeIterates
<1>5. j + 1 \in 0..MaxAttempts
  BY <1>3, <1>4, CandidateIsHost
<1>6. k - 1 \in Nat /\ k - 1 <= MaxAttempts /\ MaxAttempts - (k - 1) = j + 1
  BY <1>5, MaxAttemptsAssumption
<1>7. k - 1 \in Bad
  BY <1>4, <1>6
<1> QED
  BY <1>2, <1>7

\* The loop returns the least free host, or Exhausted.
LEMMA LoopReturns ==
    ASSUME NEW p \in Pools, NEW held
    PROVE  FirstAvailableAddress(p, held) = LeastFree(p, held, 0)
<1> DEFINE f == CHOOSE g : Iterates(g, p, held)
<1>1. Iterates(f, p, held)
  BY LoopIterates
<1>2. 0 \in 0..MaxAttempts
  BY MaxAttemptsAssumption
<1> HIDE DEF f
<1>3. f[0] = LeastFree(p, held, 0)
  BY <1>1, <1>2, LoopIsUnique
<1> QED
  BY <1>3, LoopIsChosen DEF f

\* The loop of firstAvailableAddress computes FirstFree, in every pool and
\* whatever is held.
LEMMA LoopFindsLeast ==
    ASSUME NEW p \in Pools, NEW held
    PROVE  FirstFree(p, held) = {FirstAvailableAddress(p, held)} \ {Exhausted}
<1> DEFINE free == HostCandidates(p) \ held
           first == FirstAvailableAddress(p, held)
<1>1. \A a \in HostCandidates(p) : a \in Nat /\ a >= FirstHost + 0
  BY MaxAttemptsAssumption DEF HostCandidates, FirstHost
<1>2. FreeFrom(p, held, 0) = free
  BY <1>1 DEF FreeFrom
<1>3. first = LeastFree(p, held, 0)
  BY LoopReturns
<1>4. CASE free = {}
  BY <1>2, <1>3, <1>4 DEF LeastFree, FirstFree
<1>5. CASE free # {}
  <2>1. first \in free /\ \A b \in free : first <= b
    BY <1>2, <1>3, <1>5, LeastFreeIsLeast
  <2>2. first \in Nat /\ first # Exhausted
    BY <1>1, <2>1 DEF Exhausted
  <2>3. FirstFree(p, held) = {first}
    BY <1>1, <2>1 DEF FirstFree
  <2> QED
    BY <2>2, <2>3
<1> QED
  BY <1>4, <1>5

\* What is leased is finite and consists of hosts of the pool.
PoolInv ==
    /\ pool \in Pools
    /\ IsFiniteSet(used)
    /\ used \subseteq HostCandidates(pool)

\* An address that is found is a free host ...
LEMMA FirstIsCandidate ==
    ASSUME NEW p \in Pools, NEW held, FirstAvailableAddress(p, held) # Exhausted
    PROVE  FirstAvailableAddress(p, held) \in HostCandidates(p) \ held
<1>1. FirstAvailableAddress(p, held) \in FirstFree(p, held)
  BY LoopFindsLeast
<1> QED
  BY <1>1 DEF FirstFree

\* ... and when none is found every host the loop may try is held.
LEMMA ExhaustedHasNone ==
    ASSUME NEW p \in Pools, NEW held, FirstAvailableAddress(p, held) = Exhausted
    PROVE  HostCandidates(p) \subseteq held
<1>1. FreeFrom(p, held, 0) = {}
  <2>1. SUFFICES ASSUME FreeFrom(p, held, 0) # {} PROVE FALSE
    OBVIOUS
  <2>2. Exhausted \in FreeFrom(p, held, 0)
    BY <2>1, LoopReturns, LeastFreeIsLeast
  <2> QED
    BY <2>2 DEF FreeFrom, HostCandidates, Exhausted
<1> QED
  BY <1>1, MaxAttemptsAssumption DEF FreeFrom, HostCandidates, FirstHost

\* Each lease adds a host of the pool.
LEMMA PoolStepKeepsInv == PoolInv /\ [PoolNext]_poolVars => PoolInv'
<1>1. ASSUME PoolInv, LeaseAddress PROVE PoolInv'
  <2>1. FirstAvailableAddress(pool, used) \in HostCandidates(pool)
    BY <1>1, FirstIsCandidate DEF PoolInv, LeaseAddress
  <2>2. IsFiniteSet(used \cup {FirstAvailableAddress(pool, used)})
    BY <1>1, FS_AddElement DEF PoolInv
  <2> QED
    BY <1>1, <2>1, <2>2 DEF PoolInv, LeaseAddress
<1>2. ASSUME PoolInv, ReleaseAddress PROVE PoolInv'
  <2>1. PICK a \in used : used' = used \ {a}
    BY <1>2 DEF ReleaseAddress
  <2>2. IsFiniteSet(used \ {a})
    BY <1>2, FS_RemoveElement DEF PoolInv
  <2> QED
    BY <1>2, <2>1, <2>2 DEF PoolInv, ReleaseAddress
<1>3. ASSUME PoolInv, UNCHANGED poolVars PROVE PoolInv'
  BY <1>3 DEF PoolInv, poolVars
<1> QED
  BY <1>1, <1>2, <1>3 DEF PoolNext, RefuseAddress

\* The inductive invariant of a pool from which addresses are leased and given
\* back.
THEOREM PoolInvariant == PoolSpec => []PoolInv
<1>1. PoolInit => PoolInv
  BY FS_EmptySet DEF PoolInit, PoolInv, SmallPools, Pools
<1> QED
  BY <1>1, PoolStepKeepsInv, PTL DEF PoolSpec

\* The loop of firstAvailableAddress agrees with its reference definition in
\* every reachable state of every pool.
THEOREM LoopIsFirstFree == PoolSpec => []LoopFindsFirstFree
<1>1. PoolInv => LoopFindsFirstFree
  BY LoopFindsLeast DEF PoolInv, LoopFindsFirstFree
<1> QED
  BY <1>1, PoolInvariant, PTL

\* No network, gateway or broadcast address is ever leased.
THEOREM HostsOnly == PoolSpec => []OnlyHostsLeased
<1>1. PoolInv => OnlyHostsLeased
  BY MaxAttemptsAssumption
  DEF PoolInv, OnlyHostsLeased, HostCandidates, Contains, LastReserved, Pools
<1> QED
  BY <1>1, PoolInvariant, PTL

\* A host that is free when the loop gives up lies beyond its last attempt, so
\* that all MaxAttempts hosts before it are held.
LEMMA FullWhenExhausted == PoolInv => ExhaustedMeansFull
<1> SUFFICES ASSUME PoolInv, FirstAvailableAddress(pool, used) = Exhausted,
                    NEW a \in 2..(IF pool.family = "ipv4" THEN pool.size - 2
                                                          ELSE pool.size - 1),
                    a \notin used
             PROVE  Cardinality(used) >= MaxAttempts
  BY DEF ExhaustedMeansFull
<1>1. HostCandidates(pool) \subseteq used /\ pool \in Pools /\ IsFiniteSet(used)
  BY ExhaustedHasNone DEF PoolInv
<1>2. pool.size \in Nat /\ a \in Nat /\ MaxAttempts \in Nat
  BY <1>1, MaxAttemptsAssumption DEF Pools
<1>3. a > MaxAttempts + 1
  BY <1>1, <1>2 DEF HostCandidates, Contains, LastReserved
<1>4. 2..(MaxAttempts + 1) \subseteq used
  BY <1>1, <1>2, <1>3 DEF HostCandidates, Contains, LastReserved
<1>5. Cardinality(2..(MaxAttempts + 1)) = MaxAttempts
  BY <1>2, FS_Interval
<1>6. Cardinality(2..(MaxAttempts + 1)) <= Cardinality(used)
  BY <1>1, <1>4, FS_Subset
<1> QED
  BY <1>5, <1>6, <1>2, <1>1, FS_CardinalityType

\* ErrCapacityExhausted means that every host is leased, or as many as the loop
\* may try.
THEOREM NoAddressLost == PoolSpec => []ExhaustedMeansFull
BY FullWhenExhausted, PoolInvariant, PTL

-----------------------------------------------------------------------------
(***************************************************************************)
(* The in-memory service.                                                  *)
(***************************************************************************)
\* Every answer is what the counter of its region gave some time ago.
AnswersCounted ==
    \A e \in DOMAIN idempotency :
        \E h \in 2..LastHost :
            /\ h < regionNextHost[idempotency[e].region]
            /\ idempotency[e].response =
                   [assignment |-> <<idempotency[e].region, h>>, v4 |-> h, v6 |-> h]

\* The owner of a registered device is a user, and a device that nobody
\* registered has no owner.
OwnersRegistered == \A d \in Devices : state[d] = "none" <=> owner[d] = NoUser

ServiceInv == ServiceTypeOK /\ AnswersCounted /\ OwnersRegistered

-----------------------------------------------------------------------------
LEMMA RegisterKeepsInv ==
    ASSUME ControlServiceAssumption, ServiceInv,
           NEW u \in Users, NEW d \in Devices, RegisterDevice(u, d)
    PROVE  ServiceInv'
<1>1. ServiceTypeOK'
  BY DEF RegisterDevice, ServiceInv, ServiceTypeOK
<1>2. AnswersCounted'
  BY DEF RegisterDevice, ServiceInv, AnswersCounted
<1>3. OwnersRegistered'
  BY DEF RegisterDevice, ServiceInv, ServiceTypeOK, OwnersRegistered,
         ControlServiceAssumption
<1> QED
  BY <1>1, <1>2, <1>3 DEF ServiceInv

LEMMA RevocationKeepsInv ==
    ASSUME ControlServiceAssumption, ServiceInv,
           NEW u \in Users, NEW d \in Devices, RequestRevocation(u, d)
    PROVE  ServiceInv'
<1>1. ServiceTypeOK'
  BY DEF RequestRevocation, ServiceInv, ServiceTypeOK
<1>2. AnswersCounted'
  BY DEF RequestRevocation, ServiceInv, AnswersCounted
<1>3. OwnersRegistered'
  BY DEF RequestRevocation, ServiceInv, ServiceTypeOK, OwnersRegistered,
         ControlServiceAssumption
<1> QED
  BY <1>1, <1>2, <1>3 DEF ServiceInv

\* What a request that is accepted writes.
Created(e, r, h) ==
    /\ h = regionNextHost[r]
    /\ regionNextHost' = [regionNextHost EXCEPT ![r] = h + 1]
    /\ e \notin DOMAIN idempotency
    /\ DOMAIN idempotency' = DOMAIN idempotency \cup {e}
    /\ idempotency'[e] =
           [region |-> r, response |-> [assignment |-> <<r, h>>, v4 |-> h, v6 |-> h]]
    /\ \A f \in DOMAIN idempotency : idempotency'[f] = idempotency[f]

\* The counter does not wrap.
LEMMA CreationWrites ==
    ASSUME ControlServiceAssumption, ServiceInv,
           NEW u \in Users, NEW d \in Devices, NEW r \in Regions,
           NEW k \in IdemKeys, CreateTunnelConfiguration(u, d, r, k)
    PROVE  \E h \in 2..LastHost : Created(<<d, k>>, r, h)
<1> DEFINE h == regionNextHost[r]
           e == <<d, k>>
<1>1. h \in 2..LastHost /\ LastHost \in Nat /\ LastHost + 1 < Uint16
  BY DEF CreateTunnelConfiguration, HostLeft, ServiceInv, ServiceTypeOK,
         ControlServiceAssumption
<1>2. (h + 1) % Uint16 = h + 1
  BY <1>1 DEF Uint16
<1>3. regionNextHost' = [regionNextHost EXCEPT ![r] = (regionNextHost[r] + 1) % Uint16]
  BY DEF CreateTunnelConfiguration, NextHost
<1>4. regionNextHost' = [regionNextHost EXCEPT ![r] = h + 1]
  BY <1>2, <1>3, Zenon
<1>5. /\ e \notin DOMAIN idempotency
      /\ idempotency' = [f \in DOMAIN idempotency \cup {e} |->
            IF f = e
            THEN [region |-> r,
                  response |-> [assignment |-> <<r, h>>, v4 |-> h, v6 |-> h]]
            ELSE idempotency[f]]
  BY DEF CreateTunnelConfiguration
<1>6. Created(e, r, h)
  BY <1>4, <1>5 DEF Created
<1> QED
  BY <1>1, <1>6

LEMMA CreationKeepsInv ==
    ASSUME ControlServiceAssumption, ServiceInv,
           NEW u \in Users, NEW d \in Devices, NEW r \in Regions,
           NEW k \in IdemKeys, CreateTunnelConfiguration(u, d, r, k)
    PROVE  ServiceInv'
<1> DEFINE new == <<d, k>>
<1>0. PICK h \in 2..LastHost : Created(new, r, h)
  BY CreationWrites
<1>1. /\ h = regionNextHost[r]
      /\ regionNextHost' = [regionNextHost EXCEPT ![r] = h + 1]
      /\ DOMAIN idempotency' = DOMAIN idempotency \cup {new}
      /\ idempotency'[new] =
             [region |-> r,
              response |-> [assignment |-> <<r, h>>, v4 |-> h, v6 |-> h]]
      /\ \A e \in DOMAIN idempotency : idempotency'[e] = idempotency[e]
  BY <1>0 DEF Created
<1>2. r \in Offered /\ UNCHANGED <<state, owner>> /\ LastHost \in Nat
  BY DEF CreateTunnelConfiguration, Accepted, ControlServiceAssumption
<1>3. /\ regionNextHost' \in [Regions -> 2..(LastHost + 1)]
      /\ regionNextHost'[r] = h + 1
      /\ \A q \in Regions \ {r} : regionNextHost'[q] = regionNextHost[q]
  BY <1>1, <1>2 DEF ServiceInv, ServiceTypeOK
<1>4. \A e \in DOMAIN idempotency : idempotency[e].region \in Regions
  BY DEF ServiceInv, ServiceTypeOK, ControlServiceAssumption
<1>5. ServiceTypeOK'
  <2>1. /\ idempotency'[new].region \in Offered
        /\ idempotency'[new].response.v4 \in 2..LastHost
    BY <1>1, <1>2
  <2>2. DOMAIN idempotency' \subseteq Devices \X IdemKeys
    BY <1>1 DEF ServiceInv, ServiceTypeOK
  <2>3. \A e \in DOMAIN idempotency' : /\ idempotency'[e].region \in Offered
                                       /\ idempotency'[e].response.v4 \in 2..LastHost
    BY <1>1, <2>1 DEF ServiceInv, ServiceTypeOK
  <2> QED
    BY <1>2, <1>3, <2>2, <2>3 DEF ServiceInv, ServiceTypeOK
<1>6. AnswersCounted'
  <2>1. ASSUME NEW e \in DOMAIN idempotency'
        PROVE  \E x \in 2..LastHost :
                  /\ x < regionNextHost'[idempotency'[e].region]
                  /\ idempotency'[e].response =
                         [assignment |-> <<idempotency'[e].region, x>>,
                          v4 |-> x, v6 |-> x]
    <3>1. CASE e = new
      BY <1>1, <1>3, <3>1
    <3>2. CASE e \in DOMAIN idempotency
      <4>1. idempotency'[e] = idempotency[e] /\ idempotency[e].region \in Regions
        BY <1>1, <1>4, <3>2
      <4>2. PICK x \in 2..LastHost :
               /\ x < regionNextHost[idempotency[e].region]
               /\ idempotency[e].response =
                      [assignment |-> <<idempotency[e].region, x>>,
                       v4 |-> x, v6 |-> x]
        BY <3>2 DEF ServiceInv, AnswersCounted
      <4>3. x < regionNextHost'[idempotency[e].region]
        BY <1>1, <1>3, <4>1, <4>2
      <4> QED
        BY <4>1, <4>2, <4>3
    <3> QED
      BY <1>1, <3>1, <3>2
  <2> QED
    BY <2>1 DEF AnswersCounted
<1>7. OwnersRegistered'
  BY <1>2 DEF ServiceInv, OwnersRegistered
<1> QED
  BY <1>5, <1>6, <1>7 DEF ServiceInv

LEMMA QuietKeepsInv ==
    ASSUME ServiceInv, UNCHANGED serviceVars
    PROVE  ServiceInv'
BY DEF ServiceInv, ServiceTypeOK, AnswersCounted, OwnersRegistered, serviceVars

\* The inductive invariant of the in-memory service.
THEOREM ServiceInvariant ==
    ASSUME ControlServiceAssumption
    PROVE  ServiceSpec => []ServiceInv
<1>1. NewService => ServiceInv
  BY DEF NewService, ServiceInv, ServiceTypeOK, AnswersCounted, OwnersRegistered,
         ControlServiceAssumption
<1>2. ServiceInv /\ [ServiceNext]_serviceVars => ServiceInv'
  BY RegisterKeepsInv, RevocationKeepsInv, CreationKeepsInv, QuietKeepsInv
  DEF ServiceNext, RefuseOrReplay
<1> QED
  BY <1>1, <1>2, PTL DEF ServiceSpec

\* The maps of control.Service are well typed, its counters stay in range.
THEOREM ServiceTypeCorrect ==
    ASSUME ControlServiceAssumption
    PROVE  ServiceSpec => []ServiceTypeOK
<1>1. ServiceInv => ServiceTypeOK
  BY DEF ServiceInv
<1> QED
  BY <1>1, ServiceInvariant, PTL

-----------------------------------------------------------------------------
\* A counter never gives the same host twice, so that a new answer has an
\* assignment and addresses of its own.
LEMMA CreationAnswersAnew ==
    ASSUME ControlServiceAssumption, ServiceInv,
           NEW u \in Users, NEW d \in Devices, NEW r \in Regions,
           NEW k \in IdemKeys, CreateTunnelConfiguration(u, d, r, k)
    PROVE  Promised!PromiseNext
<1> DEFINE new == <<d, k>>
<1>0. PICK h \in 2..LastHost : Created(new, r, h)
  BY CreationWrites
<1>1. /\ h = regionNextHost[r]
      /\ new \notin DOMAIN idempotency
      /\ DOMAIN idempotency' = DOMAIN idempotency \cup {new}
      /\ idempotency'[new] =
             [region |-> r,
              response |-> [assignment |-> <<r, h>>, v4 |-> h, v6 |-> h]]
      /\ \A e \in DOMAIN idempotency : idempotency'[e] = idempotency[e]
  BY <1>0 DEF Created
<1>2. ASSUME NEW e \in DOMAIN idempotency
      PROVE  /\ idempotency[e].response.assignment # <<r, h>>
             /\ idempotency[e].region = r =>
                   /\ idempotency[e].response.v4 # h
                   /\ idempotency[e].response.v6 # h
  <2>1. PICK x \in 2..LastHost :
           /\ x < regionNextHost[idempotency[e].region]
           /\ idempotency[e].response =
                  [assignment |-> <<idempotency[e].region, x>>, v4 |-> x, v6 |-> x]
    BY DEF ServiceInv, AnswersCounted
  <2>2. idempotency[e].region = r => x # h
    BY <1>1, <2>1
  <2> QED
    BY <2>1, <2>2
<1>3. \A taken \in Promised!InUse(r) : h # taken.v4 /\ h # taken.v6
  BY <1>2 DEF Promised!InUse
<1>4. /\ owner[new[1]] = u /\ state[new[1]] = "active"
      /\ UNCHANGED <<state, owner>>
  BY DEF CreateTunnelConfiguration, Accepted
<1>5. Promised!FirstAnswer(u, new)
  BY <1>1, <1>2, <1>3, <1>4 DEF Promised!FirstAnswer
<1> QED
  BY <1>1, <1>5 DEF Promised!PromiseNext

LEMMA StepKeepsPromise ==
    ASSUME ControlServiceAssumption, ServiceInv, [ServiceNext]_serviceVars
    PROVE  [Promised!PromiseNext]_(Promised!promised)
<1>1. ASSUME NEW u \in Users, NEW d \in Devices, RegisterDevice(u, d)
      PROVE  Promised!PromiseNext
  BY <1>1 DEF RegisterDevice, Promised!Register, Promised!PromiseNext
<1>2. ASSUME NEW u \in Users, NEW d \in Devices, RequestRevocation(u, d)
      PROVE  Promised!PromiseNext
  <2>1. state[d] # "none"
    BY <1>2 DEF RequestRevocation, ServiceInv, OwnersRegistered, ServiceTypeOK,
                ControlServiceAssumption
  <2> QED
    BY <1>2, <2>1 DEF RequestRevocation, Promised!Revoke, Promised!PromiseNext
<1>3. CASE UNCHANGED serviceVars
  BY <1>3 DEF serviceVars, Promised!promised
<1> QED
  BY <1>1, <1>2, <1>3, CreationAnswersAnew DEF ServiceNext, RefuseOrReplay

\* The in-memory service keeps the promise that the database keeps.
THEOREM ServiceKeepsPromise ==
    ASSUME ControlServiceAssumption
    PROVE  ServiceSpec => MemoryKeepsPromise
<1>1. NewService => Promised!PromiseInit
  BY DEF NewService, Promised!PromiseInit
<1>2. ServiceInv /\ [ServiceNext]_serviceVars
         => [Promised!PromiseNext]_(Promised!promised)
  BY StepKeepsPromise
<1> QED
  BY <1>1, <1>2, ServiceInvariant, PTL
  DEF ServiceSpec, MemoryKeepsPromise, Promised!Promise
-----------------------------------------------------------------------------
(***************************************************************************)
(* The counter and the database's allocator.                               *)
(***************************************************************************)
\* Every host below the counter of a region was answered there: nothing is
\* skipped and nothing is given back.
HostsBelowAnswered ==
    \A r \in Regions : \A h \in 2..LastHost :
        h < regionNextHost[r] => h \in HostsOf(r)

\* An accepted request answers the host of the counter before advancing it,
\* and no other step changes either.
LEMMA HostsStayAnswered ==
    ASSUME ControlServiceAssumption, ServiceInv, HostsBelowAnswered,
           [ServiceNext]_serviceVars
    PROVE  HostsBelowAnswered'
<1>1. CASE UNCHANGED <<idempotency, regionNextHost>>
  BY <1>1 DEF HostsBelowAnswered, HostsOf
<1>2. ASSUME NEW u \in Users, NEW d \in Devices, NEW q \in Regions,
             NEW k \in IdemKeys, CreateTunnelConfiguration(u, d, q, k)
      PROVE  HostsBelowAnswered'
  <2> DEFINE new == <<d, k>>
  <2>1. PICK x \in 2..LastHost : Created(new, q, x)
    BY <1>2, CreationWrites
  <2>2. SUFFICES ASSUME NEW r \in Regions, NEW h \in 2..LastHost,
                        h < regionNextHost'[r]
                 PROVE  \E e \in DOMAIN idempotency' :
                           /\ idempotency'[e].region = r
                           /\ idempotency'[e].response.v4 = h
    BY DEF HostsBelowAnswered, HostsOf
  <2>3. CASE r = q /\ h = x
    BY <2>1, <2>3 DEF Created
  <2>4. CASE ~(r = q /\ h = x)
    <3>1. h < regionNextHost[r]
      BY <2>1, <2>2, <2>4 DEF Created, ServiceInv, ServiceTypeOK,
                               ControlServiceAssumption
    <3>2. PICK e \in DOMAIN idempotency : /\ idempotency[e].region = r
                                          /\ idempotency[e].response.v4 = h
      BY <3>1 DEF HostsBelowAnswered, HostsOf
    <3> QED
      BY <2>1, <3>2 DEF Created
  <2> QED
    BY <2>3, <2>4
<1> QED
  BY <1>1, <1>2
  DEF ServiceNext, RegisterDevice, RequestRevocation, RefuseOrReplay, serviceVars

\* The hosts answered in a region are those below its counter.
LEMMA AnsweredHosts ==
    ASSUME ControlServiceAssumption, ServiceInv, HostsBelowAnswered,
           NEW r \in Regions
    PROVE  HostsOf(r) = {h \in 2..LastHost : h < regionNextHost[r]}
<1>1. ASSUME NEW h \in HostsOf(r)
      PROVE  h \in 2..LastHost /\ h < regionNextHost[r]
  <2>1. PICK e \in DOMAIN idempotency :
           idempotency[e].region = r /\ idempotency[e].response.v4 = h
    BY DEF HostsOf
  <2>2. PICK x \in 2..LastHost :
           /\ x < regionNextHost[idempotency[e].region]
           /\ idempotency[e].response =
                  [assignment |-> <<idempotency[e].region, x>>, v4 |-> x, v6 |-> x]
    BY DEF ServiceInv, AnswersCounted
  <2> QED
    BY <2>1, <2>2
<1> QED
  BY <1>1 DEF HostsBelowAnswered

LEMMA CounterIsLeastFree ==
    ASSUME ControlServiceAssumption, LastHost <= MaxAttempts + 1,
           ServiceInv, HostsBelowAnswered
    PROVE  CounterIsTheAllocator
<1> SUFFICES ASSUME NEW r \in Regions
             PROVE  FirstAvailableAddress([family |-> "ipv4", size |-> LastHost + 2],
                                          HostsOf(r)) =
                        IF HostLeft(r) THEN regionNextHost[r] ELSE Exhausted
  BY DEF CounterIsTheAllocator
<1> DEFINE p == [family |-> "ipv4", size |-> LastHost + 2]
           next == regionNextHost[r]
           first == FirstAvailableAddress(p, HostsOf(r))
<1>1. LastHost \in Nat /\ next \in 2..(LastHost + 1) /\ MaxAttempts \in Nat
  BY MaxAttemptsAssumption DEF ControlServiceAssumption, ServiceInv, ServiceTypeOK
<1>2. p \in Pools /\ HostCandidates(p) = 2..LastHost
  BY <1>1 DEF Pools, Families, HostCandidates, Contains, LastReserved
<1>3. HostCandidates(p) \ HostsOf(r) = next..LastHost
  BY <1>1, <1>2, AnsweredHosts
<1>4. FirstFree(p, HostsOf(r)) = {first} \ {Exhausted}
  BY <1>2, LoopFindsLeast
<1>5. CASE HostLeft(r)
  <2>1. FirstFree(p, HostsOf(r)) = {next}
    BY <1>1, <1>3, <1>5 DEF FirstFree, HostLeft
  <2> QED
    BY <1>4, <1>5, <2>1
<1>6. CASE ~HostLeft(r)
  <2>1. FirstFree(p, HostsOf(r)) = {}
    BY <1>1, <1>3, <1>6 DEF FirstFree, HostLeft
  <2> QED
    BY <1>4, <1>6, <2>1
<1> QED
  BY <1>5, <1>6

\* The counter of the in-memory service hands out what the loop of the
\* database's allocator would hand out, and both run out with the same
\* request.  254 hosts are within the 65535 attempts of the loop.
THEOREM CounterAllocates ==
    ASSUME ControlServiceAssumption, LastHost <= MaxAttempts + 1
    PROVE  ServiceSpec => []CounterIsTheAllocator
<1>1. NewService => HostsBelowAnswered
  BY DEF NewService, HostsBelowAnswered
<1>2. ServiceInv /\ HostsBelowAnswered /\ [ServiceNext]_serviceVars
         => HostsBelowAnswered'
  BY HostsStayAnswered
<1>3. ServiceInv /\ HostsBelowAnswered => CounterIsTheAllocator
  BY CounterIsLeastFree
<1> QED
  BY <1>1, <1>2, <1>3, ServiceInvariant, PTL DEF ServiceSpec
=============================================================================
