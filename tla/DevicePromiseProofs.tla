------------------------ MODULE DevicePromiseProofs ------------------------
(***************************************************************************)
(* The control store implements the device service, whatever the order in  *)
(* which its transactions commit: AllocationLedger keeps the promise of    *)
(* DeviceService, and with it ControlStore and, in the modules that extend *)
(* this one, StoreTransactions and SnapshotDelivery.                       *)
(*                                                                         *)
(* The promise is about answers, the ledger's invariant about rows.  What  *)
(* joins them is that every answer describes a row, for ever, and that     *)
(* every row was once answered.                                            *)
(***************************************************************************)
EXTENDS ControlStoreProofs

\* The answer under e describes the lease and the assignment it names, which
\* may have been released since.
Describes(e) ==
    LET c == idem[e].response IN
    /\ c.assignment \in DOMAIN leases
    /\ leases[c.assignment].device = e[1]
    /\ leases[c.assignment].region = idem[e].region
    /\ leases[c.assignment].v4 = c.v4
    /\ leases[c.assignment].v6 = c.v6
    /\ assignments[c.assignment].gateway = c.gateway

AnswersInv ==
    /\ \A e \in DOMAIN idem : Describes(e)
    /\ \A s \in DOMAIN leases : \E e \in DOMAIN idem : idem[e].response.assignment = s

-----------------------------------------------------------------------------
\* The answer that ReuseConfiguration or InsertAllocation stores for slot s.
Answer(s) ==
    [region |-> leases[s].region,
     response |-> [assignment |-> s, gateway |-> assignments[s].gateway,
                   v4 |-> leases[s].v4, v6 |-> leases[s].v6]]

\* Rows that are only updated keep what answers say of them.
LEMMA UpdatesKeepAnswers ==
    ASSUME StoreInv, AnswersInv, idem' = idem,
           DOMAIN leases' = DOMAIN leases,
           \A s \in DOMAIN leases :
              /\ leases'[s].device = leases[s].device
              /\ leases'[s].region = leases[s].region
              /\ leases'[s].v4 = leases[s].v4 /\ leases'[s].v6 = leases[s].v6
              /\ assignments'[s].gateway = assignments[s].gateway
    PROVE  AnswersInv'
BY DEF AnswersInv, Describes

LEMMA ConfirmationKeepsAnswers ==
    ASSUME StoreInv, AnswersInv, NEW g \in Gateways, NEW gen \in 1..MaxGeneration,
           NEW seen \in SUBSET Slots, ConfirmAmong(g, gen, seen)
    PROVE  AnswersInv'
<1>1. DOMAIN leases' = DOMAIN leases /\ idem' = idem
  BY DEF ConfirmAmong
<1>2. ASSUME NEW s \in DOMAIN leases
      PROVE  /\ leases'[s].device = leases[s].device
             /\ leases'[s].region = leases[s].region
             /\ leases'[s].v4 = leases[s].v4 /\ leases'[s].v6 = leases[s].v6
             /\ assignments'[s].gateway = assignments[s].gateway
  <2>1. leases[s] \in Lease /\ s \in DOMAIN assignments /\ assignments[s] \in Assignment
    BY DEF StoreInv, StoreTypeOK, IsTable, LeaseFollowsAssignment
  <2>2. leases'[s] \in {leases[s], [leases[s] EXCEPT !.released = TRUE]}
    BY DEF ConfirmAmong
  <2>3. assignments'[s] \in {assignments[s], ConfirmedAssignments(g, gen)[s]}
    BY <2>1 DEF ConfirmAmong
  <2>4. ConfirmedAssignments(g, gen)[s].gateway = assignments[s].gateway
    BY <2>1 DEF ConfirmedAssignments, Assignment
  <2> QED
    BY <2>1, <2>2, <2>3, <2>4 DEF Lease
<1> QED
  BY <1>1, <1>2, UpdatesKeepAnswers

LEMMA ReuseKeepsAnswers ==
    ASSUME StoreInv, AnswersInv, NEW u \in Users, NEW d \in Devices,
           NEW r \in Regions, NEW k \in IdemKeys, ReuseConfiguration(u, d, r, k)
    PROVE  AnswersInv'
<1>1. PICK s \in Reusable(d, r) : idem' = Insert(idem, <<d, k>>, Answer(s))
  BY DEF ReuseConfiguration, Reusable, Answer
<1>2. /\ s \in DOMAIN leases /\ leases[s].device = d
      /\ UNCHANGED <<leases, assignments>> /\ <<d, k>> \notin DOMAIN idem
  BY <1>1 DEF ReuseConfiguration, Reusable, LiveSlots, HeldLease, Stored, StoreInv,
              LeaseFollowsAssignment
<1>3. /\ DOMAIN idem' = DOMAIN idem \cup {<<d, k>>}
      /\ idem'[<<d, k>>] = Answer(s)
      /\ \A e \in DOMAIN idem : idem'[e] = idem[e]
  BY <1>1, <1>2 DEF Insert
<1>4. \A e \in DOMAIN idem' : Describes(e)'
  <2>1. Describes(<<d, k>>)'
    BY <1>2, <1>3 DEF Describes, Answer
  <2>2. ASSUME NEW e \in DOMAIN idem
        PROVE  Describes(e)'
    BY <1>2, <1>3 DEF AnswersInv, Describes
  <2> QED
    BY <1>3, <2>1, <2>2
<1> QED
  BY <1>2, <1>3, <1>4 DEF AnswersInv

\* A new row and the answer that names it are inserted together.
LEMMA AllocationKeepsAnswers ==
    ASSUME StoreInv, AnswersInv, NEW d \in Devices, NEW r \in Regions,
           NEW k \in IdemKeys, NEW s \in Slots \ DOMAIN leases, NEW g, NEW v4, NEW v6,
           ~Stored(d, k), InsertAllocation(d, r, k, s, g, v4, v6)
    PROVE  AnswersInv'
<1>1. s \notin DOMAIN assignments
  BY DEF StoreInv, LeaseFollowsAssignment
<1>2. /\ DOMAIN leases' = DOMAIN leases \cup {s}
      /\ leases'[s] = [region |-> r, device |-> d, v4 |-> v4, v6 |-> v6,
                       released |-> FALSE]
      /\ \A x \in DOMAIN leases : leases'[x] = leases[x]
  BY DEF InsertAllocation, Insert
<1>3. /\ assignments'[s].gateway = g
      /\ \A x \in DOMAIN assignments : assignments'[x] = assignments[x]
  BY <1>1 DEF InsertAllocation, Insert
<1>4. /\ DOMAIN idem' = DOMAIN idem \cup {<<d, k>>}
      /\ idem'[<<d, k>>] = [region |-> r,
                            response |-> [assignment |-> s, gateway |-> g,
                                          v4 |-> v4, v6 |-> v6]]
      /\ \A e \in DOMAIN idem : idem'[e] = idem[e]
  BY DEF InsertAllocation, Insert, Stored
<1>5. \A e \in DOMAIN idem' : Describes(e)'
  <2>1. Describes(<<d, k>>)'
    BY <1>2, <1>3, <1>4 DEF Describes
  <2>2. ASSUME NEW e \in DOMAIN idem
        PROVE  Describes(e)'
    BY <1>2, <1>3, <1>4 DEF AnswersInv, Describes, StoreInv, LeaseFollowsAssignment
  <2> QED
    BY <1>4, <2>1, <2>2
<1>6. \A x \in DOMAIN leases' : \E e \in DOMAIN idem' : idem'[e].response.assignment = x
  BY <1>2, <1>4 DEF AnswersInv
<1> QED
  BY <1>5, <1>6 DEF AnswersInv

LEMMA MarkKeepsAnswers ==
    ASSUME StoreInv, AnswersInv, NEW s \in Slots, OperatorMarksRemoval(s)
    PROVE  AnswersInv'
<1>1. \A x \in DOMAIN leases : assignments'[x].gateway = assignments[x].gateway
  BY DEF OperatorMarksRemoval, StoreInv, StoreTypeOK, IsTable, Assignment,
         LeaseFollowsAssignment
<1>2. UNCHANGED <<leases, idem>>
  BY DEF OperatorMarksRemoval
<1> QED
  BY <1>1, <1>2, UpdatesKeepAnswers

LEMMA LedgerKeepsAnswers ==
    ASSUME StoreInv, AnswersInv, [LedgerNext]_storeVars
    PROVE  AnswersInv'
<1>1. ASSUME UNCHANGED <<leases, assignments, idem>>
      PROVE  AnswersInv'
  BY <1>1, UpdatesKeepAnswers
<1>2. ASSUME NEW u \in Users, NEW d \in Devices,
             RegisterDevice(u, d) \/ RequestRevocation(u, d)
      PROVE  AnswersInv'
  BY <1>1, <1>2 DEF RegisterDevice, RequestRevocation
<1>3. ASSUME NEW u \in Users, NEW d \in Devices, NEW r \in Regions,
             NEW k \in IdemKeys, AllocateFree(u, d, r, k)
      PROVE  AnswersInv'
  BY <1>3, AllocationKeepsAnswers DEF AllocateFree
<1>4. CASE OperatorNext
  BY <1>1, <1>4, MarkKeepsAnswers DEF OperatorNext, OperatorSetsGateway, OperatorSetsRegion
<1>5. CASE UNCHANGED storeVars
  BY <1>1, <1>5 DEF storeVars
<1> QED
  BY <1>2, <1>3, <1>4, <1>5, ReuseKeepsAnswers, ConfirmationKeepsAnswers DEF LedgerNext

-----------------------------------------------------------------------------
(***************************************************************************)
(* Steps of the ledger are steps of the promise.                           *)
(***************************************************************************)
\* What may be in use is leased: the device of an answer is not revoked, so
\* that its row is not released (RemovedMeansRevoked).
LEMMA InUseIsLeased ==
    ASSUME StoreInv, AnswersInv, NEW r, NEW c \in Promised!InUse(r)
    PROVE  c.v4 \in UsedV4(r) /\ c.v6 \in UsedV6(r)
<1>1. PICK e \in DOMAIN idem :
         /\ idem[e].region = r /\ devState[e[1]] # "revoked"
         /\ c = idem[e].response
  BY DEF Promised!InUse
<1>2. Describes(e)
  BY DEF AnswersInv
<1> DEFINE s == c.assignment
<1>3. /\ s \in DOMAIN leases /\ leases[s].region = r
      /\ leases[s].v4 = c.v4 /\ leases[s].v6 = c.v6 /\ leases[s].device = e[1]
  BY <1>1, <1>2 DEF Describes
<1>4. s \in DOMAIN assignments /\ assignments[s].device = e[1]
      /\ assignments[s].state \in AssignmentStates
  BY <1>3 DEF StoreInv, LeaseFollowsAssignment, StoreTypeOK, IsTable, Assignment
<1>5. assignments[s].state # "removed"
  BY <1>1, <1>4 DEF StoreInv, RemovedMeansRevoked
<1>6. HeldLease(s)
  BY <1>3, <1>4, <1>5 DEF LiveAssignment, AssignmentStates, StoreInv,
                          LeaseFollowsAssignment
<1> QED
  BY <1>3, <1>6 DEF UsedV4, UsedV6

\* A second key for the allocation the device has is answered as the first.
LEMMA ReuseRepeatsAnswer ==
    ASSUME StoreInv, AnswersInv, NEW u \in Users, NEW d \in Devices,
           NEW r \in Regions, NEW k \in IdemKeys, ReuseConfiguration(u, d, r, k)
    PROVE  Promised!PromiseNext
<1> DEFINE e == <<d, k>>
<1>1. PICK s \in Reusable(d, r) : idem' = Insert(idem, e, Answer(s))
  BY DEF ReuseConfiguration, Reusable, Answer
<1>2. /\ s \in DOMAIN leases /\ leases[s].device = d
      /\ e \notin DOMAIN idem /\ e[1] = d
      /\ devOwner[d] = u /\ devState[d] = "active"
      /\ UNCHANGED <<devState, devOwner>>
  BY <1>1 DEF ReuseConfiguration, Reusable, LiveSlots, HeldLease, Stored, Admitted,
              StoreInv, LeaseFollowsAssignment
<1>3. /\ DOMAIN idem' = DOMAIN idem \cup {e} /\ idem'[e] = Answer(s)
      /\ \A f \in DOMAIN idem : idem'[f] = idem[f]
  BY <1>1, <1>2 DEF Insert
<1>4. PICK f \in DOMAIN idem : idem[f].response.assignment = s
  BY <1>2 DEF AnswersInv
<1>5. f[1] = d /\ idem[f] = Answer(s)
  <2>1. idem[f] \in StoredResponse
    BY DEF StoreInv, StoreTypeOK, IsTable
  <2>2. Describes(f)
    BY DEF AnswersInv
  <2> QED
    BY <1>2, <1>4, <2>1, <2>2 DEF Describes, Answer, StoredResponse, Configuration
<1>6. Promised!FirstAnswer(u, e)
  BY <1>2, <1>3, <1>5 DEF Promised!FirstAnswer
<1> QED
  BY <1>3, <1>6 DEF Promised!PromiseNext

\* A new allocation has an id and addresses that no answer in use names.
LEMMA AllocationAnswersAnew ==
    ASSUME StoreInv, AnswersInv, NEW u \in Users, NEW d \in Devices,
           NEW r \in Regions, NEW k \in IdemKeys, AllocateFree(u, d, r, k)
    PROVE  Promised!PromiseNext
<1> DEFINE e == <<d, k>>
<1>1. PICK g \in ready, s \in Slots \ DOMAIN leases,
           v4 \in HostCandidates(Pool4[r]) \ UsedV4(r),
           v6 \in HostCandidates(Pool6[r]) \ UsedV6(r) :
              InsertAllocation(d, r, k, s, g, v4, v6)
  BY DEF AllocateFree
<1>2. /\ e \notin DOMAIN idem /\ e[1] = d
      /\ devOwner[d] = u /\ devState[d] = "active"
      /\ UNCHANGED <<devState, devOwner>>
  BY DEF AllocateFree, Stored, Admitted
<1>3. /\ DOMAIN idem' = DOMAIN idem \cup {e}
      /\ idem'[e] = [region |-> r,
                     response |-> [assignment |-> s, gateway |-> g,
                                   v4 |-> v4, v6 |-> v6]]
      /\ \A f \in DOMAIN idem : idem'[f] = idem[f]
  BY <1>1, <1>2 DEF InsertAllocation, Insert
<1>4. \A f \in DOMAIN idem : idem[f].response.assignment # s
  BY <1>1 DEF AnswersInv, Describes
<1>5. \A used \in Promised!InUse(r) : v4 # used.v4 /\ v6 # used.v6
  BY InUseIsLeased
<1>6. Promised!FirstAnswer(u, e)
  BY <1>2, <1>3, <1>4, <1>5 DEF Promised!FirstAnswer
<1> QED
  BY <1>3, <1>6 DEF Promised!PromiseNext

\* A confirmation completes some of the revocations.
LEMMA ConfirmationCompletes ==
    ASSUME NEW g \in Gateways, NEW gen \in 1..MaxGeneration,
           NEW seen \in SUBSET Slots, ConfirmAmong(g, gen, seen)
    PROVE  Promised!PromiseNext
<1> DEFINE D == {d \in Devices :
                    /\ devState[d] = "revocation_pending"
                    /\ \E s \in RemovedFrom(g, assignments') : assignments[s].device = d}
<1>1. Promised!Complete(D)
  BY DEF ConfirmAmong, Promised!Complete
<1> QED
  BY <1>1 DEF Promised!PromiseNext

LEMMA StepKeepsPromise ==
    ASSUME StoreInv, AnswersInv, [LedgerNext]_storeVars
    PROVE  [Promised!PromiseNext]_(Promised!promised)
<1>1. ASSUME NEW u \in Users, NEW d \in Devices, RegisterDevice(u, d)
      PROVE  Promised!PromiseNext
  BY <1>1 DEF RegisterDevice, Promised!Register, Promised!PromiseNext
<1>2. ASSUME NEW u \in Users, NEW d \in Devices, RequestRevocation(u, d)
      PROVE  Promised!PromiseNext
  BY <1>2 DEF RequestRevocation, RevocationState, Promised!Revoke, Promised!PromiseNext
<1>3. CASE OperatorNext
  BY <1>3 DEF OperatorNext, OperatorMarksRemoval, OperatorSetsGateway,
              OperatorSetsRegion, Promised!promised
<1>4. CASE UNCHANGED storeVars
  BY <1>4 DEF storeVars, Promised!promised
<1> QED
  BY <1>1, <1>2, <1>3, <1>4, ReuseRepeatsAnswer, AllocationAnswersAnew,
     ConfirmationCompletes DEF LedgerNext

-----------------------------------------------------------------------------
\* Answers and rows stay tied together.
LEMMA LedgerAnswers == LedgerSpec => [](StoreInv /\ AnswersInv)
<1>1. StoreInit => AnswersInv
  BY DEF StoreInit, AnswersInv
<1>2. StoreInv /\ AnswersInv /\ [LedgerNext]_storeVars => AnswersInv'
  BY LedgerKeepsAnswers
<1> QED
  BY <1>1, <1>2, LedgerInvariant, PTL DEF LedgerSpec

\* The ledger keeps the promise of the device service.
THEOREM LedgerKeepsPromise == LedgerSpec => StoreKeepsPromise
<1>1. StoreInit => Promised!PromiseInit
  BY DEF StoreInit, Promised!PromiseInit
<1>2. StoreInv /\ AnswersInv /\ [LedgerNext]_storeVars
         => [Promised!PromiseNext]_(Promised!promised)
  BY StepKeepsPromise
<1> QED
  BY <1>1, <1>2, LedgerAnswers, PTL
  DEF LedgerSpec, StoreKeepsPromise, Promised!Promise

\* So does the store of one committed transaction at a time: no two devices
\* are told the same address while both may use it, and no answer changes.
THEOREM ControlStoreKeepsPromise == StoreSpec => StoreKeepsPromise
BY LedgerKeepsPromise, StoreImplementsLedger, PTL
=============================================================================
