# TLA+ models of PersonalVPN

This directory holds TLA+ specifications of the PersonalVPN control plane, TLC
configurations that check them on small instances, and theorems about them that
TLAPS checks for every value of the constants. Paths below are relative to the
repository root; `store.go` is `services/api/internal/postgres/store.go`.

    tlc -workers 2 -config delivery.cfg MCSnapshotDelivery     # one run
    tlapm ControlStoreProofs.tla                               # one proof module

`PROJECT.json` lists runs, mutants, theorems, findings and hazards, and maps every
definition to the source lines it stands for.

## 1. The system

PersonalVPN hands WireGuard configurations to clients and makes gateways route
them. A client registers a device (a WireGuard public key) with the HTTP API and
asks for a tunnel configuration in a region. The API chooses a gateway, leases an
IPv4 and an IPv6 address and records a *peer assignment*, all in PostgreSQL. A
reconciler notices gateways whose assignments are ahead of what the gateway has
confirmed, writes the gateway's complete peer list as a signed *snapshot* into an
outbox table, and the agent on the gateway claims the snapshot, applies it to the
kernel with `wg set`, and acknowledges it; the acknowledgement moves the
assignments on (`pending` to `active`, `removal_pending` to `removed`), releases
leases and completes revocations.

| Component | State | Operations | Interacts with |
|---|---|---|---|
| Control store (`store.go`, `migrations/0001_initial.sql`) | tables `devices`, `ip_leases`, `peer_assignments`, `idempotency_keys`, `gateways`, `regions` | RegisterDevice, RequestRevocation, CreateTunnelConfiguration (refuse / replay / reuse / allocate), ConfirmGatewaySnapshot | HTTP handlers; outbox |
| Device service (`DeviceService` in `httpapi/devices.go`) | what handlers and clients rely on: devices, owners, answers | RegisterDevice, RequestRevocation, CreateTunnelConfiguration | implemented twice: by the control store and in memory |
| In-memory service (`internal/control/service.go`) | maps of devices and stored responses, one host counter per region | the same three | tests; the API is wired to the store |
| Address allocator (`firstAvailableAddress`) | none | least free host address of a pool | called inside the allocation transaction |
| Snapshot outbox (`gateway_snapshots`, `httpapi/gateway.go`) | rows `queued / in_flight / acked / failed`, attempts, due time | enqueue, claim, ack, retry | writers and agents |
| Snapshot writers (`cmd/reconciler`, `cmd/snapshot-publisher`) | what was read so far | list gateways, read generation, read peers, insert | outbox, store |
| Gateway agent (`internal/agent`, `cmd/gateway-agent`) | `Worker.Current`, `CurrentPeers`, the delivery in hand | claim, verify, diff, apply, ack or retry | outbox over HTTP; `wg` |
| WireGuard interface | allowed IPs by public key | `wg set ... peer` (set, remove) | agent |
| Sessions (`internal/auth/session.go`, `service.go`, `httpapi/auth.go`) | in-memory `sessions`, `families`, `consumed` | login, refresh, logout, authenticate | HTTP handlers; `users` table |
| Android client (`clients/android`) | saved tokens and key, the screen's coroutines, `VpnTunnelService` and its backend | sign in and out, restore, provision, connect; start, stop and destroy of the service | API over HTTP; Android |

**Hard behaviours.** Several programs write the outbox with read-then-write
sequences that are not one transaction. An acknowledgement is two transactions
with nothing around them. The two transactions that allocate and confirm run at
SERIALIZABLE: each decides on the snapshot of its first statement, waits for locks
with that snapshot growing older, and may be aborted at its end. Each HTTP call between agent and API may be lost on the
way there or back; the agent keeps what it applied only in memory; application is
peer by peer and may stop half way; snapshots expire and are retried; failed rows
become due again after newer ones were delivered. Allocation competes for
capacity and addresses; a locked gateway row is skipped. Refresh tokens may be
replayed, and login and logout each take two critical sections. The Android screen
runs several coroutines that outlive the button that started them, and may be
re-created or killed at any point. `PROJECT.json`
lists these as hazards, each at its line with the properties aimed at it.

**What makes each part correct.**

- *Store*: the schema's partial unique indexes never fire; a lease is held exactly
  while its assignment is live; no gateway exceeds its capacity; a stored
  (idempotent) response is never stale; revocation is one-way and, once complete,
  leaves nothing live.
- *Transactions*: whatever the interleaving of their statements, what commits keeps
  all of that.
- *Device service*: a new answer shares no address with one in the same region to any
  device that is not revoked, a repeated request gets the answer it got, a device goes one way from
  active to revoked. Both implementations keep this.
- *Allocator*: least free host address, never a reserved one, and it gives up only
  when nothing is left.
- *Delivery*: snapshots are valid and their generations are in the order of their
  contents; the agent's delivery is the one the outbox holds, and only a fault leaves
  one that nobody holds; an acknowledged peer is configured; a pending assignment is
  confirmed in the end; while something is unconfirmed on a ready gateway, somebody
  has a step to take.
- *Tunnels*: a gateway routes to a device the addresses the device was answered and no
  others; a tunnel that was acknowledged works until something is removed.
- *Sessions*: the two maps agree; rotation leaves one live family per login; logout
  and token reuse leave no session of the user.
- *Client and sessions together*: the pair a client has saved is the newest of its
  login, and its retries never end the user's sessions elsewhere.
- *Android client*: an installation has one device row; the connect button is
  offered only for a registered device; the notification and the service's own flag
  claim a tunnel only when there is one; signing out is final.

## 2. Modules

| Module | What it is |
|---|---|
| `DeviceService` | abstract: what the handlers are promised by the service behind them |
| `TunnelService` | abstract: what the client of a configuration is promised of the gateway it was answered |
| `AddressPool` | the allocator: the code's loop, and a reference definition without it |
| `ControlStore` | the tables and one action per committed transaction; EXTENDS `AddressPool`, implements `DeviceService` |
| `AllocationLedger` | abstract: what the tables promise in commit order; EXTENDS `ControlStore` |
| `StoreTransactions` | the SERIALIZABLE transactions statement by statement, for several handlers; EXTENDS `AllocationLedger` and implements it |
| `ControlService` | the in-memory service; implements `DeviceService` |
| `SnapshotDelivery` | outbox, writers, agent and kernel composed with the store; EXTENDS `ControlStore`, implements it, `DeviceService` and `TunnelService` |
| `SessionStore` | sessions and token rotation |
| `ClientSessions` | the token pairs of the Android client composed with the sessions; EXTENDS `SessionStore` and implements it |
| `AndroidClient` | the Android client's screen, stores and tunnel service, with an API that may answer anything |
| `ControlStoreProofs`, `StoreTransactionsProofs`, `DevicePromiseProofs`, `ControlServiceProofs` (with the allocator), `SnapshotDeliveryProofs`, `SessionStoreProofs`, `ClientSessionsProofs`, `AndroidClientProofs` | theorems and their proofs |
| `MC*` | instances for TLC: functions on model values, symmetry sets; `MCAddressPool` also drives the allocator, `MCDeviceService` runs the two device services and the allocator side by side |

What implements what (all of it proved, most of it checked by TLC, too):

    StoreTransactions => AllocationLedger => DeviceService
    ControlStore      => AllocationLedger
    SnapshotDelivery  => ControlStore
    SnapshotDelivery  => TunnelService
    ControlService    => DeviceService
    ClientSessions    => SessionStore

### ControlStore

One action is one committed transaction that decides and commits at once, which is
how the database runs them one after the other; a transaction that aborts changes
nothing and is a stuttering step. `StoreTransactions` looks inside. A device row is identified with its public key (unique, never deleted). A lease
and its assignment are inserted together and share a row id (a `Slot`); the
unique indexes of the schema are *not* guards of the actions, because that they
never fire is what the invariants say.

| Action | Code |
|---|---|
| `RegisterDevice`, `RequestRevocation` | methods of the same name |
| `RefuseConfiguration` | every return of `CreateTunnelConfiguration` without a write, replay of a stored response included |
| `ReuseConfiguration` | a new key while an allocation is live: store and return it |
| `AllocateConfiguration` | least loaded unlocked ready gateway below capacity, first free addresses, three inserts |
| `ConfirmGatewaySnapshot` | its three UPDATEs, each reading what the one before wrote |
| `OperatorMarksRemoval`, `OperatorSetsGateway`, `OperatorSetsRegion` | external, see below |

`FOR UPDATE ... SKIP LOCKED` is a choice over the set of locked rows. Nothing in
the repository writes `removal_pending`, changes `gateways.state` or
`regions.available`; the operator actions are the updates the queries provide for.
`OperatorMarksRemoval` completes a requested revocation as `docs/control-plane.md`
describes (`removal_pending` and a new desired generation) and is possible for
devices in `revocation_pending` only; the safety theorems about stored responses
and revoked devices rest on that.

### DeviceService and ControlService

`DeviceService` has what a client can notice: the state and owner of each device and
the configuration answered under each idempotency key. `FirstAnswer` either repeats
what the device was answered before in the region or hands out a new assignment and
addresses that no device that is not revoked was answered in that region. `ControlStore` maps
`devices` and `idempotency_keys` to it. `ControlService` is `control.Service`, one
action per call under its mutex; its host counter is a `uint16` (`Uint16`) that is
compared with 254 (`LastHost`) and never reset. The service never confirms anything,
so nothing is ever released; `CounterIsTheAllocator` says that its counter then hands
out what `firstAvailableAddress` would.

### AllocationLedger and StoreTransactions

`StoreTransactions` runs `CreateTunnelConfiguration` and `ConfirmGatewaySnapshot` for
a set of `Handlers`, which are the transactions under way.

| Action | Code |
|---|---|
| `BeginConfiguration` | BEGIN: what every later statement will read is known with the first one's snapshot (`Reading`) |
| `LockDevice` | `FOR UPDATE` on the device: waits for the holder, fails when the row was changed |
| `LockRegion` | the advisory lock, which waits and renews nothing, and the region's row |
| `FindAllocation` | `FOR UPDATE OF pa, l, g` on a live allocation |
| `PlanAllocation` | `FOR UPDATE OF g SKIP LOCKED`, the first free addresses of what was read, the INSERTs and their unique indexes |
| `CommitAllocation`, `CommitReuse` | COMMIT |
| `BeginConfirmation`, `CommitConfirmation` | the rows its UPDATEs match, and the UPDATEs, which fail when one was changed or is locked |
| `RollBack` | any refusal, failure or abort, at any time |

PostgreSQL is external, and of its serializability one consequence is used
(`Serializable`): of two concurrent allocations in a region, each of which reads what
the other writes, one does not commit. It aborts more than that, which `RollBack`
covers. Statements outside the two transactions commit at once.

The serial order SERIALIZABLE guarantees need not be the order of the commits. An
allocation whose snapshot is older than a release commits later and takes the second
free address; a confirmation misses an assignment inserted while it ran. So what
commits is *not* always a step of `ControlStore`. `AllocationLedger` is the weaker
specification that both implement: `AllocateFree` takes any free address and any
gateway with room, `ConfirmAmong` confirms those of the due assignments that the
transaction saw.

### SnapshotDelivery

The store's client and operator actions are taken over unchanged;
`ConfirmGatewaySnapshot` happens only inside an acknowledgement.

- *Writers.* `ListGateways`, `ReadGeneration`, `ReadPeers`, `InsertSnapshot` are
  the four statements, each on its own; a generation that exists by then is a
  unique violation and the writer moves on. The publisher reads a generation for
  any gateway it is told.
- *Agent.* `ApplyOnce` from `ClaimDelivery` through `VerifyDelivery` (expiry,
  validation, generation check, diff) and `ApplyOperation` (one `wg set` at a
  time, in key order) to `AckSnapshot` or `RetryDelivery`. `AgentAcked` moves
  `Current` and `CurrentPeers`.
- *Acknowledgement.* `AckSnapshot` is the first transaction, `ConfirmDelivery` the
  second; in between the generation is in `confirming`.
- *Faults* (the constant `Faults` selects kinds, `MaxFaults` bounds their number):
  a writer stops; a claim, retry or ack call is lost; an operation fails; the
  handler stops between its transactions; the answer is lost after they committed;
  the agent restarts with its memory gone and the interface as it was; a snapshot
  expires.
- *Kernel.* External: setting a peer takes its addresses away from any other peer;
  removing an absent peer is no error.

Clocks are reduced to what the code compares: a failed row is due or not, a
snapshot has expired or not (in the order written). Signatures, mTLS identities
and encodings are right by construction.

### TunnelService

What the user of a tunnel notices, from the answer of the API to the gateway's
interface, without outbox, generations, retries or restarts. Its state is the answers
(`idempotency_keys`), the gateways where a removal has begun, the devices of the
snapshots a gateway has acknowledged, and the interface.

| Action | Promise |
|---|---|
| `Answer` | a device gets the same configuration under every key; while nothing is removed from the gateway, no address another device of it was ever answered |
| `Configure` | one peer of one gateway changes. It gets both addresses its device was answered, which no other peer has then, or it is gone; the others lose to it what it got and nothing else; while nothing is removed, every working tunnel goes on working |
| `Acknowledge` | while nothing is removed, the tunnels of the devices in the acknowledged snapshot work |
| `Remove` | the operator begins to remove peers; external |

`SnapshotDelivery` maps `idem`, `Removing`, `Acknowledged` and `kernel` to it. Two
consequences are stated of the abstract state alone: `RoutesAsTold`, a gateway routes
to a peer no address but those its device was answered; and `AcknowledgedServed`, an
acknowledged tunnel works until a removal begins at its gateway. The promise stops at
the removal because the code's does: see `revoked_peer` and the partial application
described in section 3.

### SessionStore

One action is one critical section under `SessionStore.mu`. Login is
`VerifyCredentials` then `Issue`; logout is `AuthenticateLogout` then
`RevokeUser`; refresh with any token ever issued is `RotateValid`,
`RotateInvalid` or `RotateConsumed`. `Expire` is time, `Restart` loses all maps,
`OperatorDisables` is external. `login` is a history variable: the first family of
the rotation chain a family belongs to.

### ClientSessions

The client's part is what it does with token pairs: which one it has saved
(`savedPair`), which one the API client of the screen uses (`apiPair`), and what the
coroutines under way present (`tasks`). The calls of the API are the critical
sections of `SessionStore`; an answer may be lost after the API has rotated, a call
may never arrive, the screen may be re-created and the process killed at any point.
`Elsewhere` is every other caller: other devices of the same user, other users, time,
restarts of the API. Nobody else knows the client's tokens. `interrupted` is a history
variable: a refresh was cancelled, or its result lost. `mine` is the set of families
issued to this client.

### AndroidClient

Everything runs on the main thread, so an action is a stretch of it between two
waits, or the API serving one call. A coroutine is the call it waits for and the
answer it got; `EstablishSession`, `Provision`, `SessionReady`, `StartTunnel` and
`SessionLost` are what it does with the answer. Destroying the screen cancels its
coroutines: they resume with an exception that `runCatching` takes for a failure
(`ResumeCancelled`), so a cancelled refresh clears the saved tokens. Of the status
line (`status`) only whether it says "túnel ativo" is kept: `StartTunnel` makes it say
so, every other message takes its place. `OnStop`,
`OnStart`, `OnStartAgain`, `OnRestartCommand` and `OnServiceDestroy` are
`VpnTunnelService`; commands are delivered in the order they were posted, possibly
between `stopSelf()` and `onDestroy`. `OnRevoke` is the system taking the VPN away
(the user's settings, another VPN application): the interface is gone, and the
inherited `onRevoke`, which the service does not override, only calls `stopSelf()`; a
start delivered before `onDestroy` still finds `tunnelActive` set and is ignored.
`ProcessDies` keeps what is stored; commands not yet delivered are lost or
delivered to the next process, as Android decides. The API's
answers are free, which covers every state its sessions may be in; only its devices
table is modelled, for one account. `quiet` is a history variable: the user signed
out while no coroutine was under way.

## 3. Runs

Passing runs:

| Run | Instance | What it shows |
|---|---|---|
| `control_store` (store) | 1 user, 3 devices, 2 regions, 3 gateways (capacities 1, 2, 1), 3 slots, 2 keys, 2 generations; two usable IPv4 addresses per region | the store's invariants of section 1, and `StoreKeepsPromise`, while gateways drain, regions close and capacity and addresses run out |
| `control_store` (memory) | the same users, devices and keys, `LastHost` 4 | `MemoryKeepsPromise`, `CounterIsTheAllocator` up to and past the last host |
| `control_store` (allocator) | both families, pool sizes 1..7, 3 attempts | the loop computes the reference definition (`LoopFindsFirstFree`), leases only host addresses (`OnlyHostsLeased`), gives up only when full (`ExhaustedMeansFull`) |
| `transactions` | 1 region, 2 gateways of capacity 1, 3 devices, 3 slots, 2 handlers; one device with 2 keys | `LedgerSpec`, `CapacityRespected`, `LeaseFollowsAssignment` whatever the interleaving of two transactions |
| `delivery` | 1 gateway, 2 devices, 3 generations, 2 claims per row, up to 2 faults of any kind | `DeliveryHeldByAgent`, `AckedPeersReachKernel` and `DeliveryKeepsTunnelPromise` (the refinement of `TunnelService`) under every pair of faults; `NothingForgotten`: rows that failed, ran out of attempts or were acknowledged and not confirmed hold nothing up |
| `publication` | as above, both writers, up to 2 lost claims and no other fault | `SnapshotsAreValid`, `GenerationsFollowContents` while two writers race; `InterfaceFollowsSnapshots` when addresses move between peers and generations are skipped; `OnlyFaultsStrand` |
| `delivery_liveness` | 2 devices, 6 generations, 1 fault (writer, apply, confirm or expiry) | `PendingEventuallyConfirmed` under `FairSpec` |
| `sessions` | 1 user, a client with 2 coroutines, 3 token pairs | `IndexConsistent`, `OneFamilyPerLogin`, `RevocationIsComplete`; `SavedPairIsLatest`, `OtherDevicesKeepSessions` |
| `android_client` | 2 coroutines at a time, 2 keys, 2 commands under way | `OneDevicePerInstallation`, `ConnectMeansRegistered`, `TunnelShownAsItIs`, `SignedOutStaysOut` |

**Bounds.** Pool sizes 1 to 7 with `MaxAttempts` 3 cover prefixes too small for any host
(/31, /32), exactly one host (/30), and pools larger than the loop may scan. In
`control_store` three devices compete for two addresses and for gateways of
capacity 1 and 2, so every refusal is reached; two keys suffice to replay, to reuse
and to conflict. In `transactions` two handlers are every pair of transactions; with
three devices and two gateways of capacity 1 a load that is read too early would
exceed the capacity, and two keys for one device let the same client race with
itself. Gateways and regions do not change there: a transaction rechecks them only
against operators, who would multiply the states past what the run can visit, and the
proof covers them. With one region its advisory lock admits one allocation at a time,
so the run meets stale counts but never skips a locked row: that choice, too, is
covered by `TransactionsImplementLedger` only. In `sessions` three pairs are one for the client, one elsewhere and
one rotation of either. Two devices in `delivery` let one assignment arrive while the
other's snapshot is anywhere on its way; three generations allow a failed one, a
newer acknowledged one and one more; `GenerationsFollowContents` needs exactly
three. Two lost claims strand two generations of three and let the last one through:
the interface then jumps over them, and `OnlyFaultsStrand` is tight. `MaxDeliveries` (100 in the code) is 2 so that the limit is met. In the
liveness run six generations are more than can be needed with one fault: reaching
the bound would stop the writers and show as a violation. Symmetry is used for row
ids (and devices and users in the store, families and users in the sessions) and
never in a run with a liveness property; devices are ordered in
`SnapshotDelivery`, since the agent applies operations in key order, and are not
symmetric there. One gateway is enough for delivery: agents and rows of different
gateways share nothing but the store, and the store is checked with three.

**Fairness.** `Fairness` asks for weak fairness of the reconciler's statements
(its ticker fires for ever), of the agent's steps (`Worker.Run` loops for ever), of
a handler that has begun, and of time. Clients, the operator, the publisher and
all faults are unfair. Lost claims are left out of `delivery_liveness`, since the
code does not recover from them: run `stuck_in_flight` shows it.

**Mutants.** Every property of a passing run has a mutant: a definition with a
plausible bug (an index filter one state short, an off-by-one at capacity, peers
remembered before they are applied, a family that is forgotten while its sessions
stay, a transaction that counts at REPEATABLE READ, a refreshed pair that is not
saved), placed before the definition it replaces. TLC finds the property violated
with each of them under the run's own configuration.

### Where the code differs from its documentation

Five runs are expected to be violated; each checks one sentence of a document or a
comment.

| Run | What it shows |
|---|---|
| `revocation_marks` | `DELETE /devices/{id}` changes the device only; `docs/control-plane.md:43` says the assignment becomes `removal_pending` in the same transaction. No code writes `removal_pending`. |
| `early_activation` | A new assignment has `desired_generation` 1, so acknowledging *any* snapshot, also one read before it existed, makes it active; its peer is in no snapshot, and nothing is owed any more. |
| `revoked_peer` | Snapshots contain `removal_pending` peers; acknowledging one releases the lease and revokes the device while the kernel still has its peer. |
| `rollback` | After a lost answer or a restart, a failed older generation that becomes due is applied over a newer, acknowledged one; `docs/gateway-agent.md:18` says lower generations are refused. |
| `stuck_in_flight` | A claim whose response is lost stays `in_flight` for ever and blocks the gateway's reconciliation; `docs/mtls-operations.md:26` says it can be reclaimed. |

`SignedOutStaysOut` is stated for a sign-out with no coroutine under way. With one
under way the code gives no such promise: it is not cancelled, and its answer
enables the button or starts the tunnel after the session has ended.

`SavedPairIsLatest` and `OtherDevicesKeepSessions` are stated up to the first refresh
that is cancelled or whose answer is lost (`interrupted`). After that the code gives
neither: the next start presents a consumed refresh token, which the API takes for
theft, and a cancelled refresh clears the store even when a login has saved a newer
pair there meanwhile.

Some smaller differences met on the way have no run of their own: the quarantine of released addresses (`docs/control-plane.md:45`)
does not exist in the code, and an empty outbox answers with an error where
`docs/gateway-agent.md:16` names 204 (`httpapi/gateway.go:37`);
reuse of a refresh token ends all sessions of the user, where the comment at
`internal/auth/session.go:79`, `docs/control-plane.md:70` and T04 of the threat model
speak of the token family; the status line of the Android client says "túnel ativo" as
soon as the start intent is posted (`MainActivity.kt:110`), before `engine.start` ran
and also when it fails, where `docs/android-tv.md:20` lets "VPN ativa" be shown only
after the backend accepted the configuration (`StartTunnel` models it;
`TunnelShownAsItIs` is therefore about the notification and `tunnelActive`, and of the
line `SignedOutStaysOut` says only that it does not outlive a sign-out); it says
"túnel parado" when the stop is only posted (`MainActivity.kt:162`); the client's
sign-out never tells the API; the agent does
not read the kernel back (`docs/control-plane.md:36`), so that after a restart it
leaves peers configured that were removed while it was down;
a generation that was applied in part can be followed by an *older* one that is
acknowledged without its peers (generation 3 fails at its first operation; generation
4, without peer 1, removes it and fails; generation 3, due again, is compared with the
remembered peers, which still list peer 1, adds nothing and is acknowledged), where
`docs/gateway-agent.md:31` rules out that a partial error is confirmed
(`docs/control-plane.md:66` would read the kernel back);
and `WireGuardIdentityStore.delete()` is called from nowhere, although
`clients/android/README.md` asks for it when the user signs out.

Because of `early_activation` and `revoked_peer`, `AckedPeersReachKernel` speaks of
the peers *in* acknowledged snapshots and of gateways where nothing is being
removed. The last clause is needed for the partial application described above too;
that behaviour takes four generations and two faults and is outside the bounds of
`delivery`. For the same reasons `PendingEventuallyConfirmed` says that an assignment is confirmed, not
that its peer is configured.

## 4. Proofs

| Module | Theorems |
|---|---|
| `ControlStoreProofs` | `StoreImplementsLedger`, `LedgerSafety`; `StoreTypeCorrect`, `StoreInvariant`, `AddressesNeverCollide`, `AllocationsNeverDouble`, `LeasesFollowAssignments`, `RevokedDevicesHoldNothing`, `ReplaysAreCurrent`, `RevocationNeverUndone`, `CapacityNeverExceeded` |
| `StoreTransactionsProofs` | `TransactionsImplementLedger`, `TransactionsSafety`, `TransactionsTypeCorrect`, `TransactionsKeepPromise` |
| `DevicePromiseProofs` | `LedgerKeepsPromise`, `ControlStoreKeepsPromise` |
| `ControlServiceProofs` | `PoolInvariant`, `LoopIsFirstFree`, `HostsOnly`, `NoAddressLost`; `ServiceInvariant`, `ServiceTypeCorrect`, `ServiceKeepsPromise`, `CounterAllocates` |
| `SnapshotDeliveryProofs` | `DeliveryImplementsStore`, `DeliveryKeepsStore`, `DeliveryKeepsPromise`; `DeliveriesAlwaysHeld`, `DeliveryTypeCorrect`, `DeliveriesStayInHand`; `GenerationsInOrder`, `PeersAreDistinct`, `SnapshotsPassValidation`; `AckedPeersConfigured`; `InterfaceFollows`; `StrandedByFaults`, `StrandedForGood`; `WorkIsNeverForgotten`; `DeliveryImplementsTunnels`, `GatewaysRouteAsTold`, `AcknowledgedTunnelsWork` |
| `SessionStoreProofs` | `SessionInvariant`, `SessionTypeCorrect`, `IndexAlwaysConsistent`, `RotationSupersedes`, `RevocationLeavesNothing` |
| `ClientSessionsProofs` | `ClientsAreSessions`, `ClientKeepsSessions`, `ClientInvariant`, `ClientRestoresLatest`, `ClientEndsItsOwn` |
| `AndroidClientProofs` | `ClientInvariant`, `ClientTypeCorrect`, `OneDevice`, `ConnectHasRow`, `NotificationTrue`, `SignOutFinal` |

They hold for any users, devices, regions, gateways, pools, capacities, number of
allocations, handlers, generations, deliveries, faults, coroutines, commands and token
pairs. The assumptions are the typing of
the constants (`ControlStoreAssumptions`: the region, capacity and pool functions,
capacity at least 1 as the schema's CHECK asks, `NoUser` is no user;
`MaxAttemptsAssumption`; `DeliveryAssumptions`: devices are ordered as numbers, the
writers are the two programs, a row is claimed at least once (100 times in the code);
`ClientSessionsAssumption`: the user is one, `NoPair` is no pair; `ClientAssumptions`:
`NoKey` is no key), and for the in-memory service that the counter fits its type
(`ControlServiceAssumption`: `LastHost + 1 < Uint16`, 255 and 65536 in the code).
`SessionStoreProofs` needs none. Two theorems have a hypothesis of their own.
`SnapshotsPassValidation` asks that no capacity exceeds `MaxPeers`
(`maxPeersPerSnapshot`, 100000 in the code): the schema only has
`CHECK (capacity_peers > 0)`, so a gateway with a greater capacity could be filled until the agent refuses
its snapshots, and it is the operator who must not set one. `CounterAllocates` asks
that `LastHost` is within the loop's attempts, 254 and 65535 in the code.

*Control store.* The proof is about `AllocationLedger`, so that it serves both of its
implementations; `StoreImplementsLedger` is the step from `ControlStore`, where the
first free address is a free one and `ConfirmGatewaySnapshot` is `ConfirmAmong` all
slots. None of the invariants is inductive alone. `StoreInv` is the type
invariant with `LeaseFollowsAssignment`, `LiveAddressesUnique`,
`RevokedHoldsNothing`, `ReplayedConfigurationIsCurrent` and three facts they lean
on: `RemovalsAreRevocations` (only a device whose revocation was requested has a
removed or removal-pending assignment), `OneSlotPerDevice` (an active device
without a live allocation never had one) and `RowsOfRegisteredDevices`.
`CreateTunnelConfiguration` finds an existing allocation only through a live
assignment joined with an unreleased lease; that it therefore sees every held lease
needs the two tables to move together, and that a stored response stays current
needs removals to be confined to devices that are no longer active. A removed
assignment belongs to a device that is revoked or about to be
(`RemovedMeansRevoked`). There is one
lemma per action; every other theorem follows from `StoreInv`. Capacity is separate:
`CapacityInv` adds that the assignment table is finite, so that a load is a number
and an insertion adds at most one. `AllocationsNeverDouble` is derived from
`OneSlotPerDevice`.

*Transactions.* `TxInv` says of every transaction under way what it may still rely on
when it commits: the locks it holds exclude the others; as long as it has missed no
allocation of its region, loads and used addresses are within what it read; the rows
it planned are built from that. With the tables' own invariant at the time of the commit, the plan is a free
address, a gateway with room and a device without an allocation *now*, which is a step
of the ledger. All invariants of the store follow by `LedgerSafety`.

*Device service.* The refinement mapping is the identity on three tables.
`AnswersInv` ties the stored responses to the rows: every stored response describes an
assignment and its lease, and every assignment was answered once. A new lease's
address is free among the held leases; that it is free among the *answers* of all
devices not revoked needs `RemovedMeansRevoked`: a lease is released only with the
revocation of its device. `ControlService` has the same argument with the counter
instead of the leases: every host below the counter was handed out once.

*Allocator.* `FirstAvailableAddress` is the code's loop as a recursive function, which
TLA+ defines as some function that satisfies the loop's equation. `LeastFree`, the
least free host from a given iteration on, satisfies it (`LoopIterates`), and nothing
else does (`LoopIsUnique`): of the iterations at which another solution differs,
counted from the end, there is a least one, and the equation moves it one further.
The existence of a least one is the library's theorem about minimal elements, which
needs no operator parameter; so this recursion can be proved about although the
induction theorems cannot be used. `LoopFindsLeast` then holds for every pool and
every set of held addresses, and the properties of the run for every pool from which
addresses are leased and given back. For the in-memory service it remains to see that
the hosts answered in a region are exactly those below the counter
(`HostsBelowAnswered`).

*Delivery.* A step of the composition is one of `ControlStore` or leaves the tables
alone (`DeliveryImplementsStore`): whatever is proved of the store holds with writers,
agents and faults, too (`DeliveryKeepsStore`, and `DeliveryKeepsPromise` for the device
service). Five inductive invariants follow, each with the help of the
ones before it.

- `DeliveryHeld`: what an agent or a writer holds is what the outbox says. The delivery
  in hand is `in_flight` until its acknowledgement, `Current` is a row and
  `CurrentPeers` are its peers, generations have no gaps, and the number a writer has
  read leaves none when it is inserted late. `DeliveryTypeOK` and
  `DeliveryHeldByAgent` are among its conjuncts; `DeliveryTypeOK` alone is not
  inductive.
- `DeliveryContent`: a row is a reading of the assignments (`SnapshotOf`): its peers
  were assigned as they are, no two share an address, and a device that an older row
  has and this one has not is not live any more. The last clause is what
  `GenerationsFollowContents` needs: the order of the generations is that of the
  *readings*, since a reading made between another one and its insertion finds its
  generation taken; and a device that has left does not come back
  (`OneSlotPerDevice` of the store).
- `KernelInv`, for gateways without removals: the interface has `CurrentPeers`, every
  peer of every acknowledged row and whatever the application has got to; it has
  nothing that was not assigned. Without removals all that was assigned is live, so that
  no two peers share an address and `wg set` takes none away. This is where the
  restriction of `AckedPeersReachKernel` is used.
- `InterfaceInv`, as long as no fault makes an agent forget what it applied (claims and
  retries may be lost, writers may stop, snapshots may expire): between applications the interface is
  `CurrentPeers`; during one, a device without an operation left is done. Two peers
  that exchange an address are the hard case: the one that loses it has an operation,
  too, and whichever comes first, the later one sets what it should.
- `StrandInv`: a delivery in flight that no agent works on (`Stranded`) was left by a
  fault, and each fault leaves one at most. Every step strands nothing, or one
  delivery at one gateway and spends a fault (`StrandStep`). The same lemma gives
  `StrandedForGood`, which is what run `stuck_in_flight` shows in one behaviour: *no*
  step takes a stranded delivery out of flight, and `GatewaysNeedingSnapshot` leaves
  its gateway out while it is there.

`WorkIsNeverForgotten` is the safety half of `PendingEventuallyConfirmed`, for removals
as well. It needs two more small invariants, one for each query: `Owed` (what is
unconfirmed has a desired generation ahead of the observed one, so that the
reconciler's query sees it; nothing is ever behind, so that marking for removal puts it
ahead) and `QueuedAfresh` (a queued row is due and was never claimed, so that the
claim's query sees it). What then keeps the reconciler from a gateway can be claimed, is
in hand, or is stranded. Together with `StrandedByFaults` and `StrandedForGood` this
says where a gateway can be left with nobody having a step to take: behind a stranded
row, which takes a fault, and nowhere else.

Each action is looked at once (`...Effect`); `StepEffect` sums the actions up as seen
from one gateway (its own agent's step, a step that leaves it alone, or a row added),
and the invariants after the first use little else.

*Tunnels.* `DeliveryImplementsTunnels` relates the first step of a configuration's way
to its last one. `AnswersInv` (of the device service) says that the answers are what is
assigned (`AssignedIsTold`, `ToldIsAssigned`), `DeliveryContent` that the delivery in
hand is a reading of the assignments, so that an operation configures a peer with
addresses its device was answered. What the operation takes from other peers is what
`wg` does (`SetPeerTakes`). Without removals `KernelInv` gives the rest: every operation
adds, what it adds collides with nothing, and at the acknowledgement all peers of the
snapshot are there. `AckSnapshot`, `ApplyOperation`, the answers and
`OperatorMarksRemoval` are steps of the promise; every other action, of the fault kinds
all of them, leaves its variables alone. `RealAddresses` (no lease has the address 0)
keeps a peer that lost an address apart from one that has it. `GatewaysRouteAsTold` and
`AcknowledgedTunnelsWork` are then proved from the actions of `TunnelService`
(`PromiseRoutesAsTold`, `PromiseServes`): of the implementation they use only that
peers are devices. The first needs no restriction: it holds through removals, addresses
leased again, old generations and restarts.

*Android client.* `ClientInv` has three parts. `ProvisionInv`: a coroutine that holds a
key holds the stored one, and one that has learnt of a row has learnt the truth; since
the identity never changes once it is there, no other key is registered, and the button
can only be enabled for it. `TunnelInv`: the notification and `tunnelActive` change
with the tunnel, or the service is being destroyed because the system revoked it, and
a restart command has nothing before it. `QuietInv`: after a
sign-out with nothing under way the pair is gone, so no screen starts a coroutine, and
the last command on its way is not a start; a start that is still before the stop may
bring the tunnel up, and the stop is behind it.

*Sessions.* `SessionInv` adds `IdsAreUsed` to the properties: every family and
every token in a table belongs to an id already taken, so a new pair collides with
nothing, neither with live sessions nor with consumed tokens. The lemmas on
`SessionsWithout` and `FamiliesWithout` say what revocation leaves behind;
`RevocationLeavesNothing` is an action property that follows from
`IndexConsistent`, because revocation finds sessions through families only.

*Client and sessions.* `ClientsAreSessions` needs the type invariant only: a token that
is in a table is one of `Tokens`. Everything proved of the sessions then holds with
clients (`ClientKeepsSessions`). `ClientInv` has what the client's own properties need.
`ClientTyped`: every pair the client has anywhere was issued to it. `Undisturbed`, as
long as nothing was interrupted: one refresh at a time, no two coroutines with the
same pair (`Apart`); the pair just given, and the saved one while no refresh is under
way, are the latest of their login; a token on its way to the API is not consumed.
The step is split in two: a step in which the client gets no pair (`NoPairStep`)
creates no new obligation, and a pair that is given is new. That the tables keep what
is the latest rests on `RotatedByClient`: a pair of the client is rotated by the client
only.

*Only model-checked*: `PendingEventuallyConfirmed`, since liveness under fairness and
ENABLED are outside what the installed provers do; its safety half is proved (see
`WorkIsNeverForgotten` above). `ServiceTypeOK`,
`CounterIsTheAllocator` and `MemoryKeepsPromise` of `control_store` are the properties of
`ControlService` seen through the instance in `MCDeviceService`; the theorems
`ServiceTypeCorrect`, `CounterAllocates` and `ServiceKeepsPromise` are about
`ControlService` itself. The five runs that are expected to be violated have nothing to
prove.

## 5. Not modelled

- Password hashing, account registration, list requests: pure functions, a single
  insert, reads.
- Routing, configuration, server set-up, mTLS: wiring. A shutdown in the middle of
  a handler is `ConfirmFails`.
- An explicit `SNAPSHOT_GENERATION` for the publisher: the model takes the next one. A
  number below the newest one gives newer contents an older generation, and every
  property about order would be about the operator's choice.
- Signatures and JSON encoding of snapshots: taken to be right.
- Consent dialogs (but for what they do to the status line), rendering of the
  WireGuard configuration and Keystore encryption of the Android client; a backend that
  refuses to stop; the return of `VpnTunnelService` on a configuration it cannot decode
  (line 41), since the same app encodes it. The one retry after a 409 in
  `VpnApiClient.requestConfiguration` is part of the call it repeats.
- A random generator that fails in the middle of a rotation (`auth/session.go:99`),
  which would leave the client without its old family and without a new one.
- Windows and iOS clients: thin API clients and key storage with little state.
- Deployment files and scripts: no program logic.

## 6. State of the work

Done, in this order: `AddressPool`, `ControlStore` and its proofs,
`SnapshotDelivery`, `SessionStore` and its proofs, `AndroidClient`; then
`DeviceService` with its two implementations, `StoreTransactions` and the ledger,
`ClientSessions`, and the proofs of all four; then the proofs about the allocator,
`SnapshotDelivery` and `AndroidClient`; then `TunnelService`, which `SnapshotDelivery`
implements, and the proofs about stranded deliveries and unconfirmed assignments.

What could follow:

1. What holds of the interface *with* removals under faults. `GatewaysRouteAsTold` says
   that nothing wrong is routed; which peers may be missing or left over, and until
   which later acknowledgement, is open, and the partial application of section 3 shows
   that an acknowledgement by itself does not settle it.
2. The proof of `PendingEventuallyConfirmed`, with a prover that handles fairness:
   `WorkIsNeverForgotten` is the invariant its argument starts from.
3. A gateway that is drained or offline: what it owes once it is ready again.
