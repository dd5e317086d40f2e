--------------------------- MODULE AndroidClient ---------------------------
(***************************************************************************)
(* The Android client: the coroutines of MainActivity, what they persist   *)
(* (AuthTokenStore, WireGuardIdentityStore) and the commands they send to  *)
(* VpnTunnelService.  Sources: clients/android/app/src/main/java/com/      *)
(* personalvpn/client.                                                     *)
(*                                                                         *)
(* Everything runs on the main thread and yields only where a coroutine    *)
(* waits for the API or a command is posted to the service: one action is  *)
(* one stretch of the main thread, or the API serving one call.            *)
(*                                                                         *)
(* Abstractions.  One account signs in.  A token pair is there or not; the *)
(* API may accept, deny or fail any call, or its answer may be lost, so    *)
(* that nothing is assumed of sessions.  provisioning and                  *)
(* connect.isEnabled are one variable: the code always assigns them        *)
(* together.  A write of the preferences that fails while signing out is   *)
(* an uncaught exception, that is, ProcessDies.  engine.stop() is taken to *)
(* bring the tunnel down.  Of the status line only whether it says that    *)
(* the tunnel is active is kept.                                           *)
(***************************************************************************)
EXTENDS Naturals, Sequences

CONSTANTS
    Tasks,          \* coroutines of screenScope: bounds those under way
    Keys,           \* WireGuard public keys a client may generate
    NoKey,
    MaxCommands     \* bound on commands posted and not yet delivered

ASSUME ClientAssumptions == NoKey \notin Keys /\ MaxCommands \in Nat

VARIABLES
    saved,          \* the token pair is in AuthTokenStore
    identity,       \* the key in WireGuardIdentityStore
    screen,         \* a MainActivity exists
    provisioned,    \* the key of provisioning.device; connect is enabled
    status,         \* what the status line of the screen says
    tasks,          \* coroutines under way
    registered,     \* keys with a row in the API's devices table
    commands,       \* intents posted to VpnTunnelService
    service,        \* VpnTunnelService
    tunnelUp,       \* GoBackend's tunnel is up and has its interface
    quiet           \* history: the user signed out with nothing under way and
                    \* has not pressed a sign-in button since

stored == <<saved, identity>>
form == <<screen, provisioned>>
ui == <<form, status>>
system == <<commands, service, tunnelUp>>
vars == <<stored, ui, tasks, registered, system, quiet>>

\* The API call a coroutine is waiting for.
Calls == {"refresh", "login", "list", "register", "regions", "configure"}
Answers == {"none", "ok", "found", "absent", "denied", "failed"}

Idle == [call |-> "idle", key |-> NoKey, answer |-> "none", cancelled |-> FALSE]

Waiting(call, key) ==
    [call |-> call, key |-> key, answer |-> "none", cancelled |-> FALSE]

\* A service that was not created, or was destroyed.
NoService == [created |-> FALSE, tunnelActive |-> FALSE, notice |-> "none",
              stopping |-> FALSE, revoked |-> FALSE, sticky |-> FALSE]

Post(command) ==
    /\ Len(commands) < MaxCommands
    /\ commands' = Append(commands, command)
    /\ UNCHANGED <<service, tunnelUp>>

-----------------------------------------------------------------------------
(***************************************************************************)
(* The screen.                                                             *)
(***************************************************************************)
\* onCreate: a saved pair is refreshed.
OnCreate ==
    /\ ~screen
    /\ screen' = TRUE
    /\ provisioned' = NoKey
    /\ status' = "other"
    /\ IF saved
       THEN \E t \in Tasks : /\ tasks[t] = Idle
                             /\ tasks' = [tasks EXCEPT ![t] = Waiting("refresh", NoKey)]
       ELSE UNCHANGED tasks
    /\ UNCHANGED <<stored, registered, system, quiet>>

\* "Entrar", and "Criar conta e entrar", which fails or goes on to log in.
PressLogin ==
    /\ screen
    /\ \E t \in Tasks : /\ tasks[t] = Idle
                        /\ tasks' = [tasks EXCEPT ![t] = Waiting("login", NoKey)]
    /\ status' = "other"
    /\ quiet' = FALSE
    /\ UNCHANGED <<stored, form, registered, system>>

\* "Obter configuração e ligar", once consent was given.
PressConnect ==
    /\ screen
    /\ provisioned # NoKey
    /\ \E t \in Tasks : /\ tasks[t] = Idle
                        /\ tasks' = [tasks EXCEPT ![t] = Waiting("configure", provisioned)]
    /\ status' = "other"
    /\ UNCHANGED <<stored, form, registered, system, quiet>>

\* "Autorizar VPN", a connect without consent, and the user's answer: only the
\* status line changes.
ShowConsent ==
    /\ screen
    /\ status' = "other"
    /\ UNCHANGED <<stored, form, tasks, registered, system, quiet>>

\* Mutant: the tokens stay in the store.
ForgetSessionOnScreen ==
    /\ provisioned' = NoKey
    /\ status' = "other"
    /\ UNCHANGED <<stored, screen>>

\* tokenStore.clear(); provisioning = null; connect.isEnabled = false; and the
\* status line says why.
ForgetSession ==
    /\ saved' = FALSE
    /\ provisioned' = NoKey
    /\ status' = "other"
    /\ UNCHANGED <<identity, screen>>

\* "Terminar sessão".  Coroutines under way are not cancelled.
PressLogout ==
    /\ screen
    /\ ForgetSession
    /\ Post("stop")
    /\ quiet' = \A t \in Tasks : tasks[t] = Idle
    /\ UNCHANGED <<tasks, registered>>

\* onDestroy: screenScope.cancel().  The service and the calls go on.
OnDestroy ==
    /\ screen
    /\ screen' = FALSE
    /\ provisioned' = NoKey
    /\ status' = "other"
    /\ tasks' = [t \in Tasks |-> IF tasks[t] = Idle THEN Idle
                                 ELSE [tasks[t] EXCEPT !.cancelled = TRUE]]
    /\ UNCHANGED <<stored, registered, system, quiet>>

-----------------------------------------------------------------------------
(***************************************************************************)
(* The API, as the client meets it.                                        *)
(***************************************************************************)
Unanswered(t, call) == tasks[t].call = call /\ tasks[t].answer = "none"
Answer(t, answer) == tasks' = [tasks EXCEPT ![t].answer = answer]

\* A call that changes nothing the client sees but the answer.  Only
\* requestConfiguration's caller tells a 401 from other failures.
ServeCall(t) ==
    /\ \/ \E call \in {"refresh", "login", "regions"}, a \in {"ok", "failed"} :
             Unanswered(t, call) /\ Answer(t, a)
       \/ \E a \in {"ok", "denied", "failed"} :
             Unanswered(t, "configure") /\ Answer(t, a)
    /\ UNCHANGED <<stored, ui, registered, system, quiet>>

\* listDevices, searched for the installation's own key.
ServeList(t) ==
    /\ Unanswered(t, "list")
    /\ Answer(t, IF tasks[t].key \in registered THEN "found" ELSE "absent")
    /\ UNCHANGED <<stored, ui, registered, system, quiet>>

\* registerDevice: a key that is registered is a conflict.
ServeRegister(t) ==
    /\ Unanswered(t, "register")
    /\ registered' = registered \cup {tasks[t].key}
    /\ Answer(t, IF tasks[t].key \in registered THEN "failed" ELSE "ok")
    /\ UNCHANGED <<stored, ui, system, quiet>>

\* The call is lost, or times out; with registerDevice also after the API
\* has inserted the row.
CallFails(t) ==
    /\ Unanswered(t, "list") \/ Unanswered(t, "register")
    /\ Answer(t, "failed")
    /\ \/ UNCHANGED registered
       \/ /\ tasks[t].call = "register"
          /\ registered' = registered \cup {tasks[t].key}
    /\ UNCHANGED <<stored, ui, system, quiet>>

-----------------------------------------------------------------------------
(***************************************************************************)
(* A coroutine resumes with its answer.                                    *)
(***************************************************************************)
Answered(t, call, answers) ==
    /\ tasks[t].call = call
    /\ tasks[t].answer \in answers
    /\ ~tasks[t].cancelled

Become(t, task) == tasks' = [tasks EXCEPT ![t] = task]

\* Mutants: nothing is generated when nothing was stored; a pair is generated
\* although one is stored.
LoadOrCreateNothing(k) == k = identity /\ identity' = k
LoadOrCreateAnew(k) == k \in Keys \ {identity} /\ identity' = k

\* WireGuardIdentityStore.loadOrCreate returns k.
LoadOrCreate(k) ==
    /\ k \in Keys
    /\ identity # NoKey => k = identity
    /\ identity' = k

\* establishSession up to its first call: the pair is saved, the identity
\* loaded or created and committed, the devices are listed.
EstablishSession(t) ==
    /\ Answered(t, "login", {"ok"}) \/ Answered(t, "refresh", {"ok"})
    /\ saved' = TRUE
    /\ \E k \in Keys \cup {NoKey} : LoadOrCreate(k) /\ Become(t, Waiting("list", k))
    /\ UNCHANGED <<ui, registered, system, quiet>>

\* One of the two stores cannot be written.
EstablishFails(t) ==
    /\ Answered(t, "login", {"ok"}) \/ Answered(t, "refresh", {"ok"})
    /\ saved' \in {saved, TRUE}
    /\ Become(t, Idle)
    /\ status' = "other"
    /\ UNCHANGED <<identity, form, registered, system, quiet>>

\* Mutant: a device that is not found is taken for one that needs no row.
AfterListUnchecked(t) == Waiting("regions", tasks[t].key)

\* existing ?: api.registerDevice(...)
AfterList(t) ==
    Waiting(IF tasks[t].answer = "found" THEN "regions" ELSE "register",
            tasks[t].key)

\* ensureDevice, then listRegions.
Provision(t) ==
    /\ \/ Answered(t, "list", {"found", "absent"}) /\ Become(t, AfterList(t))
       \/ Answered(t, "register", {"ok"}) /\ Become(t, Waiting("regions", tasks[t].key))
    /\ UNCHANGED <<stored, ui, registered, system, quiet>>

\* A login, a step of the provisioning or the configuration failed: the status
\* line says so and the coroutine ends.
CallFailed(t) ==
    /\ \E call \in {"login", "list", "register", "regions", "configure"} :
          Answered(t, call, {"failed"})
    /\ Become(t, Idle)
    /\ status' = "other"
    /\ UNCHANGED <<stored, form, registered, system, quiet>>

\* establishSession's onSuccess.
SessionReady(t) ==
    /\ Answered(t, "regions", {"ok"})
    /\ Become(t, Idle)
    /\ provisioned' = tasks[t].key
    /\ status' = "other"
    /\ UNCHANGED <<stored, screen, registered, system, quiet>>

\* A refresh that fails, or a configuration denied with 401.
SessionLost(t) ==
    /\ Answered(t, "refresh", {"failed"}) \/ Answered(t, "configure", {"denied"})
    /\ Become(t, Idle)
    /\ ForgetSession
    /\ UNCHANGED <<registered, system, quiet>>

\* requestConfiguration answered: the command that starts the tunnel is posted,
\* and the status line says at once that the tunnel is active.
StartTunnel(t) ==
    /\ Answered(t, "configure", {"ok"})
    /\ Become(t, Idle)
    /\ Post("start")
    /\ status' = "active"
    /\ UNCHANGED <<stored, form, registered, quiet>>

\* A cancelled coroutine resumes with a CancellationException, whatever was
\* answered; runCatching takes it for a failure, so that a cancelled refresh
\* clears the store (its own screen is gone).
ResumeCancelled(t) ==
    /\ tasks[t].cancelled
    /\ tasks[t].answer # "none"
    /\ Become(t, Idle)
    /\ saved' = (saved /\ tasks[t].call # "refresh")
    /\ UNCHANGED <<identity, ui, registered, system, quiet>>

-----------------------------------------------------------------------------
(***************************************************************************)
(* VpnTunnelService.                                                       *)
(***************************************************************************)
Deliver(command) ==
    /\ commands # <<>>
    /\ Head(commands) = command
    /\ commands' = Tail(commands)
    /\ UNCHANGED <<stored, ui, tasks, registered, quiet>>

\* ACTION_STOP: engine.stop(), then stopSelf().
OnStop ==
    /\ Deliver("stop")
    /\ tunnelUp' = FALSE
    /\ service' = [NoService EXCEPT !.created = TRUE, !.stopping = TRUE]

\* ACTION_START while the tunnel is active: only the notification is renewed.
OnStartAgain ==
    /\ Deliver("start")
    /\ service.tunnelActive
    /\ service' = [service EXCEPT !.notice = "active", !.sticky = TRUE]
    /\ UNCHANGED tunnelUp

\* The service after engine.start succeeded ...
Started == [service EXCEPT !.created = TRUE, !.tunnelActive = TRUE,
                           !.notice = "active", !.sticky = FALSE]

\* Mutant: the notification is renewed before engine.start.
StartFailedAnnounced ==
    [service EXCEPT !.created = TRUE, !.tunnelActive = FALSE,
                    !.notice = "active", !.stopping = TRUE, !.sticky = FALSE]

\* ... or threw a RuntimeException.
StartFailed ==
    [service EXCEPT !.created = TRUE, !.tunnelActive = FALSE,
                    !.notice = "starting", !.stopping = TRUE, !.sticky = FALSE]

OnStart ==
    /\ Deliver("start")
    /\ ~service.tunnelActive
    /\ \/ service' = Started /\ tunnelUp' = TRUE
       \/ service' = StartFailed /\ UNCHANGED tunnelUp

\* The system restarts a sticky service with no intent: the service shows
\* that it is starting and returns.
OnRestartCommand ==
    /\ Deliver("restart")
    /\ ~service.tunnelActive
    /\ service' = [service EXCEPT !.created = TRUE, !.notice = "starting",
                                  !.sticky = FALSE]
    /\ UNCHANGED tunnelUp

\* The user or another VPN application takes the VPN away: its interface is gone
\* when the inherited onRevoke runs, which calls stopSelf().
OnRevoke ==
    /\ tunnelUp
    /\ tunnelUp' = FALSE
    /\ service' = [service EXCEPT !.revoked = TRUE, !.stopping = TRUE]
    /\ UNCHANGED <<stored, ui, tasks, registered, commands, quiet>>

\* onDestroy, after stopSelf(); a command that was already on its way may be
\* delivered before it.
OnServiceDestroy ==
    /\ service.stopping
    /\ service' = NoService
    /\ tunnelUp' = FALSE
    /\ UNCHANGED <<stored, ui, tasks, registered, commands, quiet>>

\* The process is killed, or dies of an exception that is not caught
\* (engine.start throws more than RuntimeExceptions).  What is stored stays.
\* Android may deliver what was posted to the next process; a sticky service
\* with nothing posted may be restarted without an intent.
ProcessDies ==
    /\ screen \/ service.created
    /\ screen' = FALSE
    /\ provisioned' = NoKey
    /\ status' = "other"
    /\ tasks' = [t \in Tasks |-> Idle]
    /\ tunnelUp' = FALSE
    /\ service' = NoService
    /\ \/ commands' \in {commands, <<>>}
       \/ service.sticky /\ commands = <<>> /\ commands' = <<"restart">>
    /\ UNCHANGED <<stored, registered, quiet>>

-----------------------------------------------------------------------------
Init ==
    /\ saved = FALSE
    /\ identity = NoKey
    /\ screen = FALSE
    /\ provisioned = NoKey
    /\ status = "other"
    /\ tasks = [t \in Tasks |-> Idle]
    /\ registered = {}
    /\ commands = <<>>
    /\ service = NoService
    /\ tunnelUp = FALSE
    /\ quiet = FALSE

ScreenNext ==
    OnCreate \/ PressLogin \/ PressConnect \/ ShowConsent \/ PressLogout \/ OnDestroy

ApiNext(t) == ServeCall(t) \/ ServeList(t) \/ ServeRegister(t) \/ CallFails(t)

TaskNext(t) ==
    \/ EstablishSession(t)
    \/ EstablishFails(t)
    \/ Provision(t)
    \/ CallFailed(t)
    \/ SessionReady(t)
    \/ SessionLost(t)
    \/ StartTunnel(t)
    \/ ResumeCancelled(t)

ServiceNext ==
    OnStop \/ OnStartAgain \/ OnStart \/ OnRestartCommand \/ OnRevoke \/ OnServiceDestroy

Next ==
    \/ ScreenNext
    \/ \E t \in Tasks : ApiNext(t) \/ TaskNext(t)
    \/ ServiceNext
    \/ ProcessDies

Spec == Init /\ [][Next]_vars

-----------------------------------------------------------------------------
(***************************************************************************)
(* Properties.                                                             *)
(***************************************************************************)
\* Type correctness; a coroutine that provisions the device has its key.
ClientTypeOK ==
    /\ {saved, screen, tunnelUp, quiet} \subseteq BOOLEAN
    /\ {identity, provisioned} \subseteq Keys \cup {NoKey}
    /\ status \in {"other", "active"}
    /\ registered \subseteq Keys
    /\ \A t \in Tasks :
          /\ tasks[t].call \in Calls \cup {"idle"}
          /\ tasks[t].answer \in Answers
          /\ tasks[t].cancelled \in BOOLEAN
          /\ tasks[t].call \in {"list", "register", "regions", "configure"} =>
                tasks[t].key \in Keys
    /\ commands \in Seq({"start", "stop", "restart"})
    /\ Len(commands) <= MaxCommands
    /\ service \in [created : BOOLEAN, tunnelActive : BOOLEAN, stopping : BOOLEAN,
                    revoked : BOOLEAN, sticky : BOOLEAN,
                    notice : {"none", "starting", "active"}]

\* docs/android-e2e-test-plan.md, step 12 ("repetir sem duplicar dispositivo"):
\* an installation has at most one device row, the one of the key it holds,
\* although two coroutines may list and register at the same time, the answer
\* to registerDevice may be lost after the row was inserted, and the process
\* may die between any two steps.
OneDevicePerInstallation == registered \subseteq {identity}

\* The connect button is offered only for a device that has its row, whichever
\* coroutines raced to enable it, and the key its configuration is asked for
\* is the one the tunnel will be started with.
ConnectMeansRegistered ==
    provisioned # NoKey => provisioned \in registered /\ provisioned = identity

\* The notification says "VPN ativa", and tunnelActive makes the service ignore
\* a start, only after engine.start was accepted, whatever starts, stops and
\* failures follow each other in one instance.  A tunnel that the system took
\* away is the one exception: both stay behind, also past a start that comes
\* then, but only until the onDestroy that is on its way.  This is the rule of
\* docs/android-tv.md ("só pode ser mostrado depois de o backend WireGuard
\* aceitar a configuração") for the notification; the status line of the screen
\* does not keep it (StartTunnel).
TunnelShownAsItIs ==
    /\ service.notice = "active" => service.tunnelActive
    /\ service.tunnelActive <=> tunnelUp \/ service.revoked
    /\ service.revoked => service.stopping /\ ~tunnelUp

\* Signing out is final as long as no coroutine was under way: no later screen
\* restores the session or says that the tunnel is active, nothing can start the
\* tunnel, and the tunnel is down or the command that stops it is on its way.
SignedOutStaysOut ==
    quiet =>
        /\ provisioned = NoKey /\ status = "other"
        /\ \A t \in Tasks : tasks[t] = Idle
        /\ commands # <<>> => commands[Len(commands)] # "start"
        /\ tunnelUp => \E i \in DOMAIN commands : commands[i] = "stop"
=============================================================================
