----------------------- MODULE AndroidClientProofs -----------------------
(***************************************************************************)
(* Theorems about the Android client, for every number of coroutines under *)
(* way, of keys and of posted commands.                                    *)
(*                                                                         *)
(* The inductive invariant has three parts: the stored identity with the   *)
(* rows and the coroutines that know of it, the service with the commands  *)
(* on their way to it, and what a sign-out leaves behind.                  *)
(***************************************************************************)
EXTENDS AndroidClient, SequenceTheorems, TLAPS

\* What is known of a coroutine.
TaskSet == [call : Calls \cup {"idle"}, key : Keys \cup {NoKey},
            answer : Answers, cancelled : BOOLEAN]

\* The calls made with the key of the installation.
WithKey == {"list", "register", "regions", "configure"}

\* The coroutine knows that its key has a row: it was found, it was inserted,
\* or one of these came before.
HasRow(task) ==
    \/ task.call \in {"regions", "configure"}
    \/ task.call = "list" /\ task.answer = "found"
    \/ task.call = "register" /\ task.answer = "ok"

\* A coroutine that holds a key holds the stored one, and knows of its row only
\* when there is one.
TaskFits(task, id, rows) ==
    /\ task \in TaskSet
    /\ task.call \in WithKey => task.key = id /\ id \in Keys
    /\ HasRow(task) => task.key \in rows

\* All of them do.
TasksFit(id, rows) ==
    /\ tasks = [t \in Tasks |-> tasks[t]]
    /\ \A t \in Tasks : TaskFits(tasks[t], id, rows)

\* What is provisioned is the stored identity: the coroutines, the rows of the
\* API and the connect button agree on it.
ProvisionInv ==
    /\ saved \in BOOLEAN
    /\ screen \in BOOLEAN
    /\ status \in {"other", "active"}
    /\ identity \in Keys \cup {NoKey}
    /\ registered \subseteq {identity}
    /\ registered \subseteq Keys
    /\ ConnectMeansRegistered
    /\ TasksFit(identity, registered)

-----------------------------------------------------------------------------
\* No coroutine, no key and no row at first.
LEMMA ClientInit == Init => ProvisionInv
<1> SUFFICES ASSUME Init PROVE ProvisionInv
  OBVIOUS
<1>1. TaskFits(Idle, identity, registered)
  BY DEF TaskFits, TaskSet, Idle, Calls, Answers, WithKey, HasRow
<1>2. TasksFit(identity, registered)
  BY <1>1 DEF Init, TasksFit
<1> QED
  BY <1>2 DEF Init, ProvisionInv, ConnectMeansRegistered

\* A coroutine keeps fitting while rows are added and the identity, once there,
\* stays.
LEMMA StillFits ==
    ASSUME NEW task, NEW id, NEW rows, TaskFits(task, id, rows),
           NEW id2, NEW rows2, rows \subseteq rows2, id \in Keys => id2 = id
    PROVE  TaskFits(task, id2, rows2)
BY DEF TaskFits, WithKey

\* Coroutine t goes on as task.
Replaced(t, task) == tasks' = [tasks EXCEPT ![t] = task]

\* Most steps replace one coroutine.
LEMMA OneTaskReplaced ==
    ASSUME TasksFit(identity, registered), NEW t \in Tasks, NEW task,
           Replaced(t, task), TaskFits(task, identity', registered'),
           registered \subseteq registered',
           identity \in Keys => identity' = identity
    PROVE  TasksFit(identity, registered)'
<1>1. /\ tasks' = [s \in Tasks |-> tasks'[s]]
      /\ tasks'[t] = task
      /\ \A s \in Tasks \ {t} : tasks'[s] = tasks[s]
  BY DEF TasksFit, Replaced
<1>2. \A s \in Tasks : TaskFits(tasks[s], identity', registered')
  BY StillFits DEF TasksFit
<1>3. \A s \in Tasks : TaskFits(tasks'[s], identity', registered')
  BY <1>1, <1>2
<1> QED
  BY <1>1, <1>3 DEF TasksFit

\* The others leave them alone.
LEMMA SameTasksFit ==
    ASSUME TasksFit(identity, registered), UNCHANGED <<tasks, identity, registered>>
    PROVE  TasksFit(identity, registered)'
BY DEF TasksFit

-----------------------------------------------------------------------------
\* The screen starts coroutines without a key, or with the one the button was
\* enabled for, and cancels those under way.
LEMMA ScreenProvisions ==
    ASSUME ClientAssumptions, ProvisionInv, ScreenNext
    PROVE  ProvisionInv'
<1> USE DEF ProvisionInv, ConnectMeansRegistered, ClientAssumptions
<1>0. UNCHANGED <<identity, registered>>
  BY DEF ScreenNext, OnCreate, PressLogin, PressConnect, ShowConsent, PressLogout,
         OnDestroy, ForgetSession, stored, form
<1>1. TaskFits(Waiting("refresh", NoKey), identity, registered)
  BY DEF TaskFits, TaskSet, Waiting, WithKey, HasRow, Calls, Answers
<1>2. TaskFits(Waiting("login", NoKey), identity, registered)
  BY DEF TaskFits, TaskSet, Waiting, WithKey, HasRow, Calls, Answers
<1>3. CASE OnCreate
  <2>1. TasksFit(identity, registered)'
    <3>1. CASE UNCHANGED tasks
      BY <1>0, <3>1, SameTasksFit
    <3>2. CASE \E t \in Tasks : Replaced(t, Waiting("refresh", NoKey))
      BY <1>0, <1>1, <3>2, OneTaskReplaced
    <3> QED
      BY <1>3, <3>1, <3>2 DEF OnCreate, Replaced
  <2> QED
    BY <1>0, <1>3, <2>1 DEF OnCreate, stored
<1>4. CASE PressLogin
  <2>1. TasksFit(identity, registered)'
    BY <1>0, <1>2, <1>4, OneTaskReplaced DEF PressLogin, Replaced
  <2> QED
    BY <1>0, <1>4, <2>1 DEF PressLogin, stored, form
<1>5. CASE PressConnect
  <2>1. TaskFits(Waiting("configure", provisioned), identity, registered)
    BY <1>5 DEF PressConnect, TaskFits, TaskSet, Waiting, WithKey, HasRow, Calls,
                Answers
  <2>2. TasksFit(identity, registered)'
    BY <1>0, <1>5, <2>1, OneTaskReplaced DEF PressConnect, Replaced
  <2> QED
    BY <1>0, <1>5, <2>2 DEF PressConnect, stored, form
<1>8. CASE ShowConsent
  <2>1. TasksFit(identity, registered)'
    BY <1>0, <1>8, SameTasksFit DEF ShowConsent
  <2> QED
    BY <1>0, <1>8, <2>1 DEF ShowConsent, stored, form
<1>6. CASE PressLogout
  <2>1. TasksFit(identity, registered)'
    BY <1>0, <1>6, SameTasksFit DEF PressLogout
  <2> QED
    BY <1>0, <1>6, <2>1 DEF PressLogout, ForgetSession
<1>7. CASE OnDestroy
  <2>1. \A t \in Tasks : TaskFits(tasks'[t], identity', registered')
    <3> TAKE t \in Tasks
    <3>1. tasks'[t] = IF tasks[t] = Idle THEN Idle
                      ELSE [tasks[t] EXCEPT !.cancelled = TRUE]
      BY <1>7 DEF OnDestroy
    <3>2. TaskFits(tasks[t], identity, registered)
      BY DEF TasksFit
    <3>3. TaskFits([tasks[t] EXCEPT !.cancelled = TRUE], identity, registered)
      BY <3>2 DEF TaskFits, TaskSet, HasRow
    <3> QED
      BY <1>0, <3>1, <3>2, <3>3
  <2>2. tasks' = [t \in Tasks |-> tasks'[t]]
    BY <1>7 DEF OnDestroy
  <2>3. TasksFit(identity, registered)'
    BY <2>1, <2>2 DEF TasksFit
  <2> QED
    BY <1>0, <1>7, <2>3 DEF OnDestroy, stored
<1> QED
  BY <1>3, <1>4, <1>5, <1>6, <1>7, <1>8 DEF ScreenNext

-----------------------------------------------------------------------------
\* An answer tells of a row only when there is one.
LEMMA AnswerFits ==
    ASSUME NEW task, NEW id, NEW rows, TaskFits(task, id, rows),
           NEW a \in Answers,
           a = "found" /\ task.call = "list" => task.key \in rows,
           a = "ok" /\ task.call = "register" => task.key \in rows
    PROVE  TaskFits([task EXCEPT !.answer = a], id, rows)
BY DEF TaskFits, TaskSet, HasRow

\* The API adds the row of the key it is asked for, which is the stored one;
\* this row may exist without the coroutine learning of it.
LEMMA ApiProvisions ==
    ASSUME ClientAssumptions, ProvisionInv, NEW t \in Tasks, ApiNext(t)
    PROVE  ProvisionInv'
<1> DEFINE answered(a) == [tasks[t] EXCEPT !.answer = a]
<1>0. /\ UNCHANGED <<stored, ui>>
      /\ registered' \in {registered, registered \cup {tasks[t].key}}
      /\ registered' # registered => tasks[t].call = "register"
  BY DEF ApiNext, ServeCall, ServeList, ServeRegister, CallFails, Unanswered
<1>1. TasksFit(identity, registered) /\ TaskFits(tasks[t], identity, registered)
  BY DEF ProvisionInv, TasksFit
<1>2. TaskFits(tasks[t], identity', registered') /\ registered \subseteq registered'
  BY <1>0, <1>1, StillFits DEF stored
<1>3. PICK a \in Answers :
         /\ Replaced(t, answered(a))
         /\ a = "found" /\ tasks[t].call = "list" => tasks[t].key \in registered'
         /\ a = "ok" /\ tasks[t].call = "register" => tasks[t].key \in registered'
  <2> USE DEF Answer, Replaced, Unanswered, Answers
  <2>1. CASE ServeCall(t)
    BY <2>1 DEF ServeCall
  <2>2. CASE ServeList(t)
    BY <2>2 DEF ServeList
  <2>3. CASE ServeRegister(t)
    BY <2>3 DEF ServeRegister
  <2>4. CASE CallFails(t)
    BY <2>4 DEF CallFails
  <2> QED
    BY <2>1, <2>2, <2>3, <2>4 DEF ApiNext
<1>4. TaskFits(answered(a), identity', registered')
  BY <1>2, <1>3, AnswerFits
<1>5. TasksFit(identity, registered)'
  <2>1. identity' = identity
    BY <1>0 DEF stored
  <2> HIDE DEF answered
  <2> QED
    BY <1>1, <1>2, <1>3, <1>4, <2>1, OneTaskReplaced
<1>6. registered' \subseteq {identity} /\ registered' \subseteq Keys
  BY <1>0, <1>1 DEF ProvisionInv, TaskFits, WithKey
<1> QED
  BY <1>0, <1>2, <1>5, <1>6
  DEF ProvisionInv, ConnectMeansRegistered, stored, ui, form

-----------------------------------------------------------------------------
\* A coroutine that has ended fits.
LEMMA IdleFits ==
    ASSUME NEW id, NEW rows
    PROVE  TaskFits(Idle, id, rows)
BY DEF TaskFits, TaskSet, Idle, Calls, Answers, WithKey, HasRow

\* A coroutine that resumes takes the stored key, or makes one when none is
\* stored, and passes it on.
LEMMA TaskProvisions ==
    ASSUME ClientAssumptions, ProvisionInv, NEW t \in Tasks, TaskNext(t)
    PROVE  ProvisionInv'
<1> USE DEF ProvisionInv, ConnectMeansRegistered
<1>0. TaskFits(tasks[t], identity, registered) /\ UNCHANGED registered
  BY DEF TasksFit, TaskNext, EstablishSession, EstablishFails, Provision,
         CallFailed, SessionReady, SessionLost, StartTunnel, ResumeCancelled
<1>1. CASE EstablishSession(t)
  <2>1. PICK k \in Keys : /\ identity # NoKey => k = identity
                          /\ identity' = k
                          /\ Replaced(t, Waiting("list", k))
    BY <1>1 DEF EstablishSession, LoadOrCreate, Become, Replaced
  <2>2. identity \in Keys => identity' = identity
    BY <2>1 DEF ClientAssumptions
  <2>3. TaskFits(Waiting("list", k), identity', registered')
    BY <2>1 DEF TaskFits, TaskSet, Waiting, WithKey, HasRow, Calls, Answers
  <2>4. TasksFit(identity, registered)'
    BY <1>0, <2>1, <2>2, <2>3, OneTaskReplaced
  <2> QED
    BY <1>0, <1>1, <2>1, <2>2, <2>4
    DEF EstablishSession, ui, form, ClientAssumptions
<1>2. CASE Provision(t) \/ SessionReady(t) \/ StartTunnel(t) \/ CallFailed(t)
               \/ EstablishFails(t) \/ SessionLost(t) \/ ResumeCancelled(t)
  <2>0. /\ identity' = identity /\ screen' = screen /\ saved' \in BOOLEAN
        /\ status' \in {"other", "active"}
    BY <1>2 DEF Provision, SessionReady, StartTunnel, CallFailed, EstablishFails,
                SessionLost, ResumeCancelled, ForgetSession, stored, ui, form
  <2>1. \E task : Replaced(t, task) /\ TaskFits(task, identity, registered)
    <3>1. CASE Provision(t)
      <4>1. TaskFits(Waiting("regions", tasks[t].key), identity, registered)
               \/ ~(Answered(t, "list", {"found"}) \/ Answered(t, "register", {"ok"}))
        BY <1>0 DEF Answered, TaskFits, TaskSet, Waiting, WithKey, HasRow, Calls,
                    Answers
      <4>2. TaskFits(Waiting("register", tasks[t].key), identity, registered)
               \/ ~Answered(t, "list", {"absent"})
        BY <1>0 DEF Answered, TaskFits, TaskSet, Waiting, WithKey, HasRow, Calls,
                    Answers
      <4> QED
        BY <3>1, <4>1, <4>2, IdleFits
        DEF Provision, Become, Replaced, AfterList, Answered
    <3>2. CASE ~Provision(t)
      BY <1>2, <3>2, IdleFits
      DEF SessionReady, StartTunnel, CallFailed, EstablishFails, SessionLost,
          ResumeCancelled, Become, Replaced
    <3> QED
      BY <3>1, <3>2
  <2>2. TasksFit(identity, registered)'
    BY <1>0, <2>0, <2>1, OneTaskReplaced
  <2>3. ConnectMeansRegistered'
    <3>1. CASE SessionReady(t)
      BY <1>0, <2>0, <3>1 DEF SessionReady, Answered, TaskFits, WithKey, HasRow
    <3>2. CASE ~SessionReady(t)
      BY <1>0, <1>2, <2>0, <3>2
      DEF Provision, StartTunnel, CallFailed, EstablishFails, SessionLost,
          ResumeCancelled, ForgetSession, ui, form
    <3> QED
      BY <3>1, <3>2
  <2> QED
    BY <1>0, <2>0, <2>2, <2>3
<1> QED
  BY <1>1, <1>2 DEF TaskNext

\* The service does not touch what is provisioned.
LEMMA ServiceProvisions ==
    ASSUME ProvisionInv, ServiceNext
    PROVE  ProvisionInv'
<1>1. UNCHANGED <<stored, ui, tasks, registered>>
  BY DEF ServiceNext, OnStop, OnStartAgain, OnStart, OnRestartCommand, OnRevoke,
         OnServiceDestroy, Deliver
<1>2. TasksFit(identity, registered)'
  BY <1>1, SameTasksFit DEF ProvisionInv, stored
<1> QED
  BY <1>1, <1>2 DEF ProvisionInv, ConnectMeansRegistered, stored, ui, form

\* When the process dies, the stores and the rows stay and every coroutine ends.
LEMMA DeathProvisions ==
    ASSUME ProvisionInv, ProcessDies
    PROVE  ProvisionInv'
<1>1. TasksFit(identity, registered)'
  BY IdleFits DEF ProcessDies, TasksFit
<1> QED
  BY <1>1 DEF ProcessDies, ProvisionInv, ConnectMeansRegistered, stored

\* Every step keeps identity, rows and button together.
LEMMA StepProvisions ==
    ASSUME ClientAssumptions, ProvisionInv, [Next]_vars
    PROVE  ProvisionInv'
<1>1. CASE UNCHANGED vars
  <2>1. TasksFit(identity, registered)'
    BY <1>1, SameTasksFit DEF ProvisionInv, vars, stored
  <2> QED
    BY <1>1, <2>1 DEF ProvisionInv, ConnectMeansRegistered, vars, stored, ui, form
<1> QED
  BY <1>1, ScreenProvisions, ApiProvisions, TaskProvisions, ServiceProvisions,
     DeathProvisions
  DEF Next

-----------------------------------------------------------------------------
(***************************************************************************)
(* The service and its notification.                                       *)
(***************************************************************************)
\* What may be posted to the service.
Commands == {"start", "stop", "restart"}

\* The system restarts the service of a process that died, so that no command
\* is posted before.
RestartIsFirst == \A i \in 1..Len(commands) : commands[i] = "restart" => i = 1

\* VpnTunnelService.
ServiceSet == [created : BOOLEAN, tunnelActive : BOOLEAN, stopping : BOOLEAN,
               revoked : BOOLEAN, sticky : BOOLEAN,
               notice : {"none", "starting", "active"}]

\* The service and the commands on their way to it.  A sticky service was
\* started by a command.
TunnelInv ==
    /\ tunnelUp \in BOOLEAN
    /\ service \in ServiceSet
    /\ commands \in Seq(Commands)
    /\ Len(commands) <= MaxCommands
    /\ RestartIsFirst
    /\ service.sticky => MaxCommands >= 1
    /\ TunnelShownAsItIs

\* A command is posted behind the others.
LEMMA PostAppends ==
    ASSUME ClientAssumptions, TunnelInv, NEW command \in {"start", "stop"},
           Post(command)
    PROVE  /\ TunnelInv'
           /\ Len(commands') = Len(commands) + 1
           /\ \A i \in 1..Len(commands) : commands'[i] = commands[i]
           /\ commands'[Len(commands')] = command
<1>1. commands' = Append(commands, command) /\ command \in Commands
  BY DEF Post, Commands
<1>2. /\ commands' \in Seq(Commands)
      /\ Len(commands') = Len(commands) + 1
      /\ \A i \in 1..Len(commands) : commands'[i] = commands[i]
      /\ commands'[Len(commands) + 1] = command
  BY <1>1, AppendProperties DEF TunnelInv
<1>3. Len(commands) \in Nat /\ Len(commands) < MaxCommands
  BY LenProperties DEF Post, TunnelInv
<1>4. RestartIsFirst'
  BY <1>2, <1>3 DEF TunnelInv, RestartIsFirst
<1> QED
  BY <1>2, <1>3, <1>4 DEF Post, TunnelInv, TunnelShownAsItIs, ClientAssumptions

\* A command that is delivered was the first; no restart is behind it.
LEMMA DeliverTakesFirst ==
    ASSUME ClientAssumptions, TunnelInv, NEW command, Deliver(command)
    PROVE  /\ commands' \in Seq(Commands)
           /\ Len(commands) \in Nat \ {0}
           /\ Len(commands') = Len(commands) - 1
           /\ \A i \in 1..Len(commands') : commands'[i] = commands[i + 1]
           /\ commands[1] = command
           /\ \A i \in 1..Len(commands') : commands'[i] # "restart"
<1>1. /\ commands' \in Seq(Commands)
      /\ Len(commands') = Len(commands) - 1
      /\ \A i \in 1..Len(commands') : commands'[i] = commands[i + 1]
  BY HeadTailProperties DEF TunnelInv, Deliver
<1>2. Len(commands) \in Nat \ {0}
  BY EmptySeq DEF TunnelInv, Deliver
<1>3. commands[1] = command
  BY <1>2 DEF Deliver, TunnelInv
<1>4. \A i \in 1..Len(commands') : commands'[i] # "restart"
  BY <1>1, <1>2 DEF TunnelInv, RestartIsFirst
<1> QED
  BY <1>1, <1>2, <1>3, <1>4

\* onStartCommand and onDestroy change the notification and tunnelActive
\* together with the backend.
LEMMA ServiceShowsTunnel ==
    ASSUME ClientAssumptions, TunnelInv, ServiceNext
    PROVE  TunnelInv'
<1>1. CASE OnServiceDestroy
  BY <1>1 DEF OnServiceDestroy, TunnelInv, NoService, ServiceSet, TunnelShownAsItIs,
              RestartIsFirst
<1>2. ASSUME NEW command, Deliver(command)
      PROVE  /\ commands' \in Seq(Commands)
             /\ Len(commands') <= MaxCommands
             /\ MaxCommands >= 1
             /\ RestartIsFirst'
  BY <1>2, DeliverTakesFirst DEF TunnelInv, RestartIsFirst, ClientAssumptions
<1>3. tunnelUp' \in BOOLEAN /\ service' \in ServiceSet /\ TunnelShownAsItIs'
  <2> USE DEF TunnelInv, ServiceSet, TunnelShownAsItIs
  <2>1. CASE OnStop
    BY <2>1 DEF OnStop, NoService
  <2>2. CASE OnStartAgain
    <3>1. /\ service' \in ServiceSet
          /\ service'.tunnelActive = service.tunnelActive
          /\ service'.revoked = service.revoked
          /\ service'.stopping = service.stopping
      BY <2>2 DEF OnStartAgain
    <3> QED
      BY <2>2, <3>1 DEF OnStartAgain
  <2>3. CASE OnStart
    <3>0. service.revoked = FALSE
      BY <2>3 DEF OnStart
    <3>1. CASE service' = Started /\ tunnelUp' = TRUE
      <4>1. /\ service' \in ServiceSet /\ service'.tunnelActive = TRUE
            /\ service'.revoked = FALSE
        BY <3>0, <3>1 DEF Started
      <4> QED
        BY <3>1, <4>1
    <3>2. CASE service' = StartFailed /\ UNCHANGED tunnelUp
      <4>1. /\ service' \in ServiceSet
            /\ service'.tunnelActive = FALSE /\ service'.notice = "starting"
            /\ service'.revoked = FALSE
        BY <3>0, <3>2 DEF StartFailed
      <4>2. service.tunnelActive = FALSE
        BY <2>3 DEF OnStart
      <4> QED
        BY <3>2, <4>1, <4>2
    <3> QED
      BY <2>3, <3>1, <3>2 DEF OnStart
  <2>4. CASE OnRestartCommand
    BY <2>4 DEF OnRestartCommand
  <2>5. CASE OnRevoke
    <3>1. /\ service' \in ServiceSet
          /\ service'.revoked = TRUE /\ service'.stopping = TRUE
          /\ service'.tunnelActive = service.tunnelActive
          /\ service.tunnelActive = TRUE
      BY <2>5 DEF OnRevoke
    <3> QED
      BY <2>5, <3>1 DEF OnRevoke
  <2> QED
    BY <1>1, <2>1, <2>2, <2>3, <2>4, <2>5 DEF ServiceNext
<1>4. CASE OnRevoke
  BY <1>3, <1>4 DEF OnRevoke, TunnelInv, RestartIsFirst, ServiceSet
<1>5. CASE ~OnServiceDestroy /\ ~OnRevoke
  <2>1. service'.sticky => MaxCommands >= 1
    BY <1>2, <1>5
    DEF ServiceNext, OnStop, OnStartAgain, OnStart, OnRestartCommand
  <2> QED
    BY <1>2, <1>3, <1>5, <2>1
    DEF ServiceNext, OnStop, OnStartAgain, OnStart, OnRestartCommand, TunnelInv
<1> QED
  BY <1>1, <1>4, <1>5

\* The tunnel ends with the process.
LEMMA DeathEndsTunnel ==
    ASSUME ClientAssumptions, ProcessDies, TunnelInv
    PROVE  TunnelInv'
<1>1. commands' \in {commands, <<>>, <<"restart">>}
  BY DEF ProcessDies
<1>2. commands' \in Seq(Commands) /\ Len(commands') <= MaxCommands
  <2>1. CASE commands' = <<>>
    <3>1. commands' \in Seq(Commands) /\ Len(commands') = 0
      BY <2>1, EmptySeq
    <3> QED
      BY <3>1 DEF ClientAssumptions
  <2>2. CASE commands' = <<"restart">>
    <3>1. MaxCommands >= 1
      BY <2>2 DEF ProcessDies, TunnelInv
    <3>2. commands' \in Seq(Commands) /\ Len(commands') = 1
      BY <2>2 DEF Commands
    <3> QED
      BY <3>1, <3>2 DEF ClientAssumptions
  <2>3. CASE commands' = commands
    BY <2>3 DEF TunnelInv
  <2> QED
    BY <1>1, <2>1, <2>2, <2>3
<1>3. RestartIsFirst'
  BY <1>1 DEF RestartIsFirst, TunnelInv
<1> QED
  BY <1>2, <1>3 DEF ProcessDies, TunnelInv, NoService, ServiceSet, TunnelShownAsItIs

\* Every other step leaves the service alone or posts a command.
LEMMA StepShowsTunnel ==
    ASSUME ClientAssumptions, TunnelInv, [Next]_vars
    PROVE  TunnelInv'
<1>1. CASE UNCHANGED system
  BY <1>1 DEF system, TunnelInv, RestartIsFirst, TunnelShownAsItIs
<1>2. CASE PressLogout
  BY <1>2, PostAppends DEF PressLogout
<1>3. CASE \E t \in Tasks : StartTunnel(t)
  BY <1>3, PostAppends DEF StartTunnel
<1>4. ASSUME ScreenNext, ~PressLogout PROVE UNCHANGED system
  BY <1>4 DEF ScreenNext, OnCreate, PressLogin, PressConnect, ShowConsent, OnDestroy
<1>5. ASSUME NEW t \in Tasks, ApiNext(t) PROVE UNCHANGED system
  BY <1>5 DEF ApiNext, ServeCall, ServeList, ServeRegister, CallFails
<1>6. ASSUME NEW t \in Tasks, TaskNext(t), ~StartTunnel(t) PROVE UNCHANGED system
  BY <1>6 DEF TaskNext, EstablishSession, EstablishFails, Provision, CallFailed,
              SessionReady, SessionLost, ResumeCancelled
<1> QED
  BY <1>1, <1>2, <1>3, <1>4, <1>5, <1>6, ServiceShowsTunnel, DeathEndsTunnel
  DEF Next, vars

-----------------------------------------------------------------------------
(***************************************************************************)
(* Signing out.                                                            *)
(***************************************************************************)
\* The last command does not start the tunnel, and a tunnel that is up will be
\* stopped.
QuietCommands ==
    /\ commands # <<>> => commands[Len(commands)] # "start"
    /\ tunnelUp => \E i \in DOMAIN commands : commands[i] = "stop"

\* After a sign-out with nothing under way the token pair is gone, too, which is
\* why no later screen starts a coroutine.
QuietInv ==
    /\ quiet \in BOOLEAN
    /\ quiet => /\ saved = FALSE
                /\ provisioned = NoKey
                /\ status = "other"
                /\ \A t \in Tasks : tasks[t] = Idle
                /\ QuietCommands

\* Signing out clears the store and posts the stop.
LEMMA LogoutIsQuiet ==
    ASSUME ClientAssumptions, TunnelInv, PressLogout
    PROVE  QuietInv'
<1>1. /\ Len(commands') = Len(commands) + 1
      /\ commands'[Len(commands')] = "stop"
      /\ commands' \in Seq(Commands)
  BY PostAppends DEF PressLogout, TunnelInv
<1>2. Len(commands') \in DOMAIN commands'
  BY <1>1, LenProperties DEF TunnelInv
<1>3. QuietCommands'
  BY <1>1, <1>2 DEF QuietCommands
<1> QED
  BY <1>3 DEF PressLogout, ForgetSession, QuietInv

\* A screen without a token pair waits for the user.
LEMMA ScreenIsQuiet ==
    ASSUME ClientAssumptions, TunnelInv, QuietInv, ScreenNext
    PROVE  QuietInv'
<1>1. CASE OnCreate
  BY <1>1 DEF OnCreate, QuietInv, QuietCommands, stored, system
<1>2. CASE PressLogin
  BY <1>2 DEF PressLogin, QuietInv
<1>3. CASE PressConnect
  BY <1>3 DEF PressConnect, QuietInv, QuietCommands, stored, form, system
<1>4. CASE OnDestroy
  <2>1. quiet => \A t \in Tasks : tasks'[t] = Idle
    BY <1>4 DEF OnDestroy, QuietInv
  <2> QED
    BY <1>4, <2>1 DEF OnDestroy, QuietInv, QuietCommands, stored, system
<1>5. CASE ShowConsent
  BY <1>5 DEF ShowConsent, QuietInv, QuietCommands, stored, form, system
<1> QED
  BY <1>1, <1>2, <1>3, <1>4, <1>5, LogoutIsQuiet DEF ScreenNext

\* No coroutine runs in the quiet.
LEMMA TaskNotQuiet ==
    ASSUME QuietInv, NEW t \in Tasks, ApiNext(t) \/ TaskNext(t)
    PROVE  ~quiet /\ UNCHANGED quiet
<1>0. \A call \in Calls : tasks[t].call = call => tasks[t] # Idle
  BY DEF Calls, Idle
<1>1. tasks[t] # Idle
  <2>1. CASE ApiNext(t)
    BY <1>0, <2>1 DEF ApiNext, ServeCall, ServeList, ServeRegister, CallFails,
                      Unanswered, Calls
  <2>2. CASE ResumeCancelled(t)
    BY <2>2 DEF ResumeCancelled, Idle
  <2>3. CASE TaskNext(t) /\ ~ResumeCancelled(t)
    BY <1>0, <2>3
    DEF TaskNext, EstablishSession, EstablishFails, Provision, CallFailed,
        SessionReady, SessionLost, StartTunnel, Answered, Calls
  <2> QED
    BY <2>1, <2>2, <2>3
<1>2. UNCHANGED quiet
  BY DEF ApiNext, ServeCall, ServeList, ServeRegister, CallFails,
         TaskNext, EstablishSession, EstablishFails, Provision, CallFailed,
         SessionReady, SessionLost, StartTunnel, ResumeCancelled
<1> QED
  BY <1>1, <1>2 DEF QuietInv

\* A start that was on its way before the user signed out may bring the tunnel
\* up again: the stop is behind it.
LEMMA ServiceIsQuiet ==
    ASSUME ClientAssumptions, TunnelInv, QuietInv, ServiceNext
    PROVE  QuietInv'
<1>1. UNCHANGED <<stored, ui, tasks, quiet>>
  BY DEF ServiceNext, OnStop, OnStartAgain, OnStart, OnRestartCommand, OnRevoke,
         OnServiceDestroy, Deliver
<1>2. ASSUME quiet, QuietCommands PROVE QuietCommands'
  <2>1. CASE OnServiceDestroy
    BY <1>2, <2>1 DEF OnServiceDestroy, QuietCommands
  <2>2. ASSUME NEW command, Deliver(command),
               tunnelUp' => command # "stop",
               tunnelUp' => command = "start" \/ tunnelUp
        PROVE  QuietCommands'
    <3>1. /\ commands' \in Seq(Commands)
          /\ Len(commands) \in Nat \ {0}
          /\ Len(commands') = Len(commands) - 1
          /\ \A i \in 1..Len(commands') : commands'[i] = commands[i + 1]
          /\ commands[1] = command
          /\ \A i \in 1..Len(commands') : commands'[i] # "restart"
      BY <2>2, DeliverTakesFirst
    <3>2. DOMAIN commands = 1..Len(commands) /\ DOMAIN commands' = 1..Len(commands')
      BY <3>1, LenProperties DEF TunnelInv
    <3>3. commands # <<>>
      BY <2>2 DEF Deliver
    <3>4. commands' # <<>> => /\ Len(commands') \in 1..Len(commands')
                              /\ commands'[Len(commands')] = commands[Len(commands)]
      <4>1. commands' # <<>> => Len(commands') \in Nat \ {0}
        BY <3>1, EmptySeq
      <4> QED
        BY <3>1, <4>1
    <3>5. commands' # <<>> => commands'[Len(commands')] # "start"
      BY <1>2, <3>3, <3>4 DEF QuietCommands
    <3>6. ASSUME tunnelUp' PROVE \E i \in DOMAIN commands' : commands'[i] = "stop"
      <4>1. CASE command = "start"
        <5>1. commands' # <<>>
          <6>1. SUFFICES ASSUME commands' = <<>> PROVE FALSE
            OBVIOUS
          <6>2. Len(commands) = 1
            BY <3>1, <6>1
          <6> QED
            BY <1>2, <3>1, <3>3, <4>1, <6>2 DEF QuietCommands
        <5>2. commands'[Len(commands')] \in Commands \ {"start", "restart"}
          BY <3>1, <3>4, <3>5, <5>1, ElementOfSeq
        <5> QED
          BY <3>2, <3>4, <5>1, <5>2 DEF Commands
      <4>2. CASE command # "start"
        <5>1. PICK i \in DOMAIN commands : commands[i] = "stop"
          BY <1>2, <2>2, <3>6, <4>2 DEF QuietCommands
        <5>2. i # 1
          BY <2>2, <3>1, <3>6, <5>1
        <5>3. i - 1 \in 1..Len(commands') /\ commands'[i - 1] = commands[i]
          BY <3>1, <3>2, <5>2
        <5> QED
          BY <3>2, <5>1, <5>3
      <4> QED
        BY <4>1, <4>2
    <3> QED
      BY <3>5, <3>6 DEF QuietCommands
  <2>3. CASE OnStop
    BY <2>2, <2>3 DEF OnStop
  <2>4. CASE OnStartAgain
    BY <2>2, <2>4 DEF OnStartAgain
  <2>5. CASE OnStart
    BY <2>2, <2>5 DEF OnStart
  <2>6. CASE OnRestartCommand
    BY <2>2, <2>6 DEF OnRestartCommand
  <2>7. CASE OnRevoke
    BY <1>2, <2>7 DEF OnRevoke, QuietCommands
  <2> QED
    BY <2>1, <2>3, <2>4, <2>5, <2>6, <2>7 DEF ServiceNext
<1> QED
  BY <1>1, <1>2 DEF QuietInv, stored, ui, form

\* Neither a restart command nor what was posted before the sign-out is a start
\* without a stop behind it.
LEMMA DeathIsQuiet ==
    ASSUME QuietInv, ProcessDies
    PROVE  QuietInv'
<1>1. quiet => QuietCommands'
  <2>1. CASE commands' = commands
    BY <2>1 DEF ProcessDies, QuietInv, QuietCommands
  <2>2. CASE commands' \in {<<>>, <<"restart">>}
    BY <2>2 DEF ProcessDies, QuietCommands
  <2> QED
    BY <2>1, <2>2 DEF ProcessDies
<1> QED
  BY <1>1 DEF ProcessDies, QuietInv, stored

\* Every step but a sign-in keeps the quiet.
LEMMA StepIsQuiet ==
    ASSUME ClientAssumptions, TunnelInv, QuietInv, [Next]_vars
    PROVE  QuietInv'
<1>1. CASE UNCHANGED vars
  BY <1>1 DEF vars, stored, ui, form, system, QuietInv, QuietCommands
<1>2. ASSUME NEW t \in Tasks, ApiNext(t) \/ TaskNext(t) PROVE QuietInv'
  BY <1>2, TaskNotQuiet DEF QuietInv
<1> QED
  BY <1>1, <1>2, ScreenIsQuiet, ServiceIsQuiet, DeathIsQuiet DEF Next

-----------------------------------------------------------------------------
(***************************************************************************)
(* The theorems.                                                           *)
(***************************************************************************)
\* The three together.
ClientInv == ProvisionInv /\ TunnelInv /\ QuietInv

\* The inductive invariant of the Android client.
THEOREM ClientInvariant == Spec => []ClientInv
<1>1. Init => TunnelInv
  <2>1. <<>> \in Seq(Commands) /\ Len(<<>>) = 0
    BY EmptySeq
  <2>2. NoService \in ServiceSet
    BY DEF NoService, ServiceSet
  <2>3. /\ NoService.tunnelActive = FALSE /\ NoService.sticky = FALSE
        /\ NoService.revoked = FALSE /\ NoService.notice = "none"
    BY DEF NoService
  <2>4. Init => RestartIsFirst
    BY <2>1 DEF Init, RestartIsFirst
  <2>5. Init => TunnelShownAsItIs
    BY <2>3, Zenon DEF Init, TunnelShownAsItIs
  <2>6. Init => (service.sticky => MaxCommands >= 1)
    BY <2>3, Zenon DEF Init
  <2>7. 0 <= MaxCommands
    BY ClientAssumptions DEF ClientAssumptions
  <2>8. Init => /\ tunnelUp \in BOOLEAN /\ service \in ServiceSet
                /\ commands \in Seq(Commands) /\ Len(commands) <= MaxCommands
    BY <2>1, <2>2, <2>7 DEF Init
  <2> QED
    BY <2>4, <2>5, <2>6, <2>8, Zenon DEF TunnelInv
<1>2. Init => QuietInv
  BY DEF Init, QuietInv
<1>3. ClientInv /\ [Next]_vars => ClientInv'
  BY ClientAssumptions, StepProvisions, StepShowsTunnel, StepIsQuiet DEF ClientInv
<1> QED
  BY <1>1, <1>2, <1>3, ClientInit, PTL DEF Spec, ClientInv

\* The variables are well typed, and a coroutine that provisions has a key.
THEOREM ClientTypeCorrect == Spec => []ClientTypeOK
<1>1. ClientInv => ClientTypeOK
  <2> SUFFICES ASSUME ClientInv PROVE ClientTypeOK
    OBVIOUS
  <2>1. \A t \in Tasks : TaskFits(tasks[t], identity, registered)
    BY DEF ClientInv, ProvisionInv, TasksFit
  <2>2. \A t \in Tasks : /\ tasks[t].call \in Calls \cup {"idle"}
                         /\ tasks[t].answer \in Answers
                         /\ tasks[t].cancelled \in BOOLEAN
                         /\ tasks[t].call \in WithKey => tasks[t].key \in Keys
    BY <2>1 DEF TaskFits, TaskSet
  <2>3. provisioned \in Keys \cup {NoKey}
    BY DEF ClientInv, ProvisionInv, ConnectMeansRegistered
  <2> QED
    BY <2>2, <2>3
    DEF ClientInv, ProvisionInv, TunnelInv, QuietInv, ClientTypeOK, WithKey, Commands,
        ServiceSet
<1> QED
  BY <1>1, ClientInvariant, PTL

\* An installation has at most one row, that of the key it stores, whatever
\* coroutines run at a time, whatever answers are lost and whenever the process
\* dies.
THEOREM OneDevice == Spec => []OneDevicePerInstallation
<1>1. ClientInv => OneDevicePerInstallation
  BY DEF ClientInv, ProvisionInv, OneDevicePerInstallation
<1> QED
  BY <1>1, ClientInvariant, PTL

\* The connect button is enabled for the stored key only, and only when it has
\* its row.
THEOREM ConnectHasRow == Spec => []ConnectMeansRegistered
<1>1. ClientInv => ConnectMeansRegistered
  BY DEF ClientInv, ProvisionInv
<1> QED
  BY <1>1, ClientInvariant, PTL

\* The notification shows an active VPN, and tunnelActive says so, only over a
\* tunnel that is up or one that the system took away with onDestroy to come.
THEOREM NotificationTrue == Spec => []TunnelShownAsItIs
<1>1. ClientInv => TunnelShownAsItIs
  BY DEF ClientInv, TunnelInv
<1> QED
  BY <1>1, ClientInvariant, PTL

\* Signing out with no coroutine under way is final until the next sign-in.
THEOREM SignOutFinal == Spec => []SignedOutStaysOut
<1>1. ClientInv => SignedOutStaysOut
  BY DEF ClientInv, QuietInv, QuietCommands, SignedOutStaysOut
<1> QED
  BY <1>1, ClientInvariant, PTL
=============================================================================
