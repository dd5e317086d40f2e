-------------------------- MODULE ClientSessions --------------------------
(***************************************************************************)
(* The token pairs of the Android client and the sessions of the API       *)
(* (SessionStore) together: which pair the client holds where, and what    *)
(* the API makes of the tokens it presents.  Client sources:               *)
(* clients/android/app/src/main/java/com/personalvpn/client.               *)
(*                                                                         *)
(* Of the client, AndroidClient has the rest: here the calls that          *)
(* provision the device are one call, and keys, commands and the tunnel    *)
(* are left out.  A pair is named after its family.                        *)
(*                                                                         *)
(* The user is signed in elsewhere, too: other devices log in, rotate      *)
(* their own tokens and log out, which ends all sessions of the user.  The *)
(* client's tokens are known to nobody else.                               *)
(***************************************************************************)
EXTENDS SessionStore

CONSTANTS
    Tasks,          \* coroutines of screenScope: bounds those under way
    User,           \* the account of the client
    NoPair

ASSUME ClientSessionsAssumption == User \in Users /\ NoPair \notin Families

VARIABLES
    screen,         \* a MainActivity exists
    savedPair,      \* the pair in AuthTokenStore
    apiPair,        \* the pair of provisioning's API client; connect is enabled
    tasks,          \* coroutines under way: the call each waits for, the pair
                    \* it presents and, once answered, the pair it was given
    mine,           \* history: the families issued to this client
    interrupted     \* history: a refresh was cancelled, or its result lost

client == <<screen, savedPair, apiPair, tasks>>
allVars == <<vars, client, mine, interrupted>>

Idle == [call |-> "idle", pair |-> NoPair, answer |-> "none", cancelled |-> FALSE]

Waiting(call, pair) ==
    [call |-> call, pair |-> pair, answer |-> "none", cancelled |-> FALSE]

Become(t, task) == tasks' = [tasks EXCEPT ![t] = task]

Launch(task) == \E t \in Tasks : tasks[t] = Idle /\ Become(t, task)

Refreshing == {t \in Tasks : tasks[t].call = "refresh"}

-----------------------------------------------------------------------------
(***************************************************************************)
(* The screen.                                                             *)
(***************************************************************************)
\* onCreate: a saved pair is refreshed.
OnCreate ==
    /\ ~screen
    /\ screen' = TRUE
    /\ IF savedPair = NoPair THEN UNCHANGED tasks
                             ELSE Launch(Waiting("refresh", savedPair))
    /\ UNCHANGED <<savedPair, apiPair, interrupted>>

PressLogin ==
    /\ screen
    /\ Launch(Waiting("login", NoPair))
    /\ UNCHANGED <<screen, savedPair, apiPair, interrupted>>

PressConnect ==
    /\ screen
    /\ apiPair # NoPair
    /\ Launch(Waiting("configure", apiPair))
    /\ UNCHANGED <<screen, savedPair, apiPair, interrupted>>

\* tokenStore.clear(); provisioning = null.  The API is not told.
PressLogout ==
    /\ screen
    /\ savedPair' = NoPair
    /\ apiPair' = NoPair
    /\ UNCHANGED <<screen, tasks, interrupted>>

\* The calls go on.  Of a cancelled coroutine, nothing is left to happen but
\* what ResumeCancelled does after a refresh, and the API's part of a login.
Cancel(task) ==
    IF task.call = "refresh" \/ (task.call = "login" /\ task.answer = "none")
    THEN [task EXCEPT !.cancelled = TRUE]
    ELSE Idle

\* screenScope.cancel()
OnDestroy ==
    /\ screen
    /\ screen' = FALSE
    /\ apiPair' = NoPair
    /\ tasks' = [t \in Tasks |-> Cancel(tasks[t])]
    /\ interrupted' = (interrupted \/ Refreshing # {})
    /\ UNCHANGED savedPair

\* What is stored stays.
ProcessDies ==
    /\ screen' = FALSE
    /\ apiPair' = NoPair
    /\ tasks' = [t \in Tasks |-> Idle]
    /\ interrupted' = (interrupted \/ Refreshing # {})
    /\ UNCHANGED savedPair

ScreenSteps ==
    /\ \/ OnCreate
       \/ PressLogin
       \/ PressConnect
       \/ PressLogout
       \/ OnDestroy
       \/ ProcessDies
    /\ UNCHANGED <<vars, mine>>

-----------------------------------------------------------------------------
(***************************************************************************)
(* A coroutine resumes with its answer.                                    *)
(***************************************************************************)
Answered(t, call, answer) ==
    /\ tasks[t].call = call
    /\ tasks[t].answer = answer
    /\ ~tasks[t].cancelled

\* Mutant: the pair of a refresh is used and not stored.
StoredOfLogin(t) == IF tasks[t].call = "login" THEN tasks[t].pair ELSE savedPair

\* tokenStore.save(tokens)
Stored(t) == tasks[t].pair

\* establishSession: the pair is saved, then the device is provisioned.
EstablishSession(t) ==
    /\ Answered(t, "login", "ok") \/ Answered(t, "refresh", "ok")
    /\ savedPair' = Stored(t)
    /\ Become(t, Waiting("provision", tasks[t].pair))
    /\ UNCHANGED <<screen, apiPair, interrupted>>

\* The pair, or the identity after it, cannot be written.
EstablishFails(t) ==
    /\ Answered(t, "login", "ok") \/ Answered(t, "refresh", "ok")
    /\ savedPair' \in {savedPair, Stored(t)}
    /\ interrupted' = \/ interrupted
                      \/ tasks[t].call = "refresh" /\ savedPair' # Stored(t)
    /\ Become(t, Idle)
    /\ UNCHANGED <<screen, apiPair>>

SessionReady(t) ==
    /\ Answered(t, "provision", "ok")
    /\ apiPair' = tasks[t].pair
    /\ Become(t, Idle)
    /\ UNCHANGED <<screen, savedPair, interrupted>>

\* A refresh that fails, or a configuration denied with 401.
SessionLost(t) ==
    /\ Answered(t, "refresh", "failed") \/ Answered(t, "configure", "denied")
    /\ savedPair' = NoPair
    /\ apiPair' = NoPair
    /\ Become(t, Idle)
    /\ UNCHANGED <<screen, interrupted>>

\* Nothing comes of it for the session: a login or a provisioning that fails,
\* a configuration that is received or not available.
CallEnds(t) ==
    /\ \/ \E call \in {"login", "configure"} : Answered(t, call, "failed")
       \/ Answered(t, "configure", "ok")
       \/ \E answer \in {"denied", "failed"} : Answered(t, "provision", answer)
    /\ Become(t, Idle)
    /\ UNCHANGED <<screen, savedPair, apiPair, interrupted>>

\* runCatching takes the CancellationException for a failure: a cancelled
\* refresh clears the store, whatever another coroutine has saved there.
ResumeCancelled(t) ==
    /\ tasks[t].cancelled
    /\ tasks[t].answer # "none"
    /\ savedPair' = IF tasks[t].call = "refresh" THEN NoPair ELSE savedPair
    /\ Become(t, Idle)
    /\ UNCHANGED <<screen, apiPair, interrupted>>

TaskSteps(t) ==
    /\ \/ EstablishSession(t)
       \/ EstablishFails(t)
       \/ SessionReady(t)
       \/ SessionLost(t)
       \/ CallEnds(t)
       \/ ResumeCancelled(t)
    /\ UNCHANGED <<vars, mine>>

-----------------------------------------------------------------------------
(***************************************************************************)
(* The API serves a call of the client's; the answer may be lost.          *)
(***************************************************************************)
Unanswered(t, call) == tasks[t].call = call /\ tasks[t].answer = "none"

Answer(t, answer) == tasks' = [tasks EXCEPT ![t].answer = answer]

\* A pair was issued to the client, which may never learn of it.
AnswerWith(t, f) ==
    /\ \/ /\ tasks' = [tasks EXCEPT ![t].answer = "ok", ![t].pair = f]
          /\ UNCHANGED interrupted
       \/ /\ Answer(t, "failed")
          /\ interrupted' = (interrupted \/ tasks[t].call = "refresh")
    /\ mine' = mine \cup {f}

\* The credentials have been verified.
ServeLogin(t, f) ==
    /\ Unanswered(t, "login")
    /\ Issue(User, f)
    /\ AnswerWith(t, f)

ServeRefresh(t, f) ==
    /\ Unanswered(t, "refresh")
    /\ RotateValid(<<tasks[t].pair, "refresh">>, f)
    /\ AnswerWith(t, f)

\* An expired or consumed token, or one the API does not know.
RefuseRefresh(t) ==
    LET token == <<tasks[t].pair, "refresh">> IN
    /\ Unanswered(t, "refresh")
    /\ \/ RotateInvalid(token)
       \/ RotateConsumed(token)
       \/ token \notin DOMAIN consumed \cup DOMAIN sessions /\ UNCHANGED vars
    /\ Answer(t, "failed")
    /\ UNCHANGED <<mine, interrupted>>

\* A call with an access token is authenticated, and may fail after that.
ServeAccess(t) ==
    /\ \E call \in {"provision", "configure"} : Unanswered(t, call)
    /\ IF Valid(<<tasks[t].pair, "access">>, "access")
       THEN \E answer \in {"ok", "failed"} : Answer(t, answer)
       ELSE Answer(t, "denied")
    /\ UNCHANGED <<vars, mine, interrupted>>

\* A request that never arrives, or a login that is refused.
CallLost(t) ==
    /\ tasks[t] # Idle
    /\ tasks[t].answer = "none"
    /\ Answer(t, "failed")
    /\ UNCHANGED <<vars, mine, interrupted>>

CallSteps(t) ==
    /\ \/ \E f \in Families : ServeLogin(t, f) \/ ServeRefresh(t, f)
       \/ RefuseRefresh(t)
       \/ ServeAccess(t)
       \/ CallLost(t)
    /\ UNCHANGED <<screen, savedPair, apiPair>>

-----------------------------------------------------------------------------
(***************************************************************************)
(* Everybody else, time, and the API's own restarts.                       *)
(***************************************************************************)
Elsewhere ==
    /\ \/ \E u \in Users :
             \/ VerifyCredentials(u)
             \/ \E f \in Families : Issue(u, f)
             \/ RevokeUser(u)
             \/ OperatorDisables(u)
       \/ \E t \in Tokens :
             \/ t[1] \notin mine /\ (RotateRefresh(t) \/ AuthenticateLogout(t))
             \/ Expire(t)
       \/ Restart
    /\ UNCHANGED <<client, mine, interrupted>>

ClientSessionsInit ==
    /\ Init
    /\ screen = FALSE
    /\ savedPair = NoPair
    /\ apiPair = NoPair
    /\ tasks = [t \in Tasks |-> Idle]
    /\ mine = {}
    /\ interrupted = FALSE

ClientSessionsNext ==
    \/ ScreenSteps
    \/ \E t \in Tasks : TaskSteps(t) \/ CallSteps(t)
    \/ Elsewhere

ClientSessionsSpec == ClientSessionsInit /\ [][ClientSessionsNext]_allVars

-----------------------------------------------------------------------------
(***************************************************************************)
(* Properties.                                                             *)
(***************************************************************************)
\* As long as no refresh was cancelled or lost, the pair the client will
\* restore its session from is the newest of its login: its refresh token was
\* not consumed, and no other family of that login is live.
SavedPairIsLatest ==
    savedPair # NoPair /\ Refreshing = {} /\ ~interrupted =>
        /\ <<savedPair, "refresh">> \notin DOMAIN consumed
        /\ \A f \in DOMAIN families : login[f] = login[savedPair] => f = savedPair

\* A client that had no refresh cancelled or lost never ends the sessions the
\* user has on other devices: only then may the API take a token of its own
\* for a stolen one.
OtherDevicesKeepSessions ==
    [][tasks' # tasks =>
          \/ interrupted
          \/ \A t \in DOMAIN sessions : t[1] \notin mine => t \in DOMAIN sessions']_allVars
=============================================================================
