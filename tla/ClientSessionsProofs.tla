----------------------- MODULE ClientSessionsProofs -----------------------
(***************************************************************************)
(* Proofs about ClientSessions, for any users, any number of pairs and any *)
(* number of coroutines: the client is one more caller of the session      *)
(* store, so that all that is proved of SessionStore holds; and, unless a  *)
(* refresh is cancelled or its answer lost, the pair it has saved is the   *)
(* latest of its login.                                                    *)
(***************************************************************************)
EXTENDS ClientSessions, SessionStoreProofs

\* A step of the client is a critical section of the session store or leaves
\* the sessions alone.  (A token that is in a table is one of Tokens.)
LEMMA ClientStepIsSessionStep ==
    ASSUME SessionTypeOK, [ClientSessionsNext]_allVars
    PROVE  [Next]_vars
<1>1. ASSUME NEW t \in Tasks, NEW f \in Families, ServeLogin(t, f)
      PROVE  Next
  BY <1>1, ClientSessionsAssumption DEF ServeLogin, Next
<1>2. ASSUME NEW t \in Tasks, NEW f \in Families, ServeRefresh(t, f)
      PROVE  Next
  <2> DEFINE token == <<tasks[t].pair, "refresh">>
  <2>1. RotateValid(token, f)
    BY <1>2 DEF ServeRefresh
  <2>2. token \in Tokens
    BY <2>1 DEF RotateValid, Valid, SessionTypeOK
  <2> QED
    BY <2>1, <2>2 DEF Next, RotateRefresh
<1>3. ASSUME NEW t \in Tasks, RefuseRefresh(t)
      PROVE  [Next]_vars
  <2> DEFINE token == <<tasks[t].pair, "refresh">>
  <2>1. CASE RotateInvalid(token) \/ RotateConsumed(token)
    <3>1. token \in Tokens
      BY <2>1 DEF RotateInvalid, RotateConsumed, SessionTypeOK
    <3> QED
      BY <2>1, <3>1 DEF Next, RotateRefresh
  <2> QED
    BY <1>3, <2>1 DEF RefuseRefresh
<1>4. ASSUME Elsewhere
      PROVE  Next
  BY <1>4 DEF Elsewhere, Next
<1>5. ASSUME UNCHANGED vars
      PROVE  [Next]_vars
  BY <1>5
<1>6. CASE UNCHANGED allVars
  BY <1>6 DEF allVars
<1> QED
  BY <1>1, <1>2, <1>3, <1>4, <1>6
  DEF ClientSessionsNext, ScreenSteps, TaskSteps, CallSteps, ServeAccess, CallLost

LEMMA ClientKeepsSessionInv ==
    ASSUME SessionInv, [ClientSessionsNext]_allVars
    PROVE  SessionInv' /\ [Next]_vars
BY ClientStepIsSessionStep, SessionStepKeepsInv DEF SessionInv

\* ClientSessions implements SessionStore.
THEOREM ClientsAreSessions == ClientSessionsSpec => Spec
<1>1. ClientSessionsInit => Init /\ SessionInv
  BY DEF ClientSessionsInit, Init, Empty, SessionInv, SessionTypeOK,
         IndexConsistent, IdsAreUsed, OneFamilyPerLogin
<1>2. SessionInv /\ [ClientSessionsNext]_allVars => SessionInv' /\ [Next]_vars
  BY ClientKeepsSessionInv
<1> QED
  BY <1>1, <1>2, PTL DEF ClientSessionsSpec, Spec

\* The properties of the session store survive a client that retries, is
\* re-created and killed.
THEOREM ClientKeepsSessions ==
    ClientSessionsSpec => /\ [](SessionTypeOK /\ IndexConsistent /\ OneFamilyPerLogin)
                          /\ RevocationIsComplete
BY ClientsAreSessions, SessionTypeCorrect, IndexAlwaysConsistent,
   RotationSupersedes, RevocationLeavesNothing, PTL

-----------------------------------------------------------------------------
(***************************************************************************)
(* The latest pair of a login.                                             *)
(***************************************************************************)
\* Tokens are named after their family.
NamedAfterFamily == \A t \in DOMAIN sessions : sessions[t].family = t[1]

\* The refresh token of p was not used, and p is the only live family there
\* may be of its login.
Latest(p) ==
    /\ <<p, "refresh">> \notin DOMAIN consumed
    /\ \A f \in DOMAIN families : login[f] = login[p] => f = p

LEMMA IssuingNames ==
    ASSUME SessionInv, NamedAfterFamily, NEW u, NEW f, NEW fs \in SUBSET Families,
           IssuePair(u, f, SessionsWithout(fs), FamiliesWithout(fs))
    PROVE  NamedAfterFamily'
<1>1. \A t \in DOMAIN SessionsWithout(fs) :
         t \in DOMAIN sessions /\ SessionsWithout(fs)[t] = sessions[t]
  BY RevocationShrinks
<1> QED
  BY <1>1 DEF NamedAfterFamily, IssuePair

LEMMA RevokingNames ==
    ASSUME SessionInv, NamedAfterFamily, NEW fs \in SUBSET Families,
           sessions' = SessionsWithout(fs)
    PROVE  NamedAfterFamily'
BY RevocationShrinks DEF NamedAfterFamily

\* What each critical section does to families and consumed: it issues a pair
\* of a new login, or rotates one, or revokes.
SessionChange ==
    \/ \E u \in Users, f \in Families :
          /\ IssuePair(u, f, sessions, families)
          /\ StartChain(f, f)
          /\ consumed' = consumed
    \/ \E t \in Tokens, f \in Families : RotateValid(t, f)
    \/ \E fs \in SUBSET Families :
          /\ sessions' = SessionsWithout(fs)
          /\ families' = FamiliesWithout(fs)
          /\ UNCHANGED <<consumed, login>>
    \/ /\ DOMAIN families' = {} /\ DOMAIN consumed' = {} /\ DOMAIN sessions' = {}
       /\ login' = login
    \/ /\ UNCHANGED <<families, consumed, login>>
       /\ DOMAIN sessions' = DOMAIN sessions
       /\ \A t \in DOMAIN sessions : sessions'[t].family = sessions[t].family

LEMMA SessionChanges ==
    ASSUME SessionInv, [Next]_vars
    PROVE  SessionChange
<1>1. ASSUME NEW u \in Users, NEW f \in Families, Issue(u, f)
      PROVE  SessionChange
  BY <1>1 DEF Issue, SessionChange
<1>2. ASSUME NEW t \in Tokens, RotateInvalid(t)
      PROVE  SessionChange
  <2>1. {sessions[t].family} \in SUBSET Families
    BY <1>2 DEF RotateInvalid, SessionInv, SessionTypeOK, Session
  <2> QED
    BY <1>2, <2>1 DEF RotateInvalid, SessionChange
<1>3. ASSUME NEW u, sessions' = SessionsWithout(FamiliesOf(u)),
             families' = FamiliesWithout(FamiliesOf(u)), UNCHANGED <<consumed, login>>
      PROVE  SessionChange
  <2>1. FamiliesOf(u) \in SUBSET Families
    BY DEF FamiliesOf, SessionInv, SessionTypeOK
  <2> QED
    BY <1>3, <2>1 DEF SessionChange
<1>4. ASSUME NEW t \in Tokens, Expire(t)
      PROVE  SessionChange
  <2>1. \A s \in DOMAIN sessions : sessions[s] \in Session
    BY DEF SessionInv, SessionTypeOK
  <2> QED
    BY <1>4, <2>1 DEF Expire, Session, SessionChange
<1>5. CASE Restart
  BY <1>5 DEF Restart, Empty, SessionChange
<1>6. ASSUME UNCHANGED <<sessions, families, consumed, login>>
      PROVE  SessionChange
  BY <1>6 DEF SessionChange
<1>7. ASSUME NEW t \in Tokens, RotateRefresh(t)
      PROVE  SessionChange
  <2>1. CASE \E f \in Families : RotateValid(t, f)
    BY <2>1 DEF SessionChange
  <2>2. CASE RotateConsumed(t)
    BY <1>3, <2>2 DEF RotateConsumed
  <2> QED
    BY <1>2, <1>7, <2>1, <2>2 DEF RotateRefresh
<1>8. ASSUME NEW u \in Users, RevokeUser(u)
      PROVE  SessionChange
  BY <1>3, <1>8 DEF RevokeUser
<1>9. ASSUME NEW t \in Tokens, AuthenticateLogout(t)
      PROVE  SessionChange
  BY <1>6, <1>9 DEF AuthenticateLogout
<1>10. ASSUME NEW u \in Users, VerifyCredentials(u) \/ OperatorDisables(u)
       PROVE  SessionChange
  BY <1>6, <1>10 DEF VerifyCredentials, OperatorDisables
<1>11. CASE UNCHANGED vars
  BY <1>6, <1>11 DEF vars
<1> QED
  BY <1>1, <1>4, <1>5, <1>7, <1>8, <1>9, <1>10, <1>11 DEF Next

LEMMA NothingRevoked ==
    ASSUME SessionInv
    PROVE  SessionsWithout({}) = sessions /\ FamiliesWithout({}) = families
BY DEF SessionsWithout, FamiliesWithout, Restricted, SessionInv, SessionTypeOK

LEMMA NamesKept ==
    ASSUME SessionInv, NamedAfterFamily, [Next]_vars
    PROVE  NamedAfterFamily'
<1>1. ASSUME NEW u \in Users, NEW f \in Families, IssuePair(u, f, sessions, families)
      PROVE  NamedAfterFamily'
  BY <1>1, NothingRevoked, IssuingNames
<1>2. ASSUME NEW t \in Tokens, NEW f \in Families, RotateValid(t, f)
      PROVE  NamedAfterFamily'
  <2>1. {sessions[t].family} \in SUBSET Families
    BY <1>2 DEF RotateValid, Valid, SessionInv, SessionTypeOK, Session
  <2> QED
    BY <1>2, <2>1, IssuingNames DEF RotateValid
<1>3. ASSUME DOMAIN sessions' = {}
      PROVE  NamedAfterFamily'
  BY <1>3 DEF NamedAfterFamily
<1>4. ASSUME DOMAIN sessions' = DOMAIN sessions,
             \A t \in DOMAIN sessions : sessions'[t].family = sessions[t].family
      PROVE  NamedAfterFamily'
  BY <1>4 DEF NamedAfterFamily
<1> QED
  BY <1>1, <1>2, <1>3, <1>4, SessionChanges, RevokingNames DEF SessionChange

\* What a rotation of t writes: the family of t is the one it is named after.
LEMMA RotationWrites ==
    ASSUME SessionInv, NamedAfterFamily, NEW t \in Tokens, NEW f \in Families,
           RotateValid(t, f)
    PROVE  /\ t[1] \in DOMAIN families /\ t[1] \in DOMAIN login
           /\ f \notin DOMAIN login
           /\ DOMAIN families' = (DOMAIN families \ {t[1]}) \cup {f}
           /\ DOMAIN consumed' = DOMAIN consumed \cup {t}
           /\ DOMAIN login' = DOMAIN login \cup {f}
           /\ login'[f] = login[t[1]]
           /\ \A g \in DOMAIN login : login'[g] = login[g]
           /\ DOMAIN sessions' = {s \in DOMAIN sessions : s[1] # t[1]}
                                     \cup ({f} \X Kinds)
<1>1. /\ t \in DOMAIN sessions
      /\ sessions[t].family = t[1]
      /\ t[1] \in DOMAIN families /\ t[1] \in DOMAIN login
  BY DEF RotateValid, Valid, NamedAfterFamily, SessionInv, IndexConsistent, IdsAreUsed
<1>2. {t[1]} \in SUBSET Families
  BY <1>1 DEF SessionInv, SessionTypeOK
<1>3. /\ DOMAIN FamiliesWithout({t[1]}) = DOMAIN families \ {t[1]}
      /\ DOMAIN SessionsWithout({t[1]}) = {s \in DOMAIN sessions : s[1] # t[1]}
  BY <1>2, RevocationShrinks DEF NamedAfterFamily
<1>4. /\ IssuePair(sessions[t].user, f, SessionsWithout({t[1]}), FamiliesWithout({t[1]}))
      /\ StartChain(f, login[t[1]])
      /\ Consume(t)
  BY <1>1 DEF RotateValid
<1>5. f \notin DOMAIN login
  BY <1>4 DEF IssuePair
<1>6. /\ DOMAIN families' = (DOMAIN families \ {t[1]}) \cup {f}
      /\ DOMAIN sessions' = {s \in DOMAIN sessions : s[1] # t[1]} \cup ({f} \X Kinds)
  BY <1>3, <1>4 DEF IssuePair
<1>7. /\ DOMAIN login' = DOMAIN login \cup {f} /\ login'[f] = login[t[1]]
      /\ \A g \in DOMAIN login : login'[g] = login[g]
  BY <1>4, <1>5 DEF StartChain
<1>8. DOMAIN consumed' = DOMAIN consumed \cup {t}
  BY <1>4 DEF Consume
<1> QED
  BY <1>1, <1>5, <1>6, <1>7, <1>8

\* A pair that is not rotated stays the latest; ids stay taken.
LEMMA LatestKept ==
    ASSUME SessionInv, NamedAfterFamily, NEW p \in DOMAIN login, [Next]_vars,
           \A t \in Tokens, f \in Families : RotateValid(t, f) => t[1] # p
    PROVE  /\ p \in DOMAIN login'
           /\ <<p, "refresh">> \notin DOMAIN consumed =>
                  <<p, "refresh">> \notin DOMAIN consumed'
           /\ Latest(p) => Latest(p)'
<1>0. DOMAIN families \subseteq DOMAIN login
  BY DEF SessionInv, IdsAreUsed
<1>1. ASSUME NEW u \in Users, NEW f \in Families,
             IssuePair(u, f, sessions, families), StartChain(f, f), consumed' = consumed
      PROVE  /\ p \in DOMAIN login'
             /\ <<p, "refresh">> \notin DOMAIN consumed =>
                    <<p, "refresh">> \notin DOMAIN consumed'
             /\ Latest(p) => Latest(p)'
  <2>1. /\ DOMAIN families' = DOMAIN families \cup {f} /\ f \notin DOMAIN login
        /\ DOMAIN login' = DOMAIN login \cup {f} /\ login'[f] = f
        /\ \A g \in DOMAIN login : login'[g] = login[g]
    BY <1>1 DEF IssuePair, StartChain
  <2>2. login[p] \in DOMAIN login
    BY DEF SessionInv, SessionTypeOK
  <2> QED
    BY <1>0, <1>1, <2>1, <2>2 DEF Latest
<1>2. ASSUME NEW t \in Tokens, NEW f \in Families, RotateValid(t, f)
      PROVE  /\ p \in DOMAIN login'
             /\ <<p, "refresh">> \notin DOMAIN consumed =>
                    <<p, "refresh">> \notin DOMAIN consumed'
             /\ Latest(p) => Latest(p)'
  <2>1. t[1] # p /\ t # <<p, "refresh">>
    BY <1>2
  <2>2. /\ t[1] \in DOMAIN families
        /\ DOMAIN families' = (DOMAIN families \ {t[1]}) \cup {f}
        /\ DOMAIN consumed' = DOMAIN consumed \cup {t}
        /\ DOMAIN login' = DOMAIN login \cup {f}
        /\ login'[f] = login[t[1]]
        /\ \A g \in DOMAIN login : login'[g] = login[g]
    BY <1>2, RotationWrites
  <2> QED
    BY <1>0, <2>1, <2>2 DEF Latest
<1>3. ASSUME NEW fs \in SUBSET Families, families' = FamiliesWithout(fs),
             UNCHANGED <<consumed, login>>
      PROVE  Latest(p) => Latest(p)'
  BY <1>3, RevocationShrinks DEF Latest
<1> QED
  BY <1>1, <1>2, <1>3, SessionChanges DEF SessionChange, Latest

\* A pair just issued is the latest of its login, and new.
LEMMA IssuedIsLatest ==
    ASSUME SessionInv, SessionInv', NamedAfterFamily, NEW f \in Families,
           \/ \E u \in Users : Issue(u, f)
           \/ \E t \in Tokens : RotateValid(t, f)
    PROVE  f \notin DOMAIN login /\ f \in DOMAIN login' /\ Latest(f)'
<1>1. f \notin DOMAIN login /\ <<f, "refresh">> \notin DOMAIN consumed
  BY DEF Issue, RotateValid, IssuePair, SessionInv, IdsAreUsed
<1>2. f \in DOMAIN families' /\ f \in DOMAIN login'
  BY DEF Issue, RotateValid, IssuePair, StartChain
<1>3. <<f, "refresh">> \notin DOMAIN consumed'
  <2>1. CASE \E u \in Users : Issue(u, f)
    BY <1>1, <2>1 DEF Issue
  <2>2. ASSUME NEW t \in Tokens, RotateValid(t, f)
        PROVE  <<f, "refresh">> \notin DOMAIN consumed'
    <3>1. t[1] \in DOMAIN login /\ DOMAIN consumed' = DOMAIN consumed \cup {t}
      BY <2>2, RotationWrites
    <3>2. t # <<f, "refresh">>
      BY <1>1, <3>1
    <3> QED
      BY <1>1, <3>1, <3>2
  <2> QED
    BY <2>1, <2>2
<1>4. \A g \in DOMAIN families' : login'[g] = login'[f] => g = f
  BY <1>2 DEF SessionInv, OneFamilyPerLogin
<1> QED
  BY <1>1, <1>2, <1>3, <1>4 DEF Latest

-----------------------------------------------------------------------------
(***************************************************************************)
(* The client: what its coroutines hold.                                   *)
(***************************************************************************)
Task == [call : {"idle", "login", "refresh", "provision", "configure"},
         pair : Families \cup {NoPair},
         answer : {"none", "ok", "failed", "denied"},
         cancelled : BOOLEAN]

\* A coroutine that holds a pair not saved yet.
Given(t) == tasks[t].call \in {"login", "refresh"} /\ tasks[t].answer = "ok"

\* Every pair the client has anywhere was issued to it.
ClientTyped ==
    /\ screen \in BOOLEAN /\ interrupted \in BOOLEAN
    /\ mine \subseteq DOMAIN login
    /\ {savedPair, apiPair} \subseteq mine \cup {NoPair}
    /\ tasks \in [Tasks -> Task]
    /\ \A t \in Tasks :
          /\ tasks[t].pair \in mine \cup {NoPair}
          /\ tasks[t].call \in {"refresh", "provision", "configure"} =>
                tasks[t].pair \in mine
          /\ Given(t) => tasks[t].pair \in mine

\* A task of the new state is idle, waits with a pair of the client, or is an
\* old one whose pair and call are the same.
LEMMA TypedStep ==
    ASSUME ClientTyped, mine \subseteq Families,
           screen' \in BOOLEAN, interrupted' \in BOOLEAN,
           UNCHANGED <<login, mine>>,
           {savedPair', apiPair'} \subseteq mine \cup {NoPair},
           tasks' = [t \in Tasks |-> tasks'[t]],
           \A t \in Tasks :
              \/ tasks'[t] = Idle
              \/ tasks'[t] = Waiting("login", NoPair)
              \/ \E p \in mine, call \in {"refresh", "provision", "configure"} :
                    tasks'[t] = Waiting(call, p)
              \/ tasks'[t] \in {tasks[t], [tasks[t] EXCEPT !.cancelled = TRUE],
                                [tasks[t] EXCEPT !.answer = "failed"],
                                [tasks[t] EXCEPT !.answer = "denied"]}
              \/ tasks[t].call # "login" /\ tasks'[t] = [tasks[t] EXCEPT !.answer = "ok"]
    PROVE  ClientTyped'
<1>1. ASSUME NEW t \in Tasks
      PROVE  /\ tasks'[t] \in Task
             /\ tasks'[t].pair \in mine \cup {NoPair}
             /\ tasks'[t].call \in {"refresh", "provision", "configure"} =>
                   tasks'[t].pair \in mine
             /\ Given(t)' => tasks'[t].pair \in mine
  <2>1. tasks[t] \in Task
    BY DEF ClientTyped
  <2>2. CASE tasks'[t] = Idle
    BY <2>2 DEF Idle, Task, Given
  <2>3. CASE tasks'[t] = Waiting("login", NoPair)
    BY <2>3 DEF Waiting, Task, Given
  <2>4. CASE \E p \in mine, call \in {"refresh", "provision", "configure"} :
                tasks'[t] = Waiting(call, p)
    BY <2>4 DEF Waiting, Task, Given
  <2>5. CASE tasks'[t] \in {tasks[t], [tasks[t] EXCEPT !.cancelled = TRUE],
                            [tasks[t] EXCEPT !.answer = "failed"],
                            [tasks[t] EXCEPT !.answer = "denied"]}
    BY <2>1, <2>5 DEF ClientTyped, Task, Given
  <2>6. CASE tasks[t].call # "login" /\ tasks'[t] = [tasks[t] EXCEPT !.answer = "ok"]
    BY <2>1, <2>6 DEF ClientTyped, Task, Given
  <2> QED
    BY <2>2, <2>3, <2>4, <2>5, <2>6
<1>2. tasks' \in [Tasks -> Task]
  BY <1>1
<1> QED
  BY <1>1, <1>2 DEF ClientTyped

\* The screen and a coroutine that resumes use pairs the client has.
LEMMA ScreenTyped ==
    ASSUME SessionInv, ClientTyped, ScreenSteps
    PROVE  ClientTyped'
<1>1. mine \subseteq Families /\ tasks = [t \in Tasks |-> tasks[t]]
      /\ UNCHANGED <<login, mine>>
  BY DEF ClientTyped, SessionInv, SessionTypeOK, ScreenSteps, vars
<1>2. savedPair \in mine \cup {NoPair} /\ apiPair \in mine \cup {NoPair}
      /\ screen \in BOOLEAN /\ interrupted \in BOOLEAN
  BY DEF ClientTyped
<1>3. CASE OnCreate
  <2>1. CASE savedPair = NoPair
    BY <1>1, <1>2, <1>3, <2>1, TypedStep DEF OnCreate
  <2>2. CASE savedPair # NoPair
    <3>1. PICK t \in Tasks : tasks' = [tasks EXCEPT ![t] = Waiting("refresh", savedPair)]
      BY <1>3, <2>2 DEF OnCreate, Launch, Become
    <3>2. /\ tasks' = [x \in Tasks |-> tasks'[x]]
          /\ \A x \in Tasks : tasks'[x] = tasks[x]
                              \/ tasks'[x] = Waiting("refresh", savedPair)
      BY <1>1, <3>1
    <3> QED
      BY <1>1, <1>2, <1>3, <2>2, <3>2, TypedStep DEF OnCreate
  <2> QED
    BY <2>1, <2>2
<1>4. CASE PressLogin
  <2>1. PICK t \in Tasks : tasks' = [tasks EXCEPT ![t] = Waiting("login", NoPair)]
    BY <1>4 DEF PressLogin, Launch, Become
  <2>2. /\ tasks' = [x \in Tasks |-> tasks'[x]]
        /\ \A x \in Tasks : tasks'[x] = tasks[x] \/ tasks'[x] = Waiting("login", NoPair)
    BY <1>1, <2>1
  <2> QED
    BY <1>1, <1>2, <1>4, <2>2, TypedStep DEF PressLogin
<1>5. CASE PressConnect
  <2>1. PICK t \in Tasks : tasks' = [tasks EXCEPT ![t] = Waiting("configure", apiPair)]
    BY <1>5 DEF PressConnect, Launch, Become
  <2>2. /\ tasks' = [x \in Tasks |-> tasks'[x]]
        /\ \A x \in Tasks : tasks'[x] = tasks[x] \/ tasks'[x] = Waiting("configure", apiPair)
    BY <1>1, <2>1
  <2>3. apiPair \in mine
    BY <1>2, <1>5 DEF PressConnect
  <2> QED
    BY <1>1, <1>2, <1>5, <2>2, <2>3, TypedStep DEF PressConnect
<1>6. CASE PressLogout
  BY <1>1, <1>2, <1>6, TypedStep DEF PressLogout
<1>7. CASE OnDestroy
  <2>1. /\ tasks' = [x \in Tasks |-> tasks'[x]]
        /\ \A x \in Tasks : tasks'[x] \in {Idle, [tasks[x] EXCEPT !.cancelled = TRUE]}
    BY <1>7 DEF OnDestroy, Cancel
  <2> QED
    BY <1>1, <1>2, <1>7, <2>1, TypedStep DEF OnDestroy
<1>8. CASE ProcessDies
  <2>1. /\ tasks' = [x \in Tasks |-> tasks'[x]]
        /\ \A x \in Tasks : tasks'[x] = Idle
    BY <1>8 DEF ProcessDies
  <2> QED
    BY <1>1, <1>2, <1>8, <2>1, TypedStep DEF ProcessDies
<1> QED
  BY <1>3, <1>4, <1>5, <1>6, <1>7, <1>8 DEF ScreenSteps

LEMMA TaskTyped ==
    ASSUME SessionInv, ClientTyped, NEW t \in Tasks, TaskSteps(t)
    PROVE  ClientTyped'
<1>1. mine \subseteq Families /\ tasks = [x \in Tasks |-> tasks[x]]
      /\ UNCHANGED <<login, mine>>
  BY DEF ClientTyped, SessionInv, SessionTypeOK, TaskSteps, vars
<1>2. savedPair \in mine \cup {NoPair} /\ apiPair \in mine \cup {NoPair}
      /\ screen \in BOOLEAN /\ interrupted \in BOOLEAN
      /\ tasks[t].pair \in mine \cup {NoPair}
  BY DEF ClientTyped
<1>3. ASSUME Become(t, Idle)
      PROVE  /\ tasks' = [x \in Tasks |-> tasks'[x]]
             /\ \A x \in Tasks : tasks'[x] = tasks[x] \/ tasks'[x] = Idle
  BY <1>1, <1>3 DEF Become
<1>4. CASE EstablishSession(t)
  <2>1. tasks[t].pair \in mine
    BY <1>4 DEF EstablishSession, Answered, ClientTyped, Given
  <2>2. /\ tasks' = [x \in Tasks |-> tasks'[x]]
        /\ \A x \in Tasks : tasks'[x] = tasks[x]
                            \/ tasks'[x] = Waiting("provision", tasks[t].pair)
    BY <1>1, <1>4 DEF EstablishSession, Become
  <2> QED
    BY <1>1, <1>2, <1>4, <2>1, <2>2, TypedStep DEF EstablishSession, Stored
<1>5. CASE EstablishFails(t)
  <2>1. interrupted' \in BOOLEAN
    BY <1>5 DEF EstablishFails
  <2> QED
    BY <1>1, <1>2, <1>3, <1>5, <2>1, TypedStep DEF EstablishFails, Stored
<1>6. CASE SessionReady(t)
  BY <1>1, <1>2, <1>3, <1>6, TypedStep DEF SessionReady
<1>7. CASE SessionLost(t)
  BY <1>1, <1>2, <1>3, <1>7, TypedStep DEF SessionLost
<1>8. CASE CallEnds(t)
  BY <1>1, <1>2, <1>3, <1>8, TypedStep DEF CallEnds
<1>9. CASE ResumeCancelled(t)
  BY <1>1, <1>2, <1>3, <1>9, TypedStep DEF ResumeCancelled
<1> QED
  BY <1>4, <1>5, <1>6, <1>7, <1>8, <1>9 DEF TaskSteps

\* The ids of the client stay taken: login only grows.
LEMMA IdsStayTaken ==
    ASSUME SessionInv, NamedAfterFamily, [Next]_vars
    PROVE  DOMAIN login \subseteq DOMAIN login'
<1>1. ASSUME NEW t \in Tokens, NEW f \in Families, RotateValid(t, f)
      PROVE  DOMAIN login \subseteq DOMAIN login'
  BY <1>1, RotationWrites
<1>2. ASSUME NEW f \in Families, StartChain(f, f)
      PROVE  DOMAIN login \subseteq DOMAIN login'
  BY <1>2 DEF StartChain
<1> QED
  BY <1>1, <1>2, SessionChanges DEF SessionChange

\* A pair that is issued to the client becomes one of its own.
LEMMA AnswerTyped ==
    ASSUME SessionInv, ClientTyped, DOMAIN login \subseteq DOMAIN login',
           NEW t \in Tasks, NEW f \in Families, f \in DOMAIN login', AnswerWith(t, f),
           UNCHANGED <<screen, savedPair, apiPair>>
    PROVE  ClientTyped'
<1>1. /\ mine' = mine \cup {f} /\ interrupted' \in BOOLEAN
      /\ mine' \subseteq DOMAIN login'
  BY DEF AnswerWith, Answer, ClientTyped
<1>2. tasks \in [Tasks -> Task] /\ tasks[t] \in Task
  BY DEF ClientTyped
<1>3. \/ tasks' = [tasks EXCEPT ![t] = [tasks[t] EXCEPT !.answer = "ok", !.pair = f]]
      \/ tasks' = [tasks EXCEPT ![t] = [tasks[t] EXCEPT !.answer = "failed"]]
  BY <1>2 DEF AnswerWith, Answer
<1>4. tasks' \in [Tasks -> Task]
  <2>1. /\ [tasks[t] EXCEPT !.answer = "ok", !.pair = f] \in Task
        /\ [tasks[t] EXCEPT !.answer = "failed"] \in Task
    BY <1>2 DEF Task
  <2> QED
    BY <1>2, <1>3, <2>1
<1>5. ASSUME NEW x \in Tasks
      PROVE  /\ tasks'[x].pair \in mine' \cup {NoPair}
             /\ tasks'[x].call \in {"refresh", "provision", "configure"} =>
                   tasks'[x].pair \in mine'
             /\ Given(x)' => tasks'[x].pair \in mine'
  <2>1. CASE x # t
    <3>1. tasks'[x] = tasks[x]
      BY <1>2, <1>3, <2>1
    <3> QED
      BY <1>1, <3>1 DEF ClientTyped, Given
  <2>2. CASE x = t
    <3>1. \/ tasks'[t] = [tasks[t] EXCEPT !.answer = "ok", !.pair = f]
          \/ tasks'[t] = [tasks[t] EXCEPT !.answer = "failed"]
      BY <1>2, <1>3
    <3>2. \/ tasks'[t].pair = f
          \/ /\ tasks'[t].pair = tasks[t].pair /\ tasks'[t].call = tasks[t].call
             /\ tasks'[t].answer = "failed"
      BY <1>2, <3>1 DEF Task
    <3> QED
      BY <1>1, <2>2, <3>2 DEF ClientTyped, Given
  <2> QED
    BY <2>1, <2>2
<1> QED
  BY <1>1, <1>4, <1>5 DEF ClientTyped

LEMMA CallTyped ==
    ASSUME SessionInv, NamedAfterFamily, ClientTyped, NEW t \in Tasks, CallSteps(t),
           [Next]_vars
    PROVE  ClientTyped'
<1>1. mine \subseteq Families /\ tasks = [x \in Tasks |-> tasks[x]]
      /\ UNCHANGED <<screen, savedPair, apiPair>>
      /\ DOMAIN login \subseteq DOMAIN login'
  BY IdsStayTaken DEF ClientTyped, SessionInv, SessionTypeOK, CallSteps
<1>2. savedPair \in mine \cup {NoPair} /\ apiPair \in mine \cup {NoPair}
      /\ screen \in BOOLEAN /\ interrupted \in BOOLEAN
  BY DEF ClientTyped
<1>3. ASSUME NEW f \in Families, ServeLogin(t, f)
      PROVE  ClientTyped'
  <2>1. f \in DOMAIN login' /\ AnswerWith(t, f)
    BY <1>3 DEF ServeLogin, Issue, StartChain
  <2> QED
    BY <1>1, <2>1, AnswerTyped
<1>4. ASSUME NEW f \in Families, ServeRefresh(t, f)
      PROVE  ClientTyped'
  <2>1. f \in DOMAIN login' /\ AnswerWith(t, f)
    BY <1>4 DEF ServeRefresh, RotateValid, StartChain
  <2> QED
    BY <1>1, <2>1, AnswerTyped
<1>5. ASSUME NEW answer, Answer(t, answer), UNCHANGED <<login, mine, interrupted>>,
             \/ answer \in {"failed", "denied"}
             \/ answer = "ok" /\ tasks[t].call # "login"
      PROVE  ClientTyped'
  <2>1. /\ tasks' = [x \in Tasks |-> tasks'[x]]
        /\ \A x \in Tasks \ {t} : tasks'[x] = tasks[x]
        /\ tasks'[t] = [tasks[t] EXCEPT !.answer = answer]
    BY <1>1, <1>5 DEF Answer
  <2> QED
    BY <1>1, <1>2, <1>5, <2>1, TypedStep
<1>6. CASE RefuseRefresh(t)
  <2>1. /\ Answer(t, "failed") /\ UNCHANGED <<login, mine, interrupted>>
    BY <1>6 DEF RefuseRefresh, RotateInvalid, RotateConsumed, vars
  <2> QED
    BY <1>5, <2>1
<1>7. CASE ServeAccess(t)
  <2>1. /\ \E answer \in {"ok", "failed", "denied"} : Answer(t, answer)
        /\ UNCHANGED <<login, mine, interrupted>>
        /\ tasks[t].call # "login"
    BY <1>7 DEF ServeAccess, Unanswered, vars
  <2> QED
    BY <1>5, <2>1
<1>8. CASE CallLost(t)
  <2>1. /\ Answer(t, "failed") /\ UNCHANGED <<login, mine, interrupted>>
    BY <1>8 DEF CallLost, vars
  <2> QED
    BY <1>5, <2>1
<1> QED
  BY <1>3, <1>4, <1>6, <1>7, <1>8 DEF CallSteps

LEMMA StepTyped ==
    ASSUME SessionInv, NamedAfterFamily, ClientTyped, [ClientSessionsNext]_allVars
    PROVE  ClientTyped'
<1>1. [Next]_vars
  BY ClientStepIsSessionStep DEF SessionInv
<1>2. DOMAIN login \subseteq DOMAIN login'
  BY <1>1, IdsStayTaken
<1>3. ASSUME UNCHANGED <<client, mine, interrupted>>
      PROVE  ClientTyped'
  BY <1>2, <1>3 DEF client, ClientTyped, Given
<1>4. CASE Elsewhere
  BY <1>3, <1>4 DEF Elsewhere
<1>5. CASE UNCHANGED allVars
  BY <1>3, <1>5 DEF allVars
<1> QED
  BY <1>1, <1>4, <1>5, ScreenTyped, TaskTyped, CallTyped DEF ClientSessionsNext

-----------------------------------------------------------------------------
(***************************************************************************)
(* Which pairs are the latest, as long as no refresh was cancelled or its  *)
(* answer lost.                                                            *)
(***************************************************************************)
\* A pair the client was just given, or would restore its session from.
Current(p) == \/ \E t \in Tasks : Given(t) /\ tasks[t].pair = p
              \/ savedPair = p /\ Refreshing = {}

\* A pair whose refresh token is on its way to the API.
Presented(p) == \E t \in Refreshing : tasks[t].answer = "none" /\ tasks[t].pair = p

\* There is one refresh at a time, of a screen that exists, and no two
\* coroutines hold the same pair.
Apart ==
    /\ \A t \in Refreshing : screen /\ ~tasks[t].cancelled
    /\ \A t, o \in Refreshing : t = o
    /\ \A t \in Tasks : Given(t) => tasks[t].pair # savedPair
    /\ \A t, o \in Tasks : t # o /\ Given(t) /\ (Given(o) \/ o \in Refreshing) =>
                              tasks[t].pair # tasks[o].pair

Undisturbed ==
    /\ Apart
    /\ \A p \in Families : /\ Current(p) => Latest(p)
                           /\ Presented(p) => <<p, "refresh">> \notin DOMAIN consumed

\* A rotation takes one family away, and only that.
LEMMA RotatedIsGone ==
    ASSUME SessionInv, NamedAfterFamily, NEW t \in Tokens, NEW f \in Families,
           RotateValid(t, f)
    PROVE  /\ login' # login
           /\ t[1] \in DOMAIN families
           /\ \A g \in DOMAIN families : g \in DOMAIN families' <=> g # t[1]
<1>1. /\ t[1] \in DOMAIN families /\ f \notin DOMAIN login
      /\ DOMAIN families' = (DOMAIN families \ {t[1]}) \cup {f}
      /\ DOMAIN login' = DOMAIN login \cup {f}
  BY RotationWrites
<1>2. DOMAIN families \subseteq DOMAIN login
  BY DEF SessionInv, IdsAreUsed
<1> QED
  BY <1>1, <1>2

\* A pair of the client is rotated by a refresh of the client, only.
LEMMA RotatedByClient ==
    ASSUME SessionInv, NamedAfterFamily, [ClientSessionsNext]_allVars,
           NEW s \in Tokens, NEW f \in Families, RotateValid(s, f), s[1] \in mine
    PROVE  \E t \in Tasks, g \in Families : ServeRefresh(t, g) /\ tasks[t].pair = s[1]
<1>1. /\ login' # login
      /\ s[1] \in DOMAIN families /\ s[1] \notin DOMAIN families'
      /\ \A g \in DOMAIN families : g # s[1] => g \in DOMAIN families'
  BY RotatedIsGone
<1>2. ASSUME NEW u, NEW g, Issue(u, g)
      PROVE  FALSE
  BY <1>1, <1>2 DEF Issue, IssuePair
<1>3. ASSUME NEW t \in Tasks, NEW g \in Families, ServeRefresh(t, g)
      PROVE  tasks[t].pair = s[1]
  <2> DEFINE token == <<tasks[t].pair, "refresh">>
  <2>1. RotateValid(token, g)
    BY <1>3 DEF ServeRefresh
  <2>2. token \in Tokens
    BY <2>1 DEF RotateValid, Valid, SessionInv, SessionTypeOK
  <2>3. token[1] \in DOMAIN families /\ token[1] \notin DOMAIN families'
    BY <2>1, <2>2, RotatedIsGone
  <2> QED
    BY <1>1, <2>3
<1>4. ASSUME NEW t \in Tasks, RefuseRefresh(t)
      PROVE  FALSE
  BY <1>1, <1>4 DEF RefuseRefresh, RotateInvalid, RotateConsumed, vars
<1>5. ASSUME NEW t \in Tokens, t[1] \notin mine, RotateRefresh(t)
      PROVE  FALSE
  <2>1. ASSUME NEW g \in Families, RotateValid(t, g)
        PROVE  FALSE
    <3>1. t[1] \in DOMAIN families /\ t[1] \notin DOMAIN families'
      BY <2>1, RotatedIsGone
    <3> QED
      BY <1>1, <1>5, <3>1
  <2> QED
    BY <1>1, <1>5, <2>1 DEF RotateRefresh, RotateInvalid, RotateConsumed
<1>6. ASSUME Elsewhere
      PROVE  FALSE
  BY <1>1, <1>2, <1>5, <1>6
  DEF Elsewhere, VerifyCredentials, RevokeUser, OperatorDisables, AuthenticateLogout,
      Expire, Restart
<1> QED
  BY <1>1, <1>2, <1>3, <1>4, <1>6
  DEF ClientSessionsNext, ScreenSteps, TaskSteps, CallSteps, ServeLogin, ServeAccess,
      CallLost, vars, allVars

\* So a pair of the client that it does not refresh stays as it is.
LEMMA PairsKept ==
    ASSUME SessionInv, NamedAfterFamily, ClientTyped, [ClientSessionsNext]_allVars,
           NEW p \in mine,
           \A t \in Tasks, f \in Families : ServeRefresh(t, f) => tasks[t].pair # p
    PROVE  /\ <<p, "refresh">> \notin DOMAIN consumed =>
                  <<p, "refresh">> \notin DOMAIN consumed'
           /\ Latest(p) => Latest(p)'
<1>1. p \in DOMAIN login /\ [Next]_vars
  BY ClientStepIsSessionStep DEF ClientTyped, SessionInv
<1>2. \A t \in Tokens, f \in Families : RotateValid(t, f) => t[1] # p
  BY RotatedByClient
<1> QED
  BY <1>1, <1>2, LatestKept

\* A coroutine gets no pair and starts no refresh: it ends, waits for another
\* call, or learns that its call has failed.
GetsNoPair(t) ==
    \/ tasks'[t].call \notin {"login", "refresh"}
    \/ tasks'[t].call = "login" /\ tasks'[t].answer # "ok"
    \/ /\ tasks'[t].call = tasks[t].call
       /\ tasks'[t].pair = tasks[t].pair
       /\ tasks'[t].cancelled = tasks[t].cancelled
       /\ tasks'[t].answer \in {tasks[t].answer, "failed"}

\* The saved pair stays, is cleared, or is the one a coroutine was given.
SavesWhatIsGiven ==
    \/ savedPair' = NoPair
    \/ savedPair' = savedPair /\ \A t \in Refreshing : tasks'[t].call = "refresh"
    \/ \E t \in Tasks : /\ Given(t)
                        /\ savedPair' = tasks[t].pair
                        /\ tasks'[t].call \notin {"login", "refresh"}

\* A step in which the client gets no pair.
NoPairStep ==
    /\ \A t \in Tasks : GetsNoPair(t)
    /\ SavesWhatIsGiven
    /\ \/ screen' = screen
       \/ \A t \in Tasks : tasks'[t].call # "refresh"

LEMMA NoPairStepKeepsApart ==
    ASSUME ClientTyped, mine \subseteq Families, Apart, NoPairStep
    PROVE  /\ Apart'
           /\ \A p \in Families : /\ Current(p)' => Current(p)
                                  /\ Presented(p)' => Presented(p)
<1>1. ASSUME NEW t \in Tasks, tasks'[t].call = "refresh"
      PROVE  /\ t \in Refreshing
             /\ tasks'[t].pair = tasks[t].pair
             /\ tasks'[t].cancelled = tasks[t].cancelled
             /\ tasks'[t].answer \in {tasks[t].answer, "failed"}
  BY <1>1 DEF NoPairStep, GetsNoPair, Refreshing
<1>2. ASSUME NEW t \in Tasks, Given(t)'
      PROVE  Given(t) /\ tasks'[t].pair = tasks[t].pair
  BY <1>2 DEF NoPairStep, GetsNoPair, Given
<1>3. \A t \in Tasks : Given(t) => tasks[t].pair \in Families /\ tasks[t].pair # NoPair
  BY ClientSessionsAssumption DEF ClientTyped
<1>4. ASSUME NEW t \in Tasks, Given(t)'
      PROVE  tasks'[t].pair # savedPair'
  <2>1. Given(t) /\ tasks'[t].pair = tasks[t].pair /\ tasks[t].pair # NoPair
    BY <1>2, <1>3, <1>4
  <2>2. tasks[t].pair # savedPair
    BY <2>1 DEF Apart
  <2>3. ASSUME NEW o \in Tasks, Given(o), tasks'[o].call \notin {"login", "refresh"}
        PROVE  tasks[t].pair # tasks[o].pair
    BY <1>4, <2>1, <2>3 DEF Apart, Given
  <2> QED
    BY <2>1, <2>2, <2>3 DEF NoPairStep, SavesWhatIsGiven
<1>5. Apart'
  <2>1. \A t \in Tasks : tasks'[t].call = "refresh" => screen' /\ ~tasks'[t].cancelled
    BY <1>1 DEF Apart, NoPairStep
  <2>2. \A t, o \in Tasks : tasks'[t].call = "refresh" /\ tasks'[o].call = "refresh" => t = o
    BY <1>1 DEF Apart
  <2>3. \A t, o \in Tasks :
           t # o /\ Given(t)' /\ (Given(o)' \/ tasks'[o].call = "refresh") =>
               tasks'[t].pair # tasks'[o].pair
    BY <1>1, <1>2 DEF Apart
  <2> QED
    BY <1>4, <2>1, <2>2, <2>3 DEF Apart, Refreshing
<1>6. ASSUME NEW p \in Families, Current(p)'
      PROVE  Current(p)
  <2>1. ASSUME NEW t \in Tasks, Given(t)', tasks'[t].pair = p
        PROVE  Current(p)
    BY <1>2, <2>1 DEF Current
  <2>2. CASE savedPair' = p /\ \A t \in Tasks : tasks'[t].call # "refresh"
    <3>1. savedPair' # NoPair
      BY <2>2, ClientSessionsAssumption
    <3>2. CASE savedPair' = savedPair /\ \A t \in Refreshing : tasks'[t].call = "refresh"
      BY <2>2, <3>2 DEF Current, Refreshing
    <3>3. CASE \E t \in Tasks : Given(t) /\ savedPair' = tasks[t].pair
      BY <2>2, <3>3 DEF Current
    <3> QED
      BY <3>1, <3>2, <3>3 DEF NoPairStep, SavesWhatIsGiven
  <2> QED
    BY <1>6, <2>1, <2>2 DEF Current, Refreshing
<1>7. ASSUME NEW p \in Families, Presented(p)'
      PROVE  Presented(p)
  <2>1. PICK t \in Tasks : /\ tasks'[t].call = "refresh"
                           /\ tasks'[t].answer = "none" /\ tasks'[t].pair = p
    BY <1>7 DEF Presented, Refreshing
  <2>2. t \in Refreshing /\ tasks[t].answer = "none" /\ tasks[t].pair = p
    BY <1>1, <2>1
  <2> QED
    BY <2>2 DEF Presented
<1> QED
  BY <1>5, <1>6, <1>7

\* What is current or presented is not what a refresh of this step rotates,
\* unless it leaves the coroutine that presents it with its answer.
LEMMA RotatesNothingElse ==
    ASSUME Apart, NEW p, NEW t \in Tasks, NEW f \in Families, ServeRefresh(t, f)
    PROVE  Current(p) => tasks[t].pair # p
<1>1. t \in Refreshing /\ ~Given(t)
  BY DEF ServeRefresh, Unanswered, Refreshing, Given
<1> QED
  BY <1>1 DEF Apart, Current

\* In the steps of the screen the client gets no pair, except when it is
\* created with one saved.
LEMMA ScreenGetsNoPair ==
    ASSUME ClientTyped, Apart, ScreenSteps, ~interrupted',
           ~OnCreate \/ savedPair = NoPair
    PROVE  NoPairStep
<1>1. tasks \in [Tasks -> Task]
  BY DEF ClientTyped
<1>2. ASSUME NEW task, Launch(task), task.call = "login" \/ task.call = "configure",
             task.answer = "none", UNCHANGED savedPair
      PROVE  (\A x \in Tasks : GetsNoPair(x)) /\ SavesWhatIsGiven
  <2>1. PICK t \in Tasks : tasks[t] = Idle /\ tasks' = [tasks EXCEPT ![t] = task]
    BY <1>2 DEF Launch, Become
  <2>2. \A x \in Tasks : IF x = t THEN tasks'[x] = task ELSE tasks'[x] = tasks[x]
    BY <1>1, <2>1
  <2>3. \A x \in Refreshing : x # t
    BY <2>1 DEF Refreshing, Idle
  <2>4. \A x \in Tasks : GetsNoPair(x)
    BY <1>2, <2>2 DEF GetsNoPair
  <2>5. SavesWhatIsGiven
    BY <1>2, <2>2, <2>3 DEF SavesWhatIsGiven, Refreshing
  <2> QED
    BY <2>4, <2>5
<1>3. ASSUME UNCHANGED tasks, savedPair' \in {savedPair, NoPair}
      PROVE  (\A x \in Tasks : GetsNoPair(x)) /\ SavesWhatIsGiven
  BY <1>3 DEF GetsNoPair, SavesWhatIsGiven, Refreshing
<1>4. CASE OnCreate
  <2>1. UNCHANGED tasks /\ savedPair' = savedPair
    BY <1>4 DEF OnCreate
  <2>2. \A t \in Tasks : tasks'[t].call # "refresh"
    BY <1>4, <2>1 DEF OnCreate, Apart, Refreshing
  <2> QED
    BY <1>3, <2>1, <2>2 DEF NoPairStep
<1>5. CASE PressLogin
  BY <1>2, <1>5 DEF PressLogin, Waiting, NoPairStep
<1>6. CASE PressConnect
  BY <1>2, <1>6 DEF PressConnect, Waiting, NoPairStep
<1>7. CASE PressLogout
  BY <1>3, <1>7 DEF PressLogout, NoPairStep
<1>8. CASE OnDestroy
  <2>1. Refreshing = {} /\ savedPair' = savedPair
    BY <1>8 DEF OnDestroy
  <2>2. \A x \in Tasks : tasks'[x] = Cancel(tasks[x]) /\ tasks[x].call # "refresh"
    BY <1>8, <2>1 DEF OnDestroy, Refreshing
  <2>3. ASSUME NEW x \in Tasks
        PROVE  GetsNoPair(x) /\ tasks'[x].call # "refresh"
    <3>1. CASE tasks[x].call = "login" /\ tasks[x].answer = "none"
      <4>1. tasks'[x] = [tasks[x] EXCEPT !.cancelled = TRUE] /\ tasks[x] \in Task
        BY <1>1, <2>2, <3>1 DEF Cancel
      <4>2. tasks'[x].call = "login" /\ tasks'[x].answer = "none"
        BY <3>1, <4>1 DEF Task
      <4> QED
        BY <4>2 DEF GetsNoPair
    <3>2. CASE ~(tasks[x].call = "login" /\ tasks[x].answer = "none")
      <4>1. tasks'[x] = Idle
        BY <2>2, <3>2 DEF Cancel
      <4> QED
        BY <4>1 DEF GetsNoPair, Idle
    <3> QED
      BY <3>1, <3>2
  <2> QED
    BY <2>1, <2>3 DEF NoPairStep, SavesWhatIsGiven
<1>9. CASE ProcessDies
  <2>1. Refreshing = {} /\ savedPair' = savedPair /\ \A x \in Tasks : tasks'[x] = Idle
    BY <1>9 DEF ProcessDies
  <2> QED
    BY <2>1 DEF Idle, GetsNoPair, NoPairStep, SavesWhatIsGiven
<1> QED
  BY <1>4, <1>5, <1>6, <1>7, <1>8, <1>9 DEF ScreenSteps

\* A coroutine that resumes saves what it was given, or clears the store.
LEMMA ResumingGetsNoPair ==
    ASSUME ClientTyped, Apart, NEW t \in Tasks, TaskSteps(t), ~interrupted'
    PROVE  NoPairStep
<1>1. tasks \in [Tasks -> Task]
  BY DEF ClientTyped
<1>2. ASSUME NEW task, Become(t, task), task.call \notin {"login", "refresh"}
      PROVE  /\ \A x \in Tasks : GetsNoPair(x)
             /\ tasks'[t].call \notin {"login", "refresh"}
             /\ \A x \in Tasks : x # t => tasks'[x] = tasks[x]
  BY <1>1, <1>2 DEF Become, GetsNoPair
<1>3. Idle.call \notin {"login", "refresh"}
      /\ \A p : Waiting("provision", p).call \notin {"login", "refresh"}
  BY DEF Idle, Waiting
<1>4. ASSUME Become(t, Idle), tasks[t].call # "refresh", savedPair' = savedPair
      PROVE  (\A x \in Tasks : GetsNoPair(x)) /\ SavesWhatIsGiven
  BY <1>2, <1>3, <1>4 DEF SavesWhatIsGiven, Refreshing
<1>5. ASSUME NEW task, Become(t, task), task.call \notin {"login", "refresh"},
             Given(t), savedPair' = tasks[t].pair
      PROVE  (\A x \in Tasks : GetsNoPair(x)) /\ SavesWhatIsGiven
  BY <1>2, <1>5 DEF SavesWhatIsGiven
<1>6. CASE EstablishSession(t)
  <2>1. Given(t) /\ savedPair' = tasks[t].pair /\ screen' = screen
        /\ Become(t, Waiting("provision", tasks[t].pair))
    BY <1>6 DEF EstablishSession, Answered, Given, Stored
  <2> QED
    BY <1>3, <1>5, <2>1 DEF NoPairStep
<1>7. CASE EstablishFails(t)
  <2>1. /\ Given(t) /\ Become(t, Idle) /\ screen' = screen
        /\ \/ savedPair' = tasks[t].pair
           \/ savedPair' = savedPair /\ tasks[t].call # "refresh"
    BY <1>7 DEF EstablishFails, Answered, Given, Stored
  <2> QED
    BY <1>3, <1>4, <1>5, <2>1 DEF NoPairStep
<1>8. CASE SessionReady(t)
  BY <1>4, <1>8 DEF SessionReady, Answered, NoPairStep
<1>9. CASE SessionLost(t)
  BY <1>2, <1>3, <1>9 DEF SessionLost, NoPairStep, SavesWhatIsGiven
<1>10. CASE CallEnds(t)
  BY <1>4, <1>10 DEF CallEnds, Answered, NoPairStep
<1>11. CASE ResumeCancelled(t)
  <2>1. tasks[t].call # "refresh"
    BY <1>11 DEF ResumeCancelled, Apart, Refreshing
  <2> QED
    BY <1>4, <1>11, <2>1 DEF ResumeCancelled, NoPairStep
<1> QED
  BY <1>6, <1>7, <1>8, <1>9, <1>10, <1>11 DEF TaskSteps

\* A call that is answered gives the client no pair, unless it is a login or
\* a refresh that succeeds.
GivesPair(t, f) ==
    /\ tasks' = [tasks EXCEPT ![t] = [tasks[t] EXCEPT !.answer = "ok", !.pair = f]]
    /\ UNCHANGED interrupted

LEMMA CallGetsNoPair ==
    ASSUME ClientTyped, NEW t \in Tasks, CallSteps(t), ~interrupted',
           \A f \in Families : ServeLogin(t, f) \/ ServeRefresh(t, f) => ~GivesPair(t, f)
    PROVE  NoPairStep /\ \A f \in Families : ~ServeRefresh(t, f)
<1>1. tasks \in [Tasks -> Task] /\ tasks[t] \in Task
  BY DEF ClientTyped
<1>2. ASSUME NEW answer, Answer(t, answer),
             answer = "failed" \/ tasks[t].call \notin {"login", "refresh"}
      PROVE  NoPairStep
  <2>1. /\ tasks'[t] = [tasks[t] EXCEPT !.answer = answer]
        /\ \A x \in Tasks : x # t => tasks'[x] = tasks[x]
    BY <1>1, <1>2 DEF Answer
  <2>2. /\ tasks'[t].call = tasks[t].call /\ tasks'[t].pair = tasks[t].pair
        /\ tasks'[t].cancelled = tasks[t].cancelled /\ tasks'[t].answer = answer
    BY <1>1, <2>1 DEF Task
  <2>3. \A x \in Tasks : GetsNoPair(x)
    BY <1>2, <2>1, <2>2 DEF GetsNoPair
  <2>4. SavesWhatIsGiven
    BY <2>1, <2>2 DEF SavesWhatIsGiven, Refreshing, CallSteps
  <2> QED
    BY <2>3, <2>4 DEF NoPairStep, CallSteps
<1>3. ASSUME NEW f \in Families, AnswerWith(t, f), ~GivesPair(t, f)
      PROVE  Answer(t, "failed") /\ tasks[t].call # "refresh"
  BY <1>1, <1>3 DEF AnswerWith, GivesPair
<1>4. \A f \in Families : ~ServeRefresh(t, f)
  BY <1>3 DEF ServeRefresh, Unanswered
<1>5. CASE \E f \in Families : ServeLogin(t, f)
  BY <1>2, <1>4, <1>3, <1>5 DEF ServeLogin
<1>6. CASE RefuseRefresh(t)
  BY <1>2, <1>4, <1>6 DEF RefuseRefresh
<1>7. CASE ServeAccess(t)
  BY <1>2, <1>4, <1>7 DEF ServeAccess, Unanswered
<1>8. CASE CallLost(t)
  BY <1>2, <1>4, <1>8 DEF CallLost
<1> QED
  BY <1>4, <1>5, <1>6, <1>7, <1>8 DEF CallSteps

\* What is current or presented after a step in which the client gets no pair
\* was so before it, and its tokens are as they were.
LEMMA NoPairStepKeepsPairs ==
    ASSUME SessionInv, NamedAfterFamily, ClientTyped, Undisturbed,
           [ClientSessionsNext]_allVars, NoPairStep,
           \/ UNCHANGED vars
           \/ \A t \in Tasks, f \in Families : ~ServeRefresh(t, f)
    PROVE  Undisturbed'
<1>1. mine \subseteq Families /\ NoPair \notin Families
  BY ClientSessionsAssumption DEF ClientTyped, SessionInv, SessionTypeOK
<1>2. /\ Apart'
      /\ \A p \in Families : /\ Current(p)' => Current(p)
                             /\ Presented(p)' => Presented(p)
  BY <1>1, NoPairStepKeepsApart DEF Undisturbed
<1>3. ASSUME NEW p \in Families, Current(p) \/ Presented(p)
      PROVE  p \in mine
  BY <1>1, <1>3 DEF Current, Presented, ClientTyped, Refreshing
<1>4. ASSUME NEW p \in mine
      PROVE  /\ <<p, "refresh">> \notin DOMAIN consumed =>
                    <<p, "refresh">> \notin DOMAIN consumed'
             /\ Latest(p) => Latest(p)'
  <2>1. CASE UNCHANGED vars
    BY <2>1 DEF vars, Latest
  <2>2. CASE \A t \in Tasks, f \in Families : ~ServeRefresh(t, f)
    BY <2>2, PairsKept
  <2> QED
    BY <2>1, <2>2
<1>5. \A p \in Families : /\ Current(p)' => Latest(p)'
                          /\ Presented(p)' => <<p, "refresh">> \notin DOMAIN consumed'
  BY <1>2, <1>3, <1>4 DEF Undisturbed
<1> QED
  BY <1>2, <1>5 DEF Undisturbed

\* A screen is created with a saved pair: it was the latest.
LEMMA RestoringKeepsPairs ==
    ASSUME SessionInv, ClientTyped, Undisturbed, OnCreate, savedPair # NoPair,
           UNCHANGED vars
    PROVE  Undisturbed'
<1>1. tasks \in [Tasks -> Task]
  BY DEF ClientTyped
<1>2. PICK t \in Tasks : /\ tasks[t] = Idle
                         /\ tasks' = [tasks EXCEPT ![t] = Waiting("refresh", savedPair)]
  BY DEF OnCreate, Launch, Become
<1>3. /\ tasks'[t].call = "refresh" /\ tasks'[t].pair = savedPair
      /\ tasks'[t].answer = "none" /\ tasks'[t].cancelled = FALSE
      /\ \A x \in Tasks : x # t => tasks'[x] = tasks[x]
  BY <1>1, <1>2 DEF Waiting
<1>4. /\ ~screen /\ screen' /\ savedPair' = savedPair
      /\ \A x \in Tasks : tasks[x].call # "refresh"
  BY DEF OnCreate, Undisturbed, Apart, Refreshing
<1>5. \A x \in Tasks : tasks'[x].call = "refresh" <=> x = t
  BY <1>3, <1>4
<1>6. \A x \in Tasks : Given(x)' => x # t /\ Given(x) /\ tasks'[x].pair = tasks[x].pair
  BY <1>3 DEF Given
<1>7. Apart'
  BY <1>3, <1>4, <1>5, <1>6 DEF Undisturbed, Apart, Refreshing
<1>8. \A p \in Families : Latest(p)' <=> Latest(p)
  BY DEF vars, Latest
<1>9. ASSUME NEW p \in Families
      PROVE  /\ Current(p)' => Current(p)
             /\ Presented(p)' => Current(p)
  <2>1. Current(p)' => \E x \in Tasks : Given(x) /\ tasks[x].pair = p
    BY <1>5, <1>6 DEF Current, Refreshing
  <2>2. Presented(p)' => savedPair = p /\ Refreshing = {}
    BY <1>3, <1>4, <1>5 DEF Presented, Refreshing
  <2> QED
    BY <2>1, <2>2 DEF Current
<1>10. \A p \in Families : Latest(p) => <<p, "refresh">> \notin DOMAIN consumed'
  BY DEF vars, Latest
<1> QED
  BY <1>7, <1>8, <1>9, <1>10 DEF Undisturbed

\* A login or a refresh gives the client a new pair, which is the latest.
LEMMA PairGivenIsLatest ==
    ASSUME SessionInv, SessionInv', NamedAfterFamily, ClientTyped, Undisturbed,
           [ClientSessionsNext]_allVars,
           NEW t \in Tasks, NEW f \in Families, ServeLogin(t, f) \/ ServeRefresh(t, f),
           GivesPair(t, f), UNCHANGED <<screen, savedPair, apiPair>>
    PROVE  Undisturbed'
<1>1. /\ tasks \in [Tasks -> Task] /\ tasks[t] \in Task
      /\ mine \subseteq Families /\ mine \subseteq DOMAIN login
      /\ NoPair \notin Families
  BY ClientSessionsAssumption DEF ClientTyped, SessionInv, SessionTypeOK
<1>2. /\ tasks'[t] = [tasks[t] EXCEPT !.answer = "ok", !.pair = f]
      /\ \A x \in Tasks : x # t => tasks'[x] = tasks[x]
  BY <1>1 DEF GivesPair
<1>3. /\ tasks'[t].call = tasks[t].call /\ tasks'[t].pair = f
      /\ tasks'[t].answer = "ok" /\ tasks'[t].cancelled = tasks[t].cancelled
  BY <1>1, <1>2 DEF Task
<1>4. f \notin DOMAIN login /\ Latest(f)'
  <2>1. CASE ServeLogin(t, f)
    BY <2>1, IssuedIsLatest, ClientSessionsAssumption DEF ServeLogin
  <2>2. CASE ServeRefresh(t, f)
    <3>1. RotateValid(<<tasks[t].pair, "refresh">>, f)
      BY <2>2 DEF ServeRefresh
    <3>2. <<tasks[t].pair, "refresh">> \in Tokens
      BY <3>1 DEF RotateValid, Valid, SessionInv, SessionTypeOK
    <3> QED
      BY <3>1, <3>2, IssuedIsLatest
  <2> QED
    BY <2>1, <2>2
<1>5. f \notin mine /\ f # NoPair /\ \A x \in Tasks : tasks[x].pair # f
      /\ savedPair # f
  BY <1>1, <1>4 DEF ClientTyped
<1>6. \A x \in Tasks : tasks'[x].call = "refresh" <=> tasks[x].call = "refresh"
  BY <1>2, <1>3
<1>7. \A x \in Tasks : x # t /\ Given(x)' => Given(x) /\ tasks'[x].pair = tasks[x].pair
  BY <1>2 DEF Given
<1>8. Apart'
  <2>1. \A x \in Tasks : tasks'[x].call = "refresh" =>
           /\ x \in Refreshing /\ screen' = screen
           /\ tasks'[x].cancelled = tasks[x].cancelled
    BY <1>2, <1>3, <1>6 DEF Refreshing
  <2>2. \A x \in Tasks : Given(x)' => tasks'[x].pair # savedPair'
    BY <1>3, <1>5, <1>7 DEF Undisturbed, Apart
  <2>3. ASSUME NEW x \in Tasks, NEW o \in Tasks, x # o, Given(x)',
               Given(o)' \/ tasks'[o].call = "refresh"
        PROVE  tasks'[x].pair # tasks'[o].pair
    <3>1. CASE x = t
      BY <1>2, <1>3, <1>5, <2>3, <3>1
    <3>2. CASE o = t
      BY <1>2, <1>3, <1>5, <2>3, <3>2
    <3>3. CASE x # t /\ o # t
      <4>1. /\ Given(x) /\ tasks'[x].pair = tasks[x].pair
            /\ tasks'[o] = tasks[o] /\ (Given(o) \/ o \in Refreshing)
        BY <1>2, <1>7, <2>3, <3>3 DEF Refreshing
      <4> QED
        BY <2>3, <4>1 DEF Undisturbed, Apart
    <3> QED
      BY <3>1, <3>2, <3>3
  <2> QED
    BY <2>1, <2>2, <2>3 DEF Undisturbed, Apart, Refreshing
<1>9. ASSUME NEW p \in Families, Current(p)', p # f
      PROVE  Current(p) /\ p \in mine
  <2>1. Current(p)
    BY <1>3, <1>6, <1>7, <1>9 DEF Current, Refreshing
  <2> QED
    BY <1>1, <2>1 DEF Current, ClientTyped
<1>10. ASSUME NEW p \in Families, Presented(p)'
       PROVE  /\ Presented(p) /\ p \in mine
              /\ ~\E o \in Tasks, g \in Families : ServeRefresh(o, g)
  <2>1. PICK x \in Tasks : /\ tasks'[x].call = "refresh"
                           /\ tasks'[x].answer = "none" /\ tasks'[x].pair = p
    BY <1>10 DEF Presented, Refreshing
  <2>2. x # t /\ tasks[x] = tasks'[x]
    BY <1>2, <1>3, <2>1
  <2>3. x \in Refreshing /\ Presented(p) /\ p \in mine
    BY <2>1, <2>2 DEF Presented, Refreshing, ClientTyped
  <2>4. ASSUME NEW o \in Tasks, NEW g \in Families, ServeRefresh(o, g)
        PROVE  FALSE
    <3>1. o = x
      BY <2>3, <2>4 DEF ServeRefresh, Unanswered, Undisturbed, Apart, Refreshing
    <3>2. \/ tasks' = [tasks EXCEPT ![o] = [tasks[o] EXCEPT !.answer = "ok", !.pair = g]]
          \/ tasks' = [tasks EXCEPT ![o] = [tasks[o] EXCEPT !.answer = "failed"]]
      BY <1>1, <2>4 DEF ServeRefresh, AnswerWith, Answer
    <3>3. tasks[o] \in Task
      BY <1>1
    <3>4. tasks'[o].answer \in {"ok", "failed"}
      BY <1>1, <3>2, <3>3 DEF Task
    <3> QED
      BY <2>1, <3>1, <3>4
  <2> QED
    BY <2>3, <2>4
<1>11. ASSUME NEW p \in Families, Current(p)'
       PROVE  Latest(p)'
  <2>1. CASE p = f
    BY <1>4, <2>1
  <2>2. CASE p # f
    <3>1. Current(p) /\ p \in mine /\ Latest(p)
      BY <1>9, <1>11, <2>2 DEF Undisturbed
    <3>2. \A o \in Tasks, g \in Families : ServeRefresh(o, g) => tasks[o].pair # p
      BY <3>1, RotatesNothingElse DEF Undisturbed
    <3> QED
      BY <3>1, <3>2, PairsKept
  <2> QED
    BY <2>1, <2>2
<1>12. ASSUME NEW p \in Families, Presented(p)'
       PROVE  <<p, "refresh">> \notin DOMAIN consumed'
  BY <1>10, <1>12, PairsKept DEF Undisturbed
<1> QED
  BY <1>8, <1>11, <1>12 DEF Undisturbed

LEMMA StepKeepsUndisturbed ==
    ASSUME SessionInv, SessionInv', NamedAfterFamily, ClientTyped,
           ~interrupted => Undisturbed, [ClientSessionsNext]_allVars, ~interrupted'
    PROVE  Undisturbed'
<1>1. ~interrupted
  BY DEF ClientSessionsNext, ScreenSteps, OnCreate, PressLogin, PressConnect, PressLogout,
         OnDestroy, ProcessDies, TaskSteps, EstablishSession, EstablishFails, SessionReady,
         SessionLost, CallEnds, ResumeCancelled, CallSteps, ServeLogin, ServeRefresh,
         AnswerWith, RefuseRefresh, ServeAccess, CallLost, Elsewhere, allVars
<1>2. Undisturbed /\ Apart
  BY <1>1 DEF Undisturbed
<1>3. CASE ScreenSteps
  <2>1. UNCHANGED vars
    BY <1>3 DEF ScreenSteps
  <2>2. CASE OnCreate /\ savedPair # NoPair
    BY <1>2, <2>1, <2>2, RestoringKeepsPairs
  <2>3. CASE ~OnCreate \/ savedPair = NoPair
    BY <1>2, <1>3, <2>1, <2>3, ScreenGetsNoPair, NoPairStepKeepsPairs
  <2> QED
    BY <2>2, <2>3
<1>4. ASSUME NEW t \in Tasks, TaskSteps(t)
      PROVE  Undisturbed'
  <2>1. UNCHANGED vars
    BY <1>4 DEF TaskSteps
  <2> QED
    BY <1>2, <1>4, <2>1, ResumingGetsNoPair, NoPairStepKeepsPairs
<1>5. ASSUME NEW t \in Tasks, CallSteps(t)
      PROVE  Undisturbed'
  <2>1. UNCHANGED <<screen, savedPair, apiPair>>
    BY <1>5 DEF CallSteps
  <2>2. CASE \E f \in Families : (ServeLogin(t, f) \/ ServeRefresh(t, f)) /\ GivesPair(t, f)
    BY <1>2, <2>1, <2>2, PairGivenIsLatest
  <2>3. CASE \A f \in Families : ServeLogin(t, f) \/ ServeRefresh(t, f) => ~GivesPair(t, f)
    <3>1. NoPairStep /\ \A f \in Families : ~ServeRefresh(t, f)
      BY <1>5, <2>3, CallGetsNoPair
    <3>2. ASSUME NEW o \in Tasks, NEW f \in Families, ServeRefresh(o, f)
          PROVE  FALSE
      <4>1. o # t /\ tasks \in [Tasks -> Task]
        BY <3>1, <3>2 DEF ClientTyped
      <4>2. tasks'[o] = tasks[o]
        BY <1>5, <4>1
        DEF CallSteps, ServeLogin, ServeRefresh, AnswerWith, Answer, RefuseRefresh,
            ServeAccess, CallLost
      <4>3. tasks[o].answer = "none" /\ tasks'[o].answer # "none"
        BY <3>2, <4>1 DEF ServeRefresh, Unanswered, AnswerWith, Answer, Task
      <4> QED
        BY <4>2, <4>3
    <3> QED
      BY <1>2, <3>1, <3>2, NoPairStepKeepsPairs
  <2> QED
    BY <2>2, <2>3
<1>6. ASSUME UNCHANGED <<client, mine, interrupted>>
      PROVE  Undisturbed'
  <2>1. NoPairStep
    BY <1>6 DEF NoPairStep, GetsNoPair, SavesWhatIsGiven, Refreshing, client
  <2>2. ASSUME NEW t \in Tasks, NEW f \in Families, ServeRefresh(t, f)
        PROVE  FALSE
    <3>1. tasks \in [Tasks -> Task] /\ tasks' = tasks
      BY <1>6 DEF ClientTyped, client
    <3>2. tasks[t].answer = "none" /\ tasks'[t].answer # "none"
      BY <2>2, <3>1 DEF ServeRefresh, Unanswered, AnswerWith, Answer, Task
    <3> QED
      BY <3>1, <3>2
  <2> QED
    BY <1>2, <2>1, <2>2, NoPairStepKeepsPairs
<1>7. CASE Elsewhere
  BY <1>6, <1>7 DEF Elsewhere
<1>8. CASE UNCHANGED allVars
  BY <1>6, <1>8 DEF allVars
<1> QED
  BY <1>3, <1>4, <1>5, <1>7, <1>8 DEF ClientSessionsNext

ClientInv ==
    /\ SessionInv /\ NamedAfterFamily /\ ClientTyped
    /\ ~interrupted => Undisturbed

THEOREM ClientInvariant == ClientSessionsSpec => []ClientInv
<1>1. ClientSessionsInit => ClientInv
  <2> SUFFICES ASSUME ClientSessionsInit
               PROVE  ClientInv
    OBVIOUS
  <2>1. SessionInv /\ NamedAfterFamily
    BY DEF ClientSessionsInit, Init, Empty, SessionInv, SessionTypeOK, IndexConsistent,
           IdsAreUsed, OneFamilyPerLogin, NamedAfterFamily
  <2>2. \A t \in Tasks : tasks[t] = Idle
    BY DEF ClientSessionsInit
  <2>3. Idle \in Task /\ Idle.call = "idle" /\ Idle.pair = NoPair
    BY DEF Idle, Task
  <2>4. ClientTyped
    BY <2>2, <2>3 DEF ClientSessionsInit, ClientTyped, Given
  <2>5. Undisturbed
    BY <2>2, <2>3, ClientSessionsAssumption
    DEF ClientSessionsInit, Undisturbed, Apart, Current, Presented, Given, Refreshing
  <2> QED
    BY <2>1, <2>4, <2>5 DEF ClientInv
<1>2. ClientInv /\ [ClientSessionsNext]_allVars => ClientInv'
  <2> SUFFICES ASSUME ClientInv, [ClientSessionsNext]_allVars
               PROVE  ClientInv'
    OBVIOUS
  <2>1. SessionInv' /\ [Next]_vars
    BY ClientKeepsSessionInv DEF ClientInv
  <2>2. NamedAfterFamily' /\ ClientTyped'
    BY <2>1, NamesKept, StepTyped DEF ClientInv
  <2>3. ~interrupted' => Undisturbed'
    BY <2>1, StepKeepsUndisturbed DEF ClientInv
  <2> QED
    BY <2>1, <2>2, <2>3 DEF ClientInv
<1> QED
  BY <1>1, <1>2, PTL DEF ClientSessionsSpec

\* A client that had no refresh cancelled or lost restores its session from
\* the newest pair of its login (MainActivity.onCreate, AuthTokenStore).
THEOREM ClientRestoresLatest == ClientSessionsSpec => []SavedPairIsLatest
<1>1. ClientInv => SavedPairIsLatest
  <2> SUFFICES ASSUME ClientInv, savedPair # NoPair, Refreshing = {}, ~interrupted
               PROVE  Latest(savedPair)
    BY DEF SavedPairIsLatest, Latest
  <2>1. savedPair \in Families
    BY DEF ClientInv, ClientTyped, SessionInv, SessionTypeOK
  <2>2. Current(savedPair)
    BY DEF Current
  <2> QED
    BY <2>1, <2>2 DEF ClientInv, Undisturbed
<1> QED
  BY <1>1, ClientInvariant, PTL

\* What such a client asks of the API ends no session of the user's other
\* devices (RotateRefresh takes none of its tokens for a stolen one).
THEOREM ClientEndsItsOwn == ClientSessionsSpec => OtherDevicesKeepSessions
<1>1. ASSUME ClientInv, [ClientSessionsNext]_allVars, tasks' # tasks, ~interrupted,
             NEW s \in DOMAIN sessions, s[1] \notin mine
      PROVE  s \in DOMAIN sessions'
  <2>1. SessionInv /\ NamedAfterFamily /\ ClientTyped /\ Undisturbed
    BY <1>1 DEF ClientInv
  <2>2. ASSUME NEW u, NEW f, Issue(u, f)
        PROVE  s \in DOMAIN sessions'
    BY <2>2 DEF Issue, IssuePair
  <2>3. ASSUME NEW t \in Tasks, NEW f \in Families, ServeRefresh(t, f)
        PROVE  s \in DOMAIN sessions'
    <3> DEFINE token == <<tasks[t].pair, "refresh">>
    <3>1. RotateValid(token, f) /\ tasks[t].pair \in mine
      BY <2>1, <2>3 DEF ServeRefresh, Unanswered, ClientTyped
    <3>2. token \in Tokens
      BY <2>1, <3>1 DEF RotateValid, Valid, SessionInv, SessionTypeOK
    <3>3. DOMAIN sessions' = {x \in DOMAIN sessions : x[1] # token[1]} \cup ({f} \X Kinds)
      BY <2>1, <3>1, <3>2, RotationWrites
    <3> QED
      BY <1>1, <3>1, <3>3
  <2>4. ASSUME NEW t \in Tasks, RefuseRefresh(t)
        PROVE  s \in DOMAIN sessions'
    <3> DEFINE token == <<tasks[t].pair, "refresh">>
    <3>1. /\ t \in Refreshing /\ tasks[t].answer = "none"
          /\ tasks[t].pair \in mine /\ mine \subseteq Families
      BY <2>1, <2>4 DEF RefuseRefresh, Unanswered, Refreshing, ClientTyped,
                        SessionInv, SessionTypeOK
    <3>2. token \notin DOMAIN consumed
      BY <2>1, <3>1 DEF Presented, Undisturbed
    <3>3. CASE RotateInvalid(token)
      <4>1. /\ token \in DOMAIN sessions
            /\ sessions' = SessionsWithout({sessions[token].family})
        BY <3>3 DEF RotateInvalid
      <4>2. sessions[token].family = tasks[t].pair
        BY <2>1, <4>1 DEF NamedAfterFamily
      <4>3. {tasks[t].pair} \in SUBSET Families
        BY <3>1
      <4>4. DOMAIN sessions' = {x \in DOMAIN sessions : sessions[x].family # tasks[t].pair}
        BY <2>1, <4>1, <4>2, <4>3, RevocationShrinks
      <4> QED
        BY <1>1, <2>1, <3>1, <4>4 DEF NamedAfterFamily
    <3> QED
      BY <2>4, <3>2, <3>3 DEF RefuseRefresh, RotateConsumed, vars
  <2> QED
    BY <1>1, <2>2, <2>3, <2>4
    DEF ClientSessionsNext, ScreenSteps, TaskSteps, CallSteps, ServeLogin, ServeAccess,
        CallLost, Elsewhere, client, allVars, vars
<1>2. ClientInv /\ [ClientSessionsNext]_allVars =>
         [tasks' # tasks =>
            \/ interrupted
            \/ \A t \in DOMAIN sessions : t[1] \notin mine => t \in DOMAIN sessions']_allVars
  BY <1>1
<1> QED
  BY <1>2, ClientInvariant, PTL DEF ClientSessionsSpec, OtherDevicesKeepSessions
=============================================================================
