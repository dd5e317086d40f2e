--------------------------- MODULE SessionStore ---------------------------
(***************************************************************************)
(* Opaque sessions with rotating refresh tokens: auth.SessionStore in      *)
(* services/api/internal/auth/session.go under auth.Service (service.go)   *)
(* and the handlers of httpapi/auth.go.                                    *)
(*                                                                         *)
(* One action is one critical section under SessionStore.mu.  A login is   *)
(* two of them (the credentials are looked up in the database before the   *)
(* pair is issued), and so is a logout (the access token is authenticated, *)
(* then the user's sessions are revoked); other requests run in between.   *)
(* All tables are in memory: a restart of the API loses them.              *)
(*                                                                         *)
(* Abstractions.  randomToken never repeats, so a family id is used once   *)
(* and its two tokens are named after it.  A clock reading is reduced to   *)
(* what the code compares: a session has expired or not.  Credentials are  *)
(* right or the request has no effect.                                     *)
(***************************************************************************)
EXTENDS Naturals

CONSTANTS
    Users,
    Families        \* family ids: bounds the number of pairs issued

Kinds == {"access", "refresh"}

\* Hashes of the tokens that may be issued.
Tokens == Families \X Kinds

Session == [user : Users, family : Families, kind : Kinds, expired : BOOLEAN]

VARIABLES
    sessions,       \* SessionStore.sessions, by token hash
    families,       \* SessionStore.families: the hashes of each live family
    consumed,       \* SessionStore.consumed: refresh tokens already rotated
    loggingIn,      \* users whose credentials a login has verified
    loggingOut,     \* users whose access token a logout has authenticated
    disabled,       \* users.disabled_at IS NOT NULL
    login           \* history: the family each family was rotated from, at
                    \* the start of its chain; its domain is the ids used

vars == <<sessions, families, consumed, loggingIn, loggingOut, disabled, login>>

Empty == [x \in {} |-> x]

Restricted(f, S) == [x \in DOMAIN f \cap S |-> f[x]]

-----------------------------------------------------------------------------
(***************************************************************************)
(* The helpers that run under the lock.                                    *)
(***************************************************************************)
\* Mutant: the family is forgotten and its sessions are not.
SessionsWithoutLeaked(fs) == sessions

\* revokeFamilyLocked for each family of fs: the sessions that are left ...
SessionsWithout(fs) ==
    Restricted(sessions,
        {t \in Tokens : \A f \in fs \cap DOMAIN families : t \notin families[f]})

\* ... and the families that are left.
FamiliesWithout(fs) == Restricted(families, Families \ fs)

\* Mutant: a family counts only while its access token is valid.
FamiliesOfAuthenticated(u) ==
    {f \in DOMAIN families :
        \E t \in families[f] \cap DOMAIN sessions :
            /\ sessions[t].user = u
            /\ sessions[t].kind = "access"
            /\ ~sessions[t].expired}

\* The families revokeUserLocked and RevokeUser find: they look for a session
\* of the user among the hashes of the family.
FamiliesOf(u) ==
    {f \in DOMAIN families :
        \E t \in families[f] \cap DOMAIN sessions : sessions[t].user = u}

\* issueLocked, for the access and the refresh token of a new family f, on
\* tables that may just have lost another family.
IssuePair(u, f, ss, fs) ==
    /\ f \in Families \ DOMAIN login
    /\ sessions' = [t \in DOMAIN ss \cup ({f} \X Kinds) |->
            IF t \in {f} \X Kinds
            THEN [user |-> u, family |-> f, kind |-> t[2], expired |-> FALSE]
            ELSE ss[t]]
    /\ families' = [e \in DOMAIN fs \cup {f} |->
                       IF e = f THEN {f} \X Kinds ELSE fs[e]]

StartChain(f, root) ==
    login' = [e \in DOMAIN login \cup {f} |-> IF e = f THEN root ELSE login[e]]

Valid(t, kind) ==
    t \in DOMAIN sessions /\ sessions[t].kind = kind /\ ~sessions[t].expired

-----------------------------------------------------------------------------
(***************************************************************************)
(* POST /v1/auth/login.                                                    *)
(***************************************************************************)
VerifyCredentials(u) ==
    /\ u \notin disabled
    /\ loggingIn' = loggingIn \cup {u}
    /\ UNCHANGED <<sessions, families, consumed, loggingOut, disabled, login>>

Issue(u, f) ==
    /\ u \in loggingIn
    /\ IssuePair(u, f, sessions, families)
    /\ StartChain(f, f)
    /\ loggingIn' = loggingIn \ {u}
    /\ UNCHANGED <<consumed, loggingOut, disabled>>

(***************************************************************************)
(* POST /v1/auth/refresh with any token: RotateRefresh.                    *)
(***************************************************************************)
\* Mutant: the family id is remembered where the user id is meant.
ConsumeForFamily(t) ==
    consumed' = [h \in DOMAIN consumed \cup {t} |->
                    IF h = t THEN sessions[t].family ELSE consumed[h]]

\* s.consumed[hash] = old.userID
Consume(t) ==
    consumed' = [h \in DOMAIN consumed \cup {t} |->
                    IF h = t THEN sessions[t].user ELSE consumed[h]]

\* Mutant: only the refresh token is revoked, not its family.
RotateValidKeepingFamily(t, f) ==
    LET old == sessions[t] IN
    /\ Valid(t, "refresh")
    /\ Consume(t)
    /\ IssuePair(old.user, f, Restricted(sessions, Tokens \ {t}),
                 [families EXCEPT ![old.family] = @ \ {t}])
    /\ StartChain(f, login[old.family])
    /\ UNCHANGED <<loggingIn, loggingOut, disabled>>

\* A valid refresh token is consumed, its family revoked, a new one issued.
RotateValid(t, f) ==
    LET old == sessions[t] IN
    /\ Valid(t, "refresh")
    /\ Consume(t)
    /\ IssuePair(old.user, f, SessionsWithout({old.family}),
                              FamiliesWithout({old.family}))
    /\ StartChain(f, login[old.family])
    /\ UNCHANGED <<loggingIn, loggingOut, disabled>>

\* Mutant: all families of the user are revoked, as for a consumed token.
RotateInvalidOfUser(t) ==
    /\ t \in DOMAIN sessions
    /\ ~Valid(t, "refresh")
    /\ sessions' = SessionsWithout(FamiliesOf(sessions[t].user))
    /\ families' = FamiliesWithout(FamiliesOf(sessions[t].user))
    /\ UNCHANGED <<consumed, loggingIn, loggingOut, disabled, login>>

\* A session that is no refresh token or has expired: its family is revoked.
RotateInvalid(t) ==
    LET old == sessions[t] IN
    /\ t \in DOMAIN sessions
    /\ ~Valid(t, "refresh")
    /\ sessions' = SessionsWithout({old.family})
    /\ families' = FamiliesWithout({old.family})
    /\ UNCHANGED <<consumed, loggingIn, loggingOut, disabled, login>>

\* A consumed token: all families of its user are revoked.  (A hash that is
\* in neither table is refused, which changes nothing.)
RotateConsumed(t) ==
    /\ t \in DOMAIN consumed \ DOMAIN sessions
    /\ sessions' = SessionsWithout(FamiliesOf(consumed[t]))
    /\ families' = FamiliesWithout(FamiliesOf(consumed[t]))
    /\ UNCHANGED <<consumed, loggingIn, loggingOut, disabled, login>>

(***************************************************************************)
(* POST /v1/auth/logout.                                                   *)
(***************************************************************************)
AuthenticateLogout(t) ==
    /\ Valid(t, "access")
    /\ loggingOut' = loggingOut \cup {sessions[t].user}
    /\ UNCHANGED <<sessions, families, consumed, loggingIn, disabled, login>>

RevokeUser(u) ==
    /\ u \in loggingOut
    /\ sessions' = SessionsWithout(FamiliesOf(u))
    /\ families' = FamiliesWithout(FamiliesOf(u))
    /\ loggingOut' = loggingOut \ {u}
    /\ UNCHANGED <<consumed, loggingIn, disabled, login>>

-----------------------------------------------------------------------------
(***************************************************************************)
(* The environment.                                                        *)
(***************************************************************************)
\* Time: the access token of a pair (15 minutes) expires before the refresh
\* token issued with it (30 days).  Expired sessions stay in the table.
Expire(t) ==
    /\ t \in DOMAIN sessions
    /\ ~sessions[t].expired
    /\ sessions[t].kind = "refresh" =>
          \A a \in DOMAIN sessions :
              sessions[a].family = sessions[t].family /\ a # t =>
                  sessions[a].expired
    /\ sessions' = [sessions EXCEPT ![t].expired = TRUE]
    /\ UNCHANGED <<families, consumed, loggingIn, loggingOut, disabled, login>>

\* External: no code of the repository sets users.disabled_at.
OperatorDisables(u) ==
    /\ disabled' = disabled \cup {u}
    /\ UNCHANGED <<sessions, families, consumed, loggingIn, loggingOut, login>>

\* The API restarts: NewSessionStore, requests under way are gone.
Restart ==
    /\ sessions' = Empty
    /\ families' = Empty
    /\ consumed' = Empty
    /\ loggingIn' = {}
    /\ loggingOut' = {}
    /\ UNCHANGED <<disabled, login>>

Init ==
    /\ sessions = Empty
    /\ families = Empty
    /\ consumed = Empty
    /\ loggingIn = {}
    /\ loggingOut = {}
    /\ disabled = {}
    /\ login = Empty

RotateRefresh(t) ==
    \/ \E f \in Families : RotateValid(t, f)
    \/ RotateInvalid(t)
    \/ RotateConsumed(t)

Next ==
    \/ \E u \in Users :
          \/ VerifyCredentials(u)
          \/ \E f \in Families : Issue(u, f)
          \/ RevokeUser(u)
          \/ OperatorDisables(u)
    \/ \E t \in Tokens :
          \/ RotateRefresh(t)
          \/ AuthenticateLogout(t)
          \/ Expire(t)
    \/ Restart

Spec == Init /\ [][Next]_vars

-----------------------------------------------------------------------------
(***************************************************************************)
(* Properties.                                                             *)
(***************************************************************************)
\* Type correctness of the three maps of SessionStore and of what surrounds
\* them.
SessionTypeOK ==
    /\ DOMAIN sessions \subseteq Tokens
    /\ sessions \in [DOMAIN sessions -> Session]
    /\ DOMAIN families \subseteq Families
    /\ families \in [DOMAIN families -> SUBSET Tokens]
    /\ DOMAIN consumed \subseteq Tokens
    /\ consumed \in [DOMAIN consumed -> Users]
    /\ loggingIn \subseteq Users
    /\ loggingOut \subseteq Users
    /\ disabled \subseteq Users
    /\ DOMAIN login \subseteq Families
    /\ login \in [DOMAIN login -> DOMAIN login]

\* The two maps describe the same sessions: a session is listed by its own
\* family and by no other, a listed hash has a session, and a family belongs
\* to one user.  Revocation finds sessions only through families, so a
\* session that fell out of its family could never be revoked.
IndexConsistent ==
    /\ \A f \in DOMAIN families : \A t \in families[f] :
          t \in DOMAIN sessions /\ sessions[t].family = f
    /\ \A t \in DOMAIN sessions :
          sessions[t].family \in DOMAIN families /\ t \in families[sessions[t].family]
    /\ \A s, t \in DOMAIN sessions :
          sessions[s].family = sessions[t].family => sessions[s].user = sessions[t].user

\* A refresh token that was rotated is never accepted again, nor anything
\* issued with it: rotation leaves one live family for each login, however
\* often and from wherever its tokens are presented.
OneFamilyPerLogin ==
    /\ DOMAIN consumed \cap DOMAIN sessions = {}
    /\ \A f, g \in DOMAIN families : login[f] = login[g] => f = g

\* After the reuse of a consumed refresh token, and after a logout, the user
\* has no session left, in no family, whatever ran between authentication and
\* revocation: a second login, a rotation of the token that logged out, or
\* the expiry of an access token.
RevocationIsComplete ==
    [][\A u \in Users :
          (\/ RevokeUser(u)
           \/ \E t \in DOMAIN consumed : consumed[t] = u /\ RotateConsumed(t))
          => \A t \in DOMAIN sessions' : sessions'[t].user # u]_vars
=============================================================================
