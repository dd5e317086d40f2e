------------------------ MODULE SessionStoreProofs ------------------------
(***************************************************************************)
(* Proofs about SessionStore, for any users and any number of pairs.       *)
(*                                                                         *)
(* The inductive invariant adds to the properties of SessionStore what     *)
(* they lean on: ids are used once (every family and every token in a      *)
(* table belongs to a family id already taken), so a new pair collides     *)
(* with nothing, neither in the tables nor among the consumed tokens.      *)
(***************************************************************************)
EXTENDS SessionStore, TLAPS

\* Everything in the tables was issued under a family id that is taken.
IdsAreUsed ==
    /\ DOMAIN families \subseteq DOMAIN login
    /\ \A t \in DOMAIN sessions : t[1] \in DOMAIN login
    /\ \A t \in DOMAIN consumed : t[1] \in DOMAIN login

SessionInv ==
    /\ SessionTypeOK
    /\ IndexConsistent
    /\ IdsAreUsed
    /\ OneFamilyPerLogin

-----------------------------------------------------------------------------
\* What the revocation helpers return: no new session or family, none of the
\* revoked families, everything else as it was.
LEMMA RevocationShrinks ==
    ASSUME SessionInv, NEW fs \in SUBSET Families
    PROVE  /\ DOMAIN SessionsWithout(fs) =
                  {t \in DOMAIN sessions : sessions[t].family \notin fs}
           /\ \A t \in DOMAIN SessionsWithout(fs) :
                  SessionsWithout(fs)[t] = sessions[t]
           /\ DOMAIN FamiliesWithout(fs) = DOMAIN families \ fs
           /\ \A f \in DOMAIN FamiliesWithout(fs) :
                  FamiliesWithout(fs)[f] = families[f]
<1>1. ASSUME NEW t \in DOMAIN sessions
      PROVE  (\A f \in fs \cap DOMAIN families : t \notin families[f])
                 <=> sessions[t].family \notin fs
  BY DEF SessionInv, IndexConsistent
<1>2. DOMAIN sessions \subseteq Tokens /\ DOMAIN families \subseteq Families
  BY DEF SessionInv, SessionTypeOK
<1> QED
  BY <1>1, <1>2 DEF SessionsWithout, FamiliesWithout, Restricted

\* Revoking any set of families and issuing nothing keeps the invariant.
LEMMA RevokingKeepsInv ==
    ASSUME SessionInv, NEW fs \in SUBSET Families,
           sessions' = SessionsWithout(fs),
           families' = FamiliesWithout(fs),
           UNCHANGED <<consumed, login>>,
           loggingIn' \subseteq Users, loggingOut' \subseteq Users,
           disabled' \subseteq Users
    PROVE  SessionInv'
<1>1. /\ DOMAIN sessions' =
             {t \in DOMAIN sessions : sessions[t].family \notin fs}
      /\ \A t \in DOMAIN sessions' : sessions'[t] = sessions[t]
      /\ DOMAIN families' = DOMAIN families \ fs
      /\ \A f \in DOMAIN families' : families'[f] = families[f]
  BY RevocationShrinks
<1>2. sessions' = [t \in DOMAIN sessions' |-> sessions'[t]]
  BY DEF SessionsWithout, Restricted
<1>3. families' = [f \in DOMAIN families' |-> families'[f]]
  BY DEF FamiliesWithout, Restricted
<1>4. SessionTypeOK'
  <2>1. sessions' \in [DOMAIN sessions' -> Session]
    BY <1>1, <1>2 DEF SessionInv, SessionTypeOK
  <2>2. families' \in [DOMAIN families' -> SUBSET Tokens]
    BY <1>1, <1>3 DEF SessionInv, SessionTypeOK
  <2> QED
    BY <1>1, <2>1, <2>2 DEF SessionInv, SessionTypeOK
<1>5. IndexConsistent'
  BY <1>1 DEF SessionInv, IndexConsistent
<1>6. IdsAreUsed' /\ OneFamilyPerLogin'
  BY <1>1 DEF SessionInv, IdsAreUsed, OneFamilyPerLogin
<1> QED
  BY <1>4, <1>5, <1>6 DEF SessionInv

\* Issuing a pair under a fresh family id, for a new login or in place of the
\* family old that was revoked in the same step, keeps the invariant.
LEMMA IssuingKeepsInv ==
    ASSUME SessionInv, NEW u \in Users, NEW f \in Families,
           NEW fs \in SUBSET Families, NEW root,
           IssuePair(u, f, SessionsWithout(fs), FamiliesWithout(fs)),
           StartChain(f, root),
           root \in DOMAIN login \cup {f},
           \A g \in DOMAIN families \ fs : login[g] # root,
           DOMAIN consumed' \subseteq Tokens,
           consumed' \in [DOMAIN consumed' -> Users],
           \A t \in DOMAIN consumed' :
               t \in DOMAIN consumed
               \/ (t \in DOMAIN sessions /\ sessions[t].family \in fs),
           loggingIn' \subseteq Users,
           UNCHANGED <<loggingOut, disabled>>
    PROVE  SessionInv'
<1> DEFINE New == {f} \X Kinds
           ss == SessionsWithout(fs)
           ff == FamiliesWithout(fs)
<1>1. /\ DOMAIN ss = {t \in DOMAIN sessions : sessions[t].family \notin fs}
      /\ \A t \in DOMAIN ss : ss[t] = sessions[t]
      /\ DOMAIN ff = DOMAIN families \ fs
      /\ \A e \in DOMAIN ff : ff[e] = families[e]
  BY RevocationShrinks
<1>2. f \notin DOMAIN login
  BY DEF IssuePair
<1>3. /\ \A t \in New : t \in Tokens /\ t[1] = f /\ t[2] \in Kinds
      /\ New \subseteq Tokens
  BY DEF Tokens
<1>4. /\ \A t \in DOMAIN sessions : t \notin New
      /\ \A t \in DOMAIN consumed' : t \notin New
      /\ f \notin DOMAIN families
  BY <1>2, <1>3 DEF SessionInv, IdsAreUsed
<1> HIDE DEF New, ss, ff
<1>5. /\ DOMAIN sessions' = DOMAIN ss \cup New
      /\ \A t \in New : sessions'[t] =
            [user |-> u, family |-> f, kind |-> t[2], expired |-> FALSE]
      /\ \A t \in DOMAIN ss : sessions'[t] = sessions[t]
      /\ sessions' = [t \in DOMAIN sessions' |-> sessions'[t]]
  BY <1>1, <1>4 DEF IssuePair, ss, New
<1>6. /\ DOMAIN families' = DOMAIN ff \cup {f}
      /\ families'[f] = New
      /\ \A e \in DOMAIN ff : families'[e] = families[e]
      /\ families' = [e \in DOMAIN families' |-> families'[e]]
  BY <1>1, <1>4 DEF IssuePair, ff, New
<1>7. /\ DOMAIN login' = DOMAIN login \cup {f}
      /\ login'[f] = root
      /\ \A e \in DOMAIN login : login'[e] = login[e]
      /\ login' = [e \in DOMAIN login' |-> login'[e]]
  BY <1>2 DEF StartChain
<1>8. SessionTypeOK'
  <2>1. \A t \in DOMAIN sessions' : sessions'[t] \in Session /\ t \in Tokens
    <3>1. ASSUME NEW t \in DOMAIN ss
          PROVE  sessions'[t] \in Session /\ t \in Tokens
      BY <1>1, <1>5 DEF SessionInv, SessionTypeOK
    <3>2. ASSUME NEW t \in New
          PROVE  sessions'[t] \in Session /\ t \in Tokens
      <4>1. t \in Tokens /\ t[2] \in Kinds
        BY <3>2, <1>3
      <4>2. [user |-> u, family |-> f, kind |-> t[2], expired |-> FALSE] \in Session
        BY <4>1 DEF Session
      <4>3. sessions'[t] =
                [user |-> u, family |-> f, kind |-> t[2], expired |-> FALSE]
        BY <3>2, <1>5
      <4> QED
        BY <4>1, <4>2, <4>3
    <3> QED
      BY <3>1, <3>2, <1>5
  <2>2. \A e \in DOMAIN families' : families'[e] \in SUBSET Tokens /\ e \in Families
    BY <1>1, <1>3, <1>6 DEF SessionInv, SessionTypeOK
  <2>3. \A e \in DOMAIN login' : login'[e] \in DOMAIN login' /\ e \in Families
    BY <1>7 DEF SessionInv, SessionTypeOK
  <2>4. /\ sessions' \in [DOMAIN sessions' -> Session]
        /\ DOMAIN sessions' \subseteq Tokens
    BY <1>5, <2>1
  <2>5. /\ families' \in [DOMAIN families' -> SUBSET Tokens]
        /\ DOMAIN families' \subseteq Families
    BY <1>6, <2>2
  <2>6. /\ login' \in [DOMAIN login' -> DOMAIN login']
        /\ DOMAIN login' \subseteq Families
    BY <1>7, <2>3
  <2> QED
    BY <2>4, <2>5, <2>6 DEF SessionInv, SessionTypeOK
<1>9. IndexConsistent'
  <2>1. ASSUME NEW e \in DOMAIN families', NEW t \in families'[e]
        PROVE  t \in DOMAIN sessions' /\ sessions'[t].family = e
    <3>1. CASE e = f
      BY <3>1, <1>5, <1>6
    <3>2. CASE e \in DOMAIN ff
      <4>1. t \in DOMAIN sessions /\ sessions[t].family = e /\ e \notin fs
        BY <3>2, <1>1, <1>6 DEF SessionInv, IndexConsistent
      <4> QED
        BY <4>1, <1>1, <1>5
    <3> QED
      BY <3>1, <3>2, <1>6
  <2>2. ASSUME NEW t \in DOMAIN sessions'
        PROVE  /\ sessions'[t].family \in DOMAIN families'
               /\ t \in families'[sessions'[t].family]
    <3>1. CASE t \in New
      BY <3>1, <1>5, <1>6
    <3>2. CASE t \in DOMAIN ss
      <4>1. /\ sessions'[t] = sessions[t]
            /\ sessions[t].family \in DOMAIN families \ fs
            /\ t \in families[sessions[t].family]
        BY <3>2, <1>1, <1>5 DEF SessionInv, IndexConsistent
      <4> QED
        BY <4>1, <1>1, <1>6
    <3> QED
      BY <3>1, <3>2, <1>5
  <2>3. ASSUME NEW s \in DOMAIN sessions', NEW t \in DOMAIN sessions',
               sessions'[s].family = sessions'[t].family
        PROVE  sessions'[s].user = sessions'[t].user
    <3>1. \A x \in DOMAIN ss : sessions'[x].family # f
      BY <1>1, <1>4, <1>5 DEF SessionInv, IndexConsistent
    <3>2. CASE s \in New /\ t \in New
      BY <3>2, <1>5
    <3>3. CASE s \in DOMAIN ss /\ t \in DOMAIN ss
      BY <3>3, <2>3, <1>1, <1>5 DEF SessionInv, IndexConsistent
    <3> QED
      BY <2>3, <3>1, <3>2, <3>3, <1>5
  <2> QED
    BY <2>1, <2>2, <2>3 DEF IndexConsistent
<1>10. IdsAreUsed'
  <2>1. \A t \in DOMAIN consumed' : t[1] \in DOMAIN login
    BY DEF SessionInv, IdsAreUsed
  <2> QED
    BY <2>1, <1>1, <1>3, <1>5, <1>6, <1>7 DEF SessionInv, IdsAreUsed
<1>11. OneFamilyPerLogin'
  <2>1. DOMAIN consumed' \cap DOMAIN sessions' = {}
    BY <1>1, <1>4, <1>5 DEF SessionInv, OneFamilyPerLogin
  <2>2. ASSUME NEW e \in DOMAIN families', NEW g \in DOMAIN families',
               login'[e] = login'[g]
        PROVE  e = g
    <3>1. \A h \in DOMAIN ff : /\ h \in DOMAIN families \ fs
                               /\ h \in DOMAIN login
                               /\ login'[h] = login[h]
                               /\ login[h] # root
      BY <1>1, <1>7 DEF SessionInv, IdsAreUsed
    <3>2. CASE e \in DOMAIN ff /\ g \in DOMAIN ff
      BY <2>2, <3>1, <3>2 DEF SessionInv, OneFamilyPerLogin
    <3> QED
      BY <2>2, <3>1, <3>2, <1>6, <1>7
  <2> QED
    BY <2>1, <2>2 DEF OneFamilyPerLogin
<1> QED
  BY <1>8, <1>9, <1>10, <1>11 DEF SessionInv

\* Expiry changes one field that no part of the invariant looks at.
LEMMA ExpiringKeepsInv ==
    ASSUME SessionInv, NEW t \in Tokens, Expire(t)
    PROVE  SessionInv'
<1>1. /\ DOMAIN sessions' = DOMAIN sessions
      /\ \A s \in DOMAIN sessions : /\ sessions'[s] \in Session
                                    /\ sessions'[s].family = sessions[s].family
                                    /\ sessions'[s].user = sessions[s].user
      /\ sessions' = [s \in DOMAIN sessions' |-> sessions'[s]]
  BY DEF Expire, SessionInv, SessionTypeOK, Session
<1>2. SessionTypeOK'
  BY <1>1 DEF Expire, SessionInv, SessionTypeOK
<1>3. IndexConsistent'
  BY <1>1 DEF Expire, SessionInv, IndexConsistent
<1>4. IdsAreUsed' /\ OneFamilyPerLogin'
  BY <1>1 DEF Expire, SessionInv, IdsAreUsed, OneFamilyPerLogin
<1> QED
  BY <1>2, <1>3, <1>4 DEF SessionInv

-----------------------------------------------------------------------------
\* Every critical section keeps the invariant.
LEMMA SessionStepKeepsInv ==
    ASSUME SessionInv, [Next]_vars
    PROVE  SessionInv'
<1> USE DEF SessionInv
<1>1. ASSUME UNCHANGED <<sessions, families, consumed, login>>,
             loggingIn' \subseteq Users, loggingOut' \subseteq Users,
             disabled' \subseteq Users
      PROVE  SessionInv'
  BY <1>1 DEF SessionTypeOK, IndexConsistent, IdsAreUsed, OneFamilyPerLogin
<1>2. ASSUME NEW u \in Users, VerifyCredentials(u) \/ OperatorDisables(u)
      PROVE  SessionInv'
  BY <1>1, <1>2 DEF VerifyCredentials, OperatorDisables, SessionTypeOK
<1>3. ASSUME NEW u \in Users, NEW f \in Families, Issue(u, f)
      PROVE  SessionInv'
  <2>1. SessionsWithout({}) = sessions /\ FamiliesWithout({}) = families
    BY DEF SessionsWithout, FamiliesWithout, Restricted, SessionTypeOK
  <2>2. IssuePair(u, f, SessionsWithout({}), FamiliesWithout({}))
    BY <1>3, <2>1 DEF Issue
  <2>3. \A g \in DOMAIN families : login[g] # f
    BY <1>3 DEF Issue, IssuePair, SessionTypeOK, IdsAreUsed
  <2> QED
    BY <1>3, <2>2, <2>3, IssuingKeepsInv DEF Issue, SessionTypeOK
<1>4. ASSUME NEW t \in Tokens, NEW f \in Families, RotateValid(t, f)
      PROVE  SessionInv'
  <2> DEFINE old == sessions[t]
  <2>1. /\ t \in DOMAIN sessions
        /\ old.user \in Users /\ old.family \in Families
        /\ old.family \in DOMAIN families /\ old.family \in DOMAIN login
    BY <1>4 DEF RotateValid, Valid, SessionTypeOK, Session, IndexConsistent,
                IdsAreUsed
  <2>2. \A g \in DOMAIN families \ {old.family} : login[g] # login[old.family]
    BY <2>1 DEF OneFamilyPerLogin
  <2>3. /\ DOMAIN consumed' = DOMAIN consumed \cup {t}
        /\ consumed' \in [DOMAIN consumed' -> Users]
    BY <1>4, <2>1 DEF RotateValid, Consume, SessionTypeOK
  <2>4. login[old.family] \in DOMAIN login
    BY <2>1 DEF SessionTypeOK
  <2>5. /\ IssuePair(old.user, f, SessionsWithout({old.family}),
                                  FamiliesWithout({old.family}))
        /\ StartChain(f, login[old.family])
        /\ UNCHANGED <<loggingIn, loggingOut, disabled>>
    BY <1>4 DEF RotateValid
  <2> QED
    BY <2>1, <2>2, <2>3, <2>4, <2>5, IssuingKeepsInv DEF SessionTypeOK
<1>5. ASSUME NEW t \in Tokens, RotateInvalid(t)
      PROVE  SessionInv'
  <2>1. {sessions[t].family} \in SUBSET Families
    BY <1>5 DEF RotateInvalid, SessionTypeOK, Session
  <2> QED
    BY <1>5, <2>1, RevokingKeepsInv DEF RotateInvalid, SessionTypeOK
<1>6. ASSUME NEW t \in Tokens, RotateConsumed(t)
      PROVE  SessionInv'
  <2>1. FamiliesOf(consumed[t]) \in SUBSET Families
    BY DEF FamiliesOf, SessionTypeOK
  <2> QED
    BY <1>6, <2>1, RevokingKeepsInv DEF RotateConsumed, SessionTypeOK
<1>7. ASSUME NEW t \in Tokens, AuthenticateLogout(t)
      PROVE  SessionInv'
  BY <1>1, <1>7 DEF AuthenticateLogout, Valid, SessionTypeOK, Session
<1>8. ASSUME NEW u \in Users, RevokeUser(u)
      PROVE  SessionInv'
  <2>1. FamiliesOf(u) \in SUBSET Families
    BY DEF FamiliesOf, SessionTypeOK
  <2> QED
    BY <1>8, <2>1, RevokingKeepsInv DEF RevokeUser, SessionTypeOK
<1>9. ASSUME NEW t \in Tokens, Expire(t)
      PROVE  SessionInv'
  BY <1>9, ExpiringKeepsInv
<1>10. CASE Restart
  BY <1>10 DEF Restart, Empty, SessionTypeOK, IndexConsistent, IdsAreUsed,
               OneFamilyPerLogin
<1>11. CASE UNCHANGED vars
  BY <1>1, <1>11 DEF vars, SessionTypeOK
<1> QED
  BY <1>2, <1>3, <1>4, <1>5, <1>6, <1>7, <1>8, <1>9, <1>10, <1>11
  DEF Next, RotateRefresh

\* The maps of SessionStore stay consistent with each other and every login
\* keeps at most one live family: SessionInv is inductive.
THEOREM SessionInvariant == Spec => []SessionInv
<1>1. Init => SessionInv
  BY DEF Init, Empty, SessionInv, SessionTypeOK, IndexConsistent, IdsAreUsed,
         OneFamilyPerLogin
<1>2. SessionInv /\ [Next]_vars => SessionInv'
  BY SessionStepKeepsInv
<1> QED
  BY <1>1, <1>2, PTL DEF Spec

\* The maps of SessionStore are well typed in every reachable state.
THEOREM SessionTypeCorrect == Spec => []SessionTypeOK
<1>1. SessionInv => SessionTypeOK
  BY DEF SessionInv
<1> QED
  BY <1>1, SessionInvariant, PTL

\* sessions and families never disagree.
THEOREM IndexAlwaysConsistent == Spec => []IndexConsistent
<1>1. SessionInv => IndexConsistent
  BY DEF SessionInv
<1> QED
  BY <1>1, SessionInvariant, PTL

\* A rotated token is dead, and so is everything issued with it.
THEOREM RotationSupersedes == Spec => []OneFamilyPerLogin
<1>1. SessionInv => OneFamilyPerLogin
  BY DEF SessionInv
<1> QED
  BY <1>1, SessionInvariant, PTL

\* Logout and reuse detection leave the user without a session: the families
\* revokeUserLocked finds are all there are, by IndexConsistent.
THEOREM RevocationLeavesNothing == Spec => RevocationIsComplete
<1> DEFINE Complete ==
      \A u \in Users :
          (\/ RevokeUser(u)
           \/ \E t \in DOMAIN consumed : consumed[t] = u /\ RotateConsumed(t))
          => \A t \in DOMAIN sessions' : sessions'[t].user # u
<1>1. SessionInv => Complete
  <2> SUFFICES ASSUME SessionInv, NEW u \in Users,
                      \/ RevokeUser(u)
                      \/ \E t \in DOMAIN consumed :
                             consumed[t] = u /\ RotateConsumed(t),
                      NEW s \in DOMAIN sessions'
               PROVE  sessions'[s].user # u
    OBVIOUS
  <2>1. sessions' = SessionsWithout(FamiliesOf(u))
    BY DEF RevokeUser, RotateConsumed
  <2>2. FamiliesOf(u) \in SUBSET Families
    BY DEF FamiliesOf, SessionInv, SessionTypeOK
  <2>3. /\ s \in DOMAIN sessions
        /\ sessions[s].family \notin FamiliesOf(u)
        /\ sessions'[s] = sessions[s]
    BY <2>1, <2>2, RevocationShrinks
  <2> QED
    BY <2>3 DEF FamiliesOf, SessionInv, IndexConsistent
<1> QED
  BY <1>1, SessionInvariant, PTL DEF Spec, RevocationIsComplete
=============================================================================
