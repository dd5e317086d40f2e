-------------------------- MODULE DeviceService --------------------------
(***************************************************************************)
(* What the device handlers are promised by the service behind them        *)
(* (interface DeviceService in services/api/internal/httpapi/devices.go):  *)
(* whose devices there are, the one way a device's state goes, and the     *)
(* configurations that were answered, which are what a client may still    *)
(* be using.                                                               *)
(*                                                                         *)
(* The repository has two implementations: postgres.Store (ControlStore)   *)
(* and the in-memory control.Service (ControlService).  How they choose    *)
(* addresses, when they refuse and what they remember is left to them.     *)
(***************************************************************************)
CONSTANTS Users, Devices, NoUser

VARIABLES
    state,          \* by device: Device.State, "none" before registration
    owner,          \* by device: its user
    answers         \* by <<device, Idempotency-Key>>: the region and the
                    \* configuration the request was first answered with

promised == <<state, owner, answers>>

\* A key belongs to the first user who registers it.
Register(u, d) ==
    /\ state[d] = "none"
    /\ state' = [state EXCEPT ![d] = "active"]
    /\ owner' = [owner EXCEPT ![d] = u]
    /\ UNCHANGED answers

\* Only the owner revokes a device, and a revoked one stays so.
Revoke(u, d) ==
    /\ owner[d] = u
    /\ state[d] # "none"
    /\ state' = [state EXCEPT ![d] = IF @ = "revoked" THEN @ ELSE "revocation_pending"]
    /\ UNCHANGED <<owner, answers>>

\* Revocations complete.
Complete(D) ==
    /\ \A d \in D : state[d] = "revocation_pending"
    /\ state' = [d \in Devices |-> IF d \in D THEN "revoked" ELSE state[d]]
    /\ UNCHANGED <<owner, answers>>

\* Configurations that some client may be using: those answered in the region
\* to devices whose revocation is not complete.
InUse(r) ==
    {answers[e].response : e \in {f \in DOMAIN answers :
        answers[f].region = r /\ state[f[1]] # "revoked"}}

\* A first answer under a key: for an active device of the asking user, what
\* the device was answered before in the same region, or an assignment and
\* addresses that nobody else has.  What was answered does not change.
FirstAnswer(u, e) ==
    /\ owner[e[1]] = u
    /\ state[e[1]] = "active"
    /\ e \notin DOMAIN answers
    /\ DOMAIN answers' = DOMAIN answers \cup {e}
    /\ \A f \in DOMAIN answers : answers'[f] = answers[f]
    /\ \/ \E f \in DOMAIN answers : f[1] = e[1] /\ answers'[e] = answers[f]
       \/ LET new == answers'[e] IN
          /\ \A f \in DOMAIN answers :
                answers[f].response.assignment # new.response.assignment
          /\ \A used \in InUse(new.region) :
                new.response.v4 # used.v4 /\ new.response.v6 # used.v6
    /\ UNCHANGED <<state, owner>>

PromiseInit ==
    /\ state = [d \in Devices |-> "none"]
    /\ owner = [d \in Devices |-> NoUser]
    /\ answers = [e \in {} |-> e]

PromiseNext ==
    \/ \E u \in Users, d \in Devices : Register(u, d) \/ Revoke(u, d)
    \/ \E D \in SUBSET Devices : Complete(D)
    \/ \E u \in Users, e \in DOMAIN answers' : FirstAnswer(u, e)

Promise == PromiseInit /\ [][PromiseNext]_promised
=============================================================================
