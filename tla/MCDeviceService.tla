-------------------------- MODULE MCDeviceService --------------------------
(***************************************************************************)
(* The two implementations of the device service for TLC, and the address  *)
(* allocator by itself.  A behaviour is one of the control store (the      *)
(* instance of MCControlStore), of the in-memory service with the same     *)
(* users, devices and keys, or of the driver of MCAddressPool.             *)
(***************************************************************************)
EXTENDS MCControlStore, MCAddressPool

CONSTANTS LastHost

VARIABLES subject, memState, memOwner, idempotency, regionNextHost

memVars == <<memState, memOwner, idempotency, regionNextHost>>

Memory == INSTANCE ControlService
              WITH state <- memState, owner <- memOwner, Offered <- {r1}

ASSUME Memory!ControlServiceAssumption

Init ==
    /\ subject \in {"store", "memory", "allocator"}
    /\ StoreInit
    /\ Memory!NewService
    /\ PoolInit
    /\ subject # "allocator" => pool = [family |-> "ipv4", size |-> 1]

Next ==
    /\ \/ subject = "store" /\ StoreNext /\ UNCHANGED <<memVars, poolVars>>
       \/ subject = "memory" /\ Memory!ServiceNext /\ UNCHANGED <<storeVars, poolVars>>
       \/ subject = "allocator" /\ PoolNext /\ UNCHANGED <<storeVars, memVars>>
    /\ UNCHANGED subject

Spec == Init /\ [][Next]_<<subject, storeVars, memVars, poolVars>>

\* The properties of the in-memory service.
ServiceTypeOK == Memory!ServiceTypeOK
CounterIsTheAllocator == Memory!CounterIsTheAllocator
MemoryKeepsPromise == Memory!MemoryKeepsPromise
=============================================================================
