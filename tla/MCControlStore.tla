-------------------------- MODULE MCControlStore --------------------------
(***************************************************************************)
(* ControlStore for TLC: one user, three devices, one region of two        *)
(* gateways with capacities 1 and 2 next to a second region, an IPv4 pool  *)
(* of two usable addresses (fewer than devices) and a wider IPv6 pool, so  *)
(* that capacity and the pool both run out and addresses are reused.       *)
(***************************************************************************)
EXTENDS ControlStore, TLC

CONSTANTS g1, g2, g3, r1, r2

MCGatewayRegion == g1 :> r1 @@ g2 :> r1 @@ g3 :> r2
MCCapacity == g1 :> 1 @@ g2 :> 2 @@ g3 :> 1
MCPool4 == [r \in Regions |-> [family |-> "ipv4", size |-> 5]]
MCPool6 == [r \in Regions |-> [family |-> "ipv6", size |-> 6]]

Symmetry == Permutations(Devices) \cup Permutations(Slots) \cup Permutations(Users)
=============================================================================
