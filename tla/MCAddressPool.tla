--------------------------- MODULE MCAddressPool ---------------------------
(***************************************************************************)
(* A driver for AddressPool: a pool of either family and of any size from  *)
(* a single address up to more than MaxAttempts can reach, from which      *)
(* addresses are leased and given back in any order.                       *)
(***************************************************************************)
EXTENDS AddressPool, FiniteSets

CONSTANT MaxSize            \* largest pool

VARIABLES pool, used        \* used: the map of activeAddresses

poolVars == <<pool, used>>

SmallPools == [family : Families, size : 1..MaxSize]

PoolInit == pool \in SmallPools /\ used = {}

LeaseAddress ==
    /\ FirstAvailableAddress(pool, used) # Exhausted
    /\ used' = used \cup {FirstAvailableAddress(pool, used)}
    /\ UNCHANGED pool

ReleaseAddress ==
    /\ \E a \in used : used' = used \ {a}
    /\ UNCHANGED pool

\* ErrCapacityExhausted
RefuseAddress ==
    /\ FirstAvailableAddress(pool, used) = Exhausted
    /\ UNCHANGED poolVars

PoolNext == LeaseAddress \/ ReleaseAddress \/ RefuseAddress

PoolSpec == PoolInit /\ [][PoolNext]_poolVars

\* The loop of firstAvailableAddress and its reference definition agree: it
\* returns the least free host address, and gives up exactly when there is
\* none, whatever was released before.
LoopFindsFirstFree ==
    FirstFree(pool, used) = {FirstAvailableAddress(pool, used)} \ {Exhausted}

\* Only host addresses of the prefix are ever leased: not the network
\* address, not the one after it (the gateway's own), not the last address
\* of an IPv4 prefix, nothing outside the prefix; so a /31 or /32 yields
\* nothing and a /30 one address.
OnlyHostsLeased ==
    \A a \in used :
        /\ a >= 2
        /\ a < pool.size
        /\ pool.family = "ipv4" => a # pool.size - 1

\* Addresses are exhausted only when all the host addresses the loop may try
\* are leased: no address is lost to a boundary of the loop, or for having
\* been released.
ExhaustedMeansFull ==
    LET last == IF pool.family = "ipv4" THEN pool.size - 2 ELSE pool.size - 1
    IN  FirstAvailableAddress(pool, used) = Exhausted =>
            2..last \subseteq used \/ Cardinality(used) >= MaxAttempts
=============================================================================
