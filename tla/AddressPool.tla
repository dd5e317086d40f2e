---------------------------- MODULE AddressPool ----------------------------
(***************************************************************************)
(* The host-address allocator of services/api/internal/postgres/store.go   *)
(* (firstAvailableAddress).  A pool is a CIDR prefix; its addresses are    *)
(* written as offsets 0 .. size-1 from the masked base address, which      *)
(* keeps the arithmetic of netip.Addr.Next and netip.Prefix.Contains and   *)
(* drops the textual form.  Leaving the prefix and leaving the address     *)
(* family look the same to the code (Contains of the zero Addr is false),  *)
(* so an offset that is not below the size stands for both.                *)
(***************************************************************************)
EXTENDS Integers

CONSTANT MaxAttempts        \* 65535 in the code: addresses tried per call

ASSUME MaxAttemptsAssumption == MaxAttempts \in Nat

Families == {"ipv4", "ipv6"}

\* A region's pool: regions.ipv4_pool or regions.ipv6_pool.
Pools == [family : Families, size : Nat \ {0}]

\* What firstAvailableAddress returns with ErrCapacityExhausted.
Exhausted == -1

Contains(pool, offset) == offset < pool.size

\* Mutant: only the network address is skipped.
FirstHostAfterNetwork == 1

\* pool.Masked().Addr().Next().Next()
FirstHost == 2

\* Mutants: the check is missing, or made for IPv6 too.
NothingReserved(pool, candidate) == FALSE
LastReservedInBoth(pool, candidate) == ~Contains(pool, candidate + 1)

\* The final IPv4 address is not a host.
LastReserved(pool, candidate) ==
    pool.family = "ipv4" /\ ~Contains(pool, candidate + 1)

(***************************************************************************)
(* The loop of firstAvailableAddress, iteration by iteration: the          *)
(* candidate of iteration i is the first one advanced i times.             *)
(***************************************************************************)
FirstAvailableAddress(pool, used) ==
    LET loop[i \in 0..MaxAttempts] ==
            LET candidate == FirstHost + i
            IN  IF \/ i = MaxAttempts
                   \/ ~Contains(pool, candidate)
                   \/ LastReserved(pool, candidate)
                THEN Exhausted
                ELSE IF candidate \notin used THEN candidate ELSE loop[i + 1]
    IN  loop[0]

(***************************************************************************)
(* The same allocator without the loop: the addresses it may ever hand     *)
(* out, and the set holding the least free one (empty when there is none). *)
(* ControlStore is written with these; the run control_store shows that    *)
(* they describe the loop.                                                 *)
(***************************************************************************)
HostCandidates(pool) ==
    {a \in 2..(MaxAttempts + 1) : Contains(pool, a) /\ ~LastReserved(pool, a)}

FirstFree(pool, used) ==
    LET free == HostCandidates(pool) \ used
    IN  {a \in free : \A b \in free : a <= b}
=============================================================================
