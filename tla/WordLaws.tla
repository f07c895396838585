------------------------------ MODULE WordLaws ------------------------------
(***************************************************************************)
(* What the two byte loops of the C engine (vm.c:82-100) owe to each       *)
(* other, for whatever values the registers of the machine come to hold.   *)
(***************************************************************************)
EXTENDS Vm

Held == {regs[r] : r \in Register}

(* The value a load assembles from the bytes a store wrote, in the other   *)
(* loop, is the value that was stored, negative values included.           *)
RoundTrips(v) == FromBytes([i \in ByteIndex |-> ByteOf(v, i)]) = v
BytesRoundTrip == \A v \in Held : RoundTrips(v)
=============================================================================
