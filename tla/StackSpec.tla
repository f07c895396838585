------------------------------ MODULE StackSpec ------------------------------
(***************************************************************************)
(* What docs/vm-abi.md promises of the VM stack, free of memory, bytes and *)
(* stack pointers: a bounded last-in-first-out sequence of values.  push   *)
(* and call add one value and leave the rest alone, pop and ret deliver    *)
(* exactly the value that was added last, and nothing else changes it,     *)
(* except a store instruction, which may overwrite cells but not add or    *)
(* remove any.                                                             *)
(***************************************************************************)
EXTENDS Naturals, Sequences

CONSTANTS Value, Register, Depth

VARIABLES
    stack,   \* the values on the stack, the top last
    regs,    \* the VM's registers
    ip       \* its instruction index

vars == <<stack, regs, ip>>

Front(s) == SubSeq(s, 1, Len(s) - 1)
TopValue == stack[Len(stack)]

Init == stack = <<>> /\ regs \in [Register -> Value] /\ ip = 0

Push ==
    /\ Len(stack) < Depth
    /\ \E r \in Register : stack' = Append(stack, regs[r])
    /\ ip' = ip + 1 /\ UNCHANGED regs

(* The return index is the instruction after the call. *)
Call ==
    /\ Len(stack) < Depth
    /\ stack' = Append(stack, ip + 1)
    /\ ip' \in Nat /\ UNCHANGED regs

Pop ==
    /\ stack # <<>>
    /\ \E r \in Register : regs' = [regs EXCEPT ![r] = TopValue]
    /\ stack' = Front(stack)
    /\ ip' = ip + 1

(* ret goes to the value it pops, or fails after popping it. *)
Ret ==
    /\ stack # <<>>
    /\ stack' = Front(stack)
    /\ ip' \in {TopValue, ip + 1} /\ UNCHANGED regs

Overwrite ==
    /\ stack' \in [1..Len(stack) -> Value]
    /\ ip' = ip + 1 /\ UNCHANGED regs

Local == UNCHANGED stack /\ regs' \in [Register -> Value] /\ ip' \in Nat

Next == Push \/ Call \/ Pop \/ Ret \/ Overwrite \/ Local

Spec == Init /\ [][Next]_vars
=============================================================================
