------------------------------- MODULE VmStack -------------------------------
(***************************************************************************)
(* The stack that vm.c keeps in byte memory implements StackSpec.  The     *)
(* abstract stack is read off the memory between sp and its end, the cell  *)
(* pushed first at the highest address.                                    *)
(***************************************************************************)
EXTENDS Vm

(* A return index is pushed as a value and must stay the same number: the  *)
(* loader refuses counts above SIZE_MAX / sizeof(wai_instruction), and no  *)
(* array the assembler grows is longer.                                    *)
ASSUME ProgramsFit == \A c \in Programs : Len(c) < Half

StackDepth == (MemorySize - sp) \div ValueSize
StackOf ==
    [k \in 1..StackDepth |-> LoadFrom(memory, MemorySize - k * ValueSize)]

Abstract ==
    INSTANCE StackSpec WITH stack <- StackOf, Depth <- MemorySize \div ValueSize

(* Every push, call, pop and ret of the stepping engine is that operation  *)
(* of a last-in-first-out stack of values, whatever program runs: values   *)
(* survive their way through bytes, pushing never disturbs a cell pushed   *)
(* before, and an overwritten return index is the only way astray.         *)
ImplementsStack == Abstract!Spec
=============================================================================
