------------------------------- MODULE Machine -------------------------------
(***************************************************************************)
(* What an instruction computes, apart from the engine that executes it:   *)
(* whole values in byte memory, the result of the two-operand data         *)
(* instructions.  vm.c and the NASM core each have code for these; where   *)
(* the engines differ (order, registers, error paths) their modules do.    *)
(***************************************************************************)
EXTENDS Instruction

Address == 0 .. (MemorySize - 1)

(* Memory of whole values, at any byte address. *)
LoadFrom(m, address) == FromBytes([i \in ByteIndex |-> m[address + i]])
StoreTo(m, address, v) ==
    [x \in Address |->
        IF x - address \in ByteIndex THEN ByteOf(v, x - address) ELSE m[x]]

(* Second operand w, first operand v and destination. *)
AluResult(op, v, w) ==
    CASE op \in {"MOV_IMM", "MOV_REG"} -> w
      [] op \in {"ADD_IMM", "ADD_REG"} -> Signed(v + w)
      [] op \in {"SUB_IMM", "SUB_REG"} -> Signed(v - w)
      [] op \in {"MUL_IMM", "MUL_REG"} -> Signed(v * w)
      [] op \in {"AND_IMM", "AND_REG"} -> And(v, w)
      [] op \in {"OR_IMM", "OR_REG"} -> Or(v, w)
      [] op \in {"XOR_IMM", "XOR_REG"} -> Xor(v, w)

DivResult(op, v, w) ==
    IF op \in {"DIV_IMM", "DIV_REG"} THEN Quot(v, w) ELSE Rem(v, w)

ShiftResult(op, v, s) ==
    IF op \in {"SHL_IMM", "SHL_REG"} THEN Shl(v, s) ELSE Shr(v, s)
=============================================================================
