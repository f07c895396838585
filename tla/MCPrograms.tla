----------------------------- MODULE MCPrograms -----------------------------
(***************************************************************************)
(* The programs the small instances load: every program up to a length     *)
(* over an alphabet of instructions.  Values have 4 bits (two bytes of two *)
(* bits), so -8 .. 7; memory has 6 bytes, so three stack cells and the     *)
(* addresses 0 .. 4.  The alphabets hold the operands at which the checks  *)
(* of the code change their answer.                                        *)
(***************************************************************************)
EXTENDS Instruction

Ins3(o, x, y, v) == [op |-> o, a |-> x, b |-> y, c |-> 0, imm |-> v]
Imm(o, x, v) == Ins3(o, x, 0, v)
Bare(o) == Ins3(o, 0, 0, 0)

ProgramsUpTo(n, alphabet) == UNION {[1..k -> alphabet] : k \in 0..n}

(* One of each family, with register operands set by the movs. *)
DataAlphabet ==
    {Imm("MOV_IMM", 0, -8), Imm("MOV_IMM", 1, -1), Imm("MOV_IMM", 1, 3),
     Ins3("MOV_REG", 0, 1, 0), Imm("ADD_IMM", 0, 7), Ins3("SUB_REG", 0, 1, 0),
     Ins3("MUL_REG", 1, 0, 0), Ins3("DIV_REG", 0, 1, 0), Imm("DIV_IMM", 0, 0),
     Ins3("MOD_REG", 1, 0, 0), Imm("MOD_IMM", 0, -1), Ins3("AND_REG", 0, 1, 0),
     Imm("OR_IMM", 0, 5), Ins3("XOR_REG", 0, 0, 0), Imm("NOT", 0, 0),
     Ins3("SHL_REG", 0, 1, 0), Imm("SHR_IMM", 0, 1), Imm("SHR_IMM", 0, 4),
     Imm("CMP_IMM", 0, -1), Ins3("CMP_REG", 0, 1, 0), Imm("PRINT", 1, 0),
     Ins3("LOAD_REG", 0, 1, 0), Imm("STORE_ABS", 1, 4), Imm("LOAD_ABS", 0, 5),
     Ins3("STORE_REG", 0, 1, 0), Imm("JMP", 0, 0), Imm("JZ", 0, 2),
     Imm("JNZ", 1, 5), Imm("JE", 0, 1), Imm("JNE", 0, -1), Bare("NOP"),
     Bare("HALT"), Bare("INVALID"), Imm("PUSH", 2, 0), Ins3("MOV_REG", 0, 2, 0)}

(* The stack, what can damage it, and the transfers that go through it. *)
StackAlphabet ==
    {Imm("MOV_IMM", 0, 3), Imm("MOV_IMM", 1, 5), Imm("PUSH", 0, 0),
     Imm("PUSH", 1, 0), Imm("POP", 1, 0), Imm("CALL", 0, 1), Imm("CALL", 0, 3),
     Imm("CALL", 0, 4), Bare("RET"), Imm("STORE_ABS", 0, 3), Imm("JMP", 0, 0),
     Imm("JNZ", 1, 2)}
=============================================================================
