------------------------------- MODULE MCTrace -------------------------------
(* Tracing with a limit of five steps: programs of up to three             *)
(* instructions that halt, loop, fail and run on, and straight ones that   *)
(* halt one step before the limit, at it and one step after.               *)
EXTENDS Trace, MCPrograms

TraceAlphabet ==
    {Imm("MOV_IMM", 0, 2), Imm("SUB_IMM", 0, 1), Imm("JNZ", 0, 1),
     Imm("JMP", 0, 0), Bare("HALT"), Imm("CALL", 0, 0), Bare("RET"),
     Imm("DIV_IMM", 0, 0), Bare("INVALID"), Imm("MOV_IMM", 1, -8),
     Imm("DIV_IMM", 1, -1)}
Straight == {[k \in 1..n |-> IF k = n THEN Bare("HALT") ELSE Bare("NOP")] : n \in 4..6}
MCTraced == ProgramsUpTo(3, TraceAlphabet) \cup Straight
=============================================================================
