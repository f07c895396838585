----------------------------- MODULE MCDebugger -----------------------------
(* Debugger sessions of any length over a few programs: a counted loop     *)
(* through call and ret, an endless loop, a failure, a run past the end.   *)
EXTENDS Debugger, MCPrograms

Counted == <<Imm("MOV_IMM", 0, 2), Imm("CALL", 0, 4), Imm("JNZ", 0, 1),
             Bare("HALT"), Imm("SUB_IMM", 0, 1), Bare("RET")>>
Endless == <<Imm("PUSH", 0, 0), Imm("JMP", 0, 2), Imm("JMP", 0, 1)>>
Overflows == <<Imm("PUSH", 0, 0), Imm("JMP", 0, 0)>>
RunsOn == <<Imm("POP", 0, 0)>>
Past == <<Bare("NOP")>>
Traps == <<Imm("MOV_IMM", 0, -8), Imm("DIV_IMM", 0, -1)>>
MCSessions == {Counted, Endless, Overflows, RunsOn, Past, Traps, <<>>}
MCResumed == {Counted}
=============================================================================
