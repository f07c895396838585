-------------------------------- MODULE MCVm --------------------------------
(***************************************************************************)
(* The stepping engine, the abstract stack and the static checkers beside  *)
(* it, on every program of up to three instructions of the data alphabet,  *)
(* of up to four of the stack's, and, for the checkers, on each opcode     *)
(* with operands on both sides of every static check, alone or with an     *)
(* instruction before and after it.                                        *)
(***************************************************************************)
EXTENDS VmStack, VerifiedVm, WordLaws, MCPrograms

Boundary ==
    {Ins3(op, a, b, v) : op \in Opcode \ ImmOps, a \in {0, 2}, b \in {1, 2},
                         v \in {-1, 0, 1, 2, 3, 4, 5}}
        \cup {Imm(op, a, 7) : op \in ImmOps, a \in {1, 2}}
        \cup {Bare("INVALID"), [Bare("NOP") EXCEPT !.c = 1],
              [Imm("JMP", 0, 9) EXCEPT !.c = 1, !.imm = 7]}

Around == {Imm("MOV_IMM", 1, 2), Imm("MOV_IMM", 0, -8), Bare("NOP")}

MCBoundary ==
    [1..1 -> Boundary]
        \cup {<<f, i>> : f \in Around, i \in Boundary}
        \cup {<<f, i, g>> : f \in Around, i \in Boundary, g \in {Bare("RET"), Bare("INVALID")}}

MCMachines == ProgramsUpTo(3, DataAlphabet) \cup ProgramsUpTo(4, StackAlphabet) \cup MCBoundary
=============================================================================
