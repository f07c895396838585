-------------------------------- MODULE MCRun --------------------------------
(***************************************************************************)
(* `waivm run`, and the NASM core within it, on every non-empty program of *)
(* the small alphabets, and on two data instructions with both registers   *)
(* set first.  The empty program is left out: wai_vm_step refuses NULL     *)
(* code with WAI_ERR_PARSE (vm.c:141), the core finds ip past the end      *)
(* (vm_linux_x86_64.asm:96).                                               *)
(***************************************************************************)
EXTENDS RunCommand, AsmRefinement, MCPrograms

MCSteps == (ProgramsUpTo(2, DataAlphabet \cup StackAlphabet)
               \cup ProgramsUpTo(3, StackAlphabet)) \ {<<>>}
MCSetup == {<<i, j, k, l>> : i \in {Imm("MOV_IMM", 0, -8), Imm("MOV_IMM", 0, 2)},
                             j \in {Imm("MOV_IMM", 1, -1), Imm("MOV_IMM", 1, 3)},
                             k \in DataAlphabet, l \in DataAlphabet}
MCRuns == MCSteps \cup MCSetup

(* mov r0, 1; div r0, 0; halt: a source that assembles and then fails.     *)
MCFailing == {<<Imm("MOV_IMM", 0, 1), Imm("DIV_IMM", 0, 0), Bare("HALT")>>}

(* mov r0, MinValue; div r0, -1; halt. *)
MCTrapping == {<<Imm("MOV_IMM", 0, -8), Imm("DIV_IMM", 0, -1), Bare("HALT")>>}
=============================================================================
