----------------------------- MODULE VerifiedVm -----------------------------
(***************************************************************************)
(* The static checks beside the engine that runs the program: what an      *)
(* accepted program can still do wrong, and whether a rejected one was     *)
(* rejected with reason.                                                   *)
(***************************************************************************)
EXTENDS Vm, Verifier

Accepted == VerifyProgram(code).error = "OK"

(* The faults an accepted program may still have, with the instruction     *)
(* that has them: those that depend on what a register, the stack or the   *)
(* end of the program holds at run time.                                   *)
DynamicFault(e, ins) ==
    \/ e \in {"DIV_ZERO", "BAD_SHIFT", "MEMORY_OOB"} /\ ins.op \in SecondRegOps
    \/ e = "BAD_JUMP" /\ ins.op = "RET"
    \/ e = "STACK_OVERFLOW" /\ ins.op \in {"PUSH", "CALL"}
    \/ e = "STACK_UNDERFLOW" /\ ins.op \in {"POP", "RET"}

(* wai_verify_program is sound: running an accepted program never reaches  *)
(* an unknown opcode, a missing register, a jump or call out of the        *)
(* program, or an immediate operand that faults; what remains is dynamic,  *)
(* or running past the last instruction.                                   *)
AcceptedFaultsAreDynamic ==
    Accepted /\ code # <<>> /\ rc \notin {"OK", "IP_OUT_OF_BOUNDS"} =>
        DynamicFault(rc, code[ip])

(* wai_verify_program is complete for what it does report: if execution    *)
(* reaches the instruction it rejected, that step fails with the reported  *)
(* error, unless the reserved byte c was all that was wrong or the jump    *)
(* with the bad target was not taken.                                      *)
RejectedMeansFault ==
    [][/\ ~Accepted /\ ip = VerifyProgram(code).ip
       /\ Ready /\ ~halted /\ rc' # VerifyProgram(code).error
       => \/ Ins.c # 0
          \/ Ins.op \in JumpOps /\ ~Taken]_vars

(* The two checkers give every program the same verdict, so a file the     *)
(* loader accepts is one `waivm verify` calls ok, with the same error      *)
(* where it is not.                                                        *)
CheckersAgree == ValidateProgram(code) = VerifyProgram(code).error
=============================================================================
