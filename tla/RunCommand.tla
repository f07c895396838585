----------------------------- MODULE RunCommand -----------------------------
(***************************************************************************)
(* wai_vm_execute, which runs a VM on the NASM core, and `waivm run` around *)
(* it: command_run loads a program, executes it and reports a failure with *)
(* vm.ip.  wai_vm_execute has a second caller, tests/test_vm.c:118-145,    *)
(* with programs made by hand, so it is executed here on every program;    *)
(* what command_run does after it happens only to those it can load.       *)
(***************************************************************************)
EXTENDS AsmCore, Verifier

VARIABLE report   \* what command_run printed and returned

runVars == <<vars, report>>

NoReport == [exit |-> "none", error |-> "OK", ip |-> 0]

(* load_program_auto: bytecode passes validate_program, and a source's     *)
(* program can only be refused for what the assembler does not look at.    *)
Loadable(program) ==
    \A i \in 1..Len(program) : RefusableFor(program, program[i])

RunInit == Init /\ report = NoReport

Execution == Step /\ UNCHANGED report

(* Mutant of ExecuteResult: the core's return value is ignored. *)
ExecuteIgnored == "OK"

(* wai_vm_execute: vm->error counts only when the core returned nonzero. *)
ExecuteResult == IF result # 0 THEN error ELSE "OK"

Report ==
    /\ At("returned") /\ report = NoReport /\ Loadable(code)
    /\ report' = IF ExecuteResult # "OK"
                 THEN [exit |-> "CLI_ERR", error |-> ExecuteResult, ip |-> ip]
                 ELSE [exit |-> "CLI_OK", error |-> "OK", ip |-> 0]
    /\ UNCHANGED vars

RunEnded ==
    /\ \/ report # NoReport
       \/ At("returned") /\ ~Loadable(code)
       \/ At("trap")
    /\ UNCHANGED runVars

RunNext == Execution \/ Report \/ RunEnded

RunSpec == RunInit /\ [][RunNext]_runVars

----------------------------------------------------------------------------
(* What the instruction at r13 reads. *)
Operand == IF Ins.op \in SecondRegOps THEN regs[Ins.b] ELSE Ins.imm
Taken ==
    CASE Ins.op = "JZ" -> regs[Ins.a] = 0
      [] Ins.op = "JNZ" -> regs[Ins.a] # 0
      [] Ins.op = "JE" -> zf
      [] Ins.op = "JNE" -> ~zf
      [] OTHER -> TRUE
PoppedValue == LoadFrom(memory, sp - ValueSize)

(* When the instruction set gives the instruction at r13 error e, read off *)
(* the machine as the failure left it: only ret has moved sp by then.      *)
FailsWith(e) ==
    CASE e = "BAD_OPCODE" -> Ins.op = "INVALID"
      [] e = "BAD_REGISTER" -> BadRegister(Ins)
      [] e = "DIV_ZERO" -> Ins.op \in DivOps /\ Operand = 0
      [] e = "BAD_SHIFT" -> Ins.op \in ShiftOps /\ BadShift(Operand)
      [] e = "MEMORY_OOB" -> Ins.op \in LoadOps \cup StoreOps /\ BadAddress(Operand)
      [] e = "STACK_OVERFLOW" ->
            /\ Ins.op \in {"PUSH", "CALL"} /\ sp < ValueSize
            /\ Ins.op = "CALL" => ~BadTarget(code, Ins.imm)
      [] e = "STACK_UNDERFLOW" ->
            Ins.op \in {"POP", "RET"} /\ sp > MemorySize - ValueSize
      [] e = "BAD_JUMP" ->
            \/ Ins.op \in JumpOps \cup {"CALL"} /\ Taken /\ BadTarget(code, Ins.imm)
            \/ Ins.op = "RET" /\ sp >= ValueSize /\ BadTarget(code, PoppedValue)
      [] OTHER -> FALSE

(* Why execution ended: ip ran past the last instruction, or the one       *)
(* before ip is the instruction fetched last and fails with that error,    *)
(* its registers being good unless the error is about them or the opcode.  *)
Explains(e) ==
    IF e = "IP_OUT_OF_BOUNDS" THEN ip = Len(code)
    ELSE /\ ip = r13 + 1
         /\ FailsWith(e)
         /\ e \notin {"BAD_OPCODE", "BAD_REGISTER"} => ~BadRegister(Ins)

(* The exit code and the message tell what happened: success exactly for a *)
(* program that halted, and otherwise the error that the instruction at    *)
(* which the core left its loop really has.  What loading refuses, `waivm  *)
(* run` never reports: opcodes and registers that do not exist.            *)
ExitTellsOutcome ==
    /\ At("returned") => /\ (ExecuteResult = "OK") = halted
                         /\ ExecuteResult # "OK" => Explains(ExecuteResult)
    /\ report # NoReport =>
          /\ (report.exit = "CLI_OK") = halted
          /\ report.error # "OK" => Explains(report.error)
          /\ report.error \notin {"BAD_OPCODE", "BAD_REGISTER"}

(* docs/code-quality-policy.md:19: errors keep enough context to identify  *)
(* the failing instruction.  The ip in the message is the index of the     *)
(* instruction that failed, as it is in the debugger's message.            *)
ReportNamesInstruction ==
    report.exit = "CLI_ERR" /\ report.error # "IP_OUT_OF_BOUNDS" =>
        report.ip = r13

(* docs/vm-abi.md:13-16: wai_vm_exec_asm returns 0, or nonzero with        *)
(* vm->error set.  The process never dies inside it.                       *)
CoreReturns == ~At("trap")
=============================================================================
