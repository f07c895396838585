---------------------------------- MODULE Vm ----------------------------------
(***************************************************************************)
(* The C stepping engine, wai_vm_step, on one wai_vm.  One action is one   *)
(* call; a caller (trace.c, debugger.c) goes on calling until the machine  *)
(* halts or a call returns an error, so rc, the result of the last call,   *)
(* guards the next one.  The data of the machine is C's: byte memory,      *)
(* values of fixed width, a stack inside memory that loads and stores      *)
(* reach too.                                                              *)
(***************************************************************************)
EXTENDS Machine

CONSTANT Programs   \* the programs the machine may be loaded with

ASSUME ProgramsAssumption == Programs \subseteq Seq(Instruction)

VARIABLES
    code,         \* vm->code and vm->code_count; <<>> is the NULL program
    regs,         \* vm->regs
    ip,           \* vm->ip
    zf,           \* vm->zf
    halted,       \* vm->halted
    error,        \* vm->error
    memory,       \* vm->memory
    sp,           \* vm->sp
    last_print,   \* vm->last_print
    print_count,  \* vm->print_count, a uint64_t
    rc,           \* what the last wai_vm_step returned
    trapped       \* the processor raised #DE and the process died

data == <<regs, zf, memory, sp, last_print, print_count>>
control == <<ip, halted, error, rc, trapped>>
vars == <<code, data, control>>

TypeOK ==
    /\ code \in Seq(Instruction)
    /\ regs \in [Register -> Value]
    /\ ip \in Nat
    /\ zf \in BOOLEAN
    /\ halted \in BOOLEAN
    /\ error \in ErrorCode
    /\ memory \in [Address -> Byte]
    /\ sp \in Nat
    /\ last_print \in Value
    /\ print_count \in 0 .. (Modulus - 1)
    /\ rc \in ErrorCode
    /\ trapped \in BOOLEAN

Init ==
    /\ code \in Programs
    /\ regs = [r \in Register |-> 0]
    /\ ip = 0
    /\ zf = FALSE
    /\ halted = FALSE
    /\ error = "OK"
    /\ memory = [x \in Address |-> 0]
    /\ sp = MemorySize
    /\ last_print = 0
    /\ print_count = 0
    /\ rc = "OK"
    /\ trapped = FALSE

----------------------------------------------------------------------------
(* The instruction a step fetches, and its second operand. *)
Ins == code[ip + 1]
Operand == IF Ins.op \in SecondRegOps THEN regs[Ins.b] ELSE Ins.imm

(* A caller steps while nothing failed; the code is not NULL, the machine  *)
(* is not halted and ip is inside the program; the instruction is one of   *)
(* ops and its registers exist.                                            *)
Ready == rc = "OK" /\ ~trapped
Fetched == Ready /\ code # <<>> /\ ~halted /\ ip < Len(code)
Executing(ops) == Fetched /\ Ins.op \in ops /\ ~BadRegister(Ins)

(* The step returns WAI_OK with the next ip. *)
Goto(target) == ip' = target /\ UNCHANGED <<code, halted, error, rc, trapped>>
Advance == Goto(ip + 1)

(* Mutant of Fault: the error is returned but not stored in vm->error. *)
FaultUnrecorded(e) ==
    /\ ip' = ip + 1
    /\ rc' = e
    /\ UNCHANGED <<code, halted, error, trapped>>

(* set_error after the instruction was fetched: ip is already the next one. *)
Fault(e) ==
    /\ ip' = ip + 1
    /\ error' = e
    /\ rc' = e
    /\ UNCHANGED <<code, halted, trapped>>

SetReg(v) == regs' = [regs EXCEPT ![Ins.a] = v] /\ zf' = (v = 0)

----------------------------------------------------------------------------
(* The calls that execute no instruction: NULL code is refused without     *)
(* touching vm->error, a halted machine stays as it is, and an ip outside  *)
(* the program is an error that does not advance ip.                       *)
StepNullCode ==
    /\ Ready /\ code = <<>>
    /\ rc' = "PARSE"
    /\ UNCHANGED <<code, data, ip, halted, error, trapped>>

StepHalted == Ready /\ code # <<>> /\ halted /\ UNCHANGED vars

StepPastEnd ==
    /\ Ready /\ code # <<>> /\ ~halted /\ ip >= Len(code)
    /\ error' = "IP_OUT_OF_BOUNDS"
    /\ rc' = "IP_OUT_OF_BOUNDS"
    /\ UNCHANGED <<code, data, ip, halted, trapped>>

StepBadOpcode ==
    /\ Fetched /\ Ins.op = "INVALID"
    /\ Fault("BAD_OPCODE") /\ UNCHANGED data

StepBadRegister ==
    /\ Fetched /\ BadRegister(Ins)
    /\ Fault("BAD_REGISTER") /\ UNCHANGED data

----------------------------------------------------------------------------
(* Data instructions: a result in register a, and zf tells whether it is   *)
(* zero.                                                                   *)
Arithmetic ==
    /\ Executing(AluOps \ BitOps)
    /\ SetReg(AluResult(Ins.op, regs[Ins.a], Operand))
    /\ Advance /\ UNCHANGED <<memory, sp, last_print, print_count>>

Bitwise ==
    /\ Executing(BitOps)
    /\ SetReg(AluResult(Ins.op, regs[Ins.a], Operand))
    /\ Advance /\ UNCHANGED <<memory, sp, last_print, print_count>>

NotBits ==
    /\ Executing({"NOT"})
    /\ SetReg(Not(regs[Ins.a]))
    /\ Advance /\ UNCHANGED <<memory, sp, last_print, print_count>>

Divide ==
    /\ Executing(DivOps)
    /\ Operand # 0 /\ ~DivOverflows(regs[Ins.a], Operand)
    /\ SetReg(DivResult(Ins.op, regs[Ins.a], Operand))
    /\ Advance /\ UNCHANGED <<memory, sp, last_print, print_count>>

(* Mutant of DivideByZero: zf is updated before the divisor is checked. *)
DivideByZeroLate ==
    /\ Executing(DivOps) /\ Operand = 0
    /\ zf' = TRUE
    /\ Fault("DIV_ZERO") /\ UNCHANGED <<regs, memory, sp, last_print, print_count>>

DivideByZero ==
    /\ Executing(DivOps) /\ Operand = 0
    /\ Fault("DIV_ZERO") /\ UNCHANGED data

(* C leaves MinValue / -1 and MinValue % -1 undefined; gcc emits idiv, and *)
(* idiv raises #DE: the process dies inside the call.                      *)
DivideTrap ==
    /\ Executing(DivOps) /\ Operand # 0 /\ DivOverflows(regs[Ins.a], Operand)
    /\ trapped' = TRUE
    /\ UNCHANGED <<code, data, ip, halted, error, rc>>

Shift ==
    /\ Executing(ShiftOps) /\ ~BadShift(Operand)
    /\ SetReg(ShiftResult(Ins.op, regs[Ins.a], Operand))
    /\ Advance /\ UNCHANGED <<memory, sp, last_print, print_count>>

ShiftFault ==
    /\ Executing(ShiftOps) /\ BadShift(Operand)
    /\ Fault("BAD_SHIFT") /\ UNCHANGED data

Compare ==
    /\ Executing(CmpOps)
    /\ zf' = (regs[Ins.a] = Operand)
    /\ Advance /\ UNCHANGED <<regs, memory, sp, last_print, print_count>>

(* wai_vm_emit_print; writing the line to the stream changes no VM state.  *)
EmitPrint ==
    /\ Executing({"PRINT"})
    /\ last_print' = regs[Ins.a]
    /\ print_count' = (print_count + 1) % Modulus
    /\ Advance /\ UNCHANGED <<regs, zf, memory, sp>>

Nop == Executing({"NOP"}) /\ Advance /\ UNCHANGED data

Halt ==
    /\ Executing({"HALT"})
    /\ halted' = TRUE
    /\ ip' = ip + 1
    /\ UNCHANGED <<code, data, error, rc, trapped>>

----------------------------------------------------------------------------
(* Memory instructions. *)
Load ==
    /\ Executing(LoadOps) /\ ~BadAddress(Operand)
    /\ SetReg(LoadFrom(memory, Operand))
    /\ Advance /\ UNCHANGED <<memory, sp, last_print, print_count>>

Store ==
    /\ Executing(StoreOps) /\ ~BadAddress(Operand)
    /\ memory' = StoreTo(memory, Operand, regs[Ins.a])
    /\ Advance /\ UNCHANGED <<regs, zf, sp, last_print, print_count>>

AddressFault ==
    /\ Executing(LoadOps \cup StoreOps) /\ BadAddress(Operand)
    /\ Fault("MEMORY_OOB") /\ UNCHANGED data

(* Mutant of PushOverflows: push does not look at the end of the stack. *)
PushUnchecked == FALSE

(* The stack: sp is an address of memory, and grows down.  push checks     *)
(* only that a value fits below sp, pop only that one fits above it.       *)
PushOverflows == sp < ValueSize
PopUnderflows == sp > MemorySize - ValueSize

(* Mutants of PushValue: sp moves by one byte; the store precedes the move. *)
PushOneByte(v) ==
    /\ sp' = sp - 1
    /\ memory' = StoreTo(memory, sp - ValueSize, v)
StoreThenMove(v) ==
    /\ sp' = sp - ValueSize
    /\ memory' = StoreTo(memory, sp, v)

PushValue(v) ==
    /\ sp' = sp - ValueSize
    /\ memory' = StoreTo(memory, sp - ValueSize, v)

Top == LoadFrom(memory, sp)

Push ==
    /\ Executing({"PUSH"}) /\ ~PushOverflows
    /\ PushValue(regs[Ins.a])
    /\ Advance /\ UNCHANGED <<regs, zf, last_print, print_count>>

StackOverflow ==
    /\ Executing({"PUSH", "CALL"}) /\ PushOverflows
    /\ Ins.op = "CALL" => ~BadTarget(code, Ins.imm)
    /\ Fault("STACK_OVERFLOW") /\ UNCHANGED data

Pop ==
    /\ Executing({"POP"}) /\ ~PopUnderflows
    /\ SetReg(Top)
    /\ sp' = sp + ValueSize
    /\ Advance /\ UNCHANGED <<memory, last_print, print_count>>

StackUnderflow ==
    /\ Executing({"POP", "RET"}) /\ PopUnderflows
    /\ Fault("STACK_UNDERFLOW") /\ UNCHANGED data

----------------------------------------------------------------------------
(* Control transfer.  A jump that is not taken does not check its target.  *)
Taken ==
    CASE Ins.op = "JZ" -> regs[Ins.a] = 0
      [] Ins.op = "JNZ" -> regs[Ins.a] # 0
      [] Ins.op = "JE" -> zf
      [] Ins.op = "JNE" -> ~zf
      [] OTHER -> TRUE

Jump ==
    /\ Executing(JumpOps) /\ Taken /\ ~BadTarget(code, Ins.imm)
    /\ Goto(Ins.imm) /\ UNCHANGED data

JumpNotTaken == Executing(JumpOps) /\ ~Taken /\ Advance /\ UNCHANGED data

JumpFault ==
    /\ Executing(JumpOps \cup {"CALL"}) /\ Taken /\ BadTarget(code, Ins.imm)
    /\ Fault("BAD_JUMP") /\ UNCHANGED data

(* call pushes the next ip as a value; ret pops any value and checks it,   *)
(* so a ret that fails has already moved sp.                               *)
Call ==
    /\ Executing({"CALL"}) /\ ~BadTarget(code, Ins.imm) /\ ~PushOverflows
    /\ PushValue(Signed(ip + 1))
    /\ Goto(Ins.imm) /\ UNCHANGED <<regs, zf, last_print, print_count>>

Ret ==
    /\ Executing({"RET"}) /\ ~PopUnderflows
    /\ sp' = sp + ValueSize
    /\ ~BadTarget(code, Top)
    /\ Goto(Top) /\ UNCHANGED <<regs, zf, memory, last_print, print_count>>

RetFault ==
    /\ Executing({"RET"}) /\ ~PopUnderflows
    /\ sp' = sp + ValueSize
    /\ BadTarget(code, Top)
    /\ Fault("BAD_JUMP")
    /\ UNCHANGED <<regs, zf, memory, last_print, print_count>>

----------------------------------------------------------------------------
Execute ==
    \/ Arithmetic \/ Bitwise \/ NotBits \/ Divide \/ DivideByZero \/ DivideTrap
    \/ Shift \/ ShiftFault \/ Compare \/ EmitPrint \/ Nop \/ Halt
    \/ Load \/ Store \/ AddressFault
    \/ Push \/ StackOverflow \/ Pop \/ StackUnderflow
    \/ Jump \/ JumpNotTaken \/ JumpFault \/ Call \/ Ret \/ RetFault

(* wai_vm_step. *)
Step ==
    \/ StepNullCode \/ StepHalted \/ StepPastEnd
    \/ StepBadOpcode \/ StepBadRegister \/ Execute

(* No caller steps a machine that failed, and a dead process takes none. *)
Stopped == ~Ready /\ UNCHANGED vars

Next == Step \/ Stopped

Spec == Init /\ [][Next]_vars

----------------------------------------------------------------------------
(* sp is always a multiple of the value size inside memory: the one-sided  *)
(* checks of push_i64 (only below) and pop_i64 (only above) are enough to  *)
(* keep every stack access whole and inside vm->memory, and the store and  *)
(* load errors they return after them can never happen.                    *)
StackInMemory == sp <= MemorySize /\ sp % ValueSize = 0

(* However ip was set (a jump, a call, a value popped by ret from memory a *)
(* store may have overwritten), it is an instruction index or the end of   *)
(* the program, so the fetch reads inside vm->code.                        *)
IpInProgram == ip <= Len(code)

(* vm->error tells the same story as the result of the last call, unless   *)
(* the code was NULL; a machine that halted has not failed.                *)
ErrorMatchesResult ==
    /\ code # <<>> => error = rc
    /\ halted => rc = "OK"

(* A call that fails has no effect but the next ip and vm->error: not on   *)
(* registers, flag, memory, output or halted.  Only ret has moved sp by    *)
(* the time it finds that the popped value is no instruction index.        *)
FailedCall ==
    rc' # "OK" /\ rc = "OK" =>
        /\ UNCHANGED <<code, regs, zf, memory, halted, last_print, print_count>>
        /\ sp' # sp => /\ Ins.op = "RET" /\ rc' = "BAD_JUMP"
                       /\ sp' = sp + ValueSize
        /\ ip' = IF ip < Len(code) THEN ip + 1 ELSE ip

FaultHasNoEffect == [][FailedCall]_vars
=============================================================================
