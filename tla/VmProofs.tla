------------------------------ MODULE VmProofs ------------------------------
(***************************************************************************)
(* Proofs about the C stepping engine and about the static checkers that   *)
(* programs pass before they reach it, for every word width, register      *)
(* count, memory size and set of programs.                                 *)
(***************************************************************************)
EXTENDS WordLaws, VmStack, VerifiedVm, WordProofs

(* The inductive invariant: the four invariants of the module need each    *)
(* other (a call pushes inside memory only because sp is aligned, the      *)
(* fetched instruction is one only because ip is inside the program), and  *)
(* a NULL program cannot have halted.  It is split by the variables an     *)
(* action changes.                                                         *)
DataInv ==
    /\ regs \in [Register -> Value]
    /\ zf \in BOOLEAN
    /\ memory \in [Address -> Byte]
    /\ sp \in Nat
    /\ StackInMemory
    /\ last_print \in Value
    /\ print_count \in 0 .. (Modulus - 1)

ControlInv ==
    /\ code \in Seq(Instruction)
    /\ ip \in Nat
    /\ IpInProgram
    /\ halted \in BOOLEAN
    /\ error \in ErrorCode
    /\ rc \in ErrorCode
    /\ trapped \in BOOLEAN
    /\ ErrorMatchesResult
    /\ code = <<>> => ~halted

IInv == DataInv /\ ControlInv

LEMMA InvariantsFollow ==
    IInv => TypeOK /\ StackInMemory /\ IpInProgram /\ ErrorMatchesResult
BY DEF IInv, DataInv, ControlInv, TypeOK

----------------------------------------------------------------------------
(* The fetched instruction and its operands. *)

LEMMA InsType ==
    ASSUME TypeOK, Fetched
    PROVE  Ins \in Instruction /\ Ins = code[ip + 1] /\ ip + 1 \in 1 .. Len(code)
<1>1. code \in Seq(Instruction) /\ ip \in Nat /\ ip < Len(code)
  BY DEF TypeOK, Fetched
<1>2. ip + 1 \in 1 .. Len(code)
  BY <1>1
<1> QED
  BY <1>1, <1>2 DEF Ins

LEMMA ImmType ==
    ASSUME TypeOK, Fetched
    PROVE  Ins.imm \in Value /\ Ins.a \in Nat /\ Ins.b \in Nat
BY InsType DEF Instruction

LEMMA FirstRegType ==
    ASSUME TypeOK, Fetched, ~BadRegister(Ins), Ins.op \in FirstRegOps
    PROVE  Ins.a \in Register /\ regs[Ins.a] \in Value
<1>1. Ins.a \in Register
  BY ImmType, MachineAssumption DEF BadRegister, ValidReg, Register
<1> QED
  BY <1>1 DEF TypeOK

LEMMA OperandType ==
    ASSUME TypeOK, Fetched, ~BadRegister(Ins)
    PROVE  Operand \in Value
<1>1. CASE Ins.op \in SecondRegOps
  <2>1. Ins.b \in Register
    BY <1>1, ImmType, MachineAssumption DEF BadRegister, ValidReg, Register
  <2> QED
    BY <1>1, <2>1 DEF TypeOK, Operand
<1>2. CASE Ins.op \notin SecondRegOps
  BY <1>2, ImmType DEF Operand
<1> QED
  BY <1>1, <1>2

----------------------------------------------------------------------------
(* The stack.  Inside the invariant the one-sided checks of push and pop   *)
(* are enough for a whole value to fit between the ends of memory.         *)

LEMMA PushStaysInMemory ==
    ASSUME TypeOK, StackInMemory, ~PushOverflows
    PROVE  /\ sp - ValueSize \in Nat
           /\ sp - ValueSize <= MemorySize
           /\ (sp - ValueSize) % ValueSize = 0
<1>1. sp \in Nat /\ sp >= ValueSize /\ sp <= MemorySize /\ sp % ValueSize = 0
  BY WordAssumption DEF TypeOK, StackInMemory, PushOverflows
<1>2. (sp - ValueSize) % ValueSize = 0
  BY <1>1, MultipleStep, WordAssumption
<1> QED
  BY <1>1, <1>2, WordAssumption, MachineAssumption

LEMMA PopStaysInMemory ==
    ASSUME TypeOK, StackInMemory, ~PopUnderflows
    PROVE  /\ sp + ValueSize \in Nat
           /\ sp + ValueSize <= MemorySize
           /\ (sp + ValueSize) % ValueSize = 0
           /\ Top \in Value
<1>1. sp \in Nat /\ sp <= MemorySize - ValueSize /\ sp % ValueSize = 0
  BY WordAssumption, MachineAssumption DEF TypeOK, StackInMemory, PopUnderflows
<1>2. (sp + ValueSize) % ValueSize = 0
  BY <1>1, MultipleStep, WordAssumption
<1>3. Top \in Value
  <2>1. ~BadAddress(sp) /\ sp \in Int
    BY <1>1, WordAssumption, MachineAssumption DEF BadAddress
  <2>2. memory \in [Address -> Byte]
    BY DEF TypeOK
  <2> QED
    BY <2>1, <2>2, LoadFromType DEF Top
<1> QED
  BY <1>1, <1>2, <1>3, WordAssumption, MachineAssumption

LEMMA PushValueType ==
    ASSUME TypeOK, StackInMemory, ~PushOverflows, NEW v \in Value, PushValue(v)
    PROVE  /\ memory' \in [Address -> Byte]
           /\ sp' \in Nat
           /\ StackInMemory'
<1>1. memory' \in [Address -> Byte]
  BY StoreToType DEF TypeOK, PushValue
<1> QED
  BY <1>1, PushStaysInMemory DEF PushValue, StackInMemory

----------------------------------------------------------------------------
(* The three ways a step ends. *)

LEMMA GotoKeeps ==
    ASSUME ControlInv, NEW target \in 0 .. Len(code), Goto(target)
    PROVE  ControlInv'
BY DEF ControlInv, Goto, IpInProgram, ErrorMatchesResult

LEMMA AdvanceKeeps ==
    ASSUME ControlInv, Fetched, Advance
    PROVE  ControlInv'
<1>1. ip + 1 \in 0 .. Len(code)
  BY DEF ControlInv, Fetched
<1> QED
  BY <1>1, GotoKeeps DEF Advance

LEMMA FaultKeeps ==
    ASSUME ControlInv, Fetched, NEW e \in ErrorCode, Fault(e)
    PROVE  ControlInv'
<1>1. ip + 1 <= Len(code) /\ ip + 1 \in Nat
  BY DEF ControlInv, Fetched
<1>2. ~halted
  BY DEF Fetched
<1> QED
  BY <1>1, <1>2 DEF ControlInv, Fault, IpInProgram, ErrorMatchesResult

LEMMA DataUnchanged ==
    ASSUME DataInv, UNCHANGED data
    PROVE  DataInv'
BY DEF DataInv, data, StackInMemory

LEMMA SetRegKeeps ==
    ASSUME DataInv, NEW v \in Value, SetReg(v),
           UNCHANGED <<memory, sp, last_print, print_count>>
    PROVE  DataInv'
BY DEF DataInv, SetReg, StackInMemory

LEMMA PushValueKeeps ==
    ASSUME TypeOK, DataInv, ~PushOverflows, NEW v \in Value, PushValue(v),
           UNCHANGED <<regs, zf, last_print, print_count>>
    PROVE  DataInv'
BY PushValueType DEF DataInv

----------------------------------------------------------------------------
(* Each group of actions keeps both parts. *)

LEMMA DataInstructionsKeep ==
    ASSUME IInv, TypeOK,
           \/ Arithmetic \/ Bitwise \/ NotBits \/ Divide \/ Shift \/ Compare
           \/ EmitPrint \/ Nop
    PROVE  IInv'
<1>1. DataInv /\ ControlInv
  BY DEF IInv
<1>2. ControlInv'
  BY <1>1, AdvanceKeeps
     DEF Arithmetic, Bitwise, NotBits, Divide, Shift, Compare, EmitPrint, Nop, Executing
<1>3. DataInv'
  <2>1. CASE Arithmetic \/ Bitwise
    <3>1. Ins.op \in AluOps /\ Ins.op \in FirstRegOps /\ Fetched /\ ~BadRegister(Ins)
      BY <2>1
         DEF Arithmetic, Bitwise, Executing, FirstRegOps, Opcode, AluOps, ImmOps,
             RegOps, BitOps
    <3>2. AluResult(Ins.op, regs[Ins.a], Operand) \in Value
      BY <3>1, FirstRegType, OperandType, AluResultType
    <3> QED
      BY <1>1, <2>1, <3>2, SetRegKeeps DEF Arithmetic, Bitwise
  <2>2. CASE NotBits
    BY <1>1, <2>2, BitwiseType, SetRegKeeps DEF NotBits
  <2>3. CASE Divide
    <3>1. Ins.op \in FirstRegOps /\ Fetched /\ ~BadRegister(Ins)
      BY <2>3 DEF Divide, Executing, FirstRegOps, Opcode, DivOps
    <3>2. DivResult(Ins.op, regs[Ins.a], Operand) \in Value
      BY <2>3, <3>1, FirstRegType, OperandType, DivResultType DEF Divide
    <3> QED
      BY <1>1, <2>3, <3>2, SetRegKeeps DEF Divide
  <2>4. CASE Shift
    <3>1. Ins.op \in FirstRegOps /\ Fetched /\ ~BadRegister(Ins)
      BY <2>4 DEF Shift, Executing, FirstRegOps, Opcode, ShiftOps
    <3>2. ShiftResult(Ins.op, regs[Ins.a], Operand) \in Value
      BY <2>4, <3>1, FirstRegType, OperandType, ShiftResultType DEF Shift
    <3> QED
      BY <1>1, <2>4, <3>2, SetRegKeeps DEF Shift
  <2>5. CASE Compare
    BY <1>1, <2>5 DEF Compare, DataInv, StackInMemory
  <2>6. CASE EmitPrint
    <3>1. Ins.op \in FirstRegOps /\ Fetched /\ ~BadRegister(Ins)
      BY <2>6 DEF EmitPrint, Executing, FirstRegOps, Opcode, UnaryOps
    <3>2. print_count' \in 0 .. (Modulus - 1)
      BY <1>1, <2>6, Widths, ModuloRange DEF EmitPrint, DataInv
    <3> QED
      BY <1>1, <2>6, <3>1, <3>2, FirstRegType DEF EmitPrint, DataInv, StackInMemory
  <2>7. CASE Nop
    BY <1>1, <2>7, DataUnchanged DEF Nop
  <2> QED
    BY <2>1, <2>2, <2>3, <2>4, <2>5, <2>6, <2>7
<1> QED
  BY <1>2, <1>3 DEF IInv

LEMMA MemoryInstructionsKeep ==
    ASSUME IInv, TypeOK, Load \/ Store \/ Push \/ Pop
    PROVE  IInv'
<1>1. DataInv /\ ControlInv
  BY DEF IInv
<1>2. ControlInv'
  BY <1>1, AdvanceKeeps DEF Load, Store, Push, Pop, Executing
<1>3. DataInv'
  <2>1. CASE Load
    <3>1. Operand \in Int /\ ~BadAddress(Operand) /\ memory \in [Address -> Byte]
      BY <1>1, <2>1, OperandType, Widths DEF Load, Executing, DataInv
    <3>2. LoadFrom(memory, Operand) \in Value
      BY <3>1, LoadFromType
    <3> QED
      BY <1>1, <2>1, <3>2, SetRegKeeps DEF Load
  <2>2. CASE Store
    <3>1. Ins.op \in FirstRegOps /\ Fetched /\ ~BadRegister(Ins)
      BY <2>2 DEF Store, Executing, FirstRegOps, Opcode, StoreOps
    <3>2. memory' \in [Address -> Byte]
      BY <1>1, <2>2, <3>1, FirstRegType, StoreToType DEF Store, DataInv
    <3> QED
      BY <1>1, <2>2, <3>2 DEF Store, DataInv, StackInMemory
  <2>3. CASE Push
    <3>1. Ins.op \in FirstRegOps /\ Fetched /\ ~BadRegister(Ins)
      BY <2>3 DEF Push, Executing, FirstRegOps, Opcode, UnaryOps
    <3>2. regs[Ins.a] \in Value
      BY <3>1, FirstRegType
    <3> QED
      BY <1>1, <2>3, <3>2, PushValueKeeps DEF Push
  <2>4. CASE Pop
    BY <1>1, <2>4, PopStaysInMemory DEF Pop, DataInv, SetReg, StackInMemory
  <2> QED
    BY <2>1, <2>2, <2>3, <2>4
<1> QED
  BY <1>2, <1>3 DEF IInv

LEMMA ControlTransfersKeep ==
    ASSUME IInv, TypeOK, Jump \/ JumpNotTaken \/ Call \/ Ret
    PROVE  IInv'
<1>1. DataInv /\ ControlInv
  BY DEF IInv
<1>2. CASE Jump
  <2>1. Ins.imm \in 0 .. Len(code)
    BY <1>1, <1>2, ImmType, Widths DEF Jump, Executing, BadTarget, ControlInv
  <2> QED
    BY <1>1, <1>2, <2>1, GotoKeeps, DataUnchanged DEF Jump, IInv
<1>3. CASE JumpNotTaken
  BY <1>1, <1>3, AdvanceKeeps, DataUnchanged DEF JumpNotTaken, Executing, IInv
<1>4. CASE Call
  <2>1. Ins.imm \in 0 .. Len(code)
    BY <1>1, <1>4, ImmType, Widths DEF Call, Executing, BadTarget, ControlInv
  <2>2. Signed(ip + 1) \in Value
    BY <1>1, SignedType DEF ControlInv
  <2>3. DataInv'
    BY <1>1, <1>4, <2>2, PushValueKeeps DEF Call
  <2> QED
    BY <1>1, <1>4, <2>1, <2>3, GotoKeeps DEF Call, IInv
<1>5. CASE Ret
  <2>1. Top \in 0 .. Len(code)
    BY <1>1, <1>5, PopStaysInMemory, Widths DEF Ret, BadTarget, ControlInv, DataInv
  <2>2. DataInv'
    BY <1>1, <1>5, PopStaysInMemory DEF Ret, DataInv, StackInMemory
  <2> QED
    BY <1>1, <1>5, <2>1, <2>2, GotoKeeps DEF Ret, IInv
<1> QED
  BY <1>2, <1>3, <1>4, <1>5

LEMMA FaultsKeep ==
    ASSUME IInv, TypeOK,
           \/ StepBadOpcode \/ StepBadRegister \/ DivideByZero \/ ShiftFault
           \/ AddressFault \/ StackOverflow \/ StackUnderflow \/ JumpFault
           \/ RetFault
    PROVE  IInv'
<1>1. DataInv /\ ControlInv
  BY DEF IInv
<1>2. ControlInv'
  <2>1. Fetched /\ \E e \in ErrorCode : Fault(e)
    BY DEF StepBadOpcode, StepBadRegister, DivideByZero, ShiftFault, AddressFault,
           StackOverflow, StackUnderflow, JumpFault, RetFault, Executing, ErrorCode
  <2> QED
    BY <1>1, <2>1, FaultKeeps
<1>3. DataInv'
  <2>1. CASE UNCHANGED data
    BY <1>1, <2>1, DataUnchanged
  <2>2. CASE RetFault
    BY <1>1, <2>2, PopStaysInMemory DEF RetFault, DataInv, StackInMemory
  <2> QED
    BY <2>1, <2>2
       DEF StepBadOpcode, StepBadRegister, DivideByZero, ShiftFault, AddressFault,
           StackOverflow, StackUnderflow, JumpFault
<1> QED
  BY <1>2, <1>3 DEF IInv

LEMMA OtherCallsKeep ==
    ASSUME IInv, TypeOK,
           StepNullCode \/ StepHalted \/ StepPastEnd \/ DivideTrap \/ Halt \/ Stopped
    PROVE  IInv'
<1>1. DataInv /\ ControlInv
  BY DEF IInv
<1>2. DataInv'
  BY <1>1, DataUnchanged
     DEF StepNullCode, StepHalted, StepPastEnd, DivideTrap, Halt, Stopped, vars
<1>3. CASE StepNullCode
  BY <1>1, <1>2, <1>3
     DEF StepNullCode, IInv, ControlInv, IpInProgram, ErrorMatchesResult, ErrorCode
<1>4. CASE StepHalted \/ Stopped
  BY <1>1, <1>2, <1>4
     DEF StepHalted, Stopped, vars, control, IInv, ControlInv, IpInProgram,
         ErrorMatchesResult
<1>5. CASE StepPastEnd
  BY <1>1, <1>2, <1>5
     DEF StepPastEnd, IInv, ControlInv, IpInProgram, ErrorMatchesResult, ErrorCode
<1>6. CASE DivideTrap
  BY <1>1, <1>2, <1>6
     DEF DivideTrap, IInv, ControlInv, IpInProgram, ErrorMatchesResult
<1>7. CASE Halt
  BY <1>1, <1>2, <1>7
     DEF Halt, Executing, Fetched, Ready, IInv, ControlInv, IpInProgram,
         ErrorMatchesResult
<1> QED
  BY <1>3, <1>4, <1>5, <1>6, <1>7

----------------------------------------------------------------------------
LEMMA InitEstablishes == Init => IInv
<1> SUFFICES ASSUME Init PROVE IInv
  OBVIOUS
<1>1. code \in Seq(Instruction)
  BY ProgramsAssumption DEF Init
<1>2. ControlInv
  <2>1. ip \in Nat /\ IpInProgram
    BY <1>1 DEF Init, IpInProgram
  <2>2. error \in ErrorCode /\ rc \in ErrorCode /\ ErrorMatchesResult
    BY DEF Init, ErrorMatchesResult, ErrorCode
  <2>3. halted = FALSE /\ trapped = FALSE
    BY DEF Init
  <2> QED
    BY <1>1, <2>1, <2>2, <2>3 DEF ControlInv
<1>3. 0 \in Value /\ 0 \in Byte /\ 0 \in 0 .. (Modulus - 1)
  BY ZeroIsValue, Widths, PlacePositive, ByteBitsInWord DEF Byte
<1>4. DataInv
  <2>1. sp \in Nat /\ StackInMemory
    BY MachineAssumption DEF Init, StackInMemory
  <2>2. regs \in [Register -> Value] /\ memory \in [Address -> Byte]
    BY <1>3 DEF Init
  <2>3. zf \in BOOLEAN /\ last_print \in Value /\ print_count \in 0 .. (Modulus - 1)
    BY <1>3 DEF Init
  <2> QED
    BY <2>1, <2>2, <2>3 DEF DataInv
<1> QED
  BY <1>2, <1>4 DEF IInv

LEMMA NextKeeps == IInv /\ [Next]_vars => IInv'
<1> SUFFICES ASSUME IInv, [Next]_vars PROVE IInv'
  OBVIOUS
<1>1. TypeOK
  BY InvariantsFollow
<1>2. CASE UNCHANGED vars
  <2>1. DataInv'
    BY <1>2, DataUnchanged DEF vars, IInv
  <2>2. ControlInv'
    BY <1>2 DEF vars, control, IInv, ControlInv, IpInProgram, ErrorMatchesResult
  <2> QED
    BY <2>1, <2>2 DEF IInv
<1>3. CASE Next
  BY <1>1, <1>3, DataInstructionsKeep, MemoryInstructionsKeep,
     ControlTransfersKeep, FaultsKeep, OtherCallsKeep
     DEF Next, Step, Execute
<1> QED
  BY <1>2, <1>3

LEMMA Invariance == Spec => []IInv
<1> QED
  BY InitEstablishes, NextKeeps, PTL DEF Spec

(* Every variable of the engine keeps its C type: registers, memory bytes  *)
(* and the printed value never leave their width.                          *)
THEOREM TypeCorrect == Spec => []TypeOK
BY Invariance, InvariantsFollow, PTL

(* push_i64 and pop_i64 keep sp a multiple of the value size inside        *)
(* vm->memory for every memory size, whatever the program stores there.    *)
THEOREM StackStaysInMemory == Spec => []StackInMemory
BY Invariance, InvariantsFollow, PTL

(* Wherever a jump, a call or a ret goes, the next fetch reads inside      *)
(* vm->code or finds the end of the program.                               *)
THEOREM IpStaysInProgram == Spec => []IpInProgram
BY Invariance, InvariantsFollow, PTL

(* Whatever a program computes, a load gives back what a store put there:  *)
(* the two byte loops undo each other for every byte width and value size. *)
THEOREM BytesAlwaysRoundTrip == Spec => []BytesRoundTrip
<1>1. IInv => BytesRoundTrip
  BY BytesRecompose DEF IInv, DataInv, BytesRoundTrip, Held, RoundTrips
<1> QED
  BY Invariance, <1>1, PTL

(* vm->error and the result of wai_vm_step agree in every reachable state  *)
(* of a machine that has code.                                             *)
THEOREM ErrorIsTheResult == Spec => []ErrorMatchesResult
BY Invariance, InvariantsFollow, PTL

----------------------------------------------------------------------------
LEMMA FailedCallHolds == IInv /\ [Next]_vars => FailedCall
<1> SUFFICES ASSUME IInv, [Next]_vars, rc' # "OK", rc = "OK"
             PROVE  /\ UNCHANGED <<code, regs, zf, memory, halted, last_print, print_count>>
                    /\ sp' # sp => /\ Ins.op = "RET" /\ rc' = "BAD_JUMP"
                                   /\ sp' = sp + ValueSize
                    /\ ip' = IF ip < Len(code) THEN ip + 1 ELSE ip
  BY DEF FailedCall
<1>1. ip \in Nat /\ code \in Seq(Instruction)
  BY DEF IInv, ControlInv
<1>2. CASE StepNullCode
  BY <1>1, <1>2 DEF StepNullCode, data
<1>3. CASE StepPastEnd
  BY <1>1, <1>3 DEF StepPastEnd, data
<1>4. CASE \/ StepBadOpcode \/ StepBadRegister \/ DivideByZero \/ ShiftFault
           \/ AddressFault \/ StackOverflow \/ StackUnderflow \/ JumpFault
  <2>1. UNCHANGED data /\ Fetched /\ \E e \in ErrorCode : Fault(e)
    BY <1>4
       DEF StepBadOpcode, StepBadRegister, DivideByZero, ShiftFault, AddressFault,
           StackOverflow, StackUnderflow, JumpFault, Executing, ErrorCode
  <2> QED
    BY <1>1, <2>1 DEF Fault, Fetched, data
<1>5. CASE RetFault
  BY <1>1, <1>5 DEF RetFault, Executing, Fetched, Fault
<1>6. CASE \/ StepHalted \/ Stopped \/ DivideTrap \/ Halt \/ UNCHANGED vars
  BY <1>6 DEF StepHalted, Stopped, DivideTrap, Halt, vars, control
<1>7. CASE \/ Arithmetic \/ Bitwise \/ NotBits \/ Divide \/ Shift \/ Compare
           \/ EmitPrint \/ Nop \/ Load \/ Store \/ Push \/ Pop \/ Jump \/ JumpNotTaken \/ Call \/ Ret
  BY <1>7
     DEF Arithmetic, Bitwise, NotBits, Divide, Shift, Compare, EmitPrint, Nop, Load, Store,
         Push, Pop, Jump, JumpNotTaken, Call, Ret, Advance, Goto
<1> QED
  BY <1>2, <1>3, <1>4, <1>5, <1>6, <1>7 DEF Next, Step, Execute

(* A call that fails leaves registers, flag, memory and output as they     *)
(* were, in every program and for every machine size.                      *)
THEOREM FaultsHaveNoEffect == Spec => FaultHasNoEffect
<1>1. IInv /\ [Next]_vars => [FailedCall]_vars
  BY FailedCallHolds
<1> QED
  BY <1>1, Invariance, PTL DEF Spec, FaultHasNoEffect

----------------------------------------------------------------------------
(* Whole values in memory: a store is read back by a load of the same      *)
(* address and not seen by a load that does not overlap it.                *)
LEMMA LoadAfterStore ==
    ASSUME NEW m \in [Address -> Byte], NEW x \in Int, ~BadAddress(x), NEW v \in Value
    PROVE  LoadFrom(StoreTo(m, x, v), x) = v
<1>1. x \in 0 .. (MemorySize - ValueSize)
  BY MachineAssumption, WordAssumption DEF BadAddress
<1>2. ASSUME NEW i \in ByteIndex PROVE StoreTo(m, x, v)[x + i] = ByteOf(v, i)
  <2>1. x + i \in Address /\ (x + i) - x = i
    BY <1>1, MachineAssumption, WordAssumption DEF ByteIndex, Address
  <2> QED
    BY <2>1 DEF StoreTo
<1>3. [i \in ByteIndex |-> StoreTo(m, x, v)[x + i]] = [i \in ByteIndex |-> ByteOf(v, i)]
  BY <1>2
<1> QED
  BY <1>3, BytesRecompose DEF LoadFrom

LEMMA LoadBesideStore ==
    ASSUME NEW m \in [Address -> Byte], NEW x \in Int, NEW y \in Int, ~BadAddress(y),
           x + ValueSize <= y \/ y + ValueSize <= x, NEW v \in Value
    PROVE  LoadFrom(StoreTo(m, x, v), y) = LoadFrom(m, y)
<1>1. y \in 0 .. (MemorySize - ValueSize)
  BY MachineAssumption, WordAssumption DEF BadAddress
<1>2. ASSUME NEW i \in ByteIndex PROVE StoreTo(m, x, v)[y + i] = m[y + i]
  <2>1. y + i \in Address /\ (y + i) - x \notin ByteIndex
    BY <1>1, MachineAssumption, WordAssumption DEF ByteIndex, Address
  <2> QED
    BY <2>1 DEF StoreTo
<1>3. [i \in ByteIndex |-> StoreTo(m, x, v)[y + i]] = [i \in ByteIndex |-> m[y + i]]
  BY <1>2
<1> QED
  BY <1>3 DEF LoadFrom

----------------------------------------------------------------------------
(* The cells of the stack. *)
LEMMA ExactQuotient ==
    ASSUME NEW x \in Int, NEW d \in Nat \ {0}, x % d = 0
    PROVE  x \div d \in Int /\ x = (x \div d) * d
OBVIOUS

LEMMA QuotientOf ==
    ASSUME NEW d \in Nat \ {0}, NEW q \in Int
    PROVE  (q * d) \div d = q
OBVIOUS

LEMMA Cells ==
    ASSUME DataInv
    PROVE  /\ StackDepth \in 0 .. (MemorySize \div ValueSize)
           /\ MemorySize \div ValueSize \in Nat
           /\ sp = MemorySize - StackDepth * ValueSize
           /\ \A k \in 1..StackDepth : /\ MemorySize - k * ValueSize \in Nat
                                       /\ ~BadAddress(MemorySize - k * ValueSize)
                                       /\ MemorySize - k * ValueSize >= sp
           /\ PushOverflows <=> StackDepth = MemorySize \div ValueSize
           /\ PopUnderflows <=> StackDepth = 0
<1> DEFINE M == MemorySize \div ValueSize
           q == sp \div ValueSize
           d == M - q
<1>1. /\ MemorySize \in Nat /\ ValueSize \in Nat \ {0} /\ sp \in Nat /\ sp <= MemorySize
      /\ MemorySize % ValueSize = 0 /\ sp % ValueSize = 0
  BY MachineAssumption, WordAssumption DEF DataInv, StackInMemory
<1>2. M \in Int /\ MemorySize = M * ValueSize /\ q \in Int /\ sp = q * ValueSize
  BY <1>1, ExactQuotient
<1> HIDE DEF M, q
<1>3. M \in Nat /\ q \in 0..M
  BY <1>1, <1>2
<1>4. MemorySize - sp = d * ValueSize
  BY <1>1, <1>2
<1>5. StackDepth = d
  BY <1>1, <1>3, <1>4, QuotientOf DEF StackDepth
<1>6. ASSUME NEW k \in 1..d
      PROVE  /\ MemorySize - k * ValueSize \in Nat
             /\ MemorySize - k * ValueSize <= MemorySize - ValueSize
             /\ MemorySize - k * ValueSize >= sp
  <2>1. k * ValueSize >= ValueSize /\ k * ValueSize <= d * ValueSize /\ k * ValueSize \in Nat
    BY <1>1, <1>3
  <2> QED
    BY <1>1, <1>4, <2>1
<1>7. PushOverflows <=> q = 0
  <2>1. q = 0 => sp = 0
    BY <1>1, <1>2
  <2>2. q >= 1 => sp >= ValueSize
    BY <1>1, <1>2
  <2> QED
    BY <1>1, <1>3, <2>1, <2>2 DEF PushOverflows
<1>8. PopUnderflows <=> d = 0
  <2>1. d = 0 => sp = MemorySize
    BY <1>1, <1>4
  <2>2. d >= 1 => MemorySize - sp >= ValueSize
    BY <1>1, <1>3, <1>4
  <2> QED
    BY <1>1, <1>3, <2>1, <2>2 DEF PopUnderflows
<1> QED
  BY <1>1, <1>3, <1>4, <1>5, <1>6, <1>7, <1>8 DEF BadAddress, M

(* The same in the next state. *)
LEMMA CellsLaw == DataInv => StackDepth \in Nat /\ sp = MemorySize - StackDepth * ValueSize
BY Cells

LEMMA CellsNext ==
    ASSUME DataInv'
    PROVE  StackDepth' \in Nat /\ sp' = MemorySize - StackDepth' * ValueSize
<1>1. DataInv' => (StackDepth \in Nat /\ sp = MemorySize - StackDepth * ValueSize)'
  BY CellsLaw, PTL
<1> QED
  BY <1>1

LEMMA SameProduct ==
    ASSUME NEW d \in Nat \ {0}, NEW x \in Int, NEW y \in Int, x * d = y * d
    PROVE  x = y
<1>1. x = (x * d) \div d /\ y = (y * d) \div d
  BY QuotientOf
<1> QED
  BY <1>1

CellAt(k) == MemorySize - k * ValueSize

LEMMA NextCell ==
    ASSUME NEW x \in Int, NEW y \in Int
    PROVE  /\ CellAt(y) = CellAt(x) - ValueSize => y = x + 1
           /\ CellAt(y) = CellAt(x) + ValueSize => y = x - 1
<1>1. MemorySize \in Int /\ ValueSize \in Nat \ {0}
  BY MachineAssumption, WordAssumption
<1>2. ASSUME CellAt(y) = CellAt(x) - ValueSize PROVE y = x + 1
  <2>1. y * ValueSize = (x + 1) * ValueSize
    BY <1>1, <1>2 DEF CellAt
  <2> QED
    BY <1>1, <2>1, SameProduct
<1>3. ASSUME CellAt(y) = CellAt(x) + ValueSize PROVE y = x - 1
  <2>1. y * ValueSize = (x - 1) * ValueSize
    BY <1>1, <1>3 DEF CellAt
  <2> QED
    BY <1>1, <2>1, SameProduct
<1> QED
  BY <1>2, <1>3

LEMMA CellsIndex ==
    ASSUME DataInv
    PROVE  StackDepth \in Int /\ sp = CellAt(StackDepth)
BY Cells DEF CellAt

LEMMA CellsIndexNext ==
    ASSUME DataInv'
    PROVE  StackDepth' \in Int /\ sp' = CellAt(StackDepth')
BY CellsNext DEF CellAt

LEMMA SequenceIsItsCells ==
    ASSUME NEW S, NEW s \in Seq(S), NEW n \in Nat, Len(s) = n
    PROVE  s = [k \in 1..n |-> s[k]]
OBVIOUS

(* The abstract stack is a sequence of values, the top last. *)
LEMMA StackOfType ==
    ASSUME DataInv
    PROVE  /\ StackOf \in [1..StackDepth -> Value]
           /\ StackOf \in Seq(Value) /\ Len(StackOf) = StackDepth
           /\ ~PopUnderflows => Top = StackOf[Len(StackOf)]
<1>1. StackDepth \in Nat /\ memory \in [Address -> Byte] /\ MemorySize \in Nat /\ sp \in Nat
  BY Cells, MachineAssumption DEF DataInv
<1>2. StackOf \in [1..StackDepth -> Value]
  BY <1>1, Cells, LoadFromType DEF StackOf
<1>3. StackOf \in Seq(Value) /\ Len(StackOf) = StackDepth
  BY <1>1, <1>2
<1>4. ASSUME ~PopUnderflows PROVE Top = StackOf[Len(StackOf)]
  <2>1. StackDepth \in 1..StackDepth /\ sp = MemorySize - StackDepth * ValueSize
    BY <1>1, <1>4, Cells
  <2> QED
    BY <1>3, <2>1 DEF StackOf, Top
<1> QED
  BY <1>2, <1>3, <1>4

LEMMA StackOfLaw == DataInv => StackOf \in [1..StackDepth -> Value]
BY StackOfType

LEMMA StackOfTypeNext ==
    ASSUME DataInv'
    PROVE  StackOf' \in [1..StackDepth' -> Value]
<1>1. DataInv' => (StackOf \in [1..StackDepth -> Value])'
  BY StackOfLaw, PTL
<1> QED
  BY <1>1

----------------------------------------------------------------------------
(* What each kind of step does to the abstract stack. *)
LEMMA CodeStays == Step => code' = code
BY DEF Step, StepNullCode, StepHalted, vars, StepPastEnd, StepBadOpcode,
       StepBadRegister, Execute, Arithmetic, Bitwise, NotBits, Divide, DivideByZero,
       DivideTrap, Shift, ShiftFault, Compare, EmitPrint, Nop, Halt, Load, Store,
       AddressFault, Push, StackOverflow, Pop, StackUnderflow, Jump, JumpNotTaken,
       JumpFault, Call, Ret, RetFault, Advance, Goto, Fault

LEMMA StackKept ==
    ASSUME UNCHANGED <<memory, sp>>
    PROVE  UNCHANGED StackOf
BY DEF StackOf, StackDepth

LEMMA StackPushed ==
    ASSUME DataInv, ~PushOverflows, NEW v \in Value, PushValue(v), DataInv'
    PROVE  /\ Len(StackOf) < MemorySize \div ValueSize
           /\ StackOf' = Append(StackOf, v)
<1> DEFINE d == StackDepth
<1>1. /\ d \in Nat /\ d < MemorySize \div ValueSize /\ MemorySize \div ValueSize \in Nat
      /\ sp = MemorySize - d * ValueSize /\ sp \in Nat
      /\ StackOf \in Seq(Value) /\ Len(StackOf) = d
      /\ ValueSize \in Nat \ {0} /\ MemorySize \in Nat
      /\ memory \in [Address -> Byte]
  BY Cells, StackOfType, MachineAssumption, WordAssumption DEF DataInv
<1>2. sp' = sp - ValueSize /\ memory' = StoreTo(memory, sp - ValueSize, v)
  BY DEF PushValue
<1>3. StackDepth' = d + 1
  BY <1>2, CellsIndex, CellsIndexNext, NextCell
<1>4. /\ MemorySize - (d + 1) * ValueSize = sp - ValueSize
      /\ sp - ValueSize \in Nat /\ ~BadAddress(sp - ValueSize)
  BY <1>1 DEF PushOverflows, BadAddress
<1>5. ASSUME NEW k \in 1..(d + 1)
      PROVE  LoadFrom(memory', MemorySize - k * ValueSize) = Append(StackOf, v)[k]
  <2>1. CASE k = d + 1
    BY <1>1, <1>2, <1>4, <2>1, LoadAfterStore
  <2>2. CASE k \in 1..d
    <3>1. /\ MemorySize - k * ValueSize \in Nat /\ ~BadAddress(MemorySize - k * ValueSize)
          /\ (sp - ValueSize) + ValueSize <= MemorySize - k * ValueSize
      BY <1>1, <2>2, Cells
    <3>2. LoadFrom(memory', MemorySize - k * ValueSize) = LoadFrom(memory, MemorySize - k * ValueSize)
      BY <1>1, <1>2, <1>4, <3>1, LoadBesideStore
    <3> QED
      BY <1>1, <2>2, <3>2 DEF StackOf
  <2> QED
    BY <1>1, <2>1, <2>2
<1>6. StackOf' = [k \in 1..(d + 1) |-> LoadFrom(memory', MemorySize - k * ValueSize)]
  BY <1>3 DEF StackOf
<1>7. Append(StackOf, v) = [k \in 1..(d + 1) |-> Append(StackOf, v)[k]]
  <2>1. /\ Append(StackOf, v) \in Seq(Value) /\ Len(Append(StackOf, v)) = d + 1
        /\ d + 1 \in Nat
    BY <1>1
  <2> DEFINE s == Append(StackOf, v)  n == d + 1
  <2> HIDE DEF s, n
  <2>2. s = [k \in 1..n |-> s[k]]
    BY <2>1, SequenceIsItsCells DEF s, n
  <2> QED
    BY <2>2 DEF s, n
<1> HIDE DEF d
<1> QED
  BY <1>1, <1>5, <1>6, <1>7

LEMMA StackPopped ==
    ASSUME DataInv, ~PopUnderflows, sp' = sp + ValueSize, memory' = memory, DataInv'
    PROVE  /\ StackOf # <<>>
           /\ StackOf' = Abstract!Front(StackOf)
<1> DEFINE d == StackDepth
<1>1. /\ d \in Nat \ {0}
      /\ sp = MemorySize - d * ValueSize /\ sp \in Nat
      /\ StackOf \in Seq(Value) /\ Len(StackOf) = d
      /\ ValueSize \in Nat \ {0} /\ MemorySize \in Nat
  BY Cells, StackOfType, MachineAssumption, WordAssumption DEF DataInv
<1>2. StackDepth' = d - 1
  BY CellsIndex, CellsIndexNext, NextCell
<1>3. StackOf' = [k \in 1..(d - 1) |-> LoadFrom(memory, MemorySize - k * ValueSize)]
  BY <1>2 DEF StackOf
<1>4. Abstract!Front(StackOf) = [k \in 1..(d - 1) |-> StackOf[k]]
  BY <1>1 DEF Abstract!Front
<1>5. \A k \in 1..(d - 1) : StackOf[k] = LoadFrom(memory, MemorySize - k * ValueSize)
  BY <1>1 DEF StackOf
<1> QED
  BY <1>1, <1>3, <1>4, <1>5

----------------------------------------------------------------------------
(* Every step is an operation of the abstract stack.  The return index a   *)
(* call pushes goes through Signed, so it stays the same number only       *)
(* because no program has more instructions than a value can count.        *)

CodeInv == code \in Programs

LEMMA ReturnIndexFits ==
    ASSUME IInv, CodeInv, ip < Len(code)
    PROVE  Signed(ip + 1) = ip + 1 /\ ip + 1 \in Value
<1>1. ip + 1 \in 0 .. (Half - 1)
  BY ProgramsFit, Widths DEF IInv, ControlInv, CodeInv
<1> QED
  BY <1>1, SignedOfSmall, SignedType, Widths

LEMMA PushImplements ==
    ASSUME IInv, IInv', Push
    PROVE  Abstract!Push
<1>1. TypeOK /\ DataInv /\ DataInv'
  BY InvariantsFollow DEF IInv
<1>2. Fetched /\ ~BadRegister(Ins) /\ Ins.op \in FirstRegOps
  BY DEF Push, Executing, FirstRegOps, Opcode, UnaryOps
<1>3. Ins.a \in Register /\ regs[Ins.a] \in Value
  BY <1>1, <1>2, FirstRegType
<1>4. /\ Len(StackOf) < MemorySize \div ValueSize
      /\ StackOf' = Append(StackOf, regs[Ins.a])
  BY <1>1, <1>3, StackPushed DEF Push
<1> QED
  BY <1>3, <1>4 DEF Push, Advance, Goto, Abstract!Push

LEMMA CallImplements ==
    ASSUME IInv, IInv', CodeInv, Call
    PROVE  Abstract!Call
<1>1. DataInv /\ DataInv'
  BY DEF IInv
<1>2. Signed(ip + 1) = ip + 1 /\ ip + 1 \in Value
  BY ReturnIndexFits DEF Call, Executing, Fetched
<1>3. /\ Len(StackOf) < MemorySize \div ValueSize
      /\ StackOf' = Append(StackOf, ip + 1)
  BY <1>1, <1>2, StackPushed DEF Call
<1>4. ip' \in Nat
  BY DEF IInv, ControlInv
<1> QED
  BY <1>3, <1>4 DEF Call, Abstract!Call

LEMMA PopImplements ==
    ASSUME IInv, IInv', Pop
    PROVE  Abstract!Pop
<1>1. TypeOK /\ DataInv /\ DataInv'
  BY InvariantsFollow DEF IInv
<1>2. Fetched /\ ~BadRegister(Ins) /\ Ins.op \in FirstRegOps
  BY DEF Pop, Executing, FirstRegOps, Opcode, UnaryOps
<1>3. Ins.a \in Register
  BY <1>1, <1>2, FirstRegType
<1>4. StackOf # <<>> /\ StackOf' = Abstract!Front(StackOf)
  BY <1>1, StackPopped DEF Pop
<1>5. Top = Abstract!TopValue
  BY <1>1, StackOfType DEF Pop, Abstract!TopValue
<1> QED
  BY <1>3, <1>4, <1>5 DEF Pop, SetReg, Advance, Goto, Abstract!Pop

LEMMA RetImplements ==
    ASSUME IInv, IInv', Ret \/ RetFault
    PROVE  Abstract!Ret
<1>1. TypeOK /\ DataInv /\ DataInv' /\ ~PopUnderflows
  BY InvariantsFollow DEF IInv, Ret, RetFault
<1>2. StackOf # <<>> /\ StackOf' = Abstract!Front(StackOf)
  BY <1>1, StackPopped DEF Ret, RetFault
<1>3. Top = Abstract!TopValue
  BY <1>1, StackOfType DEF Abstract!TopValue
<1>4. ip' \in {Top, ip + 1} /\ UNCHANGED regs
  BY DEF Ret, RetFault, Goto, Fault
<1> QED
  BY <1>2, <1>3, <1>4 DEF Abstract!Ret

LEMMA StoreImplements ==
    ASSUME IInv, IInv', Store
    PROVE  Abstract!Overwrite
<1>1. DataInv /\ DataInv' /\ sp' = sp
  BY DEF IInv, Store
<1>2. StackDepth' = StackDepth
  BY <1>1 DEF StackDepth
<1>3. StackOf' \in [1..StackDepth' -> Value]
  BY <1>1, StackOfTypeNext
<1>4. Len(StackOf) = StackDepth
  BY <1>1, StackOfType
<1> QED
  BY <1>2, <1>3, <1>4 DEF Store, Advance, Goto, Abstract!Overwrite

LEMMA OthersKeepStack ==
    ASSUME IInv, IInv',
           UNCHANGED <<memory, sp>>
    PROVE  Abstract!Local
<1>1. UNCHANGED StackOf
  BY StackKept
<1>2. regs' \in [Register -> Value] /\ ip' \in Nat
  BY DEF IInv, DataInv, ControlInv
<1> QED
  BY <1>1, <1>2 DEF Abstract!Local

LEMMA StepImplements ==
    ASSUME IInv, IInv', CodeInv, [Next]_vars
    PROVE  [Abstract!Next]_(Abstract!vars)
<1>1. CASE Push
  BY <1>1, PushImplements DEF Abstract!Next
<1>2. CASE Call
  BY <1>2, CallImplements DEF Abstract!Next
<1>3. CASE Pop
  BY <1>3, PopImplements DEF Abstract!Next
<1>4. CASE Ret \/ RetFault
  BY <1>4, RetImplements DEF Abstract!Next
<1>5. CASE Store
  BY <1>5, StoreImplements DEF Abstract!Next
<1>6. CASE UNCHANGED <<memory, sp>>
  BY <1>6, OthersKeepStack DEF Abstract!Next
<1>7. CASE \/ StepNullCode \/ StepHalted \/ StepPastEnd \/ StepBadOpcode
           \/ StepBadRegister \/ Arithmetic \/ Bitwise \/ NotBits \/ Divide
           \/ DivideByZero \/ DivideTrap \/ Shift \/ ShiftFault \/ Compare
           \/ EmitPrint \/ Nop \/ Halt \/ Load \/ AddressFault \/ StackOverflow
           \/ StackUnderflow \/ Jump \/ JumpNotTaken \/ JumpFault \/ Stopped
           \/ UNCHANGED vars
  <2>1. UNCHANGED <<memory, sp>>
    BY <1>7
       DEF StepNullCode, StepHalted, StepPastEnd, StepBadOpcode, StepBadRegister,
           Arithmetic, Bitwise, NotBits, Divide, DivideByZero, DivideTrap, Shift,
           ShiftFault, Compare, EmitPrint, Nop, Halt, Load, AddressFault,
           StackOverflow, StackUnderflow, Jump, JumpNotTaken, JumpFault, Stopped,
           vars, data
  <2> QED
    BY <1>6, <2>1
<1> QED
  BY <1>1, <1>2, <1>3, <1>4, <1>5, <1>7 DEF Next, Step, Execute

LEMMA EmptyAtStart == Init => Abstract!Init
<1> SUFFICES ASSUME Init PROVE Abstract!Init
  OBVIOUS
<1>1. DataInv
  BY InitEstablishes DEF IInv
<1>2. StackDepth = 0
  BY <1>1, Cells, MachineAssumption, WordAssumption DEF Init, PopUnderflows
<1>3. StackOf = <<>>
  BY <1>1, <1>2, StackOfType
<1> QED
  BY <1>1, <1>3 DEF Abstract!Init, Init, DataInv

LEMMA CodeInvariance == Spec => []CodeInv
<1>1. Init => CodeInv
  BY DEF Init, CodeInv
<1>2. CodeInv /\ [Next]_vars => CodeInv'
  BY CodeStays DEF Next, Stopped, vars, CodeInv
<1> QED
  BY <1>1, <1>2, PTL DEF Spec

(* Every run of the engine is a run of the abstract stack: what push and   *)
(* call put on the stack is what pop and ret take off, for every memory    *)
(* size, word width and program.                                           *)
THEOREM StackImplemented == Spec => ImplementsStack
<1>1. IInv /\ IInv' /\ CodeInv /\ [Next]_vars => [Abstract!Next]_(Abstract!vars)
  BY StepImplements
<1> QED
  BY <1>1, EmptyAtStart, Invariance, CodeInvariance, PTL
     DEF Spec, ImplementsStack, Abstract!Spec

----------------------------------------------------------------------------
(* The two static checkers: they agree, and what verifier.c accepts fails  *)
(* at run time only through values it cannot see.                          *)

(* The case tables of the two files, written in different orders, check    *)
(* the same registers, and no instruction has two things to report in an   *)
(* order that could matter.                                                *)
LEMMA TablesAgree ==
    ASSUME NEW ins \in Instruction, ins.op # "INVALID"
    PROVE  InstructionRegistersValid(ins) <=> VerifyReg(ins)
<1>1. ins.op \in Opcode
  BY DEF Instruction
<1> QED
  BY <1>1
     DEF InstructionRegistersValid, VerifyReg, Opcode, AluOps, ImmOps, RegOps,
         DivOps, ShiftOps, CmpOps, LoadOps, StoreOps, JumpOps, UnaryOps,
         ValidatesOneReg, ValidatesTwoRegs, ValidatesNoReg, VerifiesOneReg,
         VerifiesTwoRegs

LEMMA SameVerdict ==
    ASSUME NEW program \in Seq(Instruction), NEW ins \in Instruction
    PROVE  ValidateIns(program, ins) = VerifyIns(program, ins)
BY TablesAgree DEF ValidateIns, VerifyIns, VerifyJump

(* The scans stop at the same instruction: the least bad one. *)
LEMMA FirstBadVerify ==
    ASSUME NEW program \in Seq(Instruction), ~AllGood(program, VerifyIns)
    PROVE  LET i == FirstBad(program, VerifyIns)
           IN  /\ i \in 1 .. Len(program)
               /\ VerifyIns(program, program[i]) # "OK"
               /\ \A j \in 1 .. (i - 1) : VerifyIns(program, program[j]) = "OK"
<1> DEFINE Bad == {i \in 1 .. Len(program) : VerifyIns(program, program[i]) # "OK"}
<1>1. Bad \in SUBSET Nat /\ Bad # {}
  BY DEF AllGood
<1>2. PICK x \in Bad : \A y \in Bad : x <= y
  BY <1>1, LeastExists
<1>3. \A j \in 1 .. (x - 1) : VerifyIns(program, program[j]) = "OK"
  BY <1>2
<1> QED
  BY <1>2, <1>3 DEF FirstBad

LEMMA FirstBadValidate ==
    ASSUME NEW program \in Seq(Instruction), ~AllGood(program, ValidateIns)
    PROVE  LET i == FirstBad(program, ValidateIns)
           IN  /\ i \in 1 .. Len(program)
               /\ ValidateIns(program, program[i]) # "OK"
               /\ \A j \in 1 .. (i - 1) : ValidateIns(program, program[j]) = "OK"
<1> DEFINE Bad == {i \in 1 .. Len(program) : ValidateIns(program, program[i]) # "OK"}
<1>1. Bad \in SUBSET Nat /\ Bad # {}
  BY DEF AllGood
<1>2. PICK x \in Bad : \A y \in Bad : x <= y
  BY <1>1, LeastExists
<1>3. \A j \in 1 .. (x - 1) : ValidateIns(program, program[j]) = "OK"
  BY <1>2
<1> QED
  BY <1>2, <1>3 DEF FirstBad

LEMMA AllGoodAgree ==
    ASSUME NEW program \in Seq(Instruction)
    PROVE  AllGood(program, ValidateIns) <=> AllGood(program, VerifyIns)
<1>1. \A i \in 1 .. Len(program) :
          ValidateIns(program, program[i]) = VerifyIns(program, program[i])
  BY SameVerdict
<1> QED
  BY <1>1 DEF AllGood

LEMMA VerdictsAgree ==
    ASSUME NEW program \in Seq(Instruction)
    PROVE  ValidateProgram(program) = VerifyProgram(program).error
<1>1. CASE AllGood(program, VerifyIns)
  BY <1>1, AllGoodAgree DEF ValidateProgram, VerifyProgram
<1>2. CASE ~AllGood(program, VerifyIns)
  <2> DEFINE i == FirstBad(program, VerifyIns)
             k == FirstBad(program, ValidateIns)
  <2>1. /\ i \in 1 .. Len(program)
        /\ VerifyIns(program, program[i]) # "OK"
        /\ \A j \in 1 .. (i - 1) : VerifyIns(program, program[j]) = "OK"
    BY <1>2, FirstBadVerify
  <2>2. /\ k \in 1 .. Len(program)
        /\ ValidateIns(program, program[k]) # "OK"
        /\ \A j \in 1 .. (k - 1) : ValidateIns(program, program[j]) = "OK"
    BY <1>2, AllGoodAgree, FirstBadValidate
  <2> HIDE DEF i, k
  <2>3. \A j \in 1 .. Len(program) :
            ValidateIns(program, program[j]) = VerifyIns(program, program[j])
    BY SameVerdict
  <2>4. ~(i < k) /\ ~(k < i)
    <3>1. ASSUME i < k PROVE FALSE
      BY <2>1, <2>2, <2>3, <3>1
    <3>2. ASSUME k < i PROVE FALSE
      BY <2>1, <2>2, <2>3, <3>2
    <3> QED
      BY <3>1, <3>2
  <2>5. i = k
    BY <2>1, <2>2, <2>4
  <2>6. ValidateIns(program, program[k]) = VerifyIns(program, program[i])
    BY <2>1, <2>3, <2>5
  <2> QED
    BY <1>2, <2>6, AllGoodAgree DEF ValidateProgram, VerifyProgram, i, k
<1> QED
  BY <1>1, <1>2

(* The loader and `waivm verify` give the program of every machine the     *)
(* same verdict, whatever bytes it is made of.                             *)
THEOREM CheckersAlwaysAgree == Spec => []CheckersAgree
<1>1. IInv => CheckersAgree
  BY VerdictsAgree DEF IInv, ControlInv, CheckersAgree
<1> QED
  BY <1>1, Invariance, PTL

----------------------------------------------------------------------------
(* An accepted program holds no instruction the verifier objects to.       *)
LEMMA AcceptedInstructions ==
    ASSUME NEW program \in Seq(Instruction), VerifyProgram(program).error = "OK",
           NEW i \in 1 .. Len(program)
    PROVE  VerifyIns(program, program[i]) = "OK"
<1>1. CASE AllGood(program, VerifyIns)
  BY <1>1 DEF AllGood
<1>2. CASE ~AllGood(program, VerifyIns)
  <2> DEFINE k == FirstBad(program, VerifyIns)
  <2>1. VerifyIns(program, program[k]) # "OK"
    BY <1>2, FirstBadVerify
  <2>2. VerifyProgram(program).error = VerifyIns(program, program[k])
    BY <1>2 DEF VerifyProgram
  <2> QED
    BY <2>1, <2>2
<1> QED
  BY <1>1, <1>2

LEMMA AcceptedIns ==
    ASSUME IInv, Fetched, Accepted
    PROVE  /\ Ins.op \in Opcode
           /\ VerifyReg(Ins)
           /\ Ins.op \in {"SHL_IMM", "SHR_IMM"} => ~BadShift(Ins.imm)
           /\ Ins.op \in {"DIV_IMM", "MOD_IMM"} => Ins.imm # 0
           /\ VerifyJump(code, Ins)
           /\ Ins.op \in {"LOAD_ABS", "STORE_ABS"} => ~BadAddress(Ins.imm)
<1>1. Ins \in Instruction /\ Ins = code[ip + 1] /\ ip + 1 \in 1 .. Len(code)
  BY InsType, InvariantsFollow
<1>2. code \in Seq(Instruction)
  BY DEF IInv, ControlInv
<1>3. VerifyIns(code, Ins) = "OK"
  BY <1>1, <1>2, AcceptedInstructions DEF Accepted
<1>4. Ins.op \in Opcode \cup {"INVALID"}
  BY <1>1 DEF Instruction
<1> QED
  BY <1>3, <1>4 DEF VerifyIns

(* Its registers exist, so a step past them never finds one missing. *)
LEMMA AcceptedRegisters ==
    ASSUME IInv, Fetched, Accepted
    PROVE  ~BadRegister(Ins)
<1>1. Ins.op \in Opcode /\ VerifyReg(Ins)
  BY AcceptedIns
<1>2. Ins.op \in FirstRegOps => ValidReg(Ins.a)
  BY <1>1
     DEF VerifyReg, VerifiesOneReg, VerifiesTwoRegs, FirstRegOps, Opcode, AluOps,
         ImmOps, RegOps, DivOps, ShiftOps, CmpOps, LoadOps, StoreOps, JumpOps,
         UnaryOps
<1>3. Ins.op \in SecondRegOps => ValidReg(Ins.b)
  BY <1>1 DEF VerifyReg, VerifiesTwoRegs, SecondRegOps, RegOps
<1> QED
  BY <1>2, <1>3 DEF BadRegister

LEMMA AcceptedFault ==
    ASSUME IInv, Accepted, Next, rc = "OK", rc' # "OK", rc' # "IP_OUT_OF_BOUNDS",
           code # <<>>
    PROVE  /\ DynamicFault(rc', Ins)
           /\ ip' = ip + 1 /\ code' = code /\ ip \in Nat
<1>0. ip \in Nat
  BY DEF IInv, ControlInv
<1>1. CASE DivideByZero
  <2>1. Ins.op \in SecondRegOps
    BY <1>1, AcceptedIns
       DEF DivideByZero, Executing, DivOps, Operand, SecondRegOps
  <2> QED
    BY <1>0, <1>1, <2>1 DEF DivideByZero, Fault, DynamicFault
<1>2. CASE ShiftFault
  <2>1. Ins.op \in SecondRegOps
    BY <1>2, AcceptedIns
       DEF ShiftFault, Executing, ShiftOps, Operand, SecondRegOps
  <2> QED
    BY <1>0, <1>2, <2>1 DEF ShiftFault, Fault, DynamicFault
<1>3. CASE AddressFault
  <2>1. ASSUME Ins.op \notin SecondRegOps PROVE FALSE
    <3>1. Fetched /\ Ins.op \in LoadOps \cup StoreOps /\ BadAddress(Ins.imm)
      BY <1>3, <2>1 DEF AddressFault, Executing, Operand
    <3>2. Ins.op \in {"LOAD_ABS", "STORE_ABS"}
      BY <2>1, <3>1 DEF LoadOps, StoreOps, SecondRegOps
    <3> QED
      BY <3>1, <3>2, AcceptedIns
  <2> QED
    BY <1>0, <1>3, <2>1 DEF AddressFault, Fault, DynamicFault
<1>4. CASE StackOverflow
  BY <1>0, <1>4 DEF StackOverflow, Executing, Fault, DynamicFault
<1>5. CASE StackUnderflow
  BY <1>0, <1>5 DEF StackUnderflow, Executing, Fault, DynamicFault
<1>6. CASE RetFault
  BY <1>0, <1>6 DEF RetFault, Executing, Fault, DynamicFault
<1>7. ~JumpFault
  <2> SUFFICES ASSUME JumpFault PROVE FALSE
    OBVIOUS
  <2>1. /\ Fetched /\ Ins.op \in JumpOps \cup {"CALL"}
        /\ BadTarget(code, Ins.imm)
    BY DEF JumpFault, Executing
  <2> QED
    BY <2>1, AcceptedIns DEF VerifyJump, JumpOps
<1>8. ~StepBadOpcode /\ ~StepBadRegister
  <2>1. "INVALID" \notin Opcode
    BY DEF Opcode, AluOps, ImmOps, RegOps, DivOps, ShiftOps, CmpOps, LoadOps,
           StoreOps, JumpOps, UnaryOps
  <2> QED
    BY <2>1, AcceptedIns, AcceptedRegisters DEF StepBadOpcode, StepBadRegister
<1>9. ~StepNullCode /\ ~StepPastEnd
  BY DEF StepNullCode, StepPastEnd
<1>10. ~(\/ StepHalted \/ Stopped \/ DivideTrap \/ Halt \/ Arithmetic \/ Bitwise \/ NotBits
         \/ Divide \/ Shift \/ Compare \/ EmitPrint \/ Nop \/ Load \/ Store \/ Push
         \/ Pop \/ Jump \/ JumpNotTaken \/ Call \/ Ret)
  BY DEF StepHalted, Stopped, DivideTrap, Halt, Arithmetic, Bitwise, NotBits, Divide, Shift,
         Compare, EmitPrint, Nop, Load, Store, Push, Pop, Jump, JumpNotTaken, Call,
         Ret, Advance, Goto, vars, control
<1> QED
  BY <1>1, <1>2, <1>3, <1>4, <1>5, <1>6, <1>7, <1>8, <1>9, <1>10
     DEF Next, Step, Execute

LEMMA SoundnessKept ==
    IInv /\ AcceptedFaultsAreDynamic /\ [Next]_vars => AcceptedFaultsAreDynamic'
<1> SUFFICES ASSUME IInv, AcceptedFaultsAreDynamic, [Next]_vars,
                    Accepted', code' # <<>>, rc' # "OK", rc' # "IP_OUT_OF_BOUNDS"
             PROVE  DynamicFault(rc', code'[ip'])
  BY DEF AcceptedFaultsAreDynamic
<1>1. code' = code
  BY DEF Next, Step, Execute, StepNullCode, StepHalted, StepPastEnd, StepBadOpcode,
         StepBadRegister, Arithmetic, Bitwise, NotBits, Divide, DivideByZero, DivideTrap,
         Shift, ShiftFault, Compare, EmitPrint, Nop, Halt, Load, Store, AddressFault,
         Push, StackOverflow, Pop, StackUnderflow, Jump, JumpNotTaken, JumpFault,
         Call, Ret, RetFault, Stopped, Advance, Goto, Fault, vars
<1>2. Accepted
  BY <1>1 DEF Accepted
<1>3. CASE UNCHANGED vars
  BY <1>1, <1>2, <1>3 DEF vars, control, AcceptedFaultsAreDynamic
<1>4. CASE Next /\ rc = "OK"
  BY <1>1, <1>2, <1>4, AcceptedFault DEF Ins
<1>5. CASE Next /\ rc # "OK"
  <2>1. UNCHANGED vars
    BY <1>5
       DEF Next, Step, Execute, StepNullCode, StepHalted, StepPastEnd,
           StepBadOpcode, StepBadRegister, Arithmetic, Bitwise, NotBits, Divide,
           DivideByZero, DivideTrap, Shift, ShiftFault, Compare, EmitPrint, Nop, Halt,
           Load, Store, AddressFault, Push, StackOverflow, Pop, StackUnderflow,
           Jump, JumpNotTaken, JumpFault, Call, Ret, RetFault, Stopped, Executing,
           Fetched, Ready
  <2> QED
    BY <1>3, <2>1
<1> QED
  BY <1>3, <1>4, <1>5

(* wai_verify_program is sound for every program and every memory size: an *)
(* accepted program never fails on anything the verifier could have seen.  *)
THEOREM VerifierSound == Spec => []AcceptedFaultsAreDynamic
<1>1. Init => AcceptedFaultsAreDynamic
  BY DEF Init, AcceptedFaultsAreDynamic
<1> QED
  BY <1>1, SoundnessKept, Invariance, PTL DEF Spec

----------------------------------------------------------------------------
(* The instruction that made the verifier reject the program. *)
LEMMA RejectedIns ==
    ASSUME IInv, ~Accepted, ip = VerifyProgram(code).ip, Ready, ~halted
    PROVE  /\ Fetched /\ Ins \in Instruction
           /\ VerifyProgram(code).error = VerifyIns(code, Ins)
           /\ VerifyIns(code, Ins) # "OK"
<1>1. code \in Seq(Instruction) /\ ip \in Nat
  BY DEF IInv, ControlInv
<1>2. ~AllGood(code, VerifyIns)
  BY DEF Accepted, VerifyProgram
<1> DEFINE i == FirstBad(code, VerifyIns)
<1>3. i \in 1 .. Len(code) /\ VerifyIns(code, code[i]) # "OK"
  BY <1>1, <1>2, FirstBadVerify
<1>4. VerifyProgram(code).ip = i - 1 /\ VerifyProgram(code).error = VerifyIns(code, code[i])
  BY <1>2 DEF VerifyProgram
<1> HIDE DEF i
<1>5. ip + 1 = i
  BY <1>1, <1>3, <1>4
<1>6. Fetched
  BY <1>1, <1>3, <1>5 DEF Fetched
<1> QED
  BY <1>1, <1>3, <1>4, <1>5, <1>6 DEF Ins

(* A fetched instruction leads to one kind of step; this is which. *)
LEMMA FetchedStep ==
    ASSUME IInv, Fetched, Next
    PROVE  StepBadOpcode \/ StepBadRegister \/ Execute
<1>1. ip \in Nat /\ Len(code) \in Nat
  BY DEF IInv, ControlInv
<1> QED
  BY <1>1 DEF Fetched, Ready, Next, Step, Stopped, StepNullCode, StepHalted, StepPastEnd

LEMMA UnknownOpcodeFails ==
    ASSUME IInv, Fetched, Next, Ins.op = "INVALID"
    PROVE  rc' = "BAD_OPCODE"
<1>1. Ins.op \notin Opcode
  BY DEF Opcode, AluOps, ImmOps, RegOps, DivOps, ShiftOps, CmpOps, LoadOps, StoreOps,
         JumpOps, UnaryOps
<1>2. ~StepBadRegister
  BY <1>1 DEF StepBadRegister, BadRegister, FirstRegOps, SecondRegOps, Opcode, AluOps,
         ImmOps, RegOps, DivOps, ShiftOps, CmpOps, LoadOps, StoreOps, JumpOps, UnaryOps
<1>3. ~Execute
  BY <1>1 DEF Execute, Executing, Opcode, Arithmetic, Bitwise, NotBits, Divide,
         DivideByZero, DivideTrap, Shift, ShiftFault, Compare, EmitPrint, Nop, Halt,
         Load, Store, AddressFault, Push, StackOverflow, Pop, StackUnderflow, Jump,
         JumpNotTaken, JumpFault, Call, Ret, RetFault, AluOps, BitOps, ImmOps, RegOps,
         UnaryOps
<1>4. StepBadOpcode
  BY <1>2, <1>3, FetchedStep
<1> QED
  BY <1>4 DEF StepBadOpcode, Fault

LEMMA MissingRegisterFails ==
    ASSUME IInv, Fetched, Next, Ins.op # "INVALID", BadRegister(Ins)
    PROVE  rc' = "BAD_REGISTER"
<1>1. ~Execute
  BY DEF Execute, Executing, Arithmetic, Bitwise, NotBits, Divide, DivideByZero,
         DivideTrap, Shift, ShiftFault, Compare, EmitPrint, Nop, Halt, Load, Store,
         AddressFault, Push, StackOverflow, Pop, StackUnderflow, Jump, JumpNotTaken,
         JumpFault, Call, Ret, RetFault
<1>2. StepBadRegister
  BY <1>1, FetchedStep DEF StepBadOpcode
<1> QED
  BY <1>2 DEF StepBadRegister, Fault

LEMMA BadOperandFails ==
    ASSUME IInv, Fetched, Next, Ins.op # "INVALID", ~BadRegister(Ins)
    PROVE  /\ Ins.op \in {"SHL_IMM", "SHR_IMM"} /\ BadShift(Ins.imm) => rc' = "BAD_SHIFT"
           /\ Ins.op \in {"DIV_IMM", "MOD_IMM"} /\ Ins.imm = 0 => rc' = "DIV_ZERO"
           /\ Ins.op \in {"LOAD_ABS", "STORE_ABS"} /\ BadAddress(Ins.imm)
                => rc' = "MEMORY_OOB"
           /\ Ins.op \in JumpOps \cup {"CALL"} /\ BadTarget(code, Ins.imm) /\ Taken
                => rc' = "BAD_JUMP"
<1>1. Execute
  BY FetchedStep DEF StepBadOpcode, StepBadRegister
<1>2. ASSUME Ins.op \in {"SHL_IMM", "SHR_IMM"}, BadShift(Ins.imm) PROVE rc' = "BAD_SHIFT"
  <2>1. Operand = Ins.imm
    BY <1>2 DEF Operand, SecondRegOps, RegOps
  <2>2. ShiftFault
    BY <1>1, <1>2, <2>1
       DEF Execute, Executing, Arithmetic, Bitwise, NotBits, Divide, DivideByZero,
           DivideTrap, Shift, Compare, EmitPrint, Nop, Halt, Load, Store, AddressFault,
           Push, StackOverflow, Pop, StackUnderflow, Jump, JumpNotTaken, JumpFault, Call,
           Ret, RetFault, AluOps, BitOps, ImmOps, RegOps, DivOps, CmpOps, LoadOps,
           StoreOps, JumpOps
  <2> QED
    BY <2>2 DEF ShiftFault, Fault
<1>3. ASSUME Ins.op \in {"DIV_IMM", "MOD_IMM"}, Ins.imm = 0 PROVE rc' = "DIV_ZERO"
  <2>1. Operand = 0
    BY <1>3 DEF Operand, SecondRegOps, RegOps
  <2>2. DivideByZero
    BY <1>1, <1>3, <2>1
       DEF Execute, Executing, Arithmetic, Bitwise, NotBits, Divide, DivideTrap, Shift,
           ShiftFault, Compare, EmitPrint, Nop, Halt, Load, Store, AddressFault, Push,
           StackOverflow, Pop, StackUnderflow, Jump, JumpNotTaken, JumpFault, Call, Ret,
           RetFault, AluOps, BitOps, ImmOps, RegOps, ShiftOps, CmpOps, LoadOps,
           StoreOps, JumpOps
  <2> QED
    BY <2>2 DEF DivideByZero, Fault
<1>4. ASSUME Ins.op \in {"LOAD_ABS", "STORE_ABS"}, BadAddress(Ins.imm)
      PROVE  rc' = "MEMORY_OOB"
  <2>1. Operand = Ins.imm
    BY <1>4 DEF Operand, SecondRegOps, RegOps
  <2>2. AddressFault
    BY <1>1, <1>4, <2>1
       DEF Execute, Executing, Arithmetic, Bitwise, NotBits, Divide, DivideByZero,
           DivideTrap, Shift, ShiftFault, Compare, EmitPrint, Nop, Halt, Load, Store,
           Push, StackOverflow, Pop, StackUnderflow, Jump, JumpNotTaken, JumpFault, Call,
           Ret, RetFault, AluOps, BitOps, ImmOps, RegOps, DivOps, ShiftOps, CmpOps,
           JumpOps
  <2> QED
    BY <2>2 DEF AddressFault, Fault
<1>5. ASSUME Ins.op \in JumpOps \cup {"CALL"}, BadTarget(code, Ins.imm), Taken
      PROVE  rc' = "BAD_JUMP"
  <2>1. JumpFault
    BY <1>1, <1>5
       DEF Execute, Executing, Arithmetic, Bitwise, NotBits, Divide, DivideByZero,
           DivideTrap, Shift, ShiftFault, Compare, EmitPrint, Nop, Halt, Load, Store,
           AddressFault, Push, StackOverflow, Pop, StackUnderflow, Jump, JumpNotTaken,
           Call, Ret, RetFault, AluOps, BitOps, ImmOps, RegOps, DivOps, ShiftOps, CmpOps,
           LoadOps, StoreOps, JumpOps
  <2> QED
    BY <2>1 DEF JumpFault, Fault
<1> QED
  BY <1>2, <1>3, <1>4, <1>5

LEMMA RejectedStepFails ==
    ASSUME IInv, Next, ~Accepted, ip = VerifyProgram(code).ip, Ready, ~halted,
           Ins.c = 0, Ins.op \in JumpOps => Taken
    PROVE  rc' = VerifyProgram(code).error
<1>1. /\ Fetched /\ Ins \in Instruction
      /\ VerifyProgram(code).error = VerifyIns(code, Ins) /\ VerifyIns(code, Ins) # "OK"
  BY RejectedIns
<1>2. CASE Ins.op = "INVALID"
  BY <1>1, <1>2, UnknownOpcodeFails DEF VerifyIns
<1>3. CASE Ins.op # "INVALID" /\ ~VerifyReg(Ins)
  <2>1. BadRegister(Ins)
    BY <1>1, <1>3
       DEF VerifyReg, VerifiesOneReg, VerifiesTwoRegs, BadRegister, FirstRegOps,
           SecondRegOps, Opcode, AluOps, ImmOps, RegOps, DivOps, ShiftOps, CmpOps,
           LoadOps, StoreOps, JumpOps, UnaryOps
  <2> QED
    BY <1>1, <1>3, <2>1, MissingRegisterFails DEF VerifyIns
<1>4. CASE Ins.op # "INVALID" /\ VerifyReg(Ins)
  <2>1. ~BadRegister(Ins)
    BY <1>1, <1>4
       DEF Instruction, VerifyReg, VerifiesOneReg, VerifiesTwoRegs, BadRegister,
           FirstRegOps, SecondRegOps, Opcode, AluOps, ImmOps, RegOps, DivOps, ShiftOps,
           CmpOps, LoadOps, StoreOps, JumpOps, UnaryOps
  <2>2. Ins.op = "CALL" => Taken
    BY DEF Taken
  <2> QED
    BY <1>1, <1>4, <2>1, <2>2, BadOperandFails DEF VerifyIns, VerifyJump, JumpOps
<1> QED
  BY <1>2, <1>3, <1>4

(* wai_verify_program never cries wolf: executing the instruction that it  *)
(* rejects fails with the error it reported, for every program and machine *)
(* size, unless only the reserved byte was wrong or a jump is not taken.   *)
THEOREM RejectionsAreFaults == Spec => RejectedMeansFault
<1>1. IInv /\ [Next]_vars =>
        [/\ ~Accepted /\ ip = VerifyProgram(code).ip
         /\ Ready /\ ~halted /\ rc' # VerifyProgram(code).error
         => \/ Ins.c # 0
            \/ Ins.op \in JumpOps /\ ~Taken]_vars
  BY RejectedStepFails
<1> QED
  BY <1>1, Invariance, PTL DEF Spec, RejectedMeansFault
=============================================================================
