---------------------------- MODULE CallerProofs ----------------------------
(***************************************************************************)
(* The two loops that call wai_vm_step: tracing, for every step limit, and *)
(* debugger sessions of any length, for every limit of the inspection      *)
(* commands; both for every program and machine size.                      *)
(***************************************************************************)
EXTENDS Trace, Debugger, VmProofs

(* The verdict alone is not inductive: the step that ends tracing finds    *)
(* the machine as the steps before it left it.                             *)
TraceInv ==
    /\ IInv
    /\ steps \in 0 .. MaxSteps
    /\ verdict = "tracing" => rc = "OK"
    /\ VerdictExplains

(* A step that is made inside the program neither runs past its end nor    *)
(* returns a code of tracing's own.                                        *)
LEMMA StepErrors ==
    ASSUME Step, code # <<>>, ip < Len(code), ip \in Nat, code \in Seq(Instruction),
           rc = "OK"
    PROVE  rc' \notin {"tracing", "UNSUPPORTED", "IP_OUT_OF_BOUNDS"}
<1>1. rc' = rc \/ \E e \in ErrorCode \ {"IP_OUT_OF_BOUNDS"} : Fault(e)
  BY DEF Step, StepNullCode, StepHalted, vars, control, StepPastEnd, StepBadOpcode,
         StepBadRegister, Execute, Arithmetic, Bitwise, NotBits, Divide, DivideByZero,
         DivideTrap, Shift, ShiftFault, Compare, EmitPrint, Nop, Halt, Load, Store,
         AddressFault, Push, StackOverflow, Pop, StackUnderflow, Jump, JumpNotTaken,
         JumpFault, Call, Ret, RetFault, Advance, Goto, ErrorCode
<1> QED
  BY <1>1 DEF Fault, ErrorCode

LEMMA TraceInitEstablishes == TraceInit => TraceInv
<1> SUFFICES ASSUME TraceInit PROVE TraceInv
  OBVIOUS
<1>1. IInv /\ rc = "OK"
  BY InitEstablishes DEF TraceInit, Init
<1> QED
  BY <1>1, MaxStepsAssumption DEF TraceInit, TraceInv, VerdictExplains

LEMMA TraceStepKeeps == TraceInv /\ TraceStep => TraceInv'
<1> SUFFICES ASSUME TraceInv, TraceStep PROVE TraceInv'
  OBVIOUS
<1>1. /\ Step /\ ~halted /\ steps < MaxSteps /\ ip < Len(code) /\ verdict = "tracing"
      /\ IF rc' = "OK" THEN steps' = steps + 1 /\ verdict' = verdict
         ELSE verdict' = rc' /\ steps' = steps
  BY DEF TraceStep, Tracing
<1>2. /\ IInv /\ rc = "OK" /\ steps \in 0 .. MaxSteps
      /\ code \in Seq(Instruction) /\ ip \in Nat
  BY <1>1 DEF TraceInv, IInv, ControlInv
<1>3. IInv'
  BY <1>1, <1>2, NextKeeps DEF Next
<1>4. code # <<>>
  BY <1>1, <1>2
<1>5. error' = rc'
  BY <1>1, <1>3, <1>4, CodeStays DEF IInv, ControlInv, ErrorMatchesResult
<1>6. rc' \notin {"tracing", "UNSUPPORTED", "IP_OUT_OF_BOUNDS"}
  BY <1>1, <1>2, <1>4, StepErrors
<1>7. steps' \in 0 .. MaxSteps
  BY <1>1, <1>2, MaxStepsAssumption
<1>8. VerdictExplains'
  BY <1>1, <1>5, <1>6 DEF VerdictExplains
<1> QED
  BY <1>1, <1>3, <1>6, <1>7, <1>8 DEF TraceInv

LEMMA TraceKeeps == TraceInv /\ [TraceNext]_traceVars => TraceInv'
<1> SUFFICES ASSUME TraceInv, [TraceNext]_traceVars PROVE TraceInv'
  OBVIOUS
<1>1. CASE TraceStep
  BY <1>1, TraceStepKeeps
<1>2. CASE UNCHANGED vars
  <2>1. IInv'
    BY <1>2, NextKeeps DEF TraceInv
  <2>2. code' = code /\ ip' = ip /\ halted' = halted /\ error' = error /\ rc' = rc
    BY <1>2 DEF vars, control
  <2>3. CASE UNCHANGED <<steps, verdict>>
    BY <2>1, <2>2, <2>3 DEF TraceInv, VerdictExplains
  <2>4. CASE EndsHalted \/ EndsAtLimit \/ EndsPastProgram
    <3>1. /\ rc = "OK" /\ steps' = steps /\ steps \in 0 .. MaxSteps
          /\ \/ halted /\ verdict' = "OK"
             \/ ~halted /\ steps >= MaxSteps /\ verdict' = "UNSUPPORTED"
             \/ /\ steps < MaxSteps /\ ip >= Len(code)
                /\ verdict' = "IP_OUT_OF_BOUNDS"
      BY <2>4 DEF TraceInv, EndsHalted, EndsAtLimit, EndsPastProgram, Tracing
    <3>2. VerdictExplains'
      BY <2>2, <3>1, MaxStepsAssumption DEF VerdictExplains
    <3> QED
      BY <2>1, <2>2, <3>1, <3>2 DEF TraceInv
  <2>5. CASE TraceStep
    BY <2>5, TraceStepKeeps
  <2> QED
    BY <2>3, <2>4, <2>5 DEF TraceNext, TraceActs, Ended, traceVars
<1> QED
  BY <1>1, <1>2
     DEF TraceNext, TraceActs, Ended, traceVars, EndsHalted, EndsAtLimit,
         EndsPastProgram

(* The verdict tells the truth about the machine and the limit, however    *)
(* many steps are allowed.                                                 *)
THEOREM VerdictIsTrue == TraceSpec => []VerdictExplains
<1>1. TraceInv => VerdictExplains
  BY DEF TraceInv
<1> QED
  BY <1>1, TraceInitEstablishes, TraceKeeps, PTL DEF TraceSpec

(* Tracing only ever moves the machine by calls of the engine, so what is  *)
(* proved of the engine holds while it is traced.                          *)
LEMMA TraceIsStepping == TraceSpec => Spec
<1>1. TraceInit => Init
  BY DEF TraceInit
<1>2. [TraceNext]_traceVars => [Next]_vars
  BY DEF TraceNext, TraceActs, TraceStep, EndsHalted, EndsAtLimit, EndsPastProgram,
         Ended, traceVars, Next
<1> QED
  BY <1>1, <1>2, PTL DEF TraceSpec, Spec

----------------------------------------------------------------------------
(* The debugger. *)

(* The session's invariant needs the engine's: a `stack` command reads     *)
(* inside memory only because sp is an address, and a session that went on *)
(* after an error could not tell it from a quit.  An empty program never   *)
(* records one.                                                            *)
SessionInv ==
    /\ InspectionInBounds
    /\ FailureEndsSession
    /\ mode # "ended" => returned = "none"
    /\ code = <<>> => error = "OK"

DebugInv == IInv /\ SessionInv

(* The addresses of the inspection commands. *)
LEMMA DumpStaysInMemory ==
    ASSUME NEW address \in Nat, NEW count \in Nat
    PROVE  DumpedBytes(address, count) \subseteq Address
<1>1. SUFFICES ASSUME address < MemorySize
               PROVE  DumpedBytes(address, count) \subseteq Address
  BY MachineAssumption DEF DumpedBytes
<1> DEFINE limited == LeastOf(count, MaxDump)
<1>2. limited \in 0 .. MaxDump /\ MemorySize \in Nat /\ MaxDump \in Nat
  BY LimitsAssumption, MachineAssumption DEF LeastOf
<1>3. (address + limited) % Modulus = address + limited
  <2>1. address + limited \in 0 .. (Modulus - 1) /\ Modulus \in Nat
    BY <1>1, <1>2, LimitsAssumption, Widths
  <2> HIDE DEF limited
  <2> QED
    BY <2>1
<1> HIDE DEF limited
<1>4. EndsInside(address, limited) \in 0 .. (MemorySize - address)
  BY <1>1, <1>2, <1>3 DEF EndsInside
<1>5. DumpedBytes(address, count) = address .. (address + EndsInside(address, limited) - 1)
  BY <1>1, MachineAssumption DEF DumpedBytes, limited
<1> DEFINE inside == EndsInside(address, limited)
<1>6. inside \in Nat /\ inside <= MemorySize - address
  BY <1>1, <1>2, <1>4
<1> HIDE DEF inside
<1>7. address .. (address + inside - 1) \subseteq Address
  BY <1>1, <1>2, <1>6 DEF Address
<1> QED
  BY <1>5, <1>7 DEF inside

LEMMA ListingStaysInMemory ==
    ASSUME IInv, NEW count \in Nat, NEW k \in ListedCells(count), NEW i \in ByteIndex
    PROVE  sp + k * ValueSize + i \in Address
<1>1. /\ k \in Nat /\ sp \in Nat /\ i \in 0 .. (ValueSize - 1)
      /\ sp + k * ValueSize <= MemorySize - ValueSize
  BY LimitsAssumption DEF ListedCells, LeastOf, ByteIndex, IInv, DataInv
<1> DEFINE offset == k * ValueSize
<1>2. offset \in Nat
  BY <1>1, WordAssumption
<1>3. sp + offset <= MemorySize - ValueSize
  BY <1>1
<1> HIDE DEF offset
<1>4. sp + offset + i \in 0 .. (MemorySize - 1)
  BY <1>1, <1>2, <1>3, WordAssumption, MachineAssumption
<1> QED
  BY <1>4 DEF offset, Address

----------------------------------------------------------------------------
LEMMA DebugInitEstablishes == DebugInit => DebugInv
<1> SUFFICES ASSUME DebugInit PROVE DebugInv
  OBVIOUS
<1>1. IInv /\ rc = "OK" /\ error = "OK"
  BY InitEstablishes DEF DebugInit, Init
<1> QED
  BY <1>1
     DEF DebugInit, DebugInv, SessionInv, InspectionInBounds, FailureEndsSession

(* wai_vm_step refuses NULL code before it touches the machine. *)
LEMMA EmptyRecordsNothing ==
    ASSUME IInv, Step, code = <<>>
    PROVE  error' = error
<1>1. ip \in Nat /\ ~(ip < Len(code))
  BY DEF IInv, ControlInv
<1> QED
  BY <1>1 DEF Step, StepNullCode, StepHalted, StepPastEnd, StepBadOpcode, StepBadRegister,
              Execute, Arithmetic, Bitwise, NotBits, Divide, DivideByZero, DivideTrap,
              Shift, ShiftFault, Compare, EmitPrint, Nop, Halt, Load, Store, AddressFault,
              Push, StackOverflow, Pop, StackUnderflow, Jump, JumpNotTaken, JumpFault,
              Call, Ret, RetFault, Executing, Fetched

(* A step of the engine, from `step` or inside `continue`. *)
LEMMA DoStepKeeps ==
    ASSUME DebugInv, mode # "ended", NEW next \in {"prompt", "running"}, DoStep(next)
    PROVE  DebugInv'
<1>1. /\ Step /\ shown' = shown /\ breakpoints' = breakpoints
      /\ IF rc' # "OK" THEN mode' = "ended" /\ returned' = error'
         ELSE mode' = next /\ returned' = returned
  BY DEF DoStep
<1>2. IInv' /\ code' = code
  BY <1>1, NextKeeps, CodeStays DEF DebugInv, Next
<1>3. code # <<>> => error' = rc'
  BY <1>2 DEF IInv, ControlInv, ErrorMatchesResult
<1>4. returned = "none"
  BY DEF DebugInv, SessionInv
<1>5. InspectionInBounds'
  BY <1>1, <1>2 DEF DebugInv, SessionInv, InspectionInBounds
<1>6. code = <<>> => error' = "OK"
  BY <1>1, EmptyRecordsNothing DEF DebugInv, SessionInv
<1>7. FailureEndsSession'
  BY <1>1, <1>2, <1>3, <1>4, <1>6 DEF FailureEndsSession
<1> QED
  BY <1>1, <1>2, <1>4, <1>5, <1>6, <1>7 DEF DebugInv, SessionInv

(* The other actions leave the machine alone. *)
LEMMA OthersKeep ==
    ASSUME DebugInv, UNCHANGED vars,
           \/ ContinueCommand \/ ContinueStops \/ Quit \/ UNCHANGED session
           \/ \E k \in Word64 : BreakCommand(k) \/ ClearCommand(k)
           \/ \E count \in Word64 : StackCommand(count)
           \/ \E address, count \in Word64 : MemCommand(address, count)
    PROVE  DebugInv'
<1>1. IInv'
  BY NextKeeps DEF DebugInv
<1>2. code' = code /\ rc' = rc /\ error' = error
  BY DEF vars, control
<1>3. SessionInv
  BY DEF DebugInv
<1>4. (\A k \in Word64 : k \in Nat) /\ Len(code) \in Nat
  <2>1. code \in Seq(Instruction)
    BY DEF DebugInv, IInv, ControlInv
  <2> QED
    BY <2>1, Widths DEF Word64
<1>5. CASE ContinueCommand \/ ContinueStops \/ UNCHANGED session
  <2>1. /\ UNCHANGED <<breakpoints, shown, returned>>
        /\ mode' = mode \/ (mode # "ended" /\ mode' # "ended")
    BY <1>5 DEF ContinueCommand, ContinueStops, AtPrompt, Running, session
  <2> QED
    BY <1>1, <1>2, <1>3, <2>1
       DEF DebugInv, SessionInv, InspectionInBounds, FailureEndsSession
<1>6. CASE Quit
  BY <1>1, <1>2, <1>3, <1>6
     DEF Quit, AtPrompt, DebugInv, SessionInv, InspectionInBounds, FailureEndsSession
<1>7. ASSUME NEW k \in Word64, BreakCommand(k) \/ ClearCommand(k)
      PROVE  SessionInv'
  <2>1. ValidIndex(k) => k \in 0 .. (Len(code) - 1)
    BY <1>4 DEF ValidIndex
  <2>2. InspectionInBounds'
    BY <1>2, <1>3, <1>7, <2>1
       DEF BreakCommand, ClearCommand, SessionInv, InspectionInBounds
  <2> QED
    BY <1>2, <1>3, <1>7, <2>2
       DEF BreakCommand, ClearCommand, SessionInv, FailureEndsSession
<1>8. ASSUME shown' \subseteq Address, UNCHANGED <<breakpoints, mode, returned, stops>>
      PROVE  SessionInv'
  BY <1>2, <1>3, <1>8 DEF SessionInv, InspectionInBounds, FailureEndsSession
<1>9. ASSUME NEW count \in Word64, StackCommand(count)
      PROVE  SessionInv'
  <2>1. shown' \subseteq Address
    BY <1>4, <1>9, ListingStaysInMemory DEF StackCommand, DebugInv
  <2> QED
    BY <1>8, <1>9, <2>1 DEF StackCommand
<1>10. ASSUME NEW address \in Word64, NEW count \in Word64, MemCommand(address, count)
       PROVE  SessionInv'
  <2>1. shown' \subseteq Address
    BY <1>4, <1>10, DumpStaysInMemory DEF MemCommand
  <2> QED
    BY <1>8, <1>10, <2>1 DEF MemCommand
<1> QED
  BY <1>1, <1>5, <1>6, <1>7, <1>9, <1>10 DEF DebugInv

LEMMA DebugKeeps == DebugInv /\ [DebugNext]_debugVars => DebugInv'
<1> SUFFICES ASSUME DebugInv, [DebugNext]_debugVars PROVE DebugInv'
  OBVIOUS
<1>1. CASE StepCommand
  BY <1>1, DoStepKeeps DEF StepCommand, AtPrompt
<1>2. CASE ContinueStep
  BY <1>2, DoStepKeeps DEF ContinueStep, Running
<1>3. CASE ContinueCommand \/ ContinueStops \/ Quit
  BY <1>3, OthersKeep DEF ContinueCommand, ContinueStops, Quit
<1>4. CASE \E k \in Word64 : BreakCommand(k) \/ ClearCommand(k)
  BY <1>4, OthersKeep DEF BreakCommand, ClearCommand
<1>5. CASE \E count \in Word64 : StackCommand(count)
  BY <1>5, OthersKeep DEF StackCommand
<1>6. CASE \E address, count \in Word64 : MemCommand(address, count)
  BY <1>6, OthersKeep DEF MemCommand
<1>7. CASE DebugEnded \/ UNCHANGED debugVars
  BY <1>7, OthersKeep DEF DebugEnded, debugVars
<1> QED
  BY <1>1, <1>2, <1>3, <1>4, <1>5, <1>6, <1>7 DEF DebugNext, Command

LEMMA DebugInvariance == DebugSpec => []DebugInv
BY DebugInitEstablishes, DebugKeeps, PTL DEF DebugSpec

(* mem and stack read inside vm->memory and break and clear write inside   *)
(* the flag array, whatever was typed and executed before.                 *)
THEOREM InspectionStaysInBounds == DebugSpec => []InspectionInBounds
<1>1. DebugInv => InspectionInBounds
  BY DEF DebugInv, SessionInv
<1> QED
  BY <1>1, DebugInvariance, PTL

(* The error of a step ends the session and is what it returns. *)
THEOREM FailureIsReported == DebugSpec => []FailureEndsSession
<1>1. DebugInv => FailureEndsSession
  BY DEF DebugInv, SessionInv
<1> QED
  BY <1>1, DebugInvariance, PTL

----------------------------------------------------------------------------
LEMMA DebuggingIsStepping == DebugSpec => Spec
<1>1. DebugInit => Init
  BY DEF DebugInit
<1>2. [DebugNext]_debugVars => [Next]_vars
  BY DEF DebugNext, Command, StepCommand, DoStep, ContinueCommand, Quit, BreakCommand,
         ClearCommand, StackCommand, MemCommand, ContinueStep, ContinueStops,
         DebugEnded, debugVars, Next
<1> QED
  BY <1>1, <1>2, PTL DEF DebugSpec, Spec

(* Neither caller does anything to the machine but step it: traced or      *)
(* debugged, a program has the stack that it has when it runs.             *)
THEOREM CallersKeepTheStack == (TraceSpec \/ DebugSpec) => ImplementsStack
BY TraceIsStepping, DebuggingIsStepping, StackImplemented, PTL
=============================================================================
