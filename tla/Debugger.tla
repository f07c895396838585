------------------------------ MODULE Debugger ------------------------------
(***************************************************************************)
(* wai_debugger_run: an interactive session over the C stepping engine.    *)
(* The user's next command is any command at any prompt; `continue` steps  *)
(* until the machine halts, fails or reaches a breakpoint, and reads no    *)
(* input meanwhile.  Commands that only print are modelled by the memory   *)
(* they read.                                                              *)
(***************************************************************************)
EXTENDS Vm

CONSTANTS
    MaxDump,    \* most bytes `mem` prints (256)
    MaxCells    \* most values `stack` prints (32)

(* The last address and the bytes `mem` may add to it make a 64-bit word.  *)
ASSUME LimitsAssumption ==
    /\ MaxDump \in Nat /\ MaxCells \in Nat
    /\ MemorySize + MaxDump <= Modulus

VARIABLES
    breakpoints,  \* the instruction indexes whose flag is set
    mode,         \* "prompt", "running" (inside `continue`) or "ended"
    shown,        \* the addresses the last mem or stack command read
    returned,     \* what wai_debugger_run returned
    stops         \* auxiliary: how often `continue` has stopped at a
                  \* breakpoint since an instruction was executed, up to 2

session == <<breakpoints, mode, shown, returned, stops>>
debugVars == <<vars, session>>

DebugInit ==
    /\ Init
    /\ breakpoints = {} /\ mode = "prompt" /\ shown = {} /\ returned = "none"
    /\ stops = 0

(* Mutant of DoStep: the session goes on after an error. *)
DoStepSwallow(next) ==
    /\ Step
    /\ mode' = next
    /\ stops' = 0
    /\ UNCHANGED <<breakpoints, shown, returned>>

(* do_step, and the return of vm->error when it failed. *)
DoStep(next) ==
    /\ Step
    /\ IF rc' # "OK" THEN mode' = "ended" /\ returned' = error'
       ELSE mode' = next /\ UNCHANGED returned
    /\ stops' = 0
    /\ UNCHANGED <<breakpoints, shown>>

LeastOf(m, n) == IF m < n THEN m ELSE n

AtPrompt == mode = "prompt" /\ ~trapped
Running == mode = "running" /\ ~trapped

StepCommand == AtPrompt /\ ~halted /\ DoStep("prompt")

ContinueCommand ==
    /\ AtPrompt
    /\ mode' = "running"
    /\ UNCHANGED <<vars, breakpoints, shown, returned, stops>>

(* Mutant of HitsBreakpoint: continue consults no breakpoint. *)
IgnoresBreakpoints == FALSE

(* The breakpoint is looked up before each step, the first included. *)
HitsBreakpoint == ip < Len(code) /\ ip \in breakpoints

ContinueStep == Running /\ ~halted /\ ~HitsBreakpoint /\ DoStep("running")

ContinueStops ==
    /\ Running /\ (halted \/ HitsBreakpoint)
    /\ mode' = "prompt"
    /\ stops' = IF halted THEN stops ELSE LeastOf(stops + 1, 2)
    /\ UNCHANGED <<vars, breakpoints, shown, returned>>

(* parse_index accepts indexes of the program; anything else changes no    *)
(* flag.                                                                   *)
ValidIndex(k) == k < Len(code)

BreakCommand(k) ==
    /\ AtPrompt
    /\ breakpoints' = IF ValidIndex(k) THEN breakpoints \cup {k} ELSE breakpoints
    /\ UNCHANGED <<vars, mode, shown, returned, stops>>

ClearCommand(k) ==
    /\ AtPrompt
    /\ breakpoints' = IF ValidIndex(k) THEN breakpoints \ {k} ELSE breakpoints
    /\ UNCHANGED <<vars, mode, shown, returned, stops>>

(* mem <addr> [bytes], for any two unsigned words; the count is cut to the *)
(* limit, then to the end of memory, which a 64-bit sum finds.             *)
EndsInside(address, count) ==
    IF (address + count) % Modulus > MemorySize THEN MemorySize - address ELSE count

(* Mutant of DumpedBytes: cut to the end of memory first, then to the limit. *)
DumpedLimitedLate(address, count) ==
    IF address >= MemorySize THEN {}
    ELSE address .. (address + LeastOf(EndsInside(address, count), MaxDump) - 1)

DumpedBytes(address, count) ==
    IF address >= MemorySize THEN {}
    ELSE address .. (address + EndsInside(address, LeastOf(count, MaxDump)) - 1)

MemCommand(address, count) ==
    /\ AtPrompt
    /\ shown' = DumpedBytes(address, count)
    /\ UNCHANGED <<vars, breakpoints, mode, returned, stops>>

(* stack [count]: whole values from sp up, while one fits in memory. *)
ListedCells(count) ==
    {k \in 0 .. (LeastOf(count, MaxCells) - 1) :
        sp + k * ValueSize <= MemorySize - ValueSize}

StackCommand(count) ==
    /\ AtPrompt
    /\ shown' = {sp + k * ValueSize + i : k \in ListedCells(count), i \in ByteIndex}
    /\ UNCHANGED <<vars, breakpoints, mode, returned, stops>>

(* quit, or the end of the input. *)
Quit ==
    /\ AtPrompt
    /\ mode' = "ended" /\ returned' = "OK"
    /\ UNCHANGED <<vars, breakpoints, shown, stops>>

Word64 == 0 .. (Modulus - 1)

Command ==
    \/ StepCommand \/ ContinueCommand \/ Quit
    \/ \E k \in Word64 : BreakCommand(k) \/ ClearCommand(k)
    \/ \E count \in Word64 : StackCommand(count)
    \/ \E address, count \in Word64 : MemCommand(address, count)

DebugEnded == (mode = "ended" \/ trapped) /\ UNCHANGED debugVars

DebugNext == Command \/ ContinueStep \/ ContinueStops \/ DebugEnded

(* Inside `continue` the loop goes on by itself; no user owes a command. *)
DebugSpec ==
    /\ DebugInit /\ [][DebugNext]_debugVars
    /\ WF_debugVars(ContinueStep \/ ContinueStops)

----------------------------------------------------------------------------
(* No inspection command reads outside vm->memory, and no breakpoint is a  *)
(* flag outside the calloc'ed array, whatever numbers the user types and   *)
(* wherever the program has left sp.                                       *)
InspectionInBounds ==
    /\ shown \subseteq Address
    /\ breakpoints \subseteq 0 .. (Len(code) - 1)

(* A step that fails ends the session with its error, and an error that is *)
(* returned is one a step failed with.  For the empty program, whose code  *)
(* is NULL, the step fails without recording an error, and the session     *)
(* returns WAI_OK as if the user had quit.                                 *)
FailureEndsSession ==
    /\ rc # "OK" => /\ mode = "ended"
                    /\ returned = IF code = <<>> THEN "OK" ELSE rc
    /\ returned \notin {"none", "OK"} => returned = rc

(* `continue` runs until halt, error or breakpoint: it comes back to the   *)
(* prompt, or ends the session, if a breakpoint guards every jump back;    *)
(* only programs that loop around the breakpoints keep it running.         *)
BreaksEveryLoop ==
    \A k \in 1..Len(code) :
        (code[k].op \in JumpOps \cup {"CALL", "RET"}) => k - 1 \in breakpoints
ContinueComesBack ==
    (mode = "running" /\ BreaksEveryLoop) ~> (mode # "running" \/ trapped)

(* README.md:162: the debugger can "stop between instructions, inspect     *)
(* state, and resume predictably".  A `continue` that resumes from the     *)
(* breakpoint at which the last one stopped executes something before it   *)
(* stops there again.                                                      *)
ContinueResumes == stops < 2
=============================================================================
