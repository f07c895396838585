-------------------------------- MODULE Trace --------------------------------
(***************************************************************************)
(* wai_trace_program: the C stepping engine in a loop that counts steps    *)
(* and gives up at a limit, so that tracing ends whatever the program      *)
(* does.  It checks ip itself before each step, since it prints the        *)
(* instruction it is about to execute.                                     *)
(***************************************************************************)
EXTENDS Vm

CONSTANT MaxSteps   \* WAI_TRACE_MAX_STEPS

ASSUME MaxStepsAssumption == MaxSteps \in Nat

VARIABLES
    steps,    \* steps executed without an error
    verdict   \* "tracing", then the error code the function returns

traceVars == <<vars, steps, verdict>>

TraceInit == Init /\ steps = 0 /\ verdict = "tracing"

Tracing == verdict = "tracing" /\ ~trapped

EndsHalted ==
    /\ Tracing /\ halted
    /\ verdict' = "OK" /\ UNCHANGED <<vars, steps>>

(* Mutant of EndsAtLimit: the limit is checked before halted. *)
EndsAtLimitFirst ==
    /\ Tracing /\ steps >= MaxSteps
    /\ verdict' = "UNSUPPORTED" /\ UNCHANGED <<vars, steps>>

EndsAtLimit ==
    /\ Tracing /\ ~halted /\ steps >= MaxSteps
    /\ verdict' = "UNSUPPORTED" /\ UNCHANGED <<vars, steps>>

EndsPastProgram ==
    /\ Tracing /\ ~halted /\ steps < MaxSteps /\ ip >= Len(code)
    /\ verdict' = "IP_OUT_OF_BOUNDS" /\ UNCHANGED <<vars, steps>>

(* Mutant of TraceStep: steps is never incremented. *)
TraceStepUncounted ==
    /\ Tracing /\ ~halted /\ steps < MaxSteps /\ ip < Len(code)
    /\ Step
    /\ verdict' = IF rc' = "OK" THEN verdict ELSE rc'
    /\ UNCHANGED steps

TraceStep ==
    /\ Tracing /\ ~halted /\ steps < MaxSteps /\ ip < Len(code)
    /\ Step
    /\ IF rc' = "OK" THEN steps' = steps + 1 /\ UNCHANGED verdict
       ELSE verdict' = rc' /\ UNCHANGED steps

Ended == ~Tracing /\ UNCHANGED traceVars

TraceActs == EndsHalted \/ EndsAtLimit \/ EndsPastProgram \/ TraceStep

TraceNext == TraceActs \/ Ended

(* One thread runs the loop, so it goes on as long as it can. *)
TraceSpec == TraceInit /\ [][TraceNext]_traceVars /\ WF_traceVars(TraceActs)

----------------------------------------------------------------------------
(* `waivm trace` ends for every program, looping ones included: the        *)
(* process dies of a division trap or the function returns.                *)
TraceTerminates == <>(~Tracing)

(* The verdict tells why tracing ended, at the exact limit: a program that *)
(* halts in MaxSteps steps is traced to its end, an error is that of the   *)
(* step that failed, and a program that ran past its end, an empty one     *)
(* included, is IP_OUT_OF_BOUNDS although no step was made there.          *)
VerdictExplains ==
    /\ verdict = "OK" => halted /\ rc = "OK"
    /\ verdict = "UNSUPPORTED" =>
          steps = MaxSteps /\ ~halted /\ rc = "OK"
    /\ verdict = "IP_OUT_OF_BOUNDS" => ip >= Len(code) /\ rc = "OK" /\ steps < MaxSteps
    /\ verdict \notin {"tracing", "OK", "UNSUPPORTED", "IP_OUT_OF_BOUNDS"} =>
          rc = verdict /\ error = verdict
=============================================================================
