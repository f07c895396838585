--------------------------- MODULE AsmRefinement ---------------------------
(***************************************************************************)
(* The NASM core executes the programs that the C stepping engine steps:   *)
(* seen at the block or helper of each instruction that writes its effect, *)
(* AsmCore is a behaviour of Vm.  Until that point an instruction in       *)
(* flight shows its predecessor's state: ip is already the next one, and a *)
(* popped value has already moved sp.  After it, zf lags until the helper  *)
(* sets it, and the ip of a call is still in r15.                          *)
(***************************************************************************)
EXTENDS AsmCore

Effects == {"alu", "bitwise", "divide", "shift", "load", "store", "write_a",
            "push_rax", "goto_rax", "compare", "print", "halt"}

(* The route position execution is at; a helper is at its call site. *)
Position ==
    IF pc[1] \in Helpers
    THEN CHOOSE k \in 1..Len(Route(Ins.op)) :
            /\ Route(Ins.op)[k] = pc[1]
            /\ After(Ins.op, k) = native[Len(native)]
    ELSE pc[2]

InFlight ==
    \/ pc[1] \in (DOMAIN ErrorOf \ {"err_ip"}) \cup {"trap"}
    \/ /\ OnRoute \/ pc[1] \in Helpers
       /\ \A k \in 1..(Position - 1) : Route(Ins.op)[k] \notin Effects

Popped ==
    \/ At("err_bad_jump") /\ Ins.op = "RET"
    \/ /\ OnRoute \/ pc[1] \in Helpers
       /\ \E k \in 1..(Position - 1) : Route(Ins.op)[k] = "pop_rax"

SettingZf == At("set_zf_from_rax") \/ InBlock("set_zf_from_rax")

(* The fields of the C engine's machine that lag or lead. *)
SeenIp ==
    IF InFlight THEN ip - 1 ELSE IF InBlock("goto_r15") THEN r15 ELSE ip
SeenZf == IF SettingZf THEN rax = 0 ELSE zf
SeenSp == IF InFlight /\ Popped THEN sp - ValueSize ELSE sp
Trapped == At("trap")

Stepper ==
    INSTANCE Vm WITH ip <- SeenIp, zf <- SeenZf, sp <- SeenSp, rc <- error,
                     trapped <- Trapped

(* For every program with at least one instruction, what wai_vm_exec_asm   *)
(* does to registers, flag, memory, stack, output, ip and error is what    *)
(* the same number of wai_vm_step calls would do, instruction by           *)
(* instruction, so debugger and trace show what `run` does.                *)
RefinesStepper == Stepper!Spec
=============================================================================
