------------------------------- MODULE AsmCore -------------------------------
(***************************************************************************)
(* The NASM execution core, wai_vm_exec_asm, which `waivm run` uses: one   *)
(* call, from its prologue to its return, over the same wai_vm.            *)
(*                                                                         *)
(* An instruction is a route of helper calls and straight-line blocks;     *)
(* each helper and each block is one step.  The model keeps what that      *)
(* code can get wrong: the native stack (the saved registers, the return   *)
(* address of the helper being run), on which the error paths have to      *)
(* discard exactly one helper return address when there is one; the        *)
(* registers that carry values between blocks, which the helpers clobber;  *)
(* and the order in which the fields of the wai_vm change.                 *)
(***************************************************************************)
EXTENDS Machine

CONSTANT Programs

ASSUME ProgramsAssumption == Programs \subseteq Seq(Instruction)

(* An instruction index is a value that is not negative: the loader        *)
(* refuses counts above SIZE_MAX / sizeof(wai_instruction), and no array   *)
(* the assembler grows is longer.                                          *)
ASSUME ProgramsFit == \A c \in Programs : Len(c) < Half

VARIABLES
    code, regs, ip, zf, halted, error, memory, sp, last_print, print_count,
    pc,       \* <<label, position>>: a label, or a position of an opcode's route
    native,   \* the native stack, the top last
    rax, rbx, r14, r15,   \* registers live between blocks
    r13,      \* &vm->code[ip] of the fetched instruction, as an index
    result,   \* eax at the return: 0, or 1 for an error
    restored  \* what the epilogue popped into the caller's registers

vmData == <<regs, zf, memory, sp, last_print, print_count>>
scratch == <<rax, rbx, r14, r15>>
vars == <<code, regs, ip, zf, halted, error, memory, sp, last_print,
          print_count, pc, native, rax, rbx, r14, r15, r13, result, restored>>

Label(name) == <<name, 0>>
At(name) == pc = Label(name)

(* The caller's return address and, above it, the registers the prologue   *)
(* saves.  A slot of the native stack is a label: the saved register, or   *)
(* the place a helper returns to.                                          *)
Saved == <<Label("rbp"), Label("rbx"), Label("r12"), Label("r13"),
           Label("r14"), Label("r15")>>
Frame == <<Label("caller")>> \o Saved

Pushed(slot) == native' = Append(native, slot)
DropTop == native' = SubSeq(native, 1, Len(native) - 1)

Init ==
    /\ code \in Programs
    /\ regs = [r \in Register |-> 0] /\ ip = 0 /\ zf = FALSE
    /\ halted = FALSE /\ error = "OK"
    /\ memory = [x \in Address |-> 0] /\ sp = MemorySize
    /\ last_print = 0 /\ print_count = 0
    /\ pc = Label("entry") /\ native = <<Label("caller")>>
    /\ rax = 0 /\ rbx = 0 /\ r14 = 0 /\ r15 = 0 /\ r13 = 0
    /\ result = 0 /\ restored = <<>>

----------------------------------------------------------------------------
(* Routes: helper calls, and blocks of straight-line code between them. *)
Helpers == {"load_reg_a_index", "load_reg_b_index", "check_jump_imm",
            "check_jump_rax", "check_mem_addr_rbx", "check_shift_rbx",
            "push_rax", "pop_rax", "set_zf_from_rax"}

(* Register a's index goes to r14 before register b's overwrites rax. *)
Indexes(op) ==
    <<"load_reg_a_index", "save_index">>
        \o (IF op \in SecondRegOps THEN <<"load_reg_b_index">> ELSE <<>>)

Route(op) ==
    CASE op = "MOV_IMM" -> <<"load_reg_a_index", "alu", "set_zf_from_rax">>
      [] op \in AluOps \ (BitOps \cup {"MOV_IMM"}) ->
           Indexes(op) \o <<"alu", "set_zf_from_rax">>
      [] op \in BitOps \cup {"NOT"} ->
           Indexes(op) \o <<"bitwise", "set_zf_from_rax">>
      [] op \in DivOps ->
           Indexes(op) \o <<"operand", "divide", "set_zf_from_rax">>
      [] op \in ShiftOps ->
           Indexes(op) \o <<"operand", "check_shift_rbx", "shift",
                            "set_zf_from_rax">>
      [] op \in LoadOps ->
           Indexes(op) \o <<"operand", "check_mem_addr_rbx", "load",
                            "set_zf_from_rax">>
      [] op \in StoreOps ->
           Indexes(op) \o <<"operand", "check_mem_addr_rbx", "store">>
      [] op = "CMP_IMM" -> <<"load_reg_a_index", "compare">>
      [] op = "CMP_REG" -> Indexes(op) \o <<"compare">>
      [] op = "JMP" -> <<"check_jump_imm", "goto_rax">>
      [] op \in {"JZ", "JNZ"} ->
           <<"load_reg_a_index", "test", "check_jump_imm", "goto_rax">>
      [] op \in {"JE", "JNE"} -> <<"test", "check_jump_imm", "goto_rax">>
      [] op = "PRINT" -> <<"load_reg_a_index", "print", "unalign">>
      [] op = "HALT" -> <<"halt">>
      [] op = "NOP" -> <<>>
      [] op = "PUSH" -> <<"load_reg_a_index", "fetch_a", "push_rax">>
      [] op = "POP" -> <<"load_reg_a_index", "save_index", "pop_rax", "write_a",
                         "set_zf_from_rax">>
      [] op = "CALL" -> <<"check_jump_imm", "save_target", "push_rax",
                          "goto_r15">>
      [] op = "RET" -> <<"pop_rax", "check_jump_rax", "goto_rax">>

(* Where execution goes on after position k: the end jumps to .loop. *)
After(op, k) ==
    IF k >= Len(Route(op)) THEN Label("loop") ELSE <<op, k + 1>>

OnRoute == pc[1] \in Opcode
Here == Route(pc[1])[pc[2]]
InBlock(name) == OnRoute /\ Here = name
Proceed == pc' = After(pc[1], pc[2])
Ins == code[r13 + 1]
Second == IF Ins.op \in SecondRegOps THEN regs[rax] ELSE Ins.imm

vmRest == <<code, halted, error>>
frame == <<r13, result, restored>>

----------------------------------------------------------------------------
(* Entry, the dispatch loop and the return. *)
Prologue ==
    /\ At("entry")
    /\ native' = native \o Saved
    /\ pc' = Label("loop")
    /\ UNCHANGED <<vmRest, vmData, ip, scratch, frame>>

(* One unsigned comparison of ip with the count. *)
IpInside == ip \in 0 .. (Len(code) - 1)

(* halted is set here only for a wai_vm that had halted before the call;   *)
(* HALT itself leaves the loop.                                            *)
LoopExit ==
    /\ At("loop") /\ (halted \/ ~IpInside)
    /\ IF halted THEN pc' = Label("ok_return") /\ UNCHANGED <<rax, rbx>>
       ELSE pc' = Label("err_ip") /\ rax' = ip /\ rbx' = Len(code)
    /\ UNCHANGED <<vmRest, vmData, ip, r14, r15, native, frame>>

(* eax then holds the opcode byte, which no route reads. *)
Dispatch ==
    /\ At("loop") /\ ~halted /\ IpInside
    /\ r13' = ip /\ r14' = 12 * ip
    /\ rbx' = Len(code) /\ rax' = ip + 1
    /\ ip' = ip + 1
    /\ LET op == code[ip + 1].op
       IN  pc' = IF op = "INVALID" THEN Label("err_bad_opcode") ELSE After(op, 0)
    /\ UNCHANGED <<vmRest, vmData, r15, native, result, restored>>

(* The error labels.  Those that only helpers jump to drop the helper's    *)
(* return address; the other three are reached with none on the stack.     *)
ErrorOf ==
    [err_bad_opcode |-> "BAD_OPCODE", err_ip |-> "IP_OUT_OF_BOUNDS",
     err_bad_register |-> "BAD_REGISTER", err_div_zero |-> "DIV_ZERO",
     err_bad_jump |-> "BAD_JUMP", err_memory_oob |-> "MEMORY_OOB",
     err_stack_overflow |-> "STACK_OVERFLOW",
     err_stack_underflow |-> "STACK_UNDERFLOW", err_bad_shift |-> "BAD_SHIFT"]

(* Mutant of NoReturnAddress: err_bad_jump forgets to drop its slot. *)
NoReturnAddressNorJump ==
    {"err_bad_opcode", "err_ip", "err_div_zero", "err_bad_jump"}

NoReturnAddress == {"err_bad_opcode", "err_ip", "err_div_zero"}

ErrorPath ==
    /\ pc[1] \in DOMAIN ErrorOf
    /\ IF pc[1] \in NoReturnAddress THEN UNCHANGED native ELSE DropTop
    /\ error' = ErrorOf[pc[1]]
    /\ pc' = Label("error_return")
    /\ UNCHANGED <<code, halted, vmData, ip, scratch, frame>>

(* Mutant of Return: eax is not set on the error path. *)
ReturnZero ==
    /\ pc[1] \in {"ok_return", "error_return"}
    /\ result' = 0
    /\ pc' = Label("finish")
    /\ UNCHANGED <<vmRest, vmData, ip, scratch, native, r13, restored>>

Return ==
    /\ pc[1] \in {"ok_return", "error_return"}
    /\ result' = IF At("ok_return") THEN 0 ELSE 1
    /\ pc' = Label("finish")
    /\ UNCHANGED <<vmRest, vmData, ip, scratch, native, r13, restored>>

(* Six pops and a ret, whatever is on the native stack. *)
Epilogue ==
    /\ At("finish")
    /\ LET base == Len(native) - Len(Frame)
       IN  /\ restored' = SubSeq(native, base + 1, Len(native))
           /\ native' = SubSeq(native, 1, base)
    /\ pc' = Label("returned")
    /\ UNCHANGED <<vmRest, vmData, ip, scratch, r13, result>>

----------------------------------------------------------------------------
(* Helpers: called from a route, they return to the slot on top of the     *)
(* native stack or jump to an error label with that slot still there.      *)
CallHelper ==
    /\ OnRoute /\ Here \in Helpers
    /\ Pushed(After(pc[1], pc[2]))
    /\ pc' = Label(Here)
    /\ UNCHANGED <<vmRest, vmData, ip, scratch, frame>>

HelperReturns == pc' = native[Len(native)] /\ DropTop
ReturnUnless(bad, label) ==
    IF bad THEN pc' = Label(label) /\ UNCHANGED native ELSE HelperReturns

LoadRegIndex ==
    /\ pc[1] \in {"load_reg_a_index", "load_reg_b_index"}
    /\ rax' = IF At("load_reg_a_index") THEN Ins.a ELSE Ins.b
    /\ ReturnUnless(~ValidReg(rax'), "err_bad_register")
    /\ UNCHANGED <<vmRest, vmData, ip, rbx, r14, r15, frame>>

CheckJumpImm ==
    /\ At("check_jump_imm")
    /\ rax' = Ins.imm
    /\ rbx' = IF Ins.imm < 0 THEN rbx ELSE Len(code)
    /\ ReturnUnless(BadTarget(code, Ins.imm), "err_bad_jump")
    /\ UNCHANGED <<vmRest, vmData, ip, r14, r15, frame>>

(* Mutant of CheckJumpRax: ja where the code has jae. *)
CheckJumpRaxLoose ==
    /\ At("check_jump_rax")
    /\ rbx' = Len(code)
    /\ ReturnUnless(Unsigned(rax) > Len(code), "err_bad_jump")
    /\ UNCHANGED <<vmRest, vmData, ip, rax, r14, r15, frame>>

(* One unsigned comparison, so a negative value is a huge index. *)
CheckJumpRax ==
    /\ At("check_jump_rax")
    /\ rbx' = Len(code)
    /\ ReturnUnless(Unsigned(rax) >= Len(code), "err_bad_jump")
    /\ UNCHANGED <<vmRest, vmData, ip, rax, r14, r15, frame>>

CheckRbx ==
    /\ \/ At("check_mem_addr_rbx") /\ ReturnUnless(BadAddress(rbx), "err_memory_oob")
       \/ At("check_shift_rbx") /\ ReturnUnless(BadShift(rbx), "err_bad_shift")
    /\ UNCHANGED <<vmRest, vmData, ip, scratch, frame>>

PushRax ==
    /\ At("push_rax")
    /\ ReturnUnless(sp < ValueSize, "err_stack_overflow")
    /\ IF sp < ValueSize THEN rbx' = sp /\ UNCHANGED <<sp, memory>>
       ELSE /\ rbx' = sp - ValueSize
            /\ sp' = sp - ValueSize
            /\ memory' = StoreTo(memory, sp - ValueSize, rax)
    /\ UNCHANGED <<vmRest, regs, zf, last_print, print_count, ip, rax, r14, r15, frame>>

PopRax ==
    /\ At("pop_rax")
    /\ ReturnUnless(sp > MemorySize - ValueSize, "err_stack_underflow")
    /\ IF sp > MemorySize - ValueSize THEN rbx' = sp /\ UNCHANGED <<rax, sp>>
       ELSE /\ rax' = LoadFrom(memory, sp)
            /\ rbx' = sp + ValueSize
            /\ sp' = sp + ValueSize
    /\ UNCHANGED <<vmRest, regs, zf, memory, last_print, print_count, ip, r14, r15, frame>>

SetZfFromRax ==
    /\ At("set_zf_from_rax")
    /\ zf' = (rax = 0)
    /\ HelperReturns
    /\ UNCHANGED <<vmRest, regs, memory, sp, last_print, print_count, ip, scratch, frame>>

----------------------------------------------------------------------------
(* Blocks. *)
SaveIndex ==
    /\ InBlock("save_index") /\ Proceed
    /\ r14' = rax
    /\ UNCHANGED <<vmRest, vmData, ip, rax, rbx, r15, native, frame>>

WriteReg(index, v) ==
    /\ regs' = [regs EXCEPT ![index] = v]
    /\ rax' = v
    /\ UNCHANGED <<vmRest, zf, memory, sp, last_print, print_count, ip, rbx, r14, frame>>

Alu ==
    /\ InBlock("alu") /\ Proceed
    /\ LET target == IF Ins.op = "MOV_IMM" THEN rax ELSE r14
       IN  WriteReg(target, AluResult(Ins.op, regs[target], Second))
    /\ UNCHANGED <<r15, native>>

Bitwise ==
    /\ InBlock("bitwise") /\ Proceed /\ UNCHANGED native
    /\ WriteReg(r14, IF Ins.op = "NOT" THEN Not(regs[r14])
                     ELSE AluResult(Ins.op, regs[r14], Second))
    /\ r15' = IF Ins.op \in SecondRegOps THEN rax ELSE r15

OperandToRbx ==
    /\ InBlock("operand") /\ Proceed
    /\ rbx' = Second
    /\ UNCHANGED <<vmRest, vmData, ip, rax, r14, r15, native, frame>>

(* The test for zero is inline, so its error path has no slot to drop; a   *)
(* quotient that does not fit makes idiv raise #DE and kills the process.  *)
Divide ==
    /\ InBlock("divide") /\ rbx # 0 /\ ~DivOverflows(regs[r14], rbx)
    /\ WriteReg(r14, DivResult(Ins.op, regs[r14], rbx))
    /\ Proceed /\ UNCHANGED <<r15, native>>

DivideStops ==
    /\ InBlock("divide")
    /\ \/ rbx = 0 /\ pc' = Label("err_div_zero")
       \/ rbx # 0 /\ DivOverflows(regs[r14], rbx) /\ pc' = Label("trap")
    /\ UNCHANGED <<vmRest, vmData, ip, scratch, native, frame>>

ShiftReg ==
    /\ InBlock("shift") /\ Proceed
    /\ WriteReg(r14, ShiftResult(Ins.op, regs[r14], rbx))
    /\ UNCHANGED <<r15, native>>

LoadReg ==
    /\ InBlock("load") /\ Proceed
    /\ WriteReg(r14, LoadFrom(memory, rbx))
    /\ UNCHANGED <<r15, native>>

StoreReg ==
    /\ InBlock("store") /\ Proceed
    /\ rax' = regs[r14]
    /\ memory' = StoreTo(memory, rbx, regs[r14])
    /\ UNCHANGED <<vmRest, regs, zf, sp, last_print, print_count, ip, rbx, r14, r15, native, frame>>

WritePopped ==
    /\ InBlock("write_a") /\ Proceed
    /\ WriteReg(r14, rax)
    /\ UNCHANGED <<r15, native>>

FetchReg ==
    /\ InBlock("fetch_a") /\ Proceed
    /\ rax' = regs[rax]
    /\ UNCHANGED <<vmRest, vmData, ip, rbx, r14, r15, native, frame>>

Compare ==
    /\ InBlock("compare") /\ Proceed
    /\ zf' = (regs[IF Ins.op = "CMP_REG" THEN r14 ELSE rax] = Second)
    /\ UNCHANGED <<vmRest, regs, memory, sp, last_print, print_count, ip, scratch, native, frame>>

Test ==
    /\ InBlock("test")
    /\ LET taken == CASE Ins.op = "JZ" -> regs[rax] = 0
                      [] Ins.op = "JNZ" -> regs[rax] # 0
                      [] Ins.op = "JE" -> zf
                      [] Ins.op = "JNE" -> ~zf
       IN  pc' = IF taken THEN After(pc[1], pc[2]) ELSE Label("loop")
    /\ UNCHANGED <<vmRest, vmData, ip, scratch, native, frame>>

GotoReg ==
    /\ \/ InBlock("goto_rax") /\ ip' = rax
       \/ InBlock("goto_r15") /\ ip' = r15
    /\ Proceed
    /\ UNCHANGED <<vmRest, vmData, scratch, native, frame>>

(* The return address is the ip that Dispatch stored. *)
SaveTarget ==
    /\ InBlock("save_target") /\ Proceed
    /\ r15' = rax /\ rax' = ip
    /\ UNCHANGED <<vmRest, vmData, ip, rbx, r14, native, frame>>

(* One slot for alignment, then the C function, which keeps rbx and        *)
(* r12..r15.                                                               *)
EmitPrint ==
    /\ InBlock("print") /\ Proceed
    /\ Pushed(Label("align"))
    /\ last_print' = regs[rax]
    /\ print_count' = (print_count + 1) % Modulus
    /\ UNCHANGED <<vmRest, regs, zf, memory, sp, ip, scratch, frame>>

(* Mutant of Unalign: add rsp, 8 is missing after the C call. *)
UnalignForgotten ==
    /\ InBlock("unalign") /\ Proceed
    /\ UNCHANGED <<vmRest, vmData, ip, scratch, native, frame>>

Unalign ==
    /\ InBlock("unalign") /\ Proceed /\ DropTop
    /\ UNCHANGED <<vmRest, vmData, ip, scratch, frame>>

Halt ==
    /\ InBlock("halt")
    /\ halted' = TRUE /\ error' = "OK"
    /\ pc' = Label("ok_return")
    /\ UNCHANGED <<code, vmData, ip, scratch, native, frame>>

----------------------------------------------------------------------------
Step ==
    \/ Prologue \/ LoopExit \/ Dispatch
    \/ ErrorPath \/ Return \/ Epilogue
    \/ CallHelper \/ LoadRegIndex \/ CheckJumpImm \/ CheckJumpRax \/ CheckRbx
    \/ PushRax \/ PopRax \/ SetZfFromRax
    \/ SaveIndex \/ Alu \/ Bitwise \/ OperandToRbx \/ Divide \/ DivideStops \/ ShiftReg
    \/ LoadReg \/ StoreReg \/ WritePopped \/ FetchReg \/ Compare \/ Test
    \/ GotoReg \/ SaveTarget \/ EmitPrint \/ Unalign \/ Halt

Ended == pc[1] \in {"returned", "trap"} /\ UNCHANGED vars

Next == Step \/ Ended

Spec == Init /\ [][Next]_vars

----------------------------------------------------------------------------
(* Whatever path execution takes through helpers and error labels, the     *)
(* epilogue pops the registers the prologue pushed and ret goes back to    *)
(* the caller: System V's promise that rbx, rbp and r12..r15 survive.      *)
CalleeSavedRestored ==
    At("returned") => restored = Frame /\ native = <<>>

(* The native stack holds the frame and at most one slot above it, exactly *)
(* when a helper runs or is about to fail, or print has aligned rsp; so    *)
(* rsp is a multiple of 16 at the call of the C function.                  *)
NativeStackShape ==
    LET inHelper == \/ pc[1] \in Helpers
                    \/ pc[1] \in (DOMAIN ErrorOf) \ NoReturnAddress
                    \/ pc = <<"PRINT", 3>>
    IN  ~(pc[1] \in {"entry", "returned"}) =>
            /\ SubSeq(native, 1, Len(Frame)) = Frame
            /\ Len(native) = Len(Frame) + (IF inHelper THEN 1 ELSE 0)

(* wai_vm_execute reads vm->error only when the core returned nonzero, so  *)
(* the two have to agree; a halted machine reports success.                *)
ResultMatchesError ==
    At("returned") => /\ (result = 0) = (error = "OK")
                      /\ (result = 0) = halted
=============================================================================
