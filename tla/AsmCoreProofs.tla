---------------------------- MODULE AsmCoreProofs ----------------------------
(***************************************************************************)
(* Proofs about the NASM core: its native stack, its result, where control *)
(* may be with which data and error, and the exit code of `run`, for every *)
(* word width, register count, memory size and set of programs.            *)
(***************************************************************************)
EXTENDS RunCommand, AsmRefinement, WordProofs

(* The control points, by what is on the native stack: a place a helper    *)
(* may return to, and with it every point where the stack is the frame and *)
(* no more; the points inside a helper and behind one that failed; and the *)
(* two-instruction window of print, whose slot is no return address.       *)
Aligned == <<"PRINT", 3>>
Positions == {p \in Opcode \X Nat : p[2] \in 1 .. Len(Route(p[1]))}
ReturnPoint == {Label("loop")} \cup (Positions \ {Aligned})
Returning == {"ok_return", "error_return", "finish", "trap"}
Plain == ReturnPoint \cup {Label(l) : l \in Returning \cup NoReturnAddress}
Helped == {Label(l) : l \in Helpers \cup ((DOMAIN ErrorOf) \ NoReturnAddress)}

(* The inductive invariant about the native stack: unlike NativeStackShape *)
(* it says what the slot above the frame is, because a helper jumps there. *)
NativeInv ==
    \/ At("entry") /\ native = <<Label("caller")>>
    \/ At("returned") /\ native = <<>> /\ restored = Frame
    \/ pc \in Plain /\ native = Frame
    \/ pc \in Helped /\ \E slot \in ReturnPoint : native = Append(Frame, slot)
    \/ pc = Aligned /\ native = Append(Frame, Label("align"))

(* ... and about the outcome: nothing is recorded before the end. *)
OutcomeInv ==
    /\ halted \in BOOLEAN
    /\ CASE At("ok_return") -> halted /\ error = "OK"
         [] At("error_return") -> ~halted /\ error # "OK"
         [] pc[1] \in {"finish", "returned"} ->
              (result = 0) = halted /\ (error = "OK") = halted
         [] OTHER -> ~halted /\ error = "OK"

IInv == code \in Programs /\ NativeInv /\ OutcomeInv

----------------------------------------------------------------------------
(* Routes. *)

LEMMA RouteLength ==
    ASSUME NEW op \in Opcode
    PROVE  Len(Route(op)) \in Nat
BY DEF Route, Indexes, Opcode, AluOps, ImmOps, RegOps, BitOps, DivOps, ShiftOps,
       CmpOps, LoadOps, StoreOps, JumpOps, UnaryOps, SecondRegOps

LEMMA RoutePrint ==
    Route("PRINT") = <<"load_reg_a_index", "print", "unalign">>
BY DEF Route, AluOps, ImmOps, RegOps, BitOps, DivOps, ShiftOps,
       LoadOps, StoreOps

LEMMA AfterUnalign == After("PRINT", 3) = Label("loop")
<1> DEFINE n == Len(Route("PRINT"))
<1>1. n = 3
  BY DEF Route, AluOps, ImmOps, RegOps, BitOps, DivOps, ShiftOps,
         LoadOps, StoreOps
<1> HIDE DEF n
<1>2. 3 >= n
  BY <1>1
<1> QED
  BY <1>2 DEF After, n

(* Only print aligns the stack, and only print takes that back. *)
LEMMA RouteAligns ==
    ASSUME NEW op \in Opcode, NEW k \in 1 .. Len(Route(op))
    PROVE  /\ Route(op)[k] = "print" => op = "PRINT" /\ k = 2
           /\ Route(op)[k] = "unalign" => op = "PRINT" /\ k = 3
BY DEF Route, Indexes, Opcode, AluOps, ImmOps, RegOps, BitOps, DivOps, ShiftOps,
       CmpOps, LoadOps, StoreOps, JumpOps, UnaryOps, SecondRegOps

(* The control points are tagged apart. *)
LEMMA LabelsApart ==
    /\ \A p \in Positions : p[1] \in Opcode
    /\ Opcode \cap (Helpers \cup DOMAIN ErrorOf \cup Returning
                      \cup {"loop", "entry", "returned", "align", "caller"}) = {}
    /\ Helpers \cap (DOMAIN ErrorOf \cup Returning
                      \cup {"loop", "entry", "returned"}) = {}
    /\ DOMAIN ErrorOf \cap (Returning \cup {"loop", "entry", "returned"}) = {}
    /\ Returning \cap {"loop", "entry", "returned"} = {}
    /\ NoReturnAddress \subseteq DOMAIN ErrorOf
BY DEF Positions, Opcode, AluOps, ImmOps, RegOps, BitOps, DivOps, ShiftOps,
       CmpOps, LoadOps, StoreOps, JumpOps, UnaryOps, Helpers, ErrorOf,
       Returning, NoReturnAddress

(* Where a route goes on is a position of it, or the loop. *)
LEMMA AfterStays ==
    ASSUME NEW op \in Opcode, NEW k \in 0 .. Len(Route(op))
    PROVE  After(op, k) \in {Label("loop")} \cup Positions
BY RouteLength DEF After, Positions

(* The next position is the aligned one only behind print's own block. *)
LEMMA AfterReturns ==
    ASSUME NEW op \in Opcode, NEW k \in 1 .. Len(Route(op)), Route(op)[k] # "print"
    PROVE  After(op, k) \in ReturnPoint
<1>1. After(op, k) \in {Label("loop")} \cup Positions
  BY AfterStays, RouteLength
<1>2. After(op, k) # Aligned
  <2>1. SUFFICES ASSUME After(op, k) = Aligned PROVE FALSE
    OBVIOUS
  <2>2. op = "PRINT" /\ k = 2
    BY <2>1, RouteLength DEF After, Aligned, Label
  <2> QED
    BY <2>2, RoutePrint
<1> QED
  BY <1>1, <1>2 DEF ReturnPoint

LEMMA OnRoutePlain ==
    ASSUME NativeInv, OnRoute
    PROVE  /\ pc \in Positions
           /\ pc[2] \in 1 .. Len(Route(pc[1]))
           /\ pc = Aligned \/ native = Frame
<1>1. pc \notin Helped /\ ~At("entry") /\ ~At("returned")
  BY LabelsApart DEF OnRoute, Helped, At, Label
<1>2. pc \in Plain \/ pc = Aligned
  BY <1>1 DEF NativeInv
<1>3. Aligned \in Positions
  BY RoutePrint DEF Aligned, Positions, Opcode, UnaryOps
<1>4. pc \in Positions
  BY <1>2, <1>3, LabelsApart DEF Plain, ReturnPoint, OnRoute, Label
<1> QED
  BY <1>1, <1>2, <1>4 DEF NativeInv, Positions

(* The stack with one slot more, and back. *)
Registers == {"caller", "rbp", "rbx", "r12", "r13", "r14", "r15"}
Slots == {Label(r) : r \in Registers \cup {"align"}} \cup ReturnPoint

LEMMA FrameType == Frame \in Seq(Slots) /\ Len(Frame) = 7
<1>1. \A r \in Registers : Label(r) \in Slots
  BY DEF Slots
<1>2. Saved \in Seq(Slots) /\ Len(Saved) = 6
  BY <1>1 DEF Saved, Registers
<1>3. <<Label("caller")>> \in Seq(Slots) /\ Len(<<Label("caller")>>) = 1
  BY <1>1 DEF Registers
<1> DEFINE caller == <<Label("caller")>>
<1>4. ASSUME NEW s \in Seq(Slots), NEW t \in Seq(Slots)
      PROVE  s \o t \in Seq(Slots) /\ Len(s \o t) = Len(s) + Len(t)
  OBVIOUS
<1>5. caller \o Saved \in Seq(Slots) /\ Len(caller \o Saved) = Len(caller) + Len(Saved)
  BY <1>2, <1>3, <1>4
<1> HIDE DEF caller
<1>6. Len(caller) + Len(Saved) = 7
  BY <1>2, <1>3 DEF caller
<1> QED
  BY <1>5, <1>6 DEF Frame, caller

LEMMA TopOff ==
    ASSUME NEW S, NEW s \in Seq(S), NEW slot \in S
    PROVE  /\ Len(Append(s, slot)) = Len(s) + 1
           /\ Append(s, slot)[Len(s) + 1] = slot
           /\ SubSeq(Append(s, slot), 1, Len(s)) = s
OBVIOUS

LEMMA SlotOnTop ==
    ASSUME NEW slot \in Slots, NEW n, n = Append(Frame, slot)
    PROVE  /\ Len(n) = 8
           /\ n[Len(n)] = slot
           /\ SubSeq(n, 1, Len(n) - 1) = Frame
           /\ SubSeq(n, 1, 7) = Frame
<1>1. /\ Len(n) = Len(Frame) + 1
      /\ n[Len(Frame) + 1] = slot
      /\ SubSeq(n, 1, Len(Frame)) = Frame
  BY FrameType, TopOff
<1>2. Len(n) = 8 /\ Len(n) - 1 = 7 /\ Len(Frame) = 7
  BY <1>1, FrameType
<1> QED
  BY <1>1, <1>2

----------------------------------------------------------------------------
(* Moves of the control, by what they do to the native stack; these record *)
(* no outcome.                                                             *)
Ending == {"ok_return", "error_return", "finish", "returned"}
Quiet == pc[1] \notin Ending /\ pc'[1] \notin Ending

LEMMA QuietKeeps ==
    ASSUME OutcomeInv, Quiet, halted' = halted, error' = error
    PROVE  OutcomeInv'
BY DEF OutcomeInv, Quiet, Ending, At, Label

LEMMA ReturnPointsQuiet == \A p \in ReturnPoint \cup Helped : p[1] \notin Ending
BY LabelsApart DEF ReturnPoint, Helped, Ending, Returning, Label

LEMMA RouteQuiet == OnRoute => pc[1] \notin Ending
BY LabelsApart DEF OnRoute, Ending, Returning

(* A block: the route goes on and the stack stays. *)
LEMMA BlockKeeps ==
    ASSUME NativeInv, NEW block, InBlock(block), block \notin {"print", "unalign"},
           Proceed, native' = native
    PROVE  NativeInv' /\ Quiet
<1>1. /\ pc \in Positions
      /\ pc[2] \in 1 .. Len(Route(pc[1]))
      /\ pc = Aligned \/ native = Frame
      /\ pc[1] \in Opcode
  BY OnRoutePlain DEF InBlock, OnRoute
<1>2. native = Frame
  BY <1>1, RoutePrint DEF Aligned, InBlock, Here
<1>3. pc' \in ReturnPoint
  BY <1>1, AfterReturns DEF Proceed, InBlock, Here
<1> QED
  BY <1>2, <1>3, RouteQuiet, ReturnPointsQuiet DEF NativeInv, Plain, Quiet, InBlock

(* A block that leaves its route for a label. *)
LEMMA LeavesRoute ==
    ASSUME NativeInv, OnRoute, pc # Aligned, native' = native,
           pc' \in Plain
    PROVE  NativeInv'
BY OnRoutePlain DEF NativeInv

(* A helper returns to its call site, or jumps to an error label with the  *)
(* return address still on the stack.                                      *)
LEMMA HelperKeeps ==
    ASSUME NativeInv, pc[1] \in Helpers, NEW bad \in BOOLEAN,
           NEW label \in (DOMAIN ErrorOf) \ NoReturnAddress,
           ReturnUnless(bad, label)
    PROVE  NativeInv' /\ Quiet
<1>1. pc \in Helped /\ \E slot \in ReturnPoint : native = Append(Frame, slot)
  BY LabelsApart DEF NativeInv, Plain, ReturnPoint, Aligned, At, Label, Opcode, UnaryOps
<1>2. PICK slot \in ReturnPoint : native = Append(Frame, slot)
  BY <1>1
<1>3. CASE bad
  <2>1. pc' = Label(label) /\ native' = native
    BY <1>3 DEF ReturnUnless
  <2> QED
    BY <2>1, <1>1, <1>2, ReturnPointsQuiet DEF NativeInv, Helped, Quiet
<1>4. CASE ~bad
  <2>1. pc' = native[Len(native)] /\ native' = SubSeq(native, 1, Len(native) - 1)
    BY <1>4 DEF ReturnUnless, HelperReturns, DropTop
  <2>2. pc' = slot /\ native' = Frame
    BY <2>1, <1>2, SlotOnTop DEF Slots
  <2> QED
    BY <2>2, <1>1, ReturnPointsQuiet DEF NativeInv, Plain, Quiet
<1> QED
  BY <1>3, <1>4

----------------------------------------------------------------------------
(* The actions; none of them changes the program. *)
Kept == NativeInv' /\ OutcomeInv'

LEMMA InitEstablishes == Init => IInv
<1>1. SUFFICES ASSUME Init PROVE IInv
  OBVIOUS
<1>2. NativeInv
  BY <1>1 DEF Init, NativeInv, At
<1>3. /\ ~At("ok_return") /\ ~At("error_return")
      /\ pc[1] \notin {"finish", "returned"} /\ halted = FALSE /\ error = "OK"
  BY <1>1 DEF Init, At, Label
<1>4. OutcomeInv
  BY <1>3 DEF OutcomeInv
<1> QED
  BY <1>1, <1>2, <1>4 DEF IInv, Init

(* Blocks between helper calls, print's two apart. *)
LEMMA BlocksKeep ==
    ASSUME IInv,
           SaveIndex \/ Alu \/ Bitwise \/ OperandToRbx \/ Divide \/ ShiftReg
             \/ LoadReg \/ StoreReg \/ WritePopped \/ FetchReg \/ Compare
             \/ GotoReg \/ SaveTarget
    PROVE  Kept
<1>1. PICK block \in {"save_index", "alu", "bitwise", "operand", "divide", "shift",
                      "load", "store", "write_a", "fetch_a", "compare", "goto_rax",
                      "goto_r15", "save_target"} :
         InBlock(block) /\ Proceed
  BY DEF SaveIndex, Alu, Bitwise, OperandToRbx, Divide, ShiftReg, LoadReg,
         StoreReg, WritePopped, FetchReg, Compare, GotoReg, SaveTarget
<1>2. native' = native /\ halted' = halted /\ error' = error
  BY DEF SaveIndex, Alu, Bitwise, OperandToRbx, Divide, ShiftReg, LoadReg,
         StoreReg, WritePopped, FetchReg, Compare, GotoReg, SaveTarget, WriteReg,
         vmRest
<1>3. NativeInv' /\ Quiet
  BY <1>1, <1>2, BlockKeeps DEF IInv
<1> QED
  BY <1>2, <1>3, QuietKeeps DEF IInv, Kept

(* Blocks that may leave their route: to the loop, to an error, to the     *)
(* return, or by killing the process.                                      *)
LEMMA LeavingKeeps ==
    ASSUME IInv, DivideStops \/ Test \/ Halt
    PROVE  Kept
<1>1. /\ OnRoute /\ Here \in {"divide", "test", "halt"}
      /\ native' = native
  BY DEF DivideStops, Test, Halt, InBlock
<1>5. pc # Aligned
  BY <1>1, RoutePrint DEF Here, Aligned
<1>2. CASE DivideStops
  <2>1. /\ pc' \in {Label("err_div_zero"), Label("trap")}
        /\ halted' = halted /\ error' = error
    BY <1>2 DEF DivideStops, vmRest
  <2>2. pc' \in Plain /\ pc'[1] \notin Ending
    BY <2>1 DEF Plain, NoReturnAddress, Returning, Ending, Label
  <2> QED
    BY <1>1, <1>5, <2>1, <2>2, LeavesRoute, QuietKeeps, RouteQuiet DEF IInv, Quiet, Kept
<1>3. CASE Test
  <2>1. /\ pc' \in {After(pc[1], pc[2]), Label("loop")}
        /\ halted' = halted /\ error' = error
        /\ Here = "test"
    BY <1>3 DEF Test, vmRest, InBlock
  <2>2. pc' \in ReturnPoint
    BY <1>1, <2>1, OnRoutePlain, AfterReturns DEF IInv, ReturnPoint, OnRoute, Here
  <2>3. pc' \in Plain /\ pc'[1] \notin Ending
    BY <2>2, ReturnPointsQuiet DEF Plain
  <2> QED
    BY <1>1, <1>5, <2>1, <2>3, LeavesRoute, QuietKeeps, RouteQuiet DEF IInv, Quiet, Kept
<1>4. CASE Halt
  <2>1. pc' = Label("ok_return") /\ halted' = TRUE /\ error' = "OK"
    BY <1>4 DEF Halt
  <2>2. pc' \in Plain
    BY <2>1 DEF Plain, Returning
  <2>3. NativeInv'
    BY <1>1, <1>5, <2>2, LeavesRoute DEF IInv
  <2>4. /\ At("ok_return")' /\ ~At("error_return")'
        /\ pc'[1] \notin {"finish", "returned"}
    BY <2>1 DEF At, Label
  <2>5. OutcomeInv'
    BY <2>1, <2>4 DEF OutcomeInv
  <2> QED
    BY <2>3, <2>5 DEF IInv, Kept
<1> QED
  BY <1>2, <1>3, <1>4

(* print pushes its slot and drops it again. *)
LEMMA PrintKeeps ==
    ASSUME IInv, EmitPrint \/ Unalign
    PROVE  Kept
<1>1. /\ OnRoute /\ pc \in Positions /\ pc[1] \in Opcode
      /\ pc[2] \in 1 .. Len(Route(pc[1])) /\ (pc = Aligned \/ native = Frame)
      /\ Proceed /\ halted' = halted /\ error' = error
  BY OnRoutePlain DEF IInv, EmitPrint, Unalign, InBlock, OnRoute, vmRest
<1>2. pc = <<pc[1], pc[2]>>
  BY <1>1 DEF Positions
<1>3. CASE EmitPrint
  <2>1. pc[1] = "PRINT" /\ pc[2] = 2
    BY <1>1, <1>3, RouteAligns DEF EmitPrint, InBlock, Here
  <2>2. native = Frame
    BY <1>1, <1>2, <2>1 DEF Aligned
  <2>3. native' = Append(Frame, Label("align"))
    BY <1>3, <2>2 DEF EmitPrint, Pushed
  <2>4. pc' = Aligned
    BY <1>1, <2>1, RoutePrint DEF Proceed, After, Aligned
  <2>5. NativeInv' /\ pc'[1] \notin Ending
    BY <2>3, <2>4 DEF NativeInv, Aligned, Ending
  <2> QED
    BY <1>1, <2>5, QuietKeeps, RouteQuiet DEF IInv, Quiet, Kept
<1>4. CASE Unalign
  <2>1. pc[1] = "PRINT" /\ pc[2] = 3
    BY <1>1, <1>4, RouteAligns DEF Unalign, InBlock, Here
  <2>2. pc = Aligned
    BY <1>2, <2>1 DEF Aligned
  <2>3. native = Append(Frame, Label("align"))
    BY <2>2, LabelsApart DEF IInv, NativeInv, Aligned, Plain, Helped, ReturnPoint, At, Label,
       Returning, NoReturnAddress
  <2>4. native' = Frame
    BY <1>4, <2>3, SlotOnTop DEF Unalign, DropTop, Slots
  <2>5. pc' = Label("loop")
    <3>1. pc' = After("PRINT", 3)
      BY <1>1, <2>1 DEF Proceed
    <3>2. After("PRINT", 3) = Label("loop")
      BY AfterUnalign
    <3> QED
      BY <3>1, <3>2
  <2>6. NativeInv' /\ pc'[1] \notin Ending
    BY <2>4, <2>5 DEF NativeInv, Plain, ReturnPoint, Ending, Label
  <2> QED
    BY <1>1, <2>6, QuietKeeps, RouteQuiet DEF IInv, Quiet, Kept
<1> QED
  BY <1>3, <1>4

(* A helper is called from a route, with the next position on top. *)
LEMMA CallKeeps ==
    ASSUME IInv, CallHelper
    PROVE  Kept
<1>1. /\ OnRoute /\ pc[1] \in Opcode /\ pc[2] \in 1 .. Len(Route(pc[1]))
      /\ pc = Aligned \/ native = Frame
      /\ Here \in Helpers
      /\ pc' = Label(Here) /\ native' = Append(native, After(pc[1], pc[2]))
      /\ halted' = halted /\ error' = error
  BY OnRoutePlain DEF IInv, CallHelper, OnRoute, Pushed, vmRest
<1>2. Here \notin {"print", "unalign"}
  BY <1>1 DEF Helpers
<1>3. native = Frame
  BY <1>1, <1>2, RoutePrint DEF Aligned, Here
<1>4. After(pc[1], pc[2]) \in ReturnPoint
  BY <1>1, <1>2, AfterReturns DEF Here
<1>5. pc' \in Helped
  BY <1>1 DEF Helped
<1>6. NativeInv' /\ Quiet
  BY <1>1, <1>3, <1>4, <1>5, RouteQuiet, ReturnPointsQuiet DEF NativeInv, Quiet
<1> QED
  BY <1>1, <1>6, QuietKeeps DEF IInv, Kept

LEMMA HelpersKeep ==
    ASSUME IInv,
           LoadRegIndex \/ CheckJumpImm \/ CheckJumpRax \/ CheckRbx
             \/ PushRax \/ PopRax \/ SetZfFromRax
    PROVE  Kept
<1>1. pc[1] \in Helpers
  BY DEF LoadRegIndex, CheckJumpImm, CheckJumpRax, CheckRbx, PushRax, PopRax,
         SetZfFromRax, At, Label, Helpers
<1>2. halted' = halted /\ error' = error
  BY DEF LoadRegIndex, CheckJumpImm, CheckJumpRax, CheckRbx, PushRax, PopRax,
         SetZfFromRax, vmRest
<1>3. \E bad \in BOOLEAN, label \in {"err_bad_register", "err_bad_jump", "err_memory_oob",
             "err_bad_shift", "err_stack_overflow", "err_stack_underflow"} :
        ReturnUnless(bad, label)
  BY DEF LoadRegIndex, CheckJumpImm, CheckJumpRax, CheckRbx, PushRax, PopRax,
         SetZfFromRax, ReturnUnless, ValidReg, BadTarget, BadAddress, BadShift
<1>4. {"err_bad_register", "err_bad_jump", "err_memory_oob", "err_bad_shift",
       "err_stack_overflow", "err_stack_underflow"} \subseteq (DOMAIN ErrorOf) \ NoReturnAddress
  BY DEF ErrorOf, NoReturnAddress
<1>5. NativeInv' /\ Quiet
  BY <1>1, <1>3, <1>4, HelperKeeps DEF IInv
<1> QED
  BY <1>2, <1>5, QuietKeeps DEF IInv, Kept

(* The prologue, the dispatch, the error paths and the way out. *)
LEMMA PrologueKeeps ==
    ASSUME IInv, Prologue
    PROVE  Kept
<1>1. /\ pc = Label("entry") /\ pc' = Label("loop")
      /\ native' = native \o Saved
      /\ halted' = halted /\ error' = error
  BY DEF Prologue, At, vmRest
<1>2. native = <<Label("caller")>>
  BY <1>1, LabelsApart DEF IInv, NativeInv, Plain, Helped, ReturnPoint, Aligned, At, Label,
     Returning, NoReturnAddress, Helpers, ErrorOf, Opcode, UnaryOps
<1>3. native' = Frame
  BY <1>1, <1>2 DEF Frame
<1>4. pc[1] \notin Ending /\ pc'[1] \notin Ending /\ pc' \in Plain
  BY <1>1 DEF Ending, Label, Plain, ReturnPoint
<1> QED
  BY <1>1, <1>3, <1>4, QuietKeeps DEF IInv, NativeInv, Quiet, Kept

LEMMA InPlain ==
    ASSUME NativeInv, pc[1] \in {"loop"} \cup Returning \cup NoReturnAddress
    PROVE  native = Frame
BY LabelsApart DEF NativeInv, Plain, Helped, ReturnPoint, Aligned, At, Label, Returning,
   NoReturnAddress, ErrorOf

LEMMA DispatchKeeps ==
    ASSUME IInv, Dispatch
    PROVE  Kept
<1>1. /\ pc = Label("loop") /\ native' = native
      /\ halted' = halted /\ error' = error
      /\ IpInside
  BY DEF Dispatch, At, vmRest
<1>2. code[ip + 1].op \in Opcode \cup {"INVALID"}
  <2>1. code \in Seq(Instruction)
    BY ProgramsAssumption DEF IInv
  <2>2. ip + 1 \in 1 .. Len(code)
    BY <1>1, <2>1 DEF IpInside
  <2>3. code[ip + 1] \in Instruction
    BY <2>1, <2>2
  <2> QED
    BY <2>3 DEF Instruction
<1>3. native = Frame
  BY <1>1, InPlain DEF IInv, Label
<1> DEFINE op == code[ip + 1].op
<1>4. pc' = IF op = "INVALID" THEN Label("err_bad_opcode") ELSE After(op, 0)
  BY DEF Dispatch
<1>5. op # "INVALID" => pc' \in ReturnPoint
  <2>1. op # "INVALID" => After(op, 0) \in {Label("loop")} \cup Positions
    BY <1>2, AfterStays, RouteLength
  <2>2. op # "INVALID" => After(op, 0) # Aligned
    BY <1>2, RouteLength DEF After, Label, Aligned
  <2> QED
    BY <1>4, <2>1, <2>2 DEF ReturnPoint
<1>6. op = "INVALID" => pc' \in Plain /\ pc'[1] \notin Ending
  BY <1>4 DEF Plain, NoReturnAddress, Label, Ending
<1>7. pc' \in Plain /\ pc[1] \notin Ending /\ pc'[1] \notin Ending
  <2>1. pc[1] \notin Ending
    BY <1>1 DEF Label, Ending
  <2> QED
    BY <1>5, <1>6, <2>1, ReturnPointsQuiet DEF Plain
<1> QED
  BY <1>1, <1>3, <1>7, QuietKeeps DEF IInv, NativeInv, Quiet, Kept

LEMMA NothingRecorded ==
    ASSUME OutcomeInv, pc[1] \notin Ending
    PROVE  ~halted /\ error = "OK" /\ halted \in BOOLEAN
BY DEF OutcomeInv, Ending, At, Label

LEMMA LoopExitKeeps ==
    ASSUME IInv, LoopExit
    PROVE  Kept
<1>1. /\ pc = Label("loop") /\ native' = native
      /\ halted' = halted /\ error' = error
  BY DEF LoopExit, At, vmRest
<1>2. pc[1] = "loop" /\ pc[1] \notin Ending
  BY <1>1 DEF Label, Ending
<1>3. ~halted /\ native = Frame
  BY <1>2, NothingRecorded, InPlain DEF IInv
<1>4. pc' = Label("err_ip")
  BY <1>3 DEF LoopExit
<1>5. pc' \in Plain /\ pc'[1] \notin Ending
  BY <1>4 DEF Plain, NoReturnAddress, Label, Ending
<1> QED
  BY <1>1, <1>2, <1>3, <1>5, QuietKeeps DEF IInv, NativeInv, Quiet, Kept

(* The two kinds of error path leave the same stack behind. *)
LEMMA ErrorPathKeeps ==
    ASSUME IInv, ErrorPath
    PROVE  Kept
<1>1. /\ pc[1] \in DOMAIN ErrorOf
      /\ IF pc[1] \in NoReturnAddress THEN native' = native
         ELSE native' = SubSeq(native, 1, Len(native) - 1)
      /\ error' = ErrorOf[pc[1]] /\ halted' = halted
      /\ pc' = Label("error_return")
  BY DEF ErrorPath, DropTop
<1>2. native' = Frame
  <2>1. CASE pc[1] \in NoReturnAddress
    BY <1>1, <2>1, InPlain DEF IInv
  <2>2. CASE pc[1] \notin NoReturnAddress
    <3>1. pc \notin Plain /\ pc # Aligned /\ ~At("entry") /\ ~At("returned")
      BY <1>1, <2>2, LabelsApart
      DEF Plain, ReturnPoint, Aligned, At, Label, Returning, Opcode, UnaryOps
    <3>2. PICK slot \in ReturnPoint : native = Append(Frame, slot)
      BY <3>1 DEF IInv, NativeInv
    <3> QED
      BY <1>1, <2>2, <3>2, SlotOnTop DEF Slots
  <2> QED
    BY <2>1, <2>2
<1>3. pc[1] \notin Ending
  BY <1>1 DEF ErrorOf, Ending
<1>4. ~halted' /\ error' # "OK"
  BY <1>1, <1>3, NothingRecorded DEF IInv, ErrorOf
<1>5. NativeInv'
  BY <1>1, <1>2 DEF NativeInv, Plain, Returning
<1>6. /\ ~At("ok_return")' /\ At("error_return")'
      /\ pc'[1] \notin {"finish", "returned"}
  BY <1>1 DEF At, Label
<1>7. halted' = FALSE
  BY <1>1, <1>3, NothingRecorded DEF IInv
<1>8. OutcomeInv'
  BY <1>4, <1>6, <1>7 DEF OutcomeInv
<1> QED
  BY <1>5, <1>8 DEF Kept

LEMMA ReturnKeeps ==
    ASSUME IInv, Return
    PROVE  Kept
<1>1. /\ pc[1] \in {"ok_return", "error_return"}
      /\ result' = IF At("ok_return") THEN 0 ELSE 1
      /\ pc' = Label("finish") /\ native' = native
      /\ halted' = halted /\ error' = error
  BY DEF Return, vmRest
<1>2. native = Frame
  BY <1>1, InPlain DEF IInv, Returning
<1>3. At("ok_return") \/ At("error_return")
  BY <1>1, LabelsApart
  DEF IInv, NativeInv, Plain, Helped, ReturnPoint, Aligned, At, Label, Returning,
      NoReturnAddress, Helpers, ErrorOf
<1>4. /\ halted \in BOOLEAN
      /\ (result' = 0) = halted /\ (error = "OK") = halted
  BY <1>1, <1>3 DEF IInv, OutcomeInv, At, Label
<1>5. /\ ~At("ok_return")' /\ ~At("error_return")' /\ pc'[1] = "finish"
  BY <1>1 DEF At, Label
<1>6. OutcomeInv'
  BY <1>1, <1>4, <1>5 DEF OutcomeInv
<1> QED
  BY <1>1, <1>2, <1>6 DEF NativeInv, Plain, Returning, Kept

LEMMA EpilogueKeeps ==
    ASSUME IInv, Epilogue
    PROVE  Kept
<1>1. /\ pc = Label("finish") /\ pc' = Label("returned")
      /\ restored' = SubSeq(native, Len(native) - Len(Frame) + 1, Len(native))
      /\ native' = SubSeq(native, 1, Len(native) - Len(Frame))
      /\ halted' = halted /\ error' = error /\ result' = result
  BY DEF Epilogue, At, vmRest
<1>2. native = Frame
  BY <1>1, InPlain DEF IInv, Returning, Label
<1>3. Frame \in Seq(Slots) /\ Len(Frame) = 7
  BY FrameType
<1>4. restored' = Frame /\ native' = <<>>
  <2>1. ASSUME NEW s \in Seq(Slots)
        PROVE  SubSeq(s, 1, Len(s)) = s /\ SubSeq(s, 1, 0) = <<>>
    OBVIOUS
  <2>2. Len(native) - Len(Frame) + 1 = 1 /\ Len(native) - Len(Frame) = 0
    BY <1>2, <1>3
  <2> QED
    BY <1>1, <1>2, <1>3, <2>1, <2>2
<1>5. pc[1] = "finish" /\ ~At("ok_return") /\ ~At("error_return")
  BY <1>1 DEF Label, At
<1>6. /\ halted \in BOOLEAN
      /\ (result = 0) = halted /\ (error = "OK") = halted
  BY <1>5 DEF IInv, OutcomeInv
<1>7. /\ ~At("ok_return")' /\ ~At("error_return")' /\ pc'[1] = "returned"
      /\ At("returned")'
  BY <1>1 DEF At, Label
<1>8. OutcomeInv'
  BY <1>1, <1>6, <1>7 DEF OutcomeInv
<1> QED
  BY <1>4, <1>7, <1>8 DEF NativeInv, Kept

----------------------------------------------------------------------------
(* The invariant. *)

LEMMA NextKeeps == IInv /\ [Next]_vars => IInv'
<1>1. SUFFICES ASSUME IInv, [Next]_vars PROVE IInv'
  OBVIOUS
<1>2. code' = code
  BY <1>1
  DEF Next, Step, Ended, vars, vmRest, Prologue, LoopExit, Dispatch, ErrorPath, Return,
      Epilogue, CallHelper, LoadRegIndex, CheckJumpImm, CheckJumpRax, CheckRbx,
      PushRax, PopRax, SetZfFromRax, SaveIndex, Alu, Bitwise, OperandToRbx, Divide,
      DivideStops, ShiftReg, LoadReg, StoreReg, WritePopped, FetchReg, Compare,
      Test, GotoReg, SaveTarget, EmitPrint, Unalign, Halt, WriteReg
<1>3. Kept
  <2>1. CASE Prologue  BY <1>1, <2>1, PrologueKeeps
  <2>2. CASE LoopExit  BY <1>1, <2>2, LoopExitKeeps
  <2>3. CASE Dispatch  BY <1>1, <2>3, DispatchKeeps
  <2>4. CASE ErrorPath  BY <1>1, <2>4, ErrorPathKeeps
  <2>5. CASE Return  BY <1>1, <2>5, ReturnKeeps
  <2>6. CASE Epilogue  BY <1>1, <2>6, EpilogueKeeps
  <2>7. CASE CallHelper  BY <1>1, <2>7, CallKeeps
  <2>8. CASE LoadRegIndex \/ CheckJumpImm \/ CheckJumpRax \/ CheckRbx
               \/ PushRax \/ PopRax \/ SetZfFromRax
    BY <1>1, <2>8, HelpersKeep
  <2>9. CASE SaveIndex \/ Alu \/ Bitwise \/ OperandToRbx \/ Divide \/ ShiftReg
               \/ LoadReg \/ StoreReg \/ WritePopped \/ FetchReg \/ Compare
               \/ GotoReg \/ SaveTarget
    BY <1>1, <2>9, BlocksKeep
  <2>10. CASE DivideStops \/ Test \/ Halt  BY <1>1, <2>10, LeavingKeeps
  <2>11. CASE EmitPrint \/ Unalign  BY <1>1, <2>11, PrintKeeps
  <2>12. CASE UNCHANGED vars
    BY <1>1, <2>12 DEF vars, IInv, NativeInv, OutcomeInv, Kept, At
  <2> QED
    BY <1>1, <2>1, <2>2, <2>3, <2>4, <2>5, <2>6, <2>7, <2>8, <2>9, <2>10, <2>11,
       <2>12 DEF Next, Step, Ended
<1> QED
  BY <1>1, <1>2, <1>3 DEF IInv, Kept

LEMMA Invariance == Spec => []IInv
BY InitEstablishes, NextKeeps, PTL DEF Spec

(* Whatever path through helpers and error labels, the epilogue gives back *)
(* the caller's registers and the return address.                          *)
THEOREM CalleeSavedAreRestored == Spec => []CalleeSavedRestored
<1>1. IInv => CalleeSavedRestored
  BY LabelsApart DEF IInv, NativeInv, CalleeSavedRestored, Plain, Helped, ReturnPoint, Aligned,
     At, Label, Returning, NoReturnAddress, Helpers, ErrorOf, Opcode, UnaryOps
<1> QED
  BY Invariance, <1>1, PTL

(* The frame is always intact, and the one slot above it is there exactly  *)
(* when a helper runs, has failed, or print has aligned the stack.         *)
THEOREM NativeStackHasItsShape == Spec => []NativeStackShape
<1>1. ASSUME IInv PROVE NativeStackShape
  <2>1. SubSeq(Frame, 1, Len(Frame)) = Frame /\ Len(Frame) = 7
    BY FrameType
  <2>2. CASE At("entry") \/ At("returned")
    BY <2>2 DEF NativeStackShape, At, Label
  <2>3. CASE pc \in Plain /\ native = Frame
    <3>1. pc[1] \notin Helpers /\ pc[1] \notin (DOMAIN ErrorOf) \ NoReturnAddress
          /\ pc # Aligned
      BY <2>3, LabelsApart DEF Plain, ReturnPoint, Aligned, Label, Returning, Opcode, UnaryOps
    <3> QED
      BY <2>1, <2>3, <3>1 DEF NativeStackShape, Aligned
  <2>4. CASE pc \in Helped /\ \E slot \in ReturnPoint : native = Append(Frame, slot)
    <3>1. pc[1] \in Helpers \/ pc[1] \in (DOMAIN ErrorOf) \ NoReturnAddress
      BY <2>4 DEF Helped, Label
    <3>2. Len(native) = 8 /\ SubSeq(native, 1, 7) = Frame
      BY <2>4, SlotOnTop DEF Slots
    <3> QED
      BY <2>1, <3>1, <3>2 DEF NativeStackShape
  <2>5. CASE pc = Aligned /\ native = Append(Frame, Label("align"))
    <3>1. Len(native) = 8 /\ SubSeq(native, 1, 7) = Frame
      BY <2>5, SlotOnTop DEF Slots
    <3> QED
      BY <2>1, <2>5, <3>1 DEF NativeStackShape, Aligned
  <2> QED
    BY <1>1, <2>2, <2>3, <2>4, <2>5 DEF IInv, NativeInv
<1> QED
  BY Invariance, <1>1, PTL

(* The result is 0 exactly for a machine that halted, and vm->error is OK  *)
(* exactly then.                                                           *)
THEOREM ResultTellsError == Spec => []ResultMatchesError
<1>1. IInv => ResultMatchesError
  BY DEF IInv, OutcomeInv, ResultMatchesError, At, Label
<1> QED
  BY Invariance, <1>1, PTL

----------------------------------------------------------------------------
(* The routes. What a block may be followed by is a law of its name, not   *)
(* of its position: the proofs below reason with names.                    *)

Names == Helpers \cup {"save_index", "alu", "bitwise", "operand", "divide", "shift", "load",
                       "store", "write_a", "fetch_a", "compare", "test", "goto_rax",
                       "goto_r15", "save_target", "print", "unalign", "halt"}

LEMMA Joined ==
    ASSUME NEW s \in Seq(Names), NEW t \in Seq(Names)
    PROVE  /\ Len(s \o t) = Len(s) + Len(t)
           /\ \A i \in 1 .. Len(s) : (s \o t)[i] = s[i]
           /\ \A i \in 1 .. Len(t) : (s \o t)[Len(s) + i] = t[i]
OBVIOUS

IndexCount(op) == IF op \in SecondRegOps THEN 3 ELSE 2

LEMMA IndexesFirst ==
    ASSUME NEW op, NEW t \in Seq(Names)
    PROVE  LET r == Indexes(op) \o t
               n == IndexCount(op)
           IN  /\ Len(r) = n + Len(t)
               /\ r[1] = "load_reg_a_index" /\ r[2] = "save_index"
               /\ op \in SecondRegOps => r[3] = "load_reg_b_index"
               /\ \A i \in 1 .. Len(t) : r[n + i] = t[i]
<1>1. /\ Indexes(op) \in Seq(Names) /\ Len(Indexes(op)) = IndexCount(op)
      /\ Indexes(op)[1] = "load_reg_a_index" /\ Indexes(op)[2] = "save_index"
      /\ op \in SecondRegOps => Indexes(op)[3] = "load_reg_b_index"
  <2>1. CASE op \in SecondRegOps
    <3>1. Indexes(op) = <<"load_reg_a_index", "save_index">> \o <<"load_reg_b_index">>
      BY <2>1 DEF Indexes
    <3>2. /\ <<"load_reg_a_index", "save_index">> \in Seq(Names)
          /\ <<"load_reg_b_index">> \in Seq(Names)
      BY DEF Names, Helpers
    <3>3. Indexes(op) \in Seq(Names)
      BY <3>1, <3>2
    <3>4. /\ Len(Indexes(op)) = 3
          /\ Indexes(op)[1] = "load_reg_a_index" /\ Indexes(op)[2] = "save_index"
          /\ Indexes(op)[3] = "load_reg_b_index"
      BY <3>1
    <3> QED
      BY <2>1, <3>3, <3>4 DEF IndexCount
  <2>2. CASE op \notin SecondRegOps
    <3>1. Indexes(op) = <<"load_reg_a_index", "save_index">> \o <<>>
      BY <2>2 DEF Indexes
    <3>2. /\ <<"load_reg_a_index", "save_index">> \in Seq(Names)
          /\ <<>> \in Seq(Names)
      BY DEF Names, Helpers
    <3>3. Indexes(op) \in Seq(Names)
      BY <3>1, <3>2
    <3>4. /\ Len(Indexes(op)) = 2
          /\ Indexes(op)[1] = "load_reg_a_index" /\ Indexes(op)[2] = "save_index"
      BY <3>1
    <3> QED
      BY <2>2, <3>3, <3>4 DEF IndexCount
  <2> QED
    BY <2>1, <2>2
<1> DEFINE s == Indexes(op)
           n == IndexCount(op)
<1>2. n \in Nat /\ n >= 2 /\ (op \in SecondRegOps => n >= 3)
  BY DEF IndexCount
<1>3. /\ s \in Seq(Names) /\ Len(s) = n /\ s[1] = "load_reg_a_index" /\ s[2] = "save_index"
      /\ op \in SecondRegOps => s[3] = "load_reg_b_index"
  BY <1>1
<1> HIDE DEF s, n
<1>4. /\ Len(s \o t) = n + Len(t)
      /\ \A i \in 1 .. n : (s \o t)[i] = s[i]
      /\ \A i \in 1 .. Len(t) : (s \o t)[n + i] = t[i]
  <2>1. /\ Len(s \o t) = Len(s) + Len(t)
        /\ \A i \in 1 .. Len(s) : (s \o t)[i] = s[i]
        /\ \A i \in 1 .. Len(t) : (s \o t)[Len(s) + i] = t[i]
    BY <1>3, Joined
  <2> QED
    BY <1>3, <2>1
<1>5. /\ (s \o t)[1] = s[1] /\ (s \o t)[2] = s[2]
      /\ op \in SecondRegOps => (s \o t)[3] = s[3]
  BY <1>2, <1>4
<1> QED
  BY <1>3, <1>4, <1>5 DEF s, n

(* What follows what: name m is next after name n in the route of op, or   *)
(* the route ends and m is the loop.                                       *)
Saving == FirstRegOps \ {"MOV_IMM", "CMP_IMM", "JZ", "JNZ", "PRINT", "PUSH"}

Begins(op, m) ==
    \/ op \in BitOps \cup {"NOT"} /\ m = "bitwise"
    \/ op \in AluOps \ (BitOps \cup {"MOV_IMM"}) /\ m = "alu"
    \/ op = "CMP_REG" /\ m = "compare"
    \/ op \in DivOps \cup ShiftOps \cup LoadOps \cup StoreOps /\ m = "operand"

AfterIndex(op, m) ==
    \/ op = "MOV_IMM" /\ m = "alu"
    \/ op = "CMP_IMM" /\ m = "compare"
    \/ op \in {"JZ", "JNZ"} /\ m = "test"
    \/ op = "PRINT" /\ m = "print"
    \/ op = "PUSH" /\ m = "fetch_a"
    \/ op \in Saving /\ m = "save_index"

AfterSave(op, m) ==
    \/ op \in SecondRegOps /\ m = "load_reg_b_index"
    \/ op = "POP" /\ m = "pop_rax"
    \/ op \notin SecondRegOps /\ Begins(op, m)

AfterOperand(op, m) ==
    \/ op \in DivOps /\ m = "divide"
    \/ op \in ShiftOps /\ m = "check_shift_rbx"
    \/ op \in LoadOps \cup StoreOps /\ m = "check_mem_addr_rbx"

SetsZf(op, n) ==
    \/ n = "alu" /\ op \in AluOps \ BitOps
    \/ n = "bitwise" /\ op \in BitOps \cup {"NOT"}
    \/ n = "divide" /\ op \in DivOps
    \/ n = "shift" /\ op \in ShiftOps
    \/ n = "load" /\ op \in LoadOps
    \/ n = "write_a" /\ op = "POP"

IsLast(op, n) ==
    \/ n = "store" /\ op \in StoreOps
    \/ n = "compare" /\ op \in CmpOps
    \/ n = "set_zf_from_rax"
    \/ n = "goto_rax" /\ op \in JumpOps \cup {"RET"}
    \/ n = "goto_r15" /\ op = "CALL"
    \/ n = "halt" /\ op = "HALT"
    \/ n = "unalign" /\ op = "PRINT"
    \/ n = "push_rax" /\ op = "PUSH"

Follows(op, n, m) ==
    \/ n = "load_reg_a_index" /\ AfterIndex(op, m)
    \/ n = "save_index" /\ op \in Saving /\ AfterSave(op, m)
    \/ n = "load_reg_b_index" /\ op \in SecondRegOps /\ Begins(op, m)
    \/ n = "operand" /\ AfterOperand(op, m)
    \/ n = "check_shift_rbx" /\ op \in ShiftOps /\ m = "shift"
    \/ n = "check_mem_addr_rbx" /\ op \in LoadOps /\ m = "load"
    \/ n = "check_mem_addr_rbx" /\ op \in StoreOps /\ m = "store"
    \/ SetsZf(op, n) /\ m = "set_zf_from_rax"
    \/ IsLast(op, n) /\ m = "loop"
    \/ n = "test" /\ op \in JumpOps \ {"JMP"} /\ m = "check_jump_imm"
    \/ n = "check_jump_imm" /\ op \in JumpOps /\ m = "goto_rax"
    \/ n = "check_jump_imm" /\ op = "CALL" /\ m = "save_target"
    \/ n = "save_target" /\ op = "CALL" /\ m = "push_rax"
    \/ n = "fetch_a" /\ op = "PUSH" /\ m = "push_rax"
    \/ n = "push_rax" /\ op = "CALL" /\ m = "goto_r15"
    \/ n = "pop_rax" /\ op = "POP" /\ m = "write_a"
    \/ n = "pop_rax" /\ op = "RET" /\ m = "check_jump_rax"
    \/ n = "check_jump_rax" /\ op = "RET" /\ m = "goto_rax"
    \/ n = "print" /\ op = "PRINT" /\ m = "unalign"

Starts(op, m) ==
    \/ op \in FirstRegOps /\ m = "load_reg_a_index"
    \/ op \in {"JMP", "CALL"} /\ m = "check_jump_imm"
    \/ op \in {"JE", "JNE"} /\ m = "test"
    \/ op = "RET" /\ m = "pop_rax"
    \/ op = "HALT" /\ m = "halt"
    \/ op = "NOP" /\ m = "loop"

Settled == {"set_zf_from_rax", "unalign", "goto_r15"}
PoppedAt(op, n) ==
    \/ n \in {"write_a", "check_jump_rax"}
    \/ n = "goto_rax" /\ op = "RET"
    \/ n = "set_zf_from_rax" /\ op = "POP"

Sequenced(op, r, len) ==
    /\ Starts(op, IF len > 0 THEN r[1] ELSE "loop")
    /\ \A k \in 1 .. len :
          Follows(op, r[k], IF k < len THEN r[k + 1] ELSE "loop")

Distinct(r, len) ==
    \A k \in 1 .. len : /\ r[k] \in Names
                        /\ \A j \in 1 .. len : r[j] = r[k] => j = k

Marked(op, r, len) ==
    \A k \in 1 .. len :
        /\ (\A j \in 1 .. (k - 1) : r[j] \notin Effects) <=> r[k] \notin Settled
        /\ (\E j \in 1 .. (k - 1) : r[j] = "pop_rax") <=> PoppedAt(op, r[k])

Lawful(op, r, len) == Sequenced(op, r, len) /\ Distinct(r, len) /\ Marked(op, r, len)

LEMMA LawfulMOV_IMM ==
    ASSUME NEW op \in {"MOV_IMM"}
    PROVE  \E len \in Nat : Len(Route(op)) = len /\ Lawful(op, Route(op), len)
<1> DEFINE r == Route(op)
<1>1. /\ Len(r) = 3
      /\ r[1] = "load_reg_a_index" /\ r[2] = "alu"
      /\ r[3] = "set_zf_from_rax"
  BY DEF Route, AluOps, ImmOps, RegOps, BitOps, DivOps, ShiftOps, LoadOps, StoreOps
<1>2. /\ op \in FirstRegOps /\ op \notin SecondRegOps /\ op \notin Saving /\ op \in AluOps
      /\ op \notin BitOps /\ op \notin DivOps /\ op \notin ShiftOps /\ op \notin CmpOps
      /\ op \notin LoadOps /\ op \notin StoreOps /\ op \notin JumpOps
  BY DEF FirstRegOps, SecondRegOps, Opcode, AluOps, ImmOps, RegOps, BitOps, DivOps,
     ShiftOps,
       CmpOps, LoadOps, StoreOps, JumpOps, UnaryOps, Saving
<1> HIDE DEF r
<1>3. Lawful(op, r, 3)
  BY <1>1, <1>2
  DEF Lawful, Sequenced, Distinct, Marked, Effects, Settled, PoppedAt, Names, Helpers,
       Starts, Follows, AfterIndex, AfterSave, AfterOperand, SetsZf, IsLast, Begins
<1> QED
  BY <1>1, <1>3 DEF r

LEMMA LawfulCMP_IMM ==
    ASSUME NEW op \in {"CMP_IMM"}
    PROVE  \E len \in Nat : Len(Route(op)) = len /\ Lawful(op, Route(op), len)
<1> DEFINE r == Route(op)
<1>1. /\ Len(r) = 2
      /\ r[1] = "load_reg_a_index" /\ r[2] = "compare"
  BY DEF Route, AluOps, ImmOps, RegOps, BitOps, DivOps, ShiftOps, LoadOps, StoreOps
<1>2. /\ op \in FirstRegOps /\ op \notin SecondRegOps /\ op \notin Saving /\ op \notin AluOps
      /\ op \notin BitOps /\ op \notin DivOps /\ op \notin ShiftOps /\ op \in CmpOps
      /\ op \notin LoadOps /\ op \notin StoreOps /\ op \notin JumpOps
  BY DEF FirstRegOps, SecondRegOps, Opcode, AluOps, ImmOps, RegOps, BitOps, DivOps,
     ShiftOps,
       CmpOps, LoadOps, StoreOps, JumpOps, UnaryOps, Saving
<1> HIDE DEF r
<1>3. Lawful(op, r, 2)
  BY <1>1, <1>2
  DEF Lawful, Sequenced, Distinct, Marked, Effects, Settled, PoppedAt, Names, Helpers,
       Starts, Follows, AfterIndex, AfterSave, AfterOperand, SetsZf, IsLast, Begins
<1> QED
  BY <1>1, <1>3 DEF r

LEMMA LawfulJMP ==
    ASSUME NEW op \in {"JMP"}
    PROVE  \E len \in Nat : Len(Route(op)) = len /\ Lawful(op, Route(op), len)
<1> DEFINE r == Route(op)
<1>1. /\ Len(r) = 2
      /\ r[1] = "check_jump_imm" /\ r[2] = "goto_rax"
  BY DEF Route, AluOps, ImmOps, RegOps, BitOps, DivOps, ShiftOps, LoadOps, StoreOps
<1>2. /\ op \notin FirstRegOps /\ op \notin SecondRegOps /\ op \notin Saving /\ op \notin AluOps
      /\ op \notin BitOps /\ op \notin DivOps /\ op \notin ShiftOps /\ op \notin CmpOps
      /\ op \notin LoadOps /\ op \notin StoreOps /\ op \in JumpOps
  BY DEF FirstRegOps, SecondRegOps, Opcode, AluOps, ImmOps, RegOps, BitOps, DivOps,
     ShiftOps,
       CmpOps, LoadOps, StoreOps, JumpOps, UnaryOps, Saving
<1> HIDE DEF r
<1>3. Lawful(op, r, 2)
  BY <1>1, <1>2
  DEF Lawful, Sequenced, Distinct, Marked, Effects, Settled, PoppedAt, Names, Helpers,
       Starts, Follows, AfterIndex, AfterSave, AfterOperand, SetsZf, IsLast, Begins
<1> QED
  BY <1>1, <1>3 DEF r

LEMMA LawfulJZ ==
    ASSUME NEW op \in {"JZ", "JNZ"}
    PROVE  \E len \in Nat : Len(Route(op)) = len /\ Lawful(op, Route(op), len)
<1> DEFINE r == Route(op)
<1>1. /\ Len(r) = 4
      /\ r[1] = "load_reg_a_index" /\ r[2] = "test"
      /\ r[3] = "check_jump_imm" /\ r[4] = "goto_rax"
  BY DEF Route, AluOps, ImmOps, RegOps, BitOps, DivOps, ShiftOps, LoadOps, StoreOps
<1>2. /\ op \in FirstRegOps /\ op \notin SecondRegOps /\ op \notin Saving /\ op \notin AluOps
      /\ op \notin BitOps /\ op \notin DivOps /\ op \notin ShiftOps /\ op \notin CmpOps
      /\ op \notin LoadOps /\ op \notin StoreOps /\ op \in JumpOps
  BY DEF FirstRegOps, SecondRegOps, Opcode, AluOps, ImmOps, RegOps, BitOps, DivOps,
     ShiftOps,
       CmpOps, LoadOps, StoreOps, JumpOps, UnaryOps, Saving
<1> HIDE DEF r
<1>3. Lawful(op, r, 4)
  BY <1>1, <1>2
  DEF Lawful, Sequenced, Distinct, Marked, Effects, Settled, PoppedAt, Names, Helpers,
       Starts, Follows, AfterIndex, AfterSave, AfterOperand, SetsZf, IsLast, Begins
<1> QED
  BY <1>1, <1>3 DEF r

LEMMA LawfulJE ==
    ASSUME NEW op \in {"JE", "JNE"}
    PROVE  \E len \in Nat : Len(Route(op)) = len /\ Lawful(op, Route(op), len)
<1> DEFINE r == Route(op)
<1>1. /\ Len(r) = 3
      /\ r[1] = "test" /\ r[2] = "check_jump_imm"
      /\ r[3] = "goto_rax"
  BY DEF Route, AluOps, ImmOps, RegOps, BitOps, DivOps, ShiftOps, LoadOps, StoreOps
<1>2. /\ op \notin FirstRegOps /\ op \notin SecondRegOps /\ op \notin Saving /\ op \notin AluOps
      /\ op \notin BitOps /\ op \notin DivOps /\ op \notin ShiftOps /\ op \notin CmpOps
      /\ op \notin LoadOps /\ op \notin StoreOps /\ op \in JumpOps
  BY DEF FirstRegOps, SecondRegOps, Opcode, AluOps, ImmOps, RegOps, BitOps, DivOps,
     ShiftOps,
       CmpOps, LoadOps, StoreOps, JumpOps, UnaryOps, Saving
<1> HIDE DEF r
<1>3. Lawful(op, r, 3)
  BY <1>1, <1>2
  DEF Lawful, Sequenced, Distinct, Marked, Effects, Settled, PoppedAt, Names, Helpers,
       Starts, Follows, AfterIndex, AfterSave, AfterOperand, SetsZf, IsLast, Begins
<1> QED
  BY <1>1, <1>3 DEF r

LEMMA LawfulPRINT ==
    ASSUME NEW op \in {"PRINT"}
    PROVE  \E len \in Nat : Len(Route(op)) = len /\ Lawful(op, Route(op), len)
<1> DEFINE r == Route(op)
<1>1. /\ Len(r) = 3
      /\ r[1] = "load_reg_a_index" /\ r[2] = "print"
      /\ r[3] = "unalign"
  BY DEF Route, AluOps, ImmOps, RegOps, BitOps, DivOps, ShiftOps, LoadOps, StoreOps
<1>2. /\ op \in FirstRegOps /\ op \notin SecondRegOps /\ op \notin Saving /\ op \notin AluOps
      /\ op \notin BitOps /\ op \notin DivOps /\ op \notin ShiftOps /\ op \notin CmpOps
      /\ op \notin LoadOps /\ op \notin StoreOps /\ op \notin JumpOps
  BY DEF FirstRegOps, SecondRegOps, Opcode, AluOps, ImmOps, RegOps, BitOps, DivOps,
     ShiftOps,
       CmpOps, LoadOps, StoreOps, JumpOps, UnaryOps, Saving
<1> HIDE DEF r
<1>3. Lawful(op, r, 3)
  BY <1>1, <1>2
  DEF Lawful, Sequenced, Distinct, Marked, Effects, Settled, PoppedAt, Names, Helpers,
       Starts, Follows, AfterIndex, AfterSave, AfterOperand, SetsZf, IsLast, Begins
<1> QED
  BY <1>1, <1>3 DEF r

LEMMA LawfulHALT ==
    ASSUME NEW op \in {"HALT"}
    PROVE  \E len \in Nat : Len(Route(op)) = len /\ Lawful(op, Route(op), len)
<1> DEFINE r == Route(op)
<1>1. /\ Len(r) = 1
      /\ r[1] = "halt"
  BY DEF Route, AluOps, ImmOps, RegOps, BitOps, DivOps, ShiftOps, LoadOps, StoreOps
<1>2. /\ op \notin FirstRegOps /\ op \notin SecondRegOps /\ op \notin Saving /\ op \notin AluOps
      /\ op \notin BitOps /\ op \notin DivOps /\ op \notin ShiftOps /\ op \notin CmpOps
      /\ op \notin LoadOps /\ op \notin StoreOps /\ op \notin JumpOps
  BY DEF FirstRegOps, SecondRegOps, Opcode, AluOps, ImmOps, RegOps, BitOps, DivOps,
     ShiftOps,
       CmpOps, LoadOps, StoreOps, JumpOps, UnaryOps, Saving
<1> HIDE DEF r
<1>3. Lawful(op, r, 1)
  BY <1>1, <1>2
  DEF Lawful, Sequenced, Distinct, Marked, Effects, Settled, PoppedAt, Names, Helpers,
       Starts, Follows, AfterIndex, AfterSave, AfterOperand, SetsZf, IsLast, Begins
<1> QED
  BY <1>1, <1>3 DEF r

LEMMA LawfulNOP ==
    ASSUME NEW op \in {"NOP"}
    PROVE  \E len \in Nat : Len(Route(op)) = len /\ Lawful(op, Route(op), len)
<1> DEFINE r == Route(op)
<1>1. Len(r) = 0
  BY DEF Route, AluOps, ImmOps, RegOps, BitOps, DivOps, ShiftOps, LoadOps, StoreOps
<1>2. /\ op \notin FirstRegOps /\ op \notin SecondRegOps /\ op \notin Saving /\ op \notin AluOps
      /\ op \notin BitOps /\ op \notin DivOps /\ op \notin ShiftOps /\ op \notin CmpOps
      /\ op \notin LoadOps /\ op \notin StoreOps /\ op \notin JumpOps
  BY DEF FirstRegOps, SecondRegOps, Opcode, AluOps, ImmOps, RegOps, BitOps, DivOps,
     ShiftOps,
       CmpOps, LoadOps, StoreOps, JumpOps, UnaryOps, Saving
<1> HIDE DEF r
<1>3. Lawful(op, r, 0)
  BY <1>1, <1>2
  DEF Lawful, Sequenced, Distinct, Marked, Effects, Settled, PoppedAt, Names, Helpers,
       Starts, Follows, AfterIndex, AfterSave, AfterOperand, SetsZf, IsLast, Begins
<1> QED
  BY <1>1, <1>3 DEF r

LEMMA LawfulPUSH ==
    ASSUME NEW op \in {"PUSH"}
    PROVE  \E len \in Nat : Len(Route(op)) = len /\ Lawful(op, Route(op), len)
<1> DEFINE r == Route(op)
<1>1. /\ Len(r) = 3
      /\ r[1] = "load_reg_a_index" /\ r[2] = "fetch_a"
      /\ r[3] = "push_rax"
  BY DEF Route, AluOps, ImmOps, RegOps, BitOps, DivOps, ShiftOps, LoadOps, StoreOps
<1>2. /\ op \in FirstRegOps /\ op \notin SecondRegOps /\ op \notin Saving /\ op \notin AluOps
      /\ op \notin BitOps /\ op \notin DivOps /\ op \notin ShiftOps /\ op \notin CmpOps
      /\ op \notin LoadOps /\ op \notin StoreOps /\ op \notin JumpOps
  BY DEF FirstRegOps, SecondRegOps, Opcode, AluOps, ImmOps, RegOps, BitOps, DivOps,
     ShiftOps,
       CmpOps, LoadOps, StoreOps, JumpOps, UnaryOps, Saving
<1> HIDE DEF r
<1>3. Lawful(op, r, 3)
  BY <1>1, <1>2
  DEF Lawful, Sequenced, Distinct, Marked, Effects, Settled, PoppedAt, Names, Helpers,
       Starts, Follows, AfterIndex, AfterSave, AfterOperand, SetsZf, IsLast, Begins
<1> QED
  BY <1>1, <1>3 DEF r

LEMMA LawfulPOP ==
    ASSUME NEW op \in {"POP"}
    PROVE  \E len \in Nat : Len(Route(op)) = len /\ Lawful(op, Route(op), len)
<1> DEFINE r == Route(op)
<1>1. /\ Len(r) = 5
      /\ r[1] = "load_reg_a_index" /\ r[2] = "save_index"
      /\ r[3] = "pop_rax" /\ r[4] = "write_a"
      /\ r[5] = "set_zf_from_rax"
  BY DEF Route, AluOps, ImmOps, RegOps, BitOps, DivOps, ShiftOps, LoadOps, StoreOps
<1>2. /\ op \in FirstRegOps /\ op \notin SecondRegOps /\ op \in Saving /\ op \notin AluOps
      /\ op \notin BitOps /\ op \notin DivOps /\ op \notin ShiftOps /\ op \notin CmpOps
      /\ op \notin LoadOps /\ op \notin StoreOps /\ op \notin JumpOps
  BY DEF FirstRegOps, SecondRegOps, Opcode, AluOps, ImmOps, RegOps, BitOps, DivOps,
     ShiftOps,
       CmpOps, LoadOps, StoreOps, JumpOps, UnaryOps, Saving
<1> HIDE DEF r
<1>3. Lawful(op, r, 5)
  BY <1>1, <1>2
  DEF Lawful, Sequenced, Distinct, Marked, Effects, Settled, PoppedAt, Names, Helpers,
       Starts, Follows, AfterIndex, AfterSave, AfterOperand, SetsZf, IsLast, Begins
<1> QED
  BY <1>1, <1>3 DEF r

LEMMA LawfulCALL ==
    ASSUME NEW op \in {"CALL"}
    PROVE  \E len \in Nat : Len(Route(op)) = len /\ Lawful(op, Route(op), len)
<1> DEFINE r == Route(op)
<1>1. /\ Len(r) = 4
      /\ r[1] = "check_jump_imm" /\ r[2] = "save_target"
      /\ r[3] = "push_rax" /\ r[4] = "goto_r15"
  BY DEF Route, AluOps, ImmOps, RegOps, BitOps, DivOps, ShiftOps, LoadOps, StoreOps
<1>2. /\ op \notin FirstRegOps /\ op \notin SecondRegOps /\ op \notin Saving /\ op \notin AluOps
      /\ op \notin BitOps /\ op \notin DivOps /\ op \notin ShiftOps /\ op \notin CmpOps
      /\ op \notin LoadOps /\ op \notin StoreOps /\ op \notin JumpOps
  BY DEF FirstRegOps, SecondRegOps, Opcode, AluOps, ImmOps, RegOps, BitOps, DivOps,
     ShiftOps,
       CmpOps, LoadOps, StoreOps, JumpOps, UnaryOps, Saving
<1> HIDE DEF r
<1>3. Lawful(op, r, 4)
  BY <1>1, <1>2
  DEF Lawful, Sequenced, Distinct, Marked, Effects, Settled, PoppedAt, Names, Helpers,
       Starts, Follows, AfterIndex, AfterSave, AfterOperand, SetsZf, IsLast, Begins
<1> QED
  BY <1>1, <1>3 DEF r

LEMMA LawfulRET ==
    ASSUME NEW op \in {"RET"}
    PROVE  \E len \in Nat : Len(Route(op)) = len /\ Lawful(op, Route(op), len)
<1> DEFINE r == Route(op)
<1>1. /\ Len(r) = 3
      /\ r[1] = "pop_rax" /\ r[2] = "check_jump_rax"
      /\ r[3] = "goto_rax"
  BY DEF Route, AluOps, ImmOps, RegOps, BitOps, DivOps, ShiftOps, LoadOps, StoreOps
<1>2. /\ op \notin FirstRegOps /\ op \notin SecondRegOps /\ op \notin Saving /\ op \notin AluOps
      /\ op \notin BitOps /\ op \notin DivOps /\ op \notin ShiftOps /\ op \notin CmpOps
      /\ op \notin LoadOps /\ op \notin StoreOps /\ op \notin JumpOps
  BY DEF FirstRegOps, SecondRegOps, Opcode, AluOps, ImmOps, RegOps, BitOps, DivOps,
     ShiftOps,
       CmpOps, LoadOps, StoreOps, JumpOps, UnaryOps, Saving
<1> HIDE DEF r
<1>3. Lawful(op, r, 3)
  BY <1>1, <1>2
  DEF Lawful, Sequenced, Distinct, Marked, Effects, Settled, PoppedAt, Names, Helpers,
       Starts, Follows, AfterIndex, AfterSave, AfterOperand, SetsZf, IsLast, Begins
<1> QED
  BY <1>1, <1>3 DEF r

LEMMA LawfulAlu ==
    ASSUME NEW op \in AluOps \ (BitOps \cup {"MOV_IMM"})
    PROVE  \E len \in Nat : Len(Route(op)) = len /\ Lawful(op, Route(op), len)
<1> DEFINE r == Route(op)
           t == <<"alu", "set_zf_from_rax">>
<1>1. r = Indexes(op) \o t
  BY DEF Route, AluOps, ImmOps, RegOps, BitOps, DivOps, ShiftOps, LoadOps, StoreOps
<1>2. /\ t \in Seq(Names) /\ Len(t) = 2
      /\ t[1] = "alu" /\ t[2] = "set_zf_from_rax"
  BY DEF Names, Helpers
<1> HIDE DEF r, t
<1>3. /\ Len(r) = IndexCount(op) + Len(t)
      /\ r[1] = "load_reg_a_index" /\ r[2] = "save_index"
      /\ op \in SecondRegOps => r[3] = "load_reg_b_index"
      /\ \A i \in 1 .. Len(t) : r[IndexCount(op) + i] = t[i]
  BY <1>1, <1>2, IndexesFirst
<1>4. CASE op \notin SecondRegOps
  <2>1. /\ Len(r) = 4
        /\ r[1] = "load_reg_a_index" /\ r[2] = "save_index"
        /\ r[3] = "alu" /\ r[4] = "set_zf_from_rax"
    BY <1>2, <1>3, <1>4 DEF IndexCount
  <2>2. /\ op \in FirstRegOps /\ op \notin SecondRegOps /\ op \in Saving /\ op \in AluOps
        /\ op \notin BitOps /\ op \notin DivOps /\ op \notin ShiftOps /\ op \notin CmpOps
        /\ op \notin LoadOps /\ op \notin StoreOps /\ op \notin JumpOps /\ op # "POP"
    BY <1>4 DEF FirstRegOps, SecondRegOps, Opcode, AluOps, ImmOps, RegOps, BitOps, DivOps,
       ShiftOps,
         CmpOps, LoadOps, StoreOps, JumpOps, UnaryOps, Saving
  <2>3. Lawful(op, r, 4)
    BY <2>1, <2>2
    DEF Lawful, Sequenced, Distinct, Marked, Effects, Settled, PoppedAt, Names, Helpers,
         Starts, Follows, AfterIndex, AfterSave, AfterOperand, SetsZf, IsLast, Begins
  <2> QED
    BY <2>1, <2>3 DEF r
<1>5. CASE op \in SecondRegOps
  <2>1. /\ Len(r) = 5
        /\ r[1] = "load_reg_a_index" /\ r[2] = "save_index"
        /\ r[3] = "load_reg_b_index" /\ r[4] = "alu"
        /\ r[5] = "set_zf_from_rax"
    BY <1>2, <1>3, <1>5 DEF IndexCount
  <2>2. /\ op \in FirstRegOps /\ op \in SecondRegOps /\ op \in Saving /\ op \in AluOps
        /\ op \notin BitOps /\ op \notin DivOps /\ op \notin ShiftOps /\ op \notin CmpOps
        /\ op \notin LoadOps /\ op \notin StoreOps /\ op \notin JumpOps /\ op # "POP"
    BY <1>5 DEF FirstRegOps, SecondRegOps, Opcode, AluOps, ImmOps, RegOps, BitOps, DivOps,
       ShiftOps,
         CmpOps, LoadOps, StoreOps, JumpOps, UnaryOps, Saving
  <2>3. Lawful(op, r, 5)
    BY <2>1, <2>2
    DEF Lawful, Sequenced, Distinct, Marked, Effects, Settled, PoppedAt, Names, Helpers,
         Starts, Follows, AfterIndex, AfterSave, AfterOperand, SetsZf, IsLast, Begins
  <2> QED
    BY <2>1, <2>3 DEF r
<1> QED
  BY <1>4, <1>5

LEMMA LawfulBits ==
    ASSUME NEW op \in BitOps \cup {"NOT"}
    PROVE  \E len \in Nat : Len(Route(op)) = len /\ Lawful(op, Route(op), len)
<1> DEFINE r == Route(op)
           t == <<"bitwise", "set_zf_from_rax">>
<1>1. r = Indexes(op) \o t
  BY DEF Route, AluOps, ImmOps, RegOps, BitOps, DivOps, ShiftOps, LoadOps, StoreOps
<1>2. /\ t \in Seq(Names) /\ Len(t) = 2
      /\ t[1] = "bitwise" /\ t[2] = "set_zf_from_rax"
  BY DEF Names, Helpers
<1> HIDE DEF r, t
<1>3. /\ Len(r) = IndexCount(op) + Len(t)
      /\ r[1] = "load_reg_a_index" /\ r[2] = "save_index"
      /\ op \in SecondRegOps => r[3] = "load_reg_b_index"
      /\ \A i \in 1 .. Len(t) : r[IndexCount(op) + i] = t[i]
  BY <1>1, <1>2, IndexesFirst
<1>4. CASE op \notin SecondRegOps
  <2>1. /\ Len(r) = 4
        /\ r[1] = "load_reg_a_index" /\ r[2] = "save_index"
        /\ r[3] = "bitwise" /\ r[4] = "set_zf_from_rax"
    BY <1>2, <1>3, <1>4 DEF IndexCount
  <2>2. /\ op \in FirstRegOps /\ op \notin SecondRegOps /\ op \in Saving /\ op \notin DivOps
        /\ op \notin ShiftOps /\ op \notin CmpOps /\ op \notin LoadOps /\ op \notin StoreOps
        /\ op \notin JumpOps /\ op # "POP"
    BY <1>4 DEF FirstRegOps, SecondRegOps, Opcode, AluOps, ImmOps, RegOps, BitOps, DivOps,
       ShiftOps,
         CmpOps, LoadOps, StoreOps, JumpOps, UnaryOps, Saving
  <2>3. Lawful(op, r, 4)
    BY <2>1, <2>2
    DEF Lawful, Sequenced, Distinct, Marked, Effects, Settled, PoppedAt, Names, Helpers,
         Starts, Follows, AfterIndex, AfterSave, AfterOperand, SetsZf, IsLast, Begins
  <2> QED
    BY <2>1, <2>3 DEF r
<1>5. CASE op \in SecondRegOps
  <2>1. /\ Len(r) = 5
        /\ r[1] = "load_reg_a_index" /\ r[2] = "save_index"
        /\ r[3] = "load_reg_b_index" /\ r[4] = "bitwise"
        /\ r[5] = "set_zf_from_rax"
    BY <1>2, <1>3, <1>5 DEF IndexCount
  <2>2. /\ op \in FirstRegOps /\ op \in SecondRegOps /\ op \in Saving /\ op \in AluOps
        /\ op \in BitOps /\ op \notin DivOps /\ op \notin ShiftOps /\ op \notin CmpOps
        /\ op \notin LoadOps /\ op \notin StoreOps /\ op \notin JumpOps /\ op # "POP"
    BY <1>5 DEF FirstRegOps, SecondRegOps, Opcode, AluOps, ImmOps, RegOps, BitOps, DivOps,
       ShiftOps,
         CmpOps, LoadOps, StoreOps, JumpOps, UnaryOps, Saving
  <2>3. Lawful(op, r, 5)
    BY <2>1, <2>2
    DEF Lawful, Sequenced, Distinct, Marked, Effects, Settled, PoppedAt, Names, Helpers,
         Starts, Follows, AfterIndex, AfterSave, AfterOperand, SetsZf, IsLast, Begins
  <2> QED
    BY <2>1, <2>3 DEF r
<1> QED
  BY <1>4, <1>5

LEMMA LawfulDiv ==
    ASSUME NEW op \in DivOps
    PROVE  \E len \in Nat : Len(Route(op)) = len /\ Lawful(op, Route(op), len)
<1> DEFINE r == Route(op)
           t == <<"operand", "divide", "set_zf_from_rax">>
<1>1. r = Indexes(op) \o t
  BY DEF Route, AluOps, ImmOps, RegOps, BitOps, DivOps, ShiftOps, LoadOps, StoreOps
<1>2. /\ t \in Seq(Names) /\ Len(t) = 3
      /\ t[1] = "operand" /\ t[2] = "divide"
      /\ t[3] = "set_zf_from_rax"
  BY DEF Names, Helpers
<1> HIDE DEF r, t
<1>3. /\ Len(r) = IndexCount(op) + Len(t)
      /\ r[1] = "load_reg_a_index" /\ r[2] = "save_index"
      /\ op \in SecondRegOps => r[3] = "load_reg_b_index"
      /\ \A i \in 1 .. Len(t) : r[IndexCount(op) + i] = t[i]
  BY <1>1, <1>2, IndexesFirst
<1>4. CASE op \notin SecondRegOps
  <2>1. /\ Len(r) = 5
        /\ r[1] = "load_reg_a_index" /\ r[2] = "save_index"
        /\ r[3] = "operand" /\ r[4] = "divide"
        /\ r[5] = "set_zf_from_rax"
    BY <1>2, <1>3, <1>4 DEF IndexCount
  <2>2. /\ op \in FirstRegOps /\ op \notin SecondRegOps /\ op \in Saving /\ op \notin AluOps
        /\ op \notin BitOps /\ op \in DivOps /\ op \notin ShiftOps /\ op \notin CmpOps
        /\ op \notin LoadOps /\ op \notin StoreOps /\ op \notin JumpOps /\ op # "POP"
    BY <1>4 DEF FirstRegOps, SecondRegOps, Opcode, AluOps, ImmOps, RegOps, BitOps, DivOps,
       ShiftOps,
         CmpOps, LoadOps, StoreOps, JumpOps, UnaryOps, Saving
  <2>3. Lawful(op, r, 5)
    BY <2>1, <2>2
    DEF Lawful, Sequenced, Distinct, Marked, Effects, Settled, PoppedAt, Names, Helpers,
         Starts, Follows, AfterIndex, AfterSave, AfterOperand, SetsZf, IsLast, Begins
  <2> QED
    BY <2>1, <2>3 DEF r
<1>5. CASE op \in SecondRegOps
  <2>1. /\ Len(r) = 6
        /\ r[1] = "load_reg_a_index" /\ r[2] = "save_index"
        /\ r[3] = "load_reg_b_index" /\ r[4] = "operand"
        /\ r[5] = "divide" /\ r[6] = "set_zf_from_rax"
    BY <1>2, <1>3, <1>5 DEF IndexCount
  <2>2. /\ op \in FirstRegOps /\ op \in SecondRegOps /\ op \in Saving /\ op \notin AluOps
        /\ op \notin BitOps /\ op \in DivOps /\ op \notin ShiftOps /\ op \notin CmpOps
        /\ op \notin LoadOps /\ op \notin StoreOps /\ op \notin JumpOps /\ op # "POP"
    BY <1>5 DEF FirstRegOps, SecondRegOps, Opcode, AluOps, ImmOps, RegOps, BitOps, DivOps,
       ShiftOps,
         CmpOps, LoadOps, StoreOps, JumpOps, UnaryOps, Saving
  <2>3. Lawful(op, r, 6)
    BY <2>1, <2>2
    DEF Lawful, Sequenced, Distinct, Marked, Effects, Settled, PoppedAt, Names, Helpers,
         Starts, Follows, AfterIndex, AfterSave, AfterOperand, SetsZf, IsLast, Begins
  <2> QED
    BY <2>1, <2>3 DEF r
<1> QED
  BY <1>4, <1>5

LEMMA LawfulShift ==
    ASSUME NEW op \in ShiftOps
    PROVE  \E len \in Nat : Len(Route(op)) = len /\ Lawful(op, Route(op), len)
<1> DEFINE r == Route(op)
           t == <<"operand", "check_shift_rbx", "shift", "set_zf_from_rax">>
<1>1. r = Indexes(op) \o t
  BY DEF Route, AluOps, ImmOps, RegOps, BitOps, DivOps, ShiftOps, LoadOps, StoreOps
<1>2. /\ t \in Seq(Names) /\ Len(t) = 4
      /\ t[1] = "operand" /\ t[2] = "check_shift_rbx"
      /\ t[3] = "shift" /\ t[4] = "set_zf_from_rax"
  BY DEF Names, Helpers
<1> HIDE DEF r, t
<1>3. /\ Len(r) = IndexCount(op) + Len(t)
      /\ r[1] = "load_reg_a_index" /\ r[2] = "save_index"
      /\ op \in SecondRegOps => r[3] = "load_reg_b_index"
      /\ \A i \in 1 .. Len(t) : r[IndexCount(op) + i] = t[i]
  BY <1>1, <1>2, IndexesFirst
<1>4. CASE op \notin SecondRegOps
  <2>1. /\ Len(r) = 6
        /\ r[1] = "load_reg_a_index" /\ r[2] = "save_index"
        /\ r[3] = "operand" /\ r[4] = "check_shift_rbx"
        /\ r[5] = "shift" /\ r[6] = "set_zf_from_rax"
    BY <1>2, <1>3, <1>4 DEF IndexCount
  <2>2. /\ op \in FirstRegOps /\ op \notin SecondRegOps /\ op \in Saving /\ op \notin AluOps
        /\ op \notin BitOps /\ op \notin DivOps /\ op \in ShiftOps /\ op \notin CmpOps
        /\ op \notin LoadOps /\ op \notin StoreOps /\ op \notin JumpOps /\ op # "POP"
    BY <1>4 DEF FirstRegOps, SecondRegOps, Opcode, AluOps, ImmOps, RegOps, BitOps, DivOps,
       ShiftOps,
         CmpOps, LoadOps, StoreOps, JumpOps, UnaryOps, Saving
  <2>3. Lawful(op, r, 6)
    BY <2>1, <2>2
    DEF Lawful, Sequenced, Distinct, Marked, Effects, Settled, PoppedAt, Names, Helpers,
         Starts, Follows, AfterIndex, AfterSave, AfterOperand, SetsZf, IsLast, Begins
  <2> QED
    BY <2>1, <2>3 DEF r
<1>5. CASE op \in SecondRegOps
  <2>1. /\ Len(r) = 7
        /\ r[1] = "load_reg_a_index" /\ r[2] = "save_index"
        /\ r[3] = "load_reg_b_index" /\ r[4] = "operand"
        /\ r[5] = "check_shift_rbx" /\ r[6] = "shift"
        /\ r[7] = "set_zf_from_rax"
    BY <1>2, <1>3, <1>5 DEF IndexCount
  <2>2. /\ op \in FirstRegOps /\ op \in SecondRegOps /\ op \in Saving /\ op \notin AluOps
        /\ op \notin BitOps /\ op \notin DivOps /\ op \in ShiftOps /\ op \notin CmpOps
        /\ op \notin LoadOps /\ op \notin StoreOps /\ op \notin JumpOps /\ op # "POP"
    BY <1>5 DEF FirstRegOps, SecondRegOps, Opcode, AluOps, ImmOps, RegOps, BitOps, DivOps,
       ShiftOps,
         CmpOps, LoadOps, StoreOps, JumpOps, UnaryOps, Saving
  <2>3. Lawful(op, r, 7)
    BY <2>1, <2>2
    DEF Lawful, Sequenced, Distinct, Marked, Effects, Settled, PoppedAt, Names, Helpers,
         Starts, Follows, AfterIndex, AfterSave, AfterOperand, SetsZf, IsLast, Begins
  <2> QED
    BY <2>1, <2>3 DEF r
<1> QED
  BY <1>4, <1>5

LEMMA LawfulLoad ==
    ASSUME NEW op \in LoadOps
    PROVE  \E len \in Nat : Len(Route(op)) = len /\ Lawful(op, Route(op), len)
<1> DEFINE r == Route(op)
           t == <<"operand", "check_mem_addr_rbx", "load", "set_zf_from_rax">>
<1>1. r = Indexes(op) \o t
  BY DEF Route, AluOps, ImmOps, RegOps, BitOps, DivOps, ShiftOps, LoadOps, StoreOps
<1>2. /\ t \in Seq(Names) /\ Len(t) = 4
      /\ t[1] = "operand" /\ t[2] = "check_mem_addr_rbx"
      /\ t[3] = "load" /\ t[4] = "set_zf_from_rax"
  BY DEF Names, Helpers
<1> HIDE DEF r, t
<1>3. /\ Len(r) = IndexCount(op) + Len(t)
      /\ r[1] = "load_reg_a_index" /\ r[2] = "save_index"
      /\ op \in SecondRegOps => r[3] = "load_reg_b_index"
      /\ \A i \in 1 .. Len(t) : r[IndexCount(op) + i] = t[i]
  BY <1>1, <1>2, IndexesFirst
<1>4. CASE op \notin SecondRegOps
  <2>1. /\ Len(r) = 6
        /\ r[1] = "load_reg_a_index" /\ r[2] = "save_index"
        /\ r[3] = "operand" /\ r[4] = "check_mem_addr_rbx"
        /\ r[5] = "load" /\ r[6] = "set_zf_from_rax"
    BY <1>2, <1>3, <1>4 DEF IndexCount
  <2>2. /\ op \in FirstRegOps /\ op \notin SecondRegOps /\ op \in Saving /\ op \notin AluOps
        /\ op \notin BitOps /\ op \notin DivOps /\ op \notin ShiftOps /\ op \notin CmpOps
        /\ op \in LoadOps /\ op \notin StoreOps /\ op \notin JumpOps /\ op # "POP"
    BY <1>4 DEF FirstRegOps, SecondRegOps, Opcode, AluOps, ImmOps, RegOps, BitOps, DivOps,
       ShiftOps,
         CmpOps, LoadOps, StoreOps, JumpOps, UnaryOps, Saving
  <2>3. Lawful(op, r, 6)
    BY <2>1, <2>2
    DEF Lawful, Sequenced, Distinct, Marked, Effects, Settled, PoppedAt, Names, Helpers,
         Starts, Follows, AfterIndex, AfterSave, AfterOperand, SetsZf, IsLast, Begins
  <2> QED
    BY <2>1, <2>3 DEF r
<1>5. CASE op \in SecondRegOps
  <2>1. /\ Len(r) = 7
        /\ r[1] = "load_reg_a_index" /\ r[2] = "save_index"
        /\ r[3] = "load_reg_b_index" /\ r[4] = "operand"
        /\ r[5] = "check_mem_addr_rbx" /\ r[6] = "load"
        /\ r[7] = "set_zf_from_rax"
    BY <1>2, <1>3, <1>5 DEF IndexCount
  <2>2. /\ op \in FirstRegOps /\ op \in SecondRegOps /\ op \in Saving /\ op \notin AluOps
        /\ op \notin BitOps /\ op \notin DivOps /\ op \notin ShiftOps /\ op \notin CmpOps
        /\ op \in LoadOps /\ op \notin StoreOps /\ op \notin JumpOps /\ op # "POP"
    BY <1>5 DEF FirstRegOps, SecondRegOps, Opcode, AluOps, ImmOps, RegOps, BitOps, DivOps,
       ShiftOps,
         CmpOps, LoadOps, StoreOps, JumpOps, UnaryOps, Saving
  <2>3. Lawful(op, r, 7)
    BY <2>1, <2>2
    DEF Lawful, Sequenced, Distinct, Marked, Effects, Settled, PoppedAt, Names, Helpers,
         Starts, Follows, AfterIndex, AfterSave, AfterOperand, SetsZf, IsLast, Begins
  <2> QED
    BY <2>1, <2>3 DEF r
<1> QED
  BY <1>4, <1>5

LEMMA LawfulStore ==
    ASSUME NEW op \in StoreOps
    PROVE  \E len \in Nat : Len(Route(op)) = len /\ Lawful(op, Route(op), len)
<1> DEFINE r == Route(op)
           t == <<"operand", "check_mem_addr_rbx", "store">>
<1>1. r = Indexes(op) \o t
  BY DEF Route, AluOps, ImmOps, RegOps, BitOps, DivOps, ShiftOps, LoadOps, StoreOps
<1>2. /\ t \in Seq(Names) /\ Len(t) = 3
      /\ t[1] = "operand" /\ t[2] = "check_mem_addr_rbx"
      /\ t[3] = "store"
  BY DEF Names, Helpers
<1> HIDE DEF r, t
<1>3. /\ Len(r) = IndexCount(op) + Len(t)
      /\ r[1] = "load_reg_a_index" /\ r[2] = "save_index"
      /\ op \in SecondRegOps => r[3] = "load_reg_b_index"
      /\ \A i \in 1 .. Len(t) : r[IndexCount(op) + i] = t[i]
  BY <1>1, <1>2, IndexesFirst
<1>4. CASE op \notin SecondRegOps
  <2>1. /\ Len(r) = 5
        /\ r[1] = "load_reg_a_index" /\ r[2] = "save_index"
        /\ r[3] = "operand" /\ r[4] = "check_mem_addr_rbx"
        /\ r[5] = "store"
    BY <1>2, <1>3, <1>4 DEF IndexCount
  <2>2. /\ op \in FirstRegOps /\ op \notin SecondRegOps /\ op \in Saving /\ op \notin AluOps
        /\ op \notin BitOps /\ op \notin DivOps /\ op \notin ShiftOps /\ op \notin CmpOps
        /\ op \notin LoadOps /\ op \in StoreOps /\ op \notin JumpOps /\ op # "POP"
    BY <1>4 DEF FirstRegOps, SecondRegOps, Opcode, AluOps, ImmOps, RegOps, BitOps, DivOps,
       ShiftOps,
         CmpOps, LoadOps, StoreOps, JumpOps, UnaryOps, Saving
  <2>3. Lawful(op, r, 5)
    BY <2>1, <2>2
    DEF Lawful, Sequenced, Distinct, Marked, Effects, Settled, PoppedAt, Names, Helpers,
         Starts, Follows, AfterIndex, AfterSave, AfterOperand, SetsZf, IsLast, Begins
  <2> QED
    BY <2>1, <2>3 DEF r
<1>5. CASE op \in SecondRegOps
  <2>1. /\ Len(r) = 6
        /\ r[1] = "load_reg_a_index" /\ r[2] = "save_index"
        /\ r[3] = "load_reg_b_index" /\ r[4] = "operand"
        /\ r[5] = "check_mem_addr_rbx" /\ r[6] = "store"
    BY <1>2, <1>3, <1>5 DEF IndexCount
  <2>2. /\ op \in FirstRegOps /\ op \in SecondRegOps /\ op \in Saving /\ op \notin AluOps
        /\ op \notin BitOps /\ op \notin DivOps /\ op \notin ShiftOps /\ op \notin CmpOps
        /\ op \notin LoadOps /\ op \in StoreOps /\ op \notin JumpOps /\ op # "POP"
    BY <1>5 DEF FirstRegOps, SecondRegOps, Opcode, AluOps, ImmOps, RegOps, BitOps, DivOps,
       ShiftOps,
         CmpOps, LoadOps, StoreOps, JumpOps, UnaryOps, Saving
  <2>3. Lawful(op, r, 6)
    BY <2>1, <2>2
    DEF Lawful, Sequenced, Distinct, Marked, Effects, Settled, PoppedAt, Names, Helpers,
         Starts, Follows, AfterIndex, AfterSave, AfterOperand, SetsZf, IsLast, Begins
  <2> QED
    BY <2>1, <2>3 DEF r
<1> QED
  BY <1>4, <1>5

LEMMA LawfulCmpReg ==
    ASSUME NEW op \in {"CMP_REG"}
    PROVE  \E len \in Nat : Len(Route(op)) = len /\ Lawful(op, Route(op), len)
<1> DEFINE r == Route(op)
           t == <<"compare">>
<1>1. r = Indexes(op) \o t
  BY DEF Route, AluOps, ImmOps, RegOps, BitOps, DivOps, ShiftOps, LoadOps, StoreOps
<1>2. /\ t \in Seq(Names) /\ Len(t) = 1
      /\ t[1] = "compare"
  BY DEF Names, Helpers
<1> HIDE DEF r, t
<1>3. /\ Len(r) = IndexCount(op) + Len(t)
      /\ r[1] = "load_reg_a_index" /\ r[2] = "save_index"
      /\ op \in SecondRegOps => r[3] = "load_reg_b_index"
      /\ \A i \in 1 .. Len(t) : r[IndexCount(op) + i] = t[i]
  BY <1>1, <1>2, IndexesFirst
<1>4. CASE op \notin SecondRegOps
  BY <1>4 DEF SecondRegOps
<1>5. CASE op \in SecondRegOps
  <2>1. /\ Len(r) = 4
        /\ r[1] = "load_reg_a_index" /\ r[2] = "save_index"
        /\ r[3] = "load_reg_b_index" /\ r[4] = "compare"
    BY <1>2, <1>3, <1>5 DEF IndexCount
  <2>2. /\ op \in FirstRegOps /\ op \in SecondRegOps /\ op \in Saving /\ op \notin AluOps
        /\ op \notin BitOps /\ op \notin DivOps /\ op \notin ShiftOps /\ op \in CmpOps
        /\ op \notin LoadOps /\ op \notin StoreOps /\ op \notin JumpOps /\ op # "POP"
    BY <1>5 DEF FirstRegOps, SecondRegOps, Opcode, AluOps, ImmOps, RegOps, BitOps, DivOps,
       ShiftOps,
         CmpOps, LoadOps, StoreOps, JumpOps, UnaryOps, Saving
  <2>3. Lawful(op, r, 4)
    BY <2>1, <2>2
    DEF Lawful, Sequenced, Distinct, Marked, Effects, Settled, PoppedAt, Names, Helpers,
         Starts, Follows, AfterIndex, AfterSave, AfterOperand, SetsZf, IsLast, Begins
  <2> QED
    BY <2>1, <2>3 DEF r
<1> QED
  BY <1>4, <1>5

LEMMA RoutesLawful ==
    ASSUME NEW op \in Opcode
    PROVE  Len(Route(op)) \in Nat /\ Lawful(op, Route(op), Len(Route(op)))
<1>1. \E len \in Nat : Len(Route(op)) = len /\ Lawful(op, Route(op), len)
  <2>1. \/ op \in {"MOV_IMM", "CMP_IMM", "JMP", "JZ", "JNZ", "JE", "JNE", "PRINT", "HALT", "NOP",
                  "PUSH", "POP", "CALL", "RET", "CMP_REG"}
        \/ op \in AluOps \ (BitOps \cup {"MOV_IMM"}) \/ op \in BitOps \cup {"NOT"}
        \/ op \in DivOps \/ op \in ShiftOps \/ op \in LoadOps \/ op \in StoreOps
    BY DEF FirstRegOps, SecondRegOps, Opcode, AluOps, ImmOps, RegOps, BitOps, DivOps,
       ShiftOps,
         CmpOps, LoadOps, StoreOps, JumpOps, UnaryOps, Saving
  <2> QED
    BY <2>1, LawfulMOV_IMM, LawfulCMP_IMM, LawfulJMP, LawfulJZ, LawfulJE, LawfulPRINT,
       LawfulHALT, LawfulNOP, LawfulPUSH, LawfulPOP, LawfulCALL, LawfulRET, LawfulAlu,
           LawfulBits, LawfulDiv, LawfulShift, LawfulLoad, LawfulStore, LawfulCmpReg
<1> QED
  BY <1>1

----------------------------------------------------------------------------
(* The flow invariant: what the registers of the core carry to each block  *)
(* of each instruction.                                                    *)

(* The data of the machine. *)
DataInv ==
    /\ code \in Programs
    /\ regs \in [Register -> Value] /\ zf \in BOOLEAN
    /\ memory \in [Address -> Byte]
    /\ sp \in Nat /\ sp <= MemorySize /\ sp % ValueSize = 0
    /\ ip \in 0 .. Len(code)

(* An instruction is being executed from when it is dispatched until its   *)
(* route goes back to the loop; Name is what of it, a block or a helper.   *)
Running == OnRoute \/ pc[1] \in Helpers
Name == IF pc[1] \in Helpers THEN pc[1] ELSE Here

(* r13 is the fetched instruction and ip the next one. *)
Fetching == r13 \in 0 .. (Len(code) - 1) /\ ip = r13 + 1

(* A helper returns to the position behind the one it was called from. *)
AtPosition(k) ==
    /\ Name = Route(Ins.op)[k]
    /\ IF pc[1] \in Helpers
       THEN pc = Label(Name) /\ native = Append(Frame, After(Ins.op, k))
       ELSE pc = <<Ins.op, k>>

(* What the registers carry when name n of op's route is to run: the       *)
(* indexes of checked registers, the operand, its checks, a jump's target, *)
(* a value to push or a popped one.                                        *)
Checked(op, n) ==
    /\ op \in FirstRegOps /\ n # "load_reg_a_index" => ValidReg(Ins.a)
    /\ op \in SecondRegOps /\ n \notin {"load_reg_a_index", "save_index", "load_reg_b_index"}
          => ValidReg(Ins.b)
    /\ n = "shift" => ~BadShift(rbx)
    /\ n \in {"load", "store"} => ~BadAddress(rbx)
    /\ op \in JumpOps /\ n \in {"check_jump_imm", "goto_rax"} => Taken

Indexed(op, n) ==
    /\ \/ n = "save_index"
       \/ op \in FirstRegOps /\ n \in {"test", "fetch_a", "print"}
       \/ op \in {"MOV_IMM", "CMP_IMM"} /\ n \in {"alu", "compare"}
       => rax = Ins.a
    /\ op \in SecondRegOps /\ n \in {"alu", "bitwise", "operand", "compare"} => rax = Ins.b
    /\ op \in Saving /\ n \notin {"load_reg_a_index", "save_index"} \cup Settled
          => r14 = Ins.a
    /\ n \in {"divide", "check_shift_rbx", "shift", "check_mem_addr_rbx", "load", "store"}
          => rbx = Operand

Targeted(op, n) ==
    /\ n \in {"goto_rax", "save_target"} =>
          ~BadTarget(code, rax) /\ (op # "RET" => rax = Ins.imm)
    /\ op = "CALL" /\ n \in {"push_rax", "goto_r15"} =>
          ~BadTarget(code, r15) /\ r15 = Ins.imm
    /\ n = "push_rax" => rax = IF op = "PUSH" THEN regs[Ins.a] ELSE ip
    /\ PoppedAt(op, n) /\ n # "set_zf_from_rax" =>
          sp >= ValueSize /\ rax = PoppedValue

Carried(op, n) == Checked(op, n) /\ Indexed(op, n) /\ Targeted(op, n)

(* Why an error label was reached. *)
Cause(label) ==
    CASE label = "err_bad_opcode" -> Ins.op = "INVALID"
      [] label = "err_bad_register" -> Ins.op \in Opcode /\ BadRegister(Ins)
      [] label = "err_div_zero" -> Ins.op \in DivOps /\ Operand = 0
      [] label = "err_bad_shift" -> Ins.op \in ShiftOps /\ BadShift(Operand)
      [] label = "err_memory_oob" ->
            Ins.op \in LoadOps \cup StoreOps /\ BadAddress(Operand)
      [] label = "err_stack_overflow" ->
            /\ Ins.op \in {"PUSH", "CALL"} /\ sp < ValueSize
            /\ Ins.op = "CALL" => ~BadTarget(code, Ins.imm)
      [] label = "err_stack_underflow" ->
            Ins.op \in {"POP", "RET"} /\ sp > MemorySize - ValueSize
      [] label = "err_bad_jump" ->
            \/ Ins.op \in JumpOps \cup {"CALL"} /\ Taken /\ BadTarget(code, Ins.imm)
            \/ Ins.op = "RET" /\ sp >= ValueSize /\ BadTarget(code, PoppedValue)
      [] label = "trap" ->
            Ins.op \in DivOps /\ Operand # 0 /\ DivOverflows(regs[Ins.a], Operand)

Failing == (DOMAIN ErrorOf \ {"err_ip"}) \cup {"trap"}

(* The error names its cause, and goes on naming it. *)
ErrorTells ==
    /\ error # "OK" => Explains(error)
    /\ error \notin {"OK", "IP_OUT_OF_BOUNDS"} => Fetching

FlowInv ==
    /\ Running => /\ Fetching /\ Ins.op \in Opcode
                  /\ \E k \in 1 .. Len(Route(Ins.op)) : AtPosition(k)
                  /\ Carried(Ins.op, Name)
    /\ pc[1] \in Failing =>
          /\ Fetching /\ Cause(pc[1])
          /\ pc[1] \notin {"err_bad_opcode", "err_bad_register"} => ~BadRegister(Ins)
    /\ At("err_ip") => ip = Len(code)
    /\ ErrorTells

ReportInv ==
    report # NoReport =>
        /\ At("returned") /\ Loadable(code)
        /\ report.error = ExecuteResult
        /\ (report.exit = "CLI_OK") = (ExecuteResult = "OK")

----------------------------------------------------------------------------
(* From one name of a route to the next. *)

NextName(op, k) == IF k < Len(Route(op)) THEN Route(op)[k + 1] ELSE "loop"

MovesTo(m) ==
    \/ m = "loop" /\ pc' = Label("loop")
    \/ /\ m \in Names /\ OnRoute' /\ Name' = m /\ pc'[1] \notin Helpers
       /\ \E k \in 1 .. Len(Route(Ins.op)) : AtPosition(k)'

LEMMA NamesApart ==
    /\ Names \cap ({"loop"} \cup Opcode) = {}
    /\ Helpers \subseteq Names
    /\ Helpers \cap (Opcode \cup Failing \cup {"err_ip", "loop"}) = {}
    /\ Opcode \cap (Failing \cup {"err_ip"}) = {}
BY DEF Names, Helpers, Failing, ErrorOf, Opcode, AluOps, ImmOps, RegOps, BitOps, DivOps,
       ShiftOps, CmpOps, LoadOps, StoreOps, JumpOps, UnaryOps

LEMMA RouteStep ==
    ASSUME NEW op \in Opcode, NEW k \in 1 .. Len(Route(op))
    PROVE  /\ Len(Route(op)) \in Nat
           /\ Route(op)[k] \in Names
           /\ Follows(op, Route(op)[k], NextName(op, k))
           /\ NextName(op, k) \in Names \cup {"loop"}
BY RoutesLawful DEF Lawful, Sequenced, Distinct, NextName

LEMMA RouteStart ==
    ASSUME NEW op \in Opcode
    PROVE  /\ Len(Route(op)) \in Nat
           /\ Starts(op, NextName(op, 0))
           /\ NextName(op, 0) \in Names \cup {"loop"}
BY RoutesLawful DEF Lawful, Sequenced, Distinct, NextName

LEMMA Arrives ==
    ASSUME NEW op \in Opcode, NEW k \in 0 .. Len(Route(op)),
           pc' = After(op, k), Ins.op = op, Ins' = Ins
    PROVE  MovesTo(NextName(op, k))
<1>1. Len(Route(op)) \in Nat /\ NextName(op, k) \in Names \cup {"loop"}
  BY RouteStep, RouteStart
<1>2. CASE k >= Len(Route(op))
  <2>1. pc' = Label("loop") /\ NextName(op, k) = "loop"
    BY <1>1, <1>2 DEF After, NextName
  <2> QED
    BY <2>1 DEF MovesTo
<1>3. CASE k < Len(Route(op))
  <2>1. /\ pc' = <<op, k + 1>> /\ NextName(op, k) = Route(op)[k + 1]
        /\ k + 1 \in 1 .. Len(Route(op))
    BY <1>1, <1>3 DEF After, NextName
  <2>2. pc'[1] = op /\ pc'[2] = k + 1 /\ pc'[1] \notin Helpers
    BY <2>1, NamesApart
  <2>3. OnRoute' /\ Name' = Route(op)[k + 1] /\ AtPosition(k + 1)'
    BY <2>1, <2>2 DEF OnRoute, Name, Here, AtPosition
  <2>4. Route(op)[k + 1] \in Names
    BY <2>1, RouteStep
  <2> QED
    BY <2>1, <2>2, <2>3, <2>4 DEF MovesTo
<1> QED
  BY <1>1, <1>2, <1>3

(* A block, and a helper that returns, go on to what follows them. *)
LEMMA BlockMoves ==
    ASSUME FlowInv, NEW n, InBlock(n), Proceed, Ins' = Ins
    PROVE  \E m \in Names \cup {"loop"} : Follows(Ins.op, n, m) /\ MovesTo(m)
<1>1. Running /\ pc[1] \notin Helpers /\ Name = n
  BY NamesApart DEF InBlock, OnRoute, Running, Name
<1>2. PICK k \in 1 .. Len(Route(Ins.op)) : AtPosition(k)
  BY <1>1 DEF FlowInv
<1>3. Ins.op \in Opcode /\ n = Route(Ins.op)[k] /\ pc = <<Ins.op, k>>
  BY <1>1, <1>2 DEF FlowInv, AtPosition
<1>4. pc' = After(Ins.op, k) /\ k \in 0 .. Len(Route(Ins.op))
  BY <1>3 DEF Proceed
<1> QED
  BY <1>3, <1>4, Arrives, RouteStep

LEMMA AfterIsPlace ==
    ASSUME NEW op \in Opcode, NEW k \in 1 .. Len(Route(op)), Route(op)[k] \in Helpers
    PROVE  After(op, k) \in Slots
BY AfterReturns DEF Slots, Helpers

LEMMA HelperMoves ==
    ASSUME FlowInv, pc[1] \in Helpers, HelperReturns, Ins' = Ins
    PROVE  \E m \in Names \cup {"loop"} : Follows(Ins.op, pc[1], m) /\ MovesTo(m)
<1>1. Running /\ Name = pc[1]
  BY DEF Running, Name
<1>2. PICK k \in 1 .. Len(Route(Ins.op)) : AtPosition(k)
  BY <1>1 DEF FlowInv
<1>3. /\ Ins.op \in Opcode /\ Name = Route(Ins.op)[k]
      /\ native = Append(Frame, After(Ins.op, k))
  BY <1>1, <1>2 DEF FlowInv, AtPosition
<1>4. After(Ins.op, k) \in Slots
  BY <1>1, <1>3, AfterIsPlace
<1>5. pc' = After(Ins.op, k) /\ k \in 0 .. Len(Route(Ins.op))
  BY <1>3, <1>4, SlotOnTop DEF HelperReturns
<1> QED
  BY <1>1, <1>3, <1>5, Arrives, RouteStep

(* Where a step leaves the invariant about the flow to be shown: what the  *)
(* next name is to be given, or why the instruction fails.                 *)
LEMMA MovedFlow ==
    ASSUME NEW m \in Names \cup {"loop"}, MovesTo(m), Ins' = Ins, error' = "OK",
           Ins.op \in Opcode, m # "loop" => Fetching' /\ Carried(Ins.op, m)'
    PROVE  FlowInv'
<1>1. CASE m = "loop"
  <2>1. pc' = Label("loop")
    BY <1>1, NamesApart DEF MovesTo
  <2>2. pc'[1] = "loop" /\ ~Running' /\ ~At("err_ip")' /\ pc'[1] \notin Failing
    BY <2>1, LabelsApart DEF Label, At, Running, OnRoute, Failing, ErrorOf, Helpers
  <2> QED
    BY <2>2 DEF FlowInv, ErrorTells
<1>2. CASE m # "loop"
  <2>1. OnRoute' /\ Name' = m /\ \E k \in 1 .. Len(Route(Ins.op)) : AtPosition(k)'
    BY <1>2 DEF MovesTo
  <2>2. ~At("err_ip")' /\ pc'[1] \notin Failing
    BY <2>1, NamesApart DEF OnRoute, At, Label
  <2> QED
    BY <1>2, <2>1, <2>2 DEF FlowInv, ErrorTells
<1> QED
  BY <1>1, <1>2

LEMMA FailedFlow ==
    ASSUME NEW label \in Failing, pc' = Label(label), error' = "OK",
           Fetching', Cause(label)',
           label \notin {"err_bad_opcode", "err_bad_register"} => ~BadRegister(Ins)'
    PROVE  FlowInv'
<1>1. pc'[1] = label /\ ~Running' /\ ~At("err_ip")'
  BY NamesApart DEF Label, Running, OnRoute, At, Failing
<1> QED
  BY <1>1 DEF FlowInv, ErrorTells

----------------------------------------------------------------------------
(* Every action keeps it. First the blocks that leave the machine alone.   *)

CoreInv == IInv /\ DataInv /\ FlowInv
Flows == DataInv' /\ FlowInv'

LEMMA Typed ==
    ASSUME DataInv, Fetching
    PROVE  /\ Ins \in Instruction /\ Ins.a \in Nat /\ Ins.b \in Nat /\ Ins.imm \in Value
           /\ ValidReg(Ins.a) => Ins.a \in Register /\ regs[Ins.a] \in Value
           /\ ValidReg(Ins.b) => Ins.b \in Register /\ regs[Ins.b] \in Value
           /\ ~BadRegister(Ins) => Operand \in Value
<1>1. code \in Seq(Instruction) /\ r13 + 1 \in 1 .. Len(code)
  BY ProgramsAssumption DEF DataInv, Fetching
<1>2. Ins \in Instruction
  BY <1>1 DEF Ins
<1>3. Ins.a \in Nat /\ Ins.b \in Nat /\ Ins.imm \in Value
  BY <1>2 DEF Instruction
<1>4. \A x \in Nat : ValidReg(x) => x \in Register /\ regs[x] \in Value
  BY MachineAssumption DEF ValidReg, Register, DataInv
<1> QED
  BY <1>2, <1>3, <1>4 DEF Operand, BadRegister

LEMMA AtBlock ==
    ASSUME CoreInv, NEW n, InBlock(n)
    PROVE  /\ Fetching /\ Ins.op \in Opcode /\ Carried(Ins.op, n)
           /\ error = "OK" /\ ~halted
           /\ n \notin {"load_reg_a_index", "save_index", "load_reg_b_index"} => ~BadRegister(Ins)
<1>1. Running /\ Name = n
  BY NamesApart DEF InBlock, OnRoute, Running, Name
<1>2. error = "OK" /\ ~halted
  BY NothingRecorded, RouteQuiet DEF InBlock, CoreInv, IInv
<1> QED
  BY <1>1, <1>2 DEF CoreInv, FlowInv, Carried, Checked, BadRegister

LEMMA AtHelper ==
    ASSUME CoreInv, pc[1] \in Helpers
    PROVE  /\ Fetching /\ Ins.op \in Opcode /\ Carried(Ins.op, pc[1])
           /\ error = "OK" /\ ~halted
           /\ pc[1] \notin {"load_reg_a_index", "load_reg_b_index"} => ~BadRegister(Ins)
<1>1. Running /\ Name = pc[1]
  BY DEF Running, Name
<1>2. pc[1] \notin Ending
  BY LabelsApart DEF Ending, Returning
<1>3. error = "OK" /\ ~halted
  BY <1>2, NothingRecorded DEF CoreInv, IInv
<1>4. pc[1] # "save_index"
  BY DEF Helpers
<1> QED
  BY <1>1, <1>3, <1>4 DEF CoreInv, FlowInv, Carried, Checked, BadRegister

(* Behind its effect an instruction has nothing left to carry but, for a   *)
(* call, its target.                                                       *)
LEMMA SettledCarries ==
    ASSUME ~BadRegister(Ins), Ins' = Ins, NEW m \in {"set_zf_from_rax", "unalign"}
    PROVE  Carried(Ins.op, m)'
BY DEF Carried, Checked, Indexed, Targeted, Settled, PoppedAt, BadRegister

(* Blocks and helpers that prepare: the data stay. *)
LEMMA DataStays ==
    ASSUME DataInv, UNCHANGED <<code, vmData, ip>>
    PROVE  DataInv'
BY DEF DataInv, vmData

LEMMA SaveIndexFlows ==
    ASSUME CoreInv, SaveIndex
    PROVE  Flows
<1>1. /\ InBlock("save_index") /\ Proceed /\ Ins' = Ins /\ error' = error
      /\ r14' = rax /\ rax' = rax /\ rbx' = rbx /\ r15' = r15
      /\ UNCHANGED <<code, vmData, ip, r13>>
  BY DEF SaveIndex, vmRest, frame, Ins
<1>2. PICK m \in Names \cup {"loop"} : Follows(Ins.op, "save_index", m) /\ MovesTo(m)
  BY <1>1, BlockMoves DEF CoreInv
<1>3. Fetching /\ Ins.op \in Opcode /\ Carried(Ins.op, "save_index") /\ error = "OK"
  BY <1>1, AtBlock
<1>4. Ins.op \in Saving /\ AfterSave(Ins.op, m)
  BY <1>2 DEF Follows, SetsZf, IsLast
<1>5. Carried(Ins.op, m)'
  BY <1>1, <1>3, <1>4
  DEF Carried, Checked, Indexed, Targeted, AfterSave, Begins, PoppedAt, Saving,
      SecondRegOps, RegOps, JumpOps
<1> QED
  BY <1>1, <1>2, <1>3, <1>5, MovedFlow, DataStays DEF CoreInv, Fetching, Flows

LEMMA OperandToRbxFlows ==
    ASSUME CoreInv, OperandToRbx
    PROVE  Flows
<1>1. /\ InBlock("operand") /\ Proceed /\ Ins' = Ins /\ error' = error
      /\ rbx' = Second /\ UNCHANGED <<rax, r14, r15>>
      /\ UNCHANGED <<code, vmData, ip, r13>>
  BY DEF OperandToRbx, vmRest, frame, Ins
<1>2. PICK m \in Names \cup {"loop"} : Follows(Ins.op, "operand", m) /\ MovesTo(m)
  BY <1>1, BlockMoves DEF CoreInv
<1>3. /\ Fetching /\ Ins.op \in Opcode /\ error = "OK"
      /\ Checked(Ins.op, "operand") /\ Indexed(Ins.op, "operand")
  BY <1>1, AtBlock DEF Carried
<1>4. m \in {"divide", "check_shift_rbx", "check_mem_addr_rbx"}
  BY <1>2 DEF Follows, SetsZf, IsLast, AfterOperand
<1>5. rbx' = Operand /\ Operand' = Operand
  BY <1>1, <1>3 DEF Indexed, Second, Operand, vmData
<1>6. Checked(Ins.op, m)'
  BY <1>1, <1>3, <1>4 DEF Checked
<1>7. Indexed(Ins.op, m)'
  BY <1>1, <1>3, <1>4, <1>5 DEF Indexed, Settled
<1>8. Targeted(Ins.op, m)'
  BY <1>4 DEF Targeted, PoppedAt
<1>9. Carried(Ins.op, m)'
  BY <1>6, <1>7, <1>8 DEF Carried
<1> QED
  BY <1>1, <1>2, <1>3, <1>9, MovedFlow, DataStays DEF CoreInv, Fetching, Flows

LEMMA FetchRegFlows ==
    ASSUME CoreInv, FetchReg
    PROVE  Flows
<1>1. /\ InBlock("fetch_a") /\ Proceed /\ Ins' = Ins /\ error' = error
      /\ rax' = regs[rax] /\ UNCHANGED <<rbx, r14, r15>>
      /\ UNCHANGED <<code, vmData, ip, r13>>
  BY DEF FetchReg, vmRest, frame, Ins
<1>2. PICK m \in Names \cup {"loop"} : Follows(Ins.op, "fetch_a", m) /\ MovesTo(m)
  BY <1>1, BlockMoves DEF CoreInv
<1>3. Fetching /\ Ins.op \in Opcode /\ Carried(Ins.op, "fetch_a") /\ error = "OK"
  BY <1>1, AtBlock
<1>4. Ins.op = "PUSH" /\ m = "push_rax"
  BY <1>2 DEF Follows, SetsZf, IsLast, AfterOperand
<1>5. Carried(Ins.op, m)'
  BY <1>1, <1>3, <1>4
  DEF Carried, Checked, Indexed, Targeted, PoppedAt, Saving,
      SecondRegOps, RegOps, JumpOps, vmData, FirstRegOps, Opcode, UnaryOps
<1> QED
  BY <1>1, <1>2, <1>3, <1>5, MovedFlow, DataStays DEF CoreInv, Fetching, Flows

LEMMA SaveTargetFlows ==
    ASSUME CoreInv, SaveTarget
    PROVE  Flows
<1>1. /\ InBlock("save_target") /\ Proceed /\ Ins' = Ins /\ error' = error
      /\ r15' = rax /\ rax' = ip /\ UNCHANGED <<rbx, r14>>
      /\ UNCHANGED <<code, vmData, ip, r13>>
  BY DEF SaveTarget, vmRest, frame, Ins
<1>2. PICK m \in Names \cup {"loop"} : Follows(Ins.op, "save_target", m) /\ MovesTo(m)
  BY <1>1, BlockMoves DEF CoreInv
<1>3. Fetching /\ Ins.op \in Opcode /\ Carried(Ins.op, "save_target") /\ error = "OK"
  BY <1>1, AtBlock
<1>4. Ins.op = "CALL" /\ m = "push_rax"
  BY <1>2 DEF Follows, SetsZf, IsLast, AfterOperand
<1>5. Carried(Ins.op, m)'
  BY <1>1, <1>3, <1>4
  DEF Carried, Checked, Indexed, Targeted, PoppedAt, Saving,
      SecondRegOps, RegOps, JumpOps, vmData, FirstRegOps
<1> QED
  BY <1>1, <1>2, <1>3, <1>5, MovedFlow, DataStays DEF CoreInv, Fetching, Flows

----------------------------------------------------------------------------
(* The helpers: their checks, and where they return or fail to.            *)

LEMMA HelperLabel ==
    ASSUME NativeInv, pc[1] \in Helpers
    PROVE  pc = Label(pc[1])
BY LabelsApart DEF NativeInv, Plain, Helped, ReturnPoint, Aligned, At, Label, Opcode,
   UnaryOps

LEMMA HelperFollows ==
    ASSUME FlowInv, pc[1] \in Helpers
    PROVE  \E m : Follows(Ins.op, pc[1], m)
BY RouteStep DEF FlowInv, Running, AtPosition, Name

LEMMA BlockFollows ==
    ASSUME FlowInv, NEW n, InBlock(n)
    PROVE  \E m : Follows(Ins.op, n, m)
BY RouteStep, NamesApart DEF FlowInv, Running, AtPosition, Name, InBlock, OnRoute

LEMMA CalledFromFrame ==
    ASSUME NativeInv, OnRoute, Here \in Helpers
    PROVE  native = Frame
BY OnRoutePlain, RoutePrint DEF Helpers, Aligned, Here

LEMMA CallFlows ==
    ASSUME CoreInv, CallHelper
    PROVE  Flows
<1>1. PICK n \in Helpers : Here = n
  BY DEF CallHelper
<1>2. /\ OnRoute /\ pc' = Label(n) /\ native' = Append(native, After(pc[1], pc[2]))
      /\ Ins' = Ins /\ error' = error
      /\ UNCHANGED <<code, vmData, ip, r13, rax, rbx, r14, r15>>
  BY <1>1 DEF CallHelper, Pushed, vmRest, frame, scratch, Ins
<1>3. /\ Fetching /\ Ins.op \in Opcode /\ Carried(Ins.op, n) /\ error = "OK"
      /\ native = Frame /\ pc[1] \notin Helpers /\ Name = n /\ Running
  BY <1>1, <1>2, AtBlock, CalledFromFrame, NamesApart
  DEF CoreInv, IInv, InBlock, OnRoute, Name, Running
<1>4. PICK k \in 1 .. Len(Route(Ins.op)) : AtPosition(k)
  BY <1>3 DEF CoreInv, FlowInv
<1>5. /\ pc'[1] = n /\ Name' = n
      /\ n = Route(Ins.op)[k] /\ native' = Append(Frame, After(Ins.op, k))
  BY <1>2, <1>3, <1>4 DEF AtPosition, Label, Name
<1>6. AtPosition(k)'
  BY <1>2, <1>5 DEF AtPosition
<1>7. Carried(Ins.op, n)'
  BY <1>2, <1>3 DEF Carried, Checked, Indexed, Targeted, Operand, Taken, PoppedValue, vmData
<1>8. Fetching'
  BY <1>2, <1>3 DEF Fetching
<1>9. ~At("err_ip")' /\ pc'[1] \notin Failing /\ ErrorTells'
  BY <1>2, <1>3, <1>5, NamesApart DEF At, Label, ErrorTells
<1>10. FlowInv'
  BY <1>2, <1>3, <1>5, <1>6, <1>7, <1>8, <1>9 DEF FlowInv
<1> QED
  BY <1>2, <1>10, DataStays DEF CoreInv, Flows

(* A helper: it fails with its cause, or what follows gets what it needs. *)
LEMMA LoadRegIndexFlows ==
    ASSUME CoreInv, LoadRegIndex
    PROVE  Flows
<1> DEFINE n == pc[1]
           bad == ~ValidReg(rax')
<1>1. /\ n \in {"load_reg_a_index", "load_reg_b_index"} /\ n \in Helpers
      /\ rax' = (IF n = "load_reg_a_index" THEN Ins.a ELSE Ins.b)
      /\ Ins' = Ins /\ error' = error
      /\ UNCHANGED <<code, vmData, ip, r13, rbx, r14, r15>>
  <2>1. n \in {"load_reg_a_index", "load_reg_b_index"} /\ n \in Helpers
    BY DEF LoadRegIndex, Helpers
  <2>2. At("load_reg_a_index") <=> n = "load_reg_a_index"
    BY <2>1, HelperLabel DEF CoreInv, IInv, At, Label
  <2> QED
    BY <2>1, <2>2 DEF LoadRegIndex, vmRest, frame, Ins
<1>2. Fetching /\ Ins.op \in Opcode /\ Carried(Ins.op, n) /\ error = "OK"
  BY <1>1, AtHelper
<1>3. /\ n = "load_reg_a_index" => Ins.op \in FirstRegOps
      /\ n = "load_reg_b_index" => Ins.op \in SecondRegOps
  BY <1>1, HelperFollows
  DEF CoreInv, Follows, SetsZf, IsLast, AfterIndex, Saving, FirstRegOps, Opcode, AluOps,
      ImmOps, CmpOps, JumpOps, UnaryOps
<1>4. CASE bad
  <2>1. pc' = Label("err_bad_register")
    BY <1>4 DEF LoadRegIndex, ReturnUnless
  <2>2. BadRegister(Ins)
    BY <1>1, <1>3, <1>4 DEF BadRegister
  <2>3. Fetching' /\ Cause("err_bad_register")'
    BY <1>1, <1>2, <2>2 DEF Fetching, Cause
  <2>4. "err_bad_register" \in Failing
    BY DEF Failing, ErrorOf
  <2>5. FlowInv'
    BY <1>1, <1>2, <2>1, <2>3, <2>4, FailedFlow
  <2> QED
    BY <1>1, <2>5, DataStays DEF CoreInv, Flows
<1>5. CASE ~bad
  <2>1. HelperReturns
    BY <1>5 DEF LoadRegIndex, ReturnUnless
  <2>2. PICK m \in Names \cup {"loop"} : Follows(Ins.op, n, m) /\ MovesTo(m)
    BY <1>1, <2>1, HelperMoves DEF CoreInv
  <2>3. ValidReg(IF n = "load_reg_a_index" THEN Ins.a ELSE Ins.b)
    BY <1>1, <1>5
  <2>4. CASE n = "load_reg_a_index"
    <3>1. AfterIndex(Ins.op, m)
      BY <2>2, <2>4 DEF Follows, SetsZf, IsLast
    <3>2. Carried(Ins.op, m)'
      BY <1>1, <1>2, <1>3, <2>3, <2>4, <3>1
      DEF Carried, Checked, Indexed, Targeted, AfterIndex, PoppedAt, Saving,
          SecondRegOps, RegOps, JumpOps
    <3>3. FlowInv'
      BY <1>1, <1>2, <2>2, <3>2, MovedFlow DEF Fetching
    <3> QED
      BY <1>1, <3>3, DataStays DEF CoreInv, Flows
  <2>5. CASE n = "load_reg_b_index"
    <3>1. Ins.op \in SecondRegOps /\ Begins(Ins.op, m)
      BY <2>2, <2>5 DEF Follows, SetsZf, IsLast
    <3>2. Carried(Ins.op, m)'
      BY <1>1, <1>2, <2>3, <2>5, <3>1
      DEF Carried, Checked, Indexed, Targeted, Begins, PoppedAt, Settled,
          SecondRegOps, RegOps, JumpOps
    <3>3. FlowInv'
      BY <1>1, <1>2, <2>2, <3>2, MovedFlow DEF Fetching
    <3> QED
      BY <1>1, <3>3, DataStays DEF CoreInv, Flows
  <2> QED
    BY <1>1, <2>4, <2>5
<1> QED
  BY <1>4, <1>5

----------------------------------------------------------------------------
(* The blocks that write a register.                                       *)

LEMMA PoppedType ==
    ASSUME DataInv, sp >= ValueSize
    PROVE  PoppedValue \in Value
<1>1. sp - ValueSize \in Int /\ ~BadAddress(sp - ValueSize)
  BY WordAssumption, MachineAssumption DEF DataInv, BadAddress
<1> QED
  BY <1>1, LoadFromType DEF DataInv, PoppedValue

(* One unsigned comparison refuses negative targets too: they are larger   *)
(* than any program.                                                       *)
LEMMA UnsignedTarget ==
    ASSUME DataInv, NEW v \in Value
    PROVE  (Unsigned(v) >= Len(code)) <=> BadTarget(code, v)
<1>1. Len(code) \in Nat /\ Len(code) < Half
  BY ProgramsAssumption, ProgramsFit DEF DataInv
<1>2. /\ v \in Int /\ -Half <= v /\ v < Half /\ Modulus = 2 * Half /\ Half \in Nat \ {0}
  BY Widths
<1>3. Unsigned(v) = IF v < 0 THEN v + Modulus ELSE v
  BY <1>2 DEF Unsigned
<1> QED
  BY <1>1, <1>2, <1>3 DEF BadTarget

LEMMA IndexFits == ASSUME DataInv PROVE ip \in Value /\ Signed(ip) = ip
<1>1. Len(code) \in Nat /\ Len(code) < Half /\ ip \in 0 .. Len(code)
  BY ProgramsAssumption, ProgramsFit DEF DataInv
<1>2. ip \in 0 .. (Half - 1)
  BY <1>1, Widths
<1> QED
  BY <1>2, SignedOfSmall, Widths

LEMMA PopGoesUp ==
    ASSUME DataInv, ~(sp > MemorySize - ValueSize)
    PROVE  /\ sp + ValueSize \in Nat /\ sp + ValueSize <= MemorySize
           /\ (sp + ValueSize) % ValueSize = 0
           /\ sp + ValueSize >= ValueSize /\ (sp + ValueSize) - ValueSize = sp
<1>1. sp \in Nat /\ sp % ValueSize = 0 /\ ValueSize \in Nat \ {0} /\ MemorySize \in Nat
  BY WordAssumption, MachineAssumption DEF DataInv
<1> QED
  BY <1>1, MultipleStep

LEMMA PushGoesDown ==
    ASSUME DataInv, ~(sp < ValueSize)
    PROVE  /\ sp - ValueSize \in Nat /\ sp - ValueSize <= MemorySize
           /\ (sp - ValueSize) % ValueSize = 0
<1>1. sp \in Nat /\ sp % ValueSize = 0 /\ ValueSize \in Nat \ {0} /\ MemorySize \in Nat
      /\ sp <= MemorySize
  BY WordAssumption, MachineAssumption DEF DataInv
<1> QED
  BY <1>1, MultipleStep

LEMMA CheckJumpImmFlows ==
    ASSUME CoreInv, CheckJumpImm
    PROVE  Flows
<1>1. /\ pc[1] = "check_jump_imm" /\ pc[1] \in Helpers
      /\ rax' = Ins.imm /\ Ins' = Ins /\ error' = error
      /\ UNCHANGED <<code, vmData, ip, r13, r14, r15>>
      /\ ReturnUnless(BadTarget(code, Ins.imm), "err_bad_jump")
  BY DEF CheckJumpImm, vmRest, frame, Ins, At, Label, Helpers
<1>2. /\ Fetching /\ Ins.op \in Opcode /\ Carried(Ins.op, "check_jump_imm") /\ error = "OK"
      /\ ~BadRegister(Ins)
  BY <1>1, AtHelper
<1>3. Ins.op \in JumpOps \cup {"CALL"}
  BY <1>1, HelperFollows DEF CoreInv, Follows, SetsZf, IsLast
<1>4. Taken /\ Taken' = Taken
  BY <1>1, <1>2, <1>3 DEF Carried, Checked, Taken, vmData
<1>5. CASE BadTarget(code, Ins.imm)
  <2>1. pc' = Label("err_bad_jump")
    BY <1>1, <1>5 DEF ReturnUnless
  <2>2. Fetching' /\ Cause("err_bad_jump")' /\ ~BadRegister(Ins)'
    BY <1>1, <1>2, <1>3, <1>4, <1>5 DEF Fetching, Cause
  <2>3. "err_bad_jump" \in Failing
    BY DEF Failing, ErrorOf
  <2>4. FlowInv'
    BY <1>1, <1>2, <2>1, <2>2, <2>3, FailedFlow
  <2> QED
    BY <1>1, <2>4, DataStays DEF CoreInv, Flows
<1>6. CASE ~BadTarget(code, Ins.imm)
  <2>1. PICK m \in Names \cup {"loop"} : Follows(Ins.op, "check_jump_imm", m) /\ MovesTo(m)
    BY <1>1, <1>6, HelperMoves DEF CoreInv, ReturnUnless
  <2>2. \/ Ins.op \in JumpOps /\ m = "goto_rax"
        \/ Ins.op = "CALL" /\ m = "save_target"
    BY <2>1 DEF Follows, SetsZf, IsLast
  <2>3. Carried(Ins.op, m)'
    BY <1>1, <1>2, <1>4, <1>6, <2>2
    DEF Carried, Checked, Indexed, Targeted, PoppedAt, Saving, Settled, BadRegister,
        FirstRegOps, SecondRegOps, RegOps, JumpOps
  <2>4. FlowInv'
    BY <1>1, <1>2, <2>1, <2>3, MovedFlow DEF Fetching
  <2> QED
    BY <1>1, <2>4, DataStays DEF CoreInv, Flows
<1> QED
  BY <1>5, <1>6

LEMMA CheckJumpRaxFlows ==
    ASSUME CoreInv, CheckJumpRax
    PROVE  Flows
<1>1. /\ pc[1] = "check_jump_rax" /\ pc[1] \in Helpers
      /\ Ins' = Ins /\ error' = error
      /\ UNCHANGED <<code, vmData, ip, r13, rax, r14, r15>>
      /\ ReturnUnless(Unsigned(rax) >= Len(code), "err_bad_jump")
  BY DEF CheckJumpRax, vmRest, frame, Ins, At, Label, Helpers
<1>2. /\ Fetching /\ Ins.op \in Opcode /\ Carried(Ins.op, "check_jump_rax") /\ error = "OK"
      /\ ~BadRegister(Ins)
  BY <1>1, AtHelper
<1>3. Ins.op = "RET"
  BY <1>1, HelperFollows DEF CoreInv, Follows, SetsZf, IsLast
<1>4. sp >= ValueSize /\ rax = PoppedValue /\ PoppedValue' = PoppedValue
  BY <1>1, <1>2 DEF Carried, Targeted, PoppedAt, PoppedValue, vmData
<1>5. (Unsigned(rax) >= Len(code)) <=> BadTarget(code, rax)
  BY <1>4, PoppedType, UnsignedTarget DEF CoreInv
<1>6. CASE BadTarget(code, rax)
  <2>1. pc' = Label("err_bad_jump")
    BY <1>1, <1>5, <1>6 DEF ReturnUnless
  <2>2. Fetching' /\ Cause("err_bad_jump")' /\ ~BadRegister(Ins)'
    BY <1>1, <1>2, <1>3, <1>4, <1>6 DEF Fetching, Cause, vmData
  <2>3. "err_bad_jump" \in Failing
    BY DEF Failing, ErrorOf
  <2>4. FlowInv'
    BY <1>1, <1>2, <2>1, <2>2, <2>3, FailedFlow
  <2> QED
    BY <1>1, <2>4, DataStays DEF CoreInv, Flows
<1>7. CASE ~BadTarget(code, rax)
  <2>1. PICK m \in Names \cup {"loop"} : Follows(Ins.op, "check_jump_rax", m) /\ MovesTo(m)
    BY <1>1, <1>5, <1>7, HelperMoves DEF CoreInv, ReturnUnless
  <2>2. m = "goto_rax"
    BY <2>1 DEF Follows, SetsZf, IsLast
  <2>3. Carried(Ins.op, m)'
    BY <1>1, <1>2, <1>3, <1>4, <1>7, <2>2
    DEF Carried, Checked, Indexed, Targeted, PoppedAt, Saving, Settled, BadRegister,
        FirstRegOps, SecondRegOps, RegOps, JumpOps, vmData
  <2>4. FlowInv'
    BY <1>1, <1>2, <2>1, <2>3, MovedFlow DEF Fetching
  <2> QED
    BY <1>1, <2>4, DataStays DEF CoreInv, Flows
<1> QED
  BY <1>6, <1>7

(* The two checks of rbx, alike but for what they check. *)
LEMMA CheckRbxFlows ==
    ASSUME CoreInv, CheckRbx
    PROVE  Flows
<1>1. /\ Ins' = Ins /\ error' = error
      /\ UNCHANGED <<code, vmData, ip, r13, rax, rbx, r14, r15>>
  BY DEF CheckRbx, vmRest, frame, scratch, Ins
<1>2. PICK n \in {"check_mem_addr_rbx", "check_shift_rbx"}, bad \in BOOLEAN,
           label \in {"err_memory_oob", "err_bad_shift"} :
        /\ pc[1] = n /\ ReturnUnless(bad, label)
        /\ \/ /\ n = "check_mem_addr_rbx" /\ label = "err_memory_oob"
              /\ bad = BadAddress(rbx)
           \/ /\ n = "check_shift_rbx" /\ label = "err_bad_shift"
              /\ bad = BadShift(rbx)
  <2>1. BadAddress(rbx) \in BOOLEAN /\ BadShift(rbx) \in BOOLEAN
    BY DEF BadAddress, BadShift
  <2> QED
    BY <2>1 DEF CheckRbx, At, Label
<1>3. n \in Helpers /\ label \in Failing
  BY DEF Helpers, Failing, ErrorOf
<1>4. /\ Fetching /\ Ins.op \in Opcode /\ Carried(Ins.op, n) /\ error = "OK"
      /\ ~BadRegister(Ins)
  BY <1>2, <1>3, AtHelper
<1>5. /\ n = "check_mem_addr_rbx" => Ins.op \in LoadOps \cup StoreOps
      /\ n = "check_shift_rbx" => Ins.op \in ShiftOps
  BY <1>2, <1>3, HelperFollows DEF CoreInv, Follows, SetsZf, IsLast
<1>6. rbx = Operand /\ Operand' = Operand
  BY <1>1, <1>4 DEF Carried, Indexed, Operand, vmData
<1>7. CASE bad
  <2>1. pc' = Label(label)
    BY <1>2, <1>7 DEF ReturnUnless
  <2>2. Fetching' /\ Cause(label)' /\ ~BadRegister(Ins)'
    BY <1>1, <1>2, <1>4, <1>5, <1>6, <1>7 DEF Fetching, Cause
  <2>3. FlowInv'
    BY <1>1, <1>3, <1>4, <2>1, <2>2, FailedFlow
  <2> QED
    BY <1>1, <2>3, DataStays DEF CoreInv, Flows
<1>8. CASE ~bad
  <2>1. PICK m \in Names \cup {"loop"} : Follows(Ins.op, n, m) /\ MovesTo(m)
    BY <1>1, <1>2, <1>3, <1>8, HelperMoves DEF CoreInv, ReturnUnless
  <2>2. \/ n = "check_shift_rbx" /\ m = "shift"
        \/ n = "check_mem_addr_rbx" /\ m \in {"load", "store"}
    BY <2>1 DEF Follows, SetsZf, IsLast
  <2>3. Checked(Ins.op, m)'
    BY <1>1, <1>2, <1>4, <1>8, <2>2 DEF Carried, Checked
  <2>4. Indexed(Ins.op, m)'
    BY <1>1, <1>4, <1>6, <2>2 DEF Carried, Indexed, Settled
  <2>5. Targeted(Ins.op, m)'
    BY <2>2 DEF Targeted, PoppedAt
  <2>6. FlowInv'
    BY <1>1, <1>4, <2>1, <2>3, <2>4, <2>5, MovedFlow DEF Fetching, Carried
  <2> QED
    BY <1>1, <2>6, DataStays DEF CoreInv, Flows
<1> QED
  BY <1>7, <1>8

----------------------------------------------------------------------------
(* The blocks that touch the stack, the flag and the output.               *)

LEMMA PushRaxFlows ==
    ASSUME CoreInv, PushRax
    PROVE  Flows
<1>1. /\ pc[1] = "push_rax" /\ pc[1] \in Helpers
      /\ Ins' = Ins /\ error' = error
      /\ UNCHANGED <<code, regs, zf, ip, r13, rax, r14, r15>>
      /\ ReturnUnless(sp < ValueSize, "err_stack_overflow")
      /\ IF sp < ValueSize THEN UNCHANGED <<sp, memory>>
         ELSE /\ sp' = sp - ValueSize
              /\ memory' = StoreTo(memory, sp - ValueSize, rax)
  BY DEF PushRax, vmRest, frame, Ins, At, Label, Helpers
<1>2. /\ Fetching /\ Ins.op \in Opcode /\ Carried(Ins.op, "push_rax") /\ error = "OK"
      /\ ~BadRegister(Ins) /\ DataInv
  BY <1>1, AtHelper DEF CoreInv
<1>3. Ins.op \in {"PUSH", "CALL"}
  BY <1>1, HelperFollows DEF CoreInv, Follows, SetsZf, IsLast
<1>4. CASE sp < ValueSize
  <2>1. pc' = Label("err_stack_overflow") /\ UNCHANGED <<sp, memory>>
    BY <1>1, <1>4 DEF ReturnUnless
  <2>2. Ins.op = "CALL" => ~BadTarget(code, Ins.imm)
    BY <1>2 DEF Carried, Targeted
  <2>3. Fetching' /\ Cause("err_stack_overflow")' /\ ~BadRegister(Ins)'
    BY <1>1, <1>2, <1>3, <1>4, <2>1, <2>2 DEF Fetching, Cause
  <2>4. "err_stack_overflow" \in Failing
    BY DEF Failing, ErrorOf
  <2>5. FlowInv'
    BY <1>1, <1>2, <2>1, <2>3, <2>4, FailedFlow
  <2> QED
    BY <1>1, <1>2, <2>1, <2>5 DEF DataInv, Flows
<1>5. CASE ~(sp < ValueSize)
  <2>1. PICK m \in Names \cup {"loop"} : Follows(Ins.op, "push_rax", m) /\ MovesTo(m)
    BY <1>1, <1>5, HelperMoves DEF CoreInv, ReturnUnless
  <2>2. m = "loop" \/ (Ins.op = "CALL" /\ m = "goto_r15")
    BY <2>1 DEF Follows, SetsZf, IsLast
  <2>3. m # "loop" => Carried(Ins.op, m)'
    BY <1>1, <1>2, <2>2
    DEF Carried, Checked, Indexed, Targeted, PoppedAt, Settled, BadRegister
  <2>4. FlowInv'
    BY <1>1, <1>2, <2>1, <2>3, MovedFlow DEF Fetching
  <2>5. rax \in Value
    <3>1. Ins.op = "PUSH" => Ins.op \in FirstRegOps
      BY DEF FirstRegOps, Opcode, UnaryOps
    <3> QED
      BY <1>2, <1>3, <3>1, Typed, IndexFits DEF Carried, Targeted, BadRegister
  <2>6. memory' \in [Address -> Byte]
    BY <1>1, <1>2, <1>5, <2>5, StoreToType DEF DataInv
  <2>7. DataInv'
    BY <1>1, <1>2, <1>5, <2>6, PushGoesDown DEF DataInv
  <2> QED
    BY <2>4, <2>7 DEF Flows
<1> QED
  BY <1>4, <1>5

LEMMA PopRaxFlows ==
    ASSUME CoreInv, PopRax
    PROVE  Flows
<1>1. /\ pc[1] = "pop_rax" /\ pc[1] \in Helpers
      /\ Ins' = Ins /\ error' = error
      /\ UNCHANGED <<code, regs, zf, memory, ip, r13, r14, r15>>
      /\ ReturnUnless(sp > MemorySize - ValueSize, "err_stack_underflow")
      /\ IF sp > MemorySize - ValueSize THEN UNCHANGED sp
         ELSE sp' = sp + ValueSize /\ rax' = LoadFrom(memory, sp)
  BY DEF PopRax, vmRest, frame, Ins, At, Label, Helpers
<1>2. /\ Fetching /\ Ins.op \in Opcode /\ Carried(Ins.op, "pop_rax") /\ error = "OK"
      /\ ~BadRegister(Ins) /\ DataInv
  BY <1>1, AtHelper DEF CoreInv
<1>3. Ins.op \in {"POP", "RET"}
  BY <1>1, HelperFollows DEF CoreInv, Follows, SetsZf, IsLast
<1>4. CASE sp > MemorySize - ValueSize
  <2>1. pc' = Label("err_stack_underflow") /\ UNCHANGED sp
    BY <1>1, <1>4 DEF ReturnUnless
  <2>2. Fetching' /\ Cause("err_stack_underflow")' /\ ~BadRegister(Ins)'
    BY <1>1, <1>2, <1>3, <1>4, <2>1 DEF Fetching, Cause
  <2>3. "err_stack_underflow" \in Failing
    BY DEF Failing, ErrorOf
  <2>4. FlowInv'
    BY <1>1, <1>2, <2>1, <2>2, <2>3, FailedFlow
  <2> QED
    BY <1>1, <1>2, <2>1, <2>4 DEF DataInv, Flows
<1>5. CASE ~(sp > MemorySize - ValueSize)
  <2>1. PICK m \in Names \cup {"loop"} : Follows(Ins.op, "pop_rax", m) /\ MovesTo(m)
    BY <1>1, <1>5, HelperMoves DEF CoreInv, ReturnUnless
  <2>2. \/ Ins.op = "POP" /\ m = "write_a"
        \/ Ins.op = "RET" /\ m = "check_jump_rax"
    BY <2>1 DEF Follows, SetsZf, IsLast
  <2>3. sp' >= ValueSize /\ PoppedValue' = rax' /\ sp' - ValueSize = sp
    BY <1>1, <1>2, <1>5, PopGoesUp DEF PoppedValue
  <2>4. Checked(Ins.op, m)'
    BY <1>1, <1>2, <2>2 DEF Checked, BadRegister
  <2>5. Indexed(Ins.op, m)'
    BY <1>1, <1>2, <2>2
    DEF Carried, Indexed, Settled, SecondRegOps, RegOps, Saving
  <2>6. Targeted(Ins.op, m)'
    BY <1>1, <2>2, <2>3 DEF Targeted, PoppedAt
  <2>7. FlowInv'
    BY <1>1, <1>2, <2>1, <2>4, <2>5, <2>6, MovedFlow DEF Fetching, Carried
  <2>8. DataInv'
    BY <1>1, <1>2, <1>5, PopGoesUp DEF DataInv
  <2> QED
    BY <2>7, <2>8 DEF Flows
<1> QED
  BY <1>4, <1>5

LEMMA SetZfFlows ==
    ASSUME CoreInv, SetZfFromRax
    PROVE  Flows
<1>1. /\ pc[1] = "set_zf_from_rax" /\ pc[1] \in Helpers
      /\ Ins' = Ins /\ error' = error /\ HelperReturns
      /\ zf' = (rax = 0)
      /\ UNCHANGED <<code, regs, memory, sp, ip, r13>>
  BY DEF SetZfFromRax, vmRest, frame, Ins, At, Label, Helpers
<1>2. Fetching /\ Ins.op \in Opcode /\ error = "OK" /\ DataInv
  BY <1>1, AtHelper DEF CoreInv
<1>3. PICK m \in Names \cup {"loop"} : Follows(Ins.op, "set_zf_from_rax", m) /\ MovesTo(m)
  BY <1>1, HelperMoves DEF CoreInv
<1>4. m = "loop"
  BY <1>3 DEF Follows, SetsZf, IsLast
<1>5. FlowInv'
  BY <1>1, <1>2, <1>3, <1>4, MovedFlow
<1> QED
  BY <1>1, <1>2, <1>5 DEF DataInv, Flows

(* The blocks that write a register, by what they write. *)
LEMMA WriteFlows ==
    ASSUME CoreInv, NEW n \in {"alu", "bitwise", "divide", "shift", "load", "write_a"},
           InBlock(n), Proceed, NEW v \in Value,
           regs' = [regs EXCEPT ![Ins.a] = v],
           UNCHANGED <<code, error, zf, memory, sp, ip, r13>>
    PROVE  Flows
<1>1. Ins' = Ins
  BY DEF Ins
<1>2. /\ Fetching /\ Ins.op \in Opcode /\ error = "OK" /\ ~BadRegister(Ins) /\ DataInv
  BY AtBlock DEF CoreInv
<1>3. PICK m \in Names \cup {"loop"} : Follows(Ins.op, n, m) /\ MovesTo(m)
  BY <1>1, BlockMoves DEF CoreInv
<1>4. m = "set_zf_from_rax"
  BY <1>3 DEF Follows, SetsZf, IsLast
<1>5. FlowInv'
  BY <1>1, <1>2, <1>3, <1>4, SettledCarries, MovedFlow DEF Fetching
<1> QED
  BY <1>2, <1>5 DEF DataInv, Flows

(* What a writing block writes is what the C engine computes. *)
LEMMA AluWrites ==
    ASSUME CoreInv, Alu
    PROVE  /\ InBlock("alu") /\ Ins.op \in AluOps \ BitOps
           /\ AluResult(Ins.op, regs[Ins.a], Operand) \in Value
           /\ WriteReg(Ins.a, AluResult(Ins.op, regs[Ins.a], Operand))
<1>1. InBlock("alu")
  BY DEF Alu
<1>2. Fetching /\ Carried(Ins.op, "alu") /\ ~BadRegister(Ins) /\ Ins.op \in Opcode
  BY <1>1, AtBlock
<1>3. Ins.op \in AluOps \ BitOps
  BY <1>1, BlockFollows DEF CoreInv, Follows, SetsZf, IsLast
<1>4. Ins.op \in FirstRegOps /\ Ins.op # "CMP_IMM" /\ (Ins.op # "MOV_IMM" => Ins.op \in Saving)
  BY <1>3 DEF AluOps, ImmOps, RegOps, FirstRegOps, Opcode, Saving
<1>5. (IF Ins.op = "MOV_IMM" THEN rax ELSE r14) = Ins.a
  BY <1>2, <1>4 DEF Carried, Indexed, Settled
<1>6. Second = Operand
  BY <1>2 DEF Carried, Indexed, Second, Operand
<1>7. AluResult(Ins.op, regs[Ins.a], Operand) \in Value
  BY <1>2, <1>3, <1>4, Typed, AluResultType DEF CoreInv, BadRegister
<1> QED
  BY <1>1, <1>3, <1>5, <1>6, <1>7 DEF Alu

LEMMA BitwiseWrites ==
    ASSUME CoreInv, Bitwise
    PROVE  LET v == IF Ins.op = "NOT" THEN Not(regs[Ins.a])
                    ELSE AluResult(Ins.op, regs[Ins.a], Operand)
           IN  /\ InBlock("bitwise") /\ Ins.op \in BitOps \cup {"NOT"}
               /\ v \in Value /\ WriteReg(Ins.a, v)
<1>1. InBlock("bitwise")
  BY DEF Bitwise
<1>2. Fetching /\ Carried(Ins.op, "bitwise") /\ ~BadRegister(Ins) /\ Ins.op \in Opcode
  BY <1>1, AtBlock
<1>3. Ins.op \in BitOps \cup {"NOT"}
  BY <1>1, BlockFollows DEF CoreInv, Follows, SetsZf, IsLast
<1>4. /\ Ins.op \in FirstRegOps /\ Ins.op \in Saving
      /\ Ins.op # "NOT" => Ins.op \in AluOps
  BY <1>3 DEF BitOps, AluOps, ImmOps, RegOps, UnaryOps, FirstRegOps, Opcode, Saving
<1>5. r14 = Ins.a
  BY <1>2, <1>4 DEF Carried, Indexed, Settled
<1>6. Second = Operand
  BY <1>2 DEF Carried, Indexed, Second, Operand
<1>7. Ins.op # "NOT" => AluResult(Ins.op, regs[Ins.a], Operand) \in Value
  BY <1>2, <1>4, Typed, AluResultType DEF CoreInv, BadRegister
<1> QED
  BY <1>1, <1>3, <1>5, <1>6, <1>7, BitwiseType DEF Bitwise

LEMMA DivideWrites ==
    ASSUME CoreInv, Divide
    PROVE  LET v == DivResult(Ins.op, regs[Ins.a], Operand)
           IN  /\ InBlock("divide") /\ Ins.op \in DivOps
               /\ Operand # 0 /\ ~DivOverflows(regs[Ins.a], Operand)
               /\ v \in Value /\ WriteReg(Ins.a, v)
<1>1. InBlock("divide")
  BY DEF Divide
<1>2. Fetching /\ Carried(Ins.op, "divide") /\ ~BadRegister(Ins) /\ Ins.op \in Opcode
  BY <1>1, AtBlock
<1>3. Ins.op \in DivOps
  BY <1>1, BlockFollows DEF CoreInv, Follows, SetsZf, IsLast
<1>4. Ins.op \in FirstRegOps /\ Ins.op \in Saving
  BY <1>3 DEF DivOps, FirstRegOps, Opcode, Saving
<1>5. r14 = Ins.a /\ rbx = Operand
  BY <1>2, <1>4 DEF Carried, Indexed, Settled
<1>6. Operand # 0 /\ ~DivOverflows(regs[Ins.a], Operand)
  BY <1>5 DEF Divide
<1>7. DivResult(Ins.op, regs[Ins.a], Operand) \in Value
  BY <1>2, <1>4, <1>6, Typed, DivResultType DEF CoreInv, BadRegister
<1> QED
  BY <1>1, <1>3, <1>5, <1>6, <1>7 DEF Divide

LEMMA ShiftWrites ==
    ASSUME CoreInv, ShiftReg
    PROVE  LET v == ShiftResult(Ins.op, regs[Ins.a], Operand)
           IN  /\ InBlock("shift") /\ Ins.op \in ShiftOps /\ ~BadShift(Operand)
               /\ v \in Value /\ WriteReg(Ins.a, v)
<1>1. InBlock("shift")
  BY DEF ShiftReg
<1>2. Fetching /\ Carried(Ins.op, "shift") /\ ~BadRegister(Ins) /\ Ins.op \in Opcode
  BY <1>1, AtBlock
<1>3. Ins.op \in ShiftOps
  BY <1>1, BlockFollows DEF CoreInv, Follows, SetsZf, IsLast
<1>4. Ins.op \in FirstRegOps /\ Ins.op \in Saving
  BY <1>3 DEF ShiftOps, FirstRegOps, Opcode, Saving
<1>5. r14 = Ins.a /\ rbx = Operand /\ ~BadShift(rbx)
  BY <1>2, <1>4 DEF Carried, Checked, Indexed, Settled
<1>6. ShiftResult(Ins.op, regs[Ins.a], Operand) \in Value
  BY <1>2, <1>4, <1>5, Typed, ShiftResultType DEF CoreInv, BadRegister
<1> QED
  BY <1>1, <1>3, <1>5, <1>6 DEF ShiftReg

LEMMA LoadWrites ==
    ASSUME CoreInv, LoadReg
    PROVE  LET v == LoadFrom(memory, Operand)
           IN  /\ InBlock("load") /\ Ins.op \in LoadOps /\ ~BadAddress(Operand)
               /\ v \in Value /\ WriteReg(Ins.a, v)
<1>1. InBlock("load")
  BY DEF LoadReg
<1>2. Fetching /\ Carried(Ins.op, "load") /\ ~BadRegister(Ins) /\ Ins.op \in Opcode
  BY <1>1, AtBlock
<1>3. Ins.op \in LoadOps
  BY <1>1, BlockFollows DEF CoreInv, Follows, SetsZf, IsLast
<1>4. Ins.op \in FirstRegOps /\ Ins.op \in Saving
  BY <1>3 DEF LoadOps, FirstRegOps, Opcode, Saving
<1>5. r14 = Ins.a /\ rbx = Operand /\ ~BadAddress(rbx)
  BY <1>2, <1>4 DEF Carried, Checked, Indexed, Settled
<1>6. LoadFrom(memory, Operand) \in Value
  BY <1>2, <1>5, Typed, LoadFromType, Widths DEF CoreInv, DataInv
<1> QED
  BY <1>1, <1>3, <1>5, <1>6 DEF LoadReg

LEMMA PoppedWrites ==
    ASSUME CoreInv, WritePopped
    PROVE  /\ InBlock("write_a") /\ Ins.op = "POP"
           /\ sp >= ValueSize /\ rax = PoppedValue
           /\ rax \in Value /\ WriteReg(Ins.a, rax)
<1>1. InBlock("write_a")
  BY DEF WritePopped
<1>2. Fetching /\ Carried(Ins.op, "write_a") /\ ~BadRegister(Ins) /\ Ins.op \in Opcode
  BY <1>1, AtBlock
<1>3. Ins.op = "POP"
  BY <1>1, BlockFollows DEF CoreInv, Follows, SetsZf, IsLast
<1>4. Ins.op \in Saving
  BY <1>3 DEF UnaryOps, FirstRegOps, Opcode, Saving
<1>5. r14 = Ins.a /\ sp >= ValueSize /\ rax = PoppedValue
  BY <1>2, <1>4 DEF Carried, Indexed, Targeted, PoppedAt, Settled
<1> QED
  BY <1>1, <1>3, <1>5, PoppedType DEF WritePopped, CoreInv

LEMMA WritingBlocksFlow ==
    ASSUME CoreInv, Alu \/ Bitwise \/ Divide \/ ShiftReg \/ LoadReg \/ WritePopped
    PROVE  Flows
<1>1. \E n \in {"alu", "bitwise", "divide", "shift", "load", "write_a"}, v \in Value :
         InBlock(n) /\ WriteReg(Ins.a, v)
  BY AluWrites, BitwiseWrites, DivideWrites, ShiftWrites, LoadWrites, PoppedWrites
<1>2. Proceed /\ UNCHANGED r13
  BY DEF Alu, Bitwise, Divide, ShiftReg, LoadReg, WritePopped, WriteReg, frame
<1> QED
  BY <1>1, <1>2, WriteFlows DEF WriteReg, vmRest

----------------------------------------------------------------------------
(* The blocks that store, jump and stop.                                   *)

LEMMA StoreStores ==
    ASSUME CoreInv, StoreReg
    PROVE  /\ InBlock("store") /\ Proceed /\ Ins.op \in StoreOps /\ ~BadAddress(Operand)
           /\ Ins.a \in Register /\ regs[Ins.a] \in Value
           /\ memory' = StoreTo(memory, Operand, regs[Ins.a])
<1>1. InBlock("store") /\ Proceed
  BY DEF StoreReg
<1>2. Fetching /\ Carried(Ins.op, "store") /\ ~BadRegister(Ins) /\ Ins.op \in Opcode
  BY <1>1, AtBlock
<1>3. Ins.op \in StoreOps
  BY <1>1, BlockFollows DEF CoreInv, Follows, SetsZf, IsLast
<1>4. Ins.op \in FirstRegOps /\ Ins.op \in Saving
  BY <1>3 DEF StoreOps, FirstRegOps, Opcode, Saving
<1>5. r14 = Ins.a /\ rbx = Operand /\ ~BadAddress(rbx)
  BY <1>2, <1>4 DEF Carried, Checked, Indexed, Settled
<1> QED
  BY <1>1, <1>2, <1>3, <1>4, <1>5, Typed DEF StoreReg, CoreInv, BadRegister

LEMMA CompareCompares ==
    ASSUME CoreInv, Compare
    PROVE  /\ InBlock("compare") /\ Proceed /\ Ins.op \in CmpOps
           /\ zf' = (regs[Ins.a] = Operand)
<1>1. InBlock("compare") /\ Proceed
  BY DEF Compare
<1>2. Carried(Ins.op, "compare")
  BY <1>1, AtBlock
<1>3. Ins.op \in CmpOps
  BY <1>1, BlockFollows DEF CoreInv, Follows, SetsZf, IsLast
<1>4. Ins.op = "CMP_REG" => Ins.op \in Saving /\ Ins.op \in SecondRegOps
  BY DEF CmpOps, FirstRegOps, Opcode, Saving, SecondRegOps
<1>5. (IF Ins.op = "CMP_REG" THEN r14 ELSE rax) = Ins.a
  BY <1>2, <1>3, <1>4 DEF Carried, Indexed, Settled, CmpOps
<1>6. Second = Operand
  BY <1>2 DEF Carried, Indexed, Second, Operand
<1> QED
  BY <1>1, <1>3, <1>5, <1>6 DEF Compare

LEMMA PrintPrints ==
    ASSUME CoreInv, EmitPrint
    PROVE  /\ InBlock("print") /\ Proceed /\ Ins.op = "PRINT"
           /\ last_print' = regs[Ins.a]
<1>1. InBlock("print") /\ Proceed
  BY DEF EmitPrint
<1>2. Carried(Ins.op, "print")
  BY <1>1, AtBlock
<1>3. Ins.op = "PRINT"
  BY <1>1, BlockFollows DEF CoreInv, Follows, SetsZf, IsLast
<1>4. Ins.op \in FirstRegOps
  BY <1>3 DEF FirstRegOps, Opcode, UnaryOps
<1> QED
  BY <1>1, <1>2, <1>3, <1>4 DEF Carried, Indexed, EmitPrint

LEMMA TestTests ==
    ASSUME CoreInv, Test
    PROVE  /\ InBlock("test") /\ Ins.op \in JumpOps \ {"JMP"}
           /\ IF Taken THEN Proceed ELSE pc' = Label("loop")
<1>1. InBlock("test")
  BY DEF Test
<1>2. Carried(Ins.op, "test")
  BY <1>1, AtBlock
<1>3. Ins.op \in JumpOps \ {"JMP"}
  BY <1>1, BlockFollows DEF CoreInv, Follows, SetsZf, IsLast
<1>4. Ins.op \in {"JZ", "JNZ"} => rax = Ins.a
  BY <1>2 DEF Carried, Indexed, FirstRegOps, Opcode, JumpOps
<1>5. Taken = CASE Ins.op = "JZ" -> regs[rax] = 0
                [] Ins.op = "JNZ" -> regs[rax] # 0
                [] Ins.op = "JE" -> zf
                [] Ins.op = "JNE" -> ~zf
  BY <1>3, <1>4 DEF Taken, JumpOps
<1> QED
  BY <1>1, <1>3, <1>5 DEF Test, Proceed

LEMMA GotoGoes ==
    ASSUME CoreInv, GotoReg
    PROVE  \/ /\ InBlock("goto_rax") /\ Ins.op \in JumpOps /\ Taken
              /\ ip' = Ins.imm /\ ~BadTarget(code, Ins.imm)
           \/ /\ InBlock("goto_rax") /\ Ins.op = "RET" /\ sp >= ValueSize
              /\ ip' = PoppedValue /\ ~BadTarget(code, PoppedValue)
           \/ /\ InBlock("goto_r15") /\ Ins.op = "CALL"
              /\ ip' = r15 /\ r15 = Ins.imm /\ ~BadTarget(code, Ins.imm)
<1>1. CASE InBlock("goto_rax") /\ ip' = rax
  <2>1. Carried(Ins.op, "goto_rax")
    BY <1>1, AtBlock
  <2>2. Ins.op \in JumpOps \cup {"RET"}
    BY <1>1, BlockFollows DEF CoreInv, Follows, SetsZf, IsLast
  <2>3. "RET" \notin JumpOps
    BY DEF JumpOps
  <2> QED
    BY <1>1, <2>1, <2>2, <2>3 DEF Carried, Checked, Targeted, PoppedAt
<1>2. CASE InBlock("goto_r15") /\ ip' = r15
  <2>1. Carried(Ins.op, "goto_r15")
    BY <1>2, AtBlock
  <2>2. Ins.op = "CALL"
    BY <1>2, BlockFollows DEF CoreInv, Follows, SetsZf, IsLast
  <2> QED
    BY <1>2, <2>1, <2>2 DEF Carried, Targeted
<1> QED
  BY <1>1, <1>2 DEF GotoReg

(* The last block of a route goes back to the loop with nothing to carry. *)
LEMMA LastFlows ==
    ASSUME CoreInv, NEW n \in {"store", "compare", "goto_rax", "goto_r15", "unalign"},
           InBlock(n), Proceed, Ins' = Ins, error' = error
    PROVE  FlowInv'
<1>1. Ins.op \in Opcode /\ error = "OK"
  BY AtBlock
<1>2. PICK m \in Names \cup {"loop"} : Follows(Ins.op, n, m) /\ MovesTo(m)
  BY BlockMoves DEF CoreInv
<1>3. m = "loop"
  BY <1>2 DEF Follows, SetsZf, IsLast
<1> QED
  BY <1>1, <1>2, <1>3, MovedFlow

LEMMA LastBlocksFlow ==
    ASSUME CoreInv, StoreReg \/ Compare \/ GotoReg \/ Unalign
    PROVE  Flows
<1>1. FlowInv'
  <2>1. PICK n \in {"store", "compare", "goto_rax", "goto_r15", "unalign"} :
           InBlock(n) /\ Proceed
    BY DEF StoreReg, Compare, GotoReg, Unalign
  <2>2. Ins' = Ins /\ error' = error
    BY DEF StoreReg, Compare, GotoReg, Unalign, vmRest, frame, Ins
  <2> QED
    BY <2>1, <2>2, LastFlows
<1>2. CASE StoreReg
  <2>1. memory' \in [Address -> Byte]
    BY <1>2, StoreStores, StoreToType DEF CoreInv, DataInv
  <2> QED
    BY <1>1, <1>2, <2>1 DEF StoreReg, CoreInv, DataInv, Flows, vmRest
<1>3. CASE Compare
  <2>1. zf' \in BOOLEAN
    BY <1>3 DEF Compare
  <2> QED
    BY <1>1, <1>3, <2>1 DEF Compare, CoreInv, DataInv, Flows, vmRest
<1>4. CASE GotoReg
  <2>1. ip' \in 0 .. Len(code)
    <3>1. \A v \in Int : ~BadTarget(code, v) => v \in 0 .. Len(code)
      BY DEF BadTarget
    <3>2. Fetching /\ (sp >= ValueSize => PoppedValue \in Int) /\ Ins.imm \in Int
      <4>1. Fetching
        BY <1>4, AtBlock DEF GotoReg
      <4> QED
        BY <4>1, PoppedType, Typed, Widths DEF CoreInv
    <3> QED
      BY <1>4, <3>1, <3>2, GotoGoes
  <2> QED
    BY <1>1, <1>4, <2>1 DEF GotoReg, CoreInv, DataInv, Flows, vmRest, vmData
<1>5. CASE Unalign
  BY <1>1, <1>5, DataStays DEF Unalign, CoreInv, Flows, vmRest
<1> QED
  BY <1>2, <1>3, <1>4, <1>5

LEMMA PrintFlows ==
    ASSUME CoreInv, EmitPrint
    PROVE  Flows
<1>1. /\ InBlock("print") /\ Proceed /\ Ins' = Ins /\ error' = error
      /\ UNCHANGED <<code, regs, zf, memory, sp, ip, r13>>
  BY DEF EmitPrint, vmRest, frame, Ins
<1>2. Fetching /\ Ins.op \in Opcode /\ error = "OK" /\ ~BadRegister(Ins)
  BY <1>1, AtBlock
<1>3. PICK m \in Names \cup {"loop"} : Follows(Ins.op, "print", m) /\ MovesTo(m)
  BY <1>1, BlockMoves DEF CoreInv
<1>4. m = "unalign"
  BY <1>3 DEF Follows, SetsZf, IsLast
<1>5. FlowInv'
  BY <1>1, <1>2, <1>3, <1>4, SettledCarries, MovedFlow DEF Fetching
<1> QED
  BY <1>1, <1>5 DEF CoreInv, DataInv, Flows

LEMMA TestFlows ==
    ASSUME CoreInv, Test
    PROVE  Flows
<1>1. /\ InBlock("test") /\ Ins' = Ins /\ error' = error
      /\ UNCHANGED <<code, vmData, ip, r13, rax, rbx, r14, r15>>
      /\ Ins.op \in JumpOps \ {"JMP"}
      /\ IF Taken THEN Proceed ELSE pc' = Label("loop")
  BY TestTests DEF Test, vmRest, frame, scratch, Ins
<1>2. /\ Fetching /\ Ins.op \in Opcode /\ Carried(Ins.op, "test") /\ error = "OK"
      /\ ~BadRegister(Ins)
  BY <1>1, AtBlock
<1>3. CASE Taken
  <2>1. PICK m \in Names \cup {"loop"} : Follows(Ins.op, "test", m) /\ MovesTo(m)
    BY <1>1, <1>3, BlockMoves DEF CoreInv
  <2>2. m = "check_jump_imm"
    BY <2>1 DEF Follows, SetsZf, IsLast
  <2>3. Taken'
    BY <1>1, <1>3 DEF Taken, vmData
  <2>4. Checked(Ins.op, m)'
    BY <1>1, <1>2, <2>2, <2>3 DEF Checked, BadRegister
  <2>5. Indexed(Ins.op, m)'
    BY <1>1, <2>2 DEF Indexed, Saving, FirstRegOps, Opcode, JumpOps
  <2>6. Targeted(Ins.op, m)'
    BY <2>2 DEF Targeted, PoppedAt
  <2>7. FlowInv'
    BY <1>1, <1>2, <2>1, <2>4, <2>5, <2>6, MovedFlow DEF Fetching, Carried
  <2> QED
    BY <1>1, <2>7, DataStays DEF CoreInv, Flows
<1>4. CASE ~Taken
  <2>1. MovesTo("loop")
    BY <1>1, <1>4 DEF MovesTo
  <2>2. FlowInv'
    BY <1>1, <1>2, <2>1, MovedFlow
  <2> QED
    BY <1>1, <2>2, DataStays DEF CoreInv, Flows
<1> QED
  BY <1>3, <1>4

LEMMA DivideStopsFlows ==
    ASSUME CoreInv, DivideStops
    PROVE  Flows
<1>1. /\ InBlock("divide") /\ Ins' = Ins /\ error' = error
      /\ UNCHANGED <<code, vmData, ip, r13, rax, rbx, r14, r15>>
      /\ \/ rbx = 0 /\ pc' = Label("err_div_zero")
         \/ rbx # 0 /\ DivOverflows(regs[r14], rbx) /\ pc' = Label("trap")
  BY DEF DivideStops, vmRest, frame, scratch, Ins
<1>2. /\ Fetching /\ Ins.op \in Opcode /\ Carried(Ins.op, "divide") /\ error = "OK"
      /\ ~BadRegister(Ins)
  BY <1>1, AtBlock
<1>3. Ins.op \in DivOps
  BY <1>1, BlockFollows DEF CoreInv, Follows, SetsZf, IsLast
<1>4. Ins.op \in Saving
  BY <1>3 DEF DivOps, FirstRegOps, Opcode, Saving
<1>5. r14 = Ins.a /\ rbx = Operand /\ Operand' = Operand
  BY <1>1, <1>2, <1>4 DEF Carried, Indexed, Settled, Operand, vmData
<1>6. Fetching' /\ ~BadRegister(Ins)'
  BY <1>1, <1>2 DEF Fetching
<1>7. \E label \in {"err_div_zero", "trap"} : pc' = Label(label) /\ Cause(label)'
  BY <1>1, <1>3, <1>5 DEF Cause, vmData
<1>8. {"err_div_zero", "trap"} \subseteq Failing
  BY DEF Failing, ErrorOf
<1>9. FlowInv'
  BY <1>1, <1>2, <1>6, <1>7, <1>8, FailedFlow
<1> QED
  BY <1>1, <1>9, DataStays DEF CoreInv, Flows

----------------------------------------------------------------------------
(* The way into the loop and out of it; the invariance; the exit code.     *)

LEMMA QuietFlow ==
    ASSUME NEW l \in {"loop", "error_return", "ok_return", "finish", "returned", "entry"},
           pc' = Label(l), ErrorTells'
    PROVE  FlowInv'
<1>1. pc'[1] = l /\ ~Running' /\ ~At("err_ip")' /\ pc'[1] \notin Failing
  BY LabelsApart DEF Label, At, Running, OnRoute, Failing, Returning, ErrorOf
<1> QED
  BY <1>1 DEF FlowInv

LEMMA ErrorTellsStays ==
    ASSUME ErrorTells, UNCHANGED <<error, ip, code, r13, vmData>>
    PROVE  ErrorTells'
<1>1. Ins' = Ins /\ Operand' = Operand /\ Taken' = Taken /\ PoppedValue' = PoppedValue
  BY DEF Ins, Operand, Taken, PoppedValue, vmData
<1>2. FailsWith(error)' = FailsWith(error)
  BY <1>1 DEF FailsWith, vmData
<1> QED
  BY <1>1, <1>2 DEF ErrorTells, Explains, Fetching

LEMMA TellsNothing == error = "OK" => ErrorTells
BY DEF ErrorTells

LEMMA WayOutFlows ==
    ASSUME CoreInv, Prologue \/ Return \/ Epilogue \/ Halt
    PROVE  Flows
<1>1. \E l \in {"loop", "error_return", "ok_return", "finish", "returned"} : pc' = Label(l)
  BY DEF Prologue, Return, Epilogue, Halt
<1>2. /\ UNCHANGED <<code, vmData, ip>>
      /\ error' = "OK" \/ UNCHANGED <<error, ip, code, r13, vmData>>
  BY DEF Prologue, Return, Epilogue, Halt, vmRest, frame
<1>3. ErrorTells'
  <2>1. CASE error' = "OK"
    BY <2>1 DEF ErrorTells
  <2>2. CASE UNCHANGED <<error, ip, code, r13, vmData>>
    BY <2>2, ErrorTellsStays DEF CoreInv, FlowInv
  <2> QED
    BY <1>2, <2>1, <2>2
<1> QED
  BY <1>1, <1>2, <1>3, QuietFlow, DataStays DEF CoreInv, Flows

LEMMA LoopExitFlows ==
    ASSUME CoreInv, LoopExit
    PROVE  Flows
<1>1. /\ pc = Label("loop") /\ error' = error /\ UNCHANGED <<code, vmData, ip, r13>>
      /\ halted \/ ~IpInside
  BY DEF LoopExit, At, vmRest, frame
<1>2. pc[1] \notin Ending
  BY <1>1 DEF Label, Ending
<1>3. ~halted /\ error = "OK"
  BY <1>2, NothingRecorded DEF CoreInv, IInv
<1>4. pc' = Label("err_ip") /\ ~IpInside
  BY <1>1, <1>3 DEF LoopExit
<1>5. code \in Seq(Instruction)
  BY ProgramsAssumption DEF CoreInv, DataInv
<1>6. ip' = Len(code)'
  BY <1>1, <1>4, <1>5 DEF CoreInv, DataInv, IpInside
<1>7. ~Running' /\ pc'[1] \notin Failing
  BY <1>4, NamesApart DEF Label, Running, OnRoute, Failing
<1>8. FlowInv'
  BY <1>1, <1>3, <1>6, <1>7 DEF FlowInv, ErrorTells
<1> QED
  BY <1>1, <1>8, DataStays DEF CoreInv, Flows

LEMMA DispatchFlows ==
    ASSUME CoreInv, Dispatch
    PROVE  Flows
<1>1. /\ pc = Label("loop") /\ error' = error /\ UNCHANGED <<code, vmData>>
      /\ r13' = ip /\ ip' = ip + 1 /\ IpInside
      /\ pc' = IF code[ip + 1].op = "INVALID" THEN Label("err_bad_opcode")
               ELSE After(code[ip + 1].op, 0)
  BY DEF Dispatch, At, vmRest
<1>2. pc[1] \notin Ending
  BY <1>1 DEF Label, Ending
<1>3. error = "OK"
  BY <1>2, NothingRecorded DEF CoreInv, IInv
<1>4. code \in Seq(Instruction) /\ ip \in Nat /\ ip + 1 \in 1 .. Len(code)
  BY <1>1, ProgramsAssumption DEF CoreInv, DataInv, IpInside
<1>5. Fetching' /\ DataInv' /\ Ins' = code[ip + 1] /\ code[ip + 1] \in Instruction
  BY <1>1, <1>4 DEF Fetching, CoreInv, DataInv, vmData, Ins
<1>6. Ins'.op \in Opcode \cup {"INVALID"}
  BY <1>5 DEF Instruction
<1>7. CASE Ins'.op = "INVALID"
  <2>1. pc' = Label("err_bad_opcode") /\ Cause("err_bad_opcode")'
    BY <1>1, <1>5, <1>7 DEF Cause
  <2>2. "err_bad_opcode" \in Failing
    BY DEF Failing, ErrorOf
  <2> QED
    BY <1>1, <1>3, <1>5, <2>1, <2>2, FailedFlow DEF Flows
<1>8. CASE Ins'.op # "INVALID"
  <2>1. PICK op \in Opcode : pc' = After(op, 0) /\ Ins'.op = op
    BY <1>1, <1>5, <1>6, <1>8
  <2>2. PICK m \in Names \cup {"loop"} :
           Starts(op, m) /\ m = NextName(op, 0) /\ Len(Route(op)) \in Nat
    BY RouteStart
  <2>3. \/ pc' = Label("loop") /\ m = "loop"
        \/ /\ m \in Names /\ OnRoute' /\ Name' = m /\ pc'[1] \notin Helpers
           /\ \E k \in 1 .. Len(Route(op)) : AtPosition(k)'
    <3>1. CASE 0 >= Len(Route(op))
      BY <2>1, <2>2, <3>1 DEF After, NextName
    <3>2. CASE 0 < Len(Route(op))
      <4>1. pc' = <<op, 1>> /\ m = Route(op)[1] /\ 1 \in 1 .. Len(Route(op))
        BY <2>1, <2>2, <3>2 DEF After, NextName
      <4>2. pc'[1] = op /\ pc'[2] = 1 /\ pc'[1] \notin Helpers
        BY <2>1, <4>1, NamesApart
      <4>3. OnRoute' /\ Name' = Route(op)[1] /\ AtPosition(1)'
        BY <2>1, <4>1, <4>2 DEF OnRoute, Name, Here, AtPosition
      <4>4. m \in Names
        BY <2>1, <4>1, RouteStep
      <4> QED
        BY <4>1, <4>2, <4>3, <4>4
    <3> QED
      BY <2>2, <3>1, <3>2
  <2>4. m # "loop" => Carried(Ins.op, m)'
    <3>1. CASE m \in {"load_reg_a_index", "halt", "test"}
      <4>1. m = "test" => op \notin FirstRegOps /\ op \notin SecondRegOps /\ op \notin Saving
        BY <2>2, <3>1
        DEF Starts, FirstRegOps, SecondRegOps, RegOps, Saving, JumpOps, Opcode, AluOps,
            ImmOps,
            CmpOps, UnaryOps
      <4>2. m = "halt" => op \notin FirstRegOps /\ op \notin SecondRegOps /\ op \notin Saving
        BY <2>2, <3>1
        DEF Starts, FirstRegOps, SecondRegOps, RegOps, Saving, JumpOps, Opcode, AluOps,
            ImmOps,
            CmpOps, UnaryOps
      <4> QED
        BY <2>1, <3>1, <4>1, <4>2 DEF Carried, Checked, Indexed, Targeted, PoppedAt
    <3>2. CASE m \in {"check_jump_imm", "pop_rax"}
      <4>1. /\ op \notin FirstRegOps /\ op \notin SecondRegOps /\ op \notin Saving
            /\ op \in {"JMP", "CALL", "RET"} /\ (op \in JumpOps => op = "JMP")
        BY <2>2, <3>2
        DEF Starts, FirstRegOps, SecondRegOps, RegOps, Saving, JumpOps, Opcode, AluOps,
            ImmOps,
            CmpOps, UnaryOps
      <4>2. op \in JumpOps => Taken'
        BY <2>1, <4>1 DEF Taken
      <4> QED
        BY <2>1, <3>2, <4>1, <4>2 DEF Carried, Checked, Indexed, Targeted, PoppedAt
    <3> QED
      BY <2>2, <3>1, <3>2 DEF Starts
  <2>5. FlowInv'
    <3>1. CASE m = "loop"
      <4>1. pc' = Label("loop")
        BY <2>3, <3>1, NamesApart
      <4> QED
        BY <1>1, <1>3, <4>1, QuietFlow DEF ErrorTells
    <3>2. CASE m # "loop"
      <4>1. /\ OnRoute' /\ Name' = m /\ pc'[1] \notin Helpers
            /\ \E k \in 1 .. Len(Route(Ins.op))' : AtPosition(k)'
        BY <2>1, <2>3, <3>2
      <4>2. ~At("err_ip")' /\ pc'[1] \notin Failing
        BY <4>1, NamesApart DEF OnRoute, At, Label
      <4> QED
        BY <1>1, <1>3, <1>5, <2>1, <2>4, <3>2, <4>1, <4>2 DEF FlowInv, ErrorTells
    <3> QED
      BY <3>1, <3>2
  <2> QED
    BY <1>5, <2>5 DEF Flows
<1> QED
  BY <1>6, <1>7, <1>8

(* The cause of each label is what its error stands for. *)
LEMMA CauseFails ==
    ASSUME NEW l \in DOMAIN ErrorOf \ {"err_ip"}, Cause(l)
    PROVE  FailsWith(ErrorOf[l])
<1>1. Cause("err_bad_opcode") => FailsWith("BAD_OPCODE")
  BY DEF Cause, FailsWith
<1>2. Cause("err_bad_register") => FailsWith("BAD_REGISTER")
  BY DEF Cause, FailsWith
<1>3. Cause("err_div_zero") => FailsWith("DIV_ZERO")
  BY DEF Cause, FailsWith
<1>4. Cause("err_bad_shift") => FailsWith("BAD_SHIFT")
  BY DEF Cause, FailsWith
<1>5. Cause("err_memory_oob") => FailsWith("MEMORY_OOB")
  BY DEF Cause, FailsWith
<1>6. Cause("err_stack_overflow") => FailsWith("STACK_OVERFLOW")
  BY DEF Cause, FailsWith
<1>7. Cause("err_stack_underflow") => FailsWith("STACK_UNDERFLOW")
  BY DEF Cause, FailsWith
<1>8. Cause("err_bad_jump") => FailsWith("BAD_JUMP")
  BY DEF Cause, FailsWith
<1> QED
  BY <1>1, <1>2, <1>3, <1>4, <1>5, <1>6, <1>7, <1>8 DEF ErrorOf

LEMMA ErrorPathFlows ==
    ASSUME CoreInv, ErrorPath
    PROVE  Flows
<1>1. /\ pc[1] \in DOMAIN ErrorOf /\ error' = ErrorOf[pc[1]] /\ pc' = Label("error_return")
      /\ UNCHANGED <<code, vmData, ip, r13>>
  BY DEF ErrorPath, frame
<1>2. pc[1] \in Failing => Cause(pc[1])
  BY DEF CoreInv, FlowInv
<1>3. pc[1] = "err_ip" => ip = Len(code)
  <2>1. pc[1] = "err_ip" => At("err_ip")
    BY LabelsApart
    DEF CoreInv, IInv, NativeInv, Plain, Helped, ReturnPoint, Aligned, At, Label, ErrorOf,
        Returning
  <2> QED
    BY <2>1 DEF CoreInv, FlowInv
<1>4. Explains(ErrorOf[pc[1]])
  <2>1. CASE pc[1] = "err_ip"
    BY <1>3, <2>1 DEF Explains, ErrorOf
  <2>2. CASE pc[1] \in DOMAIN ErrorOf \ {"err_ip"}
    <3>1. pc[1] \in Failing
      BY <2>2 DEF Failing
    <3>2. /\ Cause(pc[1]) /\ ip = r13 + 1
          /\ pc[1] \notin {"err_bad_opcode", "err_bad_register"} => ~BadRegister(Ins)
      BY <3>1 DEF CoreInv, FlowInv, Fetching
    <3>3. ErrorOf[pc[1]] # "IP_OUT_OF_BOUNDS"
          /\ (ErrorOf[pc[1]] \notin {"BAD_OPCODE", "BAD_REGISTER"}
                => pc[1] \notin {"err_bad_opcode", "err_bad_register"})
      BY <2>2 DEF ErrorOf
    <3>4. FailsWith(ErrorOf[pc[1]])
      BY <2>2, <3>2, CauseFails DEF ErrorOf
    <3> QED
      BY <3>2, <3>3, <3>4 DEF Explains
  <2> QED
    BY <1>1, <2>1, <2>2
<1>5. pc[1] # "err_ip" => Fetching /\ Fetching'
  BY <1>1 DEF CoreInv, FlowInv, Fetching, Failing
<1>6. ErrorTells'
  <2>1. Ins' = Ins /\ Operand' = Operand /\ Taken' = Taken /\ PoppedValue' = PoppedValue
    BY <1>1 DEF Ins, Operand, Taken, PoppedValue, vmData
  <2>2. PICK e : /\ e = ErrorOf[pc[1]] /\ error' = e /\ Explains(e)
                 /\ pc[1] = "err_ip" => e = "IP_OUT_OF_BOUNDS"
    BY <1>1, <1>4 DEF ErrorOf
  <2>3. FailsWith(e)' = FailsWith(e)
    BY <1>1, <2>1 DEF FailsWith, vmData
  <2>4. Explains(e)'
    BY <1>1, <2>1, <2>2, <2>3 DEF Explains
  <2> QED
    BY <1>5, <2>2, <2>4 DEF ErrorTells
<1> QED
  BY <1>1, <1>6, QuietFlow, DataStays DEF CoreInv, Flows

LEMMA InitFlow == Init => CoreInv
<1>1. SUFFICES ASSUME Init PROVE CoreInv
  OBVIOUS
<1>2. DataInv
  <2>1. 0 \in Value /\ 0 \in Byte
    BY ZeroIsValue, PlacePositive, ByteBitsInWord DEF Byte
  <2>2. code \in Seq(Instruction)
    BY <1>1, ProgramsAssumption DEF Init
  <2>3. MemorySize \in Nat /\ MemorySize % ValueSize = 0
    BY MachineAssumption
  <2>4. /\ regs \in [Register -> Value] /\ memory \in [Address -> Byte]
        /\ sp = MemorySize /\ zf \in BOOLEAN /\ ip = 0 /\ code \in Programs
    BY <1>1, <2>1 DEF Init
  <2> QED
    BY <2>2, <2>3, <2>4 DEF DataInv
<1>3. FlowInv
  <2>1. pc[1] = "entry" /\ error = "OK"
    BY <1>1 DEF Init, Label
  <2>2. ~Running /\ pc[1] \notin Failing /\ ~At("err_ip")
    BY <2>1, LabelsApart DEF Running, OnRoute, Failing, At, Label, ErrorOf
  <2> QED
    BY <2>1, <2>2, TellsNothing DEF FlowInv
<1> QED
  BY <1>1, <1>2, <1>3, InitEstablishes DEF CoreInv

LEMMA StutterFlows ==
    ASSUME CoreInv, UNCHANGED vars
    PROVE  Flows
<1>1. UNCHANGED <<code, regs, ip, zf, error, memory, sp, pc, native, rax, rbx, r14, r15, r13>>
  BY DEF vars
<1>2. DataInv'
  BY <1>1 DEF CoreInv, DataInv
<1>3. /\ Ins' = Ins /\ Running' = Running /\ Name' = Name /\ Fetching' = Fetching
      /\ \A k : AtPosition(k)' = AtPosition(k)
      /\ At("err_ip")' = At("err_ip")
  BY <1>1 DEF Ins, Running, OnRoute, Name, Here, Fetching, AtPosition, At
<1>4. Operand' = Operand /\ Taken' = Taken /\ PoppedValue' = PoppedValue
  BY <1>1 DEF Operand, Taken, PoppedValue, Ins
<1>5. \A op, n : Carried(op, n)' = Carried(op, n)
  BY <1>1, <1>3, <1>4 DEF Carried, Checked, Indexed, Targeted
<1>6. \A label : Cause(label)' = Cause(label)
  BY <1>1, <1>3, <1>4 DEF Cause
<1>7. ErrorTells'
  BY ErrorTellsStays DEF CoreInv, FlowInv, vars, vmData
<1>8. FlowInv'
  BY <1>1, <1>3, <1>5, <1>6, <1>7 DEF CoreInv, FlowInv
<1> QED
  BY <1>2, <1>8 DEF Flows

LEMMA CoreKeeps == CoreInv /\ [Next]_vars => CoreInv'
<1>1. SUFFICES ASSUME CoreInv, [Next]_vars PROVE CoreInv'
  OBVIOUS
<1>2. IInv'
  BY <1>1, NextKeeps DEF CoreInv
<1>3. Flows
  <2>1. CASE Prologue \/ Return \/ Epilogue \/ Halt
    BY <1>1, <2>1, WayOutFlows
  <2>2. CASE LoopExit  BY <1>1, <2>2, LoopExitFlows
  <2>3. CASE Dispatch  BY <1>1, <2>3, DispatchFlows
  <2>4. CASE ErrorPath  BY <1>1, <2>4, ErrorPathFlows
  <2>5. CASE CallHelper  BY <1>1, <2>5, CallFlows
  <2>6. CASE LoadRegIndex  BY <1>1, <2>6, LoadRegIndexFlows
  <2>7. CASE CheckJumpImm  BY <1>1, <2>7, CheckJumpImmFlows
  <2>8. CASE CheckJumpRax  BY <1>1, <2>8, CheckJumpRaxFlows
  <2>9. CASE CheckRbx  BY <1>1, <2>9, CheckRbxFlows
  <2>10. CASE PushRax  BY <1>1, <2>10, PushRaxFlows
  <2>11. CASE PopRax  BY <1>1, <2>11, PopRaxFlows
  <2>12. CASE SetZfFromRax  BY <1>1, <2>12, SetZfFlows
  <2>13. CASE SaveIndex  BY <1>1, <2>13, SaveIndexFlows
  <2>14. CASE Alu \/ Bitwise \/ Divide \/ ShiftReg \/ LoadReg \/ WritePopped
    BY <1>1, <2>14, WritingBlocksFlow
  <2>15. CASE OperandToRbx  BY <1>1, <2>15, OperandToRbxFlows
  <2>16. CASE DivideStops  BY <1>1, <2>16, DivideStopsFlows
  <2>17. CASE StoreReg \/ Compare \/ GotoReg \/ Unalign
    BY <1>1, <2>17, LastBlocksFlow
  <2>18. CASE FetchReg  BY <1>1, <2>18, FetchRegFlows
  <2>19. CASE Test  BY <1>1, <2>19, TestFlows
  <2>20. CASE SaveTarget  BY <1>1, <2>20, SaveTargetFlows
  <2>21. CASE EmitPrint  BY <1>1, <2>21, PrintFlows
  <2>22. CASE UNCHANGED vars  BY <1>1, <2>22, StutterFlows
  <2> QED
    BY <1>1, <2>1, <2>2, <2>3, <2>4, <2>5, <2>6, <2>7, <2>8, <2>9, <2>10, <2>11, <2>12,
       <2>13,
       <2>14, <2>15, <2>16, <2>17, <2>18, <2>19, <2>20, <2>21, <2>22 DEF Next, Step, Ended
<1> QED
  BY <1>2, <1>3 DEF CoreInv, Flows

LEMMA CoreInvariance == Spec => []CoreInv
BY InitFlow, CoreKeeps, PTL DEF Spec

(* The report is made once, of a machine that changes no more. *)
RunInv == CoreInv /\ ReportInv

LEMMA RunKeeps == RunInv /\ [RunNext]_runVars => RunInv'
<1>1. SUFFICES ASSUME RunInv, [RunNext]_runVars PROVE RunInv'
  OBVIOUS
<1>2. [Next]_vars
  BY <1>1 DEF RunNext, Execution, Report, RunEnded, runVars, Next
<1>3. CoreInv'
  BY <1>1, <1>2, CoreKeeps DEF RunInv
<1>4. ReportInv'
  <2>1. CASE Execution
    <3>1. ~At("returned")
      <4>1. SUFFICES ASSUME At("returned") PROVE FALSE
        OBVIOUS
      <4>2. pc[1] = "returned"
        BY <4>1 DEF At, Label
      <4>3. ~OnRoute /\ pc[1] \notin Helpers /\ pc[1] \notin DOMAIN ErrorOf
        BY <4>2, LabelsApart DEF OnRoute
      <4>4. /\ Prologue => pc[1] = "entry"
            /\ LoopExit \/ Dispatch => pc[1] = "loop"
            /\ ErrorPath => pc[1] \in DOMAIN ErrorOf
            /\ Return => pc[1] \in {"ok_return", "error_return"}
            /\ Epilogue => pc[1] = "finish"
            /\ CallHelper => OnRoute
        BY DEF Prologue, LoopExit, Dispatch, ErrorPath, Return, Epilogue, CallHelper, At,
           Label
      <4>5. LoadRegIndex \/ CheckJumpImm \/ CheckJumpRax \/ CheckRbx \/ PushRax \/ PopRax
              \/ SetZfFromRax => pc[1] \in Helpers
        BY DEF LoadRegIndex, CheckJumpImm, CheckJumpRax, CheckRbx, PushRax, PopRax,
               SetZfFromRax, At, Label, Helpers
      <4>6. SaveIndex \/ Alu \/ Bitwise \/ OperandToRbx \/ Divide \/ DivideStops \/ ShiftReg
              \/ LoadReg \/ StoreReg \/ WritePopped \/ FetchReg \/ Compare \/ Test
              \/ GotoReg \/ SaveTarget \/ EmitPrint \/ Unalign \/ Halt => OnRoute
        BY DEF SaveIndex, Alu, Bitwise, OperandToRbx, Divide, DivideStops, ShiftReg,
               LoadReg, StoreReg, WritePopped, FetchReg, Compare, Test, GotoReg, SaveTarget,
               EmitPrint, Unalign, Halt, InBlock
      <4> QED
        BY <2>1, <4>2, <4>3, <4>4, <4>5, <4>6 DEF Execution, Step
    <3>2. report = NoReport
      BY <1>1, <3>1 DEF RunInv, ReportInv
    <3> QED
      BY <2>1, <3>2 DEF Execution, ReportInv
  <2>2. CASE Report
    <3>1. At("returned") /\ Loadable(code) /\ UNCHANGED vars
          /\ report' = IF ExecuteResult # "OK"
                       THEN [exit |-> "CLI_ERR", error |-> ExecuteResult, ip |-> ip]
                       ELSE [exit |-> "CLI_OK", error |-> "OK", ip |-> 0]
      BY <2>2 DEF Report
    <3>2. At("returned")' /\ Loadable(code)' /\ ExecuteResult' = ExecuteResult
      BY <3>1 DEF vars, At, ExecuteResult, Loadable
    <3>3. /\ report'.error = ExecuteResult
          /\ (report'.exit = "CLI_OK") = (ExecuteResult = "OK")
      BY <3>1
    <3> QED
      BY <3>2, <3>3 DEF ReportInv
  <2>3. CASE UNCHANGED runVars
    <3>1. ExecuteResult' = ExecuteResult /\ Loadable(code)' = Loadable(code)
      BY <2>3 DEF runVars, vars, ExecuteResult, Loadable
    <3> QED
      BY <1>1, <2>3, <3>1 DEF RunInv, ReportInv, runVars, vars, At
  <2> QED
    BY <1>1, <2>1, <2>2, <2>3 DEF RunNext, RunEnded
<1> QED
  BY <1>3, <1>4 DEF RunInv

LEMMA RunInvariance == RunSpec => []RunInv
<1>1. RunInit => RunInv
  BY InitFlow DEF RunInit, RunInv, ReportInv
<1> QED
  BY <1>1, RunKeeps, PTL DEF RunSpec

(* What loading refuses: an instruction of a loaded program exists. *)
LEMMA LoadableExists ==
    ASSUME Loadable(code), NEW i \in 1 .. Len(code)
    PROVE  code[i].op # "INVALID" /\ ~BadRegister(code[i])
<1> DEFINE ins == code[i]
<1>1. RefusableFor(code, ins)
  BY DEF Loadable
<1> HIDE DEF ins
<1>2. ins.op # "INVALID" /\ InstructionRegistersValid(ins)
  BY <1>1 DEF RefusableFor, ValidateIns
<1>3. ins.op \in FirstRegOps => ValidReg(ins.a)
  BY <1>2 DEF InstructionRegistersValid, ValidatesNoReg, ValidatesOneReg, ValidatesTwoRegs,
              FirstRegOps
<1>4. ins.op \in SecondRegOps => ValidReg(ins.b)
  BY <1>2 DEF InstructionRegistersValid, ValidatesNoReg, ValidatesOneReg, ValidatesTwoRegs,
              SecondRegOps, RegOps
<1> QED
  BY <1>2, <1>3, <1>4 DEF BadRegister, ins

(* wai_vm_execute succeeds exactly when the program halted, and otherwise  *)
(* returns the error that the instruction at which the core left its loop  *)
(* really has, over the machine it left; `waivm run` reports that, and     *)
(* never an opcode or a register that does not exist.                      *)
THEOREM ExitCodeTellsOutcome == RunSpec => []ExitTellsOutcome
<1>1. ASSUME RunInv, At("returned")
      PROVE  /\ halted \in BOOLEAN /\ (ExecuteResult = "OK") = halted
             /\ ExecuteResult # "OK" => Explains(ExecuteResult)
  <2>1. (result = 0) = halted /\ (error = "OK") = halted /\ halted \in BOOLEAN
    BY <1>1 DEF RunInv, CoreInv, IInv, OutcomeInv, At, Label
  <2>2. ExecuteResult = error
    BY <2>1 DEF ExecuteResult
  <2> QED
    BY <1>1, <2>1, <2>2 DEF RunInv, CoreInv, FlowInv, ErrorTells
<1>2. ASSUME RunInv, report # NoReport
      PROVE  /\ (report.exit = "CLI_OK") = halted
             /\ report.error # "OK" => Explains(report.error)
             /\ report.error \notin {"BAD_OPCODE", "BAD_REGISTER"}
  <2>1. /\ At("returned") /\ Loadable(code) /\ report.error = ExecuteResult
        /\ (report.exit = "CLI_OK") = (ExecuteResult = "OK")
    BY <1>2 DEF RunInv, ReportInv
  <2>2. (report.exit = "CLI_OK") = halted /\ (report.error # "OK" => Explains(report.error))
    BY <1>1, <1>2, <2>1
  <2>3. ASSUME report.error \in {"BAD_OPCODE", "BAD_REGISTER"} PROVE FALSE
    <3>1. Explains(report.error)
      BY <2>2, <2>3
    <3>2. ip = r13 + 1 /\ (Ins.op = "INVALID" \/ BadRegister(Ins))
      BY <2>3, <3>1 DEF Explains, FailsWith
    <3>3. ip \in 1 .. Len(code)
      <4>1. report.error = error
        BY <2>1, <2>3 DEF ExecuteResult
      <4>2. Fetching /\ code \in Seq(Instruction)
        BY <1>2, <2>3, <4>1, ProgramsAssumption
        DEF RunInv, CoreInv, DataInv, FlowInv, ErrorTells
      <4> QED
        BY <4>2 DEF Fetching
    <3>4. Ins = code[ip]
      BY <3>2 DEF Ins
    <3> QED
      BY <2>1, <3>2, <3>3, <3>4, LoadableExists
  <2> QED
    BY <2>2, <2>3
<1>3. RunInv => ExitTellsOutcome
  BY <1>1, <1>2 DEF ExitTellsOutcome
<1> QED
  BY RunInvariance, <1>3, PTL
=============================================================================
