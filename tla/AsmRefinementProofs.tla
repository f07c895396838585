------------------------- MODULE AsmRefinementProofs -------------------------
(***************************************************************************)
(* The NASM core implements the stepping engine of vm.c, for every word    *)
(* width, register count, memory size and set of nonempty programs: the    *)
(* refinement that AsmRefinement states, step by step.                     *)
(***************************************************************************)
EXTENDS AsmCoreProofs

----------------------------------------------------------------------------
(* The stepper computes with the same words, opcodes and checks. *)
LEMMA SamePlaces ==
    /\ Stepper!Place = Place /\ Stepper!WordBits = WordBits
    /\ \A t, n : Stepper!RunningSum(t, n) = RunningSum(t, n)
<1>1. Stepper!WordBits = WordBits
  BY DEF Stepper!WordBits, WordBits
<1>2. Stepper!Place = Place
  BY DEF Stepper!Place, Place, Stepper!WordBits, WordBits
<1>3. \A t, n : Stepper!RunningSum(t, n) = RunningSum(t, n)
  BY DEF Stepper!RunningSum, RunningSum
<1> QED
  BY <1>1, <1>2, <1>3

LEMMA SameWords ==
    /\ Stepper!Modulus = Modulus /\ Stepper!Half = Half
    /\ Stepper!ByteIndex = ByteIndex /\ Stepper!BitIndex = BitIndex
    /\ \A u : Stepper!Unsigned(u) = Unsigned(u) /\ Stepper!Signed(u) = Signed(u)
    /\ \A v, i : Stepper!ByteOf(v, i) = ByteOf(v, i)
<1>1. Stepper!Modulus = Modulus /\ Stepper!Half = Half
  BY SamePlaces DEF Stepper!Modulus, Modulus, Stepper!Half, Half
<1>2. Stepper!ByteIndex = ByteIndex /\ Stepper!BitIndex = BitIndex
  BY SamePlaces DEF Stepper!ByteIndex, ByteIndex, Stepper!BitIndex, BitIndex
<1>3. \A u : Stepper!Unsigned(u) = Unsigned(u) /\ Stepper!Signed(u) = Signed(u)
  BY <1>1 DEF Stepper!Unsigned, Unsigned, Stepper!Signed, Signed
<1>4. \A v, i : Stepper!ByteOf(v, i) = ByteOf(v, i)
  BY <1>3, SamePlaces DEF Stepper!ByteOf, ByteOf
<1> QED
  BY <1>1, <1>2, <1>3, <1>4

LEMMA SameBits ==
    /\ \A S : Stepper!FromBits(S) = FromBits(S)
    /\ \A v : Stepper!BitsOf(v) = BitsOf(v)
<1>1. \A v : Stepper!BitsOf(v) = BitsOf(v)
  BY SameWords, SamePlaces DEF Stepper!BitsOf, BitsOf
<1>2. \A S : [k \in BitIndex |-> IF k \in S THEN Stepper!Place[k] ELSE 0]
               = [k \in BitIndex |-> IF k \in S THEN Place[k] ELSE 0]
  BY SamePlaces
<1>3. \A S : Stepper!FromBits(S) = FromBits(S)
  BY <1>2, SameWords, SamePlaces DEF Stepper!FromBits, FromBits
<1> QED
  BY <1>1, <1>3

LEMMA SameLogic ==
    /\ \A v, w : /\ Stepper!And(v, w) = And(v, w) /\ Stepper!Or(v, w) = Or(v, w)
                 /\ Stepper!Xor(v, w) = Xor(v, w)
    /\ \A v : Stepper!Not(v) = Not(v)
BY SameBits, SameWords
DEF Stepper!And, And, Stepper!Or, Or, Stepper!Xor, Xor, Stepper!Not, Not

LEMMA SameArithmetic ==
    \A v, w : /\ Stepper!Shl(v, w) = Shl(v, w) /\ Stepper!Shr(v, w) = Shr(v, w)
              /\ Stepper!Quot(v, w) = Quot(v, w) /\ Stepper!Rem(v, w) = Rem(v, w)
              /\ Stepper!DivOverflows(v, w) <=> DivOverflows(v, w)
<1>1. \A v : Stepper!Abs(v) = Abs(v)
  BY DEF Stepper!Abs, Abs
<1>2. \A v, w : Stepper!Quot(v, w) = Quot(v, w) /\ Stepper!Rem(v, w) = Rem(v, w)
  BY <1>1 DEF Stepper!Quot, Quot, Stepper!Rem, Rem
<1>3. \A v, w : Stepper!Shl(v, w) = Shl(v, w) /\ Stepper!Shr(v, w) = Shr(v, w)
  BY SameWords, SamePlaces DEF Stepper!Shl, Shl, Stepper!Shr, Shr
<1>4. \A v, w : Stepper!DivOverflows(v, w) <=> DivOverflows(v, w)
  BY SameWords DEF Stepper!DivOverflows, DivOverflows, Stepper!MinValue, MinValue
<1> QED
  BY <1>2, <1>3, <1>4

LEMMA SameOpcodes ==
    /\ Stepper!AluOps = AluOps /\ Stepper!BitOps = BitOps /\ Stepper!DivOps = DivOps
    /\ Stepper!ShiftOps = ShiftOps /\ Stepper!CmpOps = CmpOps /\ Stepper!LoadOps = LoadOps
    /\ Stepper!StoreOps = StoreOps /\ Stepper!JumpOps = JumpOps
    /\ Stepper!Opcode = Opcode
    /\ Stepper!FirstRegOps = FirstRegOps /\ Stepper!SecondRegOps = SecondRegOps
<1>1. /\ Stepper!ImmOps = ImmOps /\ Stepper!RegOps = RegOps /\ Stepper!UnaryOps = UnaryOps
      /\ Stepper!BitOps = BitOps /\ Stepper!DivOps = DivOps
      /\ Stepper!ShiftOps = ShiftOps /\ Stepper!CmpOps = CmpOps /\ Stepper!LoadOps = LoadOps
      /\ Stepper!StoreOps = StoreOps /\ Stepper!JumpOps = JumpOps
  BY DEF Stepper!ImmOps, ImmOps, Stepper!RegOps, RegOps, Stepper!UnaryOps, UnaryOps,
         Stepper!BitOps, BitOps, Stepper!DivOps, DivOps, Stepper!ShiftOps, ShiftOps,
         Stepper!CmpOps, CmpOps, Stepper!LoadOps, LoadOps, Stepper!StoreOps, StoreOps,
         Stepper!JumpOps, JumpOps
<1>2. Stepper!AluOps = AluOps
  BY <1>1 DEF Stepper!AluOps, AluOps
<1>3. Stepper!SecondRegOps = SecondRegOps
  BY <1>1 DEF Stepper!SecondRegOps, SecondRegOps
<1>4. Stepper!Opcode = Opcode
  BY <1>1, <1>2 DEF Stepper!Opcode, Opcode
<1>5. Stepper!FirstRegOps = FirstRegOps
  BY <1>4 DEF Stepper!FirstRegOps, FirstRegOps
<1> QED
  BY <1>1, <1>2, <1>3, <1>4, <1>5

LEMMA SameChecks ==
    /\ \A i : Stepper!BadRegister(i) <=> BadRegister(i)
    /\ \A v : /\ Stepper!BadAddress(v) <=> BadAddress(v)
              /\ Stepper!BadShift(v) <=> BadShift(v)
    /\ \A c, v : Stepper!BadTarget(c, v) <=> BadTarget(c, v)
<1>1. \A i : Stepper!BadRegister(i) <=> BadRegister(i)
  BY SameOpcodes DEF Stepper!BadRegister, BadRegister, Stepper!ValidReg, ValidReg
<1>2. \A v : /\ Stepper!BadAddress(v) <=> BadAddress(v)
             /\ Stepper!BadShift(v) <=> BadShift(v)
  BY SamePlaces DEF Stepper!BadAddress, BadAddress, Stepper!BadShift, BadShift
<1>3. \A c, v : Stepper!BadTarget(c, v) <=> BadTarget(c, v)
  BY DEF Stepper!BadTarget, BadTarget
<1> QED
  BY <1>1, <1>2, <1>3

LEMMA SameMemory ==
    /\ Stepper!Address = Address /\ Stepper!Register = Register
    /\ \A m, x : Stepper!LoadFrom(m, x) = LoadFrom(m, x)
    /\ \A m, x, v : Stepper!StoreTo(m, x, v) = StoreTo(m, x, v)
<1>1. Stepper!Address = Address /\ Stepper!Register = Register
  BY DEF Stepper!Address, Address, Stepper!Register, Register
<1>2. \A b : Stepper!FromBytes(b) = FromBytes(b)
  <2>1. \A b : [i \in ByteIndex |-> b[i] * Stepper!Place[ByteBits * i]]
                 = [i \in ByteIndex |-> b[i] * Place[ByteBits * i]]
    BY SamePlaces
  <2> QED
    BY <2>1, SameWords, SamePlaces DEF Stepper!FromBytes, FromBytes
<1>3. \A m, x : Stepper!LoadFrom(m, x) = LoadFrom(m, x)
  BY <1>2, SameWords DEF Stepper!LoadFrom, LoadFrom
<1>4. \A m, x, v : Stepper!StoreTo(m, x, v) = StoreTo(m, x, v)
  BY <1>1, SameWords DEF Stepper!StoreTo, StoreTo
<1> QED
  BY <1>1, <1>3, <1>4

LEMMA SameResults ==
    \A op, v, w :
        /\ Stepper!AluResult(op, v, w) = AluResult(op, v, w)
        /\ Stepper!DivResult(op, v, w) = DivResult(op, v, w)
        /\ Stepper!ShiftResult(op, v, w) = ShiftResult(op, v, w)
<1>1. \A op, v, w : Stepper!AluResult(op, v, w) = AluResult(op, v, w)
  BY SameWords, SameLogic DEF Stepper!AluResult, AluResult
<1>2. \A op, v, w : Stepper!DivResult(op, v, w) = DivResult(op, v, w)
  BY SameArithmetic DEF Stepper!DivResult, DivResult
<1>3. \A op, v, w : Stepper!ShiftResult(op, v, w) = ShiftResult(op, v, w)
  BY SameArithmetic DEF Stepper!ShiftResult, ShiftResult
<1> QED
  BY <1>1, <1>2, <1>3

----------------------------------------------------------------------------
(* What the stepper sees of a state. *)
LEMMA PositionOf ==
    ASSUME CoreInv, Running
    PROVE  \E k \in 1 .. Len(Route(Ins.op)) : Route(Ins.op)[k] = Name /\ Position = k
<1> DEFINE op == Ins.op
<1>1. op \in Opcode
  BY DEF CoreInv, FlowInv
<1>2. PICK k \in 1 .. Len(Route(op)) : AtPosition(k)
  BY DEF CoreInv, FlowInv
<1>3. Route(op)[k] = Name
  BY <1>2 DEF AtPosition
<1>4. CASE pc[1] \in Helpers
  <2>1. native = Append(Frame, After(op, k)) /\ Name = pc[1]
    BY <1>2, <1>4 DEF AtPosition, Name
  <2>2. native[Len(native)] = After(op, k)
    <3>1. After(op, k) \in Slots
      BY <1>1, <1>3, <1>4, <2>1, AfterIsPlace
    <3> QED
      BY <2>1, <3>1, SlotOnTop
  <2>3. \A j \in 1 .. Len(Route(op)) : Route(op)[j] = pc[1] => j = k
    BY <1>1, <1>3, <2>1, RoutesLawful DEF Lawful, Distinct
  <2>4. Position = k
    BY <1>3, <1>4, <2>1, <2>2, <2>3 DEF Position
  <2> QED
    BY <1>3, <2>4
<1>5. CASE pc[1] \notin Helpers
  <2>1. pc = <<op, k>> /\ Position = pc[2]
    BY <1>2, <1>5 DEF AtPosition, Position
  <2> QED
    BY <1>3, <2>1
<1> QED
  BY <1>4, <1>5

LEMMA FlightOf ==
    ASSUME CoreInv, Running
    PROVE  /\ InFlight <=> Name \notin Settled
           /\ Popped <=> PoppedAt(Ins.op, Name)
           /\ ~Trapped /\ ~At("err_bad_jump")
<1> DEFINE op == Ins.op
<1>1. op \in Opcode
  BY DEF CoreInv, FlowInv
<1>2. PICK k \in 1 .. Len(Route(op)) : Route(op)[k] = Name /\ Position = k
  BY PositionOf
<1>3. /\ (\A j \in 1 .. (k - 1) : Route(op)[j] \notin Effects) <=> Name \notin Settled
      /\ (\E j \in 1 .. (k - 1) : Route(op)[j] = "pop_rax") <=> PoppedAt(op, Name)
  BY <1>1, <1>2, RoutesLawful DEF Lawful, Marked
<1>4. pc[1] \notin Failing /\ "err_bad_jump" \in Failing /\ "trap" \in Failing
  BY NamesApart DEF Running, OnRoute, Failing, ErrorOf
<1>5. ~Trapped /\ ~At("err_bad_jump")
  BY <1>4 DEF Trapped, At, Label
<1>6. pc[1] \notin (DOMAIN ErrorOf \ {"err_ip"}) \cup {"trap"}
  BY <1>4 DEF Failing
<1>7. (OnRoute \/ pc[1] \in Helpers) <=> TRUE
  BY DEF Running
<1>8. InFlight <=> \A j \in 1 .. (Position - 1) : Route(Ins.op)[j] \notin Effects
  BY <1>6, <1>7 DEF InFlight
<1>9. Popped <=> \E j \in 1 .. (Position - 1) : Route(Ins.op)[j] = "pop_rax"
  BY <1>5, <1>7 DEF Popped
<1> QED
  BY <1>2, <1>3, <1>5, <1>8, <1>9

(* ip, zf and sp of the stepper's machine, and that its process lives. *)
Sees(i, z, s) == SeenIp = i /\ SeenZf = z /\ SeenSp = s /\ ~Trapped

(* ... when name n of op's route is to run, or the loop. *)
SeesAt(op, n) ==
    CASE n = "set_zf_from_rax" -> Sees(ip, (rax = 0), sp)
      [] n = "goto_r15" -> Sees(r15, zf, sp)
      [] n \in {"unalign", "loop"} -> Sees(ip, zf, sp)
      [] OTHER -> Sees(r13, zf, IF PoppedAt(op, n) THEN sp - ValueSize ELSE sp)

LEMMA SeesName == CoreInv /\ Running => SeesAt(Ins.op, Name)
<1> SUFFICES ASSUME CoreInv, Running PROVE SeesAt(Ins.op, Name)
  OBVIOUS
<1> DEFINE op == Ins.op
<1>1. /\ InFlight <=> Name \notin Settled
      /\ Popped <=> PoppedAt(op, Name)
      /\ ~Trapped
  BY FlightOf
<1>2. /\ Fetching /\ op \in Opcode
      /\ \E k \in 1 .. Len(Route(op)) : Route(op)[k] = Name
  BY PositionOf DEF CoreInv, FlowInv
<1>3. Name # "loop"
  BY <1>2, RouteStep, NamesApart
<1>4. r13 \in Int /\ ip - 1 = r13
  BY <1>2, ProgramsAssumption DEF Fetching, CoreInv, DataInv
<1>5. SettingZf <=> Name = "set_zf_from_rax"
  <2>1. CASE pc[1] \in Helpers
    <3>1. ~InBlock("set_zf_from_rax") /\ Name = pc[1]
      BY <2>1, LabelsApart DEF InBlock, OnRoute, Name
    <3>2. pc = Label(pc[1])
      BY <2>1, HelperLabel DEF CoreInv, IInv
    <3> QED
      BY <3>1, <3>2 DEF SettingZf, At, Label
  <2>2. CASE pc[1] \notin Helpers
    <3>1. OnRoute /\ Name = Here
      BY <2>2 DEF Running, Name
    <3>2. ~At("set_zf_from_rax")
      BY <2>2 DEF At, Label, Helpers
    <3> QED
      BY <3>1, <3>2 DEF SettingZf, InBlock
  <2> QED
    BY <2>1, <2>2
<1>6. InBlock("goto_r15") <=> Name = "goto_r15"
  <2>1. CASE pc[1] \in Helpers
    <3>1. ~InBlock("goto_r15") /\ Name = pc[1]
      BY <2>1, LabelsApart DEF InBlock, OnRoute, Name
    <3> QED
      BY <2>1, <3>1 DEF Helpers
  <2>2. CASE pc[1] \notin Helpers
    BY <2>2 DEF Running, Name, InBlock
  <2> QED
    BY <2>1, <2>2
<1>7. SeenIp = IF Name \notin Settled THEN r13 ELSE IF Name = "goto_r15" THEN r15 ELSE ip
  BY <1>1, <1>4, <1>6 DEF SeenIp
<1>8. SeenZf = IF Name = "set_zf_from_rax" THEN rax = 0 ELSE zf
  BY <1>5 DEF SeenZf
<1>9. SeenSp = IF Name \notin Settled /\ PoppedAt(op, Name) THEN sp - ValueSize ELSE sp
  BY <1>1 DEF SeenSp
<1> QED
  BY <1>1, <1>3, <1>7, <1>8, <1>9 DEF SeesAt, Sees, Settled

(* Between instructions everything shows as it is. *)
LEMMA SeesBetween ==
    CoreInv /\ ~Running /\ pc[1] \notin Failing => Sees(ip, zf, sp)
<1> SUFFICES ASSUME CoreInv, ~Running, pc[1] \notin Failing PROVE Sees(ip, zf, sp)
  OBVIOUS
<1>1. ~InFlight
  BY DEF InFlight, Running, Failing
<1>2. ~SettingZf /\ ~InBlock("goto_r15")
  BY DEF SettingZf, InBlock, At, Label, Running, Helpers
<1>3. ~Trapped
  BY DEF Trapped, At, Label, Failing
<1> QED
  BY <1>1, <1>2, <1>3 DEF Sees, SeenIp, SeenZf, SeenSp

(* An instruction that failed shows as one not yet executed. *)
LEMMA SeesFailing ==
    CoreInv /\ pc[1] \in Failing =>
        /\ SeenIp = r13 /\ SeenZf = zf
        /\ SeenSp = IF pc[1] = "err_bad_jump" /\ Ins.op = "RET" THEN sp - ValueSize ELSE sp
        /\ Trapped <=> pc[1] = "trap"
<1> SUFFICES ASSUME CoreInv, pc[1] \in Failing
             PROVE  /\ SeenIp = r13 /\ SeenZf = zf
                    /\ SeenSp = IF pc[1] = "err_bad_jump" /\ Ins.op = "RET"
                                THEN sp - ValueSize ELSE sp
                    /\ Trapped <=> pc[1] = "trap"
  OBVIOUS
<1>1. InFlight
  BY DEF InFlight, Failing
<1>2. ~OnRoute /\ pc[1] \notin Helpers
  BY NamesApart DEF OnRoute
<1>3. ~SettingZf
  BY <1>2 DEF SettingZf, InBlock, At, Label, Helpers
<1>4. pc = Label(pc[1])
  <2>1. pc \notin Positions /\ pc # Aligned
    BY <1>2, LabelsApart DEF OnRoute, Aligned, Opcode, UnaryOps
  <2>2. \A l : pc = Label(l) => pc = Label(pc[1])
    BY DEF Label
  <2> QED
    BY <2>1, <2>2 DEF CoreInv, IInv, NativeInv, Plain, Helped, ReturnPoint, At
<1>5. (Popped <=> pc[1] = "err_bad_jump" /\ Ins.op = "RET") /\ (Trapped <=> pc[1] = "trap")
  BY <1>2, <1>4 DEF Popped, Trapped, At, Label
<1>6. ip - 1 = r13
  BY ProgramsAssumption DEF CoreInv, FlowInv, DataInv, Fetching
<1> QED
  BY <1>1, <1>3, <1>5, <1>6 DEF SeenIp, SeenZf, SeenSp

----------------------------------------------------------------------------
(* The steps of the stepper that one block makes.                          *)

LEMMA SeesNameNext == (CoreInv /\ Running => SeesAt(Ins.op, Name))'
BY SeesName, PTL

LEMMA SeesBetweenNext == (CoreInv /\ ~Running /\ pc[1] \notin Failing => Sees(ip, zf, sp))'
BY SeesBetween, PTL

LEMMA SeesFailingNext ==
    (CoreInv /\ pc[1] \in Failing =>
        /\ SeenIp = r13 /\ SeenZf = zf
        /\ SeenSp = IF pc[1] = "err_bad_jump" /\ Ins.op = "RET" THEN sp - ValueSize ELSE sp
        /\ Trapped <=> pc[1] = "trap")'
BY SeesFailing, PTL

LEMMA SeesMoved ==
    ASSUME CoreInv', NEW m \in Names \cup {"loop"}, MovesTo(m), Ins' = Ins
    PROVE  SeesAt(Ins.op, m)'
<1>1. CASE m = "loop"
  <2>1. pc' = Label("loop")
    BY <1>1, NamesApart DEF MovesTo
  <2>2. ~Running' /\ pc'[1] \notin Failing
    BY <2>1, LabelsApart DEF Label, Running, OnRoute, Failing, ErrorOf
  <2>3. Sees(ip, zf, sp)'
    BY <2>2, SeesBetweenNext
  <2> QED
    BY <1>1, <2>3 DEF SeesAt
<1>2. CASE m # "loop"
  <2>1. Running' /\ Name' = m
    BY <1>2 DEF MovesTo, Running
  <2> QED
    BY <2>1, SeesNameNext
<1> QED
  BY <1>1, <1>2

LEMMA SeesBlock ==
    ASSUME CoreInv, NEW n, InBlock(n)
    PROVE  SeesAt(Ins.op, n)
<1>1. Running /\ Name = n
  BY NamesApart DEF InBlock, OnRoute, Running, Name
<1> QED
  BY <1>1, SeesName

LEMMA SeesHelper ==
    ASSUME CoreInv, pc[1] \in Helpers
    PROVE  SeesAt(Ins.op, pc[1])
<1>1. Running /\ Name = pc[1]
  BY DEF Running, Name
<1> QED
  BY <1>1, SeesName

(* A step the stepper does not see. *)
shown == <<code, regs, memory, halted, error, last_print, print_count>>

(* What the stepper is about to do. *)
LEMMA Fetches ==
    ASSUME DataInv, Fetching, error = "OK", ~halted, SeenIp = r13, SeenZf = zf, ~Trapped
    PROVE  /\ Stepper!Ins = Ins /\ Stepper!Fetched
           /\ Stepper!Operand = Operand /\ (Stepper!Taken <=> Taken)
           /\ \A ops : Ins.op \in ops /\ ~BadRegister(Ins) => Stepper!Executing(ops)
<1>1. code \in Seq(Instruction) /\ r13 \in 0 .. (Len(code) - 1)
  BY ProgramsAssumption DEF DataInv, Fetching
<1>2. Stepper!Ins = Ins
  BY DEF Stepper!Ins, Ins
<1>3. code # <<>> /\ SeenIp < Len(code)
  BY <1>1
<1>4. Stepper!Fetched
  BY <1>3 DEF Stepper!Fetched, Stepper!Ready
<1>5. Stepper!Operand = Operand
  BY <1>2, SameOpcodes DEF Stepper!Operand, Operand
<1>6. Stepper!Taken <=> Taken
  BY <1>2 DEF Stepper!Taken, Taken
<1>7. \A ops : Ins.op \in ops /\ ~BadRegister(Ins) => Stepper!Executing(ops)
  BY <1>2, <1>4, SameChecks DEF Stepper!Executing
<1> QED
  BY <1>2, <1>4, <1>5, <1>6, <1>7

LEMMA BlockExecutes ==
    ASSUME CoreInv, NEW n, InBlock(n), n \notin Settled \cup {"loop"}
    PROVE  /\ SeenIp = r13 /\ SeenZf = zf /\ ~Trapped
           /\ SeenSp = IF PoppedAt(Ins.op, n) THEN sp - ValueSize ELSE sp
           /\ Stepper!Ins = Ins /\ Stepper!Operand = Operand /\ (Stepper!Taken <=> Taken)
           /\ n \notin {"load_reg_a_index", "save_index", "load_reg_b_index"} =>
                \A ops : Ins.op \in ops => Stepper!Executing(ops)
<1>1. /\ SeenIp = r13 /\ SeenZf = zf /\ ~Trapped
      /\ SeenSp = IF PoppedAt(Ins.op, n) THEN sp - ValueSize ELSE sp
  BY SeesBlock DEF SeesAt, Sees, Settled
<1>2. /\ DataInv /\ Fetching /\ error = "OK" /\ ~halted
      /\ n \notin {"load_reg_a_index", "save_index", "load_reg_b_index"} => ~BadRegister(Ins)
  BY AtBlock DEF CoreInv
<1> QED
  BY <1>1, <1>2, Fetches

(* A block that writes the result v of its instruction: the flag follows   *)
(* in the helper, and shows at once.                                       *)
LEMMA WriteSteps ==
    ASSUME CoreInv, CoreInv',
           NEW n \in {"alu", "bitwise", "divide", "shift", "load", "write_a"},
           InBlock(n), Proceed, NEW v \in Value, WriteReg(Ins.a, v)
    PROVE  /\ Stepper!SetReg(v) /\ Stepper!Advance
           /\ SeenSp' = sp /\ UNCHANGED <<memory, last_print, print_count>>
<1>1. Ins' = Ins /\ UNCHANGED <<code, halted, error, ip, sp, memory, last_print, print_count>>
      /\ rax' = v /\ regs' = [regs EXCEPT ![Ins.a] = v]
  BY DEF WriteReg, vmRest, frame, Ins
<1>2. PICK m \in Names \cup {"loop"} : Follows(Ins.op, n, m) /\ MovesTo(m)
  BY <1>1, BlockMoves DEF CoreInv
<1>3. m = "set_zf_from_rax"
  BY <1>2 DEF Follows, SetsZf, IsLast
<1>4. SeenIp' = ip' /\ SeenZf' = (rax' = 0) /\ SeenSp' = sp' /\ ~Trapped'
  BY <1>1, <1>2, <1>3, SeesMoved DEF SeesAt, Sees
<1>5. SeenIp = r13 /\ Stepper!Ins = Ins /\ ~Trapped
  BY BlockExecutes DEF Settled
<1>6. ip = r13 + 1
  BY AtBlock DEF Fetching
<1>7. Stepper!Goto(SeenIp + 1)
  <2>1. Trapped' = Trapped
    BY <1>4, <1>5 DEF Trapped, At
  <2>2. SeenIp' = SeenIp + 1
    BY <1>1, <1>4, <1>5, <1>6
  <2> QED
    BY <1>1, <2>1, <2>2 DEF Stepper!Goto
<1>8. Stepper!SetReg(v)
  BY <1>1, <1>4, <1>5 DEF Stepper!SetReg
<1> QED
  BY <1>1, <1>4, <1>7, <1>8 DEF Stepper!Advance

Steps == Stepper!Next \/ UNCHANGED Stepper!vars

LEMMA AluSteps ==
    ASSUME CoreInv, CoreInv', Alu
    PROVE  Steps
<1> DEFINE v == AluResult(Ins.op, regs[Ins.a], Operand)
<1>1. InBlock("alu") /\ Ins.op \in AluOps \ BitOps /\ v \in Value /\ WriteReg(Ins.a, v)
  BY AluWrites
<1>2. Proceed
  BY DEF Alu
<1>3. /\ SeenSp = sp /\ Stepper!Ins = Ins /\ Stepper!Operand = Operand
      /\ Stepper!Executing(AluOps \ BitOps)
  BY <1>1, BlockExecutes DEF PoppedAt, Settled
<1> HIDE DEF v
<1>4. /\ Stepper!SetReg(v) /\ Stepper!Advance
      /\ SeenSp' = sp /\ UNCHANGED <<memory, last_print, print_count>>
  BY <1>1, <1>2, WriteSteps
<1>5. Stepper!Arithmetic
  BY <1>3, <1>4, SameResults, SameOpcodes DEF Stepper!Arithmetic, v
<1> QED
  BY <1>5 DEF Steps, Stepper!Next, Stepper!Step, Stepper!Execute

LEMMA BitwiseSteps ==
    ASSUME CoreInv, CoreInv', Bitwise
    PROVE  Steps
<1> DEFINE v == IF Ins.op = "NOT" THEN Not(regs[Ins.a])
                ELSE AluResult(Ins.op, regs[Ins.a], Operand)
<1>1. InBlock("bitwise") /\ Ins.op \in BitOps \cup {"NOT"} /\ v \in Value /\ WriteReg(Ins.a, v)
  BY BitwiseWrites
<1>2. Proceed
  BY DEF Bitwise
<1>3. /\ SeenSp = sp /\ Stepper!Ins = Ins /\ Stepper!Operand = Operand
      /\ Ins.op \in BitOps => Stepper!Executing(BitOps)
      /\ Ins.op \in {"NOT"} => Stepper!Executing({"NOT"})
  BY <1>1, BlockExecutes DEF PoppedAt, Settled
<1> HIDE DEF v
<1>4. /\ Stepper!SetReg(v) /\ Stepper!Advance
      /\ SeenSp' = sp /\ UNCHANGED <<memory, last_print, print_count>>
  BY <1>1, <1>2, WriteSteps
<1>5. "NOT" \notin BitOps
  BY DEF BitOps
<1>6. CASE Ins.op = "NOT"
  <2>1. v = Stepper!Not(regs[Stepper!Ins.a])
    BY <1>3, <1>6, SameLogic DEF v
  <2> QED
    BY <1>3, <1>4, <1>6, <2>1
    DEF Stepper!NotBits, Steps, Stepper!Next, Stepper!Step, Stepper!Execute
<1>7. CASE Ins.op \in BitOps
  <2>1. v = Stepper!AluResult(Stepper!Ins.op, regs[Stepper!Ins.a], Stepper!Operand)
    BY <1>3, <1>5, <1>7, SameResults DEF v
  <2>2. Stepper!Bitwise
    BY <1>3, <1>4, <1>7, <2>1, SameOpcodes DEF Stepper!Bitwise
  <2> QED
    BY <2>2 DEF Steps, Stepper!Next, Stepper!Step, Stepper!Execute
<1> QED
  BY <1>1, <1>6, <1>7

LEMMA DivideSteps ==
    ASSUME CoreInv, CoreInv', Divide
    PROVE  Steps
<1> DEFINE v == DivResult(Ins.op, regs[Ins.a], Operand)
<1>1. /\ InBlock("divide") /\ Ins.op \in DivOps /\ v \in Value /\ WriteReg(Ins.a, v)
      /\ Operand # 0 /\ ~DivOverflows(regs[Ins.a], Operand)
  BY DivideWrites
<1>2. Proceed
  BY DEF Divide
<1>3. /\ SeenSp = sp /\ Stepper!Ins = Ins /\ Stepper!Operand = Operand
      /\ Stepper!Executing(DivOps)
  BY <1>1, BlockExecutes DEF PoppedAt, Settled
<1> HIDE DEF v
<1>4. /\ Stepper!SetReg(v) /\ Stepper!Advance
      /\ SeenSp' = sp /\ UNCHANGED <<memory, last_print, print_count>>
  BY <1>1, <1>2, WriteSteps
<1>5. Stepper!Divide
  BY <1>1, <1>3, <1>4, SameResults, SameArithmetic, SameOpcodes DEF Stepper!Divide, v
<1> QED
  BY <1>5 DEF Steps, Stepper!Next, Stepper!Step, Stepper!Execute

LEMMA ShiftSteps ==
    ASSUME CoreInv, CoreInv', ShiftReg
    PROVE  Steps
<1> DEFINE v == ShiftResult(Ins.op, regs[Ins.a], Operand)
<1>1. /\ InBlock("shift") /\ Ins.op \in ShiftOps /\ v \in Value /\ WriteReg(Ins.a, v)
      /\ ~BadShift(Operand)
  BY ShiftWrites
<1>2. Proceed
  BY DEF ShiftReg
<1>3. /\ SeenSp = sp /\ Stepper!Ins = Ins /\ Stepper!Operand = Operand
      /\ Stepper!Executing(ShiftOps)
  BY <1>1, BlockExecutes DEF PoppedAt, Settled
<1> HIDE DEF v
<1>4. /\ Stepper!SetReg(v) /\ Stepper!Advance
      /\ SeenSp' = sp /\ UNCHANGED <<memory, last_print, print_count>>
  BY <1>1, <1>2, WriteSteps
<1>5. Stepper!Shift
  BY <1>1, <1>3, <1>4, SameResults, SameChecks, SameOpcodes DEF Stepper!Shift, v
<1> QED
  BY <1>5 DEF Steps, Stepper!Next, Stepper!Step, Stepper!Execute

LEMMA LoadSteps ==
    ASSUME CoreInv, CoreInv', LoadReg
    PROVE  Steps
<1> DEFINE v == LoadFrom(memory, Operand)
<1>1. /\ InBlock("load") /\ Ins.op \in LoadOps /\ v \in Value /\ WriteReg(Ins.a, v)
      /\ ~BadAddress(Operand)
  BY LoadWrites
<1>2. Proceed
  BY DEF LoadReg
<1>3. /\ SeenSp = sp /\ Stepper!Ins = Ins /\ Stepper!Operand = Operand
      /\ Stepper!Executing(LoadOps)
  BY <1>1, BlockExecutes DEF PoppedAt, Settled
<1> HIDE DEF v
<1>4. /\ Stepper!SetReg(v) /\ Stepper!Advance
      /\ SeenSp' = sp /\ UNCHANGED <<memory, last_print, print_count>>
  BY <1>1, <1>2, WriteSteps
<1>5. Stepper!Load
  BY <1>1, <1>3, <1>4, SameMemory, SameChecks, SameOpcodes DEF Stepper!Load, v
<1> QED
  BY <1>5 DEF Steps, Stepper!Next, Stepper!Step, Stepper!Execute

LEMMA PoppedSteps ==
    ASSUME CoreInv, CoreInv', WritePopped
    PROVE  Steps
<1>1. /\ InBlock("write_a") /\ Ins.op \in {"POP"} /\ rax \in Value /\ WriteReg(Ins.a, rax)
      /\ sp >= ValueSize /\ rax = PoppedValue
  BY PoppedWrites
<1>2. Proceed
  BY DEF WritePopped
<1>3. /\ SeenSp = sp - ValueSize /\ Stepper!Ins = Ins
      /\ Stepper!Executing({"POP"})
  BY <1>1, BlockExecutes DEF PoppedAt, Settled
<1>4. PICK v \in Value : v = PoppedValue /\ WriteReg(Ins.a, v)
  BY <1>1
<1>5. /\ Stepper!SetReg(v) /\ Stepper!Advance
      /\ SeenSp' = sp /\ UNCHANGED <<memory, last_print, print_count>>
  BY <1>1, <1>2, <1>4, WriteSteps
<1>6. v = Stepper!Top
  BY <1>3, <1>4, SameMemory DEF Stepper!Top, PoppedValue
<1>7. sp \in Nat /\ sp <= MemorySize /\ MemorySize \in Nat /\ ValueSize \in Nat
  BY WordAssumption, MachineAssumption DEF CoreInv, DataInv
<1>8. SeenSp + ValueSize = sp /\ ~Stepper!PopUnderflows
  BY <1>1, <1>3, <1>7 DEF Stepper!PopUnderflows
<1>9. Stepper!Pop
  BY <1>3, <1>5, <1>6, <1>8 DEF Stepper!Pop
<1> QED
  BY <1>9 DEF Steps, Stepper!Next, Stepper!Step, Stepper!Execute

----------------------------------------------------------------------------
(* The blocks that no step shows: they prepare, or they are behind the     *)
(* effect.                                                                 *)

(* The blocks and helpers that prepare an instruction. *)
LEMMA PreparingUnseen ==
    ASSUME CoreInv, CoreInv', NEW n, NEW m \in Names \cup {"loop"},
           SeesAt(Ins.op, n), MovesTo(m), Ins' = Ins, UNCHANGED <<shown, zf, r13>>,
           n \notin Settled \cup {"loop"}, m \notin Settled \cup {"loop"},
           (IF PoppedAt(Ins.op, n) THEN sp - ValueSize ELSE sp)
             = (IF PoppedAt(Ins.op, m) THEN sp' - ValueSize ELSE sp')
    PROVE  Steps
<1>1. SeesAt(Ins.op, m)'
  BY SeesMoved
<1> DEFINE s == IF PoppedAt(Ins.op, n) THEN sp - ValueSize ELSE sp
<1>2. SeenIp = r13 /\ SeenZf = zf /\ SeenSp = s /\ ~Trapped
  BY DEF SeesAt, Sees, Settled
<1>3. /\ SeenIp' = r13' /\ SeenZf' = zf' /\ ~Trapped'
      /\ SeenSp' = IF PoppedAt(Ins.op, m) THEN sp' - ValueSize ELSE sp'
  BY <1>1 DEF SeesAt, Sees, Settled, PoppedAt
<1>4. SeenIp' = SeenIp /\ SeenZf' = SeenZf /\ SeenSp' = SeenSp
  BY <1>2, <1>3
<1>5. Trapped' = Trapped
  BY <1>2, <1>3 DEF Trapped, At
<1> QED
  BY <1>4, <1>5 DEF shown, Steps, Stepper!vars, Stepper!data, Stepper!control

LEMMA FailureUnseen ==
    ASSUME CoreInv, CoreInv', NEW n, SeesAt(Ins.op, n), n \notin Settled \cup {"loop"},
           NEW label \in Failing \ {"trap"}, pc' = Label(label), Ins' = Ins,
           UNCHANGED <<shown, zf, sp, r13>>,
           PoppedAt(Ins.op, n) <=> label = "err_bad_jump" /\ Ins.op = "RET"
    PROVE  Steps
<1>1. pc'[1] = label
  BY DEF Label
<1>2. /\ SeenIp' = r13' /\ SeenZf' = zf' /\ ~Trapped'
      /\ SeenSp' = IF label = "err_bad_jump" /\ Ins.op = "RET" THEN sp - ValueSize ELSE sp
  BY <1>1, SeesFailingNext
<1>3. /\ SeenIp = r13 /\ SeenZf = zf /\ ~Trapped
      /\ SeenSp = IF PoppedAt(Ins.op, n) THEN sp - ValueSize ELSE sp
  BY DEF SeesAt, Sees, Settled
<1>4. SeenIp' = SeenIp /\ SeenZf' = SeenZf /\ SeenSp' = SeenSp
  BY <1>2, <1>3
<1>5. Trapped' = Trapped
  BY <1>2, <1>3 DEF Trapped, At
<1> QED
  BY <1>4, <1>5 DEF shown, Steps, Stepper!vars, Stepper!data, Stepper!control

LEMMA PreparingBlocksUnseen ==
    ASSUME CoreInv, CoreInv', SaveIndex \/ OperandToRbx \/ FetchReg \/ SaveTarget
    PROVE  Steps
<1>1. PICK n \in {"save_index", "operand", "fetch_a", "save_target"} : InBlock(n)
  BY DEF SaveIndex, OperandToRbx, FetchReg, SaveTarget
<1>2. /\ Proceed /\ Ins' = Ins /\ UNCHANGED <<shown, zf, sp, r13>>
  BY DEF SaveIndex, OperandToRbx, FetchReg, SaveTarget, shown, vmRest, vmData, frame, Ins
<1>3. PICK m \in Names \cup {"loop"} : Follows(Ins.op, n, m) /\ MovesTo(m)
  BY <1>1, <1>2, BlockMoves DEF CoreInv
<1>4. m \notin Settled \cup {"loop"} /\ ~PoppedAt(Ins.op, n) /\ ~PoppedAt(Ins.op, m)
  BY <1>1, <1>3 DEF Follows, SetsZf, IsLast, AfterSave, AfterOperand, Begins, PoppedAt,
     Settled
<1>5. SeesAt(Ins.op, n) /\ n \notin Settled \cup {"loop"}
  BY <1>1, SeesBlock DEF Settled
<1> QED
  BY <1>2, <1>3, <1>4, <1>5, PreparingUnseen

LEMMA CallUnseen ==
    ASSUME CoreInv, CoreInv', CallHelper
    PROVE  Steps
<1>1. PICK n \in Helpers : Here = n
  BY DEF CallHelper
<1>2. /\ OnRoute /\ pc' = Label(n) /\ Ins' = Ins
      /\ UNCHANGED <<shown, zf, sp, ip, r13, rax, r15>>
  BY <1>1 DEF CallHelper, shown, vmRest, vmData, scratch, frame, Ins
<1>3. SeesAt(Ins.op, n)
  BY <1>1, <1>2, SeesBlock DEF InBlock
<1>4. Running' /\ Name' = n
  BY <1>2 DEF Running, Name, Label
<1>5. SeesAt(Ins.op, n)'
  BY <1>4, SeesNameNext
<1>6. SeenIp' = SeenIp /\ SeenZf' = SeenZf /\ SeenSp' = SeenSp /\ ~Trapped /\ ~Trapped'
  BY <1>2, <1>3, <1>5 DEF SeesAt, Sees, PoppedAt
<1>7. Trapped' = Trapped
  BY <1>6 DEF Trapped, At
<1> QED
  BY <1>2, <1>6, <1>7 DEF shown, Steps, Stepper!vars, Stepper!data, Stepper!control

LEMMA LoadRegIndexUnseen ==
    ASSUME CoreInv, CoreInv', LoadRegIndex
    PROVE  Steps
<1> DEFINE n == pc[1]
<1>1. /\ n \in {"load_reg_a_index", "load_reg_b_index"} /\ n \in Helpers
      /\ Ins' = Ins /\ UNCHANGED <<shown, zf, sp, r13>>
      /\ pc' = Label("err_bad_register") \/ HelperReturns
  BY DEF LoadRegIndex, ReturnUnless, shown, vmRest, vmData, frame, Ins, Helpers
<1>2. SeesAt(Ins.op, n) /\ n \notin Settled \cup {"loop"} /\ ~PoppedAt(Ins.op, n)
  BY <1>1, SeesHelper DEF Settled, PoppedAt
<1>3. CASE pc' = Label("err_bad_register")
  <2>1. "err_bad_register" \in Failing \ {"trap"}
    BY DEF Failing, ErrorOf
  <2> QED
    BY <1>1, <1>2, <1>3, <2>1, FailureUnseen
<1>4. CASE HelperReturns
  <2>1. PICK m \in Names \cup {"loop"} : Follows(Ins.op, n, m) /\ MovesTo(m)
    BY <1>1, <1>4, HelperMoves DEF CoreInv
  <2>2. m \notin Settled \cup {"loop"} /\ ~PoppedAt(Ins.op, m)
    BY <1>1, <2>1 DEF Follows, SetsZf, IsLast, AfterIndex, Begins, PoppedAt, Settled
  <2> QED
    BY <1>1, <1>2, <2>1, <2>2, PreparingUnseen
<1> QED
  BY <1>1, <1>3, <1>4

LEMMA CheckJumpImmUnseen ==
    ASSUME CoreInv, CoreInv', CheckJumpImm
    PROVE  Steps
<1>1. /\ pc[1] = "check_jump_imm" /\ pc[1] \in Helpers
      /\ Ins' = Ins /\ UNCHANGED <<shown, zf, sp, r13>>
      /\ pc' = Label("err_bad_jump") \/ HelperReturns
  BY DEF CheckJumpImm, ReturnUnless, shown, vmRest, vmData, frame, Ins, Helpers, At, Label
<1>2. /\ SeesAt(Ins.op, "check_jump_imm") /\ "check_jump_imm" \notin Settled \cup {"loop"}
      /\ ~PoppedAt(Ins.op, "check_jump_imm")
  BY <1>1, SeesHelper DEF Settled, PoppedAt
<1>3. Ins.op \in JumpOps \cup {"CALL"}
  BY <1>1, HelperFollows DEF CoreInv, Follows, SetsZf, IsLast
<1>4. Ins.op # "RET"
  BY <1>3 DEF JumpOps
<1>5. CASE pc' = Label("err_bad_jump")
  <2>1. "err_bad_jump" \in Failing \ {"trap"}
    BY DEF Failing, ErrorOf
  <2> QED
    BY <1>1, <1>2, <1>4, <1>5, <2>1, FailureUnseen
<1>6. CASE HelperReturns
  <2>1. PICK m \in Names \cup {"loop"} : Follows(Ins.op, "check_jump_imm", m) /\ MovesTo(m)
    BY <1>1, <1>6, HelperMoves DEF CoreInv
  <2>2. m \notin Settled \cup {"loop"} /\ ~PoppedAt(Ins.op, m)
    BY <1>4, <2>1 DEF Follows, SetsZf, IsLast, PoppedAt, Settled
  <2> QED
    BY <1>1, <1>2, <2>1, <2>2, PreparingUnseen
<1> QED
  BY <1>1, <1>5, <1>6

LEMMA CheckJumpRaxUnseen ==
    ASSUME CoreInv, CoreInv', CheckJumpRax
    PROVE  Steps
<1>1. /\ pc[1] = "check_jump_rax" /\ pc[1] \in Helpers
      /\ Ins' = Ins /\ UNCHANGED <<shown, zf, sp, r13>>
      /\ pc' = Label("err_bad_jump") \/ HelperReturns
  BY DEF CheckJumpRax, ReturnUnless, shown, vmRest, vmData, frame, Ins, Helpers, At, Label
<1>2. /\ SeesAt(Ins.op, "check_jump_rax") /\ "check_jump_rax" \notin Settled \cup {"loop"}
      /\ PoppedAt(Ins.op, "check_jump_rax")
  BY <1>1, SeesHelper DEF Settled, PoppedAt
<1>3. Ins.op = "RET"
  BY <1>1, HelperFollows DEF CoreInv, Follows, SetsZf, IsLast
<1>4. CASE pc' = Label("err_bad_jump")
  <2>1. "err_bad_jump" \in Failing \ {"trap"}
    BY DEF Failing, ErrorOf
  <2> QED
    BY <1>1, <1>2, <1>3, <1>4, <2>1, FailureUnseen
<1>5. CASE HelperReturns
  <2>1. PICK m \in Names \cup {"loop"} : Follows(Ins.op, "check_jump_rax", m) /\ MovesTo(m)
    BY <1>1, <1>5, HelperMoves DEF CoreInv
  <2>2. m \notin Settled \cup {"loop"} /\ PoppedAt(Ins.op, m)
    BY <1>3, <2>1 DEF Follows, SetsZf, IsLast, PoppedAt, Settled
  <2> QED
    BY <1>1, <1>2, <2>1, <2>2, PreparingUnseen
<1> QED
  BY <1>1, <1>4, <1>5

LEMMA CheckRbxUnseen ==
    ASSUME CoreInv, CoreInv', CheckRbx
    PROVE  Steps
<1>1. PICK n \in {"check_mem_addr_rbx", "check_shift_rbx"},
           label \in {"err_memory_oob", "err_bad_shift"} :
        pc[1] = n /\ (pc' = Label(label) \/ HelperReturns)
  BY DEF CheckRbx, ReturnUnless, At, Label
<1>2. /\ Ins' = Ins /\ UNCHANGED <<shown, zf, sp, r13>>
      /\ n \in Helpers /\ label \in Failing \ {"trap"}
  BY DEF CheckRbx, shown, vmRest, vmData, frame, Ins, Helpers, Failing, ErrorOf
<1>3. SeesAt(Ins.op, n) /\ n \notin Settled \cup {"loop"} /\ ~PoppedAt(Ins.op, n)
  BY <1>1, <1>2, SeesHelper DEF Settled, PoppedAt
<1>4. CASE pc' = Label(label)
  BY <1>2, <1>3, <1>4, FailureUnseen
<1>5. CASE HelperReturns
  <2>1. PICK m \in Names \cup {"loop"} : Follows(Ins.op, n, m) /\ MovesTo(m)
    BY <1>1, <1>2, <1>5, HelperMoves DEF CoreInv
  <2>2. m \notin Settled \cup {"loop"} /\ ~PoppedAt(Ins.op, m)
    BY <2>1 DEF Follows, SetsZf, IsLast, PoppedAt, Settled
  <2> QED
    BY <1>2, <1>3, <2>1, <2>2, PreparingUnseen
<1> QED
  BY <1>1, <1>4, <1>5

(* A popped value has moved sp, which the stepper is not shown yet. *)
LEMMA PopRaxUnseen ==
    ASSUME CoreInv, CoreInv', PopRax
    PROVE  Steps
<1>1. /\ pc[1] = "pop_rax" /\ pc[1] \in Helpers
      /\ Ins' = Ins /\ UNCHANGED <<shown, zf, r13>>
      /\ \/ pc' = Label("err_stack_underflow") /\ sp' = sp
         \/ HelperReturns /\ sp' = sp + ValueSize
  BY DEF PopRax, ReturnUnless, shown, vmRest, frame, Ins, Helpers, At, Label
<1>2. /\ SeesAt(Ins.op, "pop_rax") /\ "pop_rax" \notin Settled \cup {"loop"}
      /\ ~PoppedAt(Ins.op, "pop_rax")
  BY <1>1, SeesHelper DEF Settled, PoppedAt
<1>3. CASE pc' = Label("err_stack_underflow") /\ sp' = sp
  <2>1. "err_stack_underflow" \in Failing \ {"trap"}
    BY DEF Failing, ErrorOf
  <2> QED
    BY <1>1, <1>2, <1>3, <2>1, FailureUnseen
<1>4. CASE HelperReturns /\ sp' = sp + ValueSize
  <2>1. PICK m \in Names \cup {"loop"} : Follows(Ins.op, "pop_rax", m) /\ MovesTo(m)
    BY <1>1, <1>4, HelperMoves DEF CoreInv
  <2>2. m \notin Settled \cup {"loop"} /\ PoppedAt(Ins.op, m)
    BY <2>1 DEF Follows, SetsZf, IsLast, PoppedAt, Settled
  <2>3. sp' - ValueSize = sp
    BY <1>4, WordAssumption DEF CoreInv, DataInv
  <2> QED
    BY <1>1, <1>2, <2>1, <2>2, <2>3, PreparingUnseen
<1> QED
  BY <1>1, <1>3, <1>4

(* The flag catches up with what was shown all along. *)
LEMMA SetZfUnseen ==
    ASSUME CoreInv, CoreInv', SetZfFromRax
    PROVE  Steps
<1>1. /\ pc[1] = "set_zf_from_rax" /\ pc[1] \in Helpers
      /\ Ins' = Ins /\ UNCHANGED <<shown, sp, ip>> /\ HelperReturns
      /\ zf' = (rax = 0)
  BY DEF SetZfFromRax, shown, vmRest, scratch, frame, Ins, Helpers, At, Label
<1>2. Sees(ip, (rax = 0), sp)
  BY <1>1, SeesHelper DEF SeesAt
<1>3. PICK m \in Names \cup {"loop"} : Follows(Ins.op, "set_zf_from_rax", m) /\ MovesTo(m)
  BY <1>1, HelperMoves DEF CoreInv
<1>4. m = "loop"
  BY <1>3 DEF Follows, SetsZf, IsLast
<1>5. Sees(ip, zf, sp)'
  BY <1>1, <1>3, <1>4, SeesMoved DEF SeesAt
<1>6. SeenIp' = SeenIp /\ SeenZf' = SeenZf /\ SeenSp' = SeenSp /\ ~Trapped /\ ~Trapped'
  BY <1>1, <1>2, <1>5 DEF Sees
<1>7. Trapped' = Trapped
  BY <1>6 DEF Trapped, At
<1> QED
  BY <1>1, <1>6, <1>7 DEF shown, Steps, Stepper!vars, Stepper!data, Stepper!control

(* Blocks that go back to the loop or leave nothing but the flag to show. *)
LEMMA EndsShown ==
    ASSUME CoreInv, CoreInv', NEW n, InBlock(n), Proceed, Ins' = Ins,
           n \in {"store", "compare", "goto_rax", "goto_r15", "unalign", "print"}
    PROVE  Sees(ip, zf, sp)'
<1>1. PICK m \in Names \cup {"loop"} : Follows(Ins.op, n, m) /\ MovesTo(m)
  BY BlockMoves DEF CoreInv
<1>2. m \in {"unalign", "loop"}
  BY <1>1 DEF Follows, SetsZf, IsLast
<1> QED
  BY <1>1, <1>2, SeesMoved DEF SeesAt

LEMMA Goes ==
    ASSUME SeenIp' = ip', ~Trapped, ~Trapped', UNCHANGED <<code, halted, error>>
    PROVE  Stepper!Goto(ip')
<1>1. Trapped' = Trapped
  BY DEF Trapped, At
<1> QED
  BY <1>1 DEF Stepper!Goto

LEMMA StoreSteps ==
    ASSUME CoreInv, CoreInv', StoreReg
    PROVE  Steps
<1>1. /\ InBlock("store") /\ Proceed /\ Ins.op \in StoreOps /\ ~BadAddress(Operand)
      /\ memory' = StoreTo(memory, Operand, regs[Ins.a])
      /\ Ins' = Ins
      /\ UNCHANGED <<code, halted, error, regs, zf, sp, last_print, print_count, ip, r13>>
  BY StoreStores DEF StoreReg, vmRest, frame, Ins
<1>2. /\ SeenIp = r13 /\ SeenZf = zf /\ SeenSp = sp /\ ~Trapped
      /\ Stepper!Ins = Ins /\ Stepper!Operand = Operand
      /\ Stepper!Executing(StoreOps)
  BY <1>1, BlockExecutes DEF PoppedAt, Settled
<1>3. Sees(ip, zf, sp)'
  BY <1>1, EndsShown
<1>4. ip = r13 + 1
  BY <1>1, AtBlock DEF Fetching
<1>5. Stepper!Advance
  <2>1. Stepper!Goto(ip')
    BY <1>1, <1>2, <1>3, Goes DEF Sees
  <2> QED
    BY <1>1, <1>2, <1>4, <2>1 DEF Stepper!Advance
<1>6. Stepper!Store
  BY <1>1, <1>2, <1>3, <1>5, SameMemory, SameChecks, SameOpcodes DEF Stepper!Store, Sees
<1> QED
  BY <1>6 DEF Steps, Stepper!Next, Stepper!Step, Stepper!Execute

LEMMA CompareSteps ==
    ASSUME CoreInv, CoreInv', Compare
    PROVE  Steps
<1>1. /\ InBlock("compare") /\ Proceed /\ Ins.op \in CmpOps
      /\ zf' = (regs[Ins.a] = Operand)
      /\ Ins' = Ins
      /\ UNCHANGED <<code, halted, error, regs, memory, sp, last_print, print_count, ip, r13>>
  BY CompareCompares DEF Compare, vmRest, frame, Ins
<1>2. /\ SeenIp = r13 /\ SeenSp = sp /\ ~Trapped
      /\ Stepper!Ins = Ins /\ Stepper!Operand = Operand
      /\ Stepper!Executing(CmpOps)
  BY <1>1, BlockExecutes DEF PoppedAt, Settled
<1>3. Sees(ip, zf, sp)'
  BY <1>1, EndsShown
<1>4. ip = r13 + 1
  BY <1>1, AtBlock DEF Fetching
<1>5. Stepper!Advance
  <2>1. Stepper!Goto(ip')
    BY <1>1, <1>2, <1>3, Goes DEF Sees
  <2> QED
    BY <1>1, <1>2, <1>4, <2>1 DEF Stepper!Advance
<1>6. SeenZf' = (regs[Ins.a] = Operand) /\ SeenSp' = sp
  BY <1>1, <1>3 DEF Sees
<1>7. Stepper!Compare
  BY <1>1, <1>2, <1>5, <1>6, SameOpcodes DEF Stepper!Compare
<1> QED
  BY <1>7 DEF Steps, Stepper!Next, Stepper!Step, Stepper!Execute

LEMMA PrintSteps ==
    ASSUME CoreInv, CoreInv', EmitPrint
    PROVE  Steps
<1>1. /\ InBlock("print") /\ Proceed /\ Ins.op \in {"PRINT"}
      /\ last_print' = regs[Ins.a] /\ print_count' = (print_count + 1) % Modulus
      /\ Ins' = Ins
      /\ UNCHANGED <<code, halted, error, regs, zf, memory, sp, ip, r13>>
  BY PrintPrints DEF EmitPrint, vmRest, frame, Ins
<1>2. /\ SeenIp = r13 /\ SeenZf = zf /\ SeenSp = sp /\ ~Trapped
      /\ Stepper!Ins = Ins /\ Stepper!Executing({"PRINT"})
  BY <1>1, BlockExecutes DEF PoppedAt, Settled
<1>3. Sees(ip, zf, sp)'
  BY <1>1, EndsShown
<1>4. ip = r13 + 1
  BY <1>1, AtBlock DEF Fetching
<1>5. Stepper!Advance
  <2>1. Stepper!Goto(ip')
    BY <1>1, <1>2, <1>3, Goes DEF Sees
  <2> QED
    BY <1>1, <1>2, <1>4, <2>1 DEF Stepper!Advance
<1>6. Stepper!EmitPrint
  BY <1>1, <1>2, <1>3, <1>5, SameWords DEF Stepper!EmitPrint, Sees
<1> QED
  BY <1>6 DEF Steps, Stepper!Next, Stepper!Step, Stepper!Execute

LEMMA UnalignUnseen ==
    ASSUME CoreInv, CoreInv', Unalign
    PROVE  Steps
<1>1. /\ InBlock("unalign") /\ Proceed /\ Ins' = Ins /\ UNCHANGED <<shown, zf, sp, ip>>
  BY DEF Unalign, shown, vmRest, vmData, frame, Ins
<1>2. Sees(ip, zf, sp)
  BY <1>1, SeesBlock DEF SeesAt
<1>3. Sees(ip, zf, sp)'
  BY <1>1, EndsShown
<1>4. zf \in BOOLEAN
  BY DEF CoreInv, DataInv
<1>5. Sees(ip, zf, sp)' => SeenIp' = ip /\ SeenZf' = zf /\ SeenSp' = sp /\ ~Trapped'
  BY <1>1 DEF Sees
<1>6. SeenIp' = SeenIp /\ SeenZf' = SeenZf /\ SeenSp' = SeenSp
  BY <1>2, <1>3, <1>5 DEF Sees
<1>7. Trapped' = Trapped
  BY <1>2, <1>3 DEF Sees, Trapped, At
<1> QED
  BY <1>1, <1>6, <1>7 DEF shown, Steps, Stepper!vars, Stepper!data, Stepper!control

LEMMA GotoSteps ==
    ASSUME CoreInv, CoreInv', GotoReg
    PROVE  Steps
<1>1. /\ Ins' = Ins /\ Proceed /\ UNCHANGED <<shown, zf, sp, r13>>
  BY DEF GotoReg, shown, vmRest, vmData, frame, Ins
<1>2. CASE /\ InBlock("goto_rax") /\ Ins.op \in JumpOps /\ Taken
           /\ ip' = Ins.imm /\ ~BadTarget(code, Ins.imm)
  <2>1. Ins.op # "RET"
    BY <1>2 DEF JumpOps
  <2>2. /\ SeenZf = zf /\ SeenSp = sp /\ ~Trapped
        /\ Stepper!Ins = Ins /\ Stepper!Taken /\ Stepper!Executing(JumpOps)
    BY <1>2, <2>1, BlockExecutes DEF PoppedAt, Settled
  <2>3. Sees(ip, zf, sp)'
    BY <1>1, <1>2, EndsShown
  <2>4. Stepper!Goto(ip')
    BY <1>1, <2>2, <2>3, Goes DEF Sees, shown
  <2>5. Stepper!Jump
    BY <1>1, <1>2, <2>2, <2>3, <2>4, SameChecks, SameOpcodes
    DEF Stepper!Jump, Stepper!data, Sees, shown
  <2> QED
    BY <2>5 DEF Steps, Stepper!Next, Stepper!Step, Stepper!Execute
<1>3. CASE /\ InBlock("goto_rax") /\ Ins.op = "RET" /\ sp >= ValueSize
           /\ ip' = PoppedValue /\ ~BadTarget(code, PoppedValue)
  <2>1. /\ SeenZf = zf /\ SeenSp = sp - ValueSize /\ ~Trapped
        /\ Stepper!Ins = Ins /\ Stepper!Executing({"RET"})
    BY <1>3, BlockExecutes DEF PoppedAt, Settled
  <2>2. Sees(ip, zf, sp)'
    BY <1>1, <1>3, EndsShown
  <2>3. Stepper!Goto(ip')
    BY <1>1, <2>1, <2>2, Goes DEF Sees, shown
  <2>4. sp \in Nat /\ sp <= MemorySize /\ MemorySize \in Nat /\ ValueSize \in Nat
    BY WordAssumption, MachineAssumption DEF CoreInv, DataInv
  <2>5. SeenSp + ValueSize = sp /\ ~Stepper!PopUnderflows
    BY <1>3, <2>1, <2>4 DEF Stepper!PopUnderflows
  <2>6. PoppedValue = Stepper!Top
    BY <2>1, SameMemory DEF Stepper!Top, PoppedValue
  <2>7. Stepper!Ret
    BY <1>1, <1>3, <2>1, <2>2, <2>3, <2>5, <2>6, SameChecks
    DEF Stepper!Ret, Sees, shown
  <2> QED
    BY <2>7 DEF Steps, Stepper!Next, Stepper!Step, Stepper!Execute
<1>4. CASE InBlock("goto_r15") /\ ip' = r15
  <2>1. Sees(r15, zf, sp)
    BY <1>4, SeesBlock DEF SeesAt
  <2>2. Sees(ip, zf, sp)'
    BY <1>1, <1>4, EndsShown
  <2>3. SeenIp' = SeenIp /\ SeenZf' = SeenZf /\ SeenSp' = SeenSp
    BY <1>1, <1>4, <2>1, <2>2 DEF Sees
  <2>4. Trapped' = Trapped
    BY <2>1, <2>2 DEF Sees, Trapped, At
  <2> QED
    BY <1>1, <2>3, <2>4 DEF shown, Steps, Stepper!vars, Stepper!data, Stepper!control
<1> QED
  BY <1>2, <1>3, <1>4, GotoGoes

LEMMA TestSteps ==
    ASSUME CoreInv, CoreInv', Test
    PROVE  Steps
<1>1. /\ InBlock("test") /\ Ins.op \in JumpOps \ {"JMP"}
      /\ Ins' = Ins /\ UNCHANGED <<shown, zf, sp, ip, r13>>
      /\ IF Taken THEN Proceed ELSE pc' = Label("loop")
  BY TestTests DEF Test, shown, vmRest, vmData, frame, Ins
<1>2. CASE Taken
  <2>1. PICK m \in Names \cup {"loop"} : Follows(Ins.op, "test", m) /\ MovesTo(m)
    BY <1>1, <1>2, BlockMoves DEF CoreInv
  <2>2. m = "check_jump_imm"
    BY <2>1 DEF Follows, SetsZf, IsLast
  <2>3. SeesAt(Ins.op, "test")
    BY <1>1, SeesBlock
  <2> QED
    BY <1>1, <2>1, <2>2, <2>3, PreparingUnseen DEF PoppedAt, Settled
<1>3. CASE ~Taken
  <2>1. MovesTo("loop")
    BY <1>1, <1>3 DEF MovesTo
  <2>2. Sees(ip, zf, sp)'
    BY <1>1, <2>1, SeesMoved DEF SeesAt
  <2>3. /\ SeenIp = r13 /\ SeenZf = zf /\ SeenSp = sp /\ ~Trapped
        /\ ~Stepper!Taken /\ Stepper!Executing(JumpOps)
    BY <1>1, <1>3, BlockExecutes DEF PoppedAt, Settled
  <2>4. ip = r13 + 1
    BY <1>1, AtBlock DEF Fetching
  <2>5. Stepper!Goto(ip')
    BY <1>1, <2>2, <2>3, Goes DEF Sees, shown
  <2>6. Stepper!Advance
    BY <1>1, <2>3, <2>4, <2>5 DEF Stepper!Advance
  <2>7. Stepper!JumpNotTaken
    BY <1>1, <2>2, <2>3, <2>6, SameOpcodes DEF Stepper!JumpNotTaken, Stepper!data, Sees,
       shown
  <2> QED
    BY <2>7 DEF Steps, Stepper!Next, Stepper!Step, Stepper!Execute
<1> QED
  BY <1>2, <1>3

LEMMA HaltSteps ==
    ASSUME CoreInv, CoreInv', Halt
    PROVE  Steps
<1>1. /\ InBlock("halt") /\ halted' = TRUE /\ error' = "OK" /\ pc' = Label("ok_return")
      /\ UNCHANGED <<code, regs, zf, memory, sp, last_print, print_count, ip>>
  BY DEF Halt, vmData
<1>2. Ins.op \in {"HALT"}
  BY <1>1, BlockFollows DEF CoreInv, Follows, SetsZf, IsLast
<1>3. /\ SeenIp = r13 /\ SeenZf = zf /\ SeenSp = sp /\ ~Trapped
      /\ Stepper!Executing({"HALT"})
  BY <1>1, <1>2, BlockExecutes DEF PoppedAt, Settled
<1>4. ip = r13 + 1 /\ error = "OK"
  BY <1>1, AtBlock DEF Fetching
<1>5. ~Running' /\ pc'[1] \notin Failing
  BY <1>1, LabelsApart DEF Label, Running, OnRoute, Failing, ErrorOf, Returning
<1>6. Sees(ip, zf, sp)'
  BY <1>5, SeesBetweenNext
<1>7. SeenIp' = SeenIp + 1 /\ SeenZf' = SeenZf /\ SeenSp' = SeenSp
  BY <1>1, <1>3, <1>4, <1>6 DEF Sees
<1>8. Trapped' = Trapped
  BY <1>3, <1>6 DEF Sees, Trapped, At
<1>9. Stepper!Halt
  BY <1>1, <1>3, <1>4, <1>7, <1>8 DEF Stepper!Halt, Stepper!data
<1> QED
  BY <1>9 DEF Steps, Stepper!Next, Stepper!Step, Stepper!Execute

LEMMA DivideStopsSteps ==
    ASSUME CoreInv, CoreInv', DivideStops
    PROVE  Steps
<1>1. /\ InBlock("divide") /\ Ins' = Ins /\ UNCHANGED <<shown, zf, sp, ip, r13>>
      /\ \/ rbx = 0 /\ pc' = Label("err_div_zero")
         \/ rbx # 0 /\ DivOverflows(regs[r14], rbx) /\ pc' = Label("trap")
  BY DEF DivideStops, shown, vmRest, vmData, frame, Ins
<1>2. /\ Fetching /\ Ins.op \in Opcode /\ Carried(Ins.op, "divide") /\ ~BadRegister(Ins)
  BY <1>1, AtBlock
<1>3. Ins.op \in DivOps
  BY <1>1, BlockFollows DEF CoreInv, Follows, SetsZf, IsLast
<1>4. Ins.op \in Saving
  BY <1>3 DEF DivOps, FirstRegOps, Opcode, Saving
<1>5. r14 = Ins.a /\ rbx = Operand
  BY <1>2, <1>4 DEF Carried, Indexed, Settled
<1>6. CASE pc' = Label("err_div_zero")
  <2>1. "err_div_zero" \in Failing \ {"trap"}
    BY DEF Failing, ErrorOf
  <2>2. SeesAt(Ins.op, "divide")
    BY <1>1, SeesBlock
  <2>3. "divide" \notin Settled \cup {"loop"} /\ ~PoppedAt(Ins.op, "divide")
    BY DEF Settled, PoppedAt
  <2> QED
    BY <1>1, <1>6, <2>1, <2>2, <2>3, FailureUnseen
<1>7. CASE rbx # 0 /\ DivOverflows(regs[r14], rbx) /\ pc' = Label("trap")
  <2>1. /\ SeenIp = r13 /\ SeenZf = zf /\ SeenSp = sp /\ ~Trapped
        /\ Stepper!Ins = Ins /\ Stepper!Operand = Operand /\ Stepper!Executing(DivOps)
    BY <1>1, <1>3, BlockExecutes DEF PoppedAt, Settled
  <2>2. pc'[1] = "trap" /\ "trap" \in Failing
    BY <1>7 DEF Label, Failing
  <2>3. SeenIp' = r13' /\ SeenZf' = zf' /\ SeenSp' = sp' /\ Trapped'
    BY <2>2, SeesFailingNext
  <2>4. Trapped' = TRUE
    BY <2>3 DEF Trapped, At
  <2>5. Stepper!DivideTrap
    BY <1>1, <1>5, <1>7, <2>1, <2>3, <2>4, SameArithmetic, SameOpcodes
    DEF Stepper!DivideTrap, Stepper!data, shown
  <2> QED
    BY <2>5 DEF Steps, Stepper!Next, Stepper!Step, Stepper!Execute
<1> QED
  BY <1>1, <1>6, <1>7

----------------------------------------------------------------------------
(* The pushes, the loop and the way out of it; the refinement.             *)

LEMMA PushSteps ==
    ASSUME CoreInv, CoreInv', PushRax
    PROVE  Steps
<1>1. /\ pc[1] = "push_rax" /\ pc[1] \in Helpers /\ Ins' = Ins
      /\ UNCHANGED <<code, halted, error, regs, zf, last_print, print_count, ip, r13, r15>>
      /\ ReturnUnless(sp < ValueSize, "err_stack_overflow")
      /\ IF sp < ValueSize THEN UNCHANGED <<sp, memory>>
         ELSE sp' = sp - ValueSize /\ memory' = StoreTo(memory, sp - ValueSize, rax)
  BY DEF PushRax, vmRest, frame, Ins, At, Label, Helpers
<1>2. /\ DataInv /\ Fetching /\ Ins.op \in Opcode /\ Carried(Ins.op, "push_rax")
      /\ error = "OK" /\ ~halted /\ ~BadRegister(Ins)
  BY <1>1, AtHelper DEF CoreInv
<1>3. SeesAt(Ins.op, "push_rax")
  BY <1>1, SeesHelper
<1>4. SeenIp = r13 /\ SeenZf = zf /\ SeenSp = sp /\ ~Trapped
  BY <1>3 DEF SeesAt, Sees, PoppedAt
<1>5. CASE sp < ValueSize
  <2>1. pc' = Label("err_stack_overflow") /\ UNCHANGED <<shown, zf, sp, r13>>
    BY <1>1, <1>5 DEF ReturnUnless, shown
  <2>2. "err_stack_overflow" \in Failing \ {"trap"}
    BY DEF Failing, ErrorOf
  <2> QED
    BY <1>1, <1>3, <2>1, <2>2, FailureUnseen DEF PoppedAt, Settled
<1>6. CASE ~(sp < ValueSize)
  <2>1. PICK m \in Names \cup {"loop"} : Follows(Ins.op, "push_rax", m) /\ MovesTo(m)
    BY <1>1, <1>6, HelperMoves DEF CoreInv, ReturnUnless
  <2>2. SeesAt(Ins.op, m)'
    BY <1>1, <2>1, SeesMoved
  <2>3. /\ Stepper!Ins = Ins /\ \A ops : Ins.op \in ops => Stepper!Executing(ops)
    BY <1>2, <1>4, Fetches
  <2>4. sp' = sp - ValueSize /\ memory' = StoreTo(memory, sp - ValueSize, rax)
    BY <1>1, <1>6
  <2>5. ~Stepper!PushOverflows
    BY <1>4, <1>6 DEF Stepper!PushOverflows
  <2>6. CASE Ins.op = "PUSH" /\ m = "loop"
    <3>1. Sees(ip, zf, sp)'
      BY <2>2, <2>6 DEF SeesAt
    <3>2. rax = regs[Ins.a]
      BY <1>2, <2>6 DEF Carried, Targeted
    <3>3. Stepper!PushValue(regs[Stepper!Ins.a])
      BY <1>4, <2>3, <2>4, <3>1, <3>2, SameMemory DEF Stepper!PushValue, Sees
    <3>4. Stepper!Advance
      <4>1. Stepper!Goto(ip')
        BY <1>1, <1>4, <3>1, Goes DEF Sees
      <4> QED
        BY <1>1, <1>2, <1>4, <4>1 DEF Stepper!Advance, Fetching
    <3>5. Stepper!Push
      BY <1>1, <1>4, <2>3, <2>5, <2>6, <3>1, <3>3, <3>4 DEF Stepper!Push, Sees
    <3> QED
      BY <3>5 DEF Steps, Stepper!Next, Stepper!Step, Stepper!Execute
  <2>7. CASE Ins.op = "CALL" /\ m = "goto_r15"
    <3>1. Sees(r15, zf, sp)'
      BY <2>2, <2>7 DEF SeesAt
    <3>2. rax = ip /\ r15 = Ins.imm /\ ~BadTarget(code, Ins.imm)
      BY <1>2, <2>7 DEF Carried, Targeted
    <3>3. ip = r13 + 1 /\ Stepper!Signed(SeenIp + 1) = rax
      BY <1>2, <1>4, <3>2, IndexFits, SameWords DEF Fetching
    <3>4. Stepper!PushValue(Stepper!Signed(SeenIp + 1))
      BY <1>4, <2>4, <3>1, <3>3, SameMemory DEF Stepper!PushValue, Sees
    <3>5. Stepper!Goto(Stepper!Ins.imm)
      <4>1. Trapped' = Trapped
        BY <1>4, <3>1 DEF Sees, Trapped, At
      <4> QED
        BY <1>1, <2>3, <3>1, <3>2, <4>1 DEF Stepper!Goto, Sees
    <3>6. Stepper!Call
      BY <1>1, <1>4, <2>3, <2>5, <2>7, <3>1, <3>2, <3>4, <3>5, SameChecks
      DEF Stepper!Call, Sees
    <3> QED
      BY <3>6 DEF Steps, Stepper!Next, Stepper!Step, Stepper!Execute
  <2> QED
    BY <2>1, <2>6, <2>7 DEF Follows, SetsZf, IsLast
<1> QED
  BY <1>5, <1>6

LEMMA DispatchSteps ==
    ASSUME CoreInv, CoreInv', Dispatch
    PROVE  Steps
<1>1. /\ pc = Label("loop") /\ IpInside /\ r13' = ip /\ ip' = ip + 1
      /\ UNCHANGED <<shown, zf, sp>> /\ ~halted
      /\ pc' = IF code[ip + 1].op = "INVALID" THEN Label("err_bad_opcode")
               ELSE After(code[ip + 1].op, 0)
  BY DEF Dispatch, At, vmRest, vmData, shown
<1>2. ~Running /\ pc[1] \notin Failing /\ pc[1] \notin Ending
  BY <1>1, LabelsApart DEF Label, Running, OnRoute, Failing, ErrorOf, Ending
<1>3. Sees(ip, zf, sp) /\ error = "OK"
  BY <1>2, SeesBetween, NothingRecorded DEF CoreInv, IInv
<1>4. code \in Seq(Instruction) /\ ip \in Nat /\ ip + 1 \in 1 .. Len(code)
  BY <1>1, ProgramsAssumption DEF CoreInv, DataInv, IpInside
<1>5. Ins' = code[ip + 1] /\ code[ip + 1].op \in Opcode \cup {"INVALID"}
  <2>1. code[ip + 1] \in Instruction
    BY <1>4
  <2>2. Ins' = code[ip + 1]
    BY <1>1 DEF shown, Ins
  <2> QED
    BY <2>1, <2>2 DEF Instruction
<1>6. CASE code[ip + 1].op = "INVALID"
  <2>1. pc'[1] = "err_bad_opcode" /\ "err_bad_opcode" \in Failing
    BY <1>1, <1>6 DEF Label, Failing, ErrorOf
  <2>2. SeenIp' = r13' /\ SeenZf' = zf' /\ SeenSp' = sp' /\ ~Trapped'
    BY <2>1, SeesFailingNext
  <2>3. SeenIp' = SeenIp /\ SeenZf' = SeenZf /\ SeenSp' = SeenSp
    BY <1>1, <1>3, <2>2 DEF Sees
  <2>4. Trapped' = Trapped
    BY <1>3, <2>2 DEF Sees, Trapped, At
  <2> QED
    BY <1>1, <2>3, <2>4 DEF shown, Steps, Stepper!vars, Stepper!data, Stepper!control
<1>7. CASE code[ip + 1].op # "INVALID"
  <2>1. PICK op \in Opcode : pc' = After(op, 0) /\ code[ip + 1].op = op /\ Ins'.op = op
    BY <1>1, <1>5, <1>7
  <2>2. PICK m \in Names \cup {"loop"} :
           Starts(op, m) /\ m = NextName(op, 0) /\ Len(Route(op)) \in Nat
    BY RouteStart
  <2>3. CASE m = "loop"
    <3>1. op = "NOP"
      BY <2>2, <2>3 DEF Starts
    <3>2. 0 >= Len(Route(op))
      BY <2>2, <2>3, RoutesLawful, NamesApart DEF NextName, Lawful, Distinct
    <3>3. pc'[1] = "loop"
      BY <2>1, <3>2 DEF After, Label
    <3>4. ~Running' /\ pc'[1] \notin Failing
      BY <3>3, LabelsApart DEF Running, OnRoute, Failing, ErrorOf
    <3>5. Sees(ip, zf, sp)'
      BY <3>4, SeesBetweenNext
    <3>6. Stepper!Ins = code[ip + 1] /\ SeenIp < Len(code) /\ code # <<>>
      BY <1>3, <1>4 DEF Stepper!Ins, Sees
    <3>7. ~BadRegister(code[ip + 1])
      BY <2>1, <3>1 DEF BadRegister, FirstRegOps, SecondRegOps, RegOps
    <3>8. Stepper!Executing({"NOP"})
      BY <1>1, <1>3, <2>1, <3>1, <3>6, <3>7, SameChecks
      DEF Stepper!Executing, Stepper!Fetched, Stepper!Ready, Sees
    <3>9. Stepper!Advance
      <4>1. Stepper!Goto(ip')
        BY <1>1, <1>3, <3>5, Goes DEF Sees, shown
      <4> QED
        BY <1>1, <1>3, <4>1 DEF Stepper!Advance, Sees
    <3>10. Stepper!Nop
      BY <1>1, <1>3, <3>5, <3>8, <3>9 DEF Stepper!Nop, Stepper!data, Sees, shown
    <3> QED
      BY <3>10 DEF Steps, Stepper!Next, Stepper!Step, Stepper!Execute
  <2>4. CASE m # "loop"
    <3>1. 0 < Len(Route(op)) /\ m = Route(op)[1]
      BY <2>2, <2>4 DEF NextName
    <3>2. pc' = <<op, 1>>
      BY <2>1, <2>2, <3>1 DEF After
    <3>3. pc'[1] = op /\ pc'[2] = 1 /\ op \notin Helpers
      BY <3>2, NamesApart
    <3>4. Running' /\ Name' = m
      BY <3>1, <3>3 DEF Running, OnRoute, Name, Here
    <3>5. SeesAt(op, m)'
      BY <2>1, <3>4, SeesNameNext
    <3>6. m \notin Settled \cup {"loop"} /\ ~PoppedAt(op, m)
      BY <2>2, <2>4 DEF Starts, Settled, PoppedAt
    <3>7. SeenIp' = r13' /\ SeenZf' = zf' /\ SeenSp' = sp' /\ ~Trapped'
      BY <3>5, <3>6 DEF SeesAt, Sees, Settled, PoppedAt
    <3>8. SeenIp' = SeenIp /\ SeenZf' = SeenZf /\ SeenSp' = SeenSp
      BY <1>1, <1>3, <3>7 DEF Sees
    <3>9. Trapped' = Trapped
      BY <1>3, <3>7 DEF Sees, Trapped, At
    <3> QED
      BY <1>1, <3>8, <3>9 DEF shown, Steps, Stepper!vars, Stepper!data, Stepper!control
  <2> QED
    BY <2>3, <2>4
<1> QED
  BY <1>6, <1>7

(* Between instructions. *)
LEMMA BetweenUnseen ==
    ASSUME CoreInv, CoreInv', Prologue \/ LoopExit \/ Return \/ Epilogue
    PROVE  Steps
<1>1. /\ pc[1] \in {"entry", "loop", "ok_return", "error_return", "finish"}
      /\ pc'[1] \in {"loop", "ok_return", "err_ip", "finish", "returned"}
      /\ UNCHANGED <<shown, zf, sp, ip>>
  BY DEF Prologue, LoopExit, Return, Epilogue, At, Label, shown, vmRest, vmData
<1>2. ~Running /\ pc[1] \notin Failing /\ ~Running' /\ pc'[1] \notin Failing
  BY <1>1, LabelsApart, NamesApart
  DEF Running, OnRoute, Failing, ErrorOf, Returning
<1>3. Sees(ip, zf, sp) /\ Sees(ip, zf, sp)'
  BY <1>2, SeesBetween, SeesBetweenNext
<1>4. SeenIp' = SeenIp /\ SeenZf' = SeenZf /\ SeenSp' = SeenSp
  BY <1>1, <1>3 DEF Sees
<1>5. Trapped' = Trapped
  BY <1>3 DEF Sees, Trapped, At
<1> QED
  BY <1>1, <1>4, <1>5 DEF shown, Steps, Stepper!vars, Stepper!data, Stepper!control

LEMMA ErrorPathSteps ==
    ASSUME <<>> \notin Programs, CoreInv, CoreInv', ErrorPath
    PROVE  Steps
<1>1. /\ pc[1] \in DOMAIN ErrorOf /\ error' = ErrorOf[pc[1]] /\ pc' = Label("error_return")
      /\ UNCHANGED <<code, regs, memory, halted, last_print, print_count, zf, sp, ip, r13>>
      /\ Ins' = Ins
  BY DEF ErrorPath, vmData, frame, Ins
<1>2. pc[1] \notin Ending
  BY <1>1 DEF ErrorOf, Ending
<1>3. error = "OK" /\ ~halted
  BY <1>2, NothingRecorded DEF CoreInv, IInv
<1>4. ~Running' /\ pc'[1] \notin Failing
  BY <1>1, LabelsApart DEF Label, Running, OnRoute, Failing, ErrorOf, Returning
<1>5. Sees(ip, zf, sp)'
  BY <1>4, SeesBetweenNext
<1>6. CASE pc[1] = "err_ip"
  <2>1. ~Running /\ pc[1] \notin Failing
    BY <1>6, LabelsApart DEF Running, OnRoute, Failing, ErrorOf
  <2>2. Sees(ip, zf, sp)
    BY <2>1, SeesBetween
  <2>3. At("err_ip")
    BY <1>6, LabelsApart
    DEF CoreInv, IInv, NativeInv, Plain, Helped, ReturnPoint, Aligned, At, Label, ErrorOf,
        Returning
  <2>4. ip = Len(code) /\ code # <<>> /\ ip \in Nat
    BY <2>3, ProgramsAssumption DEF CoreInv, FlowInv, DataInv
  <2>5. error' = "IP_OUT_OF_BOUNDS"
    BY <1>1, <1>6 DEF ErrorOf
  <2>6. SeenIp' = SeenIp /\ SeenZf' = SeenZf /\ SeenSp' = SeenSp /\ SeenIp >= Len(code)
    BY <1>1, <1>5, <2>2, <2>4 DEF Sees
  <2>7. Trapped' = Trapped
    BY <1>5, <2>2 DEF Sees, Trapped, At
  <2>8. Stepper!StepPastEnd
    BY <1>1, <1>3, <2>2, <2>4, <2>5, <2>6, <2>7
    DEF Stepper!StepPastEnd, Stepper!Ready, Stepper!data, Sees
  <2> QED
    BY <2>8 DEF Steps, Stepper!Next, Stepper!Step
<1>7. CASE pc[1] # "err_ip"
  <2>1. pc[1] \in Failing /\ pc[1] # "trap"
    BY <1>1, <1>7 DEF Failing, ErrorOf
  <2>2. /\ DataInv /\ Fetching /\ Cause(pc[1])
        /\ pc[1] \notin {"err_bad_opcode", "err_bad_register"} => ~BadRegister(Ins)
    BY <2>1 DEF CoreInv, FlowInv
  <2>3. /\ SeenIp = r13 /\ SeenZf = zf /\ ~Trapped
        /\ SeenSp = IF pc[1] = "err_bad_jump" /\ Ins.op = "RET" THEN sp - ValueSize ELSE sp
    BY <2>1, SeesFailing
  <2>4. /\ Stepper!Ins = Ins /\ Stepper!Fetched
        /\ Stepper!Operand = Operand /\ (Stepper!Taken <=> Taken)
        /\ pc[1] \notin {"err_bad_opcode", "err_bad_register"} =>
             \A ops : Ins.op \in ops => Stepper!Executing(ops)
    BY <1>3, <2>2, <2>3, Fetches
  <2>5. Stepper!Fault(ErrorOf[pc[1]])
    <3>1. Trapped' = Trapped
      BY <1>5, <2>3 DEF Sees, Trapped, At
    <3>2. SeenIp' = SeenIp + 1
      BY <1>1, <1>5, <2>2, <2>3 DEF Sees, Fetching
    <3> QED
      BY <1>1, <3>1, <3>2 DEF Stepper!Fault
  <2>6. SeenZf' = SeenZf /\ SeenSp' = sp /\ Trapped' = Trapped
    BY <1>1, <1>5, <2>3 DEF Sees, Trapped, At
  <2>7. ~(pc[1] = "err_bad_jump" /\ Ins.op = "RET") => UNCHANGED Stepper!data
    BY <1>1, <2>3, <2>6 DEF Stepper!data
  <2>8. CASE pc[1] = "err_bad_opcode"
    <3>1. Stepper!StepBadOpcode
      BY <2>2, <2>4, <2>5, <2>7, <2>8 DEF Stepper!StepBadOpcode, Cause, ErrorOf
    <3> QED
      BY <3>1 DEF Steps, Stepper!Next, Stepper!Step
  <2>9. CASE pc[1] = "err_bad_register"
    <3>1. Stepper!StepBadRegister
      BY <2>2, <2>4, <2>5, <2>7, <2>9, SameChecks DEF Stepper!StepBadRegister, Cause,
         ErrorOf
    <3> QED
      BY <3>1 DEF Steps, Stepper!Next, Stepper!Step
  <2>10. CASE pc[1] = "err_div_zero"
    <3>1. Stepper!DivideByZero
      BY <2>2, <2>4, <2>5, <2>7, <2>10, SameOpcodes DEF Stepper!DivideByZero, Cause, ErrorOf
    <3> QED
      BY <3>1 DEF Steps, Stepper!Next, Stepper!Step, Stepper!Execute
  <2>11. CASE pc[1] = "err_bad_shift"
    <3>1. Stepper!ShiftFault
      BY <2>2, <2>4, <2>5, <2>7, <2>11, SameOpcodes, SameChecks
      DEF Stepper!ShiftFault, Cause, ErrorOf
    <3> QED
      BY <3>1 DEF Steps, Stepper!Next, Stepper!Step, Stepper!Execute
  <2>12. CASE pc[1] = "err_memory_oob"
    <3>1. Stepper!AddressFault
      BY <2>2, <2>4, <2>5, <2>7, <2>12, SameOpcodes, SameChecks
      DEF Stepper!AddressFault, Cause, ErrorOf
    <3> QED
      BY <3>1 DEF Steps, Stepper!Next, Stepper!Step, Stepper!Execute
  <2>13. CASE pc[1] = "err_stack_overflow"
    <3>1. Stepper!StackOverflow
      BY <2>2, <2>3, <2>4, <2>5, <2>7, <2>13, SameChecks
      DEF Stepper!StackOverflow, Stepper!PushOverflows, Cause, ErrorOf
    <3> QED
      BY <3>1 DEF Steps, Stepper!Next, Stepper!Step, Stepper!Execute
  <2>14. CASE pc[1] = "err_stack_underflow"
    <3>1. Stepper!StackUnderflow
      BY <2>2, <2>3, <2>4, <2>5, <2>7, <2>14
      DEF Stepper!StackUnderflow, Stepper!PopUnderflows, Cause, ErrorOf
    <3> QED
      BY <3>1 DEF Steps, Stepper!Next, Stepper!Step, Stepper!Execute
  <2>15. CASE pc[1] = "err_bad_jump" /\ Ins.op # "RET"
    <3>1. Stepper!JumpFault
      BY <2>2, <2>4, <2>5, <2>7, <2>15, SameOpcodes, SameChecks
      DEF Stepper!JumpFault, Cause, ErrorOf
    <3> QED
      BY <3>1 DEF Steps, Stepper!Next, Stepper!Step, Stepper!Execute
  <2>16. CASE pc[1] = "err_bad_jump" /\ Ins.op = "RET"
    <3>1. "RET" \notin JumpOps \cup {"CALL"}
      BY DEF JumpOps
    <3>2. sp >= ValueSize /\ BadTarget(code, PoppedValue)
      BY <2>2, <2>16, <3>1 DEF Cause
    <3>3. sp \in Nat /\ sp <= MemorySize /\ MemorySize \in Nat /\ ValueSize \in Nat
      BY <2>2, WordAssumption, MachineAssumption DEF DataInv
    <3>4. SeenSp + ValueSize = sp /\ ~Stepper!PopUnderflows
      BY <2>3, <2>16, <3>2, <3>3 DEF Stepper!PopUnderflows
    <3>5. PoppedValue = Stepper!Top
      BY <2>3, <2>16, SameMemory DEF Stepper!Top, PoppedValue
    <3>6. Stepper!Fault("BAD_JUMP")
      BY <2>5, <2>16 DEF ErrorOf
    <3>7. Stepper!RetFault
      BY <1>1, <2>4, <2>6, <2>16, <3>2, <3>4, <3>5, <3>6, SameChecks DEF Stepper!RetFault
    <3> QED
      BY <3>7 DEF Steps, Stepper!Next, Stepper!Step, Stepper!Execute
  <2> QED
    BY <1>1, <1>7, <2>8, <2>9, <2>10, <2>11, <2>12, <2>13, <2>14, <2>15, <2>16 DEF ErrorOf
<1> QED
  BY <1>6, <1>7

LEMMA StutterUnseen ==
    ASSUME UNCHANGED vars
    PROVE  Steps
BY DEF vars, Steps, Stepper!vars, Stepper!data, Stepper!control, SeenIp, SeenZf, SeenSp,
   Trapped,
       InFlight, Popped, SettingZf, Position, InBlock, OnRoute, Here, At, Ins

LEMMA InitSeen == Init => Stepper!Init
<1>1. SUFFICES ASSUME Init PROVE Stepper!Init
  OBVIOUS
<1>2. pc[1] = "entry"
  BY <1>1 DEF Init, Label
<1>3. ~Running /\ pc[1] \notin Failing
  BY <1>2, LabelsApart DEF Running, OnRoute, Failing, ErrorOf
<1>4. Sees(ip, zf, sp)
  BY <1>1, <1>3, SeesBetween, InitFlow
<1>5. SeenZf = FALSE /\ Trapped = FALSE
  BY <1>1, <1>4 DEF Init, Sees, Trapped, At
<1> QED
  BY <1>1, <1>4, <1>5, SameMemory DEF Init, Stepper!Init, Sees

LEMMA NextSteps ==
    ASSUME <<>> \notin Programs, CoreInv, CoreInv', [Next]_vars
    PROVE  [Stepper!Next]_(Stepper!vars)
<1>1. Steps
  <2>1. CASE Prologue \/ LoopExit \/ Return \/ Epilogue  BY <2>1, BetweenUnseen
  <2>2. CASE Dispatch  BY <2>2, DispatchSteps
  <2>3. CASE ErrorPath  BY <2>3, ErrorPathSteps
  <2>4. CASE CallHelper  BY <2>4, CallUnseen
  <2>5. CASE LoadRegIndex  BY <2>5, LoadRegIndexUnseen
  <2>6. CASE CheckJumpImm  BY <2>6, CheckJumpImmUnseen
  <2>7. CASE CheckJumpRax  BY <2>7, CheckJumpRaxUnseen
  <2>8. CASE CheckRbx  BY <2>8, CheckRbxUnseen
  <2>9. CASE PushRax  BY <2>9, PushSteps
  <2>10. CASE PopRax  BY <2>10, PopRaxUnseen
  <2>11. CASE SetZfFromRax  BY <2>11, SetZfUnseen
  <2>12. CASE SaveIndex \/ OperandToRbx \/ FetchReg \/ SaveTarget
    BY <2>12, PreparingBlocksUnseen
  <2>13. CASE Alu  BY <2>13, AluSteps
  <2>14. CASE Bitwise  BY <2>14, BitwiseSteps
  <2>15. CASE Divide  BY <2>15, DivideSteps
  <2>16. CASE DivideStops  BY <2>16, DivideStopsSteps
  <2>17. CASE ShiftReg  BY <2>17, ShiftSteps
  <2>18. CASE LoadReg  BY <2>18, LoadSteps
  <2>19. CASE StoreReg  BY <2>19, StoreSteps
  <2>20. CASE WritePopped  BY <2>20, PoppedSteps
  <2>21. CASE Compare  BY <2>21, CompareSteps
  <2>22. CASE Test  BY <2>22, TestSteps
  <2>23. CASE GotoReg  BY <2>23, GotoSteps
  <2>24. CASE EmitPrint  BY <2>24, PrintSteps
  <2>25. CASE Unalign  BY <2>25, UnalignUnseen
  <2>26. CASE Halt  BY <2>26, HaltSteps
  <2>27. CASE UNCHANGED vars  BY <2>27, StutterUnseen
  <2> QED
    BY <2>1, <2>2, <2>3, <2>4, <2>5, <2>6, <2>7, <2>8, <2>9, <2>10, <2>11, <2>12, <2>13,
       <2>14, <2>15, <2>16, <2>17, <2>18, <2>19, <2>20, <2>21, <2>22, <2>23, <2>24, <2>25,
       <2>26, <2>27 DEF Next, Step, Ended
<1> QED
  BY <1>1 DEF Steps

LEMMA RunSteps == [RunNext]_runVars => [Next]_vars
BY DEF RunNext, Execution, Report, RunEnded, runVars, Next

LEMMA RunIsSpec == RunSpec => Spec
<1>1. RunInit => Init
  BY DEF RunInit
<1> QED
  BY <1>1, RunSteps, PTL DEF RunSpec, Spec

(* `waivm run` executes what the debugger and the trace step through: for   *)
(* every set of programs with at least one instruction each, the NASM core  *)
(* implements the stepping engine, an instruction's many blocks and helper  *)
(* calls showing as the one call that executes it.                          *)
THEOREM CoreImplementsStepper ==
    ASSUME <<>> \notin Programs
    PROVE  Spec \/ RunSpec => RefinesStepper
<1>1. CoreInv /\ CoreInv' /\ [Next]_vars => [Stepper!Next]_(Stepper!vars)
  BY NextSteps
<1>2. Spec => RefinesStepper
  BY InitSeen, <1>1, CoreInvariance, PTL DEF Spec, RefinesStepper, Stepper!Spec
<1> QED
  BY <1>2, RunIsSpec
=============================================================================
