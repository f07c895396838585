------------------------------ MODULE Assembly ------------------------------
(***************************************************************************)
(* Assembly text as tokens: what the assembler accepts as one instruction, *)
(* and what the disassembler prints for one.  The two have tables of their *)
(* own in the code and have them here.                                     *)
(*                                                                         *)
(* Characters are abstracted to what the parsers tell apart.  A token is a *)
(* register r<n>, a number that fits a value, a name (any other identifier *)
(* or mnemonic), a token in brackets, or junk, which no parser accepts.    *)
(***************************************************************************)
EXTENDS Instruction

Reg(n) == [kind |-> "register", value |-> n]
Num(v) == [kind |-> "number", value |-> v]
Name(text) == [kind |-> "name", text |-> text]
InBrackets(t) == [kind |-> "memory", inner |-> t]
Junk == [kind |-> "junk"]

FlatToken ==
    [kind : {"register"}, value : Nat] \cup [kind : {"number"}, value : Value]
        \cup [kind : {"name"}, text : STRING] \cup {Junk}
Token == FlatToken \cup [kind : {"memory"}, inner : FlatToken]

(* Mutant of IsRegister: any register number is taken. *)
IsAnyRegister(t) == t.kind = "register"

IsRegister(t) == t.kind = "register" /\ ValidReg(t.value)
IsNumber(t) == t.kind = "number"
IsMemory(t) == t.kind = "memory" /\ (IsRegister(t.inner) \/ IsNumber(t.inner))
(* r0 and mov are identifiers too, so they may be labels. *)
IsIdentifier(t) == t.kind \in {"register", "name"}

MaxTokens == 4

----------------------------------------------------------------------------
(* The assembler's mnemonics: immediate and register form, or one opcode. *)
AluMnemonics ==
    [mov |-> <<"MOV_IMM", "MOV_REG">>, add |-> <<"ADD_IMM", "ADD_REG">>,
     sub |-> <<"SUB_IMM", "SUB_REG">>, mul |-> <<"MUL_IMM", "MUL_REG">>,
     div |-> <<"DIV_IMM", "DIV_REG">>, mod |-> <<"MOD_IMM", "MOD_REG">>,
     and |-> <<"AND_IMM", "AND_REG">>, or |-> <<"OR_IMM", "OR_REG">>,
     xor |-> <<"XOR_IMM", "XOR_REG">>, shl |-> <<"SHL_IMM", "SHL_REG">>,
     shr |-> <<"SHR_IMM", "SHR_REG">>, cmp |-> <<"CMP_IMM", "CMP_REG">>]
OneRegisterMnemonics ==
    [push |-> "PUSH", pop |-> "POP", print |-> "PRINT", not |-> "NOT"]
LabelMnemonics == [jmp |-> "JMP", call |-> "CALL", je |-> "JE", jne |-> "JNE"]
ZeroTestMnemonics == [jz |-> "JZ", jnz |-> "JNZ"]
BareMnemonics == [ret |-> "RET", nop |-> "NOP", halt |-> "HALT"]

MakeInstr(op) == [op |-> op, a |-> 0, b |-> 0, c |-> 0, imm |-> 0]

(* What parsing a line gives: whether it is an instruction, the            *)
(* instruction, and the label it refers to, if any.                        *)
Rejected == [ok |-> FALSE, ins |-> MakeInstr("INVALID"), refs |-> {}]
Parsed(ins) == [ok |-> TRUE, ins |-> ins, refs |-> {}]
ParsedJump(ins, t) == [ok |-> TRUE, ins |-> ins, refs |-> {t}]

(* The register or immediate form, by the kind of the operand t. *)
WithOperand(forms, r, t) ==
    IF IsRegister(t) THEN [MakeInstr(forms[2]) EXCEPT !.a = r, !.b = t.value]
    ELSE [MakeInstr(forms[1]) EXCEPT !.a = r, !.imm = t.value]

ParseTwoOperandAlu(forms, args) ==
    IF /\ Len(args) = 2 /\ IsRegister(args[1])
       /\ IsRegister(args[2]) \/ IsNumber(args[2])
    THEN Parsed(WithOperand(forms, args[1].value, args[2]))
    ELSE Rejected

ParseLoad(args) ==
    IF Len(args) = 2 /\ IsRegister(args[1]) /\ IsMemory(args[2])
    THEN Parsed(WithOperand(<<"LOAD_ABS", "LOAD_REG">>, args[1].value, args[2].inner))
    ELSE Rejected

ParseStore(args) ==
    IF Len(args) = 2 /\ IsMemory(args[1]) /\ IsRegister(args[2])
    THEN Parsed(WithOperand(<<"STORE_ABS", "STORE_REG">>, args[2].value, args[1].inner))
    ELSE Rejected

ParseOneRegister(op, args) ==
    IF Len(args) = 1 /\ IsRegister(args[1])
    THEN Parsed([MakeInstr(op) EXCEPT !.a = args[1].value])
    ELSE Rejected

ParseLabelJump(op, args) ==
    IF Len(args) = 1 /\ IsIdentifier(args[1])
    THEN ParsedJump(MakeInstr(op), args[1])
    ELSE Rejected

ParseZeroTest(op, args) ==
    IF Len(args) = 2 /\ IsRegister(args[1]) /\ IsIdentifier(args[2])
    THEN ParsedJump([MakeInstr(op) EXCEPT !.a = args[1].value], args[2])
    ELSE Rejected

ParseBare(op, args) == IF args = <<>> THEN Parsed(MakeInstr(op)) ELSE Rejected

Parse(tokens) ==
    LET first == Head(tokens)
        args == Tail(tokens)
        m == IF first.kind = "name" THEN first.text ELSE "r0"
    IN  CASE Len(tokens) > MaxTokens -> Rejected
          [] m \in DOMAIN AluMnemonics -> ParseTwoOperandAlu(AluMnemonics[m], args)
          [] m = "load" -> ParseLoad(args)
          [] m = "store" -> ParseStore(args)
          [] m \in DOMAIN OneRegisterMnemonics ->
               ParseOneRegister(OneRegisterMnemonics[m], args)
          [] m \in DOMAIN LabelMnemonics -> ParseLabelJump(LabelMnemonics[m], args)
          [] m \in DOMAIN ZeroTestMnemonics -> ParseZeroTest(ZeroTestMnemonics[m], args)
          [] m \in DOMAIN BareMnemonics -> ParseBare(BareMnemonics[m], args)
          [] OTHER -> Rejected

----------------------------------------------------------------------------
(* wai_disassemble_instruction, after the index column. *)
ListedWithImm ==
    [MOV_IMM |-> "mov", ADD_IMM |-> "add", SUB_IMM |-> "sub", MUL_IMM |-> "mul",
     DIV_IMM |-> "div", MOD_IMM |-> "mod", AND_IMM |-> "and", OR_IMM |-> "or",
     XOR_IMM |-> "xor", SHL_IMM |-> "shl", SHR_IMM |-> "shr", CMP_IMM |-> "cmp",
     JZ |-> "jz", JNZ |-> "jnz"]
ListedWithReg ==
    [MOV_REG |-> "mov", ADD_REG |-> "add", SUB_REG |-> "sub", MUL_REG |-> "mul",
     DIV_REG |-> "div", MOD_REG |-> "mod", AND_REG |-> "and", OR_REG |-> "or",
     XOR_REG |-> "xor", SHL_REG |-> "shl", SHR_REG |-> "shr", CMP_REG |-> "cmp"]
ListedWithOneReg ==
    [NOT |-> "not", PRINT |-> "print", PUSH |-> "push", POP |-> "pop"]
ListedWithTarget == [JMP |-> "jmp", CALL |-> "call", JE |-> "je", JNE |-> "jne"]
ListedBare == [HALT |-> "halt", RET |-> "ret", NOP |-> "nop"]

(* Mutant of ListStore: the two registers change places. *)
ListStoreSwapped(ins) ==
    LET address == IF ins.op = "STORE_ABS" THEN Num(ins.imm) ELSE Reg(ins.a)
    IN  <<Name("store"), InBrackets(address),
          Reg(IF ins.op = "STORE_ABS" THEN ins.a ELSE ins.b)>>

ListStore(ins) ==
    <<Name("store"),
      InBrackets(IF ins.op = "STORE_ABS" THEN Num(ins.imm) ELSE Reg(ins.b)),
      Reg(ins.a)>>

Listing(ins) ==
    CASE ins.op \in DOMAIN ListedWithImm ->
           <<Name(ListedWithImm[ins.op]), Reg(ins.a), Num(ins.imm)>>
      [] ins.op \in DOMAIN ListedWithReg ->
           <<Name(ListedWithReg[ins.op]), Reg(ins.a), Reg(ins.b)>>
      [] ins.op \in DOMAIN ListedWithOneReg ->
           <<Name(ListedWithOneReg[ins.op]), Reg(ins.a)>>
      [] ins.op \in DOMAIN ListedWithTarget ->
           <<Name(ListedWithTarget[ins.op]), Num(ins.imm)>>
      [] ins.op \in DOMAIN ListedBare -> <<Name(ListedBare[ins.op])>>
      [] ins.op = "LOAD_ABS" -> <<Name("load"), Reg(ins.a), InBrackets(Num(ins.imm))>>
      [] ins.op = "LOAD_REG" -> <<Name("load"), Reg(ins.a), InBrackets(Reg(ins.b))>>
      [] ins.op \in {"STORE_ABS", "STORE_REG"} -> ListStore(ins)
      [] ins.op = "INVALID" -> <<Junk, Junk>>
=============================================================================
