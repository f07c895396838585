--------------------------- MODULE AssemblerProofs ---------------------------
(***************************************************************************)
(* The assembler, for every source, word width and capacity.  AsmInv: the  *)
(* tables, and that the write which resolves a reference, which checks no  *)
(* bound, is of the immediate of an instruction that takes a label.        *)
(* Shape: what the parsers make of an instruction, and that what they make *)
(* prints as a line they make it of again.  Understood: what the tables    *)
(* know of the lines read so far, by which the two passes give what the    *)
(* source says line by line.                                               *)
(***************************************************************************)
EXTENDS Assembler, WordProofs, FiniteSetTheorems

TakesLabel(ins) == ins.op \in JumpOps \cup {"CALL"}

(* What parsing can give: nothing, an instruction, or an instruction with  *)
(* exactly one reference, and that exactly for the opcodes with a target.  *)
WellParsed(p) ==
    \/ p = Rejected
    \/ p.ok /\ p.ins \in Instruction /\ p.refs = {} /\ ~TakesLabel(p.ins)
    \/ /\ p.ok /\ p.ins \in Instruction /\ TakesLabel(p.ins)
       /\ \E t \in Token : p.refs = {t}

NoLabelOps == (Opcode \cup {"INVALID"}) \ (JumpOps \cup {"CALL"})

LEMMA OperandTokens ==
    ASSUME NEW t \in Token
    PROVE  /\ IsRegister(t) => t.value \in Nat
           /\ IsNumber(t) => t.value \in Value
           /\ IsMemory(t) => t.inner \in Token
BY DEF Token, FlatToken, IsRegister, IsNumber, IsMemory, Junk

LEMMA MadeInstruction ==
    ASSUME NEW op \in Opcode \cup {"INVALID"}
    PROVE  /\ MakeInstr(op) \in Instruction /\ MakeInstr(op).op = op
           /\ \A a \in Nat :
                 /\ [MakeInstr(op) EXCEPT !.a = a] \in Instruction
                 /\ [MakeInstr(op) EXCEPT !.a = a].op = op
BY ZeroIsValue DEF MakeInstr, Instruction

LEMMA TokensOfArgs ==
    ASSUME NEW args \in Seq(Token)
    PROVE  /\ Len(args) = 1 => args[1] \in Token
           /\ Len(args) = 2 => args[1] \in Token /\ args[2] \in Token
OBVIOUS

LEMMA OperandForms ==
    ASSUME NEW forms, forms[1] \in NoLabelOps, forms[2] \in NoLabelOps, NEW r \in Nat,
           NEW t \in Token, IsRegister(t) \/ IsNumber(t)
    PROVE  WellParsed(Parsed(WithOperand(forms, r, t)))
<1>1. CASE IsRegister(t)
  <2>1. t.value \in Nat /\ forms[2] \in Opcode \cup {"INVALID"}
    BY <1>1, OperandTokens DEF NoLabelOps
  <2> DEFINE ins == [MakeInstr(forms[2]) EXCEPT !.a = r, !.b = t.value]
  <2>2. ins \in Instruction /\ ins.op = forms[2]
    BY <2>1, ZeroIsValue DEF MakeInstr, Instruction
  <2>3. WithOperand(forms, r, t) = ins
    BY <1>1 DEF WithOperand
  <2> HIDE DEF ins
  <2> QED
    BY <2>2, <2>3 DEF WellParsed, Parsed, TakesLabel, NoLabelOps
<1>2. CASE ~IsRegister(t)
  <2>1. t.value \in Value /\ forms[1] \in Opcode \cup {"INVALID"}
    BY <1>2, OperandTokens DEF NoLabelOps
  <2> DEFINE ins == [MakeInstr(forms[1]) EXCEPT !.a = r, !.imm = t.value]
  <2>2. ins \in Instruction /\ ins.op = forms[1]
    BY <2>1, ZeroIsValue DEF MakeInstr, Instruction
  <2>3. WithOperand(forms, r, t) = ins
    BY <1>2 DEF WithOperand
  <2> HIDE DEF ins
  <2> QED
    BY <2>2, <2>3 DEF WellParsed, Parsed, TakesLabel, NoLabelOps
<1> QED
  BY <1>1, <1>2

LEMMA Rejects == WellParsed(Rejected)
BY DEF WellParsed

LEMMA ParsesTwoOperandAlu ==
    ASSUME NEW m \in DOMAIN AluMnemonics, NEW args \in Seq(Token)
    PROVE  WellParsed(ParseTwoOperandAlu(AluMnemonics[m], args))
<1>1. AluMnemonics[m][1] \in NoLabelOps /\ AluMnemonics[m][2] \in NoLabelOps
  BY DEF AluMnemonics, NoLabelOps, Opcode, AluOps, ImmOps, RegOps, DivOps, ShiftOps, CmpOps,
         JumpOps
<1>2. CASE Len(args) = 2 /\ IsRegister(args[1]) /\ (IsRegister(args[2]) \/ IsNumber(args[2]))
  <2>1. args[1] \in Token /\ args[2] \in Token
    BY <1>2, TokensOfArgs
  <2> QED
    BY <1>1, <1>2, <2>1, OperandTokens, OperandForms DEF ParseTwoOperandAlu
<1> QED
  BY <1>2, Rejects DEF ParseTwoOperandAlu

LEMMA ParsesMemoryOperand ==
    ASSUME NEW args \in Seq(Token)
    PROVE  WellParsed(ParseLoad(args)) /\ WellParsed(ParseStore(args))
<1> DEFINE loads == <<"LOAD_ABS", "LOAD_REG">>
           stores == <<"STORE_ABS", "STORE_REG">>
<1>1. /\ loads[1] \in NoLabelOps /\ loads[2] \in NoLabelOps
      /\ stores[1] \in NoLabelOps /\ stores[2] \in NoLabelOps
  BY DEF NoLabelOps, Opcode, LoadOps, StoreOps, JumpOps
<1> HIDE DEF loads, stores
<1>2. Len(args) = 2 => args[1] \in Token /\ args[2] \in Token
  BY TokensOfArgs
<1>3. WellParsed(ParseLoad(args))
  <2>1. CASE Len(args) = 2 /\ IsRegister(args[1]) /\ IsMemory(args[2])
    <3>1. /\ args[1].value \in Nat /\ args[2].inner \in Token
          /\ IsRegister(args[2].inner) \/ IsNumber(args[2].inner)
      BY <1>2, <2>1, OperandTokens DEF IsMemory
    <3> QED
      BY <1>1, <2>1, <3>1, OperandForms DEF ParseLoad, loads
  <2> QED
    BY <2>1, Rejects DEF ParseLoad
<1>4. WellParsed(ParseStore(args))
  <2>1. CASE Len(args) = 2 /\ IsMemory(args[1]) /\ IsRegister(args[2])
    <3>1. /\ args[2].value \in Nat /\ args[1].inner \in Token
          /\ IsRegister(args[1].inner) \/ IsNumber(args[1].inner)
      BY <1>2, <2>1, OperandTokens DEF IsMemory
    <3> QED
      BY <1>1, <2>1, <3>1, OperandForms DEF ParseStore, stores
  <2> QED
    BY <2>1, Rejects DEF ParseStore
<1> QED
  BY <1>3, <1>4

LEMMA ParsesOthers ==
    ASSUME NEW args \in Seq(Token)
    PROVE  /\ \A op \in NoLabelOps : /\ WellParsed(ParseOneRegister(op, args))
                                     /\ WellParsed(ParseBare(op, args))
           /\ \A op \in JumpOps \cup {"CALL"} : /\ WellParsed(ParseLabelJump(op, args))
                                                /\ WellParsed(ParseZeroTest(op, args))
<1>1. JumpOps \cup {"CALL"} \subseteq Opcode /\ NoLabelOps \subseteq Opcode \cup {"INVALID"}
  BY DEF Opcode, NoLabelOps
<1>2. /\ Len(args) = 1 => args[1] \in Token
      /\ Len(args) = 2 => args[1] \in Token /\ args[2] \in Token
  BY TokensOfArgs
<1>3. ASSUME NEW op \in Opcode \cup {"INVALID"}, NEW r \in Nat
      PROVE  /\ MakeInstr(op) \in Instruction /\ MakeInstr(op).op = op
             /\ [MakeInstr(op) EXCEPT !.a = r] \in Instruction
             /\ [MakeInstr(op) EXCEPT !.a = r].op = op
  BY MadeInstruction
<1>4. ASSUME NEW ins \in Instruction, ~TakesLabel(ins) PROVE WellParsed(Parsed(ins))
  BY <1>4 DEF WellParsed, Parsed
<1>5. ASSUME NEW ins \in Instruction, TakesLabel(ins), NEW t \in Token
      PROVE  WellParsed(ParsedJump(ins, t))
  BY <1>5 DEF WellParsed, ParsedJump
<1>6. ASSUME NEW op \in NoLabelOps
      PROVE  WellParsed(ParseOneRegister(op, args)) /\ WellParsed(ParseBare(op, args))
  <2>1. WellParsed(ParseBare(op, args))
    BY <1>1, <1>3, <1>4, Rejects DEF ParseBare, TakesLabel, NoLabelOps
  <2>2. CASE Len(args) = 1 /\ IsRegister(args[1])
    <3>1. args[1].value \in Nat
      BY <1>2, <2>2, OperandTokens
    <3> QED
      BY <1>1, <1>3, <1>4, <2>1, <2>2, <3>1 DEF ParseOneRegister, TakesLabel, NoLabelOps
  <2> QED
    BY <2>1, <2>2, Rejects DEF ParseOneRegister
<1>7. ASSUME NEW op \in JumpOps \cup {"CALL"}
      PROVE  WellParsed(ParseLabelJump(op, args)) /\ WellParsed(ParseZeroTest(op, args))
  <2>1. WellParsed(ParseLabelJump(op, args))
    BY <1>1, <1>2, <1>3, <1>5, Rejects DEF ParseLabelJump, TakesLabel
  <2>2. CASE Len(args) = 2 /\ IsRegister(args[1]) /\ IsIdentifier(args[2])
    <3>1. args[1].value \in Nat
      BY <1>2, <2>2, OperandTokens
    <3> DEFINE ins == [MakeInstr(op) EXCEPT !.a = args[1].value]
    <3>2. ins \in Instruction /\ TakesLabel(ins)
      BY <1>1, <1>3, <3>1 DEF TakesLabel
    <3>3. ParseZeroTest(op, args) = ParsedJump(ins, args[2])
      BY <2>2 DEF ParseZeroTest
    <3> HIDE DEF ins
    <3> QED
      BY <1>2, <1>5, <2>1, <2>2, <3>2, <3>3
  <2> QED
    BY <2>1, <2>2, Rejects DEF ParseZeroTest
<1> QED
  BY <1>6, <1>7

LEMMA ParsesWell ==
    ASSUME NEW tokens \in Seq(Token), tokens # <<>>
    PROVE  WellParsed(Parse(tokens))
<1> DEFINE args == Tail(tokens)
           m == IF Head(tokens).kind = "name" THEN Head(tokens).text ELSE "r0"
<1>1. args \in Seq(Token)
  OBVIOUS
<1> HIDE DEF args, m
<1>2. m \in DOMAIN AluMnemonics => WellParsed(ParseTwoOperandAlu(AluMnemonics[m], args))
  BY <1>1, ParsesTwoOperandAlu
<1>3. WellParsed(ParseLoad(args)) /\ WellParsed(ParseStore(args))
  BY <1>1, ParsesMemoryOperand
<1>4. m \in DOMAIN OneRegisterMnemonics =>
        WellParsed(ParseOneRegister(OneRegisterMnemonics[m], args))
  <2>1. m \in DOMAIN OneRegisterMnemonics => OneRegisterMnemonics[m] \in NoLabelOps
    BY DEF OneRegisterMnemonics, NoLabelOps, Opcode, UnaryOps, JumpOps
  <2> QED
    BY <1>1, <2>1, ParsesOthers
<1>5. m \in DOMAIN BareMnemonics => WellParsed(ParseBare(BareMnemonics[m], args))
  <2>1. m \in DOMAIN BareMnemonics => BareMnemonics[m] \in NoLabelOps
    BY DEF BareMnemonics, NoLabelOps, Opcode, JumpOps
  <2> QED
    BY <1>1, <2>1, ParsesOthers
<1>6. m \in DOMAIN LabelMnemonics => WellParsed(ParseLabelJump(LabelMnemonics[m], args))
  <2>1. m \in DOMAIN LabelMnemonics => LabelMnemonics[m] \in JumpOps \cup {"CALL"}
    BY DEF LabelMnemonics, JumpOps
  <2> QED
    BY <1>1, <2>1, ParsesOthers
<1>7. m \in DOMAIN ZeroTestMnemonics => WellParsed(ParseZeroTest(ZeroTestMnemonics[m], args))
  <2>1. m \in DOMAIN ZeroTestMnemonics => ZeroTestMnemonics[m] \in JumpOps \cup {"CALL"}
    BY DEF ZeroTestMnemonics, JumpOps
  <2> QED
    BY <1>1, <2>1, ParsesOthers
<1> QED
  BY <1>2, <1>3, <1>4, <1>5, <1>6, <1>7, Rejects, Zenon DEF Parse, args, m

----------------------------------------------------------------------------
(* The tables.  References are to different instructions, in order, and to *)
(* exactly those that take a label.                                        *)
LabelEntries == [name : Token, target : 0 .. (Half - 1)]
PendingEntries == [index : Nat, name : Token, line : Nat]

Fixups(code, refs) ==
    /\ \A i \in 1..Len(refs) : /\ refs[i].index + 1 \in 1..Len(code)
                              /\ TakesLabel(code[refs[i].index + 1])
    /\ \A k \in 1..Len(code) :
          TakesLabel(code[k]) => \E i \in 1..Len(refs) : refs[i].index + 1 = k
    /\ \A i, j \in 1..Len(refs) : i < j => refs[i].index < refs[j].index

Progress ==
    /\ source \in Seq(SourceLine) /\ Len(source) < Half
    /\ position \in 0..Len(source) /\ lineNumber \in 0..position
    /\ phase \in {"copying", "lines", "resolving", "done"}
    /\ resolved \in 0..Len(source)
    /\ phase \in {"copying", "lines"} => resolved = 0
    /\ phase = "resolving" => resolved <= Len(pending)

Tables ==
    /\ labels \in Seq(LabelEntries)
    /\ pending \in Seq(PendingEntries)
    /\ program \in Seq(Instruction)
    /\ Len(pending) <= Len(program) /\ Len(program) <= lineNumber
    /\ phase # "done" => Fixups(program, pending)
    /\ phase = "copying" => labels = <<>> /\ pending = <<>> /\ program = <<>>
    /\ phase = "done" => labels = <<>> /\ pending = <<>>

Outcome ==
    /\ result.error \in {"OK", "PARSE", "OOM"}
    /\ phase # "done" => result.error = "OK"
    /\ result.error # "OK" => program = <<>>

AsmInv == Progress /\ Tables /\ Outcome

LEMMA EmptyTables == Fixups(<<>>, <<>>)
BY DEF Fixups

(* An instruction that takes a label comes with one reference to it, any   *)
(* other with none.                                                        *)
LEMMA PushKeepsFixups ==
    ASSUME NEW code \in Seq(Instruction), NEW refs \in Seq(PendingEntries),
           Fixups(code, refs), NEW ins \in Instruction
    PROVE  /\ ~TakesLabel(ins) => Fixups(Append(code, ins), refs)
           /\ \A ref \in PendingEntries :
                 TakesLabel(ins) /\ ref.index = Len(code)
                    => Fixups(Append(code, ins), Append(refs, ref))
<1> DEFINE longer == Append(code, ins)
<1>1. /\ Len(longer) = Len(code) + 1 /\ Len(code) \in Nat
      /\ \A k \in 1..Len(code) : longer[k] = code[k]
      /\ longer[Len(code) + 1] = ins
  OBVIOUS
<1> HIDE DEF longer
<1>2. ASSUME ~TakesLabel(ins) PROVE Fixups(longer, refs)
  <2>1. \A k \in 1..Len(longer) : k \in 1..Len(code) \/ k = Len(code) + 1
    BY <1>1
  <2> QED
    BY <1>1, <1>2, <2>1 DEF Fixups
<1>3. ASSUME NEW ref \in PendingEntries, TakesLabel(ins), ref.index = Len(code)
      PROVE  Fixups(longer, Append(refs, ref))
  <2> DEFINE all == Append(refs, ref)
  <2>1. /\ Len(all) = Len(refs) + 1 /\ Len(refs) \in Nat
        /\ \A i \in 1..Len(refs) : all[i] = refs[i] /\ refs[i].index \in Nat
        /\ all[Len(refs) + 1] = ref
    <3>1. \A i \in 1..Len(refs) : refs[i] \in PendingEntries
      OBVIOUS
    <3>2. /\ Len(all) = Len(refs) + 1 /\ Len(refs) \in Nat
          /\ \A i \in 1..Len(refs) : all[i] = refs[i]
          /\ all[Len(refs) + 1] = ref
      OBVIOUS
    <3> QED
      BY <3>1, <3>2 DEF PendingEntries
  <2> HIDE DEF all
  <2>2. /\ \A k \in 1..Len(longer) : k \in 1..Len(code) \/ k = Len(code) + 1
        /\ \A i \in 1..Len(all) : i \in 1..Len(refs) \/ i = Len(refs) + 1
    BY <1>1, <2>1
  <2>3. ASSUME NEW i \in 1..Len(all)
        PROVE  all[i].index + 1 \in 1..Len(longer) /\ TakesLabel(longer[all[i].index + 1])
    <3>1. CASE i \in 1..Len(refs)
      BY <1>1, <2>1, <3>1 DEF Fixups
    <3>2. CASE i = Len(refs) + 1
      BY <1>1, <1>3, <2>1, <3>2
    <3> QED
      BY <2>2, <3>1, <3>2
  <2>4. ASSUME NEW k \in 1..Len(longer), TakesLabel(longer[k])
        PROVE  \E i \in 1..Len(all) : all[i].index + 1 = k
    <3>1. CASE k \in 1..Len(code)
      <4>1. PICK i \in 1..Len(refs) : refs[i].index + 1 = k
        BY <1>1, <2>4, <3>1 DEF Fixups
      <4> QED
        BY <2>1, <4>1
    <3>2. CASE k = Len(code) + 1
      <4>1. Len(refs) + 1 \in 1..Len(all)
        BY <2>1
      <4> QED
        BY <1>3, <2>1, <3>2, <4>1
    <3> QED
      BY <2>2, <3>1, <3>2
  <2>5. ASSUME NEW i \in 1..Len(all), NEW j \in 1..Len(all), i < j
        PROVE  all[i].index < all[j].index
    <3>1. i \in 1..Len(refs)
      BY <2>1, <2>2, <2>5
    <3>2. CASE j \in 1..Len(refs)
      BY <2>1, <2>5, <3>1, <3>2 DEF Fixups
    <3>3. CASE j = Len(refs) + 1
      <4>1. refs[i].index + 1 \in 1..Len(code) /\ refs[i].index \in Nat
        BY <2>1, <3>1 DEF Fixups
      <4>2. all[i] = refs[i] /\ all[j] = ref
        BY <2>1, <3>1, <3>3
      <4> QED
        BY <1>1, <1>3, <4>1, <4>2
    <3> QED
      BY <2>2, <3>2, <3>3
  <2> QED
    BY <2>3, <2>4, <2>5 DEF Fixups, all
<1> QED
  BY <1>2, <1>3 DEF longer

(* Writing an immediate changes no opcode. *)
LEMMA WriteKeepsFixups ==
    ASSUME NEW code \in Seq(Instruction), NEW refs \in Seq(PendingEntries),
           Fixups(code, refs), NEW k \in 1..Len(code), NEW v \in Value
    PROVE  LET written == [code EXCEPT ![k].imm = v]
           IN  /\ written \in Seq(Instruction)
               /\ Len(written) = Len(code)
               /\ Fixups(written, refs)
<1> DEFINE ins == [code[k] EXCEPT !.imm = v]
           written == [code EXCEPT ![k] = ins]
<1>1. ins \in Instruction /\ ins.op = code[k].op
  <2>1. code[k] \in Instruction
    OBVIOUS
  <2> QED
    BY <2>1 DEF Instruction
<1> HIDE DEF ins
<1>2. /\ written \in Seq(Instruction) /\ Len(written) = Len(code)
      /\ \A i \in 1..Len(code) : written[i] = IF i = k THEN ins ELSE code[i]
  BY <1>1
<1>3. \A i \in 1..Len(code) : TakesLabel(written[i]) = TakesLabel(code[i])
  BY <1>1, <1>2 DEF TakesLabel
<1> HIDE DEF written
<1>4. Fixups(written, refs)
  BY <1>2, <1>3 DEF Fixups
<1>5. written = [code EXCEPT ![k].imm = v]
  BY DEF written, ins
<1> QED
  BY <1>2, <1>4, <1>5

----------------------------------------------------------------------------
(* What the actions read. *)

LEMMA LineType ==
    ASSUME Progress, AtLine
    PROVE  /\ position + 1 \in 1..Len(source)
           /\ Line.kind = "code" => Line.tokens \in Seq(Token) /\ Line.tokens # <<>>
           /\ Line.kind = "label" => Line.name \in Token
<1>1. position + 1 \in 1..Len(source) /\ source \in Seq(SourceLine)
  BY DEF Progress, AtLine
<1>2. Line \in SourceLine
  BY <1>1 DEF Line
<1> QED
  BY <1>1, <1>2 DEF SourceLine, EmptyLine, BlankLine

LEMMA CutType ==
    ASSUME NEW t \in Token
    PROVE  Cut(t) \in Token
<1>1. CASE t.kind = "name" /\ t.text \in DOMAIN Prefix63
  <2>1. Prefix63[t.text] \in STRING
    BY <1>1, SourcesAssumption
  <2> QED
    BY <1>1, <2>1 DEF Cut, Name, Token, FlatToken
<1>2. CASE ~(t.kind = "name" /\ t.text \in DOMAIN Prefix63)
  BY <1>2 DEF Cut
<1> QED
  BY <1>1, <1>2

LEMMA LeastFound ==
    ASSUME Tables, NEW name, Found(name) # {}
    PROVE  /\ Min(Found(name)) \in 1..Len(labels) /\ Min(Found(name)) \in Found(name)
           /\ \A i \in Found(name) : Min(Found(name)) <= i
<1>1. Found(name) \in SUBSET Nat /\ Found(name) \subseteq 1..Len(labels)
  BY DEF Found, Tables
<1>2. \E x \in Found(name) : \A y \in Found(name) : x <= y
  BY <1>1, LeastExists
<1> QED
  BY <1>1, <1>2 DEF Min

LEMMA FoundLabel ==
    ASSUME Tables, NEW name, Found(name) # {}
    PROVE  labels[Min(Found(name))].target \in Nat
           /\ labels[Min(Found(name))].target < Half
<1>1. labels[Min(Found(name))] \in LabelEntries
  BY LeastFound DEF Tables
<1> QED
  BY <1>1, Widths DEF LabelEntries

----------------------------------------------------------------------------
(* The actions. *)

LEMMA InitEstablishes == Init => AsmInv
<1> SUFFICES ASSUME Init PROVE AsmInv
  OBVIOUS
<1>1. source \in Seq(SourceLine) /\ Len(source) < Half /\ Len(source) \in Nat
  BY SourcesAssumption DEF Init
<1> QED
  BY <1>1, EmptyTables DEF Init, AsmInv, Progress, Tables, Outcome

(* A failure frees the tables and the program. *)
LEMMA FailKeeps ==
    ASSUME Progress', phase' = "done", NEW error \in {"PARSE", "OOM"},
           NEW line, Fail(error, line)
    PROVE  AsmInv'
BY DEF Fail, AsmInv, Progress, Tables, Outcome

(* The next line has been read, and the pass over the lines goes on. *)
LEMMA ReadingKeeps ==
    ASSUME Progress, NEW line, Reading(line),
           phase' = phase \/ phase' = "done"
    PROVE  Progress' /\ lineNumber' = lineNumber + 1
BY LineType DEF Progress, Reading, AtLine

LEMMA LinesKeep ==
    ASSUME AsmInv, ReadLabel
    PROVE  AsmInv'
<1>1. /\ AtLine /\ Line.kind = "label" /\ Line.name \in Token
      /\ Progress /\ Tables /\ Outcome
  BY LineType DEF AsmInv, ReadLabel
<1> DEFINE t == Line.name
<1>2. CASE AddLabel(t)
  <2>1. /\ Progress' /\ lineNumber' = lineNumber + 1
    BY <1>1, <1>2, ReadingKeeps DEF AddLabel
  <2>2. [name |-> Cut(t), target |-> Len(program)] \in LabelEntries
    <3>1. Cut(t) \in Token
      BY <1>1, CutType
    <3>2. Len(program) \in Nat
      BY <1>1 DEF Tables
    <3>3. Len(program) \in 0 .. (Half - 1)
      BY <1>1, <3>2, Widths DEF Progress, Tables
    <3> QED
      BY <3>1, <3>3 DEF LabelEntries
  <2>3. labels' \in Seq(LabelEntries)
    BY <1>1, <1>2, <2>2 DEF AddLabel, Tables
  <2>4. phase = "lines" /\ UNCHANGED <<pending, program, result, phase>>
    BY <1>1, <1>2 DEF AddLabel, AtLine
  <2>5. lineNumber \in Nat
    BY <1>1 DEF Progress
  <2>6. Tables'
    BY <1>1, <2>1, <2>3, <2>4, <2>5 DEF Tables
  <2> QED
    BY <1>1, <2>1, <2>4, <2>6 DEF AsmInv, Outcome
<1>3. CASE LabelFails(t)
  <2>1. PICK error \in {"PARSE", "OOM"} : Fail(error, lineNumber')
    BY <1>3 DEF LabelFails
  <2>2. phase' = "done" /\ Progress'
    BY <1>1, <1>3, <2>1, ReadingKeeps DEF LabelFails, Fail
  <2> QED
    BY <2>1, <2>2, FailKeeps
<1> QED
  BY <1>2, <1>3 DEF ReadLabel

LEMMA CodeKeeps ==
    ASSUME AsmInv, ReadCode
    PROVE  AsmInv'
<1>1. /\ AtLine /\ Line.tokens \in Seq(Token) /\ Line.tokens # <<>>
      /\ Progress /\ Tables /\ Outcome
  BY LineType DEF AsmInv, ReadCode
<1> DEFINE tokens == Line.tokens
           p == Parse(tokens)
<1>2. WellParsed(p)
  BY <1>1, ParsesWell
<1>3. CASE PushInstruction(tokens)
  <2>1. /\ Progress' /\ lineNumber' = lineNumber + 1
    BY <1>1, <1>3, ReadingKeeps DEF PushInstruction
  <2>2. /\ p.ok /\ program' = Append(program, p.ins)
        /\ UNCHANGED <<labels, result, phase>> /\ phase = "lines"
        /\ IF p.refs = {} THEN pending' = pending
           ELSE \E t \in p.refs : pending' = Append(pending, Reference(t))
    BY <1>1, <1>3 DEF PushInstruction, AtLine
  <2>3. p.ins \in Instruction
    BY <1>2, <2>2 DEF WellParsed, Rejected
  <2> HIDE DEF p
  <2>4. /\ program \in Seq(Instruction) /\ pending \in Seq(PendingEntries)
        /\ Fixups(program, pending) /\ lineNumber \in Nat
        /\ Len(pending) <= Len(program) /\ Len(program) <= lineNumber
    BY <1>1, <2>2 DEF Progress, Tables
  <2>5. /\ program' \in Seq(Instruction) /\ Len(program') = Len(program) + 1
        /\ Len(program) \in Nat /\ Len(pending) \in Nat
    BY <2>2, <2>3, <2>4
  <2>6. CASE ~TakesLabel(p.ins)
    <3>1. pending' = pending
      BY <1>2, <2>2, <2>6 DEF WellParsed, Rejected
    <3>2. Fixups(program', pending')
      BY <2>2, <2>3, <2>4, <2>6, <3>1, PushKeepsFixups
    <3>3. Tables'
      BY <1>1, <2>1, <2>2, <2>4, <2>5, <3>1, <3>2 DEF Tables
    <3> QED
      BY <1>1, <2>1, <2>2, <3>3 DEF AsmInv, Outcome
  <2>7. CASE TakesLabel(p.ins)
    <3>1. PICK t \in Token : pending' = Append(pending, Reference(t))
      <4>1. PICK t \in Token : p.refs = {t}
        BY <1>2, <2>2, <2>7 DEF WellParsed, Rejected
      <4> QED
        BY <2>2, <4>1
    <3>2. Reference(t) \in PendingEntries /\ Reference(t).index = Len(program)
      BY <2>1, <2>4, <2>5, CutType DEF Reference, PendingEntries
    <3>3. Fixups(program', pending')
      BY <2>2, <2>3, <2>4, <2>7, <3>1, <3>2, PushKeepsFixups
    <3>4. pending' \in Seq(PendingEntries) /\ Len(pending') = Len(pending) + 1
      BY <2>4, <3>1, <3>2
    <3>5. Tables'
      BY <1>1, <2>1, <2>2, <2>4, <2>5, <3>3, <3>4 DEF Tables
    <3> QED
      BY <1>1, <2>1, <2>2, <3>5 DEF AsmInv, Outcome
  <2> QED
    BY <2>6, <2>7
<1>4. CASE CodeLineFails(tokens)
  <2>1. PICK error \in {"PARSE", "OOM"} : Fail(error, lineNumber')
    BY <1>4 DEF CodeLineFails
  <2>2. phase' = "done" /\ Progress'
    BY <1>1, <1>4, <2>1, ReadingKeeps DEF CodeLineFails, Fail
  <2> QED
    BY <2>1, <2>2, FailKeeps
<1> QED
  BY <1>3, <1>4 DEF ReadCode

LEMMA ResolvingKeeps ==
    ASSUME AsmInv, ResolveReference \/ UnknownLabel
    PROVE  AsmInv'
<1>1. /\ Progress /\ Tables /\ Outcome
      /\ phase = "resolving" /\ resolved < Len(pending)
  BY DEF AsmInv, ResolveReference, UnknownLabel, Resolving
<1>2. /\ program \in Seq(Instruction) /\ pending \in Seq(PendingEntries)
      /\ Fixups(program, pending)
      /\ resolved + 1 \in 1..Len(pending)
      /\ Len(pending) <= Len(program) /\ Len(program) <= lineNumber
      /\ lineNumber <= Len(source) /\ Len(source) \in Nat /\ lineNumber \in Nat
  BY <1>1 DEF Progress, Tables
<1>3. CASE ResolveReference
  <2> DEFINE k == NextRef.index + 1
             v == labels[Min(Found(NextRef.name))].target
  <2>1. k \in 1..Len(program)
    BY <1>2 DEF Fixups, NextRef
  <2>2. v \in Value
    BY <1>1, <1>3, FoundLabel, Widths DEF ResolveReference
  <2>3. /\ program' = [program EXCEPT ![k].imm = v]
        /\ resolved' = resolved + 1
        /\ UNCHANGED <<source, position, lineNumber, labels, pending, result, phase>>
    BY <1>3 DEF ResolveReference
  <2> HIDE DEF k, v
  <2>4. program' \in Seq(Instruction) /\ Len(program') = Len(program) /\ Fixups(program', pending)
    BY <1>2, <2>1, <2>2, <2>3, WriteKeepsFixups
  <2>5. Progress'
    BY <1>1, <1>2, <2>3 DEF Progress
  <2>6. Tables'
    BY <1>1, <2>3, <2>4 DEF Tables
  <2> QED
    BY <1>1, <2>3, <2>5, <2>6 DEF AsmInv, Outcome
<1>4. CASE UnknownLabel
  <2>1. Fail("PARSE", NextRef.line) /\ UNCHANGED <<source, position, lineNumber, resolved>>
    BY <1>4 DEF UnknownLabel
  <2>2. phase' = "done" /\ Progress'
    BY <1>1, <2>1 DEF Fail, Progress
  <2> QED
    BY <2>1, <2>2, FailKeeps
<1> QED
  BY <1>3, <1>4

LEMMA OthersKeep ==
    ASSUME AsmInv,
           Copy \/ SkipEmptyLine \/ SkipBlankLine \/ NoMoreLines \/ Finish \/ UNCHANGED vars
    PROVE  AsmInv'
<1>1. Progress /\ Tables /\ Outcome
  BY DEF AsmInv
<1>2. CASE Copy
  BY <1>1, <1>2 DEF Copy, AsmInv, Progress, Tables, Outcome
<1>3. CASE SkipEmptyLine
  <2>1. position + 1 \in 1..Len(source)
    BY <1>1, <1>3, LineType DEF SkipEmptyLine
  <2>2. Progress'
    BY <1>1, <1>3, <2>1 DEF SkipEmptyLine, Progress
  <2> QED
    BY <1>1, <1>3, <2>2 DEF SkipEmptyLine, AsmInv, Tables, Outcome
<1>4. CASE SkipBlankLine
  <2>1. Progress' /\ lineNumber' = lineNumber + 1 /\ lineNumber \in Nat
    BY <1>1, <1>4, ReadingKeeps DEF SkipBlankLine, Progress
  <2>2. UNCHANGED <<labels, pending, program, result, phase>>
    BY <1>4 DEF SkipBlankLine
  <2>3. Len(program) \in Nat
    BY <1>1 DEF Tables
  <2>4. Tables'
    BY <1>1, <2>1, <2>2, <2>3 DEF Tables
  <2> QED
    BY <1>1, <2>1, <2>2, <2>4 DEF AsmInv, Outcome
<1>5. CASE NoMoreLines
  <2>1. Len(pending) \in Nat
    BY <1>1 DEF Tables
  <2> QED
    BY <1>1, <1>5, <2>1 DEF NoMoreLines, AsmInv, Progress, Tables, Outcome
<1>7. CASE Finish
  <2>1. Len(program) \in Nat
    BY <1>1 DEF Tables
  <2>2. Progress' /\ Outcome'
    BY <1>1, <1>7 DEF Finish, Progress, Outcome
  <2>3. Tables'
    BY <1>1, <1>7, <2>1 DEF Finish, Tables
  <2> QED
    BY <2>2, <2>3 DEF AsmInv
<1>6. CASE UNCHANGED vars
  BY <1>1, <1>6 DEF vars, AsmInv, Progress, Tables, Outcome
<1> QED
  BY <1>2, <1>3, <1>4, <1>5, <1>6, <1>7

LEMMA NextKeeps == AsmInv /\ [Next]_vars => AsmInv'
BY LinesKeep, CodeKeeps, ResolvingKeeps, OthersKeep DEF Next

LEMMA Invariance == Spec => []AsmInv
BY InitEstablishes, NextKeeps, PTL DEF Spec

(* resolve_pending writes inside the program, to an instruction that takes *)
(* a label, and to each of them once.                                      *)
THEOREM FixupsStayInProgram == Spec => []FixupsInProgram
<1>1. ASSUME AsmInv, phase \in {"lines", "resolving"}
      PROVE  /\ {pending[i].index + 1 : i \in 1..Len(pending)} =
                    {i \in 1..Len(program) : program[i].op \in JumpOps \cup {"CALL"}}
             /\ \A i, j \in 1..Len(pending) : i < j => pending[i].index < pending[j].index
  <2>1. Fixups(program, pending)
    BY <1>1 DEF AsmInv, Tables
  <2> QED
    BY <2>1 DEF Fixups, TakesLabel
<1>2. AsmInv => FixupsInProgram
  BY <1>1 DEF FixupsInProgram
<1> QED
  BY Invariance, <1>2, PTL

(* The program that comes out is one of instructions, and nothing but an   *)
(* accepted program is left allocated.                                     *)
THEOREM AssemblerTypeCorrect == Spec => []AssemblerTypeOK
<1>1. ASSUME AsmInv PROVE AssemblerTypeOK
  <2>1. \A i \in 1..Len(program) : program[i] \in Instruction
    BY <1>1 DEF AsmInv, Tables
  <2> QED
    BY <1>1, <2>1 DEF AsmInv, Progress, Tables, Outcome, AssemblerTypeOK
<1> QED
  BY Invariance, <1>1, PTL

----------------------------------------------------------------------------
(* What the parsers make: the operands an opcode does not have are zero,   *)
(* and its registers exist.                                                *)
ImmForms == ImmOps \cup {"DIV_IMM", "MOD_IMM", "SHL_IMM", "SHR_IMM", "CMP_IMM", "LOAD_ABS",
                         "STORE_ABS"}
Made(ins) ==
    /\ ins.op \in Opcode /\ ins.c = 0
    /\ IF ins.op \in FirstRegOps THEN ValidReg(ins.a) ELSE ins.a = 0
    /\ IF ins.op \in SecondRegOps THEN ValidReg(ins.b) ELSE ins.b = 0
    /\ ~TakesLabel(ins) /\ ins.op \notin ImmForms => ins.imm = 0

MadeBy(p) == p.ok => Made(p.ins) /\ (TakesLabel(p.ins) => p.ins.imm = 0)

LEMMA OpcodeGroups ==
    /\ ImmForms \subseteq FirstRegOps /\ SecondRegOps \subseteq FirstRegOps
    /\ ImmForms \cap SecondRegOps = {} /\ UnaryOps \cap SecondRegOps = {}
    /\ UnaryOps \subseteq FirstRegOps /\ FirstRegOps \subseteq Opcode
    /\ (ImmForms \cup SecondRegOps \cup UnaryOps) \cap (JumpOps \cup {"CALL"}) = {}
    /\ (JumpOps \cup {"CALL", "RET", "NOP", "HALT"}) \cap SecondRegOps = {}
    /\ FirstRegOps \cap (JumpOps \cup {"CALL"}) = {"JZ", "JNZ"}
    /\ {"RET", "NOP", "HALT"} \cap (FirstRegOps \cup JumpOps \cup {"CALL"}) = {}
    /\ JumpOps \cup {"CALL", "RET", "NOP", "HALT"} \subseteq Opcode
BY DEF ImmForms, FirstRegOps, SecondRegOps, UnaryOps, JumpOps, Opcode, ImmOps, RegOps, AluOps,
       DivOps, ShiftOps, CmpOps, LoadOps, StoreOps

LEMMA MadeFields ==
    ASSUME NEW op, NEW a
    PROVE  /\ MakeInstr(op) = [op |-> op, a |-> 0, b |-> 0, c |-> 0, imm |-> 0]
           /\ [MakeInstr(op) EXCEPT !.a = a]
                = [op |-> op, a |-> a, b |-> 0, c |-> 0, imm |-> 0]
<1>1. MakeInstr(op) = [op |-> op, a |-> 0, b |-> 0, c |-> 0, imm |-> 0]
  BY DEF MakeInstr
<1>2. [MakeInstr(op) EXCEPT !.a = a] = [op |-> op, a |-> a, b |-> 0, c |-> 0, imm |-> 0]
  BY DEF MakeInstr
<1> QED
  BY <1>1, <1>2

LEMMA MadeOperand ==
    ASSUME NEW forms, forms[1] \in ImmForms, forms[2] \in SecondRegOps, NEW r, ValidReg(r),
           NEW t, IsRegister(t) \/ IsNumber(t)
    PROVE  MadeBy(Parsed(WithOperand(forms, r, t)))
<1>1. CASE IsRegister(t)
  <2> DEFINE ins == [MakeInstr(forms[2]) EXCEPT !.a = r, !.b = t.value]
  <2>1. ins \in [op : {forms[2]}, a : {r}, b : {t.value}, c : {0}, imm : {0}]
    BY DEF MakeInstr
  <2>2. WithOperand(forms, r, t) = ins
    BY <1>1 DEF WithOperand
  <2>3. ValidReg(t.value)
    BY <1>1 DEF IsRegister
  <2> HIDE DEF ins
  <2> QED
    BY <2>1, <2>2, <2>3, OpcodeGroups DEF MadeBy, Parsed, Made, TakesLabel
<1>2. CASE ~IsRegister(t)
  <2> DEFINE ins == [MakeInstr(forms[1]) EXCEPT !.a = r, !.imm = t.value]
  <2>1. ins \in [op : {forms[1]}, a : {r}, b : {0}, c : {0}, imm : {t.value}]
    BY DEF MakeInstr
  <2>2. WithOperand(forms, r, t) = ins
    BY <1>2 DEF WithOperand
  <2> HIDE DEF ins
  <2> QED
    BY <2>1, <2>2, OpcodeGroups DEF MadeBy, Parsed, Made, TakesLabel
<1> QED
  BY <1>1, <1>2

LEMMA RejectedMade == MadeBy(Rejected)
BY DEF MadeBy, Rejected

LEMMA AluForms ==
    ASSUME NEW m \in DOMAIN AluMnemonics
    PROVE  AluMnemonics[m][1] \in ImmForms /\ AluMnemonics[m][2] \in SecondRegOps
BY DEF AluMnemonics, ImmForms, SecondRegOps, ImmOps, RegOps

LEMMA ParsersMake ==
    ASSUME NEW args
    PROVE  /\ \A m \in DOMAIN AluMnemonics : MadeBy(ParseTwoOperandAlu(AluMnemonics[m], args))
           /\ MadeBy(ParseLoad(args)) /\ MadeBy(ParseStore(args))
           /\ \A op \in UnaryOps : MadeBy(ParseOneRegister(op, args))
           /\ \A op \in {"JMP", "CALL", "JE", "JNE"} : MadeBy(ParseLabelJump(op, args))
           /\ \A op \in {"JZ", "JNZ"} : MadeBy(ParseZeroTest(op, args))
           /\ \A op \in {"RET", "NOP", "HALT"} : MadeBy(ParseBare(op, args))
<1>1. ASSUME NEW m \in DOMAIN AluMnemonics
      PROVE  MadeBy(ParseTwoOperandAlu(AluMnemonics[m], args))
  <2> DEFINE forms == AluMnemonics[m]
  <2>1. forms[1] \in ImmForms /\ forms[2] \in SecondRegOps
    BY AluForms
  <2> HIDE DEF forms
  <2>2. CASE Len(args) = 2 /\ IsRegister(args[1]) /\ (IsRegister(args[2]) \/ IsNumber(args[2]))
    <3>1. MadeBy(Parsed(WithOperand(forms, args[1].value, args[2])))
      BY <2>1, <2>2, MadeOperand DEF IsRegister
    <3> QED
      BY <2>2, <3>1, Zenon DEF ParseTwoOperandAlu, forms
  <2> QED
    BY <2>2, RejectedMade DEF ParseTwoOperandAlu, forms
<1>2. MadeBy(ParseLoad(args))
  <2> DEFINE forms == <<"LOAD_ABS", "LOAD_REG">>
  <2>1. forms[1] \in ImmForms /\ forms[2] \in SecondRegOps
    BY DEF ImmForms, SecondRegOps
  <2> HIDE DEF forms
  <2>2. CASE Len(args) = 2 /\ IsRegister(args[1]) /\ IsMemory(args[2])
    <3>1. MadeBy(Parsed(WithOperand(forms, args[1].value, args[2].inner)))
      BY <2>1, <2>2, MadeOperand DEF IsRegister, IsMemory
    <3> QED
      BY <2>2, <3>1 DEF ParseLoad, forms
  <2> QED
    BY <2>2, RejectedMade DEF ParseLoad
<1>3. MadeBy(ParseStore(args))
  <2> DEFINE forms == <<"STORE_ABS", "STORE_REG">>
  <2>1. forms[1] \in ImmForms /\ forms[2] \in SecondRegOps
    BY DEF ImmForms, SecondRegOps
  <2> HIDE DEF forms
  <2>2. CASE Len(args) = 2 /\ IsMemory(args[1]) /\ IsRegister(args[2])
    <3>1. MadeBy(Parsed(WithOperand(forms, args[2].value, args[1].inner)))
      BY <2>1, <2>2, MadeOperand DEF IsRegister, IsMemory
    <3> QED
      BY <2>2, <3>1 DEF ParseStore, forms
  <2> QED
    BY <2>2, RejectedMade DEF ParseStore
<1>4. ASSUME NEW op \in UnaryOps PROVE MadeBy(ParseOneRegister(op, args))
  <2>1. op \in FirstRegOps /\ op \notin SecondRegOps /\ op \in Opcode
        /\ op \notin JumpOps \cup {"CALL"}
    BY OpcodeGroups
  <2>2. CASE Len(args) = 1 /\ IsRegister(args[1])
    <3> DEFINE ins == [op |-> op, a |-> args[1].value, b |-> 0, c |-> 0, imm |-> 0]
    <3>1. ParseOneRegister(op, args) = Parsed(ins)
      BY <2>2, MadeFields DEF ParseOneRegister
    <3>2. Made(ins) /\ ~TakesLabel(ins)
      BY <2>1, <2>2 DEF Made, TakesLabel, IsRegister
    <3> QED
      BY <3>1, <3>2 DEF MadeBy, Parsed
  <2> QED
    BY <2>2, RejectedMade DEF ParseOneRegister
<1>5. ASSUME NEW op \in {"JMP", "CALL", "JE", "JNE"} PROVE MadeBy(ParseLabelJump(op, args))
  <2>1. op \in JumpOps \cup {"CALL"} /\ op \notin {"JZ", "JNZ"}
    BY DEF JumpOps
  <2>2. op \notin FirstRegOps /\ op \notin SecondRegOps /\ op \in Opcode
    BY <2>1, OpcodeGroups
  <2> QED
    <3> DEFINE ins == [op |-> op, a |-> 0, b |-> 0, c |-> 0, imm |-> 0]
    <3>1. ParseLabelJump(op, args) = ParsedJump(ins, args[1])
            \/ ParseLabelJump(op, args) = Rejected
      BY MadeFields, Zenon DEF ParseLabelJump
    <3>2. Made(ins) /\ ins.imm = 0
      BY <2>2 DEF Made
    <3> QED
      BY <3>1, <3>2, RejectedMade DEF MadeBy, ParsedJump
<1>6. ASSUME NEW op \in {"JZ", "JNZ"} PROVE MadeBy(ParseZeroTest(op, args))
  <2>1. op \in JumpOps /\ op \in FirstRegOps /\ op \notin SecondRegOps /\ op \in Opcode
    BY OpcodeGroups DEF JumpOps
  <2>2. CASE Len(args) = 2 /\ IsRegister(args[1]) /\ IsIdentifier(args[2])
    <3> DEFINE ins == [op |-> op, a |-> args[1].value, b |-> 0, c |-> 0, imm |-> 0]
    <3>1. ParseZeroTest(op, args) = ParsedJump(ins, args[2])
      <4>1. ParseZeroTest(op, args)
              = ParsedJump([MakeInstr(op) EXCEPT !.a = args[1].value], args[2])
        BY <2>2 DEF ParseZeroTest
      <4> QED
        BY <4>1, MadeFields
    <3>2. Made(ins) /\ ins.imm = 0
      BY <2>1, <2>2 DEF Made, TakesLabel, IsRegister
    <3> QED
      BY <3>1, <3>2 DEF MadeBy, ParsedJump
  <2> QED
    BY <2>2, RejectedMade DEF ParseZeroTest
<1>7. ASSUME NEW op \in {"RET", "NOP", "HALT"} PROVE MadeBy(ParseBare(op, args))
  <2>1. op \notin JumpOps \cup {"CALL"} /\ op \notin FirstRegOps /\ op \notin SecondRegOps
        /\ op \in Opcode
    BY OpcodeGroups
  <2> QED
    <3> DEFINE ins == [op |-> op, a |-> 0, b |-> 0, c |-> 0, imm |-> 0]
    <3>1. ParseBare(op, args) = Parsed(ins) \/ ParseBare(op, args) = Rejected
      BY MadeFields, Zenon DEF ParseBare
    <3>2. Made(ins) /\ ins.imm = 0
      BY <2>1 DEF Made
    <3> QED
      BY <3>1, <3>2, RejectedMade DEF MadeBy, Parsed
<1> QED
  BY <1>1, <1>2, <1>3, <1>4, <1>5, <1>6, <1>7

LEMMA ParseMakes ==
    ASSUME NEW tokens
    PROVE  MadeBy(Parse(tokens))
<1> DEFINE args == Tail(tokens)
           m == IF Head(tokens).kind = "name" THEN Head(tokens).text ELSE "r0"
<1> HIDE DEF args, m
<1>1. m \in DOMAIN AluMnemonics => MadeBy(ParseTwoOperandAlu(AluMnemonics[m], args))
  BY ParsersMake
<1>2. MadeBy(ParseLoad(args)) /\ MadeBy(ParseStore(args))
  BY ParsersMake
<1>3. m \in DOMAIN OneRegisterMnemonics =>
        MadeBy(ParseOneRegister(OneRegisterMnemonics[m], args))
  <2>1. m \in DOMAIN OneRegisterMnemonics => OneRegisterMnemonics[m] \in UnaryOps
    BY DEF OneRegisterMnemonics, UnaryOps
  <2> QED
    BY <2>1, ParsersMake
<1>4. m \in DOMAIN LabelMnemonics => MadeBy(ParseLabelJump(LabelMnemonics[m], args))
  <2>1. m \in DOMAIN LabelMnemonics => LabelMnemonics[m] \in {"JMP", "CALL", "JE", "JNE"}
    BY DEF LabelMnemonics
  <2> QED
    BY <2>1, ParsersMake
<1>5. m \in DOMAIN ZeroTestMnemonics => MadeBy(ParseZeroTest(ZeroTestMnemonics[m], args))
  <2>1. m \in DOMAIN ZeroTestMnemonics => ZeroTestMnemonics[m] \in {"JZ", "JNZ"}
    BY DEF ZeroTestMnemonics
  <2> QED
    BY <2>1, ParsersMake
<1>6. m \in DOMAIN BareMnemonics => MadeBy(ParseBare(BareMnemonics[m], args))
  <2>1. m \in DOMAIN BareMnemonics => BareMnemonics[m] \in {"RET", "NOP", "HALT"}
    BY DEF BareMnemonics
  <2> QED
    BY <2>1, ParsersMake
<1> QED
  BY <1>1, <1>2, <1>3, <1>4, <1>5, <1>6, RejectedMade, Zenon DEF Parse, args, m

----------------------------------------------------------------------------
(* What can be in a program while it is assembled: instructions as they    *)
(* are parsed, whose targets, once written, are at most its end.           *)
InShape(code) ==
    \A i \in 1..Len(code) :
        Made(code[i]) /\ (TakesLabel(code[i]) => code[i].imm \in 0..Len(code))
Shape ==
    /\ InShape(program)
    /\ \A i \in 1..Len(labels) : labels[i].target \in 0..Len(program)

LEMMA PushKeepsShape ==
    ASSUME NEW code \in Seq(Instruction), InShape(code), NEW ins \in Instruction,
           Made(ins), TakesLabel(ins) => ins.imm = 0
    PROVE  InShape(Append(code, ins))
<1> DEFINE longer == Append(code, ins)
<1>1. /\ Len(longer) = Len(code) + 1 /\ Len(code) \in Nat
      /\ \A i \in 1..Len(longer) : i \in 1..Len(code) \/ i = Len(code) + 1
      /\ \A i \in 1..Len(code) : longer[i] = code[i]
      /\ longer[Len(code) + 1] = ins
  OBVIOUS
<1> HIDE DEF longer
<1> QED
  BY <1>1 DEF InShape, longer

LEMMA WriteKeepsShape ==
    ASSUME NEW code \in Seq(Instruction), InShape(code), NEW k \in 1..Len(code),
           TakesLabel(code[k]), NEW v \in 0..Len(code)
    PROVE  InShape([code EXCEPT ![k].imm = v])
<1> DEFINE ins == [code[k] EXCEPT !.imm = v]
           written == [code EXCEPT ![k] = ins]
<1>1. /\ ins.op = code[k].op /\ ins.a = code[k].a /\ ins.b = code[k].b /\ ins.c = code[k].c
      /\ ins.imm = v
  <2>1. code[k] \in Instruction
    OBVIOUS
  <2> QED
    BY <2>1 DEF Instruction
<1> HIDE DEF ins
<1>2. /\ Len(written) = Len(code)
      /\ \A i \in 1..Len(code) : written[i] = IF i = k THEN ins ELSE code[i]
  OBVIOUS
<1> HIDE DEF written
<1>3. Made(ins) /\ TakesLabel(ins)
  <2>1. Made(code[k])
    BY DEF InShape
  <2> QED
    BY <1>1, <2>1 DEF Made, TakesLabel
<1>4. InShape(written)
  BY <1>1, <1>2, <1>3 DEF InShape
<1> QED
  BY <1>4 DEF written, ins

LEMMA ShapeKept ==
    ASSUME AsmInv, Shape, [Next]_vars
    PROVE  Shape'
<1>1. /\ Progress /\ Tables /\ Outcome
      /\ program \in Seq(Instruction) /\ labels \in Seq(LabelEntries)
      /\ Len(program) \in Nat /\ Len(labels) \in Nat
  BY DEF AsmInv, Tables
<1>2. ASSUME NEW error, NEW line, Fail(error, line) PROVE Shape'
  BY <1>2 DEF Fail, Shape, InShape
<1>3. ASSUME UNCHANGED <<labels, program>> PROVE Shape'
  BY <1>3 DEF Shape, InShape
<1>4. CASE ReadLabel
  <2>1. CASE AddLabel(Line.name)
    <3>1. /\ program' = program
          /\ labels' = Append(labels, [name |-> Cut(Line.name), target |-> Len(program)])
      BY <2>1 DEF AddLabel
    <3>2. \A i \in 1..Len(labels') : /\ i \in 1..Len(labels) => labels'[i] = labels[i]
                                     /\ i \notin 1..Len(labels) => labels'[i].target = Len(program)
      BY <1>1, <3>1
    <3>3. \A i \in 1..Len(labels') : labels'[i].target \in 0..Len(program)
      BY <1>1, <3>2 DEF Shape
    <3> QED
      BY <3>1, <3>3 DEF Shape, InShape
  <2> QED
    BY <1>2, <1>4, <2>1 DEF ReadLabel, LabelFails
<1>5. CASE ReadCode
  <2> DEFINE p == Parse(Line.tokens)
  <2>1. CASE PushInstruction(Line.tokens)
    <3>1. /\ Line.tokens \in Seq(Token) /\ Line.tokens # <<>>
          /\ p.ok /\ program' = Append(program, p.ins) /\ labels' = labels
      BY <1>1, <1>5, <2>1, LineType DEF ReadCode, PushInstruction
    <3>2. p.ins \in Instruction
      BY <3>1, ParsesWell DEF WellParsed, Rejected
    <3>3. Made(p.ins) /\ (TakesLabel(p.ins) => p.ins.imm = 0)
      BY <3>1, ParseMakes DEF MadeBy
    <3> HIDE DEF p
    <3>4. InShape(program') /\ Len(program') = Len(program) + 1
      BY <1>1, <3>1, <3>2, <3>3, PushKeepsShape DEF Shape
    <3> QED
      BY <1>1, <3>1, <3>4 DEF Shape
  <2> QED
    BY <1>2, <1>5, <2>1 DEF ReadCode, CodeLineFails
<1>6. CASE ResolveReference
  <2> DEFINE k == NextRef.index + 1
             v == labels[Min(Found(NextRef.name))].target
  <2>1. k \in 1..Len(program) /\ TakesLabel(program[k])
    <3>1. resolved + 1 \in 1..Len(pending) /\ Fixups(program, pending)
      BY <1>1, <1>6 DEF ResolveReference, Resolving, Progress, Tables
    <3> QED
      BY <3>1 DEF Fixups, NextRef
  <2>2. v \in 0..Len(program)
    BY <1>1, <1>6, LeastFound DEF ResolveReference, Shape
  <2>3. program' = [program EXCEPT ![k].imm = v] /\ labels' = labels
    BY <1>6 DEF ResolveReference
  <2> HIDE DEF k, v
  <2>4. InShape(program') /\ Len(program') = Len(program)
    <3>1. InShape(program)
      BY DEF Shape
    <3>2. InShape([program EXCEPT ![k].imm = v])
      BY <1>1, <2>1, <2>2, <3>1, WriteKeepsShape
    <3> QED
      BY <1>1, <2>3, <3>2
  <2> QED
    BY <2>3, <2>4 DEF Shape
<1>7. CASE Finish
  BY <1>7 DEF Finish, Shape, InShape
<1> QED
  BY <1>2, <1>3, <1>4, <1>5, <1>6, <1>7
     DEF Next, Copy, SkipEmptyLine, SkipBlankLine, NoMoreLines, UnknownLabel, vars

LEMMA ShapeInvariance == Spec => [](AsmInv /\ Shape)
<1>1. Init => Shape
  BY DEF Init, Shape, InShape
<1> QED
  BY Invariance, <1>1, ShapeKept, PTL DEF Spec

(* The validation that precedes every write refuses an assembled program   *)
(* only for what the assembler does not look at: an immediate, or a label  *)
(* after the last instruction.                                             *)
THEOREM AssembledIsRefusable == Spec => []AssembledErrors
<1>1. ASSUME AsmInv, Shape, NEW i \in 1..Len(program)
      PROVE  RefusableFor(program, program[i])
  <2> DEFINE ins == program[i]
  <2>1. /\ Made(ins) /\ (TakesLabel(ins) => ins.imm \in 0..Len(program))
        /\ Len(program) \in Nat
    BY <1>1 DEF Shape, InShape, AsmInv, Tables
  <2> HIDE DEF ins
  <2>2. ins.c = 0 /\ ins.op # "INVALID"
    BY <2>1 DEF Made, Opcode, AluOps, ImmOps, RegOps, DivOps, ShiftOps, CmpOps, LoadOps,
                StoreOps, JumpOps, UnaryOps
  <2>3. InstructionRegistersValid(ins)
    BY <2>1 DEF Made, InstructionRegistersValid, ValidatesOneReg, ValidatesTwoRegs,
                ValidatesNoReg, FirstRegOps, SecondRegOps, Opcode, AluOps, ImmOps, RegOps,
                DivOps, ShiftOps, CmpOps, LoadOps, StoreOps, JumpOps, UnaryOps
  <2>4. ins.op \in {"JMP", "JZ", "JNZ", "CALL", "JE", "JNE"} /\ BadTarget(program, ins.imm)
          => ins.imm = Len(program)
    BY <2>1 DEF TakesLabel, JumpOps, BadTarget
  <2> QED
    BY <2>2, <2>3, <2>4 DEF RefusableFor, ValidateIns, ins
<1>2. AsmInv /\ Shape => AssembledErrors
  BY <1>1 DEF AssembledErrors
<1> QED
  BY ShapeInvariance, <1>2, PTL

----------------------------------------------------------------------------
(* The two tables of mnemonics, the assembler's and the disassembler's,    *)
(* agree; and the parser that a mnemonic selects is the only one it does.  *)
LEMMA MnemonicKinds ==
    /\ DOMAIN AluMnemonics = {"mov", "add", "sub", "mul", "div", "mod", "and", "or", "xor",
                              "shl", "shr", "cmp"}
    /\ DOMAIN OneRegisterMnemonics = {"push", "pop", "print", "not"}
    /\ DOMAIN LabelMnemonics = {"jmp", "call", "je", "jne"}
    /\ DOMAIN ZeroTestMnemonics = {"jz", "jnz"}
    /\ DOMAIN BareMnemonics = {"ret", "nop", "halt"}
BY DEF AluMnemonics, OneRegisterMnemonics, LabelMnemonics, ZeroTestMnemonics, BareMnemonics

LEMMA ParserOfMnemonic ==
    ASSUME NEW tokens, NEW m, NEW args, Head(tokens) = Name(m), Tail(tokens) = args,
           Len(tokens) \in 1..4
    PROVE  /\ m \in DOMAIN AluMnemonics
                => Parse(tokens) = ParseTwoOperandAlu(AluMnemonics[m], args)
           /\ m = "load" => Parse(tokens) = ParseLoad(args)
           /\ m = "store" => Parse(tokens) = ParseStore(args)
           /\ m \in DOMAIN OneRegisterMnemonics
                => Parse(tokens) = ParseOneRegister(OneRegisterMnemonics[m], args)
           /\ m \in DOMAIN LabelMnemonics
                => Parse(tokens) = ParseLabelJump(LabelMnemonics[m], args)
           /\ m \in DOMAIN ZeroTestMnemonics
                => Parse(tokens) = ParseZeroTest(ZeroTestMnemonics[m], args)
           /\ m \in DOMAIN BareMnemonics => Parse(tokens) = ParseBare(BareMnemonics[m], args)
<1> DEFINE mnemonic == IF Head(tokens).kind = "name" THEN Head(tokens).text ELSE "r0"
<1>1. mnemonic = m
  BY DEF Name
<1>2. ~(Len(tokens) > MaxTokens)
  BY DEF MaxTokens
<1> DEFINE parser ==
        CASE Len(tokens) > MaxTokens -> Rejected
          [] mnemonic \in DOMAIN AluMnemonics ->
               ParseTwoOperandAlu(AluMnemonics[mnemonic], Tail(tokens))
          [] mnemonic = "load" -> ParseLoad(Tail(tokens))
          [] mnemonic = "store" -> ParseStore(Tail(tokens))
          [] mnemonic \in DOMAIN OneRegisterMnemonics ->
               ParseOneRegister(OneRegisterMnemonics[mnemonic], Tail(tokens))
          [] mnemonic \in DOMAIN LabelMnemonics ->
               ParseLabelJump(LabelMnemonics[mnemonic], Tail(tokens))
          [] mnemonic \in DOMAIN ZeroTestMnemonics ->
               ParseZeroTest(ZeroTestMnemonics[mnemonic], Tail(tokens))
          [] mnemonic \in DOMAIN BareMnemonics ->
               ParseBare(BareMnemonics[mnemonic], Tail(tokens))
          [] OTHER -> Rejected
<1>3. Parse(tokens) = parser
  BY Zenon DEF Parse
<1> HIDE DEF mnemonic
<1>4. /\ m \in DOMAIN AluMnemonics => parser = ParseTwoOperandAlu(AluMnemonics[m], args)
      /\ m = "load" => parser = ParseLoad(args)
      /\ m = "store" => parser = ParseStore(args)
      /\ m \in DOMAIN OneRegisterMnemonics
           => parser = ParseOneRegister(OneRegisterMnemonics[m], args)
      /\ m \in DOMAIN LabelMnemonics => parser = ParseLabelJump(LabelMnemonics[m], args)
      /\ m \in DOMAIN ZeroTestMnemonics => parser = ParseZeroTest(ZeroTestMnemonics[m], args)
      /\ m \in DOMAIN BareMnemonics => parser = ParseBare(BareMnemonics[m], args)
  BY <1>1, <1>2, MnemonicKinds
<1> HIDE DEF parser
<1> QED
  BY <1>3, <1>4

LEMMA ListedForms ==
    /\ \A op \in ImmOps \cup {"DIV_IMM", "MOD_IMM", "SHL_IMM", "SHR_IMM", "CMP_IMM"} :
          /\ op \in DOMAIN ListedWithImm
          /\ ListedWithImm[op] \in DOMAIN AluMnemonics
          /\ AluMnemonics[ListedWithImm[op]][1] = op
    /\ \A op \in DOMAIN ListedWithReg :
          /\ op \in SecondRegOps
          /\ ListedWithReg[op] \in DOMAIN AluMnemonics
          /\ AluMnemonics[ListedWithReg[op]][2] = op
    /\ \A op \in UnaryOps :
          /\ op \in DOMAIN ListedWithOneReg
          /\ ListedWithOneReg[op] \in DOMAIN OneRegisterMnemonics
          /\ OneRegisterMnemonics[ListedWithOneReg[op]] = op
    /\ \A op \in {"JMP", "CALL", "JE", "JNE"} :
          op \in DOMAIN ListedWithTarget /\ ListedWithTarget[op] \in DOMAIN LabelMnemonics
    /\ \A op \in {"JZ", "JNZ"} :
          op \in DOMAIN ListedWithImm /\ ListedWithImm[op] \in DOMAIN ZeroTestMnemonics
    /\ \A op \in {"RET", "NOP", "HALT"} :
          /\ op \in DOMAIN ListedBare
          /\ ListedBare[op] \in DOMAIN BareMnemonics
          /\ BareMnemonics[ListedBare[op]] = op
BY DEF ImmOps, SecondRegOps, RegOps, UnaryOps, ListedWithImm, ListedWithReg, ListedWithOneReg,
       ListedWithTarget, ListedBare, AluMnemonics, OneRegisterMnemonics, LabelMnemonics,
       ZeroTestMnemonics, BareMnemonics

LEMMA ListedKinds ==
    /\ DOMAIN ListedWithImm = {"MOV_IMM", "ADD_IMM", "SUB_IMM", "MUL_IMM", "DIV_IMM", "MOD_IMM",
                               "AND_IMM", "OR_IMM", "XOR_IMM", "SHL_IMM", "SHR_IMM", "CMP_IMM",
                               "JZ", "JNZ"}
    /\ DOMAIN ListedWithReg = {"MOV_REG", "ADD_REG", "SUB_REG", "MUL_REG", "DIV_REG", "MOD_REG",
                               "AND_REG", "OR_REG", "XOR_REG", "SHL_REG", "SHR_REG", "CMP_REG"}
    /\ DOMAIN ListedWithOneReg = {"NOT", "PRINT", "PUSH", "POP"}
    /\ DOMAIN ListedWithTarget = {"JMP", "CALL", "JE", "JNE"}
    /\ DOMAIN ListedBare = {"HALT", "RET", "NOP"}
BY DEF ListedWithImm, ListedWithReg, ListedWithOneReg, ListedWithTarget, ListedBare

LEMMA Lines ==
    ASSUME NEW m, NEW x, NEW y
    PROVE  /\ Head(<<m, x, y>>) = m /\ Tail(<<m, x, y>>) = <<x, y>> /\ Len(<<m, x, y>>) = 3
           /\ Head(<<m, x>>) = m /\ Tail(<<m, x>>) = <<x>> /\ Len(<<m, x>>) = 2
           /\ Head(<<m>>) = m /\ Tail(<<m>>) = <<>> /\ Len(<<m>>) = 1
           /\ Len(<<x, y>>) = 2 /\ <<x, y>>[1] = x /\ <<x, y>>[2] = y
           /\ Len(<<x>>) = 1 /\ <<x>>[1] = x
OBVIOUS

LEMMA SameFields ==
    ASSUME NEW ins \in Instruction, NEW op, NEW a, NEW b, NEW imm,
           NEW x \in [op : {op}, a : {a}, b : {b}, c : {0}, imm : {imm}],
           ins.op = op, ins.a = a, ins.b = b, ins.c = 0, ins.imm = imm
    PROVE  x = ins
<1>1. x = [op |-> op, a |-> a, b |-> b, c |-> 0, imm |-> imm]
  OBVIOUS
<1>2. ins = [op |-> op, a |-> a, b |-> b, c |-> 0, imm |-> imm]
  BY DEF Instruction
<1> QED
  BY <1>1, <1>2

LEMMA FormsAgain ==
    ASSUME NEW ins \in Instruction, Made(ins), NEW forms
    PROVE  /\ ins.op \in ImmForms /\ forms[1] = ins.op
                => WithOperand(forms, ins.a, Num(ins.imm)) = ins
           /\ ins.op \in SecondRegOps /\ forms[2] = ins.op
                => WithOperand(forms, ins.a, Reg(ins.b)) = ins
<1>1. ASSUME ins.op \in ImmForms, forms[1] = ins.op
      PROVE  WithOperand(forms, ins.a, Num(ins.imm)) = ins
  <2> DEFINE x == [MakeInstr(forms[1]) EXCEPT !.a = ins.a, !.imm = ins.imm]
  <2>1. x \in [op : {ins.op}, a : {ins.a}, b : {0}, c : {0}, imm : {ins.imm}]
    BY <1>1 DEF MakeInstr
  <2>2. WithOperand(forms, ins.a, Num(ins.imm)) = x
    <3>1. ~IsRegister(Num(ins.imm)) /\ Num(ins.imm).value = ins.imm
      BY DEF IsRegister, Num
    <3> QED
      BY <3>1 DEF WithOperand
  <2>3. ins.b = 0 /\ ins.c = 0
    BY <1>1, OpcodeGroups DEF Made
  <2> HIDE DEF x
  <2>4. x = ins
    BY <2>1, <2>3, SameFields
  <2> QED
    BY <2>2, <2>4
<1>2. ASSUME ins.op \in SecondRegOps, forms[2] = ins.op
      PROVE  WithOperand(forms, ins.a, Reg(ins.b)) = ins
  <2> DEFINE x == [MakeInstr(forms[2]) EXCEPT !.a = ins.a, !.b = ins.b]
  <2>1. x \in [op : {ins.op}, a : {ins.a}, b : {ins.b}, c : {0}, imm : {0}]
    BY <1>2 DEF MakeInstr
  <2>2. WithOperand(forms, ins.a, Reg(ins.b)) = x
    <3>1. IsRegister(Reg(ins.b)) /\ Reg(ins.b).value = ins.b
      BY <1>2 DEF IsRegister, Reg, Made
    <3> QED
      BY <3>1 DEF WithOperand
  <2>3. ins.imm = 0 /\ ins.c = 0
    BY <1>2, OpcodeGroups DEF Made, TakesLabel
  <2> HIDE DEF x
  <2>4. x = ins
    BY <2>1, <2>3, SameFields
  <2> QED
    BY <2>2, <2>4
<1> QED
  BY <1>1, <1>2

LEMMA OperandsAgain ==
    ASSUME NEW ins \in Instruction, Made(ins)
    PROVE  /\ ins.op \in FirstRegOps => IsRegister(Reg(ins.a)) /\ Reg(ins.a).value = ins.a
           /\ ins.op \in SecondRegOps => IsRegister(Reg(ins.b)) /\ IsMemory(InBrackets(Reg(ins.b)))
           /\ IsNumber(Num(ins.imm)) /\ IsMemory(InBrackets(Num(ins.imm)))
           /\ InBrackets(Reg(ins.b)).inner = Reg(ins.b)
           /\ InBrackets(Num(ins.imm)).inner = Num(ins.imm)
           /\ ~IsIdentifier(Num(ins.imm))
<1>1. /\ ins.op \in FirstRegOps => IsRegister(Reg(ins.a)) /\ Reg(ins.a).value = ins.a
      /\ ins.op \in SecondRegOps => IsRegister(Reg(ins.b))
  BY DEF Made, IsRegister, Reg
<1>2. IsNumber(Num(ins.imm)) /\ ~IsIdentifier(Num(ins.imm))
  BY DEF IsNumber, IsIdentifier, Num
<1>3. /\ InBrackets(Reg(ins.b)).inner = Reg(ins.b) /\ InBrackets(Reg(ins.b)).kind = "memory"
      /\ InBrackets(Num(ins.imm)).inner = Num(ins.imm) /\ InBrackets(Num(ins.imm)).kind = "memory"
  BY DEF InBrackets
<1> QED
  BY <1>1, <1>2, <1>3 DEF IsMemory

LEMMA ListedAs ==
    ASSUME NEW ins
    PROVE  /\ ins.op \in DOMAIN ListedWithImm
                => Listing(ins) = <<Name(ListedWithImm[ins.op]), Reg(ins.a), Num(ins.imm)>>
           /\ ins.op \in DOMAIN ListedWithReg
                => Listing(ins) = <<Name(ListedWithReg[ins.op]), Reg(ins.a), Reg(ins.b)>>
           /\ ins.op \in DOMAIN ListedWithOneReg
                => Listing(ins) = <<Name(ListedWithOneReg[ins.op]), Reg(ins.a)>>
           /\ ins.op \in DOMAIN ListedWithTarget
                => Listing(ins) = <<Name(ListedWithTarget[ins.op]), Num(ins.imm)>>
           /\ ins.op \in DOMAIN ListedBare => Listing(ins) = <<Name(ListedBare[ins.op])>>
           /\ ins.op = "LOAD_ABS"
                => Listing(ins) = <<Name("load"), Reg(ins.a), InBrackets(Num(ins.imm))>>
           /\ ins.op = "LOAD_REG"
                => Listing(ins) = <<Name("load"), Reg(ins.a), InBrackets(Reg(ins.b))>>
           /\ ins.op = "STORE_ABS"
                => Listing(ins) = <<Name("store"), InBrackets(Num(ins.imm)), Reg(ins.a)>>
           /\ ins.op = "STORE_REG"
                => Listing(ins) = <<Name("store"), InBrackets(Reg(ins.b)), Reg(ins.a)>>
BY ListedKinds DEF Listing, ListStore

(* What each group of instructions prints as is parsed again. *)
LEMMA AluAgain ==
    ASSUME NEW ins \in Instruction, Made(ins),
           \/ ins.op \in ImmOps \cup {"DIV_IMM", "MOD_IMM", "SHL_IMM", "SHR_IMM", "CMP_IMM"}
           \/ ins.op \in DOMAIN ListedWithReg
    PROVE  Parse(Listing(ins)) = Parsed(ins)
<1>1. CASE ins.op \in ImmOps \cup {"DIV_IMM", "MOD_IMM", "SHL_IMM", "SHR_IMM", "CMP_IMM"}
  <2> DEFINE m == ListedWithImm[ins.op]
             args == <<Reg(ins.a), Num(ins.imm)>>
  <2>1. /\ m \in DOMAIN AluMnemonics /\ AluMnemonics[m][1] = ins.op
        /\ Listing(ins) = <<Name(m), Reg(ins.a), Num(ins.imm)>>
        /\ ins.op \in ImmForms /\ ins.op \in FirstRegOps
    BY <1>1, ListedForms, ListedAs, OpcodeGroups DEF ImmForms
  <2> HIDE DEF m
  <2>2. Parse(Listing(ins)) = ParseTwoOperandAlu(AluMnemonics[m], args)
    <3>1. /\ Head(Listing(ins)) = Name(m) /\ Tail(Listing(ins)) = args
          /\ Len(Listing(ins)) \in 1..4
      BY <2>1, Lines
    <3> QED
      BY <2>1, <3>1, ParserOfMnemonic
  <2>3. /\ Len(args) = 2 /\ IsRegister(args[1]) /\ IsNumber(args[2])
        /\ args[1].value = ins.a /\ args[2] = Num(ins.imm)
    BY <2>1, Lines, OperandsAgain
  <2> HIDE DEF args
  <2>4. ParseTwoOperandAlu(AluMnemonics[m], args)
          = Parsed(WithOperand(AluMnemonics[m], args[1].value, args[2]))
    BY <2>3, Zenon DEF ParseTwoOperandAlu
  <2> QED
    BY <2>1, <2>2, <2>3, <2>4, FormsAgain
<1>2. CASE ins.op \in DOMAIN ListedWithReg
  <2> DEFINE m == ListedWithReg[ins.op]
             args == <<Reg(ins.a), Reg(ins.b)>>
  <2>1. /\ m \in DOMAIN AluMnemonics /\ AluMnemonics[m][2] = ins.op
        /\ Listing(ins) = <<Name(m), Reg(ins.a), Reg(ins.b)>>
        /\ ins.op \in SecondRegOps /\ ins.op \in FirstRegOps
    BY <1>2, ListedForms, ListedAs, OpcodeGroups
  <2> HIDE DEF m
  <2>2. Parse(Listing(ins)) = ParseTwoOperandAlu(AluMnemonics[m], args)
    <3>1. /\ Head(Listing(ins)) = Name(m) /\ Tail(Listing(ins)) = args
          /\ Len(Listing(ins)) \in 1..4
      BY <2>1, Lines
    <3> QED
      BY <2>1, <3>1, ParserOfMnemonic
  <2>3. /\ Len(args) = 2 /\ IsRegister(args[1]) /\ IsRegister(args[2])
        /\ args[1].value = ins.a /\ args[2] = Reg(ins.b)
    BY <2>1, Lines, OperandsAgain
  <2> HIDE DEF args
  <2>4. ParseTwoOperandAlu(AluMnemonics[m], args)
          = Parsed(WithOperand(AluMnemonics[m], args[1].value, args[2]))
    BY <2>3, Zenon DEF ParseTwoOperandAlu
  <2> QED
    BY <2>1, <2>2, <2>3, <2>4, FormsAgain
<1> QED
  BY <1>1, <1>2

LEMMA MemoryAgain ==
    ASSUME NEW ins \in Instruction, Made(ins),
           ins.op \in {"LOAD_ABS", "LOAD_REG", "STORE_ABS", "STORE_REG"}
    PROVE  Parse(Listing(ins)) = Parsed(ins)
<1> DEFINE loads == <<"LOAD_ABS", "LOAD_REG">>
           stores == <<"STORE_ABS", "STORE_REG">>
           t == IF ins.op \in {"LOAD_ABS", "STORE_ABS"} THEN Num(ins.imm) ELSE Reg(ins.b)
<1>1. /\ loads[1] = "LOAD_ABS" /\ loads[2] = "LOAD_REG"
      /\ stores[1] = "STORE_ABS" /\ stores[2] = "STORE_REG"
  OBVIOUS
<1>2. /\ ins.op \in {"LOAD_ABS", "STORE_ABS"} => ins.op \in ImmForms
      /\ ins.op \in {"LOAD_REG", "STORE_REG"} => ins.op \in SecondRegOps
      /\ ins.op \in FirstRegOps
  BY OpcodeGroups DEF ImmForms, SecondRegOps
<1>3. IsMemory(InBrackets(t)) /\ InBrackets(t).inner = t
  BY <1>2, OperandsAgain
<1>4. IsRegister(Reg(ins.a)) /\ Reg(ins.a).value = ins.a
  BY <1>2, OperandsAgain
<1>5. /\ ins.op \in {"LOAD_ABS", "LOAD_REG"} => WithOperand(loads, ins.a, t) = ins
      /\ ins.op \in {"STORE_ABS", "STORE_REG"} => WithOperand(stores, ins.a, t) = ins
  BY <1>1, <1>2, FormsAgain
<1>6. /\ ins.op \in {"LOAD_ABS", "LOAD_REG"}
           => Listing(ins) = <<Name("load"), Reg(ins.a), InBrackets(t)>>
      /\ ins.op \in {"STORE_ABS", "STORE_REG"}
           => Listing(ins) = <<Name("store"), InBrackets(t), Reg(ins.a)>>
  BY ListedAs
<1> HIDE DEF t
<1>7. CASE ins.op \in {"LOAD_ABS", "LOAD_REG"}
  <2> DEFINE args == <<Reg(ins.a), InBrackets(t)>>
  <2>1. Parse(Listing(ins)) = ParseLoad(args)
    <3>1. Listing(ins) = <<Name("load"), Reg(ins.a), InBrackets(t)>>
      BY <1>6, <1>7
    <3>2. /\ Head(Listing(ins)) = Name("load") /\ Tail(Listing(ins)) = args
          /\ Len(Listing(ins)) \in 1..4
      BY <3>1, Lines
    <3> QED
      BY <3>2, ParserOfMnemonic
  <2>2. /\ Len(args) = 2 /\ IsRegister(args[1]) /\ IsMemory(args[2])
        /\ args[1].value = ins.a /\ args[2].inner = t
    BY <1>3, <1>4, Lines
  <2> HIDE DEF args
  <2>3. ParseLoad(args) = Parsed(WithOperand(loads, args[1].value, args[2].inner))
    BY <2>2, Zenon DEF ParseLoad
  <2> HIDE DEF loads
  <2> QED
    BY <1>5, <1>7, <2>1, <2>2, <2>3
<1>8. CASE ins.op \in {"STORE_ABS", "STORE_REG"}
  <2> DEFINE args == <<InBrackets(t), Reg(ins.a)>>
  <2>1. Parse(Listing(ins)) = ParseStore(args)
    <3>1. Listing(ins) = <<Name("store"), InBrackets(t), Reg(ins.a)>>
      BY <1>6, <1>8
    <3>2. /\ Head(Listing(ins)) = Name("store") /\ Tail(Listing(ins)) = args
          /\ Len(Listing(ins)) \in 1..4
      BY <3>1, Lines
    <3> QED
      BY <3>2, ParserOfMnemonic
  <2>2. /\ Len(args) = 2 /\ IsMemory(args[1]) /\ IsRegister(args[2])
        /\ args[2].value = ins.a /\ args[1].inner = t
    BY <1>3, <1>4, Lines
  <2> HIDE DEF args
  <2>3. ParseStore(args) = Parsed(WithOperand(stores, args[2].value, args[1].inner))
    BY <2>2, Zenon DEF ParseStore
  <2> HIDE DEF stores
  <2> QED
    BY <1>5, <1>8, <2>1, <2>2, <2>3
<1> QED
  BY <1>7, <1>8

LEMMA ShortLinesAgain ==
    ASSUME NEW ins \in Instruction, Made(ins), ins.op \in UnaryOps \cup {"RET", "NOP", "HALT"}
    PROVE  Parse(Listing(ins)) = Parsed(ins)
<1>1. CASE ins.op \in UnaryOps
  <2> DEFINE m == ListedWithOneReg[ins.op]
             args == <<Reg(ins.a)>>
             x == [MakeInstr(ins.op) EXCEPT !.a = ins.a]
  <2>1. /\ m \in DOMAIN OneRegisterMnemonics /\ OneRegisterMnemonics[m] = ins.op
        /\ Listing(ins) = <<Name(m), Reg(ins.a)>> /\ ins.op \in FirstRegOps
        /\ ins.op \notin SecondRegOps /\ ins.op \notin ImmForms /\ ~TakesLabel(ins)
    <3>1. ins.op \in {"NOT", "PRINT", "PUSH", "POP"}
      BY <1>1 DEF UnaryOps
    <3> QED
      BY <1>1, <3>1, ListedForms, ListedAs, OpcodeGroups
         DEF TakesLabel, JumpOps, ImmForms, ImmOps
  <2> HIDE DEF m
  <2>2. Parse(Listing(ins)) = ParseOneRegister(ins.op, args)
    <3>1. /\ Head(Listing(ins)) = Name(m) /\ Tail(Listing(ins)) = args
          /\ Len(Listing(ins)) \in 1..4
      BY <2>1, Lines
    <3> QED
      BY <2>1, <3>1, ParserOfMnemonic
  <2>3. Len(args) = 1 /\ IsRegister(args[1]) /\ args[1].value = ins.a
    BY <2>1, Lines, OperandsAgain
  <2> HIDE DEF args
  <2>4. ParseOneRegister(ins.op, args) = Parsed(x)
    BY <2>3, Zenon DEF ParseOneRegister
  <2>5. x \in [op : {ins.op}, a : {ins.a}, b : {0}, c : {0}, imm : {0}]
    BY DEF MakeInstr
  <2> HIDE DEF x
  <2>6. x = ins
    BY <2>1, <2>5, SameFields DEF Made
  <2> QED
    BY <2>2, <2>4, <2>6
<1>2. CASE ins.op \in {"RET", "NOP", "HALT"}
  <2> DEFINE m == ListedBare[ins.op]
             x == MakeInstr(ins.op)
  <2>1. /\ m \in DOMAIN BareMnemonics /\ BareMnemonics[m] = ins.op
        /\ Listing(ins) = <<Name(m)>> /\ ins.op \notin FirstRegOps
        /\ ins.op \notin SecondRegOps /\ ins.op \notin ImmForms /\ ~TakesLabel(ins)
    BY <1>2, ListedForms, ListedAs, OpcodeGroups DEF TakesLabel, ImmForms
  <2> HIDE DEF m
  <2> DEFINE args == <<>>
  <2>2. Parse(Listing(ins)) = ParseBare(ins.op, args)
    <3>1. /\ Head(Listing(ins)) = Name(m) /\ Tail(Listing(ins)) = args
          /\ Len(Listing(ins)) \in 1..4
      BY <2>1, Lines
    <3> HIDE DEF args
    <3> QED
      BY <2>1, <3>1, ParserOfMnemonic
  <2>3. ParseBare(ins.op, <<>>) = Parsed(x)
    BY Zenon DEF ParseBare
  <2>4. x \in [op : {ins.op}, a : {0}, b : {0}, c : {0}, imm : {0}]
    BY DEF MakeInstr
  <2> HIDE DEF x
  <2>5. x = ins
    BY <2>1, <2>4, SameFields DEF Made
  <2> QED
    BY <2>2, <2>3, <2>5
<1> QED
  BY <1>1, <1>2

(* A target is printed as a number, and a number is not a label.           *)
LEMMA JumpsRejected ==
    ASSUME NEW ins, TakesLabel(ins)
    PROVE  Parse(Listing(ins)) = Rejected
<1>1. ~IsIdentifier(Num(ins.imm))
  BY DEF IsIdentifier, Num
<1>2. CASE ins.op \in {"JMP", "CALL", "JE", "JNE"}
  <2> DEFINE m == ListedWithTarget[ins.op]
             args == <<Num(ins.imm)>>
  <2>1. m \in DOMAIN LabelMnemonics /\ Listing(ins) = <<Name(m), Num(ins.imm)>>
    BY <1>2, ListedForms, ListedAs
  <2> HIDE DEF m
  <2>2. Parse(Listing(ins)) = ParseLabelJump(LabelMnemonics[m], args)
    <3>1. /\ Head(Listing(ins)) = Name(m) /\ Tail(Listing(ins)) = args
          /\ Len(Listing(ins)) \in 1..4
      BY <2>1, Lines
    <3> QED
      BY <2>1, <3>1, ParserOfMnemonic
  <2>3. ~IsIdentifier(args[1])
    BY <1>1, Lines
  <2> HIDE DEF args
  <2> QED
    BY <2>2, <2>3, Zenon DEF ParseLabelJump
<1>3. CASE ins.op \in {"JZ", "JNZ"}
  <2> DEFINE m == ListedWithImm[ins.op]
             args == <<Reg(ins.a), Num(ins.imm)>>
  <2>1. m \in DOMAIN ZeroTestMnemonics /\ Listing(ins) = <<Name(m), Reg(ins.a), Num(ins.imm)>>
    BY <1>3, ListedForms, ListedAs
  <2> HIDE DEF m
  <2>2. Parse(Listing(ins)) = ParseZeroTest(ZeroTestMnemonics[m], args)
    <3>1. /\ Head(Listing(ins)) = Name(m) /\ Tail(Listing(ins)) = args
          /\ Len(Listing(ins)) \in 1..4
      BY <2>1, Lines
    <3> QED
      BY <2>1, <3>1, ParserOfMnemonic
  <2>3. ~IsIdentifier(args[2])
    BY <1>1, Lines
  <2> HIDE DEF args
  <2> QED
    BY <2>2, <2>3, Zenon DEF ParseZeroTest
<1> QED
  BY <1>2, <1>3 DEF TakesLabel, JumpOps

LEMMA ListedAgain ==
    ASSUME NEW ins \in Instruction, Made(ins)
    PROVE  Parse(Listing(ins)) = IF TakesLabel(ins) THEN Rejected ELSE Parsed(ins)
<1>1. \/ TakesLabel(ins)
      \/ ins.op \in ImmOps \cup {"DIV_IMM", "MOD_IMM", "SHL_IMM", "SHR_IMM", "CMP_IMM"}
      \/ ins.op \in DOMAIN ListedWithReg
      \/ ins.op \in {"LOAD_ABS", "LOAD_REG", "STORE_ABS", "STORE_REG"}
      \/ ins.op \in UnaryOps \cup {"RET", "NOP", "HALT"}
  BY ListedKinds DEF Made, Opcode, AluOps, ImmOps, RegOps, DivOps, ShiftOps, CmpOps, LoadOps,
                     StoreOps, TakesLabel
<1>2. \/ ins.op \in ImmOps \cup {"DIV_IMM", "MOD_IMM", "SHL_IMM", "SHR_IMM", "CMP_IMM"}
      \/ ins.op \in DOMAIN ListedWithReg
      \/ ins.op \in {"LOAD_ABS", "LOAD_REG", "STORE_ABS", "STORE_REG"}
      \/ ins.op \in UnaryOps \cup {"RET", "NOP", "HALT"}
      => ~TakesLabel(ins)
  BY ListedKinds DEF TakesLabel, JumpOps, ImmOps, UnaryOps
<1> QED
  BY <1>1, <1>2, AluAgain, MemoryAgain, ShortLinesAgain, JumpsRejected

(* What the disassembler prints for an assembled instruction assembles to  *)
(* that instruction again, unless it takes a label, and then it does not   *)
(* assemble.                                                               *)
THEOREM ListingsAssemble == Spec => []ListingReassembles
<1>1. ASSUME AsmInv, Shape, NEW i \in 1..Len(program)
      PROVE  Parse(Listing(program[i])) =
                IF program[i].op \in JumpOps \cup {"CALL"} THEN Rejected
                ELSE Parsed(program[i])
  <2>1. program[i] \in Instruction /\ Made(program[i])
    BY <1>1 DEF AsmInv, Tables, Shape, InShape
  <2> QED
    BY <2>1, ListedAgain DEF TakesLabel
<1>2. AsmInv /\ Shape => ListingReassembles
  BY <1>1 DEF ListingReassembles
<1> QED
  BY ShapeInvariance, <1>2, PTL

----------------------------------------------------------------------------
(* Counting lines: how many members of a set are below p.                  *)
Below(S, p) == Cardinality({q \in S : q < p})

LEMMA BelowSteps ==
    ASSUME NEW m \in Nat, NEW S \in SUBSET (1..m), NEW p \in Nat
    PROVE  /\ Below(S, p) \in Nat /\ Below(S, 1) = 0
           /\ p \in S => Below(S, p + 1) = Below(S, p) + 1
           /\ p \notin S => Below(S, p + 1) = Below(S, p)
           /\ \A q \in Nat : p <= q => Below(S, p) <= Below(S, q)
<1> DEFINE T(q) == {r \in S : r < q}
<1>a. \A r \in S : r \in Nat /\ 1 <= r
  OBVIOUS
<1>1. ASSUME NEW q PROVE IsFiniteSet(T(q)) /\ Cardinality(T(q)) \in Nat
  <2>1. IsFiniteSet(1..m)
    BY FS_Interval
  <2>2. T(q) \subseteq 1..m
    OBVIOUS
  <2>3. IsFiniteSet(T(q))
    BY <2>1, <2>2, FS_Subset
  <2> QED
    BY <2>3, FS_CardinalityType
<1>2. T(1) = {}
  <2>1. \A r \in S : ~(r < 1)
    BY <1>a
  <2> QED
    BY <2>1, Zenon
<1>3. ASSUME p \in S PROVE T(p + 1) = T(p) \cup {p} /\ p \notin T(p)
  <2>1. \A r \in S : r < p + 1 <=> r < p \/ r = p
    BY <1>a
  <2>2. ~(p < p)
    OBVIOUS
  <2> QED
    BY <1>3, <2>1, <2>2
<1>4. ASSUME p \notin S PROVE T(p + 1) = T(p)
  <2>1. \A r \in S : r < p + 1 <=> r < p
    BY <1>a, <1>4
  <2> QED
    BY <2>1
<1>5. ASSUME NEW q \in Nat, p <= q PROVE T(p) \subseteq T(q)
  <2>1. \A r \in S : r < p => r < q
    BY <1>a, <1>5
  <2> QED
    BY <2>1
<1>6. Cardinality({}) = 0
  BY FS_EmptySet
<1>7. \A q : Below(S, q) = Cardinality(T(q))
  BY DEF Below
<1> HIDE DEF T
<1>8. p \in S => Cardinality(T(p + 1)) = Cardinality(T(p)) + 1
  BY <1>1, <1>3, FS_AddElement
<1>9. \A q \in Nat : p <= q => Cardinality(T(p)) <= Cardinality(T(q))
  BY <1>1, <1>5, FS_Subset
<1> QED
  BY <1>1, <1>2, <1>4, <1>6, <1>7, <1>8, <1>9

LEMMA BelowOrders ==
    ASSUME NEW m \in Nat, NEW S \in SUBSET (1..m), NEW p \in S, NEW q \in S
    PROVE  /\ p < q <=> Below(S, p) < Below(S, q)
           /\ p = q <=> Below(S, p) = Below(S, q)
<1>1. p \in Nat /\ q \in Nat /\ p + 1 \in Nat /\ q + 1 \in Nat
  OBVIOUS
<1>2. /\ Below(S, p + 1) = Below(S, p) + 1 /\ Below(S, q + 1) = Below(S, q) + 1
      /\ Below(S, p) \in Nat /\ Below(S, q) \in Nat
  BY <1>1, BelowSteps
<1>3. /\ p + 1 <= q => Below(S, p + 1) <= Below(S, q)
      /\ q + 1 <= p => Below(S, q + 1) <= Below(S, p)
  BY <1>1, BelowSteps
<1> QED
  BY <1>1, <1>2, <1>3

NonEmptyLines(s) == {p \in 1..Len(s) : s[p] # EmptyLine}
(* The number of the line at p: strtok_r skips the empty ones.             *)
LineAt(s, p) == Cardinality({q \in 1..p : s[q] # EmptyLine})

LEMMA LineCounts ==
    ASSUME NEW s \in Seq(SourceLine)
    PROVE  /\ Len(s) \in Nat
           /\ CodePositions(s) \in SUBSET (1..Len(s))
           /\ LabelPositions(s) \in SUBSET (1..Len(s))
           /\ NonEmptyLines(s) \in SUBSET (1..Len(s))
           /\ \A p : InstructionsBefore(s, p) = Below(CodePositions(s), p)
           /\ \A p \in 0..Len(s) : LineAt(s, p) = Below(NonEmptyLines(s), p + 1)
<1>1. Len(s) \in Nat
  OBVIOUS
<1>2. \A p \in 0..Len(s) : {q \in 1..p : s[q] # EmptyLine} = {q \in NonEmptyLines(s) : q < p + 1}
  BY <1>1 DEF NonEmptyLines
<1> QED
  BY <1>1, <1>2 DEF CodePositions, LabelPositions, NonEmptyLines, InstructionsBefore, LineAt,
                    Below

LEMMA MinIs ==
    ASSUME NEW S \in SUBSET Nat, NEW x \in S, \A y \in S : x <= y
    PROVE  Min(S) = x
<1>1. \A y \in S : (\A z \in S : y <= z) => y = x
  OBVIOUS
<1> QED
  BY <1>1 DEF Min

LEMMA LeastOf ==
    ASSUME NEW S \in SUBSET Nat, S # {}
    PROVE  Min(S) \in S /\ \A y \in S : Min(S) <= y
BY LeastExists DEF Min

(* A line is at fault as its kind says.                                    *)
LEMMA FaultsByKind ==
    ASSUME NEW s \in Seq(SourceLine), NEW p \in 1..Len(s)
    PROVE  /\ s[p].kind = "code" => (LineFault(s, p) <=> ~Parse(s[p].tokens).ok)
           /\ s[p].kind = "label" =>
                (LineFault(s, p) <=>
                    ~IsIdentifier(s[p].name) \/ Min(DefinedAt(s, s[p].name)) < p)
           /\ s[p].kind \notin {"code", "label"} => ~LineFault(s, p)
BY DEF LineFault, CodePositions, LabelPositions

(* A label that a parsed line refers to is one of its tokens.              *)
LEMMA RefsAreTokens ==
    ASSUME NEW tokens \in Seq(Token), tokens # <<>>, NEW t \in Parse(tokens).refs
    PROVE  \E i \in 1..Len(tokens) : t = tokens[i]
<1> DEFINE args == Tail(tokens)
           m == IF Head(tokens).kind = "name" THEN Head(tokens).text ELSE "r0"
<1>1. args \in Seq(Token) /\ \A i \in 1..Len(args) : args[i] = tokens[i + 1] /\ i + 1 \in 1..Len(tokens)
  OBVIOUS
<1> HIDE DEF args, m
<1>2. /\ \A forms : ParseTwoOperandAlu(forms, args).refs = {}
      /\ ParseLoad(args).refs = {} /\ ParseStore(args).refs = {}
      /\ \A op : ParseOneRegister(op, args).refs = {} /\ ParseBare(op, args).refs = {}
      /\ Rejected.refs = {}
  BY DEF ParseTwoOperandAlu, ParseLoad, ParseStore, ParseOneRegister, ParseBare, Parsed, Rejected
<1>3. \A op : ParseLabelJump(op, args).refs \subseteq {args[i] : i \in 1..Len(args)}
  BY DEF ParseLabelJump, ParsedJump, Rejected
<1>4. \A op : ParseZeroTest(op, args).refs \subseteq {args[i] : i \in 1..Len(args)}
  BY DEF ParseZeroTest, ParsedJump, Rejected
<1>5. \/ Parse(tokens).refs = {}
      \/ Parse(tokens).refs \subseteq {args[i] : i \in 1..Len(args)}
  BY <1>2, <1>3, <1>4, Zenon DEF Parse, args, m
<1> QED
  BY <1>1, <1>5

----------------------------------------------------------------------------
(* What the tables know of the lines read so far, up to position n: no     *)
(* line of them is at fault, an instruction for each line of code, a label *)
(* for each label line, a reference for each line that refers to a label,  *)
(* and the first r references resolved.                                    *)
ParsedAt(s, p) == Parse(s[p].tokens)

HasRead(s, n, number, code) ==
    /\ \A p \in 1..n : ~LineFault(s, p)
    /\ number = LineAt(s, n)
    /\ Len(code) = InstructionsBefore(s, n + 1)
    /\ \A i \in 1..Len(code) :
          \E p \in CodePositions(s) : p <= n /\ InstructionsBefore(s, p) = i - 1

HasLabels(s, n, table) ==
    /\ \A p \in LabelPositions(s) :
          p <= n => \E j \in 1..Len(table) : table[j].name = s[p].name
    /\ \A j \in 1..Len(table) : \E p \in LabelPositions(s) :
          /\ p <= n /\ table[j].name = s[p].name
          /\ table[j].target = InstructionsBefore(s, p)

RefersFrom(s, p, ref) ==
    /\ ParsedAt(s, p).refs = {ref.name}
    /\ ref.index = InstructionsBefore(s, p)
    /\ ref.line = LineAt(s, p)

HasCode(s, n, code, refs, r) ==
    /\ \A p \in CodePositions(s) :
          p <= n =>
            IF ParsedAt(s, p).refs = {}
            THEN code[InstructionsBefore(s, p) + 1] = ParsedAt(s, p).ins
            ELSE \E j \in 1..Len(refs) : refs[j].index = InstructionsBefore(s, p)
    /\ \A j \in 1..Len(refs) : \E p \in CodePositions(s) :
          /\ p <= n /\ RefersFrom(s, p, refs[j])
          /\ code[InstructionsBefore(s, p) + 1] =
                IF j <= r THEN InstructionAt(s, p) ELSE ParsedAt(s, p).ins
    /\ \A j \in 1..Len(refs) : j <= r => DefinedAt(s, refs[j].name) # {}

LEMMA CountsStep ==
    ASSUME NEW s \in Seq(SourceLine), NEW n \in 0..Len(s)
    PROVE  /\ InstructionsBefore(s, n + 1) \in Nat /\ LineAt(s, n) \in Nat
           /\ InstructionsBefore(s, 1) = 0 /\ LineAt(s, 0) = 0
           /\ n < Len(s) /\ s[n + 1] # EmptyLine => LineAt(s, n + 1) = LineAt(s, n) + 1
           /\ n < Len(s) /\ s[n + 1] = EmptyLine => LineAt(s, n + 1) = LineAt(s, n)
           /\ n + 1 \in CodePositions(s)
                => InstructionsBefore(s, n + 1 + 1) = InstructionsBefore(s, n + 1) + 1
           /\ n + 1 \notin CodePositions(s)
                => InstructionsBefore(s, n + 1 + 1) = InstructionsBefore(s, n + 1)
<1> DEFINE m == Len(s)
           code == CodePositions(s)
           full == NonEmptyLines(s)
<1>1. m \in Nat /\ code \in SUBSET (1..m) /\ full \in SUBSET (1..m) /\ n + 1 \in Nat
  BY LineCounts
<1>2. /\ \A p : InstructionsBefore(s, p) = Below(code, p)
      /\ \A p \in 0..m : LineAt(s, p) = Below(full, p + 1)
  BY LineCounts
<1>3. n < m => (n + 1 \in full <=> s[n + 1] # EmptyLine) /\ n + 1 \in 0..m
  BY <1>1 DEF NonEmptyLines
<1>4. n \in 0..m /\ 0 \in 0..m /\ 0 + 1 = 1
  BY <1>1
<1> HIDE DEF m, code, full
<1>5. /\ Below(code, n + 1) \in Nat /\ Below(code, 1) = 0
      /\ n + 1 \in code => Below(code, n + 1 + 1) = Below(code, n + 1) + 1
      /\ n + 1 \notin code => Below(code, n + 1 + 1) = Below(code, n + 1)
  BY <1>1, BelowSteps
<1>6. /\ Below(full, n + 1) \in Nat /\ Below(full, 1) = 0
      /\ n + 1 \in full => Below(full, n + 1 + 1) = Below(full, n + 1) + 1
      /\ n + 1 \notin full => Below(full, n + 1 + 1) = Below(full, n + 1)
  BY <1>1, BelowSteps
<1>7. /\ LineAt(s, n) = Below(full, n + 1) /\ LineAt(s, 0) = Below(full, 1)
      /\ n < m => LineAt(s, n + 1) = Below(full, n + 1 + 1)
  BY <1>2, <1>3, <1>4
<1>8. /\ n < m /\ s[n + 1] # EmptyLine => LineAt(s, n + 1) = LineAt(s, n) + 1
      /\ n < m /\ s[n + 1] = EmptyLine => LineAt(s, n + 1) = LineAt(s, n)
  BY <1>3, <1>6, <1>7
<1> QED
  BY <1>2, <1>5, <1>6, <1>7, <1>8 DEF m, code

LEMMA CodeOrder ==
    ASSUME NEW s \in Seq(SourceLine), NEW p \in CodePositions(s), NEW q \in CodePositions(s)
    PROVE  /\ p \in 1..Len(s) /\ s[p].kind = "code" /\ InstructionsBefore(s, p) \in Nat
           /\ p < q <=> InstructionsBefore(s, p) < InstructionsBefore(s, q)
           /\ p = q <=> InstructionsBefore(s, p) = InstructionsBefore(s, q)
<1>1. p \in 1..Len(s) /\ s[p].kind = "code" /\ p \in Nat
  BY LineCounts DEF CodePositions
<1>2. Below(CodePositions(s), p) \in Nat
  BY <1>1, LineCounts, BelowSteps
<1>3. Len(s) \in Nat /\ CodePositions(s) \in SUBSET (1..Len(s))
  BY LineCounts
<1>4. /\ p < q <=> Below(CodePositions(s), p) < Below(CodePositions(s), q)
      /\ p = q <=> Below(CodePositions(s), p) = Below(CodePositions(s), q)
  BY <1>3, BelowOrders
<1>5. \A x : InstructionsBefore(s, x) = Below(CodePositions(s), x)
  BY LineCounts
<1> QED
  BY <1>1, <1>2, <1>4, <1>5

LEMMA OneMore ==
    ASSUME NEW n \in Nat, NEW p \in Nat
    PROVE  p <= n + 1 <=> p <= n \/ p = n + 1
OBVIOUS

(* A line that is neither a label nor code. *)
LEMMA SkipReads ==
    ASSUME NEW s \in Seq(SourceLine), NEW n \in 0..Len(s), n < Len(s),
           s[n + 1].kind \notin {"code", "label"},
           NEW number, NEW code, NEW table, NEW refs, NEW r,
           HasRead(s, n, number, code), HasLabels(s, n, table), HasCode(s, n, code, refs, r),
           NEW next, next = LineAt(s, n + 1)
    PROVE  /\ HasRead(s, n + 1, next, code) /\ HasLabels(s, n + 1, table)
           /\ HasCode(s, n + 1, code, refs, r)
<1>1. Len(s) \in Nat /\ n \in Nat /\ n + 1 \in 1..Len(s)
  BY LineCounts
<1>2. n + 1 \notin CodePositions(s) /\ n + 1 \notin LabelPositions(s)
  BY DEF CodePositions, LabelPositions
<1>3. /\ \A p \in CodePositions(s) : p <= n + 1 <=> p <= n
      /\ \A p \in LabelPositions(s) : p <= n + 1 <=> p <= n
  <2>1. /\ \A p \in CodePositions(s) : p \in Nat
        /\ \A p \in LabelPositions(s) : p \in Nat
    BY LineCounts
  <2> QED
    BY <1>1, <1>2, <2>1
<1>4. HasRead(s, n + 1, next, code)
  <2>1. InstructionsBefore(s, n + 1 + 1) = InstructionsBefore(s, n + 1)
    BY <1>2, CountsStep
  <2>2. ~LineFault(s, n + 1)
    BY <1>1, FaultsByKind
  <2>3. \A p \in 1..(n + 1) : ~LineFault(s, p)
    <3>1. \A p \in 1..(n + 1) : p \in 1..n \/ p = n + 1
      BY <1>1
    <3> QED
      BY <2>2, <3>1 DEF HasRead
  <2>4. \A i \in 1..Len(code) :
          \E p \in CodePositions(s) : p <= n + 1 /\ InstructionsBefore(s, p) = i - 1
    BY <1>3 DEF HasRead
  <2> QED
    BY <2>1, <2>3, <2>4 DEF HasRead
<1>5. HasLabels(s, n + 1, table)
  BY <1>3 DEF HasLabels
<1>6. HasCode(s, n + 1, code, refs, r)
  BY <1>3 DEF HasCode
<1> QED
  BY <1>4, <1>5, <1>6

(* A name in the table is defined in the source, first where the table     *)
(* says.                                                                   *)
LEMMA LabelTarget ==
    ASSUME NEW s \in Seq(SourceLine), NEW n \in 0..Len(s), NEW number, NEW code, NEW table,
           HasRead(s, n, number, code), HasLabels(s, n, table), NEW j \in 1..Len(table)
    PROVE  /\ DefinedAt(s, table[j].name) # {}
           /\ Min(DefinedAt(s, table[j].name)) <= n
           /\ Min(DefinedAt(s, table[j].name)) \in Nat
           /\ table[j].target = InstructionsBefore(s, Min(DefinedAt(s, table[j].name)))
<1> DEFINE D == DefinedAt(s, table[j].name)
<1>1. PICK p \in LabelPositions(s) : /\ p <= n /\ table[j].name = s[p].name
                                     /\ table[j].target = InstructionsBefore(s, p)
  BY DEF HasLabels
<1>2. p \in 1..Len(s) /\ p \in Nat /\ s[p].kind = "label" /\ p \in D /\ n \in Nat
  BY <1>1, LineCounts DEF LabelPositions, DefinedAt
<1>3. D \in SUBSET Nat
  BY LineCounts DEF DefinedAt
<1>4. Min(D) \in D /\ Min(D) <= p
  <2> HIDE DEF D
  <2> QED
    BY <1>2, <1>3, LeastOf
<1>5. ~(Min(D) < p)
  <2>1. p \in 1..n
    BY <1>1, <1>2
  <2>2. ~LineFault(s, p)
    BY <2>1 DEF HasRead
  <2> QED
    BY <1>1, <1>2, <2>2, FaultsByKind
<1>6. Min(D) = p
  BY <1>2, <1>3, <1>4, <1>5
<1> QED
  BY <1>1, <1>2, <1>6

(* A label line whose name is not in the table.                            *)
LEMMA LabelReads ==
    ASSUME NEW s \in Seq(SourceLine), NEW n \in 0..Len(s), n < Len(s),
           s[n + 1].kind = "label", IsIdentifier(s[n + 1].name),
           NEW number, NEW code, NEW table \in Seq(LabelEntries), NEW refs, NEW r,
           HasRead(s, n, number, code), HasLabels(s, n, table), HasCode(s, n, code, refs, r),
           \A j \in 1..Len(table) : table[j].name # s[n + 1].name,
           NEW entry \in LabelEntries, entry.name = s[n + 1].name, entry.target = Len(code)
    PROVE  /\ HasRead(s, n + 1, LineAt(s, n + 1), code)
           /\ HasLabels(s, n + 1, Append(table, entry))
           /\ HasCode(s, n + 1, code, refs, r)
<1>1. Len(s) \in Nat /\ n \in Nat /\ n + 1 \in 1..Len(s)
  BY LineCounts
<1>2. n + 1 \notin CodePositions(s) /\ n + 1 \in LabelPositions(s)
  BY <1>1 DEF CodePositions, LabelPositions
<1>3. /\ \A p \in CodePositions(s) : p \in Nat /\ (p <= n + 1 <=> p <= n)
      /\ \A p \in LabelPositions(s) : p \in Nat /\ (p <= n + 1 <=> p <= n \/ p = n + 1)
  <2>1. /\ \A p \in CodePositions(s) : p \in Nat
        /\ \A p \in LabelPositions(s) : p \in Nat
    BY LineCounts
  <2> QED
    BY <1>1, <1>2, <2>1
<1>4. ~LineFault(s, n + 1)
  <2> DEFINE D == DefinedAt(s, s[n + 1].name)
  <2>1. D \in SUBSET Nat /\ n + 1 \in D
    BY <1>2, <1>3 DEF DefinedAt
  <2>2. ASSUME NEW q \in D PROVE n + 1 <= q
    <3>1. q \in LabelPositions(s) /\ s[q].name = s[n + 1].name /\ q \in Nat
      BY <2>1, <2>2 DEF DefinedAt
    <3>2. ~(q <= n)
      BY <3>1 DEF HasLabels
    <3> QED
      BY <1>1, <3>1, <3>2
  <2>3. Min(D) = n + 1
    <3> HIDE DEF D
    <3> QED
      BY <2>1, <2>2, MinIs
  <2>4. ~(n + 1 < n + 1)
    BY <1>1
  <2> QED
    BY <1>1, <2>3, <2>4, FaultsByKind
<1>5. HasRead(s, n + 1, LineAt(s, n + 1), code)
  <2>1. InstructionsBefore(s, n + 1 + 1) = InstructionsBefore(s, n + 1)
    BY <1>2, CountsStep
  <2>2. \A p \in 1..(n + 1) : ~LineFault(s, p)
    <3>1. \A p \in 1..(n + 1) : p \in 1..n \/ p = n + 1
      BY <1>1
    <3> QED
      BY <1>4, <3>1 DEF HasRead
  <2>3. \A i \in 1..Len(code) :
          \E p \in CodePositions(s) : p <= n + 1 /\ InstructionsBefore(s, p) = i - 1
    BY <1>3 DEF HasRead
  <2> QED
    BY <2>1, <2>2, <2>3 DEF HasRead
<1>6. HasLabels(s, n + 1, Append(table, entry))
  <2> DEFINE longer == Append(table, entry)
  <2>1. /\ Len(longer) = Len(table) + 1 /\ Len(table) \in Nat
        /\ \A j \in 1..Len(table) : longer[j] = table[j]
        /\ longer[Len(table) + 1] = entry
    OBVIOUS
  <2> HIDE DEF longer
  <2>2. /\ \A j \in 1..Len(longer) : j \in 1..Len(table) \/ j = Len(table) + 1
        /\ \A j \in 1..Len(table) : j \in 1..Len(longer)
        /\ Len(table) + 1 \in 1..Len(longer)
    BY <2>1
  <2>3. ASSUME NEW p \in LabelPositions(s), p <= n + 1
        PROVE  \E j \in 1..Len(longer) : longer[j].name = s[p].name
    <3>1. CASE p = n + 1
      BY <2>1, <2>2, <3>1
    <3>2. CASE p <= n
      <4>1. PICK j \in 1..Len(table) : table[j].name = s[p].name
        BY <3>2 DEF HasLabels
      <4> QED
        BY <2>1, <2>2, <4>1
    <3> QED
      BY <1>3, <2>3, <3>1, <3>2
  <2>4. ASSUME NEW j \in 1..Len(longer)
        PROVE  \E p \in LabelPositions(s) :
                  /\ p <= n + 1 /\ longer[j].name = s[p].name
                  /\ longer[j].target = InstructionsBefore(s, p)
    <3>1. CASE j = Len(table) + 1
      <4>1. longer[j].target = InstructionsBefore(s, n + 1)
        BY <2>1, <3>1 DEF HasRead
      <4> QED
        BY <1>1, <1>2, <2>1, <3>1, <4>1
    <3>2. CASE j \in 1..Len(table)
      <4>1. PICK p \in LabelPositions(s) :
               /\ p <= n /\ table[j].name = s[p].name
               /\ table[j].target = InstructionsBefore(s, p)
        BY <3>2 DEF HasLabels
      <4> QED
        BY <1>3, <2>1, <3>2, <4>1
    <3> QED
      BY <2>2, <3>1, <3>2
  <2> QED
    BY <2>3, <2>4 DEF HasLabels, longer
<1>7. HasCode(s, n + 1, code, refs, r)
  BY <1>3 DEF HasCode
<1> QED
  BY <1>5, <1>6, <1>7

(* A line of code that parses: its instruction comes next, with a          *)
(* reference to it if it has a label.                                      *)
LEMMA PushReads ==
    ASSUME NEW s \in Seq(SourceLine), NEW n \in 0..Len(s), n < Len(s),
           s[n + 1].kind = "code", ParsedAt(s, n + 1).ok,
           NEW number, NEW code \in Seq(Instruction), NEW table,
           NEW refs \in Seq(PendingEntries),
           HasRead(s, n, number, code), HasLabels(s, n, table), HasCode(s, n, code, refs, 0),
           ParsedAt(s, n + 1).ins \in Instruction,
           NEW more \in Seq(PendingEntries),
           IF ParsedAt(s, n + 1).refs = {} THEN more = refs
           ELSE \E ref \in PendingEntries :
                   /\ more = Append(refs, ref) /\ ParsedAt(s, n + 1).refs = {ref.name}
                   /\ ref.index = Len(code) /\ ref.line = LineAt(s, n + 1)
    PROVE  /\ HasRead(s, n + 1, LineAt(s, n + 1), Append(code, ParsedAt(s, n + 1).ins))
           /\ HasLabels(s, n + 1, table)
           /\ HasCode(s, n + 1, Append(code, ParsedAt(s, n + 1).ins), more, 0)
<1> DEFINE ins == ParsedAt(s, n + 1).ins
           longer == Append(code, ins)
<1>1. Len(s) \in Nat /\ n \in Nat /\ n + 1 \in 1..Len(s)
  BY LineCounts
<1>2. n + 1 \in CodePositions(s) /\ n + 1 \notin LabelPositions(s)
  BY <1>1 DEF CodePositions, LabelPositions
<1>3. /\ \A p \in CodePositions(s) : p \in Nat /\ (p <= n + 1 <=> p <= n \/ p = n + 1)
      /\ \A p \in LabelPositions(s) : p \in Nat /\ (p <= n + 1 <=> p <= n)
  <2>1. /\ \A p \in CodePositions(s) : p \in Nat
        /\ \A p \in LabelPositions(s) : p \in Nat
    BY LineCounts
  <2> QED
    BY <1>1, <1>2, <2>1
<1>4. /\ Len(longer) = Len(code) + 1 /\ Len(code) \in Nat
      /\ \A k \in 1..Len(code) : longer[k] = code[k]
      /\ longer[Len(code) + 1] = ins
  OBVIOUS
<1> HIDE DEF longer
<1>5. Len(code) = InstructionsBefore(s, n + 1)
  BY DEF HasRead
<1>6. ASSUME NEW p \in CodePositions(s), p <= n
      PROVE  /\ InstructionsBefore(s, p) + 1 \in 1..Len(code)
             /\ longer[InstructionsBefore(s, p) + 1] = code[InstructionsBefore(s, p) + 1]
  <2>1. p < n + 1
    BY <1>1, <1>3, <1>6
  <2>2. InstructionsBefore(s, p) \in Nat /\ InstructionsBefore(s, p) < Len(code)
    BY <1>2, <1>5, <2>1, CodeOrder
  <2>3. InstructionsBefore(s, p) + 1 \in 1..Len(code)
    BY <1>4, <2>2
  <2> QED
    BY <1>4, <2>3
<1>7. HasRead(s, n + 1, LineAt(s, n + 1), longer)
  <2>1. InstructionsBefore(s, n + 1 + 1) = InstructionsBefore(s, n + 1) + 1
    BY <1>2, CountsStep
  <2>2. ~LineFault(s, n + 1)
    BY <1>1, FaultsByKind DEF ParsedAt
  <2>3. \A p \in 1..(n + 1) : ~LineFault(s, p)
    <3>1. \A p \in 1..(n + 1) : p \in 1..n \/ p = n + 1
      BY <1>1
    <3> QED
      BY <2>2, <3>1 DEF HasRead
  <2>4. ASSUME NEW i \in 1..Len(longer)
        PROVE  \E p \in CodePositions(s) : p <= n + 1 /\ InstructionsBefore(s, p) = i - 1
    <3>1. CASE i \in 1..Len(code)
      <4>1. PICK p \in CodePositions(s) : p <= n /\ InstructionsBefore(s, p) = i - 1
        BY <3>1 DEF HasRead
      <4> QED
        BY <1>3, <4>1
    <3>2. CASE i = Len(code) + 1
      <4>1. InstructionsBefore(s, n + 1) = i - 1
        BY <1>4, <1>5, <3>2
      <4> QED
        BY <1>1, <1>2, <4>1
    <3> QED
      BY <1>4, <3>1, <3>2
  <2> QED
    BY <1>4, <1>5, <2>1, <2>3, <2>4 DEF HasRead
<1>8. HasLabels(s, n + 1, table)
  BY <1>3 DEF HasLabels
<1>9. /\ Len(refs) \in Nat /\ Len(more) \in Nat
      /\ \A j \in 1..Len(refs) : j \in 1..Len(more) /\ more[j] = refs[j]
      /\ \A j \in 1..Len(more) : j \in 1..Len(refs) \/ j = Len(refs) + 1
      /\ ParsedAt(s, n + 1).refs = {} => Len(more) = Len(refs)
      /\ ParsedAt(s, n + 1).refs # {} =>
            /\ Len(more) = Len(refs) + 1
            /\ ParsedAt(s, n + 1).refs = {more[Len(more)].name}
            /\ more[Len(more)].index = Len(code)
            /\ more[Len(more)].line = LineAt(s, n + 1)
  <2>1. CASE ParsedAt(s, n + 1).refs = {}
    BY <2>1
  <2>2. CASE ParsedAt(s, n + 1).refs # {}
    <3>1. PICK ref \in PendingEntries :
             /\ more = Append(refs, ref) /\ ParsedAt(s, n + 1).refs = {ref.name}
             /\ ref.index = Len(code) /\ ref.line = LineAt(s, n + 1)
      BY <2>2
    <3>2. /\ Len(more) = Len(refs) + 1 /\ Len(refs) \in Nat
          /\ \A j \in 1..Len(refs) : more[j] = refs[j]
          /\ more[Len(refs) + 1] = ref
      BY <3>1
    <3> QED
      BY <2>2, <3>1, <3>2
  <2> QED
    BY <2>1, <2>2
<1>10. HasCode(s, n + 1, longer, more, 0)
  <2>1. ASSUME NEW p \in CodePositions(s), p <= n + 1
        PROVE  IF ParsedAt(s, p).refs = {}
               THEN longer[InstructionsBefore(s, p) + 1] = ParsedAt(s, p).ins
               ELSE \E j \in 1..Len(more) : more[j].index = InstructionsBefore(s, p)
    <3>1. CASE p <= n
      <4>1. CASE ParsedAt(s, p).refs = {}
        BY <1>6, <3>1, <4>1 DEF HasCode
      <4>2. CASE ParsedAt(s, p).refs # {}
        <5>1. PICK j \in 1..Len(refs) : refs[j].index = InstructionsBefore(s, p)
          BY <3>1, <4>2 DEF HasCode
        <5> QED
          BY <1>9, <4>2, <5>1
      <4> QED
        BY <4>1, <4>2
    <3>2. CASE p = n + 1
      <4>1. CASE ParsedAt(s, p).refs = {}
        BY <1>4, <1>5, <3>2, <4>1
      <4>2. CASE ParsedAt(s, p).refs # {}
        <5>1. Len(more) \in 1..Len(more) /\ more[Len(more)].index = InstructionsBefore(s, p)
          BY <1>5, <1>9, <3>2, <4>2
        <5> QED
          BY <4>2, <5>1
      <4> QED
        BY <4>1, <4>2
    <3> QED
      BY <1>3, <2>1, <3>1, <3>2
  <2>2. ASSUME NEW j \in 1..Len(more)
        PROVE  \E p \in CodePositions(s) :
                  /\ p <= n + 1 /\ RefersFrom(s, p, more[j])
                  /\ longer[InstructionsBefore(s, p) + 1] =
                        IF j <= 0 THEN InstructionAt(s, p) ELSE ParsedAt(s, p).ins
    <3>1. ~(j <= 0)
      BY <1>9
    <3>2. CASE j \in 1..Len(refs)
      <4>1. PICK p \in CodePositions(s) :
               /\ p <= n /\ RefersFrom(s, p, refs[j])
               /\ code[InstructionsBefore(s, p) + 1] =
                     IF j <= 0 THEN InstructionAt(s, p) ELSE ParsedAt(s, p).ins
        BY <3>2 DEF HasCode
      <4>2. longer[InstructionsBefore(s, p) + 1] = ParsedAt(s, p).ins
        BY <1>6, <3>1, <4>1
      <4>3. p <= n + 1 /\ more[j] = refs[j]
        BY <1>3, <1>9, <3>2, <4>1
      <4> QED
        BY <3>1, <4>1, <4>2, <4>3
    <3>3. CASE j \notin 1..Len(refs)
      <4>1. ParsedAt(s, n + 1).refs # {} /\ j = Len(more)
        BY <1>9, <3>3
      <4>2. RefersFrom(s, n + 1, more[j])
        BY <1>5, <1>9, <4>1 DEF RefersFrom
      <4>3. longer[InstructionsBefore(s, n + 1) + 1] = ParsedAt(s, n + 1).ins
        BY <1>4, <1>5
      <4>4. n + 1 <= n + 1
        BY <1>1
      <4> QED
        BY <1>2, <3>1, <4>2, <4>3, <4>4
    <3> QED
      BY <3>2, <3>3
  <2>3. \A j \in 1..Len(more) : ~(j <= 0)
    BY <1>9
  <2> QED
    BY <2>1, <2>2, <2>3 DEF HasCode
<1> QED
  BY <1>7, <1>8, <1>10 DEF longer

LEMMA Resolved ==
    ASSUME NEW s, NEW p, NEW t, ParsedAt(s, p).refs = {t}
    PROVE  InstructionAt(s, p) =
             [ParsedAt(s, p).ins EXCEPT !.imm = InstructionsBefore(s, Min(DefinedAt(s, t)))]
<1>1. UNION {DefinedAt(s, u) : u \in ParsedAt(s, p).refs} = DefinedAt(s, t)
  OBVIOUS
<1>2. ParsedAt(s, p).refs # {}
  OBVIOUS
<1> QED
  BY <1>1, <1>2, Zenon DEF InstructionAt, ParsedAt

(* Resolving the next reference makes its instruction what the source says *)
(* and touches no other.                                                   *)
LEMMA ResolveReads ==
    ASSUME NEW s \in Seq(SourceLine), NEW n \in 0..Len(s),
           NEW number, NEW code \in Seq(Instruction), NEW refs \in Seq(PendingEntries),
           Fixups(code, refs), NEW r \in Nat, r < Len(refs),
           HasRead(s, n, number, code), HasCode(s, n, code, refs, r),
           DefinedAt(s, refs[r + 1].name) # {}, NEW target \in Value,
           target = InstructionsBefore(s, Min(DefinedAt(s, refs[r + 1].name)))
    PROVE  LET written == [code EXCEPT ![refs[r + 1].index + 1].imm = target]
           IN  HasRead(s, n, number, written) /\ HasCode(s, n, written, refs, r + 1)
<1>1. r + 1 \in 1..Len(refs) /\ Len(refs) \in Nat
  OBVIOUS
<1> DEFINE k == refs[r + 1].index + 1
           ins == [code[k] EXCEPT !.imm = target]
           written == [code EXCEPT ![k] = ins]
<1>2. k \in 1..Len(code)
  BY <1>1 DEF Fixups
<1>3. PICK q \in CodePositions(s) :
        /\ q <= n /\ RefersFrom(s, q, refs[r + 1])
        /\ code[InstructionsBefore(s, q) + 1] =
              IF r + 1 <= r THEN InstructionAt(s, q) ELSE ParsedAt(s, q).ins
  BY <1>1 DEF HasCode
<1>4. k = InstructionsBefore(s, q) + 1 /\ code[k] = ParsedAt(s, q).ins
      /\ ParsedAt(s, q).refs = {refs[r + 1].name}
  BY <1>3 DEF RefersFrom
<1>5. ins = InstructionAt(s, q)
  BY <1>4, Resolved
<1> HIDE DEF ins
<1>6. /\ Len(written) = Len(code)
      /\ \A i \in 1..Len(code) : written[i] = IF i = k THEN ins ELSE code[i]
  OBVIOUS
<1>7. written = [code EXCEPT ![refs[r + 1].index + 1].imm = target]
  BY DEF ins
<1> HIDE DEF written, k
<1>8. HasRead(s, n, number, written)
  BY <1>6 DEF HasRead
<1>9. ASSUME NEW p \in CodePositions(s), p # q,
             InstructionsBefore(s, p) + 1 \in 1..Len(code)
      PROVE  written[InstructionsBefore(s, p) + 1] = code[InstructionsBefore(s, p) + 1]
  <2>1. InstructionsBefore(s, p) + 1 # k
    <3>1. /\ InstructionsBefore(s, p) # InstructionsBefore(s, q)
          /\ InstructionsBefore(s, p) \in Nat /\ InstructionsBefore(s, q) \in Nat
      BY <1>9, CodeOrder
    <3> QED
      BY <1>4, <3>1
  <2> QED
    BY <1>6, <1>9, <2>1
<1>10. ASSUME NEW p \in CodePositions(s), p <= n
       PROVE  InstructionsBefore(s, p) + 1 \in 1..Len(code)
  <2> DEFINE all == CodePositions(s)
  <2>1. Len(s) \in Nat /\ all \in SUBSET (1..Len(s)) /\ p \in Nat /\ n \in Nat /\ p + 1 \in Nat
        /\ n + 1 \in Nat /\ p + 1 <= n + 1
    BY <1>10, LineCounts
  <2>2. /\ \A x : InstructionsBefore(s, x) = Below(all, x)
        /\ Len(code) = InstructionsBefore(s, n + 1)
    BY LineCounts DEF HasRead
  <2> HIDE DEF all
  <2>3. /\ Below(all, p + 1) <= Below(all, n + 1) /\ Below(all, p) \in Nat
        /\ Below(all, n + 1) \in Nat
    BY <2>1, BelowSteps
  <2>4. p \in all
    BY DEF all
  <2>5. Below(all, p + 1) = Below(all, p) + 1
    BY <2>1, <2>4, BelowSteps
  <2> QED
    BY <2>2, <2>3, <2>5
<1>11. ASSUME NEW p \in CodePositions(s), p <= n, ParsedAt(s, p).refs = {}
       PROVE  written[InstructionsBefore(s, p) + 1] = ParsedAt(s, p).ins
  <2>1. p # q
    BY <1>4, <1>11
  <2> QED
    BY <1>9, <1>10, <1>11, <2>1 DEF HasCode
<1>12. ASSUME NEW j \in 1..Len(refs)
       PROVE  \E p \in CodePositions(s) :
                 /\ p <= n /\ RefersFrom(s, p, refs[j])
                 /\ written[InstructionsBefore(s, p) + 1] =
                       IF j <= r + 1 THEN InstructionAt(s, p) ELSE ParsedAt(s, p).ins
  <2>1. CASE j = r + 1
    <3>1. written[InstructionsBefore(s, q) + 1] = InstructionAt(s, q)
      BY <1>2, <1>4, <1>5, <1>6
    <3>2. j <= r + 1
      BY <2>1
    <3> QED
      BY <1>3, <2>1, <3>1, <3>2
  <2>2. CASE j # r + 1
    <3>1. PICK p \in CodePositions(s) :
             /\ p <= n /\ RefersFrom(s, p, refs[j])
             /\ code[InstructionsBefore(s, p) + 1] =
                   IF j <= r THEN InstructionAt(s, p) ELSE ParsedAt(s, p).ins
      BY DEF HasCode
    <3>2. refs[j].index # refs[r + 1].index
      <4>1. refs[j] \in PendingEntries /\ refs[r + 1] \in PendingEntries
        BY <1>1
      <4>2. refs[j].index \in Nat /\ refs[r + 1].index \in Nat
        BY <4>1 DEF PendingEntries
      <4>3. refs[j].index < refs[r + 1].index \/ refs[r + 1].index < refs[j].index
        BY <1>1, <2>2 DEF Fixups
      <4> QED
        BY <4>2, <4>3
    <3>3. p # q
      BY <1>3, <3>1, <3>2 DEF RefersFrom
    <3>4. j <= r + 1 <=> j <= r
      BY <1>1, <2>2
    <3> QED
      BY <1>9, <1>10, <3>1, <3>3, <3>4
  <2> QED
    BY <2>1, <2>2
<1>13. ASSUME NEW j \in 1..Len(refs), j <= r + 1 PROVE DefinedAt(s, refs[j].name) # {}
  <2>1. j <= r \/ j = r + 1
    BY <1>13
  <2> QED
    BY <2>1 DEF HasCode
<1>14. HasCode(s, n, written, refs, r + 1)
  <2>1. ASSUME NEW p \in CodePositions(s), p <= n
        PROVE  IF ParsedAt(s, p).refs = {}
               THEN written[InstructionsBefore(s, p) + 1] = ParsedAt(s, p).ins
               ELSE \E j \in 1..Len(refs) : refs[j].index = InstructionsBefore(s, p)
    <3>1. CASE ParsedAt(s, p).refs = {}
      BY <1>11, <2>1, <3>1
    <3>2. CASE ParsedAt(s, p).refs # {}
      BY <2>1, <3>2 DEF HasCode
    <3> QED
      BY <3>1, <3>2
  <2> QED
    BY <1>12, <1>13, <2>1 DEF HasCode
<1> QED
  BY <1>7, <1>8, <1>14

(* When every line has been read, no line is at fault, and the references  *)
(* before the first one whose label is missing are not.                    *)
LEMMA ReadAll ==
    ASSUME NEW s \in Seq(SourceLine), NEW number, NEW code, HasRead(s, Len(s), number, code)
    PROVE  LineFaults(s) = {}
BY DEF HasRead, LineFaults

LEMMA ReferencesBefore ==
    ASSUME NEW s \in Seq(SourceLine), NEW code \in Seq(Instruction),
           NEW refs \in Seq(PendingEntries), Fixups(code, refs), NEW r \in 0..Len(refs),
           HasCode(s, Len(s), code, refs, r), NEW p \in ReferenceFaults(s)
    PROVE  \E j \in 1..Len(refs) :
              /\ r < j /\ RefersFrom(s, p, refs[j]) /\ DefinedAt(s, refs[j].name) = {}
<1>1. p \in CodePositions(s) /\ p \in 1..Len(s) /\ Len(s) \in Nat /\ Len(refs) \in Nat
  BY LineCounts DEF ReferenceFaults, ReferenceFault
<1>2. PICK t \in ParsedAt(s, p).refs : DefinedAt(s, t) = {}
  BY DEF ReferenceFaults, ReferenceFault, ParsedAt
<1>3. PICK j \in 1..Len(refs) : refs[j].index = InstructionsBefore(s, p)
  BY <1>1, <1>2 DEF HasCode
<1>4. PICK q \in CodePositions(s) : RefersFrom(s, q, refs[j])
  BY DEF HasCode
<1>5. q = p
  <2>1. InstructionsBefore(s, q) = InstructionsBefore(s, p)
    BY <1>3, <1>4 DEF RefersFrom
  <2> QED
    BY <1>1, <2>1, CodeOrder
<1>6. refs[j].name = t
  BY <1>2, <1>4, <1>5 DEF RefersFrom
<1>7. ~(j <= r)
  BY <1>2, <1>6 DEF HasCode
<1>8. r < j
  BY <1>1, <1>7
<1> QED
  BY <1>2, <1>4, <1>5, <1>6, <1>8

LEMMA NextIsMissing ==
    ASSUME NEW s \in Seq(SourceLine), NEW code \in Seq(Instruction),
           NEW refs \in Seq(PendingEntries), Fixups(code, refs),
           NEW r \in Nat, r < Len(refs), HasCode(s, Len(s), code, refs, r),
           DefinedAt(s, refs[r + 1].name) = {}
    PROVE  /\ ReferenceFaults(s) # {}
           /\ refs[r + 1].line = LineAt(s, Min(ReferenceFaults(s)))
<1>1. r + 1 \in 1..Len(refs) /\ Len(refs) \in Nat /\ r \in 0..Len(refs)
  OBVIOUS
<1>2. PICK p \in CodePositions(s) : RefersFrom(s, p, refs[r + 1])
  BY <1>1 DEF HasCode
<1>3. p \in ReferenceFaults(s)
  <2>1. p \in 1..Len(s) /\ refs[r + 1].name \in Parse(s[p].tokens).refs
    BY <1>2, CodeOrder DEF RefersFrom, ParsedAt
  <2> QED
    BY <2>1 DEF ReferenceFaults, ReferenceFault
<1>4. ASSUME NEW q \in ReferenceFaults(s) PROVE p <= q
  <2>1. PICK j \in 1..Len(refs) : r < j /\ RefersFrom(s, q, refs[j])
    BY <1>1, <1>4, ReferencesBefore
  <2>2. r + 1 < j \/ r + 1 = j
    BY <2>1
  <2>3. refs[r + 1] \in PendingEntries /\ refs[j] \in PendingEntries
    BY <1>1
  <2>4. refs[r + 1].index \in Nat /\ refs[j].index \in Nat
    BY <2>3 DEF PendingEntries
  <2>5. refs[r + 1].index <= refs[j].index
    BY <1>1, <2>2, <2>4 DEF Fixups
  <2>6. ~(InstructionsBefore(s, q) < InstructionsBefore(s, p))
    BY <1>2, <2>1, <2>4, <2>5 DEF RefersFrom
  <2>7. q \in CodePositions(s)
    BY DEF ReferenceFaults, ReferenceFault
  <2>8. p \in 1..Len(s) /\ q \in 1..Len(s) /\ Len(s) \in Nat
    BY <2>7, CodeOrder, LineCounts
  <2>9. ~(q < p)
    BY <2>6, <2>7, CodeOrder
  <2> QED
    BY <2>8, <2>9
<1>5. ReferenceFaults(s) \in SUBSET Nat
  BY DEF ReferenceFaults
<1>6. Min(ReferenceFaults(s)) = p
  BY <1>3, <1>4, <1>5, MinIs
<1> QED
  BY <1>2, <1>3, <1>6 DEF RefersFrom

LEMMA AllResolved ==
    ASSUME NEW s \in Seq(SourceLine), NEW number, NEW code \in Seq(Instruction),
           NEW refs \in Seq(PendingEntries), Fixups(code, refs),
           HasRead(s, Len(s), number, code), HasCode(s, Len(s), code, refs, Len(refs))
    PROVE  LineFaults(s) \cup ReferenceFaults(s) = {} /\ code = Meaning(s)
<1>1. Len(s) \in Nat /\ Len(refs) \in Nat /\ Len(code) \in Nat
  OBVIOUS
<1>2. ReferenceFaults(s) = {}
  <2> SUFFICES ASSUME NEW p \in ReferenceFaults(s) PROVE FALSE
    OBVIOUS
  <2>1. PICK j \in 1..Len(refs) : Len(refs) < j
    BY <1>1, ReferencesBefore
  <2> QED
    BY <1>1, <2>1
<1>3. Len(code) = Cardinality(CodePositions(s))
  <2>1. {q \in CodePositions(s) : q < Len(s) + 1} = CodePositions(s)
    BY <1>1, LineCounts
  <2> QED
    BY <2>1 DEF HasRead, InstructionsBefore
<1>4. ASSUME NEW p \in CodePositions(s)
      PROVE  code[InstructionsBefore(s, p) + 1] = InstructionAt(s, p)
  <2>1. p <= Len(s)
    BY <1>1, LineCounts
  <2>2. CASE ParsedAt(s, p).refs = {}
    <3>1. code[InstructionsBefore(s, p) + 1] = ParsedAt(s, p).ins
      BY <2>1, <2>2 DEF HasCode
    <3> QED
      BY <2>2, <3>1, Zenon DEF InstructionAt, ParsedAt
  <2>3. CASE ParsedAt(s, p).refs # {}
    <3>1. PICK j \in 1..Len(refs) : refs[j].index = InstructionsBefore(s, p)
      BY <2>1, <2>3 DEF HasCode
    <3>2. PICK q \in CodePositions(s) :
             /\ RefersFrom(s, q, refs[j])
             /\ code[InstructionsBefore(s, q) + 1] =
                   IF j <= Len(refs) THEN InstructionAt(s, q) ELSE ParsedAt(s, q).ins
      BY DEF HasCode
    <3>3. q = p
      <4>1. InstructionsBefore(s, q) = InstructionsBefore(s, p)
        BY <3>1, <3>2 DEF RefersFrom
      <4> QED
        BY <4>1, CodeOrder
    <3>4. j <= Len(refs)
      BY <1>1
    <3> QED
      BY <3>2, <3>3, <3>4
  <2> QED
    BY <2>2, <2>3
<1>5. ASSUME NEW i \in 1..Len(code)
      PROVE  code[i] = LET p == CHOOSE q \in CodePositions(s) : InstructionsBefore(s, q) = i - 1
                       IN  InstructionAt(s, p)
  <2> DEFINE p == CHOOSE q \in CodePositions(s) : InstructionsBefore(s, q) = i - 1
  <2>1. \E q \in CodePositions(s) : InstructionsBefore(s, q) = i - 1
    BY DEF HasRead
  <2>2. p \in CodePositions(s) /\ InstructionsBefore(s, p) = i - 1
    BY <2>1
  <2> HIDE DEF p
  <2>3. InstructionsBefore(s, p) + 1 = i
    BY <1>1, <2>2
  <2>4. code[i] = InstructionAt(s, p)
    BY <1>4, <2>2, <2>3
  <2> QED
    BY <2>4 DEF p
<1>6. code = [i \in 1..Len(code) |-> code[i]]
  OBVIOUS
<1>7. code = Meaning(s)
  BY <1>3, <1>5, <1>6, Zenon DEF Meaning
<1> QED
  BY <1>2, <1>7, ReadAll

----------------------------------------------------------------------------
(* The actions, for a source whose names fit the buffers.                  *)
Reads ==
    /\ HasRead(source, position, lineNumber, program)
    /\ HasLabels(source, position, labels)
    /\ HasCode(source, position, program, pending, resolved)

Answers ==
    /\ result.error = "OK" =>
          LineFaults(source) \cup ReferenceFaults(source) = {} /\ program = Meaning(source)
    /\ result.error = "PARSE" =>
          /\ LineFaults(source) \cup ReferenceFaults(source) # {}
          /\ result.line = LineAt(source, FirstFault)

Understood ==
    NamesFit(source) =>
        IF phase = "done" THEN Answers
        ELSE Reads /\ (phase = "resolving" => position = Len(source))

LEMMA InitUnderstood == Init => Understood
<1> SUFFICES ASSUME Init PROVE Reads /\ phase # "resolving" /\ phase # "done"
  BY DEF Understood
<1>1. source \in Seq(SourceLine) /\ 0 \in 0..Len(source)
  BY SourcesAssumption DEF Init
<1>2. InstructionsBefore(source, 1) = 0 /\ LineAt(source, 0) = 0
  BY <1>1, CountsStep
<1>3. /\ \A p \in CodePositions(source) : ~(p <= 0)
      /\ \A p \in LabelPositions(source) : ~(p <= 0)
  BY <1>1, LineCounts
<1> QED
  BY <1>2, <1>3 DEF Init, Reads, HasRead, HasLabels, HasCode

(* What is known of the tables while lines are read or references resolved.*)
LEMMA Working ==
    ASSUME AsmInv, Understood, NamesFit(source), phase # "done"
    PROVE  /\ source \in Seq(SourceLine) /\ Len(source) \in Nat /\ position \in 0..Len(source)
           /\ HasRead(source, position, lineNumber, program)
           /\ HasLabels(source, position, labels)
           /\ HasCode(source, position, program, pending, resolved)
           /\ program \in Seq(Instruction) /\ pending \in Seq(PendingEntries)
           /\ labels \in Seq(LabelEntries) /\ Fixups(program, pending)
           /\ phase = "lines" => resolved = 0
           /\ phase = "resolving" =>
                 position = Len(source) /\ resolved \in Nat /\ resolved <= Len(pending)
BY DEF AsmInv, Understood, Reads, Progress, Tables

LEMMA NameFits ==
    ASSUME AsmInv, NamesFit(source), AtLine
    PROVE  /\ Line.kind = "label" => Cut(Line.name) = Line.name
           /\ Line.kind = "code" => \A t \in Parse(Line.tokens).refs : Cut(t) = t
<1>1. position + 1 \in 1..Len(source) /\ Line = source[position + 1]
  BY LineType DEF AsmInv, Line
<1>2. \A t \in TokensOf(Line) : Cut(t) = t
  BY <1>1 DEF NamesFit
<1>3. CASE Line.kind = "label"
  <2>1. TokensOf(Line) = {Line.name}
    BY <1>3 DEF TokensOf
  <2> QED
    BY <1>2, <1>3, <2>1
<1>4. CASE Line.kind = "code"
  <2>1. TokensOf(Line) = {Line.tokens[i] : i \in 1..Len(Line.tokens)}
    BY <1>4 DEF TokensOf
  <2>2. Line.tokens \in Seq(Token) /\ Line.tokens # <<>>
    BY <1>4, LineType DEF AsmInv
  <2> QED
    BY <1>2, <1>4, <2>1, <2>2, RefsAreTokens
<1> QED
  BY <1>3, <1>4

(* A fault at the next line is the first.                                  *)
LEMMA FaultIsFirst ==
    ASSUME AsmInv, Understood, NamesFit(source), AtLine, Line # EmptyLine,
           LineFault(source, position + 1), Fail("PARSE", lineNumber + 1), source' = source
    PROVE  Understood'
<1>1. /\ source \in Seq(SourceLine) /\ Len(source) \in Nat /\ position \in 0..Len(source)
      /\ position < Len(source) /\ HasRead(source, position, lineNumber, program)
  BY Working DEF AtLine
<1>2. position + 1 \in LineFaults(source) /\ LineFaults(source) \in SUBSET Nat
  BY <1>1 DEF LineFaults
<1>3. ASSUME NEW q \in LineFaults(source) PROVE position + 1 <= q
  <2>1. q \in 1..Len(source) /\ LineFault(source, q)
    BY DEF LineFaults
  <2>2. q \notin 1..position
    BY <2>1, <1>1 DEF HasRead
  <2> QED
    BY <1>1, <2>1, <2>2
<1>4. Min(LineFaults(source)) = position + 1
  BY <1>2, <1>3, MinIs
<1>5. FirstFault = position + 1
  BY <1>2, <1>4 DEF FirstFault
<1>6. LineAt(source, position + 1) = lineNumber + 1
  BY <1>1, CountsStep DEF Line, HasRead
<1>7. FirstFault' = FirstFault
  BY DEF FirstFault
<1> QED
  BY <1>2, <1>5, <1>6, <1>7 DEF Understood, Answers, Fail

LEMMA LabelUnderstood ==
    ASSUME AsmInv, Understood, NamesFit(source), ReadLabel
    PROVE  Understood'
<1> DEFINE n == position
           t == Line.name
<1>1. /\ source \in Seq(SourceLine) /\ Len(source) \in Nat /\ n \in 0..Len(source)
      /\ n < Len(source) /\ HasRead(source, n, lineNumber, program)
      /\ HasLabels(source, n, labels) /\ HasCode(source, n, program, pending, resolved)
      /\ labels \in Seq(LabelEntries) /\ phase = "lines" /\ Line.kind = "label"
      /\ AtLine /\ Line = source[n + 1]
  BY Working DEF ReadLabel, AtLine, Line
<1>2. Cut(t) = t
  BY <1>1, NameFits
<1>3. n + 1 \in 1..Len(source)
  BY <1>1
<1>4. CASE AddLabel(t)
  <2> DEFINE entry == [name |-> Cut(t), target |-> Len(program)]
  <2>1. /\ IsIdentifier(t) /\ Found(t) = {} /\ labels' = Append(labels, entry)
        /\ Line # EmptyLine
        /\ position' = n + 1 /\ lineNumber' = lineNumber + 1
        /\ UNCHANGED <<source, resolved, pending, program, result, phase>>
    BY <1>4 DEF AddLabel, Duplicate, Reading
  <2>2. \A j \in 1..Len(labels) : labels[j].name # t
    BY <2>1 DEF Found
  <2>3. labels' \in Seq(LabelEntries)
    BY LinesKeep DEF AsmInv, Tables
  <2>4. entry \in LabelEntries
    <3>1. Len(labels) + 1 \in 1..Len(labels') /\ labels'[Len(labels) + 1] = entry
      BY <1>1, <2>1
    <3> QED
      BY <2>3, <3>1
  <2>5. entry.name = source[n + 1].name /\ entry.target = Len(program)
    BY <1>1, <1>2
  <2> HIDE DEF entry
  <2>6. /\ HasRead(source, n + 1, LineAt(source, n + 1), program)
        /\ HasLabels(source, n + 1, Append(labels, entry))
        /\ HasCode(source, n + 1, program, pending, resolved)
    BY <1>1, <2>1, <2>2, <2>4, <2>5, LabelReads
  <2>7. LineAt(source, n + 1) = lineNumber + 1
    BY <1>1, <2>1, CountsStep DEF HasRead
  <2>8. Reads'
    BY <2>1, <2>6, <2>7 DEF Reads
  <2> QED
    BY <1>1, <2>1, <2>8 DEF Understood
<1>5. CASE LabelFails(t)
  <2>1. /\ Line # EmptyLine /\ source' = source /\ lineNumber' = lineNumber + 1
        /\ \/ (~IsIdentifier(t) \/ Found(t) # {}) /\ Fail("PARSE", lineNumber')
           \/ Fail("OOM", lineNumber')
    BY <1>5 DEF LabelFails, Reading, Duplicate
  <2>2. CASE Fail("OOM", lineNumber')
    BY <2>2 DEF Fail, Understood, Answers
  <2>3. CASE (~IsIdentifier(t) \/ Found(t) # {}) /\ Fail("PARSE", lineNumber')
    <3>1. Found(t) # {} => Min(DefinedAt(source, t)) < n + 1
      <4> SUFFICES ASSUME Found(t) # {} PROVE Min(DefinedAt(source, t)) < n + 1
        OBVIOUS
      <4>1. PICK j \in 1..Len(labels) : labels[j].name = t
        BY DEF Found
      <4>2. Min(DefinedAt(source, t)) <= n /\ Min(DefinedAt(source, t)) \in Nat
        BY <1>1, <4>1, LabelTarget
      <4> QED
        BY <1>1, <4>2
    <3>2. LineFault(source, n + 1)
      BY <1>1, <1>3, <2>3, <3>1, FaultsByKind
    <3> QED
      BY <1>1, <2>1, <2>3, <3>2, FaultIsFirst
  <2> QED
    BY <2>1, <2>2, <2>3
<1> QED
  BY <1>4, <1>5 DEF ReadLabel

LEMMA CodeUnderstood ==
    ASSUME AsmInv, Understood, NamesFit(source), ReadCode
    PROVE  Understood'
<1> DEFINE n == position
           p == Parse(Line.tokens)
<1>1. /\ source \in Seq(SourceLine) /\ Len(source) \in Nat /\ n \in 0..Len(source)
      /\ n < Len(source) /\ HasRead(source, n, lineNumber, program)
      /\ HasLabels(source, n, labels) /\ HasCode(source, n, program, pending, 0)
      /\ program \in Seq(Instruction) /\ pending \in Seq(PendingEntries)
      /\ phase = "lines" /\ resolved = 0 /\ Line.kind = "code"
      /\ AtLine /\ Line = source[n + 1]
  BY Working DEF ReadCode, AtLine, Line
<1>2. n + 1 \in 1..Len(source) /\ ParsedAt(source, n + 1) = p
  BY <1>1 DEF ParsedAt
<1>3. Line.tokens \in Seq(Token) /\ Line.tokens # <<>>
  BY <1>1, LineType DEF AsmInv
<1>4. CASE PushInstruction(Line.tokens)
  <2>1. /\ p.ok /\ program' = Append(program, p.ins) /\ Line # EmptyLine
        /\ IF p.refs = {} THEN pending' = pending
           ELSE \E t \in p.refs : pending' = Append(pending, Reference(t))
        /\ position' = n + 1 /\ lineNumber' = lineNumber + 1
        /\ UNCHANGED <<source, resolved, labels, result, phase>>
    BY <1>4 DEF PushInstruction, Reading
  <2>2. p.ins \in Instruction
    BY <1>3, <2>1, ParsesWell DEF WellParsed, Rejected
  <2>3. pending' \in Seq(PendingEntries)
    BY CodeKeeps DEF AsmInv, Tables
  <2>4. LineAt(source, n + 1) = lineNumber + 1
    BY <1>1, <2>1, CountsStep DEF HasRead
  <2>5. p.refs # {} =>
          \E ref \in PendingEntries :
             /\ pending' = Append(pending, ref) /\ p.refs = {ref.name}
             /\ ref.index = Len(program) /\ ref.line = LineAt(source, n + 1)
    <3> SUFFICES ASSUME p.refs # {}
                 PROVE  \E ref \in PendingEntries :
                           /\ pending' = Append(pending, ref) /\ p.refs = {ref.name}
                           /\ ref.index = Len(program) /\ ref.line = LineAt(source, n + 1)
      OBVIOUS
    <3>1. PICK t \in p.refs : pending' = Append(pending, Reference(t))
      BY <2>1
    <3>2. p.refs = {t} /\ Cut(t) = t
      <4>1. \E u : p.refs = {u}
        <5>1. WellParsed(p)
          BY <1>3, ParsesWell
        <5> HIDE DEF p
        <5> QED
          BY <5>1 DEF WellParsed, Rejected
      <4>2. Cut(t) = t
        BY <1>1, NameFits
      <4> QED
        BY <4>1, <4>2
    <3>3. /\ Reference(t).name = t /\ Reference(t).index = Len(program)
          /\ Reference(t).line = lineNumber + 1
      BY <2>1, <3>2 DEF Reference
    <3>4. Reference(t) \in PendingEntries
      <4>1. Len(pending) + 1 \in 1..Len(pending') /\ pending'[Len(pending) + 1] = Reference(t)
        BY <1>1, <3>1
      <4> QED
        BY <2>3, <4>1
    <3> QED
      BY <2>4, <3>1, <3>2, <3>3, <3>4
  <2> HIDE DEF p
  <2>6. /\ HasRead(source, n + 1, LineAt(source, n + 1), Append(program, p.ins))
        /\ HasLabels(source, n + 1, labels)
        /\ HasCode(source, n + 1, Append(program, p.ins), pending', 0)
    BY <1>1, <1>2, <2>1, <2>2, <2>3, <2>5, PushReads
  <2>7. Reads'
    BY <1>1, <2>1, <2>4, <2>6 DEF Reads
  <2> QED
    BY <1>1, <2>1, <2>7 DEF Understood
<1>5. CASE CodeLineFails(Line.tokens)
  <2>1. /\ Line # EmptyLine /\ source' = source /\ lineNumber' = lineNumber + 1
        /\ (~p.ok /\ Fail("PARSE", lineNumber')) \/ Fail("OOM", lineNumber')
    BY <1>5 DEF CodeLineFails, Reading
  <2>2. CASE Fail("OOM", lineNumber')
    BY <2>2 DEF Fail, Understood, Answers
  <2>3. CASE ~p.ok /\ Fail("PARSE", lineNumber')
    <3>1. LineFault(source, n + 1)
      BY <1>1, <1>2, <2>3, FaultsByKind
    <3> QED
      BY <1>1, <2>1, <2>3, <3>1, FaultIsFirst
  <2> QED
    BY <2>1, <2>2, <2>3
<1> QED
  BY <1>4, <1>5 DEF ReadCode

LEMMA SkipUnderstood ==
    ASSUME AsmInv, Understood, NamesFit(source), SkipEmptyLine \/ SkipBlankLine
    PROVE  Understood'
<1> DEFINE n == position
<1>1. AtLine /\ phase = "lines" /\ n < Len(source) /\ Line = source[n + 1]
  BY DEF SkipEmptyLine, SkipBlankLine, Reading, AtLine, Line
<1>2. /\ source \in Seq(SourceLine) /\ Len(source) \in Nat /\ n \in 0..Len(source)
      /\ HasRead(source, n, lineNumber, program)
      /\ HasLabels(source, n, labels) /\ HasCode(source, n, program, pending, resolved)
  BY <1>1, Working
<1>3. /\ position' = n + 1
      /\ UNCHANGED <<source, labels, pending, resolved, program, result, phase>>
      /\ Line.kind \notin {"code", "label"}
      /\ lineNumber' = IF Line = EmptyLine THEN lineNumber ELSE lineNumber + 1
  <2>1. CASE SkipEmptyLine
    BY <2>1 DEF SkipEmptyLine, EmptyLine
  <2>2. CASE SkipBlankLine
    BY <2>2 DEF SkipBlankLine, Reading, BlankLine
  <2> QED
    BY <2>1, <2>2
<1>4. lineNumber' = LineAt(source, n + 1)
  BY <1>1, <1>2, <1>3, CountsStep DEF HasRead
<1>5. /\ HasRead(source, n + 1, lineNumber', program)
      /\ HasLabels(source, n + 1, labels)
      /\ HasCode(source, n + 1, program, pending, resolved)
  BY <1>1, <1>2, <1>3, <1>4, SkipReads
<1>6. Reads'
  BY <1>3, <1>5 DEF Reads
<1> QED
  BY <1>1, <1>3, <1>6 DEF Understood

LEMMA ResolvingUnderstood ==
    ASSUME AsmInv, Understood, NamesFit(source), ResolveReference \/ UnknownLabel
    PROVE  Understood'
<1> DEFINE n == Len(source)
<1>1. phase = "resolving" /\ resolved < Len(pending)
  BY DEF ResolveReference, UnknownLabel, Resolving
<1>2. /\ source \in Seq(SourceLine) /\ n \in Nat /\ n \in 0..Len(source) /\ position = n
      /\ HasRead(source, n, lineNumber, program)
      /\ HasLabels(source, n, labels) /\ HasCode(source, n, program, pending, resolved)
      /\ program \in Seq(Instruction) /\ pending \in Seq(PendingEntries)
      /\ labels \in Seq(LabelEntries) /\ Fixups(program, pending) /\ resolved \in Nat
  BY <1>1, Working
<1>3. CASE ResolveReference
  <2> DEFINE name == NextRef.name
             j == Min(Found(name))
  <2>1. Found(name) # {} /\ Tables
    BY <1>3 DEF ResolveReference, AsmInv
  <2>2. j \in 1..Len(labels) /\ labels[j].name = name
    <3>1. j \in 1..Len(labels) /\ j \in Found(name)
      BY <2>1, LeastFound
    <3> QED
      BY <3>1 DEF Found
  <2>3. labels[j].target \in Value
    BY <2>1, FoundLabel, Widths
  <2> HIDE DEF j
  <2>4. /\ DefinedAt(source, name) # {}
        /\ labels[j].target = InstructionsBefore(source, Min(DefinedAt(source, name)))
    BY <1>2, <2>2, LabelTarget
  <2>5. name = pending[resolved + 1].name
    BY DEF NextRef
  <2> DEFINE written == [program EXCEPT ![pending[resolved + 1].index + 1].imm = labels[j].target]
  <2>6. program' = written
    BY <1>3 DEF ResolveReference, NextRef, j
  <2>7. HasRead(source, n, lineNumber, written) /\ HasCode(source, n, written, pending, resolved + 1)
    <3> HIDE DEF name
    <3> QED
      BY <1>1, <1>2, <2>3, <2>4, <2>5, ResolveReads
  <2>8. resolved' = resolved + 1
        /\ UNCHANGED <<source, position, lineNumber, labels, pending, result, phase>>
    BY <1>3 DEF ResolveReference
  <2>9. Reads'
    <3> HIDE DEF written
    <3> QED
      BY <1>2, <2>6, <2>7, <2>8 DEF Reads
  <2> QED
    BY <1>1, <1>2, <2>8, <2>9 DEF Understood
<1>4. CASE UnknownLabel
  <2>1. /\ Found(NextRef.name) = {} /\ Fail("PARSE", NextRef.line)
        /\ source' = source
    BY <1>4 DEF UnknownLabel
  <2>2. DefinedAt(source, pending[resolved + 1].name) = {}
    <3> SUFFICES ASSUME NEW p \in DefinedAt(source, pending[resolved + 1].name) PROVE FALSE
      OBVIOUS
    <3>1. p \in LabelPositions(source) /\ source[p].name = NextRef.name /\ p <= n
      BY <1>2, LineCounts DEF DefinedAt, NextRef
    <3>2. PICK i \in 1..Len(labels) : labels[i].name = source[p].name
      BY <1>2, <3>1 DEF HasLabels
    <3> QED
      BY <2>1, <3>1, <3>2 DEF Found
  <2>3. /\ ReferenceFaults(source) # {}
        /\ NextRef.line = LineAt(source, Min(ReferenceFaults(source)))
    BY <1>1, <1>2, <2>2, NextIsMissing DEF NextRef
  <2>4. LineFaults(source) = {}
    BY <1>2, ReadAll
  <2>5. FirstFault = Min(ReferenceFaults(source)) /\ FirstFault' = FirstFault
    BY <2>1, <2>4 DEF FirstFault
  <2> QED
    BY <2>1, <2>3, <2>5 DEF Understood, Answers, Fail
<1> QED
  BY <1>3, <1>4

LEMMA FinishUnderstood ==
    ASSUME AsmInv, Understood, NamesFit(source), Finish
    PROVE  Understood'
<1>1. /\ phase = "resolving" /\ resolved = Len(pending) /\ phase' = "done"
      /\ UNCHANGED <<source, program, result>>
  BY DEF Finish
<1>2. /\ source \in Seq(SourceLine) /\ position = Len(source)
      /\ HasRead(source, Len(source), lineNumber, program)
      /\ HasCode(source, Len(source), program, pending, Len(pending))
      /\ program \in Seq(Instruction) /\ pending \in Seq(PendingEntries)
      /\ Fixups(program, pending)
  BY <1>1, Working
<1>3. LineFaults(source) \cup ReferenceFaults(source) = {} /\ program = Meaning(source)
  BY <1>2, AllResolved
<1>4. result.error = "OK"
  BY <1>1 DEF AsmInv, Outcome
<1> QED
  BY <1>1, <1>3, <1>4 DEF Understood, Answers

LEMMA UnderstoodKept ==
    ASSUME AsmInv, Understood, [Next]_vars
    PROVE  Understood'
<1>1. source' = source
  BY DEF Next, Copy, SkipEmptyLine, SkipBlankLine, ReadLabel, AddLabel, LabelFails, ReadCode,
         PushInstruction, CodeLineFails, Reading, NoMoreLines, ResolveReference, UnknownLabel,
         Finish, vars
<1>2. CASE ~NamesFit(source)
  BY <1>1, <1>2 DEF Understood
<1>3. CASE NamesFit(source)
  <2>1. CASE Copy
    <3>1. phase = "copying" /\ UNCHANGED <<source, position, lineNumber, labels, pending, resolved, program>>
      BY <2>1 DEF Copy
    <3>2. CASE phase' = "lines"
      BY <1>3, <3>1, <3>2 DEF Understood, Reads
    <3>3. CASE phase' = "done" /\ result' = [error |-> "OOM", line |-> 0]
      BY <3>3 DEF Understood, Answers
    <3> QED
      BY <2>1, <3>2, <3>3 DEF Copy
  <2>2. CASE NoMoreLines
    BY <1>3, <2>2 DEF NoMoreLines, Understood, Reads
  <2>3. CASE UNCHANGED vars
    BY <1>3, <2>3 DEF vars, Understood, Reads, Answers, FirstFault
  <2> QED
    BY <1>3, <2>1, <2>2, <2>3, SkipUnderstood, LabelUnderstood, CodeUnderstood,
       ResolvingUnderstood, FinishUnderstood DEF Next
<1> QED
  BY <1>2, <1>3

LEMMA Understanding == Spec => [](AsmInv /\ Understood)
BY Invariance, InitUnderstood, UnderstoodKept, PTL DEF Spec

(* The two passes give what the source says, when no name is longer than   *)
(* the name buffers: refused iff a line or a reference is at fault, and    *)
(* otherwise each label stands for the number of instructions before it.   *)
THEOREM AssemblyIsMeaning == Spec => []AssemblesNamesThatFit
<1>1. AsmInv /\ Understood => AssemblesNamesThatFit
  BY DEF AssemblesNamesThatFit, AssemblesAsWritten, Understood, Answers, Answered, AsmInv, Outcome
<1> QED
  BY Understanding, <1>1, PTL

(* The line of a parse error is that of the first line at fault, or, when  *)
(* no line is, of the first reference.                                     *)
THEOREM ErrorsPointAtFaults == Spec => []ErrorPointsAtFirstFault
<1>1. AsmInv /\ Understood => ErrorPointsAtFirstFault
  BY DEF ErrorPointsAtFirstFault, Understood, Answers, Answered, LineAt
<1> QED
  BY Understanding, <1>1, PTL
=============================================================================
