----------------------------- MODULE FileProofs -----------------------------
(***************************************************************************)
(* Proofs about waivm processes that share one file, for any number of     *)
(* them and of their commands, all programs, and every file they may find  *)
(* (FilesAssumption).  FileInv is the inductive invariant: what is on disk *)
(* as long as no second writer came in between (WriterInv), and what each  *)
(* process may conclude from the cells it has read so far (ProcInv).       *)
(***************************************************************************)
EXTENDS FileCommands, WordProofs

(* The places of a command, the errors of the checkers, a process's state. *)
Places == {"idle", "validating", "opening", "writing", "bytecode", "records", "text",
           "reading", "using"}
Verdicts == {"OK", "PARSE", "BAD_OPCODE", "BAD_REGISTER", "BAD_JUMP", "DIV_ZERO",
             "MEMORY_OOB", "BAD_SHIFT"}
State == [pc : Places, cmd : LoadCommands \cup {"none", "asm", "info"},
          program : Seq(Instruction), held : BOOLEAN, wanted : Nat, sent : Nat,
          via : {"none", "bytecode", "text"},
          status : Verdicts \cup {"none", "IO", "OOM", "FAILED", "killed"},
          disturbed : BOOLEAN, started : 0 .. MaxCommands]

(* Types. A file is missing or made of cells. *)
TypeInv ==
    /\ proc \in [Procs -> State]
    /\ file = Missing \/ file \in Seq(Cell)
    /\ lastImage \in [ok : BOOLEAN, program : Seq(Instruction)]
    /\ lastImage = Nobody <=> ~lastImage.ok
    /\ mixed \in BOOLEAN

(* What writing has made of the file: the image of the last writer's       *)
(* program up to some cell, when no other writer was in its way.           *)
Cut(program) ==
    \A i \in 1 .. Len(file) :
        i <= Len(Image(program)) /\ file[i] \in {Image(program)[i], Torn}

WriterInv ==
    /\ lastImage = Nobody => file \in InitialFiles /\ ~mixed /\ Writers = {}
    /\ lastImage # Nobody =>
          /\ file \in Seq(Cell)
          /\ \A i \in 1 .. Len(file) : file[i].cell # "text"
    /\ lastImage # Nobody /\ ~mixed =>
          /\ Cut(lastImage.program)
          /\ \A p \in Writers :
                /\ Writers = {p}
                /\ proc[p].program = lastImage.program
                /\ proc[p].sent = Len(file)
                /\ \A i \in 1 .. Len(file) : file[i] = Image(lastImage.program)[i]

(* What the state s of process p says about its past and about the file. *)
Clean(s) == ~s.disturbed /\ ~mixed
Loading == {"bytecode", "text", "records", "reading", "using"}

(* What a process knows of itself: what it has allocated and checked. *)
LocalInv(s) ==
    /\ s.pc = "idle" => ~s.held
    /\ s.pc # "idle" => s.status = "none"
    /\ s.pc \in {"validating", "opening", "writing"} => s.cmd = "asm"
    /\ s.pc \in Loading => s.cmd \in LoadCommands
    /\ s.pc \in {"opening", "writing"} => ValidateProgram(s.program) = "OK"
    /\ s.pc \notin {"idle", "writing"} => s.sent = 0
    /\ s.sent <= Len(Image(s.program))
    /\ s.pc = "records" => Len(s.program) <= s.wanted
    /\ s.pc \in Loading \ {"records", "using"} => s.program = <<>> /\ ~s.held
    /\ s.pc = "using" => s.via # "none"
    /\ s.pc = "using" /\ s.via = "text" => s.program \in Seq(Assembled)

(* A writer nobody disturbed is alone; when it succeeds its image is there. *)
AsmInv(p, s) ==
    /\ s.pc = "writing" /\ ~s.disturbed => ~mixed /\ lastImage = Accepted(s.program)
    /\ s.cmd = "asm" /\ s.status = "OK" /\ ~s.disturbed =>
          /\ ~mixed /\ Writers \subseteq {p}
          /\ lastImage = Accepted(s.program) /\ file = Image(s.program)

(* What a reader has of the program is what the file says so far. *)
Decoded(s) ==
    /\ Len(file) >= 2 /\ file[1] = Magic /\ file[2] = Header(TRUE, s.wanted)
    /\ \A k \in 1 .. Len(s.program) :
          /\ k + 2 <= Len(file) /\ file[k + 2] # Torn
          /\ s.program[k] = InstructionIn(file[k + 2])

(* A reader nobody disturbed reads one file. *)
LoadInv(s) ==
    /\ s.pc = "records" /\ Clean(s) => Decoded(s)
    /\ s.pc = "using" /\ Clean(s) /\ s.via = "bytecode" => file = Image(s.program)
    /\ s.pc = "using" /\ Clean(s) /\ s.via = "text" =>
          \/ s.program = <<>>
          \/ Len(file) = 1 /\ file[1] = Source(Accepted(s.program), FALSE)

(* The count `info` read is that of the last writer's program. *)
InfoInv(s) ==
    s.cmd = "info" /\ s.status = "OK" /\ Clean(s) /\ lastImage # Nobody =>
        s.wanted = Len(lastImage.program)

(* ... and, while nobody has written, how the file was taken. *)
TakenInv(s) ==
    lastImage = Nobody =>
        /\ s.pc \in {"bytecode", "records"} => HasMagic(file)
        /\ s.pc = "using" /\ s.via = "bytecode" => HasMagic(file)
        /\ s.pc \in {"text", "reading"} => ~HasMagic(file)
        /\ s.cmd \in LoadCommands /\ s.status = "PARSE" /\ file # <<>> /\ file[1].cell = "text"
             => ~file[1].meaning.ok \/ file[1].magic

ProcInv(p, s) == LocalInv(s) /\ AsmInv(p, s) /\ LoadInv(s) /\ InfoInv(s) /\ TakenInv(s)
FileInv == TypeInv /\ WriterInv /\ \A p \in Procs : ProcInv(p, proc[p])

----------------------------------------------------------------------------
(* Programs and their images. *)
LEMMA Joined ==
    ASSUME NEW S, NEW s \in Seq(S), NEW t \in Seq(S)
    PROVE  /\ s \o t \in Seq(S) /\ Len(s \o t) = Len(s) + Len(t)
           /\ \A i \in 1 .. Len(s) : (s \o t)[i] = s[i]
           /\ \A i \in 1 .. Len(t) : (s \o t)[Len(s) + i] = t[i]
OBVIOUS

LEMMA Pair ==
    ASSUME NEW S, NEW x \in S, NEW y \in S
    PROVE  <<x, y>> \in Seq(S) /\ Len(<<x, y>>) = 2 /\ <<x, y>>[1] = x /\ <<x, y>>[2] = y
OBVIOUS

LEMMA SameCells ==
    ASSUME NEW S, NEW s \in Seq(S), NEW t \in Seq(S), Len(s) = Len(t),
           \A i \in 1 .. Len(s) : s[i] = t[i]
    PROVE  s = t
<1>1. s = [i \in 1 .. Len(s) |-> s[i]] /\ t = [i \in 1 .. Len(t) |-> t[i]]
  OBVIOUS
<1> QED
  BY <1>1

(* What the assembler makes is a program. *)
LEMMA AssembledIsInstruction ==
    /\ Assembled \subseteq Instruction
    /\ Seq(Assembled) \subseteq Seq(Instruction)
<1>1. Assembled \subseteq Instruction
  BY DEF Assembled, Instruction
<1> QED
  BY <1>1

(* The verdict of either checker is an error code. *)
LEMMA VerdictsAre ==
    ASSUME NEW program
    PROVE  ValidateProgram(program) \in Verdicts /\ VerifyProgram(program).error \in Verdicts
<1>1. \A ins : ValidateIns(program, ins) \in Verdicts /\ VerifyIns(program, ins) \in Verdicts
  BY DEF ValidateIns, VerifyIns, Verdicts
<1> QED
  BY <1>1 DEF ValidateProgram, VerifyProgram, Verdicts

(* encode_instruction, then decode_instruction: the same instruction ... *)
LEMMA EncodedInstruction ==
    ASSUME NEW ins \in Instruction
    PROVE  /\ EncodeInstruction(ins) \in Encoded
           /\ DecodeInstruction(EncodeInstruction(ins)) = ins
<1> DEFINE bytes == [i \in ByteIndex |-> ByteOf(ins.imm, i)]
<1>1. ins.imm \in Value
  BY DEF Instruction
<1>2. bytes \in [ByteIndex -> Byte] /\ FromBytes(bytes) = ins.imm
  BY <1>1, ByteOfType, BytesRecompose
<1> HIDE DEF bytes
<1>3. EncodeInstruction(ins) = [ins EXCEPT !.imm = bytes]
  BY DEF EncodeInstruction, bytes
<1>4. EncodeInstruction(ins) \in Encoded
  BY <1>2, <1>3 DEF Encoded, Instruction
<1>5. DecodeInstruction(EncodeInstruction(ins)) = ins
  BY <1>2, <1>3 DEF DecodeInstruction, Instruction
<1> QED
  BY <1>4, <1>5

(* ... and the other way round the same bytes. *)
LEMMA DecodedBytes ==
    ASSUME NEW bytes \in Encoded
    PROVE  /\ DecodeInstruction(bytes) \in Instruction
           /\ EncodeInstruction(DecodeInstruction(bytes)) = bytes
<1>1. bytes.imm \in [ByteIndex -> Byte]
  BY DEF Encoded
<1>2. FromBytes(bytes.imm) \in Value
      /\ [i \in ByteIndex |-> ByteOf(FromBytes(bytes.imm), i)] = bytes.imm
  BY <1>1, FromBytesType, BytesDetermined
<1>3. DecodeInstruction(bytes) \in Instruction
  BY <1>2 DEF DecodeInstruction, Encoded, Instruction
<1>4. DecodeInstruction(bytes).imm = FromBytes(bytes.imm)
  BY DEF DecodeInstruction, Encoded
<1>5. EncodeInstruction(DecodeInstruction(bytes))
        = [DecodeInstruction(bytes) EXCEPT !.imm = bytes.imm]
  BY <1>2, <1>4 DEF EncodeInstruction
<1>6. [DecodeInstruction(bytes) EXCEPT !.imm = bytes.imm] = bytes
  BY DEF DecodeInstruction, Encoded
<1> QED
  BY <1>3, <1>5, <1>6

(* A record that is no unknown opcode is the encoding of what it gives. *)
LEMMA InstructionInType ==
    ASSUME NEW c \in Cell
    PROVE  /\ InstructionIn(c) \in Instruction
           /\ InstructionIn(c).op # "INVALID" =>
                c = Record(EncodeInstruction(InstructionIn(c)))
<1>1. CASE c.cell = "record"
  <2>1. c.bytes \in Encoded /\ c = Record(c.bytes)
    BY <1>1 DEF Cell, Magic, Torn, Zero, Record
  <2> QED
    BY <1>1, <2>1, DecodedBytes DEF InstructionIn
<1>2. CASE c.cell # "record"
  <2>1. InstructionIn(c) = ZeroInstruction
    BY <1>2 DEF InstructionIn
  <2> QED
    BY <2>1, ZeroIsValue DEF ZeroInstruction, Instruction
<1> QED
  BY <1>1, <1>2

(* The cells of an image: magic, header, then each record, none of them torn. *)
LEMMA ImageCells ==
    ASSUME NEW program \in Seq(Instruction)
    PROVE  /\ Image(program) \in Seq(Cell) /\ Len(Image(program)) = Len(program) + 2
           /\ Image(program)[1] = Magic /\ Image(program)[2] = Header(TRUE, Len(program))
           /\ \A k \in 1 .. Len(program) :
                 Image(program)[k + 2] = Record(EncodeInstruction(program[k]))
           /\ \A i \in 1 .. Len(Image(program)) :
                 Image(program)[i].cell # "text" /\ Image(program)[i] # Torn
<1> DEFINE records == [i \in 1 .. Len(program) |-> Record(EncodeInstruction(program[i]))]
           header == Header(TRUE, Len(program))
           first == <<Magic, header>>
<1>1. EncodeHeader(program) = Header(TRUE, Len(program)) /\ Len(program) \in Nat
  BY DEF EncodeHeader
<1>2. Magic \in Cell /\ Header(TRUE, Len(program)) \in Cell
  BY <1>1 DEF Cell, Header
<1>3. ASSUME NEW i \in 1 .. Len(program) PROVE Record(EncodeInstruction(program[i])) \in Cell
  <2>1. EncodeInstruction(program[i]) \in Encoded
    BY EncodedInstruction
  <2> QED
    BY <2>1 DEF Record, Cell
<1>4. records \in Seq(Cell) /\ Len(records) = Len(program)
  BY <1>1, <1>3
<1>5. first \in Seq(Cell) /\ Len(first) = 2 /\ first[1] = Magic
      /\ first[2] = Header(TRUE, Len(program))
  <2>1. header \in Cell
    BY <1>2
  <2> HIDE DEF header
  <2>2. first \in Seq(Cell) /\ Len(first) = 2 /\ first[1] = Magic /\ first[2] = header
    BY <1>2, <2>1, Pair
  <2> QED
    BY <2>2 DEF header
<1>6. /\ Image(program) = first \o records
      /\ \A k \in 1 .. Len(program) : records[k] = Record(EncodeInstruction(program[k]))
  BY <1>1 DEF Image
<1> HIDE DEF records, first, header
<1>7. /\ Image(program) \in Seq(Cell) /\ Len(Image(program)) = Len(program) + 2
      /\ Image(program)[1] = Magic /\ Image(program)[2] = Header(TRUE, Len(program))
      /\ \A k \in 1 .. Len(program) :
            Image(program)[k + 2] = Record(EncodeInstruction(program[k]))
  <2>1. /\ first \o records \in Seq(Cell)
        /\ Len(first \o records) = Len(first) + Len(records)
        /\ \A i \in 1 .. Len(first) : (first \o records)[i] = first[i]
        /\ \A i \in 1 .. Len(records) : (first \o records)[Len(first) + i] = records[i]
    <3>1. \A s, t \in Seq(Cell) :
             /\ s \o t \in Seq(Cell) /\ Len(s \o t) = Len(s) + Len(t)
             /\ \A i \in 1 .. Len(s) : (s \o t)[i] = s[i]
             /\ \A i \in 1 .. Len(t) : (s \o t)[Len(s) + i] = t[i]
      BY Joined
    <3> QED
      BY <1>4, <1>5, <3>1
  <2>2. ASSUME NEW k \in 1 .. Len(program)
        PROVE  Image(program)[k + 2] = Record(EncodeInstruction(program[k]))
    <3>1. k \in 1 .. Len(records) /\ Len(first) + k = k + 2
      BY <1>1, <1>4, <1>5
    <3>2. (first \o records)[Len(first) + k] = records[k]
      BY <2>1, <3>1
    <3> QED
      BY <1>6, <3>1, <3>2
  <2>3. 1 \in 1 .. Len(first) /\ 2 \in 1 .. Len(first)
    BY <1>5
  <2>4. Len(Image(program)) = Len(program) + 2
    BY <1>1, <1>4, <1>5, <1>6, <2>1
  <2>5. Image(program) \in Seq(Cell)
    BY <1>6, <2>1
  <2>6. Image(program)[1] = first[1] /\ Image(program)[2] = first[2]
    BY <1>6, <2>1, <2>3
  <2> QED
    BY <1>5, <2>2, <2>4, <2>5, <2>6
<1>8. ASSUME NEW i \in 1 .. Len(Image(program))
      PROVE  Image(program)[i].cell # "text" /\ Image(program)[i] # Torn
  <2>1. i = 1 \/ i = 2 \/ \E k \in 1 .. Len(program) : i = k + 2
    <3>1. ASSUME i # 1, i # 2 PROVE \E k \in 1 .. Len(program) : i = k + 2
      <4>1. i - 2 \in 1 .. Len(program) /\ i = (i - 2) + 2
        BY <1>1, <1>7, <3>1
      <4> QED
        BY <4>1
    <3> QED
      BY <3>1
  <2>2. Image(program)[i].cell \in {"magic", "header", "record"}
    <3>1. /\ Magic.cell = "magic" /\ Header(TRUE, Len(program)).cell = "header"
          /\ \A bytes : Record(bytes).cell = "record"
      BY DEF Magic, Header, Record
    <3>2. ASSUME NEW k \in 1 .. Len(program), i = k + 2
          PROVE  Image(program)[i] = Record(EncodeInstruction(program[k]))
      BY <1>7, <3>2
    <3> QED
      BY <1>7, <2>1, <3>1, <3>2
  <2> QED
    BY <2>2 DEF Torn
<1> QED
  BY <1>7, <1>8

(* A file of which every record is accepted is the image of what was read. *)
LEMMA AllRecords ==
    ASSUME NEW program \in Seq(Instruction), AllGood(program, ValidateIns),
           file \in Seq(Cell), Len(file) = Len(program) + 2,
           file[1] = Magic, file[2] = Header(TRUE, Len(program)),
           \A k \in 1 .. Len(program) : program[k] = InstructionIn(file[k + 2])
    PROVE  file = Image(program)
<1>1. Len(program) \in Nat
  OBVIOUS
<1>2. ASSUME NEW k \in 1 .. Len(program) PROVE file[k + 2] = Image(program)[k + 2]
  <2>1. ValidateIns(program, program[k]) = "OK"
    BY DEF AllGood
  <2>2. program[k].op # "INVALID"
    BY <2>1 DEF ValidateIns
  <2>3. file[k + 2] \in Cell
    BY <1>1
  <2> QED
    BY <2>2, <2>3, InstructionInType, ImageCells
<1>3. ASSUME NEW i \in 1 .. Len(file) PROVE file[i] = Image(program)[i]
  <2>1. CASE i = 1 \/ i = 2
    BY <2>1, ImageCells
  <2>2. CASE i # 1 /\ i # 2
    <3>1. i - 2 \in 1 .. Len(program) /\ (i - 2) + 2 = i
      BY <1>1, <2>2
    <3> QED
      BY <1>2, <3>1
  <2> QED
    BY <2>1, <2>2
<1>4. Image(program) \in Seq(Cell) /\ Len(file) = Len(Image(program))
  BY ImageCells
<1> QED
  BY <1>3, <1>4, SameCells
----------------------------------------------------------------------------
(* Steps that leave the file alone: what one process does is nobody else's *)
(* business, and it can only stop to be a writer.                          *)
LEMMA LocalFrame ==
    ASSUME FileInv, NEW p \in Procs, NEW s \in State, Local(p, s), s.pc # "writing",
           ProcInv(p, s)
    PROVE  FileInv'
<1>1. /\ proc' \in [Procs -> State] /\ proc'[p] = s
      /\ \A q \in Procs : q # p => proc'[q] = proc[q]
      /\ file' = file /\ lastImage' = lastImage /\ mixed' = mixed
  BY DEF FileInv, TypeInv, Local, Become
<1>2. Writers' = Writers \ {p}
  BY <1>1 DEF Writers, At
<1>3. TypeInv'
  BY <1>1 DEF FileInv, TypeInv
<1>4. WriterInv'
  <2>1. ASSUME NEW q \in Writers' PROVE q \in Writers /\ q \in Procs /\ proc'[q] = proc[q]
    BY <1>1, <1>2 DEF Writers
  <2> QED
    BY <1>1, <1>2, <2>1 DEF FileInv, WriterInv, Cut
<1>5. ASSUME NEW q \in Procs PROVE ProcInv(q, proc[q])'
  <2>1. PICK t : t = proc'[q] /\ ProcInv(q, t)
    BY <1>1 DEF FileInv
  <2>2. /\ LocalInv(proc'[q]) /\ AsmInv(q, proc'[q]) /\ LoadInv(proc'[q])
        /\ InfoInv(proc'[q]) /\ TakenInv(proc'[q])
    BY <2>1 DEF ProcInv
  <2>3. LocalInv(proc[q])'
    BY <2>2 DEF LocalInv
  <2>4. AsmInv(q, proc[q])'
    BY <1>1, <1>2, <2>2 DEF AsmInv
  <2>5. LoadInv(proc[q])'
    BY <1>1, <2>2 DEF LoadInv, Decoded, Clean
  <2>6. InfoInv(proc[q])' /\ TakenInv(proc[q])'
    BY <1>1, <2>2 DEF InfoInv, TakenInv, Clean
  <2> QED
    BY <2>3, <2>4, <2>5, <2>6 DEF ProcInv
<1> QED
  BY <1>3, <1>4, <1>5 DEF FileInv

(* What is known of a process. *)
LEMMA ProcType ==
    ASSUME FileInv, NEW p \in Procs
    PROVE  /\ proc[p] \in State /\ LocalInv(proc[p]) /\ AsmInv(p, proc[p])
           /\ LoadInv(proc[p]) /\ InfoInv(proc[p]) /\ TakenInv(proc[p])
           /\ proc[p].program \in Seq(Instruction)
           /\ proc[p].wanted \in Nat /\ proc[p].sent \in Nat
           /\ file \in Seq(Cell) \/ file = Missing
BY DEF FileInv, TypeInv, ProcInv, State

(* A command that ends, and has no success to show. *)
LEMMA EndedInv ==
    ASSUME NEW p, NEW s \in State, s.pc = "idle", ~s.held, s.sent <= Len(Image(s.program)),
           s.status = "OK" => s.cmd \in LoadCommands,
           s.status = "PARSE" /\ s.cmd \in LoadCommands /\ lastImage = Nobody
             /\ file # <<>> /\ file[1].cell = "text" => ~file[1].meaning.ok \/ file[1].magic
    PROVE  ProcInv(p, s)
<1>1. LocalInv(s)
  BY DEF LocalInv, Loading
<1>2. AsmInv(p, s) /\ LoadInv(s) /\ InfoInv(s)
  <2>1. ~(s.status = "OK" /\ s.cmd \in {"asm", "info"})
    BY DEF LoadCommands
  <2>2. s.pc # "writing" /\ s.pc # "records" /\ s.pc # "using"
    OBVIOUS
  <2>3. AsmInv(p, s)
    BY <2>1, <2>2 DEF AsmInv
  <2>4. LoadInv(s)
    BY <2>2 DEF LoadInv
  <2>5. InfoInv(s)
    BY <2>1 DEF InfoInv
  <2> QED
    BY <2>3, <2>4, <2>5
<1>3. TakenInv(s)
  BY DEF TakenInv
<1> QED
  BY <1>1, <1>2, <1>3 DEF ProcInv

(* ... which is how every command that frees its program in the middle ends. *)
LEMMA FreedInv ==
    ASSUME FileInv, NEW p \in Procs, NEW error,
           error \in Verdicts \cup {"IO", "OOM", "FAILED", "killed"},
           error = "OK" => proc[p].cmd \in LoadCommands,
           error = "PARSE" /\ proc[p].cmd \in LoadCommands /\ lastImage = Nobody
             /\ file # <<>> /\ file[1].cell = "text" => ~file[1].meaning.ok \/ file[1].magic
    PROVE  /\ Freed(p, error) \in State /\ Freed(p, error).pc # "writing"
           /\ ProcInv(p, Freed(p, error))
<1> DEFINE s == Freed(p, error)
<1>1. s \in State /\ s.pc = "idle" /\ ~s.held /\ s.status = error
      /\ s.cmd = proc[p].cmd /\ s.sent = proc[p].sent /\ s.program = proc[p].program
  BY ProcType DEF Freed, Returned, State, Places
<1>2. s.sent <= Len(Image(s.program))
  BY <1>1, ProcType DEF LocalInv
<1> HIDE DEF s
<1>3. ProcInv(p, s)
  BY <1>1, <1>2, EndedInv
<1> QED
  BY <1>1, <1>3 DEF s

(* The same for one that has nothing to free. *)
LEMMA ReturnedInv ==
    ASSUME FileInv, NEW p \in Procs, NEW error, error \in {"IO", "OOM", "PARSE"},
           ~proc[p].held,
           error = "PARSE" /\ proc[p].cmd \in LoadCommands /\ lastImage = Nobody
             /\ file # <<>> /\ file[1].cell = "text" => ~file[1].meaning.ok \/ file[1].magic
    PROVE  /\ Returned(p, error) \in State /\ Returned(p, error).pc # "writing"
           /\ ProcInv(p, Returned(p, error))
<1> DEFINE s == Returned(p, error)
<1>1. s \in State /\ s.pc = "idle" /\ ~s.held /\ s.status = error
      /\ s.cmd = proc[p].cmd /\ s.sent = proc[p].sent /\ s.program = proc[p].program
  BY ProcType DEF Returned, State, Places, Verdicts
<1>2. s.sent <= Len(Image(s.program))
  BY <1>1, ProcType DEF LocalInv
<1> HIDE DEF s
<1>3. ProcInv(p, s)
  BY <1>1, <1>2, EndedInv
<1> QED
  BY <1>1, <1>3 DEF s

(* A state of a process in the middle of a command. *)
BegunAs(s, command, place) ==
    /\ s \in State /\ s.pc = place /\ s.cmd = command /\ s.program = <<>>
    /\ s.held = FALSE /\ s.wanted = 0 /\ s.sent = 0 /\ s.via = "none"
    /\ s.status = "none" /\ s.disturbed = FALSE

LEMMA BegunFields ==
    ASSUME FileInv, NEW p \in Procs, Idle(p),
           NEW command \in LoadCommands \cup {"asm", "info"}, NEW place \in Places
    PROVE  BegunAs(Begun(p, command, place), command, place)
<1>1. proc[p].started + 1 \in 0 .. MaxCommands
  BY FilesAssumption, ProcType DEF Idle, State
<1>2. <<>> \in Seq(Instruction)
  OBVIOUS
<1> QED
  BY <1>1, <1>2 DEF Begun, Fresh, State, BegunAs

LEMMA ImageLength ==
    ASSUME NEW program \in Seq(Instruction)
    PROVE  Len(Image(program)) \in Nat /\ 0 <= Len(Image(program))
<1>1. Len(program) \in Nat
  OBVIOUS
<1>2. Len(Image(program)) = Len(program) + 2
  BY ImageCells
<1> QED
  BY <1>1, <1>2

----------------------------------------------------------------------------
(* `waivm asm`. *)
LEMMA AssembleKeeps ==
    ASSUME FileInv, NEW p \in Procs, Assemble(p)
    PROVE  FileInv'
<1> DEFINE b == Begun(p, "asm", "validating")
           f == Begun(p, "asm", "idle")
<1>1. PICK result \in AsmResults :
          Local(p, IF result.ok
                   THEN [b EXCEPT !.program = result.program, !.held = result.program # <<>>]
                   ELSE [f EXCEPT !.status = "PARSE"])
  BY DEF Assemble
<1>2. result.program \in Seq(Instruction)
  BY FilesAssumption, AssembledIsInstruction DEF Meaning
<1>3. /\ b \in State /\ b.pc = "validating" /\ b.cmd = "asm" /\ b.sent = 0 /\ b.status = "none"
      /\ f \in State /\ f.pc = "idle" /\ f.cmd = "asm" /\ f.sent = 0 /\ f.program = <<>>
      /\ f.held = FALSE
  <2>1. Idle(p) /\ "validating" \in Places /\ "idle" \in Places
    BY DEF Assemble, Places
  <2>2. BegunAs(b, "asm", "validating") /\ BegunAs(f, "asm", "idle")
    BY <2>1, BegunFields
  <2> HIDE DEF b, f
  <2> QED
    BY <2>2 DEF BegunAs
<1> HIDE DEF b, f
<1>4. CASE result.ok
  <2> DEFINE s == [b EXCEPT !.program = result.program, !.held = result.program # <<>>]
  <2>1. s \in State /\ s.pc = "validating" /\ s.cmd = "asm" /\ s.sent = 0 /\ s.status = "none"
        /\ s.program \in Seq(Instruction)
    BY <1>2, <1>3 DEF State
  <2>2. Local(p, s)
    BY <1>1, <1>4
  <2> HIDE DEF s
  <2>3. LocalInv(s)
    BY <2>1, ImageLength DEF LocalInv, Loading
  <2>4. AsmInv(p, s) /\ LoadInv(s) /\ InfoInv(s) /\ TakenInv(s)
    BY <2>1 DEF AsmInv, LoadInv, InfoInv, TakenInv
  <2> QED
    BY <2>1, <2>2, <2>3, <2>4, LocalFrame DEF ProcInv
<1>5. CASE ~result.ok
  <2> DEFINE s == [f EXCEPT !.status = "PARSE"]
  <2>1. s \in State /\ s.pc = "idle" /\ s.cmd = "asm" /\ s.sent = 0 /\ s.status = "PARSE"
        /\ s.program \in Seq(Instruction) /\ s.held = FALSE
    BY <1>3 DEF State, Verdicts
  <2>2. Local(p, s)
    BY <1>1, <1>5
  <2> HIDE DEF s
  <2>3. ProcInv(p, s)
    BY <2>1, ImageLength, EndedInv DEF LoadCommands
  <2> QED
    BY <2>1, <2>2, <2>3, LocalFrame
<1> QED
  BY <1>4, <1>5

LEMMA ValidateKeeps ==
    ASSUME FileInv, NEW p \in Procs, Validate(p)
    PROVE  FileInv'
<1> DEFINE error == ValidateProgram(proc[p].program)
<1>1. /\ proc[p].pc = "validating"
      /\ Local(p, IF error = "OK" THEN [proc[p] EXCEPT !.pc = "opening"] ELSE Freed(p, error))
  BY DEF Validate, At
<1>2. proc[p].cmd = "asm" /\ proc[p].status = "none" /\ proc[p].sent = 0
  BY <1>1, ProcType DEF LocalInv
<1>3. CASE error = "OK"
  <2> DEFINE s == [proc[p] EXCEPT !.pc = "opening"]
  <2>1. s \in State /\ s.pc = "opening" /\ s.cmd = "asm" /\ s.sent = 0 /\ s.status = "none"
        /\ s.program = proc[p].program /\ s.program \in Seq(Instruction)
    BY <1>2, ProcType DEF State, Places
  <2>2. Local(p, s)
    BY <1>1, <1>3
  <2> HIDE DEF s
  <2>3. LocalInv(s)
    BY <1>3, <2>1, ImageLength DEF LocalInv, Loading
  <2>4. AsmInv(p, s) /\ LoadInv(s) /\ InfoInv(s) /\ TakenInv(s)
    BY <2>1 DEF AsmInv, LoadInv, InfoInv, TakenInv
  <2> QED
    BY <2>1, <2>2, <2>3, <2>4, LocalFrame DEF ProcInv
<1>4. CASE error # "OK"
  <2>1. error \in Verdicts
    BY VerdictsAre
  <2>2. Local(p, Freed(p, error))
    BY <1>1, <1>4
  <2> HIDE DEF error
  <2> QED
    BY <1>2, <1>4, <2>1, <2>2, FreedInv, LocalFrame DEF LoadCommands
<1> QED
  BY <1>3, <1>4

(* A failed fopen changes no file. *)
LEMMA OpenForWritingFailsKeeps ==
    ASSUME FileInv, NEW p \in Procs, OpenForWritingFails(p)
    PROVE  FileInv'
BY FreedInv, LocalFrame DEF OpenForWritingFails

(* A killed process holds nothing. *)
LEMMA KillKeeps ==
    ASSUME FileInv, NEW p \in Procs, Kill(p)
    PROVE  FileInv'
BY FreedInv, LocalFrame DEF Kill

(* The only success of asm: everything is in the file. *)
LEMMA CloseKeeps ==
    ASSUME FileInv, NEW p \in Procs, Close(p)
    PROVE  FileInv'
<1> DEFINE s == Freed(p, "OK")
<1>1. Local(p, s) /\ proc[p].pc = "writing" /\ ~(proc[p].sent < Len(ImageOf(p)))
  BY DEF Close, Unsent, At
<1>2. /\ s \in State /\ s.pc = "idle" /\ ~s.held /\ s.status = "OK" /\ s.cmd = "asm"
      /\ s.sent = proc[p].sent /\ s.program = proc[p].program /\ s.disturbed = proc[p].disturbed
  BY <1>1, ProcType DEF Freed, Returned, State, Places, Verdicts, LocalInv
<1> HIDE DEF s
<1>3. LocalInv(s)
  BY <1>2, ProcType DEF LocalInv, Loading
<1>4. ASSUME ~s.disturbed
      PROVE  /\ ~mixed /\ Writers \subseteq {p}
             /\ lastImage = Accepted(s.program) /\ file = Image(s.program)
  <2>1. ~mixed /\ lastImage = Accepted(s.program)
    BY <1>1, <1>2, <1>4, ProcType DEF AsmInv
  <2>2. lastImage # Nobody /\ lastImage.program = s.program
    BY <2>1 DEF Accepted, Nobody, Refused
  <2>3. p \in Writers
    BY <1>1 DEF Writers, At
  <2>4. /\ Writers = {p} /\ proc[p].sent = Len(file) /\ file \in Seq(Cell)
        /\ \A i \in 1 .. Len(file) : file[i] = Image(s.program)[i]
    BY <2>1, <2>2, <2>3 DEF FileInv, WriterInv
  <2>5. Len(file) = Len(Image(s.program)) /\ Image(s.program) \in Seq(Cell)
    <3>1. s.program \in Seq(Instruction) /\ proc[p].sent <= Len(Image(s.program))
          /\ proc[p].sent \in Nat
      BY <1>2, ProcType DEF LocalInv
    <3>2. Len(Image(s.program)) \in Nat /\ Image(s.program) \in Seq(Cell)
      BY <3>1, ImageLength, ImageCells
    <3>3. ~(proc[p].sent < Len(Image(s.program)))
      BY <1>1, <1>2 DEF ImageOf
    <3> QED
      BY <2>4, <3>1, <3>2, <3>3
  <2>6. file = Image(s.program)
    BY <2>4, <2>5, SameCells
  <2> QED
    BY <2>1, <2>4, <2>6
<1>5. AsmInv(p, s)
  BY <1>2, <1>4 DEF AsmInv
<1>6. LoadInv(s) /\ InfoInv(s) /\ TakenInv(s)
  BY <1>2 DEF LoadInv, InfoInv, TakenInv
<1> QED
  BY <1>1, <1>2, <1>3, <1>5, <1>6, LocalFrame DEF ProcInv

----------------------------------------------------------------------------
(* Loading.  The instruction a checker names is one it objects to. *)
LEMMA BadIndex ==
    ASSUME NEW program \in Seq(Instruction)
    PROVE  /\ ~AllGood(program, ValidateIns) =>
                ValidateIns(program, program[FirstBad(program, ValidateIns)]) # "OK"
           /\ ~AllGood(program, VerifyIns) =>
                FirstBad(program, VerifyIns) \in 1 .. Len(program)
<1>1. ASSUME ~AllGood(program, ValidateIns)
      PROVE  ValidateIns(program, program[FirstBad(program, ValidateIns)]) # "OK"
  <2> DEFINE Bad == {i \in 1 .. Len(program) : ValidateIns(program, program[i]) # "OK"}
  <2>1. Bad \in SUBSET Nat /\ Bad # {}
    BY <1>1 DEF AllGood
  <2>2. PICK x \in Bad : \A y \in Bad : x <= y
    BY <2>1, LeastExists
  <2>3. \A j \in 1 .. (x - 1) : ValidateIns(program, program[j]) = "OK"
    BY <2>2
  <2> QED
    BY <2>2, <2>3 DEF FirstBad
<1>2. ASSUME ~AllGood(program, VerifyIns)
      PROVE  FirstBad(program, VerifyIns) \in 1 .. Len(program)
  <2> DEFINE Bad == {i \in 1 .. Len(program) : VerifyIns(program, program[i]) # "OK"}
  <2>1. Bad \in SUBSET Nat /\ Bad # {}
    BY <1>2 DEF AllGood
  <2>2. PICK x \in Bad : \A y \in Bad : x <= y
    BY <2>1, LeastExists
  <2>3. \A j \in 1 .. (x - 1) : VerifyIns(program, program[j]) = "OK"
    BY <2>2
  <2> QED
    BY <2>2, <2>3 DEF FirstBad
<1> QED
  BY <1>1, <1>2

(* A program the loader accepts has no instruction it objects to. *)
LEMMA ValidIsGood ==
    ASSUME NEW program \in Seq(Instruction), ValidateProgram(program) = "OK"
    PROVE  AllGood(program, ValidateIns)
BY BadIndex DEF ValidateProgram

(* `verify` finds no parse error in a program that came from a source. *)
LEMMA AssembledParses ==
    ASSUME NEW program \in Seq(Assembled)
    PROVE  VerifyProgram(program).error # "PARSE"
<1>1. CASE AllGood(program, VerifyIns)
  BY <1>1 DEF VerifyProgram
<1>2. CASE ~AllGood(program, VerifyIns)
  <2> DEFINE i == FirstBad(program, VerifyIns)
  <2>1. i \in 1 .. Len(program)
    BY <1>2, AssembledIsInstruction, BadIndex
  <2>2. VerifyProgram(program).error = VerifyIns(program, program[i])
    BY <1>2 DEF VerifyProgram
  <2> HIDE DEF i
  <2>3. program[i] \in Assembled
    BY <2>1
  <2>4. program[i].c = 0
    BY <2>3 DEF Assembled
  <2> QED
    BY <2>2, <2>4 DEF VerifyIns
<1> QED
  BY <1>1, <1>2

(* A missing file is like no other. *)
LEMMA Missed == Len(Missing) = 1 /\ Missing # <<>> /\ Missing[1].cell = "missing"
BY DEF Missing

(* A source is the whole of a file that no process has opened to write. *)
LEMMA SourceAlone ==
    ASSUME FileInv, file # <<>>, file[1].cell = "text"
    PROVE  lastImage = Nobody /\ file \in Seq(Cell) /\ Len(file) = 1
<1>1. file # Missing
  BY Missed
<1>2. file \in Seq(Cell)
  BY <1>1 DEF FileInv, TypeInv
<1>3. 1 \in 1 .. Len(file)
  BY <1>2
<1>4. lastImage = Nobody
  BY <1>3 DEF FileInv, WriterInv
<1>5. file \in InitialFiles
  BY <1>4 DEF FileInv, WriterInv
<1> QED
  BY <1>1, <1>2, <1>3, <1>4, <1>5, FilesAssumption

(* A source that is taken for bytecode begins with the magic. *)
LEMMA MagicSource ==
    ASSUME HasMagic(file), file # <<>>, file[1].cell = "text"
    PROVE  file[1].magic
BY DEF HasMagic, Magic

(* What the header says. *)
LEMMA HeaderRead ==
    ASSUME FileInv, DecodeHeader(file) = "OK"
    PROVE  /\ file \in Seq(Cell) /\ Len(file) >= 2 /\ file[1] = Magic /\ file[2] # Torn
           /\ file[2].count \in Nat /\ file[2] = Header(TRUE, file[2].count)
<1>1. Len(file) >= 2 /\ file[1] = Magic /\ file[2].cell = "header" /\ file[2].fits
  <2>1. ~(Len(file) < 2 \/ file[1] # Magic \/ file[2].cell # "header") /\ file[2].fits
    BY DEF DecodeHeader
  <2>2. Len(file) \in Nat
    BY Missed DEF FileInv, TypeInv
  <2> QED
    BY <2>1, <2>2
<1>2. file \in Seq(Cell)
  BY <1>1, Missed DEF FileInv, TypeInv
<1>3. file[2] \in Cell
  BY <1>1, <1>2
<1>4. file[2] \in [cell : {"header"}, fits : BOOLEAN, count : Nat]
  BY <1>1, <1>3 DEF Cell, Magic, Torn, Zero
<1>5. file[2].count \in Nat /\ file[2].fits = TRUE
  BY <1>1, <1>4
<1>6. file[2] = [cell |-> "header", fits |-> TRUE, count |-> file[2].count]
  BY <1>1, <1>4, <1>5
<1>7. file[2] # Torn
  BY <1>1 DEF Torn
<1> QED
  BY <1>1, <1>2, <1>5, <1>6, <1>7 DEF Header

LEMMA ProbeKeeps ==
    ASSUME FileInv, NEW p \in Procs, Probe(p)
    PROVE  FileInv'
<1>1. PICK command \in LoadCommands :
          Local(p, Begun(p, command, IF HasMagic(file) THEN "bytecode" ELSE "text"))
  BY DEF Probe
<1> DEFINE place == IF HasMagic(file) THEN "bytecode" ELSE "text"
           s == Begun(p, command, place)
<1>2. /\ place \in Places /\ place \in {"bytecode", "text"}
      /\ place = "bytecode" <=> HasMagic(file)
  BY DEF Places
<1>3. Local(p, s)
  BY <1>1
<1> HIDE DEF place
<1>4. BegunAs(s, command, place)
  BY <1>2, BegunFields DEF Probe
<1> HIDE DEF s
<1>5. LocalInv(s)
  BY <1>2, <1>4, ImageLength DEF BegunAs, LocalInv, Loading
<1>6. AsmInv(p, s) /\ LoadInv(s) /\ InfoInv(s) /\ TakenInv(s)
  BY <1>2, <1>4 DEF BegunAs, AsmInv, LoadInv, InfoInv, TakenInv
<1> QED
  BY <1>2, <1>3, <1>4, <1>5, <1>6, LocalFrame DEF BegunAs, ProcInv

LEMMA ReadHeaderKeeps ==
    ASSUME FileInv, NEW p \in Procs, ReadHeader(p)
    PROVE  FileInv'
<1>1. /\ proc[p].pc = "bytecode" /\ ~proc[p].held /\ proc[p].program = <<>>
      /\ proc[p].cmd \in LoadCommands /\ proc[p].status = "none" /\ proc[p].sent = 0
      /\ lastImage = Nobody => HasMagic(file)
  BY ProcType DEF ReadHeader, At, LocalInv, Loading, TakenInv
<1>2. CASE Local(p, Returned(p, "IO"))
  BY <1>1, <1>2, ReturnedInv, LocalFrame
<1>3. CASE Local(p, Returned(p, "OOM"))
  BY <1>1, <1>3, ReturnedInv, LocalFrame
<1>4. CASE DecodeHeader(file) # "OK" /\ Local(p, Returned(p, DecodeHeader(file)))
  <2>1. DecodeHeader(file) \in {"PARSE", "OOM"}
    BY <1>4 DEF DecodeHeader
  <2> QED
    BY <1>1, <1>4, <2>1, MagicSource, ReturnedInv, LocalFrame
<1>5. CASE /\ DecodeHeader(file) = "OK"
           /\ Local(p, [proc[p] EXCEPT !.pc = "records", !.wanted = file[2].count,
                          !.held = file[2].count > 0])
  <2> DEFINE count == file[2].count
             holds == file[2].count > 0
             s == [proc[p] EXCEPT !.pc = "records", !.wanted = count, !.held = holds]
  <2>1. /\ s \in State /\ s.pc = "records" /\ s.cmd = proc[p].cmd /\ s.sent = 0
        /\ s.status = "none" /\ s.program = <<>> /\ s.wanted = file[2].count
        /\ s.program \in Seq(Instruction)
    <3>1. count \in Nat /\ holds \in BOOLEAN
      BY <1>5, HeaderRead
    <3> HIDE DEF count, holds
    <3>2. /\ s \in State /\ s.pc = "records" /\ s.cmd = proc[p].cmd /\ s.sent = 0
          /\ s.status = "none" /\ s.program = <<>> /\ s.wanted = count
          /\ s.program \in Seq(Instruction)
      BY <1>1, <3>1, ProcType DEF State, Places
    <3> QED
      BY <3>2 DEF count
  <2>2. Local(p, s)
    BY <1>5
  <2> HIDE DEF s
  <2>3. LocalInv(s)
    <3>1. s.sent <= Len(Image(s.program)) /\ Len(s.program) <= s.wanted
      <4>1. 0 <= Len(Image(s.program)) /\ Len(s.program) = 0 /\ s.wanted \in Nat
        BY <1>5, <2>1, HeaderRead, ImageLength
      <4> QED
        BY <2>1, <4>1
    <3> QED
      BY <1>1, <2>1, <3>1 DEF LocalInv, Loading
  <2>4. Decoded(s)
    <3>1. Len(file) >= 2 /\ file[1] = Magic /\ file[2] = Header(TRUE, s.wanted)
      BY <1>5, <2>1, HeaderRead
    <3>2. 1 .. Len(s.program) = {}
      BY <2>1
    <3> QED
      BY <3>1, <3>2 DEF Decoded
  <2>5. AsmInv(p, s) /\ LoadInv(s) /\ InfoInv(s) /\ TakenInv(s)
    BY <1>1, <2>1, <2>4 DEF AsmInv, LoadInv, InfoInv, TakenInv
  <2> QED
    BY <2>1, <2>2, <2>3, <2>5, LocalFrame DEF ProcInv
<1> QED
  BY <1>2, <1>3, <1>4, <1>5 DEF ReadHeader

(* What is known while records are read. *)
LEMMA Reading ==
    ASSUME FileInv, NEW p \in Procs, proc[p].pc = "records"
    PROVE  /\ proc[p].cmd \in LoadCommands /\ proc[p].status = "none" /\ proc[p].sent = 0
           /\ Len(proc[p].program) \in Nat /\ Len(proc[p].program) <= proc[p].wanted
           /\ lastImage = Nobody => HasMagic(file)
           /\ Clean(proc[p]) => Decoded(proc[p])
<1>1. Len(proc[p].program) \in Nat
  BY ProcType
<1> QED
  BY <1>1, ProcType DEF LocalInv, Loading, TakenInv, LoadInv

(* A refusal of bytecode says nothing about a source without the magic. *)
LEMMA RecordsRefused ==
    ASSUME FileInv, NEW p \in Procs, proc[p].pc = "records", NEW error \in Verdicts,
           Local(p, Freed(p, error))
    PROVE  FileInv'
<1>1. lastImage = Nobody /\ file # <<>> /\ file[1].cell = "text" => file[1].magic
  BY Reading, MagicSource
<1>2. proc[p].cmd \in LoadCommands
  BY Reading
<1> QED
  BY <1>1, <1>2, FreedInv, LocalFrame

LEMMA ReadRecordKeeps ==
    ASSUME FileInv, NEW p \in Procs, ReadRecord(p)
    PROVE  FileInv'
<1> DEFINE n == Len(proc[p].program)
           c == file[Position(p)]
           s == [proc[p] EXCEPT !.program = Append(proc[p].program, InstructionIn(c))]
<1>1. /\ proc[p].pc = "records" /\ n < proc[p].wanted
      /\ Local(p, IF Short(p) THEN Freed(p, "PARSE") ELSE s)
  BY DEF ReadRecord, At
<1>2. CASE Short(p)
  <2>1. "PARSE" \in Verdicts
    BY DEF Verdicts
  <2> QED
    BY <1>1, <1>2, <2>1, RecordsRefused
<1>3. CASE ~Short(p)
  <2>1. /\ n \in Nat /\ proc[p].wanted \in Nat /\ Position(p) = n + 3
        /\ proc[p].program \in Seq(Instruction)
    BY Reading, ProcType, <1>1 DEF Position
  <2>2. Len(file) \in Nat
    BY Missed, ProcType
  <2>3. Len(file) >= n + 3 /\ c # Torn
    BY <1>3, <2>1, <2>2 DEF Short
  <2>4. file \in Seq(Cell)
    BY <2>1, <2>3, Missed, ProcType
  <2>5. InstructionIn(c) \in Instruction
    <3>1. c \in Cell
      BY <2>1, <2>2, <2>3, <2>4
    <3> QED
      BY <3>1, InstructionInType
  <2> DEFINE t == Append(proc[p].program, InstructionIn(c))
  <2>6. /\ t \in Seq(Instruction) /\ Len(t) = n + 1 /\ t[n + 1] = InstructionIn(c)
        /\ \A k \in 1 .. n : t[k] = proc[p].program[k]
    <3> HIDE DEF c
    <3> QED
      BY <2>1, <2>5
  <2>7. Local(p, s)
    BY <1>1, <1>3
  <2> HIDE DEF t, c
  <2>8. /\ s \in State /\ s.pc = "records" /\ s.cmd = proc[p].cmd /\ s.sent = proc[p].sent
        /\ s.status = proc[p].status /\ s.program = t /\ s.wanted = proc[p].wanted
        /\ s.disturbed = proc[p].disturbed
    BY <1>1, <2>6, ProcType DEF State, t
  <2> HIDE DEF s
  <2>9. LocalInv(s)
    <3>1. s.sent <= Len(Image(s.program)) /\ Len(s.program) <= s.wanted
      <4>1. 0 <= Len(Image(t))
        BY <2>6, ImageLength
      <4>2. Len(t) <= proc[p].wanted
        BY <1>1, <2>1, <2>6
      <4> QED
        BY <1>1, <2>8, <4>1, <4>2, Reading
    <3> QED
      BY <1>1, <2>8, <3>1, Reading DEF LocalInv, Loading
  <2>10. ASSUME Clean(s) PROVE Decoded(s)
    <3>1. Decoded(proc[p])
      BY <1>1, <2>8, <2>10, Reading DEF Clean
    <3>2. ASSUME NEW k \in 1 .. Len(t)
          PROVE  k + 2 <= Len(file) /\ file[k + 2] # Torn /\ t[k] = InstructionIn(file[k + 2])
      <4>1. CASE k = n + 1
        <5>1. k + 2 = n + 3 /\ c = file[k + 2]
          BY <2>1, <4>1 DEF c
        <5> QED
          BY <2>3, <2>6, <4>1, <5>1
      <4>2. CASE k # n + 1
        <5>1. k \in 1 .. n
          BY <2>1, <2>6, <4>2
        <5> QED
          BY <2>6, <3>1, <5>1 DEF Decoded
      <4> QED
        BY <4>1, <4>2
    <3> QED
      BY <2>8, <3>1, <3>2 DEF Decoded
  <2>11. AsmInv(p, s) /\ InfoInv(s)
    BY <1>1, <2>8, Reading DEF AsmInv, InfoInv
  <2>12. LoadInv(s) /\ TakenInv(s)
    BY <1>1, <2>8, <2>10, Reading DEF LoadInv, TakenInv
  <2> QED
    BY <2>7, <2>8, <2>9, <2>11, <2>12, LocalFrame DEF ProcInv
<1> QED
  BY <1>2, <1>3

(* The end of the file: what was read is the file, when it was whole. *)
LEMMA ReadEndKeeps ==
    ASSUME FileInv, NEW p \in Procs, ReadEnd(p)
    PROVE  FileInv'
<1> DEFINE n == Len(proc[p].program)
           error == ValidateProgram(proc[p].program)
           s == [proc[p] EXCEPT !.pc = "using", !.via = "bytecode"]
<1>1. /\ proc[p].pc = "records" /\ n = proc[p].wanted
      /\ Local(p, IF Trailing(p) THEN Freed(p, "PARSE")
                  ELSE IF error # "OK" THEN Freed(p, error) ELSE s)
  BY DEF ReadEnd, At, TrailingError
<1>2. error \in Verdicts /\ "PARSE" \in Verdicts
  BY VerdictsAre DEF Verdicts
<1>3. CASE Trailing(p) \/ error # "OK"
  <2> HIDE DEF error
  <2> QED
    BY <1>1, <1>2, <1>3, RecordsRefused
<1>4. CASE ~Trailing(p) /\ error = "OK"
  <2>1. Local(p, s)
    BY <1>1, <1>4
  <2>2. /\ s \in State /\ s.pc = "using" /\ s.cmd = proc[p].cmd /\ s.sent = proc[p].sent
        /\ s.status = proc[p].status /\ s.program = proc[p].program /\ s.via = "bytecode"
        /\ s.disturbed = proc[p].disturbed
    BY <1>1, ProcType DEF State, Places
  <2> HIDE DEF s
  <2>3. LocalInv(s)
    BY <1>1, <2>2, Reading, ProcType DEF LocalInv, Loading
  <2>4. ASSUME Clean(s) PROVE file = Image(s.program)
    <3>1. Decoded(proc[p])
      BY <1>1, <2>2, <2>4, Reading DEF Clean
    <3>2. n \in Nat /\ proc[p].program \in Seq(Instruction) /\ AllGood(proc[p].program, ValidateIns)
      BY <1>1, <1>4, Reading, ProcType, ValidIsGood
    <3>3. Len(file) >= 2 /\ file[1] = Magic /\ file[2] = Header(TRUE, n)
      BY <1>1, <3>1 DEF Decoded
    <3>4. file \in Seq(Cell) /\ Len(file) \in Nat
      <4>1. ~(1 >= 2)
        OBVIOUS
      <4>2. file # Missing
        BY ONLY <3>3, <4>1, Missed
      <4>3. file \in Seq(Cell)
        BY <4>2, ProcType
      <4> QED
        BY <4>3
    <3>5. Len(file) >= n + 2
      <4>1. CASE n = 0
        BY <3>3, <4>1
      <4>2. CASE n # 0
        <5>1. n \in 1 .. n
          BY <3>2, <4>2
        <5> QED
          BY <3>1, <5>1 DEF Decoded
      <4> QED
        BY <4>1, <4>2
    <3>6. Len(file) < n + 3
      BY <1>4, <3>2, <3>4 DEF Trailing, Position
    <3>7. Len(file) = n + 2
      BY <3>2, <3>4, <3>5, <3>6
    <3>8. \A k \in 1 .. n : proc[p].program[k] = InstructionIn(file[k + 2])
      BY <3>1 DEF Decoded
    <3> QED
      BY <2>2, <3>2, <3>3, <3>4, <3>7, <3>8, AllRecords
  <2>5. AsmInv(p, s) /\ LoadInv(s) /\ InfoInv(s) /\ TakenInv(s)
    BY <1>1, <2>2, <2>4, Reading DEF AsmInv, LoadInv, InfoInv, TakenInv
  <2> QED
    BY <2>1, <2>2, <2>3, <2>5, LocalFrame DEF ProcInv
<1> QED
  BY <1>3, <1>4

(* The first cells of a file. *)
LEMMA Prefix ==
    ASSUME NEW S, NEW s \in Seq(S), NEW n \in Nat, n <= Len(s)
    PROVE  /\ n = 0 => SubSeq(s, 1, n) = <<>>
           /\ n # 0 => SubSeq(s, 1, n) # <<>> /\ Head(SubSeq(s, 1, n)) = s[1] /\ s[1] \in S
<1>1. SubSeq(s, 1, n) \in Seq(S) /\ Len(SubSeq(s, 1, n)) = n
  OBVIOUS
<1>2. ASSUME n = 0 PROVE SubSeq(s, 1, n) = <<>>
  BY <1>1, <1>2
<1>3. ASSUME n # 0 PROVE SubSeq(s, 1, n) # <<>> /\ SubSeq(s, 1, n)[1] = s[1] /\ s[1] \in S
  BY <1>1, <1>3
<1> QED
  BY <1>1, <1>2, <1>3

LEMMA MeasureTextKeeps ==
    ASSUME FileInv, NEW p \in Procs, MeasureText(p)
    PROVE  FileInv'
<1>1. /\ proc[p].pc = "text" /\ ~proc[p].held /\ proc[p].program = <<>>
      /\ proc[p].cmd \in LoadCommands /\ proc[p].status = "none" /\ proc[p].sent = 0
      /\ lastImage = Nobody => ~HasMagic(file)
  BY ProcType DEF MeasureText, At, LocalInv, Loading, TakenInv
<1>2. CASE Local(p, Returned(p, "IO"))
  BY <1>1, <1>2, ReturnedInv, LocalFrame
<1>3. CASE Local(p, [proc[p] EXCEPT !.pc = "reading", !.wanted = Len(file)])
  <2> DEFINE s == [proc[p] EXCEPT !.pc = "reading", !.wanted = Len(file)]
  <2>1. Len(file) \in Nat
    BY Missed, ProcType
  <2>2. /\ s \in State /\ s.pc = "reading" /\ s.cmd = proc[p].cmd /\ s.sent = 0
        /\ s.status = "none" /\ s.program = <<>> /\ s.held = proc[p].held
        /\ s.program \in Seq(Instruction)
    BY <1>1, <2>1, ProcType DEF State, Places
  <2>3. Local(p, s)
    BY <1>3
  <2> HIDE DEF s
  <2>4. LocalInv(s)
    BY <1>1, <2>2, ImageLength DEF LocalInv, Loading
  <2>5. AsmInv(p, s) /\ LoadInv(s) /\ InfoInv(s) /\ TakenInv(s)
    BY <1>1, <2>2 DEF AsmInv, LoadInv, InfoInv, TakenInv
  <2> QED
    BY <2>2, <2>3, <2>4, <2>5, LocalFrame DEF ProcInv
<1> QED
  BY <1>2, <1>3 DEF MeasureText

(* What the text that was read means: nothing but a source means a program. *)
LEMMA TextMeaning ==
    ASSUME FileInv, NEW n \in Nat, n <= Len(file), NEW meaning,
           meaning = AssembledText(SubSeq(file, 1, n))
    PROVE  /\ n = 0 => meaning = Accepted(<<>>)
           /\ n # 0 /\ file[1].cell = "text" => meaning = file[1].meaning /\ meaning \in Meaning
           /\ n # 0 /\ file[1].cell # "text" => meaning \in {Accepted(<<>>), Refused}
<1>1. \E S : file \in Seq(S)
  <2>1. Missing \in Seq({Missing[1]})
    BY DEF Missing
  <2> QED
    BY <2>1 DEF FileInv, TypeInv
<1>2. /\ n = 0 => SubSeq(file, 1, n) = <<>>
      /\ n # 0 => SubSeq(file, 1, n) # <<>> /\ Head(SubSeq(file, 1, n)) = file[1]
  BY <1>1, Prefix
<1>3. CASE n = 0
  BY <1>2, <1>3 DEF AssembledText
<1>4. CASE n # 0 /\ file[1].cell = "text"
  <2>1. file[1] # Zero /\ file # Missing
    BY <1>4, Missed DEF Zero
  <2>2. meaning = file[1].meaning
    BY <1>2, <1>4, <2>1 DEF AssembledText
  <2>3. file \in Seq(Cell)
    BY <2>1 DEF FileInv, TypeInv
  <2>4. file[1] \in Cell
    BY <1>4, <2>3
  <2>5. file[1].meaning \in Meaning
    BY <1>4, <2>4 DEF Cell, Magic, Torn, Zero
  <2> QED
    BY <1>4, <2>2, <2>5
<1>5. CASE n # 0 /\ file[1].cell # "text"
  BY <1>2, <1>5 DEF AssembledText
<1> QED
  BY <1>3, <1>4, <1>5

LEMMA AssembleTextKeeps ==
    ASSUME FileInv, NEW p \in Procs, AssembleText(p)
    PROVE  FileInv'
<1> DEFINE n == proc[p].wanted
           meaning == AssembledText(SubSeq(file, 1, n))
           holds == meaning.program # <<>>
           s == [proc[p] EXCEPT !.pc = "using", !.via = "text", !.program = meaning.program,
                   !.held = holds]
<1>1. /\ proc[p].pc = "reading" /\ ~proc[p].held /\ proc[p].program = <<>>
      /\ proc[p].cmd \in LoadCommands /\ proc[p].status = "none" /\ proc[p].sent = 0
      /\ lastImage = Nobody => ~HasMagic(file)
      /\ n \in Nat /\ Len(file) \in Nat
  BY Missed, ProcType DEF AssembleText, At, LocalInv, Loading, TakenInv
<1>2. Local(p, IF Len(file) < n THEN Returned(p, "IO")
               ELSE IF ~meaning.ok THEN Returned(p, "PARSE") ELSE s)
  BY DEF AssembleText
<1>3. CASE Len(file) < n
  BY <1>1, <1>2, <1>3, ReturnedInv, LocalFrame
<1> HIDE DEF meaning
<1>4. ASSUME ~(Len(file) < n)
      PROVE  /\ n = 0 => meaning = Accepted(<<>>)
             /\ n # 0 /\ file[1].cell = "text" => meaning = file[1].meaning /\ meaning \in Meaning
             /\ n # 0 /\ file[1].cell # "text" => meaning \in {Accepted(<<>>), Refused}
  BY <1>1, <1>4, TextMeaning DEF meaning
<1>5. CASE ~(Len(file) < n) /\ ~meaning.ok
  <2>1. n # 0
    BY <1>4, <1>5 DEF Accepted
  <2>2. file[1].cell = "text" => ~file[1].meaning.ok
    BY <1>4, <1>5, <2>1
  <2>3. Local(p, Returned(p, "PARSE"))
    BY <1>2, <1>5
  <2> QED
    BY <1>1, <2>2, <2>3, ReturnedInv, LocalFrame
<1>6. CASE ~(Len(file) < n) /\ meaning.ok
  <2>1. \/ meaning = Accepted(<<>>)
        \/ n # 0 /\ file[1].cell = "text" /\ meaning = file[1].meaning /\ meaning \in Meaning
    <3>1. meaning # Refused
      BY <1>6 DEF Refused
    <3> HIDE DEF n
    <3>2. CASE n = 0
      BY <1>4, <1>6, <3>2
    <3>3. CASE n # 0 /\ file[1].cell = "text"
      BY <1>4, <1>6, <3>3
    <3>4. CASE n # 0 /\ file[1].cell # "text"
      BY <1>4, <1>6, <3>1, <3>4
    <3> QED
      BY <3>2, <3>3, <3>4
  <2>2. meaning.program \in Seq(Assembled)
    <3>1. <<>> \in Seq(Assembled) /\ Accepted(<<>>).program = <<>>
      BY DEF Accepted
    <3>2. \A m \in Meaning : m.program \in Seq(Assembled)
      BY DEF Meaning
    <3> QED
      BY <2>1, <3>1, <3>2
  <2>3. meaning.program \in Seq(Instruction) /\ holds \in BOOLEAN
    BY <2>2, AssembledIsInstruction
  <2>4. Local(p, s)
    BY <1>2, <1>6
  <2> DEFINE program == meaning.program
  <2> HIDE DEF holds, program
  <2>5. /\ s \in State /\ s.pc = "using" /\ s.cmd = proc[p].cmd /\ s.sent = 0
        /\ s.status = "none" /\ s.program = program /\ s.via = "text"
        /\ s.program \in Seq(Assembled) /\ s.program \in Seq(Instruction)
    BY <1>1, <2>2, <2>3, ProcType DEF State, Places, program
  <2> HIDE DEF s
  <2>6. LocalInv(s)
    BY <1>1, <2>5, ImageLength DEF LocalInv, Loading
  <2>7. \/ s.program = <<>>
        \/ Len(file) = 1 /\ file[1] = Source(Accepted(s.program), FALSE)
    <3>1. CASE meaning = Accepted(<<>>)
      BY <2>5, <3>1 DEF program, Accepted
    <3>2. CASE n # 0 /\ file[1].cell = "text" /\ meaning = file[1].meaning /\ meaning \in Meaning
      <4>1. file # <<>>
        BY <1>1, <1>6, <3>2
      <4>2. lastImage = Nobody /\ file \in Seq(Cell) /\ Len(file) = 1
        BY <3>2, <4>1, SourceAlone
      <4>3. file[1] \in Cell /\ ~file[1].magic
        BY <1>1, <3>2, <4>1, <4>2 DEF HasMagic
      <4>4. file[1] \in [cell : {"text"}, meaning : Meaning, magic : BOOLEAN]
        BY <3>2, <4>3 DEF Cell, Magic, Torn, Zero
      <4>5. file[1] = Source(meaning, FALSE)
        BY <3>2, <4>3, <4>4 DEF Source
      <4>6. meaning = Accepted(meaning.program)
        BY <1>6, <3>2 DEF Accepted, Meaning
      <4> QED
        BY <2>5, <4>2, <4>5, <4>6 DEF program
    <3> QED
      BY <2>1, <3>1, <3>2
  <2>8. AsmInv(p, s) /\ LoadInv(s) /\ InfoInv(s) /\ TakenInv(s)
    BY <1>1, <2>5, <2>7 DEF AsmInv, LoadInv, InfoInv, TakenInv
  <2> QED
    BY <2>4, <2>5, <2>6, <2>8, LocalFrame DEF ProcInv
<1> QED
  BY <1>3, <1>5, <1>6

LEMMA UseKeeps ==
    ASSUME FileInv, NEW p \in Procs, Use(p)
    PROVE  FileInv'
<1>1. PICK error \in UseErrors(p) : Local(p, Freed(p, error))
  BY DEF Use
<1>2. /\ proc[p].pc = "using" /\ proc[p].cmd \in LoadCommands
      /\ proc[p].via \in {"bytecode", "text"} /\ proc[p].program \in Seq(Instruction)
  BY ProcType DEF Use, At, LocalInv, Loading, State
<1>3. error \in {"OK", "FAILED"} \/ error = VerifyProgram(proc[p].program).error
  BY DEF UseErrors
<1>4. error \in Verdicts \cup {"FAILED"}
  BY <1>3, VerdictsAre DEF Verdicts
<1>5. ASSUME error = "PARSE", lastImage = Nobody, file # <<>>, file[1].cell = "text"
      PROVE  file[1].magic
  <2>1. proc[p].via # "text"
    BY <1>2, <1>3, <1>5, AssembledParses, ProcType DEF LocalInv
  <2>2. HasMagic(file)
    BY <1>2, <1>5, <2>1, ProcType DEF TakenInv
  <2> QED
    BY <1>5, <2>2, MagicSource
<1> QED
  BY <1>1, <1>2, <1>4, <1>5, FreedInv, LocalFrame


(* `waivm info`: the header it reads is that of the program being written. *)
LEMMA CutHeader ==
    ASSUME FileInv, DecodeHeader(file) = "OK", lastImage # Nobody, ~mixed
    PROVE  file[2].count = Len(lastImage.program)
<1>1. /\ lastImage.program \in Seq(Instruction) /\ Cut(lastImage.program)
      /\ file \in Seq(Cell)
  BY DEF FileInv, TypeInv, WriterInv
<1>2. Len(file) >= 2 /\ file[2] # Torn /\ file[2] = Header(TRUE, file[2].count)
  BY HeaderRead
<1>3. 2 \in 1 .. Len(file)
  BY <1>1, <1>2
<1>4. file[2] \in {Image(lastImage.program)[2], Torn}
  BY <1>1, <1>3 DEF Cut
<1>5. file[2] = Header(TRUE, Len(lastImage.program))
  BY <1>1, <1>2, <1>4, ImageCells
<1> QED
  BY <1>5 DEF Header

LEMMA InfoKeeps ==
    ASSUME FileInv, NEW p \in Procs, Info(p)
    PROVE  FileInv'
<1> DEFINE b == Begun(p, "info", "idle")
           error == DecodeHeader(file)
<1>1. \/ Local(p, [b EXCEPT !.status = "IO"])
      \/ Local(p, IF error = "OK" THEN [b EXCEPT !.status = "OK", !.wanted = file[2].count]
                  ELSE [b EXCEPT !.status = error])
  BY DEF Info
<1>2. BegunAs(b, "info", "idle")
  BY BegunFields DEF Info, Places
<1> HIDE DEF b
<1>3. ASSUME NEW e \in {"IO", "OOM", "PARSE"}, Local(p, [b EXCEPT !.status = e])
      PROVE  FileInv'
  <2> DEFINE s == [b EXCEPT !.status = e]
  <2>1. s \in State /\ s.pc = "idle" /\ s.cmd = "info" /\ s.sent = 0 /\ s.status = e
        /\ s.program = <<>> /\ s.held = FALSE
    BY <1>2 DEF BegunAs, State, Verdicts
  <2>2. Local(p, s)
    BY <1>3
  <2> HIDE DEF s
  <2>3. 0 <= Len(Image(s.program))
    BY <2>1, ImageLength
  <2>4. ProcInv(p, s)
    BY <2>1, <2>3, EndedInv DEF LoadCommands
  <2> QED
    BY <2>1, <2>2, <2>4, LocalFrame
<1>4. ASSUME error = "OK", Local(p, [b EXCEPT !.status = "OK", !.wanted = file[2].count])
      PROVE  FileInv'
  <2> DEFINE count == file[2].count
             s == [b EXCEPT !.status = "OK", !.wanted = count]
  <2>1. count \in Nat
    BY <1>4, HeaderRead
  <2>2. Local(p, s)
    BY <1>4
  <2>3. lastImage # Nobody /\ ~mixed => count = Len(lastImage.program)
    BY <1>4, CutHeader
  <2> HIDE DEF count
  <2>4. s \in State /\ s.pc = "idle" /\ s.cmd = "info" /\ s.sent = 0 /\ s.status = "OK"
        /\ s.program = <<>> /\ s.held = FALSE /\ s.wanted = count
    BY <1>2, <2>1 DEF BegunAs, State, Verdicts
  <2> HIDE DEF s
  <2>5. 0 <= Len(Image(s.program))
    BY <2>4, ImageLength
  <2>6. LocalInv(s)
    BY <2>4, <2>5 DEF LocalInv, Loading
  <2>7. AsmInv(p, s) /\ LoadInv(s) /\ InfoInv(s) /\ TakenInv(s)
    BY <2>3, <2>4 DEF AsmInv, LoadInv, InfoInv, TakenInv, Clean, LoadCommands
  <2> QED
    BY <2>2, <2>4, <2>6, <2>7, LocalFrame DEF ProcInv
<1>5. error \in {"OK", "PARSE", "OOM"}
  BY DEF DecodeHeader
<1> HIDE DEF error
<1> QED
  BY <1>1, <1>3, <1>4, <1>5

----------------------------------------------------------------------------
(* Opening the file to write disturbs everybody else. *)
LEMMA OpenForWritingKeeps ==
    ASSUME FileInv, NEW p \in Procs, OpenForWriting(p)
    PROVE  FileInv'
<1>1. /\ proc[p].pc = "opening" /\ file' = <<>> /\ lastImage' = Accepted(proc[p].program)
      /\ mixed' = (Writers # {})
      /\ proc' = [q \in Procs |->
                    IF q = p THEN [proc[p] EXCEPT !.pc = "writing", !.disturbed = mixed']
                    ELSE [proc[q] EXCEPT !.disturbed = TRUE]]
  BY DEF OpenForWriting, At
<1>2. /\ proc[p].cmd = "asm" /\ proc[p].status = "none" /\ proc[p].sent = 0
      /\ ValidateProgram(proc[p].program) = "OK" /\ proc[p].program \in Seq(Instruction)
  BY <1>1, ProcType DEF LocalInv
<1>3. lastImage' # Nobody /\ lastImage'.program = proc[p].program /\ mixed' \in BOOLEAN
  BY <1>1 DEF Accepted, Nobody, Refused
<1> DEFINE w == [proc[p] EXCEPT !.pc = "writing", !.disturbed = mixed']
<1>4. /\ proc'[p] = w /\ w \in State /\ w.pc = "writing" /\ w.cmd = "asm" /\ w.status = "none"
      /\ w.sent = 0 /\ w.program = proc[p].program /\ w.disturbed = mixed'
  BY <1>1, <1>2, <1>3, ProcType DEF State, Places
<1>5. ASSUME NEW q \in Procs, q # p
      PROVE  /\ proc'[q] = [proc[q] EXCEPT !.disturbed = TRUE] /\ proc'[q] \in State
             /\ proc'[q].pc = proc[q].pc /\ proc'[q].disturbed = TRUE
  BY <1>1, <1>5, ProcType DEF State
<1> HIDE DEF w
<1>6. TypeInv'
  <2>1. proc' \in [Procs -> State]
    <3>1. \A q \in Procs : proc'[q] \in State
      BY <1>4, <1>5
    <3>2. proc' = [q \in Procs |-> proc'[q]]
      BY <1>1
    <3> QED
      BY <3>1, <3>2
  <2>2. <<>> \in Seq(Cell)
    OBVIOUS
  <2>3. /\ lastImage' \in [ok : BOOLEAN, program : Seq(Instruction)]
        /\ lastImage' = Nobody <=> ~lastImage'.ok
    BY <1>1, <1>2 DEF Accepted, Nobody, Refused
  <2> QED
    BY <1>1, <1>3, <2>1, <2>2, <2>3 DEF TypeInv
<1>7. WriterInv'
  <2>1. file' \in Seq(Cell) /\ Len(file') = 0 /\ 1 .. Len(file') = {}
    <3>1. <<>> \in Seq(Cell) /\ Len(<<>>) = 0 /\ 1 .. 0 = {}
      OBVIOUS
    <3> QED
      BY <1>1, <3>1
  <2>2. ASSUME ~mixed', NEW q \in Writers' PROVE q = p
    <3>1. q \in Procs /\ proc'[q].pc = "writing" /\ Writers = {}
      BY <1>1, <2>2 DEF Writers, At
    <3> QED
      BY <1>5, <3>1 DEF Writers, At
  <2>3. p \in Writers'
    BY <1>4 DEF Writers, At
  <2>4. ~mixed' => Writers' = {p}
    BY <2>2, <2>3
  <2>5. Cut(lastImage.program)'
    BY <2>1 DEF Cut
  <2> QED
    BY <1>3, <1>4, <2>1, <2>4, <2>5 DEF WriterInv
<1>8. ASSUME NEW q \in Procs PROVE ProcInv(q, proc[q])'
  <2>1. CASE q = p
    <3>1. 0 <= Len(Image(w.program))
      BY <1>2, <1>4, ImageLength
    <3>2. LocalInv(proc[q])'
      BY <1>2, <1>4, <2>1, <3>1 DEF LocalInv, Loading
    <3>3. AsmInv(q, proc[q])' /\ LoadInv(proc[q])' /\ InfoInv(proc[q])' /\ TakenInv(proc[q])'
      BY <1>1, <1>3, <1>4, <2>1 DEF AsmInv, LoadInv, InfoInv, TakenInv
    <3> QED
      BY <3>2, <3>3 DEF ProcInv
  <2>2. CASE q # p
    <3>1. LocalInv(proc[q])'
      <4>1. proc'[q] = [proc[q] EXCEPT !.disturbed = TRUE] /\ proc[q] \in State
            /\ LocalInv(proc[q])
        BY <1>5, <2>2, ProcType
      <4> QED
        BY <4>1 DEF LocalInv, State
    <3>2. proc'[q].disturbed = TRUE
      BY <1>5, <2>2
    <3>3. AsmInv(q, proc[q])' /\ LoadInv(proc[q])' /\ InfoInv(proc[q])' /\ TakenInv(proc[q])'
      BY <1>3, <3>2 DEF AsmInv, LoadInv, InfoInv, TakenInv, Clean
    <3> QED
      BY <3>1, <3>3 DEF ProcInv
  <2> QED
    BY <2>1, <2>2
<1> QED
  BY <1>6, <1>7, <1>8 DEF FileInv

(* A file that only grows takes nothing from those who are reading it; one *)
(* that is being written is no whole image yet.                            *)
LEMMA GrowingLoads ==
    ASSUME FileInv, NEW p \in Procs, Unsent(p), mixed' = mixed,
           ~mixed => /\ Len(file') \in Nat /\ Len(file') >= Len(file)
                     /\ \A i \in 1 .. Len(file) : file'[i] = file[i],
           NEW s \in State, LoadInv(s)
    PROVE  LoadInv(s)'
<1>1. p \in Writers /\ lastImage # Nobody /\ file \in Seq(Cell) /\ Len(file) \in Nat
  BY DEF Unsent, Writers, FileInv, WriterInv
<1>2. ASSUME s.pc = "records", ~s.disturbed, ~mixed PROVE Decoded(s)'
  <2>1. Decoded(s)
    BY <1>2 DEF LoadInv, Clean
  <2>2. \A i \in 1 .. Len(file) : file'[i] = file[i]
    BY <1>2
  <2>3. Len(file') \in Nat /\ Len(file') >= Len(file)
    BY <1>2
  <2>4. /\ Len(file') >= 2 /\ file'[1] = Magic /\ file'[2] = Header(TRUE, s.wanted)
    <3>1. Len(file) >= 2 /\ file[1] = Magic /\ file[2] = Header(TRUE, s.wanted)
      BY <2>1 DEF Decoded
    <3>2. 1 \in 1 .. Len(file) /\ 2 \in 1 .. Len(file) /\ Len(file') >= 2
      BY <1>1, <2>3, <3>1
    <3> QED
      BY <2>2, <3>1, <3>2
  <2>5. ASSUME NEW k \in 1 .. Len(s.program)
        PROVE  /\ k + 2 <= Len(file') /\ file'[k + 2] # Torn
               /\ s.program[k] = InstructionIn(file'[k + 2])
    <3>1. /\ k + 2 <= Len(file) /\ file[k + 2] # Torn
          /\ s.program[k] = InstructionIn(file[k + 2])
      BY <2>1 DEF Decoded
    <3>2. k + 2 \in 1 .. Len(file) /\ k + 2 <= Len(file')
      BY <1>1, <2>3, <3>1
    <3> QED
      BY <2>2, <3>1, <3>2
  <2> QED
    BY <2>4, <2>5 DEF Decoded
<1>3. ASSUME ~mixed PROVE \A program \in Seq(Instruction) : file # Image(program)
  <2> SUFFICES ASSUME NEW program \in Seq(Instruction), file = Image(program) PROVE FALSE
    OBVIOUS
  <2>1. /\ proc[p].program = lastImage.program /\ proc[p].sent = Len(file)
        /\ \A i \in 1 .. Len(file) : file[i] = Image(lastImage.program)[i]
    BY <1>1, <1>3 DEF FileInv, WriterInv
  <2>2. Len(file) = Len(program) + 2 /\ file[2] = Header(TRUE, Len(program))
    BY ImageCells
  <2>3. 2 \in 1 .. Len(file)
    BY <1>1, <2>2, ImageLength
  <2>4. file[2] = Header(TRUE, Len(lastImage.program))
    BY <2>1, <2>3, ProcType, ImageCells
  <2>5. Len(program) = Len(lastImage.program)
    BY <2>2, <2>4 DEF Header
  <2>6. Len(file) = Len(ImageOf(p))
    BY <2>1, <2>2, <2>5, ProcType, ImageCells DEF ImageOf
  <2> QED
    BY <1>1, <2>1, <2>6 DEF Unsent
<1>4. ASSUME Len(file) = 1, file[1] = Source(Accepted(s.program), FALSE) PROVE FALSE
  <2>1. file[1].cell = "text" /\ 1 \in 1 .. Len(file)
    BY <1>4 DEF Source
  <2> QED
    BY <1>1, <2>1 DEF FileInv, WriterInv
<1>5. ~(s.pc = "using" /\ Clean(s) /\ s.via = "bytecode")
  BY <1>3 DEF LoadInv, Clean, State
<1>6. s.pc = "using" /\ Clean(s) /\ s.via = "text" => s.program = <<>>
  BY <1>4 DEF LoadInv
<1> QED
  BY <1>2, <1>5, <1>6 DEF LoadInv, Clean

(* What a write leaves of the others. *)
LEMMA GrowingFrame ==
    ASSUME FileInv, NEW p \in Procs, Unsent(p), mixed' = mixed, lastImage' = lastImage,
           Writers' \subseteq Writers,
           ~mixed => /\ Len(file') \in Nat /\ Len(file') >= Len(file)
                     /\ \A i \in 1 .. Len(file) : file'[i] = file[i],
           NEW q \in Procs, q # p, proc'[q] = proc[q]
    PROVE  ProcInv(q, proc[q])'
<1>1. p \in Writers /\ lastImage # Nobody
  BY DEF Unsent, Writers, FileInv, WriterInv
<1>2. PICK s \in State : s = proc[q] /\ proc'[q] = s
  BY ProcType
<1>3. LocalInv(s) /\ AsmInv(q, s) /\ LoadInv(s) /\ InfoInv(s)
  BY <1>2, ProcType
<1>4. LoadInv(s)'
  BY <1>3, GrowingLoads
<1>5. LocalInv(s)'
  BY <1>3
<1>6. AsmInv(q, s)'
  BY <1>1, <1>3 DEF AsmInv
<1>7. InfoInv(s)' /\ TakenInv(s)'
  BY <1>1, <1>3 DEF InfoInv, TakenInv, Clean
<1>8. ProcInv(q, s)'
  BY <1>4, <1>5, <1>6, <1>7 DEF ProcInv
<1>9. proc[q]' = s
  BY <1>2
<1> QED
  BY <1>8, <1>9

(* The larger of two lengths. *)
LEMMA Greater ==
    ASSUME NEW m \in Nat, NEW n \in Nat
    PROVE  /\ Max({m, n}) \in {m, n} /\ Max({m, n}) >= m /\ Max({m, n}) >= n
<1>1. \E x \in {m, n} : \A y \in {m, n} : x >= y
  <2>1. CASE m >= n
    BY <2>1
  <2>2. CASE n >= m
    BY <2>2
  <2> QED
    BY <2>1, <2>2
<1> QED
  BY <1>1 DEF Max

LEMMA WriteCellKeeps ==
    ASSUME FileInv, NEW p \in Procs, WriteCell(p)
    PROVE  FileInv'
<1> DEFINE n == proc[p].sent + 1
           m == Max({n, Len(file)})
           image == Image(proc[p].program)
           s == [proc[p] EXCEPT !.sent = n]
<1>1. /\ Unsent(p) /\ proc[p].pc = "writing" /\ proc[p].sent < Len(image)
      /\ file' = [i \in 1 .. m |-> IF i = n THEN image[n]
                                   ELSE IF i <= Len(file) THEN file[i] ELSE Zero]
      /\ proc' = [proc EXCEPT ![p] = s]
      /\ lastImage' = lastImage /\ mixed' = mixed
  BY DEF WriteCell, Unsent, At, ImageOf, Become
<1>2. /\ p \in Writers /\ lastImage # Nobody /\ file \in Seq(Cell) /\ Len(file) \in Nat
      /\ \A i \in 1 .. Len(file) : file[i].cell # "text"
  BY <1>1 DEF Writers, At, FileInv, WriterInv
<1>3. /\ proc[p].program \in Seq(Instruction) /\ proc[p].sent \in Nat
      /\ image \in Seq(Cell) /\ Len(image) \in Nat
      /\ \A i \in 1 .. Len(image) : image[i].cell # "text" /\ image[i] # Torn
  <2>1. proc[p].program \in Seq(Instruction) /\ proc[p].sent \in Nat
    BY ProcType
  <2>2. /\ image \in Seq(Cell)
        /\ \A i \in 1 .. Len(image) : image[i].cell # "text" /\ image[i] # Torn
    BY <2>1, ImageCells
  <2> QED
    BY <2>1, <2>2, ImageLength
<1>4. n \in 1 .. Len(image) /\ n \in Nat
  BY <1>1, <1>3
<1>5. m \in Nat /\ m >= n /\ m >= Len(file) /\ m \in {n, Len(file)}
  BY <1>2, <1>4, Greater
<1>6. s \in State /\ s.pc = "writing" /\ s.sent = n /\ s.program = proc[p].program
      /\ s.cmd = "asm" /\ s.status = "none" /\ s.disturbed = proc[p].disturbed
      /\ ValidateProgram(s.program) = "OK"
  BY <1>1, <1>4, ProcType DEF State, LocalInv
<1>7. /\ proc' \in [Procs -> State] /\ proc'[p] = s
      /\ \A q \in Procs : q # p => proc'[q] = proc[q]
  BY <1>1, <1>6 DEF FileInv, TypeInv
<1>8. Writers' = Writers
  BY <1>1, <1>6, <1>7 DEF Writers, At
<1> HIDE DEF s, m, image
<1>9. /\ file' \in Seq(Cell) /\ Len(file') = m
      /\ \A i \in 1 .. Len(file') : file'[i].cell # "text"
  <2>1. ASSUME NEW i \in 1 .. m
        PROVE  file'[i] \in Cell /\ file'[i].cell # "text"
    <3>1. CASE i = n
      BY <1>1, <1>3, <1>4, <3>1
    <3>2. CASE i # n /\ i <= Len(file)
      <4>1. i \in 1 .. Len(file)
        BY <1>2, <1>5, <3>2
      <4> QED
        BY <1>1, <1>2, <3>2, <4>1
    <3>3. CASE i # n /\ ~(i <= Len(file))
      BY <1>1, <3>3 DEF Zero, Cell
    <3> QED
      BY <3>1, <3>2, <3>3
  <2>2. file' = [i \in 1 .. m |-> file'[i]]
    BY <1>1
  <2>3. file' \in Seq(Cell) /\ Len(file') = m
    BY <1>5, <2>1, <2>2
  <2> QED
    BY <2>1, <2>3
<1>10. ASSUME ~mixed
       PROVE  /\ Writers = {p} /\ proc[p].program = lastImage.program
              /\ n = Len(file) + 1 /\ m = n
              /\ \A i \in 1 .. Len(file) : file[i] = image[i]
              /\ \A i \in 1 .. n : file'[i] = image[i]
  <2>1. /\ Writers = {p} /\ proc[p].program = lastImage.program
        /\ proc[p].sent = Len(file)
        /\ \A i \in 1 .. Len(file) : file[i] = image[i]
    BY <1>2, <1>10 DEF FileInv, WriterInv, image
  <2>2. n = Len(file) + 1 /\ m = n
    BY <1>2, <1>5, <2>1
  <2>3. ASSUME NEW i \in 1 .. n PROVE file'[i] = image[i]
    <3>1. CASE i = n
      BY <1>1, <1>4, <2>2, <3>1
    <3>2. CASE i # n
      <4>1. i \in 1 .. Len(file) /\ i \in 1 .. m
        BY <1>2, <2>2, <3>2
      <4>2. file'[i] = file[i]
        BY <1>1, <3>2, <4>1
      <4> QED
        BY <2>1, <4>1, <4>2
    <3> QED
      BY <3>1, <3>2
  <2> QED
    BY <2>1, <2>2, <2>3
<1>11. TypeInv'
  BY <1>1, <1>7, <1>9 DEF FileInv, TypeInv
<1>12. WriterInv'
  <2>1. ASSUME ~mixed
        PROVE  /\ Len(file') = n
               /\ \A i \in 1 .. Len(file') :
                     i <= Len(Image(lastImage.program)) /\ file'[i] = Image(lastImage.program)[i]
    <3>1. image = Image(lastImage.program) /\ Len(file') = n
      BY <1>9, <1>10, <2>1 DEF image
    <3>2. \A i \in 1 .. n : i <= Len(image)
      BY <1>3, <1>4
    <3> QED
      BY <1>10, <2>1, <3>1, <3>2
  <2>2. ~mixed => Cut(lastImage.program)'
    BY <1>1, <2>1 DEF Cut
  <2>3. ASSUME ~mixed, NEW q \in Writers
        PROVE  q = p /\ proc'[q].program = lastImage.program /\ proc'[q].sent = Len(file')
    BY <1>6, <1>7, <1>10, <2>1, <2>3
  <2> QED
    BY <1>1, <1>2, <1>8, <1>9, <1>10, <2>1, <2>2, <2>3 DEF WriterInv
<1>13. ASSUME NEW q \in Procs PROVE ProcInv(q, proc[q])'
  <2>1. CASE q = p
    <3>1. LocalInv(proc[q])'
      <4>1. s.sent <= Len(Image(s.program))
        BY <1>3, <1>4, <1>6 DEF image
      <4> QED
        BY <1>6, <1>7, <2>1, <4>1 DEF LocalInv, Loading
    <3>2. AsmInv(q, proc[q])'
      <4>1. ~proc[p].disturbed => ~mixed /\ lastImage = Accepted(proc[p].program)
        BY <1>1, ProcType DEF AsmInv
      <4> QED
        BY <1>1, <1>6, <1>7, <2>1, <4>1 DEF AsmInv
    <3>3. LoadInv(proc[q])' /\ InfoInv(proc[q])' /\ TakenInv(proc[q])'
      BY <1>1, <1>2, <1>6, <1>7, <2>1 DEF LoadInv, InfoInv, TakenInv
    <3> QED
      BY <3>1, <3>2, <3>3 DEF ProcInv
  <2>2. CASE q # p
    <3>1. ASSUME ~mixed
          PROVE  /\ Len(file') \in Nat /\ Len(file') >= Len(file)
                 /\ \A i \in 1 .. Len(file) : file'[i] = file[i]
      <4>1. \A i \in 1 .. Len(file) : i \in 1 .. n
        BY <1>2, <1>10, <3>1
      <4> QED
        BY <1>2, <1>5, <1>9, <1>10, <3>1, <4>1
    <3> QED
      BY <1>1, <1>7, <1>8, <2>2, <3>1, GrowingFrame
  <2> QED
    BY <2>1, <2>2
<1> QED
  BY <1>11, <1>12, <1>13 DEF FileInv

(* A write that fails may leave part of a cell, and the writer is gone. *)
LEMMA WriteFailsKeeps ==
    ASSUME FileInv, NEW p \in Procs, WriteFails(p)
    PROVE  FileInv'
<1> DEFINE s == Freed(p, "IO")
<1>1. /\ proc[p].pc = "writing" /\ proc' = [proc EXCEPT ![p] = s]
      /\ lastImage' = lastImage /\ mixed' = mixed
  BY DEF WriteFails, At, Become, CloseError
<1>2. proc[p].cmd = "asm"
  BY <1>1, ProcType DEF LocalInv
<1>3. CASE file' = file
  <2>1. Local(p, s)
    BY <1>1, <1>3 DEF Local, Become
  <2> QED
    BY <1>2, <2>1, FreedInv, LocalFrame
<1>4. CASE Unsent(p) /\ Writers = {p} /\ proc[p].sent = Len(file) /\ file' = Append(file, Torn)
  <2>1. /\ lastImage # Nobody /\ file \in Seq(Cell) /\ Len(file) \in Nat
        /\ \A i \in 1 .. Len(file) : file[i].cell # "text"
    BY <1>4 DEF FileInv, WriterInv
  <2>2. Torn \in Cell /\ Torn.cell # "text"
    BY DEF Torn, Cell
  <2>3. /\ file' \in Seq(Cell) /\ Len(file') = Len(file) + 1 /\ file'[Len(file) + 1] = Torn
        /\ \A i \in 1 .. Len(file) : file'[i] = file[i]
    BY <1>4, <2>1, <2>2
  <2>4. \A i \in 1 .. Len(file') : i \in 1 .. Len(file) \/ i = Len(file) + 1
    BY <2>1, <2>3
  <2>5. s \in State /\ s.pc = "idle" /\ ~s.held /\ s.status = "IO" /\ s.cmd = "asm"
        /\ s.sent = proc[p].sent /\ s.program = proc[p].program
    BY <1>2, ProcType DEF Freed, Returned, State, Places
  <2> HIDE DEF s
  <2>6. /\ proc' \in [Procs -> State] /\ proc'[p] = s
        /\ \A q \in Procs : q # p => proc'[q] = proc[q]
    BY <1>1, <2>5 DEF FileInv, TypeInv
  <2>7. Writers' = {}
    BY <1>4, <2>5, <2>6 DEF Writers, At
  <2>8. TypeInv'
    BY <1>1, <2>3, <2>6 DEF FileInv, TypeInv
  <2>9. WriterInv'
    <3>1. \A i \in 1 .. Len(file') : file'[i].cell # "text"
      BY <2>1, <2>2, <2>3, <2>4
    <3>2. ASSUME ~mixed, NEW i \in 1 .. Len(file')
          PROVE  /\ i <= Len(Image(lastImage.program))
                 /\ file'[i] \in {Image(lastImage.program)[i], Torn}
      <4>1. /\ proc[p].program = lastImage.program /\ proc[p].sent = Len(file)
            /\ \A j \in 1 .. Len(file) : file[j] = Image(lastImage.program)[j]
        BY <1>4, <2>1, <3>2 DEF FileInv, WriterInv
      <4>2. Len(file) < Len(Image(lastImage.program)) /\ Len(Image(lastImage.program)) \in Nat
        BY <1>4, <4>1, ProcType, ImageLength DEF Unsent, ImageOf
      <4>3. CASE i \in 1 .. Len(file)
        BY <2>1, <2>3, <4>1, <4>2, <4>3
      <4>4. CASE i = Len(file) + 1
        BY <2>1, <2>3, <4>2, <4>4
      <4> QED
        BY <2>4, <4>3, <4>4
    <3>3. ~mixed => Cut(lastImage.program)'
      BY <1>1, <3>2 DEF Cut
    <3> QED
      BY <1>1, <2>1, <2>3, <2>7, <3>1, <3>3 DEF WriterInv
  <2>10. ASSUME NEW q \in Procs PROVE ProcInv(q, proc[q])'
    <3>1. CASE q = p
      <4>1. s.sent <= Len(Image(s.program))
        BY <2>5, ProcType DEF LocalInv
      <4>2. LocalInv(proc[q])'
        BY <2>5, <2>6, <3>1, <4>1 DEF LocalInv, Loading
      <4>3. AsmInv(q, proc[q])' /\ LoadInv(proc[q])' /\ InfoInv(proc[q])' /\ TakenInv(proc[q])'
        BY <1>1, <2>1, <2>5, <2>6, <3>1 DEF AsmInv, LoadInv, InfoInv, TakenInv
      <4> QED
        BY <4>2, <4>3 DEF ProcInv
    <3>2. CASE q # p
      <4>1. Len(file') \in Nat /\ Len(file') >= Len(file)
        BY <2>1, <2>3
      <4>2. Writers' \subseteq Writers
        BY <2>7
      <4> QED
        BY <1>1, <1>4, <2>3, <2>6, <3>2, <4>1, <4>2, GrowingFrame
    <3> QED
      BY <3>1, <3>2
  <2> QED
    BY <2>8, <2>9, <2>10 DEF FileInv
<1> QED
  BY <1>3, <1>4 DEF WriteFails

----------------------------------------------------------------------------
LEMMA InitKeeps ==
    ASSUME FileInit
    PROVE  FileInv
<1>1. /\ file \in InitialFiles /\ proc = [p \in Procs |-> Fresh]
      /\ lastImage = Nobody /\ mixed = FALSE
  BY DEF FileInit
<1>2. /\ Fresh \in State /\ Fresh.pc = "idle" /\ ~Fresh.held /\ Fresh.sent = 0
      /\ Fresh.status = "none" /\ Fresh.program = <<>>
  <2>1. <<>> \in Seq(Instruction) /\ 0 \in 0 .. MaxCommands
    BY FilesAssumption
  <2> QED
    BY <2>1 DEF Fresh, State, Places
<1>3. TypeInv
  <2>1. file = Missing \/ file \in Seq(Cell)
    BY <1>1, FilesAssumption
  <2>2. /\ Nobody \in [ok : BOOLEAN, program : Seq(Instruction)] /\ ~Nobody.ok
    BY DEF Nobody, Refused
  <2>3. proc \in [Procs -> State]
    BY <1>1, <1>2
  <2> QED
    BY <1>1, <2>1, <2>2, <2>3 DEF TypeInv
<1>4. WriterInv
  <2>1. Writers = {}
    BY <1>1, <1>2 DEF Writers, At
  <2> QED
    BY <1>1, <2>1 DEF WriterInv
<1>5. ASSUME NEW p \in Procs PROVE ProcInv(p, proc[p])
  <2>1. proc[p] = Fresh
    BY <1>1
  <2>2. <<>> \in Seq(Instruction)
    OBVIOUS
  <2>3. 0 <= Len(Image(Fresh.program))
    BY <1>2, <2>2, ImageLength
  <2> QED
    BY <1>2, <2>1, <2>3, EndedInv
<1> QED
  BY <1>3, <1>4, <1>5 DEF FileInv

LEMMA NextKeeps ==
    ASSUME FileInv, [FileNext]_fileVars
    PROVE  FileInv'
<1>1. CASE FileNext
  <2>1. PICK p \in Procs : Write(p) \/ Load(p) \/ Info(p) \/ Kill(p)
    BY <1>1 DEF FileNext
  <2>2. CASE Write(p)
    BY <2>2, AssembleKeeps, ValidateKeeps, OpenForWritingKeeps, OpenForWritingFailsKeeps,
       WriteCellKeeps, CloseKeeps, WriteFailsKeeps DEF Write
  <2>3. CASE Load(p)
    BY <2>3, ProbeKeeps, ReadHeaderKeeps, ReadRecordKeeps, ReadEndKeeps, MeasureTextKeeps,
       AssembleTextKeeps, UseKeeps DEF Load
  <2> QED
    BY <2>1, <2>2, <2>3, InfoKeeps, KillKeeps
<1>2. CASE UNCHANGED fileVars
  <2>1. /\ file' = file /\ proc' = proc /\ lastImage' = lastImage /\ mixed' = mixed
        /\ Writers' = Writers
    BY <1>2 DEF fileVars, Writers, At
  <2>2. TypeInv' /\ WriterInv'
    BY <2>1 DEF FileInv, TypeInv, WriterInv, Cut
  <2>3. ASSUME NEW p \in Procs PROVE ProcInv(p, proc[p])'
    <3>1. PICK s : s = proc[p] /\ proc'[p] = s
      BY <2>1
    <3>2. LocalInv(s) /\ AsmInv(p, s) /\ LoadInv(s) /\ InfoInv(s) /\ TakenInv(s)
      BY <3>1, ProcType
    <3>3. /\ LocalInv(s)' /\ AsmInv(p, s)' /\ LoadInv(s)' /\ InfoInv(s)' /\ TakenInv(s)'
      BY <2>1, <3>2 DEF LocalInv, AsmInv, LoadInv, Decoded, InfoInv, TakenInv, Clean
    <3>4. proc[p]' = s
      BY <3>1
    <3> QED
      BY <3>3, <3>4 DEF ProcInv
  <2> QED
    BY <2>2, <2>3 DEF FileInv
<1> QED
  BY <1>1, <1>2

(* The invariant holds of every reachable state. *)
LEMMA FileInvariance == FileSpec => []FileInv
<1>1. FileInit => FileInv
  BY InitKeeps
<1>2. FileInv /\ [FileNext]_fileVars => FileInv'
  BY NextKeeps
<1> QED
  BY <1>1, <1>2, PTL DEF FileSpec

----------------------------------------------------------------------------
(* The counts of a process stay in their range, and a command that has     *)
(* returned has freed its program: wai_program_free on every path.         *)
THEOREM TypesAreCorrect == FileSpec => []FileTypeOK
<1>1. ASSUME FileInv PROVE FileTypeOK
  <2>1. mixed \in BOOLEAN
    BY <1>1 DEF FileInv, TypeInv
  <2>2. ASSUME NEW p \in Procs
        PROVE  /\ proc[p].started \in 0 .. MaxCommands
               /\ proc[p].sent \in 0 .. Len(ImageOf(p))
               /\ At(p, "records") => Len(proc[p].program) <= proc[p].wanted
               /\ At(p, "idle") => ~proc[p].held
    <3>1. proc[p].started \in 0 .. MaxCommands
      BY <1>1, ProcType DEF State
    <3>2. proc[p].sent \in 0 .. Len(ImageOf(p))
      <4>1. proc[p].sent \in Nat /\ proc[p].sent <= Len(ImageOf(p)) /\ Len(ImageOf(p)) \in Nat
        BY <1>1, ProcType, ImageLength DEF LocalInv, ImageOf
      <4> QED
        BY <4>1
    <3> QED
      BY <1>1, <3>1, <3>2, ProcType DEF LocalInv, At
  <2> QED
    BY <2>1, <2>2 DEF FileTypeOK
<1> QED
  BY <1>1, FileInvariance, PTL

(* What a loader accepts while no process truncates the file is one whole  *)
(* file, read at whatever pace: all its records and nothing after them.    *)
THEOREM WholeFilesAreAccepted == FileSpec => []AcceptedIsWhole
<1>1. ASSUME FileInv PROVE AcceptedIsWhole
  BY <1>1, ProcType DEF AcceptedIsWhole, LoadInv, Clean, At
<1> QED
  BY <1>1, FileInvariance, PTL

(* An `asm` that says OK has its whole program in the file, unless another *)
(* process opened it for writing: every failed write was noticed.          *)
THEOREM SuccessWritesAll == FileSpec => []SuccessIsComplete
<1>1. ASSUME FileInv PROVE SuccessIsComplete
  BY <1>1, ProcType DEF SuccessIsComplete, AsmInv, ImageOf
<1> QED
  BY <1>1, FileInvariance, PTL

(* An image says which program it is of. *)
LEMMA ImageDetermines ==
    ASSUME NEW program \in Seq(Instruction), NEW other \in Seq(Instruction),
           \A i \in 1 .. Len(Image(program)) :
               i <= Len(Image(other)) /\ Image(program)[i] = Image(other)[i]
    PROVE  program = other
<1>1. Len(program) \in Nat /\ Len(Image(program)) = Len(program) + 2
  <2>1. Len(program) \in Nat
    OBVIOUS
  <2> QED
    BY <2>1, ImageCells
<1>2. 2 \in 1 .. Len(Image(program))
  BY <1>1
<1>3. Header(TRUE, Len(program)) = Header(TRUE, Len(other))
  BY <1>2, ImageCells
<1>4. Len(program) = Len(other)
  BY <1>3 DEF Header
<1>5. ASSUME NEW k \in 1 .. Len(program) PROVE program[k] = other[k]
  <2>1. k + 2 \in 1 .. Len(Image(program)) /\ k \in 1 .. Len(other)
    BY <1>1, <1>4
  <2>2. Record(EncodeInstruction(program[k])) = Record(EncodeInstruction(other[k]))
    BY <2>1, ImageCells
  <2>3. EncodeInstruction(program[k]) = EncodeInstruction(other[k])
    BY <2>2 DEF Record
  <2>4. program[k] \in Instruction /\ other[k] \in Instruction
    BY <2>1
  <2> QED
    BY <2>3, <2>4, EncodedInstruction
<1> QED
  BY <1>4, <1>5, SameCells

(* What a killed or failed `asm` leaves is refused, or is its own program: *)
(* nothing but the last program opened for writing is ever loaded.         *)
THEOREM OnlyTheLastIsLoaded == FileSpec => []NothingElseIsLoaded
<1>1. ASSUME FileInv PROVE NothingElseIsLoaded
  <2> SUFFICES ASSUME NEW p \in Procs, proc[p].pc = "using", Clean(proc[p]), lastImage # Nobody,
                      proc[p].program # <<>>
               PROVE  proc[p].program = lastImage.program
    BY DEF NothingElseIsLoaded, At, Clean
  <2>1. /\ file \in Seq(Cell) /\ \A i \in 1 .. Len(file) : file[i].cell # "text"
        /\ Cut(lastImage.program) /\ lastImage.program \in Seq(Instruction)
    BY <1>1 DEF FileInv, TypeInv, WriterInv, Clean
  <2>2. proc[p].via # "text"
    <3>1. ASSUME Len(file) = 1, file[1] = Source(Accepted(proc[p].program), FALSE) PROVE FALSE
      <4>1. file[1].cell = "text" /\ 1 \in 1 .. Len(file)
        BY <3>1 DEF Source
      <4> QED
        BY <2>1, <4>1
    <3> QED
      BY <1>1, <3>1, ProcType DEF LoadInv
  <2>3. proc[p].via = "bytecode" /\ proc[p].program \in Seq(Instruction)
    BY <1>1, <2>2, ProcType DEF LocalInv, State
  <2>4. file = Image(proc[p].program)
    BY <1>1, <2>3, ProcType DEF LoadInv
  <2>5. ASSUME NEW i \in 1 .. Len(Image(proc[p].program))
        PROVE  /\ i <= Len(Image(lastImage.program))
               /\ Image(proc[p].program)[i] = Image(lastImage.program)[i]
    <3>1. file[i] # Torn
      BY <2>3, <2>4, ImageCells
    <3> QED
      BY <2>1, <2>4, <3>1 DEF Cut
  <2> QED
    BY <2>1, <2>3, <2>5, ImageDetermines
<1> QED
  BY <1>1, FileInvariance, PTL

(* `waivm info` reads the header only; the count it shows is that of the   *)
(* program that is being written, or was when the writer failed.           *)
THEOREM InfoShowsTheCount == FileSpec => []InfoCountsInstructions
<1>1. ASSUME FileInv PROVE InfoCountsInstructions
  BY <1>1, ProcType DEF InfoCountsInstructions, InfoInv, Clean
<1> QED
  BY <1>1, FileInvariance, PTL

(* A source that `asm` assembles is taken by the loading commands too,     *)
(* unless it begins with the four characters of the magic.                 *)
THEOREM SourcesAreLoaded == FileSpec => []SourcesAreTaken
<1>1. ASSUME FileInv PROVE SourcesAreTaken
  <2> SUFFICES ASSUME NEW p \in Procs, proc[p].cmd \in LoadCommands,
                      proc[p].status = "PARSE", file # <<>>, file[1].cell = "text"
               PROVE  ~file[1].meaning.ok \/ file[1].magic
    BY DEF SourcesAreTaken
  <2>1. lastImage = Nobody
    BY <1>1, SourceAlone
  <2> QED
    BY <1>1, <2>1, ProcType DEF TakenInv
<1> QED
  BY <1>1, FileInvariance, PTL

(* Whoever changes the file is a process that writes a program the         *)
(* verifier accepts: wai_bytecode_write_file validates before it opens.    *)
THEOREM RefusalsLeaveTheFile == FileSpec => RefusedKeepsFile
<1> DEFINE Allowed == file' # file => \E p \in Procs :
                         /\ proc[p].pc \in {"opening", "writing"} /\ proc'[p] # proc[p]
                         /\ ValidateProgram(proc[p].program) = "OK"
<1>1. ASSUME FileInv, [FileNext]_fileVars PROVE Allowed
  <2> SUFFICES ASSUME file' # file PROVE Allowed
    OBVIOUS
  <2>1. PICK p \in Procs : Write(p) \/ Load(p) \/ Info(p) \/ Kill(p)
    BY <1>1 DEF FileNext, fileVars
  <2>2. OpenForWriting(p) \/ WriteCell(p) \/ WriteFails(p)
    <3>1. ~\E s : Local(p, s)
      BY DEF Local
    <3>2. /\ ~Assemble(p) /\ ~Validate(p) /\ ~OpenForWritingFails(p) /\ ~Close(p)
          /\ ~Info(p) /\ ~Kill(p)
      BY <3>1 DEF Assemble, Validate, OpenForWritingFails, Close, Info, Kill
    <3>3. ~Load(p)
      BY <3>1 DEF Load, Probe, ReadHeader, ReadRecord, ReadEnd, MeasureText, AssembleText, Use
    <3> QED
      BY <2>1, <3>2, <3>3 DEF Write
  <2>3. proc[p].pc \in {"opening", "writing"}
    BY <2>2 DEF OpenForWriting, WriteCell, WriteFails, Unsent, At
  <2>4. ValidateProgram(proc[p].program) = "OK"
    BY <1>1, <2>3, ProcType DEF LocalInv
  <2>5. proc'[p] # proc[p]
    <3>1. proc \in [Procs -> State] /\ proc[p] \in State
      BY <1>1, ProcType DEF FileInv, TypeInv
    <3>2. CASE OpenForWriting(p)
      <4>1. proc[p].pc = "opening" /\ proc'[p].pc = "writing"
        BY <3>1, <3>2 DEF OpenForWriting, At, State
      <4> QED
        BY <4>1
    <3>3. CASE WriteCell(p)
      <4>1. proc'[p].sent = proc[p].sent + 1 /\ proc[p].sent \in Nat
        BY <3>1, <3>3 DEF WriteCell, Become, State
      <4> QED
        BY <4>1
    <3>4. CASE WriteFails(p)
      <4>1. proc[p].pc = "writing" /\ proc'[p].pc = "idle"
        BY <3>1, <3>4 DEF WriteFails, At, Become, Freed, Returned, State
      <4> QED
        BY <4>1
    <3> QED
      BY <2>2, <3>2, <3>3, <3>4
  <2> QED
    BY <2>3, <2>4, <2>5
<1>2. FileInv /\ [FileNext]_fileVars => [Allowed]_fileVars
  BY <1>1
<1> QED
  BY <1>2, FileInvariance, PTL DEF FileSpec, RefusedKeepsFile

=============================================================================
