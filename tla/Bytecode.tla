------------------------------ MODULE Bytecode ------------------------------
(***************************************************************************)
(* The bytecode file format of bytecode.c, and what a file means to the    *)
(* two loaders.  A file is a sequence of cells: the magic, the rest of the *)
(* header, one record per instruction; a source text is one cell.  A torn  *)
(* cell is one whose last bytes are missing, a zero cell one of NUL bytes. *)
(***************************************************************************)
EXTENDS Verifier

CONSTANT MaxCount   \* SIZE_MAX / sizeof(wai_instruction)

Magic == [cell |-> "magic"]
(* fits: version, sizes, register count and data size are this version's. *)
(* The flags are not looked at.                                           *)
Header(fits, count) == [cell |-> "header", fits |-> fits, count |-> count]
Record(bytes) == [cell |-> "record", bytes |-> bytes]
Torn == [cell |-> "torn"]
Zero == [cell |-> "zero"]
(* What wai_assemble_source gives: a program, or a parse error. *)
Accepted(program) == [ok |-> TRUE, program |-> program]
Refused == [ok |-> FALSE, program |-> <<>>]
(* A source, by what it assembles to, and whether its first four           *)
(* characters are those of the magic.                                      *)
Source(meaning, looksLikeBytecode) ==
    [cell |-> "text", meaning |-> meaning, magic |-> looksLikeBytecode]

(* What the cells hold: any bytes that have the size of an instruction, and *)
(* the sources; the assembler leaves the reserved byte 0.                  *)
Encoded == [op : Opcode \cup {"INVALID"}, a : Nat, b : Nat, c : Nat,
            imm : [ByteIndex -> Byte]]
Assembled == [op : Opcode, a : Nat, b : Nat, c : {0}, imm : Value]
Meaning == [ok : BOOLEAN, program : Seq(Assembled)]
Cell == {Magic, Torn, Zero}
          \cup [cell : {"header"}, fits : BOOLEAN, count : Nat]
          \cup [cell : {"record"}, bytes : Encoded]
          \cup [cell : {"text"}, meaning : Meaning, magic : BOOLEAN]

(* Mutants: the last byte is written first; the header counts one too few. *)
EncodeSwapped(ins) ==
    [ins EXCEPT !.imm = [i \in ByteIndex |-> ByteOf(ins.imm, ValueSize - 1 - i)]]
EncodeHeaderShort(program) == Header(TRUE, Len(program) - 1)

EncodeInstruction(ins) ==
    [ins EXCEPT !.imm = [i \in ByteIndex |-> ByteOf(ins.imm, i)]]
DecodeInstruction(bytes) == [bytes EXCEPT !.imm = FromBytes(bytes.imm)]

EncodeHeader(program) == Header(TRUE, Len(program))

(* What wai_bytecode_write_file writes, cell by cell. *)
Image(program) ==
    <<Magic, EncodeHeader(program)>>
        \o [i \in 1..Len(program) |-> Record(EncodeInstruction(program[i]))]

(* The opcode, operand and value of a record of zeros: opcode 0. *)
ZeroInstruction == [op |-> "INVALID", a |-> 0, b |-> 0, c |-> 0, imm |-> 0]
InstructionIn(cell) ==
    IF cell.cell = "record" THEN DecodeInstruction(cell.bytes) ELSE ZeroInstruction

(* Mutant of HasMagic: one byte of the four is compared. *)
HasMagicShort(file) == file # <<>> /\ (file[1] = Magic \/ file[1].cell = "text")

(* wai_file_has_waibc_magic. *)
HasMagic(file) ==
    /\ file # <<>>
    /\ file[1] = Magic \/ (file[1].cell = "text" /\ file[1].magic)

(* The header of a file, read and decoded: the error, if any. *)
DecodeHeader(file) ==
    IF Len(file) < 2 \/ file[1] # Magic \/ file[2].cell # "header" THEN "PARSE"
    ELSE IF ~file[2].fits THEN "PARSE"
    ELSE IF file[2].count > MaxCount THEN "OOM"
    ELSE "OK"

(* wai_assemble_file, on the bytes it read: the source ends at the first   *)
(* NUL, so an empty file and one that begins with NUL are empty sources;   *)
(* bytes of a bytecode header are no instruction.                          *)
AssembledText(bytes) ==
    IF bytes = <<>> \/ Head(bytes) = Zero THEN Accepted(<<>>)
    ELSE IF Head(bytes).cell = "text" THEN Head(bytes).meaning
    ELSE Refused
=============================================================================
