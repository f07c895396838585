------------------------------ MODULE Assembler ------------------------------
(***************************************************************************)
(* wai_assemble_source (assembler.c): one pass over the lines of a source  *)
(* that defines labels and pushes instructions, and a second one over the  *)
(* pending references that writes their targets into the program.  Every   *)
(* table grows by doubling, and an allocation may fail.                    *)
(*                                                                         *)
(* A line is empty (no character at all), blank (white space, commas or a  *)
(* comment), a label line, or a line of tokens.                            *)
(***************************************************************************)
EXTENDS Assembly, Verifier, FiniteSets, FiniteSetsExt

CONSTANTS
    Sources,        \* the sources an instance assembles: sequences of lines
    Prefix63,       \* the first 63 characters of each longer name
    FirstCapacity   \* 16: the capacity of a table after its first growth

EmptyLine == [kind |-> "empty"]
BlankLine == [kind |-> "blank"]
LabelLine(t) == [kind |-> "label", name |-> t]
CodeLine(tokens) == [kind |-> "code", tokens |-> tokens]
SourceLine ==
    {EmptyLine, BlankLine} \cup [kind : {"label"}, name : Token]
        \cup [kind : {"code"}, tokens : Seq(Token) \ {<<>>}]

(* The number of an instruction fits a value: a source has fewer lines. *)
ASSUME SourcesAssumption ==
    /\ Sources \subseteq Seq(SourceLine)
    /\ \A s \in Sources : Len(s) < Half
    /\ Prefix63 \in [DOMAIN Prefix63 -> STRING]

VARIABLES
    source, position,   \* position: lines strtok_r has gone past
    lineNumber,
    labels, pending,    \* label_table
    resolved,           \* the loop counter of resolve_pending
    program,            \* out_program
    result,             \* wai_assembler_result, without its message
    phase

vars == <<source, position, lineNumber, labels, pending, resolved, program,
          result, phase>>

(* char name[64]: what snprintf leaves of a name, without its terminator. *)
Cut(t) ==
    IF t.kind = "name" /\ t.text \in DOMAIN Prefix63
    THEN Name(Prefix63[t.text]) ELSE t

(* The table is full when it holds this many entries: growing may fail. *)
Full(n) == n = 0 \/ \E k \in 0..n : n = FirstCapacity * 2^k

Found(name) == {i \in 1..Len(labels) : labels[i].name = name}

Init ==
    /\ source \in Sources
    /\ position = 0 /\ lineNumber = 0
    /\ labels = <<>> /\ pending = <<>> /\ resolved = 0
    /\ program = <<>>
    /\ result = [error |-> "OK", line |-> 0]
    /\ phase = "copying"

(* strdup of the source. *)
Copy ==
    /\ phase = "copying"
    /\ \/ phase' = "lines" /\ UNCHANGED result
       \/ phase' = "done" /\ result' = [error |-> "OOM", line |-> 0]
    /\ UNCHANGED <<source, position, lineNumber, labels, pending, resolved, program>>

(* strtok_r gives the next line: it goes past the empty lines before it.   *)
AtLine == phase = "lines" /\ position < Len(source)
Line == source[position + 1]
SkipEmptyLine ==
    /\ AtLine /\ Line = EmptyLine
    /\ position' = position + 1
    /\ UNCHANGED <<source, lineNumber, labels, pending, resolved, program, result, phase>>

Reading(line) ==
    /\ AtLine /\ Line = line /\ line # EmptyLine
    /\ position' = position + 1
    /\ lineNumber' = lineNumber + 1
    /\ UNCHANGED <<source, resolved>>

(* Mutant of Fail: returns without its clean-up. *)
FailAtOnce(error, line) ==
    /\ result' = [error |-> error, line |-> line]
    /\ phase' = "done"
    /\ UNCHANGED <<program, labels, pending>>

(* goto fail: the tables and the program are freed. *)
Fail(error, line) ==
    /\ result' = [error |-> error, line |-> line]
    /\ phase' = "done"
    /\ program' = <<>>
    /\ labels' = <<>> /\ pending' = <<>>

SkipBlankLine ==
    /\ Reading(BlankLine)
    /\ UNCHANGED <<labels, pending, program, result, phase>>

(* Mutant of Duplicate: label_add does not look the name up. *)
DuplicateAccepted(t) == FALSE

(* label_add compares the whole name with the stored ones, and stores what *)
(* fits of it.                                                             *)
Duplicate(t) == Found(t) # {}

AddLabel(t) ==
    /\ Reading(LabelLine(t))
    /\ IsIdentifier(t) /\ ~Duplicate(t)
    /\ labels' = Append(labels, [name |-> Cut(t), target |-> Len(program)])
    /\ UNCHANGED <<pending, program, result, phase>>

LabelFails(t) ==
    /\ Reading(LabelLine(t))
    /\ \/ (~IsIdentifier(t) \/ Duplicate(t)) /\ Fail("PARSE", lineNumber')
       \/ IsIdentifier(t) /\ ~Duplicate(t) /\ Full(Len(labels))
          /\ Fail("OOM", lineNumber')

(* Mutants of Reference: the instruction before, or no line. *)
ReferenceBefore(t) ==
    [index |-> Len(program) - 1, name |-> Cut(t), line |-> lineNumber']
ReferenceUnplaced(t) ==
    [index |-> Len(program), name |-> Cut(t), line |-> 0]

(* pending_add, for the label t of an instruction about to be pushed. *)
Reference(t) ==
    [index |-> Len(program), name |-> Cut(t), line |-> lineNumber']

PushInstruction(tokens) ==
    /\ Reading(CodeLine(tokens))
    /\ Parse(tokens).ok
    /\ program' = Append(program, Parse(tokens).ins)
    /\ IF Parse(tokens).refs = {} THEN UNCHANGED pending
       ELSE \E t \in Parse(tokens).refs : pending' = Append(pending, Reference(t))
    /\ UNCHANGED <<labels, result, phase>>

CodeLineFails(tokens) ==
    /\ Reading(CodeLine(tokens))
    /\ \/ ~Parse(tokens).ok /\ Fail("PARSE", lineNumber')
       \/ /\ Parse(tokens).ok
          /\ \/ Parse(tokens).refs # {} /\ Full(Len(pending))
             \/ Full(Len(program))
          /\ Fail("OOM", lineNumber')

NoMoreLines ==
    /\ phase = "lines" /\ position = Len(source)
    /\ phase' = "resolving"
    /\ UNCHANGED <<source, position, lineNumber, labels, pending, resolved,
                   program, result>>

(* resolve_pending. *)
Resolving == phase = "resolving" /\ resolved < Len(pending)
NextRef == pending[resolved + 1]

ResolveReference ==
    /\ Resolving /\ Found(NextRef.name) # {}
    /\ program' = [program EXCEPT ![NextRef.index + 1].imm =
                                    labels[Min(Found(NextRef.name))].target]
    /\ resolved' = resolved + 1
    /\ UNCHANGED <<source, position, lineNumber, labels, pending, result, phase>>

UnknownLabel ==
    /\ Resolving /\ Found(NextRef.name) = {}
    /\ Fail("PARSE", NextRef.line)
    /\ UNCHANGED <<source, position, lineNumber, resolved>>

Finish ==
    /\ phase = "resolving" /\ resolved = Len(pending)
    /\ phase' = "done"
    /\ labels' = <<>> /\ pending' = <<>>
    /\ UNCHANGED <<source, position, lineNumber, resolved, program, result>>

ReadLabel == AtLine /\ Line.kind = "label"
                /\ (AddLabel(Line.name) \/ LabelFails(Line.name))
ReadCode == AtLine /\ Line.kind = "code"
                /\ (PushInstruction(Line.tokens) \/ CodeLineFails(Line.tokens))

Next == Copy \/ SkipEmptyLine \/ SkipBlankLine \/ ReadLabel \/ ReadCode
            \/ NoMoreLines \/ ResolveReference \/ UnknownLabel \/ Finish

Spec == Init /\ [][Next]_vars

----------------------------------------------------------------------------
(* What a source means, line by line and without passes or tables.         *)
CodePositions(s) == {p \in 1..Len(s) : s[p].kind = "code"}
LabelPositions(s) == {p \in 1..Len(s) : s[p].kind = "label"}
DefinedAt(s, t) == {p \in LabelPositions(s) : s[p].name = t}
InstructionsBefore(s, p) == Cardinality({q \in CodePositions(s) : q < p})

LineFault(s, p) ==
    CASE p \in CodePositions(s) -> ~Parse(s[p].tokens).ok
      [] p \in LabelPositions(s) ->
           ~IsIdentifier(s[p].name) \/ Min(DefinedAt(s, s[p].name)) < p
      [] OTHER -> FALSE
ReferenceFault(s, p) ==
    p \in CodePositions(s)
        /\ \E t \in Parse(s[p].tokens).refs : DefinedAt(s, t) = {}

LineFaults(s) == {p \in 1..Len(s) : LineFault(s, p)}
ReferenceFaults(s) == {p \in 1..Len(s) : ReferenceFault(s, p)}

InstructionAt(s, p) ==
    LET parsed == Parse(s[p].tokens)
    IN  IF parsed.refs = {} THEN parsed.ins
        ELSE [parsed.ins EXCEPT !.imm =
                InstructionsBefore(s, Min(UNION {DefinedAt(s, t) : t \in parsed.refs}))]

Meaning(s) ==
    [i \in 1..Cardinality(CodePositions(s)) |->
        LET p == CHOOSE q \in CodePositions(s) : InstructionsBefore(s, q) = i - 1
        IN  InstructionAt(s, p)]

Answered == phase = "done" /\ result.error # "OOM"

----------------------------------------------------------------------------
(* The type invariant, and what is left allocated at the end: the program  *)
(* of a source that was accepted, nothing else.                            *)
AssemblerTypeOK ==
    /\ position \in 0..Len(source) /\ lineNumber \in 0..position
    /\ resolved \in 0..Len(source) /\ Len(program) <= lineNumber
    /\ result.error \in {"OK", "PARSE", "OOM"}
    /\ \A i \in 1..Len(program) : program[i] \in Instruction
    /\ phase = "done" => labels = <<>> /\ pending = <<>>
    /\ result.error # "OK" => program = <<>>

(* The write of resolve_pending, code[instruction_index].imm = target, has *)
(* no bounds check: the references must name exactly the instructions that *)
(* take a label, in order, one each.                                       *)
FixupsInProgram ==
    phase \in {"lines", "resolving"} =>
        /\ {pending[i].index + 1 : i \in 1..Len(pending)} =
               {i \in 1..Len(program) : program[i].op \in JumpOps \cup {"CALL"}}
        /\ \A i, j \in 1..Len(pending) : i < j => pending[i].index < pending[j].index

(* The two passes give what the source says: refused iff a line or a       *)
(* reference is at fault, and otherwise each label stands for the number   *)
(* of instructions before it.                                              *)
AssemblesAsWritten ==
    Answered =>
        /\ result.error = "OK" <=> LineFaults(source) \cup ReferenceFaults(source) = {}
        /\ program = IF result.error = "OK" THEN Meaning(source) ELSE <<>>

(* ... and that holds when no name is longer than the name buffers.        *)
TokensOf(line) ==
    CASE line.kind = "label" -> {line.name}
      [] line.kind = "code" -> {line.tokens[i] : i \in 1..Len(line.tokens)}
      [] OTHER -> {}
NamesFit(s) == \A p \in 1..Len(s) : \A t \in TokensOf(s[p]) : Cut(t) = t
AssemblesNamesThatFit == NamesFit(source) => AssemblesAsWritten

(* In an accepted source without faults, every label stands for the index  *)
(* of the instruction that follows it, however long its name.              *)
LabelsResolve ==
    /\ Answered /\ result.error = "OK"
    /\ LineFaults(source) \cup ReferenceFaults(source) = {}
    => program = Meaning(source)

(* A parse error's line is that of the first line at fault; a reference is *)
(* only at fault when no line is.  Lines count as strtok_r hands them out. *)
FirstFault ==
    IF LineFaults(source) # {} THEN Min(LineFaults(source))
    ELSE Min(ReferenceFaults(source))
ErrorPointsAtFirstFault ==
    Answered /\ result.error = "PARSE" /\ NamesFit(source) =>
        result.line = Cardinality({p \in 1..FirstFault : source[p] # EmptyLine})

(* What an assembled program can still be refused for by the validation    *)
(* that precedes every write: immediates the assembler does not look at,   *)
(* and a label after the last instruction.                                 *)
AssembledErrors ==
    phase = "done" => \A i \in 1..Len(program) : RefusableFor(program, program[i])

(* What the disassembler prints for an assembled instruction assembles to  *)
(* that instruction again, unless it takes a label: those print as indexes *)
(* and the assembler takes no index.                                       *)
ListingReassembles ==
    phase = "done" =>
        \A i \in 1..Len(program) :
            Parse(Listing(program[i])) =
                IF program[i].op \in JumpOps \cup {"CALL"} THEN Rejected
                ELSE Parsed(program[i])
=============================================================================
