---------------------------- MODULE FileCommands ----------------------------
(***************************************************************************)
(* waivm processes that share one file: `waivm asm` writes it              *)
(* (command_asm, wai_bytecode_write_file), the other commands load it      *)
(* (load_program_auto, wai_bytecode_read_file, wai_assemble_file) or read  *)
(* its header (wai_bytecode_read_info).  No lock is taken: the steps of a  *)
(* command are its system calls, and those of other processes come in      *)
(* between.  stdio buffers output, so a cell that fwrite accepted reaches  *)
(* the file at any later time, at fclose the latest; any write may fail,   *)
(* and a process may be killed anywhere.                                   *)
(***************************************************************************)
EXTENDS Bytecode, FiniteSetsExt

CONSTANTS
    Procs,          \* processes
    AsmResults,     \* what assembling the input of `asm` can give
    InitialFiles,   \* contents of the file at the start
    MaxCommands     \* bound: commands each process is given

LoadCommands == {"run", "dis", "debug", "trace", "verify"}
Missing == <<[cell |-> "missing"]>>
Nobody == Refused

(* A file is missing or made of cells; a source is the whole file. *)
ASSUME FilesAssumption ==
    /\ AsmResults \subseteq Meaning
    /\ \A f \in InitialFiles :
          \/ f = Missing
          \/ f \in Seq(Cell) /\ \A i \in 1..Len(f) : f[i].cell = "text" => Len(f) = 1
    /\ MaxCommands \in Nat

VARIABLES
    file,       \* the cells of the file
    proc,       \* the state of each process
    lastImage,  \* the program of the last open for writing
    mixed       \* whether that open found another writer at work

fileVars == <<file, proc, lastImage, mixed>>

(* program and held: the wai_program and whether its code is allocated;    *)
(* wanted: a header's count or a text's length; sent: cells of the image   *)
(* that reached the file; via: how the program was loaded; disturbed:      *)
(* whether another process opened the file for writing since the start.    *)
Fresh == [pc |-> "idle", cmd |-> "none", program |-> <<>>, held |-> FALSE,
          wanted |-> 0, sent |-> 0, via |-> "none", status |-> "none",
          disturbed |-> FALSE, started |-> 0]

FileInit ==
    /\ file \in InitialFiles
    /\ proc = [p \in Procs |-> Fresh]
    /\ lastImage = Nobody /\ mixed = FALSE

At(p, place) == proc[p].pc = place
Become(p, state) == proc' = [proc EXCEPT ![p] = state]
Local(p, state) == Become(p, state) /\ UNCHANGED <<file, lastImage, mixed>>

Idle(p) == At(p, "idle") /\ proc[p].started < MaxCommands
Begun(p, command, place) ==
    [Fresh EXCEPT !.cmd = command, !.pc = place, !.started = proc[p].started + 1]

(* A command that returns, with or without wai_program_free. *)
Returned(p, error) == [proc[p] EXCEPT !.pc = "idle", !.status = error]
Freed(p, error) == [Returned(p, error) EXCEPT !.held = FALSE]

----------------------------------------------------------------------------
(* command_asm.  Its input is another file: only its outcome matters.      *)
Assemble(p) ==
    /\ Idle(p)
    /\ \E result \in AsmResults :
          Local(p, IF result.ok
                   THEN [Begun(p, "asm", "validating") EXCEPT
                           !.program = result.program, !.held = result.program # <<>>]
                   ELSE [Begun(p, "asm", "idle") EXCEPT !.status = "PARSE"])

(* Mutant of Validate: the program is written as it is. *)
ValidateNothing(p) ==
    At(p, "validating") /\ Local(p, [proc[p] EXCEPT !.pc = "opening"])

Validate(p) ==
    /\ At(p, "validating")
    /\ LET error == ValidateProgram(proc[p].program)
       IN  Local(p, IF error = "OK" THEN [proc[p] EXCEPT !.pc = "opening"]
                    ELSE Freed(p, error))

(* fopen(path, "wb") truncates the file. *)
Writers == {p \in Procs : At(p, "writing")}
OpenForWriting(p) ==
    /\ At(p, "opening")
    /\ file' = <<>>
    /\ lastImage' = Accepted(proc[p].program)
    /\ mixed' = (Writers # {})
    /\ proc' = [q \in Procs |->
                  IF q = p THEN [proc[p] EXCEPT !.pc = "writing", !.disturbed = mixed']
                  ELSE [proc[q] EXCEPT !.disturbed = TRUE]]
OpenForWritingFails(p) == At(p, "opening") /\ Local(p, Freed(p, "IO"))

(* The next cell of the image reaches the file, at this writer's offset; a *)
(* gap that a truncation left before it reads as zeros.                    *)
ImageOf(p) == Image(proc[p].program)
Unsent(p) == At(p, "writing") /\ proc[p].sent < Len(ImageOf(p))
WriteCell(p) ==
    LET n == proc[p].sent + 1
    IN  /\ Unsent(p)
        /\ file' = [i \in 1..Max({n, Len(file)}) |->
                      IF i = n THEN ImageOf(p)[n]
                      ELSE IF i <= Len(file) THEN file[i] ELSE Zero]
        /\ Become(p, [proc[p] EXCEPT !.sent = n])
        /\ UNCHANGED <<lastImage, mixed>>

(* fclose with everything sent. *)
Close(p) ==
    /\ At(p, "writing") /\ ~Unsent(p)
    /\ Local(p, Freed(p, "OK"))

(* Mutant of CloseError: the result of fclose is ignored. *)
CloseUnchecked == "OK"
CloseError == "IO"

(* An fwrite or the fclose fails, after part of a cell perhaps; that part  *)
(* is only modelled for a writer that is alone.                            *)
WriteFails(p) ==
    /\ At(p, "writing")
    /\ Become(p, Freed(p, CloseError))
    /\ \/ UNCHANGED file
       \/ Unsent(p) /\ Writers = {p} /\ proc[p].sent = Len(file) /\ file' = Append(file, Torn)
    /\ UNCHANGED <<lastImage, mixed>>

----------------------------------------------------------------------------
(* load_program_auto: the file is opened once to look for the magic.       *)
Probe(p) ==
    /\ Idle(p)
    /\ \E command \in LoadCommands :
          Local(p, Begun(p, command, IF HasMagic(file) THEN "bytecode" ELSE "text"))

(* wai_bytecode_read_file opens it again, and reads the header; calloc     *)
(* allocates the code, unless the count is zero.                           *)
ReadHeader(p) ==
    /\ At(p, "bytecode")
    /\ \/ Local(p, Returned(p, "IO"))
       \/ DecodeHeader(file) # "OK" /\ Local(p, Returned(p, DecodeHeader(file)))
       \/ DecodeHeader(file) = "OK" /\ file[2].count > 0 /\ Local(p, Returned(p, "OOM"))
       \/ /\ DecodeHeader(file) = "OK"
          /\ Local(p, [proc[p] EXCEPT !.pc = "records", !.wanted = file[2].count,
                         !.held = file[2].count > 0])

Position(p) == Len(proc[p].program) + 3
Short(p) == Len(file) < Position(p) \/ file[Position(p)] = Torn
ReadRecord(p) ==
    /\ At(p, "records") /\ Len(proc[p].program) < proc[p].wanted
    /\ Local(p, IF Short(p) THEN Freed(p, "PARSE")
                ELSE [proc[p] EXCEPT
                        !.program = Append(@, InstructionIn(file[Position(p)]))])

(* Mutants: trailing bytes are not looked for; their path frees nothing. *)
TrailingIgnored(p) == FALSE
TrailingKept(p) == Returned(p, "PARSE")

Trailing(p) == Len(file) >= Position(p)
TrailingError(p) == Freed(p, "PARSE")
ReadEnd(p) ==
    /\ At(p, "records") /\ Len(proc[p].program) = proc[p].wanted
    /\ LET error == ValidateProgram(proc[p].program)
       IN  Local(p, IF Trailing(p) THEN TrailingError(p)
                    ELSE IF error # "OK" THEN Freed(p, error)
                    ELSE [proc[p] EXCEPT !.pc = "using", !.via = "bytecode"])

(* read_entire_file takes the length, then reads that much. *)
MeasureText(p) ==
    /\ At(p, "text")
    /\ \/ Local(p, Returned(p, "IO"))
       \/ file # Missing /\ Local(p, [proc[p] EXCEPT !.pc = "reading", !.wanted = Len(file)])

(* wai_assemble_source on what was read: it frees what it refuses. *)
AssembleText(p) ==
    /\ At(p, "reading")
    /\ LET meaning == AssembledText(SubSeq(file, 1, proc[p].wanted))
       IN  Local(p, IF Len(file) < proc[p].wanted THEN Returned(p, "IO")
                    ELSE IF ~meaning.ok THEN Returned(p, "PARSE")
                    ELSE [proc[p] EXCEPT !.pc = "using", !.via = "text",
                            !.program = meaning.program, !.held = meaning.program # <<>>])

(* The command proper: run, debug and trace may end either way (see        *)
(* RunCommand, Debugger and Trace); then wai_program_free.                 *)
UseErrors(p) ==
    CASE proc[p].cmd = "dis" -> {"OK"}
      [] proc[p].cmd = "verify" -> {VerifyProgram(proc[p].program).error}
      [] OTHER -> {"OK", "FAILED"}
Use(p) ==
    /\ At(p, "using")
    /\ \E error \in UseErrors(p) : Local(p, Freed(p, error))

(* command_info. *)
Info(p) ==
    /\ Idle(p)
    /\ LET info(error) == [Begun(p, "info", "idle") EXCEPT !.status = error]
       IN  \/ Local(p, info("IO"))
           \/ /\ file # Missing
              /\ Local(p, IF DecodeHeader(file) = "OK"
                          THEN [info("OK") EXCEPT !.wanted = file[2].count]
                          ELSE info(DecodeHeader(file)))

Kill(p) ==
    /\ ~At(p, "idle")
    /\ Local(p, Freed(p, "killed"))

Write(p) == \/ Assemble(p) \/ Validate(p) \/ OpenForWriting(p) \/ OpenForWritingFails(p)
            \/ WriteCell(p) \/ Close(p) \/ WriteFails(p)
Load(p) == \/ Probe(p) \/ ReadHeader(p) \/ ReadRecord(p) \/ ReadEnd(p)
           \/ MeasureText(p) \/ AssembleText(p) \/ Use(p)
FileNext == \E p \in Procs : Write(p) \/ Load(p) \/ Info(p) \/ Kill(p)

FileSpec == FileInit /\ [][FileNext]_fileVars

----------------------------------------------------------------------------
(* The type invariant; a process that has returned holds no program.       *)
FileTypeOK ==
    /\ mixed \in BOOLEAN
    /\ \A p \in Procs :
          /\ proc[p].started \in 0..MaxCommands
          /\ proc[p].sent \in 0..Len(ImageOf(p))
          /\ At(p, "records") => Len(proc[p].program) <= proc[p].wanted
          /\ At(p, "idle") => ~proc[p].held

(* A program that is used is one whole file, though its parts were read at *)
(* different times and a writer may have been adding to the file: a        *)
(* truncated image, or one with something after it, is never taken.  Only  *)
(* an empty file gives the empty program.  Nothing is promised when the    *)
(* file was truncated meanwhile.                                           *)
AcceptedIsWhole ==
    \A p \in Procs :
        At(p, "using") /\ ~proc[p].disturbed /\ ~mixed =>
            /\ proc[p].via = "bytecode" => file = Image(proc[p].program)
            /\ proc[p].via = "text" =>
                  \/ proc[p].program = <<>>
                  \/ Len(file) = 1 /\ file[1] = Source(Accepted(proc[p].program), FALSE)

(* An `asm` that exits with success has left its whole program in the file *)
(* unless another one opened the file since it started.                    *)
SuccessIsComplete ==
    \A p \in Procs :
        proc[p].cmd = "asm" /\ proc[p].status = "OK" /\ ~proc[p].disturbed =>
            file = ImageOf(p)

(* A killed or failed `asm` loses what was in the file, and leaves nothing *)
(* that loads as a program other than the empty one or its own.            *)
NothingElseIsLoaded ==
    \A p \in Procs :
        At(p, "using") /\ ~proc[p].disturbed /\ ~mixed /\ lastImage # Nobody =>
            proc[p].program \in {<<>>, lastImage.program}

(* `waivm info` reads no record, so it may describe a file that no command *)
(* loads; its count is still that of the program that was being written.   *)
InfoCountsInstructions ==
    \A p \in Procs :
        /\ proc[p].cmd = "info" /\ proc[p].status = "OK"
        /\ ~proc[p].disturbed /\ ~mixed /\ lastImage # Nobody
        => proc[p].wanted = Len(lastImage.program)

(* The file changes only under a program that is valid: a refused input    *)
(* leaves the output as it was.                                            *)
RefusedKeepsFile ==
    [][file' # file => \E p \in Procs :
          /\ proc[p].pc \in {"opening", "writing"} /\ proc'[p] # proc[p]
          /\ ValidateProgram(proc[p].program) = "OK"]_fileVars

(* The commands take a source or a bytecode file (cli.c:21-26).  A source  *)
(* that `asm` assembles is not refused by the others, unless its first     *)
(* four bytes are those of the magic, as those of a label WAI0 are.        *)
SourcesAreTaken ==
    \A p \in Procs :
        /\ proc[p].cmd \in LoadCommands /\ proc[p].status = "PARSE"
        /\ file # <<>> /\ file[1].cell = "text"
        => ~file[1].meaning.ok \/ file[1].magic
=============================================================================
