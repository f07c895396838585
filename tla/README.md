# A TLA+ verification of waivm

waivm is a small register virtual machine: an assembler and a bytecode file
format in C, two execution engines over one `wai_vm` structure (a stepping
engine in C, a normal execution core in NASM), a verifier, a tracer, a debugger,
a command line and a terminal front end in Rust. This directory holds a model of
all of these, the model checking of that model with TLC, and proofs with TLAPS of
what matters most for every size of the machine.

## 1. Inventory

| component | code | state it keeps | operations | what makes it correct |
|---|---|---|---|---|
| machine word | `src/vm.c`, `include/wai/instruction.h` | none | casts, byte order, arithmetic, shifts | width is kept, C's rules hold |
| instruction format | `include/wai/instruction.h` | none | operands of the 41 opcodes | both engines and both checkers agree on them |
| C engine | `src/vm.c` | registers, ip, zf, halted, error, memory, sp, last_print, print_count | `wai_vm_init`, `wai_vm_step` | ip inside the program, stack inside memory, errors without effect and reported once |
| NASM core | `asm/vm_linux_x86_64.asm` | the same `wai_vm`, native registers, native stack | `wai_vm_exec_asm` | does what the C engine does, and keeps the System V contract |
| verifier | `src/verifier.c` | none | `wai_verify_program` | an accepted program fails only dynamically |
| loader validation | `src/bytecode.c` 105-201 | none | `validate_program` | the verifier's verdict |
| tracer | `src/trace.c` | a VM, a step count | `wai_trace_program` | ends, and says why |
| debugger | `src/debugger.c` | a VM, breakpoint flags | step, continue, break, clear, mem, stack, quit | reads in bounds, continue comes back, failures end the session |
| bytecode file | `src/bytecode.c` | a file | write, read, info, magic | a file that is taken is one whole program; a failure is reported |
| command line | `src/cli.c` | a VM, a program, a file | `run`, `asm`, `dis`, `info`, `verify`, `trace`, `debug` | exit code and message tell the outcome |
| assembler | `src/assembler.c` | label table, pending references, program, result | two passes | labels resolve to indexes, errors name the first line at fault |
| disassembler | `src/disassembler.c` | none | print one instruction | assembles back to the same instruction |
| terminal UI | `tui/src/*.rs` | selection, scroll, output, terminal mode, a cached file | keys, running a child, the debugger | terminal given back, output is of what was asked for, quits |

How they interact. `run` loads a program (assembler or bytecode reader), puts it
in a `wai_vm` and calls the NASM core once; `trace` and `debug` put it in a
`wai_vm` of their own and call `wai_vm_step` again and again. The engines share
the layout of `wai_vm` and nothing else, except that the core calls
`wai_vm_emit_print` in C. `verify` calls the verifier on a loaded program; every
write and read of a bytecode file calls the loader's own validation. The engines
do not rely on either: they check all over again. `asm` processes and the other
commands meet in the file system, without locks. The terminal UI starts waivm
processes and waits for them; `info` on a source goes through a cached file that
another waivm process writes first.

What makes it hard. In the VM: the core's helpers leave on error labels with a
return address still on the native stack; the same semantics is written twice;
the stack lives in memory that stores reach, so `ret` may pop anything; boundary
values decide (an address at the last whole value, a target equal to the count,
the most negative value, the last step before the limit); and several callers
read the VM after the call that changed it. In the assembler: a reference is
recorded before the instruction it is for, and errors are found in two passes.
Between processes: a file is truncated, filled and read in turn, by processes
that may fail or be killed anywhere. In the UI: the terminal's mode must be
right on every way out. PROJECT.json lists these hazards at their lines.

## 2. Modules

| module | models | notes |
|---|---|---|
| `Word` | `wai_value`, casts, bytes, arithmetic | width is `ByteBits * ValueSize`; no state |
| `Instruction` | opcodes, operands, shared checks | a program is a sequence of instructions |
| `Machine` | memory of whole values, results of the data instructions | shared by both engines |
| `Vm` | `wai_vm_step` | one action per opcode family and per error path |
| `StackSpec` | what `docs/vm-abi.md` promises of the stack | abstract, no memory, no sp |
| `VmStack` | the refinement mapping from `Vm` to `StackSpec` | |
| `WordLaws` | what the two byte loops of the C engine owe each other, for the values its registers hold | |
| `Verifier` | `wai_verify_program`, `validate_program` | the two sets of case tables are kept apart |
| `VerifiedVm` | checkers and engine together | |
| `AsmCore` | `wai_vm_exec_asm` | one action per helper and per block |
| `AsmRefinement` | the refinement mapping from `AsmCore` to `Vm` | |
| `RunCommand` | `wai_vm_execute` and `command_run` over `AsmCore` | composes `Verifier`: what `run` loads has been validated |
| `Trace` | `wai_trace_program` over `Vm` | |
| `Debugger` | `wai_debugger_run` over `Vm` | |
| `Assembly` | the parsers of a code line, and the disassembler | pure; a source line is a sequence of tokens |
| `Assembler` | `wai_assemble_source`: both passes | composes `Assembly` and `Verifier` |
| `Bytecode` | the cells of a file, header and records | pure |
| `FileCommands` | `asm`, `info` and the loading commands on one file | several processes, failures, kills |
| `Tui` | main loop, application state, children, terminal guard | with the user as the environment |
| `*Proofs` | theorems, of the modules they are named after; `VmProofs` also has `VerifiedVm`, `CallerProofs` `Trace` and `Debugger`, `AsmCoreProofs` `RunCommand` | section 5 |
| `MCPrograms`, `MC*` | the programs, sources, files and lists TLC loads | |

### How the state and actions correspond to the code

`Vm` has one variable per field of `wai_vm` (`code` stands for `code` and
`code_count`; `<<>>` is the NULL program of an empty source), and three more: `rc`,
what the last call returned, which guards the next call as every caller's loop
does; and `trapped`, since a division the processor cannot do kills the process.
One action is one call. Instruction index `i` of the code is element `i + 1` of
the sequence. Opcode bytes outside 1..41 are the one opcode `INVALID`. Immediate
operands and registers are values of the width; register bytes and `c` are
naturals, so bad registers are present.

C leaves signed overflow of `+`, `-` and `*` undefined; the compilers this is
built with (gcc, x86-64, `-O0` to `-O3`) wrap and compute `zf` from the wrapped
value, and that is what is modelled. `MinValue / -1` is the other undefined case;
there the build has one outcome too, `#DE`, and the process dies.

`AsmCore` models one call of the core. An instruction is a route: a sequence of
helper calls and blocks of straight-line code. `CallHelper` pushes the position
to return to on `native`, a helper either returns to the slot on top or jumps to
an error label with the slot still there, and the error labels drop it or not as
the code does. `rax`, `rbx`, `r14`, `r15` carry values between blocks, and each
helper clobbers what it clobbers in the code. `r13` keeps the fetched
instruction's index instead of its address. What C calls return (`rax` and the
caller-saved registers after `wai_vm_emit_print`) is not read by the code.

`Trace` and `Debugger` wrap `Vm!Step` with their own loop control. Debugger
commands that only print (`help`, `regs`, `ip`, `dis`) change nothing and are
left out; `mem` and `stack` are kept for what they read, with the 64-bit sum of
address and count taken at the word's width. `stops` in `Debugger` is an
auxiliary variable: it counts how often `continue` has stopped at a breakpoint
since an instruction was executed, and no action reads it.

`RunCommand` executes the core on every program, since `wai_vm_execute` has a
second caller (`tests/test_vm.c` 118-145) whose programs nothing has validated.
What `command_run` does afterwards happens only to programs that
`load_program_auto` gives it (`Loadable`): a register or an opcode that does not
exist never gets so far.

`Assembler` reads a source that is a sequence of lines: empty (which `strtok_r`
swallows, so `lineNumber` falls behind `position`), blank or comment, label, or
code as tokens. Tokens are registers, numbers, names, brackets and what none of
the parsers takes (`Junk`). One action is one round of the first loop, or of
`resolve_pending`, with the growth of the tables (which may fail) inside it. The
63 characters a table entry keeps of a name are `Prefix63`. A label must not
stand for more than the largest value; a source has fewer lines than that
(`SourcesAssumption`). `PROJECT.json` maps the parsers line by line.

`FileCommands` cuts a file into cells as large as the code's own reads and writes
can tell apart: the magic, the rest of the header, one record each, a torn piece,
zeros, a source text. An action is a system call of one process: a command is a
sequence of them with any step of the other process in between. `stdio` keeps
accepted output back, so a cell reaches the file at any time up to `fclose`; a
write may fail, after part of a cell; a process may be killed anywhere. `asm`
reads its source from another file, of which only the outcome matters.
`lastImage`, `mixed` and `disturbed` are auxiliary: what was last opened for
writing, and whether two writers or a truncation came together.

`Tui` keeps the terminal's mode beside what the guard believes of it (`saved`,
`active`). `stty -g` may fail, with the guard going on without a saved mode; any
other `stty` may fail too, and so may the writes after it. Two auxiliary
variables, which no action reads, record why a terminal may stay raw: `refused`,
that `stty` would not give the mode back, and `unguarded`, that the terminal was
set raw and the write after it failed before a guard was armed (`term.rs` 30-32
in `enter`, 67-69 in `reenter`). In the second case the error leaves the program
and nothing undoes the raw mode, although `stty` would have: that is what the
code does, and `TerminalRestored` says so. No document promises the terminal
back, so no run refutes one.
`input` is what has been typed and not been read: one `read` takes it all. A
program is a stem and a form, and `edition` counts the user's edits, so `shown`
can say which text the output is about.

## 3. Runs

Values have 4 bits (two bytes of two bits each), so -8..7; memory has 6 bytes:
three stack cells and the addresses 0..4; there are two registers. The operands
of the alphabets in `MCPrograms` lie on both sides of every check. The real
machine differs in sizes only (8 bits, 8 bytes, 8 registers, 65536 bytes), and
no code depends on the sizes beyond what `WordAssumption` and
`MachineAssumption` state.

| run | checks | shows |
|---|---|---|
| `vm` | `TypeOK`, `StackInMemory`, `IpInProgram`, `ErrorMatchesResult`, `FaultHasNoEffect`, `BytesRoundTrip`, `ImplementsStack`, `AcceptedFaultsAreDynamic`, `CheckersAgree`, `RejectedMeansFault` | the C engine, the abstract stack its bytes implement and the checkers beside it, on 76,393 programs: all of up to three data instructions, of up to four stack instructions, and each opcode with operands on both sides of each static check, alone and among others |
| `run` | `CalleeSavedRestored`, `NativeStackShape`, `ResultMatchesError`, `RefinesStepper`, `ExitTellsOutcome` | every path through helpers and error labels; the core does what the stepping engine does; the exit code tells whether the program halted, and the error is one the failing instruction really has |
| `trace` | `VerdictExplains`, `TraceTerminates` | limit of five steps; programs that halt before, at and after it |
| `debugger` | `InspectionInBounds`, `FailureEndsSession`, `ContinueComesBack` | sessions of any length over seven programs, one of them empty |
| `assembler` | `AssemblerTypeOK`, `FixupsInProgram`, `AssemblesNamesThatFit`, `ErrorPointsAtFirstFault`, `AssembledErrors`, `ListingReassembles` | every source of up to four lines over nine kinds of line, and every mnemonic with every pair of operands; the reference is a one-pass meaning of a source (`Meaning`) |
| `files` | `FileTypeOK`, `AcceptedIsWhole`, `SuccessIsComplete`, `NothingElseIsLoaded`, `InfoCountsInstructions`, `SourcesAreTaken`, `RefusedKeepsFile` | two processes with two commands each on one file with eighteen initial contents |
| `tui` | `TuiTypeOK`, `TerminalRestored`, `OutputIsAbout`, `ScrollWithinOutput`, `LoneQuitExits` | two sources of one stem, edits while the interface runs, up to two keys typed before a read, commands that may never end |

Five runs expect a violation; each is a disagreement between the code and its
documents:

| run | the document says | the code does |
|---|---|---|
| `run_report` | errors identify the failing instruction | for `mov r0, 1; div r0, 0; halt`, `waivm run` prints ip 2, the index after the division |
| `run_trap` | the core returns 0, or nonzero with an error | `mov r0, MinValue; div r0, -1` kills the process |
| `debugger_resumes` | the debugger resumes predictably | after `break 0` and a `continue` that stops there, another `continue` executes nothing and stops there again |
| `assembler_long` | labels resolve to instruction indexes | two labels alike in 63 characters are one, without an error |
| `tui_burst` | `q` quits | a `q` that is in the terminal's buffer together with another key, when both are read, is dropped |

Smaller differences met on the way, which the model has as the code has them and
whose properties are stated around them:

- the debugger returns `WAI_OK` after the step of an empty program failed, as if
  the user had quit (`FailureEndsSession` states it), and the core fails on an
  empty program with another error than the C engine (`MCRun`);
- the line of a parse error counts no empty line before it
  (`ErrorPointsAtFirstFault` counts as `strtok_r` does);
- a source whose first four bytes are those of the magic, a label `WAI0` for
  instance, is refused by every command but `asm` (`SourcesAreTaken`);
- a killed or failed `asm` has already lost the old file, and an empty file
  loads as the empty program (`NothingElseIsLoaded`);
- the UI leaves the terminal raw when a write fails right after it was set raw
  (`TerminalRestored`), reads no key while a command runs, exits with 0 if it
  could not set the terminal back, and after the debugger shows two lines with the old scroll
  position (`ScrollWithinOutput`).

Bounds. A program of three or four instructions is long enough to set both
registers and meet any instruction, to call, return and overwrite a return index,
and to overflow (four pushes) and underflow a stack of three cells, in loops of
any length since programs may jump back. Four source lines have a reference
before and after its label, a duplicate, an unknown label, and an error after an
empty line or behind another error; the first capacity of the tables is two, so
they grow. Programs in files have up to two records and the limit on a count
(`MaxCount`) is 8, so a header can exceed it, cut a record, and exceed the file;
two processes give each race of the code, which involves one writer and one
other. In `Tui`, `PageSize` is 2 and outputs have 3 lines, so paging meets both
ends; `MaxEdits` is 1, which makes a cached file stale, and `MaxPending` is 2, so
that a key is read alone or with another. `tui` has seven of the keys, one of
each kind (a mode, a selection, a scroll, a clear, a command chosen by Enter or
by its letter, the debugger); the theorems about `Tui` hold for all of them.

The state spaces of the VM runs are finite without any constraint: all data is of
fixed width and `print_count` wraps as it does in C. There, where a program may
stop for good (the machine failed, the process died, the core returned) the
specification stutters explicitly, so deadlock stays checked. `assembler`,
`files` and `tui` are about programs that end, so deadlock is not checked there.

## 4. Fairness

`TraceSpec` has weak fairness of the loop, `DebugSpec` of the loop inside
`continue`: one thread runs it and nothing else can stop it. No fairness is
assumed of the debugger's user, and none is used by a safety property.
`ContinueComesBack` therefore says: once `continue` runs and every jump, call
and return carries a breakpoint, the prompt comes back, or the session ends, or
the process dies of a trap. Without the breakpoints the property is false, and
rightly so: an endless program keeps `continue` running.

`TuiFairSpec` has weak fairness of the main loop, which runs in one thread, and of
nothing else: `runner.rs` sets no time limit, so a command may run for ever, and
the user owes no key. `LoneQuitExits` therefore says of a `q` that is alone in the
buffer: the interface exits, unless more is typed before the `q` is read (then it
may be dropped, which `tui_burst` shows), or the interface waits for ever for a
command that does not end. Nothing is claimed of a debugger session's end.

## 5. Proofs

Every invariant and every action property that a passing run checks, and both
refinements, are theorems proved with TLAPS: for every `ByteBits`, `ValueSize`,
`RegisterCount`, every `MemorySize` that is a multiple of the value size, and
every set of programs, sources, files and lists. What is assumed of the
constants, each an `ASSUME` that TLC evaluates on the runs:

| assumption | says | why the code justifies it |
|---|---|---|
| `WordAssumption`, `MachineAssumption` | sizes are positive, memory is a multiple of a value, and holds one | 8 bits, 8 bytes, 8 registers, 65536 bytes |
| `ProgramsAssumption` | programs are sequences of instructions | what the three sources of a program can yield |
| `ProgramsFit` | a program has fewer instructions than a value counts | an index is pushed as a value; below 2^63 |
| `LimitsAssumption`, `MaxStepsAssumption` | limits are naturals; memory and the most bytes `mem` prints add up to no more than a word counts | `size_t`, `uint64_t`; 65536 + 256 |
| `SourcesAssumption` | a source is a sequence of lines, fewer than a value counts | |
| `FilesAssumption` | what a source assembles to is a program; an initial file is missing, a source, or cells | nothing is assumed about an initial file's bytes |
| `TuiAssumption` | the list is a sequence, sizes are naturals | the list may be empty |

`CoreImplementsStepper` has one hypothesis beside them, `<<>> \notin Programs`:
the two engines answer an empty program with different errors (section 3), so
without it the statement is false.

| module | theorem | states |
|---|---|---|
| `VmProofs` | `TypeCorrect` | `Spec => []TypeOK` |
| | `StackStaysInMemory` | `Spec => []StackInMemory` |
| | `IpStaysInProgram` | `Spec => []IpInProgram` |
| | `ErrorIsTheResult` | `Spec => []ErrorMatchesResult` |
| | `FaultsHaveNoEffect` | `Spec => FaultHasNoEffect` |
| | `BytesAlwaysRoundTrip` | `Spec => []BytesRoundTrip` |
| | `StackImplemented` | `Spec => ImplementsStack` |
| | `CheckersAlwaysAgree` | `Spec => []CheckersAgree` |
| | `VerifierSound` | `Spec => []AcceptedFaultsAreDynamic` |
| | `RejectionsAreFaults` | `Spec => RejectedMeansFault` |
| `AsmCoreProofs` | `CalleeSavedAreRestored` | `Spec => []CalleeSavedRestored` |
| | `NativeStackHasItsShape` | `Spec => []NativeStackShape` |
| | `ResultTellsError` | `Spec => []ResultMatchesError` |
| | `ExitCodeTellsOutcome` | `RunSpec => []ExitTellsOutcome` |
| `AsmRefinementProofs` | `CoreImplementsStepper` | for `<<>> \notin Programs`: `Spec \/ RunSpec => RefinesStepper` |
| `CallerProofs` | `VerdictIsTrue` | `TraceSpec => []VerdictExplains` |
| | `CallersKeepTheStack` | `TraceSpec` and `DebugSpec` imply `ImplementsStack` |
| | `InspectionStaysInBounds` | `DebugSpec => []InspectionInBounds` |
| | `FailureIsReported` | `DebugSpec => []FailureEndsSession` |
| `AssemblerProofs` | `FixupsStayInProgram` | `Spec => []FixupsInProgram` |
| | `AssemblerTypeCorrect` | `Spec => []AssemblerTypeOK` |
| | `AssembledIsRefusable` | `Spec => []AssembledErrors` |
| | `ListingsAssemble` | `Spec => []ListingReassembles` |
| | `AssemblyIsMeaning` | `Spec => []AssemblesNamesThatFit` |
| | `ErrorsPointAtFaults` | `Spec => []ErrorPointsAtFirstFault` |
| `FileProofs` | `TypesAreCorrect` | `FileSpec => []FileTypeOK` |
| | `WholeFilesAreAccepted` | `FileSpec => []AcceptedIsWhole` |
| | `SuccessWritesAll` | `FileSpec => []SuccessIsComplete` |
| | `OnlyTheLastIsLoaded` | `FileSpec => []NothingElseIsLoaded` |
| | `InfoShowsTheCount` | `FileSpec => []InfoCountsInstructions` |
| | `SourcesAreLoaded` | `FileSpec => []SourcesAreTaken` |
| | `RefusalsLeaveTheFile` | `FileSpec => RefusedKeepsFile` |
| `TuiProofs` | `TerminalIsRestored` | `TuiSpec => []TerminalRestored` |
| | `TuiTypesAreCorrect` | `TuiSpec => []TuiTypeOK` |
| | `OutputIsTrue` | `TuiSpec => []OutputIsAbout` |
| | `ScrollStaysInOutput` | `TuiSpec => []ScrollWithinOutput` |

The arguments.

- `WordProofs` has the lemmas about the width: a cast always yields a value, a
  byte of a value is a byte, and the two accumulator loops stay naturals. They
  need induction over recursive functions, which is done with the
  well-foundedness of `<` on the naturals on the set of counterexamples
  (`SetInduction`, `LeastExists`). The round trip of bytes is one more such
  induction: after `n` bytes the load's sum is the stored number's remainder by
  the `n`-th place (`NextDigit`), and after all of them the number
  (`BytesRecompose`). Its converse, that bytes determine the value
  (`BytesDetermined`), is what files need.
- `VmProofs`, the invariant. None of the invariants of `Vm` is inductive alone.
  `TypeOK` needs `IpInProgram`, or the fetched instruction is no instruction; it
  needs `StackInMemory`, or a pop reads bytes that do not exist;
  `ErrorMatchesResult` needs to know that a NULL program never halted. `IInv` is
  their conjunction with that fact, split into `DataInv` and `ControlInv` because
  an action ends in one of three ways (`Goto`, `Advance`, `Fault`) that keep
  `ControlInv` alike, whatever it does to data. `StackInMemory` is inductive
  because a multiple of the value size that is at least one value size leaves a
  multiple when one is subtracted (`MultipleStep`), so the check push lacks at
  the upper end and pop at the lower one follow.
- `VmProofs`, the stack. `StackOf` reads the cells of memory above sp through
  the byte loops. A push writes a cell that is read back as what was pushed, and
  no other cell overlaps it; a store of the program may hit one cell, or two when
  its address is not aligned, and is an operation of the abstract stack too. A
  return index survives being pushed as a value only because of `ProgramsFit`.
- `VmProofs`, the checkers. The tables of the two checkers agree opcode by opcode
  (`TablesAgree`), the order of the checks cannot matter, and both scans stop at
  the same least index. An accepted program contains no instruction the verifier
  objects to, and each fault action but the dynamic ones needs such an
  instruction. Conversely, a fetched instruction that is objected to leads to no
  step but the fault with that error, if it is not a jump that is not taken and
  more than the reserved byte is wrong.
- `AsmCoreProofs`. `NativeStackShape` only gives the height of the native stack;
  a helper jumps to the slot on top, so `NativeInv` says what that slot is: a
  position of a route. Every place execution can be at is entry, the end, a place
  with the bare frame, a place with one return position above it, or the aligned
  call of print; each action goes from one kind to another, and the error labels
  that drop a slot are exactly those reached from a helper. This says nothing of
  data. `CoreInv` adds `FlowInv`: when a name of an opcode's route is to run, the
  registers carry what the names before it have left there (a checked register's
  index, the operand, the checked target, a popped value), and at an error label
  the instruction has the defect the label reports (`Cause`). It is stated over
  names of the route, not positions, with the successor relation proved once for
  each pair of names, and it is what the exit code and the refinement rest on:
  without it, nothing relates the block that writes a result to the check, some
  helper calls earlier, that its operand was in range. `ExitTellsOutcome` is read
  off the machine as the failure left it, so the proof also needs that nothing the
  instruction did before it failed changed what it failed by: `CauseFails` goes,
  error by error, from the cause at the label to what the machine still shows,
  `FlowInv` keeps that from the moment the error is recorded (`ErrorTells`), and
  `ErrorTellsStays` takes it through the epilogue.
- `AsmRefinementProofs`. The mapping shows an instruction's effect at once, at
  the block after which it cannot fail any more, and hides what the core does
  before and after: sp moved by a pop whose index is still to be checked, the
  flag that a later helper computes. So each block has one of three proofs: it
  prepares (a stutter), it is the step of `Vm`, or it catches up with what has
  been shown (a stutter). `Same...` lemmas say that operators instantiated for the
  stepper are those of the core.
- `CallerProofs` builds on `IInv`: both loops make steps of `Vm`. `TraceInv` adds
  the result of the last step, `SessionInv` that a session that goes on has
  returned nothing and that an empty program records no error. The stack listing
  stays inside memory because sp is an address whatever the program did. That both
  callers only step is what lets the stack's refinement hold of them.
- `AssemblerProofs`, three invariants one above the other. `AsmInv` states of
  program and pending references (`Fixups`) that the references point, in order,
  at exactly the instructions that take a label; `PushKeepsFixups` is the step of
  the first pass, where index and instruction are added by different functions,
  `WriteKeepsFixups` that of the second. From it, the unchecked write of
  `resolve_pending` is inside the program. `Shape` states what each parser can
  make of a line (`Made`: registers exist, unused operands are zero) and that
  targets are at most the program's length, the one index too many being a label
  after the last instruction; with the tables of mnemonics compared entry by
  entry, a listing parses to what was listed. `Understood` relates the tables to
  the source: for the lines read so far none is at fault, labels and references
  stand for the label lines and the lines that refer, in order and with their
  counts, and the first `resolved` references have been written. It uses that a
  name is in the table exactly if it fits, which is where `assembler_long` goes
  wrong without `NamesFit`. At the end of either pass, or at the first line or
  reference that fails, the one-pass reading of the source (`Meaning`,
  `FirstFault`) can be read off.
- `FileProofs`. `FileInv` is about any number of processes. `WriterInv`: as long
  as only one writer has been at the file since it was opened for writing, the
  file is a prefix of its image, perhaps with a torn end. `ProcInv` says what a
  process may conclude from cells it read at different times: a reader that no
  truncation disturbed has decoded the records of the file as it is now, although
  the file may have grown since, because a file that only grows takes nothing
  from those who read it. A record that is accepted is the encoding of what it
  gave (the bytes determine the instruction), so a whole file that is accepted is
  the image of the program, and two programs with one image are the same.
- `TuiProofs`. `GuardInv`: the guard is armed inside the main loop and neither
  before the terminal is taken nor while the debugger has it, and the terminal is
  raw exactly while the guard is armed, after `stty` refused to give the mode
  back, and after the failure between `stty raw` and the guard, which ends the
  program.
  `AppInv` adds what the loop keeps: while a child runs, the command it runs is
  about one program whose text may only have become newer, and if that is an
  `info` of a source then the file cached under the program's stem is that
  program's. That last part is why the output cannot be of another program with
  the same stem, although both write one file.

Not proved, only model-checked: the three liveness properties (`TraceTerminates`,
`ContinueComesBack`, `LoneQuitExits`), which rest on weak fairness, beyond the
prover. What the five violations refute is no theorem, of course. For all the
rest the runs and the theorems state the same formulas: the runs show that the
cases happen and that a change of the code breaks them, the theorems that the
bounds of section 3 hide nothing.

Plan for what is left to prove: step-by-step measures for the three liveness
properties (an action property that each step of a loop decreases a bound, the
part of termination that needs no fairness), and the composition of the file's
programs with the assembler's results.

## 6. Not modelled

- Wording: messages, trace lines, the index column and the spacing of listings,
  the name tables of opcodes and errors, the drawing of the UI (`ui.rs`).
- Characters: the assembler's scanners (`trim`, `tokenize`, `strtoll`) are
  modelled by the tokens they yield. A label behind the largest value, which the
  code tests for, needs a source of that many lines and is excluded by
  `SourcesAssumption`.
- Debugger input as text: the commands are modelled, not their spelling; `fgets`
  takes 255 characters, so the rest of a longer line would be another command,
  which the model has as a command the user types.
- Below system calls: a torn cell is only modelled for a writer that is alone,
  blocks of stdio that end inside a record only as torn cells, and nothing of the
  page cache or a crash of the operating system.
- In the UI: the help flag (kept by the code for drawing only), argument parsing,
  the search for programs and for the executable, and switching to the alternate
  screen.
- The benchmark and quality scripts and the tests, which were read as evidence
  of what the code promises. A listing of a jump prints an index where the
  assembler takes only a name; `ListingReassembles` says so.
