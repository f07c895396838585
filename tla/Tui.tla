--------------------------------- MODULE Tui ---------------------------------
(***************************************************************************)
(* waivm-tui: the main loop (main.rs), its application state (app.rs), the *)
(* waivm processes it runs and waits for (runner.rs), and the terminal it  *)
(* puts in raw mode (term.rs).  The user types, and edits the programs     *)
(* while the interface runs.                                               *)
(***************************************************************************)
EXTENDS Integers, Sequences, FiniteSetsExt

CONSTANTS
    Programs,       \* a sequence: for each listed program its stem and form
    PageSize,       \* 10
    OutputLengths,  \* numbers of lines a command may print
    Keys,           \* bound: the keys the user types, of Key
    MaxPending,     \* bound: keys typed and not read yet (8 bytes are read at once)
    MaxEdits        \* bound: edits of each program

(* An escape sequence is one key of several bytes; the others have one.    *)
EscapeKeys == {"down", "up", "right", "left", "pageup", "pagedown", "home", "end"}
CommandKeys == {"run", "trace", "verify", "dis", "info"}
CharKeys == {"quit", "help", "clear", "enter", "debug"} \cup CommandKeys
Key == EscapeKeys \cup CharKeys

Actions == <<"run", "trace", "verify", "dis", "info">>

(* What is listed are files, by their names without the extension. *)
ASSUME TuiAssumption ==
    /\ Programs \in Seq([stem : STRING, form : {"source", "bytecode"}])
    /\ PageSize \in Nat /\ OutputLengths \subseteq Nat
    /\ Keys \subseteq Key
    /\ MaxPending \in Nat /\ MaxEdits \in Nat

VARIABLES
    pc, exitCode,
    mode, saved, active,    \* the terminal's mode, and the TerminalGuard
    refused,    \* history: stty would not give the mode back, so it was not
    unguarded,  \* history: raw was set, and an error came before the guard was armed
    input,      \* keys typed and not read
    selected, action, quit,     \* App; selected counts from 1, show_help is left out
    output, scroll,         \* the length of the output, the first line shown
    command,    \* what is being executed: the program's index and edition
    edition,    \* how often each program has been edited
    cache,      \* .waivm-tui/<stem>.waibc: the program and edition in it
    shown       \* what the output is about

guardVars == <<mode, saved, active, refused, unguarded>>
appVars == <<selected, action, quit>>
fileVars == <<edition, cache>>
childVars == <<command, shown>>
tuiVars == <<pc, exitCode, guardVars, input, appVars, output, scroll, childVars, fileVars>>

Nothing == [program |-> 0, edition |-> 0]
Stems == {Programs[i].stem : i \in DOMAIN Programs}

TuiInit ==
    /\ pc = "start" /\ exitCode = 0
    /\ mode = "user" /\ saved = "none" /\ active = FALSE
    /\ refused = FALSE /\ unguarded = FALSE
    /\ input = <<>>
    /\ selected = 1 /\ action = 1 /\ quit = FALSE
    /\ output = 2 /\ scroll = 0
    /\ command = Nothing /\ shown = [asked |-> Nothing, of |-> Nothing]
    /\ edition = [i \in DOMAIN Programs |-> 0]
    /\ cache = [s \in Stems |-> Nothing]

----------------------------------------------------------------------------
(* TerminalGuard.  `stty -g` may fail, and then there is no mode to go     *)
(* back to but "sane", whose own failure is ignored.                       *)
RestoredMode == IF saved = "none" THEN "sane" ELSE saved

(* set_raw_mode succeeds, and writing to the terminal does not: the error  *)
(* returns while nothing is armed that would undo it.                      *)
LeftRaw == mode' = "raw" /\ unguarded' = TRUE /\ UNCHANGED <<active, refused>>

(* enter: the guard exists only once everything has succeeded. *)
EnterTerminal ==
    /\ pc = "start"
    /\ saved' \in {"none", "user"}
    /\ \/ /\ pc' = "draw" /\ mode' = "raw" /\ active' = TRUE
          /\ UNCHANGED <<exitCode, refused, unguarded>>
       \/ /\ pc' = "exited" /\ exitCode' = 1
          /\ LeftRaw \/ UNCHANGED <<mode, active, refused, unguarded>>
    /\ UNCHANGED <<input, appVars, output, scroll, childVars, fileVars>>

GivenBack == mode' = RestoredMode /\ active' = FALSE /\ refused' = FALSE

(* Drop: leave, its error ignored. *)
Exit(code) ==
    /\ pc' = "exited" /\ exitCode' = code
    /\ \/ active /\ GivenBack
       \/ active /\ refused' = TRUE /\ UNCHANGED <<mode, active>>
       \/ ~active /\ UNCHANGED <<mode, active, refused>>
    /\ UNCHANGED <<saved, unguarded>>

----------------------------------------------------------------------------
(* Mutant of Draw: should_quit is not looked at. *)
DrawAlways ==
    /\ pc = "draw"
    /\ \/ pc' = "read" /\ UNCHANGED <<exitCode, guardVars>>
       \/ Exit(1)
    /\ UNCHANGED <<input, appVars, output, scroll, childVars, fileVars>>

(* The main loop: draw, leave if told to, read a key. *)
Draw ==
    /\ pc = "draw"
    /\ \/ pc' = "read" /\ ~quit /\ UNCHANGED <<exitCode, guardVars>>
       \/ quit /\ Exit(0)
       \/ Exit(1)
    /\ UNCHANGED <<input, appVars, output, scroll, childVars, fileVars>>

(* read_key takes everything that was typed, and parse_key recognises one  *)
(* character, or an escape sequence and ignores what follows it.           *)
ParsedKey ==
    IF Len(input) = 1 \/ input[1] \in EscapeKeys THEN input[1] ELSE "unknown"

NothingTyped ==
    /\ pc = "read"
    /\ \/ input = <<>> /\ pc' = "draw" /\ UNCHANGED <<exitCode, guardVars>>
       \/ Exit(1)
    /\ UNCHANGED <<input, appVars, output, scroll, childVars, fileVars>>

Takes(keys) == pc = "read" /\ input # <<>> /\ ParsedKey \in keys /\ input' = <<>>
Redraw == pc' = "draw" /\ UNCHANGED <<exitCode, guardVars, fileVars>>

HandleMode ==
    /\ Takes({"quit", "help", "unknown"}) /\ Redraw
    /\ quit' = (quit \/ ParsedKey = "quit")
    /\ UNCHANGED <<selected, action, output, scroll, childVars>>

(* Mutant of Cycle: the index does not come round. *)
CycleUnbounded(n, size, by) == n + by

Cycle(n, size, by) == ((n - 1 + by + size) % size) + 1
HandleSelect ==
    /\ Takes({"down", "up", "right", "left"}) /\ Redraw
    /\ selected' = IF Len(Programs) = 0 THEN selected
                   ELSE CASE ParsedKey = "down" -> Cycle(selected, Len(Programs), 1)
                          [] ParsedKey = "up" -> Cycle(selected, Len(Programs), -1)
                          [] OTHER -> selected
    /\ action' = CASE ParsedKey = "right" -> Cycle(action, 5, 1)
                   [] ParsedKey = "left" -> Cycle(action, 5, -1)
                   [] OTHER -> action
    /\ UNCHANGED <<quit, output, scroll, childVars>>

(* Mutant of LastLine: the line after the last one. *)
LineAfterLast == output

LastLine == Max({0, output - 1})
HandleScroll ==
    /\ Takes({"pageup", "pagedown", "home", "end", "clear"}) /\ Redraw
    /\ scroll' = CASE ParsedKey = "pageup" -> Max({0, scroll - PageSize})
                   [] ParsedKey = "pagedown" -> Min({scroll + PageSize, LastLine})
                   [] ParsedKey = "end" -> LastLine
                   [] OTHER -> 0
    /\ output' = IF ParsedKey = "clear" THEN 0 ELSE output
    /\ shown' = IF ParsedKey = "clear" THEN [shown EXCEPT !.of = Nothing] ELSE shown
    /\ UNCHANGED <<appVars, command>>

(* execute_action, up to the child it waits for: info assembles a source   *)
(* into the cache first.                                                   *)
Asked == [program |-> selected, edition |-> edition[selected]]
KeyAction == IF ParsedKey = "enter" THEN action
             ELSE CHOOSE a \in 1..5 : Actions[a] = ParsedKey
(* Mutant of NeedsAsm: a bytecode file that is already there is used. *)
NeedsAsmOnce(a, i) ==
    /\ Actions[a] = "info" /\ Programs[i].form = "source"
    /\ cache[Programs[i].stem] = Nothing

NeedsAsm(a, i) == Actions[a] = "info" /\ Programs[i].form = "source"

HandleCommand ==
    /\ Takes(CommandKeys \cup {"enter"})
    /\ action' = KeyAction
    /\ IF Len(Programs) = 0 THEN pc' = "draw" /\ UNCHANGED command
       ELSE /\ pc' = IF NeedsAsm(KeyAction, selected) THEN "asm" ELSE "child"
            /\ command' = Asked
    /\ UNCHANGED <<exitCode, guardVars, selected, quit, output, scroll, shown,
                   fileVars>>

Shows(of) ==
    /\ output' \in OutputLengths /\ scroll' = 0
    /\ shown' = [asked |-> command, of |-> of] /\ command' = Nothing

(* `waivm asm`: it fails, or it replaces the cached file. *)
AsmEnds ==
    LET stem == Programs[command.program].stem
    IN  /\ pc = "asm"
        /\ \/ /\ pc' = "draw" /\ Shows(Nothing)
              /\ cache' \in {cache, [cache EXCEPT ![stem] = Nothing]}
           \/ /\ pc' = "child"
              /\ cache' = [cache EXCEPT ![stem] =
                    [command EXCEPT !.edition = edition[command.program]]]
              /\ UNCHANGED <<output, scroll, childVars>>
        /\ UNCHANGED <<exitCode, guardVars, input, appVars, edition>>

ReadBy(a, i) ==
    IF Actions[a] = "info" /\ Programs[i].form = "source" THEN cache[Programs[i].stem]
    ELSE [program |-> i, edition |-> edition[i]]

(* The child ends, and its output is shown. *)
ChildEnds ==
    /\ pc = "child"
    /\ Shows(ReadBy(action, command.program))
    /\ Redraw
    /\ UNCHANGED <<input, appVars>>

(* x: suspend leaves the terminal to the debugger, though `stty sane` may  *)
(* have failed; any other failure is returned, and the guard is dropped.   *)
HandleDebug ==
    /\ Takes({"debug"})
    /\ UNCHANGED <<appVars, output, scroll, childVars, fileVars, saved, unguarded>>
    /\ IF Len(Programs) = 0
       THEN pc' = "draw" /\ UNCHANGED <<exitCode, mode, active, refused>>
       ELSE \/ pc' = "debug" /\ GivenBack /\ UNCHANGED exitCode
            \/ /\ pc' = "debug" /\ saved = "none" /\ refused' = TRUE /\ active' = FALSE
               /\ UNCHANGED <<exitCode, mode>>
            \/ Exit(1)

(* Mutant of Reenters: the guard is not armed again. *)
ReentersUnarmed == mode' = "raw" /\ UNCHANGED <<active, refused, unguarded>>
Reenters == mode' = "raw" /\ active' = TRUE /\ UNCHANGED <<refused, unguarded>>

(* The debugger is left, the user presses Enter, and the terminal is taken *)
(* again; the output is replaced, not scrolled back.  println! panics when *)
(* its write fails; reenter returns its error, and leave finds the guard   *)
(* not armed.                                                              *)
DebuggerLeft ==
    /\ pc = "debug"
    /\ \/ pc' = "draw" /\ Reenters /\ output' = 2 /\ UNCHANGED exitCode
       \/ /\ pc' = "exited" /\ UNCHANGED output
          /\ \/ exitCode' \in {1, 101} /\ UNCHANGED <<mode, active, refused, unguarded>>
             \/ exitCode' = 1 /\ LeftRaw
    /\ shown' = [shown EXCEPT !.of = Nothing]
    /\ UNCHANGED <<saved, input, appVars, scroll, command, fileVars>>

(* The debugger could not be started: the error leaves the main loop after *)
(* the terminal has been taken again.                                      *)
DebuggerFails ==
    /\ pc = "debug"
    /\ pc' = "failing" /\ Reenters
    /\ UNCHANGED <<exitCode, saved, input, appVars, output, scroll, childVars, fileVars>>
FailureExits ==
    /\ pc = "failing" /\ Exit(1)
    /\ UNCHANGED <<input, appVars, output, scroll, childVars, fileVars>>

----------------------------------------------------------------------------
(* The user: types, unless the debugger has the keyboard, and edits. *)
Type ==
    /\ pc \in {"draw", "read", "asm", "child"} /\ Len(input) < MaxPending
    /\ \E key \in Keys : input' = Append(input, key)
    /\ UNCHANGED <<pc, exitCode, guardVars, appVars, output, scroll, childVars, fileVars>>
Edit ==
    /\ pc # "exited"
    /\ \E i \in DOMAIN Programs :
          edition[i] < MaxEdits /\ edition' = [edition EXCEPT ![i] = @ + 1]
    /\ UNCHANGED <<pc, exitCode, guardVars, input, appVars, output, scroll, childVars, cache>>

Handle == HandleMode \/ HandleSelect \/ HandleScroll \/ HandleCommand \/ HandleDebug
Interface == EnterTerminal \/ Draw \/ NothingTyped \/ Handle \/ FailureExits
Children == AsmEnds \/ ChildEnds
TuiNext == Interface \/ Children \/ DebuggerLeft \/ DebuggerFails \/ Type \/ Edit

TuiSpec == TuiInit /\ [][TuiNext]_tuiVars
(* The interface keeps running; a command it waits for may never end. *)
TuiFairSpec == TuiSpec /\ WF_tuiVars(Interface)

----------------------------------------------------------------------------
(* The type invariant. *)
TuiTypeOK ==
    /\ mode \in {"user", "sane", "raw"} /\ saved \in {"none", "user"}
    /\ selected \in 1..Max({1, Len(Programs)}) /\ action \in 1..Len(Actions)
    /\ scroll \in Nat /\ output \in Nat
    /\ input \in Seq(Keys) /\ Len(input) <= MaxPending

(* A way out gives the terminal back in the mode it had, or in a sane one  *)
(* when that could not be read; it leaves it raw when stty refuses, and    *)
(* when the write that follows `stty raw` fails, in enter or in reenter:   *)
(* then no guard is armed, and the code does leave it raw.                 *)
TerminalRestored ==
    pc = "exited" =>
        /\ mode = "raw" <=> refused \/ unguarded
        /\ mode = "sane" => saved = "none"

(* The output of a command is about the program that was selected when the *)
(* key was typed, no older than its text was then, though info goes        *)
(* through a bytecode file whose name programs share.                      *)
OutputIsAbout ==
    shown.of # Nothing =>
        /\ shown.of.program = shown.asked.program
        /\ shown.of.edition >= shown.asked.edition

(* A q that is alone in the terminal's buffer is acted on, whatever was    *)
(* typed and read before it: the interface exits, unless more is typed     *)
(* before the q is read, or the command it waits for never ends.           *)
LoneQuitExits ==
    [](input = <<"quit">> =>
        <>(pc = "exited" \/ Len(input) > 1 \/ [](pc \in {"asm", "child"})))

(* docs/terminal-ui.md:68: q or Esc quit. *)
QuitIsHeard == (\E i \in 1..Len(input) : input[i] = "quit") ~> (pc = "exited")

(* The first line shown is a line of the output, so that every PageUp      *)
(* scrolls (docs/terminal-ui.md:65), however keys and commands follow each *)
(* other: except that the two lines that replace the output after the      *)
(* debugger leave the old position behind.                                 *)
ScrollWithinOutput ==
    scroll = 0 \/ scroll < output \/ (output = 2 /\ shown.of = Nothing)
=============================================================================
