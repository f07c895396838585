------------------------------ MODULE TuiProofs ------------------------------
(***************************************************************************)
(* The terminal of the user and what the interface shows, for every list   *)
(* of programs, whatever is typed and whatever fails.                      *)
(***************************************************************************)
EXTENDS Tui, TLAPS

(* The guard is armed inside the main loop and nowhere before it, while    *)
(* the debugger has the terminal, or after the end; the terminal is raw    *)
(* exactly while the guard is armed, when stty refused to give the mode    *)
(* back, and when an error came between `stty raw` and the guard.          *)
MainLoop == {"draw", "read", "asm", "child", "failing"}
GuardInv ==
    /\ saved \in {"none", "user"}
    /\ pc \in MainLoop \cup {"start", "debug", "exited"}
    /\ pc \in MainLoop => active
    /\ pc = "start" => mode = "user" /\ ~active
    /\ pc = "debug" => ~active
    /\ pc = "exited" => (active => refused)
    /\ mode = "raw" <=> active \/ refused \/ unguarded
    /\ unguarded => pc = "exited"
    /\ mode = "sane" => saved = "none"

LEMMA RestoredIsNotRaw ==
    ASSUME saved \in {"none", "user"}
    PROVE  RestoredMode # "raw" /\ (RestoredMode = "sane" => saved = "none")
BY DEF RestoredMode

LEMMA ExitKeeps ==
    ASSUME GuardInv, pc \in MainLoop, NEW code, Exit(code)
    PROVE  GuardInv'
BY RestoredIsNotRaw DEF GuardInv, Exit, GivenBack, MainLoop

(* The terminal is not touched, and control stays inside the main loop. *)
LEMMA StaysInside ==
    ASSUME GuardInv, pc \in MainLoop, pc' \in MainLoop, UNCHANGED guardVars
    PROVE  GuardInv'
BY DEF GuardInv, guardVars, MainLoop

LEMMA InitEstablishes == TuiInit => GuardInv
BY DEF TuiInit, GuardInv, MainLoop

LEMMA NextKeeps == GuardInv /\ [TuiNext]_tuiVars => GuardInv'
<1> SUFFICES ASSUME GuardInv, [TuiNext]_tuiVars PROVE GuardInv'
  OBVIOUS
<1>1. CASE EnterTerminal
  BY <1>1 DEF EnterTerminal, LeftRaw, GuardInv, MainLoop
<1>2. CASE Draw \/ NothingTyped
  BY <1>2, ExitKeeps, StaysInside DEF Draw, NothingTyped, MainLoop
<1>3. CASE HandleMode \/ HandleSelect \/ HandleScroll
  BY <1>3, StaysInside DEF HandleMode, HandleSelect, HandleScroll, Takes, Redraw,
     MainLoop
<1>4. CASE HandleCommand
  BY <1>4, StaysInside DEF HandleCommand, Takes, MainLoop
<1>5. CASE AsmEnds \/ ChildEnds
  BY <1>5, StaysInside DEF AsmEnds, ChildEnds, Redraw, MainLoop
<1>6. CASE HandleDebug
  <2>1. pc = "read" /\ pc \in MainLoop /\ saved' = saved /\ unguarded' = unguarded
    BY <1>6 DEF HandleDebug, Takes, MainLoop
  <2>2. CASE Exit(1)
    BY <2>1, <2>2, ExitKeeps
  <2>3. CASE pc' = "debug" /\ GivenBack
    BY <2>1, <2>3, RestoredIsNotRaw DEF GivenBack, GuardInv, MainLoop
  <2>4. CASE pc' = "debug" /\ refused' = TRUE /\ active' = FALSE /\ UNCHANGED mode
    BY <2>1, <2>4 DEF GuardInv, MainLoop
  <2>5. CASE pc' = "draw" /\ UNCHANGED <<mode, active, refused>>
    BY <2>1, <2>5, StaysInside DEF guardVars, MainLoop
  <2> QED
    BY <1>6, <2>2, <2>3, <2>4, <2>5 DEF HandleDebug
<1>7. CASE DebuggerLeft
  BY <1>7 DEF DebuggerLeft, Reenters, LeftRaw, GuardInv, MainLoop
<1>8. CASE DebuggerFails
  BY <1>8 DEF DebuggerFails, Reenters, GuardInv, MainLoop
<1>9. CASE FailureExits
  BY <1>9, ExitKeeps DEF FailureExits, MainLoop
<1>10. CASE Type \/ Edit \/ UNCHANGED tuiVars
  BY <1>10 DEF Type, Edit, tuiVars, guardVars, GuardInv
<1> QED
  BY <1>1, <1>2, <1>3, <1>4, <1>5, <1>6, <1>7, <1>8, <1>9, <1>10
     DEF TuiNext, Interface, Handle, Children

(* Every way out gives the terminal back in the mode it had, or in a sane  *)
(* one when that could not be read; it is left raw exactly when stty       *)
(* refused, or when the write after a successful `stty raw` failed.        *)
THEOREM TerminalIsRestored == TuiSpec => []TerminalRestored
<1>1. GuardInv => TerminalRestored
  BY DEF GuardInv, TerminalRestored
<1> QED
  BY InitEstablishes, NextKeeps, <1>1, PTL DEF TuiSpec


----------------------------------------------------------------------------
(* The interface's own state.  An edition is how often a program has been  *)
(* edited; a command is about a listed program, no later than its text.    *)
About == [program : Nat, edition : Nat]
Waiting == {"asm", "child"}

AppTypes ==
    /\ pc \in {"start", "draw", "read", "asm", "child", "debug", "failing", "exited"}
    /\ mode \in {"user", "sane", "raw"} /\ saved \in {"none", "user"}
    /\ input \in Seq(Keys) /\ Len(input) <= MaxPending
    /\ selected \in 1..Max({1, Len(Programs)}) /\ action \in 1..5
    /\ output \in Nat /\ scroll \in Nat
    /\ edition \in [DOMAIN Programs -> Nat]
    /\ cache \in [Stems -> About]
    /\ command \in About /\ shown \in [asked : About, of : About]

(* While a command runs it is about one program, whose text may have been  *)
(* edited since; when it is an `info` on a source that has been assembled, *)
(* the cached file is that program's.                                      *)
CommandInv ==
    pc \in Waiting =>
        /\ command.program \in DOMAIN Programs
        /\ command.edition <= edition[command.program]
        /\ NeedsAsm(action, command.program) /\ pc = "child" =>
              /\ cache[Programs[command.program].stem].program = command.program
              /\ cache[Programs[command.program].stem].edition >= command.edition

AppInv == AppTypes /\ CommandInv /\ OutputIsAbout /\ ScrollWithinOutput

(* The larger, or the smaller, of two numbers. *)
LEMMA TwoNumbers ==
    ASSUME NEW m \in Int, NEW n \in Int
    PROVE  /\ Max({m, n}) \in {m, n} /\ Max({m, n}) >= m /\ Max({m, n}) >= n
           /\ Min({m, n}) \in {m, n} /\ Min({m, n}) <= m /\ Min({m, n}) <= n
<1>1. \E x \in {m, n} : \A y \in {m, n} : x >= y
  <2>1. CASE m >= n
    BY <2>1
  <2>2. CASE n >= m
    BY <2>2
  <2> QED
    BY <2>1, <2>2
<1>2. \E x \in {m, n} : \A y \in {m, n} : x <= y
  <2>1. CASE m >= n
    BY <2>1
  <2>2. CASE n >= m
    BY <2>2
  <2> QED
    BY <2>1, <2>2
<1> QED
  BY <1>1, <1>2 DEF Max, Min

LEMMA CycleStays ==
    ASSUME NEW size \in Nat \ {0}, NEW n \in 1..size, NEW by \in {1, -1}
    PROVE  Cycle(n, size, by) \in 1..size
<1>1. n - 1 + by + size \in Nat
  OBVIOUS
<1>2. (n - 1 + by + size) % size \in 0 .. (size - 1)
  BY <1>1
<1> QED
  BY <1>2 DEF Cycle

(* What a step that shows nothing new has to keep. *)
LEMMA AppKeeps ==
    ASSUME AppInv, pc' \notin Waiting, AppTypes',
           UNCHANGED <<output, scroll, shown>>
    PROVE  AppInv'
BY DEF AppInv, CommandInv, OutputIsAbout, ScrollWithinOutput

LEMMA AppInit == TuiInit => AppInv
<1> SUFFICES ASSUME TuiInit PROVE AppInv
  OBVIOUS
<1>1. Nothing \in About
  BY DEF Nothing, About
<1>2. Len(Programs) \in Nat
  BY TuiAssumption
<1>3. Max({1, Len(Programs)}) \in Int /\ Max({1, Len(Programs)}) >= 1
  <2> DEFINE n == Len(Programs)
             one == 1
  <2>1. n \in Int /\ one \in Int /\ one >= 1
    BY <1>2
  <2> HIDE DEF n, one
  <2>2. Max({one, n}) \in {one, n} /\ Max({one, n}) >= one
    BY <2>1, TwoNumbers
  <2> QED
    BY <2>1, <2>2 DEF n, one
<1>4. <<>> \in Seq(Keys) /\ Len(<<>>) <= MaxPending
  BY TuiAssumption
<1>5. AppTypes
  BY <1>1, <1>3, <1>4 DEF TuiInit, AppTypes
<1> QED
  BY <1>5 DEF TuiInit, AppInv, CommandInv, Waiting, OutputIsAbout, ScrollWithinOutput

(* The guard's steps, and those that only take a key. *)
LEMMA ExitTypes ==
    ASSUME AppTypes, NEW code, Exit(code)
    PROVE  pc' = "exited" /\ mode' \in {"user", "sane", "raw"} /\ saved' \in {"none", "user"}
BY DEF Exit, GivenBack, RestoredMode, AppTypes

LEMMA EmptyInput ==
    ASSUME input' = <<>>
    PROVE  input' \in Seq(Keys) /\ Len(input') <= MaxPending
BY TuiAssumption

LEMMA GuardStepsKeep ==
    ASSUME AppInv, EnterTerminal \/ Draw \/ NothingTyped \/ FailureExits \/ DebuggerFails
    PROVE  AppInv'
<1>1. UNCHANGED <<input, appVars, output, scroll, childVars, fileVars>>
  BY DEF EnterTerminal, Draw, NothingTyped, FailureExits, DebuggerFails
<1>2. /\ pc' \in {"draw", "read", "failing", "exited"}
      /\ mode' \in {"user", "sane", "raw"} /\ saved' \in {"none", "user"}
  <2>1. AppTypes
    BY DEF AppInv
  <2>2. CASE EnterTerminal
    BY <2>1, <2>2 DEF EnterTerminal, LeftRaw, AppTypes
  <2>3. CASE Draw \/ NothingTyped
    BY <2>1, <2>3, ExitTypes DEF Draw, NothingTyped, guardVars, AppTypes
  <2>4. CASE FailureExits
    BY <2>1, <2>4, ExitTypes DEF FailureExits
  <2>5. CASE DebuggerFails
    BY <2>1, <2>5 DEF DebuggerFails, Reenters, AppTypes
  <2> QED
    BY <2>2, <2>3, <2>4, <2>5
<1>3. AppTypes'
  BY <1>1, <1>2 DEF AppInv, AppTypes, appVars, childVars, fileVars
<1> QED
  BY <1>1, <1>2, <1>3, AppKeeps DEF Waiting, childVars

(* How many programs are listed, and what bounds the selection. *)
LEMMA Listed ==
    /\ Len(Programs) \in Nat /\ DOMAIN Programs = 1..Len(Programs)
    /\ Len(Programs) # 0 => Max({1, Len(Programs)}) = Len(Programs)
<1> DEFINE n == Len(Programs)
           one == 1
<1>1. n \in Nat /\ DOMAIN Programs = 1..n /\ one = 1
  BY TuiAssumption
<1> HIDE DEF n, one
<1>2. Max({one, n}) \in {one, n} /\ Max({one, n}) >= one /\ Max({one, n}) >= n
  BY <1>1, TwoNumbers
<1>3. n # 0 => Max({one, n}) = n
  BY <1>1, <1>2
<1> QED
  BY <1>1, <1>3 DEF n, one

(* A key is taken. *)
LEMMA KeyTaken ==
    ASSUME AppInv, NEW keys, Takes(keys)
    PROVE  AppTypes /\ input' \in Seq(Keys) /\ Len(input') <= MaxPending
BY EmptyInput DEF Takes, AppInv

LEMMA HandleSelectKeeps ==
    ASSUME AppInv, HandleSelect
    PROVE  AppInv'
<1>1. /\ AppTypes /\ input' \in Seq(Keys) /\ Len(input') <= MaxPending
      /\ pc' = "draw" /\ UNCHANGED <<guardVars, fileVars, output, scroll, childVars>>
  BY KeyTaken DEF HandleSelect, Redraw
<1>2. Len(Programs) \in Nat
  BY TuiAssumption
<1>3. selected' \in 1..Max({1, Len(Programs)})
  <2>1. CASE Len(Programs) = 0
    <3>1. selected' = selected
      BY <2>1 DEF HandleSelect
    <3> QED
      BY <1>1, <3>1 DEF AppTypes
  <2>2. CASE Len(Programs) # 0
    <3>1. Max({1, Len(Programs)}) = Len(Programs)
      BY <2>2, Listed
    <3>2. selected \in 1..Len(Programs)
      BY <1>1, <3>1 DEF AppTypes
    <3>3. \A by \in {1, -1} : Cycle(selected, Len(Programs), by) \in 1..Len(Programs)
      BY <1>2, <2>2, <3>2, CycleStays
    <3>4. selected' \in {selected, Cycle(selected, Len(Programs), 1),
                         Cycle(selected, Len(Programs), -1)}
      BY DEF HandleSelect
    <3>5. /\ Cycle(selected, Len(Programs), 1) \in 1..Len(Programs)
          /\ Cycle(selected, Len(Programs), -1) \in 1..Len(Programs)
      BY <3>3
    <3> QED
      BY <3>1, <3>2, <3>4, <3>5
  <2> QED
    BY <2>1, <2>2
<1>4. action' \in 1..5
  <2>1. action \in 1..5
    BY <1>1 DEF AppTypes
  <2>2. Cycle(action, 5, 1) \in 1..5 /\ Cycle(action, 5, -1) \in 1..5
    BY <2>1 DEF Cycle
  <2>3. action' \in {action, Cycle(action, 5, 1), Cycle(action, 5, -1)}
    BY DEF HandleSelect
  <2> QED
    BY <2>1, <2>2, <2>3
<1>5. AppTypes'
  BY <1>1, <1>3, <1>4 DEF AppTypes, guardVars, fileVars, childVars
<1> QED
  BY <1>1, <1>5, AppKeeps DEF Waiting, childVars

LEMMA HandleModeKeeps ==
    ASSUME AppInv, HandleMode
    PROVE  AppInv'
<1>1. /\ AppTypes /\ input' \in Seq(Keys) /\ Len(input') <= MaxPending
      /\ pc' = "draw"
      /\ UNCHANGED <<guardVars, fileVars, selected, action, output, scroll, childVars>>
  BY KeyTaken DEF HandleMode, Redraw
<1>2. AppTypes'
  BY <1>1 DEF AppTypes, guardVars, fileVars, childVars
<1> QED
  BY <1>1, <1>2, AppKeeps DEF Waiting, childVars

(* Scrolling stays in the output, wherever it starts. *)
LEMMA HandleScrollKeeps ==
    ASSUME AppInv, HandleScroll
    PROVE  AppInv'
<1>1. /\ AppTypes /\ input' \in Seq(Keys) /\ Len(input') <= MaxPending
      /\ pc' = "draw" /\ UNCHANGED <<guardVars, fileVars, appVars, command>>
      /\ output \in Nat /\ scroll \in Nat /\ PageSize \in Nat
      /\ shown \in [asked : About, of : About]
  BY KeyTaken, TuiAssumption DEF HandleScroll, Redraw, AppTypes
<1>2. /\ LastLine \in Nat /\ LastLine <= output
      /\ LastLine = 0 \/ LastLine < output
  <2>1. output - 1 \in Int
    BY <1>1
  <2>2. Max({0, output - 1}) \in {0, output - 1} /\ Max({0, output - 1}) >= 0
    BY <2>1, TwoNumbers
  <2> QED
    BY <1>1, <2>2 DEF LastLine
<1>3. CASE ParsedKey = "clear"
  <2>1. scroll' = 0 /\ output' = 0 /\ shown' = [shown EXCEPT !.of = Nothing]
    BY <1>3 DEF HandleScroll
  <2>2. shown' \in [asked : About, of : About] /\ shown'.of = Nothing
    BY <1>1, <2>1 DEF Nothing, About
  <2>3. AppTypes'
    BY <1>1, <2>1, <2>2 DEF AppTypes, guardVars, fileVars, appVars
  <2> QED
    BY <1>1, <2>1, <2>2, <2>3
       DEF AppInv, CommandInv, Waiting, OutputIsAbout, ScrollWithinOutput
<1>4. CASE ParsedKey # "clear"
  <2>1. output' = output /\ shown' = shown
    BY <1>4 DEF HandleScroll
  <2>2. scroll' \in Nat /\ (scroll' <= scroll \/ scroll' = 0 \/ scroll' < output)
    <3>1. scroll' \in {0, LastLine, Max({0, scroll - PageSize}),
                       Min({scroll + PageSize, LastLine})}
      BY DEF HandleScroll
    <3>2. /\ Max({0, scroll - PageSize}) \in {0, scroll - PageSize}
          /\ Max({0, scroll - PageSize}) >= 0
      <4> DEFINE m == scroll - PageSize
                 zero == 0
      <4>1. m \in Int /\ zero = 0
        BY <1>1
      <4> HIDE DEF m, zero
      <4>2. Max({zero, m}) \in {zero, m} /\ Max({zero, m}) >= zero
        BY <4>1, TwoNumbers
      <4> QED
        BY <4>2 DEF m, zero
    <3>3. /\ Min({scroll + PageSize, LastLine}) \in {scroll + PageSize, LastLine}
          /\ Min({scroll + PageSize, LastLine}) <= LastLine
      <4> DEFINE m == scroll + PageSize
      <4>1. m \in Int /\ LastLine \in Int
        BY <1>1, <1>2
      <4> HIDE DEF m
      <4>2. Min({m, LastLine}) \in {m, LastLine} /\ Min({m, LastLine}) <= LastLine
        BY <4>1, TwoNumbers
      <4> QED
        BY <4>2 DEF m
    <3> HIDE DEF LastLine
    <3>4. Max({0, scroll - PageSize}) \in Nat /\ Max({0, scroll - PageSize}) <= scroll
      BY <1>1, <3>2
    <3>5. /\ Min({scroll + PageSize, LastLine}) \in Nat
          /\ LET m == Min({scroll + PageSize, LastLine}) IN m = 0 \/ m < output
      BY <1>1, <1>2, <3>3
    <3> QED
      BY <1>1, <1>2, <3>1, <3>4, <3>5
  <2>3. AppTypes'
    BY <1>1, <2>1, <2>2 DEF AppTypes, guardVars, fileVars, appVars
  <2>4. ScrollWithinOutput'
    BY <1>1, <2>1, <2>2 DEF AppInv, ScrollWithinOutput
  <2> QED
    BY <1>1, <2>1, <2>3, <2>4 DEF AppInv, CommandInv, Waiting, OutputIsAbout
<1> QED
  BY <1>3, <1>4

(* The command starts on what is selected, as it is then. *)
LEMMA HandleCommandKeeps ==
    ASSUME AppInv, HandleCommand
    PROVE  AppInv'
<1>1. /\ AppTypes /\ input' \in Seq(Keys) /\ Len(input') <= MaxPending
      /\ action' = KeyAction
      /\ UNCHANGED <<exitCode, guardVars, selected, quit, output, scroll, shown, fileVars>>
  BY KeyTaken DEF HandleCommand
<1>2. KeyAction \in 1..5
  <2>1. ParsedKey \in CommandKeys \cup {"enter"} /\ action \in 1..5
    BY <1>1 DEF HandleCommand, Takes, AppTypes
  <2>2. \A k \in CommandKeys : \E a \in 1..5 : Actions[a] = k
    <3>1. /\ Actions[1] = "run" /\ Actions[2] = "trace" /\ Actions[3] = "verify"
          /\ Actions[4] = "dis" /\ Actions[5] = "info"
      BY DEF Actions
    <3> QED
      BY <3>1 DEF CommandKeys
  <2>3. CASE ParsedKey = "enter"
    BY <2>1, <2>3 DEF KeyAction
  <2>4. CASE ParsedKey # "enter"
    BY <2>1, <2>2, <2>4 DEF KeyAction
  <2> QED
    BY <2>3, <2>4
<1>3. CASE Len(Programs) = 0
  <2>1. pc' = "draw" /\ command' = command
    BY <1>3 DEF HandleCommand
  <2>2. AppTypes'
    BY <1>1, <1>2, <2>1 DEF AppTypes, guardVars, fileVars
  <2> QED
    BY <1>1, <2>1, <2>2, AppKeeps DEF Waiting
<1>4. CASE Len(Programs) # 0
  <2>1. /\ pc' = IF NeedsAsm(KeyAction, selected) THEN "asm" ELSE "child"
        /\ command' = Asked
    BY <1>4 DEF HandleCommand
  <2>2. selected \in DOMAIN Programs
    <3>1. Len(Programs) \in Nat /\ DOMAIN Programs = 1..Len(Programs)
      BY Listed
    <3>2. Max({1, Len(Programs)}) = Len(Programs)
      BY <1>4, Listed
    <3> QED
      BY <1>1, <3>1, <3>2 DEF AppTypes
  <2>3. selected \in Nat /\ edition[selected] \in Nat
    BY <1>1, <2>2, TuiAssumption DEF AppTypes
  <2>4. command' \in About /\ command'.program = selected
        /\ command'.edition = edition[selected]
    BY <2>1, <2>3 DEF Asked, About
  <2>5. AppTypes'
    BY <1>1, <1>2, <2>1, <2>4 DEF AppTypes, guardVars, fileVars
  <2>6. CommandInv'
    <3>1. NeedsAsm(action, command.program)' <=> NeedsAsm(KeyAction, selected)
      BY <1>1, <2>4 DEF NeedsAsm
    <3>2. edition' = edition
      BY <1>1 DEF fileVars
    <3> QED
      BY <2>1, <2>2, <2>3, <2>4, <3>1, <3>2 DEF CommandInv
  <2> QED
    BY <1>1, <2>5, <2>6 DEF AppInv, OutputIsAbout, ScrollWithinOutput
<1> QED
  BY <1>3, <1>4

(* The output that is shown is read from what the command was about. *)
LEMMA ShowsKeeps ==
    ASSUME AppInv, pc \in Waiting, pc' = "draw", NEW of, Shows(of), AppTypes',
           of # Nothing => of.program = command.program /\ of.edition >= command.edition
    PROVE  AppInv'
<1>1. /\ scroll' = 0 /\ shown' = [asked |-> command, of |-> of]
  BY DEF Shows
<1>2. OutputIsAbout'
  BY <1>1 DEF OutputIsAbout
<1> QED
  BY <1>1, <1>2 DEF AppInv, CommandInv, Waiting, ScrollWithinOutput

LEMMA ShowsTypes ==
    ASSUME AppTypes, NEW of \in About, Shows(of)
    PROVE  /\ output' \in Nat /\ scroll' \in Nat /\ command' \in About
           /\ shown' \in [asked : About, of : About]
BY TuiAssumption DEF Shows, AppTypes, Nothing, About

LEMMA StemListed ==
    ASSUME NEW i \in DOMAIN Programs
    PROVE  Programs[i].stem \in Stems
BY DEF Stems

LEMMA AsmEndsKeeps ==
    ASSUME AppInv, AsmEnds
    PROVE  AppInv'
<1> DEFINE stem == Programs[command.program].stem
           made == [command EXCEPT !.edition = edition[command.program]]
<1>1. /\ pc = "asm" /\ AppTypes /\ CommandInv
      /\ UNCHANGED <<exitCode, guardVars, input, appVars, edition>>
  BY DEF AsmEnds, AppInv
<1>2. /\ command.program \in DOMAIN Programs /\ command \in About
      /\ command.edition <= edition[command.program]
      /\ edition[command.program] \in Nat
  BY <1>1 DEF CommandInv, Waiting, AppTypes
<1>3. stem \in Stems /\ cache \in [Stems -> About]
  BY <1>1, <1>2, StemListed DEF AppTypes
<1>4. Nothing \in About
  BY DEF Nothing, About
<1>5. CASE /\ pc' = "draw" /\ Shows(Nothing)
           /\ cache' \in {cache, [cache EXCEPT ![stem] = Nothing]}
  <2>1. cache' \in [Stems -> About]
    BY <1>3, <1>4, <1>5
  <2>2. AppTypes'
    BY <1>1, <1>4, <1>5, <2>1, ShowsTypes DEF AppTypes, guardVars, appVars
  <2> QED
    BY <1>1, <1>5, <2>2, ShowsKeeps DEF Waiting
<1>6. CASE /\ pc' = "child" /\ cache' = [cache EXCEPT ![stem] = made]
           /\ UNCHANGED <<output, scroll, childVars>>
  <2>1. made \in About /\ made.program = command.program
        /\ made.edition = edition[command.program]
    BY <1>2 DEF About
  <2> HIDE DEF made
  <2>2. cache' \in [Stems -> About] /\ cache'[stem] = made
    BY <1>3, <1>6, <2>1
  <2>3. AppTypes'
    BY <1>1, <1>6, <2>2 DEF AppTypes, guardVars, appVars, childVars
  <2>4. CommandInv'
    BY <1>1, <1>2, <1>6, <2>1, <2>2 DEF CommandInv, childVars, appVars
  <2> QED
    BY <1>6, <2>3, <2>4 DEF AppInv, OutputIsAbout, ScrollWithinOutput, childVars
<1> QED
  BY <1>5, <1>6 DEF AsmEnds

LEMMA ChildEndsKeeps ==
    ASSUME AppInv, ChildEnds
    PROVE  AppInv'
<1> DEFINE i == command.program
           of == ReadBy(action, i)
<1>1. /\ pc = "child" /\ pc' = "draw" /\ AppTypes /\ CommandInv /\ Shows(of)
      /\ UNCHANGED <<exitCode, guardVars, fileVars, input, appVars>>
  BY DEF ChildEnds, Redraw, AppInv
<1>2. /\ i \in DOMAIN Programs /\ command.edition <= edition[i] /\ edition[i] \in Nat
      /\ NeedsAsm(action, i) =>
            /\ cache[Programs[i].stem].program = i
            /\ cache[Programs[i].stem].edition >= command.edition
  BY <1>1 DEF CommandInv, Waiting, AppTypes
<1>3. /\ of \in About /\ of.program = i /\ of.edition >= command.edition
  <2>1. CASE NeedsAsm(action, i)
    <3>1. of = cache[Programs[i].stem]
      BY <2>1 DEF ReadBy, NeedsAsm
    <3>2. of \in About
      BY <1>1, <1>2, <3>1, StemListed DEF AppTypes
    <3> QED
      BY <1>2, <2>1, <3>1, <3>2
  <2>2. CASE ~NeedsAsm(action, i)
    <3>1. of = [program |-> i, edition |-> edition[i]]
      BY <2>2 DEF ReadBy, NeedsAsm
    <3>2. i \in Nat /\ command.edition \in Nat
      BY <1>1 DEF AppTypes, About
    <3> QED
      BY <1>2, <3>1, <3>2 DEF About
  <2> QED
    BY <2>1, <2>2
<1> HIDE DEF of, i
<1>4. AppTypes'
  BY <1>1, <1>3, ShowsTypes DEF AppTypes, guardVars, fileVars, appVars
<1> QED
  BY <1>1, <1>3, <1>4, ShowsKeeps DEF Waiting, i

(* The debugger takes the terminal and gives it back. *)
LEMMA HandleDebugKeeps ==
    ASSUME AppInv, HandleDebug
    PROVE  AppInv'
<1>1. /\ AppTypes /\ input' \in Seq(Keys) /\ Len(input') <= MaxPending
      /\ UNCHANGED <<appVars, output, scroll, childVars, fileVars, saved>>
  BY KeyTaken DEF HandleDebug
<1>2. pc' \in {"draw", "debug", "exited"} /\ mode' \in {"user", "sane", "raw"}
  <2>1. mode \in {"user", "sane", "raw"} /\ RestoredMode \in {"user", "sane", "raw"}
    BY <1>1 DEF AppTypes, RestoredMode
  <2> QED
    BY <2>1 DEF HandleDebug, Exit, GivenBack
<1>3. AppTypes'
  BY <1>1, <1>2 DEF AppTypes, appVars, childVars, fileVars
<1> QED
  BY <1>1, <1>2, <1>3, AppKeeps DEF Waiting, childVars

LEMMA DebuggerLeftKeeps ==
    ASSUME AppInv, DebuggerLeft
    PROVE  AppInv'
<1>1. /\ AppTypes /\ pc' \in {"draw", "exited"} /\ mode' \in {"user", "sane", "raw"}
      /\ output' \in {output, 2}
      /\ shown' = [shown EXCEPT !.of = Nothing]
      /\ UNCHANGED <<saved, input, appVars, scroll, command, fileVars>>
  BY DEF DebuggerLeft, Reenters, LeftRaw, AppInv, AppTypes
<1>2. shown' \in [asked : About, of : About] /\ shown'.of = Nothing
  BY <1>1 DEF AppTypes, Nothing, About
<1>3. AppTypes'
  BY <1>1, <1>2 DEF AppTypes, appVars, fileVars
<1>4. ScrollWithinOutput'
  BY <1>1, <1>2 DEF AppInv, ScrollWithinOutput
<1> QED
  BY <1>1, <1>2, <1>3, <1>4 DEF AppInv, CommandInv, Waiting, OutputIsAbout

(* The user. *)
LEMMA UserKeeps ==
    ASSUME AppInv, Type \/ Edit
    PROVE  AppInv'
<1>1. CASE Type
  <2>1. /\ UNCHANGED <<pc, exitCode, guardVars, appVars, output, scroll, childVars, fileVars>>
        /\ AppTypes /\ CommandInv /\ Len(input) < MaxPending
    BY <1>1 DEF Type, AppInv
  <2>2. PICK key \in Keys : input' = Append(input, key)
    BY <1>1 DEF Type
  <2>3. input' \in Seq(Keys) /\ Len(input') <= MaxPending
    BY <2>1, <2>2, TuiAssumption DEF AppTypes
  <2>4. AppTypes'
    BY <2>1, <2>3 DEF AppTypes, guardVars, appVars, childVars, fileVars
  <2> QED
    BY <2>1, <2>4 DEF AppInv, CommandInv, NeedsAsm, OutputIsAbout, ScrollWithinOutput,
       guardVars, appVars, childVars, fileVars
<1>2. CASE Edit
  <2>1. /\ UNCHANGED <<pc, exitCode, guardVars, input, appVars, output, scroll, childVars, cache>>
        /\ AppTypes /\ CommandInv
    BY <1>2 DEF Edit, AppInv
  <2>2. PICK i \in DOMAIN Programs : edition' = [edition EXCEPT ![i] = @ + 1]
    BY <1>2 DEF Edit
  <2>3. /\ edition' \in [DOMAIN Programs -> Nat]
        /\ \A j \in DOMAIN Programs : edition[j] \in Nat /\ edition'[j] >= edition[j]
    BY <2>1, <2>2 DEF AppTypes
  <2>4. AppTypes'
    BY <2>1, <2>3 DEF AppTypes, guardVars, appVars, childVars
  <2>5. CommandInv'
    <3>1. command' = command /\ action' = action /\ pc' = pc /\ cache' = cache
      BY <2>1 DEF childVars, appVars
    <3>2. command.edition \in Nat
      BY <2>1 DEF AppTypes, About
    <3>3. ASSUME pc \in Waiting
          PROVE  /\ command.program \in DOMAIN Programs
                 /\ command.edition <= edition'[command.program]
      BY <2>1, <2>3, <3>2, <3>3 DEF CommandInv, AppTypes
    <3> QED
      BY <2>1, <3>1, <3>3 DEF CommandInv, NeedsAsm
  <2> QED
    BY <2>1, <2>4, <2>5 DEF AppInv, OutputIsAbout, ScrollWithinOutput, childVars
<1> QED
  BY <1>1, <1>2

LEMMA AppNext == AppInv /\ [TuiNext]_tuiVars => AppInv'
<1> SUFFICES ASSUME AppInv, [TuiNext]_tuiVars PROVE AppInv'
  OBVIOUS
<1>1. CASE Interface
  BY <1>1, GuardStepsKeep, HandleModeKeeps, HandleSelectKeeps, HandleScrollKeeps,
     HandleCommandKeeps, HandleDebugKeeps DEF Interface, Handle
<1>2. CASE Children
  BY <1>2, AsmEndsKeeps, ChildEndsKeeps DEF Children
<1>3. CASE DebuggerLeft \/ DebuggerFails \/ Type \/ Edit
  BY <1>3, GuardStepsKeep, DebuggerLeftKeeps, UserKeeps
<1>4. CASE UNCHANGED tuiVars
  <2>1. AppTypes'
    BY <1>4 DEF AppInv, AppTypes, tuiVars, guardVars, appVars, childVars, fileVars
  <2>2. CommandInv' /\ OutputIsAbout' /\ ScrollWithinOutput'
    BY <1>4 DEF AppInv, CommandInv, NeedsAsm, OutputIsAbout, ScrollWithinOutput,
       tuiVars, guardVars, appVars, childVars, fileVars
  <2> QED
    BY <2>1, <2>2 DEF AppInv
<1> QED
  BY <1>1, <1>2, <1>3, <1>4 DEF TuiNext

LEMMA AppInvariance == TuiSpec => []AppInv
BY AppInit, AppNext, PTL DEF TuiSpec

(* The selection stays on a listed program, the action on one of five, and *)
(* no more keys are held than are read at once.                            *)
THEOREM TuiTypesAreCorrect == TuiSpec => []TuiTypeOK
<1>1. Len(Actions) = 5
  BY DEF Actions
<1>2. AppInv => TuiTypeOK
  BY <1>1 DEF AppInv, AppTypes, TuiTypeOK
<1> QED
  BY <1>2, AppInvariance, PTL

(* The output is about the program that was asked for and no older than    *)
(* its text was then, whichever programs share a cached file.              *)
THEOREM OutputIsTrue == TuiSpec => []OutputIsAbout
<1>1. AppInv => OutputIsAbout
  BY DEF AppInv
<1> QED
  BY <1>1, AppInvariance, PTL

(* The first line shown is a line of the output, except after the debugger. *)
THEOREM ScrollStaysInOutput == TuiSpec => []ScrollWithinOutput
<1>1. AppInv => ScrollWithinOutput
  BY DEF AppInv
<1> QED
  BY <1>1, AppInvariance, PTL
=============================================================================
