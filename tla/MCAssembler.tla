---------------------------- MODULE MCAssembler -----------------------------
(***************************************************************************)
(* Small sources for the assembler: every source of up to four lines over  *)
(* lines that define, use, repeat and miss labels, and every one-line      *)
(* source of a mnemonic and up to two operands (three for a few).          *)
(***************************************************************************)
EXTENDS Assembler

Code(m, args) == CodeLine(<<Name(m)>> \o args)
A == Name("a")
B == Name("b")
(* Two names that differ after their 63rd character. *)
LongX == Name("longx")
LongY == Name("longy")
MCPrefix63 == [longx |-> "long", longy |-> "long"]

Lines ==
    {EmptyLine, BlankLine, LabelLine(A), LabelLine(B), LabelLine(Junk),
     Code("jmp", <<A>>), Code("jz", <<Reg(0), B>>), Code("mov", <<Reg(0), Num(1)>>),
     Code("frob", <<>>)}
LongLines ==
    {LabelLine(LongX), LabelLine(LongY), LabelLine(Name("long")),
     Code("jmp", <<LongX>>), Code("call", <<LongY>>), Code("nop", <<>>)}

Mnemonics ==
    DOMAIN AluMnemonics \cup DOMAIN OneRegisterMnemonics \cup DOMAIN LabelMnemonics
        \cup DOMAIN ZeroTestMnemonics \cup DOMAIN BareMnemonics
        \cup {"load", "store", "frob"}
Operands ==
    {Reg(0), Reg(1), Reg(9), Num(-8), Num(0), Num(7), A, InBrackets(Reg(1)),
     InBrackets(Num(5)), InBrackets(Reg(9)), InBrackets(A), Junk}
OneLine ==
    {<<Code(m, args)>> : m \in Mnemonics, args \in UNION {[1..n -> Operands] : n \in 0..2}}
        \cup {<<Code(m, <<Reg(0), Reg(1)>> \o more)>> :
                m \in {"mov", "nop"}, more \in {<<A>>, <<A, B>>}}

LinesUpTo(n, lines) == UNION {[1..k -> lines] : k \in 0..n}

MCSources == OneLine \cup LinesUpTo(4, Lines) \cup LinesUpTo(3, LongLines)
LongSources == LinesUpTo(3, LongLines)
=============================================================================
