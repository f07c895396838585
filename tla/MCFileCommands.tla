--------------------------- MODULE MCFileCommands ---------------------------
(***************************************************************************)
(* Two processes on one file that may be missing, empty, a source, NUL     *)
(* bytes, a whole image, or an image that is cut, has something after it,  *)
(* counts too many records, or belongs to another version.                 *)
(***************************************************************************)
EXTENDS FileCommands, TLC

I(op, a, v) == [op |-> op, a |-> a, b |-> 0, c |-> 0, imm |-> v]
P1 == <<I("MOV_IMM", 1, -2)>>
P2 == <<I("MOV_IMM", 1, -2), I("JMP", 0, 1)>>
(* A label at the end of a source: its jump goes past the program. *)
PastEnd == <<I("JMP", 0, 1)>>
(* bad register: only a file that asm did not write holds it. *)
BadReg == <<I("PUSH", 5, 0)>>

Perms == Permutations(Procs)
MCAsmResults == {Accepted(P1), Accepted(P2), Accepted(<<>>), Accepted(PastEnd), Refused}
MCInitialFiles ==
    {Missing, <<>>, <<Zero>>, <<Source(Accepted(P1), FALSE)>>, <<Source(Accepted(PastEnd), FALSE)>>,
     <<Source(Refused, FALSE)>>, <<Source(Accepted(P1), TRUE)>>, <<Source(Refused, TRUE)>>, Image(P2),
     Image(P2) \o <<Torn>>, Image(P1) \o <<Zero>>, SubSeq(Image(P2), 1, 3),
     <<Magic, Header(TRUE, 9)>>, <<Magic, Header(FALSE, 0)>>, <<Magic>>, <<Torn>>,
     <<Magic, Header(TRUE, 1), Record(EncodeInstruction(BadReg[1]))>>,
     <<Magic, Header(TRUE, 1), Zero>>}
=============================================================================
