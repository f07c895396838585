-------------------------------- MODULE MCTui --------------------------------
(***************************************************************************)
(* Two sources of one name, which share a cached file, or one of them and  *)
(* a bytecode file of that name.                                           *)
(***************************************************************************)
EXTENDS Tui

ListedOf(form) == [stem |-> "sum", form |-> form]
MCListed == <<ListedOf("source"), ListedOf("source")>>
MCBoth == <<ListedOf("source"), ListedOf("bytecode")>>
=============================================================================
