----------------------------- MODULE MCDerived ------------------------------
(* Two paths, each of its own file.                                         *)
EXTENDS Derived
MCNames == {"a", "b"}
MCTexts == {"old", "new"}
MCFileOf == [n \in MCNames |-> n]
=============================================================================
