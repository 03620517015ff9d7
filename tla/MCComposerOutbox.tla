-------------------------- MODULE MCComposerOutbox --------------------------
(* Two devices with an input each, or one with both.                       *)
EXTENDS ComposerOutbox

CONSTANTS d1, d2, i1, i2

AuthorEach == [i \in Items |-> IF i = i1 THEN d1 ELSE d2]
AuthorOne == [i \in Items |-> d1]
=============================================================================
