---------------------------- MODULE MCAtomicWrite ----------------------------
(* A dict with an input_name, one without it, one the validator rejects, and *)
(* a text with another name.                                                 *)
EXTENDS AtomicWrite

CONSTANTS named, nameless, invalid, text, acme, beta

MCContents == {named, nameless, invalid, text}
MCValid == MCContents \ {invalid}
MCTexts == {text}
MCNameOf == [c \in MCContents |->
    CASE c = text -> beta [] c = nameless -> NoName [] OTHER -> acme]

=============================================================================
