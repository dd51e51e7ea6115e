---------------------------- MODULE MCLineEditor ----------------------------
(* A user with two characters, one of them of two bytes, and two commands that *)
(* share a prefix of the two-byte character.                                   *)
EXTENDS LineEditor

slash == <<47>>
eacute == <<195, 169>>

MCChar == {slash, eacute, <<32>>}
MCTyped == {slash, eacute}
MCCommands == <<slash \o eacute \o eacute, slash \o eacute \o slash>>

\* This text is as the proofs assume.
ASSUME TextIsPlain == TextAssumption
=============================================================================
