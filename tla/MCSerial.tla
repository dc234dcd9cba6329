------------------------------ MODULE MCSerial ------------------------------
(***************************************************************************)
(* An instance of Serial for TLC: a ring that holds two characters, so     *)
(* that a string can overflow it and both indices wrap.                    *)
(***************************************************************************)
EXTENDS Serial

TwoChars == {"a", "b"}
=============================================================================
