----------------------------- MODULE MCKeyboard -----------------------------
(***************************************************************************)
(* Instances of Keyboard for TLC: a ring that holds one or two characters, *)
(* so that it fills up and its indices wrap within a few keystrokes.       *)
(***************************************************************************)
EXTENDS Keyboard

LeftModifiers == {"LSHIFT", "LCTRL", "C", "UP"}
RightCtrl == {"RCTRL", "C"}
=============================================================================
