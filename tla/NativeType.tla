------------------------------ MODULE NativeType ------------------------------
(***************************************************************************)
(* The option nativeType, with which xml2js of Utils.ts calls its parser: a  *)
(* text that reads as a number or as a boolean becomes one.  Where the text  *)
(* of it is asked for again it is written in its own way, "007" as "7".      *)
(***************************************************************************)
CONSTANT Rewritten   \* the texts this changes, each with what it is written as

Empty == "empty"     \* the text of an element that has none

(* What the number 0 and the boolean false are written as.                   *)
Falsy == {"0", "false"}

ASSUME RewrittenAssumption ==
  /\ DOMAIN Rewritten \intersect (Falsy \union {Empty}) = {}
  /\ \A text \in DOMAIN Rewritten : Rewritten[text] \in STRING \ {Empty}

Native(text) == IF text \in DOMAIN Rewritten THEN Rewritten[text] ELSE text

Natives(texts) == [i \in DOMAIN texts |-> Native(texts[i])]
===============================================================================
