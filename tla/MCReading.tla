------------------------------- MODULE MCReading -------------------------------
(***************************************************************************)
(* How a peer is read, for TLC: the documents in its stream (Framing) and   *)
(* the elements in its documents (Documents).  The two meet in no variable: *)
(* part says which of them a behaviour is about.                            *)
(***************************************************************************)
EXTENDS Framing, Documents

(* A text that is a number, and one that is false.                           *)
Numbers == [t \in {"007", "FALSE"} |-> IF t = "007" THEN "7" ELSE "false"]

VARIABLE part

vars == <<part, framingVars, documentsVars>>

Init ==
  \/ /\ part = "stream" /\ FramingInit
     /\ place = "among" /\ children = <<>>
  \/ /\ part = "document" /\ DocumentsInit
     /\ side = "client" /\ at = 0 /\ buffer = <<>> /\ delivered = <<>>
     /\ received = {} /\ mistaken = {} /\ trimmed = {}

Stream   == part = "stream" /\ FramingNext /\ UNCHANGED <<part, documentsVars>>
Document == part = "document" /\ WriteChild /\ UNCHANGED <<part, framingVars>>

Spec == Init /\ [][Stream \/ Document]_vars
=============================================================================
