-------------------------------- MODULE MCSetup --------------------------------
(***************************************************************************)
(* What a connection is set up with, for TLC: the profiles of its           *)
(* configuration (Profiles) and the ids it numbers its messages with        *)
(* (MessageIds).  The two meet in no variable: part says which of them a    *)
(* behaviour is about.                                                      *)
(***************************************************************************)
EXTENDS Profiles, MessageIds

VARIABLE part

setupVars == <<part, profilesVars, idsVars>>

SetupInit == part \in {"profiles", "ids"} /\ ProfilesInit /\ IdsInit

Configuring == part = "profiles" /\ ProfilesNext /\ UNCHANGED <<part, idsVars>>
Numbering   == part = "ids" /\ IdsNext /\ UNCHANGED <<part, profilesVars>>

SetupSpec == SetupInit /\ [][Configuring \/ Numbering]_setupVars
=============================================================================
