-------------------------------- MODULE Profiles --------------------------------
(***************************************************************************)
(* The MOS profiles of a configuration: the setter of ConnectionConfig, the  *)
(* copy that MosConnection makes of the options it is given, the copy that   *)
(* MosDevice makes of those, and its strict check.                           *)
(*                                                                          *)
(* The user may assign the profiles of its own ConnectionConfig again and    *)
(* again and catch what the setter throws; MosConnection runs the            *)
(* constructor once more over that object, or over plain options, and never  *)
(* assigns the profiles of its copy again.  All devices of a connection copy *)
(* the same profiles: one device, with strict set, stands for them.          *)
(***************************************************************************)
EXTENDS Integers, FiniteSets

CONSTANT Profiles   \* the profiles that options may list

ASSUME ProfilesAssumption == Profiles \subseteq 0..7

VARIABLES
    config,      \* the user's ConnectionConfig: its _profiles, or Absent
    connection,  \* the _profiles of the copy of MosConnection, or Absent
    device,      \* the supportedProfiles of the device, or Absent
    deviceType,
    complete,    \* the profiles whose callbacks are all set
    verdict      \* of the last strict check

profilesVars == <<config, connection, device, deviceType, complete, verdict>>

(* A set of profiles that is never configured stands for no object at all.   *)
Absent == {-1}

ProfilesInit ==
  /\ config = Absent /\ connection = Absent /\ device = Absent
  /\ deviceType = "MOS"
  /\ complete = {}
  /\ verdict = "none"

-----------------------------------------------------------------------------
(* ConnectionConfig.                                                         *)

NeedsMutant(p) == IF p <= 2 THEN 0 .. p - 1 ELSE 0 .. 1
Needs(p) == IF p <= 2 THEN 0 .. p - 1 ELSE 0 .. 2

(* The profiles at which the setter throws, if it comes that far: it goes    *)
(* through the list in order and sees what it has set before.                *)
Refused(profiles, asked) ==
  {p \in 0..7 : \/ p = 0 /\ p \notin asked
                \/ p \in asked /\ ~ Needs(p) \subseteq profiles \cup {q \in asked : q < p}}

(* What is set before the setter throws stays, and nothing is ever unset.    *)
SetProfilesMutant(profiles, asked) == profiles \cup asked
SetProfiles(profiles, asked) ==
  profiles \cup {q \in asked : \A r \in Refused(profiles, asked) : q < r}

Accepts(profiles, asked) == Refused(profiles, asked) = {} /\ asked \ {0} # {}

(* new ConnectionConfig(asked); there is no object if the constructor throws, *)
(* and the user may try again.                                               *)
NewConfig ==
  \E asked \in SUBSET Profiles :
    /\ config = Absent
    /\ config' = IF Accepts({}, asked) THEN SetProfiles({}, asked) ELSE Absent
    /\ UNCHANGED <<connection, device, deviceType, complete, verdict>>

(* config.profiles = list                                                    *)
AssignProfiles ==
  \E list \in SUBSET Profiles :
    /\ config # Absent
    /\ config' = SetProfiles(config, list)
    /\ UNCHANGED <<connection, device, deviceType, complete, verdict>>

-----------------------------------------------------------------------------
(* MosConnection and MosDevice.                                              *)

(* new MosConnection(config): the getter gives the list to the setter of the *)
(* copy.                                                                     *)
NewConnection ==
  /\ config # Absent /\ connection = Absent
  /\ Accepts({}, config)
  /\ connection' = SetProfiles({}, config)
  /\ UNCHANGED <<config, device, deviceType, complete, verdict>>

(* new MosDevice: isNCS is read from the copy, whose constructor leaves it   *)
(* behind.                                                                   *)
NewDevice ==
  /\ connection # Absent /\ device = Absent
  /\ device' = connection
  /\ deviceType' = "MOS"
  /\ UNCHANGED <<config, connection, complete, verdict>>

(* The last callback of a profile is set.                                    *)
CompleteProfile ==
  \E p \in device \cap 0..4 :
    /\ complete' = complete \cup {p}
    /\ UNCHANGED <<config, connection, device, deviceType, verdict>>

(* requireProfile                                                            *)
RequiredProfiles(p) == {q \in 0..2 : q < p}

(* requireCallback and requireMOSCallback: the one of profile 0 is required  *)
(* of both types of device.                                                  *)
CallbacksMissing(p) == p \in 0..4 \ complete /\ (p = 0 \/ deviceType = "MOS")

Complaint(p) ==
  IF ~ RequiredProfiles(p) \subseteq device THEN "profile"
  ELSE IF CallbacksMissing(p) THEN "callback"
  ELSE IF p \in 5..7 THEN "unimplemented" ELSE "none"

(* The check throws the first complaint.                                     *)
CheckProfileValidness ==
  IF \A p \in device : Complaint(p) = "none" THEN "valid"
  ELSE Complaint(CHOOSE p \in device :
                   /\ Complaint(p) # "none"
                   /\ \A q \in device : Complaint(q) # "none" => p <= q)

(* A second after the device was made, and whenever the user asks.           *)
StrictCheck ==
  /\ device # Absent
  /\ verdict' = CheckProfileValidness
  /\ UNCHANGED <<config, connection, device, deviceType, complete>>

ProfilesNext ==
  \/ NewConfig \/ AssignProfiles \/ NewConnection
  \/ NewDevice \/ CompleteProfile \/ StrictCheck

ProfilesSpec == ProfilesInit /\ [][ProfilesNext]_profilesVars

-----------------------------------------------------------------------------
Sets == (SUBSET Profiles) \cup {Absent}

(* Every variable has a value the code can give it.                          *)
ProfilesTypeOK ==
  /\ config \in Sets /\ connection \in Sets /\ device \in Sets
  /\ deviceType \in {"MOS", "NCS"}
  /\ complete \subseteq 0..4
  /\ verdict \in {"none", "valid", "profile", "callback", "unimplemented"}

SelfContained(profiles) == \A p \in profiles : RequiredProfiles(p) \subseteq profiles

(* However the setter was called and wherever it threw, a profile is only    *)
(* set together with those it depends on, in the configuration, in its copy  *)
(* and in the devices: so the check of MosDevice, which states the           *)
(* dependencies once more, never finds one missing.                          *)
DependenciesHold ==
  /\ SelfContained(config) /\ SelfContained(connection) /\ SelfContained(device)
  /\ verdict # "profile"

(* MosConnection copies a configuration through the getter and the setter,   *)
(* which sees the list for the first time (MosConnection.ts:45): it never    *)
(* throws at what earlier assignments, refused half way or not, have left.   *)
CopyIsAccepted == config # Absent => Accepts({}, config)
==============================================================================
