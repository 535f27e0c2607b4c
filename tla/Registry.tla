------------------------------- MODULE Registry -------------------------------
(***************************************************************************)
(* The devices of a MosConnection (MosConnection.ts): connect() and the     *)
(* relay register them under the ids of their peers, disposeMosDevice() and *)
(* dispose() take them out again, and an incoming message finds its device  *)
(* by these ids.  MosConnection.tla says when each of this happens.         *)
(*                                                                         *)
(* A key of _mosDevices is the id of this program, an underscore and the id *)
(* of a peer; here it is the peer.  A message carries both ids, in either   *)
(* order, and both orders are looked up, so it too is known by its peer; one*)
(* that names this program not at all finds no device.                      *)
(***************************************************************************)
EXTENDS Integers, Sequences

CONSTANTS
    Peers,          \* the ids of the NCS servers and MOS devices there are
    MaxDevices,     \* bounds the devices that are ever registered
    MaxDisposals    \* bounds the disposals that go on at a time

NoPeer   == "no peer"
NoDevice == 0

ASSUME PeersAssumption  == NoPeer \notin Peers
ASSUME BoundsAssumption == MaxDevices \in Nat /\ MaxDisposals \in Nat

VARIABLES
    register,    \* _mosDevices: the device under the key of each peer
    devices,     \* the devices ever made, in their order
    disposals    \* disposals that go on: the keys each will delete, in order

registryVars == <<register, devices, disposals>>

Devices == 1 .. Len(devices)

RegistryInit ==
  /\ register = [p \in Peers |-> NoDevice]
  /\ devices = <<>> /\ disposals = <<>>

-----------------------------------------------------------------------------
(* A device with a primary and perhaps a secondary peer.  hasty is a ghost: *)
(* a disposal of what was there before it is still going on.                *)
Device(id0, id1) ==
  [id0 |-> id0, id1 |-> id1, live |-> TRUE,
   hasty |-> \E i \in DOMAIN disposals : disposals[i] \cap {id0, id1} # {}]

Ids(d) == {devices[d].id0, devices[d].id1} \ {NoPeer}

(* _registerMosDevice: refused when one of the keys is taken.               *)
RegisterHalfCheckedMutant(id0, id1) ==
  /\ Len(devices) < MaxDevices
  /\ register[id0] = NoDevice
  /\ devices' = Append(devices, Device(id0, id1))
  /\ register' = [p \in Peers |-> IF p \in {id0, id1} THEN Len(devices') ELSE register[p]]
  /\ UNCHANGED disposals

RegisterDevice(id0, id1) ==
  /\ Len(devices) < MaxDevices
  /\ \A p \in Peers \cap {id0, id1} : register[p] = NoDevice
  /\ devices' = Append(devices, Device(id0, id1))
  /\ register' = [p \in Peers |-> IF p \in {id0, id1} THEN Len(devices') ELSE register[p]]
  /\ UNCHANGED disposals

(* connect(), with or without a secondary.                                  *)
Connect ==
  \E id0 \in Peers : \E id1 \in (Peers \cup {NoPeer}) \ {id0} : RegisterDevice(id0, id1)

(* A message of an unknown peer, with this program for its NCS or its MOS.  *)
Relayed == \E peer \in Peers : RegisterDevice(peer, NoPeer)

-----------------------------------------------------------------------------
(* The key a disposeMosDevice() with these ids finds its device under.      *)
Found(id0, id1) == IF id0 \in Peers /\ register[id0] # NoDevice THEN id0 ELSE id1

(* The devices under these keys are disposed; the keys go when they are.    *)
Disposing(keys) ==
  /\ Len(disposals) < MaxDisposals
  /\ devices' = [d \in Devices |->
                   [devices[d] EXCEPT !.live = @ /\ \A k \in keys : register[k] # d]]
  /\ disposals' = IF keys = {} THEN disposals ELSE Append(disposals, keys)
  /\ UNCHANGED register

(* disposeMosDevice(), with the ids of a device or any others.              *)
DisposeMosDevice ==
  \E id0 \in Peers, id1 \in Peers \cup {NoPeer} :
    LET key == Found(id0, id1)
    IN  key \in Peers /\ register[key] # NoDevice /\ Disposing({key})

(* dispose() calls disposeMosDevice() with the device under every key.      *)
DisposeAllDevices ==
  LET keys == {p \in Peers : register[p] # NoDevice}
  IN  Disposing({Found(devices[register[k]].id0, devices[register[k]].id1) : k \in keys})

(* The .then of disposeMosDevice().                                         *)
Forget ==
  /\ disposals # <<>>
  /\ disposals' = Tail(disposals)
  /\ register' = [p \in Peers |-> IF p \in Head(disposals) THEN NoDevice
                                  ELSE register[p]]
  /\ UNCHANGED devices

-----------------------------------------------------------------------------
RegistryTypeOK ==
  /\ register \in [Peers -> {NoDevice} \cup Devices]
  /\ \A d \in Devices :
       /\ {devices[d].live, devices[d].hasty} \subseteq BOOLEAN
       /\ devices[d].id0 \in Peers /\ devices[d].id1 \in Peers \cup {NoPeer}
  /\ \A i \in DOMAIN disposals : disposals[i] \subseteq Peers

(* A device that has not been disposed is in the register, under the id of  *)
(* each of its peers: getDevice() and incoming messages find it.  One that  *)
(* was connected before every disposal of its predecessor was done need not *)
(* be: the second disposal deletes whatever the key leads to by then        *)
(* (MosConnection.ts:246).                                                  *)
LiveDevicesAreListed ==
  \A d \in Devices : devices[d].live /\ ~devices[d].hasty =>
    \A p \in Ids(d) : register[p] = d

(* A disposed device leaves the register, so that no message is routed to it*)
(* and its peer can be connected again.  Only one key of a device with a    *)
(* secondary is deleted.                                                    *)
DisposedDevicesLeave ==
  \A p \in Peers : register[p] # NoDevice =>
    \/ devices[register[p]].live
    \/ \E i \in DOMAIN disposals : p \in disposals[i]
    \/ devices[register[p]].id1 # NoPeer

(* The register and the devices agree, while connections and disposals       *)
(* overlap.                                                                  *)
RegistryConsistent == RegistryTypeOK /\ LiveDevicesAreListed /\ DisposedDevicesLeave
=============================================================================
