------------------------- MODULE MosConnection_proofs -------------------------
(***************************************************************************)
(* Proofs about a MosConnection: its register of devices, its servers and   *)
(* sockets, and what dispose() leaves behind; for any sets of peers, ports  *)
(* and sockets, any number of devices, disposals and calls of init().       *)
(* And about the configuration it copies: however the profiles are assigned,*)
(* those a profile depends on are set and the copy is accepted (Profiles).  *)
(***************************************************************************)
EXTENDS MosConnection, Profiles, SequenceTheorems, TLAPS

-----------------------------------------------------------------------------
(* The register.                                                            *)

DeviceRecord == [id0 : Peers, id1 : Peers \cup {NoPeer}, live : BOOLEAN, hasty : BOOLEAN]

RegistryTyped ==
  /\ devices \in Seq(DeviceRecord)
  /\ disposals \in Seq(SUBSET Peers)
  /\ register \in [Peers -> {NoDevice} \cup Devices]

(* A key leads to a device that has this peer.                              *)
KeysAreIds == \A p \in Peers : register[p] # NoDevice => p \in Ids(register[p])

(* No disposal that goes on will delete a key of a live device, unless it   *)
(* began before the device was made.                                        *)
LiveKeysStay ==
  \A d \in Devices : devices[d].live /\ ~devices[d].hasty =>
    \A i \in 1 .. Len(disposals) : disposals[i] \cap Ids(d) = {}

RegistryInv ==
  /\ RegistryTyped /\ KeysAreIds /\ LiveKeysStay
  /\ LiveDevicesAreListed /\ DisposedDevicesLeave

LEMMA RegistryInvGives == RegistryInv => RegistryConsistent
  <1> SUFFICES ASSUME RegistryInv PROVE RegistryTypeOK
    BY DEF RegistryInv, RegistryConsistent
  <1>1. \A d \in Devices : devices[d] \in DeviceRecord
    BY ElementOfSeq DEF RegistryInv, RegistryTyped, Devices
  <1>2. \A i \in DOMAIN disposals : disposals[i] \subseteq Peers
    BY DEF RegistryInv, RegistryTyped
  <1> QED
    BY <1>1, <1>2 DEF RegistryInv, RegistryTyped, RegistryTypeOK, DeviceRecord

LEMMA RegistryStarts == RegistryInit => RegistryInv
  <1> SUFFICES ASSUME RegistryInit PROVE RegistryInv
    OBVIOUS
  <1>1. /\ devices = <<>> /\ disposals = <<>> /\ Len(devices) = 0
        /\ devices \in Seq(DeviceRecord) /\ disposals \in Seq(SUBSET Peers)
    BY EmptySeq DEF RegistryInit
  <1>2. register \in [Peers -> {NoDevice}] /\ Devices = {}
    BY <1>1 DEF RegistryInit, Devices
  <1> QED
    BY <1>1, <1>2 DEF RegistryInv, RegistryTyped, KeysAreIds, LiveKeysStay,
         LiveDevicesAreListed, DisposedDevicesLeave

LEMMA IdsArePeers == RegistryTyped => \A d \in Devices : Ids(d) \subseteq Peers
  <1> SUFFICES ASSUME RegistryTyped, NEW d \in Devices PROVE Ids(d) \subseteq Peers
    OBVIOUS
  <1>1. devices[d] \in DeviceRecord
    BY ElementOfSeq DEF RegistryTyped, Devices
  <1>2. devices[d].id0 \in Peers /\ devices[d].id1 \in Peers \cup {NoPeer}
    BY <1>1 DEF DeviceRecord
  <1> QED
    BY <1>2 DEF Ids

(* A new device takes keys that no device has.                              *)
LEMMA RegisterKeeps ==
  ASSUME RegistryInv, NEW id0 \in Peers, NEW id1 \in Peers \cup {NoPeer},
         RegisterDevice(id0, id1)
  PROVE  RegistryInv'
  <1> DEFINE r == Device(id0, id1)
  <1> PICK n : n = Len(devices) + 1
    OBVIOUS
  <1>1. /\ devices \in Seq(DeviceRecord) /\ disposals \in Seq(SUBSET Peers)
        /\ register \in [Peers -> {NoDevice} \cup Devices] /\ Len(devices) \in Nat
    BY DEF RegistryInv, RegistryTyped
  <1>2. /\ r \in DeviceRecord /\ r.id0 = id0 /\ r.id1 = id1 /\ r.live
        /\ ~r.hasty => \A i \in DOMAIN disposals : disposals[i] \cap {id0, id1} = {}
    BY DEF Device, DeviceRecord
  <1> HIDE DEF r
  <1>3. /\ devices' = Append(devices, r) /\ disposals' = disposals
        /\ \A p \in Peers \cap {id0, id1} : register[p] = NoDevice
    BY DEF RegisterDevice, r
  <1>4. /\ devices' \in Seq(DeviceRecord) /\ Len(devices') = n
        /\ \A d \in Devices : devices'[d] = devices[d]
        /\ devices'[n] = r
    BY <1>1, <1>2, <1>3, AppendProperties DEF Devices
  <1>5. register' = [p \in Peers |-> IF p \in {id0, id1} THEN n ELSE register[p]]
    BY <1>4 DEF RegisterDevice
  <1>6. Devices' = Devices \cup {n} /\ n \notin Devices /\ n # NoDevice
    BY <1>1, <1>4 DEF Devices, NoDevice
  <1>7. /\ \A d \in Devices : Ids(d)' = Ids(d)
        /\ Ids(n)' = {id0, id1} \ {NoPeer}
        /\ \A d \in Devices : Ids(d) \subseteq Peers
    BY <1>2, <1>4, IdsArePeers DEF Ids, RegistryInv
  <1>8. RegistryTyped'
    BY <1>1, <1>3, <1>4, <1>5, <1>6 DEF RegistryTyped
  <1>9. KeysAreIds'
    BY <1>1, <1>5, <1>6, <1>7, PeersAssumption DEF RegistryInv, KeysAreIds
  <1>10. LiveKeysStay'
    <2> SUFFICES ASSUME NEW d \in Devices', devices'[d].live, ~devices'[d].hasty,
                        NEW i \in 1 .. Len(disposals)
                 PROVE  disposals[i] \cap Ids(d)' = {}
      BY <1>3 DEF LiveKeysStay
    <2>1. CASE d \in Devices
      BY <1>4, <1>7, <2>1 DEF RegistryInv, LiveKeysStay
    <2>2. CASE d = n
      BY <1>1, <1>2, <1>4, <1>7, <2>2
    <2> QED
      BY <1>6, <2>1, <2>2
  <1>11. LiveDevicesAreListed'
    <2> SUFFICES ASSUME NEW d \in Devices', devices'[d].live, ~devices'[d].hasty,
                        NEW p \in Ids(d)'
                 PROVE  register'[p] = d
      BY DEF LiveDevicesAreListed
    <2>1. CASE d \in Devices
      <3>1. register[p] = d /\ p \in Ids(d)
        BY <1>4, <1>7, <2>1 DEF RegistryInv, LiveDevicesAreListed
      <3>2. p \in Peers
        BY <1>7, <2>1, <3>1
      <3>3. p \notin {id0, id1}
        BY <1>3, <2>1, <3>1, <3>2 DEF Devices, NoDevice
      <3> QED
        BY <1>5, <3>1, <3>2, <3>3
    <2>2. CASE d = n
      BY <1>5, <1>7, <2>2
    <2> QED
      BY <1>6, <2>1, <2>2
  <1>12. DisposedDevicesLeave'
    <2> SUFFICES ASSUME NEW p \in Peers, register'[p] # NoDevice
                 PROVE  \/ devices'[register'[p]].live
                        \/ \E i \in DOMAIN disposals : p \in disposals[i]
                        \/ devices'[register'[p]].id1 # NoPeer
      BY <1>3 DEF DisposedDevicesLeave
    <2>1. CASE p \in {id0, id1}
      BY <1>2, <1>4, <1>5, <2>1
    <2>2. CASE p \notin {id0, id1}
      BY <1>1, <1>4, <1>5, <2>2 DEF RegistryInv, DisposedDevicesLeave
    <2> QED
      BY <2>1, <2>2
  <1> QED
    BY <1>8, <1>9, <1>10, <1>11, <1>12 DEF RegistryInv

(* Devices are disposed that keys of their own lead to.                     *)
LEMMA DisposingKeeps ==
  ASSUME RegistryInv, NEW keys \in SUBSET Peers, Disposing(keys)
  PROVE  RegistryInv'
  <1>1. /\ devices \in Seq(DeviceRecord) /\ disposals \in Seq(SUBSET Peers)
        /\ register \in [Peers -> {NoDevice} \cup Devices] /\ Len(devices) \in Nat
    BY DEF RegistryInv, RegistryTyped
  <1>2. \A d \in Devices : devices[d] \in DeviceRecord
    BY <1>1, ElementOfSeq DEF Devices
  <1>3. /\ devices' = [d \in Devices |->
                        [devices[d] EXCEPT !.live = @ /\ \A k \in keys : register[k] # d]]
        /\ register' = register
    BY DEF Disposing
  <1>4. \A d \in Devices : /\ devices'[d] \in DeviceRecord
                           /\ devices'[d].id0 = devices[d].id0
                           /\ devices'[d].id1 = devices[d].id1
                           /\ devices'[d].hasty = devices[d].hasty
                           /\ devices'[d].live <=> devices[d].live /\ \A k \in keys : register[k] # d
    <2> TAKE d \in Devices
    <2> DEFINE l == devices[d].live /\ \A k \in keys : register[k] # d
    <2>1. devices'[d] = [devices[d] EXCEPT !.live = l] /\ l \in BOOLEAN
      BY <1>3
    <2> HIDE DEF l
    <2>2. /\ devices'[d] \in DeviceRecord
          /\ devices'[d].id0 = devices[d].id0 /\ devices'[d].id1 = devices[d].id1
          /\ devices'[d].hasty = devices[d].hasty /\ devices'[d].live = l
      BY <1>2, <2>1 DEF DeviceRecord
    <2> QED
      BY <2>2 DEF l
  <1>5. devices' \in Seq(DeviceRecord) /\ Len(devices') = Len(devices)
    <2>1. devices' \in [1 .. Len(devices) -> DeviceRecord]
      BY <1>3, <1>4 DEF Devices
    <2> QED
      BY <1>1, <2>1, SeqDef, LenProperties
  <1>6. Devices' = Devices /\ \A d \in Devices : Ids(d)' = Ids(d)
    BY <1>4, <1>5 DEF Devices, Ids
  <1>7. /\ disposals' \in Seq(SUBSET Peers)
        /\ \A i \in 1 .. Len(disposals) : i \in 1 .. Len(disposals') /\ disposals'[i] = disposals[i]
        /\ \A i \in 1 .. Len(disposals') :
             i \in 1 .. Len(disposals) \/ disposals'[i] = keys
        /\ \A k \in keys : \E i \in 1 .. Len(disposals') : k \in disposals'[i]
    <2>1. CASE keys = {}
      BY <1>1, <2>1 DEF Disposing
    <2>2. CASE keys # {}
      <3>1. disposals' = Append(disposals, keys)
        BY <2>2 DEF Disposing
      <3>2. /\ disposals' \in Seq(SUBSET Peers) /\ Len(disposals') = Len(disposals) + 1
            /\ \A i \in 1 .. Len(disposals) : disposals'[i] = disposals[i]
            /\ disposals'[Len(disposals) + 1] = keys /\ Len(disposals) \in Nat
        BY <1>1, <3>1, AppendProperties
      <3> QED
        BY <3>2
    <2> QED
      BY <2>1, <2>2
  <1>8. RegistryTyped'
    BY <1>1, <1>3, <1>5, <1>6, <1>7 DEF RegistryTyped
  <1>9. KeysAreIds'
    BY <1>1, <1>3, <1>6 DEF RegistryInv, KeysAreIds
  <1>10. LiveDevicesAreListed'
    <2> SUFFICES ASSUME NEW d \in Devices, devices'[d].live, ~devices'[d].hasty, NEW p \in Ids(d)
                 PROVE  register[p] = d
      BY <1>3, <1>6 DEF LiveDevicesAreListed
    <2> QED
      BY <1>4 DEF RegistryInv, LiveDevicesAreListed
  <1>11. LiveKeysStay'
    <2> SUFFICES ASSUME NEW d \in Devices, devices'[d].live, ~devices'[d].hasty,
                        NEW i \in 1 .. Len(disposals'), NEW p \in Ids(d)
                 PROVE  p \notin disposals'[i]
      BY <1>6 DEF LiveKeysStay
    <2>1. devices[d].live /\ ~devices[d].hasty /\ \A k \in keys : register[k] # d
      BY <1>4
    <2>2. register[p] = d
      BY <2>1 DEF RegistryInv, LiveDevicesAreListed
    <2>3. CASE i \in 1 .. Len(disposals)
      BY <1>7, <2>1, <2>3 DEF RegistryInv, LiveKeysStay
    <2>4. CASE disposals'[i] = keys
      BY <2>1, <2>2, <2>4
    <2> QED
      BY <1>7, <2>3, <2>4
  <1>12. DisposedDevicesLeave'
    <2> SUFFICES ASSUME NEW p \in Peers, register[p] # NoDevice,
                        ~devices'[register[p]].live, devices'[register[p]].id1 = NoPeer
                 PROVE  \E i \in 1 .. Len(disposals') : p \in disposals'[i]
      BY <1>3, <1>7 DEF DisposedDevicesLeave
    <2> DEFINE d == register[p]
    <2>1. d \in Devices /\ devices[d].id1 = NoPeer
      BY <1>1, <1>4
    <2>2. CASE devices[d].live
      <3>1. PICK k \in keys : register[k] = d
        BY <1>4, <2>1, <2>2
      <3>2. k \in Ids(d) /\ p \in Ids(d)
        BY <3>1, <2>1 DEF RegistryInv, KeysAreIds
      <3>3. k = p
        BY <2>1, <3>2 DEF Ids
      <3> QED
        BY <1>7, <3>3
    <2>3. CASE ~devices[d].live
      <3>1. PICK i \in 1 .. Len(disposals) : p \in disposals[i]
        BY <1>1, <2>1, <2>3 DEF RegistryInv, DisposedDevicesLeave
      <3> QED
        BY <1>7, <3>1
    <2> QED
      BY <2>2, <2>3
  <1> QED
    BY <1>8, <1>9, <1>10, <1>11, <1>12 DEF RegistryInv

(* The keys of a disposal that is done lead nowhere any more.               *)
LEMMA ForgetKeeps ==
  ASSUME RegistryInv, Forget
  PROVE  RegistryInv'
  <1>1. /\ devices \in Seq(DeviceRecord) /\ disposals \in Seq(SUBSET Peers)
        /\ register \in [Peers -> {NoDevice} \cup Devices] /\ disposals # <<>>
    BY DEF RegistryInv, RegistryTyped, Forget
  <1> DEFINE gone == Head(disposals)
  <1>2. /\ disposals' = Tail(disposals) /\ devices' = devices
        /\ register' = [p \in Peers |-> IF p \in gone THEN NoDevice ELSE register[p]]
    BY DEF Forget
  <1>3. /\ disposals' \in Seq(SUBSET Peers) /\ Len(disposals') = Len(disposals) - 1
        /\ \A i \in 1 .. Len(disposals') : disposals'[i] = disposals[i + 1]
        /\ gone = disposals[1] /\ Len(disposals) \in Nat /\ Len(disposals) >= 1
    BY <1>1, <1>2, HeadTailProperties, EmptySeq
  <1> HIDE DEF gone
  <1>4. Devices' = Devices /\ \A d \in Devices : Ids(d)' = Ids(d)
    BY <1>2 DEF Devices, Ids
  <1>5. \A d \in Devices : Ids(d) \subseteq Peers
    BY IdsArePeers DEF RegistryInv
  <1>6. RegistryTyped'
    BY <1>1, <1>2, <1>3, <1>4 DEF RegistryTyped
  <1>7. KeysAreIds'
    BY <1>1, <1>2, <1>4 DEF RegistryInv, KeysAreIds
  <1>8. LiveKeysStay'
    <2> SUFFICES ASSUME NEW d \in Devices, devices[d].live, ~devices[d].hasty,
                        NEW i \in 1 .. Len(disposals')
                 PROVE  disposals'[i] \cap Ids(d) = {}
      BY <1>2, <1>4 DEF LiveKeysStay
    <2>1. i + 1 \in 1 .. Len(disposals)
      BY <1>3
    <2> QED
      BY <1>3, <2>1 DEF RegistryInv, LiveKeysStay
  <1>9. LiveDevicesAreListed'
    <2> SUFFICES ASSUME NEW d \in Devices, devices[d].live, ~devices[d].hasty, NEW p \in Ids(d)
                 PROVE  register'[p] = d
      BY <1>2, <1>4 DEF LiveDevicesAreListed
    <2>1. register[p] = d /\ p \in Peers
      BY <1>5 DEF RegistryInv, LiveDevicesAreListed
    <2>2. p \notin gone
      BY <1>3 DEF RegistryInv, LiveKeysStay
    <2> QED
      BY <1>2, <2>1, <2>2
  <1>10. DisposedDevicesLeave'
    <2>0. DOMAIN disposals' = 1 .. Len(disposals')
      BY <1>3
    <2> SUFFICES ASSUME NEW p \in Peers, register'[p] # NoDevice,
                        ~devices[register'[p]].live, devices[register'[p]].id1 = NoPeer
                 PROVE  \E i \in 1 .. Len(disposals') : p \in disposals'[i]
      BY <1>2, <2>0, Zenon DEF DisposedDevicesLeave
    <2>1. p \notin gone /\ register'[p] = register[p]
      BY <1>2
    <2>2. PICK i \in 1 .. Len(disposals) : p \in disposals[i]
      BY <1>1, <2>1 DEF RegistryInv, DisposedDevicesLeave
    <2>3. i # 1
      BY <1>3, <2>1, <2>2
    <2>4. i - 1 \in 1 .. Len(disposals') /\ (i - 1) + 1 = i
      BY <1>3, <2>3
    <2> QED
      BY <1>3, <2>2, <2>4
  <1> QED
    BY <1>6, <1>7, <1>8, <1>9, <1>10 DEF RegistryInv

(* Whatever a disposal is asked for, its keys are those of peers.           *)
LEMMA FoundIsPeer ==
  ASSUME RegistryInv, NEW p \in Peers, register[p] # NoDevice
  PROVE  LET d == devices[register[p]]
         IN  /\ Found(d.id0, d.id1) \in Peers
             /\ register[d.id0] # NoDevice => Found(d.id0, d.id1) = d.id0
  <1>1. register[p] \in Devices /\ p \in Ids(register[p])
    BY DEF RegistryInv, RegistryTyped, KeysAreIds
  <1>2. devices[register[p]] \in DeviceRecord
    BY <1>1, ElementOfSeq DEF RegistryInv, RegistryTyped, Devices
  <1>3. /\ devices[register[p]].id0 \in Peers
        /\ p \in {devices[register[p]].id0, devices[register[p]].id1}
    BY <1>1, <1>2 DEF DeviceRecord, Ids
  <1> QED
    BY <1>3 DEF Found

LEMMA DisposeMosDeviceKeeps ==
  ASSUME RegistryInv, DisposeMosDevice
  PROVE  RegistryInv'
  <1>1. PICK key \in Peers : Disposing({key})
    BY DEF DisposeMosDevice
  <1>2. {key} \in SUBSET Peers
    OBVIOUS
  <1> QED
    BY <1>1, <1>2, DisposingKeeps

AllKeys == {Found(devices[register[k]].id0, devices[register[k]].id1) :
              k \in {p \in Peers : register[p] # NoDevice}}

LEMMA DisposeAllKeeps ==
  ASSUME RegistryInv, DisposeAllDevices
  PROVE  AllKeys \in SUBSET Peers /\ Disposing(AllKeys) /\ RegistryInv'
  <1>1. AllKeys \in SUBSET Peers
    BY FoundIsPeer DEF AllKeys
  <1>2. Disposing(AllKeys)
    BY Zenon DEF DisposeAllDevices, AllKeys
  <1> QED
    BY <1>1, <1>2, DisposingKeeps

-----------------------------------------------------------------------------
(* The servers and their sockets.                                           *)

SocketRecord == [of : {<<0, "none">>} \cup Servers, state : {"none", "open", "destroyed"}]

(* A call of init() that has not happened has made no server.               *)
Unused ==
  \A i \in Inits : i > inits => promise[i] = "none" /\ \A p \in Ports : server[<<i, p>>] = "none"

(* Only the servers of the last call are open, unless it was careless.      *)
Careful == ~careless => \A s \in Servers : server[s] = "open" => s[1] = inits

ListeningInv ==
  /\ ListeningTypeOK /\ socket \in [Sockets -> SocketRecord]
  /\ ResolvedInitListens /\ Unused /\ Careful

LEMMA ListeningStarts == ListeningInit => ListeningInv
  <1> SUFFICES ASSUME ListeningInit PROVE ListeningInv
    OBVIOUS
  <1>1. NoSocket \in SocketRecord
    BY DEF NoSocket, SocketRecord
  <1>2. socket \in [Sockets -> SocketRecord] /\ \A x \in Sockets : socket[x] = NoSocket
    BY <1>1 DEF ListeningInit
  <1>3. /\ promise \in [Inits -> {"none"}] /\ server \in [Servers -> {"none"}]
        /\ inits = 0 /\ careless = FALSE /\ 0 \in 0 .. MaxInits
    BY MaxInitsAssumption DEF ListeningInit
  <1>4. ListeningTypeOK
    BY <1>2, <1>3 DEF ListeningTypeOK
  <1>5. ResolvedInitListens /\ Unused
    BY <1>3 DEF ResolvedInitListens, Unused, Servers
  <1>6. Careful
    BY <1>3 DEF Careful
  <1> QED
    BY <1>2, <1>4, <1>5, <1>6 DEF ListeningInv

(* The servers of a new call are new ones.                                  *)
LEMMA CallInitKeeps ==
  ASSUME ListeningInv, CallInit
  PROVE  ListeningInv'
  <1>1. /\ inits \in 0 .. MaxInits /\ inits < MaxInits /\ inits' = inits + 1
        /\ socket' = socket
    BY DEF ListeningInv, ListeningTypeOK, CallInit
  <1>2. inits' \in Inits /\ inits' > inits /\ inits' \in 0 .. MaxInits
    BY <1>1, MaxInitsAssumption DEF Inits
  <1>3. /\ promise' \in [Inits -> {"none", "pending", "resolved", "rejected"}]
        /\ promise'[inits'] = "pending"
        /\ \A i \in Inits : i # inits' => promise'[i] = promise[i]
    BY <1>2 DEF ListeningInv, ListeningTypeOK, CallInit
  <1>4. server' \in [Servers -> {"none", "open", "failed", "closing", "closed"}]
    BY DEF ListeningInv, ListeningTypeOK, CallInit
  <1>5. \A s \in Servers : s[1] # inits' => server'[s] = server[s]
    BY DEF CallInit
  <1>6. \A i \in Inits, p \in Ports : <<i, p>> \in Servers
    BY DEF Servers
  <1>7. \A s \in Servers : s = <<s[1], s[2]>> /\ s[1] \in Inits /\ s[2] \in Ports
    BY DEF Servers
  <1>8. \A s \in Servers : s[1] = inits' => server[s] = "none"
    BY <1>2, <1>7 DEF ListeningInv, Unused
  <1>9. ListeningTypeOK'
    <2>1. ASSUME NEW x \in Sockets, socket[x] # NoSocket
          PROVE  server'[socket[x].of] \in {"open", "closing"}
      <3>1. socket[x].of \in Servers /\ server[socket[x].of] \in {"open", "closing"}
        BY <2>1 DEF ListeningInv, ListeningTypeOK
      <3> QED
        BY <1>5, <1>8, <3>1
    <2>2. careless' \in BOOLEAN
      BY DEF CallInit, ListeningInv, ListeningTypeOK
    <2> QED
      BY <1>1, <1>2, <1>3, <1>4, <2>1, <2>2 DEF ListeningInv, ListeningTypeOK
  <1>10. ResolvedInitListens'
    <2> SUFFICES ASSUME NEW i \in Inits, promise'[i] = "resolved"
                 PROVE  \/ \A p \in Ports : server'[<<i, p>>] = "open"
                        \/ \A p \in Ports : server'[<<i, p>>] \in {"closing", "closed"}
      BY DEF ResolvedInitListens
    <2>1. i # inits' /\ promise[i] = "resolved"
      BY <1>3
    <2>2. \A p \in Ports : server'[<<i, p>>] = server[<<i, p>>]
      BY <1>5, <1>6, <2>1
    <2> QED
      BY <2>1, <2>2 DEF ListeningInv, ResolvedInitListens
  <1>11. Unused'
    <2> SUFFICES ASSUME NEW i \in Inits, i > inits'
                 PROVE  promise'[i] = "none" /\ \A p \in Ports : server'[<<i, p>>] = "none"
      BY DEF Unused
    <2>1. i > inits /\ i # inits'
      BY <1>1, <1>2 DEF Inits
    <2> QED
      BY <1>3, <1>5, <1>6, <2>1 DEF ListeningInv, Unused
  <1>12. Careful'
    <2> SUFFICES ASSUME ~careless', NEW s \in Servers, server'[s] = "open", s[1] # inits'
                 PROVE  FALSE
      BY DEF Careful
    <2> QED
      BY <1>5 DEF CallInit
  <1> QED
    BY <1>1, <1>9, <1>10, <1>11, <1>12 DEF ListeningInv

LEMMA InitSettlesKeeps ==
  ASSUME ListeningInv, NEW i \in Inits, InitSettles(i)
  PROVE  ListeningInv'
  <1>1. /\ promise[i] = "pending"
        /\ UNCHANGED <<inits, server, socket, taken, careless>>
        /\ promise \in [Inits -> {"none", "pending", "resolved", "rejected"}]
    BY DEF InitSettles, ListeningInv, ListeningTypeOK
  <1>2. \/ /\ promise' = [promise EXCEPT ![i] = "resolved"]
           /\ \A p \in Ports : server[<<i, p>>] = "open"
        \/ promise' = [promise EXCEPT ![i] = "rejected"]
    BY DEF InitSettles
  <1>3. /\ promise' \in [Inits -> {"none", "pending", "resolved", "rejected"}]
        /\ \A j \in Inits : j # i => promise'[j] = promise[j]
        /\ promise'[i] = "resolved" => \A p \in Ports : server[<<i, p>>] = "open"
    BY <1>1, <1>2
  <1>4. ListeningTypeOK'
    BY <1>1, <1>3 DEF ListeningInv, ListeningTypeOK
  <1>5. ResolvedInitListens'
    BY <1>1, <1>3 DEF ListeningInv, ResolvedInitListens
  <1>6. Unused'
    BY <1>1, <1>3 DEF ListeningInv, Unused
  <1> QED
    BY <1>1, <1>4, <1>5, <1>6 DEF ListeningInv, Careful

LEMMA AcceptKeeps ==
  ASSUME ListeningInv, NEW s \in Servers, NEW x \in Sockets, Accept(s, x)
  PROVE  ListeningInv'
  <1> DEFINE r == [of |-> s, state |-> "open"]
  <1>1. /\ server[s] = "open" /\ socket' = [socket EXCEPT ![x] = r]
        /\ UNCHANGED <<inits, promise, server, taken, careless>>
    BY DEF Accept
  <1>2. r \in SocketRecord /\ r.of = s /\ r.state = "open"
    BY DEF SocketRecord
  <1> HIDE DEF r
  <1>3. /\ socket' \in [Sockets -> SocketRecord] /\ socket'[x] = r
        /\ \A y \in Sockets : y # x => socket'[y] = socket[y]
    BY <1>1, <1>2 DEF ListeningInv
  <1>4. ListeningTypeOK'
    BY <1>1, <1>2, <1>3 DEF ListeningInv, ListeningTypeOK
  <1> QED
    BY <1>1, <1>3, <1>4 DEF ListeningInv, ResolvedInitListens, Unused, Careful

LEMMA ClosedKeeps ==
  ASSUME ListeningInv, NEW x \in Sockets, Closed(x)
  PROVE  ListeningInv'
  <1>1. /\ socket' = [socket EXCEPT ![x] = NoSocket]
        /\ UNCHANGED <<inits, promise, server, taken, careless>>
    BY DEF Closed
  <1>2. NoSocket \in SocketRecord
    BY DEF NoSocket, SocketRecord
  <1>3. /\ socket' \in [Sockets -> SocketRecord] /\ socket'[x] = NoSocket
        /\ \A y \in Sockets : y # x => socket'[y] = socket[y]
    BY <1>1, <1>2 DEF ListeningInv
  <1>4. ListeningTypeOK'
    BY <1>1, <1>3 DEF ListeningInv, ListeningTypeOK
  <1> QED
    BY <1>1, <1>3, <1>4 DEF ListeningInv, ResolvedInitListens, Unused, Careful

(* What dispose() leaves: no server of the last call and no socket is open. *)
LEMMA CloseAllKeeps ==
  ASSUME ListeningInv, CloseAll
  PROVE  /\ ListeningInv'
         /\ \A x \in Sockets : socket'[x].state # "open"
         /\ ~careless => \A s \in Servers : server'[s] # "open"
  <1>1. UNCHANGED <<inits, promise, taken, careless>>
    BY DEF CloseAll
  <1>2. /\ server' \in [Servers -> {"none", "open", "failed", "closing", "closed"}]
        /\ \A s \in Servers :
             \/ server'[s] = server[s] /\ ~(s[1] = inits /\ server[s] = "open")
             \/ server[s] = "open" /\ server'[s] = "closing" /\ s[1] = inits
    BY DEF CloseAll, CloseServers, Current, ListeningInv, ListeningTypeOK
  <1>3. /\ socket' \in [Sockets -> SocketRecord]
        /\ \A x \in Sockets : /\ socket'[x].of = socket[x].of
                              /\ socket'[x].state = IF socket[x].state = "open" THEN "destroyed"
                                                    ELSE socket[x].state
    BY DEF CloseAll, DestroySockets, ListeningInv, SocketRecord
  <1>4. \A x \in Sockets : socket[x] = NoSocket => socket'[x] = NoSocket
    BY DEF CloseAll, DestroySockets, NoSocket
  <1>5. ListeningTypeOK'
    <2>1. ASSUME NEW x \in Sockets, socket[x] # NoSocket
          PROVE  /\ socket'[x].of \in Servers /\ socket'[x].state \in {"open", "destroyed"}
                 /\ server'[socket'[x].of] \in {"open", "closing"}
      <3>1. /\ socket[x].of \in Servers /\ socket[x].state \in {"open", "destroyed"}
            /\ server[socket[x].of] \in {"open", "closing"}
        BY <2>1 DEF ListeningInv, ListeningTypeOK
      <3> QED
        BY <1>2, <1>3, <3>1
    <2> QED
      BY <1>1, <1>2, <1>4, <2>1 DEF ListeningInv, ListeningTypeOK
  <1>6. ResolvedInitListens'
    <2> SUFFICES ASSUME NEW i \in Inits, promise[i] = "resolved"
                 PROVE  \/ \A p \in Ports : server'[<<i, p>>] = "open"
                        \/ \A p \in Ports : server'[<<i, p>>] \in {"closing", "closed"}
      BY <1>1 DEF ResolvedInitListens
    <2>1. \A p \in Ports : <<i, p>> \in Servers /\ <<i, p>>[1] = i
      BY DEF Servers
    <2>2. CASE \A p \in Ports : server[<<i, p>>] = "open"
      <3>1. CASE i = inits
        BY <1>2, <2>1, <2>2, <3>1
      <3>2. CASE i # inits
        BY <1>2, <2>1, <2>2, <3>2
      <3> QED
        BY <3>1, <3>2
    <2>3. CASE \A p \in Ports : server[<<i, p>>] \in {"closing", "closed"}
      BY <1>2, <2>1, <2>3
    <2> QED
      BY <2>2, <2>3 DEF ListeningInv, ResolvedInitListens
  <1>7. Unused'
    <2>1. \A i \in Inits, p \in Ports : <<i, p>> \in Servers
      BY DEF Servers
    <2> QED
      BY <1>1, <1>2, <2>1 DEF ListeningInv, Unused
  <1>8. Careful' /\ (~careless => \A s \in Servers : server'[s] # "open")
    BY <1>1, <1>2 DEF ListeningInv, Careful
  <1> QED
    BY <1>1, <1>3, <1>5, <1>6, <1>7, <1>8 DEF ListeningInv

LEMMA ServerClosedKeeps ==
  ASSUME ListeningInv, NEW s \in Servers, ServerClosed(s)
  PROVE  ListeningInv'
  <1>1. /\ server[s] = "closing" /\ SocketsOf(s) = {}
        /\ server' = [server EXCEPT ![s] = "closed"]
        /\ UNCHANGED <<inits, promise, socket, taken, careless>>
    BY DEF ServerClosed
  <1>2. /\ server' \in [Servers -> {"none", "open", "failed", "closing", "closed"}]
        /\ server'[s] = "closed"
        /\ \A t \in Servers : t # s => server'[t] = server[t]
    BY <1>1 DEF ListeningInv, ListeningTypeOK
  <1>3. \A x \in Sockets : socket[x].of # s
    BY <1>1 DEF SocketsOf
  <1>4. \A i \in Inits, p \in Ports : <<i, p>> \in Servers
    BY DEF Servers
  <1>5. ListeningTypeOK'
    BY <1>1, <1>2, <1>3 DEF ListeningInv, ListeningTypeOK
  <1>6. ResolvedInitListens'
    <2>1. \A i \in Inits, p \in Ports :
            \/ server'[<<i, p>>] = server[<<i, p>>]
            \/ server'[<<i, p>>] = "closed" /\ server[<<i, p>>] = "closing"
      BY <1>1, <1>2, <1>4
    <2> QED
      BY <1>1, <2>1 DEF ListeningInv, ResolvedInitListens
  <1>7. Unused'
    BY <1>1, <1>2, <1>4 DEF ListeningInv, Unused
  <1>8. Careful'
    BY <1>1, <1>2 DEF ListeningInv, Careful
  <1> QED
    BY <1>1, <1>5, <1>6, <1>7, <1>8 DEF ListeningInv

-----------------------------------------------------------------------------
(* dispose().                                                               *)

(* While dispose() works and afterwards nothing new comes in, and what is   *)
(* left in the register is about to go, or is the key of a second peer.     *)
DisposeHolds ==
  closing \in {"running", "done"} /\ ~careless =>
    /\ \A s \in Servers : server[s] # "open"
    /\ \A x \in Sockets : socket[x].state # "open"
    /\ \A d \in Devices : devices[d].live => devices[d].hasty
    /\ \A p \in Peers : register[p] # NoDevice =>
         \/ devices[register[p]].id1 # NoPeer
         \/ closing = "running" /\ \E i \in 1 .. Len(disposals) : p \in disposals[i]

ConnectionInv == RegistryInv /\ ListeningInv /\ DisposeHolds /\ DisposeReleases

LEMMA RegistryUnchanged ==
  ASSUME RegistryInv, UNCHANGED registryVars
  PROVE  RegistryInv'
  BY DEF registryVars, RegistryInv, RegistryTyped, KeysAreIds, LiveKeysStay,
     LiveDevicesAreListed, DisposedDevicesLeave, Devices, Ids

LEMMA ListeningUnchanged ==
  ASSUME ListeningInv, UNCHANGED listeningVars
  PROVE  ListeningInv'
  BY DEF listeningVars, ListeningInv, ListeningTypeOK, ResolvedInitListens, Unused, Careful

LEMMA ConnectionStarts == Init => ConnectionInv
  BY RegistryStarts, ListeningStarts DEF Init, ConnectionInv, DisposeHolds, DisposeReleases

(* What makes a new device or opens a port ends the disposal for the proof. *)
LEMMA OpeningKeeps ==
  ASSUME ConnectionInv, Initialise \/ ConnectDevice
  PROVE  ConnectionInv'
  <1>1. closing' = "no"
    BY DEF Initialise, ConnectDevice
  <1>2. DisposeHolds' /\ DisposeReleases'
    BY <1>1 DEF DisposeHolds, DisposeReleases
  <1>3. CASE Initialise
    <2>1. UNCHANGED registryVars /\ CallInit
      BY <1>3 DEF Initialise
    <2>2. RegistryInv'
      BY <2>1, RegistryUnchanged DEF ConnectionInv
    <2> QED
      BY <1>2, <2>1, <2>2, CallInitKeeps DEF ConnectionInv
  <1>4. CASE ConnectDevice
    <2>1. PICK id0 \in Peers, id1 \in Peers \cup {NoPeer} : RegisterDevice(id0, id1)
      BY <1>4 DEF ConnectDevice, Connect
    <2>2. RegistryInv'
      BY <2>1, RegisterKeeps DEF ConnectionInv
    <2>3. UNCHANGED listeningVars
      BY <1>4 DEF ConnectDevice
    <2>4. ListeningInv'
      BY <2>3, ListeningUnchanged DEF ConnectionInv
    <2> QED
      BY <1>2, <2>2, <2>4 DEF ConnectionInv
  <1> QED
    BY <1>3, <1>4

(* The relay makes no device of a disposed connection: no socket is open.   *)
LEMMA RelayKeeps ==
  ASSUME ConnectionInv, Relay
  PROVE  ConnectionInv'
  <1>1. PICK peer \in Peers : RegisterDevice(peer, NoPeer)
    BY DEF Relay, Relayed
  <1>2. RegistryInv'
    BY <1>1, RegisterKeeps DEF ConnectionInv
  <1>3. UNCHANGED listeningVars /\ closing' = closing
    BY DEF Relay
  <1>4. ListeningInv'
    BY <1>3, ListeningUnchanged DEF ConnectionInv
  <1>5. ~(closing \in {"running", "done"} /\ ~careless)
    BY DEF Relay, ConnectionInv, DisposeHolds
  <1>6. DisposeHolds' /\ DisposeReleases'
    BY <1>3, <1>5 DEF DisposeHolds, DisposeReleases, listeningVars
  <1> QED
    BY <1>2, <1>4, <1>6 DEF ConnectionInv

(* What a disposal of devices leaves of the register: what was there.       *)
LEMMA DisposingLeaves ==
  ASSUME RegistryInv, NEW keys \in SUBSET Peers, Disposing(keys)
  PROVE  /\ Devices' = Devices /\ register' = register
         /\ \A d \in Devices :
              /\ devices'[d].id0 = devices[d].id0 /\ devices'[d].id1 = devices[d].id1
              /\ devices'[d].hasty = devices[d].hasty
              /\ devices'[d].live => devices[d].live /\ \A k \in keys : register[k] # d
         /\ \A i \in 1 .. Len(disposals) :
              i \in 1 .. Len(disposals') /\ disposals'[i] = disposals[i]
         /\ \A k \in keys : \E i \in 1 .. Len(disposals') : k \in disposals'[i]
  <1>1. /\ devices \in Seq(DeviceRecord) /\ disposals \in Seq(SUBSET Peers)
        /\ Len(devices) \in Nat
    BY DEF RegistryInv, RegistryTyped
  <1>2. \A d \in Devices : devices[d] \in DeviceRecord
    BY <1>1, ElementOfSeq DEF Devices
  <1>3. /\ devices' = [d \in Devices |->
                        [devices[d] EXCEPT !.live = @ /\ \A k \in keys : register[k] # d]]
        /\ register' = register
    BY DEF Disposing
  <1>4. \A d \in Devices : /\ devices'[d].id0 = devices[d].id0
                           /\ devices'[d].id1 = devices[d].id1
                           /\ devices'[d].hasty = devices[d].hasty
                           /\ devices'[d].live => devices[d].live /\ \A k \in keys : register[k] # d
    <2> TAKE d \in Devices
    <2> DEFINE l == devices[d].live /\ \A k \in keys : register[k] # d
    <2>1. devices'[d] = [devices[d] EXCEPT !.live = l]
      BY <1>3
    <2> HIDE DEF l
    <2>2. /\ devices'[d].id0 = devices[d].id0 /\ devices'[d].id1 = devices[d].id1
          /\ devices'[d].hasty = devices[d].hasty /\ devices'[d].live = l
      BY <1>2, <2>1 DEF DeviceRecord
    <2> QED
      BY <2>2 DEF l
  <1>5. Devices' = Devices
    <2>1. RegistryTyped'
      BY DisposingKeeps DEF RegistryInv
    <2>2. DOMAIN devices' = 1 .. Len(devices')
      BY <2>1 DEF RegistryTyped
    <2> QED
      BY <1>3, <2>2 DEF Devices
  <1>6. /\ \A i \in 1 .. Len(disposals) :
             i \in 1 .. Len(disposals') /\ disposals'[i] = disposals[i]
        /\ \A k \in keys : \E i \in 1 .. Len(disposals') : k \in disposals'[i]
    <2>1. CASE keys = {}
      BY <1>1, <2>1 DEF Disposing
    <2>2. CASE keys # {}
      <3>1. disposals' = Append(disposals, keys)
        BY <2>2 DEF Disposing
      <3>2. /\ Len(disposals') = Len(disposals) + 1
            /\ \A i \in 1 .. Len(disposals) : disposals'[i] = disposals[i]
            /\ disposals'[Len(disposals) + 1] = keys /\ Len(disposals) \in Nat
        BY <1>1, <3>1, AppendProperties
      <3> QED
        BY <3>2
    <2> QED
      BY <2>1, <2>2
  <1> QED
    BY <1>3, <1>4, <1>5, <1>6

LEMMA DisposeDeviceKeeps ==
  ASSUME ConnectionInv, DisposeDevice
  PROVE  ConnectionInv'
  <1>1. PICK key \in Peers : Disposing({key})
    BY DEF DisposeDevice, DisposeMosDevice
  <1>2. UNCHANGED listeningVars /\ closing' = closing
    BY DEF DisposeDevice
  <1>3. UNCHANGED <<server, socket, careless>>
    BY <1>2 DEF listeningVars
  <1>4. RegistryInv'
    BY DisposeMosDeviceKeeps DEF DisposeDevice, ConnectionInv
  <1>5. ListeningInv'
    BY <1>2, ListeningUnchanged DEF ConnectionInv
  <1> DEFINE kept == /\ Devices' = Devices /\ register' = register
                     /\ \A d \in Devices :
                          /\ devices'[d].id1 = devices[d].id1
                          /\ devices'[d].hasty = devices[d].hasty
                          /\ devices'[d].live => devices[d].live
                     /\ \A i \in 1 .. Len(disposals) :
                          i \in 1 .. Len(disposals') /\ disposals'[i] = disposals[i]
  <1>6. kept
    BY <1>1, DisposingLeaves DEF ConnectionInv
  <1>7. \A p \in Peers : register[p] # NoDevice => register[p] \in Devices
    BY DEF ConnectionInv, RegistryInv, RegistryTyped
  <1>8. DisposeHolds'
    BY <1>2, <1>3, <1>6, <1>7 DEF ConnectionInv, DisposeHolds
  <1>9. DisposeReleases'
    BY <1>2, <1>3, <1>6, <1>7 DEF ConnectionInv, DisposeReleases
  <1> QED
    BY <1>4, <1>5, <1>8, <1>9 DEF ConnectionInv

LEMMA DeviceDisposedKeeps ==
  ASSUME ConnectionInv, DeviceDisposed
  PROVE  ConnectionInv'
  <1>1. UNCHANGED listeningVars /\ closing' = closing /\ Forget
    BY DEF DeviceDisposed
  <1>2. UNCHANGED <<server, socket, careless>>
    BY <1>1 DEF listeningVars
  <1>3. RegistryInv'
    BY <1>1, ForgetKeeps DEF ConnectionInv
  <1>4. ListeningInv'
    BY <1>1, ListeningUnchanged DEF ConnectionInv
  <1>5. /\ devices' = devices
        /\ \A p \in Peers : register'[p] # NoDevice =>
             register'[p] = register[p] /\ p \notin Head(disposals)
    BY DEF DeviceDisposed, Forget
  <1>6. /\ Len(disposals) \in Nat /\ Len(disposals') = Len(disposals) - 1
        /\ \A i \in 1 .. Len(disposals') : disposals'[i] = disposals[i + 1]
        /\ Head(disposals) = disposals[1]
    BY <1>1, HeadTailProperties, EmptySeq DEF Forget, ConnectionInv, RegistryInv, RegistryTyped
  <1>7. \A p \in Peers : register'[p] # NoDevice =>
          ((\E i \in 1 .. Len(disposals) : p \in disposals[i])
            => \E i \in 1 .. Len(disposals') : p \in disposals'[i])
    <2> SUFFICES ASSUME NEW p \in Peers, register'[p] # NoDevice,
                        NEW i \in 1 .. Len(disposals), p \in disposals[i]
                 PROVE  \E j \in 1 .. Len(disposals') : p \in disposals'[j]
      OBVIOUS
    <2>1. i # 1
      BY <1>5, <1>6
    <2>2. i - 1 \in 1 .. Len(disposals') /\ (i - 1) + 1 = i
      BY <1>6, <2>1
    <2> QED
      BY <1>6, <2>2
  <1>8. Devices' = Devices
    BY <1>5 DEF Devices
  <1>9. DisposeHolds'
    BY <1>1, <1>2, <1>5, <1>7, <1>8 DEF ConnectionInv, DisposeHolds
  <1>10. DisposeReleases'
    BY <1>1, <1>2, <1>5, <1>8 DEF ConnectionInv, DisposeReleases
  <1> QED
    BY <1>3, <1>4, <1>9, <1>10 DEF ConnectionInv

(* dispose() reaches every device that is in the register under its first   *)
(* id; one that is live and not is a hasty one.                             *)
LEMMA DisposeKeeps ==
  ASSUME ConnectionInv, Dispose
  PROVE  ConnectionInv'
  <1>1. CloseAll /\ DisposeAllDevices /\ closing' = "running" /\ RegistryInv /\ ListeningInv
    BY DEF Dispose, ConnectionInv
  <1>2. AllKeys \in SUBSET Peers /\ Disposing(AllKeys) /\ RegistryInv'
    BY <1>1, DisposeAllKeeps
  <1>3. /\ ListeningInv' /\ careless' = careless
        /\ \A x \in Sockets : socket'[x].state # "open"
        /\ ~careless => \A s \in Servers : server'[s] # "open"
    BY <1>1, CloseAllKeeps DEF CloseAll
  <1>4. /\ Devices' = Devices /\ register' = register
        /\ \A d \in Devices :
             /\ devices'[d].id0 = devices[d].id0 /\ devices'[d].id1 = devices[d].id1
             /\ devices'[d].hasty = devices[d].hasty
             /\ devices'[d].live => devices[d].live /\ \A k \in AllKeys : register[k] # d
        /\ \A k \in AllKeys : \E i \in 1 .. Len(disposals') : k \in disposals'[i]
    BY <1>1, <1>2, DisposingLeaves, Zenon
  <1>5. \A p \in Peers : register[p] # NoDevice =>
          LET d == devices[register[p]]
          IN  /\ Found(d.id0, d.id1) \in AllKeys
              /\ register[d.id0] # NoDevice => Found(d.id0, d.id1) = d.id0
    BY <1>1, FoundIsPeer DEF AllKeys
  <1>6. \A d \in Devices : devices[d].id0 \in Ids(d) /\ devices[d].id0 \in Peers
    <2> TAKE d \in Devices
    <2>1. devices[d] \in DeviceRecord
      BY <1>1, ElementOfSeq DEF RegistryInv, RegistryTyped, Devices
    <2>2. devices[d].id0 \in Peers
      BY <2>1 DEF DeviceRecord
    <2> QED
      BY <2>2, PeersAssumption DEF Ids
  <1>7. ASSUME NEW d \in Devices, devices'[d].live, ~devices'[d].hasty
        PROVE  FALSE
    <2>1. devices[d].live /\ ~devices[d].hasty
      BY <1>4, <1>7
    <2>2. register[devices[d].id0] = d
      BY <1>1, <1>6, <2>1 DEF RegistryInv, LiveDevicesAreListed
    <2>3. register[devices[d].id0] # NoDevice
      BY <2>2 DEF Devices, NoDevice
    <2>4. devices[d].id0 \in AllKeys
      BY <1>5, <1>6, <2>2, <2>3
    <2> QED
      BY <1>4, <1>7, <2>2, <2>4
  <1>8. ASSUME NEW p \in Peers, register[p] # NoDevice, devices[register[p]].id1 = NoPeer
        PROVE  \E i \in 1 .. Len(disposals') : p \in disposals'[i]
    <2>1. p \in Ids(register[p])
      BY <1>1, <1>8 DEF RegistryInv, KeysAreIds
    <2>2. p = devices[register[p]].id0
      BY <1>8, <2>1 DEF Ids
    <2>3. p \in AllKeys
      BY <1>5, <1>8, <2>2
    <2> QED
      BY <1>4, <2>3
  <1>9. \A p \in Peers : register[p] # NoDevice =>
          register[p] \in Devices /\ devices'[register[p]].id1 = devices[register[p]].id1
    BY <1>1, <1>4 DEF RegistryInv, RegistryTyped
  <1>10. DisposeHolds'
    BY <1>1, <1>3, <1>4, <1>7, <1>8, <1>9 DEF DisposeHolds
  <1>11. DisposeReleases'
    BY <1>1 DEF DisposeReleases
  <1> QED
    BY <1>2, <1>3, <1>10, <1>11 DEF ConnectionInv

LEMMA DisposedKeeps ==
  ASSUME ConnectionInv, Disposed
  PROVE  ConnectionInv'
  <1>1. UNCHANGED registryVars /\ UNCHANGED listeningVars /\ closing = "running" /\ closing' = "done"
    BY DEF Disposed
  <1>2. RegistryInv' /\ ListeningInv'
    BY <1>1, RegistryUnchanged, ListeningUnchanged DEF ConnectionInv
  <1>3. UNCHANGED <<register, devices, disposals, server, socket, careless>>
    BY <1>1 DEF registryVars, listeningVars
  <1>4. 1 .. Len(disposals) = {} /\ Devices' = Devices
    BY <1>3, EmptySeq DEF Disposed, Devices
  <1>5. ~careless => \A x \in Sockets : socket[x] = NoSocket
    <2> SUFFICES ASSUME ~careless, NEW x \in Sockets PROVE socket[x] = NoSocket
      OBVIOUS
    <2>1. socket[x].state \notin {"open", "destroyed"}
      BY <1>1 DEF Disposed, ConnectionInv, DisposeHolds
    <2> QED
      BY <2>1 DEF ConnectionInv, ListeningInv, ListeningTypeOK
  <1>6. DisposeHolds' /\ DisposeReleases'
    BY <1>1, <1>3, <1>4, <1>5 DEF ConnectionInv, DisposeHolds, DisposeReleases
  <1> QED
    BY <1>2, <1>6 DEF ConnectionInv

LEMMA EventKeeps ==
  ASSUME ConnectionInv, Event
  PROVE  ConnectionInv'
  <1>1. UNCHANGED registryVars /\ closing' = closing
    BY DEF Event
  <1>2. RegistryInv'
    BY <1>1, RegistryUnchanged DEF ConnectionInv
  <1>3. /\ ListeningInv' /\ careless' = careless
        /\ (\A s \in Servers : server[s] # "open") =>
             /\ \A s \in Servers : server'[s] # "open"
             /\ \A x \in Sockets : socket'[x] = socket[x] \/ socket'[x] = NoSocket
    <2>0. ListeningInv
      BY DEF ConnectionInv
    <2>1. CASE OtherProcess
      <3>1. UNCHANGED <<inits, promise, server, socket, careless>>
        BY <2>1 DEF OtherProcess
      <3> QED
        BY <2>0, <3>1 DEF ListeningInv, ListeningTypeOK, ResolvedInitListens, Unused, Careful
    <2>2. CASE \E i \in Inits : InitSettles(i)
      BY <2>0, <2>2, InitSettlesKeeps DEF InitSettles
    <2>3. CASE \E s \in Servers : ServerClosed(s)
      <3>1. PICK s \in Servers : ServerClosed(s)
        BY <2>3
      <3>2. server \in [Servers -> {"none", "open", "failed", "closing", "closed"}]
        BY <2>0 DEF ListeningInv, ListeningTypeOK
      <3>3. /\ \A t \in Servers : server'[t] = server[t] \/ server'[t] = "closed"
            /\ UNCHANGED <<socket, careless>>
        BY <3>1, <3>2 DEF ServerClosed
      <3> QED
        BY <2>0, <3>1, <3>3, ServerClosedKeeps
    <2>4. CASE \E s \in Servers, x \in Sockets : Accept(s, x)
      BY <2>0, <2>4, AcceptKeeps DEF Accept
    <2>5. CASE \E x \in Sockets : Closed(x)
      <3>1. PICK x \in Sockets : Closed(x)
        BY <2>5
      <3>2. /\ \A y \in Sockets : socket'[y] = socket[y] \/ socket'[y] = NoSocket
            /\ UNCHANGED <<server, careless>>
        BY <2>0, <3>1 DEF Closed, ListeningInv
      <3> QED
        BY <2>0, <3>1, <3>2, ClosedKeeps
    <2> QED
      BY <2>1, <2>2, <2>3, <2>4, <2>5 DEF Event, Destroyed, PeerCloses
  <1>4. UNCHANGED <<register, devices, disposals>> /\ Devices' = Devices
    BY <1>1 DEF registryVars, Devices
  <1>5. NoSocket.state = "none"
    BY DEF NoSocket
  <1>6. DisposeHolds'
    BY <1>1, <1>3, <1>4, <1>5 DEF ConnectionInv, DisposeHolds
  <1>7. DisposeReleases'
    BY <1>1, <1>3, <1>4 DEF ConnectionInv, DisposeReleases
  <1> QED
    BY <1>2, <1>3, <1>6, <1>7 DEF ConnectionInv

THEOREM ConnectionInvariant == Spec => []ConnectionInv
  <1>1. Init => ConnectionInv
    BY ConnectionStarts
  <1>2. ConnectionInv /\ [Next]_vars => ConnectionInv'
    <2> SUFFICES ASSUME ConnectionInv, [Next]_vars PROVE ConnectionInv'
      OBVIOUS
    <2>1. CASE UNCHANGED vars
      <3>1. UNCHANGED registryVars /\ UNCHANGED listeningVars /\ closing' = closing
        BY <2>1 DEF vars
      <3>2. RegistryInv' /\ ListeningInv'
        BY <3>1, RegistryUnchanged, ListeningUnchanged DEF ConnectionInv
      <3>3. DisposeHolds' /\ DisposeReleases'
        BY <3>1 DEF ConnectionInv, DisposeHolds, DisposeReleases, registryVars, listeningVars, Devices
      <3> QED
        BY <3>2, <3>3 DEF ConnectionInv
    <2> QED
      BY <2>1, OpeningKeeps, RelayKeeps, DisposeDeviceKeeps, DeviceDisposedKeeps, DisposeKeeps,
         DisposedKeeps, EventKeeps DEF Next
  <1> QED
    BY <1>1, <1>2, PTL DEF Spec

(* The register and the devices agree, while connections and disposals      *)
(* overlap: a live device is found under each of its ids, a disposed one    *)
(* leaves the register.                                                     *)
THEOREM RegistryIsConsistent == Spec => []RegistryConsistent
  <1>1. ConnectionInv => RegistryConsistent
    BY RegistryInvGives DEF ConnectionInv
  <1> QED
    BY <1>1, ConnectionInvariant, PTL

(* An init() that has resolved has opened every port, and they close        *)
(* together.                                                                *)
THEOREM ListeningIsConsistent == Spec => []ListeningConsistent
  <1>1. ConnectionInv => ListeningConsistent
    BY DEF ConnectionInv, ListeningInv, ListeningConsistent
  <1> QED
    BY <1>1, ConnectionInvariant, PTL

(* When dispose() is done no port and no socket is open and no device is    *)
(* left, whatever happened before and while it worked.                      *)
THEOREM DisposeDoesRelease == Spec => []DisposeReleases
  <1>1. ConnectionInv => DisposeReleases
    BY DEF ConnectionInv
  <1> QED
    BY <1>1, ConnectionInvariant, PTL

-----------------------------------------------------------------------------
(* The profiles of the configuration.                                        *)

USE ProfilesAssumption

LEMMA AbsentIsNoProfile == \A p \in 0..7 : p \notin Absent
BY DEF Absent

LEMMA AbsentIsClosed == SelfContained(Absent)
BY DEF SelfContained, Absent, RequiredProfiles

(* Both statements of the dependencies agree.                                *)
LEMMA NeedsAgree == \A p \in 0..7 : RequiredProfiles(p) \subseteq Needs(p)
BY DEF RequiredProfiles, Needs

(* What the setter leaves behind, whether it throws or not.                  *)
LEMMA SetterKeepsClosed ==
  ASSUME NEW profiles \in SUBSET (0..7), NEW asked \in SUBSET (0..7), SelfContained(profiles)
  PROVE  SelfContained(SetProfiles(profiles, asked))
<1> DEFINE set == SetProfiles(profiles, asked)
<1> SUFFICES ASSUME NEW p \in set, NEW q \in RequiredProfiles(p)
             PROVE  q \in set
  BY DEF SelfContained
<1>1. CASE p \in profiles BY <1>1 DEF SelfContained, SetProfiles
<1>2. CASE p \notin profiles
  <2>1. p \in asked /\ \A r \in Refused(profiles, asked) : p < r
    BY <1>2 DEF SetProfiles
  <2>2. p \in 0..7 BY <2>1
  <2>3. p \notin Refused(profiles, asked) BY <2>1, <2>2
  <2>4. Needs(p) \subseteq profiles \cup {s \in asked : s < p}
    BY <2>1, <2>2, <2>3 DEF Refused
  <2>5. q \in profiles \/ (q \in asked /\ q < p) BY <2>2, <2>4, NeedsAgree
  <2>6. CASE q \in asked /\ q < p
    <3>1. \A r \in Refused(profiles, asked) : r \in 0..7 BY DEF Refused
    <3>2. q \in 0..7 BY <2>6
    <3>3. \A r \in Refused(profiles, asked) : q < r
      BY <2>1, <2>2, <2>6, <3>1, <3>2
    <3> QED BY <2>6, <3>3 DEF SetProfiles
  <2> QED BY <2>5, <2>6 DEF SetProfiles
<1> QED BY <1>1, <1>2

LEMMA SetterKeepsType ==
  ASSUME NEW profiles \in SUBSET Profiles, NEW asked \in SUBSET Profiles
  PROVE  SetProfiles(profiles, asked) \in SUBSET Profiles
BY DEF SetProfiles

LEMMA FirstProfile ==
  ASSUME NEW S \in SUBSET (0..7), S # {}
  PROVE  \E p \in S : \A q \in S : p <= q
<1>1. \A q \in S : q \in Int /\ (q = 0 \/ q = 1 \/ q = 2 \/ q = 3 \/ q = 4
                                \/ q = 5 \/ q = 6 \/ q = 7)
  OBVIOUS
<1> QED
  <2>1. CASE 0 \in S BY <1>1, <2>1
  <2>2. CASE 0 \notin S /\ 1 \in S BY <1>1, <2>2
  <2>3. CASE 0 \notin S /\ 1 \notin S /\ 2 \in S BY <1>1, <2>3
  <2>4. CASE 0 \notin S /\ 1 \notin S /\ 2 \notin S
    <3>1. CASE 3 \in S BY <1>1, <2>4, <3>1
    <3>2. CASE 3 \notin S /\ 4 \in S BY <1>1, <2>4, <3>2
    <3>3. CASE 3 \notin S /\ 4 \notin S
      <4>1. CASE 5 \in S BY <1>1, <2>4, <3>3, <4>1
      <4>2. CASE 5 \notin S /\ 6 \in S BY <1>1, <2>4, <3>3, <4>2
      <4>3. CASE 5 \notin S /\ 6 \notin S
        <5>1. \A q \in S : q = 7 BY <1>1, <2>4, <3>3, <4>3
        <5>2. 7 \in S BY <5>1
        <5> QED BY <5>1, <5>2
      <4> QED BY <4>1, <4>2, <4>3
    <3> QED BY <3>1, <3>2, <3>3
  <2> QED BY <2>1, <2>2, <2>3, <2>4

(* The check of a device that misses no profile does not say it does.        *)
LEMMA VerdictIsNotProfile ==
  ASSUME SelfContained(device), device \in (SUBSET (0..7)) \cup {Absent}
  PROVE  CheckProfileValidness \in {"valid", "callback", "unimplemented"}
<1>1. \A p \in device : Complaint(p) \in {"none", "callback", "unimplemented"}
  BY DEF Complaint, SelfContained
<1>2. CASE \A p \in device : Complaint(p) = "none"
  BY <1>2 DEF CheckProfileValidness
<1>3. CASE ~ \A p \in device : Complaint(p) = "none"
  <2> DEFINE bad == {p \in device : Complaint(p) # "none"}
  <2>1. bad # {} BY <1>3
  <2>2. \E p \in bad : \A q \in bad : p <= q
    <3>1. CASE device = Absent
      <4>1. bad \subseteq {-1} BY <3>1 DEF Absent
      <4>2. bad = {-1} BY <2>1, <4>1
      <4>3. -1 <= -1 OBVIOUS
      <4> QED BY <4>2, <4>3
    <3>2. CASE device \in SUBSET (0..7)
      <4>1. bad \in SUBSET (0..7) BY <3>2
      <4> HIDE DEF bad
      <4> QED BY <2>1, <4>1, FirstProfile
    <3> QED BY <3>1, <3>2
  <2>3. PICK p \in device : /\ Complaint(p) # "none"
                            /\ \A q \in device : Complaint(q) # "none" => p <= q
    BY <2>2
  <2> DEFINE First(x) == /\ Complaint(x) # "none"
                         /\ \A q \in device : Complaint(q) # "none" => x <= q
  <2>4. LET first == CHOOSE x \in device : First(x)
        IN  first \in device /\ Complaint(first) # "none"
    BY <2>3
  <2> QED BY <1>1, <1>3, <2>4 DEF CheckProfileValidness
<1> QED BY <1>2, <1>3

-----------------------------------------------------------------------------
LEMMA SetsContain ==
  /\ Absent \in Sets
  /\ \A S \in SUBSET Profiles : S \in Sets
  /\ \A S \in Sets : S # Absent => S \in SUBSET Profiles
BY DEF Sets

LEMMA ProfilesInitInv == ProfilesInit => ProfilesTypeOK /\ DependenciesHold
<1> SUFFICES ASSUME ProfilesInit PROVE ProfilesTypeOK /\ DependenciesHold OBVIOUS
<1>2. ProfilesTypeOK BY SetsContain DEF ProfilesInit, ProfilesTypeOK
<1>3. DependenciesHold BY AbsentIsClosed DEF ProfilesInit, DependenciesHold
<1> QED BY <1>2, <1>3

LEMMA ProfilesNextInv ==
  ProfilesTypeOK /\ DependenciesHold /\ [ProfilesNext]_profilesVars => ProfilesTypeOK' /\ DependenciesHold'
<1> SUFFICES ASSUME ProfilesTypeOK, DependenciesHold, [ProfilesNext]_profilesVars
             PROVE  ProfilesTypeOK' /\ DependenciesHold'
  OBVIOUS
<1>1. SelfContained({}) BY DEF SelfContained
<1>2. CASE NewConfig
  <2>1. PICK asked \in SUBSET Profiles :
          /\ config' = IF Accepts({}, asked) THEN SetProfiles({}, asked) ELSE Absent
          /\ UNCHANGED <<connection, device, deviceType, complete, verdict>>
    BY <1>2 DEF NewConfig
  <2>2. asked \in SUBSET Profiles OBVIOUS
  <2>3. {} \in SUBSET Profiles OBVIOUS
  <2>4. config' \in Sets BY <2>1, <2>2, <2>3, SetterKeepsType, SetsContain
  <2>5. SelfContained(config)'
    <3>1. SelfContained(SetProfiles({}, asked))
      BY <1>1, <2>2, SetterKeepsClosed
    <3>2. config' = SetProfiles({}, asked) \/ config' = Absent BY <2>1
    <3> QED BY <3>1, <3>2, AbsentIsClosed DEF SelfContained
  <2> QED BY <2>1, <2>4, <2>5 DEF ProfilesTypeOK, DependenciesHold, SelfContained
<1>3. CASE AssignProfiles
  <2>1. PICK list \in SUBSET Profiles :
          /\ config # Absent
          /\ config' = SetProfiles(config, list)
          /\ UNCHANGED <<connection, device, deviceType, complete, verdict>>
    BY <1>3 DEF AssignProfiles
  <2>2. config \in SUBSET Profiles BY <2>1, SetsContain DEF ProfilesTypeOK
  <2>3. config' \in Sets BY <2>1, <2>2, SetterKeepsType, SetsContain
  <2>5. SelfContained(SetProfiles(config, list))
    BY <2>2, SetterKeepsClosed DEF DependenciesHold
  <2>6. SelfContained(config)' BY <2>1, <2>5 DEF SelfContained
  <2> QED BY <2>1, <2>3, <2>6 DEF ProfilesTypeOK, DependenciesHold, SelfContained
<1>4. CASE NewConnection
  <2>1. config \in SUBSET Profiles /\ connection' = SetProfiles({}, config)
    BY <1>4, SetsContain DEF NewConnection, ProfilesTypeOK
  <2>2. connection' \in Sets BY <2>1, SetterKeepsType, SetsContain
  <2>3. SelfContained(SetProfiles({}, config)) BY <1>1, <2>1, SetterKeepsClosed
  <2>4. SelfContained(connection)' BY <2>1, <2>3 DEF SelfContained
  <2> QED BY <1>4, <2>2, <2>4 DEF NewConnection, ProfilesTypeOK, DependenciesHold, SelfContained
<1>5. CASE NewDevice
  <2>1. SelfContained(device)' BY <1>5 DEF NewDevice, DependenciesHold, SelfContained
  <2> QED BY <1>5, <2>1 DEF NewDevice, ProfilesTypeOK, DependenciesHold, SelfContained
<1>6. CASE CompleteProfile
  BY <1>6 DEF CompleteProfile, ProfilesTypeOK, DependenciesHold, SelfContained
<1>7. CASE StrictCheck
  <2>1. device \in (SUBSET (0..7)) \cup {Absent} BY SetsContain DEF ProfilesTypeOK
  <2>2. verdict' \in {"valid", "callback", "unimplemented"}
    BY <1>7, <2>1, VerdictIsNotProfile DEF StrictCheck, DependenciesHold
  <2> QED BY <1>7, <2>2 DEF StrictCheck, ProfilesTypeOK, DependenciesHold, SelfContained
<1>8. CASE UNCHANGED profilesVars BY <1>8 DEF profilesVars, ProfilesTypeOK, DependenciesHold, SelfContained
<1> QED BY <1>2, <1>3, <1>4, <1>5, <1>6, <1>7, <1>8 DEF ProfilesNext

(* The configuration, its copies and the device hold what the code can give  *)
(* them, for any profiles.                                                   *)
THEOREM ProfilesTypeCorrect == ProfilesSpec => []ProfilesTypeOK
<1> QED BY ProfilesInitInv, ProfilesNextInv, PTL DEF ProfilesSpec

(* A profile is only ever set together with those it depends on, and the     *)
(* check of MosDevice never finds one missing, for any profiles and any       *)
(* number of assignments, refused ones included.                             *)
THEOREM DependenciesAlwaysHold == ProfilesSpec => []DependenciesHold
<1> QED BY ProfilesInitInv, ProfilesNextInv, PTL DEF ProfilesSpec

-----------------------------------------------------------------------------
(* What an earlier assignment has left is a list that the setter of a copy   *)
(* accepts: it begins with profile 0, has another one, and all they need.    *)
Acceptable(profiles) ==
  /\ 0 \in profiles /\ profiles \ {0} # {}
  /\ \A p \in profiles : Needs(p) \subseteq profiles

LEMMA NeedsAreLower == \A p \in 0..7 : \A q \in Needs(p) : q \in 0..7 /\ q < p
BY DEF Needs

LEMMA AcceptableIsAccepted ==
  ASSUME NEW profiles \in SUBSET (0..7)
  PROVE  Acceptable(profiles) <=> Accepts({}, profiles)
<1>1. ASSUME NEW p \in profiles
      PROVE  Needs(p) \subseteq profiles
               <=> Needs(p) \subseteq {} \cup {q \in profiles : q < p}
  BY NeedsAreLower
<1>2. Refused({}, profiles) = {} <=> /\ 0 \in profiles
                                     /\ \A p \in profiles : Needs(p) \subseteq profiles
  <2>1. Refused({}, profiles) =
          {p \in 0..7 : \/ p = 0 /\ p \notin profiles
                        \/ p \in profiles /\ ~ Needs(p) \subseteq profiles}
    BY <1>1 DEF Refused
  <2> QED BY <2>1
<1> QED BY <1>2 DEF Accepts, Acceptable

LEMMA SetterKeepsAcceptable ==
  ASSUME NEW profiles \in SUBSET (0..7), NEW asked \in SUBSET (0..7),
         Acceptable(profiles)
  PROVE  Acceptable(SetProfiles(profiles, asked))
<1> DEFINE set == SetProfiles(profiles, asked)
<1>1. profiles \subseteq set BY DEF SetProfiles
<1>2. ASSUME NEW p \in set, NEW q \in Needs(p) PROVE q \in set
  <2>1. CASE p \in profiles BY <1>1, <1>2, <2>1 DEF Acceptable
  <2>2. CASE p \notin profiles
    <3>1. p \in asked /\ p \in 0..7 /\ \A r \in Refused(profiles, asked) : p < r
      BY <2>2 DEF SetProfiles
    <3>2. p \notin Refused(profiles, asked) BY <3>1
    <3>3. Needs(p) \subseteq profiles \cup {s \in asked : s < p}
      BY <3>1, <3>2 DEF Refused
    <3>4. CASE q \in profiles BY <1>1, <3>4
    <3>5. CASE q \notin profiles
      <4>1. q \in asked /\ q \in 0..7 /\ q < p BY <1>2, <3>3, <3>5
      <4>2. \A r \in Refused(profiles, asked) : r \in 0..7 BY DEF Refused
      <4>3. \A r \in Refused(profiles, asked) : q < r BY <3>1, <4>1, <4>2
      <4> QED BY <4>1, <4>3 DEF SetProfiles
    <3> QED BY <3>4, <3>5
  <2> QED BY <2>1, <2>2
<1> QED BY <1>1, <1>2 DEF Acceptable

LEMMA AcceptedIsAcceptable ==
  ASSUME NEW asked \in SUBSET (0..7), Accepts({}, asked)
  PROVE  Acceptable(SetProfiles({}, asked))
<1>1. SetProfiles({}, asked) = asked BY DEF Accepts, SetProfiles
<1> QED BY <1>1, AcceptableIsAccepted

ProfilesInv == ProfilesTypeOK /\ (config # Absent => Acceptable(config))

LEMMA NextKeepsAcceptable == ProfilesTypeOK /\ ProfilesTypeOK' /\ ProfilesInv /\ [ProfilesNext]_profilesVars => ProfilesInv'
<1> SUFFICES ASSUME ProfilesTypeOK, ProfilesTypeOK', ProfilesInv, [ProfilesNext]_profilesVars PROVE ProfilesInv' OBVIOUS
<1>1. CASE NewConfig
  <2>1. PICK asked \in SUBSET Profiles :
          config' = IF Accepts({}, asked) THEN SetProfiles({}, asked) ELSE Absent
    BY <1>1 DEF NewConfig
  <2>2. CASE Accepts({}, asked)
    <3>1. Acceptable(SetProfiles({}, asked)) BY <2>2, AcceptedIsAcceptable
    <3>2. config' = SetProfiles({}, asked) BY <2>1, <2>2
    <3> QED BY <3>1, <3>2 DEF ProfilesInv, Acceptable
  <2>3. CASE ~ Accepts({}, asked) BY <2>1, <2>3 DEF ProfilesInv
  <2> QED BY <2>2, <2>3
<1>2. CASE AssignProfiles
  <2>1. PICK list \in SUBSET Profiles :
          config # Absent /\ config' = SetProfiles(config, list)
    BY <1>2 DEF AssignProfiles
  <2>2. config \in SUBSET (0..7) /\ list \in SUBSET (0..7) /\ Acceptable(config)
    BY <2>1, SetsContain DEF ProfilesTypeOK, ProfilesInv
  <2>3. Acceptable(SetProfiles(config, list)) BY <2>2, SetterKeepsAcceptable
  <2> QED BY <2>1, <2>3 DEF ProfilesInv, Acceptable
<1>3. CASE UNCHANGED config BY <1>3 DEF ProfilesInv, Acceptable
<1> QED BY <1>1, <1>2, <1>3 DEF ProfilesNext, NewConnection, NewDevice, CompleteProfile,
                                StrictCheck, profilesVars

(* MosConnection can always copy a configuration: the setter of the copy     *)
(* never throws at what was assigned to the original, for any profiles and   *)
(* any number of assignments, refused ones included.                         *)
THEOREM CopyIsAlwaysAccepted == ProfilesSpec => []CopyIsAccepted
<1>1. ProfilesInit => ProfilesInv BY ProfilesInitInv DEF ProfilesInit, ProfilesInv
<1>2. ProfilesInv => CopyIsAccepted
  <2>1. ProfilesTypeOK /\ config # Absent => config \in SUBSET (0..7) BY SetsContain DEF ProfilesTypeOK
  <2> QED BY <2>1, AcceptableIsAccepted DEF ProfilesInv, CopyIsAccepted
<1>3. ProfilesSpec => [](ProfilesTypeOK /\ DependenciesHold) BY ProfilesInitInv, ProfilesNextInv, PTL DEF ProfilesSpec
<1>4. ProfilesInv /\ ProfilesTypeOK /\ ProfilesTypeOK' /\ [ProfilesNext]_profilesVars => ProfilesInv' BY NextKeepsAcceptable
<1> QED BY <1>1, <1>2, <1>3, <1>4, PTL DEF ProfilesSpec
=============================================================================
