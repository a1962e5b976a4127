------------------------- MODULE GroupCallDemoProofs -------------------------
(***************************************************************************)
(* Proof, for every set of demux ids, every set of rosters and every bound *)
(* on roster changes, that each request batch the demo's main loop builds  *)
(* is the whole device list current when it took the remote_devices mutex  *)
(* (SnapshotConsistent).                                                   *)
(***************************************************************************)
EXTENDS GroupCallDemo, SequenceTheorems, TLAPS

TypeOK ==
    /\ devices \in Seq(DemuxIds)
    /\ holder \in {"none", "main"}
    /\ frames \subseteq DemuxIds
    /\ clientUp \in BOOLEAN
    /\ changes \in 0..MaxChanges
    /\ mpc \in {"size", "copy", "request"}
    /\ bigNext \in BOOLEAN
    /\ height \in Nat
    /\ requests \in Seq(DemuxIds)
    /\ atLock \in Seq(DemuxIds)
    /\ lastSent \in [ids : Seq(DemuxIds), height : Nat]

(* main holds the remote_devices mutex exactly while it copies.            *)
MainHoldsWhileCopying == holder = "main" <=> mpc = "copy"

(* While main copies, the list is the one it locked and what it copied so  *)
(* far is a prefix of it.                                                  *)
CopyIsPrefix ==
    mpc = "copy" =>
        /\ devices = atLock
        /\ Len(requests) <= Len(devices)
        /\ \A i \in 1..Len(requests) : requests[i] = devices[i]

(* The inductive invariant behind SnapshotConsistent: a roster change      *)
(* waits for the mutex main holds across the copy, so the copy runs        *)
(* against the list it locked and ends with all of it.                     *)
IInv == TypeOK /\ MainHoldsWhileCopying /\ CopyIsPrefix /\ SnapshotConsistent


-----------------------------------------------------------------------------
LEMMA InitIInv == Init => IInv
<1> SUFFICES ASSUME Init PROVE IInv
  OBVIOUS
<1>1. << >> \in Seq(DemuxIds)
  BY EmptySeq
<1> QED
  BY <1>1, DemoAssumption
     DEF Init, IInv, TypeOK, MainHoldsWhileCopying, CopyIsPrefix, SnapshotConsistent

LEMMA NextIInv == IInv /\ [Next]_vars => IInv'
<1> SUFFICES ASSUME IInv, [Next]_vars PROVE IInv'
  OBVIOUS
<1> USE DemoAssumption DEF IInv
<1>1. ASSUME NEW r \in Rosters, HandleRemoteDevicesChanged(r)
      PROVE  IInv'
  <2>1. mpc # "copy" /\ devices' \in Seq(DemuxIds)
    BY <1>1 DEF HandleRemoteDevicesChanged, MainHoldsWhileCopying
  <2> QED
    BY <1>1, <2>1 DEF HandleRemoteDevicesChanged, TypeOK, MainHoldsWhileCopying,
                      CopyIsPrefix, SnapshotConsistent
<1>2. ASSUME NEW d \in DemuxIds, OnVideoFrame(d)
      PROVE  IInv'
  BY <1>2 DEF OnVideoFrame, TypeOK, MainHoldsWhileCopying, CopyIsPrefix,
              SnapshotConsistent
<1>3. CASE SendSignalingMessageToGroup
  BY <1>3 DEF SendSignalingMessageToGroup, TypeOK, MainHoldsWhileCopying,
              CopyIsPrefix, SnapshotConsistent
<1>4. CASE LockDevices
  <2>1. << >> \in Seq(DemuxIds) /\ Len(<< >>) = 0
    BY EmptySeq
  <2> QED
    BY <1>4, <2>1 DEF LockDevices, TypeOK, MainHoldsWhileCopying, CopyIsPrefix,
                      SnapshotConsistent
<1>5. CASE CopyDevice
  <2> DEFINE n == Len(requests)
  <2>1. /\ mpc = "copy"
        /\ n < Len(devices)
        /\ requests' = Append(requests, devices[n + 1])
        /\ UNCHANGED <<devices, holder, mpc, atLock>>
    BY <1>5 DEF CopyDevice, CopyDone, TypeOK
  <2>2. n \in Nat /\ devices[n + 1] \in DemuxIds
    BY <2>1, LenProperties DEF TypeOK
  <2>3. /\ requests' \in Seq(DemuxIds)
        /\ Len(requests') = n + 1
        /\ \A i \in 1..n : requests'[i] = requests[i]
        /\ requests'[n + 1] = devices[n + 1]
    BY <2>1, <2>2, AppendProperties DEF TypeOK
  <2>4. CopyIsPrefix'
    <3>1. \A i \in 1..Len(requests') : requests'[i] = devices'[i]
      BY <2>1, <2>2, <2>3 DEF CopyIsPrefix
    <3> QED
      BY <2>1, <2>2, <2>3, <3>1 DEF CopyIsPrefix
  <2> QED
    BY <1>5, <2>1, <2>3, <2>4 DEF CopyDevice, TypeOK, MainHoldsWhileCopying,
                                  SnapshotConsistent
<1>6. CASE UnlockDevices
  <2>1. /\ mpc = "copy"
        /\ Len(requests) >= Len(devices)
        /\ mpc' = "request"
        /\ UNCHANGED <<devices, requests, atLock>>
    BY <1>6 DEF UnlockDevices, CopyDone
  <2>2. requests = devices
    <3>1. Len(requests) = Len(devices)
      BY <2>1, LenProperties DEF CopyIsPrefix, TypeOK
    <3> QED
      BY <2>1, <3>1, SeqEqual DEF CopyIsPrefix, TypeOK
  <2>3. SnapshotConsistent'
    BY <2>1, <2>2 DEF CopyIsPrefix, SnapshotConsistent
  <2> QED
    BY <1>6, <2>1, <2>3 DEF UnlockDevices, TypeOK, MainHoldsWhileCopying,
                            CopyIsPrefix
<1>7. CASE RequestVideo
  BY <1>7 DEF RequestVideo, TypeOK, MainHoldsWhileCopying, CopyIsPrefix,
              SnapshotConsistent
<1>8. CASE UNCHANGED vars
  BY <1>8 DEF vars, TypeOK, MainHoldsWhileCopying, CopyIsPrefix,
              SnapshotConsistent
<1> QED
  BY <1>1, <1>2, <1>3, <1>4, <1>5, <1>6, <1>7, <1>8 DEF Next

(* No request batch main hands to request_video mixes two rosters or       *)
(* misses a device of the one it read: the copy in group_call.rs lines     *)
(* 303-312 runs under the remote_devices mutex that                        *)
(* handle_remote_devices_changed must take to replace the list.            *)
THEOREM RequestsAreSnapshot == Spec => []SnapshotConsistent
<1>1. IInv => SnapshotConsistent
  BY DEF IInv
<1> QED
  BY <1>1, InitIInv, NextIInv, PTL DEF Spec

====
