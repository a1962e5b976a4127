---------------------------- MODULE AudioDevices ----------------------------
(***************************************************************************)
(* Audio device enumeration and selection of PeerConnectionFactory         *)
(* (src/src/rust/src/webrtc/peer_connection_factory.rs).                   *)
(*                                                                         *)
(* get_audio_{playout,recording}_devices read a device count from the C++  *)
(* audio device module (ADM), query the name and unique id of every index, *)
(* fill in missing unique ids with "<name>-<n>", and on Windows swap the   *)
(* "default" and "default communications" slots and suffix their ids with  *)
(* "-0" and "-1".  set_audio_*_device maps a UI index back to an ADM index. *)
(* The factory is used through &mut self, so one call runs at a time; the  *)
(* operating system may add or remove devices between any two ADM calls.  *)
(* Names and unique ids are strings, and the formatting is modelled by the  *)
(* concatenations the code performs.                                       *)
(***************************************************************************)
EXTENDS Integers, Sequences, FiniteSets, TLC

CONSTANTS
    Dirs,          \* {"playout", "recording"}
    DeviceDescs,   \* descriptions [name, uid] the OS may report
    MaxDevices,    \* most real devices plugged in at once
    MaxPlugs,      \* bound on device changes by the OS
    MaxIndex       \* largest index the UI passes to set_audio_*_device

ASSUME AudioAssumption ==
    /\ "idle" \notin Dirs   \* pc's idle value is not a direction
    /\ DeviceDescs \subseteq [name : STRING, uid : STRING]
    /\ MaxDevices \in Nat /\ MaxPlugs \in Nat /\ MaxIndex \in Nat

\* Rust's u16, the type of the device count and of every index.
U16 == 65536

VARIABLES
    windows,  \* target_os = "windows" (fixed for a build)
    devs,     \* devs[d]: the real devices the ADM currently lists
    dflt,     \* dflt[d]: position in devs[d] of the default device
    comm,     \* comm[d]: position in devs[d] of the default communications device
    pc,       \* "idle", or the direction whose enumeration is running
    count,    \* device_count after conversion
    got,      \* devices pushed so far by the query loop
    stable,   \* ghost: no device change since the enumeration started
    expect,   \* ghost: the list the ADM described when the enumeration started
    result,   \* result[d]: what the last get_audio_*_devices returned
    setRes,   \* what the last set_audio_*_device did
    plugs     \* number of device changes so far

vars == <<windows, devs, dflt, comm, pc, count, got, stable, expect,
          result, setRes, plugs>>

Entry == [name : STRING, uid : STRING, slot : Nat]

(***************************************************************************)
(* The ADM's view.  On Windows the ADM has two extra slots in front of the *)
(* real devices, index 0 for the default device and 1 for the default      *)
(* communications device, which its count does not include (comment at    *)
(* lines 626-628).  Each slot reports the description of the device it    *)
(* stands for.                                                             *)
(***************************************************************************)
AdmCount(d) == Len(devs[d])

SlotCount(d) == IF windows /\ Len(devs[d]) > 0 THEN Len(devs[d]) + 2 ELSE Len(devs[d])

SlotDesc(d, k) ==
    IF ~windows THEN devs[d][k + 1]
    ELSE CASE k = 0 -> devs[d][dflt[d]]
           [] k = 1 -> devs[d][comm[d]]
           [] OTHER -> devs[d][k - 1]

\* Mutant: the Windows default slots are not added to the count.
ConvertCountNoSlots(n) == n % U16

\* `device_count as u16`, then on Windows the two default slots.
ConvertCount(n) ==
    LET c == n % U16 IN IF windows /\ c > 0 THEN (c + 2) % U16 ELSE c

\* Lines 653-661: an empty unique_id becomes "<name>-<k>", k the number of
\* earlier devices with the same name.
SameNameBefore(l, i) == Cardinality({j \in 1..(i - 1) : l[j].name = l[i].name})

FillIds(l) ==
    [i \in 1..Len(l) |->
        IF l[i].uid = "" THEN [l[i] EXCEPT !.uid = l[i].name \o "-" \o ToString(SameNameBefore(l, i) % U16)]
        ELSE l[i]]

\* Lines 664-674: swap the two default slots and make their ids distinct.
WindowsSwap(l) ==
    IF windows /\ Len(l) > 1
    THEN [l EXCEPT ![1] = [l[2] EXCEPT !.uid = @ \o "-0"],
                   ![2] = [l[1] EXCEPT !.uid = @ \o "-1"]]
    ELSE l

Finish(l) == WindowsSwap(FillIds(l))

\* The AudioDevice read from ADM slot k, tagged with k.
Query(d, k) == [name |-> SlotDesc(d, k).name, uid |-> SlotDesc(d, k).uid, slot |-> k]

\* What the ADM describes now, as the code would return it.
AdmList(d) == Finish([k \in 1..SlotCount(d) |-> Query(d, k - 1)])

\* A real device list the OS can present: non-empty unique ids are distinct.
RealLists ==
    UNION {{s \in [1..n -> DeviceDescs] :
              \A i, j \in 1..n : i # j /\ s[i].uid # "" => s[i].uid # s[j].uid}
           : n \in 0..MaxDevices}

Init ==
    /\ windows \in BOOLEAN
    /\ devs \in [Dirs -> RealLists]
    /\ dflt \in [Dirs -> 0..MaxDevices] /\ comm \in [Dirs -> 0..MaxDevices]
    /\ \A d \in Dirs : IF devs[d] = <<>> THEN dflt[d] = 0 /\ comm[d] = 0
                       ELSE {dflt[d], comm[d]} \subseteq 1..Len(devs[d])
    /\ pc = "idle"
    /\ count = 0
    /\ got = <<>>
    /\ stable = TRUE
    /\ expect = <<>>
    /\ result = [d \in Dirs |-> [kind |-> "none"]]
    /\ setRes = [kind |-> "none"]
    /\ plugs = 0

\* The OS adds or removes devices, or changes the defaults.
DeviceChange(d) ==
    /\ plugs < MaxPlugs
    /\ \E s \in RealLists :
         /\ devs' = [devs EXCEPT ![d] = s]
         /\ IF s = <<>> THEN dflt' = [dflt EXCEPT ![d] = 0] /\ comm' = [comm EXCEPT ![d] = 0]
            ELSE \E a, b \in 1..Len(s) : dflt' = [dflt EXCEPT ![d] = a] /\ comm' = [comm EXCEPT ![d] = b]
    /\ stable' = (stable /\ pc # d)
    /\ plugs' = plugs + 1
    /\ UNCHANGED <<windows, pc, count, got, expect, result, setRes>>

\* Leaving get_audio_*_devices with Err or Ok.
ReturnErr(d) ==
    /\ pc' = "idle"
    /\ result' = [result EXCEPT ![d] = [kind |-> "err"]]

ReturnList(d, l) ==
    /\ pc' = "idle"
    /\ result' = [result EXCEPT ![d] = [kind |-> "ok", list |-> Finish(l),
                                        stable |-> stable', expect |-> expect']]

\* Lines 616-643: read and convert the count; with no device, return at once.
GetDevices(d) ==
    /\ pc = "idle"
    /\ got' = <<>>
    /\ stable' = TRUE
    /\ expect' = AdmList(d)
    /\ \/ /\ count' = 0   \* Rust_getAudio*Devices returned a negative count
          /\ ReturnErr(d)
       \/ /\ count' = ConvertCount(AdmCount(d))
          /\ IF count' = 0 THEN ReturnList(d, <<>>) ELSE pc' = d /\ UNCHANGED result
    /\ UNCHANGED <<windows, devs, dflt, comm, setRes, plugs>>

\* Lines 643-676: one iteration of the query loop; the last one finishes.
QueryDevice(d) ==
    /\ pc = d
    /\ UNCHANGED <<windows, devs, dflt, comm, count, stable, expect, setRes, plugs>>
    /\ LET k == Len(got) IN
       \/ /\ k < SlotCount(d)
          /\ got' = Append(got, Query(d, k))
          /\ IF k + 1 = count THEN ReturnList(d, got') ELSE UNCHANGED <<pc, result>>
       \/ /\ ReturnErr(d)   \* rc != 0: index out of range, or any ADM failure
          /\ UNCHANGED got

\* Lines 680-698 (and 796-817): map the UI index back to the ADM's order.
SetIndexNoSwap(i) == i

SetIndex(i) == IF windows THEN CASE i = 0 -> 1 [] i = 1 -> 0 [] OTHER -> i ELSE i

SetDevice(d) ==
    /\ pc = "idle"
    /\ \E i \in 0..MaxIndex :
         LET passed == SetIndex(i)
             shown  == IF result[d].kind = "ok" /\ i < Len(result[d].list)
                       THEN result[d].list[i + 1].slot ELSE -1
         IN \E ok \in BOOLEAN :
              /\ ok => passed < SlotCount(d)
              /\ setRes' = [kind |-> "set", dir |-> d, passed |-> passed,
                            shown |-> shown, ok |-> ok]
    /\ UNCHANGED <<windows, devs, dflt, comm, pc, count, got, stable, expect,
                   result, plugs>>

Next ==
    \E d \in Dirs :
        \/ DeviceChange(d)
        \/ GetDevices(d)
        \/ QueryDevice(d)
        \/ SetDevice(d)

Spec == Init /\ [][Next]_vars

-----------------------------------------------------------------------------
(***************************************************************************)
(* When no device changed while get_audio_*_devices ran, an Ok list is     *)
(* exactly the ADM's device list, default slots included: the count        *)
(* conversion and the Windows "+2" make the loop query every slot once.    *)
(***************************************************************************)
ResultMatchesDevices ==
    \A d \in Dirs : result[d].kind = "ok" /\ result[d].stable => result[d].list = result[d].expect

(***************************************************************************)
(* set_audio_*_device(i), with i a position of the last list the UI got,   *)
(* passes to the ADM the slot that list showed at position i: the swap of  *)
(* the Windows default slots in get is undone in set.                      *)
(***************************************************************************)
SetSelectsShown ==
    setRes.kind = "set" /\ setRes.shown # -1 => setRes.passed = setRes.shown

=============================================================================
