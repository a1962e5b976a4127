-------------------------- MODULE AudioDevicesProofs --------------------------
(***************************************************************************)
(* Proofs about the audio device enumeration and selection of              *)
(* PeerConnectionFactory, for every set of directions and device           *)
(* descriptions and every bound, on every platform: a list returned while  *)
(* no device changed is the ADM's list (ResultMatchesDevices), and         *)
(* set_audio_*_device passes the slot the list showed (SetSelectsShown).   *)
(* Both need the u16 device count of lines 622-633 not to wrap: they are   *)
(* proved under CountFits, and fail beyond it.                             *)
(***************************************************************************)
EXTENDS AudioDevices, SequenceTheorems, TLAPS

(* No device list the OS can present makes the u16 count of lines 622-633  *)
(* wrap, Windows slots included.  Without it a Windows ADM listing 65535   *)
(* devices yields a count of 1, and one listing 65534 a count of 0.        *)
CountFits == MaxDevices + 2 < U16

TypeOK ==
    /\ windows \in BOOLEAN
    /\ devs \in [Dirs -> RealLists]
    /\ dflt \in [Dirs -> Nat]
    /\ comm \in [Dirs -> Nat]
    /\ pc \in Dirs \cup {"idle"}
    /\ count \in Nat
    /\ got \in Seq(Entry)
    /\ stable \in BOOLEAN
    /\ DOMAIN result = Dirs
    /\ \A d \in Dirs : result[d].kind \in {"none", "err", "ok"}
    /\ setRes.kind \in {"none", "set"}
    /\ plugs \in Nat

(* The default and communications positions name real devices.            *)
DefaultsInRange ==
    \A d \in Dirs : devs[d] # <<>> =>
        dflt[d] \in 1..Len(devs[d]) /\ comm[d] \in 1..Len(devs[d])

(* The query loop has slots left to query, the k-th device it pushed came  *)
(* from ADM slot k - 1, and a Windows count is never 1.                    *)
QueryLoop ==
    pc \in Dirs =>
        /\ Len(got) < count
        /\ windows => count # 1
        /\ \A k \in 1..Len(got) : got[k].slot = k - 1

(* While no device changed, the loop runs over the list it started from.   *)
StableLoop ==
    pc \in Dirs /\ stable =>
        /\ count = SlotCount(pc)
        /\ expect = AdmList(pc)
        /\ \A k \in 1..Len(got) : got[k] = Query(pc, k - 1)

(* A list returned shows at UI position i the ADM slot SetIndex(i).        *)
ResultSlots ==
    \A d \in Dirs : result[d].kind = "ok" =>
        /\ Len(result[d].list) \in Nat
        /\ DOMAIN result[d].list = 1..Len(result[d].list)
        /\ \A i \in 1..Len(result[d].list) : result[d].list[i].slot = SetIndex(i - 1)

IInv == /\ TypeOK /\ DefaultsInRange /\ QueryLoop /\ StableLoop /\ ResultSlots
        /\ ResultMatchesDevices /\ SetSelectsShown


-----------------------------------------------------------------------------
(* A function on 1..n has length n.                                        *)
LEMMA LenOfDomain ==
    ASSUME NEW f, NEW n \in Nat, DOMAIN f = 1..n
    PROVE  Len(f) = n
OBVIOUS

(* A sequence is the function of its positions.                          *)
LEMMA SeqIsFcn ==
    \A T : \A f \in Seq(T) : f = [j \in DOMAIN f |-> f[j]]
OBVIOUS

(* A list the OS presents is a sequence of descriptions, at most           *)
(* MaxDevices long.                                                        *)
LEMMA RealListSeq ==
    ASSUME NEW s \in RealLists
    PROVE  s \in Seq(DeviceDescs) /\ Len(s) \in 0..MaxDevices
<1>1. PICK n \in 0..MaxDevices : s \in [1..n -> DeviceDescs]
  BY DEF RealLists
<1>2. n \in Nat
  BY AudioAssumption
<1> QED
  BY <1>1, <1>2, LenOfDomain

(* A count and the count with the two Windows slots, when both are below  *)
(* 2^16, are unchanged by the u16 conversion.                              *)
LEMMA NoWrap ==
    ASSUME NEW m \in Nat, m + 2 < 65536
    PROVE  m % 65536 = m /\ (m + 2) % 65536 = m + 2
OBVIOUS

(* Under CountFits the converted count is the number of ADM slots, and on  *)
(* Windows it is never 1.                                                  *)
LEMMA CountConverted ==
    ASSUME CountFits, windows \in BOOLEAN, NEW d \in Dirs,
           devs[d] \in Seq(DeviceDescs), Len(devs[d]) \in 0..MaxDevices
    PROVE  /\ ConvertCount(AdmCount(d)) = SlotCount(d)
           /\ SlotCount(d) \in Nat
           /\ windows => SlotCount(d) # 1
<1>1. PICK m \in Nat : m = Len(devs[d])
  BY AudioAssumption
<1>2. m \in Nat /\ m + 2 < 65536
  BY <1>1, AudioAssumption DEF CountFits, U16
<1>3. m % 65536 = m /\ (m + 2) % 65536 = m + 2
  BY ONLY <1>2, NoWrap
<1>0. ConvertCount(AdmCount(d)) = ConvertCount(m)
  BY <1>1 DEF AdmCount
<1>4. CASE windows /\ m > 0
  <2>1. ConvertCount(m) = m + 2
    BY ONLY <1>2, <1>3, <1>4 DEF ConvertCount, U16
  <2>2. SlotCount(d) = m + 2
    BY <1>1, <1>4 DEF SlotCount
  <2> QED
    BY <1>0, <1>2, <2>1, <2>2
<1>5. CASE ~(windows /\ m > 0)
  <2>1. ConvertCount(m) = m
    BY ONLY <1>2, <1>3, <1>5 DEF ConvertCount, U16
  <2>2. SlotCount(d) = m
    BY <1>1, <1>5 DEF SlotCount
  <2>3. windows => m = 0
    BY ONLY <1>2, <1>5
  <2> QED
    BY <1>0, <1>2, <2>1, <2>2, <2>3
<1> QED
  BY <1>4, <1>5

(* Filling in missing ids and the Windows swap keep the length, and put    *)
(* at UI position i the slot SetIndex(i) when the k-th entry came from     *)
(* slot k - 1 and a Windows list does not have exactly one entry.          *)
LEMMA FinishSlots ==
    ASSUME NEW l \in Seq(Entry), windows \in BOOLEAN,
           \A k \in 1..Len(l) : l[k].slot = k - 1,
           windows => Len(l) # 1
    PROVE  /\ Len(Finish(l)) = Len(l)
           /\ DOMAIN Finish(l) = 1..Len(l)
           /\ \A i \in 1..Len(l) : Finish(l)[i].slot = SetIndex(i - 1)
<1> DEFINE f == FillIds(l)
<1>0. Len(l) \in Nat
  BY LenProperties
<1>1. /\ DOMAIN f = 1..Len(l)
      /\ \A i \in 1..Len(l) : f[i].slot = i - 1
  BY DEF FillIds
<1>2. Len(f) = Len(l)
  BY <1>1, LenOfDomain
<1>3. CASE windows /\ Len(l) > 1
  <2>1. WindowsSwap(f) = [f EXCEPT ![1] = [f[2] EXCEPT !.uid = @ \o "-0"],
                                   ![2] = [f[1] EXCEPT !.uid = @ \o "-1"]]
    BY <1>2, <1>3 DEF WindowsSwap
  <2>0. /\ SetIndex(0) = 1 /\ SetIndex(1) = 0
        /\ \A i \in Nat : i > 1 => SetIndex(i) = i
    BY <1>3 DEF SetIndex
  <2>1a. DOMAIN WindowsSwap(f) = 1..Len(l)
    BY <1>1, <2>1
  <2>1b. /\ WindowsSwap(f)[1].slot = f[2].slot
         /\ WindowsSwap(f)[2].slot = f[1].slot
         /\ \A i \in 3..Len(l) : WindowsSwap(f)[i] = f[i]
    <3>1. 1 \in DOMAIN f /\ 2 \in DOMAIN f
      BY <1>0, <1>1, <1>3
    <3>2. WindowsSwap(f)[1] = [f[2] EXCEPT !.uid = @ \o "-0"]
      BY <2>1, <3>1
    <3>3. WindowsSwap(f)[2] = [f[1] EXCEPT !.uid = @ \o "-1"]
      BY <2>1, <3>1
    <3>4. \A i \in 3..Len(l) : WindowsSwap(f)[i] = f[i]
      BY <1>0, <1>1, <2>1
    <3> QED
      BY <3>2, <3>3, <3>4
  <2>2. \A i \in 1..Len(l) : WindowsSwap(f)[i].slot = SetIndex(i - 1)
    <3> SUFFICES ASSUME NEW i \in 1..Len(l)
                 PROVE  WindowsSwap(f)[i].slot = SetIndex(i - 1)
      OBVIOUS
    <3>1. CASE i = 1
      BY <1>0, <1>1, <1>3, <2>0, <2>1b, <3>1
    <3>2. CASE i = 2
      BY <1>0, <1>1, <1>3, <2>0, <2>1b, <3>2
    <3>3. CASE i > 2
      BY <1>0, <1>1, <2>0, <2>1b, <3>3
    <3> QED
      BY <1>0, <3>1, <3>2, <3>3
  <2> QED
    BY <1>0, <2>1a, <2>2, LenOfDomain DEF Finish
<1>4. CASE ~(windows /\ Len(l) > 1)
  <2>1. WindowsSwap(f) = f
    BY <1>2, <1>4 DEF WindowsSwap
  <2>2. \A i \in 1..Len(l) : f[i].slot = SetIndex(i - 1)
    <3>1. CASE ~windows
      BY <1>1, <3>1 DEF SetIndex
    <3>2. CASE windows
      <4>0. Len(l) # 1 /\ ~(Len(l) > 1)
        BY <1>4, <3>2, Zenon
      <4>1. Len(l) = 0
        <5>1. \A n \in Nat : n # 1 /\ ~(n > 1) => n = 0
          BY ONLY SMT
        <5> QED
          BY ONLY <1>0, <4>0, <5>1, Zenon
      <4> QED
        BY <4>1
    <3> QED
      BY <3>1, <3>2
  <2> QED
    BY <1>1, <2>1, <2>2, LenOfDomain DEF Finish
<1> QED
  BY <1>3, <1>4

(* Every slot the query loop reads names a real device: the ADM's          *)
(* description of slot k < SlotCount(d) is one the OS presents.            *)
LEMMA QueryEntry ==
    ASSUME windows \in BOOLEAN, NEW d \in Dirs, devs[d] \in Seq(DeviceDescs),
           devs[d] # <<>> => dflt[d] \in 1..Len(devs[d]) /\ comm[d] \in 1..Len(devs[d]),
           NEW k \in Nat, k < SlotCount(d)
    PROVE  Query(d, k) \in Entry
<1>1. SlotDesc(d, k) \in DeviceDescs
  <2>1. CASE ~windows
    BY <2>1 DEF SlotDesc, SlotCount
  <2>2. CASE windows
    <3>1. devs[d] # <<>> /\ k < Len(devs[d]) + 2
      BY <2>2 DEF SlotCount
    <3> QED
      BY <2>2, <3>1 DEF SlotDesc
  <2> QED
    BY <2>1, <2>2
<1> QED
  BY <1>1, AudioAssumption DEF Query, Entry

(* What the ADM describes for direction d depends only on d's devices and  *)
(* defaults and on the platform.                                           *)
LEMMA AdmFrame ==
    ASSUME NEW d \in Dirs, devs'[d] = devs[d], dflt'[d] = dflt[d],
           comm'[d] = comm[d], windows' = windows
    PROVE  /\ SlotCount(d)' = SlotCount(d)
           /\ \A k \in Nat : Query(d, k)' = Query(d, k)
           /\ AdmList(d)' = AdmList(d)
<1>1. SlotCount(d)' = SlotCount(d)
  BY DEF SlotCount
<1>2. \A k \in Nat : Query(d, k)' = Query(d, k)
  BY DEF Query, SlotDesc
<1>3. [k \in 1..SlotCount(d) |-> Query(d, k - 1)]' = [k \in 1..SlotCount(d) |-> Query(d, k - 1)]
  BY <1>1 DEF Query, SlotDesc
<1> DEFINE X == [k \in 1..SlotCount(d) |-> Query(d, k - 1)]
<1>4. FillIds(X)' = FillIds(X)
  BY <1>3
<1>5. WindowsSwap(FillIds(X))' = WindowsSwap(FillIds(X))
  BY <1>4 DEF WindowsSwap
<1> QED
  BY <1>1, <1>2, <1>5 DEF AdmList, Finish

(* AdmFrame for every direction whose devices and defaults a step keeps.   *)
LEMMA AdmFrameAll ==
    ASSUME windows' = windows
    PROVE  \A d \in Dirs :
             devs'[d] = devs[d] /\ dflt'[d] = dflt[d] /\ comm'[d] = comm[d] =>
               /\ SlotCount(d)' = SlotCount(d)
               /\ \A k \in Nat : Query(d, k)' = Query(d, k)
               /\ AdmList(d)' = AdmList(d)
BY AdmFrame

(* A step that keeps the ADM, the loop and the results keeps all of IInv   *)
(* but SetSelectsShown.                                                    *)
LEMMA KeepLoop ==
    ASSUME TypeOK, DefaultsInRange, QueryLoop, StableLoop, ResultSlots,
           ResultMatchesDevices,
           UNCHANGED <<windows, devs, dflt, comm, pc, count, got, stable, expect,
                       result, plugs>>,
           setRes'.kind \in {"none", "set"}
    PROVE  TypeOK' /\ DefaultsInRange' /\ QueryLoop' /\ StableLoop'
           /\ ResultSlots' /\ ResultMatchesDevices'
<1>1. TypeOK'
  BY DEF TypeOK
<1>2. DefaultsInRange' /\ QueryLoop'
  BY DEF DefaultsInRange, QueryLoop
<1>3. StableLoop'
  <2> SUFFICES ASSUME pc \in Dirs, stable
               PROVE  /\ count = SlotCount(pc)'
                      /\ expect = AdmList(pc)'
                      /\ \A k \in 1..Len(got) : got[k] = Query(pc, k - 1)'
    BY DEF StableLoop
  <2>1. /\ SlotCount(pc)' = SlotCount(pc)
        /\ \A k \in Nat : Query(pc, k)' = Query(pc, k)
        /\ AdmList(pc)' = AdmList(pc)
    BY AdmFrameAll
  <2>2. \A k \in 1..Len(got) : k - 1 \in Nat
    BY DEF TypeOK
  <2> QED
    BY <2>1, <2>2 DEF StableLoop
<1>4. ResultSlots' /\ ResultMatchesDevices'
  BY DEF ResultSlots, ResultMatchesDevices, SetIndex
<1> QED
  BY <1>1, <1>2, <1>3, <1>4

-----------------------------------------------------------------------------
LEMMA InitIInv == Init => IInv
<1> SUFFICES ASSUME Init PROVE IInv
  OBVIOUS
<1> USE AudioAssumption
<1>1. TypeOK
  BY EmptySeq DEF Init, TypeOK
<1>2. DefaultsInRange
  BY DEF Init, DefaultsInRange
<1>3. QueryLoop /\ StableLoop
  BY DEF Init, QueryLoop, StableLoop
<1>4. ResultSlots /\ ResultMatchesDevices /\ SetSelectsShown
  BY DEF Init, ResultSlots, ResultMatchesDevices, SetSelectsShown
<1> QED
  BY <1>1, <1>2, <1>3, <1>4 DEF IInv

LEMMA NextIInv ==
    ASSUME CountFits
    PROVE  IInv /\ [Next]_vars => IInv'
<1> SUFFICES ASSUME IInv, [Next]_vars PROVE IInv'
  OBVIOUS
<1> USE AudioAssumption DEF IInv
<1>1. ASSUME NEW d \in Dirs, DeviceChange(d) PROVE IInv'
  <2>1. PICK s \in RealLists :
          /\ devs' = [devs EXCEPT ![d] = s]
          /\ IF s = <<>> THEN dflt' = [dflt EXCEPT ![d] = 0] /\ comm' = [comm EXCEPT ![d] = 0]
             ELSE \E a, b \in 1..Len(s) : dflt' = [dflt EXCEPT ![d] = a]
                                        /\ comm' = [comm EXCEPT ![d] = b]
    BY <1>1 DEF DeviceChange
  <2>2. /\ UNCHANGED <<windows, pc, count, got, expect, result, setRes>>
        /\ stable' = (stable /\ pc # d)
        /\ plugs' = plugs + 1
    BY <1>1 DEF DeviceChange
  <2>3. s \in Seq(DeviceDescs) /\ Len(s) \in Nat
    BY RealListSeq, AudioAssumption
  <2>4. /\ devs' \in [Dirs -> RealLists]
        /\ \A e \in Dirs \ {d} : devs'[e] = devs[e] /\ dflt'[e] = dflt[e] /\ comm'[e] = comm[e]
        /\ dflt' \in [Dirs -> Nat] /\ comm' \in [Dirs -> Nat]
        /\ DefaultsInRange'
    <3>1. CASE s = <<>>
      BY <2>1, <3>1 DEF TypeOK, DefaultsInRange
    <3>2. CASE s # <<>>
      <4>1. PICK a, b \in 1..Len(s) : dflt' = [dflt EXCEPT ![d] = a]
                                      /\ comm' = [comm EXCEPT ![d] = b]
        BY <2>1, <3>2
      <4> QED
        BY <2>1, <2>3, <4>1 DEF TypeOK, DefaultsInRange
    <3> QED
      BY <3>1, <3>2
  <2>5. TypeOK' /\ QueryLoop'
    BY <2>2, <2>4 DEF TypeOK, QueryLoop
  <2>6. StableLoop'
    <3> SUFFICES ASSUME pc' \in Dirs, stable'
                 PROVE  /\ count' = SlotCount(pc)'
                        /\ expect' = AdmList(pc)'
                        /\ \A k \in 1..Len(got') : got'[k] = Query(pc, k - 1)'
      BY DEF StableLoop
    <3>1. pc \in Dirs \ {d} /\ stable
      BY <2>2
    <3>2. /\ SlotCount(pc)' = SlotCount(pc)
          /\ \A k \in Nat : Query(pc, k)' = Query(pc, k)
          /\ AdmList(pc)' = AdmList(pc)
      BY <2>2, <2>4, <3>1, AdmFrameAll
    <3>3. \A k \in 1..Len(got) : k - 1 \in Nat
      BY DEF TypeOK
    <3> QED
      BY <2>2, <3>1, <3>2, <3>3 DEF StableLoop
  <2>7. ResultSlots' /\ ResultMatchesDevices' /\ SetSelectsShown'
    BY <2>2 DEF ResultSlots, ResultMatchesDevices, SetSelectsShown, SetIndex
  <2> QED
    BY <2>4, <2>5, <2>6, <2>7
<1>2. ASSUME NEW d \in Dirs, GetDevices(d) PROVE IInv'
  <2>1. /\ pc = "idle" /\ got' = <<>> /\ stable' = TRUE /\ expect' = AdmList(d)
        /\ UNCHANGED <<windows, devs, dflt, comm, setRes, plugs>>
    BY <1>2 DEF GetDevices
  <2>2. /\ devs[d] \in Seq(DeviceDescs) /\ Len(devs[d]) \in 0..MaxDevices
        /\ windows \in BOOLEAN
    <3>1. \A x \in RealLists : x \in Seq(DeviceDescs) /\ Len(x) \in 0..MaxDevices
      BY RealListSeq
    <3> QED
      BY <3>1 DEF TypeOK
  <2>3. /\ ConvertCount(AdmCount(d)) = SlotCount(d)
        /\ SlotCount(d) \in Nat
        /\ windows => SlotCount(d) # 1
    BY <2>2, CountConverted
  <2>4. /\ SlotCount(d)' = SlotCount(d)
        /\ AdmList(d)' = AdmList(d)
    BY <2>1, AdmFrameAll
  <2>5. <<>> \in Seq(Entry) /\ Len(<<>>) = 0
    BY EmptySeq
  <2>6. /\ Len(Finish(<<>>)) = 0
        /\ DOMAIN Finish(<<>>) = 1..0
        /\ \A i \in 1..0 : Finish(<<>>)[i].slot = SetIndex(i - 1)
    <3>1. /\ \A k \in 1..Len(<<>>) : <<>>[k].slot = k - 1
          /\ windows => Len(<<>>) # 1
      BY <2>5
    <3>2. /\ Len(Finish(<<>>)) = Len(<<>>)
          /\ DOMAIN Finish(<<>>) = 1..Len(<<>>)
          /\ \A i \in 1..Len(<<>>) : Finish(<<>>)[i].slot = SetIndex(i - 1)
      BY <2>2, <2>5, <3>1, FinishSlots
    <3> QED
      BY <2>5, <3>2
  <2>7. CASE count' = 0 /\ ReturnErr(d)
    <3>1. pc' = "idle" /\ result' = [result EXCEPT ![d] = [kind |-> "err"]]
      BY <2>7 DEF ReturnErr
    <3>2. TypeOK'
      BY <2>1, <2>5, <2>7, <3>1 DEF TypeOK
    <3>3. QueryLoop' /\ StableLoop'
      BY <3>1 DEF QueryLoop, StableLoop
    <3>4. ResultSlots' /\ ResultMatchesDevices' /\ SetSelectsShown'
      BY <2>1, <3>1 DEF TypeOK, ResultSlots, ResultMatchesDevices, SetSelectsShown, SetIndex
    <3> QED
      BY <2>1, <3>2, <3>3, <3>4 DEF DefaultsInRange
  <2>8. CASE count' = ConvertCount(AdmCount(d)) /\ count' = 0 /\ ReturnList(d, <<>>)
    <3>1. /\ pc' = "idle"
          /\ result' = [result EXCEPT ![d] = [kind |-> "ok", list |-> Finish(<<>>),
                                              stable |-> TRUE, expect |-> AdmList(d)]]
      BY <2>1, <2>8 DEF ReturnList
    <3>2. Finish(<<>>) = AdmList(d)
      <4>1. SlotCount(d) = 0
        BY <2>3, <2>8
      <4>2. [k \in 1..SlotCount(d) |-> Query(d, k - 1)] = <<>>
        BY <4>1
      <4> QED
        BY <4>2 DEF AdmList
    <3>3. TypeOK'
      BY <2>1, <2>5, <2>8, <3>1 DEF TypeOK
    <3>4. QueryLoop' /\ StableLoop'
      BY <3>1 DEF QueryLoop, StableLoop
    <3>5. ResultSlots'
      BY <2>1, <2>6, <3>1 DEF TypeOK, ResultSlots, SetIndex
    <3>6. ResultMatchesDevices'
      BY <2>1, <3>1, <3>2 DEF TypeOK, ResultMatchesDevices
    <3>7. SetSelectsShown'
      BY <2>1 DEF SetSelectsShown
    <3> QED
      BY <2>1, <3>3, <3>4, <3>5, <3>6, <3>7 DEF DefaultsInRange
  <2>9. CASE count' = ConvertCount(AdmCount(d)) /\ count' # 0 /\ pc' = d /\ UNCHANGED result
    <3>1. count' = SlotCount(d) /\ count' \in Nat \ {0}
      BY <2>3, <2>9
    <3>2. TypeOK'
      BY <2>1, <2>5, <2>9, <3>1 DEF TypeOK
    <3>3. QueryLoop'
      BY <2>3, <2>5, <2>9, <2>1, <3>1 DEF QueryLoop
    <3>4. StableLoop'
      BY <2>1, <2>4, <2>5, <2>9, <3>1 DEF StableLoop
    <3>5. ResultSlots' /\ ResultMatchesDevices' /\ SetSelectsShown'
      BY <2>1, <2>9 DEF ResultSlots, ResultMatchesDevices, SetSelectsShown, SetIndex
    <3> QED
      BY <2>1, <3>2, <3>3, <3>4, <3>5 DEF DefaultsInRange
  <2> QED
    BY <1>2, <2>7, <2>8, <2>9 DEF GetDevices
<1>3. ASSUME NEW d \in Dirs, QueryDevice(d) PROVE IInv'
  <2> DEFINE k == Len(got)
  <2>1. /\ pc = d
        /\ UNCHANGED <<windows, devs, dflt, comm, count, stable, expect, setRes, plugs>>
    BY <1>3 DEF QueryDevice
  <2>2. /\ k \in Nat /\ k < count /\ (windows => count # 1)
        /\ \A j \in 1..k : got[j].slot = j - 1
        /\ stable => /\ count = SlotCount(d) /\ expect = AdmList(d)
                     /\ \A j \in 1..k : got[j] = Query(d, j - 1)
    BY <2>1 DEF TypeOK, QueryLoop, StableLoop
  <2>3. /\ SlotCount(d)' = SlotCount(d)
        /\ \A j \in Nat : Query(d, j)' = Query(d, j)
        /\ AdmList(d)' = AdmList(d)
    BY <2>1, AdmFrameAll
  <2>4. CASE ReturnErr(d) /\ UNCHANGED got
    <3>1. pc' = "idle" /\ result' = [result EXCEPT ![d] = [kind |-> "err"]]
      BY <2>4 DEF ReturnErr
    <3>2. TypeOK' /\ DefaultsInRange'
      BY <2>1, <2>4, <3>1 DEF TypeOK, DefaultsInRange
    <3>3. QueryLoop' /\ StableLoop'
      BY <3>1 DEF QueryLoop, StableLoop
    <3>4. ResultSlots' /\ ResultMatchesDevices' /\ SetSelectsShown'
      BY <2>1, <3>1 DEF TypeOK, ResultSlots, ResultMatchesDevices, SetSelectsShown, SetIndex
    <3> QED
      BY <3>2, <3>3, <3>4
  <2>5. CASE /\ k < SlotCount(d)
             /\ got' = Append(got, Query(d, k))
             /\ IF k + 1 = count THEN ReturnList(d, got') ELSE UNCHANGED <<pc, result>>
    <3>1. Query(d, k) \in Entry /\ Query(d, k).slot = k
      <4>1. \A j \in Nat : j < SlotCount(d) => Query(d, j) \in Entry
        <5>1. devs[d] \in Seq(DeviceDescs)
          <6>1. \A x \in RealLists : x \in Seq(DeviceDescs)
            BY RealListSeq
          <6> QED
            BY <6>1 DEF TypeOK
        <5>2. devs[d] # <<>> => dflt[d] \in 1..Len(devs[d]) /\ comm[d] \in 1..Len(devs[d])
          BY DEF DefaultsInRange
        <5> QED
          BY <5>1, <5>2, QueryEntry DEF TypeOK
      <4> QED
        BY <2>2, <2>5, <4>1 DEF Query
    <3>2. /\ got' \in Seq(Entry) /\ Len(got') = k + 1
          /\ \A j \in 1..k : got'[j] = got[j]
          /\ got'[k + 1] = Query(d, k)
      BY <2>2, <2>5, <3>1, AppendProperties DEF TypeOK
    <3>3. \A j \in 1..k + 1 : got'[j].slot = j - 1
      BY <2>2, <3>1, <3>2
    <3>4. stable => \A j \in 1..k + 1 : got'[j] = Query(d, j - 1)
      BY <2>2, <3>2
    <3>5. CASE k + 1 = count
      <4>1. /\ pc' = "idle"
            /\ result' = [result EXCEPT ![d] = [kind |-> "ok", list |-> Finish(got'),
                                                stable |-> stable, expect |-> expect]]
        BY <2>1, <2>5, <3>5 DEF ReturnList
      <4>2. /\ Len(Finish(got')) = Len(got')
            /\ DOMAIN Finish(got') = 1..Len(got')
            /\ \A i \in 1..Len(got') : Finish(got')[i].slot = SetIndex(i - 1)
        <5>1. windows \in BOOLEAN /\ (windows => Len(got') # 1)
          BY <2>2, <3>2, <3>5 DEF TypeOK
        <5> QED
          BY <3>2, <3>3, <5>1, FinishSlots
      <4>3. stable => Finish(got') = expect
        <5> SUFFICES ASSUME stable PROVE Finish(got') = expect
          OBVIOUS
        <5>1. got' = [j \in 1..SlotCount(d) |-> Query(d, j - 1)]
          <6>1. DOMAIN got' = 1..SlotCount(d)
            BY <2>2, <3>2, <3>5
          <6>2. \A j \in 1..SlotCount(d) : got'[j] = Query(d, j - 1)
            BY <2>2, <3>4, <3>5
          <6>3. got' = [j \in DOMAIN got' |-> got'[j]]
            BY <3>2, SeqIsFcn
          <6> QED
            BY <6>1, <6>2, <6>3
        <5> QED
          BY <2>2, <5>1 DEF AdmList
      <4>4. TypeOK' /\ DefaultsInRange'
        BY <2>1, <3>2, <4>1 DEF TypeOK, DefaultsInRange
      <4>5. QueryLoop' /\ StableLoop'
        BY <4>1 DEF QueryLoop, StableLoop
      <4>6. ResultSlots' /\ ResultMatchesDevices' /\ SetSelectsShown'
        BY <2>1, <3>2, <4>1, <4>2, <4>3 DEF TypeOK, ResultSlots, ResultMatchesDevices,
                                            SetSelectsShown, SetIndex
      <4> QED
        BY <4>4, <4>5, <4>6
    <3>6. CASE k + 1 # count
      <4>1. UNCHANGED <<pc, result>>
        BY <2>5, <3>6
      <4>2. TypeOK' /\ DefaultsInRange'
        BY <2>1, <3>2, <4>1 DEF TypeOK, DefaultsInRange
      <4>3. QueryLoop'
        <5>1. Len(got') < count'
          <6>1. count' = count /\ count \in Nat
            BY <2>1 DEF TypeOK
          <6>2. Len(got') = k + 1 /\ k \in Nat /\ k < count /\ k + 1 # count
            BY <2>2, <3>2, <3>6
          <6>3. \A a, c \in Nat : a < c /\ a + 1 # c => a + 1 < c
            BY ONLY SMT
          <6> QED
            BY ONLY <6>1, <6>2, <6>3, Zenon
        <5> QED
          BY <2>1, <2>2, <3>3, <3>2, <4>1, <5>1 DEF QueryLoop
      <4>4. StableLoop'
        BY <2>1, <2>2, <2>3, <3>2, <3>4, <4>1 DEF StableLoop
      <4>5. ResultSlots' /\ ResultMatchesDevices' /\ SetSelectsShown'
        BY <2>1, <4>1 DEF ResultSlots, ResultMatchesDevices, SetSelectsShown, SetIndex
      <4> QED
        BY <4>2, <4>3, <4>4, <4>5
    <3> QED
      BY <3>5, <3>6
  <2> QED
    BY <1>3, <2>4, <2>5 DEF QueryDevice
<1>4. ASSUME NEW d \in Dirs, SetDevice(d) PROVE IInv'
  <2> DEFINE shown(i) == IF result[d].kind = "ok" /\ i < Len(result[d].list)
                         THEN result[d].list[i + 1].slot ELSE -1
  <2>1. PICK i \in 0..MaxIndex, ok \in BOOLEAN :
               /\ ok => SetIndex(i) < SlotCount(d)
               /\ setRes' = [kind |-> "set", dir |-> d, passed |-> SetIndex(i),
                             shown |-> shown(i), ok |-> ok]
    BY <1>4 DEF SetDevice
  <2>2. UNCHANGED <<windows, devs, dflt, comm, pc, count, got, stable, expect,
                    result, plugs>>
    BY <1>4 DEF SetDevice
  <2>3. shown(i) # -1 => shown(i) = SetIndex(i)
    <3>1. CASE result[d].kind = "ok" /\ i < Len(result[d].list)
      <4>1. i + 1 \in 1..Len(result[d].list) /\ (i + 1) - 1 = i
        BY <3>1 DEF ResultSlots
      <4> QED
        BY <3>1, <4>1 DEF ResultSlots
    <3>2. CASE ~(result[d].kind = "ok" /\ i < Len(result[d].list))
      BY <3>2
    <3> QED
      BY <3>1, <3>2
  <2>4. SetSelectsShown'
    BY <2>1, <2>3 DEF SetSelectsShown
  <2> QED
    BY <2>1, <2>2, <2>4, KeepLoop
<1>5. CASE UNCHANGED vars
  <2>1. SetSelectsShown'
    BY <1>5 DEF vars, SetSelectsShown
  <2> QED
    BY <1>5, <2>1, KeepLoop DEF vars, TypeOK
<1> QED
  BY <1>1, <1>2, <1>3, <1>4, <1>5 DEF Next

(* set_audio_*_device passes to the ADM the slot that the list             *)
(* get_audio_*_devices returned showed at the index the UI gives back      *)
(* (lines 680-698 and 796-817 undo the Windows swap of lines 664-674), on  *)
(* every platform, whenever the u16 count of lines 622-633 does not wrap.  *)
THEOREM SetSelects ==
    ASSUME CountFits
    PROVE  Spec => []SetSelectsShown
<1>1. IInv => SetSelectsShown
  BY DEF IInv
<1> QED
  BY <1>1, InitIInv, NextIInv, PTL DEF Spec

(* A list get_audio_*_devices returns while no device changed is the ADM's *)
(* own list in the ADM's order up to the Windows swap, with its ids filled *)
(* in: the query loop of lines 643-676 reads every slot of the count of    *)
(* lines 622-633 exactly once, whenever that count does not wrap.          *)
THEOREM ListsMatch ==
    ASSUME CountFits
    PROVE  Spec => []ResultMatchesDevices
<1>1. IInv => ResultMatchesDevices
  BY DEF IInv
<1> QED
  BY <1>1, InitIInv, NextIInv, PTL DEF Spec

====
