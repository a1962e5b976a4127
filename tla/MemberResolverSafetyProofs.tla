--------------------- MODULE MemberResolverSafetyProofs ---------------------
(***************************************************************************)
(* Proofs of the resolver's main safety properties for every value of its  *)
(* constants: every lookup returns the uncached answer (ResultCorrect), no *)
(* cache holds a key twice (NoDuplicateKeys), and the caches change only  *)
(* as FIFO queues (CacheChangesFIFO).  They rest on the type invariant     *)
(* IInv proved in MemberResolverProofs.                                    *)
(***************************************************************************)
EXTENDS MemberResolverProofs

-----------------------------------------------------------------------------
(* A match found by the scan has the key looked for.                       *)
LEMMA FindInFound ==
    ASSUME NEW S, NEW s \in Seq(S), NEW f, NEW k, FindIn(s, f, k) # 0
    PROVE  /\ FindIn(s, f, k) \in 1..Len(s)
           /\ s[FindIn(s, f, k)][f] = k
BY DEF FindIn

(* A miss means no entry has the key.                                      *)
LEMMA FindInMiss ==
    ASSUME NEW S, NEW s \in Seq(S), NEW f, NEW k, FindIn(s, f, k) = 0
    PROVE  \A i \in 1..Len(s) : s[i][f] # k
BY DEF FindIn

(* The shape of evict-then-push: for k = 1 when the queue was over         *)
(* MAX_CACHE_ENTRIES, else k = 0, the result is s without its first k      *)
(* entries, in order, followed by e.                                       *)
LEMMA EvictAndPushShape ==
    ASSUME NEW S, NEW s \in Seq(S), NEW e \in S
    PROVE  \E k \in 0..1 :
              /\ k <= Len(s)
              /\ EvictAndPush(s, e) \in Seq(S)
              /\ Len(EvictAndPush(s, e)) = Len(s) - k + 1
              /\ EvictAndPush(s, e)[Len(s) - k + 1] = e
              /\ \A i \in 1..(Len(s) - k) : EvictAndPush(s, e)[i] = s[i + k]
<1>1. CASE Len(s) > MAX_CACHE_ENTRIES
  <2>1. s # << >>
    BY <1>1, ResolverAssumption, EmptySeq
  <2>2. /\ Tail(s) \in Seq(S)
        /\ Len(Tail(s)) = Len(s) - 1
        /\ \A i \in 1..Len(Tail(s)) : Tail(s)[i] = s[i + 1]
    BY <2>1, HeadTailProperties
  <2>3. EvictAndPush(s, e) = Append(Tail(s), e)
    BY <1>1 DEF EvictAndPush
  <2>4. Len(s) >= 1
    BY <2>1, EmptySeq, LenProperties
  <2>5. /\ Append(Tail(s), e) \in Seq(S)
        /\ Len(Append(Tail(s), e)) = Len(s) - 1 + 1
        /\ Append(Tail(s), e)[Len(s) - 1 + 1] = e
        /\ \A i \in 1..(Len(s) - 1) : Append(Tail(s), e)[i] = s[i + 1]
    BY <2>2, AppendProperties
  <2> WITNESS 1 \in 0..1
  <2> QED
    BY <2>3, <2>4, <2>5
<1>2. CASE ~(Len(s) > MAX_CACHE_ENTRIES)
  <2>1. EvictAndPush(s, e) = Append(s, e)
    BY <1>2 DEF EvictAndPush
  <2>2. /\ Append(s, e) \in Seq(S)
        /\ Len(Append(s, e)) = Len(s) - 0 + 1
        /\ Append(s, e)[Len(s) - 0 + 1] = e
        /\ \A i \in 1..(Len(s) - 0) : Append(s, e)[i] = s[i + 0]
    BY AppendProperties, LenProperties
  <2> WITNESS 0 \in 0..1
  <2> QED
    BY <2>1, <2>2, LenProperties
<1> QED
  BY <1>1, <1>2

(* Every entry after evict-then-push is the pushed one or an old one.      *)
LEMMA EvictAndPushElems ==
    ASSUME NEW S, NEW s \in Seq(S), NEW e \in S
    PROVE  /\ EvictAndPush(s, e) \in Seq(S)
           /\ \A i \in 1..Len(EvictAndPush(s, e)) :
                 \/ EvictAndPush(s, e)[i] = e
                 \/ \E j \in 1..Len(s) : EvictAndPush(s, e)[i] = s[j]
<1>1. PICK k \in 0..1 :
          /\ k <= Len(s)
          /\ EvictAndPush(s, e) \in Seq(S)
          /\ Len(EvictAndPush(s, e)) = Len(s) - k + 1
          /\ EvictAndPush(s, e)[Len(s) - k + 1] = e
          /\ \A i \in 1..(Len(s) - k) : EvictAndPush(s, e)[i] = s[i + k]
  BY EvictAndPushShape
<1>2. ASSUME NEW i \in 1..Len(EvictAndPush(s, e))
      PROVE  \/ EvictAndPush(s, e)[i] = e
             \/ \E j \in 1..Len(s) : EvictAndPush(s, e)[i] = s[j]
  <2>1. CASE i = Len(s) - k + 1
    BY <1>1, <2>1
  <2>2. CASE i # Len(s) - k + 1
    <3>1. i \in 1..(Len(s) - k) /\ i + k \in 1..Len(s)
      BY <1>1, <2>2, LenProperties
    <3> QED
      BY <1>1, <3>1
  <2> QED
    BY <2>1, <2>2
<1> QED
  BY <1>1, <1>2

(* CallMutex::lock_or_reset hands out the guarded queue or an empty one.   *)
LEMMA LockOrResetProps ==
    ASSUME NEW S, NEW s \in Seq(S), NEW p
    PROVE  /\ LockOrReset(s, p) \in Seq(S)
           /\ \A i \in 1..Len(LockOrReset(s, p)) : LockOrReset(s, p)[i] = s[i]
           /\ Len(LockOrReset(s, p)) <= Len(s)
BY EmptySeq, LenProperties DEF LockOrReset

(* An opaque id that decodes to a ciphertext resolves as that ciphertext.  *)
LEMMA RefStrDecoded ==
    ASSUME NEW id \in OpaqueIds, FromHex[id] \in Ciphertexts
    PROVE  RefStr(id) = RefBytes(FromHex[id])
BY ResolverAssumption DEF RefStr

(* Evict-then-push of an element whose key the queue does not hold keeps   *)
(* the keys of the queue distinct.                                         *)
LEMMA EvictAndPushDistinct ==
    ASSUME NEW S, NEW s \in Seq(S), NEW e \in S, NEW f,
           \A i, j \in 1..Len(s) : i # j => s[i][f] # s[j][f],
           \A i \in 1..Len(s) : s[i][f] # e[f]
    PROVE  \A i, j \in 1..Len(EvictAndPush(s, e)) :
              i # j => EvictAndPush(s, e)[i][f] # EvictAndPush(s, e)[j][f]
<1>1. PICK k \in 0..1 :
          /\ k <= Len(s)
          /\ EvictAndPush(s, e) \in Seq(S)
          /\ Len(EvictAndPush(s, e)) = Len(s) - k + 1
          /\ EvictAndPush(s, e)[Len(s) - k + 1] = e
          /\ \A i \in 1..(Len(s) - k) : EvictAndPush(s, e)[i] = s[i + k]
  BY EvictAndPushShape
<1> DEFINE r == EvictAndPush(s, e)
           last == Len(s) - k + 1
<1>0. Len(s) \in Nat /\ Len(r) = last /\ r[last] = e
  BY <1>1, LenProperties
<1>2. ASSUME NEW i \in 1..Len(r), NEW j \in 1..Len(r), i # j
      PROVE  r[i][f] # r[j][f]
  <2>1. CASE i # last /\ j # last
    <3>1. /\ i \in 1..(Len(s) - k) /\ j \in 1..(Len(s) - k)
          /\ i + k \in 1..Len(s) /\ j + k \in 1..Len(s) /\ i + k # j + k
      BY <1>0, <1>2, <2>1
    <3>2. r[i] = s[i + k] /\ r[j] = s[j + k]
      BY <1>1, <3>1
    <3> QED
      BY <3>1, <3>2
  <2>2. CASE i = last
    <3>1. j \in 1..(Len(s) - k) /\ j + k \in 1..Len(s)
      BY <1>0, <1>2, <2>2
    <3> QED
      BY <1>1, <2>2, <3>1
  <2>3. CASE j = last
    <3>1. i \in 1..(Len(s) - k) /\ i + k \in 1..Len(s)
      BY <1>0, <1>2, <2>3
    <3> QED
      BY <1>1, <2>3, <3>1
  <2> QED
    BY <2>1, <2>2, <2>3
<1> QED
  BY <1>2

-----------------------------------------------------------------------------
(***************************************************************************)
(* ResultCorrect.  It is not inductive alone: a hit returns what the cache *)
(* holds, so every entry must be sound (CacheSound), and resolve's insert  *)
(* returns the user resolve_bytes gave it for the bytes it decoded         *)
(* (CallDecoded).                                                          *)
(***************************************************************************)
LEMMA CorrectInit == Init => CorrectInv
<1> SUFFICES ASSUME Init PROVE CorrectInv
  OBVIOUS
<1>1. IInv
  BY InitIInv
<1> QED
  BY <1>1 DEF Init, CorrectInv, CacheSound, CallDecoded, ResultCorrect

LEMMA CorrectNext == CorrectInv /\ [Next]_vars => CorrectInv'
<1> SUFFICES ASSUME CorrectInv, [Next]_vars
             PROVE  CacheSound' /\ CallDecoded' /\ ResultCorrect'
  BY NextIInv DEF CorrectInv
<1> USE ResolverAssumption DEF CorrectInv, IInv, TypeOK
<1>a. cache \in Seq(CacheEntry) /\ bytesCache \in Seq(BytesEntry)
  OBVIOUS
(* Returning u = the reference answer for the bytes from resolve_bytes.   *)
<1>f. ASSUME NEW t \in Threads, NEW u, ReturnFromBytes(t, u),
             pc[t] \in {"resolve_bytes", "decrypt"},
             u = RefBytes(call[t].ct)
      PROVE  CallDecoded' /\ ResultCorrect'
  <2>1. CASE call[t].kind = "bytes"
    <3>1. /\ pc' = [pc EXCEPT ![t] = "idle"]
          /\ returned' = [returned EXCEPT ![t] = [kind |-> "bytes", ct |-> call[t].ct, res |-> u]]
          /\ UNCHANGED call
      BY <2>1, <1>f DEF ReturnFromBytes, Finish
    <3> QED
      BY <3>1, <1>f DEF CallDecoded, ResultCorrect
  <2>2. CASE call[t].kind = "str"
    <3>1. call[t] \in [kind : {"str"}, id : OpaqueIds, ct : Ciphertexts, user : Users \cup {NoUser}]
      BY <2>2, StrCall
    <3>2. call[t].ct = FromHex[call[t].id]
      BY <2>2, <1>f DEF CallDecoded
    <3>3. u = RefStr(call[t].id)
      BY <3>1, <3>2, <1>f, RefStrDecoded
    <3>4. CASE u = NoUser
      <4>1. /\ pc' = [pc EXCEPT ![t] = "idle"]
            /\ returned' = [returned EXCEPT ![t] = [kind |-> "str", id |-> call[t].id, res |-> NoUser]]
            /\ UNCHANGED call
        BY <2>2, <3>4, <1>f DEF ReturnFromBytes, Finish
      <4> QED
        BY <4>1, <3>3, <3>4 DEF CallDecoded, ResultCorrect
    <3>5. CASE u # NoUser
      <4>1. /\ pc' = [pc EXCEPT ![t] = "insert"]
            /\ call' = [call EXCEPT ![t] = [call[t] EXCEPT !.user = u]]
            /\ UNCHANGED returned
        BY <2>2, <3>5, <1>f DEF ReturnFromBytes
      <4> QED
        BY <4>1, <3>1, <3>2, <3>3 DEF CallDecoded, ResultCorrect
    <3> QED
      BY <3>4, <3>5
  <2> QED
    BY <2>1, <2>2 DEF Call
<1>1. ASSUME NEW t \in Threads, NEW id \in OpaqueIds, Resolve(t, id)
      PROVE  CacheSound' /\ CallDecoded' /\ ResultCorrect'
  <2> DEFINE c == LockOrReset(cache, cachePoisoned)
             i == FindIn(c, "id", id)
  <2>1. /\ c \in Seq(CacheEntry)
        /\ \A j \in 1..Len(c) : c[j].user = RefStr(c[j].id)
    BY <1>a, LockOrResetProps DEF CacheSound
  <2>2. /\ cache' = c
        /\ UNCHANGED bytesCache
        /\ pc[t] = "idle"
    BY <1>1 DEF Resolve
  <2>3. CacheSound'
    BY <2>1, <2>2 DEF CacheSound
  <2>4. CASE i # 0
    <3>1. /\ Finish(t, [kind |-> "str", id |-> id, res |-> HitUser(c, i)])
          /\ UNCHANGED call
      BY <1>1, <2>4 DEF Resolve
    <3>2. HitUser(c, i) = RefStr(id)
      BY <2>1, <2>4, FindInFound DEF HitUser
    <3> QED
      BY <2>3, <3>1, <3>2 DEF Finish, CallDecoded, ResultCorrect
  <2>5. CASE i = 0 /\ FromHex[id] = Invalid
    <3>1. /\ Finish(t, [kind |-> "str", id |-> id, res |-> NoUser])
          /\ UNCHANGED call
      BY <1>1, <2>5 DEF Resolve
    <3> QED
      BY <2>3, <2>5, <3>1 DEF Finish, CallDecoded, ResultCorrect, RefStr
  <2>6. CASE i = 0 /\ FromHex[id] # Invalid
    <3>1. EnterResolveBytes(t, id)
      BY <1>1, <2>6 DEF Resolve
    <3> QED
      BY <2>3, <3>1 DEF EnterResolveBytes, CallDecoded, ResultCorrect
  <2> QED
    BY <2>4, <2>5, <2>6
<1>2. ASSUME NEW t \in Threads, NEW ct \in Ciphertexts, CallResolveBytes(t, ct)
      PROVE  CacheSound' /\ CallDecoded' /\ ResultCorrect'
  BY <1>2 DEF CallResolveBytes, CacheSound, CallDecoded, ResultCorrect
<1>3. ASSUME NEW t \in Threads, ResolveBytes(t)
      PROVE  CacheSound' /\ CallDecoded' /\ ResultCorrect'
  <2> DEFINE c == LockOrReset(bytesCache, bytesPoisoned)
             i == FindIn(c, "ct", call[t].ct)
  <2>1. /\ c \in Seq(BytesEntry)
        /\ \A j \in 1..Len(c) : c[j].user = RefBytes(c[j].ct)
    BY <1>a, LockOrResetProps DEF CacheSound
  <2>2. /\ bytesCache' = c
        /\ UNCHANGED cache
        /\ pc[t] = "resolve_bytes"
    BY <1>3 DEF ResolveBytes
  <2>3. CacheSound'
    BY <2>1, <2>2 DEF CacheSound
  <2>4. CASE i # 0
    <3>1. ReturnFromBytes(t, HitUser(c, i))
      BY <1>3, <2>4 DEF ResolveBytes
    <3>2. HitUser(c, i) = RefBytes(call[t].ct)
      BY <2>1, <2>4, FindInFound DEF HitUser
    <3> QED
      BY <2>2, <2>3, <3>1, <3>2, <1>f
  <2>5. CASE i = 0
    <3>1. /\ pc' = [pc EXCEPT ![t] = "decrypt"]
          /\ UNCHANGED <<call, returned>>
      BY <1>3, <2>5 DEF ResolveBytes
    <3> QED
      BY <2>2, <2>3, <3>1 DEF CallDecoded, ResultCorrect
  <2> QED
    BY <2>4, <2>5
<1>4. ASSUME NEW t \in Threads, Decrypt(t)
      PROVE  CacheSound' /\ CallDecoded' /\ ResultCorrect'
  <2> DEFINE ct == call[t].ct
             u == DecryptUid[ct]
  <2>1. ct \in Ciphertexts /\ u = RefBytes(ct)
    BY DEF Call, RefBytes
  <2>2. /\ bytesCache' = CacheDecrypted(bytesCache, ct, u)
        /\ UNCHANGED cache
        /\ ReturnFromBytes(t, u)
        /\ pc[t] = "decrypt"
    BY <1>4 DEF Decrypt
  <2>3. CacheSound'
    <3>1. CASE u = NoUser
      BY <2>2, <3>1 DEF CacheDecrypted, CacheSound
    <3>2. CASE u # NoUser
      <4> DEFINE entry == [ct |-> ct, user |-> u]
      <4>1. entry \in BytesEntry
        BY <2>1, <3>2 DEF BytesEntry
      <4>2. bytesCache' = EvictAndPush(bytesCache, entry)
        BY <2>2, <3>2 DEF CacheDecrypted
      <4>3. \A j \in 1..Len(EvictAndPush(bytesCache, entry)) :
                \/ EvictAndPush(bytesCache, entry)[j] = entry
                \/ \E m \in 1..Len(bytesCache) : EvictAndPush(bytesCache, entry)[j] = bytesCache[m]
        <5>1. ASSUME NEW x \in BytesEntry
              PROVE  \A j \in 1..Len(EvictAndPush(bytesCache, x)) :
                        \/ EvictAndPush(bytesCache, x)[j] = x
                        \/ \E m \in 1..Len(bytesCache) : EvictAndPush(bytesCache, x)[j] = bytesCache[m]
          BY ONLY <1>a, EvictAndPushElems
        <5> QED
          BY <4>1, <5>1
      <4>4. \A j \in 1..Len(bytesCache') : bytesCache'[j].user = RefBytes(bytesCache'[j].ct)
        <5> TAKE j \in 1..Len(bytesCache')
        <5>1. CASE bytesCache'[j] = entry
          BY <2>1, <5>1
        <5>2. CASE \E m \in 1..Len(bytesCache) : bytesCache'[j] = bytesCache[m]
          BY <5>2 DEF CacheSound
        <5> QED
          BY <4>2, <4>3, <5>1, <5>2
      <4> QED
        BY <2>2, <4>4 DEF CacheSound
    <3> QED
      BY <3>1, <3>2
  <2> QED
    BY <2>1, <2>2, <2>3, <1>f
<1>5. ASSUME NEW t \in Threads, InsertCache(t)
      PROVE  CacheSound' /\ CallDecoded' /\ ResultCorrect'
  <2> DEFINE entry == [id |-> call[t].id, user |-> call[t].user]
  <2>1. /\ call[t] \in [kind : {"str"}, id : OpaqueIds, ct : Ciphertexts, user : Users \cup {NoUser}]
        /\ call[t].user \in Users
        /\ call[t].user = RefStr(call[t].id)
    BY <1>5, StrCall DEF InsertCache, InsertHasUser, CallDecoded
  <2>2. entry \in CacheEntry
    BY <2>1 DEF CacheEntry
  <2>3. /\ cache' = EvictAndPush(cache, entry)
        /\ UNCHANGED <<bytesCache, call>>
        /\ Finish(t, [kind |-> "str", id |-> call[t].id, res |-> call[t].user])
    BY <1>5 DEF InsertCache
  <2>4. \A j \in 1..Len(EvictAndPush(cache, entry)) :
            \/ EvictAndPush(cache, entry)[j] = entry
            \/ \E m \in 1..Len(cache) : EvictAndPush(cache, entry)[j] = cache[m]
    <3>1. ASSUME NEW x \in CacheEntry
          PROVE  \A j \in 1..Len(EvictAndPush(cache, x)) :
                    \/ EvictAndPush(cache, x)[j] = x
                    \/ \E m \in 1..Len(cache) : EvictAndPush(cache, x)[j] = cache[m]
      BY ONLY <1>a, EvictAndPushElems
    <3> QED
      BY <2>2, <3>1
  <2>5. ASSUME NEW j \in 1..Len(cache')
        PROVE  cache'[j].user = RefStr(cache'[j].id)
    <3>1. CASE cache'[j] = entry
      BY <2>1, <3>1
    <3>2. CASE \E m \in 1..Len(cache) : cache'[j] = cache[m]
      BY <3>2 DEF CacheSound
    <3> QED
      BY <2>3, <2>4, <3>1, <3>2
  <2>6. CacheSound'
    BY <2>3, <2>5 DEF CacheSound
  <2> QED
    BY <2>1, <2>3, <2>6 DEF Finish, CallDecoded, ResultCorrect
<1>6. ASSUME NEW t \in Threads, Panic(t)
      PROVE  CacheSound' /\ CallDecoded' /\ ResultCorrect'
  BY <1>6 DEF Panic, CacheSound, CallDecoded, ResultCorrect
<1>7. CASE UNCHANGED vars
  BY <1>7 DEF vars, CacheSound, CallDecoded, ResultCorrect
<1> QED
  BY <1>1, <1>2, <1>3, <1>4, <1>5, <1>6, <1>7 DEF Next

(* Every value a call of resolve or resolve_bytes returns is the value the *)
(* lookup without any cache computes, whatever the interleaving of the     *)
(* threads, the evictions of both FIFO caches and the poison resets after  *)
(* panics (member_resolver.rs lines 53-110).                               *)
THEOREM ResultsCorrect == Spec => []ResultCorrect
<1>1. CorrectInv => ResultCorrect
  BY DEF CorrectInv
<1> QED
  BY <1>1, CorrectInit, CorrectNext, PTL DEF Spec

-----------------------------------------------------------------------------
(***************************************************************************)
(* NoDuplicateKeys and GuardsHeldByCaller.  A push keeps the keys distinct *)
(* only because the key pushed was missing when its thread scanned, and    *)
(* stays missing while that thread holds the lock (MissPending); that in   *)
(* turn needs each lock held by exactly the thread in the code that owns   *)
(* it (GuardsHeldByCaller).                                                *)
(***************************************************************************)
LEMMA KeyInit == Init => KeyInv
<1> SUFFICES ASSUME Init PROVE KeyInv
  OBVIOUS
<1>1. IInv
  BY InitIInv
<1> QED
  BY <1>1, ResolverAssumption
     DEF Init, KeyInv, GuardsHeldByCaller, MissPending, NoDuplicateKeys

(* Each step of a thread keeps the lock discipline, the pending-miss facts  *)
(* and the distinct keys of both caches.                                  *)
LEMMA KeyNext == KeyInv /\ [Next]_vars => KeyInv'
<1> SUFFICES ASSUME KeyInv, [Next]_vars
             PROVE  GuardsHeldByCaller' /\ MissPending' /\ NoDuplicateKeys'
  BY NextIInv DEF KeyInv
<1> USE ResolverAssumption DEF KeyInv, IInv, TypeOK
<1>a. cache \in Seq(CacheEntry) /\ bytesCache \in Seq(BytesEntry)
  OBVIOUS
(* Only the holder of the cache lock is in a resolve call.                 *)
<1>s. \A t \in Threads : (pc[t] # "idle" /\ call[t].kind = "str") => cacheHolder = t
  BY DEF GuardsHeldByCaller
(* Returning from resolve_bytes, with the bytes lock already free, leaves  *)
(* the caches alone and keeps the guards with their callers.              *)
<1>f. ASSUME NEW t \in Threads, NEW u, ReturnFromBytes(t, u),
             pc[t] \in {"resolve_bytes", "decrypt"},
             bytesHolder' = NoThread,
             \A v \in Threads : v # t => pc[v] # "decrypt",
             UNCHANGED cache
      PROVE  GuardsHeldByCaller' /\ MissPending'
  <2>1. CASE call[t].kind = "bytes"
    <3>1. /\ pc' = [pc EXCEPT ![t] = "idle"]
          /\ UNCHANGED <<call, cacheHolder>>
      BY <2>1, <1>f DEF ReturnFromBytes, Finish
    <3>2. cacheHolder # t
      BY <2>1 DEF GuardsHeldByCaller
    <3> QED
      BY <1>f, <3>1, <3>2 DEF GuardsHeldByCaller, MissPending
  <2>2. CASE call[t].kind = "str" /\ u = NoUser
    <3>1. /\ pc' = [pc EXCEPT ![t] = "idle"]
          /\ cacheHolder' = NoThread
          /\ UNCHANGED call
      BY <2>2, <1>f DEF ReturnFromBytes, Finish, DropCacheGuard
    <3>2. cacheHolder = t
      BY <2>2, <1>f, <1>s
    <3> QED
      BY <1>f, <1>s, <3>1, <3>2 DEF GuardsHeldByCaller, MissPending
  <2>3. CASE call[t].kind = "str" /\ u # NoUser
    <3>1. /\ pc' = [pc EXCEPT ![t] = "insert"]
          /\ call' = [call EXCEPT ![t] = [call[t] EXCEPT !.user = u]]
          /\ UNCHANGED cacheHolder
      BY <2>3, <1>f DEF ReturnFromBytes
    <3>2. cacheHolder = t
      BY <2>3, <1>f, <1>s
    <3>3. call[t] \in [kind : {"str"}, id : OpaqueIds, ct : Ciphertexts, user : Users \cup {NoUser}]
      BY <2>3, StrCall
    <3>4. call'[t].kind = "str" /\ call'[t].id = call[t].id
      BY <3>1, <3>3
    <3> QED
      BY <1>f, <3>1, <3>2, <3>4 DEF GuardsHeldByCaller, MissPending
  <2> QED
    BY <2>1, <2>2, <2>3 DEF Call
<1>1. ASSUME NEW t \in Threads, NEW id \in OpaqueIds, Resolve(t, id)
      PROVE  GuardsHeldByCaller' /\ MissPending' /\ NoDuplicateKeys'
  <2> DEFINE c == LockOrReset(cache, cachePoisoned)
             i == FindIn(c, "id", id)
  <2>1. /\ cache' = c
        /\ UNCHANGED <<bytesCache, bytesHolder>>
        /\ pc[t] = "idle"
        /\ cacheHolder = NoThread
    BY <1>1 DEF Resolve
  <2>2. \A v \in Threads : pc[v] # "insert" /\ ~(pc[v] # "idle" /\ call[v].kind = "str")
    BY <2>1 DEF GuardsHeldByCaller
  <2>3. NoDuplicateKeys'
    <3>0. \A m, n \in 1..Len(cache) : m # n => cache[m].id # cache[n].id
      BY DEF NoDuplicateKeys
    <3>1. \A m, n \in 1..Len(c) : m # n => c[m].id # c[n].id
      BY ONLY <3>0, EmptySeq DEF LockOrReset
    <3> QED
      BY <2>1, <3>1 DEF NoDuplicateKeys
  <2>4. CASE i # 0 \/ FromHex[id] = Invalid
    <3>1. /\ pc' = [pc EXCEPT ![t] = "idle"]
          /\ UNCHANGED <<call, cacheHolder>>
      BY <1>1, <2>4 DEF Resolve, Finish
    <3> QED
      BY <2>1, <2>2, <2>3, <3>1 DEF GuardsHeldByCaller, MissPending
  <2>5. CASE i = 0 /\ FromHex[id] # Invalid
    <3>1. /\ cacheHolder' = t
          /\ pc' = [pc EXCEPT ![t] = "resolve_bytes"]
          /\ call' = [call EXCEPT ![t] = [kind |-> "str", id |-> id, ct |-> FromHex[id], user |-> NoUser]]
      BY <1>1, <2>5 DEF Resolve, EnterResolveBytes
    <3>2. \A m \in 1..Len(c) : c[m].id # id
      <4>1. c \in Seq(CacheEntry) /\ FindIn(c, "id", id) = 0
        BY <1>a, <2>5, LockOrResetProps
      <4> QED
        BY ONLY <4>1, FindInMiss
    <3> QED
      BY <2>1, <2>2, <2>3, <3>1, <3>2 DEF GuardsHeldByCaller, MissPending
  <2> QED
    BY <2>4, <2>5
<1>2. ASSUME NEW t \in Threads, NEW ct \in Ciphertexts, CallResolveBytes(t, ct)
      PROVE  GuardsHeldByCaller' /\ MissPending' /\ NoDuplicateKeys'
  <2>1. cacheHolder # t /\ bytesHolder # t
    BY <1>2 DEF CallResolveBytes, GuardsHeldByCaller
  <2> QED
    BY <1>2, <2>1 DEF CallResolveBytes, GuardsHeldByCaller, MissPending, NoDuplicateKeys
<1>3. ASSUME NEW t \in Threads, ResolveBytes(t)
      PROVE  GuardsHeldByCaller' /\ MissPending' /\ NoDuplicateKeys'
  <2> DEFINE c == LockOrReset(bytesCache, bytesPoisoned)
             i == FindIn(c, "ct", call[t].ct)
  <2>1. /\ bytesCache' = c
        /\ UNCHANGED cache
        /\ pc[t] = "resolve_bytes"
        /\ bytesHolder = NoThread
    BY <1>3 DEF ResolveBytes
  <2>2. \A v \in Threads : pc[v] # "decrypt"
    BY <2>1 DEF GuardsHeldByCaller
  <2>3. NoDuplicateKeys'
    <3>0. \A m, n \in 1..Len(bytesCache) : m # n => bytesCache[m].ct # bytesCache[n].ct
      BY DEF NoDuplicateKeys
    <3>1. \A m, n \in 1..Len(c) : m # n => c[m].ct # c[n].ct
      BY ONLY <3>0, EmptySeq DEF LockOrReset
    <3> QED
      BY <2>1, <3>1 DEF NoDuplicateKeys
  <2>4. CASE i # 0
    <3>1. ReturnFromBytes(t, HitUser(c, i)) /\ UNCHANGED bytesHolder
      BY <1>3, <2>4 DEF ResolveBytes
    <3> QED
      BY <2>1, <2>2, <2>3, <3>1, <1>f
  <2>5. CASE i = 0
    <3>1. /\ bytesHolder' = t
          /\ pc' = [pc EXCEPT ![t] = "decrypt"]
          /\ UNCHANGED <<call, cacheHolder>>
      BY <1>3, <2>5 DEF ResolveBytes
    <3>2. \A m \in 1..Len(c) : c[m].ct # call[t].ct
      <4>1. c \in Seq(BytesEntry) /\ FindIn(c, "ct", call[t].ct) = 0
        BY <1>a, <2>5, LockOrResetProps
      <4> QED
        BY ONLY <4>1, FindInMiss
    <3> QED
      BY <2>1, <2>2, <2>3, <3>1, <3>2 DEF GuardsHeldByCaller, MissPending
  <2> QED
    BY <2>4, <2>5
<1>4. ASSUME NEW t \in Threads, Decrypt(t)
      PROVE  GuardsHeldByCaller' /\ MissPending' /\ NoDuplicateKeys'
  <2> DEFINE ct == call[t].ct
             u == DecryptUid[ct]
  <2>1. /\ bytesCache' = CacheDecrypted(bytesCache, ct, u)
        /\ bytesHolder' = NoThread
        /\ UNCHANGED cache
        /\ ReturnFromBytes(t, u)
        /\ pc[t] = "decrypt"
    BY <1>4 DEF Decrypt
  <2>2. bytesHolder = t /\ \A v \in Threads : v # t => pc[v] # "decrypt"
    BY <2>1 DEF GuardsHeldByCaller
  <2>3. NoDuplicateKeys'
    <3>1. CASE u = NoUser
      BY <2>1, <3>1 DEF CacheDecrypted, NoDuplicateKeys
    <3>2. CASE u # NoUser
      <4> DEFINE entry == [ct |-> ct, user |-> u]
      <4>1. entry \in BytesEntry
        BY <3>2 DEF Call, BytesEntry
      <4>2. \A m \in 1..Len(bytesCache) : bytesCache[m].ct # entry.ct
        BY <2>1 DEF MissPending
      <4>3. ASSUME NEW x \in BytesEntry,
                   \A m \in 1..Len(bytesCache) : bytesCache[m].ct # x.ct
            PROVE  \A m, n \in 1..Len(EvictAndPush(bytesCache, x)) :
                      m # n => EvictAndPush(bytesCache, x)[m].ct # EvictAndPush(bytesCache, x)[n].ct
        <5>1. bytesCache \in Seq(BytesEntry)
            /\ \A m, n \in 1..Len(bytesCache) : m # n => bytesCache[m].ct # bytesCache[n].ct
          BY <1>a DEF NoDuplicateKeys
        <5> QED
          BY ONLY <5>1, <4>3, EvictAndPushDistinct
      <4>4. bytesCache' = EvictAndPush(bytesCache, entry)
        BY <2>1, <3>2 DEF CacheDecrypted
      <4>5. \A m, n \in 1..Len(EvictAndPush(bytesCache, entry)) :
               m # n => EvictAndPush(bytesCache, entry)[m].ct # EvictAndPush(bytesCache, entry)[n].ct
        BY ONLY <4>1, <4>2, <4>3
      <4> QED
        BY <2>1, <4>4, <4>5 DEF NoDuplicateKeys
    <3> QED
      BY <3>1, <3>2
  <2> QED
    BY <2>1, <2>2, <2>3, <1>f
<1>5. ASSUME NEW t \in Threads, InsertCache(t)
      PROVE  GuardsHeldByCaller' /\ MissPending' /\ NoDuplicateKeys'
  <2> DEFINE entry == [id |-> call[t].id, user |-> call[t].user]
  <2>1. /\ call[t] \in [kind : {"str"}, id : OpaqueIds, ct : Ciphertexts, user : Users \cup {NoUser}]
        /\ call[t].user \in Users
    BY <1>5, StrCall DEF InsertCache, InsertHasUser
  <2>2. /\ cache' = EvictAndPush(cache, entry)
        /\ cacheHolder' = NoThread
        /\ pc' = [pc EXCEPT ![t] = "idle"]
        /\ UNCHANGED <<bytesCache, bytesHolder, call>>
        /\ pc[t] = "insert"
    BY <1>5 DEF InsertCache, Finish
  <2>3. cacheHolder = t /\ \A v \in Threads : v # t => ~(pc[v] # "idle" /\ call[v].kind = "str")
    BY <2>2, <1>s DEF GuardsHeldByCaller
  <2>4. \A v \in Threads : v # t => pc[v] # "insert"
    BY <2>3 DEF GuardsHeldByCaller
  <2>5. NoDuplicateKeys'
    <3>1. entry \in CacheEntry
      BY <2>1 DEF CacheEntry
    <3>2. \A m \in 1..Len(cache) : cache[m].id # entry.id
      BY <2>1, <2>2 DEF MissPending
    <3>3. ASSUME NEW x \in CacheEntry,
                 \A m \in 1..Len(cache) : cache[m].id # x.id
          PROVE  \A m, n \in 1..Len(EvictAndPush(cache, x)) :
                    m # n => EvictAndPush(cache, x)[m].id # EvictAndPush(cache, x)[n].id
      <4>1. cache \in Seq(CacheEntry)
          /\ \A m, n \in 1..Len(cache) : m # n => cache[m].id # cache[n].id
        BY <1>a DEF NoDuplicateKeys
      <4> QED
        BY ONLY <4>1, <3>3, EvictAndPushDistinct
    <3> QED
      BY <2>2, <3>1, <3>2, <3>3 DEF NoDuplicateKeys
  <2> QED
    BY <2>2, <2>3, <2>4, <2>5 DEF GuardsHeldByCaller, MissPending
<1>6. ASSUME NEW t \in Threads, Panic(t)
      PROVE  GuardsHeldByCaller' /\ MissPending' /\ NoDuplicateKeys'
  BY <1>6 DEF Panic, GuardsHeldByCaller, MissPending, NoDuplicateKeys
<1>7. CASE UNCHANGED vars
  BY <1>7 DEF vars, GuardsHeldByCaller, MissPending, NoDuplicateKeys
<1> QED
  BY <1>1, <1>2, <1>3, <1>4, <1>5, <1>6, <1>7 DEF Next

(* No cache ever holds two entries for one key, whatever the threads do:   *)
(* resolve keeps the cache guard from its scan through resolve_bytes to    *)
(* its push_back, and resolve_bytes the bytes guard from its scan through  *)
(* decryption to its push_back (member_resolver.rs lines 53-110).          *)
THEOREM NoDuplicates == Spec => []NoDuplicateKeys
<1>1. KeyInv => NoDuplicateKeys
  BY DEF KeyInv
<1> QED
  BY <1>1, KeyInit, KeyNext, PTL DEF Spec

-----------------------------------------------------------------------------
(* Evict-then-push is a FIFO step: for k the number of entries evicted,    *)
(* the result without its new last entry is s without its first k.        *)
LEMMA EvictAndPushFifo ==
    ASSUME NEW S, NEW s \in Seq(S), NEW e \in S, NEW p
    PROVE  FifoStep(s, EvictAndPush(s, e), p)
<1> DEFINE r == EvictAndPush(s, e)
<1>1. PICK k \in 0..1 :
          /\ k <= Len(s)
          /\ r \in Seq(S)
          /\ Len(r) = Len(s) - k + 1
          /\ r[Len(s) - k + 1] = e
          /\ \A i \in 1..(Len(s) - k) : r[i] = s[i + k]
  BY EvictAndPushShape
<1>2. Len(s) \in Nat /\ Len(r) \in Nat
  BY <1>1, LenProperties
<1>3. /\ SubSeq(r, 1, Len(r) - 1) \in Seq(S)
      /\ Len(SubSeq(r, 1, Len(r) - 1)) = Len(s) - k
      /\ \A i \in 1..(Len(s) - k) : SubSeq(r, 1, Len(r) - 1)[i] = r[i]
  <2>1. \A i \in 1..(Len(r) - 1) : r[i] \in S
    BY <1>1, <1>2
  <2> QED
    BY <1>1, <1>2, <2>1, SubSeqProperties
<1>4. /\ SubSeq(s, k + 1, Len(s)) \in Seq(S)
      /\ Len(SubSeq(s, k + 1, Len(s))) = Len(s) - k
      /\ \A i \in 1..(Len(s) - k) : SubSeq(s, k + 1, Len(s))[i] = s[i + k]
  <2>1. \A i \in (k + 1)..Len(s) : s[i] \in S
    BY <1>2
  <2> QED
    BY <1>1, <1>2, <2>1, SubSeqProperties
<1>5. SubSeq(r, 1, Len(r) - 1) = SubSeq(s, k + 1, Len(s))
  <2> DEFINE a == SubSeq(r, 1, Len(r) - 1)
             b == SubSeq(s, k + 1, Len(s))
  <2>1. \A i \in 1..Len(a) : a[i] = b[i]
    BY <1>1, <1>3, <1>4
  <2>2. a \in Seq(S) /\ b \in Seq(S) /\ Len(a) = Len(b)
    BY <1>3, <1>4
  <2> QED
    BY ONLY <2>1, <2>2, SeqEqual
<1> QED
  BY <1>1, <1>5 DEF FifoStep

(* Under the type invariant every step changes each cache as a FIFO queue  *)
(* does: lock_or_reset keeps it or empties a poisoned one, the push_back   *)
(* of resolve and of resolve_bytes evicts at most the oldest entry.        *)
LEMMA FifoNext ==
    IInv /\ [Next]_vars =>
        /\ FifoStep(cache, cache', cachePoisoned)
        /\ FifoStep(bytesCache, bytesCache', bytesPoisoned)
<1> SUFFICES ASSUME IInv, [Next]_vars
             PROVE  /\ FifoStep(cache, cache', cachePoisoned)
                    /\ FifoStep(bytesCache, bytesCache', bytesPoisoned)
  OBVIOUS
<1>a. cache \in Seq(CacheEntry) /\ bytesCache \in Seq(BytesEntry)
  BY DEF IInv, TypeOK
<1>u. /\ FifoStep(cache, cache, cachePoisoned)
      /\ FifoStep(bytesCache, bytesCache, bytesPoisoned)
  BY DEF FifoStep
<1>l. /\ FifoStep(cache, LockOrReset(cache, cachePoisoned), cachePoisoned)
      /\ FifoStep(bytesCache, LockOrReset(bytesCache, bytesPoisoned), bytesPoisoned)
  BY DEF FifoStep, LockOrReset
<1>1. ASSUME NEW t \in Threads, NEW id \in OpaqueIds, Resolve(t, id)
      PROVE  FifoStep(cache, cache', cachePoisoned) /\ bytesCache' = bytesCache
  BY <1>1, <1>l DEF Resolve
<1>2. ASSUME NEW t \in Threads, NEW ct \in Ciphertexts, CallResolveBytes(t, ct)
      PROVE  cache' = cache /\ bytesCache' = bytesCache
  BY <1>2 DEF CallResolveBytes
<1>3. ASSUME NEW t \in Threads, ResolveBytes(t)
      PROVE  cache' = cache /\ FifoStep(bytesCache, bytesCache', bytesPoisoned)
  BY <1>3, <1>l DEF ResolveBytes
<1>4. ASSUME NEW t \in Threads, Decrypt(t)
      PROVE  cache' = cache /\ FifoStep(bytesCache, bytesCache', bytesPoisoned)
  <2> DEFINE ct == call[t].ct
             u == DecryptUid[ct]
  <2>1. bytesCache' = CacheDecrypted(bytesCache, ct, u) /\ cache' = cache
    BY <1>4 DEF Decrypt
  <2>2. CASE u = NoUser
    BY <1>u, <2>1, <2>2 DEF CacheDecrypted
  <2>3. CASE u # NoUser
    <3>1. ct \in Ciphertexts /\ u \in Users
      <4>1. call[t] \in Call
        BY DEF IInv, TypeOK
      <4>2. ct \in Ciphertexts
        BY <4>1 DEF Call
      <4> QED
        BY <2>3, <4>2, ResolverAssumption
    <3>2. [ct |-> ct, user |-> u] \in BytesEntry
      BY <3>1 DEF BytesEntry
    <3>3. ASSUME NEW x \in BytesEntry
          PROVE  FifoStep(bytesCache, EvictAndPush(bytesCache, x), bytesPoisoned)
      BY ONLY <1>a, EvictAndPushFifo
    <3> QED
      BY <2>1, <2>3, <3>2, <3>3 DEF CacheDecrypted
  <2> QED
    BY <2>2, <2>3
<1>5. ASSUME NEW t \in Threads, InsertCache(t)
      PROVE  FifoStep(cache, cache', cachePoisoned) /\ bytesCache' = bytesCache
  <2>1. /\ call[t] \in [kind : {"str"}, id : OpaqueIds, ct : Ciphertexts, user : Users \cup {NoUser}]
        /\ call[t].user \in Users
    BY <1>5, StrCall DEF InsertCache, InsertHasUser, IInv, TypeOK
  <2>2. [id |-> call[t].id, user |-> call[t].user] \in CacheEntry
    BY <2>1 DEF CacheEntry
  <2>3. ASSUME NEW x \in CacheEntry
        PROVE  FifoStep(cache, EvictAndPush(cache, x), cachePoisoned)
    BY ONLY <1>a, EvictAndPushFifo
  <2> QED
    BY <1>5, <2>2, <2>3 DEF InsertCache
<1>6. ASSUME NEW t \in Threads, Panic(t)
      PROVE  cache' = cache /\ bytesCache' = bytesCache
  BY <1>6 DEF Panic
<1>7. CASE UNCHANGED vars
  BY <1>u, <1>7 DEF vars
<1>8. CASE Next
  <2>1. PICK t \in Threads :
          \/ \E id \in OpaqueIds : Resolve(t, id)
          \/ \E ct \in Ciphertexts : CallResolveBytes(t, ct)
          \/ ResolveBytes(t)
          \/ Decrypt(t)
          \/ InsertCache(t)
          \/ Panic(t)
    BY <1>8 DEF Next
  <2>2. CASE \E id \in OpaqueIds : Resolve(t, id)
    BY <1>u, <1>1, <2>2
  <2>3. CASE \E ct \in Ciphertexts : CallResolveBytes(t, ct)
    BY <1>u, <1>2, <2>3
  <2>4. CASE ResolveBytes(t)
    BY <1>u, <1>3, <2>4
  <2>5. CASE Decrypt(t)
    BY <1>u, <1>4, <2>5
  <2>6. CASE InsertCache(t)
    BY <1>u, <1>5, <2>6
  <2>7. CASE Panic(t)
    BY <1>u, <1>6, <2>7
  <2> QED
    BY <2>1, <2>2, <2>3, <2>4, <2>5, <2>6, <2>7
<1> QED
  BY <1>7, <1>8

(* Whatever the threads do, each cache changes only as a FIFO queue: no    *)
(* step reorders entries or evicts any but the oldest; only lock_or_reset  *)
(* on a poisoned mutex empties it (member_resolver.rs lines 53-110).       *)
THEOREM CachesFifo == Spec => CacheChangesFIFO
<1>1. IInv /\ [Next]_vars =>
        [/\ FifoStep(cache, cache', cachePoisoned)
         /\ FifoStep(bytesCache, bytesCache', bytesPoisoned)]_vars
  BY FifoNext
<1>2. Spec => []IInv
  BY InitIInv, NextIInv, PTL DEF Spec
<1> QED
  BY <1>1, <1>2, PTL DEF Spec, CacheChangesFIFO

=============================================================================
