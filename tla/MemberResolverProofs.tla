------------------------ MODULE MemberResolverProofs ------------------------
(***************************************************************************)
(* Proofs about MemberResolver for every value of its constants: the type  *)
(* invariant and the bound the code keeps on each cache.                   *)
(***************************************************************************)
EXTENDS MemberResolver, SequenceTheorems, TLAPS

(* A thread at the insert of resolve is in a resolve call and holds the    *)
(* user resolve_bytes returned: what InsertCache pushes is a cache entry.  *)
InsertHasUser ==
    \A t \in Threads : pc[t] = "insert" => call[t].kind = "str" /\ call[t].user \in Users

(* The inductive invariant.                                                *)
IInv == TypeOK /\ InsertHasUser /\ CacheBound

(* A thread in a resolve call, past its miss, looks up a key the cache    *)
(* does not hold; a thread decrypting, a ciphertext the bytes cache does   *)
(* not hold.  Holding the lock keeps it so until the push.                 *)
MissPending ==
    \A t \in Threads :
        /\ (pc[t] # "idle" /\ call[t].kind = "str") =>
               \A i \in 1..Len(cache) : cache[i].id # call[t].id
        /\ pc[t] = "decrypt" =>
               \A i \in 1..Len(bytesCache) : bytesCache[i].ct # call[t].ct

(* Every cache entry maps its key to the reference answer.                *)
CacheSound ==
    /\ \A i \in 1..Len(cache) : cache[i].user = RefStr(cache[i].id)
    /\ \A i \in 1..Len(bytesCache) : bytesCache[i].user = RefBytes(bytesCache[i].ct)

(* A resolve call in progress carries the decoding of its id, and at its   *)
(* insert the reference answer for it.                                    *)
CallDecoded ==
    \A t \in Threads :
        /\ (pc[t] # "idle" /\ call[t].kind = "str") => call[t].ct = FromHex[call[t].id]
        /\ pc[t] = "insert" => call[t].user = RefStr(call[t].id)

(* A lock is held only by a thread in the middle of a call that will drop  *)
(* it: the cache lock by a resolve call (waiting for or inside             *)
(* resolve_bytes, or inserting), the bytes lock by a thread decrypting;    *)
(* every early return (hit, bad hex, failed decryption) drops its guards.  *)
GuardsHeldByCaller ==
    /\ cacheHolder # NoThread =>
           /\ pc[cacheHolder] \in {"resolve_bytes", "decrypt", "insert"}
           /\ call[cacheHolder].kind = "str"
    /\ bytesHolder # NoThread => pc[bytesHolder] = "decrypt"
    /\ \A t \in Threads :
           /\ pc[t] = "insert" => cacheHolder = t
           /\ pc[t] = "decrypt" => bytesHolder = t
           /\ (pc[t] # "idle" /\ call[t].kind = "str") => cacheHolder = t

(* The inductive invariant behind NoDuplicateKeys and ResultCorrect.       *)
KeyInv == IInv /\ GuardsHeldByCaller /\ MissPending /\ NoDuplicateKeys
CorrectInv == IInv /\ CacheSound /\ CallDecoded /\ ResultCorrect

-----------------------------------------------------------------------------
(* The scan returns 0 or an index of the sequence.                         *)
LEMMA FindInRange ==
    ASSUME NEW S, NEW s \in Seq(S), NEW f, NEW k
    PROVE  /\ FindIn(s, f, k) \in 0..Len(s)
           /\ FindIn(s, f, k) # 0 => FindIn(s, f, k) \in 1..Len(s)
BY LenProperties DEF FindIn

(* Evicting and pushing an element of S keeps a sequence over S, and keeps *)
(* its length at most MAX_CACHE_ENTRIES + 1.                              *)
LEMMA EvictAndPushProps ==
    ASSUME NEW S, NEW s \in Seq(S), NEW e \in S
    PROVE  /\ EvictAndPush(s, e) \in Seq(S)
           /\ Len(s) <= MAX_CACHE_ENTRIES + 1 => Len(EvictAndPush(s, e)) <= MAX_CACHE_ENTRIES + 1
<1>1. CASE Len(s) > MAX_CACHE_ENTRIES
  <2>1. s # << >>
    BY <1>1, ResolverAssumption, EmptySeq
  <2>2. Tail(s) \in Seq(S) /\ Len(Tail(s)) = Len(s) - 1
    BY <2>1, HeadTailProperties
  <2>3. Len(Append(Tail(s), e)) = Len(s) /\ Append(Tail(s), e) \in Seq(S)
    BY <2>2, AppendProperties
  <2> QED
    BY <1>1, <2>3 DEF EvictAndPush
<1>2. CASE ~(Len(s) > MAX_CACHE_ENTRIES)
  <2>1. Len(Append(s, e)) = Len(s) + 1 /\ Append(s, e) \in Seq(S)
    BY AppendProperties
  <2> QED
    BY <1>2, <2>1, ResolverAssumption, LenProperties DEF EvictAndPush
<1> QED
  BY <1>1, <1>2

(* A call record of kind "str" is a record of the resolve kind.            *)
LEMMA StrCall ==
    ASSUME NEW c \in Call, c.kind = "str"
    PROVE  c \in [kind : {"str"}, id : OpaqueIds, ct : Ciphertexts, user : Users \cup {NoUser}]
BY DEF Call

-----------------------------------------------------------------------------
LEMMA InitIInv == Init => IInv
<1> SUFFICES ASSUME Init PROVE IInv
  OBVIOUS
<1>1. (CHOOSE c \in Ciphertexts : TRUE) \in Ciphertexts
  BY ResolverAssumption
<1>2. << >> \in Seq(CacheEntry) /\ << >> \in Seq(BytesEntry)
  BY EmptySeq
<1>3. [kind |-> "bytes", ct |-> CHOOSE c \in Ciphertexts : TRUE] \in Call
  BY <1>1 DEF Call
<1>4. [kind |-> "none"] \in Return
  BY DEF Return
<1>5. call \in [Threads -> Call]
  BY <1>3 DEF Init
<1>6. returned \in [Threads -> Return] /\ pc \in [Threads -> PCs]
  BY <1>4 DEF Init, PCs
<1>7. cache \in Seq(CacheEntry) /\ bytesCache \in Seq(BytesEntry)
  BY <1>2 DEF Init
<1>8. panics \in 0..MaxPanics
  BY ResolverAssumption DEF Init
<1>9. TypeOK
  BY <1>5, <1>6, <1>7, <1>8, ResolverAssumption DEF Init, TypeOK
<1> QED
  BY <1>9, ResolverAssumption DEF Init, IInv, InsertHasUser, CacheBound

LEMMA NextIInv == IInv /\ [Next]_vars => IInv'
<1> SUFFICES ASSUME IInv, [Next]_vars PROVE IInv'
  OBVIOUS
<1> USE ResolverAssumption DEF IInv, TypeOK
<1>a. cache \in Seq(CacheEntry) /\ bytesCache \in Seq(BytesEntry)
  OBVIOUS
(* The records a call may return. *)
<1>r. /\ \A id \in OpaqueIds, u \in Users \cup {NoUser} :
             [kind |-> "str", id |-> id, res |-> u] \in Return
      /\ \A ct \in Ciphertexts, u \in Users \cup {NoUser} :
             [kind |-> "bytes", ct |-> ct, res |-> u] \in Return
  BY DEF Return
(* What ReturnFromBytes leaves for a thread t in a call, for any answer u. *)
<1>f. ASSUME NEW t \in Threads, NEW u \in Users \cup {NoUser}, ReturnFromBytes(t, u),
             pc[t] \in {"resolve_bytes", "decrypt"}
      PROVE  /\ pc' \in [Threads -> PCs]
             /\ call' \in [Threads -> Call]
             /\ returned' \in [Threads -> Return]
             /\ cacheHolder' \in Threads \cup {NoThread}
             /\ InsertHasUser'
  <2>1. CASE call[t].kind = "bytes"
    <3>1. /\ pc' = [pc EXCEPT ![t] = "idle"]
          /\ returned' = [returned EXCEPT ![t] = [kind |-> "bytes", ct |-> call[t].ct, res |-> u]]
          /\ UNCHANGED <<call, cacheHolder>>
      BY <2>1, <1>f DEF ReturnFromBytes, Finish
    <3>2. call[t].ct \in Ciphertexts
      BY DEF Call
    <3> QED
      BY <3>1, <3>2, <1>r DEF PCs, InsertHasUser
  <2>2. CASE call[t].kind = "str" /\ u = NoUser
    <3>1. call[t] \in [kind : {"str"}, id : OpaqueIds, ct : Ciphertexts, user : Users \cup {NoUser}]
      BY <2>2, StrCall
    <3>2. /\ pc' = [pc EXCEPT ![t] = "idle"]
          /\ returned' = [returned EXCEPT ![t] = [kind |-> "str", id |-> call[t].id, res |-> NoUser]]
          /\ cacheHolder' = NoThread
          /\ UNCHANGED call
      BY <2>2, <1>f DEF ReturnFromBytes, Finish, DropCacheGuard
    <3> QED
      BY <3>1, <3>2, <1>r DEF PCs, InsertHasUser
  <2>3. CASE call[t].kind = "str" /\ u # NoUser
    <3>1. call[t] \in [kind : {"str"}, id : OpaqueIds, ct : Ciphertexts, user : Users \cup {NoUser}]
      BY <2>3, StrCall
    <3>2. [call[t] EXCEPT !.user = u] \in Call
      BY <3>1 DEF Call
    <3>3. /\ pc' = [pc EXCEPT ![t] = "insert"]
          /\ call' = [call EXCEPT ![t] = [call[t] EXCEPT !.user = u]]
          /\ UNCHANGED <<returned, cacheHolder>>
      BY <2>3, <1>f DEF ReturnFromBytes
    <3>4. call' \in [Threads -> Call]
      BY <3>2, <3>3
    <3>5. call'[t].kind = "str" /\ call'[t].user \in Users
      BY <2>3, <3>1, <3>3
    <3>6. InsertHasUser'
      BY <3>3, <3>5 DEF InsertHasUser
    <3> QED
      BY <3>3, <3>4, <3>6 DEF PCs
  <2> QED
    BY <2>1, <2>2, <2>3 DEF Call
<1>1. ASSUME NEW t \in Threads, NEW id \in OpaqueIds, Resolve(t, id)
      PROVE  IInv'
  <2> DEFINE c == LockOrReset(cache, cachePoisoned)
             i == FindIn(c, "id", id)
  <2>1. c \in Seq(CacheEntry) /\ Len(c) <= MAX_CACHE_ENTRIES + 1
    BY <1>a, EmptySeq DEF LockOrReset, CacheBound
  <2>2. i # 0 => HitUser(c, i) \in Users
    <3>1. i # 0 => i \in 1..Len(c)
      BY <2>1, FindInRange
    <3>2. i # 0 => c[i] \in CacheEntry
      BY <2>1, <3>1, ElementOfSeq
    <3> QED
      BY <3>2 DEF HitUser, CacheEntry
  <2>3. /\ cache' = c
        /\ cachePoisoned' = FALSE
        /\ UNCHANGED <<bytesCache, bytesHolder, bytesPoisoned, panics>>
        /\ pc[t] = "idle"
    BY <1>1 DEF Resolve
  <2>4. CASE i # 0
    <3>1. /\ Finish(t, [kind |-> "str", id |-> id, res |-> HitUser(c, i)])
          /\ UNCHANGED <<call, cacheHolder>>
      BY <1>1, <2>4 DEF Resolve
    <3> QED
      BY <3>1, <2>1, <2>2, <2>3, <2>4, <1>r DEF Finish, PCs, InsertHasUser, CacheBound
  <2>5. CASE i = 0 /\ FromHex[id] = Invalid
    <3>1. /\ Finish(t, [kind |-> "str", id |-> id, res |-> NoUser])
          /\ UNCHANGED <<call, cacheHolder>>
      BY <1>1, <2>5 DEF Resolve
    <3> QED
      BY <3>1, <2>1, <2>3, <1>r DEF Finish, PCs, InsertHasUser, CacheBound
  <2>6. CASE i = 0 /\ FromHex[id] # Invalid
    <3>1. EnterResolveBytes(t, id)
      BY <1>1, <2>6 DEF Resolve
    <3>2. [kind |-> "str", id |-> id, ct |-> FromHex[id], user |-> NoUser] \in Call
      BY <2>6 DEF Call
    <3> QED
      BY <3>1, <3>2, <2>1, <2>3 DEF EnterResolveBytes, PCs, InsertHasUser, CacheBound
  <2> QED
    BY <2>4, <2>5, <2>6
<1>2. ASSUME NEW t \in Threads, NEW ct \in Ciphertexts, CallResolveBytes(t, ct)
      PROVE  IInv'
  BY <1>2 DEF CallResolveBytes, Call, PCs, InsertHasUser, CacheBound
<1>3. ASSUME NEW t \in Threads, ResolveBytes(t)
      PROVE  IInv'
  <2> DEFINE c == LockOrReset(bytesCache, bytesPoisoned)
             i == FindIn(c, "ct", call[t].ct)
  <2>1. c \in Seq(BytesEntry) /\ Len(c) <= MAX_CACHE_ENTRIES + 1
    BY <1>a, EmptySeq DEF LockOrReset, CacheBound
  <2>2. i # 0 => HitUser(c, i) \in Users
    <3>1. i # 0 => i \in 1..Len(c)
      BY <2>1, FindInRange
    <3>2. i # 0 => c[i] \in BytesEntry
      BY <2>1, <3>1, ElementOfSeq
    <3> QED
      BY <3>2 DEF HitUser, BytesEntry
  <2>3. CASE i # 0
    BY <1>3, <2>1, <2>2, <2>3, <1>f DEF ResolveBytes, CacheBound
  <2>4. CASE i = 0
    BY <1>3, <2>1, <2>4 DEF ResolveBytes, PCs, InsertHasUser, CacheBound
  <2> QED
    BY <2>3, <2>4
<1>4. ASSUME NEW t \in Threads, Decrypt(t)
      PROVE  IInv'
  <2> DEFINE u == DecryptUid[call[t].ct]
  <2>1. call[t].ct \in Ciphertexts
    BY DEF Call
  <2>2. u \in Users \cup {NoUser}
    BY <2>1
  <2>3. /\ CacheDecrypted(bytesCache, call[t].ct, u) \in Seq(BytesEntry)
        /\ Len(CacheDecrypted(bytesCache, call[t].ct, u)) <= MAX_CACHE_ENTRIES + 1
    <3>1. CASE u = NoUser
      BY <3>1 DEF CacheDecrypted, CacheBound
    <3>2. CASE u # NoUser
      <4>1. [ct |-> call[t].ct, user |-> u] \in BytesEntry
        BY <2>1, <2>2, <3>2 DEF BytesEntry
      <4> QED
        BY <3>2, <4>1, <1>a, EvictAndPushProps DEF CacheDecrypted, CacheBound
    <3> QED
      BY <3>1, <3>2
  <2> QED
    BY <1>4, <2>2, <2>3, <1>f DEF Decrypt, CacheBound
<1>5. ASSUME NEW t \in Threads, InsertCache(t)
      PROVE  IInv'
  <2>1. call[t] \in [kind : {"str"}, id : OpaqueIds, ct : Ciphertexts, user : Users \cup {NoUser}]
        /\ call[t].user \in Users
    BY <1>5, StrCall DEF InsertCache, InsertHasUser
  <2>2. [id |-> call[t].id, user |-> call[t].user] \in CacheEntry
    BY <2>1 DEF CacheEntry
  <2>3. /\ EvictAndPush(cache, [id |-> call[t].id, user |-> call[t].user]) \in Seq(CacheEntry)
        /\ Len(EvictAndPush(cache, [id |-> call[t].id, user |-> call[t].user])) <= MAX_CACHE_ENTRIES + 1
    BY <1>a, <2>2, EvictAndPushProps DEF CacheBound
  <2> QED
    BY <1>5, <1>r, <2>1, <2>3 DEF InsertCache, Finish, PCs, InsertHasUser, CacheBound
<1>6. ASSUME NEW t \in Threads, Panic(t)
      PROVE  IInv'
  BY <1>6 DEF Panic, Return, PCs, InsertHasUser, CacheBound
<1>7. CASE UNCHANGED vars
  BY <1>7 DEF vars, InsertHasUser, CacheBound
<1> QED
  BY <1>1, <1>2, <1>3, <1>4, <1>5, <1>6, <1>7 DEF Next

(* Every reachable state has the types TypeOK states.                      *)
THEOREM TypeCorrect == Spec => []TypeOK
BY InitIInv, NextIInv, PTL DEF Spec, IInv

(* The code keeps every cache at MAX_CACHE_ENTRIES + 1 entries or fewer,   *)
(* whatever the value of MAX_CACHE_ENTRIES, the threads, and the panics.   *)
THEOREM CacheBounded == Spec => []CacheBound
BY InitIInv, NextIInv, PTL DEF Spec, IInv

=============================================================================
