------------------- MODULE MemberResolverRefinementProofs -------------------
(***************************************************************************)
(* Proof that the resolver implements the uncached lookup of               *)
(* MemberResolverSpec under the mapping activeBar of MemberResolver: the   *)
(* initial state maps to the abstract initial state, and every step of a   *)
(* thread maps to a Lookup, Begin, End or Abort of that thread or to a     *)
(* stutter.  The step argument needs CorrectInv: a hit answers a sound     *)
(* entry, and a resolve call carries the decoding of its id.               *)
(***************************************************************************)
EXTENDS MemberResolverSafetyProofs

AVars == <<activeBar, returned>>

(* The abstract answer to a request is the reference answer of the code.   *)
LEMMA AnswerIsRef ==
    /\ \A id \in OpaqueIds :
          Abstract!Answer([kind |-> "str", id |-> id]) = [kind |-> "str", id |-> id, res |-> RefStr(id)]
    /\ \A ct \in Ciphertexts :
          Abstract!Answer([kind |-> "bytes", ct |-> ct]) = [kind |-> "bytes", ct |-> ct, res |-> RefBytes(ct)]
BY DEF Abstract!Answer, RefStr, RefBytes

(* Before any call every thread is idle with nothing returned.             *)
LEMMA RefInit == Init => Abstract!Init
BY DEF Init, Abstract!Init, activeBar, Abstract!NoRequest

(* A thread's request as seen by the abstraction: none while idle.         *)
LEMMA ActiveOfCall ==
    ASSUME TypeOK, NEW t \in Threads
    PROVE  /\ pc[t] = "idle" => activeBar[t] = Abstract!NoRequest
           /\ pc[t] # "idle" /\ call[t].kind = "str" =>
                  activeBar[t] = [kind |-> "str", id |-> call[t].id]
           /\ pc[t] # "idle" /\ call[t].kind = "bytes" =>
                  activeBar[t] = [kind |-> "bytes", ct |-> call[t].ct]
           /\ pc[t] # "idle" => activeBar[t] # Abstract!NoRequest
BY DEF activeBar, RequestOf, Abstract!NoRequest, TypeOK, Call


(* resolve_bytes returning the reference answer for its bytes ends a       *)
(* direct call, ends a resolve call on a None, and is invisible when it    *)
(* hands a user back to resolve's insert.                                  *)
LEMMA RefReturn ==
    ASSUME CorrectInv, NEW t \in Threads, NEW u, ReturnFromBytes(t, u),
           pc[t] \in {"resolve_bytes", "decrypt"},
           u = RefBytes(call[t].ct)
    PROVE  Abstract!End(t) \/ UNCHANGED AVars
<1> USE ResolverAssumption DEF CorrectInv, IInv
<1>a. /\ pc[t] # "idle" => activeBar[t] # Abstract!NoRequest
      /\ call[t].kind = "bytes" => activeBar[t] = [kind |-> "bytes", ct |-> call[t].ct]
      /\ call[t].kind = "str" => activeBar[t] = [kind |-> "str", id |-> call[t].id]
  BY ActiveOfCall
<1>1. CASE call[t].kind = "bytes"
  <2>1. /\ pc' = [pc EXCEPT ![t] = "idle"]
        /\ returned' = [returned EXCEPT ![t] = [kind |-> "bytes", ct |-> call[t].ct, res |-> u]]
        /\ UNCHANGED call
    BY <1>1 DEF ReturnFromBytes, Finish
  <2>2. call[t].ct \in Ciphertexts
    BY <1>1 DEF TypeOK, Call
  <2>3. returned' = [returned EXCEPT ![t] = Abstract!Answer(activeBar[t])]
    BY <1>1, <1>a, <2>1, <2>2, AnswerIsRef
  <2>4. activeBar' = [activeBar EXCEPT ![t] = Abstract!NoRequest]
    BY <2>1 DEF activeBar, Abstract!NoRequest, TypeOK
  <2> QED
    BY <1>a, <2>3, <2>4 DEF Abstract!End
<1>2. CASE call[t].kind = "str"
  <2>1. call[t] \in [kind : {"str"}, id : OpaqueIds, ct : Ciphertexts, user : Users \cup {NoUser}]
    BY <1>2, StrCall DEF TypeOK
  <2>2. u = RefStr(call[t].id)
    BY <1>2, <2>1, RefStrDecoded DEF CallDecoded
  <2>3. CASE u = NoUser
    <3>1. /\ pc' = [pc EXCEPT ![t] = "idle"]
          /\ returned' = [returned EXCEPT ![t] = [kind |-> "str", id |-> call[t].id, res |-> u]]
          /\ UNCHANGED call
      BY <1>2, <2>3 DEF ReturnFromBytes, Finish
    <3>2. returned' = [returned EXCEPT ![t] = Abstract!Answer(activeBar[t])]
      BY <1>2, <1>a, <2>1, <2>2, <3>1, AnswerIsRef
    <3>3. activeBar' = [activeBar EXCEPT ![t] = Abstract!NoRequest]
      BY <3>1 DEF activeBar, Abstract!NoRequest, TypeOK
    <3> QED
      BY <1>a, <3>2, <3>3 DEF Abstract!End
  <2>4. CASE u # NoUser
    <3>1. /\ pc' = [pc EXCEPT ![t] = "insert"]
          /\ call' = [call EXCEPT ![t].user = u]
          /\ UNCHANGED returned
      BY <1>2, <2>4 DEF ReturnFromBytes
    <3> QED
      BY <1>2, <2>1, <3>1 DEF activeBar, RequestOf, AVars, TypeOK
  <2> QED
    BY <2>3, <2>4
<1> QED
  BY <1>1, <1>2 DEF TypeOK, Call


(* Every step of the resolver is a step of the uncached lookup or leaves   *)
(* the calls in progress and the values returned as they were.             *)
LEMMA RefNext ==
    CorrectInv /\ [Next]_vars => [Abstract!Next]_AVars
<1> SUFFICES ASSUME CorrectInv, [Next]_vars
             PROVE  [Abstract!Next]_AVars
  OBVIOUS
<1> USE ResolverAssumption DEF CorrectInv, IInv
<1>a. cache \in Seq(CacheEntry) /\ bytesCache \in Seq(BytesEntry)
  BY DEF TypeOK
(* The abstract steps of thread t. *)
<1>s. ASSUME NEW t \in Threads
      PROVE  /\ \A a \in Abstract!Request :
                   Abstract!Lookup(t, a) \/ Abstract!Begin(t, a) => Abstract!Next
             /\ Abstract!End(t) \/ Abstract!Abort(t) => Abstract!Next
  BY DEF Abstract!Next
<1>1. ASSUME NEW t \in Threads, NEW id \in OpaqueIds, Resolve(t, id)
      PROVE  [Abstract!Next]_AVars
  <2> DEFINE c == LockOrReset(cache, cachePoisoned)
             i == FindIn(c, "id", id)
             a == [kind |-> "str", id |-> id]
  <2>0. a \in Abstract!Request
    BY DEF Abstract!Request
  <2>1. pc[t] = "idle" /\ activeBar[t] = Abstract!NoRequest
    BY <1>1, ActiveOfCall DEF Resolve
  <2>2. ASSUME NEW r, r = RefStr(id),
               pc' = [pc EXCEPT ![t] = "idle"],
               returned' = [returned EXCEPT ![t] = [kind |-> "str", id |-> id, res |-> r]],
               UNCHANGED call
        PROVE  Abstract!Lookup(t, a)
    <3>1. activeBar' = activeBar
      BY <2>1, <2>2 DEF activeBar, TypeOK
    <3> QED
      BY <2>1, <2>2, <3>1, AnswerIsRef DEF Abstract!Lookup
  <2>3. CASE i # 0
    <3>1. c \in Seq(CacheEntry) /\ \A m \in 1..Len(c) : c[m] = cache[m]
      BY <1>a, LockOrResetProps
    <3>2. i \in 1..Len(c) /\ c[i].id = id
      BY ONLY <3>1, <2>3, FindInFound
    <3>3. HitUser(c, i) = RefStr(id)
      <4>1. i \in 1..Len(cache) /\ cache[i].id = id
        BY <1>a, <3>1, <3>2, LockOrResetProps
      <4> QED
        BY <3>1, <3>2, <4>1 DEF HitUser, CacheSound
    <3>4. /\ pc' = [pc EXCEPT ![t] = "idle"]
          /\ returned' = [returned EXCEPT ![t] = [kind |-> "str", id |-> id, res |-> HitUser(c, i)]]
          /\ UNCHANGED call
      BY <1>1, <2>3 DEF Resolve, Finish
    <3> QED
      BY <1>s, <2>0, <2>2, <3>3, <3>4
  <2>4. CASE i = 0 /\ FromHex[id] = Invalid
    <3>1. /\ pc' = [pc EXCEPT ![t] = "idle"]
          /\ returned' = [returned EXCEPT ![t] = [kind |-> "str", id |-> id, res |-> NoUser]]
          /\ UNCHANGED call
      BY <1>1, <2>4 DEF Resolve, Finish
    <3>2. NoUser = RefStr(id)
      BY <2>4 DEF RefStr
    <3> QED
      BY <1>s, <2>0, <2>2, <3>1, <3>2
  <2>5. CASE i = 0 /\ FromHex[id] # Invalid
    <3>1. /\ pc' = [pc EXCEPT ![t] = "resolve_bytes"]
          /\ call' = [call EXCEPT ![t] = [kind |-> "str", id |-> id, ct |-> FromHex[id], user |-> NoUser]]
          /\ UNCHANGED returned
      BY <1>1, <2>5 DEF Resolve, EnterResolveBytes
    <3>2. activeBar' = [activeBar EXCEPT ![t] = a]
      BY <3>1 DEF activeBar, RequestOf, TypeOK
    <3>3. Abstract!Begin(t, a)
      BY <2>1, <3>1, <3>2 DEF Abstract!Begin
    <3> QED
      BY <1>s, <2>0, <3>3
  <2> QED
    BY <2>3, <2>4, <2>5
<1>2. ASSUME NEW t \in Threads, NEW ct \in Ciphertexts, CallResolveBytes(t, ct)
      PROVE  [Abstract!Next]_AVars
  <2> DEFINE a == [kind |-> "bytes", ct |-> ct]
  <2>0. a \in Abstract!Request
    BY DEF Abstract!Request
  <2>1. activeBar[t] = Abstract!NoRequest
    BY <1>2, ActiveOfCall DEF CallResolveBytes
  <2>2. activeBar' = [activeBar EXCEPT ![t] = a]
    BY <1>2 DEF CallResolveBytes, activeBar, RequestOf, TypeOK
  <2>3. Abstract!Begin(t, a)
    BY <1>2, <2>1, <2>2 DEF CallResolveBytes, Abstract!Begin
  <2> QED
    BY <1>s, <2>0, <2>3
<1>3. ASSUME NEW t \in Threads, ResolveBytes(t)
      PROVE  [Abstract!Next]_AVars
  <2> DEFINE c == LockOrReset(bytesCache, bytesPoisoned)
             i == FindIn(c, "ct", call[t].ct)
  <2>1. pc[t] = "resolve_bytes"
    BY <1>3 DEF ResolveBytes
  <2>2. CASE i # 0
    <3>1. c \in Seq(BytesEntry) /\ \A m \in 1..Len(c) : c[m] = bytesCache[m]
      BY <1>a, LockOrResetProps
    <3>2. i \in 1..Len(c) /\ c[i].ct = call[t].ct
      BY ONLY <3>1, <2>2, FindInFound
    <3>3. HitUser(c, i) = RefBytes(call[t].ct)
      <4>1. i \in 1..Len(bytesCache) /\ bytesCache[i].ct = call[t].ct
        BY <1>a, <3>1, <3>2, LockOrResetProps
      <4> QED
        BY <3>1, <3>2, <4>1 DEF HitUser, CacheSound
    <3>4. ReturnFromBytes(t, HitUser(c, i))
      BY <1>3, <2>2 DEF ResolveBytes
    <3>5. Abstract!End(t) \/ UNCHANGED AVars
      BY <2>1, <3>3, <3>4, RefReturn
    <3> QED
      BY <1>s, <3>5
  <2>3. CASE i = 0
    <3>1. /\ pc' = [pc EXCEPT ![t] = "decrypt"]
          /\ UNCHANGED <<call, returned>>
      BY <1>3, <2>3 DEF ResolveBytes
    <3> QED
      BY <2>1, <3>1 DEF activeBar, AVars, TypeOK
  <2> QED
    BY <2>2, <2>3
<1>4. ASSUME NEW t \in Threads, Decrypt(t)
      PROVE  [Abstract!Next]_AVars
  <2>1. /\ pc[t] = "decrypt"
        /\ ReturnFromBytes(t, DecryptUid[call[t].ct])
    BY <1>4 DEF Decrypt
  <2>2. Abstract!End(t) \/ UNCHANGED AVars
    BY <2>1, RefReturn DEF RefBytes
  <2> QED
    BY <1>s, <2>2
<1>5. ASSUME NEW t \in Threads, InsertCache(t)
      PROVE  [Abstract!Next]_AVars
  <2>1. /\ pc[t] = "insert"
        /\ pc' = [pc EXCEPT ![t] = "idle"]
        /\ returned' = [returned EXCEPT ![t] = [kind |-> "str", id |-> call[t].id, res |-> call[t].user]]
        /\ UNCHANGED call
    BY <1>5 DEF InsertCache, Finish
  <2>2. /\ call[t] \in [kind : {"str"}, id : OpaqueIds, ct : Ciphertexts, user : Users \cup {NoUser}]
        /\ call[t].user = RefStr(call[t].id)
    BY <2>1, StrCall DEF InsertHasUser, CallDecoded, TypeOK
  <2>3. activeBar[t] = [kind |-> "str", id |-> call[t].id] /\ activeBar[t] # Abstract!NoRequest
    BY <2>1, <2>2, ActiveOfCall
  <2>4. returned' = [returned EXCEPT ![t] = Abstract!Answer(activeBar[t])]
    BY <2>1, <2>2, <2>3, AnswerIsRef
  <2>5. activeBar' = [activeBar EXCEPT ![t] = Abstract!NoRequest]
    BY <2>1 DEF activeBar, Abstract!NoRequest, TypeOK
  <2>6. Abstract!End(t)
    BY <2>3, <2>4, <2>5 DEF Abstract!End
  <2> QED
    BY <1>s, <2>6
<1>6. ASSUME NEW t \in Threads, Panic(t)
      PROVE  [Abstract!Next]_AVars
  <2>1. /\ pc[t] \in {"decrypt", "insert"}
        /\ pc' = [pc EXCEPT ![t] = "idle"]
        /\ returned' = [returned EXCEPT ![t] = [kind |-> "none"]]
        /\ UNCHANGED call
    BY <1>6 DEF Panic
  <2>2. activeBar[t] # Abstract!NoRequest
    BY <2>1, ActiveOfCall
  <2>3. activeBar' = [activeBar EXCEPT ![t] = Abstract!NoRequest]
    BY <2>1 DEF activeBar, Abstract!NoRequest, TypeOK
  <2>4. Abstract!Abort(t)
    BY <2>1, <2>2, <2>3 DEF Abstract!Abort, Abstract!NoRequest
  <2> QED
    BY <1>s, <2>4
<1>7. CASE UNCHANGED vars
  BY <1>7 DEF vars, activeBar, AVars
<1>8. CASE Next
  <2>1. PICK t \in Threads :
          \/ \E id \in OpaqueIds : Resolve(t, id)
          \/ \E ct \in Ciphertexts : CallResolveBytes(t, ct)
          \/ ResolveBytes(t)
          \/ Decrypt(t)
          \/ InsertCache(t)
          \/ Panic(t)
    BY <1>8 DEF Next
  <2> QED
    BY <2>1, <1>1, <1>2, <1>3, <1>4, <1>5, <1>6
<1> QED
  BY <1>7, <1>8

(* The resolver, with its two caches, nested locks, evictions and poison   *)
(* resets, implements the uncached lookup of MemberResolverSpec: every     *)
(* call of resolve or resolve_bytes answers what the lookup without a      *)
(* cache answers, or is cut short by a panic (member_resolver.rs 53-110).  *)
THEOREM Refinement == Spec => ImplementsSpec
<1>1. Spec => []CorrectInv
  BY CorrectInit, CorrectNext, PTL DEF Spec
<1> QED
  BY <1>1, RefInit, RefNext, PTL DEF Spec, ImplementsSpec, Abstract!Spec, AVars

====
