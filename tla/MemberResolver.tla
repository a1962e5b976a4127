--------------------------- MODULE MemberResolver ---------------------------
(***************************************************************************)
(* CallLinkMemberResolver (src/src/rust/src/lite/call_links/              *)
(* member_resolver.rs): turns opaque user ids into user ids, through two   *)
(* FIFO caches, each behind its own CallMutex.                             *)
(*                                                                         *)
(*   resolve(opaque_user_id)   locks `cache`, scans it, on a miss hex-     *)
(*                             decodes the id and calls resolve_bytes      *)
(*                             WHILE STILL HOLDING `cache`, then appends.  *)
(*   resolve_bytes(ciphertext) locks `bytes_cache`, scans it, on a miss    *)
(*                             deserializes and decrypts, then appends.    *)
(*                                                                         *)
(* Any number of threads call the resolver at once.  A step of a thread    *)
(* is what it does between two points where another thread can observe    *)
(* a difference: acquiring a lock, and the slow decryption done while the  *)
(* bytes lock is held.  A thread that holds a lock may panic; the lock is  *)
(* then poisoned and the next lock_or_reset empties the cache it guards.   *)
(*                                                                         *)
(* Data is abstracted: opaque ids, ciphertexts and users are model values; *)
(* hex decoding and decryption are the fixed maps FromHex and DecryptUid,  *)
(* which may fail (Invalid / NoUser) and need not be injective.            *)
(***************************************************************************)
EXTENDS Naturals, Sequences, FiniteSets

CONSTANTS
    Threads,          \* threads calling the resolver concurrently
    OpaqueIds,        \* textual (hex) opaque user ids callers pass in
    Ciphertexts,      \* raw serialized ciphertexts
    Users,            \* decrypted user ids
    FromHex,          \* Vec::from_hex: OpaqueIds -> Ciphertexts \cup {Invalid}
    DecryptUid,       \* deserialize + decrypt_uid: Ciphertexts -> Users \cup {NoUser}
    Invalid,          \* from_hex failed
    NoUser,           \* the None a lookup returns
    NoThread,         \* no thread holds the lock
    MAX_CACHE_ENTRIES,
    MaxPanics         \* bound on the panics a behaviour may contain

ASSUME ResolverAssumption ==
    /\ MAX_CACHE_ENTRIES \in Nat
    /\ MaxPanics \in Nat
    /\ FromHex \in [OpaqueIds -> Ciphertexts \cup {Invalid}]
    /\ DecryptUid \in [Ciphertexts -> Users \cup {NoUser}]
    /\ Invalid \notin Ciphertexts
    /\ NoUser \notin Users
    /\ NoThread \notin Threads
    /\ Ciphertexts # {}

VARIABLES
    cache,          \* VecDeque<OpaqueUserIdMapping>: Seq of [id, user]
    bytesCache,     \* VecDeque<BytesCacheMapping>:   Seq of [ct, user]
    cacheHolder,    \* thread holding the `cache` CallMutex, or NoThread
    bytesHolder,    \* thread holding the `bytes_cache` CallMutex, or NoThread
    cachePoisoned,  \* the `cache` mutex was poisoned by a panic
    bytesPoisoned,  \* the `bytes_cache` mutex was poisoned by a panic
    pc,             \* where each thread is
    call,           \* the call each thread is in: its kind and arguments
    returned,       \* the last value each thread's call returned
    panics          \* panics so far

vars == <<cache, bytesCache, cacheHolder, bytesHolder, cachePoisoned,
          bytesPoisoned, pc, call, returned, panics>>

(* Where a thread can be.  "resolve_bytes": entered resolve_bytes, waiting *)
(* for the bytes lock; "decrypt": holds the bytes lock after a miss;       *)
(* "insert": back in resolve with a user, holding the cache lock.          *)
PCs == {"idle", "resolve_bytes", "decrypt", "insert"}

CacheEntry == [id : OpaqueIds, user : Users]
BytesEntry == [ct : Ciphertexts, user : Users]
Call == [kind : {"str"}, id : OpaqueIds, ct : Ciphertexts,
         user : Users \cup {NoUser}]
        \cup [kind : {"bytes"}, ct : Ciphertexts]
Return == [kind : {"none"}]
          \cup [kind : {"str"}, id : OpaqueIds, res : Users \cup {NoUser}]
          \cup [kind : {"bytes"}, ct : Ciphertexts, res : Users \cup {NoUser}]

(* The reference answer: what resolve and resolve_bytes compute without    *)
(* any cache.                                                              *)
RefBytes(ct) == DecryptUid[ct]
RefStr(id) == IF FromHex[id] = Invalid THEN NoUser ELSE RefBytes(FromHex[id])

(* The index of an entry of s whose `field` is k, 0 if there is none:     *)
(* the `.iter().find(..)` of both lookups.  find returns the first match;  *)
(* no cache ever holds two entries with one key (NoDuplicateKeys), so the  *)
(* match, when there is one, is unique.                                    *)
FindIn(s, field, k) ==
    IF \E i \in 1..Len(s) : s[i][field] = k
    THEN CHOOSE i \in 1..Len(s) : s[i][field] = k
    ELSE 0

(* Mutant: a hit answers with the newest entry (back()), not the match.   *)
HitUserNewest(c, i) == c[Len(c)].user

(* A hit answers `mapping.user_id.clone()` of the entry found.             *)
HitUser(c, i) == c[i].user

(* Mutant: evicting the newest entry (pop_back) instead of the oldest.    *)
EvictAndPushPopBack(s, e) ==
    Append(IF Len(s) > MAX_CACHE_ENTRIES THEN SubSeq(s, 1, Len(s) - 1) ELSE s, e)

(* Mutant: evicting one entry too late.                                   *)
EvictAndPushLate(s, e) ==
    Append(IF Len(s) > MAX_CACHE_ENTRIES + 1 THEN Tail(s) ELSE s, e)

(* `if len() > MAX_CACHE_ENTRIES { pop_front() }; push_back(e)`.           *)
EvictAndPush(s, e) ==
    Append(IF Len(s) > MAX_CACHE_ENTRIES THEN Tail(s) ELSE s, e)

(* Mutant: a failed decryption is cached as well.                         *)
CacheDecryptedAlways(s, ct, u) == EvictAndPush(s, [ct |-> ct, user |-> u])

(* The tail of resolve_bytes: `.ok()?` returns on a failed decryption and  *)
(* leaves the cache alone, a user is pushed.                               *)
CacheDecrypted(s, ct, u) ==
    IF u = NoUser THEN s ELSE EvictAndPush(s, [ct |-> ct, user |-> u])

(* CallMutex::lock_or_reset: the guarded value, reset to empty when a      *)
(* previous holder panicked.                                               *)
LockOrReset(s, poisoned) == IF poisoned THEN <<>> ELSE s

Init ==
    /\ cache = <<>>
    /\ bytesCache = <<>>
    /\ cacheHolder = NoThread
    /\ bytesHolder = NoThread
    /\ cachePoisoned = FALSE
    /\ bytesPoisoned = FALSE
    /\ pc = [t \in Threads |-> "idle"]
    /\ call = [t \in Threads |-> [kind |-> "bytes", ct |-> CHOOSE c \in Ciphertexts : TRUE]]
    /\ returned = [t \in Threads |-> [kind |-> "none"]]
    /\ panics = 0

-----------------------------------------------------------------------------
(* Thread t's call returns r to the application.                           *)
Finish(t, r) ==
    /\ pc' = [pc EXCEPT ![t] = "idle"]
    /\ returned' = [returned EXCEPT ![t] = r]

(* resolve's `?` on a None from resolve_bytes drops the cache guard.       *)
DropCacheGuard == cacheHolder' = NoThread

(* Mutant: resolve forgets the user resolve_bytes returned.               *)
ReturnFromBytesUserLost(t, u) ==
    \/ /\ call[t].kind = "bytes"
       /\ Finish(t, [kind |-> "bytes", ct |-> call[t].ct, res |-> u])
       /\ UNCHANGED <<call, cacheHolder>>
    \/ /\ call[t].kind = "str"
       /\ u = NoUser
       /\ Finish(t, [kind |-> "str", id |-> call[t].id, res |-> NoUser])
       /\ DropCacheGuard
       /\ UNCHANGED call
    \/ /\ call[t].kind = "str"
       /\ u # NoUser
       /\ pc' = [pc EXCEPT ![t] = "insert"]
       /\ UNCHANGED <<call, returned, cacheHolder>>

(* Return u from resolve_bytes to its caller: to the application if it was *)
(* called directly, to resolve otherwise, where a None returns None and a  *)
(* user goes on to the insert.                                             *)
ReturnFromBytes(t, u) ==
    \/ /\ call[t].kind = "bytes"
       /\ Finish(t, [kind |-> "bytes", ct |-> call[t].ct, res |-> u])
       /\ UNCHANGED <<call, cacheHolder>>
    \/ /\ call[t].kind = "str"
       /\ u = NoUser
       /\ Finish(t, [kind |-> "str", id |-> call[t].id, res |-> NoUser])
       /\ DropCacheGuard
       /\ UNCHANGED call
    \/ /\ call[t].kind = "str"
       /\ u # NoUser
       /\ pc' = [pc EXCEPT ![t] = "insert"]
       /\ call' = [call EXCEPT ![t].user = u]
       /\ UNCHANGED <<returned, cacheHolder>>

(* Mutant: the cache guard is dropped before the slow resolve_bytes.      *)
EnterResolveBytesUnlocked(t, id) ==
    /\ pc' = [pc EXCEPT ![t] = "resolve_bytes"]
    /\ call' = [call EXCEPT ![t] = [kind |-> "str", id |-> id, ct |-> FromHex[id], user |-> NoUser]]
    /\ UNCHANGED <<returned, cacheHolder>>

(* resolve calls resolve_bytes on the decoded bytes, still holding the     *)
(* cache guard.                                                            *)
EnterResolveBytes(t, id) ==
    /\ cacheHolder' = t
    /\ pc' = [pc EXCEPT ![t] = "resolve_bytes"]
    /\ call' = [call EXCEPT ![t] = [kind |-> "str", id |-> id, ct |-> FromHex[id], user |-> NoUser]]
    /\ UNCHANGED returned

(* resolve(opaque_user_id), up to the call of resolve_bytes: lock (and     *)
(* reset if poisoned), scan, return a hit; on a miss decode the hex and    *)
(* return None if it is not hex, else call resolve_bytes.                  *)
Resolve(t, id) ==
    /\ pc[t] = "idle"
    /\ cacheHolder = NoThread
    /\ LET c == LockOrReset(cache, cachePoisoned)
           i == FindIn(c, "id", id)
       IN /\ cache' = c
          /\ cachePoisoned' = FALSE
          /\ \/ /\ i # 0
                /\ Finish(t, [kind |-> "str", id |-> id, res |-> HitUser(c, i)])
                /\ UNCHANGED <<call, cacheHolder>>
             \/ /\ i = 0
                /\ FromHex[id] = Invalid
                /\ Finish(t, [kind |-> "str", id |-> id, res |-> NoUser])
                /\ UNCHANGED <<call, cacheHolder>>
             \/ /\ i = 0
                /\ FromHex[id] # Invalid
                /\ EnterResolveBytes(t, id)
    /\ UNCHANGED <<bytesCache, bytesHolder, bytesPoisoned, panics>>

(* The application calls resolve_bytes(ciphertext) directly.               *)
CallResolveBytes(t, ct) ==
    /\ pc[t] = "idle"
    /\ pc' = [pc EXCEPT ![t] = "resolve_bytes"]
    /\ call' = [call EXCEPT ![t] = [kind |-> "bytes", ct |-> ct]]
    /\ UNCHANGED <<cache, bytesCache, cacheHolder, bytesHolder, cachePoisoned,
                   bytesPoisoned, returned, panics>>

(* resolve_bytes: lock (and reset if poisoned), scan, return a hit; on a   *)
(* miss keep the lock for the decryption.                                  *)
ResolveBytes(t) ==
    /\ pc[t] = "resolve_bytes"
    /\ bytesHolder = NoThread
    /\ LET c == LockOrReset(bytesCache, bytesPoisoned)
           i == FindIn(c, "ct", call[t].ct)
       IN /\ bytesCache' = c
          /\ bytesPoisoned' = FALSE
          /\ IF i # 0
             THEN /\ ReturnFromBytes(t, HitUser(c, i))
                  /\ UNCHANGED bytesHolder
             ELSE /\ bytesHolder' = t
                  /\ pc' = [pc EXCEPT ![t] = "decrypt"]
                  /\ UNCHANGED <<call, returned, cacheHolder>>
    /\ UNCHANGED <<cache, cachePoisoned, panics>>

(* resolve_bytes after a miss: deserialize and decrypt; on failure return  *)
(* None (dropping the guard); on success evict, append and return.         *)
Decrypt(t) ==
    /\ pc[t] = "decrypt"
    /\ LET u == DecryptUid[call[t].ct]
       IN /\ bytesCache' = CacheDecrypted(bytesCache, call[t].ct, u)
          /\ bytesHolder' = NoThread
          /\ ReturnFromBytes(t, u)
    /\ UNCHANGED <<cache, cachePoisoned, bytesPoisoned, panics>>

(* resolve after resolve_bytes returned a user: evict, append, unlock.     *)
InsertCache(t) ==
    /\ pc[t] = "insert"
    /\ cache' = EvictAndPush(cache, [id |-> call[t].id, user |-> call[t].user])
    /\ cacheHolder' = NoThread
    /\ Finish(t, [kind |-> "str", id |-> call[t].id, res |-> call[t].user])
    /\ UNCHANGED <<bytesCache, bytesHolder, cachePoisoned, bytesPoisoned,
                   call, panics>>

(* A running thread panics while holding one or both locks (during the     *)
(* decryption, or in resolve's insert): the unwinding drops every guard it *)
(* holds, poisoning those mutexes; the call returns nothing.               *)
Panic(t) ==
    /\ panics < MaxPanics
    /\ pc[t] \in {"decrypt", "insert"}
    /\ cachePoisoned' = (cachePoisoned \/ cacheHolder = t)
    /\ bytesPoisoned' = (bytesPoisoned \/ bytesHolder = t)
    /\ cacheHolder' = IF cacheHolder = t THEN NoThread ELSE cacheHolder
    /\ bytesHolder' = IF bytesHolder = t THEN NoThread ELSE bytesHolder
    /\ pc' = [pc EXCEPT ![t] = "idle"]
    /\ returned' = [returned EXCEPT ![t] = [kind |-> "none"]]
    /\ panics' = panics + 1
    /\ UNCHANGED <<cache, bytesCache, call>>

Next ==
    \E t \in Threads :
        \/ \E id \in OpaqueIds : Resolve(t, id)
        \/ \E ct \in Ciphertexts : CallResolveBytes(t, ct)
        \/ ResolveBytes(t)
        \/ Decrypt(t)
        \/ InsertCache(t)
        \/ Panic(t)

(* A thread that holds a lock is runnable and the scheduler eventually     *)
(* runs it: weak fairness on the steps that need no further lock.  A       *)
(* thread blocked in bytes_cache.lock_or_reset acquires the mutex if it    *)
(* stays free (weak fairness of ResolveBytes); std::sync::Mutex promises   *)
(* nothing more, so a mutex released and retaken by others again and again *)
(* may starve it.  Calls from the application are never forced.            *)
Fairness ==
    \A t \in Threads :
        /\ WF_vars(ResolveBytes(t))
        /\ WF_vars(Decrypt(t))
        /\ WF_vars(InsertCache(t))

Spec == Init /\ [][Next]_vars /\ Fairness

-----------------------------------------------------------------------------
TypeOK ==
    /\ cache \in Seq(CacheEntry)
    /\ bytesCache \in Seq(BytesEntry)
    /\ cacheHolder \in Threads \cup {NoThread}
    /\ bytesHolder \in Threads \cup {NoThread}
    /\ cachePoisoned \in BOOLEAN
    /\ bytesPoisoned \in BOOLEAN
    /\ pc \in [Threads -> PCs]
    /\ call \in [Threads -> Call]
    /\ returned \in [Threads -> Return]
    /\ panics \in 0..MaxPanics

(* Every value a call of resolve or resolve_bytes returned is the value    *)
(* the uncached lookup computes for the same argument: no interleaving of  *)
(* threads, eviction, or panic and cache reset makes a lookup return       *)
(* another user's id, or None for a resolvable id.                         *)
ResultCorrect ==
    \A t \in Threads :
        /\ returned[t].kind = "str" => returned[t].res = RefStr(returned[t].id)
        /\ returned[t].kind = "bytes" => returned[t].res = RefBytes(returned[t].ct)

(* No cache holds two entries for one key: resolve keeps the cache lock    *)
(* from its scan through the nested resolve_bytes to its push_back, and    *)
(* resolve_bytes keeps the bytes lock from its scan through decryption to  *)
(* its push_back, so two threads missing on one key cannot both insert.    *)
NoDuplicateKeys ==
    /\ \A i, j \in 1..Len(cache) : i # j => cache[i].id # cache[j].id
    /\ \A i, j \in 1..Len(bytesCache) : i # j => bytesCache[i].ct # bytesCache[j].ct

(* What the code guarantees of the size of each cache: since it evicts     *)
(* only when len() > MAX_CACHE_ENTRIES before pushing, a cache holds at    *)
(* most MAX_CACHE_ENTRIES + 1 entries.                                     *)
CacheBound ==
    /\ Len(cache) <= MAX_CACHE_ENTRIES + 1
    /\ Len(bytesCache) <= MAX_CACHE_ENTRIES + 1

(* What spec section 3 states of each cache: it holds at most              *)
(* MAX_CACHE_ENTRIES (16) entries, and after 17 distinct insertions it     *)
(* holds exactly the most recent 16 (section 8).                           *)
CacheBoundAsSpecified ==
    /\ Len(cache) <= MAX_CACHE_ENTRIES
    /\ Len(bytesCache) <= MAX_CACHE_ENTRIES

(* One step changes a cache only as a FIFO queue changes: it stays, or it  *)
(* loses at most its oldest entry and gains one entry at the back, or, in  *)
(* lock_or_reset after a panic poisoned the mutex, it is emptied.  No step *)
(* of any thread reorders entries or evicts one that is not the oldest.   *)
FifoStep(s, s2, poisoned) ==
    \/ s2 = s
    \/ poisoned /\ s2 = <<>>
    \/ \E k \in 0..1 :
          /\ k <= Len(s)
          /\ Len(s2) = Len(s) - k + 1
          /\ SubSeq(s2, 1, Len(s2) - 1) = SubSeq(s, k + 1, Len(s))

CacheChangesFIFO ==
    [][/\ FifoStep(cache, cache', cachePoisoned)
       /\ FifoStep(bytesCache, bytesCache', bytesPoisoned)]_vars

(* Every call of resolve or resolve_bytes returns, spec section 4.4 ("only *)
(* liveness of subsequent lookups" is required).  resolve holds the cache  *)
(* lock while it waits for bytes_cache (line 69 calls line 83), and the    *)
(* mutex is not fair.                                                      *)
LookupsComplete ==
    \A t \in Threads : pc[t] # "idle" ~> pc[t] = "idle"

-----------------------------------------------------------------------------
(* The refinement mapping to MemberResolverSpec: a thread inside a call    *)
(* has the request it was called with in progress; returned is returned.   *)
RequestOf(c) ==
    IF c.kind = "str" THEN [kind |-> "str", id |-> c.id]
    ELSE [kind |-> "bytes", ct |-> c.ct]

activeBar ==
    [t \in Threads |-> IF pc[t] = "idle" THEN [kind |-> "none"] ELSE RequestOf(call[t])]

Abstract == INSTANCE MemberResolverSpec WITH active <- activeBar

(* The resolver with its two caches, two nested locks, evictions and       *)
(* poison resets implements the uncached lookup: every call answers what   *)
(* the lookup without a cache computes, or is cut short by a panic.        *)
ImplementsSpec == Abstract!Spec

================================================================
