------------------------- MODULE MemberResolverSpec -------------------------
(***************************************************************************)
(* What the member resolver promises its callers (spec section 4.4), with  *)
(* the caches and locks left out: resolve(id) and resolve_bytes(ct) behave *)
(* as the uncached lookup.  A call either answers at once, or starts and   *)
(* later ends with the uncached answer, or is cut short by a panic and     *)
(* returns nothing.  Caching is invisible to the caller.                   *)
(***************************************************************************)
CONSTANTS Threads, OpaqueIds, Ciphertexts, Users, FromHex, DecryptUid,
          Invalid, NoUser

VARIABLES
    active,    \* active[t]: the request thread t has in progress, or NoRequest
    returned   \* returned[t]: what thread t's last call returned

NoRequest == [kind |-> "none"]

Request == [kind : {"str"}, id : OpaqueIds] \cup [kind : {"bytes"}, ct : Ciphertexts]

\* The uncached answer: hex-decode, deserialize and decrypt.
Answer(a) ==
    IF a.kind = "str"
    THEN [kind |-> "str", id |-> a.id,
          res |-> IF FromHex[a.id] = Invalid THEN NoUser ELSE DecryptUid[FromHex[a.id]]]
    ELSE [kind |-> "bytes", ct |-> a.ct, res |-> DecryptUid[a.ct]]

Init ==
    /\ active = [t \in Threads |-> NoRequest]
    /\ returned = [t \in Threads |-> NoRequest]

\* A call that answers without ever letting another thread observe it.
Lookup(t, a) ==
    /\ active[t] = NoRequest
    /\ returned' = [returned EXCEPT ![t] = Answer(a)]
    /\ UNCHANGED active

Begin(t, a) ==
    /\ active[t] = NoRequest
    /\ active' = [active EXCEPT ![t] = a]
    /\ UNCHANGED returned

End(t) ==
    /\ active[t] # NoRequest
    /\ returned' = [returned EXCEPT ![t] = Answer(active[t])]
    /\ active' = [active EXCEPT ![t] = NoRequest]

\* A panic unwinds the call: it returns nothing.
Abort(t) ==
    /\ active[t] # NoRequest
    /\ returned' = [returned EXCEPT ![t] = NoRequest]
    /\ active' = [active EXCEPT ![t] = NoRequest]

Next ==
    \E t \in Threads :
        \/ \E a \in Request : Lookup(t, a) \/ Begin(t, a)
        \/ End(t)
        \/ Abort(t)

Spec == Init /\ [][Next]_<<active, returned>>
=============================================================================
