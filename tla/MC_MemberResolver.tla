------------------------- MODULE MC_MemberResolver -------------------------
(* A small instance of MemberResolver: two threads, MAX_CACHE_ENTRIES = 1  *)
(* so that eviction happens after two insertions, five opaque ids (o1 and  *)
(* o3 two hex spellings of one ciphertext, o4 hex of an undecryptable      *)
(* ciphertext, o5 not hex at all) and three ciphertexts (c3 does not       *)
(* decrypt).                                                               *)
EXTENDS MemberResolver, TLC

CONSTANTS t1, t2, o1, o2, o3, o4, o5, c1, c2, c3, u1, u2

MCThreads == {t1, t2}
MCOpaqueIds == {o1, o2, o3, o4, o5}
MCCiphertexts == {c1, c2, c3}
MCUsers == {u1, u2}
MCFromHex == (o1 :> c1) @@ (o2 :> c2) @@ (o3 :> c1) @@ (o4 :> c3) @@ (o5 :> Invalid)
MCDecryptUid == (c1 :> u1) @@ (c2 :> u2) @@ (c3 :> NoUser)
MCOneThread == {t1}
MCSymmetry == Permutations(MCThreads)

=============================================================================
