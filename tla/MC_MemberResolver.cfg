CONSTANTS
    t1 = t1  t2 = t2
    o1 = o1  o2 = o2  o3 = o3  o4 = o4  o5 = o5
    c1 = c1  c2 = c2  c3 = c3
    u1 = u1  u2 = u2
    Invalid = Invalid
    NoUser = NoUser
    NoThread = NoThread
    Threads <- MCThreads
    OpaqueIds <- MCOpaqueIds
    Ciphertexts <- MCCiphertexts
    Users <- MCUsers
    FromHex <- MCFromHex
    DecryptUid <- MCDecryptUid
    MAX_CACHE_ENTRIES = 1
    MaxPanics = 2
SYMMETRY MCSymmetry
SPECIFICATION Spec
INVARIANTS
    TypeOK
    ResultCorrect
    NoDuplicateKeys
    CacheBound
PROPERTIES
    CacheChangesFIFO
    ImplementsSpec
