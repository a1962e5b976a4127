# Formal model of ringrtc (excerpt)

This directory holds TLA+ models of the Rust code in `src/`, the TLC runs that
check them on small instances, and TLAPS proofs of the main invariants for all
values of the constants. The inventory and `PROJECT.json` list every part of the
system and say what is modelled.

## The system and its parts

| Part | Source | Status |
|---|---|---|
| Member identity resolver (`CallLinkMemberResolver`) | `src/src/rust/src/lite/call_links/member_resolver.rs` | modelled: `MemberResolver`, abstract spec `MemberResolverSpec` |
| `CallMutex::lock_or_reset` (reset on poison) | not in `src/`; spec §4.4 | modelled from the spec inside `MemberResolver` (`LockOrReset`, `Panic`) |
| Peer connection factory: audio device lists and selection | `src/src/rust/src/webrtc/peer_connection_factory.rs` | modelled: `AudioDevices` |
| Peer connection factory: creation, ADM setup, media object constructors | same file | partly: `FactoryLifecycle` (ownership and error paths) |
| Demo group call client | `src/src/rust/src/bin/group_call.rs` | modelled: `GroupCallDemo` |
| `call_sim` driver | `src/call_sim/src/main.rs` | modelled: `CallSim` |
| Connection, call (glare) and group call state machines | not in `src/`; spec §4.1–4.3 | not modelled |
| `lib.rs` | `src/src/rust/src/lib.rs` | not modelled: module declarations only |

These parts interact as follows:
- The group call client calls the resolver whenever it decodes a roster. The roster's opaque user ids are hex strings of zkgroup `UuidCiphertext`s.
- The resolver turns each id into a `UserId`. It keeps two FIFO caches: textual id → user, and ciphertext bytes → user. Each cache sits behind its own `CallMutex`.
- `resolve` holds the textual-cache lock while it calls `resolve_bytes`, so the two locks nest.
- Several threads use one resolver.

## `MemberResolver.tla`: the resolver

**State.** Each piece of state corresponds to the code like this:

| Variable | What it models |
|---|---|
| `cache`, `bytesCache` | The two `VecDeque`s, oldest entry first. |
| `cacheHolder`, `bytesHolder` | Which thread holds each mutex (`NoThread` when the mutex is free). |
| `cachePoisoned`, `bytesPoisoned` | Whether a panic poisoned each mutex. |
| `pc[t]` | Where thread `t` is inside a call. |
| `call[t]` | The call in progress: its kind, argument and decoded values. |
| `returned[t]` | The last value the thread's call returned. |
| `panics` | How many panics have happened. |

**Abstractions.**
- Opaque ids and ciphertexts are model values.
- Hex decoding and bincode/zkgroup decryption are the constant maps `FromHex` and `DecryptUid`:
  - `FromHex` gives `Invalid` for bad hex;
  - `DecryptUid` gives `NoUser` when deserialising or decrypting fails.
- Both maps are deterministic, like the code's functions of their input.

**Actions.**

| Action | Code | What it does |
|---|---|---|
| `Resolve(t, id)` | `resolve` (lines 53–69) | Takes the cache lock, with `lock_or_reset`. Scans for `id`. Then one of: returns the hit; returns `None` on bad hex (lock released); or enters `resolve_bytes` still holding the lock (`EnterResolveBytes`). |
| `CallResolveBytes(t, ct)` | direct call of `resolve_bytes` | Starts a `resolve_bytes` call from outside `resolve`. |
| `ResolveBytes(t)` | lines 82–92 | Takes the bytes lock and scans. A hit returns at once. A miss moves to decryption. |
| `Decrypt(t)` | lines 93–110 | Decodes and decrypts. On success it evicts if `len() > MAX`, then pushes. It releases the bytes lock and returns to the caller (`ReturnFromBytes`). |
| `InsertCache(t)` | lines 71–80 | Back in `resolve`: evicts, pushes, releases the cache lock and returns the user. |
| `Panic(t)` | spec §4.4 | A panic inside decryption or insertion. It poisons every lock the thread holds. |

`Panic` has two limits:
- at most `MaxPanics` panics happen;
- a panic can only happen in the two steps that run foreign or allocating code.

The code's `?` early returns are separate disjuncts. Each one releases the guard that Rust drops at that point.

## `AudioDevices.tla`: audio device enumeration and selection

The factory asks the C++ audio device module (ADM) for its devices. It is used through `&mut self`, so only one call runs at a time. The OS may change the devices between any two ADM calls.

**State.**

| Variable | What it models |
|---|---|
| `devs[d]`, `dflt[d]`, `comm[d]` | The ADM's real devices for direction `d`, and which of them is the default and the default communications device. This is the environment, changed by `DeviceChange`. |
| `pc`, `count`, `got` | The running `get_audio_*_devices` call: its converted count and the devices pushed so far. |
| `result[d]` | What the last call returned. |
| `setRes` | What the last `set_audio_*_device` passed to the ADM. |
| `stable`, `expect` | Ghost state: whether any device changed during the running call, and the list the ADM described when it started. |

Names and unique ids are strings. The id fill-in and the Windows suffixes are the code's concatenations (`name \o "-" \o ToString(k)`).

**Actions.**

| Action | Code | What it does |
|---|---|---|
| `GetDevices` | lines 616–642 | Reads the count, which may fail. `ConvertCount` is `as u16`, plus 2 on Windows when the count is non-zero. |
| `QueryDevice` | lines 643–651 | One loop iteration. A failing query returns `Err`. The last iteration runs the post-processing (`FillIds`, `WindowsSwap`). |
| `SetDevice` | lines 680–698 | `SetIndex` is the Windows 0↔1 swap. |

The recording functions (lines 700–817) are the same code and are the `d = "recording"` instances.

**Assumptions about the ADM** (the ADM is not in this repository):
- On Windows, slots 0 and 1 come before the real devices and report the default and default communications devices. The comment at lines 626–628 says so.
- The count excludes these two slots.
- Non-empty real unique ids are distinct.

**Runs.**

`audio_devices` (pass; 817,720 states, about 10 s). The setup:
- the platform is chosen in `Init`, so both Windows and non-Windows runs are covered;
- one direction;
- up to 2 real devices, drawn from: two devices named "Mic", one of them without a unique id, and a speaker;
- one device change;
- UI indices 0..3.

It checks two properties:
- `ResultMatchesDevices`: an `Ok` list taken while nothing changed equals the ADM's list. The mutant that forgets the Windows `+2` breaks it.
- `SetSelectsShown`: selecting position `i` of the list passes the ADM the slot shown at `i`. The mutant that forgets the swap in `set` breaks it.

The generated `"<name>-<n>"` ids can equal a real unique id of another device. No run checks id uniqueness. Off Windows the doc comment at line 204 calls `unique_id` "best effort", and the comments at lines 652 and 670–671 do not promise distinct ids. The ids' formatting is kept because `FillIds` translates lines 652–661 as they are; the two properties compare whole lists and do not depend on it.

**Not reached.** The `u16` wrap of the count needs about 65,536 devices. It is modelled, but no run reaches it. `AudioDevicesProofs.tla` covers it instead (below): both properties hold for every device count whose `+ 2` stays below 2^16, and fail beyond that.

## Runs (resolver)

**`resolver_safety`** (`MC_MemberResolver.cfg`, expected to pass). The setup:
- 2 threads, with thread symmetry;
- 5 opaque ids:
  - two decode to the same ciphertext, so the bytes cache is shared;
  - one decodes to a ciphertext that fails to decrypt;
  - one is bad hex;
- `MAX_CACHE_ENTRIES = 1`, so eviction happens after two insertions;
- up to 2 panics.

The run has 916,450 distinct states and takes about 70 s. It checks:
- `TypeOK`.
- `ResultCorrect`: every value a call returns equals the reference answer `RefStr`/`RefBytes`, through hits, evictions, poison resets and concurrent misses.
- `NoDuplicateKeys`: no key is ever cached twice. This relies on `resolve` keeping its guard across `resolve_bytes`; a bytes miss racing a direct `resolve_bytes` is the interesting case.
- `CacheBound`: each cache holds at most `MAX_CACHE_ENTRIES + 1` entries.

Deadlock checking is on: every state has a step, so the nested locking never deadlocks.

**`resolver_spec_bound`** (`MC_MemberResolver_SpecBound.cfg`, expected violation). It uses one thread and no panics, and checks `CacheBoundAsSpecified`: at most `MAX_CACHE_ENTRIES` entries, as spec §3/§8 state. TLC finds a cache with `MAX + 1` entries: the code tests `len() > MAX` *before* `push_back` (lines 71 and 101). With `MAX_CACHE_ENTRIES = 16`, the caches hold 17 entries. This is the finding recorded in `PROJECT.json`.

**Why the bounds are enough.**
- With `MAX = 1`, a third distinct insertion already evicts, and the 2-entry state is reachable.
- Two threads are enough for every pair of interleavings of the two locks.
- Two panics let both mutexes be poisoned and reset in one behaviour.

**Mutants.** Each property of the passing run has a mutant of the code that breaks it, listed in `PROJECT.json`:

| Mutant | Plausible bug | Property it breaks |
|---|---|---|
| `ReturnFromBytesUserLost` | the user found by `resolve_bytes` not passed back to `resolve` | `ResultCorrect` |
| `HitUserNewest` | wrong entry returned on a hit | `ImplementsSpec` |
| `EvictAndPushPopBack` | eviction pops the newest entry | `CacheChangesFIFO` |
| `EnterResolveBytesUnlocked` | guard dropped before decrypting | `NoDuplicateKeys` |
| `EvictAndPushLate` | eviction test off by one more | `CacheBound` |
| `CacheDecryptedAlways` | caching a failed decryption | `TypeOK` |

**Fairness.** `Spec` assumes weak fairness of `ResolveBytes`, `Decrypt` and `InsertCache` for each thread:
- once a thread holds the locks it needs, it finishes the straight-line code, and nothing in that code waits;
- `ResolveBytes` is the step of a thread that waits for the bytes lock. It is weakly fair because a thread that waits while the lock stays free is eventually scheduled.

Weak fairness does not force a thread to win a lock that other threads keep taking and releasing: `std::sync::Mutex` gives no fairness guarantee. No fairness is assumed for the environment's calls (`Resolve`, `CallResolveBytes`) or for `Panic`.

**`resolver_starvation`** (`MC_MemberResolver_Starve.cfg`, violation). It checks `LookupsComplete`: every call eventually returns. TLC finds the following lasso:
- `t2`, inside `resolve`, holds the cache lock and waits in `resolve_bytes` for the bytes lock;
- `t1` keeps calling `resolve_bytes` directly, alternating a hit and a failed decryption, and wins the bytes lock every time.

This is the `spec_gap` finding. Spec §4.4 requires later lookups to proceed, but the unfair mutex allows starvation.

**Refinement.** `MemberResolverSpec.tla` states what the resolver promises its callers. The caches and locks are gone: a call either answers at once (`Lookup`) or begins and later ends (`Begin`, `End`) with the uncached answer `Answer(a)`, or a panic cuts it short (`Abort`). `MemberResolver` maps each thread to the abstract `active[t]` with `activeBar`: an idle thread is `NoRequest`, and any other thread is running the request of its `call[t]` (`RequestOf`). A call that answers within one step is a `Lookup`.

`ImplementsSpec == Abstract!Spec` is a property of `resolver_safety`. It shows that the caches and their eviction are invisible to callers. The mutant `HitUserNewest`, which returns the wrong entry on a hit, breaks it. `CacheChangesFIFO` is an action property: each step either leaves a cache alone, pushes one entry at the back (after popping the front when full), or empties it on a poison reset. The mutant `EvictAndPushPopBack` evicts the newest entry and breaks it.

## `FactoryLifecycle.tla`: factory creation and ownership

`PeerConnectionFactory::new` (lines 423–448) builds its audio config with `AudioConfig::rffi` (lines 289–360). For the RingRtc ADM type:
- the code creates the `AudioDeviceModule` and registers the device observer;
- it wraps the ADM in an `Arc`;
- it hands one strong reference to C++ with `into_raw(adm_arc.clone())` and keeps the other in the factory's `adm` field.

C++ gives its reference back through `free_adm_cb` once it is done. The C++ factory is held through a `webrtc::Arc` owner handle. Clones of the Rust factory share that handle, and every track and peer connection takes its own reference (`Some(self.rffi.clone())`).

**State.** The model keeps only counts:
- `admRc`: the ADM's strong count;
- `pcfRc`: the C++ factory's handle count;
- the holders: `facs` factory values, `hasAdm` for their `adm` field, `cxxAdm` for C++'s reference, `objs` tracks and peer connections, `sources` video sources;
- `admState` and `pcfState`: an object is dropped when its count reaches 0.

**Actions.**

| Action | Code |
|---|---|
| `New` | Every outcome of `new`, as disjuncts. `RffiErr` covers the File ADM without files (line 302) and the `?` on the observer (line 314). A failed `AudioDeviceModule::new` gives a null ADM. A null C++ factory is `Err` (lines 438–440); there the Rust reference is dropped and C++'s stays with C++. |
| `CloneFactory`, `DropFactory` | `#[derive(Clone)]` and the drop of a value, with its `adm` field (`DropAdmRef`). |
| `CreateObject`, `CreateVideoSource` | The `create_*` constructors, each with its null → `Err` path (`last`). |
| `DropObject`, `DropSource`, `CxxFreeAdm` | Drops of tracks and sources (`media.rs`, not in `src/`), and C++'s `free_adm_cb`. These are modelled from the comment at lines 318–323 and are marked `spec_modelled` in the map. |

**Fairness.** None. Drops are the program's choice. Whether C++ calls `free_adm_cb` is decided outside the repository, so `CxxFreeAdm` is allowed and never forced. The properties are all safety properties.

**`factory_lifecycle`** (pass; 206 states, up to 5 live handles). There is nothing to do once everything is dropped, so deadlock checking is off. It checks:
- `AdmAliveWhileUsed`. The mutant `AdmCountShareNoClone` hands C++ a pointer with no reference of its own, and breaks it.
- `FactoryOutlivesObjects`. The mutant `HoldFactoryNone` builds a track without its own factory reference, and breaks it.

That each count equals its holders (`RefCountsMatchHolders`) is not a run: Rust drops the `adm` field and the handles by itself, so no plausible code change breaks it without breaking one of the two above. It is part of the inductive invariant and is proved (below).

Five handles are enough for every order of clone, create and drop: two factory values, a source and a video track, plus one more.

## `GroupCallDemo.tla`: the demo client

The client's thread calls the observer:
- `handle_remote_devices_changed` replaces the device list under its mutex;
- `on_video_frame` records a frame under another mutex;
- `send_signaling_message_to_group` is `unimplemented!()`, so the client thread panics and stops calling.

The main loop (lines 273–333) runs these steps:
1. flips the request size (`LockDevices`);
2. copies the demux ids while holding the mutex, one device per step (`CopyDevice`);
3. drops the guard (`UnlockDevices`);
4. calls `request_video` (`RequestVideo`).

Devices are their demux ids. Frame metadata and logging are left out.

**Fairness.** None: the one property is a safety property.

**`demo_requests`** (pass; 15,168 states). The setup has 3 demux ids, 5 rosters (including two orders of the same devices) and at most 3 roster changes. It checks:
- `SnapshotConsistent`: the requests sent are always a whole roster, the one current when the lock was taken. The mutant `LockDevicesUnheld` reads the list without the lock, and breaks it.

## `CallSim.tla`: the simulator's driver

`main()` (lines 776–857) runs these steps:
1. sets up the working directory;
2. optionally builds images and cleans containers (`Setup`);
3. loads client profiles; a bad profile file panics;
4. for each requested test set: strips the `group_` prefix, calls `Test::new` and dispatches on the set's name (an unknown name panics);
5. runs the set's steps (`SetStep`) and then its report (`Report`).

Every `?` is a `Fail` disjunct that ends `main` with `Err`. The ten test-set functions are their tables of groups, test-case names and network profiles. The names built with `format!` are built with the same concatenation. `test.rs`, `docker.rs` and the analysis tools are not in `src/`: each of their calls is one step that succeeds or fails.

**`callsim_driver`** (pass; 3,644 states). The inputs are argument lists of length 0 to 2, drawn from five arguments: `minimal_example` plain and with the `group_` prefix, `ptime_analysis`, `baseline_over_all_profiles` and an unknown name. It checks:
- `OkReportsEveryRequest`: when `main` returns `Ok`, every requested set was reported once, in order, under its call type. The mutant `CallTypeOfDirect` ignores the prefix, and breaks it.
- `ReportFollowsAllSteps`: a set is reported only right after its `Test::new` and all of its steps. The mutant `SetDoneEarly` reports one step early, and breaks it.

**`callsim_unique_cases`** (violation). It checks `UniqueCaseNames`, the promise of the comment at lines 439–442. `run_ptime_analysis` passes the same `ptime_*` cases to both of its groups (lines 474 and 492). This is a finding.

## Proofs (`MemberResolverProofs.tla`)

Two theorems are proved:
- `TypeCorrect == Spec => []TypeOK`;
- `CacheBounded == Spec => []CacheBound`.

Both hold for every set of threads, ids and ciphertexts, every `MAX_CACHE_ENTRIES \in Nat` and every panic bound. They use only `ResolverAssumption`.

**Why `TypeOK` needs strengthening.** `TypeOK` alone is not inductive: `InsertCache` pushes `call[t].user`, which `TypeOK` allows to be `NoUser`. The inductive invariant is

    IInv == TypeOK /\ InsertHasUser /\ CacheBound

where `InsertHasUser` says that a thread at `insert` carries a real user.

**The argument.**
- `InitIInv` proves `Init => IInv`.
- `NextIInv` proves that every step preserves `IInv`. It has one step per action, with `Resolve` split by its disjuncts.
- The lemma `EvictAndPushProps` carries the arithmetic: evict-then-push keeps the length at most `MAX + 1` and keeps every element in the entry type. It is proved from `SequenceTheorems`.

## Proofs (`MemberResolverSafetyProofs.tla`)

Three theorems are proved, each for every set of threads, ids and ciphertexts, every `MAX_CACHE_ENTRIES` and every panic bound:
- `ResultsCorrect == Spec => []ResultCorrect`;
- `NoDuplicates == Spec => []NoDuplicateKeys`;
- `CachesFifo == Spec => CacheChangesFIFO`, the action property.

**`ResultCorrect` needs `CorrectInv`.** A hit returns what the cache holds, and resolve's insert returns the user that resolve_bytes gave it. So the invariant must say that both are right:

    CorrectInv == IInv /\ CacheSound /\ CallDecoded /\ ResultCorrect

- `CacheSound`: every entry maps its key to the reference answer.
- `CallDecoded`: a resolve call in progress carries `FromHex[id]`, and at its insert it holds `RefStr(id)`.

**`NoDuplicateKeys` needs `KeyInv`.** A push keeps keys distinct only if the key is still missing when the push happens. That is true only because the thread has held the guard since its scan:

    KeyInv == IInv /\ GuardsHeldByCaller /\ MissPending /\ NoDuplicateKeys

`GuardsHeldByCaller` says that each lock is held exactly by the thread in the code section that owns its guard: a `resolve` call from its scan to its insert, and a `resolve_bytes` call while it decrypts. `MissPending` says that a thread past its miss looks up a key its cache does not hold. Without `GuardsHeldByCaller` another thread could insert that key in between. It is a conjunct of the inductive invariant, not a property of its own: Rust's guards release themselves, so it says nothing beyond what `NoDuplicateKeys` needs. TLC checked both invariants on the `resolver_safety` instance before the proofs were written.

**The lemmas about the operators.**
- `FindInFound` and `FindInMiss`: what the scan returns.
- `EvictAndPushShape`: for k in 0..1, the result is s without its first k entries, followed by e.
- `EvictAndPushElems` and `EvictAndPushDistinct`: what the shape gives for elements and for distinct keys.
- `EvictAndPushFifo`: evict-then-push is a `FifoStep`. Its proof uses `SubSeqProperties` and `SeqEqual`.
- `LockOrResetProps`: the queue `lock_or_reset` hands out.

Each step lemma (`CorrectNext`, `KeyNext`, `FifoNext`) has one step per action. `ReturnFromBytes` is shared by `ResolveBytes` and `Decrypt`, so it is a separate step.

## Refinement proof (`MemberResolverRefinementProofs.tla`)

`Refinement == Spec => ImplementsSpec` proves the safety part of the refinement of `MemberResolverSpec` under `activeBar`. `MemberResolverSpec.Spec` has no fairness, so this is the whole of `ImplementsSpec`.
- `RefInit`: the initial state maps to the abstract initial state.
- `RefNext`, under `CorrectInv`, maps each step to an abstract step or a stutter:
  - a hit, or a bad hex id, in `Resolve` is a `Lookup`;
  - a miss in `Resolve`, and `CallResolveBytes`, are a `Begin`;
  - a return from resolve_bytes to the application, a `None` returned to resolve, and `InsertCache` are an `End`;
  - a miss in `ResolveBytes`, and a user handed back to resolve's insert, are stutters;
  - `Panic` is an `Abort`.
- `AnswerIsRef`: the abstract `Answer` is the code's reference answer.
- `ActiveOfCall`: what `activeBar` shows for a thread.

## Proofs (`GroupCallDemoProofs.tla`)

`RequestsAreSnapshot == Spec => []SnapshotConsistent` holds for all `DemuxIds`, `Rosters` and `MaxChanges`. It is proved from

    IInv == TypeOK /\ MainHoldsWhileCopying /\ CopyIsPrefix /\ SnapshotConsistent

- `MainHoldsWhileCopying`: main holds the mutex exactly while it copies. A roster change must wait for the mutex, so during the copy it cannot run.
- `CopyIsPrefix`: during the copy, the list is the one main locked, and what main has copied is a prefix of it.

When the iterator is exhausted, the prefix has the full length. `SeqEqual` then gives `requests = atLock`. TLC checked `IInv` as an invariant on the `demo_requests` instance (15,168 states) before the proof.

## Proofs (`AudioDevicesProofs.tla`)

The two theorems hold for all `Dirs`, `DeviceDescs`, `MaxDevices`, `MaxPlugs` and `MaxIndex`, on both platforms (`windows` is chosen in `Init`):
- `SetSelects == ASSUME CountFits PROVE Spec => []SetSelectsShown`;
- `ListsMatch == ASSUME CountFits PROVE Spec => []ResultMatchesDevices`.

**The hypothesis.** `CountFits == MaxDevices + 2 < 2^16` says the count of lines 622–633 never wraps. The proofs cannot do without it, because beyond it the properties are false on Windows:
- With 65,535 devices, `(65535 + 2) % 2^16 = 1`. The loop reads only slot 0, and there is no swap. `set_audio_*_device(0)` then passes slot 1 for a list that showed slot 0.
- With 65,534 devices, the count is 0, and the call returns an empty `Ok` list.

`AudioAssumption` also states that `"idle"` (the idle value of `pc`) is not a direction.

**The inductive invariant.**

    IInv == TypeOK /\ DefaultsInRange /\ QueryLoop /\ StableLoop /\ ResultSlots
            /\ ResultMatchesDevices /\ SetSelectsShown

- `DefaultsInRange`: the default and communications positions name real devices, so every slot the loop reads is a device entry.
- `QueryLoop`: while a call runs, slots are left to query, the k-th device pushed came from slot k − 1, and on Windows the count is not 1.
- `StableLoop`: while nothing changed, the count is `SlotCount`, `expect` is the ADM's list, and what was pushed is the ADM's first slots.
- `ResultSlots`: a returned list shows at UI position i the slot `SetIndex(i)`. `SetDevice` needs this for `SetSelectsShown`.

TLC checked `IInv` as an invariant on the `audio_devices` instance (817,720 states) before the proof was written.

**The lemmas the steps rest on.**
- `CountConverted`: under `CountFits`, `ConvertCount(AdmCount(d)) = SlotCount(d)`, and on Windows it is never 1.
- `FinishSlots`: the id fill-in and the Windows swap keep the length and put slot `SetIndex(i)` at position i.
- `QueryEntry`: every slot below the count names a real device.
- `AdmFrame`: what the ADM describes for a direction depends only on its own devices.

`ToString` appears in `FillIds` but stays opaque. No property depends on the ids it builds, only on the lengths and slots, which the lemmas establish.

`NextIInv` has one step per action, and the loop's last iteration is its own case.

## Proofs (`CallSimProofs.tla`)

`ReportsFollowSteps == Spec => []ReportFollowsAllSteps` holds for every set of command lines `Requests`.

**The inductive invariant.**

    IInv == TypeOK /\ InSet /\ ReportsKnown /\ ReportFollowsAllSteps

- `InSet`: while a set's function runs, its `Test::new` is `step` entries back from the end of the log, and after it come the steps done so far, in order. `Report` then finds exactly the block `ReportFollowsAllSteps` asks for.
- `ReportsKnown`: only a set that `main` dispatched to is reported, so its list of steps has a length.
- `TypeOK` types the log with `Event`. Its `Names` is `STRING \cup DOMAIN TestSets`, because the prover cannot show that a string literal is in `STRING`. `set` is left out of `TypeOK`: its initial value `""` is a literal the SMT backend rejects, and `InSet` types it whenever a set runs.

**The lemmas.**
- `TestSetsLen`: every test-set function has a finite list of steps.
- `FollowsKept`: appending to the log keeps every earlier report in place, because its block lies before it.
- `LogAppend`: the same fact, for the three actions that append.

TLC checked `IInv` on the `callsim_driver` instance (3,644 states) before the proof was written.

`OkReportsEveryRequest` stays with TLC. It is stated through `SelectSeq`, which `Sequences` defines by a recursive function. What that function computes on an appended log can be shown only by induction over the log, which is out of this prover's reach.

## Proofs (`FactoryLifecycleProofs.tla`)

Three theorems are proved for every `MaxHandles`:
- `RefCountsCorrect == Spec => []RefCountsMatchHolders`, which no run checks on its own (see `factory_lifecycle`);
- `AdmAlive == Spec => []AdmAliveWhileUsed`;
- `FactoryOutlives == Spec => []FactoryOutlivesObjects`.

**The inductive invariant.**

    IInv == TypeOK /\ RefCountsMatchHolders /\ LiveIffCounted /\ NothingBeforeNew

- `LiveIffCounted` says that an object is live exactly while its count is positive. `DropFactory` and `CxxFreeAdm` need it to know that the release that reaches 0 is the one that drops.
- `NothingBeforeNew` says that before `new` nobody holds anything. `New` needs it, because it sets the counts from scratch.

TLC checked `IInv` as an invariant before the proof was written. `InitIInv` and `NextIInv` prove the two induction steps, with one step per action; the `CxxFreeAdm` step is split by conjunct. Each theorem follows from `IInv` by `PTL`.

## What stays with TLC

- The one liveness question, `LookupsComplete`, whose starvation lasso TLC finds. TLAPS does not reason about `ENABLED` or fairness in this project's proofs.
- `CallSim.OkReportsEveryRequest`. It uses `SelectSeq`, a recursive function definition; see above.
- The `u16` wrap in `AudioDevices`. The proofs exclude it by `CountFits`, and no TLC instance is large enough to reach it.
- `CacheBoundAsSpecified`, `LookupsComplete` and `UniqueCaseNames`. These are the expected violations, and TLC produces their counterexamples.

Every safety invariant and action property of the passing runs of `MemberResolver`, `FactoryLifecycle` and `GroupCallDemo` is proved for all values of the constants. So are those of `AudioDevices`, under `CountFits`, and `CallSim.ReportFollowsAllSteps`.

## Plan

1. From the spec: the connection and call state machines, including glare, and group call roster reconciliation, which composes with the resolver.
2. Liveness of the resolver under weak fairness remains with TLC.

## Not modelled

- Logging and the `cache_hits` test counter.
- zkgroup cryptography: abstracted to a fixed map.
- FFI marshalling of ICE servers and proxies (`IceServer`, `ProxyInfo`): data only.
- `from_native_factory` and `injectable_network`. These are wrappers over a caller-owned C++ factory with no ADM, so they have no ownership of their own to check.
- `call_sim`'s `test.rs`, `docker.rs` and its analysis: not in `src/`, so each call is a step that succeeds or fails.
- `lib.rs`: module declarations only.
- The state machines of spec §4.1–4.3: their code is not in `src/`.
