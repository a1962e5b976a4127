--------------------------- MODULE FactoryLifecycle ---------------------------
(***************************************************************************)
(* Ownership of the audio device module (ADM) and of the C++ peer          *)
(* connection factory (src/src/rust/src/webrtc/peer_connection_factory.rs) *)
(* for the native, non-sim build.                                         *)
(*                                                                         *)
(* PeerConnectionFactory::new builds the ADM in AudioConfig::rffi, wraps   *)
(* it in an Arc, hands one strong reference to C++ with into_raw(clone())  *)
(* and keeps the other in the factory's `adm` field; then it creates the   *)
(* C++ factory, whose owner handle (a webrtc::Arc) the Rust factory holds. *)
(* Clones of the Rust factory share both; every track and peer connection  *)
(* holds its own reference to the C++ factory.  The C++ layer returns its  *)
(* ADM reference through free_adm_cb (decrement_adm_ref_count) once it is  *)
(* done with the ADM (comment at lines 318-323); that layer is not in the  *)
(* repository and is the environment here.                                 *)
(*                                                                         *)
(* Reference counts are naturals; an object is dropped when its count      *)
(* reaches zero.                                                           *)
(***************************************************************************)
EXTENDS Naturals

CONSTANTS
    MaxHandles   \* bound on the live Rust handles (factories, tracks, sources, PCs)

ASSUME FactoryAssumption == MaxHandles \in Nat

VARIABLES
    made,       \* PeerConnectionFactory::new was called: "no", "err", "ok"
    admState,   \* the AudioDeviceModule: "none" (never built), "live", "dropped"
    admRc,      \* the strong count of its Arc
    cxxAdm,     \* C++ holds the reference made by into_raw and not yet freed
    pcfState,   \* the C++ factory: "none", "live", "destroyed"
    pcfRc,      \* the count of its owner handle
    facs,       \* live Rust PeerConnectionFactory values (the original and clones)
    hasAdm,     \* their `adm` field is Some
    objs,       \* live tracks and peer connections, each holding the factory
    sources,    \* live video sources (they hold no factory reference)
    last        \* what the last create_* call returned: "none", "ok", "err"

vars == <<made, admState, admRc, cxxAdm, pcfState, pcfRc, facs, hasAdm, objs, sources, last>>

Handles == facs + objs + sources

Init ==
    /\ made = "no"
    /\ admState = "none" /\ admRc = 0 /\ cxxAdm = FALSE
    /\ pcfState = "none" /\ pcfRc = 0
    /\ facs = 0 /\ hasAdm = FALSE /\ objs = 0 /\ sources = 0
    /\ last = "none"

\* Dropping one strong reference: the object is dropped with the last one.
Release(rc) == rc - 1
StateAfter(rc, live, gone) == IF rc = 0 THEN gone ELSE live

-----------------------------------------------------------------------------
(* Mutant: C++ is given Arc::as_ptr, which takes no reference.            *)
AdmCountShareNoClone == 1

(* Arc::new gives one reference; into_raw(adm_arc.clone()) adds C++'s.     *)
AdmCountShared == 2

(* AudioConfig::rffi returns Err: a File ADM without files (line 302), or  *)
(* the `?` on registering the device observer (line 314).                  *)
RffiErr(ringrtc, files, admOk, regOk) ==
    \/ ~ringrtc /\ ~files
    \/ ringrtc /\ admOk /\ ~regOk

(* PeerConnectionFactory::new (lines 423-448) with AudioConfig::rffi       *)
(* (lines 289-360).  ringrtc: the ADM module type is RingRtc rather than   *)
(* File; files: a file-based config was given; admOk: AudioDeviceModule::  *)
(* new succeeded (on failure the factory gets a null ADM); regOk: the      *)
(* observer, when there is one, was registered; cxxOk: Rust_create-        *)
(* PeerConnectionFactory returned non-null.  On the null return the config *)
(* wrapper, with the Rust ADM reference, is dropped; the reference given   *)
(* to C++ stays with C++.                                                  *)
New(ringrtc, files, admOk, regOk, cxxOk) ==
    /\ made = "no"
    /\ UNCHANGED <<objs, sources, last>>
    /\ \/ /\ RffiErr(ringrtc, files, admOk, regOk)
          /\ made' = "err"
          /\ UNCHANGED <<admState, admRc, cxxAdm, pcfState, pcfRc, facs, hasAdm>>
       \/ /\ ~RffiErr(ringrtc, files, admOk, regOk)
          /\ admState' = IF ringrtc /\ admOk THEN "live" ELSE "none"
          /\ cxxAdm' = (ringrtc /\ admOk)
          /\ \/ /\ cxxOk
                /\ made' = "ok"
                /\ admRc' = IF ringrtc /\ admOk THEN AdmCountShared ELSE 0
                /\ pcfState' = "live" /\ pcfRc' = 1
                /\ facs' = 1 /\ hasAdm' = (ringrtc /\ admOk)
             \/ /\ ~cxxOk
                /\ made' = "err"
                /\ admRc' = IF ringrtc /\ admOk THEN Release(AdmCountShared) ELSE 0
                /\ UNCHANGED <<pcfState, pcfRc, facs, hasAdm>>

(* #[derive(Clone)]: a clone shares the owner handle and the ADM Arc.      *)
CloneFactory ==
    /\ facs > 0 /\ Handles < MaxHandles
    /\ facs' = facs + 1
    /\ pcfRc' = pcfRc + 1
    /\ admRc' = IF hasAdm THEN admRc + 1 ELSE admRc
    /\ UNCHANGED <<made, admState, cxxAdm, pcfState, hasAdm, objs, sources, last>>

\* Dropping the `adm` field of a factory value.
DropAdmRef(rc) == IF hasAdm THEN Release(rc) ELSE rc

(* Dropping a factory value drops its owner handle and its `adm` field.   *)
DropFactory ==
    /\ facs > 0
    /\ facs' = facs - 1
    /\ pcfRc' = Release(pcfRc)
    /\ pcfState' = StateAfter(pcfRc', "live", "destroyed")
    /\ admRc' = DropAdmRef(admRc)
    /\ admState' = IF admState = "live" THEN StateAfter(admRc', "live", "dropped") ELSE admState
    /\ UNCHANGED <<made, cxxAdm, hasAdm, objs, sources, last>>

(* Mutant: the new track is built with None for its factory reference.     *)
HoldFactoryNone(rc) == rc

\* `Some(self.rffi.clone())`: the object takes its own factory reference.
HoldFactory(rc) == rc + 1

(* create_peer_connection (486-544), create_outgoing_audio_track (546-554) *)
(* and create_outgoing_video_track (567-582): a null from C++ is Err; else *)
(* the object holds a factory reference.  A video track needs a source.    *)
CreateObject(needsSource) ==
    /\ facs > 0 /\ Handles < MaxHandles
    /\ needsSource => sources > 0
    /\ \/ /\ last' = "err"                \* null: Err(CreateAudioTrack etc.)
          /\ UNCHANGED <<objs, pcfRc>>
       \/ /\ last' = "ok"
          /\ objs' = objs + 1
          /\ pcfRc' = HoldFactory(pcfRc)
    /\ UNCHANGED <<made, admState, admRc, cxxAdm, pcfState, facs, hasAdm, sources>>

\* create_outgoing_video_source (556-563): Err on null, else a source.
CreateVideoSource ==
    /\ facs > 0 /\ Handles < MaxHandles
    /\ \/ last' = "err" /\ UNCHANGED sources
       \/ last' = "ok" /\ sources' = sources + 1
    /\ UNCHANGED <<made, admState, admRc, cxxAdm, pcfState, pcfRc, facs, hasAdm, objs>>

DropObject ==
    /\ objs > 0
    /\ objs' = objs - 1
    /\ pcfRc' = Release(pcfRc)
    /\ pcfState' = StateAfter(pcfRc', "live", "destroyed")
    /\ UNCHANGED <<made, admState, admRc, cxxAdm, facs, hasAdm, sources, last>>

DropSource ==
    /\ sources > 0
    /\ sources' = sources - 1
    /\ UNCHANGED <<made, admState, admRc, cxxAdm, pcfState, pcfRc, facs, hasAdm, objs, last>>

(* The C++ layer, done with the ADM (its factory is gone, or was never     *)
(* made), calls free_adm_cb: decrement_adm_ref_count turns the raw pointer *)
(* back into an Arc and drops it.                                          *)
CxxFreeAdm ==
    /\ cxxAdm
    /\ pcfState # "live"
    /\ admRc > 0
    /\ cxxAdm' = FALSE
    /\ admRc' = Release(admRc)
    /\ admState' = StateAfter(admRc', "live", "dropped")
    /\ UNCHANGED <<made, pcfState, pcfRc, facs, hasAdm, objs, sources, last>>

Next ==
    \/ \E ringrtc, files, admOk, regOk, cxxOk \in BOOLEAN : New(ringrtc, files, admOk, regOk, cxxOk)
    \/ CloneFactory
    \/ DropFactory
    \/ \E needsSource \in BOOLEAN : CreateObject(needsSource)
    \/ CreateVideoSource
    \/ DropObject
    \/ DropSource
    \/ CxxFreeAdm

Spec == Init /\ [][Next]_vars
-----------------------------------------------------------------------------
(* The ADM is not dropped while C++ still holds the pointer into_raw gave  *)
(* it: the clone taken for C++ keeps it alive after every Rust factory     *)
(* value is gone, for as long as tracks or peer connections keep the C++   *)
(* factory, which uses the ADM, alive.                                      *)
AdmAliveWhileUsed ==
    cxxAdm => admState = "live"

(* The C++ factory is not destroyed while a Rust factory value, a track or *)
(* a peer connection made from it is alive.                                *)
FactoryOutlivesObjects ==
    facs + objs > 0 => pcfState = "live"

=============================================================================
