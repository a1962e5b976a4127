---------------------------- MODULE GroupCallDemo ----------------------------
(***************************************************************************)
(* The demo group call client (src/src/rust/src/bin/group_call.rs).  The   *)
(* group call client's thread calls the Observer: handle_remote_devices_  *)
(* changed replaces the remote device list under its mutex, on_video_frame *)
(* records a frame's metadata under another mutex, and                     *)
(* send_signaling_message_to_group is unimplemented!() and panics, which   *)
(* ends that thread.  The main thread loops forever: it flips the request  *)
(* size, copies the demux ids of the remote devices while holding the      *)
(* mutex, logs the frames seen, calls request_video and sleeps.            *)
(* Devices are their demux ids; frame metadata, widths and logging are     *)
(* left out.                                                               *)
(***************************************************************************)
EXTENDS Naturals, Sequences

CONSTANTS
    DemuxIds,     \* demux ids of remote devices
    Rosters,      \* remote device lists the client may report
    MaxChanges    \* bound on handle_remote_devices_changed calls

ASSUME DemoAssumption ==
    /\ Rosters \subseteq Seq(DemuxIds)
    /\ <<>> \in Rosters
    /\ MaxChanges \in Nat

VARIABLES
    devices,     \* Observer.remote_devices
    holder,      \* holder of the remote_devices mutex across steps: "none" or "main"
    frames,      \* the demux ids in last_frame_metadata_by_demux_id
    clientUp,    \* the client's thread has not panicked
    changes,     \* handle_remote_devices_changed calls so far
    mpc,         \* the main loop: "size", "copy" (holding the mutex), "request"
    bigNext,     \* request_big_next_time
    height,      \* the height chosen for this round
    requests,    \* the demux ids copied so far this round
    atLock,      \* ghost: the device list when main took the mutex
    lastSent     \* the last request_video call: [ids, height]

vars == <<devices, holder, frames, clientUp, changes, mpc, bigNext, height,
          requests, atLock, lastSent>>

Init ==
    /\ devices = <<>>
    /\ holder = "none"
    /\ frames = {}
    /\ clientUp = TRUE
    /\ changes = 0
    /\ mpc = "size"
    /\ bigNext = TRUE
    /\ height = 0
    /\ requests = <<>>
    /\ atLock = <<>>
    /\ lastSent = [ids |-> <<>>, height |-> 0]

-----------------------------------------------------------------------------
(* handle_remote_devices_changed: `*self.remote_devices.lock().unwrap() =  *)
(* remote_devices.to_vec()`, the lock held only for the assignment.        *)
HandleRemoteDevicesChanged(r) ==
    /\ clientUp
    /\ changes < MaxChanges
    /\ holder = "none"
    /\ devices' = r
    /\ changes' = changes + 1
    /\ UNCHANGED <<holder, frames, clientUp, mpc, bigNext, height, requests,
                   atLock, lastSent>>

(* on_video_frame: insert the frame's metadata under the demux id; entries *)
(* are never removed.                                                      *)
OnVideoFrame(d) ==
    /\ clientUp
    /\ frames' = frames \cup {d}
    /\ UNCHANGED <<devices, holder, clientUp, changes, mpc, bigNext, height,
                   requests, atLock, lastSent>>

(* send_signaling_message_to_group: unimplemented!() panics; the client's  *)
(* thread unwinds and calls the observer no more.  It holds no lock then.  *)
SendSignalingMessageToGroup ==
    /\ clientUp
    /\ clientUp' = FALSE
    /\ UNCHANGED <<devices, holder, frames, changes, mpc, bigNext, height,
                   requests, atLock, lastSent>>

-----------------------------------------------------------------------------
(* Mutant: the device list is read element by element without the lock.  *)
LockDevicesUnheld ==
    /\ mpc = "size"
    /\ height' = IF bigNext THEN 10000 ELSE 1
    /\ bigNext' = ~bigNext
    /\ requests' = <<>>
    /\ atLock' = devices
    /\ mpc' = "copy"
    /\ UNCHANGED <<devices, holder, frames, clientUp, changes, lastSent>>

(* Lines 293-303: choose and flip the size, then lock remote_devices.      *)
LockDevices ==
    /\ mpc = "size"
    /\ holder = "none"
    /\ height' = IF bigNext THEN 10000 ELSE 1
    /\ bigNext' = ~bigNext
    /\ holder' = "main"
    /\ requests' = <<>>
    /\ atLock' = devices
    /\ mpc' = "copy"
    /\ UNCHANGED <<devices, frames, clientUp, changes, lastSent>>

\* The iterator is exhausted once n devices were mapped.
CopyDone(n) == n >= Len(devices)

(* Lines 303-311: map the next remote device to a VideoRequest.            *)
CopyDevice ==
    /\ mpc = "copy"
    /\ ~CopyDone(Len(requests))
    /\ requests' = Append(requests, devices[Len(requests) + 1])
    /\ UNCHANGED <<devices, holder, frames, clientUp, changes, mpc, bigNext,
                   height, atLock, lastSent>>

(* Line 312: collect() ends the statement and the guard is dropped.         *)
UnlockDevices ==
    /\ mpc = "copy"
    /\ CopyDone(Len(requests))
    /\ holder' = IF holder = "main" THEN "none" ELSE holder
    /\ mpc' = "request"
    /\ UNCHANGED <<devices, frames, clientUp, changes, bigNext, height, requests,
                   atLock, lastSent>>

(* Lines 313-332: log the frames seen (two separate locks of the frame     *)
(* map, only read), call request_video with the copied requests, sleep.    *)
RequestVideo ==
    /\ mpc = "request"
    /\ lastSent' = [ids |-> requests, height |-> height]
    /\ mpc' = "size"
    /\ UNCHANGED <<devices, holder, frames, clientUp, changes, bigNext, height,
                   requests, atLock>>

Next ==
    \/ \E r \in Rosters : HandleRemoteDevicesChanged(r)
    \/ \E d \in DemuxIds : OnVideoFrame(d)
    \/ SendSignalingMessageToGroup
    \/ LockDevices
    \/ CopyDevice
    \/ UnlockDevices
    \/ RequestVideo

Spec == Init /\ [][Next]_vars

-----------------------------------------------------------------------------
(* The requests the main loop copies are always a whole device list the    *)
(* client reported, the one current when main took the mutex: a roster     *)
(* change during the iteration waits for the lock, so no request batch     *)
(* mixes two rosters or misses a device of the one it read.                *)
SnapshotConsistent ==
    mpc = "request" => requests = atLock

=============================================================================
