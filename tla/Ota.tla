---------------------------------- MODULE Ota ----------------------------------
(***************************************************************************)
(* The firmware update of one device (include/aero/ota/ota.hpp): run_ota,  *)
(* resume_ota, the durable OtaProgress and the A/B-slot device, with the   *)
(* node dying between any two steps.  The device keeps its slots and the   *)
(* Store its snapshot; the runner's memory is lost.                        *)
(*                                                                         *)
(* An image is named by its version.  Signed is the set verify_image       *)
(* accepts, Healthy the set whose activation passes the health check.      *)
(***************************************************************************)
EXTENDS Integers

CONSTANTS
    Version,       \* the firmware versions there are
    Initial,       \* the version the device runs at first
    Signed,        \* the images with a valid signature
    Healthy,       \* the versions that pass the health check
    NoVersion,     \* an empty version string
    MaxRuns,       \* bound: updates started in a behaviour
    MaxCrashes     \* bound: crashes in a behaviour

ASSUME OtaAssumption ==
    /\ Initial \in Signed \cap Healthy /\ Signed \subseteq Version /\ Healthy \subseteq Version
    /\ NoVersion \notin Version
    /\ MaxRuns \in Nat /\ MaxCrashes \in Nat

VARIABLES
    pc,        \* the runner's next step, "idle", or "crashed"
    image,     \* the image run_ota was called with
    prog,      \* DurableState<OtaProgress>::state_
    store,     \* the snapshot in the Store
    device,    \* the slots of the device
    proved,    \* history: versions that passed a health check while active
    torn,      \* history: a crash fell between a switch of slots and its record
    runs, crashes

otaVars == <<pc, image, prog, store, device, proved, torn, runs, crashes>>

Phase == {"Idle", "Fetched", "Verified", "Transferred", "DeviceVerified", "Activated",
          "HealthChecked", "Committed", "RolledBack", "Rejected", "Failed"}

(* OtaProgress; the image hash stands for the image's version.             *)
OtaProgress == [phase : Phase, image_version : Version \cup {NoVersion},
                image_hash : Version \cup {NoVersion},
                rollback_version : Version \cup {NoVersion}]

EmptyProgress == [phase |-> "Idle", image_version |-> NoVersion, image_hash |-> NoVersion,
                  rollback_version |-> NoVersion]

(* The content of a slot is what its hash is computed from: the image of a *)
(* version, or NoVersion for bytes damaged on the way.                     *)
Slots == [active : Version, active_content : Version \cup {NoVersion},
          inactive_version : Version \cup {NoVersion}, inactive_content : Version \cup {NoVersion},
          rollback_to : Version \cup {NoVersion}, rollback_content : Version \cup {NoVersion}]

OtaInit ==
    /\ pc = "idle" /\ image = NoVersion
    /\ prog = EmptyProgress /\ store = EmptyProgress
    /\ device = [active |-> Initial, active_content |-> Initial,
                 inactive_version |-> NoVersion, inactive_content |-> NoVersion,
                 rollback_to |-> NoVersion, rollback_content |-> NoVersion]
    /\ proved = {Initial}
    /\ torn = FALSE
    /\ runs = 0 /\ crashes = 0

(* set_phase: the phase is set and the whole progress checkpointed.  The   *)
(* write is taken to succeed: ota.hpp:158 and 192 ignore its result.       *)
SetPhase(p) ==
    /\ prog' = [prog EXCEPT !.phase = p]
    /\ store' = prog'

Goto(l) == pc' = l

Healthful == device.active \in Healthy /\ device.active_content = device.active

-----------------------------------------------------------------------------
(* run_ota                                                                 *)

(* recover() and step 1.                                                   *)
Fetch(v) ==
    /\ pc = "idle" /\ runs < MaxRuns
    /\ runs' = runs + 1
    /\ image' = v
    /\ prog' = [store EXCEPT !.image_version = v, !.phase = "Fetched"]
    /\ store' = prog'
    /\ Goto("verify")
    /\ UNCHANGED <<device, proved, torn, crashes>>

(* Step 2: the signature is checked before anything is sent.               *)
Reject ==
    /\ pc = "verify" /\ image \notin Signed
    /\ SetPhase("Rejected")
    /\ Goto("idle")
    /\ UNCHANGED <<image, device, proved, torn, runs, crashes>>

Verify ==
    /\ pc = "verify" /\ image \in Signed
    /\ prog' = [prog EXCEPT !.image_hash = image, !.phase = "Verified"]
    /\ store' = prog'
    /\ Goto("transfer")
    /\ UNCHANGED <<image, device, proved, torn, runs, crashes>>

(* Step 3: the inactive slot is overwritten; the bytes may be damaged.     *)
Transfer ==
    /\ pc = "transfer"
    /\ \E content \in {image, NoVersion} :
          device' = [device EXCEPT !.inactive_version = image, !.inactive_content = content]
    /\ Goto("transferred")
    /\ UNCHANGED <<image, prog, store, proved, torn, runs, crashes>>

MarkTransferred ==
    /\ pc = "transferred"
    /\ SetPhase("Transferred")
    /\ Goto("checkhash")
    /\ UNCHANGED <<image, device, proved, torn, runs, crashes>>

(* Step 4: the device's own hash against the recorded one.                 *)
HashMismatch ==
    /\ pc = "checkhash" /\ device.inactive_content # prog.image_hash
    /\ SetPhase("Failed")
    /\ Goto("idle")
    /\ UNCHANGED <<image, device, proved, torn, runs, crashes>>

(* Mutant: the device's hash is not compared.                              *)
HashUnchecked ==
    /\ pc = "checkhash"
    /\ SetPhase("DeviceVerified")
    /\ Goto("record")
    /\ UNCHANGED <<image, device, proved, torn, runs, crashes>>

HashMatches ==
    /\ pc = "checkhash" /\ device.inactive_content = prog.image_hash
    /\ SetPhase("DeviceVerified")
    /\ Goto("record")
    /\ UNCHANGED <<image, device, proved, torn, runs, crashes>>

(* Mutant: the rollback target stays in memory.                            *)
RecordRollbackVolatile ==
    /\ pc = "record"
    /\ prog' = [prog EXCEPT !.rollback_version = device.active]
    /\ Goto("activate")
    /\ UNCHANGED <<image, store, device, proved, torn, runs, crashes>>

(* Step 5: the rollback target is persisted, the slots are switched, and   *)
(* only then is the phase persisted.                                       *)
RecordRollback ==
    /\ pc = "record"
    /\ prog' = [prog EXCEPT !.rollback_version = device.active]
    /\ store' = prog'
    /\ Goto("activate")
    /\ UNCHANGED <<image, device, proved, torn, runs, crashes>>

Activate ==
    /\ pc = "activate"
    /\ device' = [device EXCEPT !.rollback_to = device.active,
                                !.rollback_content = device.active_content,
                                !.active = device.inactive_version,
                                !.active_content = device.inactive_content]
    /\ Goto("activated")
    /\ UNCHANGED <<image, prog, store, proved, torn, runs, crashes>>

MarkActivated ==
    /\ pc = "activated"
    /\ SetPhase("Activated")
    /\ Goto("healthcheck")
    /\ UNCHANGED <<image, device, proved, torn, runs, crashes>>

(* Step 6: a failed check rolls the device back.                           *)
HealthFails ==
    /\ pc \in {"healthcheck", "recheck"} /\ ~Healthful
    /\ device' = [device EXCEPT !.active = device.rollback_to,
                                !.active_content = device.rollback_content]
    /\ Goto("rolledback")
    /\ UNCHANGED <<image, prog, store, proved, torn, runs, crashes>>

MarkRolledBack ==
    /\ pc = "rolledback"
    /\ SetPhase("RolledBack")
    /\ Goto("idle")
    /\ UNCHANGED <<image, device, proved, torn, runs, crashes>>

HealthPasses ==
    /\ pc = "healthcheck" /\ Healthful
    /\ proved' = proved \cup {device.active}
    /\ SetPhase("HealthChecked")
    /\ Goto("commit")
    /\ UNCHANGED <<image, device, torn, runs, crashes>>

(* Step 7.                                                                 *)
Commit ==
    /\ pc = "commit"
    /\ SetPhase("Committed")
    /\ Goto("idle")
    /\ UNCHANGED <<image, device, proved, torn, runs, crashes>>

-----------------------------------------------------------------------------
(* The node dies and comes back; the operator calls resume_ota             *)

Crash ==
    /\ pc \notin {"idle", "crashed"} /\ crashes < MaxCrashes
    /\ crashes' = crashes + 1
    /\ prog' = EmptyProgress
    /\ image' = NoVersion
    /\ torn' = (torn \/ pc \in {"activated", "rolledback"})
    /\ Goto("crashed")
    /\ UNCHANGED <<store, device, proved, runs>>

(* Only an update found Activated is taken up; any other is for run_ota to *)
(* start again from the top.                                               *)
ResumeNothing ==
    /\ pc = "crashed" /\ store.phase # "Activated"
    /\ prog' = store
    /\ Goto("idle")
    /\ UNCHANGED <<image, store, device, proved, torn, runs, crashes>>

Resume ==
    /\ pc = "crashed" /\ store.phase = "Activated"
    /\ prog' = store
    /\ Goto("recheck")
    /\ UNCHANGED <<image, store, device, proved, torn, runs, crashes>>

ResumeCommit ==
    /\ pc = "recheck" /\ Healthful
    /\ proved' = proved \cup {device.active}
    /\ SetPhase("Committed")
    /\ Goto("idle")
    /\ UNCHANGED <<image, device, torn, runs, crashes>>

-----------------------------------------------------------------------------

Runner ==
    \/ Reject \/ Verify
    \/ Transfer \/ MarkTransferred
    \/ HashMismatch \/ HashMatches
    \/ RecordRollback \/ Activate \/ MarkActivated
    \/ HealthFails \/ MarkRolledBack \/ HealthPasses \/ Commit
    \/ ResumeNothing \/ Resume \/ ResumeCommit

OtaNext == (\E v \in Version : Fetch(v)) \/ Runner \/ Crash

OtaSpec == OtaInit /\ [][OtaNext]_otaVars

-----------------------------------------------------------------------------
(* Properties                                                              *)

(* Every variable has its type.                                            *)
OtaTypeOK ==
    /\ pc \in {"idle", "verify", "transfer", "transferred", "checkhash", "record", "activate",
               "activated", "healthcheck", "rolledback", "commit", "crashed", "recheck"}
    /\ image \in Version \cup {NoVersion}
    /\ prog \in OtaProgress /\ store \in OtaProgress
    /\ device \in Slots
    /\ proved \subseteq Version /\ torn \in BOOLEAN
    /\ runs \in Nat /\ crashes \in Nat

(* O1: whatever crashes, retries and damaged transfers happen, the device  *)
(* only ever runs an image whose signature was verified, byte for byte;    *)
(* what a slot was staged with earlier is never activated by mistake.      *)
OnlyVerifiedRuns ==
    /\ device.active \in Signed
    /\ device.active_content = device.active

(* O2: while the device runs a version that no health check has passed     *)
(* yet, the Store names a version to go back to that has passed one, and   *)
(* the device's own fallback slot is that version.                         *)
RollbackTargetProved ==
    device.active \notin proved =>
        /\ store.rollback_version \in proved
        /\ device.rollback_to = store.rollback_version

(* O2/O4, unless a crash has separated a switch of slots from its record:  *)
(* the target is in place whatever other crash happens, and when no update *)
(* is under way any more, be it finished, refused or resumed after a       *)
(* crash, the device runs a version that passed its health check and an    *)
(* update on record as Committed is the one it runs.                       *)
NeverStranded ==
    ~torn =>
        /\ RollbackTargetProved
        /\ pc = "idle" =>
              /\ device.active \in proved
              /\ store.phase = "Committed" => device.active = store.image_version

=============================================================================
