--------------------------- MODULE Firmware_proofs ----------------------------
(***************************************************************************)
(* Firmware, from one device to the fleet.  An update is safe for every    *)
(* set of versions, every signature and health verdict, and any number of  *)
(* updates and crashes: the device only runs verified images, and no crash *)
(* strands it on an unproved one unless it separated a switch of slots     *)
(* from its record.  The staged rollout is exact for every fleet, wave     *)
(* plan and threshold, and the placement of the fleet service follows its  *)
(* nodes for every set of nodes, capabilities and scores.                  *)
(***************************************************************************)
EXTENDS Ota, FleetService, FiniteSetTheorems, TLAPS

-----------------------------------------------------------------------------
(* The update of one device                                                *)

(* Between two steps the runner's progress is what the Store holds, and    *)
(* the phase on record is the one its position implies.                    *)
RecordMatches ==
    /\ pc # "crashed" => prog = store
    /\ pc = "verify" => store.phase = "Fetched"
    /\ pc \in {"transfer", "transferred"} => store.phase = "Verified"
    /\ pc = "checkhash" => store.phase = "Transferred"
    /\ pc \in {"record", "activate", "activated"} => store.phase = "DeviceVerified"
    /\ pc \in {"healthcheck", "rolledback", "recheck"} => store.phase = "Activated"
    /\ pc = "commit" => store.phase = "HealthChecked"
    /\ pc = "crashed" => store.phase # "Committed"
    /\ pc = "idle" => store.phase # "Activated"

(* What is staged in the inactive slot is the image run_ota was called     *)
(* with, and past the device's own check it is so byte for byte.           *)
Staged ==
    /\ pc \in {"verify", "transfer", "transferred", "checkhash", "record", "activate"} =>
          image \in Version /\ store.image_version = image
    /\ pc \in {"transfer", "transferred", "checkhash", "record", "activate"} =>
          image \in Signed /\ store.image_hash = image
    /\ pc \in {"transferred", "checkhash", "record", "activate"} =>
          device.inactive_version = image
    /\ pc \in {"record", "activate"} => device.inactive_content = image

(* Once an activation is under way the fallback slot holds a verified      *)
(* image, so a failed health check has somewhere to go back to.            *)
FallbackVerified ==
    pc = "activated" \/ store.phase = "Activated" =>
        device.rollback_to \in Signed /\ device.rollback_content = device.rollback_to

(* The device has switched to a version whose health check is to come.     *)
Activating == pc = "activated" \/ (store.phase = "Activated" /\ pc # "rolledback")

(* The update was put on record before the device switched to it, and its  *)
(* target of a rollback is a version that has passed its health check.     *)
TargetRecorded ==
    /\ pc = "activate" => store.rollback_version = device.active
    /\ Activating =>
          /\ device.active = store.image_version
          /\ store.rollback_version \in proved
          /\ device.rollback_to = store.rollback_version
    /\ pc = "rolledback" => device.rollback_to \in proved
    /\ pc = "commit" => device.active = store.image_version
    /\ store.phase = "Committed" => device.active = store.image_version

(* Outside an activation the device runs a version that passed its check.  *)
ProvedActive == ~Activating => device.active \in proved

(* The inductive invariant.  The last two parts need that no crash         *)
(* separated a switch of slots from its record; the others never do.       *)
OtaInv ==
    /\ OtaTypeOK
    /\ OnlyVerifiedRuns
    /\ RecordMatches /\ Staged /\ FallbackVerified
    /\ ~torn => TargetRecorded /\ ProvedActive

(* run_ota has not been called yet.                                        *)
LEMMA InitOtaInv == OtaInit => OtaInv
<1> SUFFICES ASSUME OtaInit PROVE OtaInv
  OBVIOUS
<1>1. EmptyProgress \in OtaProgress /\ EmptyProgress.phase = "Idle"
  BY DEF EmptyProgress, OtaProgress, Phase
<1>2. OtaTypeOK /\ OnlyVerifiedRuns
  BY <1>1, OtaAssumption DEF OtaInit, OtaTypeOK, OnlyVerifiedRuns, Slots
<1>3. RecordMatches /\ Staged /\ FallbackVerified
  BY <1>1 DEF OtaInit, RecordMatches, Staged, FallbackVerified
<1>4. TargetRecorded /\ ProvedActive
  BY <1>1 DEF OtaInit, TargetRecorded, ProvedActive, Activating
<1> QED BY <1>2, <1>3, <1>4 DEF OtaInv

(* Every step of the runner, and a crash between any two, keeps it.        *)
LEMMA NextPreservesOtaInv ==
    ASSUME OtaInv, [OtaNext]_otaVars
    PROVE  OtaInv'
<1> USE OtaAssumption DEF OtaInv, OtaTypeOK, OnlyVerifiedRuns, RecordMatches, Staged,
        FallbackVerified, TargetRecorded, ProvedActive, Activating, Goto, SetPhase,
        OtaProgress, Phase, Slots
<1>1. ASSUME NEW v \in Version, Fetch(v) PROVE OtaInv'
  <2>1. prog' = [store EXCEPT !.image_version = v, !.phase = "Fetched"] /\ prog' \in OtaProgress
    BY <1>1 DEF Fetch
  <2>2. OtaTypeOK' /\ OnlyVerifiedRuns'
    BY <1>1, <2>1 DEF Fetch
  <2>3. RecordMatches' /\ Staged' /\ FallbackVerified'
    BY <1>1, <2>1 DEF Fetch
  <2>4. ~torn => (TargetRecorded /\ ProvedActive)'
    BY <1>1, <2>1 DEF Fetch
  <2> QED BY <1>1, <2>2, <2>3, <2>4 DEF Fetch
<1>2. CASE Reject
  BY <1>2 DEF Reject
<1>3. CASE Verify
  BY <1>3 DEF Verify
<1>4. CASE Transfer
  <2>1. PICK content \in {image, NoVersion} :
            device' = [device EXCEPT !.inactive_version = image, !.inactive_content = content]
    BY <1>4 DEF Transfer
  <2> QED BY <1>4, <2>1 DEF Transfer
<1>5. CASE MarkTransferred
  BY <1>5 DEF MarkTransferred
<1>6. CASE HashMismatch
  BY <1>6 DEF HashMismatch
<1>7. CASE HashMatches
  BY <1>7 DEF HashMatches
<1>8. CASE RecordRollback
  BY <1>8 DEF RecordRollback
<1>9. CASE Activate
  BY <1>9 DEF Activate
<1>10. CASE MarkActivated
  BY <1>10 DEF MarkActivated
<1>11. CASE HealthFails
  BY <1>11 DEF HealthFails, Healthful
<1>12. CASE MarkRolledBack
  BY <1>12 DEF MarkRolledBack
<1>13. CASE HealthPasses
  BY <1>13 DEF HealthPasses, Healthful
<1>14. CASE Commit
  BY <1>14 DEF Commit
<1>15. CASE ResumeNothing
  BY <1>15 DEF ResumeNothing
<1>16. CASE Resume
  BY <1>16 DEF Resume
<1>17. CASE ResumeCommit
  BY <1>17 DEF ResumeCommit, Healthful
<1>18. CASE Crash
  <2>1. EmptyProgress \in OtaProgress
    BY DEF EmptyProgress
  <2>2. OtaTypeOK' /\ OnlyVerifiedRuns'
    BY <1>18, <2>1 DEF Crash
  <2>3. RecordMatches' /\ Staged' /\ FallbackVerified'
    BY <1>18 DEF Crash
  <2>4. ASSUME ~torn' PROVE (TargetRecorded /\ ProvedActive)'
    BY <1>18, <2>4 DEF Crash
  <2> QED BY <2>2, <2>3, <2>4
<1>19. CASE UNCHANGED otaVars
  BY <1>19 DEF otaVars
<1> QED BY <1>1, <1>2, <1>3, <1>4, <1>5, <1>6, <1>7, <1>8, <1>9, <1>10, <1>11, <1>12, <1>13, <1>14, <1>15, <1>16, <1>17, <1>18, <1>19 DEF OtaNext, Runner

(* The invariant holds throughout any series of updates and crashes.       *)
THEOREM OtaInvariance == OtaSpec => []OtaInv
<1>1. OtaInv /\ [OtaNext]_otaVars => OtaInv'
  BY NextPreservesOtaInv
<1> QED BY InitOtaInv, <1>1, PTL DEF OtaSpec

(* Every variable of the updater keeps its type: a rollback never switches *)
(* to an empty slot.                                                       *)
THEOREM OtaTypeCorrect == OtaSpec => []OtaTypeOK
BY OtaInvariance, PTL DEF OtaInv

(* O1: run_ota and resume_ota never let the device run an image whose      *)
(* signature and bytes were not verified, torn activations included.       *)
THEOREM VerifiedImagesOnly == OtaSpec => []OnlyVerifiedRuns
BY OtaInvariance, PTL DEF OtaInv

(* O2 and O4: unless a crash tore a switch of slots from its record, the   *)
(* way back to a proved version is on record and in the fallback slot      *)
(* while an unproved one runs, and an update that is over leaves a proved  *)
(* version active, the committed one if it was committed.                  *)
THEOREM DeviceNeverStranded == OtaSpec => []NeverStranded
<1>1. OtaInv => NeverStranded
  <2> SUFFICES ASSUME OtaInv, ~torn PROVE NeverStranded
    BY DEF NeverStranded
  <2>1. TargetRecorded /\ ProvedActive /\ RecordMatches
    BY DEF OtaInv
  <2>2. RollbackTargetProved
    BY <2>1 DEF RollbackTargetProved, TargetRecorded, ProvedActive
  <2>3. pc = "idle" => ~Activating
    BY <2>1 DEF RecordMatches, Activating
  <2> QED BY <2>1, <2>2, <2>3 DEF NeverStranded, TargetRecorded, ProvedActive
<1> QED BY <1>1, OtaInvariance, PTL

-----------------------------------------------------------------------------
(* The rollout                                                             *)

(* The waves before the one under way took the devices their sizes say.    *)
WavesCut ==
    /\ state = "Running" =>
          /\ wave = 1 => offset = 0
          /\ wave = 2 => offset = Minimum(canary, devices)
          /\ wave = 3 => offset = Minimum(canary + staged, devices)
          /\ wave = 4 => offset = devices
    /\ offset + done <= devices
    /\ state = "Running" /\ wave <= 3 => done <= Count
    /\ state # "Running" \/ wave = 4 => done = 0
    /\ state = "Completed" => offset = devices

(* The devices up to the one under way were tried once each, the others    *)
(* not at all and run an image of an earlier rollout.                      *)
TriedOnce ==
    \A d \in Device :
        /\ d <= offset + done => attempts[d] = 1
        /\ d > offset + done => attempts[d] = 0 /\ (state # "Idle" => version[d] # rollouts)

(* The devices on the image of this rollout.                               *)
OnImage == {d \in Device : version[d] = rollouts}

(* The counters: each device tried adds to one of them at most.            *)
Counted ==
    /\ updated + rolled_back <= offset + done
    /\ state # "Idle" => updated = Cardinality(OnImage)

(* Only the last wave of a paused rollout missed the threshold.            *)
PausedAtMiss == \A i \in 1..Len(passed) : ~passed[i] => state = "Paused" /\ i = Len(passed)

FleetInv == TypeOK /\ WavesCut /\ TriedOnce /\ Counted /\ PausedAtMiss

(* Facts every step starts from: the configuration is in Nat, and a wave   *)
(* takes no more devices than are left.                                    *)
WaveBounds ==
    /\ devices \in Nat /\ canary \in Nat /\ staged \in Nat /\ rollouts \in Nat
    /\ wave <= 3 => WaveSize(wave) \in Nat
    /\ wave <= 3 => Count \in Nat /\ Count <= devices - offset

LEMMA WaveFacts == TypeOK => WaveBounds
<1> SUFFICES ASSUME TypeOK PROVE WaveBounds
  OBVIOUS
<1>1. devices \in Nat /\ canary \in Nat /\ staged \in Nat /\ rollouts \in Nat
  BY FleetAssumption DEF TypeOK
<1>2. wave \in 1..4 /\ offset \in 0..devices
  BY DEF TypeOK
<1>3. wave <= 3 => WaveSize(wave) \in Nat
  <2>1. CASE wave = 1
    BY <1>1, <2>1 DEF WaveSize
  <2>2. CASE wave = 2
    BY <1>1, <2>2 DEF WaveSize
  <2>3. CASE wave = 3
    BY <1>1, <2>3 DEF WaveSize
  <2> QED BY <1>2, <2>1, <2>2, <2>3
<1>4. wave <= 3 => Count \in Nat /\ Count <= devices - offset
  BY <1>1, <1>2, <1>3 DEF Count, Minimum
<1> QED BY <1>1, <1>3, <1>4 DEF WaveBounds

(* ... in the state after a step as well.                                  *)
LEMMA WaveFactsAfter == TypeOK' => WaveBounds'
BY WaveFacts, PTL

(* No rollout has started.                                                 *)
LEMMA InitFleetInv == Init => FleetInv
<1> SUFFICES ASSUME Init PROVE FleetInv
  OBVIOUS
<1>1. TypeOK
  BY FleetAssumption DEF Init, TypeOK
<1>2. devices \in Nat
  BY <1>1, FleetAssumption DEF TypeOK
<1>3. WavesCut
  BY <1>2 DEF Init, WavesCut
<1>4. TriedOnce /\ Counted /\ PausedAtMiss
  BY <1>2 DEF Init, TriedOnce, Counted, PausedAtMiss, Device
<1> QED BY <1>1, <1>3, <1>4 DEF FleetInv

(* StartRollout: a new image, which no device runs yet.                    *)
LEMMA StartRolloutKeeps ==
    ASSUME FleetInv, StartRollout
    PROVE  FleetInv'
<1>1. TypeOK
  BY DEF FleetInv
<1>2. devices \in Nat /\ canary \in Nat /\ staged \in Nat /\ rollouts \in Nat
  BY <1>1, WaveFacts DEF WaveBounds
<1>3. Device' = Device
  BY DEF StartRollout, Device, config
<1>4. TypeOK'
  BY <1>1, <1>2, <1>3, FleetAssumption DEF StartRollout, TypeOK, config
<1>5. WavesCut'
  BY <1>2, <1>4, WaveFactsAfter DEF StartRollout, WavesCut, config, WaveBounds
<1>6. \A d \in Device : version'[d] # rollouts'
  BY <1>1, <1>2 DEF StartRollout, TypeOK
<1>7. OnImage' = {}
  BY <1>3, <1>6 DEF OnImage
<1>8. Counted'
  BY <1>7, FS_EmptySet DEF StartRollout, Counted
<1>9. TriedOnce'
  <2>1. \A d \in Device : attempts'[d] = 0 /\ ~(d <= 0)
    BY <1>2 DEF StartRollout, Device
  <2> QED BY <1>3, <1>6, <2>1 DEF StartRollout, TriedOnce
<1>10. PausedAtMiss'
  BY DEF StartRollout, PausedAtMiss
<1> QED BY <1>4, <1>5, <1>8, <1>9, <1>10 DEF FleetInv

(* run_wave: the next device is tried for the first time.                  *)
LEMMA UpdateDeviceKeeps ==
    ASSUME FleetInv, NEW result, UpdateDevice(result)
    PROVE  FleetInv'
<1> DEFINE d0 == offset + done + 1
<1>1. TypeOK /\ WavesCut /\ TriedOnce /\ Counted /\ PausedAtMiss
  BY DEF FleetInv
<1>2. /\ devices \in Nat /\ rollouts \in Nat /\ offset \in Nat /\ done \in Nat
      /\ updated \in Nat /\ rolled_back \in Nat /\ Count \in Nat
      /\ Count <= devices - offset /\ done < Count
  BY <1>1, WaveFacts DEF WaveBounds, TypeOK, UpdateDevice
<1>3. d0 \in Device /\ d0 > offset + done
  BY <1>2 DEF Device
<1>4. Device' = Device /\ Count' = Count
  BY DEF UpdateDevice, Device, config, Count, WaveSize, Minimum
<1>5. /\ attempts' = [attempts EXCEPT ![d0] = @ + 1]
      /\ version' = IF result = "Committed" THEN [version EXCEPT ![d0] = rollouts] ELSE version
      /\ offset' + done' = d0
  BY <1>2 DEF UpdateDevice
<1>6. version[d0] # rollouts /\ attempts[d0] = 0
  BY <1>1, <1>3 DEF TriedOnce, UpdateDevice
<1>7. WavesCut'
  BY <1>1, <1>2, <1>4 DEF UpdateDevice, WavesCut, config, TypeOK
<1>8. TriedOnce'
  <2> SUFFICES ASSUME NEW d \in Device
               PROVE  /\ d <= d0 => attempts'[d] = 1
                      /\ d > d0 => attempts'[d] = 0 /\ version'[d] # rollouts
    BY <1>4, <1>5 DEF TriedOnce, UpdateDevice
  <2>1. attempts \in [Device -> Nat] /\ version \in [Device -> 0..rollouts] /\ d \in Nat
    BY <1>1 DEF TypeOK, Device
  <2>2. CASE d = d0
    BY <1>2, <1>3, <1>5, <1>6, <2>1, <2>2
  <2>3. CASE d # d0
    <3>1. attempts'[d] = attempts[d] /\ version'[d] = version[d]
      BY <1>5, <2>1, <2>3
    <3> QED BY <1>1, <1>2, <2>1, <2>3, <3>1 DEF TriedOnce, UpdateDevice
  <2> QED BY <2>2, <2>3
<1>9. Counted'
  <2>1. IsFiniteSet(OnImage)
    <3>1. IsFiniteSet(Device)
      BY <1>2, FS_Interval DEF Device
    <3> QED BY <3>1, FS_Subset DEF OnImage
  <2>2. CASE result = "Committed"
    <3>1. OnImage' = OnImage \cup {d0} /\ d0 \notin OnImage
      BY <1>1, <1>3, <1>4, <1>5, <1>6, <2>2 DEF OnImage, UpdateDevice, TypeOK
    <3>2. Cardinality(OnImage') = Cardinality(OnImage) + 1
      BY <2>1, <3>1, FS_AddElement
    <3> QED BY <1>1, <1>2, <1>5, <2>2, <3>2 DEF Counted, UpdateDevice
  <2>3. CASE result # "Committed"
    <3>1. OnImage' = OnImage
      BY <1>4, <1>5, <2>3 DEF OnImage, UpdateDevice
    <3> QED BY <1>1, <1>2, <1>5, <2>3, <3>1 DEF Counted, UpdateDevice
  <2> QED BY <2>2, <2>3
<1>10. TypeOK'
  <2>1. /\ done' \in 0..devices /\ succeeded' \in 0..done'
        /\ updated' \in 0..devices /\ rolled_back' \in 0..devices
    BY <1>1, <1>2 DEF UpdateDevice, TypeOK, Counted
  <2>2. attempts' \in [Device -> Nat] /\ version' \in [Device -> 0..rollouts]
    BY <1>1, <1>2, <1>3, <1>5 DEF TypeOK
  <2> QED BY <1>1, <1>4, <2>1, <2>2 DEF UpdateDevice, TypeOK, config
<1>11. PausedAtMiss'
  BY <1>1 DEF UpdateDevice, PausedAtMiss
<1> QED BY <1>7, <1>8, <1>9, <1>10, <1>11 DEF FleetInv

(* A wave of no devices leaves the offset where the next one starts.       *)
LEMMA SkipWaveKeeps ==
    ASSUME FleetInv, SkipWave
    PROVE  FleetInv'
<1>1. TypeOK /\ WavesCut /\ TriedOnce /\ Counted /\ PausedAtMiss
  BY DEF FleetInv
<1>2. /\ devices \in Nat /\ canary \in Nat /\ staged \in Nat /\ offset \in Nat /\ done \in Nat
      /\ wave \in 1..3 /\ WaveSize(wave) \in Nat /\ Count = 0 /\ done = 0
  BY <1>1, WaveFacts DEF WaveBounds, TypeOK, SkipWave, WavesCut
<1>3. WaveSize(wave) = 0
  BY <1>2 DEF SkipWave, Count, Minimum
<1>4. TypeOK'
  BY <1>1, <1>2 DEF SkipWave, TypeOK, config, Device
<1>5. WavesCut'
  <2>1. wave' <= 3 => Count' \in Nat
    BY <1>4, WaveFactsAfter DEF WaveBounds
  <2>2. CASE wave = 1
    BY <1>1, <1>2, <1>3, <2>1, <2>2 DEF SkipWave, WavesCut, config, WaveSize, Minimum
  <2>3. CASE wave = 2
    BY <1>1, <1>2, <1>3, <2>1, <2>3 DEF SkipWave, WavesCut, config, WaveSize, Minimum
  <2>4. CASE wave = 3
    BY <1>1, <1>2, <1>3, <2>4 DEF SkipWave, WavesCut, config, WaveSize, Minimum
  <2> QED BY <1>2, <2>2, <2>3, <2>4
<1>6. TriedOnce' /\ Counted' /\ PausedAtMiss'
  BY <1>1 DEF SkipWave, TriedOnce, Counted, PausedAtMiss, Device, OnImage, config
<1> QED BY <1>4, <1>5, <1>6 DEF FleetInv

(* The end of a wave: its devices are behind the offset, and the rollout   *)
(* pauses if it missed the threshold.                                      *)
LEMMA EndWaveKeeps ==
    ASSUME FleetInv, EndWave
    PROVE  FleetInv'
<1> DEFINE ok == succeeded * ThresholdDen >= Count * ThresholdNum
<1>1. TypeOK /\ WavesCut /\ TriedOnce /\ Counted /\ PausedAtMiss
  BY DEF FleetInv
<1>2. /\ devices \in Nat /\ canary \in Nat /\ staged \in Nat /\ offset \in Nat /\ done \in Nat
      /\ wave \in 1..3 /\ WaveSize(wave) \in Nat /\ Count \in Nat
      /\ Count <= devices - offset /\ done = Count
  BY <1>1, WaveFacts DEF WaveBounds, TypeOK, EndWave
<1>3. /\ passed' = Append(passed, ok)
      /\ state = "Running" /\ state' = IF ok THEN state ELSE "Paused"
      /\ wave' = IF ok THEN wave + 1 ELSE wave
      /\ offset' = offset + Count /\ done' = 0 /\ succeeded' = 0
      /\ UNCHANGED <<devices, canary, staged, updated, rolled_back, attempts, version, rollouts>>
  BY DEF EndWave, config
<1> HIDE DEF ok
<1>4. ok \in BOOLEAN
  BY DEF ok
<1>5. TypeOK'
  BY <1>1, <1>2, <1>3, <1>4 DEF TypeOK, Device
<1>6. WavesCut'
  <2>1. wave' <= 3 => Count' \in Nat
    BY <1>5, WaveFactsAfter DEF WaveBounds
  <2>2. /\ wave = 1 => offset' = Minimum(canary, devices)
        /\ wave = 2 => offset' = Minimum(canary + staged, devices)
        /\ wave = 3 => offset' = devices
    <3>1. CASE wave = 1
      BY <1>1, <1>2, <1>3, <3>1 DEF WavesCut, WaveSize, Minimum, Count
    <3>2. CASE wave = 2
      BY <1>1, <1>2, <1>3, <3>2 DEF WavesCut, WaveSize, Minimum, Count
    <3>3. CASE wave = 3
      BY <1>1, <1>2, <1>3, <3>3 DEF WavesCut, WaveSize, Minimum, Count
    <3> QED BY <1>2, <3>1, <3>2, <3>3
  <2>3. CASE ok
    BY <1>2, <1>3, <2>1, <2>2, <2>3 DEF WavesCut, Minimum
  <2>4. CASE ~ok
    BY <1>2, <1>3, <2>4 DEF WavesCut
  <2> QED BY <2>3, <2>4
<1>7. TriedOnce' /\ Counted'
  BY <1>1, <1>2, <1>3 DEF TriedOnce, Counted, Device, OnImage
<1>8. PausedAtMiss'
  <2>1. passed \in Seq(BOOLEAN) /\ \A i \in 1..Len(passed) : passed[i]
    BY <1>1, <1>3 DEF TypeOK, PausedAtMiss
  <2> QED BY <1>3, <1>4, <2>1 DEF PausedAtMiss
<1> QED BY <1>5, <1>6, <1>7, <1>8 DEF FleetInv

(* The rollout completes behind its last device.                           *)
LEMMA CompleteKeeps ==
    ASSUME FleetInv, Complete
    PROVE  FleetInv'
<1>1. TypeOK /\ WavesCut /\ TriedOnce /\ Counted /\ PausedAtMiss
  BY DEF FleetInv
<1>2. /\ devices \in Nat /\ offset \in 0..devices /\ done \in Nat /\ wave \in 1..4
      /\ wave <= 3 => Count \in Nat /\ Count <= devices - offset
  BY <1>1, WaveFacts DEF WaveBounds, TypeOK
<1>3. offset = devices /\ done = 0
  BY <1>1, <1>2 DEF Complete, WavesCut
<1>4. TypeOK'
  BY <1>1 DEF Complete, TypeOK, config, Device
<1>5. WavesCut'
  BY <1>2, <1>3 DEF Complete, WavesCut, config
<1>6. TriedOnce' /\ Counted' /\ PausedAtMiss'
  BY <1>1 DEF Complete, TriedOnce, Counted, PausedAtMiss, Device, OnImage, config
<1> QED BY <1>4, <1>5, <1>6 DEF FleetInv

LEMMA NextPreservesFleetInv ==
    ASSUME FleetInv, [Next]_vars
    PROVE  FleetInv'
<1>1. CASE UNCHANGED vars
  BY <1>1 DEF vars, config, FleetInv, TypeOK, WavesCut, TriedOnce, Counted, PausedAtMiss,
              Device, OnImage, Count, WaveSize, Minimum
<1> QED BY <1>1, StartRolloutKeeps, UpdateDeviceKeeps, SkipWaveKeeps, EndWaveKeeps,
           CompleteKeeps DEF Next, Rollout

(* The rollout keeps its invariant whatever its updates end in.            *)
THEOREM FleetInvariance == Spec => []FleetInv
<1>1. FleetInv /\ [Next]_vars => FleetInv'
  BY NextPreservesFleetInv
<1> QED BY InitFleetInv, <1>1, PTL DEF Spec

LEMMA FleetInvExact == FleetInv => RolloutExact
<1> SUFFICES ASSUME FleetInv PROVE RolloutExact
  OBVIOUS
<1>1. TypeOK /\ WavesCut /\ TriedOnce /\ Counted /\ PausedAtMiss
  BY DEF FleetInv
<1>2. devices \in Nat /\ done \in Nat
  BY <1>1, WaveFacts DEF WaveBounds, TypeOK
<1>3. state = "Completed" => \A d \in Device : attempts[d] = 1
  BY <1>1, <1>2 DEF WavesCut, TriedOnce, Device
<1> QED BY <1>1, <1>3 DEF RolloutExact, TriedOnce, Counted, PausedAtMiss, OnImage

-----------------------------------------------------------------------------
(* The fleet service                                                       *)

(* A finite set of scores has a highest one.  (A set without one would     *)
(* have a smallest nonempty subset without one, and taking a member from   *)
(* that would leave a smaller one.)                                        *)
LEMMA HighestExists ==
    ASSUME NEW S, IsFiniteSet(S), S # {}, NEW f, \A n \in S : f[n] \in Nat
    PROVE  \E n \in S : \A m \in S : f[n] >= f[m]
<1> DEFINE HasHighest(U) == \E n \in U : \A m \in U : f[n] >= f[m]
           T == {U \in SUBSET S : U # {} /\ ~HasHighest(U)}
<1> SUFFICES ASSUME T # {} PROVE FALSE
  BY DEF T
<1>1. T \subseteq FiniteSubsetsOf(S)
  BY FS_FiniteSubsetsOfFinite
<1>2. PICK U \in T : \A V \in T : ~(<<V, U>> \in StrictSubsetOrdering(S))
  <2> HIDE DEF T
  <2> QED BY <1>1, FS_StrictSubsetOrderingWellFounded, WFMin
<1>3. PICK x \in U : TRUE
  OBVIOUS
<1>4. PICK y \in U : ~(f[x] >= f[y])
  BY <1>3
<1> DEFINE V == U \ {x}
<1>5. V \in SUBSET S /\ V # {} /\ <<V, U>> \in StrictSubsetOrdering(S)
  <2>1. y # x
    BY <1>3, <1>4
  <2> QED BY <1>3, <2>1 DEF StrictSubsetOrdering
<1>6. PICK n \in V : \A m \in V : f[n] >= f[m]
  BY <1>2, <1>5
<1>7. PICK m \in U : ~(f[n] >= f[m])
  BY <1>6
<1>8. m = x
  BY <1>6, <1>7
<1>9. y \in V /\ f[n] >= f[y]
  BY <1>3, <1>4, <1>6
<1> QED BY <1>3, <1>4, <1>6, <1>7, <1>8, <1>9

(* The devices there may be.                                               *)
AnyDevice == UNION {1..n : n \in FleetSizes}

LEMMA WinnerHighest ==
    ASSUME NEW d \in AnyDevice, NEW S, S \subseteq Node, S # {}
    PROVE  Winner(d, S) \in S /\ \A m \in S : Score[d][Winner(d, S)] >= Score[d][m]
<1>1. IsFiniteSet(S)
  BY ServiceAssumption, FS_Subset
<1>2. \A n \in S : Score[d][n] \in Nat
  BY ServiceAssumption DEF AnyDevice
<1>3. \E n \in S : \A m \in S : Score[d][n] >= Score[d][m]
  BY <1>1, <1>2, HighestExists
<1> QED BY <1>3 DEF Winner

(* Taking other candidates away does not move the device.                  *)
LEMMA WinnerStays ==
    ASSUME NEW d \in AnyDevice, NEW S, S \subseteq Node, NEW R, R \subseteq S,
           Winner(d, S) \in R
    PROVE  Winner(d, R) = Winner(d, S)
<1>1. /\ Winner(d, S) \in S /\ \A m \in S : Score[d][Winner(d, S)] >= Score[d][m]
      /\ Winner(d, R) \in R /\ \A m \in R : Score[d][Winner(d, R)] >= Score[d][m]
  BY WinnerHighest
<1>2. /\ Score[d][Winner(d, S)] >= Score[d][Winner(d, R)]
      /\ Score[d][Winner(d, R)] >= Score[d][Winner(d, S)]
      /\ Winner(d, R) \in Node /\ Winner(d, S) \in Node
  BY <1>1
<1>3. Score[d][Winner(d, S)] \in Nat /\ Score[d][Winner(d, R)] \in Nat
  BY <1>2, ServiceAssumption DEF AnyDevice
<1>4. Score[d][Winner(d, R)] = Score[d][Winner(d, S)]
  BY <1>2, <1>3
<1> QED BY <1>2, <1>4, ServiceAssumption DEF AnyDevice

(* The eligible nodes a device would like.                                 *)
Liked(d, nodes, me) ==
    {n \in Eligible(d, nodes, me) : Preferred[d] \subseteq CapabilitiesOf(n, me)}

LEMMA PlaceSound ==
    ASSUME NEW d \in AnyDevice, NEW nodes, nodes \subseteq Node, NEW me
    PROVE  /\ Liked(d, nodes, me) # {} => Place(d, nodes, me) \in Liked(d, nodes, me)
           /\ Liked(d, nodes, me) = {} /\ Eligible(d, nodes, me) # {} =>
                 Place(d, nodes, me) \in Eligible(d, nodes, me)
           /\ Eligible(d, nodes, me) = {} => Place(d, nodes, me) = Unplaced
<1>1. /\ Liked(d, nodes, me) \subseteq Eligible(d, nodes, me)
      /\ Eligible(d, nodes, me) \subseteq Node
  BY DEF Liked, Eligible
<1>2. CASE Liked(d, nodes, me) # {}
  <2>1. Place(d, nodes, me) = Winner(d, Liked(d, nodes, me))
    BY <1>1, <1>2 DEF Place, Liked
  <2> QED BY <1>1, <1>2, <2>1, WinnerHighest
<1>3. CASE Liked(d, nodes, me) = {} /\ Eligible(d, nodes, me) # {}
  <2>1. Place(d, nodes, me) = Winner(d, Eligible(d, nodes, me))
    BY <1>3 DEF Place, Liked
  <2> QED BY <1>1, <1>3, <2>1, WinnerHighest
<1>4. CASE Eligible(d, nodes, me) = {}
  BY <1>1, <1>4 DEF Place
<1> QED BY <1>2, <1>3, <1>4

LEMMA PlaceStays ==
    ASSUME NEW d \in AnyDevice, NEW nodes, nodes \subseteq Node, NEW me,
           NEW rest, rest \subseteq nodes, Place(d, nodes, me) \in rest
    PROVE  Place(d, rest, me) = Place(d, nodes, me)
<1> DEFINE E == Eligible(d, nodes, me)
           L == Liked(d, nodes, me)
           ER == Eligible(d, rest, me)
           LR == Liked(d, rest, me)
<1>1. /\ L \subseteq E /\ E \subseteq Node /\ LR \subseteq ER
      /\ ER = E \cap rest /\ LR = L \cap rest
  BY DEF Liked, Eligible
<1>2. /\ Place(d, nodes, me) =
            IF E = {} THEN Unplaced ELSE Winner(d, IF L = {} THEN E ELSE L)
      /\ Place(d, rest, me) =
            IF ER = {} THEN Unplaced ELSE Winner(d, IF LR = {} THEN ER ELSE LR)
  BY DEF Place, Liked
<1> HIDE DEF E, L, ER, LR
<1>3. CASE E = {}
  BY <1>1, <1>2, <1>3
<1>4. CASE L # {}
  <2>1. Winner(d, L) \in L /\ Winner(d, L) \in rest /\ Place(d, nodes, me) = Winner(d, L)
    BY <1>1, <1>2, <1>4, WinnerHighest
  <2>2. Winner(d, L) \in LR /\ LR \subseteq L /\ L \subseteq Node
    BY <1>1, <2>1
  <2> QED BY <1>1, <1>2, <2>1, <2>2, WinnerStays
<1>5. CASE E # {} /\ L = {}
  <2>1. Winner(d, E) \in E /\ Winner(d, E) \in rest /\ Place(d, nodes, me) = Winner(d, E)
    BY <1>1, <1>2, <1>5, WinnerHighest
  <2>2. Winner(d, E) \in ER /\ ER \subseteq E /\ LR = {}
    BY <1>1, <1>5, <2>1
  <2> QED BY <1>1, <1>2, <2>1, <2>2, WinnerStays
<1> QED BY <1>3, <1>4, <1>5

(* A step of the service is a step of the rollout or leaves it alone.      *)
LEMMA ServiceStep ==
    ASSUME [ServiceNext]_allVars
    PROVE  [Next]_vars
<1>1. CASE ServiceStartRollout \/ ServiceRollout
  BY <1>1 DEF ServiceStartRollout, ServiceRollout, Next
<1> QED BY <1>1 DEF ServiceNext, Ticker, ConfigureSingle, ConfigureLiveFails, ConfigureLive,
           TickWakes, Tick, Detect, CloseFlag, CloseTransport, allVars

(* The inductive invariant of the service: the tick thread runs only once  *)
(* the fleet is configured, and from then on the placement is the one      *)
(* place_actors computes for the nodes in view.                            *)
ServiceInv ==
    /\ FleetInv
    /\ self \in Node /\ member \subseteq Node /\ view \subseteq Node
    /\ mode = "none" => view = {} /\ ticker = "none"
    /\ mode # "none" => placement = PlaceActors(view, self)

LEMMA InitServiceInv == ServiceInit => ServiceInv
BY InitFleetInv, ServiceAssumption DEF ServiceInit, ServiceInv

LEMMA NextPreservesServiceInv ==
    ASSUME ServiceInv, [ServiceNext]_allVars
    PROVE  ServiceInv'
<1>1. FleetInv'
  BY ServiceStep, NextPreservesFleetInv DEF ServiceInv
<1>2. devices' = devices
  BY ServiceStep DEF Next, StartRollout, Rollout, UpdateDevice, SkipWave, EndWave, Complete,
                     vars, config
<1>3. CASE ConfigureSingle \/ ConfigureLive \/ Tick
  <2>1. /\ self' \in Node /\ member' \subseteq Node /\ view' \subseteq Node /\ mode' # "none"
    BY <1>3, ServiceAssumption DEF ServiceInv, ConfigureSingle, ConfigureLive, Tick, Refresh
  <2>2. placement' = [d \in Device |-> Place(d, view', self')]
    BY <1>3 DEF ConfigureSingle, ConfigureLive, Tick, Refresh, PlaceActors
  <2>3. placement' = PlaceActors(view, self)'
    BY <1>2, <2>2 DEF PlaceActors, Device, Place, Eligible, CapabilitiesOf, Winner
  <2> QED BY <1>1, <2>1, <2>3 DEF ServiceInv
<1>4. CASE ConfigureLiveFails
  BY <1>1, <1>4, ServiceAssumption DEF ServiceInv, ConfigureLiveFails
<1>5. CASE UNCHANGED <<view, placement, self, mode>>
  <2>1. placement = PlaceActors(view, self) => placement' = PlaceActors(view, self)'
    BY <1>2, <1>5 DEF PlaceActors, Device, Place, Eligible, CapabilitiesOf, Winner
  <2>2. member' \subseteq Node /\ (mode = "none" => ticker' = "none")
    <3>1. CASE TickWakes
      BY <3>1 DEF TickWakes, ServiceInv
    <3>2. CASE Detect
      BY <3>2 DEF Detect, ServiceInv
    <3>3. CASE \/ ServiceStartRollout \/ ServiceRollout \/ CloseFlag \/ CloseTransport
               \/ UNCHANGED allVars
      BY <3>3 DEF ServiceStartRollout, ServiceRollout, CloseFlag, CloseTransport, service,
                  allVars, ServiceInv
    <3>4. CASE ConfigureSingle \/ ConfigureLive \/ Tick \/ ConfigureLiveFails
      BY <1>5, <3>4 DEF ConfigureSingle, ConfigureLive, Tick, ConfigureLiveFails, ServiceInv
    <3> QED BY <3>1, <3>2, <3>3, <3>4 DEF ServiceNext, Ticker
  <2> QED BY <1>1, <1>5, <2>1, <2>2 DEF ServiceInv
<1>6. CASE \/ TickWakes \/ Detect \/ ServiceStartRollout \/ ServiceRollout
           \/ CloseFlag \/ CloseTransport \/ UNCHANGED allVars
  BY <1>5, <1>6 DEF TickWakes, Detect, ServiceStartRollout, ServiceRollout, CloseFlag,
                    CloseTransport, service, allVars
<1> QED BY <1>3, <1>4, <1>6 DEF ServiceNext, Ticker

(* The service keeps its invariant, whatever the failure detector says.    *)
THEOREM ServiceInvariance == ServiceSpec => []ServiceInv
<1>1. ServiceInv /\ [ServiceNext]_allVars => ServiceInv'
  BY NextPreservesServiceInv
<1> QED BY InitServiceInv, <1>1, PTL DEF ServiceSpec

(* The rollouts that run under the service's mutex are Fleet's: ticks,     *)
(* reconfiguration and the destructor never reach into one.                *)
THEOREM ServiceImplementsFleet == ServiceSpec => Spec
<1>1. ServiceInit => Init
  BY DEF ServiceInit
<1>2. [ServiceNext]_allVars => [Next]_vars
  BY ServiceStep
<1> QED BY <1>1, <1>2, PTL DEF ServiceSpec, Spec

(* O5: run() counts exactly the devices on the new image, touches none     *)
(* after a wave that missed the threshold, and has tried each device once  *)
(* when it completes, for every number of devices and both wave sizes.     *)
THEOREM RolloutIsExact == ServiceSpec => []RolloutExact
BY ServiceImplementsFleet, FleetInvariance, FleetInvExact, PTL

(* Every variable of the rollout keeps its type: no counter exceeds the    *)
(* number of devices.                                                      *)
THEOREM FleetTypeCorrect == ServiceSpec => []TypeOK
<1>1. FleetInv => TypeOK
  BY DEF FleetInv
<1> QED BY <1>1, ServiceImplementsFleet, FleetInvariance, PTL

(* fleet_status() always reports the placement of the nodes it reports:    *)
(* required capabilities are never missing, preferred ones are used if a   *)
(* node in view has them, and no device that could be placed is left out.  *)
THEOREM PlacementSound == ServiceSpec => []PlacementFollowsView
<1>1. ServiceInv => PlacementFollowsView
  <2> SUFFICES ASSUME ServiceInv, mode # "none" PROVE PlacementFollowsView
    BY DEF PlacementFollowsView
  <2>1. view \subseteq Node /\ \A d \in Device : d \in AnyDevice
    BY DEF ServiceInv, FleetInv, TypeOK, AnyDevice, Device
  <2>2. /\ FleetStatus.nodes = view
        /\ \A d \in Device : FleetStatus.devices[d] = Place(d, view, self)
    BY DEF FleetStatus, ServiceInv, PlaceActors
  <2>3. \A d \in Device :
            /\ {n \in view : Required[d] \subseteq CapabilitiesOf(n, self)} = Eligible(d, view, self)
            /\ {n \in Eligible(d, view, self) : Preferred[d] \subseteq CapabilitiesOf(n, self)}
                  = Liked(d, view, self)
    BY DEF Liked, Eligible
  <2>4. \A d \in Device :
            CASE Liked(d, view, self) # {} -> Place(d, view, self) \in Liked(d, view, self)
              [] Liked(d, view, self) = {} /\ Eligible(d, view, self) # {} ->
                    Place(d, view, self) \in Eligible(d, view, self)
              [] Eligible(d, view, self) = {} -> Place(d, view, self) = Unplaced
    <3>1. \A d \in Device : Liked(d, view, self) \subseteq Eligible(d, view, self)
      BY DEF Liked
    <3> QED BY <2>1, <3>1, PlaceSound
  <2> QED BY <2>2, <2>3, <2>4 DEF PlacementFollowsView
<1> QED BY <1>1, ServiceInvariance, PTL

(* A tick that finds nodes gone moves only the devices they had.           *)
THEOREM PlacementStable == ServiceSpec => StablePlacement
<1>1. ASSUME ServiceInv, [ServiceNext]_allVars
      PROVE  [view' \subseteq view => \A d \in Device :
                 placement[d] \in view' => placement'[d] = placement[d]]_<<view, placement>>
  <2> SUFFICES ASSUME ~UNCHANGED <<view, placement>>, view' \subseteq view,
                      NEW d \in Device, placement[d] \in view'
               PROVE  placement'[d] = placement[d]
    BY <1>1
  <2>1. mode # "none"
    BY <1>1 DEF ServiceInv
  <2>2. CASE Tick
    <3>1. d \in AnyDevice
      BY <1>1 DEF ServiceInv, FleetInv, TypeOK, AnyDevice, Device
    <3>2. /\ placement[d] = Place(d, view, self)
          /\ placement'[d] = Place(d, view', self)
      BY <1>1, <2>1, <2>2 DEF ServiceInv, Tick, Refresh, PlaceActors
    <3>3. view \subseteq Node
      BY <1>1 DEF ServiceInv
    <3> QED BY <3>1, <3>2, <3>3, PlaceStays
  <2> QED BY <1>1, <2>1, <2>2 DEF ServiceNext, Ticker, ConfigureSingle, ConfigureLiveFails,
             ConfigureLive, TickWakes, Detect, ServiceStartRollout, ServiceRollout,
             CloseFlag, CloseTransport, service, allVars
<1> QED BY <1>1, ServiceInvariance, PTL DEF ServiceSpec, StablePlacement

=============================================================================
