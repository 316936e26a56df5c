--------------------------------- MODULE Fleet ---------------------------------
(***************************************************************************)
(* A staged rollout over a fleet (include/aero/ota/fleet.hpp): canary,     *)
(* staged and full waves, and the automatic pause at the first wave that   *)
(* misses the threshold.  What one update does is Ota's subject; here it   *)
(* ends in any of its results.  Rollouts follow each other under the       *)
(* runtime's lock (Runtime::start_rollout), so they never overlap.         *)
(***************************************************************************)
EXTENDS Integers, Sequences, FiniteSets

CONSTANTS
    FleetSizes,      \* how many devices may have been added
    WaveSizes,       \* the sizes the first two waves may be configured with
    ThresholdNum, ThresholdDen,  \* the success rate a wave must reach
    MaxRollouts      \* bound: rollouts started in a behaviour

ASSUME FleetAssumption ==
    /\ FleetSizes \subseteq Nat /\ WaveSizes \subseteq Nat
    /\ ThresholdNum \in Nat /\ ThresholdDen \in Nat \ {0} /\ ThresholdNum <= ThresholdDen
    /\ MaxRollouts \in Nat

Minimum(a, b) == IF a < b THEN a ELSE b

VARIABLES
    devices,   \* how many devices were added
    canary, staged,  \* canary_, staged_
    state,     \* RolloutState
    wave,      \* index of the wave under way, 4 after the last
    offset,    \* devices the earlier waves took
    done,      \* devices of this wave updated so far
    succeeded, \* of those, the ones that committed
    updated, rolled_back,
    passed,    \* results: per finished wave, whether it cleared the threshold
    attempts,  \* history: updates of each device in this rollout
    version,   \* history: the rollout whose image each device runs
    rollouts

config == <<devices, canary, staged>>
vars == <<config, state, wave, offset, done, succeeded, updated, rolled_back, passed, attempts, version, rollouts>>

Device == 1..devices

Init ==
    /\ devices \in FleetSizes /\ canary \in WaveSizes /\ staged \in WaveSizes
    /\ state = "Idle" /\ wave = 4 /\ offset = 0 /\ done = 0 /\ succeeded = 0
    /\ updated = 0 /\ rolled_back = 0 /\ passed = << >>
    /\ attempts = [d \in Device |-> 0]
    /\ version = [d \in Device |-> 0]
    /\ rollouts = 0

(* Mutant: the last wave is one device short.                              *)
WaveSizeShort(w) ==
    CASE w = 1 -> canary
      [] w = 2 -> staged
      [] w = 3 -> IF devices > canary + staged THEN devices - (canary + staged) - 1 ELSE 0

(* The sizes of the three waves, as run() computes them ...                *)
WaveSize(w) ==
    CASE w = 1 -> canary
      [] w = 2 -> staged
      [] w = 3 -> IF devices > canary + staged THEN devices - (canary + staged) ELSE 0

(* ... and cut to the devices left.                                        *)
Count == Minimum(WaveSize(wave), devices - offset)

-----------------------------------------------------------------------------

StartRollout ==
    /\ state # "Running" /\ rollouts < MaxRollouts
    /\ rollouts' = rollouts + 1
    /\ state' = "Running"
    /\ wave' = 1 /\ offset' = 0 /\ done' = 0 /\ succeeded' = 0
    /\ updated' = 0 /\ rolled_back' = 0 /\ passed' = << >>
    /\ attempts' = [d \in Device |-> 0]
    /\ UNCHANGED <<config, version>>

(* run_wave updates the next device of the wave.                           *)
UpdateDevice(result) ==
    LET d == offset + done + 1
    IN  /\ state = "Running" /\ wave <= 3 /\ done < Count
        /\ done' = done + 1
        /\ attempts' = [attempts EXCEPT ![d] = @ + 1]
        /\ succeeded' = IF result = "Committed" THEN succeeded + 1 ELSE succeeded
        /\ updated' = IF result = "Committed" THEN updated + 1 ELSE updated
        /\ rolled_back' = IF result = "RolledBack" THEN rolled_back + 1 ELSE rolled_back
        /\ version' = IF result = "Committed" THEN [version EXCEPT ![d] = rollouts] ELSE version
        /\ UNCHANGED <<config, state, wave, offset, passed, rollouts>>

(* A wave of no devices is skipped.                                        *)
SkipWave ==
    /\ state = "Running" /\ wave <= 3 /\ offset < devices /\ Count = 0
    /\ wave' = wave + 1
    /\ UNCHANGED <<config, state, offset, done, succeeded, updated, rolled_back, passed, attempts, version, rollouts>>

(* The wave is over: the rollout goes on only if it cleared the threshold. *)
EndWave ==
    LET ok == succeeded * ThresholdDen >= Count * ThresholdNum
    IN  /\ state = "Running" /\ wave <= 3 /\ Count > 0 /\ done = Count
        /\ passed' = Append(passed, ok)
        /\ offset' = offset + Count
        /\ done' = 0 /\ succeeded' = 0
        /\ wave' = IF ok THEN wave + 1 ELSE wave
        /\ state' = IF ok THEN state ELSE "Paused"
        /\ UNCHANGED <<config, updated, rolled_back, attempts, version, rollouts>>

Complete ==
    /\ state = "Running" /\ (wave > 3 \/ offset >= devices)
    /\ state' = "Completed"
    /\ UNCHANGED <<config, wave, offset, done, succeeded, updated, rolled_back, passed, attempts, version, rollouts>>

(* The steps of a rollout under way.                                       *)
Rollout ==
    \/ \E result \in {"Committed", "RolledBack", "Rejected", "Failed"} : UpdateDevice(result)
    \/ SkipWave
    \/ EndWave
    \/ Complete

Next == StartRollout \/ Rollout

Spec == Init /\ [][Next]_vars

-----------------------------------------------------------------------------
(* Properties                                                              *)

(* Every variable has its type.                                            *)
TypeOK ==
    /\ devices \in FleetSizes /\ canary \in WaveSizes /\ staged \in WaveSizes
    /\ state \in {"Idle", "Running", "Paused", "Completed"}
    /\ wave \in 1..4 /\ offset \in 0..devices /\ done \in 0..devices /\ succeeded \in 0..done
    /\ updated \in 0..devices /\ rolled_back \in 0..devices
    /\ passed \in Seq(BOOLEAN)
    /\ attempts \in [Device -> Nat] /\ version \in [Device -> 0..rollouts]
    /\ rollouts \in 0..MaxRollouts

(* O5: once a wave has missed the threshold, no further device is touched  *)
(* and devices_updated() counts exactly the devices on the new image; a    *)
(* completed rollout has tried every device exactly once, however the wave *)
(* sizes compare with the number of devices.                               *)
RolloutExact ==
    /\ \A i \in 1..Len(passed) : ~passed[i] => state = "Paused" /\ i = Len(passed)
    /\ state # "Idle" => updated = Cardinality({d \in Device : version[d] = rollouts})
    /\ \A d \in Device : d > offset + done => attempts[d] = 0
    /\ state = "Completed" => \A d \in Device : attempts[d] = 1

=============================================================================
