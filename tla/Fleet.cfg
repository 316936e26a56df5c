\* Fleets of up to three devices, every wave plan, two rollouts and two
\* changes of the membership.
SPECIFICATION ServiceSpec
CONSTANTS
    FleetSizes = {0, 1, 3}
    WaveSizes = {0, 1, 2, 5}
    ThresholdNum = 1
    ThresholdDen = 2
    MaxRollouts = 2
    Node <- MCNode
    Seeds <- MCSeeds
    FlagsOf <- MCFlagsOf
    Required <- MCRequired
    Preferred <- MCPreferred
    Score <- MCScore
    MaxChanges = 2
INVARIANTS
    RolloutExact
    PlacementFollowsView
PROPERTIES
    StablePlacement
    ViewCatchesUp
CHECK_DEADLOCK FALSE
