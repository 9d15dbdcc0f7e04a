SPECIFICATION Spec
SYMMETRY Symmetry
CONSTANTS
    alice = alice
    bob = bob
    a1 = a1
    a2 = a2
    None = None
    Timers = {job}
    Workers <- TwoApprovers
    ApprovalIds <- MCApprovalIds
    Timeouts = {0, 1}
    MaxTime = 2
INVARIANTS TypeOK OneResolvedEvent RecordsCoherent
PROPERTIES SettledForGood SweepComplete ImplementsLifecycle
