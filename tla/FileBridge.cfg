\* Two calls side by side, the terminal stopped up to three times.
SPECIFICATION FairSpec
CONSTANTS
    Calls = {c1, c2}
    MaxStops = 3
    Nobody = Nobody
INVARIANTS
    BridgeTypeOK
    OncePlusStops
PROPERTIES
    BridgeCallsSpec
    EveryRequestPerformed
\* Every call may have ended and nothing be left to serve.
CHECK_DEADLOCK FALSE
