SPECIFICATION Spec
CONSTANTS
    SignatureBytes = 2
    ShipBytes = 1
    AddressBytes = 2
    KeyBytes = 1
    Sendings <- Submissions
    Garbage <- Noise
CHECK_DEADLOCK FALSE
INVARIANTS
    ZerosAddedBack
