SPECIFICATION Spec
CONSTANTS
    Ships <- SpawnShips
    Registered = {0}
    Topics <- SpawnTopics
    Linked = {0}
    Opcodes <- SpawnOpcodes
    Senders <- SpawnSenders
    GalaxyEnd = 2
    StarEnd = 4
    Zero = zero
    Deposit = deposit
    Address = {zero, deposit, a}
    Targets = {deposit, a}
    Signers = {a}
    GenesisOwner = a
    NoKeys = nokeys
    ZeroKeys = zerokeys
    KeySets = {nokeys, zerokeys}
    MaxNonce = 0
    MaxLife = 0
    MaxRift = 0
CHECK_DEADLOCK FALSE
INVARIANTS
    L1NeverPanics
    DominionAgrees
PROPERTIES
    OneWayDominion
    OnlyWritersWrite
