SPECIFICATION Spec
CONSTANTS
    Ships <- RoleShips
    Registered = {0}
    Topics <- RoleTopics
    Linked = {0}
    Opcodes <- RoleOpcodes
    Senders <- RoleSenders
    GalaxyEnd = 2
    StarEnd = 4
    Zero = zero
    Deposit = deposit
    Address = {zero, deposit, a}
    Targets = {deposit, a}
    Signers = {a}
    GenesisOwner = a
    NoKeys = nokeys
    ZeroKeys = zerokeys
    KeySets = {nokeys, zerokeys, k1}
    MaxNonce = 0
    MaxLife = 2
    MaxRift = 1
CHECK_DEADLOCK FALSE
INVARIANTS
    NonceCountsSpent
    DominionAgrees
PROPERTIES
    LifeNumbersKeys
    ChangesAreLogged
    OnlyWritersWrite
    LayersIsolated
