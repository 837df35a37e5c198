SPECIFICATION Spec
CONSTANTS
    Ships <- ZodShips
    Registered = {0, 1, 3}
    Topics <- NoTopics
    Linked = {}
    Opcodes <- AdoptOpcodes
    Senders <- ZodSenders
    GalaxyEnd = 2
    StarEnd = 4
    Zero = zero
    Deposit = deposit
    Address = {zero, deposit, a}
    Targets = {deposit}
    Signers = {a}
    GenesisOwner = a
    NoKeys = nokeys
    ZeroKeys = zerokeys
    KeySets = {nokeys, zerokeys}
    MaxNonce = 1
    MaxLife = 0
    MaxRift = 0
CHECK_DEADLOCK FALSE
PROPERTIES
    AdoptedOnRequest
