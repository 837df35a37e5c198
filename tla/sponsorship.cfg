SPECIFICATION Spec
CONSTANTS
    Ships <- SponsorShips
    Registered = {0, 1, 3}
    Topics <- SponsorTopics
    Linked = {0}
    Opcodes <- SponsorOpcodes
    Senders <- SponsorSenders
    GalaxyEnd = 2
    StarEnd = 4
    Zero = zero
    Deposit = deposit
    Address = {zero, deposit, a}
    Targets = {deposit}
    Signers = {a}
    GenesisOwner = a
    NoKeys = nokeys
    ZeroKeys = zerokeys
    KeySets = {nokeys, zerokeys}
    MaxNonce = 1
    MaxLife = 0
    MaxRift = 0
INVARIANTS
    TypeOK
    EscapeCoherent
    NonceCountsSpent
PROPERTIES
    SponsorNeedsConsent
    ChangesAreLogged
    LayersIsolated
