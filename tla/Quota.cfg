SPECIFICATION Spec
CONSTANTS
    agent = agent
    bob = bob
    eve = eve
    r1 = r1
    r2 = r2
    r3 = r3
    NoRecipient = NoRecipient
    NoLimit = NoLimit
    NoDigest = NoDigest
    NoTx = NoTx
    Agents = {agent}
    Rules <- MCRules
    Assets <- MCAssets
    Recipients = {bob, eve}
    Reservations = {r1, r2, r3}
    Digests = {"d1"}
    HourMs = 1
    DayMs = 2
    RetentionMs = 3
    MaxLag = 1
    MaxClock = 4
    MaxBatch = 2
    ValueCap <- MCValueCap
    CountCap <- MCCountCap
    Cooldown <- MCCooldown
    RecipientCap <- MCRecipientCap
    Demands <- MCDemands
SYMMETRY Symmetry
INVARIANTS
    LimitsHold
    OneChargePerDigest
PROPERTIES
    SettledForGood
    AllOrNothing
    LedgerImplemented
