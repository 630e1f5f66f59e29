SPECIFICATION FairSpec
CONSTANTS
    ada = ada
    bob = bob
    adaDeal = adaDeal
    adaChat = adaChat
    bobDeal = bobDeal
    w1 = w1
    w2 = w2
    Humans = {ada, bob}
    Rows = {adaDeal, adaChat, bobDeal}
    HumanOf <- MCHumanOf
    InSlack = {adaChat}
    Employed = {adaDeal}
    LateAddress = {adaDeal}
    Workers = {w1, w2}
    Duty <- MCDuty
    MaxPersons = 4
    MaxRollbacks = 1
INVARIANTS
    TypeOK
    NeverMixedUp
PROPERTIES
    AddressMovesOnlyInRace
    RacesAreRepaired
    ResolutionEnds
CHECK_DEADLOCK FALSE
