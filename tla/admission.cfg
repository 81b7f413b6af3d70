SPECIFICATION WatchSpec
CONSTANTS
    Catalog <- MCCatalog
    Aliases <- MCAliases
    Alnum <- MCAlnum
    LowerCase <- MCLowerCase
    Name <- MCName
    Body <- MCBody
    Retired <- MCCatalog
    MANTISSA = 524288
    Prompt = {p1, p2}
    Asker = {r1, r2}
    NoModel = NoModel
    NoPrompt = NoPrompt
    WINDOW = 2
    PERIOD = 1
    EXPIRY = 3
    TTL = 1
    FAILED_MIN = 2
    RECOVER_MIN = 1
    TRAFFIC = 2
    MAX_FAULTS = 1
INVARIANTS DistanceRight SanitizedIsAccepted ComesBack 
PROPERTIES Recovers
