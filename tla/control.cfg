SPECIFICATION HSpec
CONSTANTS
    Admin = {a1, a2}
    Address = {ip1}
    NoAdmin = NoAdmin
    TTL = 0
    LAST = 1
    MAX_FAULTS = 1
    MAX_RESTARTS = 1
INVARIANTS LoginWorks LogoutEnds
CONSTRAINT FewLogins
PROPERTIES CacheFollows
