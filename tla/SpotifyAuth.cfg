\* Two callers; the venue's account keeps its refresh token, the spare one rotates it.
SPECIFICATION FairSpec
CONSTANTS
    NotConnected = NotConnected
    NoToken = NoToken
    Accounts = {venue, spare}
    Rotating = {spare}
    Callers = {c1, c2}
    Life = 3
    Margin = 2
    MaxDelay = 1
    MaxConnects = 2
    MaxIssued = 4
    MaxFaults = 2
INVARIANTS
    TypeOK
    TokensOfOneAccount
    RefreshTokenAlive
    HandedOutUsable
    ChosenAccountKept
PROPERTIES
    ConnectionRenewed
