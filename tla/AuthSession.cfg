CONSTANTS
    s1 = s1
    s2 = s2
    s3 = s3
    p1 = p1
    p2 = p2
    p3 = p3
    w1 = w1
    w2 = w2
    Session <- MCSession
    Token <- MCToken
    Worker <- MCWorker
    NoSession = NoSession
    NoToken = NoToken
    SingleSession = {TRUE, FALSE}
    GivenReason = {"disabled"}
    MaxCalls = 5
    MaxErrors = 1
SPECIFICATION Spec
SYMMETRY Symmetry
INVARIANTS
    OnlyTheRaceUnlists
    ExchangedOnce
    OneLiveSession
PROPERTIES
    EndIsFinal
    RevokedUnlessUnlisted
