CONSTANTS
    v1 = v1
    v2 = v2
    Caller <- MCCaller
    Nobody = Nobody
    MaxVersion = 3
    MaxReadErrors = 0
SPECIFICATION ConfigSpec
INVARIANT NoEmbrace
