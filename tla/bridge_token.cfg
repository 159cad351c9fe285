SPECIFICATION BridgeSpec
CONSTANTS
    Token = {t1, t2}
    NoToken = none
INVARIANT SavedTokenRuns
