SPECIFICATION Spec
CONSTANTS
    Token = {t1, t2}
    NoToken = none
    LangUser = {u1}
    Ttl = 2
    Skew = 2
    FetchTime = 1
    MaxChanges = 2
    Emitter = {engine, cli}
    Rotator = engine
    MaxLines = 2
    MaxRecords = 5
    Module = {base, addon}
    Writer = {engine, cli}
    Process = {{engine}, {cli}}
    Inode = {1, 2, 3}
    NoInode = 0
    Committer = {loop, other}
    Loop = loop
    NoTask = notask
    MaxEdits = 2
    MaxFailures = 1
    Indexer = {p, q}
    Texts <- MCTexts
    MaxChars = 5
    Samples <- MCSamples
    Limit = 2
    MaxUnits = 5
    MaxTools = 2
    MaxTurns = 3
    MaxFrames = 2
INVARIANTS
    ServicesInv
    TokensOfThisBridge MigratedBeforeServing
    BustedIsFresh
    TailInOrder RecentReported
    WholeUnlessClash EditsKept
    FinalCommit
    FoundWhole
    AnswerShown NothingTwice
    ShownInOrder InputHeld
PROPERTIES
    StaleBounded PostsOnlyLatest ImplementsRegistry
    EditsCommitted IndexCatchesUp InputReturns
\* Several services stop at their bounds, or when the turn is over; a
\* registry.json that cannot be read stops every writer.
CHECK_DEADLOCK FALSE
