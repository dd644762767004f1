\* One entry on any backend, written and asked for by sixteen requests under
\* three keys, with two configurations; a lifetime of 1 in a clock of 0..2.
SPECIFICATION Spec
CONSTANTS
    Words <- MCWords
    Lower <- MCLower
    Stripped <- MCStripped
    Unnamed = Unnamed
    NoParams = NoParams
    NullParams = NullParams
    None = None
    Empty = Empty
    Requests <- MCRequests
    Keys <- MCKeys
    Answers <- MCAnswers
    Tokens = {5}
    Configs <- MCConfigs
    TTL = 1
    MaxTime = 2
    Question <- MCQuestion
    Finds <- MCFinds
    NotUTF8 <- MCNotUTF8
INVARIANTS HitIsolated DirectHitAlike QuestionNormalized RepeatHits ExpiredNeverServed
    PayloadIntact HitsReportSavings
