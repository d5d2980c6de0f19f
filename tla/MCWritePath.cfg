SPECIFICATION FairSpec
CONSTANTS
    put = put
    del = del
    None = None
    Client <- MCClient
    Repeatable <- MCRepeatable
    MaxEntries = 2
    Attempts = 2
INVARIANTS TypeOK AnswersOwnRequest AppliedOncePerPost AnsweredIsApplied
PROPERTIES PostsAreAnswered KeepsService
