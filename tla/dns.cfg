SPECIFICATION FairSpec
CONSTANTS
    Names <- QueryNames
    QueryType = 28
    Sizes <- ReplySizes
    Replies <- AnyReplies
    Messages <- SomeMessages
    Retries = 2
INVARIANTS
    TypeOK
    NoPanic
    YieldsAreDeclared
    ReadsWhatWasSent
PROPERTIES
    ReadingIsLinear
    ReadingEnds
