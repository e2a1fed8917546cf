SPECIFICATION FairSpec
CONSTANTS
    Names <- QueryNames
    QueryType = 1
    Sizes = {20, 512}
    Replies <- ServerReplies
    Messages <- SomeMessages
    Retries = 0
INVARIANTS
    BuildsOrFails
