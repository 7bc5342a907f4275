SPECIFICATION Spec
CONSTANTS
    Codes = {"-100", "-199", "-911"}
    SuccessCodes = {"-100", "-199"}
    AuthOk = "-199"
    Messages <- SomeMessages
    MaxMessages = 2
INVARIANTS
    TypeOK
    PromotedIsFirst
    QuoteIsTheBatchPrice
    UnreadableIsNoSuccess
    ErrorsAreNotMasked
    FormatsAgree
