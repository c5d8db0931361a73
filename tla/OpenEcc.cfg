CONSTANTS
    Objects = {alice, bob}
    Messages = {"message", "message_error"}
    Tails = {zeros, rest}
    MaxKeys = 4
SPECIFICATION Spec
INVARIANTS
    OwnSignature
    Agreement
    TestVerdicts
\* TestOpenEcc returns, and keys run out
CHECK_DEADLOCK FALSE
