\* Three senders, failing and uncertain sends, restarts.
SPECIFICATION FairSpec
CONSTANTS
    Senders = {s1, s2, s3}
    MaxNonce = 4
    SendFails = TRUE
    SendUnsure = TRUE
    Restarts = TRUE
INVARIANTS
    SoundUnlessRaced
PROPERTIES
    ReceiptsArrive
CHECK_DEADLOCK FALSE
