\* Two sniffers, which say anything they may of two chunks.
SPECIFICATION Spec
CONSTANTS
    tls = tls
    bittorrent = bittorrent
    Sniffers = {tls, bittorrent}
    Override = {tls}
    RuleSets <- Rules
    Inputs <- Kinds
    None = None
    Deadline = 2
    LinkWait = 3
    MaxChunks = 2
    MaxUpdates = 1
INVARIANTS
    BytesKept
    SniffBounded
    ForbiddenIsRefused
PROPERTY
    SniffEnds
CHECK_DEADLOCK FALSE
