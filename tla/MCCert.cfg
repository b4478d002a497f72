SPECIFICATION CertSpec
CONSTANTS
    dom = dom
    ip = ip
    empty = empty
    MaxIds = 3
    Targets = {dom, ip, empty}
    NoTarget = empty
    PublicTargets = {dom, ip}
    IPs = {ip}
    Local <- LocalParams
    PanelConfigs <- AutoSelfFile
    MaxFaults = 1
    MaxChanges = 1
INVARIANTS
    CertTypeOK
    PairMatches
    ServesCurrent
    PinnedIsServed
PROPERTIES
    NoRepeatedReload
    DueIsReplaced
CHECK_DEADLOCK FALSE
