SPECIFICATION Spec
CONSTANTS
    a = a
    b = b
    group = group
    macA = macA
    macB = macB
    macGroup = macGroup
    ZeroIP = ZeroIP
    ZeroMAC = ZeroMAC
    IPs <- MCIPs
    MACs <- MCMACs
    McastIPs <- MCMcastIPs
    McastMAC <- MCMcastMAC
    MacOf <- MCMacOf
    MaxRequests = 3
    RequestTime = 1
    CacheTime = 9
    ChecksumCycles = 1
    TxWords = 2
    LateReply = TRUE
INVARIANTS
    ReplyToAsker
