SPECIFICATION PluginSpec
CONSTANTS
    Parts = {"dnsbl", "crowdsec", "stored", "allow", "memory", "strict", "lenient", "rate"}
    VerdictConf <- MCVerdictConf
    IPs = {i1}
    Checks = {c1, c2}
    CacheTTL = 2
    FilterConf <- MCFilterConf
    Rules <- MCRules
    Initial <- MCInitial
    Ops = {"add", "remove", "reload"}
    Mails <- MCMails
    u1 = u1
    u2 = u2
    k1 = k1
    ChainConf <- MCChainConf
    Dmarc <- MCDmarc
    Scores = {5, 6}
    Width = 5
    Procs = {p1, p2, p3}
    Limiters = {l1, l2, l3}
    None = None
    Burst = 3
    Period = 3
    TTL = 10
    Stall = 2
CHECK_DEADLOCK FALSE
SYMMETRY PluginSymmetry
INVARIANT VerdictsCurrent
INVARIANT OneList
INVARIANT StoreInForce
 
INVARIANT JudgedBeforeStored
PROPERTY RateExact
