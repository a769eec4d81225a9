CONSTANTS
    t1 = t1
    t2 = t2
    t3 = t3
    e1 = e1
    e2 = e2
    e3 = e3
    eA = eA
    Task = {t1, t2, t3}
    Exch = {e1, e2, e3, eA}
    TSS_Exch <- OwnExch
    nTmrBlks = 2
    nLB = 1
    MaxCount = 2
    Calls <- CallsLost
SPECIFICATION FairSpec
PROPERTY AlwaysWoken
