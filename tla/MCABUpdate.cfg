SPECIFICATION FairSpec
INVARIANTS
    DiskStaysUsable
    
    ConfirmedStaysBootable

    
