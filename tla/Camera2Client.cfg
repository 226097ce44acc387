CONSTANTS
    MaxSessions = 2
    MaxWindows = 4
    MaxFrames = 1
    MaxClients = 2
    Binders = {1}
    MaxOps = 3
SPECIFICATION FairClientSpec
INVARIANTS TypeOK NoOrphan ReleaseAfterDestroy SurfaceSafe SessionMatchesState PreviewServed
PROPERTIES DestroyReturns
CHECK_DEADLOCK FALSE
