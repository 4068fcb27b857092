SPECIFICATION DesktopFairSpec
CONSTANTS
    f1 = f1
    r1 = r1
    r2 = r2
    None = None
    Stump = Stump
    Flows = {f1}
    MaxVersion = 2
    Roots = {r1, r2}
INVARIANTS
    DesktopTypeOK
    SavedOrScheduled
    ProxyClearedWithApp
    SigningRootIsOnDisk
    TrustedRootSigns
PROPERTIES
    CleanStopSaves
    VersionReachesDisk
