SPECIFICATION PrivacySpec
CONSTANTS
    Configurations <- MCConfigurations
    Publications <- MCPublications
    Refreshers = {r1, r2}
    TTL = 2
    OfficialFrom = 2
    OfficialUntil = 5
    MaxTime = 5
    MaxDownloads = 2
    MaxMoves = 2
INVARIANTS
    PromisesAreRecent
    ConsentWhereKept
    SnapshotsAreSound
SYMMETRY RefresherSymmetry
