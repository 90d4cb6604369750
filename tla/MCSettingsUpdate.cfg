SPECIFICATION Spec
CONSTANTS
    old = old
    new = new
    s1 = s1
    s2 = s2
    own = own
    noTuple = noTuple
    HalfRange = 4
    Configs <- MCConfigs
    Defaults <- MCDefaults
    Tuples <- MCTuples
    NoTuple = noTuple
    NoPayload = noPayload
    Installed <- MCInstalled
    Settings = {s1, s2}
    OwnProfiles = own
    Values = {old, new}
    Provisioned <- MCProvisioned
    Maskable = {"deveui", "appkey"}
    MaxSaves = 2
INVARIANTS
    TypeOK
    Neighbours
    WholeTuples
    RevisionIsIdentity
PROPERTIES
    ImplementsAtomic
    JournalFirst
    NoLostUpdate
CHECK_DEADLOCK FALSE
