SPECIFICATION FairSpec
CONSTANTS
    FirstLogs <- MC_FirstLogs
    MaxRevision = 5
    MayCancel = TRUE
    MaxIndex = 4
    Edits = {"write", "replace", "delete", "move", "create", "chmod"}
    MaxEdits = 4
    WatchDisabled = FALSE
    plain = plain
    public = public
    dev = dev
    c1 = c1
    c2 = c2
    NacosPaths = {plain, public, dev}
    Configs = {c1, c2}
    ConfigOf <- MC_ConfigOf
    QueryOf <- MC_QueryOf
    NacosNamespaces = {"", "public", "dev"}
    Namespaces = {n1, n2}
    MaxReleases = 3
    SnapshotOn = TRUE
    Nobody = Nobody
    MaxVersion = 2
    Unused = Unused
INVARIANTS TypeOK FileStaysAttached AcknowledgedIsLoaded
PROPERTIES InOrder EtcdFollows ConsulFollows FileFollows NacosFollows ApolloFollows
CHECK_DEADLOCK FALSE
