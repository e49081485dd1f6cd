SPECIFICATION Spec
CONSTANTS
    Type <- Types
    Proxied = {"box1"}
    StorageConfigs <- Configs
    STORAGE_CONFIGS <- GrantedNames
    USER_NAME = "me"
    JOB_NAME = "job1"
    Norm <- NormPath
    Jobs <- JobSet
    Sites <- SiteSet
    Packages <- PackageGroups
    MaxTries = 2
    Given <- GivenFiles
CHECK_DEADLOCK FALSE
INVARIANTS
    TypeOK
    PolicyKept
    UsesInstalled
    FilesAreKept
    MountedAsAsked
