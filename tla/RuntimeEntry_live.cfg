SPECIFICATION Spec
CONSTANTS
    MaxLines <- TwoOut
    PipeCap = 1
    RotSize = 2
    Evident = {"pre"}
    MaxPreLines = 1
    MinLog = 1
    MaxSearch = 1
    UserCode = 10
    PlatCode = 20
    DefaultCode = 255
CHECK_DEADLOCK FALSE
PROPERTIES
    EndsAfterJob
    PreDaemonDoesNotBlock
