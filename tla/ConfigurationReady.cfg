CONSTANTS
    ApiKeys = {"", "fileKey", "envKey"}
    BaseUrls = {"", "fileUrl", "https://api.opsgenie.com"}
    Empty = ""
    Words <- MCWords
    Files <- MCFiles
SPECIFICATION Spec
INVARIANTS
    ReadyIsUsable
    UsableIsKept
    ArgsMatchConfiguration
    ActionsAreResolved
\* The start ends in "ready" or "failed".
CHECK_DEADLOCK FALSE
