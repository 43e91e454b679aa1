\* Two scanners, one of them not an SDS; one command waits while another runs;
\* two events, calls or faults; any saved address.
SPECIFICATION FairSpec
CONSTANTS
    Hosts = {sds, other}
    NoHost = NoHost
    Sds = {sds}
    Saved = {sds, other, NoHost}
    Keys = {k1}
    Codes = {"F", "x"}
    QueueLen = 1
    FailLimit = 2
    MissLimit = 2
    PopupTries = 2
    MaxEvents = 2
INVARIANTS
    TypeOK
    StepOnce
    FuncKeyTaken
    ScanModeRestored
    RebootInScan
    QuickKeysKnown
PROPERTIES
    ImplementsPipe
    OfflineNoticed
    QueueServed
    QuickKeysShown
