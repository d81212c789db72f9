\* A worker and a policy command, at home or without a network; edits, failures
\* and kills anywhere.
CONSTANTS
    home = home  cafe = cafe
    homeSsid = homeSsid  homeBssid = homeBssid  cafeBssid = cafeBssid
    wifi = wifi
    Network = {home}
    Off = Off
    Name = {homeSsid, homeBssid, cafeBssid}
    unknown = unknown
    SsidOf <- MCSsidOf
    BssidOf <- MCNoBssid
    Statuses = {TRUE}
    Settings <- MCSettings
    Worker = Worker
    Command = {wifi}
    MaxCommands = 1
    MaxQueue = 1
    MaxEdits = 2
    Faulty = TRUE
    NoIp = NoIp  NoState = NoState  NoCache = NoCache
SPECIFICATION Spec
INVARIANTS
    TypeOK
    SavedMeansApplied
    CacheNotBehind
