\* A worker among two networks and none, with failures and kills: its events.
CONSTANTS
    home = home  cafe = cafe
    homeSsid = homeSsid  homeBssid = homeBssid  cafeBssid = cafeBssid
    wifi = wifi
    Network = {home, cafe}
    Off = Off
    Name = {homeSsid, homeBssid, cafeBssid}
    unknown = unknown
    SsidOf <- MCSsidOf
    BssidOf <- MCBssidOf
    Statuses = {TRUE, FALSE}
    Settings <- MCSettings
    Worker = Worker
    Command = {}
    MaxCommands = 0
    MaxQueue = 1
    MaxEdits = 0
    Faulty = TRUE
    NoIp = NoIp  NoState = NoState  NoCache = NoCache
SPECIFICATION LiveSpec
PROPERTIES
    EventsHandled
    Converges
