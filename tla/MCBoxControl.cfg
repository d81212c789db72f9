\* up, down, restart and the Wi-Fi policy, with failures and kills anywhere,
\* while ipv6_mode is edited between commands.
CONSTANTS
    user = user  monitor = monitor
    mihomo = mihomo
    Cmd = {user, monitor}
    Reader = {monitor}
    Pid = {p1, p2}
    Bin = {mihomo}
    BinOf <- MCBinOf
    MaxPolls = 0
    NoCmd = NoCmd  NoPid = NoPid
    Absent = Absent  Empty = Empty  Unread = Unread
    Mode = {"tun"}
    Setting = {s1}
    Ipv6Mode = {"disable", "enable"}
    Faulty = TRUE
    Undeletable = {"bypass"}
    Edits = {TRUE}
    NoSnap = NoSnap  Fixed = Fixed
    Op = {"up", "down", "restart", "policyUp", "policyDown"}
    MaxJobs = 2
SYMMETRY Symmetry
SPECIFICATION QuietSpec
INVARIANTS
    OkMeansDone
    RolledBackMeansDown
CHECK_DEADLOCK FALSE
