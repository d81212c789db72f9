\* The commands of a user, while the configuration moves between modes and no
\* rule fails; liveness of the lock.
CONSTANTS
    user = user  monitor = monitor
    mihomo = mihomo
    Cmd = {user, monitor}
    Reader = {}
    Pid = {p1, p2}
    Bin = {mihomo}
    BinOf <- MCBinOf
    MaxPolls = 0
    NoCmd = NoCmd  NoPid = NoPid
    Absent = Absent  Empty = Empty  Unread = Unread
    Mode = {"mixed", "ebpf"}
    Setting = {s1}
    Ipv6Mode = {"bypass"}
    Faulty = FALSE
    Undeletable = {}
    Edits = {TRUE, FALSE}
    NoSnap = NoSnap  Fixed = Fixed
    Op = {"up", "down", "restart", "apply", "clear", "renew", "svcStart", "svcStop", "svcRestart"}
    MaxJobs = 2
SPECIFICATION BoxFairSpec
INVARIANT
    OkMeansDone
PROPERTY
    BoxLockReleased
CHECK_DEADLOCK FALSE
