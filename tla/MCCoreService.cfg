\* service start / stop / restart from two commands that may crash anywhere,
\* beside an unlocked reader, with two core programs to switch between.
CONSTANTS
    c1 = c1  c2 = c2
    p1 = p1  p2 = p2  p3 = p3
    mihomo = mihomo  singbox = singbox
    Cmd <- MCCmd
    Reader = {r1}
    Pid <- MCPid
    Bin <- MCBin
    BinOf <- MCBinOf
    MaxPolls = 1
    NoCmd = NoCmd
    NoPid = NoPid
    Absent = Absent
    Empty = Empty
    Unread = Unread
SPECIFICATION Spec
SYMMETRY Symmetry
INVARIANTS
    TypeOK
    SingleCore
    PidFileNamesCore
    StopOkMeansStopped
    StartOkTracksCore
