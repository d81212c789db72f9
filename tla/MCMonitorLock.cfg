\* Two commands and two workers, at any moment, with crashes.
CONSTANTS
    i1 = i1  i2 = i2
    w1 = w1  w2 = w2  w3 = w3
    n1 = n1  n2 = n2  n3 = n3  n4 = n4
    Invoker = {i1, i2}
    Worker = {w1, w2}
    Inode = {n1, n2, n3}
    MaxPolls = 1
    Changes = {TRUE, FALSE}
    Policy = TRUE
    Crashes = TRUE
    NoInode = NoInode
    NoWorker = NoWorker
    Nobody = Nobody
    Core = Core
SPECIFICATION Spec
SYMMETRY Symmetry
INVARIANTS
    TypeOK
    StopOkMeansGone
    SignalsOwnersOnly
    WorkerCanBeFound
