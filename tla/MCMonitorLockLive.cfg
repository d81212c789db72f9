\* Commands answer, and find a worker while one is required.
CONSTANTS
    i1 = i1  i2 = i2
    w1 = w1  w2 = w2  w3 = w3
    n1 = n1  n2 = n2  n3 = n3  n4 = n4
    Invoker = {i1, i2}
    Worker = {w1, w2, w3}
    Inode = {n1, n2, n3, n4}
    MaxPolls = 1
    Changes = {FALSE}
    Policy = FALSE
    Crashes = FALSE
    NoInode = NoInode
    NoWorker = NoWorker
    Nobody = Nobody
    Core = Core
SPECIFICATION LiveSpec
PROPERTIES
    CommandAnswers
    RunLeadsToWorker
