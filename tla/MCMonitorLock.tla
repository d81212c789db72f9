---------------------------- MODULE MCMonitorLock ----------------------------
(***************************************************************************)
(* Instances of MonitorLock for TLC.  Two workers let a command replace one*)
(* that another command has just spawned; a third lets it happen again.    *)
(* There is an inode for each worker to have open and one for the path, so *)
(* that they never run out.                                                *)
(***************************************************************************)
EXTENDS MonitorLock, TLC

CONSTANTS i1, i2, w1, w2, w3, n1, n2, n3, n4

Symmetry == Permutations(Invoker) \cup Permutations(Worker)
              \cup Permutations(Inode)

\* There is a worker left for every command under way and one more.
Spare == Cardinality({w \in Worker : wk[w] = "unborn"})
           > Cardinality({c \in Invoker : inv[c].at # "idle"})

Running == \E w \in Worker : wk[w] = "running"

\* Commands that look for a worker begin only while there is a spare one, so
\* that who makes a worker give up can replace it, or while one runs.  (Commands
\* without end could make every worker give up that is spawned.)  The monitor
\* ceases to be required only while all is quiet and one runs, which the stops
\* that follow must end.  Workers and inodes are taken in one order; in another
\* they would only be called differently.
LiveNext ==
    /\ Next
    /\ \A c \in Invoker :
         inv[c].at = "idle" /\ inv'[c].call = "run" => Spare \/ Running
    /\ required' # required => Settled /\ Running
    /\ \A w \in Worker : wk[w] = "unborn" /\ wk'[w] # "unborn" =>
         w = CHOOSE v \in Worker : wk[v] = "unborn"
    /\ path = NoInode /\ path' # NoInode =>
         path' = CHOOSE i \in FreeInodes : TRUE

LiveSpec == Init /\ [][LiveNext]_vars /\ Fairness

=============================================================================
