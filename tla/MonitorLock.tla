----------------------------- MODULE MonitorLock -----------------------------
(***************************************************************************)
(* Who runs the network monitor: `boxctl monitor`, `boxctl monitor-stop`   *)
(* and the ends of up and down look for a worker process, start one or stop*)
(* it, by way of state/network_monitor.pid.  A worker holds flock on the   *)
(* file and has written its identity (pid, start time, token) in it.       *)
(*                                                                         *)
(* The path, the inode it names and the flock on the inode are kept apart: *)
(* a command that finds no worker unlinks the path, and a worker that had  *)
(* opened it goes on with an inode nobody else can find.                   *)
(*                                                                         *)
(* `required` stands for monitor_required: Wi-Fi control is on, or the core*)
(* runs in a mode other than tun.  It is read without the operation lock   *)
(* and changes at any time.  Process identities are not reused: matching   *)
(* pid, start time and token is matching the process.                      *)
(***************************************************************************)
EXTENDS Naturals, FiniteSets

CONSTANTS
    Invoker,    \* processes that run monitor::run or monitor::stop
    Worker,     \* worker processes that may ever be spawned (bounds a run)
    Inode,      \* inodes for the lock file (bounds a run; reused when free)
    MaxPolls,   \* polls for a signalled worker: 20 after SIGTERM, 10 after SIGKILL
    Changes,    \* values that `required` may change to while commands run
    Policy,     \* does the workers' Wi-Fi policy start cores?
    Crashes,    \* may workers and invokers die of themselves?
    NoInode, NoWorker, Nobody, Core

ASSUME ConstAssumption ==
    /\ MaxPolls \in Nat
    /\ Changes \cup {Policy, Crashes} \subseteq BOOLEAN
    /\ NoInode \notin Inode /\ NoWorker \notin Worker
    /\ Nobody \notin Worker \cup Invoker /\ Worker \cap Invoker = {}
    /\ Core \notin Worker

VARIABLES
    path,       \* the inode state/network_monitor.pid names
    text,       \* identity[i]: the worker whose identity inode i holds
    owner,      \* owner[i]: the process that holds flock on inode i
    wk,         \* where each worker is
    fd,         \* the inode each worker has open as its lock
    inv,        \* the command each invoker runs
    signalled,  \* processes that stop_monitor_worker has signalled
    killed,     \* those among them that were sent SIGKILL
    session,    \* worker whose process group the running core is in
    required,   \* monitor_required
    spaced      \* history: has each command found the last one's worker settled?

vars == <<path, text, owner, wk, fd, inv, signalled, killed, session, required,
          spaced>>

Live(w) == wk[w] \notin {"unborn", "gone"}

\* A worker is starting up until it knows that it holds the lock and is wanted.
Starting(w) == wk[w] \in {"spawned", "wanted", "opened", "locked", "blank", "check"}

IdleInvoker == [call |-> "none", at |-> "idle", id |-> NoWorker, polls |-> 0]

TypeOK ==
    /\ path \in Inode \cup {NoInode}
    /\ text \in [Inode -> Worker \cup {NoWorker}]
    /\ owner \in [Inode -> Worker \cup Invoker \cup {Nobody}]
    /\ wk \in [Worker -> {"unborn", "spawned", "wanted", "opened", "locked",
                          "blank", "check", "running", "leaving", "gone"}]
    /\ fd \in [Worker -> Inode \cup {NoInode}]
    /\ inv \in [Invoker -> [call : {"none", "run", "stop"},
                            at : {"idle", "read", "match", "wait", "reap",
                                  "probe", "drop", "remove", "spawn",
                                  "ok", "err"},
                            id : Worker \cup {NoWorker}, polls : 0 .. MaxPolls]]
    /\ signalled \subseteq Worker \cup {Core}
    /\ killed \subseteq Worker \cup {Core}
    /\ session \in Worker \cup {NoWorker}
    /\ {required, spaced} \subseteq BOOLEAN

Init ==
    /\ path = NoInode
    /\ text = [i \in Inode |-> NoWorker]
    /\ owner = [i \in Inode |-> Nobody]
    /\ wk = [w \in Worker |-> "unborn"]
    /\ fd = [w \in Worker |-> NoInode]
    /\ inv = [c \in Invoker |-> IdleInvoker]
    /\ signalled = {} /\ killed = {}
    /\ session = NoWorker
    /\ required \in BOOLEAN
    /\ spaced = TRUE

lockVars == <<path, text, owner>>
workerVars == <<wk, fd, session>>
signalVars == <<signalled, killed>>
worldVars == <<required, spaced>>

-----------------------------------------------------------------------------
(* The worker process: monitor_worker *)

\* The inodes that neither the path nor an open file keeps.
FreeInodes == {i \in Inode : /\ i # path /\ owner[i] = Nobody
                             /\ \A w \in Worker : fd[w] # i}

\* The end of a process closes its files, and so drops its locks.
Released(p) == [i \in Inode |-> IF owner[i] = p THEN Nobody ELSE owner[i]]

\* acquire_monitor_lock: open the path, creating the file if there is none ...
OpenLock(w) ==
    /\ wk[w] = "wanted"
    /\ \/ /\ path # NoInode
          /\ fd' = [fd EXCEPT ![w] = path]
          /\ UNCHANGED <<path, text>>
       \/ /\ path = NoInode
          /\ \E i \in FreeInodes :
               /\ path' = i
               /\ text' = [text EXCEPT ![i] = NoWorker]
               /\ fd' = [fd EXCEPT ![w] = i]
    /\ wk' = [wk EXCEPT ![w] = "opened"]
    /\ UNCHANGED <<owner, inv, signalVars, session, worldVars>>

\* Worker w ends: it returns, or is killed.
Gone(w) ==
    /\ wk' = [wk EXCEPT ![w] = "gone"]
    /\ fd' = [fd EXCEPT ![w] = NoInode]
    /\ owner' = Released(w)
    /\ UNCHANGED <<path, text, inv, signalVars, session, worldVars>>

\* The result of try_lock_exclusive is ignored.
TryLockBug(w) ==
    /\ wk[w] = "opened"
    /\ owner' = [owner EXCEPT ![fd[w]] = IF @ = Nobody THEN w ELSE @]
    /\ wk' = [wk EXCEPT ![w] = "locked"]
    /\ UNCHANGED <<path, text, fd, inv, signalVars, session, worldVars>>

\* ... try its lock, and give up if another process holds it ...
TryLock(w) ==
    /\ wk[w] = "opened"
    /\ \/ /\ owner[fd[w]] = Nobody
          /\ owner' = [owner EXCEPT ![fd[w]] = w]
          /\ wk' = [wk EXCEPT ![w] = "locked"]
          /\ UNCHANGED <<path, text, fd, inv, signalVars, session, worldVars>>
       \/ /\ owner[fd[w]] # Nobody
          /\ Gone(w)

\* ... and replace the identity: set_len(0), then the new text.
ResetIdentity(w) ==
    /\ wk[w] = "locked"
    /\ text' = [text EXCEPT ![fd[w]] = NoWorker]
    /\ wk' = [wk EXCEPT ![w] = "blank"]
    /\ UNCHANGED <<path, owner, fd, inv, signalVars, session, worldVars>>

\* The guard is dropped where it is acquired.
WriteIdentityBug(w) ==
    /\ wk[w] = "blank"
    /\ text' = [text EXCEPT ![fd[w]] = w]
    /\ owner' = Released(w)
    /\ wk' = [wk EXCEPT ![w] = "check"]
    /\ UNCHANGED <<path, fd, inv, signalVars, session, worldVars>>

WriteIdentity(w) ==
    /\ wk[w] = "blank"
    /\ text' = [text EXCEPT ![fd[w]] = w]
    /\ wk' = [wk EXCEPT ![w] = "check"]
    /\ UNCHANGED <<path, owner, fd, inv, signalVars, session, worldVars>>

\* A worker asks whether it is required before it touches the lock, before its
\* loop, and in the loop whenever the event stream fails ...
CheckRequired(w) ==
    /\ \/ required /\ wk[w] = "spawned" /\ wk' = [wk EXCEPT ![w] = "wanted"]
       \/ required /\ wk[w] = "check" /\ wk' = [wk EXCEPT ![w] = "running"]
       \/ /\ ~ required /\ wk[w] \in {"spawned", "check", "running"}
          /\ wk' = [wk EXCEPT ![w] = "leaving"]
    /\ UNCHANGED <<lockVars, fd, inv, signalVars, session, worldVars>>

\* ... and leaves if it is not, whatever has become of that since.
Leave(w) == wk[w] = "leaving" /\ Gone(w)

\* The Wi-Fi policy starts the core.  It is spawned by the worker, and so in
\* the process group that setsid made for the worker.
StartCore(w) ==
    /\ Policy
    /\ wk[w] = "running"
    /\ session' = w
    /\ UNCHANGED <<lockVars, wk, fd, inv, signalVars, worldVars>>

\* A signal takes effect, or the process dies of something else.
WorkerDies(w) ==
    /\ Live(w)
    /\ w \in signalled \/ Crashes
    /\ Gone(w)

-----------------------------------------------------------------------------
(* Commands: monitor::run and monitor::stop *)

At(c, point) == inv' = [inv EXCEPT ![c].at = point]

\* No worker is on its way up or out and no other command is under way.
Settled == /\ \A w \in Worker : ~ Starting(w) /\ wk[w] # "leaving"
           /\ \A c \in Invoker : inv[c].at = "idle"

\* monitor::run looks for a worker or, if none is required, stops it, as
\* monitor::stop does (which does nothing while one is required).
Invoke(c) ==
    /\ inv[c].at = "idle"
    /\ inv' = [inv EXCEPT ![c] =
                 [IdleInvoker EXCEPT !.at = "read",
                                     !.call = IF required THEN "run" ELSE "stop"]]
    /\ spaced' = (spaced /\ Settled)
    /\ UNCHANGED <<lockVars, workerVars, signalVars, required>>

\* read_monitor_identity.
ReadIdentity(c) ==
    /\ inv[c].at = "read"
    /\ inv' = [inv EXCEPT ![c].at = "match",
                          ![c].id = IF path = NoInode THEN NoWorker ELSE text[path]]
    /\ UNCHANGED <<lockVars, workerVars, signalVars, worldVars>>

\* monitor_identity_matches.
Verified(id) == id # NoWorker /\ Live(id)

\* signal_monitor_process_group: the worker's process group and the worker.
Signal(w) == signalled' = signalled \cup {w} \cup
                            (IF session = w THEN {Core} ELSE {})

\* A verified worker answers monitor::run, or is sent SIGTERM by a stop; with
\* none, the lock tells whether an unverified one is there.
MatchIdentity(c) ==
    /\ inv[c].at = "match"
    /\ \/ /\ ~ Verified(inv[c].id)
          /\ At(c, "probe")
          /\ UNCHANGED signalVars
       \/ /\ Verified(inv[c].id) /\ inv[c].call = "run"
          /\ At(c, "ok")
          /\ UNCHANGED signalVars
       \/ /\ Verified(inv[c].id) /\ inv[c].call = "stop"
          /\ Signal(inv[c].id)
          /\ At(c, "wait")
          /\ UNCHANGED killed
    /\ UNCHANGED <<lockVars, workerVars, worldVars>>

\* The poll's question, and the one asked again before SIGKILL.
StillThere(c) == Verified(inv[c].id)

\* One poll too many.
MorePollsBug(c) == inv[c].polls <= MaxPolls

MorePolls(c) == inv[c].polls < MaxPolls

\* The wait after SIGTERM, which ends in SIGKILL, ...
WaitForWorker(c) ==
    /\ inv[c].at = "wait"
    /\ \/ /\ ~ StillThere(c) /\ MorePolls(c)
          /\ At(c, "probe")
          /\ UNCHANGED signalVars
       \/ /\ StillThere(c) /\ MorePolls(c)
          /\ inv' = [inv EXCEPT ![c].polls = @ + 1]
          /\ UNCHANGED signalVars
       \/ /\ ~ StillThere(c) /\ ~ MorePolls(c)
          /\ At(c, "err")
          /\ UNCHANGED signalVars
       \/ /\ StillThere(c) /\ ~ MorePolls(c)
          /\ Signal(inv[c].id)
          /\ killed' = killed \cup {inv[c].id}
          /\ inv' = [inv EXCEPT ![c].at = "reap", ![c].polls = 0]
    /\ UNCHANGED <<lockVars, workerVars, worldVars>>

\* After SIGKILL the lock file goes, whether the worker is seen to go or not.
ReapWorkerBug(c) ==
    /\ inv[c].at = "reap"
    /\ At(c, "remove")
    /\ UNCHANGED <<lockVars, workerVars, signalVars, worldVars>>

\* ... and the wait after SIGKILL, which ends in an error.
ReapWorker(c) ==
    /\ inv[c].at = "reap"
    /\ \/ /\ ~ StillThere(c) /\ MorePolls(c)
          /\ At(c, "probe")
       \/ /\ StillThere(c) /\ MorePolls(c)
          /\ inv' = [inv EXCEPT ![c].polls = @ + 1]
       \/ /\ ~ MorePolls(c)
          /\ At(c, "err")
    /\ UNCHANGED <<lockVars, workerVars, signalVars, worldVars>>

\* try_lock_exclusive fails: another process holds the lock of the open file.
LockHeld == owner[path] # Nobody

\* A probe that tries again until it has the lock.
ProbeLockBug(c) ==
    /\ inv[c].at = "probe"
    /\ \/ path = NoInode /\ At(c, "remove") /\ UNCHANGED owner
       \/ path # NoInode /\ LockHeld /\ UNCHANGED <<inv, owner>>
       \/ /\ path # NoInode /\ ~ LockHeld
          /\ owner' = [owner EXCEPT ![path] = c]
          /\ At(c, "drop")
    /\ UNCHANGED <<path, text, workerVars, signalVars, worldVars>>

\* monitor_lock_is_held: open the path and try the lock.  The probe itself
\* holds the lock until it closes the file.
ProbeLock(c) ==
    /\ inv[c].at = "probe"
    /\ \/ /\ path = NoInode
          /\ At(c, "remove")
          /\ UNCHANGED owner
       \/ /\ path # NoInode
          /\ LockHeld
          /\ At(c, IF inv[c].call = "run" THEN "ok" ELSE "err")
          /\ UNCHANGED owner
       \/ /\ path # NoInode
          /\ ~ LockHeld
          /\ owner' = [owner EXCEPT ![path] = c]
          /\ At(c, "drop")
    /\ UNCHANGED <<path, text, workerVars, signalVars, worldVars>>

CloseProbe(c) ==
    /\ inv[c].at = "drop"
    /\ owner' = Released(c)
    /\ At(c, "remove")
    /\ UNCHANGED <<path, text, workerVars, signalVars, worldVars>>

\* remove_file(path), whatever file the path names by now.
RemoveLockFile(c) ==
    /\ inv[c].at = "remove"
    /\ path' = NoInode
    /\ At(c, IF inv[c].call = "run" THEN "spawn" ELSE "ok")
    /\ UNCHANGED <<text, owner, workerVars, signalVars, worldVars>>

\* The command believes the file it has just removed.
SpawnWorkerBug(c) ==
    /\ inv[c].at = "spawn"
    /\ At(c, "ok")
    /\ UNCHANGED <<lockVars, workerVars, signalVars, worldVars>>

\* spawn_monitor_worker does not wait for the worker to take its lock.
SpawnWorker(c) ==
    /\ inv[c].at = "spawn"
    /\ \/ \E w \in Worker :
            /\ wk[w] = "unborn"
            /\ wk' = [wk EXCEPT ![w] = "spawned"]
            /\ At(c, "ok")
       \/ /\ \A w \in Worker : wk[w] # "unborn"     \* the bound on workers
          /\ At(c, "err")
          /\ UNCHANGED wk
    /\ UNCHANGED <<lockVars, fd, session, signalVars, worldVars>>

Answer(c) ==
    /\ inv[c].at \in {"ok", "err"}
    /\ inv' = [inv EXCEPT ![c] = IdleInvoker]
    /\ UNCHANGED <<lockVars, workerVars, signalVars, worldVars>>

\* An invoker is killed; the kernel drops the lock a probe may hold.
InvokerDies(c) ==
    /\ Crashes
    /\ inv[c].at # "idle"
    /\ inv' = [inv EXCEPT ![c] = IdleInvoker]
    /\ owner' = Released(c)
    /\ UNCHANGED <<path, text, workerVars, signalVars, worldVars>>

\* The configuration is edited, the core starts or stops.
RequiredChanges ==
    /\ required' \in Changes \ {required}
    /\ UNCHANGED <<lockVars, workerVars, inv, signalVars, spaced>>

WorkerStep(w) ==
    OpenLock(w) \/ TryLock(w) \/ ResetIdentity(w) \/ WriteIdentity(w)
    \/ CheckRequired(w) \/ Leave(w)

CommandStep(c) ==
    ReadIdentity(c) \/ MatchIdentity(c) \/ WaitForWorker(c) \/ ReapWorker(c)
    \/ ProbeLock(c) \/ CloseProbe(c) \/ RemoveLockFile(c) \/ SpawnWorker(c)
    \/ Answer(c)

Next ==
    \/ \E w \in Worker : WorkerStep(w) \/ StartCore(w) \/ WorkerDies(w)
    \/ \E c \in Invoker : Invoke(c) \/ CommandStep(c) \/ InvokerDies(c)
    \/ RequiredChanges

Spec == Init /\ [][Next]_vars

\* Processes that run keep running; a process that was sent SIGKILL goes.
Fairness ==
    /\ \A c \in Invoker : WF_vars(CommandStep(c))
    /\ \A w \in Worker : WF_vars(WorkerStep(w))
    /\ \A w \in Worker : WF_vars(w \in killed /\ WorkerDies(w))

-----------------------------------------------------------------------------
(* Properties *)

\* stop_monitor_worker answers Ok only when the worker it verified is gone, not
\* on a signal that has merely been sent; and, while commands are spaced, with
\* no worker at all in its loop.
StopOkMeansGone ==
    \A c \in Invoker : inv[c].at = "ok" /\ inv[c].call = "stop" =>
        /\ ~ Verified(inv[c].id)
        /\ spaced => \A w \in Worker : wk[w] # "running"

\* A worker is only ever signalled when it holds a lock and its identity is in
\* the file it holds: one that is starting up, or lost the lock, is never hit.
SignalsOwnersOnly ==
    \A w \in Worker \cap signalled : Live(w) =>
        fd[w] # NoInode /\ owner[fd[w]] = w /\ text[fd[w]] = w

\* While commands are spaced so that each finds the last one's worker settled,
\* a worker that runs can be found: the path names the file whose lock it holds
\* and whose text is its identity.  Hence no two workers run.
WorkerCanBeFound ==
    spaced => \A w \in Worker : wk[w] = "running" =>
        path # NoInode /\ owner[path] = w /\ text[path] = w

\* Every command answers: the waits are bounded and the probes do not block.
CommandAnswers ==
    \A c \in Invoker : inv[c].at # "idle" ~> inv[c].at = "idle"

\* While the monitor is required, a command that looked for one is followed by
\* a running worker, although probes make starting workers give up.
RunLeadsToWorker ==
    \A c \in Invoker :
        inv[c].at = "ok" /\ inv[c].call = "run"
          ~> (\E w \in Worker : wk[w] = "running") \/ ~ required

=============================================================================
