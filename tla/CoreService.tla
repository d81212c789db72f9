----------------------------- MODULE CoreService -----------------------------
(***************************************************************************)
(* The life of the proxy core process and of its pid file: the commands    *)
(* `boxctl service start | stop | restart`, serialised by the operation    *)
(* lock, while other boxctl processes (a `status`, a `monitor` command, the*)
(* monitor worker) look the core up without that lock.                     *)
(*                                                                         *)
(* A lookup is not read-only: pid_from_file_if_core deletes a pid file     *)
(* whose text it does not like, and the text may have been rewritten since *)
(* it was read.  Each file operation is therefore a step of its own.       *)
(*                                                                         *)
(* Abstractions.  Pids are not reused.  taskset's exec is part of the      *)
(* spawn.  Scanning /proc and signalling what was found are one step: only *)
(* the lock holder adds processes, so the two commute with a core's death. *)
(***************************************************************************)
EXTENDS Naturals

CONSTANTS
    Cmd,        \* boxctl processes that run commands under the lock
    Reader,     \* boxctl processes that look the core up without the lock
    Pid,        \* core processes that may ever be spawned (bounds a run)
    Bin,        \* known core programs, bin_list in the configuration
    BinOf,      \* the program a process runs
    MaxPolls,   \* polls that fit in STOP_WAIT_TOTAL_MS
    NoCmd, NoPid,
    Absent,     \* there is no pid file
    Empty,      \* the pid file is there and has no text yet
    Unread      \* the pid file's text has not been read yet

ASSUME ConstAssumption ==
    /\ Bin # {}
    /\ BinOf \in [Pid -> Bin]
    /\ MaxPolls \in Nat
    /\ NoCmd \notin Cmd
    /\ NoPid \notin Pid
    /\ {Absent, Empty, Unread} \cap Pid = {}
    /\ Absent # Empty /\ Absent # Unread /\ Empty # Unread

VARIABLES
    lock,       \* holder of flock(state/control.lock)
    cmd,        \* where each command stands with the lock
    svc,        \* the service thread of each command
    lookup,     \* the lookup each unlocked reader has under way
    core,       \* life of each core process
    pidfile     \* content of run/box.pid

vars == <<lock, cmd, svc, lookup, core, pidfile>>

Text == Pid \cup {Absent, Empty}

\* Where a service thread is.  "scan", "poll" and "kill" are the three calls
\* of running_core_pids; "exists" and "unlink" are the two halves of remove_pid.
ScanPoints == {"scan", "poll", "kill"}
StopPoints == ScanPoints \cup {"exists", "unlink"}
StartPoints == {"validate", "prepare", "spawn", "truncate", "write", "probe"}
Points == StopPoints \cup StartPoints \cup {"idle", "ok", "err"}

\* A service thread: the call it makes, where it is, the configured program,
\* the text its lookup read, the polls it has made, the process it spawned.
Thread == [op : {"none", "start", "stop", "restart"}, at : Points, bin : Bin,
           seen : Text \cup {Unread}, polls : 0 .. MaxPolls,
           child : Pid \cup {NoPid}]

\* A thread that is not running; its program means nothing.
AnyBin == CHOOSE b \in Bin : TRUE

NoThread == [op |-> "none", at |-> "idle", bin |-> AnyBin, seen |-> Unread,
             polls |-> 0, child |-> NoPid]

TypeOK ==
    /\ lock \in Cmd \cup {NoCmd}
    /\ cmd \in [Cmd -> {"idle", "wait", "run"}]
    /\ svc \in [Cmd -> Thread]
    /\ lookup \in [Reader -> [bin : Bin, seen : Text \cup {Unread}]]
    /\ core \in [Pid -> {"unborn", "live", "termed", "killed", "gone"}]
    /\ pidfile \in Text

Init ==
    /\ lock = NoCmd
    /\ cmd = [c \in Cmd |-> "idle"]
    /\ svc = [c \in Cmd |-> NoThread]
    /\ lookup = [r \in Reader |-> [bin |-> AnyBin, seen |-> Unread]]
    /\ core = [p \in Pid |-> "unborn"]
    /\ pidfile = Absent

-----------------------------------------------------------------------------
(* Processes and the pid file *)

\* The process shows in /proc.
InProc(p) == core[p] \in {"live", "termed", "killed"}

\* The process runs and has not been sent the signal it cannot refuse.
Running(p) == core[p] \in {"live", "termed"}

\* pid_matches_core: /proc knows the pid and it runs the configured program.
Matches(text, bin) == /\ text \in Pid
                      /\ InProc(text)
                      /\ BinOf[text] = bin

\* A core found by its pid file only, and not by scanning /proc.
RunningCorePidsBug(text, bin) == {p \in Pid : p = text /\ Matches(text, bin)}

\* running_core_pids: what the pid file names, and every process of /proc that
\* runs one of the known cores.
RunningCorePids(text, bin) ==
    {p \in Pid : InProc(p) \/ (p = text /\ Matches(text, bin))}

\* A lookup that leaves a stale file in place.
AfterLookupBug(text, bin) == pidfile

\* pid_from_file_if_core on the text read earlier: a text that names no running
\* core has the file removed, whatever the file holds by now.
AfterLookup(text, bin) ==
    IF text = Absent \/ Matches(text, bin) THEN pidfile ELSE Absent

\* runner.signal to each process of a set.
Signalled(ps, state) ==
    [p \in Pid |-> IF p \in ps /\ Running(p) THEN state ELSE core[p]]

-----------------------------------------------------------------------------
(* The service thread: service::start_inner and service::stop *)

\* Move thread c to a point, forgetting the text of its last lookup.
Goto(c, point) ==
    svc' = [svc EXCEPT ![c] = [@ EXCEPT !.at = point, !.seen = Unread]]

\* A thread about to run service::start or service::stop (restart runs stop
\* and, if that succeeds, start).
Called(o, b) ==
    [op |-> o, at |-> IF o = "start" THEN "validate" ELSE "scan", bin |-> b,
     seen |-> Unread, polls |-> 0, child |-> NoPid]

\* Where stop_pids and the removal of the pid file lead: start goes on.
AfterStop(c) == IF svc[c].op = "start" THEN "prepare" ELSE "ok"

\* ensure_dirs, validate_core and clear_run_log.
Validate(c) ==
    /\ svc[c].at = "validate"
    /\ \E point \in {"scan", "err"} : Goto(c, point)
    /\ UNCHANGED <<lookup, core, pidfile>>

\* running_core_pids, first half: read the pid file.
ReadPidFile(c) ==
    /\ svc[c].at \in ScanPoints
    /\ svc[c].seen = Unread
    /\ svc' = [svc EXCEPT ![c].seen = pidfile]
    /\ UNCHANGED <<lookup, core, pidfile>>

\* running_core_pids, second half, and the caller's use of the answer.
Scanned(c) == RunningCorePids(svc[c].seen, svc[c].bin)

ScanPids(c) ==
    /\ svc[c].at = "scan"
    /\ svc[c].seen # Unread
    /\ pidfile' = AfterLookup(svc[c].seen, svc[c].bin)
    /\ \/ /\ Scanned(c) = {}
          /\ Goto(c, IF svc[c].op = "start" THEN "prepare" ELSE "exists")
          /\ UNCHANGED core
       \/ /\ Scanned(c) # {}
          /\ core' = Signalled(Scanned(c), "termed")
          /\ svc' = [svc EXCEPT ![c] = [@ EXCEPT !.at = "poll", !.seen = Unread,
                                                 !.polls = 0]]
    /\ UNCHANGED lookup

\* One poll too many.
MayWaitBug(c) == svc[c].polls <= MaxPolls

\* The clock against the deadline, counted in polls.
MayWait(c) == svc[c].polls < MaxPolls
DeadlinePassed(c) == svc[c].polls = MaxPolls

\* One turn of stop_pids' loop: done, wait again, or the deadline has passed.
Poll(c) ==
    /\ svc[c].at = "poll"
    /\ svc[c].seen # Unread
    /\ pidfile' = AfterLookup(svc[c].seen, svc[c].bin)
    /\ \/ /\ Scanned(c) = {}
          /\ Goto(c, "exists")
       \/ /\ Scanned(c) # {}
          /\ MayWait(c)
          /\ svc' = [svc EXCEPT ![c] = [@ EXCEPT !.polls = svc[c].polls + 1,
                                                 !.seen = Unread]]
       \/ /\ Scanned(c) # {}
          /\ DeadlinePassed(c)
          /\ Goto(c, "kill")
    /\ UNCHANGED <<lookup, core>>

\* Only the core that the pid file still names.
ToKillBug(c) == {p \in Scanned(c) : p = svc[c].seen}

\* The processes the deadline kills: those found by looking again.
ToKill(c) == Scanned(c)

\* After the deadline: look again, SIGKILL what is left, verify nothing.
Kill(c) ==
    /\ svc[c].at = "kill"
    /\ svc[c].seen # Unread
    /\ pidfile' = AfterLookup(svc[c].seen, svc[c].bin)
    /\ core' = Signalled(ToKill(c), "killed")
    /\ Goto(c, "exists")
    /\ UNCHANGED lookup

\* remove_pid, first half: box_pid.exists().
PidFileExists(c) ==
    /\ svc[c].at = "exists"
    /\ Goto(c, IF pidfile = Absent THEN AfterStop(c) ELSE "unlink")
    /\ UNCHANGED <<lookup, core, pidfile>>

\* remove_pid, second half: remove_file fails if the file went meanwhile.
UnlinkPidFile(c) ==
    /\ svc[c].at = "unlink"
    /\ pidfile' = Absent
    /\ Goto(c, IF pidfile = Absent THEN "err" ELSE AfterStop(c))
    /\ UNCHANGED <<lookup, core>>

\* prepare_permissions and run_config_check.
Prepare(c) ==
    /\ svc[c].at = "prepare"
    /\ \E point \in {"spawn", "err"} : Goto(c, point)
    /\ UNCHANGED <<lookup, core, pidfile>>

\* spawn_to_file_with_env_as: the core runs, nothing records it yet.
SpawnCore(c) ==
    /\ svc[c].at = "spawn"
    /\ \/ \E p \in Pid :
            /\ core[p] = "unborn"
            /\ BinOf[p] = svc[c].bin
            /\ core' = [core EXCEPT ![p] = "live"]
            /\ svc' = [svc EXCEPT ![c] = [@ EXCEPT !.at = "truncate",
                                                   !.child = p]]
       \/ /\ Goto(c, "err")
          /\ UNCHANGED core
    /\ UNCHANGED <<lookup, pidfile>>

\* fs::write(box_pid), first half: open creates or truncates the file.
TruncatePidFile(c) ==
    /\ svc[c].at = "truncate"
    /\ \/ pidfile' = Empty /\ Goto(c, "write")
       \/ pidfile' = pidfile /\ Goto(c, "err")
    /\ UNCHANGED <<lookup, core>>

\* Second half: the text reaches the inode opened before, which may have been
\* unlinked by a lookup that found the file empty.
WritePidFile(c) ==
    /\ svc[c].at = "write"
    /\ \/ /\ pidfile' = IF pidfile = Empty THEN svc[c].child ELSE pidfile
          /\ Goto(c, "probe")
       \/ pidfile' = pidfile /\ Goto(c, "err")
    /\ UNCHANGED <<lookup, core>>

\* STARTUP_PROBE_DELAY_MS later: is the core still there?  resource::apply,
\* which follows, reports no error and touches none of this state.
Probe(c) ==
    /\ svc[c].at = "probe"
    /\ \/ /\ Matches(svc[c].child, svc[c].bin)
          /\ Goto(c, "ok")
          /\ UNCHANGED pidfile
       \/ /\ ~ Matches(svc[c].child, svc[c].bin)
          /\ Goto(c, "err")
          /\ pidfile' = Absent
    /\ UNCHANGED <<lookup, core>>

ServiceStep(c) ==
    \/ Validate(c) \/ ReadPidFile(c) \/ ScanPids(c) \/ Poll(c) \/ Kill(c)
    \/ PidFileExists(c) \/ UnlinkPidFile(c) \/ Prepare(c) \/ SpawnCore(c)
    \/ TruncatePidFile(c) \/ WritePidFile(c) \/ Probe(c)

-----------------------------------------------------------------------------
(* Commands and the operation lock *)

LockFree == lock = NoCmd

\* A user, a script or the monitor runs a service command.
Begin(c, o, b) ==
    /\ cmd[c] = "idle"
    /\ cmd' = [cmd EXCEPT ![c] = "wait"]
    /\ svc' = [svc EXCEPT ![c] = [@ EXCEPT !.op = o, !.bin = b]]
    /\ UNCHANGED <<lock, lookup, core, pidfile>>

\* OperationLock::acquire: flock(LOCK_EX) blocks until the lock is free.
Acquire(c) ==
    /\ cmd[c] = "wait"
    /\ LockFree
    /\ lock' = c
    /\ cmd' = [cmd EXCEPT ![c] = "run"]
    /\ svc' = [svc EXCEPT ![c] = Called(svc[c].op, svc[c].bin)]
    /\ UNCHANGED <<lookup, core, pidfile>>

\* restart: stop succeeded, start follows under the same lock.
StartAfterStop(c) ==
    /\ svc[c].at = "ok"
    /\ svc[c].op = "restart"
    /\ svc' = [svc EXCEPT ![c] = Called("start", svc[c].bin)]
    /\ UNCHANGED <<lock, cmd, lookup, core, pidfile>>

\* The command returns and drops the lock.
Return(c) ==
    /\ cmd[c] = "run"
    /\ \/ svc[c].at = "err"
       \/ svc[c].at = "ok" /\ svc[c].op # "restart"
    /\ lock' = NoCmd
    /\ cmd' = [cmd EXCEPT ![c] = "idle"]
    /\ svc' = [svc EXCEPT ![c] = NoThread]
    /\ UNCHANGED <<lookup, core, pidfile>>

\* boxctl is killed: the kernel drops its lock; the core it may have spawned
\* is not its dependant and stays.
Crash(c) ==
    /\ cmd[c] = "run"
    /\ lock' = NoCmd
    /\ cmd' = [cmd EXCEPT ![c] = "idle"]
    /\ svc' = [svc EXCEPT ![c] = NoThread]
    /\ UNCHANGED <<lookup, core, pidfile>>

-----------------------------------------------------------------------------
(* Unlocked readers and the core itself *)

\* is_running, current_core_pid, service::status: read the pid file ...
ReaderRead(r, b) ==
    /\ lookup[r].seen = Unread
    /\ lookup' = [lookup EXCEPT ![r] = [bin |-> b, seen |-> pidfile]]
    /\ UNCHANGED <<lock, cmd, svc, core, pidfile>>

\* ... and judge it later, removing the file if the text names no core.
ReaderResolve(r) ==
    /\ lookup[r].seen # Unread
    /\ pidfile' = AfterLookup(lookup[r].seen, lookup[r].bin)
    /\ lookup' = [lookup EXCEPT ![r].seen = Unread]
    /\ UNCHANGED <<lock, cmd, svc, core>>

\* The core exits: of itself, on SIGTERM or by SIGKILL.
CoreExit(p) ==
    /\ InProc(p)
    /\ core' = [core EXCEPT ![p] = "gone"]
    /\ UNCHANGED <<lock, cmd, svc, lookup, pidfile>>

\* The step of a command's service thread.
CommandStep(c) ==
    /\ cmd[c] = "run"
    /\ ServiceStep(c)
    /\ UNCHANGED <<lock, cmd>>

Next ==
    \/ \E c \in Cmd :
         \/ \E o \in {"start", "stop", "restart"}, b \in Bin : Begin(c, o, b)
         \/ Acquire(c) \/ CommandStep(c) \/ StartAfterStop(c) \/ Return(c)
         \/ Crash(c)
    \/ \E r \in Reader : (\E b \in Bin : ReaderRead(r, b)) \/ ReaderResolve(r)
    \/ \E p \in Pid : CoreExit(p)

Spec == Init /\ [][Next]_vars

-----------------------------------------------------------------------------
(* Properties *)

\* Whoever crashes where, and whatever unlocked lookups do to the pid file,
\* service::start never leaves two cores running: the second is spawned only
\* when every earlier one has exited or has been sent SIGKILL.
SingleCore == \A p, q \in Pid : Running(p) /\ Running(q) => p = q

\* A pid file never names one core while another runs: a reader that finds a
\* pid and matches it has found the core that start last spawned.
PidFileNamesCore ==
    pidfile \in Pid => \A p \in Pid : Running(p) => p = pidfile

\* service::stop answers Ok only with every core exited or killed, although
\* after the deadline it looks no more.
StopOkMeansStopped ==
    \A c \in Cmd : svc[c].at = "ok" /\ svc[c].op \in {"stop", "restart"}
                     => \A p \in Pid : ~ Running(p)

\* service::start answers Ok with the core it spawned the only one running and
\* named by the pid file, which an unlocked lookup may have removed.
StartOkTracksCore ==
    \A c \in Cmd : svc[c].at = "ok" /\ svc[c].op = "start" =>
        /\ \A p \in Pid : Running(p) => p = svc[c].child
        /\ pidfile = svc[c].child \/ (Reader # {} /\ pidfile = Absent)

=============================================================================
