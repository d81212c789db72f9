------------------------------ MODULE BoxControl ------------------------------
(***************************************************************************)
(* The commands of boxctl that change the running box: up, down, restart,  *)
(* service start | stop | restart, mode apply | clear | renew, and the     *)
(* Wi-Fi policy's "start / stop the service if needed".                    *)
(*                                                                         *)
(* A command holds the operation lock and runs up to two threads that it   *)
(* joins: one for the core (CoreService) and one for the rules             *)
(* (RuleManager).  It has loaded its configuration before it asked for the *)
(* lock, and the policy has looked for the core before, too.               *)
(*                                                                         *)
(* Abstractions.  core_config::sync and monitor::run succeed or fail;      *)
(* MonitorLock models the latter.                                          *)
(***************************************************************************)
EXTENDS CoreService, RuleManager

CONSTANTS
    Op,         \* commands that may be run (bounds a run)
    MaxJobs     \* how many commands are run (bounds a run)

Policies == {"policyUp", "policyDown"}
Ups == {"up", "policyUp", "restart"}
Downs == {"down", "policyDown"}

ASSUME OpAssumption ==
    /\ Op \subseteq Ups \cup Downs \cup {"apply", "clear", "renew", "svcStart",
                                         "svcStop", "svcRestart"}
    /\ MaxJobs \in Nat

VARIABLES
    job,        \* the command each boxctl process runs
    jobs        \* commands run so far

boxVars == <<vars, ruleVars, job, jobs>>

Phases == {"none", "look", "wait", "sync", "up", "down", "one", "monitor",
           "back", "ok", "err"}

NoJob == [op |-> "none", phase |-> "none", conf |-> config, bin |-> AnyBin]

BoxInit == Init /\ RulesInit /\ job = [c \in Cmd |-> NoJob] /\ jobs = 0

-----------------------------------------------------------------------------
(* Threads *)

ToPhase(c, phase) == job' = [job EXCEPT ![c].phase = phase]

\* thread::scope: run call s of the service and call r of the rules.
Launch(c, s, r) ==
    /\ svc' = [svc EXCEPT ![c] = IF s = "none" THEN NoThread
                                 ELSE Called(s, job[c].bin)]
    /\ rt' = IF r = "none" THEN NoManager ELSE Manager(r, job[c].conf)

\* The rules thread is joined and the service thread is not.
JoinedBug(c) == rt.at \in {"idle", "ok", "err"}

\* A thread that failed is waited for.
JoinedOkBug(c) ==
    /\ svc[c].at \in {"idle", "ok"}
    /\ ~ (svc[c].op = "restart" /\ svc[c].at = "ok")
    /\ rt.at \in {"idle", "ok"}

\* Both threads have ended.
Joined(c) ==
    /\ svc[c].at \in {"idle", "ok", "err"}
    /\ ~ (svc[c].op = "restart" /\ svc[c].at = "ok")
    /\ rt.at \in {"idle", "ok", "err"}

Failed(c) == svc[c].at = "err" \/ rt.at = "err"

unchangedBoth == <<lookup, core, pidfile, config, rules, stuck, sysIpv6,
                   snap, jobs>>

-----------------------------------------------------------------------------
(* Before the lock *)

\* The process parses its command and loads its configuration.
BeginJob(c, op, b) ==
    /\ job[c].phase = "none" /\ cmd[c] = "idle"
    /\ jobs < MaxJobs
    /\ op \in Policies => c \in Reader
    /\ jobs' = jobs + 1
    /\ job' = [job EXCEPT ![c] =
                 [op |-> op, phase |-> IF op \in Policies THEN "look" ELSE "wait",
                  conf |-> config, bin |-> b]]
    /\ cmd' = [cmd EXCEPT ![c] = IF op \in Policies THEN "idle" ELSE "wait"]
    /\ UNCHANGED <<lock, svc, lookup, core, pidfile, ruleVars>>

\* start_service_if_needed, stop_service_if_needed: is_running, without the
\* lock; if the core is as wanted there is nothing to do.
Look(c) ==
    /\ job[c].phase = "look"
    /\ ReaderRead(c, job[c].bin)
    /\ UNCHANGED <<ruleVars, job, jobs>>

Judge(c) ==
    /\ job[c].phase = "look"
    /\ lookup[c].seen # Unread
    /\ pidfile' = AfterLookup(lookup[c].seen, job[c].bin)
    /\ lookup' = [lookup EXCEPT ![c].seen = Unread]
    /\ IF Matches(lookup[c].seen, job[c].bin) <=> job[c].op = "policyUp"
       THEN /\ job' = [job EXCEPT ![c] = NoJob]
            /\ UNCHANGED cmd
       ELSE /\ ToPhase(c, "wait")
            /\ cmd' = [cmd EXCEPT ![c] = "wait"]
    /\ UNCHANGED <<lock, svc, core, ruleVars, jobs>>

-----------------------------------------------------------------------------
(* Under the lock *)

FirstPhase(op) ==
    CASE op \in {"up", "policyUp"} -> "sync"
      [] op \in Downs \cup {"restart"} -> "down"
      [] OTHER -> "one"

ServiceCall(op) ==
    CASE op \in Downs \cup {"restart", "svcStop"} -> "stop"
      [] op = "svcStart" -> "start"
      [] op = "svcRestart" -> "restart"
      [] OTHER -> "none"

RulesCall(op) ==
    CASE op \in Downs \cup {"restart"} -> "clear"
      [] op \in {"apply", "clear", "renew"} -> op
      [] OTHER -> "none"

AcquireLock(c) ==
    /\ cmd[c] = "wait"
    /\ LockFree
    /\ lock' = c
    /\ cmd' = [cmd EXCEPT ![c] = "run"]
    /\ ToPhase(c, FirstPhase(job[c].op))
    /\ Launch(c, ServiceCall(job[c].op), RulesCall(job[c].op))
    /\ UNCHANGED unchangedBoth

\* The two threads of the lock holder.
ServiceThread(c) ==
    /\ cmd[c] = "run"
    /\ \/ ServiceStep(c) /\ UNCHANGED <<lock, cmd>>
       \/ StartAfterStop(c)
    /\ UNCHANGED <<ruleVars, job, jobs>>

RulesThread(c) ==
    /\ lock = c
    /\ RuleStep
    /\ UNCHANGED <<vars, job, jobs>>

\* up_inner: core_config::sync, whose failure leaves all as it is; then both
\* threads.
SyncConfig(c) ==
    /\ job[c].phase = "sync"
    /\ \/ ToPhase(c, "up") /\ Launch(c, "start", "apply")
       \/ ToPhase(c, "err") /\ UNCHANGED <<svc, rt>>
    /\ UNCHANGED <<lock, cmd, unchangedBoth>>

\* Only the rules are undone.
RollBackBug(c) == ToPhase(c, "back") /\ Launch(c, "none", "clear")

\* rollback_startup: both are undone, whichever failed.
RollBack(c) == ToPhase(c, "back") /\ Launch(c, "stop", "clear")

\* Only the core is looked at: rules that could not be applied are missed.
JoinUpBug(c) ==
    /\ job[c].phase = "up" /\ Joined(c)
    /\ IF svc[c].at = "err"
       THEN RollBack(c)
       ELSE /\ ToPhase(c, IF job[c].op = "policyUp" THEN "ok" ELSE "monitor")
            /\ UNCHANGED <<svc, rt>>
    /\ UNCHANGED <<lock, cmd, unchangedBoth>>

\* up_inner, both threads joined: either failure undoes both.
JoinUp(c) ==
    /\ job[c].phase = "up" /\ Joined(c)
    /\ IF Failed(c)
       THEN RollBack(c)
       ELSE /\ ToPhase(c, IF job[c].op = "policyUp" THEN "ok" ELSE "monitor")
            /\ UNCHANGED <<svc, rt>>
    /\ UNCHANGED <<lock, cmd, unchangedBoth>>

\* down_inner, both threads joined: a failure of either is the answer.
JoinDown(c) ==
    /\ job[c].phase = "down" /\ Joined(c)
    /\ ToPhase(c, IF Failed(c) THEN "err"
                  ELSE CASE job[c].op = "restart"    -> "sync"
                         [] job[c].op = "down"       -> "monitor"
                         [] job[c].op = "policyDown" -> "ok")
    /\ UNCHANGED <<lock, cmd, svc, rt, unchangedBoth>>

\* monitor::run, after up (whose failure undoes up) or after down.
RunMonitor(c) ==
    /\ job[c].phase = "monitor"
    /\ \/ ToPhase(c, "ok") /\ UNCHANGED <<svc, rt>>
       \/ job[c].op = "down" /\ ToPhase(c, "err") /\ UNCHANGED <<svc, rt>>
       \/ job[c].op # "down" /\ RollBack(c)
    /\ UNCHANGED <<lock, cmd, unchangedBoth>>

\* The end of a rollback, whatever became of it, is the failure of up; the end
\* of a single thread is the answer of its command.
JoinLast(c) ==
    /\ job[c].phase \in {"back", "one"} /\ Joined(c)
    /\ ToPhase(c, IF job[c].phase = "one" /\ ~ Failed(c) THEN "ok" ELSE "err")
    /\ UNCHANGED <<lock, cmd, svc, rt, unchangedBoth>>

LeaveLock(c) ==
    /\ lock' = NoCmd
    /\ cmd' = [cmd EXCEPT ![c] = "idle"]
    /\ svc' = [svc EXCEPT ![c] = NoThread]
    /\ rt' = NoManager
    /\ job' = [job EXCEPT ![c] = NoJob]
    /\ UNCHANGED unchangedBoth

Answer(c) == job[c].phase \in {"ok", "err"} /\ LeaveLock(c)

\* boxctl is killed, with both of its threads.
CrashJob(c) == Faulty /\ lock = c /\ LeaveLock(c)

JobStep(c) ==
    \/ ServiceThread(c) \/ RulesThread(c) \/ SyncConfig(c) \/ JoinUp(c)
    \/ JoinDown(c) \/ RunMonitor(c) \/ JoinLast(c) \/ Answer(c)

-----------------------------------------------------------------------------
CoreExits(p) == CoreExit(p) /\ UNCHANGED <<ruleVars, job, jobs>>

EditConfig == Edit /\ UNCHANGED <<vars, job, jobs>>

\* The user waits for the end of every command.
QuietEdit == EditConfig /\ \A c \in Cmd : job[c].phase = "none"

BoxStep ==
    \/ \E c \in Cmd :
         \/ \E op \in Op, b \in Bin : BeginJob(c, op, b)
         \/ Judge(c) \/ AcquireLock(c) \/ JobStep(c) \/ CrashJob(c)
    \/ \E c \in Cmd \cap Reader : Look(c)
    \/ \E p \in Pid : CoreExits(p)

BoxNext == BoxStep \/ EditConfig

BoxSpec == BoxInit /\ [][BoxNext]_boxVars

\* No command runs while the configuration changes.
QuietSpec == BoxInit /\ [][BoxStep \/ QuietEdit]_boxVars

\* Threads run to their end: every wait in them is bounded.
BoxFairness ==
    /\ \A c \in Cmd : /\ WF_boxVars(ServiceThread(c))
                      /\ WF_boxVars(RulesThread(c))
                      /\ WF_boxVars(SyncConfig(c) \/ JoinUp(c) \/ JoinDown(c)
                                    \/ RunMonitor(c) \/ JoinLast(c) \/ Answer(c))
    /\ \A p \in Pid : WF_boxVars(core[p] = "killed" /\ CoreExits(p))

BoxFairSpec == BoxSpec /\ BoxFairness

-----------------------------------------------------------------------------
(* Properties *)

\* The box is down: no core runs, no rule is left and the system's IPv6 is on,
\* unless undoing one was tried and failed.
Down ==
    /\ \A p \in Pid : ~ Running(p)
    /\ Emptied /\ snap = NoSnap

\* The box is up as command c wants it: its own core is the one that runs
\* (unless it has exited since), and exactly its configuration's rules are
\* installed.
Up(c) ==
    /\ svc[c].child \in Pid
    /\ \A p \in Pid : Running(p) => p = svc[c].child
    /\ Exact(job[c].conf)

\* up, restart, down and the policy answer Ok only when it is true of core and
\* rules together: the two threads, the rollback, an edit while the command
\* waited for the lock and what killed commands left do not mix.
OkMeansDone ==
    \A c \in Cmd : job[c].phase = "ok" =>
        /\ job[c].op \in Ups => Up(c)
        /\ job[c].op \in Downs => Down

\* A failed start whose rollback worked leaves the box down, not half up, even
\* if the box was up before.
RolledBackMeansDown ==
    \A c \in Cmd : job[c].phase = "back" /\ Joined(c) /\ ~ Failed(c) => Down

\* Every command that gets the lock gives it back: no thread waits for the
\* other, or for a core that does not react.
BoxLockReleased == \A c \in Cmd : lock = c ~> lock # c

=============================================================================
