-------------------------- MODULE CoreServiceProofs --------------------------
(***************************************************************************)
(* Proofs about CoreService: its type invariant, and that no interleaving  *)
(* of commands, crashes and unlocked lookups leaves two cores running or a *)
(* pid file that names one core while another runs.                        *)
(***************************************************************************)
EXTENDS CoreService, TLAPS

NoneRunning == \A p \in Pid : ~ Running(p)

OnlyChildRuns(c) == \A p \in Pid : Running(p) => p = svc[c].child

\* The pid file holds what the thread put there, unless a lookup removed it.
Holds(text) == pidfile = text \/ (Reader # {} /\ pidfile = Absent)

\* What a service thread may rely on at each point, given that it is alone.
ThreadInv(c) ==
    /\ svc[c].at \in StartPoints => svc[c].op = "start"
    /\ svc[c].at \in ScanPoints /\ svc[c].seen = Absent => pidfile = Absent
    /\ svc[c].at \in {"exists", "unlink", "prepare", "spawn"} => NoneRunning
    /\ svc[c].at \in {"prepare", "spawn", "truncate"} => pidfile = Absent
    /\ svc[c].at \in {"truncate", "write", "probe"} =>
         svc[c].child \in Pid /\ OnlyChildRuns(c)
    /\ svc[c].at = "write" => Holds(Empty)
    /\ svc[c].at = "probe" => Holds(svc[c].child)
    /\ svc[c].at = "ok" /\ svc[c].op # "start" => NoneRunning
    /\ svc[c].at = "ok" /\ svc[c].op = "start" =>
         svc[c].child \in Pid /\ OnlyChildRuns(c) /\ Holds(svc[c].child)

ServiceInv ==
    /\ \A c \in Cmd : ThreadInv(c)
    /\ SingleCore
    /\ PidFileNamesCore

\* No other command has a service thread.
Alone(c) == \A d \in Cmd : d # c => svc[d].at = "idle"

\* The operation lock: a service thread runs in its holder only.
LockInv ==
    \A c \in Cmd : /\ svc[c].at # "idle" => cmd[c] = "run"
                   /\ cmd[c] = "run" => lock = c

\* A command that waits for the lock knows what it will run.
WaitInv ==
    \A c \in Cmd :
        cmd[c] = "wait" => svc[c].op \in {"start", "stop", "restart"}

IInv == TypeOK /\ LockInv /\ WaitInv /\ ServiceInv

-----------------------------------------------------------------------------

LEMMA AnyBinType == AnyBin \in Bin
  BY ConstAssumption DEF AnyBin

LEMMA CalledType ==
    ASSUME NEW o \in {"start", "stop", "restart"}, NEW b \in Bin
    PROVE  Called(o, b) \in Thread
  BY ConstAssumption DEF Called, Thread, Points, StopPoints, ScanPoints,
     StartPoints

LEMMA GotoType ==
    ASSUME TypeOK, NEW c \in Cmd, NEW point \in Points, Goto(c, point)
    PROVE  svc' \in [Cmd -> Thread]
  <1>1. svc[c] \in Thread
    BY DEF TypeOK
  <1>2. [svc[c] EXCEPT !.at = point, !.seen = Unread] \in Thread
    BY <1>1 DEF Thread
  <1>3. svc' = [svc EXCEPT ![c] = [svc[c] EXCEPT !.at = point, !.seen = Unread]]
    BY DEF Goto
  <1> QED
    BY <1>1, <1>2, <1>3 DEF TypeOK

\* Every step of the service thread preserves the types.
LEMMA ServiceStepType ==
    ASSUME TypeOK, NEW c \in Cmd, ThreadInv(c), ServiceStep(c)
    PROVE  /\ svc' \in [Cmd -> Thread]
           /\ core' \in [Pid -> {"unborn", "live", "termed", "killed", "gone"}]
           /\ pidfile' \in Text
           /\ lookup' = lookup
  <1> DEFINE G == /\ svc' \in [Cmd -> Thread]
                  /\ core' \in [Pid -> {"unborn", "live", "termed", "killed", "gone"}]
                  /\ pidfile' \in Text
                  /\ lookup' = lookup
  <1>a. \A point \in {"scan", "poll", "kill", "exists", "unlink", "validate",
           "prepare", "spawn", "truncate", "write", "probe", "ok", "err"} :
          Goto(c, point) => svc' \in [Cmd -> Thread]
    BY GotoType DEF Points, StopPoints, ScanPoints, StartPoints
  <1>b. svc[c] \in Thread /\ AfterStop(c) \in {"prepare", "ok"}
    BY DEF TypeOK, AfterStop
  <1>c. svc[c].at = "write" => svc[c].child \in Pid
    BY DEF ThreadInv
  <1>d. \A t, b : AfterLookup(t, b) \in Text
    BY DEF AfterLookup, TypeOK, Text
  <1>e. \A ps : /\ Signalled(ps, "termed") \in [Pid -> {"unborn", "live", "termed", "killed", "gone"}]
                /\ Signalled(ps, "killed") \in [Pid -> {"unborn", "live", "termed", "killed", "gone"}]
    BY DEF Signalled, TypeOK
  <1>1. CASE Validate(c)
    BY <1>1, <1>a DEF Validate, TypeOK
  <1>2. CASE ReadPidFile(c)
    <2>1. [svc[c] EXCEPT !.seen = pidfile] \in Thread
      BY <1>b DEF Thread, TypeOK
    <2> QED
      BY <1>2, <2>1 DEF ReadPidFile, TypeOK
  <1>3. CASE ScanPids(c)
    <2>1. "poll" \in Points /\ 0 \in 0 .. MaxPolls
      BY ConstAssumption DEF Points, StopPoints, ScanPoints
    <2>2. [svc[c] EXCEPT !.at = "poll", !.seen = Unread, !.polls = 0] \in Thread
      BY <1>b, <2>1 DEF Thread
    <2> QED
      BY <1>3, <1>a, <1>d, <1>e, <2>2 DEF ScanPids, TypeOK
  <1>4. CASE Poll(c)
    <2>1. svc[c].polls < MaxPolls => svc[c].polls + 1 \in 0 .. MaxPolls
      <3>1. svc[c].polls \in 0 .. MaxPolls
        BY <1>b DEF Thread
      <3> QED
        BY <3>1, ConstAssumption
    <2>2. svc[c].polls < MaxPolls =>
            [svc[c] EXCEPT !.polls = svc[c].polls + 1, !.seen = Unread] \in Thread
      BY <1>b, <2>1 DEF Thread
    <2>3. svc' \in [Cmd -> Thread]
      <3>1. CASE Goto(c, "exists") \/ Goto(c, "kill")
        BY <3>1, <1>a
      <3>2. CASE /\ MayWait(c)
                 /\ svc' = [svc EXCEPT ![c] = [@ EXCEPT !.polls = svc[c].polls + 1,
                                                        !.seen = Unread]]
        BY <3>2, <2>2 DEF MayWait, TypeOK
      <3> QED
        BY <1>4, <3>1, <3>2 DEF Poll
    <2> QED
      BY <1>4, <1>d, <2>3 DEF Poll, TypeOK
  <1>5. CASE Kill(c)
    BY <1>5, <1>a, <1>d, <1>e DEF Kill
  <1>6. CASE PidFileExists(c)
    BY <1>6, <1>a, <1>b DEF PidFileExists, TypeOK
  <1>7. CASE UnlinkPidFile(c)
    BY <1>7, <1>a, <1>b DEF UnlinkPidFile, TypeOK, Text
  <1>8. CASE Prepare(c)
    BY <1>8, <1>a DEF Prepare, TypeOK
  <1>9. CASE SpawnCore(c)
    <2>1. \A p \in Pid : [svc[c] EXCEPT !.at = "truncate", !.child = p] \in Thread
      BY <1>b DEF Thread, Points, StartPoints
    <2> QED
      BY <1>9, <1>a, <2>1 DEF SpawnCore, TypeOK
  <1>10. CASE TruncatePidFile(c)
    BY <1>10, <1>a DEF TruncatePidFile, TypeOK, Text
  <1>11. CASE WritePidFile(c)
    BY <1>11, <1>a, <1>c DEF WritePidFile, TypeOK, Text
  <1>12. CASE Probe(c)
    BY <1>12, <1>a DEF Probe, TypeOK, Text
  <1> QED
    BY <1>1, <1>2, <1>3, <1>4, <1>5, <1>6, <1>7, <1>8, <1>9, <1>10, <1>11,
       <1>12 DEF ServiceStep

\* A step moves the thread of its own command only.
LEMMA ServiceStepOther ==
    ASSUME TypeOK, NEW c \in Cmd, ServiceStep(c), NEW d \in Cmd, d # c
    PROVE  svc'[d] = svc[d]
  BY DEF TypeOK, ServiceStep, Validate, ReadPidFile, ScanPids, Poll, Kill,
     PidFileExists, UnlinkPidFile, Prepare, SpawnCore, TruncatePidFile,
     WritePidFile, Probe, Goto

\* What a move leaves of the thread that moves.
LEMMA GotoFields ==
    ASSUME TypeOK, NEW c \in Cmd, NEW point, Goto(c, point)
    PROVE  /\ svc'[c].at = point /\ svc'[c].seen = Unread
           /\ svc'[c].op = svc[c].op /\ svc'[c].child = svc[c].child
  <1>1. svc[c] \in Thread
    BY DEF TypeOK
  <1>2. svc'[c] = [svc[c] EXCEPT !.at = point, !.seen = Unread]
    BY DEF TypeOK, Goto
  <1> QED
    BY <1>1, <1>2 DEF Thread

\* Every step of the service thread preserves what the threads rely on.
LEMMA ServiceStepInv ==
    ASSUME TypeOK, ServiceInv, NEW c \in Cmd, Alone(c), ServiceStep(c)
    PROVE  ServiceInv'
  <1>0. SUFFICES ThreadInv(c)' /\ SingleCore' /\ PidFileNamesCore'
    <2>1. \A d \in Cmd : d # c => ThreadInv(d)'
      BY ServiceStepOther DEF Alone, ThreadInv, ScanPoints, StartPoints
    <2> QED
      BY <2>1 DEF ServiceInv
  <1>inv. ThreadInv(c) /\ SingleCore /\ PidFileNamesCore
    BY DEF ServiceInv
  <1>goto. \A point : Goto(c, point) =>
             /\ svc'[c].at = point /\ svc'[c].seen = Unread
             /\ svc'[c].op = svc[c].op /\ svc'[c].child = svc[c].child
    BY GotoFields
  <1>c. svc[c] \in Thread
    BY DEF TypeOK
  <1> USE ConstAssumption DEF ScanPoints, StartPoints
  \* Steps that leave the processes alone.
  <1>1. CASE Validate(c)
    BY <1>1, <1>inv, <1>goto DEF Validate, ThreadInv, SingleCore,
       PidFileNamesCore, Running
  <1>2. CASE ReadPidFile(c)
    BY <1>2, <1>inv, <1>c DEF ReadPidFile, ThreadInv, SingleCore,
       PidFileNamesCore, Running, TypeOK, Thread
  <1>6. CASE PidFileExists(c)
    BY <1>6, <1>inv, <1>goto, <1>c DEF PidFileExists, AfterStop, ThreadInv,
       NoneRunning, SingleCore, PidFileNamesCore, Running, Thread
  <1>7. CASE UnlinkPidFile(c)
    BY <1>7, <1>inv, <1>goto, <1>c DEF UnlinkPidFile, AfterStop, ThreadInv,
       NoneRunning, SingleCore, PidFileNamesCore, Running, Thread
  <1>8. CASE Prepare(c)
    BY <1>8, <1>inv, <1>goto DEF Prepare, ThreadInv, NoneRunning, SingleCore,
       PidFileNamesCore, Running
  <1>10. CASE TruncatePidFile(c)
    BY <1>10, <1>inv, <1>goto DEF TruncatePidFile, ThreadInv, OnlyChildRuns,
       Holds, SingleCore, PidFileNamesCore, Running
  <1>11. CASE WritePidFile(c)
    BY <1>11, <1>inv, <1>goto DEF WritePidFile, ThreadInv, OnlyChildRuns, Holds,
       SingleCore, PidFileNamesCore, Running
  <1>12. CASE Probe(c)
    BY <1>12, <1>inv, <1>goto DEF Probe, ThreadInv, NoneRunning, OnlyChildRuns,
       Holds, SingleCore, PidFileNamesCore, Running
  \* An empty scan means that nothing runs, and leaves no pid file behind.
  <1>scan. ASSUME svc[c].at \in ScanPoints, svc[c].seen # Unread, Scanned(c) = {},
                  pidfile' = AfterLookup(svc[c].seen, svc[c].bin)
           PROVE  NoneRunning /\ pidfile' = Absent
    BY <1>scan, <1>inv DEF ThreadInv, NoneRunning, Scanned, RunningCorePids,
       AfterLookup, Matches, InProc, Running
  <1>file. ASSUME pidfile' = AfterLookup(svc[c].seen, svc[c].bin)
           PROVE  pidfile' \in {pidfile, Absent}
    BY <1>file DEF AfterLookup
  <1>3. CASE ScanPids(c)
    <2>1. CASE Scanned(c) = {}
      <3>1. NoneRunning /\ pidfile' = Absent /\ core' = core
        BY <1>3, <1>scan, <2>1 DEF ScanPids, ScanPoints
      <3>2. Goto(c, IF svc[c].op = "start" THEN "prepare" ELSE "exists")
        BY <1>3, <2>1 DEF ScanPids
      <3> QED
        BY <3>1, <3>2, <1>goto DEF ThreadInv, NoneRunning, SingleCore,
           PidFileNamesCore, Running
    <2>2. CASE Scanned(c) # {}
      <3>1. \A p \in Pid : Running(p)' => Running(p)
        BY <1>3, <2>2 DEF ScanPids, Signalled, Running, TypeOK
      <3>2. svc'[c] = [svc[c] EXCEPT !.at = "poll", !.seen = Unread, !.polls = 0]
        BY <1>3, <2>2 DEF ScanPids, TypeOK
      <3>3. svc'[c].at = "poll" /\ svc'[c].seen = Unread
        BY <3>2, <1>c DEF Thread
      <3>4. pidfile' \in {pidfile, Absent}
        BY <1>3, <1>file DEF ScanPids
      <3> QED
        BY <3>1, <3>3, <3>4, <1>inv DEF ThreadInv, SingleCore, PidFileNamesCore
    <2> QED
      BY <2>1, <2>2
  <1>4. CASE Poll(c)
    <2>1. core' = core /\ pidfile' \in {pidfile, Absent}
      BY <1>4, <1>file DEF Poll
    <2>2. SingleCore' /\ PidFileNamesCore'
      BY <2>1, <1>inv DEF SingleCore, PidFileNamesCore, Running
    <2>3. CASE Scanned(c) = {} /\ Goto(c, "exists")
      <3>1. NoneRunning
        BY <1>4, <1>scan, <2>3 DEF Poll, ScanPoints
      <3> QED
        BY <2>1, <2>2, <2>3, <3>1, <1>goto DEF ThreadInv, NoneRunning, Running
    <2>4. CASE svc' = [svc EXCEPT ![c] = [@ EXCEPT !.polls = svc[c].polls + 1,
                                                  !.seen = Unread]]
      <3>1. svc'[c] = [svc[c] EXCEPT !.polls = svc[c].polls + 1, !.seen = Unread]
        BY <2>4 DEF TypeOK
      <3>2. svc'[c].at = "poll" /\ svc'[c].seen = Unread
        BY <1>4, <3>1, <1>c DEF Thread, Poll
      <3> QED
        BY <2>2, <3>2 DEF ThreadInv
    <2>5. CASE Goto(c, "kill")
      BY <2>2, <2>5, <1>goto DEF ThreadInv
    <2> QED
      BY <1>4, <2>3, <2>4, <2>5 DEF Poll
  \* Whatever still runs at the deadline is found again and killed.
  <1>5. CASE Kill(c)
    <2>1. (NoneRunning)'
      BY <1>5 DEF Kill, NoneRunning, Signalled, ToKill, Scanned, RunningCorePids,
         InProc, Running, TypeOK
    <2>2. Goto(c, "exists")
      BY <1>5 DEF Kill
    <2> QED
      BY <2>1, <2>2, <1>goto DEF ThreadInv, NoneRunning, SingleCore, PidFileNamesCore
  \* Nothing runs when a core is spawned.
  <1>9. CASE SpawnCore(c)
    <2>1. ASSUME NEW p \in Pid, core' = [core EXCEPT ![p] = "live"],
                 svc' = [svc EXCEPT ![c] = [@ EXCEPT !.at = "truncate", !.child = p]]
          PROVE  ThreadInv(c)' /\ SingleCore' /\ PidFileNamesCore'
      <3>1. svc'[c] = [svc[c] EXCEPT !.at = "truncate", !.child = p]
        BY <2>1 DEF TypeOK
      <3>2. /\ svc'[c].at = "truncate" /\ svc'[c].child = p
            /\ svc'[c].op = svc[c].op
        BY <3>1, <1>c DEF Thread
      <3>3. NoneRunning /\ pidfile = Absent /\ pidfile' = pidfile
            /\ svc[c].op = "start"
        BY <1>9, <1>inv DEF SpawnCore, ThreadInv
      <3>4. \A q \in Pid : Running(q)' => q = p
        BY <2>1, <3>3 DEF NoneRunning, Running, TypeOK
      <3> QED
        BY <3>2, <3>3, <3>4 DEF ThreadInv, OnlyChildRuns, SingleCore,
           PidFileNamesCore
    <2>2. CASE Goto(c, "err") /\ core' = core
      <3>1. svc'[c].at = "err" /\ pidfile' = pidfile /\ core' = core
        BY <1>9, <2>2, <1>goto DEF SpawnCore
      <3> QED
        BY <3>1, <1>inv DEF ThreadInv, SingleCore, PidFileNamesCore, Running
    <2> QED
      BY <1>9, <2>1, <2>2 DEF SpawnCore
  <1> QED
    BY <1>0, <1>1, <1>2, <1>3, <1>4, <1>5, <1>6, <1>7, <1>8, <1>9, <1>10, <1>11,
       <1>12 DEF ServiceStep

-----------------------------------------------------------------------------

\* The inductive invariant holds initially.
LEMMA InitInv == Init => IInv
  BY ConstAssumption, AnyBinType DEF Init, IInv, TypeOK, LockInv, WaitInv,
     ServiceInv, ThreadInv, SingleCore, PidFileNamesCore, Running, NoThread, Thread, Points,
     StopPoints, ScanPoints, StartPoints, Text

\* A lookup without the lock can only take the pid file away.
LEMMA ReaderInv ==
    ASSUME IInv, NEW r \in Reader, ReaderResolve(r)
    PROVE  IInv'
  <1>1. pidfile' \in {pidfile, Absent} /\ svc' = svc /\ core' = core
    BY DEF ReaderResolve, AfterLookup
  <1>2. Reader # {}
    OBVIOUS
  <1>3. TypeOK'
    <2>1. [lookup[r] EXCEPT !.seen = Unread] \in [bin : Bin, seen : Text \cup {Unread}]
      BY DEF IInv, TypeOK
    <2> QED
      BY <1>1, <2>1 DEF IInv, TypeOK, ReaderResolve, Text
  <1>4. LockInv' /\ WaitInv'
    BY DEF IInv, LockInv, WaitInv, ReaderResolve
  <1>5. ASSUME NEW c \in Cmd PROVE ThreadInv(c)'
    BY <1>1, <1>2 DEF IInv, ServiceInv, ThreadInv, NoneRunning, OnlyChildRuns,
       Holds, Running
  <1>6. SingleCore' /\ PidFileNamesCore'
    BY <1>1, ConstAssumption DEF IInv, ServiceInv, SingleCore, PidFileNamesCore,
       Running
  <1> QED
    BY <1>3, <1>4, <1>5, <1>6 DEF IInv, ServiceInv

\* Starting, ending and losing a command's thread.
LEMMA CommandInv ==
    ASSUME IInv, NEW c \in Cmd,
           \/ \E o \in {"start", "stop", "restart"}, b \in Bin : Begin(c, o, b)
           \/ Acquire(c) \/ StartAfterStop(c) \/ Return(c) \/ Crash(c)
    PROVE  IInv'
  <1>0. TypeOK /\ svc[c] \in Thread
    BY DEF IInv, TypeOK
  <1>same. lookup' = lookup /\ core' = core /\ pidfile' = pidfile
    BY DEF Begin, Acquire, StartAfterStop, Return, Crash
  <1>1. ASSUME NEW o \in {"start", "stop", "restart"}, NEW b \in Bin, Begin(c, o, b)
        PROVE  IInv'
    <2>1. [svc[c] EXCEPT !.op = o, !.bin = b] \in Thread
      BY <1>0 DEF Thread
    <2>2. svc' = [svc EXCEPT ![c] = [svc[c] EXCEPT !.op = o, !.bin = b]]
      BY <1>1 DEF Begin
    <2>3. svc[c].at = "idle" /\ svc'[c].at = "idle"
      BY <1>0, <1>1, <2>2 DEF IInv, LockInv, Begin, TypeOK, Thread
    <2>4. TypeOK'
      BY <1>1, <2>1, <2>2, <1>0 DEF TypeOK, Begin
    <2>5. LockInv' /\ WaitInv'
      <3>1. svc'[c].op = o /\ \A d \in Cmd : d # c => svc'[d] = svc[d]
        BY <2>2, <1>0 DEF TypeOK, Thread
      <3> QED
        BY <1>1, <2>3, <3>1, <1>0 DEF IInv, LockInv, WaitInv, Begin, TypeOK
    <2>6. ASSUME NEW d \in Cmd PROVE ThreadInv(d)'
      <3>1. d # c => svc'[d] = svc[d]
        BY <2>2, <1>0 DEF TypeOK
      <3> QED
        BY <1>same, <2>3, <3>1 DEF IInv, ServiceInv, ThreadInv, NoneRunning,
           OnlyChildRuns, Holds, Running, ScanPoints, StartPoints
    <2> QED
      BY <1>same, <2>4, <2>5, <2>6 DEF IInv, ServiceInv, SingleCore,
         PidFileNamesCore, Running
  <1>2. CASE Acquire(c)
    <2>1. \A d \in Cmd : cmd[d] # "run" /\ svc[d].at = "idle"
      BY <1>2, ConstAssumption DEF IInv, LockInv, Acquire, LockFree
    <2>2. svc[c].op \in {"start", "stop", "restart"} =>
            Called(svc[c].op, svc[c].bin) \in Thread
      BY <1>0, CalledType DEF Thread
    <2>3. PICK o \in {"start", "stop", "restart"} : o = svc[c].op
      BY <1>2 DEF IInv, WaitInv, Acquire
    <2>4. /\ svc' = [svc EXCEPT ![c] = Called(o, svc[c].bin)]
          /\ Called(o, svc[c].bin) \in Thread
      BY <1>2, <2>2, <2>3 DEF Acquire
    <2>5. TypeOK'
      BY <1>0, <1>2, <2>4 DEF TypeOK, Acquire
    <2>6. LockInv'
      BY <1>0, <1>2, <2>1, <2>4 DEF LockInv, Acquire, TypeOK
    <2>7. WaitInv'
      BY <1>0, <1>2, <2>4 DEF IInv, WaitInv, Acquire, TypeOK
    <2>8. ASSUME NEW d \in Cmd PROVE ThreadInv(d)'
      BY <1>0, <1>same, <2>1, <2>4, ConstAssumption DEF ThreadInv, Called,
         ScanPoints, StartPoints, TypeOK
    <2> QED
      BY <1>same, <2>5, <2>6, <2>7, <2>8 DEF IInv, ServiceInv, SingleCore,
         PidFileNamesCore, Running
  <1>3. CASE StartAfterStop(c)
    <2>1. Called("start", svc[c].bin) \in Thread
      BY <1>0, CalledType DEF Thread
    <2>2. svc' = [svc EXCEPT ![c] = Called("start", svc[c].bin)]
      BY <1>3 DEF StartAfterStop
    <2>3. TypeOK'
      BY <1>0, <1>3, <2>1, <2>2 DEF TypeOK, StartAfterStop
    <2>4. LockInv' /\ WaitInv'
      BY <1>0, <1>3, <2>2 DEF IInv, LockInv, WaitInv, StartAfterStop, TypeOK,
         Called
    <2>5. ASSUME NEW d \in Cmd PROVE ThreadInv(d)'
      BY <1>0, <1>same, <2>2, ConstAssumption DEF IInv, ServiceInv, ThreadInv,
         NoneRunning, OnlyChildRuns, Holds, Running, Called, ScanPoints,
         StartPoints, TypeOK
    <2> QED
      BY <1>same, <2>3, <2>4, <2>5 DEF IInv, ServiceInv, SingleCore,
         PidFileNamesCore, Running
  <1>4. CASE Return(c) \/ Crash(c)
    <2>1. /\ svc' = [svc EXCEPT ![c] = NoThread]
          /\ cmd' = [cmd EXCEPT ![c] = "idle"]
          /\ lock' = NoCmd /\ cmd[c] = "run"
      BY <1>4 DEF Return, Crash
    <2>2. \A d \in Cmd : d # c => cmd[d] # "run" /\ svc[d].at = "idle"
      BY <2>1 DEF IInv, LockInv
    <2>3. NoThread \in Thread
      BY ConstAssumption, AnyBinType DEF NoThread, Thread, Points
    <2>4. TypeOK'
      BY <1>0, <1>same, <2>1, <2>3 DEF TypeOK
    <2>5. LockInv' /\ WaitInv'
      BY <1>0, <2>1, <2>2 DEF IInv, LockInv, WaitInv, TypeOK, NoThread
    <2>6. ASSUME NEW d \in Cmd PROVE ThreadInv(d)'
      BY <1>0, <1>same, <2>1, <2>2, ConstAssumption DEF ThreadInv, NoThread,
         ScanPoints, StartPoints, TypeOK
    <2> QED
      BY <1>same, <2>4, <2>5, <2>6 DEF IInv, ServiceInv, SingleCore,
         PidFileNamesCore, Running
  <1> QED
    BY <1>1, <1>2, <1>3, <1>4

\* Every step of the specification preserves the invariant.
LEMMA NextInv == IInv /\ [Next]_vars => IInv'
  <1> SUFFICES ASSUME IInv, [Next]_vars PROVE IInv'
    OBVIOUS
  <1>1. ASSUME NEW c \in Cmd, CommandStep(c) PROVE IInv'
    <2>1. cmd[c] = "run" /\ ServiceStep(c) /\ lock' = lock /\ cmd' = cmd
      BY <1>1 DEF CommandStep
    <2>2. Alone(c)
      BY <2>1 DEF IInv, LockInv, Alone
    <2>3. ThreadInv(c) /\ TypeOK /\ ServiceInv
      BY DEF IInv, ServiceInv
    <2>4. ServiceInv'
      BY <2>1, <2>2, <2>3, ServiceStepInv
    <2>5. TypeOK'
      BY <2>1, <2>3, ServiceStepType DEF TypeOK
    <2>6. \A d \in Cmd : d # c => svc'[d] = svc[d]
      BY <2>1, <2>3, ServiceStepOther
    <2>7. LockInv' /\ WaitInv'
      BY <2>1, <2>6 DEF IInv, LockInv, WaitInv
    <2> QED
      BY <2>4, <2>5, <2>7 DEF IInv
  <1>2. ASSUME NEW r \in Reader, NEW b \in Bin, ReaderRead(r, b) PROVE IInv'
    BY <1>2 DEF IInv, TypeOK, LockInv, WaitInv, ServiceInv, ThreadInv,
       NoneRunning, OnlyChildRuns, Holds, SingleCore, PidFileNamesCore, Running,
       ReaderRead
  <1>3. ASSUME NEW p \in Pid, CoreExit(p) PROVE IInv'
    <2>1. \A q \in Pid : Running(q)' => Running(q)
      BY <1>3 DEF CoreExit, Running, IInv, TypeOK
    <2>2. ASSUME NEW c \in Cmd PROVE ThreadInv(c)'
      BY <1>3, <2>1 DEF IInv, ServiceInv, ThreadInv, NoneRunning, OnlyChildRuns,
         Holds, CoreExit
    <2>3. TypeOK' /\ LockInv' /\ WaitInv'
      BY <1>3 DEF IInv, TypeOK, LockInv, WaitInv, CoreExit
    <2> QED
      BY <1>3, <2>1, <2>2, <2>3 DEF IInv, ServiceInv, SingleCore,
         PidFileNamesCore, CoreExit
  <1>4. CASE UNCHANGED vars
    BY <1>4 DEF vars, IInv, TypeOK, LockInv, WaitInv, ServiceInv, ThreadInv,
       NoneRunning, OnlyChildRuns, Holds, SingleCore, PidFileNamesCore, Running
  <1> QED
    BY <1>1, <1>2, <1>3, <1>4, CommandInv, ReaderInv DEF Next

-----------------------------------------------------------------------------

\* The state keeps its types: no step of a command, a crash or a lookup takes
\* a thread, a process or the pid file out of the values the code gives them.
THEOREM TypeCorrect == Spec => []TypeOK
  <1>1. IInv => TypeOK
    BY DEF IInv
  <1> QED
    BY InitInv, NextInv, <1>1, PTL DEF Spec

\* service::start never leaves two cores running, for any number of commands,
\* readers, processes and programs, wherever commands crash.
THEOREM OneCore == Spec => []SingleCore
  <1>1. IInv => SingleCore
    BY DEF IInv, ServiceInv
  <1> QED
    BY InitInv, NextInv, <1>1, PTL DEF Spec

\* The pid file never names one core while another runs.
THEOREM PidFileCorrect == Spec => []PidFileNamesCore
  <1>1. IInv => PidFileNamesCore
    BY DEF IInv, ServiceInv
  <1> QED
    BY InitInv, NextInv, <1>1, PTL DEF Spec

\* service::stop answers Ok only with every core exited or killed.
THEOREM StopCorrect == Spec => []StopOkMeansStopped
  <1>1. IInv => StopOkMeansStopped
    BY DEF IInv, ServiceInv, ThreadInv, NoneRunning, StopOkMeansStopped
  <1> QED
    BY InitInv, NextInv, <1>1, PTL DEF Spec

\* service::start answers Ok with its core the only one, and named by the pid
\* file unless a lookup without the lock removed it.
THEOREM StartCorrect == Spec => []StartOkTracksCore
  <1>1. IInv => StartOkTracksCore
    BY DEF IInv, ServiceInv, ThreadInv, OnlyChildRuns, Holds, StartOkTracksCore
  <1> QED
    BY InitInv, NextInv, <1>1, PTL DEF Spec

=============================================================================
