# boxproxy, specified

boxproxy turns an Android phone into a transparent proxy: a root daemonless tool,
`boxctl`, starts a proxy core (sing-box, mihomo, xray or v2ray), routes traffic
to it with iptables, policy routing or eBPF, and keeps a worker process that
starts and stops it as networks come and go. This directory holds TLA+ models
of the parts of `boxctl` whose correctness depends on an order of steps, the TLC
runs that check them on small instances and TLAPS proofs that hold for all
instances. File names below are relative to `boxctl/src/` in the repository.

There is no server. Every operation is a process that loads the configuration
from an SQLite database, works on files, other processes and the kernel, and
ends. What ties the processes together are files, and those files are where
things go wrong: a flock, a pid file, a lock file with an identity in it, a
runtime snapshot, a key of the local addresses.

## 1. Inventory

| Component | Code | State it keeps | Operations |
|---|---|---|---|
| command line | `main.rs`, `cli.rs` | none | dispatch |
| operation lock | `control/lock.rs` | flock on `state/control.lock` | acquire; released with the guard or the process |
| operation control | `control.rs` | none of its own; two threads for each up or down | up, down, restart, boot, rollback |
| core service | `service.rs`, `service/process.rs` | the pid file (`box_pid`), the core process | start, stop, restart, status, lookups |
| core command, check, stamp | `service/{command,permissions,config_check,stamp}.rs` | a stamp of the checked configuration | command line, configuration check |
| cgroups, CPU mask | `resource.rs` | cgroup files | apply after a start |
| core configuration sync | `core_config.rs`, `core_config/*` | the core's own files | rewrite before a start |
| rules: apply, clear, renew | `rules.rs`, `rules/cleanup.rs`, `rules/runtime.rs` | chains, routes, `state/runtime.iptables.json`, the system's IPv6 | apply, clear, renew for six modes and two families |
| rule batches | `rules/batch.rs`, `rules/exec.rs` | recorded chains and rules, flushed chains | record, flush, fall back, end |
| packet classification | `rules/{local_proxy,external,dns,tun,performance,model}.rs` | contents of the chains | one builder for each chain |
| local address chains | `rules/local_ip.rs` | `LOCAL_IP` chains, `state/local_ip_refresh.key` | apply, clear, refresh by the worker |
| China IP lists, eBPF control | `rules/cnip.rs` | ipsets, the matcher's fingerprint | create, swap, destroy; update or start |
| boxbpf | `boxbpf/*.c` (beside `boxctl/`) | pinned maps and programs | `--apply`, `--update`, `--clear` |
| kernel capabilities, rule context | `rules/{capabilities,context}.rs` | none | probe the kernel, turn names into uids |
| monitor lock | `monitor.rs`, `monitor/{lock,watcher}.rs` | `state/network_monitor.pid`: path, inode, flock, text | run, stop, spawn a worker |
| monitor worker | `monitor/{events,observe,policy,state}.rs` | the event queue, cached configuration, `state/last_wifi_state` | events, debounce, policy, refresh |
| settings database | `db.rs`, `db/*`, `config.rs`, `config/*` | one SQLite file | migration, reading, editing |
| processes and pipes | `exec.rs` | children and their pipes | run, feed, spawn to a file |
| atomic files | `atomic_file.rs` | temporary file and rename | replace |
| vendor firewall | `rules/vendor_firewall.rs` | none | delete foreign rules |

How they interact:

- `up`, `down`, `restart`, single service and mode commands and the worker's
  policy take the **operation lock**, after they have loaded their configuration.
- `up` and `down` run the **service** and the **rules** in two threads which are
  joined; a failure of either rolls both back. After that they call the **monitor**.
- The **worker** calls the same start and stop as the user, after a lookup of
  the core that takes no lock; it also writes the local address chains that
  apply and clear write.
- Lookups (`status`, the worker, the monitor's `monitor_required`) read *and may
  delete* the pid file without the lock.
- A worker that starts the core is the parent of the core's process group.

Behaviours that are hard, and hard to test: the two halves of a lookup around a
start; a kill of `boxctl` between any two steps; a lock file's path, inode,
flock and text, four things that change apart; threads that fail separately; a
configuration edited between load and lock, between apply and clear; rules that
are recorded and reach the kernel later, or never, or twice. `PROJECT.json` lists
each at its line under `hazards`.

What makes each component correct:

| Component | Correctness |
|---|---|
| core service | never two cores after a start; the pid file never names a core that is not the running one; Ok means what it says; bounded waits |
| monitor lock | at most one worker; the worker can be found by path; only verified owners are signalled; every command answers |
| rules | Ok from apply means exactly its mode; Ok from clear means that everything was undone, whatever was done, failed or killed before; a deletion or IPv6 switch that fails is ignored by the code, and what stays is then no more than that |
| operation control | core and rules go up and down together, or the answer is an error and the box is down |
| batches | the kernel ends up as if each rule had been applied at once; a failed family leaves nothing |
| worker | after the last event the box is as the policy wants it for that network; a cached configuration is not used after it changed |
| local addresses | a refresh that answers Ok leaves every chain with the addresses it read, whether it rebuilt it or trusted its key |
| China IP lists, eBPF control | an Ok means that installed rules see the list of now, and never half a list |
| packet classification | what the user chose is captured and what he left out is not; the core's own packets never come back to it; all packets of a connection go one way, through whichever chains the mode builds |

## 2. Modules

```
CoreService ----+                   MonitorLock (start and end of the worker)
                +--> BoxControl     MonitorWorker (its loop) --> MonitorWorkerLive
RuleManager ----+                   PerRule <-- implemented by -- RuleBatch

Netfilter --> RuleChains --> PacketPath       LiveRules
```

`ChainWalk` is instantiated by `Netfilter`, once for each depth of a jump.
`RuleManager` treats the rules of a mode as groups that are there or not,
`RuleBatch` how one rule reaches the kernel, `RuleChains` and `PacketPath` what the
rules do to packets, `LiveRules` what changes under them while they are installed.


| Module | What it is |
|---|---|
| `CoreService` | the core's life and the pid file, at the granularity of system calls |
| `CoreServiceProofs` | its inductive invariant and five theorems |
| `RuleManager` | apply, clear, renew over groups of artifacts, the snapshot, IPv6 |
| `BoxControl` | extends both: commands with two threads, the lock, rollback, kills |
| `BoxControlProofs` | `RuleManager`'s invariant and three theorems, then `BoxControl`'s, over those of its parts, and six |
| `MonitorLock` | the worker's lock and identity against run and stop |
| `MonitorLockProofs` | its inductive invariant and four theorems |
| `MonitorWorker` | the worker's loop: events, debounce, cached configuration, policy, saved state |
| `MonitorWorkerLive` | what the worker brings about: fairness, a history of its last look, liveness |
| `MonitorWorkerProofs` | `MonitorWorker`'s invariant and three theorems |
| `PerRule` | abstract: each chain and rule takes effect at once |
| `RuleBatch` | recording, flushing, falling back; refines `PerRule` |
| `RuleBatchProofs` | the refinement, and what a failed family leaves |
| `ChainWalk` | a walk over the rules of a chain, and lemmas about any such walk |
| `Netfilter` | external: marks, matches, targets and jumps, as the kernel walks a chain |
| `RuleChains` | every chain of every mode, as a sequence of rules computed from the settings |
| `PacketPath` | the packets of a connection through those chains, with conntrack, routing and marks |
| `PacketPathProofs` | what the chains do to the core's own packets, to answers and to what is to be left alone: four theorems |
| `LiveRules` | local address chains, ipsets and pinned eBPF maps under apply, clear, refresh and reload |
| `LiveRulesProofs` | its inductive invariants, the second about what stamp and fingerprint may be trusted with, and five theorems |
| `MC*` | instances for TLC: sets of model values and symmetry |

A definition with the suffix `Bug` is the definition above or below it with a
plausible mistake; no specification uses it. Replacing the one by the other
shows that the named property of a run notices (`mutants` in `PROJECT.json`).

### CoreService

`cmd` and `lock` are the processes and flock; `svc[c]` is the thread that runs
`service::start`, `stop` or `restart`, with `at` the place in `start_inner` and
`stop`, `seen` the text `pid_from_file_if_core` has read and not yet judged,
`polls` the turns of `stop_pids`' loop. `core[p]` is a process: `live`, `termed`
(sent SIGTERM), `killed` (SIGKILL sent, still in `/proc`), `gone`.

| Action | Code |
|---|---|
| `Begin`, `Acquire`, `Return`, `Crash` | `with_operation_lock`; a process killed anywhere loses its flock |
| `Validate` | `ensure_dirs`, `validate_core`, `clear_run_log` |
| `ReadPidFile`, then `ScanPids`, `Poll` or `Kill` | the halves of `running_core_pids`; each judges the text read before and signals |
| `PidFileExists`, `UnlinkPidFile` | `remove_pid`: `exists`, then `remove_file` |
| `Prepare`, `SpawnCore` | configuration check; `spawn_to_file_with_env_as` |
| `TruncatePidFile`, `WritePidFile` | `fs::write` of the pid file, an open with O_TRUNC and a write |
| `Probe` | the wait of `start_inner` for a core that dies at once |
| `ReaderRead`, `ReaderResolve` | `status`, `is_running`, `current_core_pid` without the lock |
| `CoreExit` | external: the core ends by itself or by a signal |

### MonitorLock

`path` is the inode that `state/network_monitor.pid` names, `text[i]` the identity in an
inode, `owner[i]` who holds its flock, `fd[w]` the inode a worker has open.
`inv[c]` is a `boxctl monitor` or `monitor-stop` (or the end of `up` or `down`);
`spaced` is a history: whether every command so far was given when the worker of
the one before had settled.
`OpenLock`, `TryLock`, `ResetIdentity`, `WriteIdentity` are the steps of
`acquire_monitor_lock`; `CheckRequired`, `Leave` the checks of `monitor_required`;
`ReadIdentity`, `MatchIdentity`, `WaitForWorker`, `ReapWorker` the stop with its
SIGTERM, wait, SIGKILL, wait; `ProbeLock`, `CloseProbe`, `RemoveLockFile` the
check for an unverified worker, where the probe itself holds the lock for a
moment; `SpawnWorker` the spawn that does not wait.

### MonitorWorker

`place` is the network the device is in (or `Off`), `addr` whether it has an address
there, `status` whether `cmd wifi status` answers on this device, `stream` and `chan` the netlink socket and the events its reader has sent,
`rev` how often the configuration was edited, `cache` the `LiveConfigCache` (the
version held and the revision recorded for it), `base` the version the worker was
started with, `saved` `state/last_wifi_state`. A process is at `pc[p]` in its
reconciliation, with its observation in `obs[p]`; a command (`wifi apply`, `boot`)
takes the same steps as the worker, without the comparison with `saved`.

| Action | Code |
|---|---|
| `SpawnWorker`, `CheckRequired` | `monitor::run`, `monitor_worker`: load the configuration, go on only if required |
| `OpenSocket`, `OpenFails`, `StreamEnds` | `run_ip_monitor_once`, from the socket to the error that ends it |
| `Receive`, `Quiet`, `TimePasses` | `rx.recv`; `wait_for_network_event_quiet` with its longest wait |
| `ReadRevision`, `LoadConfig` | the halves of `LiveConfigCache::get`: revision first, then the configuration |
| `ReadStatus`, `ReadAddress` | `observe_with_iface`: names first, then the address; `guess` where `wifi status` is silent and the address tells whether there is a connection |
| `Compare` | `wifi_state_matches` and the early returns of `apply_network_control_policy` |
| `WaitAddress` | `refresh_connected_ip`, two more looks at the address |
| `Look`, `Act` | `is_running` without a lock; `up_from_monitor`, `down_from_monitor` |
| `Save` | `save_wifi_state` |
| `Move`, `ChangeAddress`, `Chatter`, `EditConfig`, `StreamBreaks`, `Kill` | the world: networks, addresses, events without a change, edits, a socket overrun, signals |

Every tool it looks with may fail or take too long; `run_output` then gives nothing
(`Told`), which is no name or no address, and nothing looks again before the
next event. `MonitorWorkerLive` adds the history `missed`: what the worker's last look
got wrong or left undone, emptied by the next look that goes well.

What it abstracts: the box changes in one step (BoxControl has the steps); a
network always has the same names and its own IPv4 address (a network with an
IPv6 address only, which counts as connected when `cmd wifi status` does not
answer, is left out); an event follows the change it reports; an edit always changes
the revision (modification time and size of the database and its log); users' own
`up` and `down`, which override the policy until the next change of network, are not in
the module, and the refresh of the local address chains that ends
`handle_network_change` is in `LiveRules`.

### RuleManager

`rules` is a set of artifacts `<<family, kind, key>>`. Chains and routes have names
of their own (`Fixed`); rejects, ICMP rules and forward rules carry a setting
(port, fake-ip range, tun device) and are deleted by writing the same rule with
the setting of the process that deletes. `PrepareApply` is the start of
`rules::apply` with the cleanup that `cleanup_mode_for_apply` picks, `StartGroup`,
`SkipBypass`, `FailGroup` the families' groups, `EndFamily` `apply_dual_stack`
with the IPv6 switch, `SaveSnapshot` `runtime_save`; `Clear`, `RemoveSnapshot`
`rules::clear`. A failing group leaves any part of it, less what the code's error
path stops.

Every deletion of the code ignores its failure (`run_ignore`, `exec.rs:30`), and
IPv6 settings that cannot be written are a warning or nothing (`local_ip.rs:127`).
So `Change` keeps any of the artifacts it deletes, and `TurnIpv6On`, `TurnIpv6Off`
may leave the switch as it was; the command goes on and may answer Ok. The history
`stuck` and the value `"stuck"` of `sysIpv6` remember what stayed because undoing it
was tried and failed, so that the properties can tell that from what was never tried.
`CleanupModesForApply` lists the rules where there is no snapshot, and a list
that fails shows none.

### BoxControl

Extends both. `job[c]` is the command: what it runs, the configuration and the
program it loaded before it waited for the lock, and its phase. `BeginJob`, `Look`
and `Judge` come before the lock, `AcquireLock` launches the threads,
`ServiceThread` and `RulesThread` take `CoreService`'s and `RuleManager`'s steps,
`JoinUp`, `JoinDown`, `JoinLast` join, `RollBack` is `rollback_startup`, `CrashJob`
kills the process with both threads. `EditConfig` edits the configuration at any time
`Edits` allows; under `QuietSpec` the user also waits for the end of every command.

### RuleBatch and PerRule

`decls`, `declared` and `appends` are the `Batch`'s fields, `kernel` and `jumps` the
kernel. `Ensure`, `AppendRule` record (or act, without iptables-restore),
`Begin` starts an unbatched command which flushes first, `FlushTable` and
`FlushFails` are one table's iptables-restore with its fallback, `TryAgain` the
second attempt of an insertion, `StopChain`, `UndoNext` the `stop_*` calls after a
failure, `EndBatch`, `FamilyDone` `end_batch`. The refinement mapping reads a
chain as the kernel's contents followed by what the batch holds for it.

### RuleChains and PacketPath

A rule is what it matches, its target and the target's argument; a chain is a
sequence of rules; `Tables(c)` is what apply builds for the settings `c`, which hold
the configuration, what the kernel can match and the classified uids. The
builders keep the order of the code's calls, since the order is what decides.
Addresses are classes (a public one, a listed Chinese one, the intranet's, the
phone's own network, fake-ip); ports are DNS, QUIC, the core's own and any. QUIC's
ports 443 and 80 are one port; the echo rules of fake-ip, which need a core that uses
such addresses, are built where the range is set; what `bin_name` says of a core that
answers DNS is part of the flag for DNS forwarding.

`PacketPath` follows one connection `f`. `Send` and `Answer` put a packet through
mangle, routing by its mark (the ip rules of `routing.rs`), nat, filter and, for a
packet turned to lo, through PREROUTING again; `ct`, `cmark` and `nat` are what
conntrack keeps about it, and `fate` is where the packet ended: captured by the
core's redirect, tproxy or tun port, let go, rejected, or lost on lo. `ApplyRules`,
`ClearRules`, `Move`, `RefreshLocalIp` and `Expire` (conntrack forgets) happen at any
moment.

### LiveRules

All operations hold the operation lock, so one process `p` works at a time, at
`p.at`; what it leaves behind when it fails or is killed is the subject.

| Action | Code |
|---|---|
| `CheckIpset` ... `StampIpset` | `restore_ipset`, one command of its script after the other, then the stamp |
| `StartMatcher`, `NoMatcher` | `ensure_rule_ebpf_if_needed`: fingerprint, update or apply, required or not |
| `BpfUpdate`, `BpfApply` | `update_config` and `apply_config` of boxbpf: pins removed, maps made and filled, programs pinned |
| `SavePrint` | `save_ebpf_reload_fingerprint` |
| `RulesOff`, `PinsOff`, `InstallGroup`, `InstallFails`, `Installed` | apply and clear, as far as they touch chains, sets and pins |
| `ReadAddresses`, `RebuildChain`, `SaveKey` | `refresh_local_ip_rules`; a failing rule is counted, a failing chain an error |
| `Killed`, `Reboot`, `Move`, `ReplaceList` | the world |

`use` is what the installed rules ask: the set, the pins, nothing, or (`frozen`) a
map whose pin is gone but which the kernel keeps for the rule that holds its
program. `p.during` collects the versions of the list a command could have
seen, so that an Ok can be judged. Abstracted: one family; mode and kind of
matcher stay; a list has two lines, fits its set and map, and is replaced as a whole
(an existing list that is deleted, or a selection of applications that becomes
empty, leaves the old one in force under an Ok); a kill ends boxbpf too.

## 3. Runs

| Run | Shows |
|---|---|
| `core_service` | starts, stops, restarts by two commands with two programs, killed anywhere, with an unlocked reader: one core, a truthful pid file, truthful answers |
| `monitor_lock` | two commands, two workers, any order, any deaths: only owners are signalled, Ok from stop means gone; while commands are spaced, a running worker can be found (so there is at most one) and Ok from stop means none |
| `monitor_lock_live` | three workers, and stops too: commands answer, and those that make one worker after the other give up still end with one running, as long as a worker is required |
| `monitor_worker` | worker and policy command, edits, failing tools and commands, kills anywhere: the state saved last tells the truth about the box; what the worker has loaded is not behind its recorded revision |
| `monitor_worker_live` | two networks and none, failing tools, commands and saves, kills: every burst of events is acted on, and where the device stays and the worker's last look went well the box ends as the policy wants it |
| `rules_faulty` | any failures and kills, deletions and IPv6 writes that fail and are ignored among them, every mode and two settings, edits while all is cleared: Ok from apply and clear is exact, but for what undoing was tried and failed for |
| `box_control` | up, down, restart, policy by two processes, failures and kills, deletions that fail and are ignored, the mode tun, edits of `ipv6_mode` between commands: core and rules agree with every answer, but for what undoing was tried and failed for |
| `box_edits` | every command of a user, the mode edited at any time, no failing rule: the same for the configuration the command loaded, and the lock is given back |
| `batch` | with a rule the kernel refuses and a chain set up twice: batches refine the per-rule path where no rule is refused; no family answers Ok without its chains, however often its batch is flushed again |
| `packet_path` | 188 settings and 58 connections: in every mode what is chosen is captured, what is left out, bypassed or the core's own is not, DNS is captured, nothing is marked and then refused, answers reach whoever asked, and a connection keeps its way |
| `live_rules` | apply, clear, refresh and reload with failures, kills and reboots: Ok from a refresh and from a reload is true of the chains and lists the rules see, which are never half |

One run shows the code contradicting what it says of itself, and ends in a
counterexample (`findings` in `PROJECT.json` quotes the lines):

| Run | Counterexample |
|---|---|
| `rules_stale_snapshot` | apply of a new mode fails before the snapshot is saved; clear trusts the old snapshot, says Ok and leaves the new mode's rules |

The models show more of this kind, for which no run is kept. A change of the
constants, or of a property's exception, brings each back:

- `monitor_lock`: with commands that are not spaced, one may probe a free lock, a worker take
  it, and the command remove the file under its owner; the next command finds no
  worker and starts a second one.
- `monitor_lock_live` without its gate (`LiveNext`): commands without end can make
  every worker give up that is spawned; and a requirement that falls and rises while
  a worker checks it leaves none running.
- `MonitorLock` with `Policy`: stopping a worker signals its process group, and in
  it the core which the worker's policy has started.
- `batch` without `NeverFails`: each command that undoes a family
  flushes the failed batch again, which rebuilds chains already deleted.
- `monitor_worker` without `unsaved`: a policy command fails or is killed half-way in
  a second network; back in the first, which is still the saved one, the worker
  leaves the box as the failed command left it.
- `monitor_worker_live` without `missed = {}`: a tool that fails after the last event gives
  no network or no address, which is acted on as if it were so, and nothing looks
  again; the box stays wrong until the next event.
- `monitor_worker_live` without `unsaved /\ saved = Final(n)`: a failed look is acted on and
  its save fails; the next look sees the network whose state is still the saved one, and
  leaves the box as the wrong look left it.
- `rules_faulty` without `stuck`: a deletion that fails is ignored, and clear answers Ok with
  the rule still there, or with IPv6 still off.
- `monitor_worker` without `alone`: `wifi apply` and the worker decide at the same
  time, and the earlier observation is saved last.
- `monitor_worker` without `cache.ver # base`: after the stream was opened again the worker
  holds the configuration of its start under the present revision, and an edit
  made before is not read until the next one.
- `rules_faulty` with edits at any time: after an edit of a port, clear
  deletes the reject rule of the new port, and that of the old one stays.
- `batch` without `Repeats`: enhance sets the DNS chain up from both of its
  groups, and a batch does not empty it the second time, as the per-rule path does.
- `batch` ends in `err` although its family may be skipped (`Skips`):
  the failed flush of IPv6 tproxy, which the mode may do without, fails the mode.
- `monitor_worker`: a reload that fails after an edit has been loaded is logged as
  "keeping current config" (`logger/catalog.rs:55`) and takes the configuration of
  the worker's start (`LoadConfig`).

Of the packets (`PacketPath`; the exception named in each property, or the
setting named here, brings it back):

- `FateKept`: in performance mode a TCP packet in the middle of a connection conntrack has
  forgotten is NEW again, skips the chains of applications and addresses and
  gets the connmark: a bypassed connection is proxied from then on.
- `DnsIsCaptured`: performance mode meets the chains of applications before the DNS
  rules, so that the first query of a left-out application is let go where the
  full chains capture it. And `TUN_ROUTE_MARK` has the bit of `TUN_BYPASS_MARK`, so
  that in tun mode a query to a resolver of table main's networks escapes.
- `BypassedLeftAlone`: tun's whitelist returns before the rules for destinations
  (`tun.rs:258`), and so do packets of listed hotspot clients (`tun.rs:93`): what is
  listed goes through tun wherever it goes. Chains of tun and of performance mode do not
  look at `LOCAL_IP` (`Near`), and nat's is never refreshed for IPv6 (`local_ip.rs:46`).
- `NothingLost`: an application forced past the China list is marked in OUTPUT and
  let go by PREROUTING's China rule: in tproxy and enhance its packet is lost on lo.
  And a query that nobody hijacks to an IPv6 address that stands for a name: the
  OUTPUT chain of performance mode marks such addresses before it lets queries go
  (`rules.rs:670`), the PREROUTING chain lets queries go first (`rules.rs:623`).
- `NothingLost`, `ChosenIsCaptured` (`LoBlocked`): `lo` may be listed among the blocked
  interfaces (`config.rs:424` takes any name), and PREROUTING then lets go whatever comes
  back on it. The run's list has no `lo`; with it, TLC finds all the other properties
  of the run to hold, and these two to need the exception.
- `ChosenIsCaptured`, `DnsIsCaptured`: where the kernel matches owners by half (`uid` or
  `gid`), whoever shares that half with the core is let go with it (`TakenForTheCore`).
- `CoreNotCaptured` without an owner match: the fallback by mark does not stop
  the loop in tproxy mode, and the DNS chain of nat has none.
- Performance mode's whitelist adds the system's uids only when some uid is
  selected (`performance.rs:339`), the other modes always. Tun mode does not use
  the eBPF map of application uids. A connmark survives clear and apply.

Of the lists and chains (`LiveRules`):

- `RefreshOkMeansCurrent` without `dirty`: the key of the last refresh survives clear,
  apply, reboot and a refresh in which single rules failed, and the next refresh
  trusts it.
- `OkMeansInForce` without `raced`: an ipset's stamp is taken of the file after the
  list was read. Without `use = "pin"`: after a clear, a reload answers Ok for
  the fingerprint's sake though the pins are gone, and the fallback of a failed update
  pins new maps that installed rules do not ask.
- `WholeLists` without `failed`: a failed update leaves rules with a half filled map.

### Bounds, and why they are enough

- Commands: two. The operation lock admits one; a second shows waiting, a third
  would only wait. Unlocked lookups add a third process where they matter.
- `Pid`: three cores (two in BoxControl): one left by a killed command, one
  starting, one more restarted. `MaxJobs` (2) bounds BoxControl's commands: one
  that leaves something behind and one that finds it, in parallel or in turn.
- `MaxPolls`: 1, or 0 in BoxControl. A wait is either cut by its deadline or not;
  the length of the wait, in polls, changes nothing else.
- Programs: two in `core_service`, so that a program is changed between commands.
- Workers two in `monitor_lock` (the first and the one that replaces it), inodes
  three: the path's and one that each worker may still have open. In
  `monitor_lock_live` three and four, so that a probe may make a worker give up
  twice. A run command begins there only while there is a worker to spawn for every command
  under way and one more, or while a worker runs (`Spare`, `Running`): so no command
  finds nothing to spawn for the bound's sake. Workers and inodes are taken in one order.
- `Changes`: in `monitor_lock` the requirement for a worker falls and rises at any
  time; in `monitor_lock_live` it only falls, once all is quiet and a worker runs, for the
  stops that follow. A worker that has just been told to leave may leave after the
  requirement is back (a hazard, and not promised otherwise).
- Networks: in `monitor_worker` one and none, since what matters is whether the network
  is the one observed, saved or decided for; in `monitor_worker_live` two and none, one
  told by SSID and BSSID and one by its BSSID only, so that an observation can be
  torn between two. `monitor_worker` knows its network by the SSID only, since a tool that
  fails takes either name away.
- `Statuses`: in `monitor_worker_live` devices where `cmd wifi status` answers and such where it
  does not; in `monitor_worker` the first, of which a failing tool makes the second.
- `MaxEdits` (2), `MaxCommands` (1): an edit before a load and one after it; a
  policy command beside the worker. `MaxQueue` (1): an event that is waiting
  while the one before is swallowed or acted on; events carry nothing, so that a longer
  queue is the same queue for longer.
- Modes: all six in `rules_faulty`; in `box_control` `tun`, which fails in most
  ways (a rule whose failure is only logged, a chain that may be left out, one that fails
  and takes the other along), with edits of `ipv6_mode`; in `box_edits` two that differ in
  what they install (`mixed`, and `ebpf`, which installs nothing).
- `Undeletable`, the kinds of artifact whose deletion may fail: in `rules_faulty` a rule in
  the system's chains and two chains of boxctl's own, of which one shows in the list of
  rules when the other does not; in `box_control` one. None in
  `box_edits`, where nothing fails, and in `rules_stale_snapshot`, whose counterexample needs none.
- `Setting`: two in `rules_faulty`, to edit between; one where only the mode is edited.
- `packet_path`: every mode, with and without performance mode, crossed with 31 variations
  of the other settings, each of which changes what one builder asks about, or
  two that meet in one chain; connections of the four kinds of user and two of
  hotspot clients to each class of address. A connection sends any number of packets.
- `live_rules`: modes with a `LOCAL_IP` chain in two tables, one and none, each kind
  of matcher; two addresses and two versions of the list (`MaxList`) after none: one that
  is loaded and one that comes meanwhile, before or after. Commands, kills and reboots
  are not bounded.
- `MaxCalls` (6) building calls: a chain, a rule, an unbatched command and the
  same again, in two tables.

`CHECK_DEADLOCK FALSE` is set where the bounds end a run (BoxControl after
`MaxJobs`, RuleBatch after a family is done). All other runs check for deadlock.

### Fairness

Weak fairness is given to the steps of threads and processes that run, never to
commands being called, edits, failures or kills. Each wait in the code is
bounded by a deadline, so a thread comes to its end (`CommandStep`, `WorkerStep`,
`ServiceThread`, `RulesThread`, the joins). A process that was sent SIGKILL goes,
which is the kernel's promise; one that was sent SIGTERM need not.

In `MonitorWorkerLive` the worker's and the commands' own steps are weakly fair: each is a
command with a timeout, a file or a wait that ends. So is `TimePasses`, the clock.
`OpenSocket` is strongly fair: the worker tries every two seconds for as long as it
is required, and the kernel is taken to give it a socket at last. Moves, events,
broken streams, edits, spawns and kills have no fairness. `Converges` speaks of runs
in which the device stays in a network with the settings of the start and a
worker lives whose last look told the truth and was followed by no failure: a
tool, a command or a save may fail any number of times before. Nothing in the code
tries again after a failure but the next event. It excepts a network whose observation
is the one saved before a command last touched the box.

## 4. Proofs

| Theorem | Says | Assumes |
|---|---|---|
| `TypeCorrect`, `OneCore`, `PidFileCorrect`, `StopCorrect`, `StartCorrect` | the five invariants of `core_service` | only `ConstAssumption` |
| `WorkerTypeCorrect`, `SavedCorrect`, `CacheCorrect` | the three invariants of `monitor_worker` | only `WorkerAssumption` |
| `MonitorLockTyped`, `OwnersSignalled`, `StopIsTrue`, `RunningIsFound` | the four invariants of `monitor_lock` | only `ConstAssumption` |
| `RuleTypeCorrect` | types of `RuleManager` | only its constants' assumptions |
| `ClearCorrect`, `ApplyCorrect` | Ok from clear means that everything was undone and IPv6 is on, Ok from apply that its mode alone is installed, but for what undoing was tried and failed for | `EditsCleared`: edits come only when all is cleared; `rules_stale_snapshot` shows why |
| `BoxTypeCorrect`, `BoxKeepsCore` | types of `BoxControl`; commands keep what `CoreService` promises | only the constants' assumptions |
| `OkIsTrue`, `RollbackIsTrue` | the invariants of `box_control` | `QuietSpec` and `EditsCleared`: edits come when all is cleared and no command runs; failures and kills anywhere |
| `EditedOkIsTrue`, `EditedRollbackIsTrue` | the same, for `BoxSpec` with any edits | `Calm`: no failing rule, no kill, one setting, and not both mode `ebpf` and `ipv6_mode` disable |
| `BatchTypeCorrect` | types of `RuleBatch` | only `BatchAssumption` |
| `BatchImplements` | `RuleBatch` implements `PerRule` | no refused rule (section 3 says why), no chain set up twice |
| `FailedFamilyLeavesNothing` | a failed family leaves nothing | no refused rule, or no batch |
| `OkFamilyIsBuilt` | Ok only with every chain in the kernel | only `BatchAssumption`: whatever is refused |
| `LiveRulesTyped`, `RefreshIsCurrent`, `ListsAreWhole`, `OkIsInForce` | the four invariants of `live_rules` | `LiveAssumption`, `AbsentAssumption` |
| `CoreIsLeftAlone`, `RepliesReachTheAsker` | `CoreNotCaptured` and `RepliesLeftAlone` of `packet_path` | only `ListsAssumption`: lists are finite, the owner match is one of the four |
| `BypassedIsLeftAlone`, `LeftOutIsLeftAlone` | `BypassedLeftAlone` and `LeftOutLeftAlone` of `packet_path` | `ListsAssumption`, `FlowsAssumption`: nothing comes in on lo that this host has not sent |

Those of rules and box hold with deletions and IPv6 writes that fail and are ignored, but for
the two under `Calm`, where nothing fails.

They hold for any number of commands, workers, inodes, readers, processes, programs,
polls, networks, settings, queues, chains, tables, rules, calls, addresses and versions of
the list, and for any settings, lists of users, groups and interfaces, and connections.

**CoreService.** `SingleCore` is not inductive: a start may spawn because its stop
found nothing, which it has to know three steps later. `IInv` is `TypeOK`,
`LockInv` (a thread is in the middle of something only if its command holds the
lock, and then only one does), `WaitInv` and `ServiceInv`, whose `ThreadInv` says for
every place of a thread what it knows there: nothing runs from `prepare` to
`spawn`, only the child runs from `truncate` on, every core has been killed from
`exists` on. A core that another command left when it was killed is in the pid
file or in `/proc`, which is where `running_core_pids` looks; an unlocked lookup
may delete the file but never write it.

**MonitorLock.** Two facts carry it. A worker that can be read from a file, or was
ever read or signalled, is `Known`: it is gone, or holds the lock of a file with its
identity. Nobody undoes that but its end: who resets a text holds that file's lock, and
a new file reuses no inode that is open. And a command that is done with a worker knows
it gone (`KnownInv`). The rest is `SpacedInv`: while commands are spaced one
command is under way and one worker lives, with the file of the path open, and a command
that reached the probe has none to meet; so `remove_file` unlinks nobody's lock.

**MonitorWorker.** `SavedMeansApplied` needs to know of a process that is about to save: a
box that is as it wants (`SaveInv`), which stays so as long as nobody else
reconciles (`Alone`), since everything else that changes the box does so in a
reconciliation. What a process wants depends on the configuration it uses, and so
`CacheInv` says where in its loop the worker has a cache, that its recorded
revision is one there has been, and that what it holds is not older. One
step per kind of action: the reconciliation's, the loop's, the world's, a
command's start, a kill.

**RuleManager.** `OwnInv` follows what a manager has reached: between cleanup and
save the rules belong to `rt.conf`, what is done is installed and what is left
(`rt.left`) is not; a snapshot, when there is one, is of the present configuration,
so that `cleanup_mode_for_clear` covers all that any earlier run left. Each of these
speaks of `rules \ stuck`: what stays because its deletion failed belongs to nobody's mode,
and `ChangeFacts` says of any additions and deletions that no more than this stays.
`Ipv6Inv` says where IPv6 may be off without a failed attempt to turn it on.
An edit of cleared rules starts anew; with other edits neither is true.

**BoxControl.** The parts' invariants were proved for steps, not for their
specifications only, so that they serve here too. `BoxInv` holds always: who holds the
lock is the one with threads (`HolderInv`), the service thread knows what
`ServiceInv` says (it does not ask who else is waiting, looking or killed), and
`PhaseInv` says which calls a phase's threads make, for which configuration, and that
they have ended well where the command goes on. What the rules' thread knows
depends on the edits. `QuietInv` is `RuleManager`'s `ExactInv` and `Ipv6Inv` with the
fact that every command has loaded the configuration of now. With edits at any
time that is false; `CalmInv` then follows the rules from call to call by the
snapshot that names them (`Recorded`). A step of `BoxControl` is to the rules a
`RuleStep`, nothing, or the exchange of one manager for another (`RulesSide`,
`Handed`). Either invariant gives `RulesAnswer`, and with `BoxInv` both properties.
`Calm` excludes three things which make an Ok untrue: an apply that fails in a new mode
leaves the old snapshot (`rules_stale_snapshot`), rules keyed by a setting are not
found with another, and an apply in mode `ebpf` over one that has turned the system's
IPv6 off replaces its snapshot, after which clear, finding `ebpf`, leaves IPv6 off.

**RuleBatch.** `BatchInv` says that what is recorded belongs to chains that were set
up, that a chain without a declaration in the batch is in the kernel, and that
without a refused rule no command is told of a failed flush. Under the mapping,
recording is the abstract step and flushing a stutter. `LeftInv` follows the
undoing: a chain that is no longer in `ensured` has no rules in kernel or batch.

**LiveRules.** `LiveInv` says who may be where (`ProcInv`: an apply has taken the rules off
before it touches a set or a pin, so that nothing asks what it fills), what the
chains hold against key and addresses read (`ChainInv`: a table that is no longer left
to rebuild has them, unless single rules failed), and what the temporary set and the
maps hold at each point (`SetInv`, `MapInv`: the set that is swapped in is whole, whatever
an earlier restore left in it). `ForceInv` adds, for each kind of matcher, how old
the list may be that the stamp or the fingerprint speaks of, against what set and maps
hold (`IpsetInv`, `CnipInv`, `AppInv`): a reload that trusts them reads nothing. One
lemma for each action.

**PacketPath.** The chains are not constants: a dozen operators put each together from
the settings, so that its length and rules differ, and the proof follows the
operators. What a walk does in general is in `ChainWalk`: it stays in a set that no rule
leaves (`RunStays`), and a chain in two parts is walked one after the other
(`RunAppend`). These are inductions; those of the library take an operator, so
that here the least element of a set of numbers does (`Least`, `Induction`). The
lists of users and interfaces become sequences in an order nobody knows, of which
it is shown that they hold rules of the right shape and no others (`FlattenSeqIn`).
`CoreInv` then is simple: nothing has been decided about a connection of the core's but
to let it go. Every chain of OUTPUT begins with `CoreBypass` (`CoreFirst`), which ends the
walk of that chain (`HeadEnds`), and the system's chains do nothing but jump. Of an
answer, a chain for what comes in either begins with the reply bypass or lets go
what is in `LOCAL_IP`, and no rule before takes an answer (`Idle`); tun's only mark
(`Tame`), and an answer is for a network of table main, which the mark does not change.
The proof found what the run had not shown, since no connection of its flows did it: the
core's own echo to a fake-ip address is answered by the kernel, as anybody's
(`FakeIpIcmp` has no owner match). `CoreNotCaptured` names that case and the run
has such a connection now.

What is left out and where the rules are to let go is let go by rules in the middle of the
chains, behind rules that must not take it. `Gives(tt, rules, p, W)` says of a sequence of
rules that packet `p` comes out of it as it went in, but for tun's mark to bypass, and
with a verdict in `W`; a lemma for each operator says it of the rules the operator
makes, by the options they match (`On`, `Off`), and `GivesBoth`, `GivesFirst`,
`GivesLast` and `GivesEachTo` put parts together: none takes it, or one lets it go
before. So each of the eleven chains lets go what is `Free` or left out (`GivesPerfLocal`
and its like), the tables do (`MangleOutLets`, `NatLets`), and `Send` does. The
invariant of both theorems is `LeftInv`: conntrack has nothing to remember of such a
connection. It is needed because performance mode decides by a connection's first packets:
of a later one the chains of addresses and applications say nothing, and it is
let go only because no connmark was put on the entry and because a TCP packet
without SYN that began no entry is never NEW (`born`, and the third conjunct). The
proof needs `FlowsAssumption`: the rules for lo take what OUTPUT has marked, before
those for hotspot clients, and would take a client's packet that came in there.

`ASSUME JumpsAssumption` of `MCPacketPath` has TLC check that no chain jumps deeper than
`Walk` follows.

Checked by TLC only: all liveness (out of the prover's reach), the rules under edits
that fail, and of `PacketPath` what says that packets are taken, or go the same way as
others: `ChosenIsCaptured`, `DnsIsCaptured`, `NothingLost` and `FateKept`. They compare
rules of two chains, and want for each what it does to a packet, not only that it
lets it go.

## 5. Not modelled

- Text: log lines, argument parsing, JSON and YAML rewriting, `dumpsys` and `ip`
  output, eBPF instructions, the wording of iptables commands.
- Files that hold no protocol: command lines and modes of the core, its cached
  configuration check, cgroups and CPU masks, the database's reading (one
  transaction of SQLite's), defaults and range checks of settings.
- How the kernel's capabilities are probed: `PacketPath` combines them freely.
- The vendor's firewall rules, which are deleted and never restored, and two sysctls.
- Pids are not reused; the code compares a start time for the monitor, and an
  executable for the core.
- A command's own locking in iptables (`-w`), and other writers of the tables.
- Power loss: file replacement is a rename with its two outcomes; a reboot is in
  `LiveRules`, where files survive it and kernel objects do not.
- A process that is not `boxctl` and writes its files.

## 6. Plan

Done: `CoreService`, `MonitorLock`, `MonitorWorker`, `RuleManager`, `BoxControl`,
`RuleBatch` over `PerRule`, `PacketPath` over `RuleChains`, `LiveRules`.

What would come next:

1. Abstract `CoreLife` (one core or none, with a recorded pid), implemented by
   `CoreService`.
2. `MonitorWorker` over `BoxControl`'s steps, with users' own commands beside it.
3. A proof of `NothingLost`, with lemmas like those of `Gives` for packets that are
   marked and come back on lo.
