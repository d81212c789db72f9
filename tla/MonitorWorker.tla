---------------------------- MODULE MonitorWorker ----------------------------
(***************************************************************************)
(* The network monitor's worker (monitor/watcher.rs, policy.rs, events.rs, *)
(* observe.rs, state.rs): it waits for netlink events, debounces them, and *)
(* reconciles: reads its configuration through a cache, observes the       *)
(* network, and if that differs from the state it saved last, starts or    *)
(* stops the box as the Wi-Fi policy says and saves the new state.         *)
(* `boxctl wifi apply' and `boxctl boot' run the same policy in another    *)
(* process, without looking at the saved state.                            *)
(*                                                                         *)
(* Abstractions.  A network is a model value with the names the tools give *)
(* it; its address is the network's own.  Events carry nothing: the worker *)
(* looks at the world, not at them; a tool it looks with may fail, which   *)
(* it takes for no network or no address.  The box is up or down, set in   *)
(* one step under the operation lock (BoxControl has the steps).  Users'   *)
(* own up and down, which override the policy until the next change, and   *)
(* the refresh of the local address chains are not in this module.         *)
(***************************************************************************)
EXTENDS Naturals

CONSTANTS
    Network,        \* Wi-Fi networks
    Off,            \* no network
    Name,           \* SSIDs and BSSIDs
    unknown,        \* the name of a network the tools do not tell
    SsidOf, BssidOf,
    Statuses,       \* do devices answer `cmd wifi status', or not, or either?
    MaxEdits,       \* how often the configuration is edited (bounds a run)
    Settings,       \* the Wi-Fi settings after each number of edits
    Worker,         \* the worker's process
    Command,        \* processes of `wifi apply' and `boot'
    MaxCommands,    \* how many of these are run (bounds a run)
    MaxQueue,       \* events kept in the channel (bounds a run)
    Faulty,         \* may tools, commands, files, netlink fail, processes be killed?
    NoIp, NoState, NoCache

Place == Network \cup {Off}
Proc == Command \cup {Worker}
Version == 0 .. MaxEdits

WifiSettings ==
    [control : BOOLEAN, onDisconnect : BOOLEAN, onConnect : BOOLEAN,
     matching : BOOLEAN, whitelist : BOOLEAN,
     bssids : SUBSET Name, ssids : SUBSET Name, tun : BOOLEAN]

Observation ==
    [connected : BOOLEAN, ssid : Name \cup {unknown},
     bssid : Name \cup {unknown}, ip : Network \cup {NoIp}]

ASSUME WorkerAssumption ==
    /\ Off \notin Network /\ NoIp \notin Network /\ unknown \notin Name
    /\ SsidOf \in [Network -> Name \cup {unknown}]
    /\ BssidOf \in [Network -> Name \cup {unknown}]
    /\ Statuses \subseteq BOOLEAN /\ MaxEdits \in Nat
    /\ Settings \in [Version -> WifiSettings]
    /\ Worker \notin Command
    /\ MaxCommands \in Nat /\ MaxQueue \in Nat \ {0}
    /\ Faulty \in BOOLEAN
    /\ NoState \notin Observation
    /\ NoCache \notin [ver : Version, rev : Version]

VARIABLES
    place, addr,    \* the network the device is in; has it an address there?
    status,         \* does `cmd wifi status' answer on this device?
    stream, chan,   \* the netlink stream; events in the reader's channel
    rev,            \* edits of the configuration so far
    pc,             \* where each process is
    obs,            \* its observation
    loaded,         \* the version a command has loaded
    base,           \* the version the worker was started with
    cache,          \* LiveConfigCache: version cached, revision recorded
    late,           \* is the debounce's longest wait over?
    box,            \* does the core run?
    saved,          \* state/last_wifi_state
    commands,       \* commands run so far
    savedBy,        \* history: the version that `saved' was decided with
    unsaved,        \* history: was the box touched after `saved' was written?
    alone           \* history: did no two processes reconcile at a time?

worldVars == <<place, addr, status>>
eventVars == <<stream, chan, late>>
configVars == <<rev, base, cache>>
boxVars == <<box, saved, savedBy, unsaved>>
vars == <<worldVars, eventVars, configVars, boxVars, pc, obs, loaded, commands,
          alone>>

Reconciling == {"status", "address", "guess", "compare", "wait1", "wait2",
                "look", "act", "save"}
Places == Reconciling \cup {"down", "required", "recheck", "open", "revision",
                            "load", "recv", "quiet"}

NoObservation == [connected |-> FALSE, ssid |-> unknown, bssid |-> unknown,
                  ip |-> NoIp]

TypeOK ==
    /\ place \in Place /\ addr \in BOOLEAN /\ status \in BOOLEAN
    /\ stream \in {"closed", "open", "broken"} /\ chan \in 0 .. MaxQueue
    /\ rev \in Version /\ base \in Version /\ late \in BOOLEAN
    /\ cache \in [ver : Version, rev : Version] \cup {NoCache}
    /\ pc \in [Proc -> Places]
    /\ obs \in [Proc -> Observation] /\ loaded \in [Command -> Version]
    /\ box \in BOOLEAN /\ saved \in Observation \cup {NoState}
    /\ commands \in 0 .. MaxCommands
    /\ savedBy \in Version /\ unsaved \in BOOLEAN /\ alone \in BOOLEAN

Init ==
    /\ place \in Place /\ addr = FALSE /\ status \in Statuses
    /\ stream = "closed" /\ chan = 0 /\ late = FALSE
    /\ rev = 0 /\ base = 0 /\ cache = NoCache
    /\ pc = [p \in Proc |-> "down"]
    /\ obs = [p \in Proc |-> NoObservation] /\ loaded = [c \in Command |-> 0]
    /\ box = FALSE /\ saved = NoState
    /\ commands = 0 /\ savedBy = 0 /\ unsaved = FALSE /\ alone = TRUE

-----------------------------------------------------------------------------
(* The policy *)

\* should_enable_service: the list of BSSIDs decides where there is one and the
\* tools tell the BSSID; otherwise the list of names, which may be empty.
Matched(s, o) ==
    IF s.bssids # {} /\ o.bssid # unknown THEN o.bssid \in s.bssids
                                          ELSE o.ssid \in s.ssids

ShouldEnable(s, o) ==
    IF ~ o.connected THEN s.onDisconnect
    ELSE s.onConnect /\ (s.matching => (Matched(s, o) <=> s.whitelist))

\* wifi status gives a connection only together with a name or a BSSID.
Named(ssid, bssid) ==
    [connected |-> ssid # unknown \/ bssid # unknown,
     ssid |-> ssid, bssid |-> bssid, ip |-> NoIp]

Link(n) == IF n = Off THEN NoObservation ELSE Named(SsidOf[n], BssidOf[n])

Address == IF place # Off /\ addr THEN place ELSE NoIp

\* monitor_required: the policy is on, or a core runs in a mode with addresses.
Required(v) == Settings[v].control \/ (box /\ ~ Settings[v].tun)

-----------------------------------------------------------------------------
(* One reconciliation, by the worker or by a command *)

Goto(p, at) == pc' = [pc EXCEPT ![p] = at]

\* The worker waits for the next event, whatever became of this one; a command
\* ends.
FinishBug(p) ==
    /\ Goto(p, IF p = Worker THEN "recv" ELSE "down")
    /\ obs' = [obs EXCEPT ![p] = NoObservation]
    /\ chan' = IF p = Worker THEN 0 ELSE chan
    /\ UNCHANGED <<stream, late>>

Finish(p) ==
    /\ Goto(p, IF p = Worker THEN "recv" ELSE "down")
    /\ obs' = [obs EXCEPT ![p] = NoObservation]
    /\ UNCHANGED eventVars

\* The configuration a process decides with: the worker's cached one, or what
\* the command loaded.
Used(p) == IF p = Worker THEN cache.ver ELSE loaded[p]

Want(p) == ShouldEnable(Settings[Used(p)], obs[p])

unchangedWorld == <<worldVars, configVars, loaded, commands>>

\* run_output: a tool that fails or takes too long has told nothing.
Told(answer, nothing) == {answer} \cup (IF Faulty THEN {nothing} ELSE {})

\* observe_with_iface: the connection and its names, for which `iw' and
\* `iwconfig' are asked as well.  Without an answer of `wifi status' it is the
\* address that tells whether there is a connection.
ReadStatus(p) ==
    /\ pc[p] = "status"
    /\ \E answers \in Told(status, FALSE), ssid \in Told(Link(place).ssid, unknown),
          bssid \in Told(Link(place).bssid, unknown) :
         LET link == Named(ssid, bssid) IN
         /\ obs' = [obs EXCEPT ![p] = link]
         /\ Goto(p, CASE ~ answers -> "guess"
                      [] answers /\ link.connected -> "address"
                      [] answers /\ ~ link.connected -> "compare")
    /\ UNCHANGED <<unchangedWorld, eventVars, boxVars>>

\* get_wifi_ip: the address, read after the names and perhaps of another
\* network.
ReadAddress(p) ==
    /\ pc[p] \in {"address", "guess"}
    /\ \E ip \in Told(Address, NoIp) :
         obs' = [obs EXCEPT ![p].ip = ip,
                            ![p].connected = IF pc[p] = "guess" THEN ip # NoIp ELSE @]
    /\ Goto(p, "compare")
    /\ UNCHANGED <<unchangedWorld, eventVars, boxVars>>

\* Without control of the network there is nothing to do but to save; a
\* connection without an address is waited for.
Decision(s, o) ==
    CASE ~ s.control                          -> "save"
      [] s.control /\ o.connected /\ o.ip = NoIp -> "wait1"
      [] OTHER                                -> "look"

\* wifi_state_matches: the worker leaves a state alone that it has saved.
Compare(p) ==
    /\ pc[p] = "compare"
    /\ IF p = Worker /\ saved = obs[p]
       THEN Finish(p)
       ELSE /\ Goto(p, Decision(Settings[Used(p)], obs[p]))
            /\ UNCHANGED <<eventVars, obs>>
    /\ UNCHANGED <<unchangedWorld, boxVars>>

\* The state is saved although it was not handled.
WaitAddressBug(p) ==
    /\ pc[p] \in {"wait1", "wait2"}
    /\ \E ip \in Told(Address, NoIp) :
         /\ obs' = [obs EXCEPT ![p].ip = ip]
         /\ Goto(p, CASE ip # NoIp -> "look"
                      [] ip = NoIp /\ pc[p] = "wait1" -> "wait2"
                      [] OTHER -> "save")
    /\ UNCHANGED <<unchangedWorld, eventVars, boxVars>>

\* One attempt too many.
WaitAddressTypeBug(p) ==
    /\ pc[p] \in {"wait1", "wait2"}
    /\ \E ip \in Told(Address, NoIp) :
         /\ obs' = [obs EXCEPT ![p].ip = ip]
         /\ Goto(p, CASE ip # NoIp -> "look"
                      [] ip = NoIp /\ pc[p] = "wait1" -> "wait2"
                      [] OTHER -> "wait3")
    /\ UNCHANGED <<unchangedWorld, eventVars, boxVars>>

\* refresh_connected_ip: WIFI_IP_RETRIES - 1 more looks at the address alone;
\* without one the policy is left pending and nothing is saved.
WaitAddress(p) ==
    /\ pc[p] \in {"wait1", "wait2"}
    /\ \E ip \in Told(Address, NoIp) :
         \/ /\ ip # NoIp
            /\ obs' = [obs EXCEPT ![p].ip = ip]
            /\ Goto(p, "look") /\ UNCHANGED eventVars
         \/ /\ ip = NoIp /\ pc[p] = "wait1"
            /\ Goto(p, "wait2") /\ UNCHANGED <<eventVars, obs>>
         \/ /\ ip = NoIp /\ pc[p] = "wait2"
            /\ Finish(p)
    /\ UNCHANGED <<unchangedWorld, boxVars>>

\* start_service_if_needed, stop_service_if_needed: is_running, without a lock.
Look(p) ==
    /\ pc[p] = "look"
    /\ Goto(p, IF box = Want(p) THEN "save" ELSE "act")
    /\ UNCHANGED <<unchangedWorld, eventVars, boxVars, obs>>

\* up_from_monitor, down_from_monitor: a failed up has been rolled back, unless
\* it failed before it began; a failed down may have stopped the core.
Act(p) ==
    /\ pc[p] = "act"
    /\ unsaved' = TRUE
    /\ \/ box' = Want(p) /\ Goto(p, "save") /\ UNCHANGED <<eventVars, obs>>
       \/ Faulty /\ box' \in {box, FALSE} /\ Finish(p)
    /\ UNCHANGED <<unchangedWorld, saved, savedBy>>

\* save_wifi_state replaces the file; a failure is logged with the event.
Save(p) ==
    /\ pc[p] = "save"
    /\ \/ saved' = obs[p] /\ savedBy' = Used(p) /\ unsaved' = FALSE
       \/ Faulty /\ UNCHANGED <<saved, savedBy, unsaved>>
    /\ Finish(p)
    /\ UNCHANGED <<unchangedWorld, box>>

Reconcile(p) ==
    \/ ReadStatus(p) \/ ReadAddress(p) \/ Compare(p) \/ WaitAddress(p)
    \/ Look(p) \/ Act(p) \/ Save(p)

-----------------------------------------------------------------------------
(* The worker's loop *)

\* run_ip_monitor_once returns an error; its socket, events and cache go.
StreamEnds ==
    /\ chan = 0 /\ stream = "broken"
    /\ stream' = "closed" /\ late' = FALSE /\ cache' = NoCache
    /\ Goto(Worker, "recheck") /\ UNCHANGED chan

unchangedReconcile == <<worldVars, boxVars, obs, loaded, commands>>

\* The process loads its configuration; MonitorLock has what lies before.
SpawnWorker ==
    /\ pc[Worker] = "down"
    /\ base' = rev
    /\ Goto(Worker, "required")
    /\ UNCHANGED <<unchangedReconcile, eventVars, rev, cache>>

\* monitor_worker: at the start with its own configuration, after an error with
\* the present one, or its own if that cannot be read.
CheckRequired ==
    /\ \/ pc[Worker] = "required" /\ Goto(Worker, IF Required(base) THEN "open" ELSE "down")
       \/ /\ pc[Worker] = "recheck"
          /\ \E v \in IF Faulty THEN {rev, base} ELSE {rev} :
               Goto(Worker, IF Required(v) THEN "open" ELSE "down")
    /\ UNCHANGED <<unchangedReconcile, eventVars, configVars>>

\* run_ip_monitor_once: the socket is open before the first look, so that no
\* change falls between the two.
OpenSocket ==
    /\ pc[Worker] = "open"
    /\ stream' = "open" /\ chan' = 0 /\ cache' = NoCache
    /\ Goto(Worker, "revision")
    /\ UNCHANGED <<unchangedReconcile, late, rev, base>>

OpenFails ==
    /\ pc[Worker] = "open" /\ Faulty
    /\ Goto(Worker, "recheck")
    /\ UNCHANGED <<unchangedReconcile, eventVars, configVars>>

\* The revision is recorded at every look, also when no reload is due.
ReadRevisionBug ==
    /\ pc[Worker] = "revision"
    /\ IF cache = NoCache
       THEN /\ cache' = [ver |-> base, rev |-> rev] /\ Goto(Worker, "status")
       ELSE /\ cache' = [cache EXCEPT !.rev = rev]
            /\ \/ Goto(Worker, "status")
               \/ cache.rev # rev /\ Goto(Worker, "load")
    /\ UNCHANGED <<unchangedReconcile, eventVars, rev, base>>

\* LiveConfigCache::get: the first look takes the configuration of the start,
\* whatever the database holds by now; a later one, not within a second of the
\* last, reloads when the files' revision has changed.
ReadRevision ==
    /\ pc[Worker] = "revision"
    /\ \/ /\ cache = NoCache
          /\ cache' = [ver |-> base, rev |-> rev]
          /\ Goto(Worker, "status")
       \/ /\ cache # NoCache
          /\ Goto(Worker, "status")
          /\ UNCHANGED cache
       \/ /\ cache # NoCache /\ cache.rev # rev
          /\ cache' = [cache EXCEPT !.rev = rev]
          /\ Goto(Worker, "load")
    /\ UNCHANGED <<unchangedReconcile, eventVars, rev, base>>

\* load_live_config: after the revision was taken, so that an edit in between
\* is seen again; if it cannot be read, the configuration of the start.
LoadConfig ==
    /\ pc[Worker] = "load"
    /\ \E v \in IF Faulty THEN {rev, base} ELSE {rev} :
         cache' = [cache EXCEPT !.ver = v]
    /\ Goto(Worker, "status")
    /\ UNCHANGED <<unchangedReconcile, eventVars, rev, base>>

\* rx.recv: an event starts the debounce, the reader's error ends the loop.
Receive ==
    /\ pc[Worker] = "recv"
    /\ \/ /\ chan > 0 /\ chan' = chan - 1 /\ late' = FALSE
          /\ Goto(Worker, "quiet") /\ UNCHANGED <<stream, cache>>
       \/ StreamEnds
    /\ UNCHANGED <<unchangedReconcile, rev, base>>

\* The clock starts again with every event.
QuietBug ==
    /\ pc[Worker] = "quiet"
    /\ \/ /\ chan > 0 /\ chan' = chan - 1 /\ late' = FALSE
          /\ UNCHANGED <<stream, cache, pc>>
       \/ /\ chan = 0 /\ stream = "open" /\ Goto(Worker, "revision")
          /\ late' = FALSE /\ UNCHANGED <<stream, chan, cache>>
       \/ StreamEnds
    /\ UNCHANGED <<unchangedReconcile, rev, base>>

\* wait_for_network_event_quiet: events are swallowed until none comes for a
\* while or the longest wait is over.
Quiet ==
    /\ pc[Worker] = "quiet"
    /\ \/ /\ chan > 0 /\ chan' = chan - 1
          /\ IF late THEN Goto(Worker, "revision") ELSE UNCHANGED pc
          /\ late' = FALSE /\ UNCHANGED <<stream, cache>>
       \/ /\ chan = 0 /\ stream = "open" /\ Goto(Worker, "revision")
          /\ late' = FALSE /\ UNCHANGED <<stream, chan, cache>>
       \/ StreamEnds
    /\ UNCHANGED <<unchangedReconcile, rev, base>>

\* WIFI_EVENT_MAX_DEBOUNCE_MS pass.
TimePasses ==
    /\ pc[Worker] = "quiet" /\ ~ late
    /\ late' = TRUE
    /\ UNCHANGED <<unchangedReconcile, configVars, stream, chan, pc>>

WorkerStep ==
    \/ CheckRequired \/ OpenSocket \/ OpenFails \/ ReadRevision \/ LoadConfig
    \/ Receive \/ Quiet \/ Reconcile(Worker)

-----------------------------------------------------------------------------
(* The world *)

Notify ==
    /\ chan' = IF stream = "open" /\ chan < MaxQueue THEN chan + 1 ELSE chan
    /\ UNCHANGED <<stream, late>>

\* The device changes its network and has no address there yet.
Move ==
    /\ place' \in Place \ {place} /\ addr' = FALSE
    /\ Notify
    /\ UNCHANGED <<status, configVars, boxVars, pc, obs, loaded, commands>>

\* An address comes or goes.
ChangeAddress ==
    /\ place # Off /\ addr' = ~ addr
    /\ Notify
    /\ UNCHANGED <<place, status, configVars, boxVars, pc, obs, loaded, commands>>

\* A link, an address or a route changes that the observation is not about, as
\* those of another interface or a router's advertisement.
Chatter ==
    /\ stream = "open"
    /\ Notify
    /\ UNCHANGED <<worldVars, configVars, boxVars, pc, obs, loaded, commands>>

\* A read of the socket fails (an overrun, ENOBUFS): the reader sends the error
\* after its events and stops.
StreamBreaks ==
    /\ Faulty /\ stream = "open" /\ stream' = "broken"
    /\ UNCHANGED <<worldVars, chan, late, configVars, boxVars, pc, obs, loaded, commands>>

EditConfig ==
    /\ rev + 1 \in Version /\ rev' = rev + 1
    /\ UNCHANGED <<worldVars, eventVars, base, cache, boxVars, pc, obs, loaded, commands>>

\* `wifi apply', or `boot' with the policy on: a process of its own, with the
\* configuration of its start.
RunCommand(c) ==
    /\ pc[c] = "down" /\ commands < MaxCommands
    /\ commands' = commands + 1
    /\ loaded' = [loaded EXCEPT ![c] = rev]
    /\ Goto(c, "status")
    /\ UNCHANGED <<worldVars, eventVars, configVars, boxVars, obs>>

\* A process is killed; with the worker goes its socket.
Kill(p) ==
    /\ Faulty /\ pc[p] # "down"
    /\ Goto(p, "down")
    /\ obs' = [obs EXCEPT ![p] = NoObservation]
    /\ IF p = Worker
       THEN stream' = "closed" /\ chan' = 0 /\ late' = FALSE /\ cache' = NoCache
       ELSE UNCHANGED <<eventVars, cache>>
    /\ UNCHANGED <<worldVars, rev, base, boxVars, loaded, commands>>

Next ==
    /\ \/ WorkerStep \/ SpawnWorker \/ TimePasses
       \/ \E c \in Command : RunCommand(c) \/ Reconcile(c)
       \/ \E p \in Proc : Kill(p)
       \/ Move \/ ChangeAddress \/ Chatter \/ StreamBreaks \/ EditConfig
    /\ alone' = (alone /\ \A p, q \in Proc :
                           {pc'[p], pc'[q]} \subseteq Reconciling => p = q)

Spec == Init /\ [][Next]_vars

-----------------------------------------------------------------------------
(* Properties *)

\* The saved state, which keeps the worker from acting again on the same
\* network, tells the truth: the box is as the policy wants it there (unless a
\* command failed or was killed since, or two processes decided at a time).
SavedMeansApplied ==
    /\ saved # NoState /\ Settings[savedBy].control
    /\ ~ unsaved /\ alone
    => box = ShouldEnable(Settings[savedBy], saved)

\* LiveConfigCache never takes its configuration for newer than it is, or an
\* edit would stay unread until the next one: what it holds was loaded after the
\* revision it recorded.  (The configuration of the start is the exception: it
\* is kept under whatever revision there is.)
CacheNotBehind ==
    cache # NoCache /\ pc[Worker] # "load" /\ cache.ver # base
        => cache.ver >= cache.rev

=============================================================================
