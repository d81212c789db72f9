------------------------------ MODULE LiveRules ------------------------------
(***************************************************************************)
(* What changes under installed rules: the LOCAL_IP chains, which the      *)
(* worker refreshes when the device's addresses move, and the China list   *)
(* or the list of applications, which `cnip reload' reads again into an    *)
(* ipset or, by the program boxbpf, into pinned eBPF maps.                 *)
(*                                                                         *)
(* apply and clear work on the same chains, sets and pins.  All of them    *)
(* hold the operation lock, so one process (p) is at work at a time; what  *)
(* it leaves behind are kernel objects, lost by a reboot, and three files  *)
(* which are not: the key of the last refresh, the stamp of the ipset and  *)
(* the fingerprint of the eBPF maps.                                       *)
(*                                                                         *)
(* Abstractions.  One family; the network mode and the kind of matcher     *)
(* stay as they are.  A list fits its set and its map (65536 entries), a   *)
(* file is replaced as a whole and never deleted again, and a kill also    *)
(* ends the program boxctl waits for.  Which chains a mode has beside      *)
(* these is in RuleManager.                                                *)
(***************************************************************************)
EXTENDS Naturals, Sequences

CONSTANTS
    Setup,      \* network modes, each with what is matched and how
    Addr,       \* the sets of addresses the device may have
    MaxList,    \* how many versions of the list there are (bounds a run)
    Absent,     \* there is no such set, map or chain
    Faulty      \* may a command fail, a process be killed, the device reboot?

\* "ipset": bypass_cn_ip by ipset; "cnip": by eBPF, which then is required;
\* "app": app uids of performance mode by eBPF, with the owner match to fall
\* back to.
Kinds == {"ipset", "cnip", "app"}
Modes == {"redirect", "mixed", "tproxy", "enhance", "tun"}
Version == 1 .. MaxList
NoFile  == 0        \* the list does not exist

ASSUME LiveAssumption ==
    /\ Setup \subseteq Modes \X Kinds /\ Setup # {}
    /\ Addr # {} /\ Addr \cap {"torn", "empty", "unread"} = {}
    /\ MaxList \in Nat
    /\ Faulty \in BOOLEAN

ASSUME AbsentAssumption ==
    /\ Absent \notin Addr \cup {"torn", "empty"}
    /\ \A content \in SUBSET (Version \X {1, 2}) : Absent # content

VARIABLES
    mode, kind, \* the configuration
    addr,       \* the device's addresses
    list,       \* the list file, or the configured uids
    chain,      \* LOCAL_IP of each table
    key,        \* local_ip_refresh.key
    set, tmp,   \* the ipsets cnip and cnip_next
    stamp,      \* cnip.stamp
    maps,       \* the entries of the pinned map ...
    progs,      \* ... and are the programs that read it pinned?
    print,      \* rule-config.fingerprint
    use,        \* what the installed rules ask ...
    held,       \* ... and what that holds, if it is no longer pinned
    p,          \* the process that holds the operation lock
    dirty,      \* history: the chains were touched since the key was saved
    raced,      \* history: the list was replaced while the ipset was filled
    failed      \* history: a command of the matcher failed since the last apply

config  == <<mode, kind>>
locals  == <<chain, key, dirty>>
ipset   == <<set, tmp, stamp, raced>>
ebpf    == <<maps, progs, print>>
inForce == <<use, held, failed>>
world   == <<addr, list>>
liveVars == <<config, world, locals, ipset, ebpf, inForce, p>>

-----------------------------------------------------------------------------
\* A list has two lines.  None is shared by two versions.
Lines == {1, 2}
Entries(v) == IF v = NoFile THEN {} ELSE {v} \X Lines
Half(v)    == {<<v, 1>>}
Content    == SUBSET (Version \X Lines)

Tables == {"nat", "mangle"}

\* mode_needs_local_ip_mangle, mode_needs_local_ip_nat.
Needs(t, m) == m \in IF t = "nat" THEN {"redirect", "mixed", "enhance"}
                                  ELSE {"tproxy", "enhance"}

\* The groups an apply starts, and the tables a refresh rebuilds, in order.
GroupsOf(m) == CASE m \in {"redirect", "mixed"} -> <<"nat">>
                 [] m = "tproxy"  -> <<"mangle">>
                 [] m = "enhance" -> <<"nat", "mangle">>
                 [] m = "tun"     -> <<"tun">>

\* A refresh of both tables counts nat once for each address family it has.
RefreshedBug(m) ==
    IF m = "enhance" THEN <<"mangle", "nat", "nat">>
    ELSE IF Needs("mangle", m) THEN <<"mangle">> ELSE <<>>

Refreshed(m) == (IF Needs("mangle", m) THEN <<"mangle">> ELSE <<>>) \o
                (IF Needs("nat", m)    THEN <<"nat">>    ELSE <<>>)

Idle == [op |-> "none", at |-> "idle", saw |-> "unread", took |-> NoFile, read |-> NoFile,
         hot |-> FALSE, torn |-> FALSE, left |-> <<>>, during |-> {}]

Points == {"idle", "ok", "err", "rules_off", "pins_off", "ipset", "flush", "add",
           "added", "swap", "destroy", "stamp", "start", "update", "refill", "refilled",
           "apply", "create", "programs", "save_print", "install", "addresses",
           "rebuild", "save_key"}

Filled == Addr \cup {"empty", "torn"}

Groups == {"nat", "mangle", "tun"}

Proc == [op : {"none", "apply", "clear", "refresh", "reload"}, at : Points,
         saw : Addr \cup {"empty", "unread"}, took : Version \cup {NoFile},
         read : Version \cup {NoFile}, hot : BOOLEAN, torn : BOOLEAN,
         left : Seq(Groups), during : SUBSET (Version \cup {NoFile})]

LiveTypeOK ==
    /\ <<mode, kind>> \in Setup
    /\ addr \in Addr /\ list \in Version \cup {NoFile}
    /\ chain \in [Tables -> Filled \cup {Absent}]
    /\ key \in Addr \cup {"empty", Absent}
    /\ \A content \in {set, tmp, maps} : content = Absent \/ content \in Content
    /\ stamp \in Version \cup {NoFile}
    /\ progs \in BOOLEAN
    /\ print \in Version \cup {NoFile}
    /\ use \in {"none", "set", "pin", "frozen", "owner"} /\ held \in Content
    /\ p \in Proc /\ Len(p.left) <= 2
    /\ dirty \in BOOLEAN /\ raced \in BOOLEAN /\ failed \in BOOLEAN

LiveInit ==
    /\ \E setup \in Setup : mode = setup[1] /\ kind = setup[2]
    /\ addr \in Addr /\ list \in {NoFile, 1} \cap (Version \cup {NoFile})
    /\ chain = [t \in Tables |-> Absent] /\ key = Absent /\ dirty = FALSE
    /\ set = Absent /\ tmp = Absent /\ stamp = NoFile /\ raced = FALSE
    /\ maps = Absent /\ progs = FALSE /\ print = NoFile
    /\ use = "none" /\ held = {} /\ failed = FALSE
    /\ p = Idle

-----------------------------------------------------------------------------
To(point) == p' = [p EXCEPT !.at = point]

\* A command of the matcher fails, and the command with it.
Fail == Faulty /\ To("err") /\ failed' = TRUE

\* setup_cn_ipset_if_needed and ensure_rule_ebpf_if_needed return.
Proceed == To(IF p.op = "apply" THEN "install" ELSE "ok")

(* ipset: restore_ipset, one command of the restore script after the other *)

\* A list that is missing, or loaded already, is left alone.  One with a line
\* that is no network is an error.
CheckIpset ==
    /\ p.at = "ipset"
    /\ \/ /\ IF list = NoFile \/ (set \notin {Absent, {}} /\ stamp = list)
             THEN Proceed
             ELSE p' = [p EXCEPT !.at = "flush", !.took = list]
          /\ UNCHANGED failed
       \/ list # NoFile /\ Fail
    /\ UNCHANGED <<config, world, locals, ipset, ebpf, use, held>>

\* The temporary set of a killed restore is filled on.
FlushIpsetBug ==
    /\ p.at = "flush"
    /\ set' = IF set = Absent THEN {} ELSE set
    /\ tmp' = IF tmp = Absent THEN {} ELSE tmp
    /\ \/ To("add") /\ UNCHANGED failed
       \/ Fail
    /\ UNCHANGED <<config, world, locals, stamp, raced, ebpf, use, held>>

\* create cnip, create cnip_next, flush cnip_next.
FlushIpset ==
    /\ p.at = "flush"
    /\ set' = IF set = Absent THEN {} ELSE set
    /\ tmp' = {}
    /\ \/ To("add") /\ UNCHANGED failed
       \/ Fail
    /\ UNCHANGED <<config, world, locals, stamp, raced, ebpf, use, held>>

AddToIpset ==
    /\ \/ /\ p.at = "add"
          /\ tmp' = tmp \cup Half(p.took)
          /\ To("added") /\ UNCHANGED failed
       \/ /\ p.at = "added"
          /\ tmp' = tmp \cup Entries(p.took)
          /\ To("swap") /\ UNCHANGED failed
       \/ p.at \in {"add", "added"} /\ Fail /\ UNCHANGED tmp
    /\ UNCHANGED <<config, world, locals, set, stamp, raced, ebpf, use, held>>

SwapIpset ==
    /\ \/ p.at = "swap" /\ set' = tmp /\ tmp' = set /\ To("destroy") /\ UNCHANGED failed
       \/ p.at = "destroy" /\ tmp' = Absent /\ To("stamp") /\ UNCHANGED <<set, failed>>
       \/ p.at \in {"swap", "destroy"} /\ Fail /\ UNCHANGED <<set, tmp>>
    /\ UNCHANGED <<config, world, locals, stamp, raced, ebpf, use, held>>

\* write_ipset_stamp: of the file as it is now, and without a word if it fails.
StampIpset ==
    /\ p.at = "stamp"
    /\ \/ stamp' = list /\ raced' = (list # p.took)
       \/ Faulty /\ UNCHANGED <<stamp, raced>>
    /\ Proceed
    /\ UNCHANGED <<config, world, locals, set, tmp, ebpf, inForce>>

-----------------------------------------------------------------------------
(* The eBPF matcher: boxctl (ensure_rule_ebpf_if_needed) and boxbpf *)

\* remove_known_pins: rules that are installed keep the programs they ask, and
\* through them the maps.
RemovePins ==
    /\ maps' = Absent /\ progs' = FALSE
    /\ IF use = "pin" THEN use' = "frozen" /\ held' = maps
                      ELSE UNCHANGED <<use, held>>

\* boxbpf ends with an error.  After --update comes --apply; an error of that
\* is none if the matcher is not required, as for app uids alone.
BpfFails ==
    /\ failed' = TRUE
    /\ p' = [p EXCEPT !.hot = FALSE, !.torn = FALSE,
                      !.at = IF p.hot THEN "apply"
                             ELSE IF kind = "app" THEN "save_print" ELSE "err"]

\* What boxbpf reads: boxctl has written the app uids for it, the China list is
\* opened when it is its turn.
Source == IF kind = "app" THEN p.took ELSE list

\* The fingerprint is of the list before boxbpf reads it.
StartMatcher ==
    /\ p.at = "start" /\ Source # NoFile
    /\ IF p.op = "reload" /\ print = Source
       THEN To("ok")
       ELSE p' = [p EXCEPT !.took = Source, !.hot = (p.op = "reload"),
                           !.at = IF p.op = "reload" /\ maps # Absent
                                  THEN "update" ELSE "apply"]
    /\ UNCHANGED <<config, world, locals, ipset, ebpf, inForce>>

\* There is nothing to match with, or nothing to match: only the China list is
\* required.
NoMatcher ==
    /\ p.at = "start"
    /\ \/ Source = NoFile /\ UNCHANGED failed
       \/ Faulty /\ failed' = TRUE
    /\ IF kind = "app" THEN Proceed ELSE To("err")
    /\ UNCHANGED <<config, world, locals, ipset, ebpf, use, held>>

\* --apply: the pins are removed, maps are made, filled and pinned, and then the
\* programs that read them.  An error removes them all; boxbpf may not run at all.
BpfApply ==
    /\ \/ p.at = "apply" /\ RemovePins /\ To("create") /\ UNCHANGED failed
       \/ /\ p.at = "create"
          /\ maps' = Entries(Source)
          /\ To("programs")
          /\ UNCHANGED <<progs, use, held, failed>>
       \/ /\ p.at = "programs"
          /\ progs' = TRUE
          /\ p' = [p EXCEPT !.at = "save_print", !.hot = FALSE]
          /\ UNCHANGED <<maps, use, held, failed>>
       \/ Faulty /\ p.at \in {"create", "programs"} /\ RemovePins /\ BpfFails
       \/ p.at = "apply" /\ ~ p.hot /\ Fail /\ UNCHANGED <<maps, progs, use, held>>
    /\ UNCHANGED <<config, world, locals, ipset, print>>

\* --update: the pinned map is emptied and filled again under the rules.  What
\* could not be deleted is an error, but only at the end.
BpfUpdate ==
    /\ \/ p.at = "update" /\ maps' = {} /\ To("refill") /\ UNCHANGED failed
       \/ p.at = "update" /\ Faulty /\ BpfFails /\ UNCHANGED maps
       \/ /\ p.at = "update" /\ Faulty
          /\ maps' \in SUBSET maps
          /\ p' = [p EXCEPT !.at = "refill", !.torn = TRUE]
          /\ UNCHANGED failed
       \/ /\ p.at = "refill"
          /\ maps' = IF Source = NoFile THEN maps ELSE maps \cup Half(Source)
          /\ p' = [p EXCEPT !.at = "refilled", !.read = Source]
          /\ UNCHANGED failed
       \/ /\ p.at = "refilled"
          /\ maps' = maps \cup Entries(p.read)
          /\ IF p.torn THEN BpfFails
             ELSE p' = [p EXCEPT !.at = "save_print", !.hot = FALSE] /\ UNCHANGED failed
    /\ UNCHANGED <<config, world, locals, ipset, progs, print, use, held>>

\* The fingerprint of the list as it is now, like the stamp of an ipset.
SavePrintBug ==
    /\ p.at = "save_print"
    /\ \/ print' = Source /\ Proceed /\ UNCHANGED failed
       \/ print' \in {print, Source} /\ Fail
    /\ UNCHANGED <<config, world, locals, ipset, maps, progs, use, held>>

\* save_ebpf_reload_fingerprint: of the list before boxbpf read it.
SavePrint ==
    /\ p.at = "save_print"
    /\ \/ print' = p.took /\ Proceed /\ UNCHANGED failed
       \/ print' \in {print, p.took} /\ Fail
    /\ UNCHANGED <<config, world, locals, ipset, maps, progs, use, held>>

-----------------------------------------------------------------------------
(* apply and clear, as far as the chains, sets and pins go *)

\* cleanup_iptables_for_mode: no rules, no chains.
RulesOff ==
    /\ p.at = "rules_off"
    /\ chain' = [t \in Tables |-> Absent] /\ dirty' = TRUE
    /\ use' = "none" /\ held' = {}
    /\ To("pins_off")
    /\ UNCHANGED <<config, world, key, ipset, ebpf, failed>>

\* cleanup_rule_ebpf; then apply sets the matcher up.
PinsOff ==
    /\ p.at = "pins_off"
    /\ RemovePins
    /\ To(IF p.op = "clear" THEN "ok" ELSE IF kind = "ipset" THEN "ipset" ELSE "start")
    /\ failed' = (failed /\ p.op = "clear")
    /\ UNCHANGED <<config, world, locals, ipset, print>>

\* What rules that are installed now ask; FALSE if they cannot be installed.
Asked == CASE kind = "ipset" -> IF set = Absent THEN "nothing" ELSE "set"
           [] kind = "cnip"  -> IF progs THEN "pin" ELSE "nothing"
           [] kind = "app"   -> IF p.took = NoFile THEN "none"
                                ELSE IF progs THEN "pin" ELSE "owner"

\* What `ip addr' shows, or nothing when it fails.
Addresses == {addr} \cup IF Faulty THEN {"empty"} ELSE {}

This == Head(p.left)

\* start_redirect, start_tproxy, start_tun_bypass: a LOCAL_IP chain for the
\* table, of the addresses read for the first one, and rules that ask.
InstallGroup ==
    /\ p.at = "install" /\ p.left # <<>> /\ Asked # "nothing"
    /\ \E saw \in IF p.saw = "unread" THEN Addresses ELSE {p.saw} :
         /\ p' = [p EXCEPT !.saw = saw, !.left = Tail(@)]
         /\ IF This = "tun" THEN UNCHANGED chain
            ELSE chain' \in {[chain EXCEPT ![This] = c] :
                                c \in {saw} \cup IF Faulty THEN {"torn"} ELSE {}}
    /\ use' = Asked
    /\ held' = IF Asked = "owner" THEN Entries(p.took) ELSE {}
    /\ UNCHANGED <<config, world, key, dirty, ipset, ebpf, failed>>

\* A group cannot be installed: its own rules, or those of the group before it
\* as well, are removed.
InstallFails ==
    /\ p.at = "install" /\ p.left # <<>>
    /\ (Asked = "nothing" \/ Faulty)
    /\ \/ use' = "none" /\ held' = {} /\ chain' = [t \in Tables |-> Absent]
       \/ UNCHANGED <<use, held, chain>>
    /\ To("err")
    /\ UNCHANGED <<config, world, key, dirty, ipset, ebpf, failed>>

Installed ==
    /\ p.at = "install" /\ p.left = <<>>
    /\ (To("ok") \/ (Faulty /\ To("err")))
    /\ UNCHANGED <<config, world, locals, ipset, ebpf, inForce>>

-----------------------------------------------------------------------------
(* refresh_local_ip_rules *)

\* The key of the last refresh decides.
ReadAddresses ==
    /\ p.at = "addresses"
    /\ IF p.left = <<>>
       THEN To("ok") /\ UNCHANGED dirty
       ELSE \E saw \in Addresses :
              /\ p' = [p EXCEPT !.saw = saw, !.at = IF key = saw THEN "ok" ELSE "rebuild"]
              /\ dirty' = (dirty \/ key # saw)
    /\ UNCHANGED <<config, world, chain, key, ipset, ebpf, inForce>>

\* A chain that cannot be rebuilt is passed over.
RebuildChainBug ==
    /\ p.at = "rebuild" /\ p.left # <<>>
    /\ \/ chain' = [chain EXCEPT ![This] = p.saw]
       \/ Faulty /\ chain' \in {chain, [chain EXCEPT ![This] = "torn"]}
    /\ p' = [p EXCEPT !.left = Tail(@)]
    /\ UNCHANGED <<config, world, key, dirty, ipset, ebpf, inForce>>

\* rebuild_local_ip_chain: at once by iptables-restore; or rule by rule, where
\* rules that fail are counted, but for the first.
RebuildChain ==
    /\ p.at = "rebuild" /\ p.left # <<>>
    /\ \/ /\ chain' = [chain EXCEPT ![This] = p.saw]
          /\ p' = [p EXCEPT !.left = Tail(@)]
       \/ /\ Faulty
          /\ chain' = [chain EXCEPT ![This] = "torn"]
          /\ p' = [p EXCEPT !.left = Tail(@), !.torn = TRUE]
       \/ /\ Faulty
          /\ chain' \in {chain, [chain EXCEPT ![This] = "torn"]}
          /\ To("err")
    /\ UNCHANGED <<config, world, key, dirty, ipset, ebpf, inForce>>

SaveKey ==
    /\ p.at = "rebuild" /\ p.left = <<>>
    /\ \/ key' = p.saw /\ dirty' = p.torn /\ To("ok")
       \/ Faulty /\ key' \in {key, p.saw} /\ To("err") /\ UNCHANGED dirty
    /\ UNCHANGED <<config, world, chain, ipset, ebpf, inForce>>

-----------------------------------------------------------------------------
(* Commands and the world around them *)

Call(op) ==
    /\ p.at = "idle"
    /\ p' = [Idle EXCEPT !.op = op,
               !.took   = IF op \in {"apply", "reload"} THEN list ELSE NoFile,
               !.during = IF op \in {"apply", "reload"} THEN {list} ELSE {},
               !.at = CASE op \in {"apply", "clear"} -> "rules_off"
                        [] op = "refresh" -> "addresses"
                        [] op = "reload"  -> IF kind = "ipset" THEN "ipset" ELSE "start",
               !.left = IF op = "refresh" THEN Refreshed(mode) ELSE GroupsOf(mode)]
    /\ UNCHANGED <<config, world, locals, ipset, ebpf, inForce>>

Answer ==
    /\ p.at \in {"ok", "err"}
    /\ p' = Idle
    /\ UNCHANGED <<config, world, locals, ipset, ebpf, inForce>>

Killed ==
    /\ Faulty /\ p.at \notin {"idle", "ok", "err"}
    /\ p' = Idle
    /\ failed' = TRUE
    /\ UNCHANGED <<config, world, locals, ipset, ebpf, use, held>>

\* The kernel's objects are gone; the files are not.
Reboot ==
    /\ Faulty
    /\ p' = Idle
    /\ chain' = [t \in Tables |-> Absent] /\ dirty' = TRUE
    /\ set' = Absent /\ tmp' = Absent
    /\ maps' = Absent /\ progs' = FALSE
    /\ use' = "none" /\ held' = {}
    /\ UNCHANGED <<config, world, key, stamp, raced, print, failed>>

Move ==
    /\ addr' \in Addr \ {addr}
    /\ UNCHANGED <<config, list, locals, ipset, ebpf, inForce, p>>

\* A new list comes with a time of its own; uids may be chosen again as before.
ReplaceList ==
    /\ list' \in IF kind = "app" THEN Version \ {list} ELSE {list + 1} \cap Version
    /\ p' = IF p.during = {} THEN p ELSE [p EXCEPT !.during = @ \cup {list'}]
    /\ UNCHANGED <<config, addr, locals, ipset, ebpf, inForce>>

LiveStep ==
    \/ CheckIpset \/ FlushIpset \/ AddToIpset \/ SwapIpset \/ StampIpset
    \/ StartMatcher \/ NoMatcher \/ BpfApply \/ BpfUpdate \/ SavePrint
    \/ RulesOff \/ PinsOff \/ InstallGroup \/ InstallFails \/ Installed
    \/ ReadAddresses \/ RebuildChain \/ SaveKey

LiveNext ==
    \/ \E op \in {"apply", "clear", "refresh", "reload"} : Call(op)
    \/ LiveStep \/ Answer \/ Killed \/ Reboot \/ Move \/ ReplaceList

LiveSpec == LiveInit /\ [][LiveNext]_liveVars

-----------------------------------------------------------------------------
(* Properties *)

\* What the installed rules find when they ask.
Seen == CASE use = "set" -> set
          [] use = "pin" -> maps
          [] use \in {"frozen", "owner"} -> held

Whole(content) == \E v \in Version \cup {NoFile} : content = Entries(v)

\* A refresh that answers Ok leaves every chain of the mode with the addresses
\* it read, whether it rebuilt them or trusted its key.  It trusts the key too
\* much after an apply, a clear, a reboot, an unfinished refresh or single rules
\* that failed (dirty), none of which removes it.
RefreshOkMeansCurrent ==
    p.at = "ok" /\ p.op = "refresh" /\ ~ dirty =>
        \A t \in Tables : Needs(t, mode) => chain[t] = p.saw

\* apply and `cnip reload' answer Ok with rules in force that see a version of
\* the list that was there since the command began.  For an ipset its stamp must
\* not be of a list that replaced it while it was read (raced); a reload reaches
\* rules that ask the pinned maps, and the uids it may be asked to restore only
\* if none of its commands failed in between.
OkMeansInForce ==
    /\ p.at = "ok" /\ p.op \in {"apply", "reload"} /\ use # "none"
    /\ CASE kind = "ipset" -> ~ raced
         [] kind = "cnip"  -> p.op = "apply" \/ use = "pin"
         [] kind = "app"   -> p.op = "apply" \/ ~ failed
    => \E v \in p.during : Seen = Entries(v)

\* Rules never ask a list that is filled half, or with two versions, whatever is
\* killed: an ipset is swapped in whole.  Pinned maps are refilled in place, so
\* there the update is excepted, and what a failed one leaves.
WholeLists ==
    /\ use = "set" => Whole(set)
    /\ use \in {"pin", "frozen"} =>
         Whole(Seen) \/ failed \/ p.at \in {"refill", "refilled"}

=============================================================================
