----------------------------- MODULE RuleManager -----------------------------
(***************************************************************************)
(* Applying and clearing the inbound rules: rules::apply, clear and renew  *)
(* of a RuleManager, for the configuration their process has loaded.       *)
(*                                                                         *)
(* What is installed is a set of artifacts.  Chains and routes have names  *)
(* of their own; the others - the forward rules of the tun device, the     *)
(* rejects of a port, the DNAT of a fake-ip range - are keyed by a setting *)
(* and are deleted by writing the same rule again, with the setting of the *)
(* process that deletes.  The runtime snapshot records what was applied.   *)
(*                                                                         *)
(* A deletion that fails is ignored, and so is the failure to switch the   *)
(* system's IPv6: apply and clear go on, and answer Ok.  stuck remembers   *)
(* what stayed for that reason.                                            *)
(*                                                                         *)
(* Abstractions.  A group of artifacts is one start_* / stop_* pair; its   *)
(* iptables commands fail together or leave any part of the group.  Reading*)
(* the snapshot does not fail.  Batches are the subject of RuleBatch.  eBPF*)
(* maps and ipsets are not rules.                                          *)
(***************************************************************************)
EXTENDS Naturals, Sequences

CONSTANTS
    Mode,       \* configured network modes
    Setting,    \* values of tun_device, the ports and fake_ip_range
    Ipv6Mode,   \* values of ipv6_mode
    Faulty,     \* may a command fail and a process be killed?
    Undeletable,\* artifacts whose deletion may fail (bounds a run)
    Edits,      \* does the user edit the configuration, TRUE for while all is
                \* cleared, FALSE for while it is not?
    NoSnap,     \* there is no runtime snapshot
    Fixed       \* the key of an artifact that depends on no setting

Modes == {"redirect", "tproxy", "mixed", "enhance", "tun", "ebpf"}
Family == {"v4", "v6"}

Kinds == {"redirect", "redir_reject", "tproxy", "tproxy_reject", "icmp", "forward",
          "bypass"}

ASSUME RuleAssumption ==
    /\ Mode \subseteq Modes /\ Mode # {}
    /\ Setting # {} /\ Fixed \notin Setting
    /\ Ipv6Mode \subseteq {"enable", "disable", "bypass"} /\ Ipv6Mode # {}
    /\ Faulty \in BOOLEAN /\ Undeletable \subseteq Kinds
    /\ Edits \subseteq BOOLEAN

Config == [mode : Mode, set : Setting, ipv6 : Ipv6Mode]

ASSUME SnapAssumption == NoSnap \notin Config

VARIABLES
    config,     \* the configuration in the database
    rules,      \* installed artifacts
    stuck,      \* those whose last deletion was tried and failed
    sysIpv6,    \* the system's IPv6: on, turned off, or off because turning it
                \* on again was tried and failed ("stuck")
    snap,       \* runtime.iptables.json
    rt          \* the RuleManager at work

ruleVars == <<config, rules, stuck, sysIpv6, snap, rt>>

Groups == {"redirect", "tproxy", "forward", "bypass"}

Artifact == Family \X Kinds \X (Setting \cup {Fixed})

NoManager == [op |-> "none", at |-> "idle", conf |-> config, fam |-> "v4",
              left |-> <<>>]

\* What a family's apply_<mode>_family starts, in order.
GroupsOf(mode) ==
    CASE mode = "redirect" -> <<"redirect">>
      [] mode = "tproxy"   -> <<"tproxy">>
      [] mode = "mixed"    -> <<"forward", "redirect">>
      [] mode = "enhance"  -> <<"redirect", "tproxy">>
      [] mode = "tun"      -> <<"forward", "bypass">>
      [] mode = "ebpf"     -> <<>>

Lefts == {<<>>} \cup {<<g>> : g \in Groups} \cup
         {<<"forward", "redirect">>, <<"redirect", "tproxy">>, <<"forward", "bypass">>}

RuleTypeOK ==
    /\ config \in Config
    /\ rules \subseteq Artifact /\ stuck \subseteq rules
    /\ sysIpv6 \in {"on", "off", "stuck"}
    /\ snap \in Config \cup {NoSnap}
    /\ rt \in [op : {"none", "apply", "clear", "renew"},
               at : {"idle", "apply", "install", "save", "clear", "unsnap",
                     "ok", "err"},
               conf : Config, fam : Family, left : Lefts]

RulesInit ==
    /\ config \in Config
    /\ rules = {} /\ stuck = {}
    /\ sysIpv6 = "on"
    /\ snap = NoSnap
    /\ rt = NoManager

-----------------------------------------------------------------------------
(* Artifacts *)

\* Without its reject and icmp rules a group works: their failure is ignored.
\* Redirection of IPv6 is left out where the kernel has no ip6tables nat table,
\* and the failure of a forward rule is only logged.
Essential(f, g) ==
    CASE g = "redirect" -> IF f = "v4" THEN {<<f, "redirect", Fixed>>} ELSE {}
      [] g = "tproxy"   -> {<<f, "tproxy", Fixed>>}
      [] g = "forward"  -> {}
      [] g = "bypass"   -> {<<f, "bypass", Fixed>>}

\* The artifacts of group g with setting s.
GroupArtifacts(f, g, s) ==
    CASE g = "redirect" -> {<<f, "redirect", Fixed>>, <<f, "redir_reject", s>>}
      [] g = "tproxy"   -> {<<f, "tproxy", Fixed>>, <<f, "tproxy_reject", s>>}
                           \cup (IF f = "v4" THEN {<<f, "icmp", s>>} ELSE {})
      [] g = "forward"  -> {<<f, "forward", s>>}
      [] g = "bypass"   -> {<<f, "bypass", Fixed>>}

\* start_redirect, start_tproxy, forward, start_tun_bypass: what they install.
Started(f, g, conf) ==
    IF conf.mode = "enhance"
    THEN GroupArtifacts(f, g, conf.set) \ {<<f, "tproxy_reject", conf.set>>}
    ELSE GroupArtifacts(f, g, conf.set)

\* The reject of the tproxy port, which enhance does not install, is kept.
StoppedBug(f, g, s) == GroupArtifacts(f, g, s) \ {<<f, "tproxy_reject", s>>}

\* stop_redirect, stop_tproxy, cleanup_forward, stop_tun_bypass: what they
\* delete when run with setting s.
Stopped(f, g, s) == GroupArtifacts(f, g, s)

\* The groups cleanup_iptables_family stops.
CleanedGroups(mode) ==
    CASE mode = "none"     -> {}
      [] mode = "redirect" -> {"redirect"}
      [] mode = "tproxy"   -> {"tproxy"}
      [] mode = "enhance"  -> {"redirect", "tproxy"}
      [] mode = "mixed"    -> {"redirect", "forward"}
      [] mode = "tun"      -> {"bypass", "forward"}
      [] mode = "ebpf"     -> {}
      [] mode = "all"      -> Groups

\* cleanup_iptables_for_mode with setting s.
Cleaned(mode, s) ==
    UNION {Stopped(f, g, s) : f \in Family, g \in CleanedGroups(mode)}

\* The rules of part are added, then those of gone deleted: what cannot be
\* deleted stays, and nobody is told.
Change(part, gone) ==
    \E kept \in SUBSET {a \in (rules \cup part) \cap gone : Faulty /\ a[2] \in Undeletable} :
        /\ rules' = ((rules \cup part) \ gone) \cup kept
        /\ stuck' = (stuck \ (part \cup gone)) \cup kept

\* has_existing_box_rules: only chains of boxctl's own show, not the rules that
\* are put into the chains of the system.
HasExistingBoxRules ==
    \E a \in rules : a[2] \in {"redirect", "tproxy", "bypass"}

\* cleanup_mode_for_clear: what the snapshot says was applied.
CleanupModeForClear == IF snap = NoSnap THEN "all" ELSE snap.mode

\* cleanup_mode_for_apply: all, unless the snapshot agrees in every respect.
\* Without one the rules are listed; a list that fails shows none.
CleanupModesForApply(conf) ==
    IF snap = NoSnap
    THEN IF HasExistingBoxRules THEN {"all"} \cup (IF Faulty THEN {"none"} ELSE {})
         ELSE {"none"}
    ELSE {IF snap = conf THEN snap.mode ELSE "all"}

\* ipv6_enable: a setting that is right is not written again, and what cannot be
\* written is only logged.
TurnIpv6On ==
    \/ sysIpv6' = "on"
    \/ Faulty /\ sysIpv6 # "on" /\ sysIpv6' = "stuck"

\* disable_system_ipv6, likewise.
TurnIpv6Off ==
    \/ sysIpv6' = "off"
    \/ Faulty /\ UNCHANGED sysIpv6

-----------------------------------------------------------------------------
(* rules::apply *)

ToPoint(point) == rt' = [rt EXCEPT !.at = point]

Manager(op, conf) ==
    [op |-> op, at |-> IF op = "apply" THEN "apply" ELSE "clear", conf |-> conf,
     fam |-> "v4", left |-> GroupsOf(conf.mode)]

\* Checks, the removal of what an earlier apply left, ipsets and eBPF maps.
PrepareApply ==
    /\ rt.at = "apply"
    /\ \/ /\ \E mode \in CleanupModesForApply(rt.conf) :
               Change({}, Cleaned(mode, rt.conf.set))
          /\ \/ ToPoint(IF rt.conf.mode = "ebpf" THEN "save" ELSE "install")
             \/ Faulty /\ rt.conf.mode # "ebpf" /\ ToPoint("err")
       \/ /\ Faulty /\ ToPoint("err")
          /\ UNCHANGED <<rules, stuck>>
    /\ UNCHANGED <<config, sysIpv6, snap>>

This == Head(rt.left)

\* A group is put last instead of being done with.
NextGroupBug == rt' = [rt EXCEPT !.left = Append(Tail(@), This)]

NextGroup == rt' = [rt EXCEPT !.left = Tail(@)]

\* A group starts; what is not essential to it may be missing.
StartGroup ==
    /\ rt.at = "install" /\ rt.left # <<>>
    /\ \E part \in SUBSET Started(rt.fam, This, rt.conf) :
         /\ Essential(rt.fam, This) \subseteq part
         /\ Change(part, {})
    /\ NextGroup
    /\ UNCHANGED <<config, sysIpv6, snap>>

\* The core itself routes tun traffic (tun_route_managed_by_box is false).
SkipBypass ==
    /\ rt.at = "install" /\ rt.left # <<>>
    /\ This = "bypass"
    /\ Change({}, Stopped(rt.fam, "bypass", rt.conf.set))
    /\ NextGroup
    /\ UNCHANGED <<config, sysIpv6, snap>>

\* What the family's error path stops when group g fails to start.
Undone(f, g, conf) ==
    CASE g = "redirect" /\ conf.mode = "enhance" -> {}
      [] g = "tproxy" /\ conf.mode = "enhance" ->
           IF f = "v6" THEN {}
           ELSE Stopped(f, "redirect", conf.set) \cup Stopped(f, "tproxy", conf.set)
      [] g = "bypass" ->
           Stopped(f, "bypass", conf.set) \cup Stopped(f, "forward", conf.set)
      [] OTHER -> Stopped(f, g, conf.set)

\* Neither family needs tproxy.
FailGroupBug ==
    /\ Faulty
    /\ rt.at = "install" /\ rt.left # <<>>
    /\ This # "forward"
    /\ \E part \in SUBSET Started(rt.fam, This, rt.conf) :
         Change(part, Undone(rt.fam, This, rt.conf))
    /\ IF This = "tproxy" THEN NextGroup ELSE ToPoint("err")
    /\ UNCHANGED <<config, sysIpv6, snap>>

\* A group fails half way.  Without IPv6 tproxy the mode goes on.
FailGroup ==
    /\ Faulty
    /\ rt.at = "install" /\ rt.left # <<>>
    /\ This # "forward"
    /\ \E part \in SUBSET Started(rt.fam, This, rt.conf) :
         Change(part, Undone(rt.fam, This, rt.conf))
    /\ IF This = "tproxy" /\ rt.fam = "v6" THEN NextGroup ELSE ToPoint("err")
    /\ UNCHANGED <<config, sysIpv6, snap>>

\* apply_dual_stack: the end of a family, and what follows the first.
EndFamily ==
    /\ rt.at = "install" /\ rt.left = <<>>
    /\ \/ /\ rt.fam = "v4" /\ rt.conf.ipv6 = "enable"
          /\ TurnIpv6On
          /\ rt' = [rt EXCEPT !.fam = "v6", !.left = GroupsOf(rt.conf.mode)]
       \/ /\ rt.fam = "v4" /\ rt.conf.ipv6 # "enable"
          /\ IF rt.conf.ipv6 = "disable" THEN TurnIpv6Off ELSE TurnIpv6On
          /\ ToPoint("save")
       \/ /\ rt.fam = "v6"
          /\ ToPoint("save")
          /\ UNCHANGED sysIpv6
       \/ /\ Faulty /\ ToPoint("err")       \* end_batch fails
          /\ UNCHANGED sysIpv6
    /\ UNCHANGED <<config, rules, stuck, snap>>

\* runtime_save: the file is replaced by a rename, whose directory may then
\* fail to be synced.
SaveSnapshot ==
    /\ rt.at = "save"
    /\ \/ snap' = rt.conf /\ ToPoint("ok")
       \/ Faulty /\ snap' \in {snap, rt.conf} /\ ToPoint("err")
    /\ UNCHANGED <<config, rules, stuck, sysIpv6>>

-----------------------------------------------------------------------------
(* rules::clear *)

\* The system's IPv6 is left as apply made it.
ClearBug ==
    /\ rt.at = "clear"
    /\ Change({}, Cleaned(CleanupModeForClear, rt.conf.set))
    /\ ToPoint("unsnap")
    /\ UNCHANGED <<config, sysIpv6, snap>>

\* Removal of the rules of the mode that the snapshot names, or of all ...
Clear ==
    /\ rt.at = "clear"
    /\ Change({}, Cleaned(CleanupModeForClear, rt.conf.set))
    /\ IF CleanupModeForClear = "ebpf" THEN UNCHANGED sysIpv6 ELSE TurnIpv6On
    /\ ToPoint("unsnap")
    /\ UNCHANGED <<config, snap>>

\* ... and of the snapshot, which renew follows with an apply.
RemoveSnapshot ==
    /\ rt.at = "unsnap"
    /\ \/ /\ snap' = NoSnap
          /\ ToPoint(IF rt.op = "renew" THEN "apply" ELSE "ok")
       \/ Faulty /\ snap' \in {snap, NoSnap} /\ ToPoint("err")
    /\ UNCHANGED <<config, rules, stuck, sysIpv6>>

RuleStep ==
    \/ PrepareApply \/ StartGroup \/ SkipBypass \/ FailGroup \/ EndFamily
    \/ SaveSnapshot \/ Clear \/ RemoveSnapshot

-----------------------------------------------------------------------------
(* The commands mode apply, mode clear and mode renew, one at a time *)

Call(op) ==
    /\ rt.at = "idle"
    /\ rt' = Manager(op, config)
    /\ UNCHANGED <<config, rules, stuck, sysIpv6, snap>>

Done ==
    /\ rt.at \in {"ok", "err"}
    /\ rt' = NoManager
    /\ UNCHANGED <<config, rules, stuck, sysIpv6, snap>>

Killed ==
    /\ Faulty /\ rt.at # "idle"
    /\ rt' = NoManager
    /\ UNCHANGED <<config, rules, stuck, sysIpv6, snap>>

\* All that clear does has been done or at least tried.
Emptied == rules \subseteq stuck /\ sysIpv6 # "off"

\* The rules are cleared, there is no snapshot, and nobody is at work on them.
Cleared == Emptied /\ snap = NoSnap /\ rt.at = "idle"

Edit ==
    /\ Cleared \in Edits
    /\ config' \in Config
    /\ UNCHANGED <<rules, stuck, sysIpv6, snap, rt>>

RulesNext ==
    \/ \E op \in {"apply", "clear", "renew"} : Call(op)
    \/ RuleStep \/ Done \/ Killed \/ Edit

RulesSpec == RulesInit /\ [][RulesNext]_ruleVars

-----------------------------------------------------------------------------
(* Properties *)

\* Every artifact belongs to what the configuration conf installs, or is there
\* because deleting it failed.
Belongs(conf) ==
    rules \ stuck \subseteq UNION {Started(f, GroupsOf(conf.mode)[i], conf) :
                                     f \in Family, i \in DOMAIN GroupsOf(conf.mode)}

\* The IPv4 rules of conf's mode are installed, nothing of another mode or
\* setting is beside them that could be deleted, and the snapshot says so.
Exact(conf) ==
    /\ Belongs(conf)
    /\ snap = conf
    /\ \A i \in DOMAIN GroupsOf(conf.mode) :
         LET g == GroupsOf(conf.mode)[i]
         IN  g # "bypass" => Essential("v4", g) \subseteq rules

\* rules::apply and renew answer Ok with their configuration's rules installed,
\* whatever failed, was killed or was applied before; a rule of another
\* configuration stays only if its deletion was tried and failed.
ApplyOkExact == rt.at = "ok" /\ rt.op \in {"apply", "renew"} => Exact(rt.conf)

\* rules::clear answers Ok only with every rule and the disabled IPv6 attended to
\* ("so nothing is ever left behind", rules.rs), whatever failed or was killed
\* before: a rule is left, or IPv6 off, only when undoing it was tried and failed.
ClearOkTriedAll == rt.at = "ok" /\ rt.op = "clear" => Emptied

=============================================================================
