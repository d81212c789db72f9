--------------------------- MODULE BoxControlProofs ---------------------------
(***************************************************************************)
(* Proofs about the inbound rules and about BoxControl.                    *)
(*                                                                         *)
(* RuleManager first.  Types hold always.  While the configuration is      *)
(* edited only when the rules are cleared, ExactInv is inductive: whatever *)
(* failed or was killed, everything installed belongs to the one           *)
(* configuration or is there because its deletion failed, and the snapshot *)
(* names the configuration or is missing, so that what clear and apply     *)
(* delete covers all that is there.                                        *)
(*                                                                         *)
(* Then the commands, whose threads are RuleManager's and CoreService's.   *)
(* BoxInv holds always: the types, who holds the lock and has threads, what*)
(* the service thread knows (ServiceInv), and what each phase of a command *)
(* knows of its threads.  What the rules' thread knows depends on edits:   *)
(* QuietInv while nobody edits under a command, CalmInv while no rule fails*)
(* and the mode is all that is edited.  Either makes an Ok true.           *)
(***************************************************************************)
EXTENDS BoxControl, CoreServiceProofs

\* The groups in a family's list.
Elems(l) == {l[i] : i \in DOMAIN l}

-----------------------------------------------------------------------------
(* Lemmas about groups and artifacts *)

LEMMA LeftsTail ==
    ASSUME NEW l \in Lefts, l # <<>>
    PROVE  /\ Head(l) \in Groups /\ Tail(l) \in Lefts
           /\ Elems(l) = Elems(Tail(l)) \cup {Head(l)}
           /\ Head(l) \notin Elems(Tail(l))
  <1>1. CASE \E g \in Groups : l = <<g>>
    <2>1. PICK g \in Groups : l = <<g>>
      BY <1>1
    <2>2. Head(l) = g /\ Tail(l) = <<>> /\ Elems(l) = {g} /\ Elems(Tail(l)) = {}
      BY <2>1 DEF Elems
    <2> QED BY <2>2 DEF Lefts
  <1>2. ASSUME NEW g, NEW h, l = <<g, h>>, g \in Groups, h \in Groups, g # h
        PROVE  /\ Head(l) \in Groups /\ Tail(l) \in Lefts
               /\ Elems(l) = Elems(Tail(l)) \cup {Head(l)}
               /\ Head(l) \notin Elems(Tail(l))
    <2>1. Head(l) = g /\ Tail(l) = <<h>> /\ Elems(l) = {g, h} /\ Elems(Tail(l)) = {h}
      BY <1>2 DEF Elems
    <2> QED BY <1>2, <2>1 DEF Lefts
  <1> QED BY <1>1, <1>2 DEF Lefts, Groups

LEMMA GroupsOfLefts ==
    ASSUME NEW mode \in Modes
    PROVE  GroupsOf(mode) \in Lefts
  BY DEF GroupsOf, Lefts, Groups, Modes

\* What a mode starts, cleaning up after it stops.
LEMMA GroupsCleaned ==
    ASSUME NEW mode \in Modes
    PROVE  Elems(GroupsOf(mode)) = CleanedGroups(mode)
  BY DEF Elems, GroupsOf, CleanedGroups, Modes

LEMMA StartedStopped ==
    ASSUME NEW f \in Family, NEW g \in Groups, NEW conf \in Config
    PROVE  /\ Started(f, g, conf) \subseteq Stopped(f, g, conf.set)
           /\ Started(f, g, conf) \subseteq Artifact
           /\ Essential(f, g) \subseteq Started(f, g, conf)
  BY DEF Started, Stopped, GroupArtifacts, Essential, Artifact, Kinds, Config, Groups, Family

\* What a change adds and deletes is of its two sets, and what it deletes goes or
\* is stuck.
LEMMA ChangeFacts ==
    ASSUME NEW part, NEW gone, Change(part, gone)
    PROVE  /\ rules' \subseteq rules \cup part
           /\ (rules \cup part) \ gone \subseteq rules'
           /\ rules' \ stuck' \subseteq ((rules \ stuck) \cup part) \ gone
           /\ stuck \subseteq rules => stuck' \subseteq rules'
           /\ ~ Faulty => rules' = (rules \cup part) \ gone
  <1>1. PICK kept \in SUBSET {a \in (rules \cup part) \cap gone :
                              Faulty /\ a[2] \in Undeletable} :
          /\ rules' = ((rules \cup part) \ gone) \cup kept
          /\ stuck' = (stuck \ (part \cup gone)) \cup kept
    BY DEF Change
  <1>2. kept \subseteq (rules \cup part) \cap gone /\ (~ Faulty => kept = {})
    OBVIOUS
  <1>3. stuck \subseteq rules => stuck' \subseteq rules'
    BY <1>1, <1>2
  <1> QED BY <1>1, <1>2, <1>3

\* IPv6 is turned on, or trying it failed.
LEMMA TurnedOn ==
    ASSUME TurnIpv6On
    PROVE  sysIpv6' \in {"on", "stuck"}
  BY DEF TurnIpv6On

-----------------------------------------------------------------------------
(* Types *)

LEMMA ManagerType ==
    ASSUME NEW op \in {"apply", "clear", "renew"}, NEW conf \in Config
    PROVE  Manager(op, conf) \in
             [op : {"none", "apply", "clear", "renew"},
              at : {"idle", "apply", "install", "save", "clear", "unsnap", "ok", "err"},
              conf : Config, fam : Family, left : Lefts]
  <1>1. conf.mode \in Modes
    BY RuleAssumption DEF Config
  <1> QED BY <1>1, GroupsOfLefts DEF Manager, Family

LEMMA RuleTypeStep ==
    ASSUME RuleTypeOK, RulesNext
    PROVE  RuleTypeOK'
  <1> USE DEF RuleTypeOK
  <1>1. rt.conf \in Config /\ rt.conf.mode \in Modes /\ rt.left \in Lefts /\ rt.fam \in Family
    BY RuleAssumption DEF Config
  <1>2. ASSUME NEW op \in {"apply", "clear", "renew"}, Call(op)
        PROVE  RuleTypeOK'
    BY <1>2, ManagerType DEF Call
  <1>3. CASE PrepareApply
    <2>1. rules' \subseteq Artifact /\ stuck' \subseteq rules'
      BY <1>3, ChangeFacts DEF PrepareApply
    <2> QED BY <1>3, <2>1 DEF PrepareApply, ToPoint
  <1>4. CASE StartGroup
    <2>1. This \in Groups /\ Tail(rt.left) \in Lefts
      BY <1>1, <1>4, LeftsTail DEF StartGroup, This
    <2>2. PICK part \in SUBSET Started(rt.fam, This, rt.conf) : Change(part, {})
      BY <1>4 DEF StartGroup
    <2>3. rules' \subseteq Artifact /\ stuck' \subseteq rules'
      BY <1>1, <2>1, <2>2, StartedStopped, ChangeFacts
    <2> QED BY <1>4, <2>1, <2>3 DEF StartGroup, NextGroup
  <1>5. CASE SkipBypass
    <2>1. Tail(rt.left) \in Lefts
      BY <1>1, <1>5, LeftsTail DEF SkipBypass
    <2>2. rules' \subseteq Artifact /\ stuck' \subseteq rules'
      BY <1>5, ChangeFacts DEF SkipBypass
    <2> QED BY <1>5, <2>1, <2>2 DEF SkipBypass, NextGroup
  <1>6. CASE FailGroup
    <2>1. This \in Groups /\ Tail(rt.left) \in Lefts
      BY <1>1, <1>6, LeftsTail DEF FailGroup, This
    <2>2. PICK part \in SUBSET Started(rt.fam, This, rt.conf) :
            Change(part, Undone(rt.fam, This, rt.conf))
      BY <1>6 DEF FailGroup
    <2>3. rules' \subseteq Artifact /\ stuck' \subseteq rules'
      BY <1>1, <2>1, <2>2, StartedStopped, ChangeFacts
    <2> QED BY <1>6, <2>1, <2>3 DEF FailGroup, NextGroup, ToPoint
  <1>7. CASE EndFamily
    <2>1. GroupsOf(rt.conf.mode) \in Lefts
      BY <1>1, GroupsOfLefts
    <2>2. UNCHANGED <<config, rules, stuck, snap>> /\ sysIpv6' \in {"on", "off", "stuck"}
      BY <1>7 DEF EndFamily, TurnIpv6On, TurnIpv6Off
    <2>3. rt' \in {[rt EXCEPT !.fam = "v6", !.left = GroupsOf(rt.conf.mode)],
                   [rt EXCEPT !.at = "save"], [rt EXCEPT !.at = "err"]}
      BY <1>7 DEF EndFamily, ToPoint
    <2> QED BY <2>1, <2>2, <2>3 DEF Family
  <1>8. CASE SaveSnapshot
    BY <1>1, <1>8 DEF SaveSnapshot, ToPoint
  <1>9. CASE Clear
    <2>1. rules' \subseteq Artifact /\ stuck' \subseteq rules'
      BY <1>9, ChangeFacts DEF Clear
    <2>2. sysIpv6' \in {"on", "off", "stuck"}
      BY <1>9, TurnedOn DEF Clear
    <2> QED BY <1>9, <2>1, <2>2 DEF Clear, ToPoint
  <1>10. CASE RemoveSnapshot
    BY <1>10 DEF RemoveSnapshot, ToPoint
  <1>11. CASE Done \/ Killed
    BY <1>11 DEF Done, Killed, NoManager, Lefts, Family
  <1>12. CASE Edit
    BY <1>12 DEF Edit
  <1> QED BY <1>2, <1>3, <1>4, <1>5, <1>6, <1>7, <1>8, <1>9, <1>10, <1>11, <1>12
          DEF RulesNext, RuleStep

LEMMA RuleTypeInit == RulesInit => RuleTypeOK
  BY DEF RulesInit, RuleTypeOK, NoManager, Lefts, Family

\* Configuration, rules, snapshot and the manager at work keep their types.
THEOREM RuleTypeCorrect == RulesSpec => []RuleTypeOK
  <1>1. RuleTypeOK /\ UNCHANGED ruleVars => RuleTypeOK'
    BY DEF RuleTypeOK, ruleVars
  <1> QED BY <1>1, RuleTypeInit, RuleTypeStep, PTL DEF RulesSpec

-----------------------------------------------------------------------------
(* One configuration *)

\* Everything that conf can install.
Mine(conf) ==
    UNION {Started(f, g, conf) : f \in Family, g \in CleanedGroups(conf.mode)}

\* The groups whose IPv4 rules the manager has still to install.
Todo == IF rt.fam = "v4" THEN Elems(rt.left) ELSE {}

\* The IPv4 rules of these groups are installed.
Installed(groups) ==
    \A g \in groups : g # "bypass" => Essential("v4", g) \subseteq rules

\* A manager works for the one configuration; it has a family's groups before it
\* starts the first and works through them.
ManagerInv ==
    /\ rt.at # "idle" => rt.conf = config
    /\ rt.at \in {"apply", "install", "save"} => rt.op \in {"apply", "renew"}
    /\ rt.at \in {"clear", "unsnap"} => rt.op \in {"clear", "renew"}
    /\ rt.at \in {"apply", "clear", "unsnap"} =>
           rt.fam = "v4" /\ rt.left = GroupsOf(config.mode)
    /\ rt.at = "install" =>
           /\ config.mode # "ebpf"
           /\ Elems(rt.left) \subseteq CleanedGroups(config.mode)
           /\ Installed(CleanedGroups(config.mode) \ Todo)
    /\ rt.at = "save" \/ (rt.at = "ok" /\ rt.op # "clear") =>
           Installed(CleanedGroups(config.mode))
    /\ rt.at = "ok" => /\ rt.op \in {"apply", "clear", "renew"}
                       /\ rt.op # "clear" => snap = config

\* Nothing but the configuration's rules is ever installed; others stay only if
\* their deletion failed.
OwnInv ==
    /\ snap \in {NoSnap, config}
    /\ rules \ stuck \subseteq Mine(config)
    /\ rt.at = "unsnap" \/ (rt.at = "ok" /\ rt.op = "clear") => rules \subseteq stuck
    /\ rt.at = "ok" /\ rt.op = "clear" => snap = NoSnap

ExactInv == RuleTypeOK /\ ManagerInv /\ OwnInv

\* Clearing conf's mode, or all modes, deletes all that conf can install.
LEMMA CleanedMine ==
    ASSUME NEW conf \in Config
    PROVE  /\ Mine(conf) \subseteq Cleaned(conf.mode, conf.set)
           /\ Mine(conf) \subseteq Cleaned("all", conf.set)
  <1>1. conf.mode \in Modes
    BY RuleAssumption DEF Config
  <1>2. CleanedGroups(conf.mode) \subseteq Groups /\ CleanedGroups("all") = Groups
    BY <1>1 DEF CleanedGroups, Groups, Modes
  <1>3. ASSUME NEW f \in Family, NEW g \in CleanedGroups(conf.mode)
        PROVE  Started(f, g, conf) \subseteq Stopped(f, g, conf.set)
    BY <1>2, StartedStopped
  <1>4. Mine(conf) \subseteq Cleaned(conf.mode, conf.set)
    BY <1>3 DEF Mine, Cleaned
  <1>5. Mine(conf) \subseteq Cleaned("all", conf.set)
    BY <1>2, <1>3 DEF Mine, Cleaned
  <1> QED BY <1>4, <1>5

LEMMA BelongsMine ==
    ASSUME NEW conf \in Config, rules \ stuck \subseteq Mine(conf)
    PROVE  Belongs(conf)
  <1>1. conf.mode \in Modes
    BY RuleAssumption DEF Config
  <1>2. ASSUME NEW g \in CleanedGroups(conf.mode)
        PROVE  \E i \in DOMAIN GroupsOf(conf.mode) : GroupsOf(conf.mode)[i] = g
    BY <1>1, GroupsCleaned DEF Elems
  <1> QED BY <1>2 DEF Mine, Belongs

\* A mode whose IPv4 rules are installed, and named by the snapshot, is exact.
LEMMA InstalledExact ==
    ASSUME NEW conf \in Config, rules \ stuck \subseteq Mine(conf), snap = conf,
           Installed(CleanedGroups(conf.mode))
    PROVE  Exact(conf)
  <1>1. conf.mode \in Modes /\ Belongs(conf)
    BY RuleAssumption, BelongsMine DEF Config
  <1>2. ASSUME NEW i \in DOMAIN GroupsOf(conf.mode)
        PROVE  GroupsOf(conf.mode)[i] \in CleanedGroups(conf.mode)
    BY <1>1, GroupsCleaned DEF Elems
  <1> QED BY <1>1, <1>2 DEF Exact, Installed

\* The undoing of a group touches no rule of the other family ...
LEMMA UndoneFamily ==
    ASSUME NEW g \in Groups, NEW h \in Groups, NEW conf
    PROVE  Essential("v4", h) \cap Undone("v6", g, conf) = {}
  BY DEF Undone, Essential, Stopped, GroupArtifacts, Groups

\* ... and taking the tun bypass away no rule of another group.
LEMMA BypassOnly ==
    ASSUME NEW f, NEW h \in Groups, h # "bypass", NEW s
    PROVE  Essential("v4", h) \cap Stopped(f, "bypass", s) = {}
  BY DEF Essential, Stopped, GroupArtifacts, Groups

-----------------------------------------------------------------------------
(* The steps *)

LEMMA ExactInit == RulesInit => ExactInv
  <1> SUFFICES ASSUME RulesInit
               PROVE  ManagerInv /\ OwnInv
    BY RuleTypeInit DEF ExactInv
  <1> QED BY DEF RulesInit, NoManager, ManagerInv, OwnInv

LEMMA OwnStep ==
    ASSUME ExactInv, RulesNext, ~ Edit
    PROVE  OwnInv'
  <1> USE DEF ExactInv, ManagerInv, OwnInv
  <1>1. config \in Config /\ rt.left \in Lefts /\ config.mode \in Modes /\ rt.fam \in Family
    BY RuleAssumption DEF RuleTypeOK, Config
  <1>2. ASSUME NEW op \in {"apply", "clear", "renew"}, Call(op)
        PROVE  OwnInv'
    BY <1>2 DEF Call, Manager, Mine, RuleTypeOK
  <1>3. CASE PrepareApply
    <2>1. rules' \ stuck' \subseteq rules \ stuck
      BY <1>3, ChangeFacts DEF PrepareApply
    <2> QED BY <1>3, <2>1 DEF PrepareApply, ToPoint, Mine, RuleTypeOK
  <1>4. ASSUME rt.at = "install", This \in CleanedGroups(config.mode),
               NEW part \in SUBSET Started(rt.fam, This, rt.conf), NEW gone,
               Change(part, gone)
        PROVE  rules' \ stuck' \subseteq Mine(config)
    <2>1. Started(rt.fam, This, config) \subseteq Mine(config)
      BY <1>1, <1>4 DEF Mine
    <2>2. rules' \ stuck' \subseteq (rules \ stuck) \cup part
      BY <1>4, ChangeFacts
    <2> QED BY <1>4, <2>1, <2>2
  <1>5. rt.at = "install" /\ rt.left # <<>> => This \in CleanedGroups(config.mode)
    BY <1>1, LeftsTail DEF This
  <1>6. CASE StartGroup
    <2>1. rules' \ stuck' \subseteq Mine(config)
      BY <1>4, <1>5, <1>6 DEF StartGroup
    <2> QED BY <1>6, <2>1 DEF StartGroup, NextGroup, Mine, RuleTypeOK
  <1>7. CASE SkipBypass
    <2>1. rules' \ stuck' \subseteq rules \ stuck
      BY <1>7, ChangeFacts DEF SkipBypass
    <2> QED BY <1>7, <2>1 DEF SkipBypass, NextGroup, Mine, RuleTypeOK
  <1>8. CASE FailGroup
    <2>1. rules' \ stuck' \subseteq Mine(config)
      BY <1>4, <1>5, <1>8 DEF FailGroup
    <2> QED BY <1>8, <2>1 DEF FailGroup, NextGroup, ToPoint, Mine, RuleTypeOK
  <1>9. CASE EndFamily
    <2>1. UNCHANGED <<config, rules, stuck, snap>> /\ rt.at = "install"
      BY <1>9 DEF EndFamily
    <2>2. rt' \in {[rt EXCEPT !.fam = "v6", !.left = GroupsOf(rt.conf.mode)],
                   [rt EXCEPT !.at = "save"], [rt EXCEPT !.at = "err"]}
      BY <1>9 DEF EndFamily, ToPoint
    <2>3. rt'.at \in {"install", "save", "err"}
      BY <2>1, <2>2 DEF RuleTypeOK
    <2> QED BY <2>1, <2>3 DEF Mine
  <1>10. CASE SaveSnapshot
    BY <1>10 DEF SaveSnapshot, ToPoint, Mine, RuleTypeOK
  <1>11. CASE Clear
    <2>1. CleanupModeForClear \in {"all", config.mode}
      BY DEF CleanupModeForClear
    <2>2. rules' \subseteq stuck'
      <3>1. rules' \ stuck' \subseteq (rules \ stuck) \ Cleaned(CleanupModeForClear, config.set)
        BY <1>11, ChangeFacts DEF Clear
      <3>2. Mine(config) \subseteq Cleaned(CleanupModeForClear, config.set)
        BY <1>1, <2>1, CleanedMine
      <3> QED BY <3>1, <3>2
    <2> QED BY <1>11, <2>2 DEF Clear, ToPoint, Mine, RuleTypeOK
  <1>12. CASE RemoveSnapshot
    BY <1>12 DEF RemoveSnapshot, ToPoint, Mine, RuleTypeOK
  <1>13. CASE Done \/ Killed
    BY <1>13 DEF Done, Killed, NoManager, Mine
  <1> QED BY <1>2, <1>3, <1>6, <1>7, <1>8, <1>9, <1>10, <1>11, <1>12, <1>13
          DEF RulesNext, RuleStep

\* The manager is done with the first group of a family's list.
LEMMA GroupDone ==
    ASSUME ExactInv, rt.at = "install", rt.left # <<>>, NextGroup, config' = config,
           \A g \in CleanedGroups(config.mode) \ Todo :
             g # "bypass" => Essential("v4", g) \subseteq rules',
           rt.fam = "v4" /\ This # "bypass" => Essential("v4", This) \subseteq rules'
    PROVE  ManagerInv'
  <1>1. /\ rt.left \in Lefts /\ rt' = [rt EXCEPT !.left = Tail(rt.left)]
    BY DEF ExactInv, RuleTypeOK, NextGroup
  <1>2. /\ Elems(rt.left) = Elems(Tail(rt.left)) \cup {This}
        /\ This \notin Elems(Tail(rt.left))
    BY <1>1, LeftsTail DEF This
  <1>3. /\ rt'.at = "install" /\ rt'.fam = rt.fam /\ rt'.conf = config
        /\ rt'.op \in {"apply", "renew"} /\ rt'.left = Tail(rt.left)
    BY <1>1 DEF ExactInv, ManagerInv, RuleTypeOK
  <1>4. ASSUME NEW g \in CleanedGroups(config.mode) \ Todo', g # "bypass"
        PROVE  Essential("v4", g) \subseteq rules'
    BY <1>2, <1>3, <1>4 DEF Todo
  <1>5. Elems(rt'.left) \subseteq CleanedGroups(config.mode) /\ config.mode # "ebpf"
    BY <1>2, <1>3 DEF ExactInv, ManagerInv
  <1> QED BY <1>3, <1>4, <1>5 DEF ManagerInv, Installed

LEMMA ManagerStep ==
    ASSUME ExactInv, RulesNext, ~ Edit
    PROVE  ManagerInv'
  <1> USE DEF ExactInv, ManagerInv, RuleTypeOK
  <1>1. config \in Config /\ rt.left \in Lefts /\ config.mode \in Modes /\ rt.fam \in Family
    BY RuleAssumption DEF Config
  <1>2. ASSUME NEW op \in {"apply", "clear", "renew"}, Call(op)
        PROVE  ManagerInv'
    BY <1>2 DEF Call, Manager
  <1>3. Elems(GroupsOf(config.mode)) = CleanedGroups(config.mode)
    BY <1>1, GroupsCleaned
  <1>4. rt.at = "install" /\ rt.left # <<>> =>
          This \in Groups /\ This \in Elems(rt.left) /\ This \in CleanedGroups(config.mode)
    BY <1>1, LeftsTail DEF This
  <1>5. CleanedGroups(config.mode) \subseteq Groups
    BY <1>1 DEF CleanedGroups, Groups, Modes
  <1>6. CASE PrepareApply
    <2>1. Todo = CleanedGroups(config.mode)
      BY <1>3, <1>6 DEF PrepareApply, Todo
    <2>2. CASE config.mode = "ebpf"
      <3>1. CleanedGroups(config.mode) = {}
        BY <2>2 DEF CleanedGroups
      <3> QED BY <1>6, <2>2, <3>1 DEF PrepareApply, ToPoint, Installed
    <2>3. CASE config.mode # "ebpf"
      BY <1>3, <1>6, <2>1, <2>3 DEF PrepareApply, ToPoint, Installed, Todo
    <2> QED BY <2>2, <2>3
  <1>7. CASE StartGroup
    <2>1. rules \subseteq rules' /\ Essential(rt.fam, This) \subseteq rules'
      BY <1>7, ChangeFacts DEF StartGroup
    <2>2. \A g \in CleanedGroups(config.mode) \ Todo :
            g # "bypass" => Essential("v4", g) \subseteq rules'
      BY <1>7, <2>1 DEF StartGroup, Installed
    <2> QED BY <1>7, <2>1, <2>2, GroupDone DEF StartGroup
  <1>8. CASE SkipBypass
    <2>1. \A g \in CleanedGroups(config.mode) \ Todo :
            g # "bypass" => Essential("v4", g) \subseteq rules'
      <3>1. rules \ Stopped(rt.fam, "bypass", rt.conf.set) \subseteq rules'
        BY <1>8, ChangeFacts DEF SkipBypass
      <3> QED BY <1>5, <1>8, <3>1, BypassOnly DEF SkipBypass, Installed
    <2> QED BY <1>8, <2>1, GroupDone DEF SkipBypass
  <1>9. CASE FailGroup
    <2>1. CASE This = "tproxy" /\ rt.fam = "v6"
      <3>1. \A g \in CleanedGroups(config.mode) \ Todo :
              g # "bypass" => Essential("v4", g) \subseteq rules'
        <4>1. rules \ Undone(rt.fam, This, rt.conf) \subseteq rules'
          BY <1>9, ChangeFacts DEF FailGroup
        <4> QED BY <1>4, <1>5, <1>9, <2>1, <4>1, UndoneFamily DEF FailGroup, Installed
      <3> QED BY <1>9, <2>1, <3>1, GroupDone DEF FailGroup
    <2>2. CASE ~ (This = "tproxy" /\ rt.fam = "v6")
      BY <1>9, <2>2 DEF FailGroup, ToPoint
    <2> QED BY <2>1, <2>2
  <1>10. CASE EndFamily
    <2>1. Elems(<<>>) = {}
      BY DEF Elems
    <2>2. Installed(CleanedGroups(config.mode))
      BY <1>10, <2>1 DEF EndFamily, Todo
    <2> QED BY <1>3, <1>10, <2>2 DEF EndFamily, ToPoint, Installed, Todo
  <1>11. CASE SaveSnapshot
    BY <1>11 DEF SaveSnapshot, ToPoint, Installed
  <1>12. CASE Clear
    BY <1>12 DEF Clear, ToPoint, Installed
  <1>13. CASE RemoveSnapshot
    BY <1>13 DEF RemoveSnapshot, ToPoint, Installed
  <1>14. CASE Done \/ Killed
    BY <1>14 DEF Done, Killed, NoManager
  <1> QED BY <1>2, <1>6, <1>7, <1>8, <1>9, <1>10, <1>11, <1>12, <1>13, <1>14
          DEF RulesNext, RuleStep

-----------------------------------------------------------------------------
(* The theorems *)

\* The configuration is edited only while the rules are cleared.
EditsCleared == FALSE \notin Edits

\* An edit of cleared rules starts anew.
LEMMA EditStep ==
    ASSUME RuleTypeOK, Edit, EditsCleared
    PROVE  ManagerInv' /\ OwnInv'
  <1>1. Cleared
    BY DEF Edit, EditsCleared, Cleared, Emptied
  <1>2. rules' \subseteq stuck' /\ snap' = NoSnap /\ rt'.at = "idle"
    BY <1>1 DEF Edit, Cleared, Emptied
  <1> QED BY <1>2 DEF ManagerInv, OwnInv

LEMMA ExactAlways ==
    ASSUME EditsCleared
    PROVE  RulesSpec => []ExactInv
  <1>1. ASSUME ExactInv, RulesNext
        PROVE  ExactInv'
    <2>1. RuleTypeOK'
      BY <1>1, RuleTypeStep DEF ExactInv
    <2>2. CASE Edit
      BY <1>1, <2>1, <2>2, EditStep DEF ExactInv
    <2>3. CASE ~ Edit
      BY <1>1, <2>1, <2>3, ManagerStep, OwnStep DEF ExactInv
    <2> QED BY <2>2, <2>3
  <1>2. ExactInv /\ UNCHANGED ruleVars => ExactInv'
    <2> SUFFICES ASSUME ExactInv, UNCHANGED ruleVars
                 PROVE  ManagerInv' /\ OwnInv' /\ RuleTypeOK'
      BY DEF ExactInv
    <2> QED BY DEF ruleVars, ExactInv, ManagerInv, OwnInv, RuleTypeOK, Installed, Todo, Mine
  <1> QED BY <1>1, <1>2, ExactInit, PTL DEF RulesSpec

\* While the configuration is edited only after a clear, apply and renew answer
\* Ok with its IPv4 rules installed, no others beside them, and the snapshot
\* naming it.
THEOREM ApplyCorrect ==
    ASSUME EditsCleared
    PROVE  RulesSpec => []ApplyOkExact
  <1>1. ASSUME ExactInv, rt.at = "ok", rt.op \in {"apply", "renew"}
        PROVE  Exact(rt.conf)
    <2>1. rt.conf = config /\ config \in Config
      BY <1>1 DEF ExactInv, ManagerInv, RuleTypeOK
    <2>2. rules \ stuck \subseteq Mine(config) /\ snap = config /\ Installed(CleanedGroups(config.mode))
      BY <1>1 DEF ExactInv, ManagerInv, OwnInv
    <2> QED BY <2>1, <2>2, InstalledExact
  <1>2. ExactInv => ApplyOkExact
    BY <1>1 DEF ApplyOkExact
  <1> QED BY <1>2, ExactAlways, PTL

\* Mode ebpf never touches the system's IPv6, and clear tries to turn it on in any
\* other.
Ipv6Inv ==
    /\ config.mode = "ebpf" => sysIpv6 # "off"
    /\ rt.at = "unsnap" \/ (rt.at = "ok" /\ rt.op = "clear") => sysIpv6 # "off"

LEMMA Ipv6Step ==
    ASSUME ExactInv, Ipv6Inv, RulesNext, ~ Edit
    PROVE  Ipv6Inv'
  <1> USE DEF Ipv6Inv
  <1>0. (rt.at # "idle" => rt.conf = config) /\ (rt.at = "install" => config.mode # "ebpf")
        /\ (rt.at = "save" => rt.op \in {"apply", "renew"})
    BY DEF ExactInv, ManagerInv
  <1>1. CASE UNCHANGED <<config, sysIpv6>> /\ rt'.at \notin {"unsnap", "ok"}
    BY <1>1
  <1>2. ASSUME NEW op \in {"apply", "clear", "renew"}, Call(op)
        PROVE  Ipv6Inv'
    BY <1>1, <1>2 DEF Call, Manager
  <1>3. CASE PrepareApply
    BY <1>1, <1>3 DEF PrepareApply, ToPoint, ExactInv, RuleTypeOK
  <1>4. CASE StartGroup
    BY <1>1, <1>4 DEF StartGroup, NextGroup, ExactInv, RuleTypeOK
  <1>5. CASE SkipBypass
    BY <1>1, <1>5 DEF SkipBypass, NextGroup, ExactInv, RuleTypeOK
  <1>6. CASE FailGroup
    BY <1>1, <1>6 DEF FailGroup, NextGroup, ToPoint, ExactInv, RuleTypeOK
  <1>7. CASE EndFamily
    <2>1. config' = config /\ rt.at = "install"
      BY <1>7 DEF EndFamily
    <2>2. rt' \in {[rt EXCEPT !.fam = "v6", !.left = GroupsOf(rt.conf.mode)],
                   [rt EXCEPT !.at = "save"], [rt EXCEPT !.at = "err"]}
      BY <1>7 DEF EndFamily, ToPoint
    <2>3. rt'.at \in {"install", "save", "err"}
      BY <2>1, <2>2 DEF ExactInv, RuleTypeOK
    <2> QED BY <1>0, <2>1, <2>3
  <1>8. CASE SaveSnapshot
    <2>1. UNCHANGED <<config, sysIpv6>> /\ rt'.op \in {"apply", "renew"}
          /\ rt'.at \in {"ok", "err"}
      BY <1>0, <1>8 DEF SaveSnapshot, ToPoint, ExactInv, RuleTypeOK
    <2> QED BY <2>1
  <1>9. CASE Clear
    <2>1. CASE CleanupModeForClear = "ebpf"
      <3>1. config.mode = "ebpf"
        BY <2>1 DEF CleanupModeForClear, ExactInv, OwnInv
      <3> QED BY <1>9, <2>1, <3>1 DEF Clear
    <2>2. CASE CleanupModeForClear # "ebpf"
      BY <1>9, <2>2, TurnedOn DEF Clear
    <2> QED BY <2>1, <2>2
  <1>10. CASE RemoveSnapshot
    <2>1. UNCHANGED <<config, sysIpv6>> /\ rt.at = "unsnap"
      BY <1>10 DEF RemoveSnapshot
    <2> QED BY <2>1
  <1>11. CASE Done \/ Killed
    BY <1>1, <1>11 DEF Done, Killed, NoManager
  <1> QED BY <1>2, <1>3, <1>4, <1>5, <1>6, <1>7, <1>8, <1>9, <1>10, <1>11
          DEF RulesNext, RuleStep

LEMMA Ipv6Always ==
    ASSUME EditsCleared
    PROVE  RulesSpec => []Ipv6Inv
  <1>1. RulesInit => Ipv6Inv
    BY DEF RulesInit, NoManager, Ipv6Inv
  <1>2. Ipv6Inv /\ UNCHANGED ruleVars => Ipv6Inv'
    BY DEF Ipv6Inv, ruleVars
  <1>3. ASSUME ExactInv, Ipv6Inv, RulesNext
        PROVE  Ipv6Inv'
    <2>1. CASE Edit
      BY <2>1 DEF Edit, Cleared, Emptied, EditsCleared, Ipv6Inv
    <2>2. CASE ~ Edit
      BY <1>3, <2>2, Ipv6Step
    <2> QED BY <2>1, <2>2
  <1> QED BY <1>1, <1>2, <1>3, ExactAlways, PTL DEF RulesSpec

\* While the configuration is edited only after a clear, clear answers Ok only with
\* each rule deleted and the system's IPv6 turned on, or with a failed attempt at
\* it, whatever applies failed half-way or were killed before: for every mode and
\* setting, whatever cannot be deleted, and whether the snapshot was written or not.
THEOREM ClearCorrect ==
    ASSUME EditsCleared
    PROVE  RulesSpec => []ClearOkTriedAll
  <1>1. ExactInv /\ Ipv6Inv => ClearOkTriedAll
    BY DEF ExactInv, OwnInv, Ipv6Inv, ClearOkTriedAll, Emptied
  <1> QED BY <1>1, ExactAlways, Ipv6Always, PTL

-----------------------------------------------------------------------------
(* The invariant of the commands, their lock and their threads *)

Singles == {"apply", "clear", "renew", "svcStart", "svcStop", "svcRestart"}
Calls == Ups \cup Downs \cup Singles

Job == [op : Calls \cup {"none"}, phase : Phases, conf : Config, bin : Bin]

BoxTypeOK == TypeOK /\ RuleTypeOK /\ job \in [Cmd -> Job] /\ jobs \in Nat

\* The phases of a command that holds the lock.
Inside == {"sync", "up", "down", "one", "monitor", "back", "ok", "err"}

\* Only the holder of the lock has threads, and it is in a phase of its own.
HolderInv ==
    /\ \A c \in Cmd :
         /\ svc[c].at # "idle" => lock = c
         /\ cmd[c] = "run" <=> lock = c
         /\ job[c].phase \in Inside <=> lock = c
         /\ job[c].phase = "wait" <=> cmd[c] = "wait"
         /\ job[c].phase \notin {"none", "look"} => job[c].op \in Calls
         /\ job[c].phase = "look" => job[c].op \in Policies /\ c \in Reader
    /\ lock = NoCmd => rt.at = "idle"

\* The threads make the calls s and r, the rules' one for its command.
Making(c, s, r) ==
    /\ svc[c].op = s /\ svc[c].at # "idle"
    /\ rt.op = r /\ rt.at # "idle" /\ rt.conf = job[c].conf

\* ... and have both ended well.
Made(c, s, r) == Making(c, s, r) /\ svc[c].at = "ok" /\ rt.at = "ok"

\* What a phase of command c knows of its threads.
PhaseInv(c) ==
    /\ job[c].phase = "sync" => job[c].op \in Ups
    /\ job[c].phase = "up"   => job[c].op \in Ups /\ Making(c, "start", "apply")
    /\ job[c].phase = "back" => job[c].op \in Ups /\ Making(c, "stop", "clear")
    /\ job[c].phase = "down" =>
         job[c].op \in Downs \cup {"restart"} /\ Making(c, "stop", "clear")
    /\ job[c].phase = "one" => job[c].op \in Singles
    /\ job[c].phase \in {"monitor", "ok"} /\ job[c].op \in Ups =>
         Made(c, "start", "apply")
    /\ job[c].phase \in {"monitor", "ok"} /\ job[c].op \in Downs =>
         Made(c, "stop", "clear")
    /\ job[c].phase = "monitor" => job[c].op \in {"up", "restart", "down"}
    /\ job[c].phase \in {"sync", "monitor", "ok", "err"} => rt.at \in {"idle", "ok", "err"}

BoxInv == /\ BoxTypeOK /\ HolderInv /\ ServiceInv
          /\ \A c \in Cmd : PhaseInv(c)

-----------------------------------------------------------------------------
(* What the rules' thread knows *)

\* A command that has begun has loaded the configuration of now.
LoadedInv == \A c \in Cmd : job[c].phase # "none" => job[c].conf = config

\* The rules, when nobody edits under a command.
QuietInv == ExactInv /\ Ipv6Inv /\ LoadedInv

\* No rule fails and nothing is killed, one setting serves every mode, and where
\* there is mode ebpf, which leaves the system's IPv6 as it finds it, no
\* configuration turns that off.
Calm == /\ ~ Faulty
        /\ \E s : Setting = {s}
        /\ "ebpf" \in Mode => "disable" \notin Ipv6Mode

\* What conf can install, or nothing where there is no snapshot.
Recorded == IF snap = NoSnap THEN {} ELSE Mine(snap)

\* A manager that nothing fails works through its groups and installs them.
CalmManager ==
    /\ rt.at # "err"
    /\ rt.at \in {"apply", "install", "save"} => rt.op \in {"apply", "renew"}
    /\ rt.at \in {"clear", "unsnap"} => rt.op \in {"clear", "renew"}
    /\ rt.at \in {"apply", "clear", "unsnap"} =>
         rt.fam = "v4" /\ rt.left = GroupsOf(rt.conf.mode)
    /\ rt.at = "install" =>
         /\ rt.conf.mode # "ebpf"
         /\ Elems(rt.left) \subseteq CleanedGroups(rt.conf.mode)
         /\ Installed(CleanedGroups(rt.conf.mode) \ Todo)
    /\ rt.at = "save" \/ (rt.at = "ok" /\ rt.op # "clear") =>
         Installed(CleanedGroups(rt.conf.mode))
    /\ rt.at = "ok" => rt.op \in {"apply", "clear", "renew"}

\* The rules are the snapshot's between two calls, none from the cleanup to the
\* first group, and the manager's own from there on.
CalmRules ==
    /\ rt.at \in {"idle", "apply", "clear", "ok"} => rules \subseteq Recorded
    /\ rt.at = "unsnap" => rules = {}
    /\ rt.at \in {"install", "save"} => rules \subseteq Mine(rt.conf)
    /\ rt.at = "ok" => snap = IF rt.op = "clear" THEN NoSnap ELSE rt.conf

\* A clear has turned the system's IPv6 on.
CalmIpv6 ==
    /\ "ebpf" \in Mode => sysIpv6 # "off"
    /\ rt.at = "unsnap" \/ (rt.at = "ok" /\ rt.op = "clear") => sysIpv6 # "off"

CalmInv == CalmManager /\ CalmRules /\ CalmIpv6

\* What either says of a manager that answers Ok.
RulesAnswer ==
    /\ rt.at = "ok" /\ rt.op = "apply" => Exact(rt.conf)
    /\ rt.at = "ok" /\ rt.op = "clear" => Emptied /\ snap = NoSnap

-----------------------------------------------------------------------------
(* The two threads *)

\* A step of the service thread is one of a thread that runs, and keeps its call.
LEMMA ServiceStepFields ==
    ASSUME TypeOK, NEW c \in Cmd, ServiceStep(c)
    PROVE  /\ svc'[c].op = svc[c].op /\ svc'[c].at # "idle"
           /\ svc[c].at \notin {"idle", "ok", "err"}
  <1>1. svc[c] \in Thread
    BY DEF TypeOK
  <1>2. ASSUME NEW point \in Points, Goto(c, point), point # "idle"
        PROVE  svc'[c].op = svc[c].op /\ svc'[c].at # "idle"
    BY <1>2, GotoFields
  <1>3. svc[c].at \notin {"idle", "ok", "err"}
    BY DEF ServiceStep, Validate, ReadPidFile, ScanPids, Poll, Kill, PidFileExists,
       UnlinkPidFile, Prepare, SpawnCore, TruncatePidFile, WritePidFile, Probe,
       ScanPoints
  <1>4. CASE \E point \in Points \ {"idle"} : Goto(c, point)
    BY <1>2, <1>3, <1>4
  <1>5. CASE svc' = [svc EXCEPT ![c].seen = pidfile]
    <2>1. svc'[c] = [svc[c] EXCEPT !.seen = pidfile]
      BY <1>5 DEF TypeOK
    <2> QED BY <1>1, <1>3, <2>1 DEF Thread
  <1>6. CASE svc' = [svc EXCEPT ![c] = [@ EXCEPT !.at = "poll", !.seen = Unread,
                                                 !.polls = 0]]
    <2>1. svc'[c] = [svc[c] EXCEPT !.at = "poll", !.seen = Unread, !.polls = 0]
      BY <1>6 DEF TypeOK
    <2> QED BY <1>1, <1>3, <2>1 DEF Thread
  <1>7. CASE svc' = [svc EXCEPT ![c] = [@ EXCEPT !.polls = svc[c].polls + 1,
                                                 !.seen = Unread]]
    <2>1. svc'[c] = [svc[c] EXCEPT !.polls = svc[c].polls + 1, !.seen = Unread]
      BY <1>7 DEF TypeOK
    <2> QED BY <1>1, <1>3, <2>1 DEF Thread
  <1>8. ASSUME NEW p \in Pid,
               svc' = [svc EXCEPT ![c] = [@ EXCEPT !.at = "truncate", !.child = p]]
        PROVE  svc'[c].op = svc[c].op /\ svc'[c].at # "idle"
    <2>1. svc'[c] = [svc[c] EXCEPT !.at = "truncate", !.child = p]
      BY <1>8 DEF TypeOK
    <2> QED BY <1>1, <2>1 DEF Thread
  <1>9. \/ \E point \in Points \ {"idle"} : Goto(c, point)
        \/ svc' = [svc EXCEPT ![c].seen = pidfile]
        \/ svc' = [svc EXCEPT ![c] = [@ EXCEPT !.at = "poll", !.seen = Unread,
                                               !.polls = 0]]
        \/ svc' = [svc EXCEPT ![c] = [@ EXCEPT !.polls = svc[c].polls + 1,
                                               !.seen = Unread]]
        \/ \E p \in Pid :
             svc' = [svc EXCEPT ![c] = [@ EXCEPT !.at = "truncate", !.child = p]]
    <2>1. {"scan", "poll", "kill", "exists", "unlink", "validate", "prepare",
           "spawn", "truncate", "write", "probe", "ok", "err"} \subseteq Points \ {"idle"}
      BY DEF Points, StopPoints, ScanPoints, StartPoints
    <2>2. CASE Validate(c) \/ ReadPidFile(c) \/ ScanPids(c) \/ Poll(c) \/ Kill(c)
      BY <2>1, <2>2 DEF Validate, ReadPidFile, ScanPids, Poll, Kill
    <2>3. CASE \/ PidFileExists(c) \/ UnlinkPidFile(c) \/ Prepare(c) \/ SpawnCore(c)
               \/ TruncatePidFile(c) \/ WritePidFile(c) \/ Probe(c)
      BY <2>1, <2>3 DEF PidFileExists, UnlinkPidFile, Prepare, SpawnCore,
         TruncatePidFile, WritePidFile, Probe, AfterStop
    <2> QED BY <2>2, <2>3 DEF ServiceStep
  <1> QED BY <1>3, <1>4, <1>5, <1>6, <1>7, <1>8, <1>9

\* A step of the rules' thread is one of a manager at work; it keeps its call.
LEMMA RuleStepFields ==
    ASSUME RuleTypeOK, RuleStep
    PROVE  /\ rt'.op = rt.op /\ rt'.conf = rt.conf /\ rt'.at # "idle"
           /\ rt.at \notin {"idle", "ok", "err"}
           /\ config' = config
  <1> USE DEF RuleTypeOK
  <1>1. CASE PrepareApply
    BY <1>1 DEF PrepareApply, ToPoint
  <1>2. CASE StartGroup \/ SkipBypass
    BY <1>2 DEF StartGroup, SkipBypass, NextGroup
  <1>3. CASE FailGroup
    BY <1>3 DEF FailGroup, NextGroup, ToPoint
  <1>4. CASE EndFamily
    <2>1. rt' \in {[rt EXCEPT !.fam = "v6", !.left = GroupsOf(rt.conf.mode)],
                   [rt EXCEPT !.at = "save"], [rt EXCEPT !.at = "err"]}
      BY <1>4 DEF EndFamily, ToPoint
    <2>2. rt.at = "install" /\ config' = config
      BY <1>4 DEF EndFamily
    <2> QED BY <2>1, <2>2
  <1>5. CASE SaveSnapshot
    BY <1>5 DEF SaveSnapshot, ToPoint
  <1>6. CASE Clear
    BY <1>6 DEF Clear, ToPoint
  <1>7. CASE RemoveSnapshot
    BY <1>7 DEF RemoveSnapshot, ToPoint
  <1> QED BY <1>1, <1>2, <1>3, <1>4, <1>5, <1>6, <1>7 DEF RuleStep

Services == {"none", "start", "stop", "restart"}
Managers == {"none", "apply", "clear", "renew"}

LEMMA NoThreadType == NoThread \in Thread
  BY ConstAssumption, AnyBinType DEF NoThread, Thread, Points

\* Threads that are launched start from the beginning, for their command.
LEMMA LaunchKeeps ==
    ASSUME BoxTypeOK, ServiceInv, NEW c \in Cmd, Alone(c),
           NEW s \in Services, NEW r \in Managers, Launch(c, s, r),
           UNCHANGED <<core, pidfile, config, rules, stuck, sysIpv6, snap>>
    PROVE  /\ svc' \in [Cmd -> Thread] /\ ServiceInv' /\ RuleTypeOK'
           /\ svc'[c].op = s /\ (s # "none" => svc'[c].at # "idle")
           /\ rt'.op = r /\ (r # "none" => rt'.at # "idle" /\ rt'.conf = job[c].conf)
           /\ r = "none" => rt'.at = "idle"
           /\ \A d \in Cmd : d # c => svc'[d] = svc[d]
  <1> USE DEF BoxTypeOK
  <1>1. job[c] \in Job
    OBVIOUS
  <1>2. PICK t : /\ t = IF s = "none" THEN NoThread ELSE Called(s, job[c].bin)
                 /\ svc' = [svc EXCEPT ![c] = t]
    BY DEF Launch
  <1>3. t \in Thread /\ t.op = s /\ t.at \in {"idle", "validate", "scan"}
        /\ t.seen = Unread /\ (t.at = "validate" => t.op = "start")
        /\ (s # "none" => t.at # "idle")
    BY <1>1, <1>2, NoThreadType, CalledType DEF NoThread, Called, Services, Job
  <1>4. svc' \in [Cmd -> Thread] /\ svc'[c] = t /\ \A d \in Cmd : d # c => svc'[d] = svc[d]
    BY <1>2, <1>3 DEF TypeOK
  <1>5. ASSUME NEW d \in Cmd PROVE ThreadInv(d)'
    BY <1>3, <1>4, ConstAssumption DEF Alone, ThreadInv, ScanPoints, StartPoints
  <1>6. SingleCore' /\ PidFileNamesCore'
    BY DEF ServiceInv, SingleCore, PidFileNamesCore, Running
  <1>7. rt' = IF r = "none" THEN NoManager ELSE Manager(r, job[c].conf)
    BY DEF Launch
  <1>8. CASE r = "none"
    BY <1>4, <1>5, <1>6, <1>7, <1>8, <1>3 DEF NoManager, ServiceInv, RuleTypeOK, Lefts, Family
  <1>9. CASE r # "none"
    <2>1. r \in {"apply", "clear", "renew"} /\ job[c].conf \in Config
      BY <1>1, <1>9 DEF Managers, Job
    <2>2. rt'.op = r /\ rt'.at # "idle" /\ rt'.conf = job[c].conf
      BY <1>7, <1>9 DEF Manager
    <2>3. RuleTypeOK'
      BY <1>7, <1>9, <2>1, ManagerType DEF RuleTypeOK
    <2> QED BY <1>3, <1>4, <1>5, <1>6, <1>9, <2>2, <2>3 DEF ServiceInv
  <1> QED BY <1>8, <1>9

-----------------------------------------------------------------------------
(* The moves of a command between its phases *)

LEMMA PhaseFields ==
    ASSUME BoxTypeOK, NEW c \in Cmd, NEW phase \in Phases, ToPhase(c, phase)
    PROVE  /\ job' \in [Cmd -> Job]
           /\ job'[c].phase = phase /\ job'[c].op = job[c].op
           /\ job'[c].conf = job[c].conf /\ job'[c].bin = job[c].bin
           /\ \A d \in Cmd : d # c => job'[d] = job[d]
  <1>1. job[c] \in Job /\ job' = [job EXCEPT ![c] = [job[c] EXCEPT !.phase = phase]]
    BY DEF BoxTypeOK, ToPhase
  <1> QED BY <1>1 DEF BoxTypeOK, Job

LEMMA HolderAlone ==
    ASSUME HolderInv, NEW c \in Cmd, lock = c
    PROVE  Alone(c)
  BY DEF HolderInv, Alone

\* The holder moves on, with the threads it has or with new ones.
LEMMA MoveInv ==
    ASSUME BoxInv, NEW c \in Cmd, lock = c, NEW phase \in Inside, ToPhase(c, phase),
           UNCHANGED <<lock, cmd, unchangedBoth>>,
           \/ UNCHANGED <<svc, rt>>
           \/ \E s \in Services, r \in Managers : Launch(c, s, r),
           PhaseInv(c)'
    PROVE  BoxInv'
  <1> USE DEF BoxInv, unchangedBoth
  <1>1. phase \in Phases /\ Alone(c)
    BY HolderAlone DEF Inside, Phases
  <1>2. /\ svc' \in [Cmd -> Thread] /\ ServiceInv' /\ RuleTypeOK'
        /\ \A d \in Cmd : d # c => svc'[d] = svc[d]
    <2>1. CASE UNCHANGED <<svc, rt>>
      BY <2>1 DEF BoxTypeOK, TypeOK, RuleTypeOK, ServiceInv, ThreadInv, NoneRunning,
         OnlyChildRuns, Holds, SingleCore, PidFileNamesCore, Running
    <2>2. ASSUME NEW s \in Services, NEW r \in Managers, Launch(c, s, r)
          PROVE  /\ svc' \in [Cmd -> Thread] /\ ServiceInv' /\ RuleTypeOK'
                 /\ \A d \in Cmd : d # c => svc'[d] = svc[d]
      BY <1>1, <2>2, LaunchKeeps
    <2> QED BY <2>1, <2>2
  <1>3. /\ job' \in [Cmd -> Job] /\ job'[c].phase = phase /\ job'[c].op = job[c].op
        /\ \A d \in Cmd : d # c => job'[d] = job[d]
    BY <1>1, PhaseFields
  <1>4. BoxTypeOK'
    BY <1>2, <1>3 DEF BoxTypeOK, TypeOK
  <1>5. job[c].op \in Calls /\ job[c].phase \in Inside /\ cmd[c] # "wait"
    BY DEF HolderInv, Inside
  <1>6. HolderInv'
    BY <1>2, <1>3, <1>5, ConstAssumption DEF HolderInv, Inside
  <1>7. \A d \in Cmd : PhaseInv(d)'
    <2>1. ASSUME NEW d \in Cmd, d # c PROVE PhaseInv(d)'
      BY <1>3, <2>1 DEF PhaseInv, HolderInv, Inside
    <2> QED BY <2>1
  <1> QED BY <1>2, <1>4, <1>6, <1>7

\* What a launch and a move make of the phase.
LEMMA LaunchMaking ==
    ASSUME BoxInv, NEW c \in Cmd, lock = c, NEW phase \in Inside, ToPhase(c, phase),
           NEW s \in Services \ {"none"}, NEW r \in Managers \ {"none"},
           Launch(c, s, r), UNCHANGED unchangedBoth
    PROVE  Making(c, s, r)' /\ job'[c].phase = phase /\ job'[c].op = job[c].op
  <1>1. phase \in Phases /\ Alone(c) /\ BoxTypeOK /\ ServiceInv
    BY HolderAlone DEF BoxInv, Inside, Phases
  <1>2. /\ svc'[c].op = s /\ svc'[c].at # "idle"
        /\ rt'.op = r /\ rt'.at # "idle" /\ rt'.conf = job[c].conf
    BY <1>1, LaunchKeeps DEF unchangedBoth
  <1>3. /\ job'[c].phase = phase /\ job'[c].op = job[c].op
        /\ job'[c].conf = job[c].conf
    BY <1>1, PhaseFields
  <1> QED BY <1>2, <1>3 DEF Making

\* Threads that have ended well have made their calls.
LEMMA JoinedMade ==
    ASSUME NEW c \in Cmd, Joined(c), ~ Failed(c), NEW s, NEW r, Making(c, s, r)
    PROVE  Made(c, s, r)
  BY DEF Joined, Failed, Making, Made

LEMMA RollBackInv ==
    ASSUME BoxInv, NEW c \in Cmd, lock = c, job[c].op \in Ups, RollBack(c),
           UNCHANGED <<lock, cmd, unchangedBoth>>
    PROVE  BoxInv'
  <1>1. Launch(c, "stop", "clear") /\ ToPhase(c, "back") /\ "back" \in Inside
    BY DEF RollBack, Inside
  <1>2. Making(c, "stop", "clear")' /\ job'[c].phase = "back" /\ job'[c].op = job[c].op
    BY <1>1, LaunchMaking DEF Services, Managers
  <1>3. PhaseInv(c)'
    BY <1>2 DEF PhaseInv
  <1> QED BY <1>1, <1>3, MoveInv DEF Services, Managers

\* The holder moves on with the threads it has.
LEMMA StayInv ==
    ASSUME BoxInv, NEW c \in Cmd, lock = c, NEW phase \in Inside, ToPhase(c, phase),
           UNCHANGED <<lock, cmd, svc, rt, unchangedBoth>>,
           job'[c].op = job[c].op /\ job'[c].phase = phase => PhaseInv(c)'
    PROVE  BoxInv'
  <1>1. job'[c].phase = phase /\ job'[c].op = job[c].op
    BY PhaseFields DEF BoxInv, Inside, Phases
  <1> QED BY <1>1, MoveInv

LEMMA SyncInv ==
    ASSUME BoxInv, NEW c \in Cmd, SyncConfig(c)
    PROVE  BoxInv'
  <1>1. job[c].phase = "sync" /\ lock = c /\ job[c].op \in Ups
        /\ rt.at \in {"idle", "ok", "err"}
    BY DEF SyncConfig, BoxInv, HolderInv, PhaseInv, Inside
  <1>2. CASE ToPhase(c, "up") /\ Launch(c, "start", "apply")
    <2>1. "up" \in Inside /\ UNCHANGED <<lock, cmd, unchangedBoth>>
      BY DEF SyncConfig, Inside
    <2>2. Making(c, "start", "apply")' /\ job'[c].phase = "up" /\ job'[c].op = job[c].op
      BY <1>1, <1>2, <2>1, LaunchMaking DEF Services, Managers
    <2>3. PhaseInv(c)'
      BY <1>1, <2>2 DEF PhaseInv
    <2> QED BY <1>1, <1>2, <2>1, <2>3, MoveInv DEF Services, Managers
  <1>3. CASE ToPhase(c, "err") /\ UNCHANGED <<svc, rt>>
    BY <1>1, <1>3, StayInv DEF SyncConfig, Inside, PhaseInv
  <1> QED BY <1>2, <1>3 DEF SyncConfig

LEMMA JoinUpInv ==
    ASSUME BoxInv, NEW c \in Cmd, JoinUp(c)
    PROVE  BoxInv'
  <1>1. /\ job[c].phase = "up" /\ lock = c /\ job[c].op \in Ups
        /\ Making(c, "start", "apply") /\ Joined(c)
        /\ UNCHANGED <<lock, cmd, unchangedBoth>>
    BY DEF JoinUp, BoxInv, HolderInv, PhaseInv, Inside
  <1>2. CASE Failed(c)
    BY <1>1, <1>2, RollBackInv DEF JoinUp
  <1>3. CASE ~ Failed(c)
    <2>1. Made(c, "start", "apply")
      BY <1>1, <1>3, JoinedMade
    <2>2. PICK phase \in Inside :
            /\ phase = IF job[c].op = "policyUp" THEN "ok" ELSE "monitor"
            /\ ToPhase(c, phase) /\ UNCHANGED <<svc, rt>>
      BY <1>3 DEF JoinUp, Inside
    <2>3. job'[c].conf = job[c].conf
      BY <2>2, PhaseFields DEF BoxInv, Inside, Phases
    <2>4. Made(c, "start", "apply")' /\ rt'.at = "ok"
      BY <2>1, <2>2, <2>3 DEF Made, Making
    <2> QED BY <1>1, <2>2, <2>4, StayInv DEF PhaseInv, Ups, Downs
  <1> QED BY <1>2, <1>3

LEMMA JoinDownInv ==
    ASSUME BoxInv, NEW c \in Cmd, JoinDown(c)
    PROVE  BoxInv'
  <1>1. /\ job[c].phase = "down" /\ lock = c /\ job[c].op \in Downs \cup {"restart"}
        /\ Making(c, "stop", "clear") /\ Joined(c)
        /\ UNCHANGED <<lock, cmd, svc, rt, unchangedBoth>>
    BY DEF JoinDown, BoxInv, HolderInv, PhaseInv, Inside
  <1>2. CASE Failed(c)
    BY <1>1, <1>2, StayInv DEF JoinDown, Joined, PhaseInv, Inside
  <1>3. CASE ~ Failed(c)
    <2>1. Made(c, "stop", "clear")
      BY <1>1, <1>3, JoinedMade
    <2>2. PICK phase \in Inside :
            /\ ToPhase(c, phase)
            /\ \/ job[c].op = "restart" /\ phase = "sync"
               \/ job[c].op = "down" /\ phase = "monitor"
               \/ job[c].op = "policyDown" /\ phase = "ok"
      BY <1>1, <1>3 DEF JoinDown, Inside, Downs
    <2>3. job'[c].conf = job[c].conf
      BY <2>2, PhaseFields DEF BoxInv, Inside, Phases
    <2>4. Made(c, "stop", "clear")' /\ rt'.at = "ok"
      BY <1>1, <2>1, <2>3 DEF Made, Making
    <2> QED BY <1>1, <2>2, <2>4, StayInv DEF PhaseInv, Ups, Downs
  <1> QED BY <1>2, <1>3

LEMMA RunMonitorInv ==
    ASSUME BoxInv, NEW c \in Cmd, RunMonitor(c)
    PROVE  BoxInv'
  <1>1. /\ job[c].phase = "monitor" /\ lock = c
        /\ job[c].op \in {"up", "restart", "down"} /\ PhaseInv(c)
        /\ UNCHANGED <<lock, cmd, unchangedBoth>>
    BY DEF RunMonitor, BoxInv, HolderInv, PhaseInv, Inside
  <1>2. CASE ToPhase(c, "ok") /\ UNCHANGED <<svc, rt>>
    <2>1. job'[c].conf = job[c].conf
      BY <1>2, PhaseFields DEF BoxInv, Phases
    <2> QED BY <1>1, <1>2, <2>1, StayInv DEF PhaseInv, Made, Making, Inside, Ups, Downs
  <1>3. CASE ToPhase(c, "err") /\ UNCHANGED <<svc, rt>>
    BY <1>1, <1>3, StayInv DEF PhaseInv, Inside
  <1>4. CASE job[c].op # "down" /\ RollBack(c)
    BY <1>1, <1>4, RollBackInv DEF Ups
  <1> QED BY <1>2, <1>3, <1>4 DEF RunMonitor

LEMMA JoinLastInv ==
    ASSUME BoxInv, NEW c \in Cmd, JoinLast(c)
    PROVE  BoxInv'
  <1>1. /\ lock = c /\ UNCHANGED <<lock, cmd, svc, rt, unchangedBoth>>
        /\ job[c].phase = "one" => job[c].op \in Singles
        /\ rt.at \in {"idle", "ok", "err"}
    BY DEF JoinLast, Joined, BoxInv, HolderInv, PhaseInv, Inside
  <1>2. CASE ToPhase(c, "err")
    BY <1>1, <1>2, StayInv DEF PhaseInv, Inside
  <1>3. CASE job[c].phase = "one" /\ ToPhase(c, "ok")
    BY <1>1, <1>3, StayInv DEF PhaseInv, Inside, Singles, Ups, Downs
  <1> QED BY <1>2, <1>3 DEF JoinLast

-----------------------------------------------------------------------------
(* The other steps: before the lock, at its gate, of the threads, of the world *)

\* What leaves the core's processes and the pid file alone, or takes away only.
LEMMA ServiceCalm ==
    ASSUME ServiceInv, svc' = svc, \A p \in Pid : Running(p)' => Running(p),
           pidfile' = pidfile \/ (Reader # {} /\ pidfile' = Absent)
    PROVE  ServiceInv'
  <1>1. ASSUME NEW c \in Cmd PROVE ThreadInv(c)'
    BY DEF ServiceInv, ThreadInv, NoneRunning, OnlyChildRuns, Holds
  <1>2. SingleCore' /\ PidFileNamesCore'
    BY ConstAssumption DEF ServiceInv, SingleCore, PidFileNamesCore
  <1> QED BY <1>1, <1>2 DEF ServiceInv

LEMMA BeginInv ==
    ASSUME BoxInv, NEW c \in Cmd, NEW op \in Op, NEW b \in Bin, BeginJob(c, op, b)
    PROVE  BoxInv'
  <1> USE DEF BoxInv
  <1>1. op \in Calls /\ (op \in Policies => c \in Reader)
    BY OpAssumption DEF BeginJob, Calls, Singles
  <1>2. PICK new \in Job :
          /\ new.op = op /\ new.phase = IF op \in Policies THEN "look" ELSE "wait"
          /\ job' = [job EXCEPT ![c] = new]
    <2> DEFINE new == [op |-> op, phase |-> IF op \in Policies THEN "look" ELSE "wait",
                       conf |-> config, bin |-> b]
    <2>1. new \in Job
      BY <1>1 DEF Job, Phases, BoxTypeOK, RuleTypeOK
    <2> QED BY <2>1 DEF BeginJob
  <1>3. /\ job' \in [Cmd -> Job] /\ job'[c] = new
        /\ \A d \in Cmd : d # c => job'[d] = job[d]
    BY <1>2 DEF BoxTypeOK
  <1>4. UNCHANGED <<lock, svc, lookup, core, pidfile, ruleVars>>
    BY DEF BeginJob
  <1>5. /\ cmd' \in [Cmd -> {"idle", "wait", "run"}]
        /\ cmd[c] = "idle" /\ cmd'[c] = IF op \in Policies THEN "idle" ELSE "wait"
        /\ \A d \in Cmd : d # c => cmd'[d] = cmd[d]
    BY DEF BeginJob, BoxTypeOK, TypeOK
  <1>6. BoxTypeOK'
    BY <1>3, <1>4, <1>5 DEF BoxTypeOK, TypeOK, RuleTypeOK, BeginJob, ruleVars
  <1>7. HolderInv'
    BY <1>1, <1>2, <1>3, <1>4, <1>5 DEF HolderInv, Inside, ruleVars
  <1>8. ServiceInv'
    BY <1>4, ServiceCalm DEF Running
  <1>9. ASSUME NEW d \in Cmd PROVE PhaseInv(d)'
    BY <1>2, <1>3, <1>4 DEF PhaseInv, Made, Making, ruleVars
  <1> QED BY <1>6, <1>7, <1>8, <1>9

LEMMA LookInv ==
    ASSUME BoxInv, NEW c \in Cmd \cap Reader, Look(c)
    PROVE  BoxInv'
  <1>1. UNCHANGED <<lock, cmd, svc, core, pidfile, ruleVars, job, jobs>>
    BY DEF Look, ReaderRead
  <1>2. job[c].bin \in Bin
    BY DEF BoxInv, BoxTypeOK, Job
  <1>3. lookup' = [lookup EXCEPT ![c] = [bin |-> job[c].bin, seen |-> pidfile]]
    BY DEF Look, ReaderRead
  <1>4. TypeOK'
    BY <1>1, <1>2, <1>3 DEF BoxInv, BoxTypeOK, TypeOK
  <1>5. BoxTypeOK' /\ HolderInv'
    BY <1>1, <1>4 DEF BoxInv, BoxTypeOK, RuleTypeOK, HolderInv, ruleVars
  <1>6. ServiceInv'
    BY <1>1, ServiceCalm DEF BoxInv, Running
  <1>7. ASSUME NEW d \in Cmd PROVE PhaseInv(d)'
    BY <1>1 DEF BoxInv, PhaseInv, Made, Making, ruleVars
  <1> QED BY <1>5, <1>6, <1>7 DEF BoxInv

LEMMA JudgeInv ==
    ASSUME BoxInv, NEW c \in Cmd, Judge(c)
    PROVE  BoxInv'
  <1> USE DEF BoxInv
  <1>1. /\ job[c].phase = "look" /\ job[c].op \in Policies /\ c \in Reader
        /\ UNCHANGED <<lock, svc, core, ruleVars, jobs>>
    BY DEF Judge, HolderInv
  <1>2. pidfile' \in {pidfile, Absent}
    BY DEF Judge, AfterLookup
  <1>3. PICK new \in Job :
          /\ job' = [job EXCEPT ![c] = new]
          /\ \/ new.phase = "none" /\ cmd' = cmd
             \/ /\ new.phase = "wait" /\ new.op = job[c].op
                /\ cmd' = [cmd EXCEPT ![c] = "wait"]
    <2>1. CASE job' = [job EXCEPT ![c] = NoJob] /\ UNCHANGED cmd
      <3>1. NoJob \in Job /\ NoJob.phase = "none"
        BY AnyBinType DEF NoJob, Job, Phases, BoxTypeOK, RuleTypeOK
      <3> QED BY <2>1, <3>1
    <2>2. CASE ToPhase(c, "wait") /\ cmd' = [cmd EXCEPT ![c] = "wait"]
      <3>1. job[c] \in Job /\ job' = [job EXCEPT ![c] = [job[c] EXCEPT !.phase = "wait"]]
        BY <2>2 DEF ToPhase, BoxTypeOK
      <3>2. /\ [job[c] EXCEPT !.phase = "wait"] \in Job
            /\ [job[c] EXCEPT !.phase = "wait"].phase = "wait"
            /\ [job[c] EXCEPT !.phase = "wait"].op = job[c].op
        BY <3>1 DEF Job, Phases
      <3> QED BY <2>2, <3>1, <3>2
    <2> QED BY <2>1, <2>2 DEF Judge
  <1>4. /\ job' \in [Cmd -> Job] /\ job'[c] = new
        /\ \A d \in Cmd : d # c => job'[d] = job[d]
    BY <1>3 DEF BoxTypeOK
  <1>5. /\ cmd' \in [Cmd -> {"idle", "wait", "run"}]
        /\ cmd'[c] = IF new.phase = "wait" THEN "wait" ELSE cmd[c]
        /\ \A d \in Cmd : d # c => cmd'[d] = cmd[d]
    BY <1>3 DEF BoxTypeOK, TypeOK
  <1>6. lookup' \in [Reader -> [bin : Bin, seen : Text \cup {Unread}]]
    <2>1. lookup' = [lookup EXCEPT ![c].seen = Unread]
      BY DEF Judge
    <2>2. lookup[c] \in [bin : Bin, seen : Text \cup {Unread}]
      BY <1>1 DEF BoxTypeOK, TypeOK
    <2>3. [lookup[c] EXCEPT !.seen = Unread] \in [bin : Bin, seen : Text \cup {Unread}]
      BY <2>2
    <2> QED BY <1>1, <2>1, <2>3 DEF BoxTypeOK, TypeOK
  <1>7. BoxTypeOK'
    BY <1>1, <1>2, <1>4, <1>5, <1>6 DEF BoxTypeOK, TypeOK, RuleTypeOK, ruleVars, Text
  <1>8. HolderInv'
    BY <1>1, <1>3, <1>4, <1>5 DEF HolderInv, Inside, Policies, Calls, Ups, Downs, ruleVars
  <1>9. ServiceInv'
    BY <1>1, <1>2, ServiceCalm DEF Running
  <1>10. ASSUME NEW d \in Cmd PROVE PhaseInv(d)'
    BY <1>1, <1>3, <1>4 DEF PhaseInv, Made, Making, ruleVars
  <1> QED BY <1>7, <1>8, <1>9, <1>10

LEMMA AcquireInv ==
    ASSUME BoxInv, NEW c \in Cmd, AcquireLock(c)
    PROVE  BoxInv'
  <1> USE DEF BoxInv
  <1> DEFINE op == job[c].op
  <1>1. /\ cmd[c] = "wait" /\ lock = NoCmd /\ job[c].phase = "wait" /\ op \in Calls
        /\ lock' = c /\ UNCHANGED unchangedBoth
        /\ ToPhase(c, FirstPhase(op)) /\ Launch(c, ServiceCall(op), RulesCall(op))
    BY DEF AcquireLock, LockFree, HolderInv
  <1>2. Alone(c) /\ \A d \in Cmd : cmd[d] # "run" /\ svc[d].at = "idle" /\ job[d].phase \notin Inside
    BY <1>1, ConstAssumption DEF HolderInv, Alone
  <1>3. /\ FirstPhase(op) \in {"sync", "down", "one"}
        /\ ServiceCall(op) \in Services /\ RulesCall(op) \in Managers
        /\ FirstPhase(op) = "sync" => op \in Ups /\ RulesCall(op) = "none"
        /\ FirstPhase(op) = "down" =>
             /\ op \in Downs \cup {"restart"}
             /\ ServiceCall(op) = "stop" /\ RulesCall(op) = "clear"
        /\ FirstPhase(op) = "one" => op \in Singles
    BY <1>1 DEF FirstPhase, ServiceCall, RulesCall, Services, Managers, Calls, Singles,
       Ups, Downs
  <1>4. PICK phase \in {"sync", "down", "one"}, s \in Services, r \in Managers :
          phase = FirstPhase(op) /\ s = ServiceCall(op) /\ r = RulesCall(op)
    BY <1>3
  <1>5. /\ svc' \in [Cmd -> Thread] /\ ServiceInv' /\ RuleTypeOK'
        /\ svc'[c].op = s /\ (s # "none" => svc'[c].at # "idle")
        /\ rt'.op = r /\ (r # "none" => rt'.at # "idle" /\ rt'.conf = job[c].conf)
        /\ r = "none" => rt'.at = "idle"
        /\ \A d \in Cmd : d # c => svc'[d] = svc[d]
    <2>1. Launch(c, s, r)
      BY <1>1, <1>4
    <2> QED BY <1>1, <1>2, <2>1, LaunchKeeps DEF unchangedBoth
  <1>6. /\ job' \in [Cmd -> Job] /\ job'[c].phase = phase /\ job'[c].op = op
        /\ job'[c].conf = job[c].conf
        /\ \A d \in Cmd : d # c => job'[d] = job[d]
    BY <1>1, <1>4, PhaseFields DEF Phases
  <1>7. /\ cmd' \in [Cmd -> {"idle", "wait", "run"}] /\ cmd'[c] = "run"
        /\ \A d \in Cmd : d # c => cmd'[d] = cmd[d]
    BY DEF AcquireLock, BoxTypeOK, TypeOK
  <1>8. BoxTypeOK'
    BY <1>1, <1>5, <1>6, <1>7 DEF BoxTypeOK, TypeOK, unchangedBoth
  <1>9. HolderInv'
    BY <1>1, <1>2, <1>4, <1>5, <1>6, <1>7, ConstAssumption DEF HolderInv, Inside
  <1>10. ASSUME NEW d \in Cmd PROVE PhaseInv(d)'
    <2>1. CASE d = c
      BY <1>3, <1>4, <1>5, <1>6, <2>1 DEF PhaseInv, Making
    <2>2. CASE d # c
      BY <1>2, <1>6, <2>2 DEF PhaseInv, Inside
    <2> QED BY <2>1, <2>2
  <1> QED BY <1>5, <1>8, <1>9, <1>10

LEMMA ServiceThreadInv ==
    ASSUME BoxInv, NEW c \in Cmd, ServiceThread(c)
    PROVE  BoxInv'
  <1> USE DEF BoxInv
  <1>1. lock = c /\ Alone(c) /\ TypeOK /\ ThreadInv(c) /\ PhaseInv(c)
        /\ UNCHANGED <<lock, cmd, ruleVars, job, jobs>>
    BY HolderAlone DEF ServiceThread, HolderInv, BoxTypeOK, ServiceInv, StartAfterStop
  <1>2. /\ svc' \in [Cmd -> Thread] /\ ServiceInv' /\ TypeOK' /\ svc'[c].at # "idle"
        /\ \A d \in Cmd : d # c => svc'[d] = svc[d]
        /\ svc[c].at = "ok" => svc[c].op = "restart"
        /\ svc[c].op # "restart" => svc'[c].op = svc[c].op
    <2>1. CASE ServiceStep(c)
      <3>1. /\ svc' \in [Cmd -> Thread] /\ pidfile' \in Text /\ lookup' = lookup
            /\ core' \in [Pid -> {"unborn", "live", "termed", "killed", "gone"}]
        BY <1>1, <2>1, ServiceStepType
      <3> QED BY <1>1, <2>1, <3>1, ServiceStepInv, ServiceStepOther, ServiceStepFields
              DEF TypeOK
    <2>2. CASE StartAfterStop(c)
      <3>1. /\ Called("start", svc[c].bin) \in Thread /\ svc[c].op = "restart"
            /\ svc' = [svc EXCEPT ![c] = Called("start", svc[c].bin)]
            /\ UNCHANGED <<lookup, core, pidfile>>
        BY <1>1, <2>2, CalledType DEF StartAfterStop, TypeOK, Thread
      <3>2. ASSUME NEW d \in Cmd PROVE ThreadInv(d)'
        BY <1>1, <3>1, ConstAssumption DEF ServiceInv, ThreadInv, NoneRunning,
           OnlyChildRuns, Holds, Running, Called, ScanPoints, StartPoints, TypeOK
      <3>3. SingleCore' /\ PidFileNamesCore'
        BY <3>1 DEF ServiceInv, SingleCore, PidFileNamesCore, Running
      <3>4. svc' \in [Cmd -> Thread] /\ TypeOK'
        BY <1>1, <3>1 DEF TypeOK
      <3>5. /\ svc'[c].at # "idle" /\ svc'[c] = Called("start", svc[c].bin)
            /\ \A d \in Cmd : d # c => svc'[d] = svc[d]
        BY <1>1, <3>1 DEF TypeOK, Called
      <3> QED BY <3>1, <3>2, <3>3, <3>4, <3>5 DEF ServiceInv
    <2> QED BY <2>1, <2>2 DEF ServiceThread
  <1>3. BoxTypeOK' /\ HolderInv'
    BY <1>1, <1>2 DEF BoxTypeOK, RuleTypeOK, HolderInv, ruleVars
  <1>4. ASSUME NEW d \in Cmd PROVE PhaseInv(d)'
    <2>1. CASE d = c
      BY <1>1, <1>2, <2>1 DEF PhaseInv, Made, Making, ruleVars
    <2>2. CASE d # c
      BY <1>1, <1>2, <2>2 DEF PhaseInv, HolderInv, Inside
    <2> QED BY <2>1, <2>2
  <1> QED BY <1>2, <1>3, <1>4

LEMMA RulesThreadInv ==
    ASSUME BoxInv, NEW c \in Cmd, RulesThread(c)
    PROVE  BoxInv'
  <1> USE DEF BoxInv
  <1>1. RuleTypeOK /\ RuleStep /\ lock = c /\ UNCHANGED <<vars, job, jobs>>
    BY DEF RulesThread, BoxTypeOK
  <1>2. /\ rt'.op = rt.op /\ rt'.conf = rt.conf /\ rt'.at # "idle"
        /\ rt.at \notin {"idle", "ok", "err"}
    BY <1>1, RuleStepFields
  <1>3. RuleTypeOK'
    BY <1>1, RuleTypeStep DEF RulesNext
  <1>4. BoxTypeOK' /\ HolderInv'
    BY <1>1, <1>3, ConstAssumption DEF BoxTypeOK, TypeOK, HolderInv, vars
  <1>5. ServiceInv'
    BY <1>1, ServiceCalm DEF vars, Running
  <1>6. ASSUME NEW d \in Cmd PROVE PhaseInv(d)'
    BY <1>1, <1>2 DEF PhaseInv, Made, Making, vars
  <1> QED BY <1>4, <1>5, <1>6

LEMMA LeaveInv ==
    ASSUME BoxInv, NEW c \in Cmd, lock = c, LeaveLock(c)
    PROVE  BoxInv'
  <1> USE DEF BoxInv
  <1>1. /\ lock' = NoCmd /\ rt' = NoManager /\ UNCHANGED unchangedBoth
        /\ cmd' = [cmd EXCEPT ![c] = "idle"] /\ svc' = [svc EXCEPT ![c] = NoThread]
        /\ job' = [job EXCEPT ![c] = NoJob]
    BY DEF LeaveLock
  <1>2. NoJob \in Job /\ NoJob.phase = "none"
    BY AnyBinType DEF NoJob, Job, Phases, BoxTypeOK, RuleTypeOK
  <1>3. NoThread \in Thread /\ NoThread.at = "idle"
    BY NoThreadType DEF NoThread
  <1>4. \A d \in Cmd : d # c => /\ svc[d].at = "idle" /\ cmd[d] # "run"
                                /\ job[d].phase \notin Inside
    BY DEF HolderInv
  <1>5. RuleTypeOK' /\ rt'.at = "idle"
    BY <1>1 DEF BoxTypeOK, RuleTypeOK, NoManager, Lefts, Family, unchangedBoth
  <1>6. BoxTypeOK'
    BY <1>1, <1>2, <1>3, <1>5 DEF BoxTypeOK, TypeOK, unchangedBoth
  <1>7. HolderInv'
    BY <1>1, <1>2, <1>3, <1>4, <1>5, ConstAssumption DEF HolderInv, Inside, BoxTypeOK, TypeOK
  <1>8. ASSUME NEW d \in Cmd PROVE ThreadInv(d)' /\ PhaseInv(d)'
    BY <1>1, <1>2, <1>3, <1>4, ConstAssumption DEF ThreadInv, PhaseInv, Inside,
       ScanPoints, StartPoints, BoxTypeOK, TypeOK
  <1>9. SingleCore' /\ PidFileNamesCore'
    BY <1>1 DEF ServiceInv, SingleCore, PidFileNamesCore, Running, unchangedBoth
  <1> QED BY <1>6, <1>7, <1>8, <1>9 DEF ServiceInv

LEMMA WorldInv ==
    ASSUME BoxInv, (\E p \in Pid : CoreExits(p)) \/ EditConfig \/ UNCHANGED boxVars
    PROVE  BoxInv'
  <1> USE DEF BoxInv
  <1>1. /\ UNCHANGED <<lock, cmd, svc, lookup, pidfile, rules, stuck, sysIpv6, snap, rt,
                   job, jobs>>
        /\ RuleTypeOK'
    BY DEF CoreExits, CoreExit, EditConfig, Edit, boxVars, vars, ruleVars, BoxTypeOK, RuleTypeOK
  <1>2. \A p \in Pid : Running(p)' => Running(p)
    BY DEF CoreExits, CoreExit, EditConfig, boxVars, vars, Running, BoxTypeOK, TypeOK
  <1>3. core' \in [Pid -> {"unborn", "live", "termed", "killed", "gone"}]
    BY DEF CoreExits, CoreExit, EditConfig, boxVars, vars, BoxTypeOK, TypeOK
  <1>4. BoxTypeOK' /\ HolderInv'
    BY <1>1, <1>3 DEF BoxTypeOK, TypeOK, HolderInv
  <1>5. ServiceInv'
    BY <1>1, <1>2, ServiceCalm
  <1>6. ASSUME NEW d \in Cmd PROVE PhaseInv(d)'
    BY <1>1 DEF PhaseInv, Made, Making
  <1> QED BY <1>4, <1>5, <1>6

LEMMA BoxInitInv == BoxInit => BoxInv
  <1> SUFFICES ASSUME BoxInit PROVE BoxInv
    OBVIOUS
  <1>1. TypeOK /\ ServiceInv /\ RuleTypeOK
    BY InitInv, RuleTypeInit DEF BoxInit, IInv
  <1>2. NoJob \in Job /\ NoJob.phase = "none"
    BY <1>1, AnyBinType DEF NoJob, Job, Phases, RuleTypeOK
  <1> QED BY <1>1, <1>2, ConstAssumption
          DEF BoxInit, BoxInv, BoxTypeOK, HolderInv, PhaseInv, Inside, Init, NoThread,
              RulesInit, NoManager

LEMMA BoxNextInv == BoxInv /\ [BoxNext]_boxVars => BoxInv'
  <1> SUFFICES ASSUME BoxInv, [BoxNext]_boxVars PROVE BoxInv'
    OBVIOUS
  <1>1. ASSUME NEW c \in Cmd, Answer(c) \/ CrashJob(c)
        PROVE  BoxInv'
    BY <1>1, LeaveInv DEF Answer, CrashJob, BoxInv, HolderInv, Inside
  <1>2. ASSUME NEW c \in Cmd, JobStep(c)
        PROVE  BoxInv'
    BY <1>1, <1>2, ServiceThreadInv, RulesThreadInv, SyncInv, JoinUpInv, JoinDownInv,
       RunMonitorInv, JoinLastInv DEF JobStep
  <1>3. ASSUME NEW c \in Cmd, \/ \E op \in Op, b \in Bin : BeginJob(c, op, b)
                              \/ Judge(c) \/ AcquireLock(c)
        PROVE  BoxInv'
    BY <1>3, BeginInv, JudgeInv, AcquireInv
  <1> QED BY <1>1, <1>2, <1>3, LookInv, WorldInv DEF BoxNext, BoxStep

\* The commands, their threads, the rules and the core keep their types.
THEOREM BoxTypeCorrect == BoxSpec => []BoxTypeOK
  <1>1. BoxInv => BoxTypeOK
    BY DEF BoxInv
  <1> QED BY <1>1, BoxInitInv, BoxNextInv, PTL DEF BoxSpec

\* Two threads under one command, rollbacks, unlocked looks of the policy and kills
\* take nothing from what service::start and stop promise on their own: one core,
\* a truthful pid file, truthful answers.
THEOREM BoxKeepsCore ==
    BoxSpec => [](SingleCore /\ PidFileNamesCore /\ StopOkMeansStopped /\ StartOkTracksCore)
  <1>1. BoxInv => SingleCore /\ PidFileNamesCore /\ StopOkMeansStopped /\ StartOkTracksCore
    BY DEF BoxInv, ServiceInv, ThreadInv, NoneRunning, OnlyChildRuns, Holds,
       StopOkMeansStopped, StartOkTracksCore
  <1> QED BY <1>1, BoxInitInv, BoxNextInv, PTL DEF BoxSpec

-----------------------------------------------------------------------------
(* The rules' side of a step *)

\* Nothing but rt changes on the rules' side: a manager at its end gives way to
\* none, or to that of a command that has begun; a kill takes it away at any point.
Handed ==
    /\ UNCHANGED <<config, rules, stuck, sysIpv6, snap>>
    /\ \/ rt' = NoManager /\ (Faulty \/ rt.at \in {"idle", "ok", "err"})
       \/ /\ rt.at \in {"idle", "ok", "err"}
          /\ \E c \in Cmd, op \in {"apply", "clear", "renew"} :
               job[c].phase # "none" /\ rt' = Manager(op, job[c].conf)

LEMMA LaunchHanded ==
    ASSUME NEW c \in Cmd, NEW s, NEW r \in Managers, Launch(c, s, r),
           job[c].phase # "none", rt.at \in {"idle", "ok", "err"},
           UNCHANGED unchangedBoth
    PROVE  Handed
  <1>1. UNCHANGED <<config, rules, stuck, sysIpv6, snap>>
    BY DEF unchangedBoth
  <1>2. CASE r = "none"
    BY <1>1, <1>2 DEF Launch, Handed
  <1>3. CASE r # "none"
    <2>1. rt' = Manager(r, job[c].conf) /\ r \in {"apply", "clear", "renew"}
      BY <1>3 DEF Launch, Managers
    <2> QED BY <1>1, <2>1 DEF Handed
  <1> QED BY <1>2, <1>3

\* What a step of the commands is to the rules.
LEMMA RulesSide ==
    ASSUME BoxInv, BoxStep
    PROVE  RuleStep \/ Handed \/ UNCHANGED ruleVars
  <1> USE DEF BoxInv
  <1>1. ASSUME NEW c \in Cmd, AcquireLock(c)
        PROVE  Handed
    <2>1. job[c].phase = "wait" /\ job[c].op \in Calls /\ rt.at = "idle"
          /\ UNCHANGED unchangedBoth /\ Launch(c, ServiceCall(job[c].op), RulesCall(job[c].op))
      BY <1>1 DEF AcquireLock, LockFree, HolderInv
    <2>2. RulesCall(job[c].op) \in Managers
      BY <2>1 DEF RulesCall, Managers, Calls, Singles, Ups, Downs
    <2> QED BY <2>1, <2>2, LaunchHanded
  <1>2. ASSUME NEW c \in Cmd, RollBack(c), UNCHANGED unchangedBoth,
               job[c].phase # "none", rt.at \in {"idle", "ok", "err"}
        PROVE  Handed
    BY <1>2, LaunchHanded DEF RollBack, Managers
  <1>3. ASSUME NEW c \in Cmd, SyncConfig(c)
        PROVE  Handed \/ UNCHANGED ruleVars
    <2>1. job[c].phase = "sync" /\ rt.at \in {"idle", "ok", "err"} /\ UNCHANGED unchangedBoth
      BY <1>3 DEF SyncConfig, PhaseInv
    <2> QED BY <1>3, <2>1, LaunchHanded DEF SyncConfig, Managers, unchangedBoth, ruleVars
  <1>4. ASSUME NEW c \in Cmd, JoinUp(c) \/ RunMonitor(c)
        PROVE  Handed \/ UNCHANGED ruleVars
    <2>1. job[c].phase # "none" /\ rt.at \in {"idle", "ok", "err"} /\ UNCHANGED unchangedBoth
      BY <1>4 DEF JoinUp, Joined, RunMonitor, PhaseInv
    <2> QED BY <1>2, <1>4, <2>1 DEF JoinUp, RunMonitor, unchangedBoth, ruleVars
  <1>5. ASSUME NEW c \in Cmd, JoinDown(c) \/ JoinLast(c) \/ ServiceThread(c)
        PROVE  UNCHANGED ruleVars
    BY <1>5 DEF JoinDown, JoinLast, ServiceThread, unchangedBoth, ruleVars
  <1>6. ASSUME NEW c \in Cmd, Answer(c) \/ CrashJob(c)
        PROVE  Handed
    BY <1>6 DEF Answer, CrashJob, LeaveLock, PhaseInv, Handed, unchangedBoth
  <1>7. ASSUME NEW c \in Cmd, \/ \E op \in Op, b \in Bin : BeginJob(c, op, b)
                              \/ Judge(c) \/ Look(c)
        PROVE  UNCHANGED ruleVars
    BY <1>7 DEF BeginJob, Judge, Look
  <1>8. ASSUME NEW p \in Pid, CoreExits(p)
        PROVE  UNCHANGED ruleVars
    BY <1>8 DEF CoreExits
  <1>9. ASSUME NEW c \in Cmd, RulesThread(c)
        PROVE  RuleStep
    BY <1>9 DEF RulesThread
  <1> QED BY <1>1, <1>3, <1>4, <1>5, <1>6, <1>7, <1>8, <1>9 DEF BoxStep, JobStep

-----------------------------------------------------------------------------
(* Edits between commands only *)

LEMMA ConfKept ==
    ASSUME BoxTypeOK, NEW c \in Cmd, NEW phase, ToPhase(c, phase)
    PROVE  /\ \A d \in Cmd : job'[d].conf = job[d].conf
           /\ \A d \in Cmd : d # c => job'[d] = job[d]
  <1>1. job[c] \in Job /\ job' = [job EXCEPT ![c] = [job[c] EXCEPT !.phase = phase]]
    BY DEF BoxTypeOK, ToPhase
  <1> QED BY <1>1 DEF BoxTypeOK, Job

LEMMA LoadedStep ==
    ASSUME BoxInv, LoadedInv, [BoxStep \/ QuietEdit]_boxVars
    PROVE  LoadedInv'
  <1> USE DEF BoxInv, LoadedInv
  <1>1. ASSUME NEW c \in Cmd, NEW phase, ToPhase(c, phase), job[c].phase # "none",
               config' = config
        PROVE  LoadedInv'
    BY <1>1, ConfKept
  <1>2. ASSUME NEW c \in Cmd, NEW new, job' = [job EXCEPT ![c] = new],
               new.phase # "none" => new.conf = config, config' = config
        PROVE  LoadedInv'
    <2>1. ASSUME NEW d \in Cmd PROVE job'[d] = IF d = c THEN new ELSE job[d]
      BY <1>2 DEF BoxTypeOK
    <2> QED BY <1>2, <2>1
  <1>3. CASE UNCHANGED <<config, job>>
    BY <1>3
  <1>4. ASSUME NEW c \in Cmd, NEW op \in Op, NEW b \in Bin, BeginJob(c, op, b)
        PROVE  LoadedInv'
    <2> DEFINE new == [op |-> op, phase |-> IF op \in Policies THEN "look" ELSE "wait",
                       conf |-> config, bin |-> b]
    <2>1. job' = [job EXCEPT ![c] = new] /\ config' = config
      BY <1>4 DEF BeginJob, ruleVars
    <2>2. new.conf = config
      OBVIOUS
    <2> QED BY <1>2, <2>1, <2>2
  <1>5. ASSUME NEW c \in Cmd, job' = [job EXCEPT ![c] = NoJob], config' = config
        PROVE  LoadedInv'
    BY <1>2, <1>5 DEF NoJob
  <1>6. ASSUME NEW c \in Cmd, Judge(c)
        PROVE  LoadedInv'
    <2>1. config' = config /\ job[c].phase = "look"
      BY <1>6 DEF Judge, ruleVars
    <2> QED BY <1>1, <1>5, <1>6, <2>1 DEF Judge
  <1>7. ASSUME NEW c \in Cmd, AcquireLock(c)
        PROVE  LoadedInv'
    <2>1. config' = config /\ job[c].phase = "wait" /\ ToPhase(c, FirstPhase(job[c].op))
      BY <1>7 DEF AcquireLock, HolderInv, unchangedBoth
    <2> QED BY <1>1, <2>1
  <1>8. ASSUME NEW c \in Cmd, SyncConfig(c) \/ JoinUp(c) \/ JoinDown(c) \/ RunMonitor(c) \/ JoinLast(c)
        PROVE  LoadedInv'
    <2>1. config' = config /\ job[c].phase # "none"
      BY <1>8 DEF SyncConfig, JoinUp, JoinDown, RunMonitor, JoinLast, unchangedBoth
    <2>2. \E phase : ToPhase(c, phase)
      BY <1>8 DEF SyncConfig, JoinUp, JoinDown, RunMonitor, JoinLast, RollBack
    <2> QED BY <1>1, <2>1, <2>2
  <1>9. ASSUME NEW c \in Cmd, Answer(c) \/ CrashJob(c)
        PROVE  LoadedInv'
    BY <1>5, <1>9 DEF Answer, CrashJob, LeaveLock, unchangedBoth
  <1>10. ASSUME NEW c \in Cmd, ServiceThread(c) \/ Look(c)
         PROVE  LoadedInv'
    BY <1>3, <1>10 DEF ServiceThread, Look, ruleVars
  <1>11. ASSUME NEW c \in Cmd, RulesThread(c)
         PROVE  LoadedInv'
    <2>1. UNCHANGED <<config, job>>
      BY <1>11, RuleStepFields DEF RulesThread, BoxTypeOK
    <2> QED BY <1>3, <2>1
  <1>12. ASSUME NEW p \in Pid, CoreExits(p)
         PROVE  LoadedInv'
    BY <1>3, <1>12 DEF CoreExits, ruleVars
  <1>13. CASE QuietEdit
    BY <1>13 DEF QuietEdit, EditConfig
  <1>14. CASE UNCHANGED boxVars
    BY <1>3, <1>14 DEF boxVars, ruleVars
  <1> QED BY <1>4, <1>6, <1>7, <1>8, <1>9, <1>10, <1>11, <1>12, <1>13, <1>14
          DEF BoxStep, JobStep

LEMMA QuietStep ==
    ASSUME EditsCleared, BoxInv, QuietInv, [BoxStep \/ QuietEdit]_boxVars
    PROVE  QuietInv'
  <1> USE DEF QuietInv, ExactInv
  <1>1. LoadedInv'
    BY LoadedStep
  <1>2. CASE RuleStep
    <2>1. ~ Edit
      <3>1. rt.at # "idle"
        BY <1>2, RuleStepFields
      <3> QED BY <3>1 DEF Edit, EditsCleared, Cleared, Emptied
    <2> QED BY <1>1, <1>2, <2>1, RuleTypeStep, ManagerStep, OwnStep, Ipv6Step DEF RulesNext
  <1>3. CASE Handed
    <2>1. UNCHANGED <<config, rules, stuck, sysIpv6, snap>> /\ config.mode \in Modes
      BY <1>3, RuleAssumption DEF Handed, RuleTypeOK, Config
    <2>2. CASE rt' = NoManager
      <3>1. RuleTypeOK' /\ rt'.at = "idle"
        BY <2>1, <2>2 DEF RuleTypeOK, NoManager, Lefts, Family
      <3> QED BY <1>1, <2>1, <3>1 DEF ManagerInv, OwnInv, Ipv6Inv, Mine
    <2>3. CASE \E op \in {"apply", "clear", "renew"} : rt' = Manager(op, config)
      <3>1. PICK op \in {"apply", "clear", "renew"} : rt' = Manager(op, config)
        BY <2>3
      <3>2. RuleTypeOK'
        BY <2>1, <3>1, ManagerType DEF RuleTypeOK
      <3>3. /\ rt'.at = IF op = "apply" THEN "apply" ELSE "clear"
            /\ rt'.op = op /\ rt'.conf = config /\ rt'.fam = "v4"
            /\ rt'.left = GroupsOf(config.mode)
        BY <3>1 DEF Manager
      <3> QED BY <1>1, <2>1, <3>2, <3>3 DEF ManagerInv, OwnInv, Ipv6Inv, Mine
    <2> QED BY <1>3, <2>2, <2>3 DEF Handed, LoadedInv
  <1>4. CASE UNCHANGED ruleVars
    <2>1. RuleTypeOK' /\ ManagerInv' /\ OwnInv'
      BY <1>4 DEF ruleVars, ManagerInv, OwnInv, RuleTypeOK, Installed, Todo, Mine
    <2>2. Ipv6Inv'
      BY <1>4 DEF ruleVars, Ipv6Inv
    <2> QED BY <1>1, <2>1, <2>2
  <1>5. CASE QuietEdit
    <2>1. Edit /\ RulesNext
      BY <1>5 DEF QuietEdit, EditConfig, RulesNext
    <2>2. RuleTypeOK' /\ ManagerInv' /\ OwnInv'
      BY <2>1, RuleTypeStep, EditStep
    <2>3. Ipv6Inv'
      BY <2>1 DEF Edit, Cleared, Emptied, EditsCleared, Ipv6Inv
    <2> QED BY <1>1, <2>2, <2>3
  <1>6. UNCHANGED boxVars => UNCHANGED ruleVars
    BY DEF boxVars
  <1> QED BY <1>2, <1>3, <1>4, <1>5, <1>6, RulesSide DEF BoxInv

LEMMA QuietInit == BoxInit => QuietInv
  <1> SUFFICES ASSUME BoxInit PROVE QuietInv
    OBVIOUS
  <1>1. ExactInv
    BY ExactInit DEF BoxInit
  <1>2. Ipv6Inv /\ LoadedInv
    BY DEF BoxInit, RulesInit, NoManager, Ipv6Inv, LoadedInv, NoJob
  <1> QED BY <1>1, <1>2 DEF QuietInv

-----------------------------------------------------------------------------
(* Edits at any time, while all is calm *)

LEMMA OneSetting ==
    ASSUME Calm, NEW conf \in Config, NEW other \in Config
    PROVE  conf.set = other.set
  BY DEF Calm, Config

\* Where nothing fails, what is cleaned up with any configuration is all there is.
LEMMA RecordedCleaned ==
    ASSUME Calm, RuleTypeOK, rules \subseteq Recorded, NEW mode,
           mode = "all" \/ (snap # NoSnap /\ mode = snap.mode) \/ rules = {}
    PROVE  rules \ Cleaned(mode, rt.conf.set) = {}
  <1>1. CASE snap = NoSnap
    BY <1>1 DEF Recorded
  <1>2. CASE snap # NoSnap
    <2>1. snap \in Config /\ rt.conf \in Config
      BY <1>2 DEF RuleTypeOK
    <2>2. snap.set = rt.conf.set
      BY <2>1, OneSetting
    <2>3. /\ Mine(snap) \subseteq Cleaned(snap.mode, rt.conf.set)
          /\ Mine(snap) \subseteq Cleaned("all", rt.conf.set)
      BY <2>1, <2>2, CleanedMine
    <2> QED BY <1>2, <2>3 DEF Recorded
  <1> QED BY <1>1, <1>2

LEMMA PreparedEmpty ==
    ASSUME Calm, RuleTypeOK, rules \subseteq Recorded, PrepareApply
    PROVE  rules' = {} /\ rt' = [rt EXCEPT !.at = IF rt.conf.mode = "ebpf" THEN "save"
                                                  ELSE "install"]
  <1>1. PICK mode \in CleanupModesForApply(rt.conf) :
          /\ Change({}, Cleaned(mode, rt.conf.set))
          /\ rt' = [rt EXCEPT !.at = IF rt.conf.mode = "ebpf" THEN "save" ELSE "install"]
    BY DEF PrepareApply, Calm, ToPoint
  <1>2. rules' = rules \ Cleaned(mode, rt.conf.set)
    BY <1>1, ChangeFacts DEF Calm
  <1>3. CASE snap = NoSnap
    BY <1>1, <1>2, <1>3 DEF Recorded
  <1>4. CASE snap # NoSnap
    <2>1. mode = "all" \/ mode = snap.mode
      BY <1>1, <1>4 DEF CleanupModesForApply
    <2> QED BY <1>1, <1>2, <1>4, <2>1, RecordedCleaned
  <1> QED BY <1>3, <1>4

LEMMA ClearedEmpty ==
    ASSUME Calm, RuleTypeOK, rules \subseteq Recorded, Clear
    PROVE  rules' = {} /\ rt' = [rt EXCEPT !.at = "unsnap"] /\ snap' = snap
  <1>1. CleanupModeForClear = "all" \/ (snap # NoSnap /\ CleanupModeForClear = snap.mode)
    BY DEF CleanupModeForClear
  <1>2. rules' = rules \ Cleaned(CleanupModeForClear, rt.conf.set)
    BY ChangeFacts DEF Clear, Calm
  <1> QED BY <1>1, <1>2, RecordedCleaned DEF Clear, ToPoint

\* What a group adds is the configuration's own.
LEMMA GroupMine ==
    ASSUME RuleTypeOK, CalmManager, CalmRules, StartGroup \/ SkipBypass
    PROVE  /\ rules' \subseteq Mine(rt.conf) /\ NextGroup
           /\ rt.at = "install" /\ rt.left # <<>> /\ rt.left \in Lefts
           /\ This \in Groups /\ This \in CleanedGroups(rt.conf.mode)
           /\ CleanedGroups(rt.conf.mode) \subseteq Groups
           /\ UNCHANGED <<sysIpv6, snap>>
           /\ rt' = [rt EXCEPT !.left = Tail(rt.left)]
  <1>1. /\ rt.at = "install" /\ rt.left # <<>> /\ rt.left \in Lefts /\ NextGroup
        /\ UNCHANGED <<sysIpv6, snap>> /\ rt' = [rt EXCEPT !.left = Tail(rt.left)]
        /\ rt.conf.mode \in Modes /\ rt.fam \in Family
    BY RuleAssumption DEF StartGroup, SkipBypass, NextGroup, RuleTypeOK, Config
  <1>2. This \in Groups /\ This \in CleanedGroups(rt.conf.mode)
        /\ CleanedGroups(rt.conf.mode) \subseteq Groups
    BY <1>1, LeftsTail DEF This, CalmManager, CleanedGroups, Groups, Modes
  <1>3. rules' \subseteq rules \cup Started(rt.fam, This, rt.conf)
    BY ChangeFacts DEF StartGroup, SkipBypass
  <1>4. Started(rt.fam, This, rt.conf) \subseteq Mine(rt.conf)
    BY <1>1, <1>2 DEF Mine
  <1>5. rules' \subseteq Mine(rt.conf)
    BY <1>1, <1>3, <1>4 DEF CalmRules
  <1> QED BY <1>1, <1>2, <1>5

LEMMA GroupCalm ==
    ASSUME RuleTypeOK, CalmManager, CalmRules, StartGroup \/ SkipBypass
    PROVE  CalmManager'
  <1>1. /\ rt.at = "install" /\ rt.left # <<>> /\ rt.left \in Lefts
        /\ This \in Groups /\ CleanedGroups(rt.conf.mode) \subseteq Groups
        /\ rt' = [rt EXCEPT !.left = Tail(rt.left)]
    BY GroupMine
  <1>2. /\ Elems(rt.left) = Elems(Tail(rt.left)) \cup {This}
        /\ This \notin Elems(Tail(rt.left))
    BY <1>1, LeftsTail DEF This
  <1>3. /\ rt'.at = "install" /\ rt'.fam = rt.fam /\ rt'.conf = rt.conf
        /\ rt'.op = rt.op /\ rt'.left = Tail(rt.left)
    BY <1>1 DEF RuleTypeOK
  <1>4. ASSUME NEW g \in CleanedGroups(rt.conf.mode) \ Todo, g # "bypass"
        PROVE  Essential("v4", g) \subseteq rules'
    <2>1. Essential("v4", g) \subseteq rules /\ g \in Groups
      BY <1>1, <1>4 DEF CalmManager, Installed
    <2>2. Essential("v4", g) \cap Stopped(rt.fam, "bypass", rt.conf.set) = {}
      BY <1>4, <2>1, BypassOnly
    <2>3. rules \ Stopped(rt.fam, "bypass", rt.conf.set) \subseteq rules'
      BY ChangeFacts DEF StartGroup, SkipBypass
    <2> QED BY <2>1, <2>2, <2>3
  <1>5. rt.fam = "v4" /\ This # "bypass" => Essential("v4", This) \subseteq rules'
    BY ChangeFacts DEF StartGroup, SkipBypass
  <1>6. ASSUME NEW g \in CleanedGroups(rt.conf.mode) \ Todo', g # "bypass"
        PROVE  Essential("v4", g) \subseteq rules'
    BY <1>2, <1>3, <1>4, <1>5, <1>6 DEF Todo
  <1> QED BY <1>1, <1>2, <1>3, <1>6 DEF CalmManager, Installed

LEMMA CalmManagerStep ==
    ASSUME Calm, RuleTypeOK, CalmManager, CalmRules, RuleStep
    PROVE  CalmManager'
  <1> USE DEF CalmManager, RuleTypeOK
  <1>1. rt.conf \in Config /\ rt.conf.mode \in Modes
    BY RuleAssumption DEF Config
  <1>2. Elems(GroupsOf(rt.conf.mode)) = CleanedGroups(rt.conf.mode)
    BY <1>1, GroupsCleaned
  <1>3. CASE PrepareApply
    <2>1. /\ rules' = {} /\ rt.at = "apply"
          /\ rt' = [rt EXCEPT !.at = IF rt.conf.mode = "ebpf" THEN "save" ELSE "install"]
      BY <1>3, PreparedEmpty DEF CalmRules, PrepareApply
    <2>2. CASE rt.conf.mode = "ebpf"
      <3>1. CleanedGroups(rt.conf.mode) = {}
        BY <2>2 DEF CleanedGroups
      <3> QED BY <2>1, <2>2, <3>1 DEF Installed
    <2>3. CASE rt.conf.mode # "ebpf"
      BY <1>2, <2>1, <2>3 DEF Installed, Todo
    <2> QED BY <2>2, <2>3
  <1>4. CASE StartGroup \/ SkipBypass
    BY <1>4, GroupCalm
  <1>5. CASE FailGroup
    BY <1>5 DEF FailGroup, Calm
  <1>6. CASE EndFamily
    <2>1. Elems(<<>>) = {}
      BY DEF Elems
    <2>2. Installed(CleanedGroups(rt.conf.mode))
      BY <1>6, <2>1 DEF EndFamily, Todo
    <2>3. /\ rt' \in {[rt EXCEPT !.fam = "v6", !.left = GroupsOf(rt.conf.mode)],
                      [rt EXCEPT !.at = "save"]}
          /\ rt.at = "install" /\ rules' = rules
      BY <1>6 DEF EndFamily, ToPoint, Calm
    <2> QED BY <1>2, <2>2, <2>3 DEF Installed, Todo
  <1>7. CASE SaveSnapshot
    BY <1>7 DEF SaveSnapshot, ToPoint, Installed, Calm
  <1>8. CASE Clear
    BY <1>8 DEF Clear, ToPoint, Installed
  <1>9. CASE RemoveSnapshot
    BY <1>9 DEF RemoveSnapshot, ToPoint, Installed, Calm
  <1> QED BY <1>3, <1>4, <1>5, <1>6, <1>7, <1>8, <1>9 DEF RuleStep

LEMMA CalmRulesStep ==
    ASSUME Calm, RuleTypeOK, CalmManager, CalmRules, RuleStep
    PROVE  CalmRules'
  <1> USE DEF RuleTypeOK
  <1>1. CASE PrepareApply
    <2>1. /\ rules' = {} /\ rt.at = "apply"
          /\ rt' = [rt EXCEPT !.at = IF rt.conf.mode = "ebpf" THEN "save" ELSE "install"]
      BY <1>1, PreparedEmpty DEF CalmRules, PrepareApply
    <2>2. rt'.at \in {"save", "install"}
      BY <2>1
    <2> QED BY <2>1, <2>2 DEF CalmRules
  <1>2. CASE StartGroup \/ SkipBypass
    <2>1. rules' \subseteq Mine(rt.conf) /\ rt.at = "install"
          /\ rt' = [rt EXCEPT !.left = Tail(rt.left)]
      BY <1>2, GroupMine
    <2>2. rt'.at = "install" /\ rt'.conf = rt.conf
      BY <2>1
    <2> QED BY <2>1, <2>2 DEF CalmRules
  <1>3. CASE FailGroup
    BY <1>3 DEF FailGroup, Calm
  <1>4. CASE EndFamily
    <2>1. /\ rt' \in {[rt EXCEPT !.fam = "v6", !.left = GroupsOf(rt.conf.mode)],
                      [rt EXCEPT !.at = "save"]}
          /\ rt.at = "install" /\ rules' = rules
      BY <1>4 DEF EndFamily, ToPoint, Calm
    <2>2. rt'.at \in {"install", "save"} /\ rt'.conf = rt.conf
      BY <2>1
    <2> QED BY <2>1, <2>2 DEF CalmRules
  <1>5. CASE SaveSnapshot
    <2>1. /\ rt.at = "save" /\ rules' = rules /\ snap' = rt.conf
          /\ rt' = [rt EXCEPT !.at = "ok"]
      BY <1>5 DEF SaveSnapshot, ToPoint, Calm
    <2>2. /\ rt'.at = "ok" /\ rt'.op = rt.op /\ rt'.conf = rt.conf
          /\ rt.op # "clear" /\ rt.conf # NoSnap
      BY <2>1, SnapAssumption DEF CalmManager
    <2> QED BY <2>1, <2>2 DEF CalmRules, Recorded, Mine
  <1>6. CASE Clear
    <2>1. rules' = {} /\ rt' = [rt EXCEPT !.at = "unsnap"]
      BY <1>6, ClearedEmpty DEF CalmRules, Clear
    <2>2. rt'.at = "unsnap"
      BY <2>1
    <2> QED BY <2>1, <2>2 DEF CalmRules
  <1>7. CASE RemoveSnapshot
    <2>1. /\ rt.at = "unsnap" /\ rules' = {} /\ snap' = NoSnap
          /\ rt' = [rt EXCEPT !.at = IF rt.op = "renew" THEN "apply" ELSE "ok"]
      BY <1>7 DEF RemoveSnapshot, ToPoint, Calm, CalmRules
    <2>2. rt'.at = (IF rt.op = "renew" THEN "apply" ELSE "ok") /\ rt'.op = rt.op
          /\ rt.op \in {"clear", "renew"}
      BY <2>1 DEF CalmManager
    <2> QED BY <2>1, <2>2 DEF CalmRules
  <1> QED BY <1>1, <1>2, <1>3, <1>4, <1>5, <1>6, <1>7 DEF RuleStep

LEMMA CalmIpv6Step ==
    ASSUME Calm, RuleTypeOK, CalmManager, CalmIpv6, RuleStep
    PROVE  CalmIpv6'
  <1> USE DEF CalmIpv6
  <1>1. CASE sysIpv6' = sysIpv6 /\ rt'.at \notin {"unsnap", "ok"}
    BY <1>1
  <1>2. CASE PrepareApply
    BY <1>1, <1>2 DEF PrepareApply, ToPoint, RuleTypeOK
  <1>3. CASE StartGroup \/ SkipBypass
    BY <1>1, <1>3 DEF StartGroup, SkipBypass, NextGroup, RuleTypeOK
  <1>4. CASE FailGroup
    BY <1>4 DEF FailGroup, Calm
  <1>5. CASE EndFamily
    <2>1. rt' \in {[rt EXCEPT !.fam = "v6", !.left = GroupsOf(rt.conf.mode)],
                   [rt EXCEPT !.at = "save"]}
      BY <1>5 DEF EndFamily, ToPoint, Calm
    <2>2. rt'.at \in {"install", "save"}
      BY <1>5, <2>1 DEF EndFamily, RuleTypeOK
    <2>3. "ebpf" \in Mode => rt.conf.ipv6 # "disable"
      BY DEF Calm, RuleTypeOK, Config
    <2>4. ASSUME "ebpf" \in Mode PROVE sysIpv6' # "off"
      BY <1>5, <2>3, <2>4, TurnedOn DEF EndFamily
    <2> QED BY <2>2, <2>4
  <1>6. CASE SaveSnapshot
    <2>1. sysIpv6' = sysIpv6 /\ rt'.at = "ok" /\ rt'.op = rt.op /\ rt.op # "clear"
      BY <1>6 DEF SaveSnapshot, ToPoint, Calm, RuleTypeOK, CalmManager
    <2> QED BY <2>1
  <1>7. CASE Clear
    <2>1. CASE CleanupModeForClear = "ebpf"
      <3>1. "ebpf" \in Mode
        BY <2>1 DEF CleanupModeForClear, RuleTypeOK, Config
      <3> QED BY <1>7, <2>1, <3>1 DEF Clear
    <2>2. CASE CleanupModeForClear # "ebpf"
      BY <1>7, <2>2, TurnedOn DEF Clear
    <2> QED BY <2>1, <2>2
  <1>8. CASE RemoveSnapshot
    <2>1. sysIpv6' = sysIpv6 /\ rt.at = "unsnap"
      BY <1>8 DEF RemoveSnapshot
    <2> QED BY <2>1
  <1> QED BY <1>2, <1>3, <1>4, <1>5, <1>6, <1>7, <1>8 DEF RuleStep

LEMMA CalmStep ==
    ASSUME Calm, BoxInv, CalmInv, [BoxNext]_boxVars
    PROVE  CalmInv'
  <1> USE DEF CalmInv
  <1>1. RuleTypeOK
    BY DEF BoxInv, BoxTypeOK
  <1>2. CASE RuleStep
    BY <1>1, <1>2, CalmManagerStep, CalmRulesStep, CalmIpv6Step
  <1>3. CASE UNCHANGED <<rules, stuck, sysIpv6, snap, rt>>
    <2>1. CalmManager' /\ CalmRules'
      BY <1>3 DEF CalmManager, CalmRules, Installed, Todo, Recorded, Mine
    <2>2. CalmIpv6'
      BY <1>3 DEF CalmIpv6
    <2> QED BY <2>1, <2>2
  <1>4. CASE Handed
    <2>1. UNCHANGED <<rules, stuck, sysIpv6, snap>> /\ rt.at \in {"idle", "ok"}
      BY <1>4 DEF Handed, Calm, CalmManager
    <2>2. rules \subseteq Recorded
      BY <2>1 DEF CalmRules
    <2>3. CASE rt' = NoManager
      <3>1. rt'.at = "idle"
        BY <2>3 DEF NoManager
      <3>2. CalmManager' /\ CalmRules'
        BY <2>1, <2>2, <3>1 DEF CalmManager, CalmRules, Recorded, Mine
      <3>3. CalmIpv6'
        BY <2>1, <3>1 DEF CalmIpv6
      <3> QED BY <3>2, <3>3
    <2>4. ASSUME NEW conf, NEW op \in {"apply", "clear", "renew"}, rt' = Manager(op, conf)
          PROVE  CalmInv'
      <3>1. /\ rt'.at = IF op = "apply" THEN "apply" ELSE "clear"
            /\ rt'.op = op /\ rt'.conf = conf /\ rt'.fam = "v4"
            /\ rt'.left = GroupsOf(conf.mode)
        BY <2>4 DEF Manager
      <3>2. CalmManager' /\ CalmRules'
        BY <2>1, <2>2, <3>1 DEF CalmManager, CalmRules, Recorded, Mine
      <3>3. CalmIpv6'
        BY <2>1, <3>1 DEF CalmIpv6
      <3> QED BY <3>2, <3>3
    <2> QED BY <1>4, <2>3, <2>4 DEF Handed
  <1>5. UNCHANGED ruleVars \/ UNCHANGED boxVars => UNCHANGED <<rules, stuck, sysIpv6, snap, rt>>
    BY DEF ruleVars, boxVars
  <1>6. EditConfig => UNCHANGED <<rules, stuck, sysIpv6, snap, rt>>
    BY DEF EditConfig, Edit
  <1> QED BY <1>2, <1>3, <1>4, <1>5, <1>6, RulesSide DEF BoxNext

LEMMA CalmInit == BoxInit => CalmInv
  <1> SUFFICES ASSUME BoxInit PROVE CalmInv
    OBVIOUS
  <1>1. rules = {} /\ sysIpv6 = "on" /\ rt.at = "idle"
    BY DEF BoxInit, RulesInit, NoManager
  <1> QED BY <1>1 DEF CalmInv, CalmManager, CalmRules, CalmIpv6

-----------------------------------------------------------------------------
(* The answers *)

LEMMA QuietAnswer ==
    ASSUME QuietInv
    PROVE  RulesAnswer
  <1>1. ASSUME rt.at = "ok", rt.op = "apply"
        PROVE  Exact(rt.conf)
    <2>1. /\ rt.conf = config /\ config \in Config /\ snap = config
          /\ rules \ stuck \subseteq Mine(config) /\ Installed(CleanedGroups(config.mode))
      BY <1>1 DEF QuietInv, ExactInv, ManagerInv, OwnInv, RuleTypeOK
    <2> QED BY <2>1, InstalledExact
  <1>2. ASSUME rt.at = "ok", rt.op = "clear"
        PROVE  Emptied /\ snap = NoSnap
    BY <1>2 DEF QuietInv, ExactInv, OwnInv, Ipv6Inv, Emptied
  <1> QED BY <1>1, <1>2 DEF RulesAnswer

LEMMA CalmAnswer ==
    ASSUME RuleTypeOK, CalmInv
    PROVE  RulesAnswer
  <1>1. ASSUME rt.at = "ok", rt.op = "apply"
        PROVE  Exact(rt.conf)
    <2>1. rt.conf \in Config /\ snap = rt.conf /\ rt.conf # NoSnap
      BY <1>1, SnapAssumption DEF RuleTypeOK, CalmInv, CalmRules
    <2>2. rules \subseteq Mine(rt.conf) /\ Installed(CleanedGroups(rt.conf.mode))
      BY <1>1, <2>1 DEF CalmInv, CalmRules, CalmManager, Recorded
    <2> QED BY <2>1, <2>2, InstalledExact
  <1>2. ASSUME rt.at = "ok", rt.op = "clear"
        PROVE  Emptied /\ snap = NoSnap
    BY <1>2 DEF CalmInv, CalmRules, CalmIpv6, Recorded, Emptied
  <1> QED BY <1>1, <1>2 DEF RulesAnswer

\* Threads that have made an up's calls well have done it ...
LEMMA MadeUp ==
    ASSUME BoxInv, RulesAnswer, NEW c \in Cmd, Made(c, "start", "apply")
    PROVE  Up(c)
  <1>1. svc[c].at = "ok" /\ svc[c].op = "start" /\ ThreadInv(c)
    BY DEF Made, Making, BoxInv, ServiceInv
  <1>2. svc[c].child \in Pid /\ \A p \in Pid : Running(p) => p = svc[c].child
    BY <1>1 DEF ThreadInv, OnlyChildRuns
  <1>3. Exact(job[c].conf)
    BY DEF RulesAnswer, Made, Making
  <1> QED BY <1>2, <1>3 DEF Up

\* ... and those that have made a down's, that.
LEMMA MadeDown ==
    ASSUME BoxInv, RulesAnswer, NEW c \in Cmd, Made(c, "stop", "clear")
    PROVE  Down
  <1>1. svc[c].at = "ok" /\ svc[c].op = "stop" /\ ThreadInv(c)
    BY DEF Made, Making, BoxInv, ServiceInv
  <1>2. \A p \in Pid : ~ Running(p)
    BY <1>1 DEF ThreadInv, NoneRunning
  <1>3. Emptied /\ snap = NoSnap
    BY DEF RulesAnswer, Made, Making
  <1> QED BY <1>2, <1>3 DEF Down

LEMMA AnswerTrue ==
    ASSUME BoxInv, RulesAnswer
    PROVE  OkMeansDone /\ RolledBackMeansDown
  <1>1. ASSUME NEW c \in Cmd, job[c].phase = "ok"
        PROVE  (job[c].op \in Ups => Up(c)) /\ (job[c].op \in Downs => Down)
    BY <1>1, MadeUp, MadeDown DEF BoxInv, PhaseInv
  <1>2. ASSUME NEW c \in Cmd, job[c].phase = "back", Joined(c), ~ Failed(c)
        PROVE  Down
    <2>1. Making(c, "stop", "clear")
      BY <1>2 DEF BoxInv, PhaseInv
    <2> QED BY <1>2, <2>1, JoinedMade, MadeDown
  <1> QED BY <1>1, <1>2 DEF OkMeansDone, RolledBackMeansDown

LEMMA QuietAlways ==
    ASSUME EditsCleared
    PROVE  QuietSpec => [](BoxInv /\ QuietInv)
  <1>1. BoxInv /\ QuietInv /\ [BoxStep \/ QuietEdit]_boxVars => (BoxInv /\ QuietInv)'
    <2> SUFFICES ASSUME BoxInv, QuietInv, [BoxStep \/ QuietEdit]_boxVars
                 PROVE  (BoxInv /\ QuietInv)'
      OBVIOUS
    <2>1. [BoxNext]_boxVars
      BY DEF BoxNext, QuietEdit
    <2> QED BY <2>1, BoxNextInv, QuietStep
  <1> QED BY <1>1, BoxInitInv, QuietInit, PTL DEF QuietSpec

LEMMA CalmAlways ==
    ASSUME Calm
    PROVE  BoxSpec => [](BoxInv /\ CalmInv)
  <1>1. BoxInv /\ CalmInv /\ [BoxNext]_boxVars => (BoxInv /\ CalmInv)'
    BY BoxNextInv, CalmStep
  <1> QED BY <1>1, BoxInitInv, CalmInit, PTL DEF BoxSpec

\* Whatever fails or is killed, and whatever the policy saw before it had the lock:
\* while the configuration is edited only when the box is cleared and no command
\* has loaded it yet, up, restart, down and the policy's calls answer Ok only when
\* it is true of core and rules together.
THEOREM OkIsTrue ==
    ASSUME EditsCleared
    PROVE  QuietSpec => []OkMeansDone
  <1>1. BoxInv /\ QuietInv => OkMeansDone
    BY QuietAnswer, AnswerTrue
  <1> QED BY <1>1, QuietAlways, PTL

\* ... and a failed up whose rollback worked leaves the box down, even if it was
\* up before.
THEOREM RollbackIsTrue ==
    ASSUME EditsCleared
    PROVE  QuietSpec => []RolledBackMeansDown
  <1>1. BoxInv /\ QuietInv => RolledBackMeansDown
    BY QuietAnswer, AnswerTrue
  <1> QED BY <1>1, QuietAlways, PTL

\* The configuration may be edited at any time, even while a command waits for the
\* lock with the one it has loaded, where no rule fails, nothing is killed and the
\* edit is of the mode: an Ok is true, and a rollback complete.
THEOREM EditedOkIsTrue ==
    ASSUME Calm
    PROVE  BoxSpec => []OkMeansDone
  <1>1. BoxInv /\ CalmInv => OkMeansDone
    BY CalmAnswer, AnswerTrue DEF BoxInv, BoxTypeOK
  <1> QED BY <1>1, CalmAlways, PTL

THEOREM EditedRollbackIsTrue ==
    ASSUME Calm
    PROVE  BoxSpec => []RolledBackMeansDown
  <1>1. BoxInv /\ CalmInv => RolledBackMeansDown
    BY CalmAnswer, AnswerTrue DEF BoxInv, BoxTypeOK
  <1> QED BY <1>1, CalmAlways, PTL

=============================================================================
