--------------------------- MODULE LiveRulesProofs ---------------------------
(***************************************************************************)
(* Proofs about LiveRules: its type invariant; that a refresh which answers*)
(* Ok left the chains as it read them; that rules never ask half a list;   *)
(* and that apply and reload answer Ok only with rules in force that see a *)
(* version of the list which was there while they ran.  For any modes,     *)
(* addresses and versions of the list.                                     *)
(*                                                                         *)
(* Stamp and fingerprint are what a later command trusts instead of the    *)
(* kernel, so the invariant of the last relates them to what set and maps  *)
(* hold, for each kind of matcher on its own.                              *)
(***************************************************************************)
EXTENDS LiveRules, TLAPS

IpsetPoints == {"ipset", "flush", "add", "added", "swap", "destroy", "stamp"}
BpfPoints   == {"start", "update", "refill", "refilled", "apply", "create",
                "programs", "save_print"}

\* Who is where, and what a process may rely on there.
ProcInv ==
    /\ p.op = "refresh" => p.at \in {"addresses", "rebuild", "ok", "err"}
    /\ p.at \in {"addresses", "rebuild"} => p.op = "refresh"
    /\ p.at = "install" => p.op = "apply"
    /\ p.at \in {"rules_off", "pins_off"} => p.op \in {"apply", "clear"}
    /\ p.at \in IpsetPoints \cup BpfPoints => p.op \in {"apply", "reload"}
    /\ p.op = "apply" /\ p.at # "rules_off" => dirty
    /\ p.at = "pins_off" => use = "none"
    /\ p.op = "apply" /\ p.at \in IpsetPoints \cup BpfPoints => use = "none"
    /\ p.torn => p.at \in {"refill", "refilled"} \/ p.op = "refresh"

\* The tables that are not left to rebuild.
Done(t) == \A i \in 1 .. Len(p.left) : p.left[i] # t

ChainInv ==
    /\ ~ dirty => \A t \in Tables : Needs(t, mode) => chain[t] = key
    /\ p.at = "addresses" => p.left = Refreshed(mode)
    /\ p.at = "rebuild" =>
         /\ dirty /\ p.saw # "unread"
         /\ ~ p.torn => \A t \in Tables : Needs(t, mode) /\ Done(t) => chain[t] = p.saw
    /\ p.op = "refresh" /\ p.at = "ok" /\ ~ dirty =>
         \A t \in Tables : Needs(t, mode) => chain[t] = p.saw

\* The temporary ipset, step by step, and the one the rules ask.
SetInv ==
    /\ set # Absent => Whole(set)
    /\ use = "set" => set # Absent
    /\ p.at \in {"flush", "add", "added", "swap"} => p.took \in Version
    /\ p.at = "add" => tmp = {}
    /\ p.at = "added" => tmp = Half(p.took)
    /\ p.at = "swap" => tmp = Entries(p.took)

\* The pinned maps, step by step, and what installed rules keep of them.
MapInv ==
    /\ progs \/ use = "pin" => maps # Absent
    /\ p.at \in {"update", "refill", "refilled", "programs"} => maps # Absent
    /\ ~ failed /\ maps # Absent /\ p.at \notin {"refill", "refilled"} => Whole(maps)
    /\ p.at = "refill" /\ ~ p.torn => maps = {}
    /\ p.at = "refilled" /\ ~ p.torn =>
         maps = IF p.read = NoFile THEN {} ELSE Half(p.read)
    /\ p.at = "apply" /\ use = "pin" => failed
    /\ p.at \in {"create", "programs"} => use # "pin"
    /\ use = "frozen" => failed

LiveInv == LiveTypeOK /\ ProcInv /\ ChainInv /\ SetInv /\ MapInv

-----------------------------------------------------------------------------

LEMMA ToFacts ==
    ASSUME p \in Proc, NEW point \in Points, To(point)
    PROVE  /\ p' \in Proc
           /\ p'.at = point /\ p'.op = p.op /\ p'.saw = p.saw /\ p'.took = p.took
           /\ p'.read = p.read /\ p'.hot = p.hot /\ p'.torn = p.torn
           /\ p'.left = p.left /\ p'.during = p.during
  BY DEF To, Proc

LEMMA SourceType == LiveTypeOK => Source \in Version \cup {NoFile}
  BY DEF LiveTypeOK, Source, Proc

LEMMA StartFacts ==
    ASSUME LiveTypeOK, StartMatcher
    PROVE  /\ p' \in Proc
           /\ p'.op = p.op /\ p'.at \in {"ok", "update", "apply"}
           /\ p'.at = "update" => maps # Absent
           /\ p'.at = "apply" => p.op # "reload" \/ maps = Absent
           /\ p'.left = p.left /\ p'.torn = p.torn /\ p'.saw = p.saw
  <1>1. p \in Proc /\ Source \in Version \cup {NoFile}
    BY SourceType DEF LiveTypeOK
  <1>2. {"ok", "update", "apply"} \subseteq Points
    BY DEF Points
  <1>3. CASE p.op = "reload" /\ print = Source
    BY <1>1, <1>2, <1>3, ToFacts DEF StartMatcher
  <1>4. CASE ~ (p.op = "reload" /\ print = Source)
    <2>1. PICK at \in {"update", "apply"} :
             /\ p' = [p EXCEPT !.took = Source, !.hot = (p.op = "reload"), !.at = at]
             /\ at = IF p.op = "reload" /\ maps # Absent THEN "update" ELSE "apply"
      BY <1>4 DEF StartMatcher
    <2> QED
      BY <1>1, <1>2, <2>1 DEF Proc
  <1> QED
    BY <1>3, <1>4

LEMMA ContentFacts ==
    /\ {} \in Content /\ Entries(NoFile) = {}
    /\ \A v \in Version \cup {NoFile} : Entries(v) \in Content
    /\ \A v \in Version : /\ v # NoFile /\ Half(v) \in Content
                          /\ Entries(v) = {<<v, 1>>, <<v, 2>>}
                          /\ Half(v) \cup Entries(v) = Entries(v)
    /\ \A c \in Content : /\ c # Absent
                          /\ \A d \in Content : c \cup d \in Content
                          /\ \A d \in SUBSET c : d \in Content
  <1>1. {} \in Content /\ Entries(NoFile) = {}
    BY DEF Content, Entries
  <1>2. ASSUME NEW v \in Version
        PROVE  /\ v # NoFile /\ Half(v) \in Content /\ Entries(v) \in Content
               /\ Entries(v) = {<<v, 1>>, <<v, 2>>}
    BY LiveAssumption DEF Version, NoFile, Half, Entries, Content, Lines
  <1>3. ASSUME NEW v \in Version PROVE Half(v) \cup Entries(v) = Entries(v)
    BY <1>2 DEF Half
  <1>4. \A c \in Content : c # Absent
    BY AbsentAssumption DEF Content, Lines
  <1>5. ASSUME NEW c \in Content
        PROVE  /\ \A d \in Content : c \cup d \in Content
               /\ \A d \in SUBSET c : d \in Content
    BY DEF Content
  <1> QED
    BY <1>1, <1>2, <1>3, <1>4, <1>5

LEMMA WholeFacts ==
    \A v \in Version \cup {NoFile} : Whole(Entries(v)) /\ Whole({})
  BY ContentFacts DEF Whole

\* A step of apply, clear or reload that is not about the chains leaves the chains alone.
LEMMA ChainStays ==
    ASSUME ProcInv, ChainInv, UNCHANGED <<config, locals>>,
           p.op # "refresh", p'.op = p.op,
           p'.at \notin {"addresses", "rebuild"}
    PROVE  ChainInv'
  BY DEF ChainInv, config, locals, Needs, Done, Refreshed

LEMMA SetStays ==
    ASSUME SetInv, UNCHANGED <<ipset>>, use' = "set" => use = "set",
           p'.at \notin {"flush", "add", "added", "swap"}
    PROVE  SetInv'
  BY DEF SetInv, ipset, Whole, Entries, Version

LEMMA MapStays ==
    ASSUME MapInv, UNCHANGED <<maps, progs, use>>, failed => failed',
           p.at \notin {"refill", "refilled"},
           p'.at \notin {"update", "refill", "refilled", "apply", "create", "programs"}
    PROVE  MapInv'
  BY DEF MapInv, Whole, Entries, Version

LEMMA ProceedFacts ==
    ASSUME p \in Proc, Proceed
    PROVE  /\ p' \in Proc
           /\ p'.at \in {"install", "ok"} /\ (p'.at = "install" => p'.op = "apply")
           /\ p'.op = p.op /\ p'.saw = p.saw /\ p'.took = p.took /\ p'.read = p.read
           /\ p'.hot = p.hot /\ p'.torn = p.torn
           /\ p'.left = p.left /\ p'.during = p.during
  <1>1. "install" \in Points /\ "ok" \in Points
    BY DEF Points
  <1>2. CASE p.op = "apply"
    BY <1>1, <1>2, ToFacts DEF Proceed
  <1>3. CASE p.op # "apply"
    BY <1>1, <1>3, ToFacts DEF Proceed
  <1> QED
    BY <1>2, <1>3

-----------------------------------------------------------------------------
(* The ipset *)

LEMMA CheckIpsetStep == LiveInv /\ CheckIpset => LiveInv'
  <1> SUFFICES ASSUME LiveInv, CheckIpset PROVE LiveInv'
    OBVIOUS
  <1>1. /\ LiveTypeOK /\ ProcInv /\ ChainInv /\ SetInv /\ MapInv
        /\ p \in Proc /\ failed \in BOOLEAN
    BY DEF LiveInv, LiveTypeOK
  <1>2. /\ p.at = "ipset" /\ p.op \in {"apply", "reload"}
        /\ UNCHANGED <<config, world, locals, ipset, ebpf, use, held>>
        /\ UNCHANGED <<maps, progs, use>>
    BY <1>1 DEF CheckIpset, ProcInv, IpsetPoints, ebpf, inForce
  <1>3. /\ p' \in Proc /\ p'.at \in {"install", "ok", "flush", "err"}
        /\ p'.op = p.op /\ p'.left = p.left /\ p'.torn = p.torn
        /\ p'.at = "install" => p.op = "apply"
        /\ p'.at = "flush" => p'.took \in Version
        /\ failed' \in BOOLEAN /\ (failed => failed')
    <2>1. {"flush", "err"} \subseteq Points
      BY DEF Points
    <2>2. CASE Proceed /\ UNCHANGED failed
      BY <1>1, <2>2, ProceedFacts
    <2>3. CASE /\ list # NoFile /\ UNCHANGED failed
               /\ p' = [p EXCEPT !.at = "flush", !.took = list]
      <3>1. list \in Version
        BY <1>1, <2>3 DEF LiveTypeOK
      <3> QED
        BY <1>1, <2>1, <2>3, <3>1 DEF Proc
    <2>4. CASE Fail
      BY <1>1, <2>1, <2>4, ToFacts DEF Fail
    <2> QED
      BY <2>2, <2>3, <2>4 DEF CheckIpset
  <1>4. LiveTypeOK'
    BY <1>1, <1>2, <1>3 DEF LiveTypeOK, config, world, locals, ipset, ebpf
  <1>5. ProcInv'
    BY <1>1, <1>2, <1>3 DEF ProcInv, IpsetPoints, BpfPoints, locals
  <1>6. ChainInv'
    BY <1>1, <1>2, <1>3, ChainStays
  <1>7. SetInv'
    BY <1>1, <1>2, <1>3 DEF SetInv, ipset, Whole, Entries, Version
  <1>8. MapInv'
    BY <1>1, <1>2, <1>3, MapStays
  <1> QED
    BY <1>4, <1>5, <1>6, <1>7, <1>8 DEF LiveInv

LEMMA FlushIpsetStep == LiveInv /\ FlushIpset => LiveInv'
  <1> SUFFICES ASSUME LiveInv, FlushIpset PROVE LiveInv'
    OBVIOUS
  <1>1. /\ LiveTypeOK /\ ProcInv /\ ChainInv /\ SetInv /\ MapInv
        /\ p \in Proc /\ failed \in BOOLEAN
    BY DEF LiveInv, LiveTypeOK
  <1>2. /\ p.at = "flush" /\ p.op \in {"apply", "reload"} /\ p.took \in Version
        /\ UNCHANGED <<config, world, locals, stamp, raced, ebpf, use, held>>
        /\ UNCHANGED <<maps, progs, use>>
    BY <1>1 DEF FlushIpset, ProcInv, SetInv, IpsetPoints, ebpf, inForce
  <1>3. /\ p' \in Proc /\ p'.at \in {"add", "err"}
        /\ p'.op = p.op /\ p'.left = p.left /\ p'.torn = p.torn /\ p'.took = p.took
        /\ failed' \in BOOLEAN /\ (failed => failed')
    BY <1>1, ToFacts DEF FlushIpset, Fail, Points
  <1>4. /\ set' \in Content \cup {Absent} /\ tmp' = {} /\ {} \in Content
        /\ set' # Absent /\ (set # Absent => set' = set) /\ (set = Absent => set' = {})
    BY <1>1, ContentFacts DEF FlushIpset, LiveTypeOK
  <1>5. LiveTypeOK'
    BY <1>1, <1>2, <1>3, <1>4 DEF LiveTypeOK, config, world, locals, ebpf
  <1>6. ProcInv'
    BY <1>1, <1>2, <1>3 DEF ProcInv, IpsetPoints, BpfPoints, locals
  <1>7. ChainInv'
    BY <1>1, <1>2, <1>3, ChainStays
  <1>8. SetInv'
    BY <1>1, <1>2, <1>3, <1>4, WholeFacts DEF SetInv, Whole, Entries, Version
  <1>9. MapInv'
    BY <1>1, <1>2, <1>3, MapStays
  <1> QED
    BY <1>5, <1>6, <1>7, <1>8, <1>9 DEF LiveInv

LEMMA AddToIpsetStep == LiveInv /\ AddToIpset => LiveInv'
  <1> SUFFICES ASSUME LiveInv, AddToIpset PROVE LiveInv'
    OBVIOUS
  <1>1. /\ LiveTypeOK /\ ProcInv /\ ChainInv /\ SetInv /\ MapInv
        /\ p \in Proc /\ failed \in BOOLEAN
    BY DEF LiveInv, LiveTypeOK
  <1>2. /\ p.at \in {"add", "added"} /\ p.op \in {"apply", "reload"}
        /\ p.took \in Version
        /\ UNCHANGED <<config, world, locals, set, stamp, raced, ebpf, use, held>>
        /\ UNCHANGED <<maps, progs, use>>
    BY <1>1 DEF AddToIpset, ProcInv, SetInv, IpsetPoints, ebpf, inForce
  <1>3. /\ p' \in Proc /\ p'.at \in {"added", "swap", "err"}
        /\ p'.op = p.op /\ p'.left = p.left /\ p'.torn = p.torn /\ p'.took = p.took
        /\ failed' \in BOOLEAN /\ (failed => failed')
    BY <1>1, ToFacts DEF AddToIpset, Fail, Points
  <1>4. /\ tmp' \in Content \cup {Absent}
        /\ p'.at = "added" => tmp' = Half(p.took)
        /\ p'.at = "swap" => tmp' = Entries(p.took)
    <2>1. /\ Half(p.took) \in Content /\ Entries(p.took) \in Content
          /\ Half(p.took) \cup Entries(p.took) = Entries(p.took)
      BY <1>2, ContentFacts
    <2>2. CASE p.at = "add" /\ tmp' = tmp \cup Half(p.took) /\ To("added")
      <3>1. p'.at = "added" /\ tmp = {}
        BY <1>1, <2>2, ToFacts DEF Points, SetInv
      <3> QED
        BY <2>1, <2>2, <3>1
    <2>3. CASE p.at = "added" /\ tmp' = tmp \cup Entries(p.took) /\ To("swap")
      <3>1. p'.at = "swap" /\ tmp = Half(p.took)
        BY <1>1, <2>3, ToFacts DEF Points, SetInv
      <3> QED
        BY <2>1, <2>3, <3>1
    <2>4. CASE Fail /\ UNCHANGED tmp
      <3>1. p'.at = "err"
        BY <1>1, <2>4, ToFacts DEF Points, Fail
      <3> QED
        BY <1>1, <2>4, <3>1 DEF LiveTypeOK
    <2> QED
      BY <2>2, <2>3, <2>4 DEF AddToIpset
  <1>5. LiveTypeOK'
    BY <1>1, <1>2, <1>3, <1>4 DEF LiveTypeOK, config, world, locals, ebpf
  <1>6. ProcInv'
    BY <1>1, <1>2, <1>3 DEF ProcInv, IpsetPoints, BpfPoints, locals
  <1>7. ChainInv'
    BY <1>1, <1>2, <1>3, ChainStays
  <1>8. SetInv'
    BY <1>1, <1>2, <1>3, <1>4 DEF SetInv, Whole, Entries, Half, Version
  <1>9. MapInv'
    BY <1>1, <1>2, <1>3, MapStays
  <1> QED
    BY <1>5, <1>6, <1>7, <1>8, <1>9 DEF LiveInv

LEMMA SwapIpsetStep == LiveInv /\ SwapIpset => LiveInv'
  <1> SUFFICES ASSUME LiveInv, SwapIpset PROVE LiveInv'
    OBVIOUS
  <1>1. /\ LiveTypeOK /\ ProcInv /\ ChainInv /\ SetInv /\ MapInv
        /\ p \in Proc /\ failed \in BOOLEAN
    BY DEF LiveInv, LiveTypeOK
  <1>2. /\ p.at \in {"swap", "destroy"} /\ p.op \in {"apply", "reload"}
        /\ UNCHANGED <<config, world, locals, stamp, raced, ebpf, use, held>>
        /\ UNCHANGED <<maps, progs, use>>
    BY <1>1 DEF SwapIpset, ProcInv, IpsetPoints, ebpf, inForce
  <1>3. /\ p' \in Proc /\ p'.at \in {"destroy", "stamp", "err"}
        /\ p'.op = p.op /\ p'.left = p.left /\ p'.torn = p.torn
        /\ failed' \in BOOLEAN /\ (failed => failed')
    BY <1>1, ToFacts DEF SwapIpset, Fail, Points
  <1>4. /\ set' \in {set, tmp} /\ tmp' \in {set, tmp, Absent}
        /\ set' # set => set' # Absent /\ Whole(set')
    <2>1. CASE p.at = "swap" /\ set' = tmp /\ tmp' = set
      <3>1. p.took \in Version /\ tmp = Entries(p.took)
        BY <1>1, <2>1 DEF SetInv
      <3> QED
        BY <2>1, <3>1, WholeFacts, ContentFacts
    <2> QED
      BY <2>1 DEF SwapIpset
  <1>5. LiveTypeOK'
    BY <1>1, <1>2, <1>3, <1>4 DEF LiveTypeOK, config, world, locals, ebpf
  <1>6. ProcInv'
    BY <1>1, <1>2, <1>3 DEF ProcInv, IpsetPoints, BpfPoints, locals
  <1>7. ChainInv'
    BY <1>1, <1>2, <1>3, ChainStays
  <1>8. SetInv'
    BY <1>1, <1>2, <1>3, <1>4 DEF SetInv, Whole, Entries, Version
  <1>9. MapInv'
    BY <1>1, <1>2, <1>3, MapStays
  <1> QED
    BY <1>5, <1>6, <1>7, <1>8, <1>9 DEF LiveInv

LEMMA StampIpsetStep == LiveInv /\ StampIpset => LiveInv'
  <1> SUFFICES ASSUME LiveInv, StampIpset PROVE LiveInv'
    OBVIOUS
  <1>1. /\ LiveTypeOK /\ ProcInv /\ ChainInv /\ SetInv /\ MapInv
        /\ p \in Proc /\ failed \in BOOLEAN
    BY DEF LiveInv, LiveTypeOK
  <1>2. /\ p.at = "stamp" /\ p.op \in {"apply", "reload"} /\ Proceed
        /\ UNCHANGED <<config, world, locals, set, tmp, ebpf, inForce>>
        /\ UNCHANGED <<maps, progs, use, failed>>
        /\ stamp' \in {stamp, list} /\ raced' \in {raced, list # p.took}
    BY <1>1 DEF StampIpset, ProcInv, IpsetPoints, ebpf, inForce
  <1>3. /\ p' \in Proc /\ p'.at \in {"install", "ok"}
        /\ p'.at = "install" => p'.op = "apply"
        /\ p'.op = p.op /\ p'.left = p.left /\ p'.torn = p.torn
    BY <1>1, <1>2, ProceedFacts
  <1>4. raced' \in BOOLEAN /\ stamp' \in Version \cup {NoFile}
    BY <1>1, <1>2 DEF LiveTypeOK
  <1>5. LiveTypeOK'
    BY <1>1, <1>2, <1>3, <1>4 DEF LiveTypeOK, config, world, locals, ebpf, inForce
  <1>6. ProcInv'
    BY <1>1, <1>2, <1>3 DEF ProcInv, IpsetPoints, BpfPoints, locals, inForce
  <1>7. ChainInv'
    BY <1>1, <1>2, <1>3, ChainStays
  <1>8. SetInv'
    BY <1>1, <1>2, <1>3 DEF SetInv, Whole, Entries, Version, inForce
  <1>9. MapInv'
    BY <1>1, <1>2, <1>3, MapStays
  <1> QED
    BY <1>5, <1>6, <1>7, <1>8, <1>9 DEF LiveInv

-----------------------------------------------------------------------------
(* The eBPF matcher *)

LEMMA StartMatcherStep == LiveInv /\ StartMatcher => LiveInv'
  <1> SUFFICES ASSUME LiveInv, StartMatcher PROVE LiveInv'
    OBVIOUS
  <1>1. /\ LiveTypeOK /\ ProcInv /\ ChainInv /\ SetInv /\ MapInv
        /\ p \in Proc /\ failed \in BOOLEAN
    BY DEF LiveInv, LiveTypeOK
  <1>2. /\ p.at = "start" /\ p.op \in {"apply", "reload"}
        /\ UNCHANGED <<config, world, locals, ipset, ebpf, inForce>>
        /\ UNCHANGED <<maps, progs, use, failed>>
    BY <1>1 DEF StartMatcher, ProcInv, BpfPoints, ebpf, inForce
  <1>3. /\ p' \in Proc /\ p'.at \in {"ok", "update", "apply"}
        /\ p'.op = p.op /\ p'.left = p.left /\ p'.torn = p.torn
        /\ p'.at = "update" => maps # Absent
        /\ p'.at = "apply" => p.op # "reload" \/ maps = Absent
    BY <1>1, StartFacts
  <1>4. LiveTypeOK'
    BY <1>1, <1>2, <1>3 DEF LiveTypeOK, config, world, locals, ipset, ebpf, inForce
  <1>5. ProcInv'
    BY <1>1, <1>2, <1>3 DEF ProcInv, IpsetPoints, BpfPoints, locals
  <1>6. ChainInv'
    BY <1>1, <1>2, <1>3, ChainStays
  <1>7. SetInv'
    BY <1>1, <1>2, <1>3, SetStays
  <1>8. MapInv'
    <2>1. p.op = "apply" => use = "none"
      BY <1>1, <1>2 DEF ProcInv, BpfPoints
    <2> QED
      BY <1>1, <1>2, <1>3, <2>1 DEF MapInv, Whole, Entries, Version
  <1> QED
    BY <1>4, <1>5, <1>6, <1>7, <1>8 DEF LiveInv

LEMMA NoMatcherStep == LiveInv /\ NoMatcher => LiveInv'
  <1> SUFFICES ASSUME LiveInv, NoMatcher PROVE LiveInv'
    OBVIOUS
  <1>1. /\ LiveTypeOK /\ ProcInv /\ ChainInv /\ SetInv /\ MapInv
        /\ p \in Proc /\ failed \in BOOLEAN
    BY DEF LiveInv, LiveTypeOK
  <1>2. /\ p.at = "start" /\ p.op \in {"apply", "reload"}
        /\ UNCHANGED <<config, world, locals, ipset, ebpf, use, held>>
        /\ UNCHANGED <<maps, progs, use>>
        /\ failed' \in BOOLEAN /\ (failed => failed')
    BY <1>1 DEF NoMatcher, ProcInv, BpfPoints, ebpf
  <1>3. /\ p' \in Proc /\ p'.at \in {"ok", "install", "err"}
        /\ p'.op = p.op /\ p'.left = p.left /\ p'.torn = p.torn
        /\ p'.at = "install" => p'.op = "apply"
    BY <1>1, ProceedFacts, ToFacts DEF NoMatcher, Points
  <1>4. LiveTypeOK'
    BY <1>1, <1>2, <1>3 DEF LiveTypeOK, config, world, locals, ipset, ebpf
  <1>5. ProcInv'
    BY <1>1, <1>2, <1>3 DEF ProcInv, IpsetPoints, BpfPoints, locals
  <1>6. ChainInv'
    BY <1>1, <1>2, <1>3, ChainStays
  <1>7. SetInv'
    BY <1>1, <1>2, <1>3, SetStays
  <1>8. MapInv'
    BY <1>1, <1>2, <1>3, MapStays
  <1> QED
    BY <1>4, <1>5, <1>6, <1>7, <1>8 DEF LiveInv

LEMMA RemovePinsFacts ==
    ASSUME LiveTypeOK, MapInv, RemovePins
    PROVE  /\ maps' = Absent /\ progs' = FALSE /\ held' \in Content
           /\ use' \in {"none", "set", "frozen", "owner"}
           /\ use' = "set" => use = "set"
           /\ use' = "frozen" => use \in {"pin", "frozen"}
           /\ use = "none" => use' = "none"
  BY DEF RemovePins, LiveTypeOK, MapInv

LEMMA BpfFailsFacts ==
    ASSUME p \in Proc, BpfFails
    PROVE  /\ p' \in Proc /\ p'.at \in {"apply", "save_print", "err"}
           /\ p'.op = p.op /\ p'.left = p.left /\ p'.torn = FALSE /\ p'.took = p.took
           /\ failed'
  <1>1. PICK at \in {"apply", "save_print", "err"} :
           p' = [p EXCEPT !.hot = FALSE, !.torn = FALSE, !.at = at]
    BY DEF BpfFails
  <1>2. at \in Points
    BY DEF Points
  <1> QED
    BY <1>1, <1>2 DEF BpfFails, Proc

\* Where boxbpf goes on with the pins gone.
LEMMA PinsRemoved ==
    ASSUME LiveTypeOK, MapInv, RemovePins, failed \in BOOLEAN,
           p.at = "pins_off" => use = "none",
           failed' \/ (failed' = failed /\ p.at = "apply") \/ use = "none",
           p'.at \notin {"update", "refill", "refilled", "programs"}
    PROVE  MapInv'
  BY RemovePinsFacts DEF MapInv

LEMMA BpfApplyStep == LiveInv /\ BpfApply => LiveInv'
  <1> SUFFICES ASSUME LiveInv, BpfApply PROVE LiveInv'
    OBVIOUS
  <1>1. /\ LiveTypeOK /\ ProcInv /\ ChainInv /\ SetInv /\ MapInv
        /\ p \in Proc /\ failed \in BOOLEAN
    BY DEF LiveInv, LiveTypeOK
  <1>2. /\ p.at \in {"apply", "create", "programs"} /\ p.op \in {"apply", "reload"}
        /\ UNCHANGED <<config, world, locals, ipset, print>>
        /\ ~ p.torn
        /\ p.op = "apply" => use = "none"
    BY <1>1 DEF BpfApply, ProcInv, BpfPoints
  <1> DEFINE Good == /\ p' \in Proc /\ p'.op = p.op /\ p'.left = p.left /\ ~ p'.torn
                     /\ p'.at \in {"apply", "create", "programs", "save_print", "err"}
                     /\ failed' \in BOOLEAN
                     /\ maps' \in Content \cup {Absent} /\ progs' \in BOOLEAN
                     /\ use' \in {"none", "set", "pin", "frozen", "owner"}
                     /\ use' = "set" => use = "set"
                     /\ use = "none" => use' = "none"
                     /\ held' \in Content
                     /\ MapInv'
  <1>3. Good
    <2>1. CASE p.at = "apply" /\ RemovePins /\ To("create") /\ UNCHANGED failed
      <3>1. p' \in Proc /\ p'.at = "create" /\ p'.op = p.op /\ p'.left = p.left
            /\ p'.torn = p.torn
        BY <1>1, <2>1, ToFacts DEF Points
      <3>2. MapInv'
        BY <1>1, <2>1, <3>1, PinsRemoved
      <3> QED
        BY <1>1, <1>2, <2>1, <3>1, <3>2, RemovePinsFacts
    <2>2. CASE /\ p.at = "create" /\ maps' = Entries(Source) /\ To("programs")
               /\ UNCHANGED <<progs, use, held, failed>>
      <3>1. p' \in Proc /\ p'.at = "programs" /\ p'.op = p.op /\ p'.left = p.left
            /\ p'.torn = p.torn
        BY <1>1, <2>2, ToFacts DEF Points
      <3>2. maps' \in Content /\ maps' # Absent /\ Whole(maps)'
        <4>1. Source \in Version \cup {NoFile}
          BY <1>1, SourceType
        <4>2. Entries(Source) \in Content /\ Entries(Source) # Absent
          BY <4>1, ContentFacts
        <4>3. \E v \in Version \cup {NoFile} : maps' = Entries(v)
          BY <4>1, <2>2
        <4> QED
          BY <2>2, <4>2, <4>3 DEF Whole, Entries, Version
      <3>3. MapInv'
        BY <1>1, <2>2, <3>1, <3>2 DEF MapInv
      <3> QED
        BY <1>1, <1>2, <2>2, <3>1, <3>2, <3>3 DEF LiveTypeOK
    <2>3. CASE /\ p.at = "programs" /\ progs' = TRUE
               /\ p' = [p EXCEPT !.at = "save_print", !.hot = FALSE]
               /\ UNCHANGED <<maps, use, held, failed>>
      <3>1. p' \in Proc /\ p'.at = "save_print" /\ p'.op = p.op /\ p'.left = p.left
            /\ p'.torn = p.torn
        BY <1>1, <2>3 DEF Points, Proc
      <3>2. MapInv'
        BY <1>1, <2>3, <3>1 DEF MapInv, Whole, Entries, Version
      <3> QED
        BY <1>1, <1>2, <2>3, <3>1, <3>2 DEF LiveTypeOK
    <2>4. CASE p.at \in {"create", "programs"} /\ RemovePins /\ BpfFails
      <3>1. MapInv'
        BY <1>1, <2>4, BpfFailsFacts, PinsRemoved
      <3> QED
        BY <1>1, <2>4, <3>1, BpfFailsFacts, RemovePinsFacts DEF BpfFails
    <2>5. CASE p.at = "apply" /\ Fail /\ UNCHANGED <<maps, progs, use, held>>
      <3>1. p' \in Proc /\ p'.at = "err" /\ p'.op = p.op /\ p'.left = p.left
            /\ p'.torn = p.torn /\ failed' = TRUE
        BY <1>1, <2>5, ToFacts DEF Points, Fail
      <3>2. MapInv'
        BY <1>1, <2>5, <3>1, MapStays
      <3> QED
        BY <1>1, <1>2, <2>5, <3>1, <3>2 DEF LiveTypeOK
    <2> QED
      BY <2>1, <2>2, <2>3, <2>4, <2>5 DEF BpfApply
  <1>4. LiveTypeOK'
    BY <1>1, <1>2, <1>3 DEF LiveTypeOK, config, world, locals, ipset
  <1>5. ProcInv'
    BY <1>1, <1>2, <1>3 DEF ProcInv, IpsetPoints, BpfPoints, locals
  <1>6. ChainInv'
    BY <1>1, <1>2, <1>3, ChainStays
  <1>7. SetInv'
    BY <1>1, <1>2, <1>3, SetStays
  <1> QED
    BY <1>3, <1>4, <1>5, <1>6, <1>7 DEF LiveInv

LEMMA BpfUpdateStep == LiveInv /\ BpfUpdate => LiveInv'
  <1> SUFFICES ASSUME LiveInv, BpfUpdate PROVE LiveInv'
    OBVIOUS
  <1>1. /\ LiveTypeOK /\ ProcInv /\ ChainInv /\ SetInv /\ MapInv
        /\ p \in Proc /\ failed \in BOOLEAN
    BY DEF LiveInv, LiveTypeOK
  <1>2. /\ p.at \in {"update", "refill", "refilled"} /\ p.op \in {"apply", "reload"}
        /\ UNCHANGED <<config, world, locals, ipset, progs, print, use, held>>
        /\ p.at = "update" => ~ p.torn
        /\ p.op = "apply" => use = "none"
        /\ maps \in Content /\ maps # Absent
    BY <1>1 DEF BpfUpdate, ProcInv, BpfPoints, MapInv, LiveTypeOK
  <1> DEFINE Good == /\ p' \in Proc /\ p'.op = p.op /\ p'.left = p.left
                     /\ p'.at \in {"refill", "refilled", "apply", "save_print", "err"}
                     /\ p'.torn => p'.at \in {"refill", "refilled"}
                     /\ failed' \in BOOLEAN
                     /\ maps' \in Content
                     /\ MapInv'
  <1>3. Good
    <2>1. CASE p.at = "update" /\ maps' = {} /\ To("refill") /\ UNCHANGED failed
      <3>1. p' \in Proc /\ p'.at = "refill" /\ p'.op = p.op /\ p'.left = p.left
            /\ p'.torn = p.torn
        BY <1>1, <2>1, ToFacts DEF Points
      <3>2. maps' \in Content /\ maps' # Absent
        BY <2>1, ContentFacts
      <3>3. MapInv'
        BY <1>1, <1>2, <2>1, <3>1, <3>2 DEF MapInv
      <3> QED
        BY <1>1, <2>1, <3>1, <3>2, <3>3
    <2>2. CASE p.at = "update" /\ BpfFails /\ UNCHANGED maps
      <3>1. p' \in Proc /\ p'.at \in {"apply", "save_print", "err"}
            /\ p'.op = p.op /\ p'.left = p.left /\ p'.torn = FALSE /\ failed'
        BY <1>1, <2>2, BpfFailsFacts
      <3>2. MapInv'
        BY <1>1, <1>2, <2>2, <3>1 DEF MapInv
      <3>3. failed' \in BOOLEAN
        BY <2>2 DEF BpfFails
      <3> QED
        BY <1>2, <2>2, <3>1, <3>2, <3>3
    <2>3. CASE /\ p.at = "update" /\ maps' \in SUBSET maps
               /\ p' = [p EXCEPT !.at = "refill", !.torn = TRUE]
               /\ UNCHANGED failed
      <3>1. p' \in Proc /\ p'.at = "refill" /\ p'.op = p.op /\ p'.left = p.left
            /\ p'.torn = TRUE
        BY <1>1, <2>3 DEF Points, Proc
      <3>2. maps' \in Content /\ maps' # Absent
        BY <1>2, <2>3, ContentFacts
      <3>3. MapInv'
        BY <1>1, <1>2, <2>3, <3>1, <3>2 DEF MapInv
      <3> QED
        BY <1>1, <2>3, <3>1, <3>2, <3>3
    <2>4. CASE /\ p.at = "refill"
               /\ maps' = IF Source = NoFile THEN maps ELSE maps \cup Half(Source)
               /\ p' = [p EXCEPT !.at = "refilled", !.read = Source]
               /\ UNCHANGED failed
      <3>1. Source \in Version \cup {NoFile}
        BY <1>1, SourceType
      <3>2. p' \in Proc /\ p'.at = "refilled" /\ p'.op = p.op /\ p'.left = p.left
            /\ p'.torn = p.torn /\ p'.read = Source
        BY <1>1, <2>4, <3>1 DEF Points, Proc
      <3>3. maps' \in Content /\ maps' # Absent
        BY <1>2, <2>4, <3>1, ContentFacts
      <3>4. ~ p.torn => maps' = IF Source = NoFile THEN {} ELSE Half(Source)
        BY <1>1, <2>4 DEF MapInv
      <3>5. ~ p'.torn => maps' = IF p'.read = NoFile THEN {} ELSE Half(p'.read)
        BY <3>2, <3>4
      <3>6. MapInv'
        BY <1>1, <1>2, <2>4, <3>2, <3>3, <3>5 DEF MapInv, Half
      <3> QED
        BY <1>1, <2>4, <3>2, <3>3, <3>6
    <2>5. CASE p.at = "refilled" /\ maps' = maps \cup Entries(p.read)
      <3>1. p.read \in Version \cup {NoFile}
        BY <1>1 DEF Proc
      <3>2. maps' \in Content /\ maps' # Absent
        BY <1>2, <2>5, <3>1, ContentFacts
      <3>3. ~ p.torn => maps' = Entries(p.read)
        BY <1>1, <2>5, <3>1, ContentFacts DEF MapInv
      <3>4. ~ p.torn => Whole(maps)'
        BY <3>1, <3>3 DEF Whole, Entries, Version
      <3>5. CASE p.torn /\ BpfFails
        <4>1. p' \in Proc /\ p'.at \in {"apply", "save_print", "err"}
              /\ p'.op = p.op /\ p'.left = p.left /\ p'.torn = FALSE /\ failed'
          BY <1>1, <3>5, BpfFailsFacts
        <4>2. MapInv'
          BY <1>1, <1>2, <3>2, <4>1 DEF MapInv
        <4>3. failed' \in BOOLEAN
          BY <3>5 DEF BpfFails
        <4> QED
          BY <3>2, <4>1, <4>2, <4>3
      <3>6. CASE /\ ~ p.torn /\ p' = [p EXCEPT !.at = "save_print", !.hot = FALSE]
                 /\ UNCHANGED failed
        <4>1. p' \in Proc /\ p'.at = "save_print" /\ p'.op = p.op /\ p'.left = p.left
              /\ p'.torn = p.torn
          BY <1>1, <3>6 DEF Points, Proc
        <4>2. MapInv'
          BY <1>1, <1>2, <3>2, <3>4, <3>6, <4>1 DEF MapInv
        <4> QED
          BY <1>1, <3>2, <3>6, <4>1, <4>2
      <3> QED
        BY <2>5, <3>5, <3>6 DEF BpfUpdate
    <2> QED
      BY <2>1, <2>2, <2>3, <2>4, <2>5 DEF BpfUpdate
  <1>4. LiveTypeOK'
    BY <1>1, <1>2, <1>3 DEF LiveTypeOK, config, world, locals, ipset
  <1>5. ProcInv'
    BY <1>1, <1>2, <1>3 DEF ProcInv, IpsetPoints, BpfPoints, locals
  <1>6. ChainInv'
    BY <1>1, <1>2, <1>3, ChainStays
  <1>7. SetInv'
    BY <1>1, <1>2, <1>3, SetStays
  <1> QED
    BY <1>3, <1>4, <1>5, <1>6, <1>7 DEF LiveInv

LEMMA SavePrintStep == LiveInv /\ SavePrint => LiveInv'
  <1> SUFFICES ASSUME LiveInv, SavePrint PROVE LiveInv'
    OBVIOUS
  <1>1. /\ LiveTypeOK /\ ProcInv /\ ChainInv /\ SetInv /\ MapInv
        /\ p \in Proc /\ failed \in BOOLEAN
    BY DEF LiveInv, LiveTypeOK
  <1>2. /\ p.at = "save_print" /\ p.op \in {"apply", "reload"}
        /\ UNCHANGED <<config, world, locals, ipset, maps, progs, use, held>>
        /\ UNCHANGED <<maps, progs, use>>
        /\ print' \in Version \cup {NoFile}
    BY <1>1 DEF SavePrint, ProcInv, BpfPoints, LiveTypeOK, Proc
  <1>3. /\ p' \in Proc /\ p'.at \in {"ok", "install", "err"}
        /\ p'.op = p.op /\ p'.left = p.left /\ p'.torn = p.torn
        /\ p'.at = "install" => p'.op = "apply"
        /\ failed' \in BOOLEAN /\ (failed => failed')
    BY <1>1, ProceedFacts, ToFacts DEF SavePrint, Fail, Points
  <1>4. LiveTypeOK'
    BY <1>1, <1>2, <1>3 DEF LiveTypeOK, config, world, locals, ipset
  <1>5. ProcInv'
    BY <1>1, <1>2, <1>3 DEF ProcInv, IpsetPoints, BpfPoints, locals
  <1>6. ChainInv'
    BY <1>1, <1>2, <1>3, ChainStays
  <1>7. SetInv'
    BY <1>1, <1>2, <1>3, SetStays
  <1>8. MapInv'
    BY <1>1, <1>2, <1>3, MapStays
  <1> QED
    BY <1>4, <1>5, <1>6, <1>7, <1>8 DEF LiveInv

-----------------------------------------------------------------------------
(* apply and clear *)

LEMMA NoChains == [t \in Tables |-> Absent] \in [Tables -> Filled \cup {Absent}]
  OBVIOUS

LEMMA RulesOffStep == LiveInv /\ RulesOff => LiveInv'
  <1> SUFFICES ASSUME LiveInv, RulesOff PROVE LiveInv'
    OBVIOUS
  <1>1. /\ LiveTypeOK /\ ProcInv /\ ChainInv /\ SetInv /\ MapInv
        /\ p \in Proc /\ failed \in BOOLEAN
    BY DEF LiveInv, LiveTypeOK
  <1>2. /\ p.at = "rules_off" /\ p.op \in {"apply", "clear"}
        /\ UNCHANGED <<config, world, key, ipset, ebpf, failed>>
        /\ UNCHANGED <<maps, progs>>
        /\ chain' = [t \in Tables |-> Absent] /\ dirty' = TRUE
        /\ use' = "none" /\ held' = {}
    BY <1>1 DEF RulesOff, ProcInv, ebpf
  <1>3. /\ p' \in Proc /\ p'.at = "pins_off"
        /\ p'.op = p.op /\ p'.left = p.left /\ p'.torn = p.torn
    BY <1>1, ToFacts DEF RulesOff, Points
  <1>4. LiveTypeOK'
    BY <1>1, <1>2, <1>3, NoChains, ContentFacts DEF LiveTypeOK, config, world, ipset, ebpf
  <1>5. ProcInv'
    BY <1>1, <1>2, <1>3 DEF ProcInv, IpsetPoints, BpfPoints
  <1>6. ChainInv'
    BY <1>2, <1>3 DEF ChainInv
  <1>7. SetInv'
    BY <1>1, <1>2, <1>3, SetStays
  <1>8. MapInv'
    BY <1>1, <1>2, <1>3 DEF MapInv, Whole, Entries, Version
  <1> QED
    BY <1>4, <1>5, <1>6, <1>7, <1>8 DEF LiveInv

LEMMA PinsOffStep == LiveInv /\ PinsOff => LiveInv'
  <1> SUFFICES ASSUME LiveInv, PinsOff PROVE LiveInv'
    OBVIOUS
  <1>1. /\ LiveTypeOK /\ ProcInv /\ ChainInv /\ SetInv /\ MapInv
        /\ p \in Proc /\ failed \in BOOLEAN
    BY DEF LiveInv, LiveTypeOK
  <1>2. /\ p.at = "pins_off" /\ p.op \in {"apply", "clear"} /\ use = "none"
        /\ UNCHANGED <<config, world, locals, ipset, print>>
        /\ RemovePins /\ failed' \in BOOLEAN
        /\ p.op = "apply" => dirty
        /\ ~ p.torn
    BY <1>1 DEF PinsOff, ProcInv
  <1>3. /\ p' \in Proc /\ p'.at \in {"ok", "ipset", "start"}
        /\ p'.op = p.op /\ p'.left = p.left /\ p'.torn = p.torn
        /\ p'.at # "ok" => p'.op = "apply"
    <2>1. {"ok", "ipset", "start"} \subseteq Points
      BY DEF Points
    <2>2. PICK at \in {"ok", "ipset", "start"} :
             To(at) /\ (at # "ok" => p.op = "apply")
      BY <1>2 DEF PinsOff
    <2> QED
      BY <1>1, <2>1, <2>2, ToFacts
  <1>4. LiveTypeOK'
    BY <1>1, <1>2, <1>3, RemovePinsFacts DEF LiveTypeOK, config, world, locals, ipset
  <1>5. ProcInv'
    BY <1>1, <1>2, <1>3, RemovePinsFacts DEF ProcInv, IpsetPoints, BpfPoints, locals
  <1>6. ChainInv'
    BY <1>1, <1>2, <1>3, ChainStays
  <1>7. SetInv'
    BY <1>1, <1>2, <1>3, RemovePinsFacts, SetStays
  <1>8. MapInv'
    BY <1>1, <1>2, <1>3, RemovePinsFacts DEF MapInv
  <1> QED
    BY <1>4, <1>5, <1>6, <1>7, <1>8 DEF LiveInv

LEMMA TailFacts ==
    ASSUME NEW s \in Seq(Groups), s # <<>>
    PROVE  /\ Head(s) \in Groups /\ Tail(s) \in Seq(Groups)
           /\ Head(s) = s[1] /\ Len(Tail(s)) = Len(s) - 1
           /\ \A i \in 1 .. Len(s) - 1 : Tail(s)[i] = s[i + 1]
  OBVIOUS

LEMMA InstallGroupStep == LiveInv /\ InstallGroup => LiveInv'
  <1> SUFFICES ASSUME LiveInv, InstallGroup PROVE LiveInv'
    OBVIOUS
  <1>1. /\ LiveTypeOK /\ ProcInv /\ ChainInv /\ SetInv /\ MapInv
        /\ p \in Proc /\ failed \in BOOLEAN
    BY DEF LiveInv, LiveTypeOK
  <1>2. /\ p.at = "install" /\ p.op = "apply" /\ dirty /\ ~ p.torn
        /\ Asked # "nothing"
        /\ UNCHANGED <<config, world, key, dirty, ipset, ebpf, failed>>
        /\ UNCHANGED <<maps, progs, set>>
        /\ use' = Asked /\ held' = IF Asked = "owner" THEN Entries(p.took) ELSE {}
    BY <1>1 DEF InstallGroup, ProcInv, ebpf, ipset
  <1>3. /\ use' \in {"none", "set", "pin", "owner"}
        /\ use' = "set" => set # Absent
        /\ use' = "pin" => progs
    <2>1. kind \in Kinds
      BY <1>1, LiveAssumption DEF LiveTypeOK
    <2> QED
      BY <1>2, <2>1 DEF Asked, Kinds
  <1>4. PICK saw \in Addr \cup {"empty"} :
           /\ p' = [p EXCEPT !.saw = saw, !.left = Tail(p.left)]
           /\ \/ UNCHANGED chain
              \/ \E c \in Filled : chain' = [chain EXCEPT ![This] = c]
    <2>1. addr \in Addr /\ p.saw \in Addr \cup {"empty", "unread"}
      BY <1>1 DEF LiveTypeOK, Proc
    <2>2. PICK saw \in IF p.saw = "unread" THEN Addresses ELSE {p.saw} :
             /\ p' = [p EXCEPT !.saw = saw, !.left = Tail(p.left)]
             /\ IF This = "tun" THEN UNCHANGED chain
                ELSE chain' \in {[chain EXCEPT ![This] = c] :
                                    c \in {saw} \cup IF Faulty THEN {"torn"} ELSE {}}
      BY DEF InstallGroup
    <2>3. saw \in Addr \cup {"empty"}
      BY <2>1, <2>2 DEF Addresses
    <2>4. {saw} \cup (IF Faulty THEN {"torn"} ELSE {}) \subseteq Filled
      BY <2>3 DEF Filled
    <2> QED
      BY <2>2, <2>3, <2>4
  <1>5. /\ Tail(p.left) \in Seq(Groups) /\ Len(Tail(p.left)) <= 2
    <2>1. p.left \in Seq(Groups) /\ p.left # <<>> /\ Len(p.left) <= 2
      BY <1>1 DEF LiveTypeOK, Proc, InstallGroup
    <2> QED
      BY <2>1, TailFacts
  <1>6. /\ p' \in Proc /\ p'.at = "install" /\ p'.op = p.op /\ p'.torn = p.torn
        /\ p'.left = Tail(p.left)
    BY <1>1, <1>2, <1>4, <1>5 DEF Proc
  <1>7. chain' \in [Tables -> Filled \cup {Absent}]
    BY <1>1, <1>4 DEF LiveTypeOK
  <1>8. held' \in Content
    BY <1>1, <1>2, ContentFacts DEF Proc
  <1>9. LiveTypeOK'
    BY <1>1, <1>2, <1>3, <1>5, <1>6, <1>7, <1>8 DEF LiveTypeOK, config, world, ipset, ebpf
  <1>10. ProcInv'
    BY <1>1, <1>2, <1>6 DEF ProcInv, IpsetPoints, BpfPoints
  <1>11. ChainInv'
    BY <1>2, <1>6 DEF ChainInv
  <1>12. SetInv'
    BY <1>1, <1>2, <1>3, <1>6 DEF SetInv, Whole, Entries, Version
  <1>13. MapInv'
    BY <1>1, <1>2, <1>3, <1>6 DEF MapInv, Whole, Entries, Version
  <1> QED
    BY <1>9, <1>10, <1>11, <1>12, <1>13 DEF LiveInv

LEMMA InstallFailsStep == LiveInv /\ InstallFails => LiveInv'
  <1> SUFFICES ASSUME LiveInv, InstallFails PROVE LiveInv'
    OBVIOUS
  <1>1. /\ LiveTypeOK /\ ProcInv /\ ChainInv /\ SetInv /\ MapInv
        /\ p \in Proc /\ failed \in BOOLEAN
    BY DEF LiveInv, LiveTypeOK
  <1>2. /\ p.at = "install" /\ p.op = "apply" /\ dirty /\ ~ p.torn
        /\ UNCHANGED <<config, world, key, dirty, ipset, ebpf, failed>>
        /\ UNCHANGED <<maps, progs, set>>
        /\ \/ use' = "none" /\ held' = {} /\ chain' = [t \in Tables |-> Absent]
           \/ UNCHANGED <<use, held, chain>>
    BY <1>1 DEF InstallFails, ProcInv, ebpf, ipset
  <1>3. /\ p' \in Proc /\ p'.at = "err" /\ p'.op = p.op /\ p'.torn = p.torn
        /\ p'.left = p.left
    BY <1>1, ToFacts DEF InstallFails, Points
  <1>4. LiveTypeOK'
    BY <1>1, <1>2, <1>3, NoChains, ContentFacts DEF LiveTypeOK, config, world, ipset, ebpf
  <1>5. ProcInv'
    BY <1>1, <1>2, <1>3 DEF ProcInv, IpsetPoints, BpfPoints
  <1>6. ChainInv'
    BY <1>2, <1>3 DEF ChainInv
  <1>7. SetInv'
    BY <1>1, <1>2, <1>3, SetStays
  <1>8. MapInv'
    BY <1>1, <1>2, <1>3 DEF MapInv, Whole, Entries, Version
  <1> QED
    BY <1>4, <1>5, <1>6, <1>7, <1>8 DEF LiveInv

LEMMA InstalledStep == LiveInv /\ Installed => LiveInv'
  <1> SUFFICES ASSUME LiveInv, Installed PROVE LiveInv'
    OBVIOUS
  <1>1. /\ LiveTypeOK /\ ProcInv /\ ChainInv /\ SetInv /\ MapInv
        /\ p \in Proc /\ failed \in BOOLEAN
    BY DEF LiveInv, LiveTypeOK
  <1>2. /\ p.at = "install" /\ p.op = "apply" /\ dirty /\ ~ p.torn
        /\ UNCHANGED <<config, world, locals, ipset, ebpf, inForce>>
        /\ UNCHANGED <<maps, progs, use, failed>>
    BY <1>1 DEF Installed, ProcInv, ebpf, inForce
  <1>3. /\ p' \in Proc /\ p'.at \in {"ok", "err"} /\ p'.op = p.op /\ p'.torn = p.torn
        /\ p'.left = p.left
    BY <1>1, ToFacts DEF Installed, Points
  <1>4. LiveTypeOK'
    BY <1>1, <1>2, <1>3 DEF LiveTypeOK, config, world, locals, ipset, ebpf, inForce
  <1>5. ProcInv'
    BY <1>1, <1>2, <1>3 DEF ProcInv, IpsetPoints, BpfPoints, locals
  <1>6. ChainInv'
    BY <1>1, <1>2, <1>3, ChainStays
  <1>7. SetInv'
    BY <1>1, <1>2, <1>3, SetStays
  <1>8. MapInv'
    BY <1>1, <1>2, <1>3, MapStays
  <1> QED
    BY <1>4, <1>5, <1>6, <1>7, <1>8 DEF LiveInv

-----------------------------------------------------------------------------
(* refresh_local_ip_rules *)

LEMMA RefreshedFacts ==
    /\ Refreshed(mode) \in Seq(Groups) /\ Len(Refreshed(mode)) <= 2
    /\ \A t \in Tables : Needs(t, mode) =>
         \E i \in 1 .. Len(Refreshed(mode)) : Refreshed(mode)[i] = t
  <1>0. /\ <<"mangle", "nat">> \in Seq(Groups) /\ <<"mangle">> \in Seq(Groups)
        /\ <<"nat">> \in Seq(Groups) /\ <<>> \in Seq(Groups)
        /\ Tables = {"nat", "mangle"}
    BY DEF Groups, Tables
  <1>1. CASE Needs("mangle", mode) /\ Needs("nat", mode)
    <2> DEFINE r == <<"mangle">> \o <<"nat">>
    <2>1. Refreshed(mode) = r
      BY <1>1 DEF Refreshed
    <2>2. r \in Seq(Groups) /\ Len(r) = 2 /\ r[1] = "mangle" /\ r[2] = "nat"
      BY <1>0
    <2>3. 1 \in 1 .. Len(r) /\ 2 \in 1 .. Len(r)
      BY <2>2
    <2> HIDE DEF r
    <2> QED
      BY <1>0, <2>1, <2>2, <2>3
  <1>2. CASE Needs("mangle", mode) /\ ~ Needs("nat", mode)
    <2>1. Refreshed(mode) = <<"mangle">>
      BY <1>2 DEF Refreshed
    <2> QED
      BY <1>0, <1>2, <2>1
  <1>3. CASE ~ Needs("mangle", mode) /\ Needs("nat", mode)
    <2>1. Refreshed(mode) = <<"nat">>
      BY <1>3 DEF Refreshed
    <2> QED
      BY <1>0, <1>3, <2>1
  <1>4. CASE ~ Needs("mangle", mode) /\ ~ Needs("nat", mode)
    <2>1. Refreshed(mode) = <<>>
      BY <1>4 DEF Refreshed
    <2> QED
      BY <1>0, <1>4, <2>1
  <1> QED
    BY <1>1, <1>2, <1>3, <1>4

LEMMA ReadAddressesStep == LiveInv /\ ReadAddresses => LiveInv'
  <1> SUFFICES ASSUME LiveInv, ReadAddresses PROVE LiveInv'
    OBVIOUS
  <1>1. /\ LiveTypeOK /\ ProcInv /\ ChainInv /\ SetInv /\ MapInv
        /\ p \in Proc /\ failed \in BOOLEAN
    BY DEF LiveInv, LiveTypeOK
  <1>2. /\ p.at = "addresses" /\ p.op = "refresh" /\ p.left = Refreshed(mode)
        /\ UNCHANGED <<config, world, chain, key, ipset, ebpf, inForce>>
        /\ UNCHANGED <<mode, maps, progs, use, failed>>
    BY <1>1 DEF ReadAddresses, ProcInv, ChainInv, ebpf, inForce, config
  <1> DEFINE Good == /\ p' \in Proc /\ p'.at \in {"ok", "rebuild"} /\ p'.op = p.op
                     /\ p'.left = p.left /\ dirty' \in BOOLEAN
                     /\ ChainInv'
  <1>3. Good
    <2>1. CASE p.left = <<>> /\ To("ok") /\ UNCHANGED dirty
      <3>1. /\ p' \in Proc /\ p'.at = "ok" /\ p'.op = p.op /\ p'.left = p.left
            /\ p'.saw = p.saw
        BY <1>1, <2>1, ToFacts DEF Points
      <3>2. \A t \in Tables : ~ Needs(t, mode)
        BY <1>2, <2>1, RefreshedFacts
      <3>3. ChainInv'
        BY <1>1, <1>2, <2>1, <3>1, <3>2 DEF ChainInv, Needs
      <3> QED
        BY <1>1, <2>1, <3>1, <3>3 DEF LiveTypeOK
    <2>2. CASE \E saw \in Addresses :
                 /\ p' = [p EXCEPT !.saw = saw, !.at = IF key = saw THEN "ok" ELSE "rebuild"]
                 /\ dirty' = (dirty \/ key # saw)
      <3>1. PICK saw \in Addresses :
                 /\ p' = [p EXCEPT !.saw = saw, !.at = IF key = saw THEN "ok" ELSE "rebuild"]
                 /\ dirty' = (dirty \/ key # saw)
        BY <2>2
      <3>2. saw \in Addr \cup {"empty"} /\ saw # "unread"
        BY <1>1, LiveAssumption DEF LiveTypeOK, Addresses
      <3>3. CASE key = saw
        <4>1. /\ p' \in Proc /\ p'.at = "ok" /\ p'.op = p.op /\ p'.left = p.left
              /\ p'.saw = saw
          BY <1>1, <3>1, <3>2, <3>3 DEF Points, Proc
        <4>2. dirty' = dirty
          BY <1>1, <3>1, <3>3 DEF LiveTypeOK
        <4>3. ChainInv'
          BY <1>1, <1>2, <3>3, <4>1, <4>2 DEF ChainInv, Needs
        <4> QED
          BY <1>1, <4>1, <4>2, <4>3 DEF LiveTypeOK
      <3>4. CASE key # saw
        <4>1. /\ p' \in Proc /\ p'.at = "rebuild" /\ p'.op = p.op /\ p'.left = p.left
              /\ p'.saw = saw
          BY <1>1, <3>1, <3>2, <3>4 DEF Points, Proc
        <4>2. dirty' = TRUE
          BY <3>1, <3>4
        <4>3. \A t \in Tables : Needs(t, mode) => ~ Done(t)'
          BY <1>2, <4>1, RefreshedFacts DEF Done
        <4>4. ChainInv'
          BY <1>2, <3>2, <4>1, <4>2, <4>3 DEF ChainInv, Needs
        <4> QED
          BY <4>1, <4>2, <4>4
      <3> QED
        BY <3>3, <3>4
    <2> QED
      BY <2>1, <2>2 DEF ReadAddresses
  <1>4. LiveTypeOK'
    BY <1>1, <1>2, <1>3 DEF LiveTypeOK, config, world, ipset, ebpf, inForce
  <1>5. ProcInv'
    BY <1>1, <1>2, <1>3 DEF ProcInv, IpsetPoints, BpfPoints
  <1>6. SetInv'
    BY <1>1, <1>2, <1>3, SetStays
  <1>7. MapInv'
    BY <1>1, <1>2, <1>3, MapStays
  <1> QED
    BY <1>3, <1>4, <1>5, <1>6, <1>7 DEF LiveInv

LEMMA RebuildChainStep == LiveInv /\ RebuildChain => LiveInv'
  <1> SUFFICES ASSUME LiveInv, RebuildChain PROVE LiveInv'
    OBVIOUS
  <1>1. /\ LiveTypeOK /\ ProcInv /\ ChainInv /\ SetInv /\ MapInv
        /\ p \in Proc /\ failed \in BOOLEAN
    BY DEF LiveInv, LiveTypeOK
  <1>2. /\ p.at = "rebuild" /\ p.op = "refresh" /\ p.left # <<>> /\ dirty
        /\ UNCHANGED <<config, world, key, dirty, ipset, ebpf, inForce>>
        /\ UNCHANGED <<mode, maps, progs, use, failed>>
        /\ p.saw \in Addr \cup {"empty"}
        /\ p.left \in Seq(Groups) /\ Len(p.left) <= 2
    BY <1>1 DEF RebuildChain, ProcInv, ChainInv, ebpf, inForce, config, LiveTypeOK, Proc
  <1>3. /\ This \in Groups /\ Tail(p.left) \in Seq(Groups) /\ Len(Tail(p.left)) <= 2
        /\ This = p.left[1] /\ Len(Tail(p.left)) = Len(p.left) - 1
        /\ \A i \in 1 .. Len(p.left) - 1 : Tail(p.left)[i] = p.left[i + 1]
        /\ Len(p.left) \in Nat \ {0}
    <2>1. Len(p.left) \in Nat \ {0} /\ Len(p.left) - 1 <= 2
      BY <1>2
    <2> QED
      BY <1>2, <2>1, TailFacts DEF This
  <1> DEFINE Good == /\ p' \in Proc /\ p'.at \in {"rebuild", "err"} /\ p'.op = p.op
                     /\ Len(p'.left) <= 2
                     /\ chain' \in [Tables -> Filled \cup {Absent}]
                     /\ ChainInv'
  <1>4. \A c \in Filled : [chain EXCEPT ![This] = c] \in [Tables -> Filled \cup {Absent}]
    BY <1>1 DEF LiveTypeOK
  <1>5. p.saw \in Filled /\ "torn" \in Filled
    BY <1>2 DEF Filled
  <1>6. Good
    <2>1. CASE chain' = [chain EXCEPT ![This] = p.saw] /\ p' = [p EXCEPT !.left = Tail(p.left)]
      <3>1. /\ p' \in Proc /\ p'.at = "rebuild" /\ p'.op = p.op /\ p'.left = Tail(p.left)
            /\ p'.saw = p.saw /\ p'.torn = p.torn
        BY <1>1, <1>2, <1>3, <2>1 DEF Proc
      <3>2. ASSUME NEW t \in Tables, Done(t)', t # This PROVE Done(t)
        <4>1. ASSUME NEW i \in 1 .. Len(p.left) PROVE p.left[i] # t
          <5>1. CASE i = 1
            BY <1>3, <3>2, <5>1
          <5>2. CASE i # 1
            <6>1. i - 1 \in 1 .. Len(p.left) - 1 /\ (i - 1) + 1 = i
              BY <1>3, <5>2
            <6>2. Tail(p.left)[i - 1] = p.left[i]
              BY <1>3, <6>1
            <6>3. i - 1 \in 1 .. Len(p'.left)
              BY <1>3, <3>1, <6>1
            <6> QED
              BY <3>1, <3>2, <6>2, <6>3 DEF Done
          <5> QED
            BY <5>1, <5>2
        <4> QED
          BY <4>1 DEF Done
      <3>3. chain \in [Tables -> Filled \cup {Absent}]
        BY <1>1 DEF LiveTypeOK
      <3>4. ASSUME ~ p'.torn, NEW t \in Tables, Needs(t, mode), Done(t)'
            PROVE  chain'[t] = p'.saw
        <4>1. CASE t = This
          BY <2>1, <3>1, <3>3, <4>1
        <4>2. CASE t # This
          <5>1. chain[t] = p.saw
            BY <1>1, <1>2, <3>1, <3>2, <3>4, <4>2 DEF ChainInv
          <5> QED
            BY <2>1, <3>1, <3>3, <4>2, <5>1
        <4> QED
          BY <4>1, <4>2
      <3>5. ChainInv'
        BY <1>1, <1>2, <3>1, <3>4 DEF ChainInv, Needs
      <3> QED
        BY <1>3, <1>4, <1>5, <2>1, <3>1, <3>5
    <2>2. CASE /\ chain' = [chain EXCEPT ![This] = "torn"]
               /\ p' = [p EXCEPT !.left = Tail(p.left), !.torn = TRUE]
      <3>1. /\ p' \in Proc /\ p'.at = "rebuild" /\ p'.op = p.op /\ p'.left = Tail(p.left)
            /\ p'.saw = p.saw /\ p'.torn = TRUE
        BY <1>1, <1>2, <1>3, <2>2 DEF Proc
      <3>2. ChainInv'
        BY <1>1, <1>2, <3>1 DEF ChainInv
      <3> QED
        BY <1>3, <1>4, <1>5, <2>2, <3>1, <3>2
    <2>3. CASE chain' \in {chain, [chain EXCEPT ![This] = "torn"]} /\ To("err")
      <3>1. /\ p' \in Proc /\ p'.at = "err" /\ p'.op = p.op /\ p'.left = p.left
        BY <1>1, <2>3, ToFacts DEF Points
      <3>2. ChainInv'
        BY <1>2, <3>1 DEF ChainInv
      <3> QED
        BY <1>1, <1>2, <1>4, <1>5, <2>3, <3>1, <3>2 DEF LiveTypeOK
    <2> QED
      BY <2>1, <2>2, <2>3 DEF RebuildChain
  <1>7. LiveTypeOK'
    BY <1>1, <1>2, <1>6 DEF LiveTypeOK, config, world, ipset, ebpf, inForce
  <1>8. ProcInv'
    BY <1>1, <1>2, <1>6 DEF ProcInv, IpsetPoints, BpfPoints
  <1>9. SetInv'
    BY <1>1, <1>2, <1>6, SetStays
  <1>10. MapInv'
    BY <1>1, <1>2, <1>6, MapStays
  <1> QED
    BY <1>6, <1>7, <1>8, <1>9, <1>10 DEF LiveInv

LEMMA SaveKeyStep == LiveInv /\ SaveKey => LiveInv'
  <1> SUFFICES ASSUME LiveInv, SaveKey PROVE LiveInv'
    OBVIOUS
  <1>1. /\ LiveTypeOK /\ ProcInv /\ ChainInv /\ SetInv /\ MapInv
        /\ p \in Proc /\ failed \in BOOLEAN
    BY DEF LiveInv, LiveTypeOK
  <1>2. /\ p.at = "rebuild" /\ p.op = "refresh" /\ p.left = <<>> /\ dirty
        /\ UNCHANGED <<config, world, chain, ipset, ebpf, inForce>>
        /\ UNCHANGED <<mode, maps, progs, use, failed>>
        /\ p.saw \in Addr \cup {"empty"}
        /\ \A t \in Tables : Done(t)
    BY <1>1 DEF SaveKey, ProcInv, ChainInv, ebpf, inForce, config, LiveTypeOK, Proc, Done
  <1> DEFINE Good == /\ p' \in Proc /\ p'.at \in {"ok", "err"} /\ p'.op = p.op
                     /\ p'.left = p.left
                     /\ key' \in Addr \cup {"empty", Absent} /\ dirty' \in BOOLEAN
                     /\ ChainInv'
  <1>3. Good
    <2>1. CASE key' = p.saw /\ dirty' = p.torn /\ To("ok")
      <3>1. /\ p' \in Proc /\ p'.at = "ok" /\ p'.op = p.op /\ p'.left = p.left
            /\ p'.saw = p.saw
        BY <1>1, <2>1, ToFacts DEF Points
      <3>2. ~ p.torn => \A t \in Tables : Needs(t, mode) => chain[t] = p.saw
        BY <1>1, <1>2 DEF ChainInv
      <3>3. ChainInv'
        BY <1>2, <2>1, <3>1, <3>2 DEF ChainInv, Needs
      <3>4. p.torn \in BOOLEAN
        BY <1>1 DEF Proc
      <3> QED
        BY <1>2, <2>1, <3>1, <3>3, <3>4
    <2>2. CASE key' \in {key, p.saw} /\ To("err") /\ UNCHANGED dirty
      <3>1. /\ p' \in Proc /\ p'.at = "err" /\ p'.op = p.op /\ p'.left = p.left
        BY <1>1, <2>2, ToFacts DEF Points
      <3>2. ChainInv'
        BY <1>2, <2>2, <3>1 DEF ChainInv
      <3> QED
        BY <1>1, <1>2, <2>2, <3>1, <3>2 DEF LiveTypeOK
    <2> QED
      BY <2>1, <2>2 DEF SaveKey
  <1>4. LiveTypeOK'
    BY <1>1, <1>2, <1>3 DEF LiveTypeOK, config, world, ipset, ebpf, inForce
  <1>5. ProcInv'
    BY <1>1, <1>2, <1>3 DEF ProcInv, IpsetPoints, BpfPoints
  <1>6. SetInv'
    BY <1>1, <1>2, <1>3, SetStays
  <1>7. MapInv'
    BY <1>1, <1>2, <1>3, MapStays
  <1> QED
    BY <1>3, <1>4, <1>5, <1>6, <1>7 DEF LiveInv

-----------------------------------------------------------------------------
(* Commands and the world around them *)

LEMMA IdleFacts ==
    /\ Idle \in Proc /\ Len(Idle.left) <= 2
    /\ Idle.op = "none" /\ Idle.at = "idle" /\ Idle.torn = FALSE
  BY DEF Idle, Proc, Points

LEMMA GroupsOfFacts ==
    LiveTypeOK => GroupsOf(mode) \in Seq(Groups) /\ Len(GroupsOf(mode)) <= 2
  <1> SUFFICES ASSUME LiveTypeOK
               PROVE  GroupsOf(mode) \in Seq(Groups) /\ Len(GroupsOf(mode)) <= 2
    OBVIOUS
  <1>1. mode \in Modes
    BY LiveAssumption DEF LiveTypeOK
  <1>2. PICK s \in {<<"nat">>, <<"mangle">>, <<"nat", "mangle">>, <<"tun">>} :
           GroupsOf(mode) = s
    BY <1>1 DEF Modes, GroupsOf
  <1>3. s \in Seq(Groups) /\ Len(s) <= 2
    <2>1. CASE s = <<"nat", "mangle">>
      BY <2>1 DEF Groups
    <2>2. CASE s = <<"nat">> \/ s = <<"mangle">> \/ s = <<"tun">>
      BY <2>2 DEF Groups
    <2> QED
      BY <2>1, <2>2
  <1> QED
    BY <1>2, <1>3

LEMMA CallStep ==
    ASSUME NEW op \in {"apply", "clear", "refresh", "reload"}
    PROVE  LiveInv /\ Call(op) => LiveInv'
  <1> SUFFICES ASSUME LiveInv, Call(op) PROVE LiveInv'
    OBVIOUS
  <1>1. /\ LiveTypeOK /\ ProcInv /\ ChainInv /\ SetInv /\ MapInv
        /\ p \in Proc /\ failed \in BOOLEAN
    BY DEF LiveInv, LiveTypeOK
  <1>2. /\ p.at = "idle"
        /\ UNCHANGED <<config, world, locals, ipset, ebpf, inForce>>
        /\ UNCHANGED <<mode, maps, progs, use, failed>>
    BY DEF Call, ebpf, inForce, config
  <1>3. PICK took \in Version \cup {NoFile}, during \in SUBSET (Version \cup {NoFile}),
             at \in Points, left \in Seq(Groups) :
           /\ p' = [Idle EXCEPT !.op = op, !.took = took, !.during = during,
                                !.at = at, !.left = left]
           /\ Len(left) <= 2
           /\ op = "refresh" => left = Refreshed(mode) /\ at = "addresses"
           /\ op \in {"apply", "clear"} => at = "rules_off"
           /\ op = "reload" => at \in {"ipset", "start"}
    <2>1. list \in Version \cup {NoFile}
      BY <1>1 DEF LiveTypeOK
    <2>2. {"rules_off", "addresses", "ipset", "start"} \subseteq Points
      BY DEF Points
    <2> DEFINE took == IF op \in {"apply", "reload"} THEN list ELSE NoFile
               during == IF op \in {"apply", "reload"} THEN {list} ELSE {}
               at == CASE op \in {"apply", "clear"} -> "rules_off"
                       [] op = "refresh" -> "addresses"
                       [] op = "reload"  -> IF kind = "ipset" THEN "ipset" ELSE "start"
               left == IF op = "refresh" THEN Refreshed(mode) ELSE GroupsOf(mode)
    <2>3. took \in Version \cup {NoFile} /\ during \in SUBSET (Version \cup {NoFile})
      BY <2>1
    <2>4. /\ op = "refresh" => at = "addresses"
          /\ op \in {"apply", "clear"} => at = "rules_off"
          /\ op = "reload" => at \in {"ipset", "start"}
      OBVIOUS
    <2>5. at \in Points
      BY <2>2, <2>4
    <2>6. left \in Seq(Groups) /\ Len(left) <= 2
      BY <1>1, RefreshedFacts, GroupsOfFacts
    <2>7. op = "refresh" => left = Refreshed(mode)
      OBVIOUS
    <2>8. p' = [Idle EXCEPT !.op = op, !.took = took, !.during = during,
                            !.at = at, !.left = left]
      BY DEF Call
    <2> HIDE DEF took, during, at, left
    <2> QED
      BY <2>3, <2>4, <2>5, <2>6, <2>7, <2>8
  <1>4. /\ p' \in Proc /\ p'.op = op /\ p'.at = at /\ p'.left = left
        /\ p'.torn = FALSE
    BY <1>3, IdleFacts DEF Proc
  <1>5. LiveTypeOK'
    BY <1>1, <1>2, <1>3, <1>4 DEF LiveTypeOK, config, world, locals, ipset, ebpf, inForce
  <1>6. ProcInv'
    BY <1>1, <1>2, <1>3, <1>4 DEF ProcInv, IpsetPoints, BpfPoints, locals
  <1>7. ChainInv'
    <2>1. UNCHANGED <<chain, key, dirty, mode>>
      BY <1>2 DEF locals
    <2>2. p'.at = "addresses" => p'.left = Refreshed(mode)
      BY <1>3, <1>4
    <2>3. p'.at \notin {"rebuild", "ok"}
      BY <1>3, <1>4
    <2> QED
      BY <1>1, <2>1, <2>2, <2>3 DEF ChainInv, Needs, Refreshed
  <1>8. SetInv'
    BY <1>1, <1>2, <1>3, <1>4, SetStays
  <1>9. MapInv'
    BY <1>1, <1>2, <1>3, <1>4, MapStays
  <1> QED
    BY <1>5, <1>6, <1>7, <1>8, <1>9 DEF LiveInv

LEMMA AnswerStep == LiveInv /\ Answer => LiveInv'
  <1> SUFFICES ASSUME LiveInv, Answer PROVE LiveInv'
    OBVIOUS
  <1>1. /\ LiveTypeOK /\ ProcInv /\ ChainInv /\ SetInv /\ MapInv
        /\ p \in Proc /\ failed \in BOOLEAN
    BY DEF LiveInv, LiveTypeOK
  <1>2. /\ p.at \in {"ok", "err"} /\ p' = Idle
        /\ UNCHANGED <<config, world, locals, ipset, ebpf, inForce>>
        /\ UNCHANGED <<maps, progs, use, failed>>
    BY DEF Answer, ebpf, inForce
  <1>3. LiveTypeOK'
    BY <1>1, <1>2, IdleFacts DEF LiveTypeOK, config, world, locals, ipset, ebpf, inForce
  <1>4. ProcInv'
    BY <1>2, IdleFacts DEF ProcInv, IpsetPoints, BpfPoints
  <1>5. ChainInv'
    BY <1>1, <1>2, IdleFacts DEF ChainInv, Needs, locals, config
  <1>6. SetInv'
    BY <1>1, <1>2, IdleFacts, SetStays
  <1>7. MapInv'
    BY <1>1, <1>2, IdleFacts, MapStays
  <1> QED
    BY <1>3, <1>4, <1>5, <1>6, <1>7 DEF LiveInv

LEMMA KilledStep == LiveInv /\ Killed => LiveInv'
  <1> SUFFICES ASSUME LiveInv, Killed PROVE LiveInv'
    OBVIOUS
  <1>1. /\ LiveTypeOK /\ ProcInv /\ ChainInv /\ SetInv /\ MapInv
        /\ p \in Proc /\ failed \in BOOLEAN
    BY DEF LiveInv, LiveTypeOK
  <1>2. /\ p' = Idle /\ failed' = TRUE
        /\ UNCHANGED <<config, world, locals, ipset, ebpf, use, held>>
        /\ UNCHANGED <<maps, progs, use>>
    BY DEF Killed, ebpf
  <1>3. LiveTypeOK'
    BY <1>1, <1>2, IdleFacts DEF LiveTypeOK, config, world, locals, ipset, ebpf
  <1>4. ProcInv'
    BY <1>2, IdleFacts DEF ProcInv, IpsetPoints, BpfPoints
  <1>5. ChainInv'
    BY <1>1, <1>2, IdleFacts DEF ChainInv, Needs, locals, config
  <1>6. SetInv'
    BY <1>1, <1>2, IdleFacts, SetStays
  <1>7. MapInv'
    BY <1>1, <1>2, IdleFacts DEF MapInv
  <1> QED
    BY <1>3, <1>4, <1>5, <1>6, <1>7 DEF LiveInv

LEMMA RebootStep == LiveInv /\ Reboot => LiveInv'
  <1> SUFFICES ASSUME LiveInv, Reboot PROVE LiveInv'
    OBVIOUS
  <1>1. /\ LiveTypeOK /\ ProcInv /\ ChainInv /\ SetInv /\ MapInv
        /\ p \in Proc /\ failed \in BOOLEAN
    BY DEF LiveInv, LiveTypeOK
  <1>2. /\ p' = Idle
        /\ chain' = [t \in Tables |-> Absent] /\ dirty' = TRUE
        /\ set' = Absent /\ tmp' = Absent /\ maps' = Absent /\ progs' = FALSE
        /\ use' = "none" /\ held' = {}
        /\ UNCHANGED <<config, world, key, stamp, raced, print, failed>>
    BY DEF Reboot
  <1>3. LiveTypeOK'
    BY <1>1, <1>2, IdleFacts, NoChains, ContentFacts DEF LiveTypeOK, config, world
  <1>4. ProcInv'
    BY <1>2, IdleFacts DEF ProcInv, IpsetPoints, BpfPoints
  <1>5. ChainInv'
    BY <1>2, IdleFacts DEF ChainInv
  <1>6. SetInv'
    BY <1>2, IdleFacts DEF SetInv
  <1>7. MapInv'
    BY <1>2, IdleFacts DEF MapInv
  <1> QED
    BY <1>3, <1>4, <1>5, <1>6, <1>7 DEF LiveInv

\* Nothing depends on the addresses but what a refresh or an apply reads next.
LEMMA MoveStep == LiveInv /\ Move => LiveInv'
  <1> SUFFICES ASSUME LiveInv, Move PROVE LiveInv'
    OBVIOUS
  <1>1. /\ LiveTypeOK /\ ProcInv /\ ChainInv /\ SetInv /\ MapInv
        /\ p \in Proc /\ failed \in BOOLEAN
    BY DEF LiveInv, LiveTypeOK
  <1>2. /\ UNCHANGED <<mode, kind, list, chain, key, dirty, set, tmp, stamp, raced,
                        maps, progs, print, use, held, failed, p>>
        /\ addr' \in Addr
    BY DEF Move, config, locals, ipset, ebpf, inForce
  <1>3. LiveTypeOK'
    BY <1>1, <1>2 DEF LiveTypeOK
  <1>4. ProcInv'
    BY <1>1, <1>2 DEF ProcInv
  <1>5. ChainInv'
    BY <1>1, <1>2 DEF ChainInv, Needs, Done, Refreshed
  <1>6. SetInv'
    BY <1>1, <1>2 DEF SetInv, Whole, Entries, Half, Version
  <1>7. MapInv'
    BY <1>1, <1>2 DEF MapInv, Whole, Entries, Half, Version
  <1> QED
    BY <1>3, <1>4, <1>5, <1>6, <1>7 DEF LiveInv

LEMMA ReplaceListStep == LiveInv /\ ReplaceList => LiveInv'
  <1> SUFFICES ASSUME LiveInv, ReplaceList PROVE LiveInv'
    OBVIOUS
  <1>1. /\ LiveTypeOK /\ ProcInv /\ ChainInv /\ SetInv /\ MapInv
        /\ p \in Proc /\ failed \in BOOLEAN
    BY DEF LiveInv, LiveTypeOK
  <1>2. /\ UNCHANGED <<mode, kind, addr, chain, key, dirty, set, tmp, stamp, raced,
                        maps, progs, print, use, held, failed>>
        /\ list' \in Version
    BY DEF ReplaceList, config, locals, ipset, ebpf, inForce
  <1>3. /\ p' \in Proc /\ p'.at = p.at /\ p'.op = p.op /\ p'.left = p.left
        /\ p'.torn = p.torn /\ p'.saw = p.saw /\ p'.took = p.took /\ p'.read = p.read
    <2>1. p.during \cup {list'} \in SUBSET (Version \cup {NoFile})
      BY <1>1, <1>2 DEF Proc
    <2>2. p' = p \/ p' = [p EXCEPT !.during = p.during \cup {list'}]
      BY DEF ReplaceList
    <2> QED
      BY <1>1, <2>1, <2>2 DEF Proc
  <1>4. LiveTypeOK'
    BY <1>1, <1>2, <1>3 DEF LiveTypeOK
  <1>5. ProcInv'
    BY <1>1, <1>2, <1>3 DEF ProcInv
  <1>6. ChainInv'
    BY <1>1, <1>2, <1>3 DEF ChainInv, Needs, Done, Refreshed
  <1>7. SetInv'
    BY <1>1, <1>2, <1>3 DEF SetInv, Whole, Entries, Half, Version
  <1>8. MapInv'
    BY <1>1, <1>2, <1>3 DEF MapInv, Whole, Entries, Half, Version
  <1> QED
    BY <1>4, <1>5, <1>6, <1>7, <1>8 DEF LiveInv

LEMMA LiveStutter == LiveInv /\ UNCHANGED liveVars => LiveInv'
  <1> SUFFICES ASSUME LiveInv, UNCHANGED liveVars PROVE LiveInv'
    OBVIOUS
  <1>1. UNCHANGED <<mode, kind, addr, list, chain, key, dirty, set, tmp, stamp, raced,
                    maps, progs, print, use, held, failed, p>>
    BY DEF liveVars, config, world, locals, ipset, ebpf, inForce
  <1>2. LiveTypeOK'
    BY <1>1 DEF LiveInv, LiveTypeOK
  <1>3. ProcInv'
    BY <1>1 DEF LiveInv, ProcInv
  <1>4. ChainInv'
    BY <1>1 DEF LiveInv, ChainInv, Needs, Done, Refreshed
  <1>5. SetInv' /\ MapInv'
    BY <1>1 DEF LiveInv, SetInv, MapInv, Whole, Entries, Half, Version
  <1> QED
    BY <1>2, <1>3, <1>4, <1>5 DEF LiveInv

-----------------------------------------------------------------------------
(* The theorems *)

LEMMA LiveInitInv == LiveInit => LiveInv
  <1> SUFFICES ASSUME LiveInit PROVE LiveInv
    OBVIOUS
  <1>1. LiveTypeOK
    <2>1. <<mode, kind>> \in Setup
      <3>1. PICK setup \in Setup : mode = setup[1] /\ kind = setup[2]
        BY DEF LiveInit
      <3>2. setup = <<mode, kind>>
        BY <3>1, LiveAssumption
      <3> QED
        BY <3>2
    <2>2. list \in Version \cup {NoFile} /\ NoFile \in Version \cup {NoFile}
      BY DEF LiveInit
    <2> QED
      BY <2>1, <2>2, IdleFacts, NoChains, ContentFacts DEF LiveInit, LiveTypeOK
  <1>2. ProcInv
    BY IdleFacts DEF LiveInit, ProcInv, IpsetPoints, BpfPoints
  <1>3. ChainInv
    BY IdleFacts DEF LiveInit, ChainInv
  <1>4. SetInv /\ MapInv
    BY IdleFacts DEF LiveInit, SetInv, MapInv
  <1> QED
    BY <1>1, <1>2, <1>3, <1>4 DEF LiveInv

LEMMA LiveNextInv == LiveInv /\ [LiveNext]_liveVars => LiveInv'
  <1> SUFFICES ASSUME LiveInv, [LiveNext]_liveVars PROVE LiveInv'
    OBVIOUS
  <1>1. CASE LiveStep
    BY <1>1, CheckIpsetStep, FlushIpsetStep, AddToIpsetStep, SwapIpsetStep, StampIpsetStep,
       StartMatcherStep, NoMatcherStep, BpfApplyStep, BpfUpdateStep, SavePrintStep,
       RulesOffStep, PinsOffStep, InstallGroupStep, InstallFailsStep, InstalledStep,
       ReadAddressesStep, RebuildChainStep, SaveKeyStep DEF LiveStep
  <1>2. CASE \E op \in {"apply", "clear", "refresh", "reload"} : Call(op)
    BY <1>2, CallStep
  <1>3. CASE Answer \/ Killed \/ Reboot \/ Move \/ ReplaceList
    BY <1>3, AnswerStep, KilledStep, RebootStep, MoveStep, ReplaceListStep
  <1>4. CASE UNCHANGED liveVars
    BY <1>4, LiveStutter
  <1> QED
    BY <1>1, <1>2, <1>3, <1>4 DEF LiveNext

THEOREM LiveInductive == LiveSpec => []LiveInv
  BY LiveInitInv, LiveNextInv, PTL DEF LiveSpec

\* Sets, maps and chains hold what their types say, and a process is at a point
\* of its command.
THEOREM LiveRulesTyped == LiveSpec => []LiveTypeOK
  <1>1. LiveInv => LiveTypeOK
    BY DEF LiveInv
  <1> QED
    BY <1>1, LiveInductive, PTL

\* A refresh that trusts its key is right to, unless the chains were touched
\* since the key was saved; one that rebuilds leaves no chain of the mode out.
THEOREM RefreshIsCurrent == LiveSpec => []RefreshOkMeansCurrent
  <1>1. LiveInv => RefreshOkMeansCurrent
    BY DEF LiveInv, ChainInv, RefreshOkMeansCurrent
  <1> QED
    BY <1>1, LiveInductive, PTL

\* Wherever a restore, an update or an apply is killed, rules that ask an ipset
\* find one version of the list; those that ask the pinned maps do too while no
\* update is under way and none has failed.
THEOREM ListsAreWhole == LiveSpec => []WholeLists
  <1>1. ASSUME LiveInv PROVE WholeLists
    <2>1. use = "set" => Whole(set)
      BY <1>1 DEF LiveInv, SetInv
    <2>2. use = "pin" => Whole(Seen) \/ failed \/ p.at \in {"refill", "refilled"}
      <3>1. use = "pin" => Seen = maps
        BY DEF Seen
      <3> QED
        BY <1>1, <3>1 DEF LiveInv, MapInv
    <2>3. use = "frozen" => failed
      BY <1>1 DEF LiveInv, MapInv
    <2> QED
      BY <2>1, <2>2, <2>3 DEF WholeLists
  <1> QED
    BY <1>1, LiveInductive, PTL

-----------------------------------------------------------------------------
(* What stamp and fingerprint may be trusted with *)

\* Some version the command has seen, not older than v, is what content holds.
Since(v, content) ==
    \E u \in p.during \cap Version : v <= u /\ u <= list /\ content = Entries(u)

\* Each kind of matcher keeps to its own sets, points and uses; a reload updates, and
\* what a command has read is among what it has seen.
KindInv ==
    /\ kind = "ipset" => /\ maps = Absent /\ ~ progs
                         /\ use \in {"none", "set"} /\ p.at \notin BpfPoints
    /\ kind # "ipset" => use # "set" /\ p.at \notin IpsetPoints
    /\ kind = "cnip" => use # "owner"
    /\ p.at \in {"update", "refill", "refilled"} => p.op = "reload"
    /\ p.op \in {"apply", "reload"} => list \in p.during /\ p.took \in p.during
    /\ p.took \in Version \/ use \in {"pin", "frozen", "owner"} => list \in Version

\* The stamp is of a list not newer than what the set holds, unless raced.
IpsetInv ==
    /\ stamp <= list
    /\ ~ raced /\ set \notin {Absent, {}} =>
         \E u \in Version : set = Entries(u) /\ stamp <= u /\ u <= list
    /\ p.at \in IpsetPoints \ {"ipset"} =>
         p.took \in Version /\ stamp <= p.took /\ p.took <= list
    /\ p.at \in {"destroy", "stamp"} => set = Entries(p.took)
    /\ p.at \in {"install", "ok"} /\ p.op \in {"apply", "reload"} /\ ~ raced =>
         set = Absent \/ \E v \in p.during : set = Entries(v)

\* The fingerprint is of a list not newer than what the maps hold that the rules ask,
\* unless it is older than the list itself, and then the next reload reads again.
CnipInv ==
    /\ print <= list
    /\ use = "pin" => \/ print < list
                      \/ \E u \in Version :
                           print <= u /\ u <= list /\ maps = Entries(u)
    /\ p.at \in BpfPoints \ {"start"} => p.took \in Version /\ p.took <= list
    /\ p.at \in {"update", "refill", "refilled"} => print < list
    /\ p.at = "refilled" =>
         p.read \in p.during \cap Version /\ p.took <= p.read /\ p.read <= list
    /\ p.at \in {"programs", "save_print"} => Since(p.took, maps)
    /\ p.at = "save_print" /\ use = "pin" => print < list
    /\ p.at = "install" => Since(print, maps) /\ use \in {"none", "pin"}
    /\ p.at = "ok" /\ p.op = "apply" =>
         use \in {"none", "pin"} /\ \E v \in p.during : maps = Entries(v)
    /\ p.at = "ok" /\ p.op = "reload" /\ use = "pin" =>
         \E v \in p.during : maps = Entries(v)

\* What holds for uids, which may be chosen again: if nothing failed since the last
\* apply, the maps that the rules ask hold what the fingerprint names.
AppInv ==
    /\ p.at \in BpfPoints \ {"start"} => p.took \in Version
    /\ p.at \in {"create", "programs"} => ~ progs
    /\ p.op = "apply" /\ p.at \in {"start", "apply"} => ~ progs
    /\ p.at = "refilled" => p.read = p.took
    /\ p.at = "programs" => maps = Entries(p.took)
    /\ p.at = "save_print" /\ ((progs /\ p.op = "apply") \/ ~ failed) =>
         maps = Entries(p.took)
    /\ p.at = "install" /\ progs =>
         maps = Entries(p.took) /\ (~ failed => print = p.took)
    /\ ~ failed /\ use = "pin" /\ p.at \notin {"refill", "refilled", "save_print"} =>
         maps = Entries(print)
    /\ p.op = "apply" /\ p.at \in {"install", "ok"} =>
         /\ use = "pin" => maps = Entries(p.took)
         /\ use = "owner" => held = Entries(p.took)
         /\ use # "frozen"
    /\ p.op = "reload" /\ p.at = "ok" /\ ~ failed /\ use = "pin" =>
         maps = Entries(p.took)
    /\ ~ failed /\ maps # Absent /\ p.at # "programs" => progs
    /\ p.at = "install" /\ p.took # NoFile => progs \/ failed
    /\ use = "owner" => failed
    /\ p.op = "reload" /\ use = "pin" => p.took \in Version

ForceInv ==
    /\ LiveInv /\ KindInv
    /\ kind = "ipset" => IpsetInv
    /\ kind = "cnip" => CnipInv
    /\ kind = "app" => AppInv

-----------------------------------------------------------------------------

\* The command goes on with what it has.
Stays == /\ p'.op = p.op /\ p'.took = p.took
         /\ p'.read = p.read /\ p'.during = p.during

\* Versions are numbered from 1; NoFile comes before them.
LEMMA VersionFacts ==
    /\ NoFile = 0 /\ Entries(NoFile) = {}
    /\ \A v \in Version \cup {NoFile} : v \in Nat /\ (v >= 1 => v \in Version)
    /\ \A v \in Version : v >= 1 /\ Entries(v) \notin {Absent, {}}
  <1>1. ASSUME NEW v \in Version PROVE Entries(v) \in Content /\ Entries(v) # {}
    <2>1. Entries(v) = {<<v, 1>>, <<v, 2>>} /\ Entries(v) \in Content
      BY ContentFacts
    <2> QED
      BY <2>1
  <1>2. \A v \in Version : Entries(v) # Absent
    BY <1>1, ContentFacts
  <1>3. NoFile = 0 /\ \A v \in Version : v \in Nat /\ v >= 1
    BY LiveAssumption DEF Version, NoFile
  <1> QED
    BY <1>1, <1>2, <1>3, ContentFacts

\* What the invariant offers, kind by kind.
ForceParts ==
    /\ LiveTypeOK /\ ProcInv /\ SetInv /\ MapInv /\ KindInv
    /\ p \in Proc /\ kind \in Kinds /\ failed \in BOOLEAN
    /\ {list, stamp, print, p.took, p.read} \subseteq Version \cup {NoFile}
    /\ p.during \subseteq Version \cup {NoFile}
    /\ kind = "ipset" => IpsetInv
    /\ kind = "cnip" => CnipInv
    /\ kind = "app" => AppInv

LEMMA ForceFacts == ForceInv => ForceParts
  <1> SUFFICES ASSUME ForceInv PROVE ForceParts
    OBVIOUS
  <1>1. LiveTypeOK /\ LiveInv
    BY DEF ForceInv, LiveInv
  <1>2. kind \in Kinds
    BY <1>1, LiveAssumption DEF LiveTypeOK
  <1> QED
    BY <1>1, <1>2 DEF ForceInv, ForceParts, LiveInv, LiveTypeOK, Proc

\* One kind of matcher after the other.
LEMMA ForceKept ==
    ASSUME LiveInv', KindInv', kind' = kind,
           kind = "ipset" => IpsetInv',
           kind = "cnip" => CnipInv',
           kind = "app" => AppInv'
    PROVE  ForceInv'
  BY DEF ForceInv

-----------------------------------------------------------------------------
(* The ipset *)

LEMMA CheckIpsetForce ==
    ASSUME ForceInv, LiveInv', CheckIpset
    PROVE  ForceInv'
  <1> USE DEF ForceParts, Stays
  <1>1. ForceParts
    BY ForceFacts
  <1>2. /\ p.at = "ipset" /\ kind = "ipset"
        /\ UNCHANGED <<kind, list, stamp, raced, set, print, maps, progs, use, held>>
    BY <1>1 DEF CheckIpset, KindInv, IpsetPoints, config, world, ipset, ebpf
  <1>3. CASE (list = NoFile \/ (set \notin {Absent, {}} /\ stamp = list)) /\ Proceed
    <2>1. p'.at \in {"install", "ok"} /\ Stays
      BY <1>1, <1>3, ProceedFacts
    <2>2. p.op \in {"apply", "reload"} /\ ~ raced =>
            set = Absent \/ \E v \in p.during : set = Entries(v)
      <3>1. ~ raced => set = Absent \/ set = Entries(list)
        BY <1>1, <1>2, <1>3, VersionFacts DEF IpsetInv
      <3> QED
        BY <1>1, <3>1 DEF KindInv
    <2>3. KindInv'
      BY <1>1, <1>2, <2>1, <2>2, VersionFacts DEF KindInv, IpsetPoints, BpfPoints
    <2>4. kind = "ipset" => IpsetInv'
      BY <1>1, <1>2, <2>1, <2>2, VersionFacts DEF IpsetInv, IpsetPoints, BpfPoints
    <2>5. kind = "cnip" => CnipInv'
      BY <1>1, <1>2, <2>1, <2>2 DEF KindInv, IpsetPoints, BpfPoints
    <2>6. kind = "app" => AppInv'
      BY <1>1, <1>2, <2>1, <2>2 DEF KindInv, IpsetPoints, BpfPoints
    <2> QED
      BY <1>2, <2>1, <2>2, <2>3, <2>4, <2>5, <2>6, ForceKept
  <1>4. CASE list # NoFile /\ p' = [p EXCEPT !.at = "flush", !.took = list]
    <2>1. /\ p'.at = "flush" /\ p'.took = list /\ list \in Version
          /\ p'.op = p.op /\ p'.during = p.during
      BY <1>1, <1>4 DEF Proc
    <2>2. KindInv'
      BY <1>1, <1>2, <2>1, VersionFacts DEF KindInv, IpsetPoints, BpfPoints
    <2>3. kind = "ipset" => IpsetInv'
      BY <1>1, <1>2, <2>1, VersionFacts DEF IpsetInv, IpsetPoints, BpfPoints
    <2>4. kind = "cnip" => CnipInv'
      BY <1>1, <1>2, <2>1 DEF KindInv, IpsetPoints, BpfPoints
    <2>5. kind = "app" => AppInv'
      BY <1>1, <1>2, <2>1 DEF KindInv, IpsetPoints, BpfPoints
    <2> QED
      BY <1>2, <2>1, <2>2, <2>3, <2>4, <2>5, ForceKept
  <1>5. CASE Fail
    <2>1. p'.at = "err" /\ Stays
      BY <1>1, <1>5, ToFacts DEF Fail, Points
    <2>2. KindInv'
      BY <1>1, <1>2, <2>1, VersionFacts DEF KindInv, IpsetPoints, BpfPoints
    <2>3. kind = "ipset" => IpsetInv'
      BY <1>1, <1>2, <2>1, VersionFacts DEF IpsetInv, IpsetPoints, BpfPoints
    <2>4. kind = "cnip" => CnipInv'
      BY <1>1, <1>2, <2>1 DEF KindInv, IpsetPoints, BpfPoints
    <2>5. kind = "app" => AppInv'
      BY <1>1, <1>2, <2>1 DEF KindInv, IpsetPoints, BpfPoints
    <2> QED
      BY <1>2, <2>1, <2>2, <2>3, <2>4, <2>5, ForceKept
  <1> QED
    BY <1>3, <1>4, <1>5 DEF CheckIpset

LEMMA FlushIpsetForce ==
    ASSUME ForceInv, LiveInv', FlushIpset
    PROVE  ForceInv'
  <1> USE DEF ForceParts, Stays
  <1>1. ForceParts
    BY ForceFacts
  <1>2. /\ p.at = "flush" /\ kind = "ipset"
        /\ UNCHANGED <<kind, list, stamp, raced, print, maps, progs, use, held>>
    BY <1>1 DEF FlushIpset, KindInv, IpsetPoints, config, world, ebpf
  <1>3. p'.at \in {"add", "err"} /\ Stays
    BY <1>1, ToFacts DEF FlushIpset, Fail, Points
  <1>4. set' \notin {Absent, {}} => set' = set
    BY DEF FlushIpset
  <1>5. KindInv'
    BY <1>1, <1>2, <1>3, <1>4, VersionFacts DEF KindInv, IpsetPoints, BpfPoints
  <1>6. kind = "ipset" => IpsetInv'
    BY <1>1, <1>2, <1>3, <1>4, VersionFacts DEF IpsetInv, IpsetPoints, BpfPoints
  <1>7. kind = "cnip" => CnipInv'
    BY <1>1, <1>2, <1>3, <1>4 DEF KindInv, IpsetPoints, BpfPoints
  <1>8. kind = "app" => AppInv'
    BY <1>1, <1>2, <1>3, <1>4 DEF KindInv, IpsetPoints, BpfPoints
  <1> QED
    BY <1>2, <1>3, <1>4, <1>5, <1>6, <1>7, <1>8, ForceKept

LEMMA AddToIpsetForce ==
    ASSUME ForceInv, LiveInv', AddToIpset
    PROVE  ForceInv'
  <1> USE DEF ForceParts, Stays
  <1>1. ForceParts
    BY ForceFacts
  <1>2. /\ p.at \in {"add", "added"} /\ kind = "ipset"
        /\ UNCHANGED <<kind, list, stamp, raced, set, print, maps, progs, use, held>>
    BY <1>1 DEF AddToIpset, KindInv, IpsetPoints, config, world, ebpf
  <1>3. p'.at \in {"added", "swap", "err"} /\ Stays
    BY <1>1, ToFacts DEF AddToIpset, Fail, Points
  <1>4. KindInv'
    BY <1>1, <1>2, <1>3, VersionFacts DEF KindInv, IpsetPoints, BpfPoints
  <1>5. kind = "ipset" => IpsetInv'
    BY <1>1, <1>2, <1>3, VersionFacts DEF IpsetInv, IpsetPoints, BpfPoints
  <1>6. kind = "cnip" => CnipInv'
    BY <1>1, <1>2, <1>3 DEF KindInv, IpsetPoints, BpfPoints
  <1>7. kind = "app" => AppInv'
    BY <1>1, <1>2, <1>3 DEF KindInv, IpsetPoints, BpfPoints
  <1> QED
    BY <1>2, <1>3, <1>4, <1>5, <1>6, <1>7, ForceKept

LEMMA SwapIpsetForce ==
    ASSUME ForceInv, LiveInv', SwapIpset
    PROVE  ForceInv'
  <1> USE DEF ForceParts, Stays
  <1>1. ForceParts
    BY ForceFacts
  <1>2. /\ p.at \in {"swap", "destroy"} /\ kind = "ipset"
        /\ UNCHANGED <<kind, list, stamp, raced, print, maps, progs, use, held>>
    BY <1>1 DEF SwapIpset, KindInv, IpsetPoints, config, world, ebpf
  <1>3. p'.at \in {"destroy", "stamp", "err"} /\ Stays
    BY <1>1, ToFacts DEF SwapIpset, Fail, Points
  <1>4. set' = set \/ set' = Entries(p.took)
    BY <1>1 DEF SwapIpset, SetInv
  <1>5. p'.at = "destroy" => set' = Entries(p.took)
    <2>1. p'.at = "destroy" => p.at = "swap" /\ set' = tmp
      BY <1>1, ToFacts DEF SwapIpset, Fail, Points
    <2> QED
      BY <1>1, <2>1 DEF SetInv
  <1>6. p'.at = "stamp" => p.at = "destroy"
    BY <1>1, ToFacts DEF SwapIpset, Fail, Points
  <1>7. KindInv'
    BY <1>1, <1>2, <1>3, <1>4, <1>5, <1>6, VersionFacts DEF KindInv, IpsetPoints,
       BpfPoints
  <1>8. kind = "ipset" => IpsetInv'
    BY <1>1, <1>2, <1>3, <1>4, <1>5, <1>6, VersionFacts DEF IpsetInv, IpsetPoints,
       BpfPoints
  <1>9. kind = "cnip" => CnipInv'
    BY <1>1, <1>2, <1>3, <1>4, <1>5, <1>6 DEF KindInv, IpsetPoints, BpfPoints
  <1>10. kind = "app" => AppInv'
    BY <1>1, <1>2, <1>3, <1>4, <1>5, <1>6 DEF KindInv, IpsetPoints, BpfPoints
  <1> QED
    BY <1>2, <1>3, <1>4, <1>5, <1>6, <1>7, <1>8, <1>9, <1>10, ForceKept

LEMMA StampIpsetForce ==
    ASSUME ForceInv, LiveInv', StampIpset
    PROVE  ForceInv'
  <1> USE DEF ForceParts, Stays
  <1>1. ForceParts
    BY ForceFacts
  <1>2. /\ p.at = "stamp" /\ kind = "ipset"
        /\ UNCHANGED <<kind, list, set, print, maps, progs, use, held, failed>>
    BY <1>1 DEF StampIpset, KindInv, IpsetPoints, config, world, ebpf, inForce
  <1>3. p'.at \in {"install", "ok"} /\ Stays
    BY <1>1, ProceedFacts DEF StampIpset
  <1>4. \/ stamp' = list /\ (~ raced' => list = p.took)
        \/ stamp' = stamp /\ (~ raced' => ~ raced)
    BY DEF StampIpset
  <1>5. /\ set = Entries(p.took) /\ p.took \in Version /\ p.took <= list
        /\ p.took \in p.during /\ stamp <= p.took
    BY <1>1, <1>2 DEF IpsetInv, KindInv, ProcInv, IpsetPoints
  <1>6. /\ \E v \in p.during : set = Entries(v)
        /\ stamp' <= list /\ (~ raced' => stamp' <= p.took)
    BY <1>1, <1>4, <1>5, VersionFacts
  <1>7. KindInv'
    BY <1>1, <1>2, <1>3, <1>4, <1>5, <1>6, VersionFacts DEF KindInv, IpsetPoints,
       BpfPoints
  <1>8. kind = "ipset" => IpsetInv'
    BY <1>1, <1>2, <1>3, <1>4, <1>5, <1>6, VersionFacts DEF IpsetInv, IpsetPoints,
       BpfPoints
  <1>9. kind = "cnip" => CnipInv'
    BY <1>1, <1>2, <1>3, <1>4, <1>5, <1>6 DEF KindInv, IpsetPoints, BpfPoints
  <1>10. kind = "app" => AppInv'
    BY <1>1, <1>2, <1>3, <1>4, <1>5, <1>6 DEF KindInv, IpsetPoints, BpfPoints
  <1> QED
    BY <1>2, <1>3, <1>4, <1>5, <1>6, <1>7, <1>8, <1>9, <1>10, ForceKept

-----------------------------------------------------------------------------
(* The eBPF matcher *)

LEMMA StartMatcherForce ==
    ASSUME ForceInv, LiveInv', StartMatcher
    PROVE  ForceInv'
  <1> USE DEF ForceParts, Stays
  <1>1. ForceParts
    BY ForceFacts
  <1>2. /\ p.at = "start" /\ Source # NoFile
        /\ kind # "ipset" /\ p.op \in {"apply", "reload"}
        /\ UNCHANGED <<kind, list, stamp, raced, set, print, maps, progs, use,
                       held, failed>>
    BY <1>1 DEF StartMatcher, KindInv, ProcInv, BpfPoints, config, world, ipset,
       ebpf, inForce
  <1>3. Source \in Version /\ Source \in p.during
    BY <1>1, <1>2, SourceType DEF Source, KindInv
  <1>4. CASE p.op = "reload" /\ print = Source
    <2>1. p'.at = "ok" /\ Stays
      BY <1>1, <1>4, ToFacts DEF StartMatcher, Points
    <2>2. KindInv'
      BY <1>1, <1>2, <1>3, <1>4, <2>1, VersionFacts DEF KindInv, IpsetPoints,
         BpfPoints, Source
    <2>3. kind = "ipset" => IpsetInv'
      BY <1>1, <1>2, <1>3, <1>4, <2>1 DEF KindInv, IpsetPoints, BpfPoints
    <2>4. kind = "cnip" => CnipInv'
      BY <1>1, <1>2, <1>3, <1>4, <2>1, VersionFacts DEF Source, CnipInv,
         IpsetPoints, BpfPoints, Since
    <2>5. kind = "app" => AppInv'
      BY <1>1, <1>2, <1>3, <1>4, <2>1, VersionFacts DEF Source, AppInv, IpsetPoints,
         BpfPoints
    <2> QED
      BY <1>2, <1>3, <1>4, <2>1, <2>2, <2>3, <2>4, <2>5, ForceKept
  <1>5. CASE ~ (p.op = "reload" /\ print = Source)
    <2>1. /\ p'.at = IF p.op = "reload" /\ maps # Absent THEN "update" ELSE "apply"
          /\ p'.took = Source /\ p'.op = p.op /\ p'.read = p.read
          /\ p'.during = p.during
      BY <1>1, <1>5 DEF StartMatcher, Proc
    <2>2. KindInv'
      BY <1>1, <1>2, <1>3, <1>5, <2>1, VersionFacts DEF KindInv, IpsetPoints,
         BpfPoints, Source
    <2>3. kind = "ipset" => IpsetInv'
      BY <1>1, <1>2, <1>3, <1>5, <2>1 DEF KindInv, IpsetPoints, BpfPoints
    <2>4. kind = "cnip" => CnipInv'
      BY <1>1, <1>2, <1>3, <1>5, <2>1, VersionFacts DEF Source, CnipInv,
         IpsetPoints, BpfPoints, Since
    <2>5. kind = "app" => AppInv'
      BY <1>1, <1>2, <1>3, <1>5, <2>1, VersionFacts DEF Source, AppInv, IpsetPoints,
         BpfPoints
    <2> QED
      BY <1>2, <1>3, <1>5, <2>1, <2>2, <2>3, <2>4, <2>5, ForceKept
  <1> QED
    BY <1>4, <1>5

LEMMA NoMatcherForce ==
    ASSUME ForceInv, LiveInv', NoMatcher
    PROVE  ForceInv'
  <1> USE DEF ForceParts, Stays
  <1>1. ForceParts
    BY ForceFacts
  <1>2. /\ p.at = "start" /\ kind # "ipset" /\ p.op \in {"apply", "reload"}
        /\ UNCHANGED <<kind, list, stamp, raced, set, print, maps, progs, use, held>>
    BY <1>1 DEF NoMatcher, KindInv, ProcInv, BpfPoints, config, world, ipset, ebpf
  <1>3. /\ Stays
        /\ p'.at = IF kind # "app" THEN "err"
                   ELSE IF p.op = "apply" THEN "install" ELSE "ok"
    BY <1>1, ToFacts DEF NoMatcher, Proceed, Points
  <1>4. /\ failed => failed'
        /\ Source = NoFile \/ failed'
        /\ kind = "app" => Source = p.took
    BY DEF NoMatcher, Source
  <1>5. p.op = "apply" => use = "none"
    BY <1>1, <1>2 DEF ProcInv, BpfPoints
  <1>6. KindInv'
    BY <1>1, <1>2, <1>3, <1>4, <1>5, VersionFacts DEF KindInv, IpsetPoints, BpfPoints
  <1>7. kind = "ipset" => IpsetInv'
    BY <1>1, <1>2, <1>3, <1>4, <1>5 DEF KindInv, IpsetPoints, BpfPoints
  <1>8. kind = "cnip" => CnipInv'
    BY <1>1, <1>2, <1>3, <1>4, <1>5, VersionFacts DEF CnipInv, IpsetPoints,
       BpfPoints, Since
  <1>9. kind = "app" => AppInv'
    BY <1>1, <1>2, <1>3, <1>4, <1>5, VersionFacts DEF AppInv, IpsetPoints, BpfPoints
  <1> QED
    BY <1>2, <1>3, <1>4, <1>5, <1>6, <1>7, <1>8, <1>9, ForceKept

LEMMA BpfApplyForce ==
    ASSUME ForceInv, LiveInv', BpfApply
    PROVE  ForceInv'
  <1> USE DEF ForceParts, Stays
  <1>1. ForceParts
    BY ForceFacts
  <1>2. /\ p.at \in {"apply", "create", "programs"}
        /\ kind # "ipset" /\ p.op \in {"apply", "reload"}
        /\ UNCHANGED <<kind, list, stamp, raced, set, print>>
    BY <1>1 DEF BpfApply, KindInv, ProcInv, BpfPoints, config, world, ipset
  <1>3. /\ p.took \in Version /\ list \in Version
        /\ kind = "cnip" => p.took <= list
    BY <1>1, <1>2 DEF KindInv, CnipInv, AppInv, BpfPoints, Kinds
  <1>4. /\ Source \in Version /\ Source \in p.during
        /\ kind = "cnip" => Source = list
        /\ kind = "app" => Source = p.took
    BY <1>1, <1>2, <1>3, VersionFacts DEF Source, KindInv, Kinds
  <1>5. p.at \in {"create", "programs"} => use # "pin"
    BY <1>1 DEF MapInv
  <1>6. CASE p.at = "apply" /\ RemovePins /\ To("create") /\ UNCHANGED failed
    <2>1. p'.at = "create" /\ Stays
      BY <1>1, <1>6, ToFacts DEF Points
    <2>2. /\ maps' = Absent /\ ~ progs' /\ use' # "pin"
          /\ use' \in {use, "frozen"}
          /\ (use' = "frozen" => use \in {"pin", "frozen"})
      BY <1>6 DEF RemovePins
    <2>3. KindInv'
      BY <1>1, <1>2, <1>3, <1>6, <2>1, <2>2, VersionFacts DEF KindInv, IpsetPoints,
         BpfPoints
    <2>4. kind = "ipset" => IpsetInv'
      BY <1>1, <1>2, <1>3, <1>6, <2>1, <2>2 DEF KindInv, IpsetPoints, BpfPoints
    <2>5. kind = "cnip" => CnipInv'
      BY <1>1, <1>2, <1>3, <1>6, <2>1, <2>2, VersionFacts DEF CnipInv, IpsetPoints,
         BpfPoints, Since
    <2>6. kind = "app" => AppInv'
      BY <1>1, <1>2, <1>3, <1>6, <2>1, <2>2, VersionFacts DEF AppInv, IpsetPoints,
         BpfPoints
    <2> QED
      BY <1>2, <1>3, <1>6, <2>1, <2>2, <2>3, <2>4, <2>5, <2>6, ForceKept
  <1>7. CASE /\ p.at = "create" /\ maps' = Entries(Source) /\ To("programs")
             /\ UNCHANGED <<progs, use, held, failed>>
    <2>1. p'.at = "programs" /\ Stays
      BY <1>1, <1>7, ToFacts DEF Points
    <2>2. UNCHANGED <<progs, use, held, failed>> /\ maps' = Entries(Source)
      BY <1>7
    <2>3. kind = "cnip" => Since(p.took, maps)'
      <3> SUFFICES ASSUME kind = "cnip" PROVE Since(p.took, maps)'
        OBVIOUS
      <3>1. /\ list \in p'.during \cap Version /\ maps' = Entries(list)
            /\ p'.took <= list /\ list <= list /\ list' = list
        BY <1>1, <1>2, <1>3, <1>4, <2>1, <2>2, VersionFacts
      <3> QED
        BY <3>1 DEF Since
    <2>4. KindInv'
      BY <1>1, <1>2, <1>3, <1>4, <1>5, <1>7, <2>1, <2>2, <2>3, VersionFacts
         DEF KindInv, IpsetPoints, BpfPoints
    <2>5. kind = "ipset" => IpsetInv'
      BY <1>1, <1>2, <1>3, <1>4, <1>5, <1>7, <2>1, <2>2, <2>3 DEF KindInv,
         IpsetPoints, BpfPoints
    <2>6. kind = "cnip" => CnipInv'
      BY <1>1, <1>2, <1>3, <1>4, <1>5, <1>7, <2>1, <2>2, <2>3, VersionFacts
         DEF CnipInv, IpsetPoints, BpfPoints, Since
    <2>7. kind = "app" => AppInv'
      BY <1>1, <1>2, <1>3, <1>4, <1>5, <1>7, <2>1, <2>2, <2>3, VersionFacts
         DEF AppInv, IpsetPoints, BpfPoints
    <2> QED
      BY <1>2, <1>3, <1>4, <1>5, <1>7, <2>1, <2>2, <2>3, <2>4, <2>5, <2>6, <2>7,
         ForceKept
  <1>8. CASE /\ p.at = "programs" /\ progs' = TRUE
             /\ p' = [p EXCEPT !.at = "save_print", !.hot = FALSE]
             /\ UNCHANGED <<maps, use, held, failed>>
    <2>1. p'.at = "save_print" /\ Stays
      BY <1>1, <1>8 DEF Proc
    <2>2. UNCHANGED <<maps, use, held, failed>> /\ progs'
      BY <1>8
    <2>3. KindInv'
      BY <1>1, <1>2, <1>3, <1>5, <1>8, <2>1, <2>2, VersionFacts DEF KindInv,
         IpsetPoints, BpfPoints
    <2>4. kind = "ipset" => IpsetInv'
      BY <1>1, <1>2, <1>3, <1>5, <1>8, <2>1, <2>2 DEF KindInv, IpsetPoints, BpfPoints
    <2>5. kind = "cnip" => CnipInv'
      BY <1>1, <1>2, <1>3, <1>5, <1>8, <2>1, <2>2, VersionFacts DEF CnipInv,
         IpsetPoints, BpfPoints, Since
    <2>6. kind = "app" => AppInv'
      BY <1>1, <1>2, <1>3, <1>5, <1>8, <2>1, <2>2, VersionFacts DEF AppInv,
         IpsetPoints, BpfPoints
    <2> QED
      BY <1>2, <1>3, <1>5, <1>8, <2>1, <2>2, <2>3, <2>4, <2>5, <2>6, ForceKept
  <1>9. CASE p.at \in {"create", "programs"} /\ RemovePins /\ BpfFails
    <2>1. /\ p'.at \in {"apply", "save_print", "err"}
          /\ (p'.at = "save_print" => kind = "app")
          /\ Stays
      BY <1>1, <1>9 DEF BpfFails, Proc
    <2>2. /\ maps' = Absent /\ ~ progs' /\ use' # "pin" /\ failed'
          /\ use' \in {use, "frozen"}
          /\ (use' = "frozen" => use \in {"pin", "frozen"})
      BY <1>9 DEF RemovePins, BpfFails
    <2>3. KindInv'
      BY <1>1, <1>2, <1>3, <1>9, <2>1, <2>2, VersionFacts DEF KindInv, IpsetPoints,
         BpfPoints
    <2>4. kind = "ipset" => IpsetInv'
      BY <1>1, <1>2, <1>3, <1>9, <2>1, <2>2 DEF KindInv, IpsetPoints, BpfPoints
    <2>5. kind = "cnip" => CnipInv'
      BY <1>1, <1>2, <1>3, <1>9, <2>1, <2>2, VersionFacts DEF CnipInv, IpsetPoints,
         BpfPoints, Since
    <2>6. kind = "app" => AppInv'
      BY <1>1, <1>2, <1>3, <1>9, <2>1, <2>2, VersionFacts DEF AppInv, IpsetPoints,
         BpfPoints
    <2> QED
      BY <1>2, <1>3, <1>9, <2>1, <2>2, <2>3, <2>4, <2>5, <2>6, ForceKept
  <1>10. CASE p.at = "apply" /\ Fail /\ UNCHANGED <<maps, progs, use, held>>
    <2>1. p'.at = "err" /\ failed' /\ Stays
      BY <1>1, <1>10, ToFacts DEF Fail, Points
    <2>2. UNCHANGED <<maps, progs, use, held>>
      BY <1>10
    <2>3. KindInv'
      BY <1>1, <1>2, <1>3, <1>10, <2>1, <2>2, VersionFacts DEF KindInv, IpsetPoints,
         BpfPoints
    <2>4. kind = "ipset" => IpsetInv'
      BY <1>1, <1>2, <1>3, <1>10, <2>1, <2>2 DEF KindInv, IpsetPoints, BpfPoints
    <2>5. kind = "cnip" => CnipInv'
      BY <1>1, <1>2, <1>3, <1>10, <2>1, <2>2, VersionFacts DEF CnipInv, IpsetPoints,
         BpfPoints, Since
    <2>6. kind = "app" => AppInv'
      BY <1>1, <1>2, <1>3, <1>10, <2>1, <2>2, VersionFacts DEF AppInv, IpsetPoints,
         BpfPoints
    <2> QED
      BY <1>2, <1>3, <1>10, <2>1, <2>2, <2>3, <2>4, <2>5, <2>6, ForceKept
  <1> QED
    BY <1>6, <1>7, <1>8, <1>9, <1>10 DEF BpfApply

LEMMA BpfUpdateForce ==
    ASSUME ForceInv, LiveInv', BpfUpdate
    PROVE  ForceInv'
  <1> USE DEF ForceParts, Stays
  <1>1. ForceParts
    BY ForceFacts
  <1>2. /\ p.at \in {"update", "refill", "refilled"} /\ p.op = "reload"
        /\ kind # "ipset" /\ p.op \in {"apply", "reload"}
        /\ UNCHANGED <<kind, list, stamp, raced, set, print, progs, use, held>>
    BY <1>1 DEF BpfUpdate, KindInv, ProcInv, BpfPoints, config, world, ipset
  <1>3. /\ p.took \in Version /\ list \in Version
        /\ kind = "cnip" => p.took <= list
    BY <1>1, <1>2 DEF KindInv, CnipInv, AppInv, BpfPoints, Kinds
  <1>4. /\ Source \in Version /\ Source \in p.during
        /\ kind = "cnip" => Source = list
        /\ kind = "app" => Source = p.took
    BY <1>1, <1>2, <1>3, VersionFacts DEF Source, KindInv, Kinds
  <1>5. maps # Absent
    BY <1>1, <1>2 DEF MapInv
  <1>6. CASE p.at = "update" /\ maps' = {} /\ To("refill") /\ UNCHANGED failed
    <2>1. p'.at = "refill" /\ Stays
      BY <1>1, <1>6, ToFacts DEF Points
    <2>2. failed' = failed
      BY <1>6
    <2>3. KindInv'
      BY <1>1, <1>2, <1>3, <1>5, <1>6, <2>1, <2>2, VersionFacts DEF KindInv,
         IpsetPoints, BpfPoints
    <2>4. kind = "ipset" => IpsetInv'
      BY <1>1, <1>2, <1>3, <1>5, <1>6, <2>1, <2>2 DEF KindInv, IpsetPoints, BpfPoints
    <2>5. kind = "cnip" => CnipInv'
      BY <1>1, <1>2, <1>3, <1>5, <1>6, <2>1, <2>2, VersionFacts DEF CnipInv,
         IpsetPoints, BpfPoints, Since
    <2>6. kind = "app" => AppInv'
      BY <1>1, <1>2, <1>3, <1>5, <1>6, <2>1, <2>2, VersionFacts DEF AppInv,
         IpsetPoints, BpfPoints
    <2> QED
      BY <1>2, <1>3, <1>5, <1>6, <2>1, <2>2, <2>3, <2>4, <2>5, <2>6, ForceKept
  <1>7. CASE p.at = "update" /\ BpfFails /\ UNCHANGED maps
    <2>1. /\ p'.at \in {"apply", "save_print", "err"}
          /\ (p'.at = "save_print" => kind = "app")
          /\ failed' /\ Stays
      BY <1>1, <1>7 DEF BpfFails, Proc
    <2>2. KindInv'
      BY <1>1, <1>2, <1>3, <1>5, <1>7, <2>1, VersionFacts DEF KindInv, IpsetPoints,
         BpfPoints
    <2>3. kind = "ipset" => IpsetInv'
      BY <1>1, <1>2, <1>3, <1>5, <1>7, <2>1 DEF KindInv, IpsetPoints, BpfPoints
    <2>4. kind = "cnip" => CnipInv'
      BY <1>1, <1>2, <1>3, <1>5, <1>7, <2>1, VersionFacts DEF CnipInv, IpsetPoints,
         BpfPoints, Since
    <2>5. kind = "app" => AppInv'
      BY <1>1, <1>2, <1>3, <1>5, <1>7, <2>1, VersionFacts DEF AppInv, IpsetPoints,
         BpfPoints
    <2> QED
      BY <1>2, <1>3, <1>5, <1>7, <2>1, <2>2, <2>3, <2>4, <2>5, ForceKept
  <1>8. CASE /\ p.at = "update" /\ maps' \in SUBSET maps
             /\ p' = [p EXCEPT !.at = "refill", !.torn = TRUE] /\ UNCHANGED failed
    <2>1. p'.at = "refill" /\ Stays
      BY <1>1, <1>8 DEF Proc
    <2>2. failed' = failed
      BY <1>8
    <2>3. KindInv'
      BY <1>1, <1>2, <1>3, <1>5, <1>8, <2>1, <2>2, VersionFacts DEF KindInv,
         IpsetPoints, BpfPoints
    <2>4. kind = "ipset" => IpsetInv'
      BY <1>1, <1>2, <1>3, <1>5, <1>8, <2>1, <2>2 DEF KindInv, IpsetPoints, BpfPoints
    <2>5. kind = "cnip" => CnipInv'
      BY <1>1, <1>2, <1>3, <1>5, <1>8, <2>1, <2>2, VersionFacts DEF CnipInv,
         IpsetPoints, BpfPoints, Since
    <2>6. kind = "app" => AppInv'
      BY <1>1, <1>2, <1>3, <1>5, <1>8, <2>1, <2>2, VersionFacts DEF AppInv,
         IpsetPoints, BpfPoints
    <2> QED
      BY <1>2, <1>3, <1>5, <1>8, <2>1, <2>2, <2>3, <2>4, <2>5, <2>6, ForceKept
  <1>9. CASE /\ p.at = "refill" /\ UNCHANGED failed
             /\ p' = [p EXCEPT !.at = "refilled", !.read = Source]
    <2>1. /\ p'.at = "refilled" /\ p'.read = Source
          /\ p'.op = p.op /\ p'.took = p.took /\ p'.during = p.during
      BY <1>1, <1>4, <1>9 DEF Proc
    <2>2. failed' = failed
      BY <1>9
    <2>3. /\ kind = "cnip" => p'.read \in p.during \cap Version /\ p.took <= p'.read
                               /\ p'.read <= list
          /\ kind = "app" => p'.read = p.took
      BY <1>1, <1>3, <1>4, <2>1, VersionFacts
    <2>4. KindInv'
      BY <1>1, <1>2, <1>3, <1>5, <1>9, <2>1, <2>2, <2>3, VersionFacts DEF KindInv,
         IpsetPoints, BpfPoints
    <2>5. kind = "ipset" => IpsetInv'
      BY <1>1, <1>2, <1>3, <1>5, <1>9, <2>1, <2>2, <2>3 DEF KindInv, IpsetPoints,
         BpfPoints
    <2>6. kind = "cnip" => CnipInv'
      BY <1>1, <1>2, <1>3, <1>5, <1>9, <2>1, <2>2, <2>3, VersionFacts DEF CnipInv,
         IpsetPoints, BpfPoints, Since
    <2>7. kind = "app" => AppInv'
      BY <1>1, <1>2, <1>3, <1>5, <1>9, <2>1, <2>2, <2>3, VersionFacts DEF AppInv,
         IpsetPoints, BpfPoints
    <2> QED
      BY <1>2, <1>3, <1>5, <1>9, <2>1, <2>2, <2>3, <2>4, <2>5, <2>6, <2>7, ForceKept
  <1>10. CASE p.at = "refilled" /\ maps' = maps \cup Entries(p.read) /\ BpfFails
    <2>1. /\ p'.at \in {"apply", "save_print", "err"}
          /\ (p'.at = "save_print" => kind = "app")
          /\ failed' /\ Stays
      BY <1>1, <1>10 DEF BpfFails, Proc
    <2>2. KindInv'
      BY <1>1, <1>2, <1>3, <1>5, <1>10, <2>1, VersionFacts DEF KindInv, IpsetPoints,
         BpfPoints
    <2>3. kind = "ipset" => IpsetInv'
      BY <1>1, <1>2, <1>3, <1>5, <1>10, <2>1 DEF KindInv, IpsetPoints, BpfPoints
    <2>4. kind = "cnip" => CnipInv'
      BY <1>1, <1>2, <1>3, <1>5, <1>10, <2>1, VersionFacts DEF CnipInv, IpsetPoints,
         BpfPoints, Since
    <2>5. kind = "app" => AppInv'
      BY <1>1, <1>2, <1>3, <1>5, <1>10, <2>1, VersionFacts DEF AppInv, IpsetPoints,
         BpfPoints
    <2> QED
      BY <1>2, <1>3, <1>5, <1>10, <2>1, <2>2, <2>3, <2>4, <2>5, ForceKept
  <1>11. CASE /\ p.at = "refilled" /\ maps' = maps \cup Entries(p.read) /\ ~ p.torn
              /\ p' = [p EXCEPT !.at = "save_print", !.hot = FALSE]
              /\ UNCHANGED failed
    <2>1. p'.at = "save_print" /\ Stays
      BY <1>1, <1>11 DEF Proc
    <2>2. failed' = failed
      BY <1>11
    <2>3. /\ kind = "cnip" =>
               p.read \in p.during \cap Version /\ p.took <= p.read /\ p.read <= list
          /\ kind = "app" => p.read = p.took
      BY <1>1, <1>11 DEF CnipInv, AppInv
    <2>4. maps' = Entries(p.read)
      <3>1. p.read \in Version
        BY <1>2, <1>3, <1>1, <2>3 DEF Kinds
      <3>2. maps = Half(p.read)
        BY <1>1, <1>11, <3>1, VersionFacts DEF MapInv
      <3> QED
        BY <1>11, <3>1, <3>2, ContentFacts
    <2>5. kind = "cnip" => Since(p.took, maps)'
      BY <1>2, <2>1, <2>3, <2>4 DEF Since
    <2>6. kind = "cnip" /\ use = "pin" => print < list
      BY <1>1, <1>2 DEF CnipInv
    <2>7. KindInv'
      BY <1>1, <1>2, <1>3, <1>5, <1>11, <2>1, <2>2, <2>3, <2>4, <2>5, <2>6,
         VersionFacts DEF KindInv, IpsetPoints, BpfPoints
    <2>8. kind = "ipset" => IpsetInv'
      BY <1>1, <1>2, <1>3, <1>5, <1>11, <2>1, <2>2, <2>3, <2>4, <2>5, <2>6
         DEF KindInv, IpsetPoints, BpfPoints
    <2>9. kind = "cnip" => CnipInv'
      BY <1>1, <1>2, <1>3, <1>5, <1>11, <2>1, <2>2, <2>3, <2>4, <2>5, <2>6,
         VersionFacts DEF CnipInv, IpsetPoints, BpfPoints, Since
    <2>10. kind = "app" => AppInv'
      BY <1>1, <1>2, <1>3, <1>5, <1>11, <2>1, <2>2, <2>3, <2>4, <2>5, <2>6,
         VersionFacts DEF AppInv, IpsetPoints, BpfPoints
    <2> QED
      BY <1>2, <1>3, <1>5, <1>11, <2>1, <2>2, <2>3, <2>4, <2>5, <2>6, <2>7, <2>8,
         <2>9, <2>10, ForceKept
  <1> QED
    BY <1>6, <1>7, <1>8, <1>9, <1>10, <1>11 DEF BpfUpdate

LEMMA SavePrintForce ==
    ASSUME ForceInv, LiveInv', SavePrint
    PROVE  ForceInv'
  <1> USE DEF ForceParts, Stays
  <1>1. ForceParts
    BY ForceFacts
  <1>2. /\ p.at = "save_print" /\ kind # "ipset" /\ p.op \in {"apply", "reload"}
        /\ UNCHANGED <<kind, list, stamp, raced, set, maps, progs, use, held>>
    BY <1>1 DEF SavePrint, KindInv, ProcInv, BpfPoints, config, world, ipset
  <1>3. p.op = "apply" => use = "none"
    BY <1>1, <1>2 DEF ProcInv, BpfPoints
  <1>4. p.took \in Version
    BY <1>1, <1>2 DEF CnipInv, AppInv, BpfPoints, Kinds
  <1>5. CASE print' = p.took /\ Proceed /\ UNCHANGED failed
    <2>1. /\ p'.at = IF p.op = "apply" THEN "install" ELSE "ok"
          /\ Stays
      BY <1>1, <1>5, ToFacts DEF Proceed, Points
    <2>2. failed' = failed /\ print' = p.took
      BY <1>5
    <2>3. KindInv'
      BY <1>1, <1>2, <1>3, <1>4, <2>1, <2>2, VersionFacts DEF KindInv, IpsetPoints,
         BpfPoints
    <2>4. kind = "ipset" => IpsetInv'
      BY <1>1, <1>2, <1>3, <1>4, <2>1, <2>2 DEF KindInv, IpsetPoints, BpfPoints
    <2>5. kind = "cnip" => CnipInv'
      BY <1>1, <1>2, <1>3, <1>4, <2>1, <2>2, VersionFacts DEF CnipInv, IpsetPoints,
         BpfPoints, Since
    <2>6. kind = "app" => AppInv'
      BY <1>1, <1>2, <1>3, <1>4, <2>1, <2>2, VersionFacts DEF AppInv, IpsetPoints,
         BpfPoints
    <2> QED
      BY <1>2, <1>3, <1>4, <2>1, <2>2, <2>3, <2>4, <2>5, <2>6, ForceKept
  <1>6. CASE print' \in {print, p.took} /\ Fail
    <2>1. p'.at = "err" /\ failed' /\ Stays
      BY <1>1, <1>6, ToFacts DEF Fail, Points
    <2>2. KindInv'
      BY <1>1, <1>2, <1>3, <1>4, <1>6, <2>1, VersionFacts DEF KindInv, IpsetPoints,
         BpfPoints
    <2>3. kind = "ipset" => IpsetInv'
      BY <1>1, <1>2, <1>3, <1>4, <1>6, <2>1 DEF KindInv, IpsetPoints, BpfPoints
    <2>4. kind = "cnip" => CnipInv'
      BY <1>1, <1>2, <1>3, <1>4, <1>6, <2>1, VersionFacts DEF CnipInv, IpsetPoints,
         BpfPoints, Since
    <2>5. kind = "app" => AppInv'
      BY <1>1, <1>2, <1>3, <1>4, <1>6, <2>1, VersionFacts DEF AppInv, IpsetPoints,
         BpfPoints
    <2> QED
      BY <1>2, <1>3, <1>4, <1>6, <2>1, <2>2, <2>3, <2>4, <2>5, ForceKept
  <1> QED
    BY <1>5, <1>6 DEF SavePrint

-----------------------------------------------------------------------------
(* apply, clear and refresh *)

LEMMA RulesOffForce ==
    ASSUME ForceInv, LiveInv', RulesOff
    PROVE  ForceInv'
  <1> USE DEF ForceParts, Stays
  <1>1. ForceParts
    BY ForceFacts
  <1>2. /\ p.at = "rules_off" /\ use' = "none"
        /\ UNCHANGED <<kind, list, stamp, raced, set, print, maps, progs, failed>>
    BY <1>1 DEF RulesOff, config, world, ipset, ebpf
  <1>3. p'.at = "pins_off" /\ Stays
    BY <1>1, ToFacts DEF RulesOff, Points
  <1>4. KindInv'
    BY <1>1, <1>2, <1>3, VersionFacts DEF KindInv, IpsetPoints, BpfPoints
  <1>5. kind = "ipset" => IpsetInv'
    BY <1>1, <1>2, <1>3, VersionFacts DEF IpsetInv, IpsetPoints, BpfPoints
  <1>6. kind = "cnip" => CnipInv'
    BY <1>1, <1>2, <1>3, VersionFacts DEF CnipInv, IpsetPoints, BpfPoints, Since
  <1>7. kind = "app" => AppInv'
    BY <1>1, <1>2, <1>3, VersionFacts DEF AppInv, IpsetPoints, BpfPoints
  <1> QED
    BY <1>2, <1>3, <1>4, <1>5, <1>6, <1>7, ForceKept

LEMMA PinsOffForce ==
    ASSUME ForceInv, LiveInv', PinsOff
    PROVE  ForceInv'
  <1> USE DEF ForceParts, Stays
  <1>1. ForceParts
    BY ForceFacts
  <1>2. /\ p.at = "pins_off" /\ p.op \in {"apply", "clear"} /\ use = "none"
        /\ UNCHANGED <<kind, list, stamp, raced, set, print>>
    BY <1>1 DEF PinsOff, ProcInv, config, world, ipset
  <1>3. /\ Stays
        /\ p'.at = IF p.op = "clear" THEN "ok"
                   ELSE IF kind = "ipset" THEN "ipset" ELSE "start"
    BY <1>1, ToFacts DEF PinsOff, Points
  <1>4. maps' = Absent /\ ~ progs' /\ use' = "none"
    BY <1>2 DEF PinsOff, RemovePins
  <1>5. KindInv'
    BY <1>1, <1>2, <1>3, <1>4, VersionFacts DEF KindInv, IpsetPoints, BpfPoints
  <1>6. kind = "ipset" => IpsetInv'
    BY <1>1, <1>2, <1>3, <1>4, VersionFacts DEF IpsetInv, IpsetPoints, BpfPoints
  <1>7. kind = "cnip" => CnipInv'
    BY <1>1, <1>2, <1>3, <1>4, VersionFacts DEF CnipInv, IpsetPoints, BpfPoints, Since
  <1>8. kind = "app" => AppInv'
    BY <1>1, <1>2, <1>3, <1>4, VersionFacts DEF AppInv, IpsetPoints, BpfPoints
  <1> QED
    BY <1>2, <1>3, <1>4, <1>5, <1>6, <1>7, <1>8, ForceKept

LEMMA InstallGroupForce ==
    ASSUME ForceInv, LiveInv', InstallGroup
    PROVE  ForceInv'
  <1> USE DEF ForceParts, Stays
  <1>1. ForceParts
    BY ForceFacts
  <1>2. /\ p.at = "install" /\ p.op = "apply"
        /\ UNCHANGED <<kind, list, stamp, raced, set, print, maps, progs, failed>>
    BY <1>1 DEF InstallGroup, ProcInv, config, world, ipset, ebpf
  <1>3. p'.at = "install" /\ Stays
    BY <1>1, <1>2 DEF InstallGroup, Proc
  <1>4. /\ kind = "ipset" => use' = "set"
        /\ kind = "cnip" => use' = "pin"
        /\ kind = "app" => \/ use' = "none"
                           \/ use' = "pin" /\ progs /\ p.took \in Version
                           \/ use' = "owner" /\ held' = Entries(p.took) /\ ~ progs
                              /\ p.took \in Version
    BY <1>1 DEF InstallGroup, Asked
  <1>5. list \in Version \/ use' \in {"none", "set"}
    BY <1>1, <1>2, <1>4, VersionFacts DEF KindInv, CnipInv, Since, Kinds
  <1>6. KindInv'
    BY <1>1, <1>2, <1>3, <1>4, <1>5, VersionFacts DEF KindInv, IpsetPoints,
       BpfPoints, Kinds
  <1>7. kind = "ipset" => IpsetInv'
    BY <1>1, <1>2, <1>3, <1>4, <1>5, VersionFacts DEF IpsetInv, IpsetPoints, BpfPoints
  <1>8. kind = "cnip" => CnipInv'
    BY <1>1, <1>2, <1>3, <1>4, <1>5, VersionFacts DEF CnipInv, IpsetPoints,
       BpfPoints, Since
  <1>9. kind = "app" => AppInv'
    BY <1>1, <1>2, <1>3, <1>4, <1>5, VersionFacts DEF AppInv, IpsetPoints, BpfPoints
  <1> QED
    BY <1>2, <1>3, <1>4, <1>5, <1>6, <1>7, <1>8, <1>9, ForceKept

LEMMA InstallFailsForce ==
    ASSUME ForceInv, LiveInv', InstallFails
    PROVE  ForceInv'
  <1> USE DEF ForceParts, Stays
  <1>1. ForceParts
    BY ForceFacts
  <1>2. /\ p.at = "install"
        /\ UNCHANGED <<kind, list, stamp, raced, set, print, maps, progs, failed>>
    BY <1>1 DEF InstallFails, config, world, ipset, ebpf
  <1>3. p'.at = "err" /\ Stays
    BY <1>1, ToFacts DEF InstallFails, Points
  <1>4. use' \in {"none", use}
    BY DEF InstallFails
  <1>5. KindInv'
    BY <1>1, <1>2, <1>3, <1>4, VersionFacts DEF KindInv, IpsetPoints, BpfPoints
  <1>6. kind = "ipset" => IpsetInv'
    BY <1>1, <1>2, <1>3, <1>4, VersionFacts DEF IpsetInv, IpsetPoints, BpfPoints
  <1>7. kind = "cnip" => CnipInv'
    BY <1>1, <1>2, <1>3, <1>4, VersionFacts DEF CnipInv, IpsetPoints, BpfPoints, Since
  <1>8. kind = "app" => AppInv'
    BY <1>1, <1>2, <1>3, <1>4, VersionFacts DEF AppInv, IpsetPoints, BpfPoints
  <1> QED
    BY <1>2, <1>3, <1>4, <1>5, <1>6, <1>7, <1>8, ForceKept

LEMMA InstalledForce ==
    ASSUME ForceInv, LiveInv', Installed
    PROVE  ForceInv'
  <1> USE DEF ForceParts, Stays
  <1>1. ForceParts
    BY ForceFacts
  <1>2. /\ p.at = "install" /\ p.op = "apply"
        /\ UNCHANGED <<kind, list, stamp, raced, set, print, maps, progs, use,
                       held, failed>>
    BY <1>1 DEF Installed, ProcInv, config, world, ipset, ebpf, inForce
  <1>3. p'.at \in {"ok", "err"} /\ Stays
    BY <1>1, ToFacts DEF Installed, Points
  <1>4. KindInv'
    BY <1>1, <1>2, <1>3, VersionFacts DEF KindInv, IpsetPoints, BpfPoints
  <1>5. kind = "ipset" => IpsetInv'
    BY <1>1, <1>2, <1>3, VersionFacts DEF IpsetInv, IpsetPoints, BpfPoints
  <1>6. kind = "cnip" => CnipInv'
    BY <1>1, <1>2, <1>3, VersionFacts DEF CnipInv, IpsetPoints, BpfPoints, Since
  <1>7. kind = "app" => AppInv'
    BY <1>1, <1>2, <1>3, VersionFacts DEF AppInv, IpsetPoints, BpfPoints
  <1> QED
    BY <1>2, <1>3, <1>4, <1>5, <1>6, <1>7, ForceKept

\* A refresh has nothing to do with the list.
LEMMA RefreshForce ==
    ASSUME ForceInv, LiveInv', ReadAddresses \/ RebuildChain \/ SaveKey
    PROVE  ForceInv'
  <1> USE DEF ForceParts, Stays
  <1>1. ForceParts
    BY ForceFacts
  <1>2. /\ p.at \in {"addresses", "rebuild"} /\ p.op = "refresh"
        /\ UNCHANGED <<kind, list, stamp, raced, set, print, maps, progs, use,
                       held, failed>>
    BY <1>1 DEF ReadAddresses, RebuildChain, SaveKey, ProcInv, config, world, ipset,
                ebpf, inForce
  <1>3. p'.at \in {"addresses", "rebuild", "ok", "err"} /\ Stays
    <2>1. CASE ReadAddresses
      BY <1>1, <2>1, ToFacts DEF ReadAddresses, Proc, Points
    <2>2. CASE RebuildChain
      BY <1>1, <1>2, <2>2, ToFacts DEF RebuildChain, Proc, Points
    <2>3. CASE SaveKey
      BY <1>1, <2>3, ToFacts DEF SaveKey, Points
    <2> QED
      BY <2>1, <2>2, <2>3
  <1>4. KindInv'
    BY <1>1, <1>2, <1>3, VersionFacts DEF KindInv, IpsetPoints, BpfPoints
  <1>5. kind = "ipset" => IpsetInv'
    BY <1>1, <1>2, <1>3, VersionFacts DEF IpsetInv, IpsetPoints, BpfPoints
  <1>6. kind = "cnip" => CnipInv'
    BY <1>1, <1>2, <1>3, VersionFacts DEF CnipInv, IpsetPoints, BpfPoints, Since
  <1>7. kind = "app" => AppInv'
    BY <1>1, <1>2, <1>3, VersionFacts DEF AppInv, IpsetPoints, BpfPoints
  <1> QED
    BY <1>2, <1>3, <1>4, <1>5, <1>6, <1>7, ForceKept

-----------------------------------------------------------------------------
(* Commands and the world around them *)

LEMMA CallForce ==
    ASSUME ForceInv, LiveInv', NEW op \in {"apply", "clear", "refresh", "reload"},
           Call(op)
    PROVE  ForceInv'
  <1> USE DEF ForceParts, Stays
  <1>1. ForceParts
    BY ForceFacts
  <1>2. /\ p.at = "idle"
        /\ UNCHANGED <<kind, list, stamp, raced, set, print, maps, progs, use,
                       held, failed>>
    BY <1>1 DEF Call, config, world, ipset, ebpf, inForce
  <1>3. /\ p'.op = op /\ p'.at \in Points
        /\ op \in {"apply", "reload"} => p'.took = list /\ p'.during = {list}
        /\ op \notin {"apply", "reload"} => p'.took = NoFile
        /\ op \in {"apply", "clear"} => p'.at = "rules_off"
        /\ op = "refresh" => p'.at = "addresses"
        /\ op = "reload" => p'.at = IF kind = "ipset" THEN "ipset" ELSE "start"
    BY DEF Call, Idle, Points
  <1>4. use = "pin" => list \in Version
    BY <1>1 DEF KindInv
  <1>5. KindInv'
    BY <1>1, <1>2, <1>3, <1>4, VersionFacts DEF KindInv, IpsetPoints, BpfPoints
  <1>6. kind = "ipset" => IpsetInv'
    BY <1>1, <1>2, <1>3, <1>4, VersionFacts DEF IpsetInv, IpsetPoints, BpfPoints
  <1>7. kind = "cnip" => CnipInv'
    BY <1>1, <1>2, <1>3, <1>4, VersionFacts DEF CnipInv, IpsetPoints, BpfPoints, Since
  <1>8. kind = "app" => AppInv'
    BY <1>1, <1>2, <1>3, <1>4, VersionFacts DEF AppInv, IpsetPoints, BpfPoints
  <1> QED
    BY <1>2, <1>3, <1>4, <1>5, <1>6, <1>7, <1>8, ForceKept

\* A command is over, whether it answered or was killed.
LEMMA IdleForce ==
    ASSUME ForceInv, LiveInv', Answer \/ Killed
    PROVE  ForceInv'
  <1> USE DEF ForceParts, Stays
  <1>1. ForceParts
    BY ForceFacts
  <1>2. /\ p' = Idle /\ (failed => failed')
        /\ p.at \in {"refill", "refilled", "save_print", "programs"} => failed'
        /\ UNCHANGED <<kind, list, stamp, raced, set, print, maps, progs, use, held>>
    BY <1>1 DEF Answer, Killed, config, world, ipset, ebpf, inForce
  <1>3. p'.at = "idle" /\ p'.op = "none" /\ p'.took = NoFile
    BY <1>2 DEF Idle
  <1>4. KindInv'
    BY <1>1, <1>2, <1>3, VersionFacts DEF KindInv, IpsetPoints, BpfPoints
  <1>5. kind = "ipset" => IpsetInv'
    BY <1>1, <1>2, <1>3, VersionFacts DEF IpsetInv, IpsetPoints, BpfPoints
  <1>6. kind = "cnip" => CnipInv'
    BY <1>1, <1>2, <1>3, VersionFacts DEF CnipInv, IpsetPoints, BpfPoints, Since
  <1>7. kind = "app" => AppInv'
    BY <1>1, <1>2, <1>3, VersionFacts DEF AppInv, IpsetPoints, BpfPoints
  <1> QED
    BY <1>2, <1>3, <1>4, <1>5, <1>6, <1>7, ForceKept

LEMMA RebootForce ==
    ASSUME ForceInv, LiveInv', Reboot
    PROVE  ForceInv'
  <1> USE DEF ForceParts, Stays
  <1>1. ForceParts
    BY ForceFacts
  <1>2. /\ use' = "none" /\ maps' = Absent /\ ~ progs' /\ set' = Absent
        /\ UNCHANGED <<kind, list, stamp, raced, print, failed>>
    BY <1>1 DEF Reboot, config, world
  <1>3. p'.at = "idle" /\ p'.op = "none" /\ p'.took = NoFile
    BY DEF Reboot, Idle
  <1>4. KindInv'
    BY <1>1, <1>2, <1>3, VersionFacts DEF KindInv, IpsetPoints, BpfPoints
  <1>5. kind = "ipset" => IpsetInv'
    BY <1>1, <1>2, <1>3, VersionFacts DEF IpsetInv, IpsetPoints, BpfPoints
  <1>6. kind = "cnip" => CnipInv'
    BY <1>1, <1>2, <1>3, VersionFacts DEF CnipInv, IpsetPoints, BpfPoints, Since
  <1>7. kind = "app" => AppInv'
    BY <1>1, <1>2, <1>3, VersionFacts DEF AppInv, IpsetPoints, BpfPoints
  <1> QED
    BY <1>2, <1>3, <1>4, <1>5, <1>6, <1>7, ForceKept

\* Nothing the invariant speaks of changes, though the device may move.
LEMMA SameForce ==
    ASSUME ForceInv, LiveInv', UNCHANGED <<kind, list, stamp, raced, set, print,
                                           maps, progs, use, held, failed, p>>
    PROVE  ForceInv'
  <1> USE DEF ForceParts, Stays
  <1>1. ForceParts
    BY ForceFacts
  <1>2. KindInv'
    BY <1>1 DEF KindInv, IpsetPoints, BpfPoints
  <1>3. kind = "ipset" => IpsetInv'
    BY <1>1 DEF IpsetInv, IpsetPoints, BpfPoints
  <1>4. kind = "cnip" => CnipInv'
    BY <1>1 DEF CnipInv, IpsetPoints, BpfPoints, Since
  <1>5. kind = "app" => AppInv'
    BY <1>1 DEF AppInv, IpsetPoints, BpfPoints
  <1> QED
    BY <1>2, <1>3, <1>4, <1>5, ForceKept

LEMMA ReplaceListForce ==
    ASSUME ForceInv, LiveInv', ReplaceList
    PROVE  ForceInv'
  <1> USE DEF ForceParts, Stays
  <1>1. ForceParts
    BY ForceFacts
  <1>2. /\ list' \in Version /\ (kind # "app" => list' = list + 1)
        /\ UNCHANGED <<kind, stamp, raced, set, print, maps, progs, use, held,
                       failed>>
    BY <1>1 DEF ReplaceList, config, ipset, ebpf, inForce
  <1>3. /\ p'.at = p.at /\ p'.op = p.op /\ p'.took = p.took /\ p'.read = p.read
        /\ p.during \subseteq p'.during
        /\ p.during # {} => list' \in p'.during
    BY <1>1 DEF ReplaceList, Proc
  <1>4. KindInv'
    BY <1>1, <1>2, <1>3, VersionFacts DEF KindInv, IpsetPoints, BpfPoints
  <1>5. kind = "ipset" => IpsetInv'
    BY <1>1, <1>2, <1>3, VersionFacts DEF IpsetInv, IpsetPoints, BpfPoints
  <1>6. kind = "cnip" => CnipInv'
    BY <1>1, <1>2, <1>3, VersionFacts DEF CnipInv, IpsetPoints, BpfPoints, Since
  <1>7. kind = "app" => AppInv'
    BY <1>1, <1>2, <1>3, VersionFacts DEF AppInv, IpsetPoints, BpfPoints
  <1> QED
    BY <1>2, <1>3, <1>4, <1>5, <1>6, <1>7, ForceKept

-----------------------------------------------------------------------------
(* The invariant and what follows *)

LEMMA ForceInit == LiveInit => ForceInv
  <1> SUFFICES ASSUME LiveInit PROVE ForceInv
    OBVIOUS
  <1>1. LiveInv
    BY LiveInitInv
  <1>2. p.at = "idle" /\ p.op = "none" /\ p.took = NoFile
    BY DEF LiveInit, Idle
  <1>3. list \in Nat /\ stamp = 0 /\ print = 0
    BY VersionFacts DEF LiveInit
  <1>4. KindInv
    BY <1>2, VersionFacts DEF LiveInit, KindInv, IpsetPoints, BpfPoints
  <1>5. IpsetInv
    BY <1>2, <1>3 DEF LiveInit, IpsetInv, IpsetPoints
  <1>6. CnipInv
    BY <1>2, <1>3 DEF LiveInit, CnipInv, BpfPoints
  <1>7. AppInv
    BY <1>2 DEF LiveInit, AppInv, BpfPoints
  <1> QED
    BY <1>1, <1>4, <1>5, <1>6, <1>7 DEF ForceInv

LEMMA ForceNext == ForceInv /\ [LiveNext]_liveVars => ForceInv'
  <1> SUFFICES ASSUME ForceInv, [LiveNext]_liveVars PROVE ForceInv'
    OBVIOUS
  <1>1. LiveInv'
    BY LiveNextInv DEF ForceInv
  <1>2. CASE LiveStep
    BY <1>1, <1>2, CheckIpsetForce, FlushIpsetForce, AddToIpsetForce, SwapIpsetForce,
       StampIpsetForce, StartMatcherForce, NoMatcherForce, BpfApplyForce,
       BpfUpdateForce, SavePrintForce, RulesOffForce, PinsOffForce, InstallGroupForce,
       InstallFailsForce, InstalledForce, RefreshForce DEF LiveStep
  <1>3. ASSUME NEW op \in {"apply", "clear", "refresh", "reload"}, Call(op)
        PROVE  ForceInv'
    BY <1>1, <1>3, CallForce
  <1>4. CASE Answer \/ Killed
    BY <1>1, <1>4, IdleForce
  <1>5. CASE Reboot
    BY <1>1, <1>5, RebootForce
  <1>6. CASE Move \/ UNCHANGED liveVars
    <2>1. UNCHANGED <<kind, list, stamp, raced, set, print, maps, progs, use,
                      held, failed, p>>
      BY <1>6 DEF Move, liveVars, config, world, locals, ipset, ebpf, inForce
    <2> QED
      BY <1>1, <2>1, SameForce
  <1>7. CASE ReplaceList
    BY <1>1, <1>7, ReplaceListForce
  <1> QED
    BY <1>2, <1>3, <1>4, <1>5, <1>6, <1>7 DEF LiveNext

\* An Ok from apply or reload means that the installed rules ask a set or map
\* that holds, whole, a version of the list that was there while the command
\* ran: stamp and fingerprint may be trusted, with the exceptions that
\* OkMeansInForce names.
THEOREM OkIsInForce == LiveSpec => []OkMeansInForce
  <1>1. ForceInv => OkMeansInForce
    <2> SUFFICES ASSUME ForceInv, p.at = "ok", p.op \in {"apply", "reload"},
                        use # "none",
                        CASE kind = "ipset" -> ~ raced
                          [] kind = "cnip"  -> p.op = "apply" \/ use = "pin"
                          [] kind = "app"   -> p.op = "apply" \/ ~ failed
                 PROVE  \E v \in p.during : Seen = Entries(v)
      BY DEF OkMeansInForce
    <2>1. ForceParts /\ use \in {"none", "set", "pin", "frozen", "owner"}
      BY ForceFacts DEF ForceParts, LiveTypeOK
    <2> USE DEF ForceParts
    <2>2. CASE kind = "ipset"
      <3>1. use = "set" /\ set # Absent /\ ~ raced
        BY <2>1, <2>2 DEF KindInv, SetInv
      <3>2. \E v \in p.during : set = Entries(v)
        BY <2>1, <2>2, <3>1 DEF IpsetInv
      <3> QED
        BY <3>1, <3>2 DEF Seen
    <2>3. CASE kind = "cnip"
      <3>1. use = "pin" /\ \E v \in p.during : maps = Entries(v)
        BY <2>1, <2>3 DEF CnipInv
      <3> QED
        BY <3>1 DEF Seen
    <2>4. CASE kind = "app"
      <3>1. /\ use = "pin" => maps = Entries(p.took)
            /\ use = "owner" => held = Entries(p.took)
            /\ use \in {"pin", "owner"}
        BY <2>1, <2>4 DEF AppInv, MapInv, KindInv
      <3>2. p.took \in p.during
        BY <2>1 DEF KindInv
      <3> QED
        BY <3>1, <3>2 DEF Seen
    <2> QED
      BY <2>1, <2>2, <2>3, <2>4 DEF Kinds
  <1> QED
    BY <1>1, ForceInit, ForceNext, PTL DEF LiveSpec
=============================================================================
