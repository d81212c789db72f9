------------------------------ MODULE Netfilter ------------------------------
(* What the kernel does with the rules: matching one rule, walking a chain and *)
(* the chains it jumps to, marks as sets of bits.  It is not part of the       *)
(* repository: the module states the semantics the rules are written for.      *)
EXTENDS Integers, Sequences, SequencesExt, TLC

\* Bits of the packet mark the rules use (FWMARK 1<<24, TUN_BYPASS_MARK 1<<25,
\* TUN_ROUTE_MARK both).  "--set-xmark v/v" adds the bits of v to the mark and
\* "--mark v/v" holds when all of them are set.
Bits(m) == CASE m = "FWMARK"     -> {24}
             [] m = "TUN_BYPASS" -> {25}
             [] m = "TUN_ROUTE"  -> {24, 25}

\* One rule: the options it matches on, as a record (<<>> matches everything),
\* its target and the target's argument.
Rule(on, target, arg) == << [on |-> on, target |-> target, arg |-> arg] >>

\* The options of two records together.
Also(on, more) == [k \in DOMAIN on \cup DOMAIN more |-> IF k \in DOMAIN on THEN on[k] ELSE more[k]]

\* Does packet p meet the option named k with value v?  p.to is the set of
\* the address classes its destination belongs to.
Meets(p, k, v) ==
  CASE k = "p"         -> p.proto = v
    [] k = "not_p"     -> p.proto # v
    [] k = "dport"     -> p.dport = v
    [] k = "not_dport" -> p.dport # v
    [] k = "d"         -> v \in p.to
    [] k = "i"         -> p.iface = v
    [] k = "mac"       -> p.mac = v
    [] k = "uid"       -> p.uid = v
    [] k = "gid"       -> p.gid = v
    [] k = "app"       -> p.uid \in v
    [] k = "syn"       -> p.syn = v
    [] k = "new"       -> p.new = v
    [] k = "reply"     -> p.reply = v
    [] k = "socket"    -> p.socket = v
    [] k = "mark"      -> Bits(v) \subseteq p.mark
    [] k = "connmark"  -> Bits(v) \subseteq p.cmark

Matches(p, on) == \A k \in DOMAIN on : Meets(p, k, on[k])

\* What rule r makes of packet p, if the walk has not ended before it: it marks the
\* packet, sends it through another chain (jumped is what comes out of that),
\* or ends the walk.
After(r, p, jumped) ==
  IF p.verdict # "CONTINUE" \/ ~Matches(p, r.on) THEN p
  ELSE CASE r.target = "MARK"     -> [p EXCEPT !.mark = @ \cup Bits(r.arg)]
         [] r.target = "CONNMARK" -> [p EXCEPT !.cmark = @ \cup Bits(r.arg)]
         [] r.target = "JUMP"     -> jumped
         [] OTHER                 -> [p EXCEPT !.verdict = r.target, !.port = r.arg]

\* RETURN ends the walk of its chain only.
Left(p) == IF p.verdict = "RETURN" THEN [p EXCEPT !.verdict = "CONTINUE"] ELSE p

\* Chains are three deep: a chain of the system's jumps to one of boxctl's, which
\* jumps to one that jumps no further.
AfterInner(T, r, p) == After(r, p, p)
Inner == INSTANCE ChainWalk WITH After <- AfterInner
AfterMiddle(T, r, p) == After(r, p, Left(Inner!Run(T, T[r.arg], p)))
Middle == INSTANCE ChainWalk WITH After <- AfterMiddle
AfterOuter(T, r, p) == After(r, p, Left(Middle!Run(T, T[r.arg], p)))
Outer == INSTANCE ChainWalk WITH After <- AfterOuter

Walk(T, name, p) == Left(Outer!Run(T, T[name], [p EXCEPT !.verdict = "CONTINUE"]))
=============================================================================
