-------------------------- MODULE PacketPathProofs ---------------------------
(***************************************************************************)
(* Proofs about the chains and what passes them, for all settings,         *)
(* connections and lists that PacketPath assumes: that the core's own      *)
(* packets are never captured, that answers reach who asked, and that what *)
(* the user left out and where the rules are to let go is left alone.      *)
(*                                                                         *)
(* A chain is put together by a dozen operators from the settings, so the  *)
(* proofs follow the operators.  Every chain for outgoing packets of one's *)
(* own begins with the core's bypass (CoreBypass), every chain for what    *)
(* comes in with that of answers (ReplyBypass) or decides nothing about an *)
(* answer; what begins so is left at once (HeadEnds), and the system's     *)
(* chains, which jump there, do nothing else to such a packet (RunStays).  *)
(* The rest wants the whole chain: Gives(rules, p, W) says how packet p    *)
(* can come out of rules, a lemma for each operator says so of the rules   *)
(* it makes, and GivesBoth, GivesFirst and GivesLast put them together.    *)
(***************************************************************************)
EXTENDS PacketPath, FiniteSetTheorems, TLAPS

-----------------------------------------------------------------------------
(* Sequences of rules. *)

IsSeq(s) == \E R : s \in Seq(R)

AfterGlue(F, r, p) == p \o r
Glue == INSTANCE ChainWalk WITH After <- AfterGlue

\* What FlattenSeq makes of sequences over a set is one of them.
LEMMA FlattenSeqIn ==
    ASSUME NEW R, NEW q \in Seq(Seq(R))
    PROVE  FlattenSeq(q) \in Seq(R)
  <1>1. CASE Len(q) = 0
    <2>1. q = <<>>
      BY <1>1
    <2> QED BY <1>1, <2>1 DEF FlattenSeq
  <1>2. CASE Len(q) # 0
    <2> DEFINE Fits(g) == g = [i \in 1 .. Len(q) |-> IF i = 1 THEN q[i] ELSE g[i - 1] \o q[i]]
               fl == CHOOSE g : Fits(g)
               st == Glue!Steps(<<>>, q, <<>>)
               h == [i \in 1 .. Len(q) |-> st[i]]
               S == {i \in Nat : i \in 1 .. Len(q) => fl[i] \in Seq(R)}
    <2>0. Len(q) \in Nat /\ \A i \in 1 .. Len(q) : q[i] \in Seq(R)
      OBVIOUS
    <2>1. \A i \in 0 .. Len(q) : st[i] = IF i = 0 THEN <<>> ELSE st[i - 1] \o q[i]
      BY <2>0, Glue!StepsAt DEF AfterGlue
    <2> HIDE DEF st
    <2>2. ASSUME NEW i \in 1 .. Len(q)
          PROVE  h[i] = IF i = 1 THEN q[i] ELSE h[i - 1] \o q[i]
      <3>1. CASE i = 1
        <4>0. 0 \in 0 .. Len(q) /\ 1 \in 0 .. Len(q) /\ 1 - 1 = 0
          BY <2>0, <3>1
        <4>1. st[0] = <<>>
          BY ONLY <2>1, <4>0
        <4>3. st[1] = st[0] \o q[1]
          <5>1. st[1] = st[1 - 1] \o q[1]
            BY ONLY <2>1, <4>0, 1 # 0
          <5> QED BY <4>0, <5>1
        <4>2. <<>> \o q[1] = q[1]
          BY <2>0, <3>1
        <4> QED BY <3>1, <4>1, <4>2, <4>3
      <3>2. CASE i # 1
        <4>1. i \in 0 .. Len(q) /\ i # 0 /\ i - 1 \in 1 .. Len(q)
          BY <2>0, <3>2
        <4>2. st[i] = st[i - 1] \o q[i]
          BY <2>1, <4>1
        <4> QED BY <3>2, <4>1, <4>2
      <3> QED BY <3>1, <3>2
    <2>3. Fits(h)
      BY <2>2
    <2> HIDE DEF h, Fits
    <2>4. Fits(fl)
      BY <2>3
    <2>5. FlattenSeq(q) = fl[Len(q)]
      BY <1>2 DEF FlattenSeq, Fits
    <2> HIDE DEF fl
    <2>6. \A i \in 1 .. Len(q) : fl[i] = IF i = 1 THEN q[i] ELSE fl[i - 1] \o q[i]
      BY <2>4 DEF Fits
    <2>7. 0 \in S
      OBVIOUS
    <2>8. ASSUME NEW i \in S PROVE i + 1 \in S
      <3> SUFFICES ASSUME i + 1 \in 1 .. Len(q) PROVE fl[i + 1] \in Seq(R)
        OBVIOUS
      <3>1. CASE i = 0
        BY <2>0, <2>6, <3>1
      <3>2. CASE i # 0
        <4>1. i \in 1 .. Len(q) /\ i + 1 # 1 /\ i + 1 - 1 = i
          BY <2>0, <3>2
        <4>2. fl[i + 1] = fl[i] \o q[i + 1]
          <5> DEFINE k == i + 1
          <5>1. k \in 1 .. Len(q) /\ k # 1 /\ k - 1 = i
            BY <4>1
          <5> HIDE DEF k
          <5>2. fl[k] = fl[k - 1] \o q[k]
            BY ONLY <2>6, <5>1
          <5> QED BY <5>1, <5>2 DEF k
        <4>3. fl[i] \in Seq(R) /\ q[i + 1] \in Seq(R)
          BY <2>0, <4>1
        <4> QED BY <4>2, <4>3
      <3> QED BY <3>1, <3>2
    <2>9. S = Nat
      BY <2>7, <2>8, Glue!Induction
    <2> QED BY <1>2, <2>0, <2>5, <2>9
  <1> QED BY <1>1, <1>2

\* A finite set is listed by SetToSeq.
LEMMA Listing ==
    ASSUME NEW S, IsFiniteSet(S)
    PROVE  Cardinality(S) \in Nat /\ SetToSeq(S) \in [1 .. Cardinality(S) -> S]
  <1>1. Cardinality(S) \in Nat /\ ExistsBijection(1 .. Cardinality(S), S)
    BY FS_CardinalityType
  <1>2. \E g \in [1 .. Cardinality(S) -> S] : IsInjective(g)
    BY <1>1 DEF ExistsBijection, Bijection, Injection, IsInjective
  <1> QED BY <1>1, <1>2 DEF SetToSeq

LEMMA ConcatIn ==
    ASSUME NEW R, NEW g, IsFiniteSet(DOMAIN g), \A x \in DOMAIN g : g[x] \in Seq(R)
    PROVE  Concat(g) \in Seq(R)
  <1> DEFINE q == SetToSeq(DOMAIN g)
             qs == [i \in DOMAIN q |-> g[q[i]]]
  <1>1. q \in [1 .. Cardinality(DOMAIN g) -> DOMAIN g] /\ Cardinality(DOMAIN g) \in Nat
    BY Listing
  <1>2. qs \in Seq(Seq(R))
    <2> HIDE DEF q
    <2>1. DOMAIN q = 1 .. Cardinality(DOMAIN g) /\ \A i \in DOMAIN q : q[i] \in DOMAIN g
      BY <1>1
    <2>2. qs \in [1 .. Cardinality(DOMAIN g) -> Seq(R)]
      BY <2>1
    <2> HIDE DEF qs
    <2> QED BY <1>1, <2>2
  <1>3. Concat(g) = FlattenSeq(qs)
    BY DEF Concat
  <1> HIDE DEF qs
  <1> QED BY <1>2, <1>3, FlattenSeqIn

\* Rules put together are a sequence, and each of them is one of those put together.
LEMMA ConcatEach ==
    ASSUME NEW g, IsFiniteSet(DOMAIN g), \A x \in DOMAIN g : IsSeq(g[x])
    PROVE  /\ IsSeq(Concat(g))
           /\ \A j \in 1 .. Len(Concat(g)) :
                \E x \in DOMAIN g : \E k \in 1 .. Len(g[x]) : Concat(g)[j] = g[x][k]
  <1> DEFINE R == UNION {{g[x][k] : k \in 1 .. Len(g[x])} : x \in DOMAIN g}
  <1>1. ASSUME NEW x \in DOMAIN g PROVE g[x] \in Seq(R)
    <2>1. PICK Q : g[x] \in Seq(Q)
      BY DEF IsSeq
    <2>2. \A k \in 1 .. Len(g[x]) : g[x][k] \in R
      OBVIOUS
    <2> HIDE DEF R
    <2> QED BY <2>1, <2>2
  <1> HIDE DEF R
  <1>2. Concat(g) \in Seq(R)
    BY <1>1, ConcatIn
  <1>3. \A j \in 1 .. Len(Concat(g)) : Concat(g)[j] \in R
    BY <1>2
  <1> QED BY <1>2, <1>3 DEF R, IsSeq

LEMMA SeqLen ==
    ASSUME NEW s, IsSeq(s)
    PROVE  Len(s) \in Nat
  BY DEF IsSeq

LEMMA JoinSeq ==
    ASSUME NEW a, NEW b, IsSeq(a), IsSeq(b)
    PROVE  /\ IsSeq(a \o b)
           /\ Len(a \o b) = Len(a) + Len(b)
           /\ \A i \in 1 .. Len(a \o b) :
                \/ i \in 1 .. Len(a) /\ (a \o b)[i] = a[i]
                \/ i - Len(a) \in 1 .. Len(b) /\ (a \o b)[i] = b[i - Len(a)]
  <1>1. PICK R : a \in Seq(R)
    BY DEF IsSeq
  <1>2. PICK Q : b \in Seq(Q)
    BY DEF IsSeq
  <1>3. a \in Seq(R \cup Q) /\ b \in Seq(R \cup Q)
    BY <1>1, <1>2
  <1>4. a \o b \in Seq(R \cup Q)
    BY <1>3
  <1> QED BY <1>3, <1>4 DEF IsSeq

LEMMA NoSeq == IsSeq(<<>>)
  <1>1. <<>> \in Seq({})
    OBVIOUS
  <1> QED BY <1>1 DEF IsSeq

LEMMA OneSeq ==
    ASSUME NEW r
    PROVE  IsSeq(<<r>>) /\ Len(<<r>>) = 1 /\ <<r>>[1] = r
  <1>1. <<r>> \in Seq({r})
    OBVIOUS
  <1> QED BY <1>1 DEF IsSeq

LEMMA WhenSeq ==
    ASSUME NEW b, NEW s, b => IsSeq(s)
    PROVE  IsSeq(When(b, s))
  BY NoSeq DEF When

\* The rules of one element each, in some order.
LEMMA EachSeq ==
    ASSUME NEW S, NEW g, IsFiniteSet(S), DOMAIN g = S, \A x \in S : IsSeq(g[x])
    PROVE  IsSeq(Concat(g))
  BY ConcatEach

-----------------------------------------------------------------------------
(* Walking a chain of boxctl's. *)

\* A walk that has ended goes through the rest of the chain as it is.
LEMMA Ended ==
    ASSUME NEW tt, NEW s, NEW q, IsSeq(s), q.verdict # "CONTINUE"
    PROVE  Middle!Run(tt, s, q) = q
  <1>1. \A i \in 1 .. Len(s), x \in {q} : AfterMiddle(tt, s[i], x) \in {q}
    BY DEF AfterMiddle, After
  <1>2. Len(s) \in Nat /\ q \in {q}
    BY SeqLen
  <1> HIDE DEF AfterMiddle
  <1>3. Middle!Run(tt, s, q) \in {q}
    BY <1>1, <1>2, Middle!RunStays
  <1> QED BY <1>3

\* A first rule that ends the walk decides it.
LEMMA HeadEnds ==
    ASSUME NEW tt, NEW r, NEW s, NEW p, IsSeq(s), AfterMiddle(tt, r, p).verdict # "CONTINUE"
    PROVE  Middle!Run(tt, <<r>> \o s, p) = AfterMiddle(tt, r, p)
  <1>1. Len(<<r>>) \in Nat /\ Len(s) \in Nat
    BY SeqLen
  <1>2. Middle!Run(tt, <<r>> \o s, p) = Middle!Run(tt, s, Middle!Run(tt, <<r>>, p))
    BY <1>1, Middle!RunAppend
  <1>3. Middle!Run(tt, <<r>>, p) = AfterMiddle(tt, r, p)
    BY Middle!RunOne
  <1>4. Middle!Run(tt, s, AfterMiddle(tt, r, p)) = AfterMiddle(tt, r, p)
    BY Ended
  <1> QED BY <1>2, <1>3, <1>4

-----------------------------------------------------------------------------
(* The core's own packets. *)

IsPacket(p) ==
  p = [proto |-> p.proto, dport |-> p.dport, to |-> p.to, iface |-> p.iface, mac |-> p.mac,
       uid |-> p.uid, gid |-> p.gid, syn |-> p.syn, new |-> p.new, reply |-> p.reply,
       socket |-> p.socket, mark |-> p.mark, cmark |-> p.cmark, verdict |-> p.verdict,
       port |-> p.port]

\* The first rule of a chain for this host's packets lets the core's go, by
\* whichever owner match there is.
LEMMA CoreReturned ==
    ASSUME NEW s, s.owner \in {"both", "uid", "gid"}, NEW tt, NEW rest, IsSeq(rest),
           NEW p, IsPacket(p), p.verdict = "CONTINUE", p.port = "none", p.uid = BoxUid, p.gid = BoxGid
    PROVE  Left(Middle!Run(tt, CoreBypass(s) \o rest, p)) = p
  <1> DEFINE on == CASE s.owner = "both" -> [uid |-> BoxUid, gid |-> BoxGid]
                     [] s.owner = "uid"  -> [uid |-> BoxUid]
                     [] s.owner = "gid"  -> [gid |-> BoxGid]
             r == [on |-> on, target |-> "RETURN", arg |-> "none"]
             q == [p EXCEPT !.verdict = "RETURN", !.port = "none"]
  <1>1. CoreBypass(s) = <<r>>
    BY DEF CoreBypass, Return, Rule
  <1>2. Matches(p, r.on)
    <2>1. CASE s.owner = "both"
      <3>1. r.on = [uid |-> BoxUid, gid |-> BoxGid]
        BY <2>1
      <3>2. DOMAIN r.on = {"uid", "gid"} /\ r.on["uid"] = BoxUid /\ r.on["gid"] = BoxGid
        BY <3>1
      <3> HIDE DEF r
      <3>3. Meets(p, "uid", BoxUid) /\ Meets(p, "gid", BoxGid)
        BY DEF Meets
      <3> QED BY <3>2, <3>3 DEF Matches
    <2>2. CASE s.owner = "uid"
      BY <2>2 DEF Matches, Meets
    <2>3. CASE s.owner = "gid"
      BY <2>3 DEF Matches, Meets
    <2> QED BY <2>1, <2>2, <2>3
  <1>3. r.target = "RETURN" /\ r.arg = "none"
    OBVIOUS
  <1> HIDE DEF r
  <1>4. AfterMiddle(tt, r, p) = q
    BY <1>2, <1>3 DEF AfterMiddle, After
  <1>5. q.verdict = "RETURN" /\ [q EXCEPT !.verdict = "CONTINUE"] = p
    BY DEF IsPacket
  <1> HIDE DEF q
  <1>6. Middle!Run(tt, <<r>> \o rest, p) = q
    BY <1>4, <1>5, HeadEnds
  <1> QED BY <1>1, <1>5, <1>6 DEF Left

-----------------------------------------------------------------------------
(* The builders give sequences. *)

Finite(s) == /\ IsFiniteSet(s.selected_uids) /\ IsFiniteSet(s.selected_gids)
             /\ IsFiniteSet(s.cnip_force_uids)

LEMMA RuleSeq ==
    ASSUME NEW on, NEW t, NEW a
    PROVE  IsSeq(Rule(on, t, a))
  BY OneSeq DEF Rule

LEMMA DoSeq ==
    ASSUME NEW action \in {"Redirect", "Tproxy", "Mark", "MarkReturn", "TunRoute", "Return"}, NEW on
    PROVE  IsSeq(Do(action, on))
  <1>1. IsSeq(Redirect(on)) /\ IsSeq(Tproxy(on)) /\ IsSeq(Return(on))
    BY RuleSeq DEF Redirect, Tproxy, Return
  <1>2. ASSUME NEW m PROVE IsSeq(Mark(on, m)) /\ IsSeq(MarkReturn(on, m))
    BY <1>1, RuleSeq, JoinSeq DEF Mark, MarkReturn
  <1> QED BY <1>1, <1>2 DEF Do

LEMMA SomeProtos ==
    ASSUME NEW protos \in SUBSET {"tcp", "udp"}
    PROVE  IsFiniteSet(protos)
  <1>1. IsFiniteSet({"tcp", "udp"})
    <2>1. IsFiniteSet({"tcp"})
      BY FS_Singleton
    <2>2. IsFiniteSet({"tcp"} \cup {"udp"})
      BY <2>1, FS_AddElement
    <2>3. {"tcp", "udp"} = {"tcp"} \cup {"udp"}
      OBVIOUS
    <2> QED BY <2>2, <2>3
  <1> QED BY <1>1, FS_Subset

LEMMA ProtocolRulesSeq ==
    ASSUME NEW protos \in SUBSET {"tcp", "udp"}, NEW on,
           NEW action \in {"Redirect", "Tproxy", "Mark", "MarkReturn", "TunRoute", "Return"}
    PROVE  IsSeq(ProtocolRules(protos, on, action))
  <1> DEFINE g == [p \in protos |-> Do(action, Also([p |-> p], on))]
  <1>1. \A p \in protos : IsSeq(g[p])
    BY DoSeq
  <1>2. DOMAIN g = protos /\ IsFiniteSet(protos)
    BY SomeProtos
  <1> HIDE DEF g
  <1>3. IsSeq(Concat(g))
    BY <1>1, <1>2, EachSeq
  <1> QED BY <1>3 DEF g, ProtocolRules, ForEach

\* One rule for each element of a finite set.
LEMMA OneEachSeq ==
    ASSUME NEW S, NEW g, IsFiniteSet(S), DOMAIN g = S,
           \A x \in S : \E r : g[x] = <<r>>
    PROVE  IsSeq(Concat(g))
  <1>1. \A x \in S : IsSeq(g[x])
    BY OneSeq
  <1> QED BY <1>1, EachSeq

LEMMA ProtoSets ==
    ASSUME NEW s
    PROVE  /\ MangleProtos(s) \in SUBSET {"tcp", "udp"}
           /\ Protos(s) \in SUBSET {"tcp", "udp"}
           /\ DnsProtos(s) \in SUBSET {"tcp", "udp"}
  BY DEF MangleProtos, Protos, DnsProtos

\* The owner rules are as finite as the lists they are made from.
LEMMA OwnerSets ==
    ASSUME NEW s, Finite(s)
    PROVE  IsFiniteSet(Uids(s)) /\ IsFiniteSet(Gids(s)) /\ IsFiniteSet(System)
  <1>1. ASSUME NEW S, IsFiniteSet(S) PROVE IsFiniteSet({[uid |-> u] : u \in S})
    <2> DEFINE g == [u \in S |-> [uid |-> u]]
               I == {g[u] : u \in S}
    <2>1. IsFiniteSet(I)
      <3>1. g \in Surjection(S, I)
        BY DEF Surjection
      <3> QED BY <1>1, <3>1, FS_Surjection
    <2> QED BY <2>1
  <1>2. ASSUME NEW S, IsFiniteSet(S) PROVE IsFiniteSet({[gid |-> u] : u \in S})
    <2> DEFINE g == [u \in S |-> [gid |-> u]]
               I == {g[u] : u \in S}
    <2>1. IsFiniteSet(I)
      <3>1. g \in Surjection(S, I)
        BY DEF Surjection
      <3> QED BY <1>2, <3>1, FS_Surjection
    <2> QED BY <2>1
  <1>3. IsFiniteSet({[app |-> s.selected_uids]})
    BY FS_Singleton
  <1>4. IsFiniteSet(SystemUids)
    <2>1. IsFiniteSet({"0"})
      BY FS_Singleton
    <2>2. IsFiniteSet({"0"} \cup {"1052"})
      BY <2>1, FS_AddElement
    <2>3. SystemUids = {"0"} \cup {"1052"}
      BY DEF SystemUids
    <2> QED BY <2>2, <2>3
  <1> QED BY <1>1, <1>2, <1>3, <1>4 DEF Finite, Uids, Gids, System

\* One or more protocol rules for each element of a finite set.
LEMMA ProtocolsEachSeq ==
    ASSUME NEW S, IsFiniteSet(S), NEW protos \in SUBSET {"tcp", "udp"},
           NEW action \in {"Redirect", "Tproxy", "Mark", "MarkReturn", "TunRoute", "Return"}
    PROVE  IsSeq(Concat([on \in S |-> ProtocolRules(protos, on, action)]))
  <1> DEFINE g == [on \in S |-> ProtocolRules(protos, on, action)]
  <1>1. \A on \in S : IsSeq(g[on])
    BY ProtocolRulesSeq
  <1>2. DOMAIN g = S
    OBVIOUS
  <1> HIDE DEF g
  <1>3. IsSeq(Concat(g))
    BY <1>1, <1>2, EachSeq
  <1> QED BY <1>3 DEF g

\* One RETURN for each element of a finite set, and one ACCEPT.
LEMMA ReturnEachSeq ==
    ASSUME NEW S, IsFiniteSet(S)
    PROVE  /\ IsSeq(Concat([on \in S |-> Return(on)]))
           /\ IsSeq(Concat([on \in S |-> Accept(on)]))
           /\ IsSeq(Concat([i \in S |-> Return([i |-> i])]))
  <1> DEFINE g == [on \in S |-> Return(on)]
             h == [on \in S |-> Accept(on)]
             k == [i \in S |-> Return([i |-> i])]
  <1>1. \A on \in S : IsSeq(g[on]) /\ IsSeq(h[on]) /\ IsSeq(k[on])
    BY RuleSeq DEF Return, Accept
  <1>2. DOMAIN g = S /\ DOMAIN h = S /\ DOMAIN k = S
    OBVIOUS
  <1> HIDE DEF g, h, k
  <1>3. IsSeq(Concat(g)) /\ IsSeq(Concat(h)) /\ IsSeq(Concat(k))
    BY <1>1, <1>2, EachSeq
  <1> QED BY <1>3 DEF g, h, k

LEMMA CommonBypassSeq ==
    ASSUME NEW s
    PROVE  IsSeq(CommonBypass(s)) /\ IsSeq(ReplyBypass(s))
  <1>1. \A on : IsSeq(Return(on)) /\ IsSeq(Jump(on, "LOCAL_IP"))
    BY RuleSeq DEF Return, Jump
  <1>2. IsSeq(When(CnipMatcher(s), Return([d |-> "cn"])))
    BY <1>1, WhenSeq
  <1>3. IsSeq(Return([d |-> "subnet"]) \o When(CnipMatcher(s), Return([d |-> "cn"])))
    BY <1>1, <1>2, JoinSeq
  <1>4. IsSeq(CommonBypass(s))
    BY <1>1, <1>3, JoinSeq DEF CommonBypass
  <1> QED BY <1>1, <1>4, WhenSeq DEF ReplyBypass

LEMMA CnipForceSeq ==
    ASSUME NEW s, Finite(s), NEW protos \in SUBSET {"tcp", "udp"},
           NEW action \in {"Redirect", "Tproxy", "Mark", "MarkReturn", "TunRoute", "Return"}
    PROVE  IsSeq(CnipForce(s, protos, action))
  <1> DEFINE g == [p \in protos |-> Do(action, [p |-> p, d |-> "cn", app |-> s.cnip_force_uids])]
             h(u) == [p \in protos |-> Do(action, [p |-> p, d |-> "cn", uid |-> u])]
             k == [u \in s.cnip_force_uids |-> Concat(h(u))]
  <1>0. IsFiniteSet(protos) /\ IsFiniteSet(s.cnip_force_uids)
    BY SomeProtos DEF Finite
  <1>1. (\A p \in protos : IsSeq(g[p])) /\ DOMAIN g = protos
    BY DoSeq
  <1>2. ASSUME NEW u PROVE (\A p \in protos : IsSeq(h(u)[p])) /\ DOMAIN h(u) = protos
    BY DoSeq
  <1>3. IsSeq(Concat(g))
    <2> HIDE DEF g
    <2> QED BY <1>0, <1>1, EachSeq
  <1>4. ASSUME NEW u PROVE IsSeq(Concat(h(u)))
    <2> DEFINE hu == h(u)
    <2>1. (\A p \in protos : IsSeq(hu[p])) /\ DOMAIN hu = protos
      BY <1>2
    <2> HIDE DEF hu
    <2>2. IsSeq(Concat(hu))
      BY <1>0, <2>1, EachSeq
    <2> QED BY <2>2 DEF hu
  <1>5. (\A u \in s.cnip_force_uids : IsSeq(k[u])) /\ DOMAIN k = s.cnip_force_uids
    <2> HIDE DEF h
    <2> QED BY <1>4
  <1>6. IsSeq(Concat(k))
    <2> HIDE DEF k
    <2> QED BY <1>0, <1>5, EachSeq
  <1>7. IsSeq(IF s.cnip = "ebpf" THEN Concat(g) ELSE Concat(k))
    <2> HIDE DEF g, k
    <2> QED BY <1>3, <1>6
  <1>8. IsSeq(When(CnipMatcher(s) /\ s.cnip_force_uids # {},
                   IF s.cnip = "ebpf" THEN Concat(g) ELSE Concat(k)))
    <2> HIDE DEF g, k
    <2> QED BY <1>7, WhenSeq
  <1> QED BY <1>8 DEF CnipForce, ForEach

LEMMA LocalProxyRulesSeq ==
    ASSUME NEW s, Finite(s), NEW protos \in SUBSET {"tcp", "udp"},
           NEW action \in {"Redirect", "Mark"}
    PROVE  IsSeq(LocalProxyRules(s, protos, action))
  <1> DEFINE take(S) == Concat([on \in S |-> ProtocolRules(protos, on, action)])
             ret(S) == Concat([on \in S |-> Return(on)])
  <1>1. IsFiniteSet(Uids(s)) /\ IsFiniteSet(Gids(s)) /\ IsFiniteSet(System)
    BY OwnerSets
  <1>2. IsSeq(take(Uids(s))) /\ IsSeq(take(Gids(s))) /\ IsSeq(take(System))
    BY <1>1, ProtocolsEachSeq
  <1>3. IsSeq(ret(Uids(s))) /\ IsSeq(ret(Gids(s)))
    BY <1>1, ReturnEachSeq
  <1>4. IsSeq(ProtocolRules(protos, <<>>, action))
    BY ProtocolRulesSeq
  <1> HIDE DEF take, ret
  <1>5. IsSeq(ret(Uids(s)) \o ret(Gids(s))) /\ IsSeq(take(Uids(s)) \o take(System))
    BY <1>2, <1>3, JoinSeq
  <1>6. IsSeq(ret(Uids(s)) \o ret(Gids(s)) \o ProtocolRules(protos, <<>>, action))
    BY <1>4, <1>5, JoinSeq
  <1>7. IsSeq(take(Uids(s)) \o take(System) \o take(Gids(s)))
    BY <1>2, <1>5, JoinSeq
  <1> QED BY <1>4, <1>6, <1>7 DEF take, ret, LocalProxyRules, ForEach

LEMMA DnsSeq ==
    ASSUME NEW s
    PROVE  /\ IsSeq(DnsReturn(s)) /\ IsSeq(DnsTproxy(s)) /\ IsSeq(DnsMark(s))
           /\ IsSeq(MangleDns(s, DnsTproxy(s))) /\ IsSeq(MangleDns(s, DnsMark(s)))
  <1> DEFINE S == DnsProtos(s) \ (IF Enhance(s) THEN {"tcp"} ELSE {})
             Q == DnsProtos(s) \cap MangleProtos(s)
             g == [p \in S |-> Return([p |-> p, dport |-> "53"])]
             h == [p \in Q |-> Tproxy([p |-> p, dport |-> "53"])]
             k == [p \in Q |-> Mark([p |-> p, dport |-> "53"], "FWMARK")]
  <1>0. IsFiniteSet(S) /\ IsFiniteSet(Q)
    <2>1. S \in SUBSET {"tcp", "udp"} /\ Q \in SUBSET {"tcp", "udp"}
      BY ProtoSets
    <2> HIDE DEF S, Q
    <2> QED BY <2>1, SomeProtos
  <1> HIDE DEF S, Q
  <1>1. /\ \A p \in S : IsSeq(g[p])
        /\ \A p \in Q : IsSeq(h[p]) /\ IsSeq(k[p])
        /\ DOMAIN g = S /\ DOMAIN h = Q /\ DOMAIN k = Q
    BY RuleSeq DEF Return, Tproxy, Mark
  <1> HIDE DEF g, h, k
  <1>2. IsSeq(Concat(g)) /\ IsSeq(Concat(h)) /\ IsSeq(Concat(k))
    BY <1>0, <1>1, EachSeq
  <1>3. DnsReturn(s) = Concat(g) /\ DnsTproxy(s) = Concat(h) /\ DnsMark(s) = Concat(k)
    BY DEF g, h, k, S, Q, DnsReturn, DnsTproxy, DnsMark, ForEach
  <1> QED BY <1>2, <1>3 DEF MangleDns

LEMMA DnsNatSeq ==
    ASSUME NEW s, NEW protos \in SUBSET {"tcp", "udp"}, NEW inbound
    PROVE  IsSeq(DnsNatRules(s, protos, inbound))
  <1> DEFINE g == [p \in protos |-> Rule([p |-> p, dport |-> "53"], "REDIRECT", "dns")]
             k == Concat([i \in BlockedInterfaces |-> Return([i |-> i])])
  <1>1. (\A p \in protos : IsSeq(g[p])) /\ DOMAIN g = protos /\ IsFiniteSet(protos)
    BY RuleSeq, SomeProtos
  <1>2. IsSeq(Concat(g))
    <2> HIDE DEF g
    <2> QED BY <1>1, EachSeq
  <1>3. IsSeq(k)
    BY ListsAssumption, ReturnEachSeq
  <1> HIDE DEF g, k
  <1>4. IsSeq(When(inbound /\ s.family = "V4", k))
    BY <1>3, WhenSeq
  <1>5. IsSeq(When(inbound /\ s.family = "V4", k) \o Concat(g))
    BY <1>2, <1>4, JoinSeq
  <1> QED BY <1>5 DEF g, k, DnsNatRules, ForEach

LEMMA FakeIp6Seq ==
    ASSUME NEW s, NEW action \in {"Tproxy", "Mark"}
    PROVE  IsSeq(FakeIp6(s, action))
  <1>1. IsSeq(ProtocolRules(MangleProtos(s), [d |-> "fake"], action))
    BY ProtoSets, ProtocolRulesSeq
  <1> QED BY <1>1, WhenSeq DEF FakeIp6

\* The jumps, the memory and the dispatch of performance mode.
LEMMA PerfSeq ==
    ASSUME NEW s, NEW a, NEW b, NEW action \in {"Tproxy", "Mark"}
    PROVE  /\ IsSeq(PerfJumps(s, <<a, b>>))
           /\ IsSeq(PerfConnmark(s)) /\ IsSeq(PerfDispatch(s, action))
  <1> DEFINE S == MangleProtos(s)
             on(p) == IF p = "tcp" THEN [p |-> p, syn |-> TRUE] ELSE [p |-> p, new |-> TRUE]
             j(t) == [p \in S |-> Jump(on(p), t)]
             q == [i \in DOMAIN <<a, b>> |-> Concat(j(<<a, b>>[i]))]
             g == [p \in S |-> Connmark([p |-> p, new |-> TRUE], "FWMARK")]
             h == [p \in S |-> Do(action, [p |-> p, connmark |-> "FWMARK"])]
  <1>0. IsFiniteSet(S)
    BY ProtoSets, SomeProtos
  <1> HIDE DEF S
  <1>1. ASSUME NEW t PROVE IsSeq(Concat(j(t)))
    <2> DEFINE jt == j(t)
    <2>1. (\A p \in S : IsSeq(jt[p])) /\ DOMAIN jt = S
      <3> HIDE DEF on
      <3> QED BY RuleSeq DEF Jump
    <2> HIDE DEF jt
    <2>2. IsSeq(Concat(jt))
      BY <1>0, <2>1, EachSeq
    <2> QED BY <2>2 DEF jt
  <1>2. IsSeq(FlattenSeq(q))
    <2> HIDE DEF j
    <2>1. PICK R : Concat(j(a)) \in Seq(R)
      BY <1>1 DEF IsSeq
    <2>2. PICK Q : Concat(j(b)) \in Seq(Q)
      BY <1>1 DEF IsSeq
    <2>3. Concat(j(a)) \in Seq(R \cup Q) /\ Concat(j(b)) \in Seq(R \cup Q)
      BY <2>1, <2>2
    <2>4. q = <<Concat(j(a)), Concat(j(b))>>
      OBVIOUS
    <2>5. q \in Seq(Seq(R \cup Q))
      BY <2>3, <2>4
    <2> HIDE DEF q
    <2> QED BY <2>5, FlattenSeqIn DEF IsSeq
  <1>3. /\ (\A p \in S : IsSeq(g[p])) /\ DOMAIN g = S
        /\ (\A p \in S : IsSeq(h[p])) /\ DOMAIN h = S
    BY RuleSeq, DoSeq DEF Connmark
  <1>4. IsSeq(Concat(g)) /\ IsSeq(Concat(h))
    <2> HIDE DEF g, h
    <2> QED BY <1>0, <1>3, EachSeq
  <1>5. PerfJumps(s, <<a, b>>) = FlattenSeq(q)
    BY DEF PerfJumps, ForEach, S
  <1>6. PerfConnmark(s) = Concat(g) /\ PerfDispatch(s, action) = Concat(h)
    BY DEF PerfConnmark, PerfDispatch, ForEach, S
  <1> QED BY <1>2, <1>4, <1>5, <1>6

LEMMA MarkSeq ==
    ASSUME NEW on, NEW m
    PROVE  IsSeq(Mark(on, m)) /\ IsSeq(MarkReturn(on, m)) /\ IsSeq(Return(on))
  BY RuleSeq, JoinSeq DEF Mark, MarkReturn, Return

\* The rules of tun's chain for this host's packets, its first rule apart.
LEMMA TunOutSeq ==
    ASSUME NEW s, Finite(s)
    PROVE  /\ IsSeq(TunDns(s)) /\ IsSeq(TunProxyMode(s)) /\ IsSeq(TunBypassDestination(s))
           /\ IsSeq(CnipForce(s, Protos(s), "TunRoute"))
  <1> DEFINE S == DnsProtos(s)
             Users == {[uid |-> u] : u \in s.selected_uids}
             ret(X) == Concat([on \in X |-> Return(on)])
             take(X) == Concat([on \in X |-> Mark(on, "TUN_ROUTE")])
             g == [p \in S |-> MarkReturn([p |-> p, dport |-> "53"], "TUN_ROUTE")]
  <1>1. IsSeq(CnipForce(s, Protos(s), "TunRoute"))
    BY ProtoSets, CnipForceSeq
  <1>2. IsSeq(TunDns(s))
    <2>1. IsFiniteSet(S)
      BY ProtoSets, SomeProtos
    <2>2. (\A p \in S : IsSeq(g[p])) /\ DOMAIN g = S
      BY MarkSeq
    <2>3. IsSeq(Concat(g))
      <3> HIDE DEF g
      <3> QED BY <2>1, <2>2, EachSeq
    <2> QED BY <2>3, WhenSeq DEF TunDns, ForEach
  <1>3. IsFiniteSet(Users) /\ IsFiniteSet(Gids(s))
    <2>1. IsFiniteSet(s.selected_uids)
      BY DEF Finite
    <2> DEFINE u == [x \in s.selected_uids |-> [uid |-> x]]
    <2>2. u \in Surjection(s.selected_uids, Users)
      BY DEF Surjection
    <2>3. IsFiniteSet(Users)
      BY <2>1, <2>2, FS_Surjection
    <2> QED BY <2>3, OwnerSets
  <1> HIDE DEF Users
  <1>4. ASSUME NEW X, IsFiniteSet(X) PROVE IsSeq(ret(X)) /\ IsSeq(take(X))
    <2> DEFINE h == [on \in X |-> Mark(on, "TUN_ROUTE")]
    <2>1. (\A on \in X : IsSeq(h[on])) /\ DOMAIN h = X
      BY MarkSeq
    <2>2. IsSeq(Concat(h))
      <3> HIDE DEF h
      <3> QED BY <1>4, <2>1, EachSeq
    <2> QED BY <1>4, <2>2, ReturnEachSeq
  <1>5. IsSeq(TunProxyMode(s))
    <2>1. /\ IsSeq(ret(Users)) /\ IsSeq(ret(Gids(s))) /\ IsSeq(take(Users)) /\ IsSeq(take(Gids(s)))
      BY <1>3, <1>4
    <2>2. IsSeq(When(s.selected_uids # {} \/ s.selected_gids # {}, Return(<<>>)))
      BY MarkSeq, WhenSeq
    <2> HIDE DEF ret, take
    <2>3. IsSeq(ret(Users) \o ret(Gids(s))) /\ IsSeq(take(Users) \o take(Gids(s)))
      BY <2>1, JoinSeq
    <2>4. IsSeq(take(Users) \o take(Gids(s))
                \o When(s.selected_uids # {} \/ s.selected_gids # {}, Return(<<>>)))
      BY <2>2, <2>3, JoinSeq
    <2> QED BY <2>3, <2>4, NoSeq DEF TunProxyMode, Users, ret, take, ForEach
  <1>6. IsSeq(TunBypassDestination(s))
    <2> DEFINE a == When(s.fake_ip, MarkReturn([d |-> "fake"], "TUN_ROUTE"))
               b == Return([d |-> "subnet"])
               d == When(CnipMatcher(s), Mark([d |-> "cn"], "TUN_BYPASS"))
               e == Return([mark |-> "TUN_BYPASS"])
               z == Mark(<<>>, "TUN_ROUTE")
    <2>1. IsSeq(a) /\ IsSeq(b) /\ IsSeq(d) /\ IsSeq(e) /\ IsSeq(z)
      BY MarkSeq, WhenSeq
    <2> HIDE DEF a, b, d, e, z
    <2>2. IsSeq(a \o b)
      BY <2>1, JoinSeq
    <2>3. IsSeq(a \o b \o d)
      BY <2>1, <2>2, JoinSeq
    <2>4. IsSeq(a \o b \o d \o e)
      BY <2>1, <2>3, JoinSeq
    <2>5. IsSeq(a \o b \o d \o e \o z)
      BY <2>1, <2>4, JoinSeq
    <2> QED BY <2>5 DEF a, b, d, e, z, TunBypassDestination
  <1> QED BY <1>1, <1>2, <1>5, <1>6

\* A chain that goes on with a sequence of rules after the ones it begins with.
StartsWith(s, a) == \E b : IsSeq(b) /\ s = a \o b

LEMMA StartsItself ==
    ASSUME NEW a, IsSeq(a)
    PROVE  StartsWith(a, a)
  <1>1. PICK R : a \in Seq(R)
    BY DEF IsSeq
  <1>2. a = a \o <<>>
    BY <1>1
  <1> QED BY <1>2, NoSeq DEF StartsWith

LEMMA StartsLonger ==
    ASSUME NEW a, NEW s, NEW b, IsSeq(a), IsSeq(b), StartsWith(s, a)
    PROVE  StartsWith(s \o b, a)
  <1>1. PICK x : IsSeq(x) /\ s = a \o x
    BY DEF StartsWith
  <1>2. PICK R : a \in Seq(R)
    BY DEF IsSeq
  <1>3. PICK Q : x \in Seq(Q)
    BY <1>1 DEF IsSeq
  <1>4. PICK Z : b \in Seq(Z)
    BY DEF IsSeq
  <1>5. (a \o x) \o b = a \o (x \o b)
    <2> DEFINE all == R \cup Q \cup Z
    <2>1. a \in Seq(all) /\ x \in Seq(all) /\ b \in Seq(all)
      BY <1>2, <1>3, <1>4
    <2> HIDE DEF all
    <2> QED BY ONLY <2>1
  <1>6. IsSeq(x \o b)
    BY <1>1, JoinSeq
  <1> QED BY <1>1, <1>5, <1>6 DEF StartsWith

\* The chains for this host's packets begin with the core's bypass when the kernel
\* has an owner match, in each mode and in each of the tables.
LEMMA CoreFirst ==
    ASSUME NEW s, Finite(s), s.owner \in {"both", "uid", "gid"}
    PROVE  /\ IsSeq(CoreBypass(s))
           /\ StartsWith(RedirectLocal(s), CoreBypass(s))
           /\ StartsWith(TproxyLocal(s), CoreBypass(s))
           /\ StartsWith(PerfLocal(s), CoreBypass(s))
           /\ StartsWith(TunOut(s), CoreBypass(s))
           /\ StartsWith(HijackOut(s), CoreBypass(s))
           /\ StartsWith(ForwardOut(s), CoreBypass(s))
  <1> DEFINE h == CoreBypass(s)
  <1>0. IsSeq(h)
    BY MarkSeq DEF CoreBypass
  <1>1. SetupLocalChainCommon(s) = h
    BY DEF SetupLocalChainCommon
  <1> HIDE DEF h
  <1>2. StartsWith(h, h)
    BY <1>0, StartsItself
  <1>3. IsSeq(ReplyBypass(s)) /\ IsSeq(CommonBypass(s))
    BY CommonBypassSeq
  <1>4. StartsWith(h \o ReplyBypass(s), h)
    BY <1>0, <1>2, <1>3, StartsLonger
  <1>5. StartsWith(RedirectLocal(s), h)
    <2> DEFINE tcp == Protos(s) \cap {"tcp"}
    <2>1. tcp \in SUBSET {"tcp", "udp"}
      OBVIOUS
    <2> HIDE DEF tcp
    <2>2. IsSeq(CnipForce(s, tcp, "Redirect")) /\ IsSeq(LocalProxyRules(s, tcp, "Redirect"))
      BY <2>1, CnipForceSeq, LocalProxyRulesSeq
    <2>3. StartsWith(h \o ReplyBypass(s) \o CnipForce(s, tcp, "Redirect"), h)
      BY <1>0, <1>4, <2>2, StartsLonger
    <2>4. StartsWith(h \o ReplyBypass(s) \o CnipForce(s, tcp, "Redirect") \o CommonBypass(s), h)
      BY <1>0, <1>3, <2>3, StartsLonger
    <2>5. StartsWith(h \o ReplyBypass(s) \o CnipForce(s, tcp, "Redirect") \o CommonBypass(s)
                       \o LocalProxyRules(s, tcp, "Redirect"), h)
      BY <1>0, <2>2, <2>4, StartsLonger
    <2> QED BY <1>1, <2>5 DEF RedirectLocal, tcp
  <1> DEFINE mp == MangleProtos(s)
  <1>6. mp \in SUBSET {"tcp", "udp"}
    BY ProtoSets
  <1> HIDE DEF mp
  <1>7. /\ IsSeq(CnipForce(s, mp, "MarkReturn")) /\ IsSeq(LocalProxyRules(s, mp, "Mark"))
        /\ IsSeq(MangleDns(s, DnsMark(s))) /\ IsSeq(FakeIp6(s, "Mark"))
    BY <1>6, CnipForceSeq, LocalProxyRulesSeq, DnsSeq, FakeIp6Seq
  <1>8. StartsWith(TproxyLocal(s), h)
    <2>1. StartsWith(h \o ReplyBypass(s) \o MangleDns(s, DnsMark(s)), h)
      BY <1>0, <1>4, <1>7, StartsLonger
    <2>2. StartsWith(h \o ReplyBypass(s) \o MangleDns(s, DnsMark(s)) \o FakeIp6(s, "Mark"), h)
      BY <1>0, <1>7, <2>1, StartsLonger
    <2>3. StartsWith(h \o ReplyBypass(s) \o MangleDns(s, DnsMark(s)) \o FakeIp6(s, "Mark")
                       \o CnipForce(s, mp, "MarkReturn"), h)
      BY <1>0, <1>7, <2>2, StartsLonger
    <2>4. StartsWith(h \o ReplyBypass(s) \o MangleDns(s, DnsMark(s)) \o FakeIp6(s, "Mark")
                       \o CnipForce(s, mp, "MarkReturn") \o CommonBypass(s), h)
      BY <1>0, <1>3, <2>3, StartsLonger
    <2>5. StartsWith(h \o ReplyBypass(s) \o MangleDns(s, DnsMark(s)) \o FakeIp6(s, "Mark")
                       \o CnipForce(s, mp, "MarkReturn") \o CommonBypass(s)
                       \o LocalProxyRules(s, mp, "Mark"), h)
      BY <1>0, <1>7, <2>4, StartsLonger
    <2> QED BY <1>1, <2>5 DEF TproxyLocal, mp
  <1>9. StartsWith(PerfLocal(s), h)
    <2> DEFINE j == PerfJumps(s, <<"BOX_TP_OUT_IP", "BOX_TP_OUT_APP">>)
    <2>0. IsSeq(j) /\ IsSeq(PerfConnmark(s)) /\ IsSeq(PerfDispatch(s, "Mark"))
      BY PerfSeq
    <2> HIDE DEF j
    <2>1. StartsWith(h \o ReplyBypass(s) \o FakeIp6(s, "Mark"), h)
      BY <1>0, <1>4, <1>7, StartsLonger
    <2>2. StartsWith(h \o ReplyBypass(s) \o FakeIp6(s, "Mark") \o CnipForce(s, mp, "MarkReturn"), h)
      BY <1>0, <1>7, <2>1, StartsLonger
    <2>3. StartsWith(h \o ReplyBypass(s) \o FakeIp6(s, "Mark") \o CnipForce(s, mp, "MarkReturn")
                       \o j, h)
      BY <1>0, <2>0, <2>2, StartsLonger
    <2>4. StartsWith(h \o ReplyBypass(s) \o FakeIp6(s, "Mark") \o CnipForce(s, mp, "MarkReturn")
                       \o j \o MangleDns(s, DnsMark(s)), h)
      BY <1>0, <1>7, <2>3, StartsLonger
    <2>5. StartsWith(h \o ReplyBypass(s) \o FakeIp6(s, "Mark") \o CnipForce(s, mp, "MarkReturn")
                       \o j \o MangleDns(s, DnsMark(s)) \o PerfConnmark(s), h)
      BY <1>0, <2>0, <2>4, StartsLonger
    <2>6. StartsWith(h \o ReplyBypass(s) \o FakeIp6(s, "Mark") \o CnipForce(s, mp, "MarkReturn")
                       \o j \o MangleDns(s, DnsMark(s)) \o PerfConnmark(s)
                       \o PerfDispatch(s, "Mark"), h)
      BY <1>0, <2>0, <2>5, StartsLonger
    <2> QED BY <1>1, <2>6 DEF PerfLocal, mp, j
  <1>10. StartsWith(TunOut(s), h)
    <2>0. /\ IsSeq(TunDns(s)) /\ IsSeq(TunProxyMode(s)) /\ IsSeq(TunBypassDestination(s))
          /\ IsSeq(CnipForce(s, Protos(s), "TunRoute"))
      BY TunOutSeq
    <2>1. StartsWith(h \o TunDns(s), h)
      BY <1>0, <1>2, <2>0, StartsLonger
    <2>2. StartsWith(h \o TunDns(s) \o CnipForce(s, Protos(s), "TunRoute"), h)
      BY <1>0, <2>0, <2>1, StartsLonger
    <2>3. StartsWith(h \o TunDns(s) \o CnipForce(s, Protos(s), "TunRoute") \o TunProxyMode(s), h)
      BY <1>0, <2>0, <2>2, StartsLonger
    <2>4. StartsWith(h \o TunDns(s) \o CnipForce(s, Protos(s), "TunRoute") \o TunProxyMode(s)
                       \o TunBypassDestination(s), h)
      BY <1>0, <2>0, <2>3, StartsLonger
    <2> QED BY <2>4 DEF TunOut, h
  <1>11. StartsWith(HijackOut(s), h) /\ StartsWith(ForwardOut(s), h)
    <2>1. DnsProtos(s) \in SUBSET {"tcp", "udp"} /\ DnsProtos(s) \cap {"udp"} \in SUBSET {"tcp", "udp"}
      BY ProtoSets
    <2>2. /\ IsSeq(DnsNatRules(s, DnsProtos(s), FALSE))
          /\ IsSeq(DnsNatRules(s, DnsProtos(s) \cap {"udp"}, TRUE))
      BY <2>1, DnsNatSeq
    <2> QED BY <1>0, <1>2, <2>2, StartsLonger DEF HijackOut, ForwardOut, h
  <1> QED BY <1>0, <1>5, <1>8, <1>9, <1>10, <1>11 DEF h

\* A packet of the core's that no rule has touched.
FromCore(p) == /\ IsPacket(p) /\ p.verdict = "CONTINUE" /\ p.port = "none"
               /\ p.uid = BoxUid /\ p.gid = BoxGid

LEMMA CoreChain ==
    ASSUME NEW s, s.owner \in {"both", "uid", "gid"}, NEW tt, NEW rules,
           StartsWith(rules, CoreBypass(s)), NEW p, FromCore(p)
    PROVE  Left(Middle!Run(tt, rules, p)) = p
  <1>1. PICK rest : IsSeq(rest) /\ rules = CoreBypass(s) \o rest
    BY DEF StartsWith
  <1>2. /\ IsPacket(p) /\ p.verdict = "CONTINUE" /\ p.port = "none"
        /\ p.uid = BoxUid /\ p.gid = BoxGid
    BY DEF FromCore
  <1> QED BY <1>1, <1>2, CoreReturned

\* What the rules of a built-in chain are: each a jump, or one of the others.
LEMMA WhenRules ==
    ASSUME NEW b, NEW on, NEW t, NEW a
    PROVE  /\ IsSeq(When(b, Rule(on, t, a)))
           /\ \A i \in 1 .. Len(When(b, Rule(on, t, a))) :
                b /\ When(b, Rule(on, t, a))[i] = [on |-> on, target |-> t, arg |-> a]
  <1>1. CASE b
    BY <1>1, OneSeq DEF When, Rule
  <1>2. CASE ~b
    BY <1>2, NoSeq DEF When
  <1> QED BY <1>1, <1>2

\* The mangle table of a family leaves the core's packets as they are.
LEMMA MangleLeavesCore ==
    ASSUME NEW s, Finite(s), s.owner \in {"both", "uid", "gid"}, NEW p, FromCore(p)
    PROVE  Walk(MangleChains(s), "OUTPUT", p) = p
  <1> DEFINE tt == MangleChains(s)
             a == When(TproxyUp(s), Rule(<<>>, "JUMP", "BOX_LOCAL"))
             b == When(TunUp(s), Rule(<<>>, "JUMP", "BOX_TUN_BYPASS_OUT"))
  <1>1. tt["OUTPUT"] = a \o b
    BY DEF MangleChains, Jump
  <1>2. \/ tt["BOX_LOCAL"] = PerfLocal(s)
        \/ tt["BOX_LOCAL"] = TproxyLocal(s)
    BY DEF MangleChains
  <1>3. tt["BOX_TUN_BYPASS_OUT"] = TunOut(s)
    BY DEF MangleChains
  <1> HIDE DEF tt
  <1>4. /\ IsSeq(a) /\ IsSeq(b)
        /\ \A i \in 1 .. Len(a) : a[i] = [on |-> <<>>, target |-> "JUMP", arg |-> "BOX_LOCAL"]
        /\ \A i \in 1 .. Len(b) : b[i] = [on |-> <<>>, target |-> "JUMP", arg |-> "BOX_TUN_BYPASS_OUT"]
    BY WhenRules
  <1> HIDE DEF a, b
  <1>5. ASSUME NEW r, r.target = "JUMP", r.arg \in {"BOX_LOCAL", "BOX_TUN_BYPASS_OUT"}
        PROVE  AfterOuter(tt, r, p) = p
    <2>1. StartsWith(tt[r.arg], CoreBypass(s))
      BY <1>2, <1>3, <1>5, CoreFirst
    <2>2. Left(Middle!Run(tt, tt[r.arg], p)) = p
      BY <2>1, CoreChain
    <2> QED BY <1>5, <2>2 DEF AfterOuter, After
  <1>6. IsSeq(a \o b) /\ \A i \in 1 .. Len(a \o b) :
          (a \o b)[i].target = "JUMP" /\ (a \o b)[i].arg \in {"BOX_LOCAL", "BOX_TUN_BYPASS_OUT"}
    BY <1>4, JoinSeq
  <1>7. Outer!Run(tt, a \o b, p) = p
    <2> DEFINE rules == a \o b
    <2>1. Len(rules) \in Nat /\ p \in {p}
      BY <1>6, SeqLen
    <2>2. \A i \in 1 .. Len(rules), q \in {p} : AfterOuter(tt, rules[i], q) \in {p}
      BY <1>5, <1>6
    <2> HIDE DEF rules
    <2>3. Outer!Run(tt, rules, p) \in {p}
      BY <2>1, <2>2, Outer!RunStays
    <2> QED BY <2>3 DEF rules
  <1>8. p.verdict = "CONTINUE" /\ [p EXCEPT !.verdict = "CONTINUE"] = p
    BY DEF FromCore, IsPacket
  <1> QED BY <1>1, <1>7, <1>8 DEF tt, Walk, Left

\* The nat table does too, but for an echo to an address that stands for a name,
\* which the kernel itself is made to answer.
EchoToName(p) == p.proto = "icmp" /\ "fake" \in p.to

LEMMA NatLeavesCore ==
    ASSUME NEW s, Finite(s), s.owner \in {"both", "uid", "gid"}, NEW p, FromCore(p)
    PROVE  LET q == Walk(NatChains(s), "OUTPUT", p)
           IN  \/ q.verdict = "CONTINUE"
               \/ q.verdict = "DNAT" /\ q.port = "icmp" /\ EchoToName(p)
  <1> DEFINE tt == NatChains(s)
             u == FakeIpIcmp(s)
             a == When(RedirectUp(s), Rule(<<>>, "JUMP", "BOX_LOCAL"))
             b == When(DnsNatUp(s), Rule(<<>>, "JUMP", "NAT_DNS_OUT"))
             on == [d |-> "fake", p |-> "icmp"]
             z == [p EXCEPT !.verdict = "DNAT", !.port = "icmp"]
             Z == {p} \cup {x \in {z} : EchoToName(p)}
  <1>1. tt["OUTPUT"] = u \o a \o b
    BY DEF NatChains, Jump
  <1>2. /\ tt["BOX_LOCAL"] = RedirectLocal(s)
        /\ tt["NAT_DNS_OUT"] = HijackOut(s) \/ tt["NAT_DNS_OUT"] = ForwardOut(s)
    BY DEF NatChains
  <1> HIDE DEF tt
  <1>3. /\ IsSeq(u) /\ IsSeq(a) /\ IsSeq(b)
        /\ \A i \in 1 .. Len(u) : u[i] = [on |-> on, target |-> "DNAT", arg |-> "icmp"]
        /\ \A i \in 1 .. Len(a) : a[i] = [on |-> <<>>, target |-> "JUMP", arg |-> "BOX_LOCAL"]
        /\ \A i \in 1 .. Len(b) : b[i] = [on |-> <<>>, target |-> "JUMP", arg |-> "NAT_DNS_OUT"]
    BY WhenRules DEF FakeIpIcmp
  <1> HIDE DEF u, a, b
  <1>4. z.verdict = "DNAT" /\ z.port = "icmp" /\ p.verdict = "CONTINUE"
    BY DEF FromCore, IsPacket
  <1>4a. Matches(p, on) => EchoToName(p)
    <2>1. DOMAIN on = {"d", "p"} /\ on["d"] = "fake" /\ on["p"] = "icmp"
      OBVIOUS
    <2>2. /\ Meets(p, "d", "fake") => "fake" \in p.to
          /\ Meets(p, "p", "icmp") => p.proto = "icmp"
      BY DEF Meets
    <2> HIDE DEF on
    <2> QED BY <2>1, <2>2 DEF Matches, EchoToName
  <1> HIDE DEF on
  <1>5. ASSUME NEW r, \/ r.target = "JUMP" /\ r.arg \in {"BOX_LOCAL", "NAT_DNS_OUT"}
                      \/ r.target = "DNAT" /\ r.arg = "icmp" /\ r.on = on,
               NEW q \in Z
        PROVE  AfterOuter(tt, r, q) \in Z
    <2>1. CASE q = z
      BY <1>4, <2>1 DEF AfterOuter, After
    <2>2. CASE q = p /\ r.target = "DNAT" /\ r.arg = "icmp" /\ r.on = on
      <3>1. AfterOuter(tt, r, q) = IF Matches(p, on) THEN z ELSE p
        BY <1>4, <2>2 DEF AfterOuter, After
      <3>2. Matches(p, on) => EchoToName(p)
        BY <1>4a
      <3> QED BY <3>1, <3>2
    <2>3. CASE q = p /\ r.target = "JUMP" /\ r.arg \in {"BOX_LOCAL", "NAT_DNS_OUT"}
      <3>1. StartsWith(tt[r.arg], CoreBypass(s))
        BY <1>2, <2>3, CoreFirst
      <3>2. Left(Middle!Run(tt, tt[r.arg], p)) = p
        BY <3>1, CoreChain
      <3> QED BY <2>3, <3>2 DEF AfterOuter, After
    <2> QED BY <1>5, <2>1, <2>2, <2>3
  <1> HIDE DEF z
  <1> DEFINE rules == u \o a \o b
  <1>6. IsSeq(rules) /\ \A i \in 1 .. Len(rules) :
          \/ rules[i].target = "JUMP" /\ rules[i].arg \in {"BOX_LOCAL", "NAT_DNS_OUT"}
          \/ rules[i].target = "DNAT" /\ rules[i].arg = "icmp" /\ rules[i].on = on
    <2>1. IsSeq(u \o a) /\ \A i \in 1 .. Len(u \o a) :
            \/ (u \o a)[i].target = "JUMP" /\ (u \o a)[i].arg \in {"BOX_LOCAL", "NAT_DNS_OUT"}
            \/ (u \o a)[i].target = "DNAT" /\ (u \o a)[i].arg = "icmp" /\ (u \o a)[i].on = on
      BY <1>3, JoinSeq
    <2> QED BY <1>3, <2>1, JoinSeq
  <1> HIDE DEF rules
  <1>7. Outer!Run(tt, rules, p) \in Z
    <2>1. Len(rules) \in Nat /\ p \in Z
      BY <1>6, SeqLen
    <2>2. \A i \in 1 .. Len(rules), q \in Z : AfterOuter(tt, rules[i], q) \in Z
      BY <1>5, <1>6
    <2> QED BY <2>1, <2>2, Outer!RunStays
  <1>8. [p EXCEPT !.verdict = "CONTINUE"] = p
    BY DEF FromCore, IsPacket
  <1> QED BY <1>1, <1>4, <1>7, <1>8 DEF tt, rules, Walk, Left

-----------------------------------------------------------------------------
(* CoreNotCaptured. *)

LEMMA OutputOrNone ==
    ASSUME NEW p, p.verdict = "CONTINUE", IsPacket(p)
    PROVE  Walk(NoRules.mangle, "OUTPUT", p) = p /\ Walk(NoRules.nat, "OUTPUT", p) = p
  <1>1. NoRules.mangle["OUTPUT"] = <<>> /\ NoRules.nat["OUTPUT"] = <<>>
    BY DEF NoRules
  <1>2. [p EXCEPT !.verdict = "CONTINUE"] = p
    BY DEF IsPacket
  <1>3. Outer!Run(NoRules.mangle, <<>>, p) = p /\ Outer!Run(NoRules.nat, <<>>, p) = p
    BY Outer!RunNone
  <1> QED BY <1>1, <1>2, <1>3 DEF Walk, Left

\* What has been decided about a connection of the core's own.
CoreLeft == {"direct"} \cup {x \in {"icmp"} : f.proto = "icmp" /\ f.dst = "fake"}
CoreInv == /\ c \in Settings /\ chains = Tables(c)
           /\ c.owner # "none" /\ IsCore(f) => /\ nat \in CoreLeft
                                            /\ fate \in {"none", "reject"} \cup CoreLeft

LEMMA SettingsFinite ==
    ASSUME c \in Settings, c.owner # "none"
    PROVE  Finite(c) /\ c.owner \in {"both", "uid", "gid"}
  BY ListsAssumption DEF Finite

\* Packets of the core's are let go wherever they go, by the rules and without.
LEMMA CoreGoesOut ==
    ASSUME CoreInv, c.owner # "none", NEW p, FromCore(p), p.mark = {}, NEW dst
    PROVE  LET m == Walk(T.mangle, "OUTPUT", p)
               q == Walk(T.nat, "OUTPUT", p)
           IN  m = p /\ \/ q.verdict = "CONTINUE"
                        \/ q.verdict = "DNAT" /\ q.port = "icmp" /\ EchoToName(p)
  <1>1. Finite(c) /\ c.owner \in {"both", "uid", "gid"}
    BY SettingsFinite DEF CoreInv
  <1>2. CASE up
    <2>1. T.mangle = MangleChains(c) /\ T.nat = NatChains(c)
      BY <1>2 DEF T, CoreInv, Tables
    <2> QED BY <1>1, <2>1, MangleLeavesCore, NatLeavesCore
  <1>3. CASE ~up
    <2>1. T.mangle = NoRules.mangle /\ T.nat = NoRules.nat
      BY <1>3 DEF T
    <2>2. p.verdict = "CONTINUE" /\ IsPacket(p)
      BY DEF FromCore
    <2> QED BY <2>1, <2>2, OutputOrNone
  <1> QED BY <1>2, <1>3

\* A packet without a mark is not turned back to PREROUTING nor routed to tun.
LEMMA NotMarked ==
    ASSUME NEW p, p.mark = {}, NEW dst
    PROVE  ~Marked(p, "FWMARK") /\ TunRoute(p, dst) = "direct"
  <1>1. Bits("FWMARK") = {24} /\ Bits("TUN_ROUTE") = {24, 25}
    BY DEF Bits
  <1> QED BY <1>1 DEF Marked, TunRoute

LEMMA CoreOutgoing ==
    ASSUME CoreInv, c.owner # "none", NEW p, FromCore(p), p.mark = {}, NEW dst,
           EchoToName(p) => f.proto = "icmp" /\ f.dst = "fake"
    PROVE  /\ nat \in CoreLeft /\ ~p.reply => /\ Outgoing(p, dst).nat \in CoreLeft
                                           /\ Outgoing(p, dst).fate \in {"reject"} \cup CoreLeft
           /\ p.reply => Outgoing(p, dst).fate \in {"direct", "reject"}
  <1> DEFINE m == Walk(T.mangle, "OUTPUT", p)
             q == Walk(T.nat, "OUTPUT", p)
             r == Walk(T.filter, "OUTPUT", p)
             n == IF p.reply THEN nat ELSE NatVerdict("OUTPUT", p)
  <1>1. m = p /\ \/ q.verdict = "CONTINUE"
                 \/ q.verdict = "DNAT" /\ q.port = "icmp" /\ EchoToName(p)
    BY CoreGoesOut
  <1>2. ~Marked(p, "FWMARK") /\ TunRoute(p, dst) = "direct"
    BY NotMarked
  <1>3. ~p.reply /\ nat \in CoreLeft => n \in CoreLeft
    BY <1>1 DEF NatVerdict, CoreLeft
  <1> HIDE DEF q, r
  <1>4. /\ Outgoing(p, dst).nat = n
        /\ Outgoing(p, dst).fate = IF r.verdict = "REJECT" THEN "reject"
                                  ELSE IF n # "direct" /\ ~p.reply THEN n ELSE "direct"
    BY <1>1, <1>2 DEF Outgoing, r
  <1> HIDE DEF n
  <1> QED BY <1>3, <1>4 DEF CoreLeft

LEMMA CoreInit == Init => CoreInv
  BY DEF Init, CoreInv, CoreLeft

LEMMA CoreStep ==
    ASSUME CoreInv, [Next]_vars
    PROVE  CoreInv'
  <1> USE DEF CoreInv, CoreLeft
  <1>1. CASE ApplyRules \/ ClearRules \/ Move \/ RefreshLocalIp
    BY <1>1 DEF ApplyRules, ClearRules, Move, RefreshLocalIp, Forget, IsCore, Local
  <1>2. CASE Send
    <2>1. c' = c /\ chains' = chains /\ f' = f
      BY <1>2 DEF Send
    <2> SUFFICES ASSUME c.owner # "none", IsCore(f)
                 PROVE  nat' \in CoreLeft /\ fate' \in {"none", "reject"} \cup CoreLeft
      BY <2>1 DEF IsCore, Local
    <2> DEFINE syn == f.proto = "tcp" /\ ~answered
               p == Packet(f.iface, f.uid, f.gid, f.mac, f.dport, f.dst, syn, FALSE)
    <2>2. FromCore(p) /\ p.mark = {} /\ ~p.reply
      BY DEF Packet, FromCore, IsPacket, IsCore
    <2>3. Local(f)
      BY DEF IsCore
    <2>3a. EchoToName(p) => f.proto = "icmp" /\ f.dst = "fake"
      BY DEF EchoToName, Packet, Classes
    <2> HIDE DEF p
    <2>4. /\ Outgoing(p, f.dst).nat \in CoreLeft
          /\ Outgoing(p, f.dst).fate \in {"reject"} \cup CoreLeft
      BY <2>2, <2>3a, CoreOutgoing
    <2>5. /\ fate' = IF up THEN Outgoing(p, f.dst).fate ELSE "none"
          /\ nat' = nat \/ nat' = Outgoing(p, f.dst).nat
      BY <1>2, <2>3 DEF Send, p
    <2> QED BY <2>4, <2>5
  <1>3. CASE Answer
    BY <1>3 DEF Answer, IsCore, Local
  <1>4. CASE Expire
    BY <1>4 DEF Expire, IsCore, Local
  <1>5. CASE UNCHANGED vars
    BY <1>5 DEF vars, IsCore, Local
  <1> QED BY <1>1, <1>2, <1>3, <1>4, <1>5 DEF Next

\* Whatever the settings, the mode, the connection and the events before, no rule of
\* boxctl captures a packet the core itself sends, when the kernel has an owner match
\* to tell it by: there is no loop through the proxy (exec.rs, add_core_bypass_rule).
THEOREM CoreIsLeftAlone == Spec => []CoreNotCaptured
  <1>1. CoreInv => CoreNotCaptured
    BY DEF CoreInv, CoreLeft, CoreNotCaptured
  <1> QED BY CoreInit, CoreStep, <1>1, PTL DEF Spec

-----------------------------------------------------------------------------
(* Answers. *)

\* An answer, as it comes in or as the core sends it in its destination's place.
IsAnswer(p) == /\ IsPacket(p) /\ p.verdict = "CONTINUE" /\ p.port = "none" /\ p.mark = {}
               /\ p.reply = TRUE /\ p.socket = FALSE /\ p.dport = "other"

\* The filter table refuses no answer: it looks for the ports asked for.
LEMMA FilterLetsAnswers ==
    ASSUME NEW s, s.owner \in {"both", "uid", "gid"}, NEW p, IsAnswer(p)
    PROVE  Walk(FilterChains(s), "OUTPUT", p) = p
  <1> DEFINE tt == FilterChains(s)
             x == RedirectUp(s) \/ (TproxyUp(s) /\ ~Enhance(s))
             lon == CASE s.owner = "both" -> [d |-> "loopback", p |-> "tcp", uid |-> BoxUid,
                                              gid |-> BoxGid, dport |-> "inbound"]
                      [] s.owner = "uid"  -> [d |-> "loopback", p |-> "tcp", uid |-> BoxUid,
                                              dport |-> "inbound"]
                      [] s.owner = "gid"  -> [d |-> "loopback", p |-> "tcp", gid |-> BoxGid,
                                              dport |-> "inbound"]
             qon == [p |-> "udp", dport |-> "443"]
             a == When(x, Rule(lon, "REJECT", "none"))
             k == s.quic_disable /\ s.proxy_udp
             b == When(TproxyUp(s), When(k, Rule(qon, "REJECT", "none")))
  <1>1. tt["OUTPUT"] = a \o b
    <2>1. LoopbackReject(s) = Rule(lon, "REJECT", "none")
      BY DEF LoopbackReject, Reject
    <2>2. QuicBlock(s) = When(k, Rule(qon, "REJECT", "none"))
      BY DEF QuicBlock, Reject
    <2> HIDE DEF lon, qon
    <2> QED BY <2>1, <2>2 DEF FilterChains
  <1>2. "dport" \in DOMAIN lon /\ lon["dport"] = "inbound"
    <2>1. CASE s.owner = "both"
      <3>1. lon = [d |-> "loopback", p |-> "tcp", uid |-> BoxUid, gid |-> BoxGid,
                   dport |-> "inbound"]
        BY <2>1
      <3> HIDE DEF lon
      <3> QED BY <3>1
    <2>2. CASE s.owner = "uid"
      <3>1. lon = [d |-> "loopback", p |-> "tcp", uid |-> BoxUid, dport |-> "inbound"]
        BY <2>2
      <3> HIDE DEF lon
      <3> QED BY <3>1
    <2>3. CASE s.owner = "gid"
      <3>1. lon = [d |-> "loopback", p |-> "tcp", gid |-> BoxGid, dport |-> "inbound"]
        BY <2>3
      <3> HIDE DEF lon
      <3> QED BY <3>1
    <2> QED BY <2>1, <2>2, <2>3
  <1>3. "dport" \in DOMAIN qon /\ qon["dport"] = "443"
    OBVIOUS
  <1>4. p.dport = "other"
    BY DEF IsAnswer
  <1>5. ~Matches(p, lon) /\ ~Matches(p, qon)
    <2>1. ~Meets(p, "dport", "inbound") /\ ~Meets(p, "dport", "443")
      BY <1>4 DEF Meets
    <2> HIDE DEF lon, qon
    <2> QED BY <1>2, <1>3, <2>1 DEF Matches
  <1> HIDE DEF lon, qon, x, k, tt
  <1>6. /\ IsSeq(a) /\ IsSeq(b)
        /\ \A i \in 1 .. Len(a) : a[i].on = lon
        /\ \A i \in 1 .. Len(b) : b[i].on = qon
    <2>1. IsSeq(a) /\ \A i \in 1 .. Len(a) : a[i] = [on |-> lon, target |-> "REJECT", arg |-> "none"]
      BY WhenRules
    <2> DEFINE y == When(k, Rule(qon, "REJECT", "none"))
    <2>2. IsSeq(y) /\ \A i \in 1 .. Len(y) : y[i] = [on |-> qon, target |-> "REJECT", arg |-> "none"]
      BY WhenRules
    <2>3. IsSeq(b) /\ \A i \in 1 .. Len(b) : b[i] = [on |-> qon, target |-> "REJECT", arg |-> "none"]
      <3>1. b = When(TproxyUp(s), y)
        OBVIOUS
      <3> HIDE DEF y, b
      <3> QED BY <2>2, <3>1, NoSeq DEF When
    <2> HIDE DEF a, b, y
    <2>4. \A i \in 1 .. Len(a) : a[i].on = lon
      BY ONLY <2>1
    <2>5. \A i \in 1 .. Len(b) : b[i].on = qon
      BY ONLY <2>3
    <2> QED BY <2>1, <2>3, <2>4, <2>5
  <1> HIDE DEF a, b
  <1> DEFINE rules == a \o b
  <1>7. IsSeq(rules) /\ \A i \in 1 .. Len(rules) : ~Matches(p, rules[i].on)
    BY <1>5, <1>6, JoinSeq
  <1> HIDE DEF rules
  <1>8. Outer!Run(tt, rules, p) \in {p}
    <2>1. Len(rules) \in Nat /\ p \in {p}
      BY <1>7, SeqLen
    <2>2. \A i \in 1 .. Len(rules), q \in {p} : AfterOuter(tt, rules[i], q) \in {p}
      BY <1>7 DEF AfterOuter, After
    <2> QED BY <2>1, <2>2, Outer!RunStays
  <1>9. p.verdict = "CONTINUE" /\ [p EXCEPT !.verdict = "CONTINUE"] = p
    BY DEF IsAnswer, IsPacket
  <1> QED BY <1>1, <1>8, <1>9 DEF rules, tt, Walk, Left

\* Rules that all match on something the packet is not.
Idle(s, p) == IsSeq(s) /\ \A i \in 1 .. Len(s) : ~Matches(p, s[i].on)

LEMMA IdleRun ==
    ASSUME NEW tt, NEW s, NEW p, Idle(s, p)
    PROVE  Middle!Run(tt, s, p) = p
  <1>1. Len(s) \in Nat /\ p \in {p}
    BY SeqLen DEF Idle
  <1>2. \A i \in 1 .. Len(s), q \in {p} : AfterMiddle(tt, s[i], q) \in {p}
    BY DEF Idle, AfterMiddle, After
  <1>3. Middle!Run(tt, s, p) \in {p}
    BY <1>1, <1>2, Middle!RunStays
  <1> QED BY <1>3

LEMMA IdleSeqs ==
    ASSUME NEW p
    PROVE  /\ Idle(<<>>, p)
           /\ \A on, t, a : ~Matches(p, on) => Idle(Rule(on, t, a), p)
           /\ \A a, b : Idle(a, p) /\ Idle(b, p) => Idle(a \o b, p)
  <1>1. Idle(<<>>, p)
    BY NoSeq DEF Idle
  <1>2. ASSUME NEW on, NEW t, NEW a, ~Matches(p, on) PROVE Idle(Rule(on, t, a), p)
    <2> DEFINE r == [on |-> on, target |-> t, arg |-> a]
    <2>1. Rule(on, t, a) = <<r>> /\ r.on = on
      BY DEF Rule
    <2> HIDE DEF r
    <2> QED BY <1>2, <2>1, OneSeq DEF Idle
  <1>3. ASSUME NEW a, NEW b, Idle(a, p), Idle(b, p) PROVE Idle(a \o b, p)
    BY <1>3, JoinSeq DEF Idle
  <1> QED BY <1>1, <1>2, <1>3

LEMMA IdleEach ==
    ASSUME NEW p, NEW S, NEW g, IsFiniteSet(S), DOMAIN g = S, \A x \in S : Idle(g[x], p)
    PROVE  Idle(Concat(g), p)
  <1>1. IsSeq(Concat(g)) /\ \A j \in 1 .. Len(Concat(g)) :
          \E x \in DOMAIN g : \E k \in 1 .. Len(g[x]) : Concat(g)[j] = g[x][k]
    BY ConcatEach DEF Idle
  <1> QED BY <1>1 DEF Idle

\* No DNS rule matches what is not for port 53, no rule for stand-in addresses
\* what goes to the phone or its networks.
LEMMA DnsIdle ==
    ASSUME NEW s, NEW p, p.dport = "other"
    PROVE  Idle(MangleDns(s, DnsTproxy(s)), p)
  <1> DEFINE S == DnsProtos(s) \ (IF Enhance(s) THEN {"tcp"} ELSE {})
             Q == DnsProtos(s) \cap MangleProtos(s)
             g == [x \in S |-> Return([p |-> x, dport |-> "53"])]
             h == [x \in Q |-> Tproxy([p |-> x, dport |-> "53"])]
  <1>0. IsFiniteSet(S) /\ IsFiniteSet(Q)
    <2>1. S \in SUBSET {"tcp", "udp"} /\ Q \in SUBSET {"tcp", "udp"}
      BY ProtoSets
    <2> HIDE DEF S, Q
    <2> QED BY <2>1, SomeProtos
  <1> HIDE DEF S, Q
  <1>1. ASSUME NEW x PROVE ~Matches(p, [p |-> x, dport |-> "53"])
    <2> DEFINE on == [p |-> x, dport |-> "53"]
    <2>1. "dport" \in DOMAIN on /\ on["dport"] = "53"
      OBVIOUS
    <2>2. ~Meets(p, "dport", "53")
      BY DEF Meets
    <2> HIDE DEF on
    <2>3. ~Matches(p, on)
      BY <2>1, <2>2 DEF Matches
    <2> QED BY <2>3 DEF on
  <1>2. ASSUME NEW x PROVE Idle(Return([p |-> x, dport |-> "53"]), p) /\ Idle(Tproxy([p |-> x, dport |-> "53"]), p)
    BY <1>1, IdleSeqs DEF Return, Tproxy
  <1>3. /\ (\A x \in S : Idle(g[x], p)) /\ DOMAIN g = S
        /\ (\A x \in Q : Idle(h[x], p)) /\ DOMAIN h = Q
    BY <1>2
  <1> HIDE DEF g, h
  <1>4. Idle(Concat(g), p) /\ Idle(Concat(h), p)
    BY <1>0, <1>3, IdleEach
  <1>5. DnsReturn(s) = Concat(g) /\ DnsTproxy(s) = Concat(h)
    BY DEF g, h, S, Q, DnsReturn, DnsTproxy, ForEach
  <1> QED BY <1>4, <1>5 DEF MangleDns

LEMMA FakeIdle ==
    ASSUME NEW s, NEW p, "fake" \notin p.to
    PROVE  Idle(FakeIp6(s, "Tproxy"), p)
  <1> DEFINE S == MangleProtos(s)
             on(x) == Also([p |-> x], [d |-> "fake"])
             g == [x \in S |-> Do("Tproxy", on(x))]
  <1>0. IsFiniteSet(S)
    BY ProtoSets, SomeProtos
  <1> HIDE DEF S
  <1>1. ASSUME NEW x PROVE Idle(Do("Tproxy", on(x)), p)
    <2> DEFINE o == on(x)
    <2>1. "d" \in DOMAIN o /\ o["d"] = "fake"
      BY DEF Also
    <2>2. ~Meets(p, "d", "fake")
      BY DEF Meets
    <2> HIDE DEF o
    <2>3. ~Matches(p, o)
      BY <2>1, <2>2 DEF Matches
    <2>4. Idle(Tproxy(o), p)
      BY <2>3, IdleSeqs DEF Tproxy
    <2> QED BY <2>4 DEF Do, o
  <1> HIDE DEF on
  <1>2. (\A x \in S : Idle(g[x], p)) /\ DOMAIN g = S
    BY <1>1
  <1> HIDE DEF g
  <1>3. Idle(Concat(g), p)
    BY <1>0, <1>2, IdleEach
  <1>4. ProtocolRules(S, [d |-> "fake"], "Tproxy") = Concat(g)
    BY DEF ProtocolRules, ForEach, g, on
  <1> QED BY <1>3, <1>4, IdleSeqs DEF FakeIp6, When, S

\* The chain of local addresses accepts an answer to one of them, whatever its
\* protocol.
LEMMA LocalIpAccepts ==
    ASSUME NEW tt, NEW class, NEW p, IsAnswer(p), class \in p.to
    PROVE  Inner!Run(tt, LocalIpChain(class), p) = [p EXCEPT !.verdict = "ACCEPT"]
  <1> DEFINE on1 == Also([d |-> class], [p |-> "udp", not_dport |-> "53"])
             on2 == Also([d |-> class], [not_p |-> "udp"])
             r1 == [on |-> on1, target |-> "ACCEPT", arg |-> "none"]
             r2 == [on |-> on2, target |-> "ACCEPT", arg |-> "none"]
             z == [p EXCEPT !.verdict = "ACCEPT"]
  <1>1. LocalIpChain(class) = <<r1>> \o <<r2>>
    BY DEF LocalIpChain, NonDnsAccept, Accept, Rule
  <1>2. /\ DOMAIN on1 = {"d", "p", "not_dport"}
        /\ on1["d"] = class /\ on1["p"] = "udp" /\ on1["not_dport"] = "53"
    BY DEF Also
  <1>3. DOMAIN on2 = {"d", "not_p"} /\ on2["d"] = class /\ on2["not_p"] = "udp"
    BY DEF Also
  <1> HIDE DEF on1, on2
  <1>4. Meets(p, "d", class) /\ Meets(p, "not_dport", "53")
    BY DEF Meets, IsAnswer
  <1>5. (Meets(p, "p", "udp") <=> p.proto = "udp") /\ (Meets(p, "not_p", "udp") <=> p.proto # "udp")
    BY DEF Meets
  <1>6. Matches(p, on1) <=> p.proto = "udp"
    BY <1>2, <1>4, <1>5 DEF Matches
  <1>7. Matches(p, on2) <=> p.proto # "udp"
    BY <1>3, <1>4, <1>5 DEF Matches
  <1>8. z.verdict = "ACCEPT" /\ z = [p EXCEPT !.verdict = "ACCEPT", !.port = "none"]
    BY DEF IsAnswer, IsPacket
  <1>9. p.verdict = "CONTINUE"
    BY DEF IsAnswer
  <1>10. /\ AfterInner(tt, r1, p) = IF p.proto = "udp" THEN z ELSE p
         /\ AfterInner(tt, r2, p) = IF p.proto = "udp" THEN p ELSE z
    BY <1>6, <1>7, <1>8, <1>9 DEF AfterInner, After
  <1>11. AfterInner(tt, r2, z) = z
    BY <1>8 DEF AfterInner, After
  <1> HIDE DEF r1, r2, z
  <1>12. Inner!Run(tt, <<r1>> \o <<r2>>, p) = AfterInner(tt, r2, AfterInner(tt, r1, p))
    <2>1. Len(<<r1>>) \in Nat /\ Len(<<r2>>) \in Nat
      OBVIOUS
    <2>2. Inner!Run(tt, <<r1>> \o <<r2>>, p) = Inner!Run(tt, <<r2>>, Inner!Run(tt, <<r1>>, p))
      BY <2>1, Inner!RunAppend
    <2> QED BY <2>2, Inner!RunOne
  <1> QED BY <1>1, <1>10, <1>11, <1>12 DEF z

LEMMA Destination ==
    ASSUME NEW p, NEW v
    PROVE  (Matches(p, [d |-> v]) <=> v \in p.to) /\ Matches(p, <<>>)
  <1> DEFINE on == [d |-> v]
  <1>1. DOMAIN on = {"d"} /\ on["d"] = v
    OBVIOUS
  <1>2. Meets(p, "d", v) <=> v \in p.to
    BY DEF Meets
  <1> HIDE DEF on
  <1>3. Matches(p, on) <=> v \in p.to
    BY <1>1, <1>2 DEF Matches
  <1>4. DOMAIN <<>> = {}
    OBVIOUS
  <1>5. Matches(p, <<>>)
    BY <1>4 DEF Matches
  <1> QED BY <1>3, <1>5 DEF on

\* What becomes of a packet that a chain lets go.
LetGo(p) == {[p EXCEPT !.verdict = "RETURN"], [p EXCEPT !.verdict = "ACCEPT"]}

LEMMA LetGoEnds ==
    ASSUME NEW p, IsPacket(p), NEW q \in LetGo(p)
    PROVE  "verdict" \in DOMAIN q /\ q.verdict \in {"RETURN", "ACCEPT"}
  BY DEF LetGo, IsPacket

\* An answer to an address the rules know as the phone's is let go by the rules
\* for destinations.
LEMMA CommonBypassAnswers ==
    ASSUME NEW s, NEW tt, tt["LOCAL_IP"] = LocalIpChain("mangle_local_ip"), NEW p, IsAnswer(p),
           "cn" \notin p.to, "subnet" \in p.to \/ "mangle_local_ip" \in p.to
    PROVE  Middle!Run(tt, CommonBypass(s), p) \in LetGo(p)
  <1> DEFINE r1 == [on |-> [d |-> "subnet"], target |-> "RETURN", arg |-> "none"]
             r2 == [on |-> [d |-> "cn"], target |-> "RETURN", arg |-> "none"]
             r3 == [on |-> <<>>, target |-> "JUMP", arg |-> "LOCAL_IP"]
             b == When(CnipMatcher(s), <<r2>>)
             y == [p EXCEPT !.verdict = "RETURN"]
             z == [p EXCEPT !.verdict = "ACCEPT"]
  <1>0. p.verdict = "CONTINUE" /\ y.verdict = "RETURN" /\ z.verdict = "ACCEPT"
        /\ y = [p EXCEPT !.verdict = "RETURN", !.port = "none"] /\ {y, z} = LetGo(p)
    BY DEF IsAnswer, IsPacket, LetGo
  <1>1. CommonBypass(s) = <<r1>> \o b \o <<r3>>
    BY DEF CommonBypass, Return, Jump, Rule
  <1>2. Matches(p, [d |-> "subnet"]) <=> "subnet" \in p.to
    BY Destination
  <1>3. ~Matches(p, [d |-> "cn"]) /\ Matches(p, <<>>)
    BY Destination
  <1>4. AfterMiddle(tt, r1, p) = IF "subnet" \in p.to THEN y ELSE p
    BY <1>0, <1>2 DEF AfterMiddle, After
  <1>5. Idle(b, p)
    <2>1. Idle(Rule([d |-> "cn"], "RETURN", "none"), p)
      BY <1>3, IdleSeqs
    <2> QED BY <2>1, IdleSeqs DEF When, Rule
  <1>6. "mangle_local_ip" \in p.to => AfterMiddle(tt, r3, p) = z
    <2>1. "mangle_local_ip" \in p.to => Left(Inner!Run(tt, tt["LOCAL_IP"], p)) = z
      BY <1>0, LocalIpAccepts DEF Left
    <2> QED BY <1>0, <1>3, <2>1 DEF AfterMiddle, After
  <1>7. AfterMiddle(tt, r3, y) = y
    BY <1>0 DEF AfterMiddle, After
  <1> HIDE DEF r1, r3, b, y, z
  <1>8. IsSeq(<<r1>>) /\ IsSeq(<<r3>>) /\ IsSeq(b) /\ IsSeq(<<r1>> \o b)
    BY <1>5, OneSeq, JoinSeq DEF Idle
  <1>9. Middle!Run(tt, <<r1>> \o b, p) = Middle!Run(tt, b, AfterMiddle(tt, r1, p))
    <2>1. Len(<<r1>>) \in Nat /\ Len(b) \in Nat
      BY <1>8, SeqLen
    <2> QED BY <2>1, Middle!RunAppend, Middle!RunOne
  <1>10. Middle!Run(tt, <<r1>> \o b \o <<r3>>, p)
           = AfterMiddle(tt, r3, Middle!Run(tt, <<r1>> \o b, p))
    <2>1. Len(<<r1>> \o b) \in Nat /\ Len(<<r3>>) \in Nat
      BY <1>8, SeqLen
    <2> QED BY <2>1, Middle!RunAppend, Middle!RunOne
  <1>11. CASE "subnet" \in p.to
    <2>1. Middle!Run(tt, b, y) = y
      BY <1>0, <1>8, Ended
    <2> QED BY <1>0, <1>1, <1>4, <1>7, <1>9, <1>10, <1>11, <2>1
  <1>12. CASE "subnet" \notin p.to
    <2>1. Middle!Run(tt, b, p) = p
      BY <1>5, IdleRun
    <2> QED BY <1>0, <1>1, <1>4, <1>6, <1>9, <1>10, <1>12, <2>1
  <1> QED BY <1>11, <1>12

\* The rules for packets that come in, after those for destinations.
LEMMA ExternalSeq ==
    ASSUME NEW s, NEW protos \in SUBSET {"tcp", "udp"}, NEW on
    PROVE  /\ IsSeq(IgnoredInterfaces(s)) /\ IsSeq(ProtocolRules(protos, on, "Tproxy"))
           /\ IsSeq(ApRules(s, protos, FALSE, "Tproxy"))
  <1>1. \A o : IsSeq(ProtocolRules(protos, o, "Tproxy")) /\ IsSeq(ProtocolRules(protos, o, "Return"))
    BY ProtocolRulesSeq
  <1>2. IsSeq(IgnoredInterfaces(s))
    BY ListsAssumption, ReturnEachSeq DEF IgnoredInterfaces, ForEach
  <1> DEFINE w(i) == [m \in Macs |-> ProtocolRules(protos, [i |-> i, mac |-> m], "Tproxy")]
             b(i) == [m \in Macs |-> ProtocolRules(protos, [i |-> i, mac |-> m], "Return")]
             t(i) == ProtocolRules(protos, [i |-> i], "Tproxy")
             g == [i \in ApInterfaces |-> IF s.mac_mode = "whitelist" THEN Concat(w(i))
                                          ELSE Concat(b(i)) \o t(i)]
  <1>3. ASSUME NEW i PROVE IsSeq(Concat(w(i))) /\ IsSeq(Concat(b(i)) \o t(i))
    <2> DEFINE wi == w(i)
               bi == b(i)
    <2>1. /\ (\A m \in Macs : IsSeq(wi[m])) /\ DOMAIN wi = Macs
          /\ (\A m \in Macs : IsSeq(bi[m])) /\ DOMAIN bi = Macs
      BY <1>1
    <2> HIDE DEF wi, bi
    <2>2. IsSeq(Concat(wi)) /\ IsSeq(Concat(bi))
      BY <2>1, ListsAssumption, EachSeq
    <2> QED BY <1>1, <2>2, JoinSeq DEF wi, bi
  <1>4. (\A i \in ApInterfaces : IsSeq(g[i])) /\ DOMAIN g = ApInterfaces
    <2> HIDE DEF w, b, t
    <2> QED BY <1>3
  <1>5. IsSeq(Concat(g))
    <2> HIDE DEF g
    <2> QED BY <1>4, ListsAssumption, EachSeq
  <1>6. ApRules(s, protos, FALSE, "Tproxy")
          = IF ~s.mac_filter THEN ProtocolRules(protos, <<>>, "Tproxy") ELSE Concat(g)
    BY DEF ApRules, ForEach
  <1> QED BY <1>1, <1>2, <1>5, <1>6

\* Answers are let go by the chain for what comes in: as answers when there is a
\* rule for these, by their destination otherwise.
LEMMA TproxyExternalAnswers ==
    ASSUME NEW s, NEW tt, tt["LOCAL_IP"] = LocalIpChain("mangle_local_ip"), NEW p, IsAnswer(p),
           "cn" \notin p.to, "fake" \notin p.to, "subnet" \in p.to \/ "mangle_local_ip" \in p.to,
           ~PerfConntrack(s)
    PROVE  Middle!Run(tt, TproxyExternal(s), p) \in LetGo(p)
  <1> DEFINE mp == MangleProtos(s)
             x == MangleDns(s, DnsTproxy(s))
             y == FakeIp6(s, "Tproxy")
             cb == CommonBypass(s)
             ig == IgnoredInterfaces(s)
             lo == ProtocolRules(mp, [i |-> "lo"], "Tproxy")
             ap == ApRules(s, mp, FALSE, "Tproxy")
             q == Middle!Run(tt, cb, p)
  <1>1. ReplyBypass(s) = <<>>
    BY DEF ReplyBypass, When
  <1>2. Idle(x, p) /\ Idle(y, p)
    BY DnsIdle, FakeIdle DEF IsAnswer
  <1>3. IsSeq(cb) /\ IsSeq(ig) /\ IsSeq(lo) /\ IsSeq(ap)
    BY ProtoSets, CommonBypassSeq, ExternalSeq
  <1>4. TproxyExternal(s) = <<>> \o x \o y \o (cb \o ig \o lo \o ap)
    BY <1>1 DEF TproxyExternal, ExternalTail
  <1>5. q \in LetGo(p) /\ q.verdict # "CONTINUE"
    <2>1. q \in LetGo(p)
      BY CommonBypassAnswers
    <2> HIDE DEF q
    <2> QED BY <2>1, LetGoEnds DEF IsAnswer
  <1> HIDE DEF x, y, cb, ig, lo, ap, q
  <1>6. Idle(<<>> \o x, p)
    BY <1>2, IdleSeqs
  <1>7. Idle(<<>> \o x \o y, p)
    BY <1>2, <1>6, IdleSeqs
  <1>8. IsSeq(cb \o ig)
    BY <1>3, JoinSeq
  <1>9. IsSeq(cb \o ig \o lo)
    BY <1>3, <1>8, JoinSeq
  <1>10. IsSeq(cb \o ig \o lo \o ap)
    BY <1>3, <1>9, JoinSeq
  <1>11. Middle!Run(tt, TproxyExternal(s), p) = Middle!Run(tt, cb \o ig \o lo \o ap, p)
    <2> DEFINE a == <<>> \o x \o y
               b == cb \o ig \o lo \o ap
    <2>1. Len(a) \in Nat /\ Len(b) \in Nat
      BY <1>7, <1>10, SeqLen DEF Idle
    <2>2. Middle!Run(tt, a, p) = p
      BY <1>7, IdleRun
    <2> HIDE DEF a, b
    <2>3. Middle!Run(tt, a \o b, p) = Middle!Run(tt, b, p)
      BY <2>1, <2>2, Middle!RunAppend
    <2> QED BY <1>4, <2>3 DEF a, b
  <1>12. Middle!Run(tt, cb \o ig, p) = q
    <2>1. Len(cb) \in Nat /\ Len(ig) \in Nat
      BY <1>3, SeqLen
    <2>2. Middle!Run(tt, cb \o ig, p) = Middle!Run(tt, ig, q)
      BY <2>1, Middle!RunAppend DEF q
    <2> QED BY <1>3, <1>5, <2>2, Ended
  <1>13. Middle!Run(tt, cb \o ig \o lo, p) = q
    <2>1. Len(cb \o ig) \in Nat /\ Len(lo) \in Nat
      BY <1>3, <1>8, SeqLen
    <2>2. Middle!Run(tt, cb \o ig \o lo, p) = Middle!Run(tt, lo, q)
      BY <1>12, <2>1, Middle!RunAppend
    <2> QED BY <1>3, <1>5, <2>2, Ended
  <1>14. Middle!Run(tt, cb \o ig \o lo \o ap, p) = q
    <2>1. Len(cb \o ig \o lo) \in Nat /\ Len(ap) \in Nat
      BY <1>3, <1>9, SeqLen
    <2>2. Middle!Run(tt, cb \o ig \o lo \o ap, p) = Middle!Run(tt, ap, q)
      BY <1>13, <2>1, Middle!RunAppend
    <2> QED BY <1>3, <1>5, <2>2, Ended
  <1> QED BY <1>5, <1>11, <1>14

\* Where there is a rule for answers, both chains for what comes in begin with it.
LEMMA RepliesFirst ==
    ASSUME NEW s
    PROVE  StartsWith(TproxyExternal(s), ReplyBypass(s)) /\ StartsWith(PerfExternal(s), ReplyBypass(s))
  <1> DEFINE h == ReplyBypass(s)
             x == MangleDns(s, DnsTproxy(s))
             y == FakeIp6(s, "Tproxy")
             mp == MangleProtos(s)
  <1>1. IsSeq(h) /\ IsSeq(CommonBypass(s))
    BY CommonBypassSeq
  <1>2. IsSeq(x) /\ IsSeq(y)
    BY DnsSeq, FakeIp6Seq
  <1>3. StartsWith(h \o x \o y, h)
    <2> HIDE DEF h, x, y
    <2>1. StartsWith(h, h)
      BY <1>1, StartsItself
    <2>2. StartsWith(h \o x, h)
      BY <1>1, <1>2, <2>1, StartsLonger
    <2> QED BY <1>1, <1>2, <2>2, StartsLonger
  <1>4. StartsWith(TproxyExternal(s), h)
    <2> DEFINE cb == CommonBypass(s)
               ig == IgnoredInterfaces(s)
               lo == ProtocolRules(mp, [i |-> "lo"], "Tproxy")
               ap == ApRules(s, mp, FALSE, "Tproxy")
    <2>1. IsSeq(ig) /\ IsSeq(lo) /\ IsSeq(ap)
      BY ProtoSets, ExternalSeq
    <2>2. IsSeq(cb \o ig \o lo \o ap)
      <3> HIDE DEF cb, ig, lo, ap
      <3>1. IsSeq(cb \o ig)
        BY <1>1, <2>1, JoinSeq DEF cb
      <3>2. IsSeq(cb \o ig \o lo)
        BY <2>1, <3>1, JoinSeq
      <3> QED BY <2>1, <3>2, JoinSeq
    <2>3. ExternalTail(s, mp, FALSE, "Tproxy") = cb \o ig \o lo \o ap
      BY DEF ExternalTail
    <2> HIDE DEF h, x, y, mp, cb, ig, lo, ap
    <2>4. StartsWith(h \o x \o y \o ExternalTail(s, mp, FALSE, "Tproxy"), h)
      BY <1>1, <1>3, <2>2, <2>3, StartsLonger
    <2> QED BY <2>4 DEF TproxyExternal, h, x, y, mp
  <1>5. StartsWith(PerfExternal(s), h)
    <2> DEFINE j == PerfJumps(s, <<"BOX_TP_PRE_IP", "BOX_TP_PRE_IF">>)
               k == PerfConnmark(s)
               d == PerfDispatch(s, "Tproxy")
    <2>1. IsSeq(j) /\ IsSeq(k) /\ IsSeq(d)
      BY PerfSeq
    <2> HIDE DEF h, x, y, j, k, d
    <2>2. StartsWith(h \o x \o y \o j, h)
      BY <1>1, <1>3, <2>1, StartsLonger
    <2>3. StartsWith(h \o x \o y \o j \o k, h)
      BY <1>1, <2>1, <2>2, StartsLonger
    <2>4. StartsWith(h \o x \o y \o j \o k \o d, h)
      BY <1>1, <2>1, <2>3, StartsLonger
    <2> QED BY <2>4 DEF PerfExternal, h, x, y, j, k, d
  <1> QED BY <1>4, <1>5

LEMMA ReplyReturned ==
    ASSUME NEW s, PerfConntrack(s), NEW tt, NEW rules, StartsWith(rules, ReplyBypass(s)),
           NEW p, IsAnswer(p)
    PROVE  Middle!Run(tt, rules, p) \in LetGo(p)
  <1>1. PICK rest : IsSeq(rest) /\ rules = ReplyBypass(s) \o rest
    BY DEF StartsWith
  <1> DEFINE on == [reply |-> TRUE]
             r == [on |-> on, target |-> "RETURN", arg |-> "none"]
             z == [p EXCEPT !.verdict = "RETURN"]
  <1>2. ReplyBypass(s) = <<r>>
    BY DEF ReplyBypass, When, Return, Rule
  <1>3. Matches(p, on)
    <2>1. DOMAIN on = {"reply"} /\ on["reply"] = TRUE
      OBVIOUS
    <2>2. Meets(p, "reply", TRUE)
      BY DEF Meets, IsAnswer
    <2> HIDE DEF on
    <2> QED BY <2>1, <2>2 DEF Matches
  <1>4. p.verdict = "CONTINUE" /\ z.verdict = "RETURN"
        /\ z = [p EXCEPT !.verdict = "RETURN", !.port = "none"] /\ z \in LetGo(p)
    BY DEF IsAnswer, IsPacket, LetGo
  <1> HIDE DEF on
  <1>5. AfterMiddle(tt, r, p) = z
    <2>1. r.target = "RETURN" /\ r.arg = "none" /\ r.on = on
      OBVIOUS
    <2> HIDE DEF r, z
    <2>2. AfterMiddle(tt, r, p) = [p EXCEPT !.verdict = "RETURN", !.port = "none"]
      BY <1>3, <1>4, <2>1 DEF AfterMiddle, After
    <2> QED BY <1>4, <2>2
  <1> HIDE DEF r, z
  <1>6. IsSeq(rest) /\ AfterMiddle(tt, r, p).verdict # "CONTINUE"
    BY <1>1, <1>4, <1>5
  <1>7. Middle!Run(tt, <<r>> \o rest, p) = AfterMiddle(tt, r, p)
    BY ONLY <1>6, HeadEnds
  <1>8. Middle!Run(tt, rules, p) = z
    BY <1>1, <1>2, <1>5, <1>7
  <1>9. z \in LetGo(p)
    BY <1>4
  <1> QED BY <1>8, <1>9

\* The rules of tun's chain for what comes in mark packets or let them go, and
\* nothing else.
Tame(r) == \/ r.target = "RETURN" /\ r.arg = "none"
           \/ r.target = "MARK" /\ r.arg \in {"FWMARK", "TUN_BYPASS", "TUN_ROUTE"}
AllTame(s) == IsSeq(s) /\ \A i \in 1 .. Len(s) : Tame(s[i])

LEMMA TameSeqs ==
    /\ AllTame(<<>>)
    /\ \A a, b : AllTame(a) /\ AllTame(b) => AllTame(a \o b)
    /\ \A b, a : AllTame(a) => AllTame(When(b, a))
    /\ \A on : AllTame(Return(on))
    /\ \A on : \A m \in {"FWMARK", "TUN_BYPASS", "TUN_ROUTE"} :
         AllTame(Mark(on, m)) /\ AllTame(MarkReturn(on, m))
  <1>1. AllTame(<<>>)
    BY NoSeq DEF AllTame
  <1>2. ASSUME NEW a, NEW b, AllTame(a), AllTame(b) PROVE AllTame(a \o b)
    BY <1>2, JoinSeq DEF AllTame
  <1>3. \A b, a : AllTame(a) => AllTame(When(b, a))
    BY <1>1 DEF When
  <1>4. ASSUME NEW on PROVE AllTame(Return(on))
    <2> DEFINE r == [on |-> on, target |-> "RETURN", arg |-> "none"]
    <2>1. Return(on) = <<r>> /\ Tame(r)
      BY DEF Return, Rule, Tame
    <2> HIDE DEF r
    <2> QED BY <2>1, OneSeq DEF AllTame
  <1>5. ASSUME NEW on, NEW m \in {"FWMARK", "TUN_BYPASS", "TUN_ROUTE"} PROVE AllTame(Mark(on, m))
    <2> DEFINE r == [on |-> on, target |-> "MARK", arg |-> m]
    <2>1. Mark(on, m) = <<r>> /\ Tame(r)
      BY DEF Mark, Rule, Tame
    <2> HIDE DEF r
    <2> QED BY <2>1, OneSeq DEF AllTame
  <1>6. \A on : \A m \in {"FWMARK", "TUN_BYPASS", "TUN_ROUTE"} : AllTame(MarkReturn(on, m))
    BY <1>2, <1>4, <1>5 DEF MarkReturn
  <1> QED BY <1>1, <1>2, <1>3, <1>4, <1>5, <1>6

LEMMA TameEach ==
    ASSUME NEW S, NEW g, IsFiniteSet(S), DOMAIN g = S, \A x \in S : AllTame(g[x])
    PROVE  AllTame(Concat(g))
  <1>1. IsSeq(Concat(g)) /\ \A j \in 1 .. Len(Concat(g)) :
          \E x \in DOMAIN g : \E k \in 1 .. Len(g[x]) : Concat(g)[j] = g[x][k]
    BY ConcatEach DEF AllTame
  <1> QED BY <1>1 DEF AllTame

LEMMA TunPreTame ==
    ASSUME NEW s
    PROVE  AllTame(TunPre(s))
  <1> DEFINE S == DnsProtos(s)
             g == [p \in S |-> MarkReturn([p |-> p, dport |-> "53"], "TUN_ROUTE")]
             k == [i \in BlockedInterfaces |-> MarkReturn([i |-> i], "TUN_BYPASS")]
             w(i) == [m \in Macs |-> Mark([i |-> i, mac |-> m], "TUN_ROUTE")]
             b(i) == [m \in Macs |-> MarkReturn([i |-> i, mac |-> m], "TUN_BYPASS")]
             a == [i \in ApInterfaces |-> IF s.mac_mode = "whitelist"
                                          THEN Concat(w(i)) \o MarkReturn([i |-> i], "TUN_BYPASS")
                                          ELSE Concat(b(i)) \o Mark([i |-> i], "TUN_ROUTE")]
  <1>1. AllTame(TunDns(s))
    <2>1. IsFiniteSet(S)
      BY ProtoSets, SomeProtos
    <2>2. (\A p \in S : AllTame(g[p])) /\ DOMAIN g = S
      BY TameSeqs
    <2>3. AllTame(Concat(g))
      <3> HIDE DEF g
      <3> QED BY <2>1, <2>2, TameEach
    <2> QED BY <2>3, TameSeqs DEF TunDns, ForEach
  <1>2. AllTame(TunBypassDestination(s))
    <2> DEFINE d1 == When(s.fake_ip, MarkReturn([d |-> "fake"], "TUN_ROUTE"))
               d2 == Return([d |-> "subnet"])
               d3 == When(CnipMatcher(s), Mark([d |-> "cn"], "TUN_BYPASS"))
               d4 == Return([mark |-> "TUN_BYPASS"])
               d5 == Mark(<<>>, "TUN_ROUTE")
    <2>1. AllTame(d1) /\ AllTame(d2) /\ AllTame(d3) /\ AllTame(d4) /\ AllTame(d5)
      BY TameSeqs
    <2> HIDE DEF d1, d2, d3, d4, d5
    <2>2. AllTame(d1 \o d2 \o d3 \o d4 \o d5)
      BY <2>1, TameSeqs
    <2> QED BY <2>2 DEF d1, d2, d3, d4, d5, TunBypassDestination
  <1>3. ASSUME NEW i
        PROVE  /\ AllTame(Concat(w(i)) \o MarkReturn([i |-> i], "TUN_BYPASS"))
               /\ AllTame(Concat(b(i)) \o Mark([i |-> i], "TUN_ROUTE"))
    <2> DEFINE wi == w(i)
               bi == b(i)
    <2>1. /\ (\A m \in Macs : AllTame(wi[m])) /\ DOMAIN wi = Macs
          /\ (\A m \in Macs : AllTame(bi[m])) /\ DOMAIN bi = Macs
      BY TameSeqs
    <2> HIDE DEF wi, bi
    <2>2. AllTame(Concat(wi)) /\ AllTame(Concat(bi))
      BY <2>1, ListsAssumption, TameEach
    <2>3. AllTame(MarkReturn([i |-> i], "TUN_BYPASS")) /\ AllTame(Mark([i |-> i], "TUN_ROUTE"))
      BY TameSeqs
    <2>4. /\ AllTame(Concat(wi) \o MarkReturn([i |-> i], "TUN_BYPASS"))
          /\ AllTame(Concat(bi) \o Mark([i |-> i], "TUN_ROUTE"))
      BY <2>2, <2>3, TameSeqs
    <2> QED BY <2>4 DEF wi, bi
  <1>4. AllTame(Concat(a))
    <2>1. (\A i \in ApInterfaces : AllTame(a[i])) /\ DOMAIN a = ApInterfaces
      <3> HIDE DEF w, b
      <3> QED BY <1>3
    <2> HIDE DEF a
    <2> QED BY <2>1, ListsAssumption, TameEach
  <1>5. AllTame(Concat(k))
    <2>1. (\A i \in BlockedInterfaces : AllTame(k[i])) /\ DOMAIN k = BlockedInterfaces
      BY TameSeqs
    <2> HIDE DEF k
    <2> QED BY <2>1, ListsAssumption, TameEach
  <1>6. AllTame(TunInterfacePolicy(s))
    <2>1. TunInterfacePolicy(s)
            = Concat(k) \o When(s.mac_filter, Concat(a) \o Return([mark |-> "TUN_BYPASS"]))
      BY DEF TunInterfacePolicy, ForEach
    <2> HIDE DEF a, k
    <2>2. AllTame(Return([mark |-> "TUN_BYPASS"]))
      BY TameSeqs
    <2>3. AllTame(Concat(a) \o Return([mark |-> "TUN_BYPASS"]))
      BY <1>4, <2>2, TameSeqs
    <2>4. AllTame(When(s.mac_filter, Concat(a) \o Return([mark |-> "TUN_BYPASS"])))
      BY <2>3, TameSeqs
    <2> QED BY <1>5, <2>1, <2>4, TameSeqs
  <1>7. AllTame(Return([i |-> "tun"]) \o TunInterfacePolicy(s) \o TunDns(s))
    <2>1. AllTame(Return([i |-> "tun"]))
      BY TameSeqs
    <2>2. AllTame(Return([i |-> "tun"]) \o TunInterfacePolicy(s))
      BY <1>6, <2>1, TameSeqs
    <2> QED BY <1>1, <2>2, TameSeqs
  <1> QED BY <1>2, <1>7, TameSeqs DEF TunPre

LEMMA TameRun ==
    ASSUME NEW tt, NEW rules, AllTame(rules), NEW p, IsAnswer(p)
    PROVE  LET q == Middle!Run(tt, rules, p)
           IN  "verdict" \in DOMAIN q /\ q.verdict \in {"CONTINUE", "RETURN"}
  <1> DEFINE V(m, v) == [p EXCEPT !.mark = m, !.verdict = v]
             Q == {V(m, v) : m \in SUBSET {24, 25}, v \in {"CONTINUE", "RETURN"}}
  <1>1. p = V({}, "CONTINUE")
    BY DEF IsAnswer, IsPacket
  <1>2. ASSUME NEW m, NEW v PROVE V(m, v).verdict = v /\ "verdict" \in DOMAIN V(m, v)
    BY DEF IsAnswer, IsPacket
  <1>3. ASSUME NEW m, NEW v
        PROVE  [V(m, v) EXCEPT !.verdict = "RETURN", !.port = "none"] = V(m, "RETURN")
    BY DEF IsAnswer, IsPacket
  <1>4. ASSUME NEW m, NEW v, NEW b
        PROVE  [V(m, v) EXCEPT !.mark = @ \cup b] = V(m \cup b, v)
    BY DEF IsAnswer, IsPacket
  <1> HIDE DEF V
  <1>5. p \in Q
    BY <1>1
  <1>6. ASSUME NEW r, Tame(r), NEW m \in SUBSET {24, 25}, NEW v \in {"CONTINUE", "RETURN"}
        PROVE  AfterMiddle(tt, r, V(m, v)) \in Q
    <2> DEFINE q == V(m, v)
    <2>0. q \in Q /\ q.verdict = v
      BY <1>2
    <2>1. CASE v # "CONTINUE" \/ ~Matches(q, r.on)
      <3> HIDE DEF Q, q
      <3>1. AfterMiddle(tt, r, q) = q
        BY <2>0, <2>1 DEF AfterMiddle, After
      <3> QED BY <2>0, <3>1 DEF q
    <2>2. CASE v = "CONTINUE" /\ Matches(q, r.on) /\ r.target = "RETURN" /\ r.arg = "none"
      <3>1. AfterMiddle(tt, r, q) = [q EXCEPT !.verdict = "RETURN", !.port = "none"]
        <4> HIDE DEF q
        <4> QED BY <2>0, <2>2 DEF AfterMiddle, After
      <3>2. AfterMiddle(tt, r, q) = V(m, "RETURN")
        BY <1>3, <3>1
      <3> QED BY <3>2
    <2>3. CASE /\ v = "CONTINUE" /\ Matches(q, r.on)
               /\ r.target = "MARK" /\ r.arg \in {"FWMARK", "TUN_BYPASS", "TUN_ROUTE"}
      <3> DEFINE b == Bits(r.arg)
      <3>1. b \in SUBSET {24, 25}
        BY <2>3 DEF Bits
      <3>2. AfterMiddle(tt, r, q) = [q EXCEPT !.mark = @ \cup b]
        <4> HIDE DEF q
        <4> QED BY <2>0, <2>3 DEF AfterMiddle, After
      <3> HIDE DEF b
      <3>3. AfterMiddle(tt, r, q) = V(m \cup b, v)
        BY <1>4, <3>2
      <3>4. m \cup b \in SUBSET {24, 25}
        BY <3>1
      <3> QED BY <3>3, <3>4
    <2> HIDE DEF Q
    <2> QED BY <1>6, <2>1, <2>2, <2>3 DEF Tame
  <1>7. \A r, q : Tame(r) /\ q \in Q => AfterMiddle(tt, r, q) \in Q
    BY <1>6
  <1>8. \A q \in Q : "verdict" \in DOMAIN q /\ q.verdict \in {"CONTINUE", "RETURN"}
    BY <1>2
  <1> HIDE DEF Q
  <1>9. Len(rules) \in Nat
    BY SeqLen DEF AllTame
  <1>10. \A i \in 1 .. Len(rules), q \in Q : AfterMiddle(tt, rules[i], q) \in Q
    BY <1>7 DEF AllTame
  <1>11. Middle!Run(tt, rules, p) \in Q
    BY <1>5, <1>9, <1>10, Middle!RunStays
  <1> QED BY <1>8, <1>11

\* No rule for what comes in takes an answer to the phone's addresses.
LEMMA PreroutingLetsAnswers ==
    ASSUME NEW s, NEW p, IsAnswer(p), "cn" \notin p.to, "fake" \notin p.to,
           PerfConntrack(s) \/ "subnet" \in p.to \/ "mangle_local_ip" \in p.to
    PROVE  Walk(MangleChains(s), "PREROUTING", p).verdict # "TPROXY"
  <1> DEFINE tt == MangleChains(s)
             don == [p |-> "tcp", socket |-> TRUE]
             a == When(TproxyUp(s) /\ DivertWanted(s), Rule(don, "JUMP", "DIVERT"))
             b == When(TproxyUp(s), Rule(<<>>, "JUMP", "BOX_EXTERNAL"))
             d == When(TunUp(s), Rule(<<>>, "JUMP", "BOX_TUN_BYPASS_PRE"))
             tp == Left(Middle!Run(tt, tt["BOX_EXTERNAL"], p))
             tun == Left(Middle!Run(tt, tt["BOX_TUN_BYPASS_PRE"], p))
  <1>1. tt["PREROUTING"] = a \o b \o d
    BY DEF MangleChains, Jump
  <1>2. /\ tt["LOCAL_IP"] = LocalIpChain("mangle_local_ip")
        /\ tt["BOX_EXTERNAL"] = IF PerfChains(s) THEN PerfExternal(s) ELSE TproxyExternal(s)
        /\ tt["BOX_TUN_BYPASS_PRE"] = TunPre(s)
    BY DEF MangleChains
  <1> HIDE DEF tt
  <1>3. ~(TproxyUp(s) /\ TunUp(s))
    BY DEF TproxyUp, TproxyMode, TunUp
  <1>4. p.verdict = "CONTINUE" /\ [p EXCEPT !.verdict = "CONTINUE"] = p
    BY DEF IsAnswer, IsPacket
  <1>5. tp.verdict \in {"CONTINUE", "ACCEPT"}
    <2> DEFINE q == Middle!Run(tt, tt["BOX_EXTERNAL"], p)
    <2>1. q \in LetGo(p)
      <3>1. CASE PerfConntrack(s)
        <4>1. StartsWith(tt["BOX_EXTERNAL"], ReplyBypass(s))
          BY <1>2, RepliesFirst
        <4> QED BY <3>1, <4>1, ReplyReturned
      <3>2. CASE ~PerfConntrack(s)
        <4>1. tt["BOX_EXTERNAL"] = TproxyExternal(s)
          BY <1>2, <3>2 DEF PerfChains
        <4> QED BY <1>2, <3>2, <4>1, TproxyExternalAnswers
      <3> QED BY <3>1, <3>2
    <2> HIDE DEF q
    <2>2. "verdict" \in DOMAIN q /\ q.verdict \in {"RETURN", "ACCEPT"}
      BY <2>1, LetGoEnds DEF IsAnswer
    <2>3. Left(q).verdict \in {"CONTINUE", "ACCEPT"}
      BY <2>2 DEF Left
    <2> QED BY <2>3 DEF q
  <1>6. tun.verdict = "CONTINUE"
    <2> DEFINE q == Middle!Run(tt, tt["BOX_TUN_BYPASS_PRE"], p)
    <2>1. "verdict" \in DOMAIN q /\ q.verdict \in {"CONTINUE", "RETURN"}
      BY <1>2, TunPreTame, TameRun
    <2> HIDE DEF q
    <2>2. Left(q).verdict = "CONTINUE"
      BY <2>1 DEF Left
    <2> QED BY <2>2 DEF q
  <1>7. Outer!Run(tt, a, p) = p
    <2>1. ~Matches(p, don)
      <3>1. "socket" \in DOMAIN don /\ don["socket"] = TRUE
        OBVIOUS
      <3>2. ~Meets(p, "socket", TRUE)
        BY DEF Meets, IsAnswer
      <3> HIDE DEF don
      <3> QED BY <3>1, <3>2 DEF Matches
    <2>2. Idle(a, p)
      <3> HIDE DEF don
      <3>1. Idle(Rule(don, "JUMP", "DIVERT"), p)
        BY <2>1, IdleSeqs
      <3> QED BY <3>1, IdleSeqs DEF When
    <2> HIDE DEF a
    <2>3. Len(a) \in Nat /\ p \in {p}
      BY <2>2, SeqLen DEF Idle
    <2>4. \A i \in 1 .. Len(a), q \in {p} : AfterOuter(tt, a[i], q) \in {p}
      BY <2>2 DEF Idle, AfterOuter, After
    <2>5. Outer!Run(tt, a, p) \in {p}
      BY <2>3, <2>4, Outer!RunStays
    <2> QED BY <2>5
  <1>8. Outer!Run(tt, b, p) = IF TproxyUp(s) THEN tp ELSE p
    <2> DEFINE r == [on |-> <<>>, target |-> "JUMP", arg |-> "BOX_EXTERNAL"]
    <2>1. AfterOuter(tt, r, p) = tp
      BY <1>4, Destination DEF AfterOuter, After
    <2>2. b = IF TproxyUp(s) THEN <<r>> ELSE <<>>
      BY DEF When, Rule
    <2> HIDE DEF tp, r, b
    <2> QED BY <2>1, <2>2, Outer!RunOne, Outer!RunNone
  <1>9. Outer!Run(tt, d, p) = IF TunUp(s) THEN tun ELSE p
    <2> DEFINE r == [on |-> <<>>, target |-> "JUMP", arg |-> "BOX_TUN_BYPASS_PRE"]
    <2>1. AfterOuter(tt, r, p) = tun
      BY <1>4, Destination DEF AfterOuter, After
    <2>2. d = IF TunUp(s) THEN <<r>> ELSE <<>>
      BY DEF When, Rule
    <2> HIDE DEF tun, r, d
    <2> QED BY <2>1, <2>2, Outer!RunOne, Outer!RunNone
  <1>10. TproxyUp(s) => d = <<>>
    BY <1>3 DEF When
  <1>11. IsSeq(a) /\ IsSeq(b) /\ IsSeq(d)
    BY WhenRules
  <1> HIDE DEF a, b, d, tp, tun
  <1>12. Outer!Run(tt, a \o b, p) = IF TproxyUp(s) THEN tp ELSE p
    <2>1. Len(a) \in Nat /\ Len(b) \in Nat
      BY <1>11, SeqLen
    <2> QED BY <1>7, <1>8, <2>1, Outer!RunAppend
  <1>13. Outer!Run(tt, a \o b \o d, p) \in {p, tp, tun}
    <2>1. Len(a \o b) \in Nat /\ Len(d) \in Nat
      BY <1>11, JoinSeq, SeqLen
    <2>2. Outer!Run(tt, a \o b \o d, p) = Outer!Run(tt, d, IF TproxyUp(s) THEN tp ELSE p)
      BY <1>12, <2>1, Outer!RunAppend
    <2>3. CASE TproxyUp(s)
      BY <1>10, <2>2, <2>3, Outer!RunNone
    <2>4. CASE ~TproxyUp(s)
      BY <1>9, <2>2, <2>4
    <2> QED BY <2>3, <2>4
  <1>14. Walk(tt, "PREROUTING", p) \in {p, tp, tun}
    BY <1>1, <1>4, <1>5, <1>6, <1>13 DEF Walk, Left
  <1> QED BY <1>4, <1>5, <1>6, <1>14 DEF tt

-----------------------------------------------------------------------------
(* RepliesLeftAlone. *)

\* The mark that routes to tun has the bit of the mark that routes by main,
\* where the networks on the phone's links are found first.
LEMMA OnLinkIsDirect ==
    ASSUME NEW p, NEW dst, OnLink(dst)
    PROVE  TunRoute(p, dst) = "direct"
  BY DEF OnLink, TunRoute, Marked, Bits

RepliesInv == c \in Settings /\ chains = Tables(c) /\ RepliesLeftAlone

\* The answer the core sends goes straight out.
LEMMA CoreAnswers ==
    ASSUME RepliesInv, up, c.owner # "none", NEW p, FromCore(p), IsAnswer(p), NEW dst
    PROVE  Outgoing(p, dst).fate = "direct"
  <1>1. Finite(c) /\ c.owner \in {"both", "uid", "gid"}
    BY SettingsFinite DEF RepliesInv
  <1>2. T.mangle = MangleChains(c) /\ T.filter = FilterChains(c)
    BY DEF T, RepliesInv, Tables
  <1>3. Walk(T.mangle, "OUTPUT", p) = p
    BY <1>1, <1>2, MangleLeavesCore
  <1>4. Walk(T.filter, "OUTPUT", p) = p
    BY <1>1, <1>2, FilterLetsAnswers
  <1>5. p.mark = {} /\ p.reply = TRUE /\ p.verdict = "CONTINUE"
    BY DEF IsAnswer
  <1>6. ~Marked(p, "FWMARK") /\ TunRoute(p, dst) = "direct"
    BY <1>5, NotMarked
  <1> QED BY <1>3, <1>4, <1>5, <1>6 DEF Outgoing

\* The answer from the network reaches the phone or the hotspot's client.
LEMMA NetworkAnswers ==
    ASSUME RepliesInv, up, addr # "moved" \/ PerfConntrack(c),
           NEW p, IsAnswer(p), NEW dst \in {"home", "host"}, p.to = Classes(dst)
    PROVE  Incoming(p, dst).fate = "direct"
  <1>1. T.mangle = MangleChains(c)
    BY DEF T, RepliesInv, Tables
  <1>2. "cn" \notin p.to /\ "fake" \notin p.to
    BY DEF Classes
  <1>3. addr # "moved" => "mangle_local_ip" \in p.to
    BY DEF Classes
  <1> DEFINE m == Walk(T.mangle, "PREROUTING", p)
  <1>4. m.verdict # "TPROXY"
    BY <1>1, <1>2, <1>3, PreroutingLetsAnswers
  <1> HIDE DEF m
  <1>5. TunRoute(m, dst) = "direct"
    BY OnLinkIsDirect DEF OnLink
  <1>6. p.reply = TRUE /\ p.socket = FALSE
    BY DEF IsAnswer
  <1> QED BY <1>4, <1>5, <1>6 DEF Incoming, m

LEMMA RepliesStep ==
    ASSUME RepliesInv, [Next]_vars
    PROVE  RepliesInv'
  <1> USE DEF RepliesInv, RepliesLeftAlone
  <1>1. CASE ApplyRules \/ ClearRules \/ Move \/ RefreshLocalIp
    BY <1>1 DEF ApplyRules, ClearRules, Move, RefreshLocalIp, Forget
  <1>2. CASE Send \/ Expire \/ UNCHANGED vars
    BY <1>2 DEF Send, Expire, vars, PerfConntrack
  <1>3. CASE Answer
    <2>1. c' = c /\ chains' = chains /\ addr' = addr
      BY <1>3 DEF Answer
    <2> SUFFICES ASSUME c.owner # "none", addr # "moved" \/ PerfConntrack(c)
                 PROVE  back' \in {"none", "direct"}
      BY <2>1 DEF PerfConntrack
    <2> DEFINE dst == IF Local(f) THEN "host" ELSE "home"
               from == IF fate = "tun" THEN "tun" ELSE "wan"
               own == Packet("none", BoxUid, BoxGid, "none", "other", dst, FALSE, TRUE)
               in == Packet(from, "none", "none", "none", "other", dst, FALSE, TRUE)
    <2>2. /\ FromCore(own) /\ IsAnswer(own)
          /\ IsAnswer(in) /\ in.to = Classes(dst)
      BY DEF Packet, FromCore, IsAnswer, IsPacket
    <2>3. dst \in {"home", "host"}
      OBVIOUS
    <2>4. back' = IF up THEN IF fate \in {"tproxy", "redir", "dns"} THEN Outgoing(own, dst).fate
                             ELSE Incoming(in, dst).fate
                  ELSE "none"
      BY <1>3 DEF Answer
    <2> HIDE DEF own, in, dst
    <2>5. up => Outgoing(own, dst).fate = "direct"
      BY <2>2, CoreAnswers
    <2>6. up => Incoming(in, dst).fate = "direct"
      BY <2>2, <2>3, NetworkAnswers
    <2> QED BY <2>4, <2>5, <2>6
  <1> QED BY <1>1, <1>2, <1>3 DEF Next

\* The answer to a packet, from the core or from the network, reaches who asked and is
\* not captured itself, with the exception RepliesLeftAlone names: a moved address
\* without the bypass of answers (rules.rs, apply_tproxy_reply_bypass_rules).
THEOREM RepliesReachTheAsker == Spec => []RepliesLeftAlone
  <1>1. Init => RepliesInv
    BY DEF Init, RepliesInv, RepliesLeftAlone
  <1>2. RepliesInv => RepliesLeftAlone
    BY DEF RepliesInv
  <1> QED BY <1>1, <1>2, RepliesStep, PTL DEF Spec

-----------------------------------------------------------------------------
(* What a walk makes of any of a set of packets. *)

Goes(tt, rules, A, B) == IsSeq(rules) /\ \A q \in A : Middle!Run(tt, rules, q) \in B

LEMMA GoesNone ==
    ASSUME NEW tt, NEW A
    PROVE  Goes(tt, <<>>, A, A)
  BY NoSeq, Middle!RunNone DEF Goes

LEMMA GoesWider ==
    ASSUME NEW tt, NEW s, NEW A, NEW B, NEW A1, NEW B1, Goes(tt, s, A, B), A1 \subseteq A, B \subseteq B1
    PROVE  Goes(tt, s, A1, B1)
  BY DEF Goes

LEMMA GoesJoin ==
    ASSUME NEW tt, NEW a, NEW b, NEW A, NEW B, NEW D, Goes(tt, a, A, B), Goes(tt, b, B, D)
    PROVE  Goes(tt, a \o b, A, D)
  <1>1. IsSeq(a) /\ IsSeq(b) /\ Len(a) \in Nat /\ Len(b) \in Nat
    BY SeqLen DEF Goes
  <1>2. ASSUME NEW q \in A PROVE Middle!Run(tt, a \o b, q) \in D
    <2>1. Middle!Run(tt, a \o b, q) = Middle!Run(tt, b, Middle!Run(tt, a, q))
      BY <1>1, Middle!RunAppend
    <2>2. Middle!Run(tt, a, q) \in B
      BY DEF Goes
    <2> QED BY <2>1, <2>2 DEF Goes
  <1> QED BY <1>1, <1>2, JoinSeq DEF Goes

LEMMA GoesWhen ==
    ASSUME NEW tt, NEW b, NEW s, NEW A, NEW B, b => Goes(tt, s, A, B), ~b => A \subseteq B
    PROVE  Goes(tt, When(b, s), A, B)
  <1>1. CASE b
    BY <1>1 DEF When
  <1>2. CASE ~b
    BY <1>2, GoesNone, GoesWider DEF When
  <1> QED BY <1>1, <1>2

LEMMA GoesBoth ==
    ASSUME NEW tt, NEW s, NEW A, NEW B, NEW A1, NEW B1, Goes(tt, s, A, B), Goes(tt, s, A1, B1)
    PROVE  Goes(tt, s, A \cup A1, B \cup B1)
  BY DEF Goes

\* What has ended stays as it is.
LEMMA GoesOn ==
    ASSUME NEW tt, NEW s, IsSeq(s), NEW A, \A q \in A : q.verdict # "CONTINUE"
    PROVE  Goes(tt, s, A, A)
  BY Ended DEF Goes

LEMMA GoesRule ==
    ASSUME NEW tt, NEW on, NEW t, NEW a, NEW A, NEW B,
           \A q \in A : AfterMiddle(tt, [on |-> on, target |-> t, arg |-> a], q) \in B
    PROVE  Goes(tt, Rule(on, t, a), A, B)
  BY RuleSeq, Middle!RunOne DEF Goes, Rule

\* Rules put together are walked one after the other.
LEMMA Flattened ==
    ASSUME NEW q, Len(q) \in Nat, Len(q) # 0
    PROVE  \E fl : /\ FlattenSeq(q) = fl[Len(q)]
                   /\ \A i \in 1 .. Len(q) : fl[i] = IF i = 1 THEN q[1] ELSE fl[i - 1] \o q[i]
  <1> DEFINE Fits(g, n) == g = [i \in 1 .. n |-> IF i = 1 THEN q[i] ELSE g[i - 1] \o q[i]]
             fl == CHOOSE g : Fits(g, Len(q))
             K == {n \in Nat : \E g : Fits(g, n)}
  <1>1. 0 \in K
    <2>1. Fits(<<>>, 0)
      OBVIOUS
    <2> QED BY <2>1
  <1>2. ASSUME NEW n \in K PROVE n + 1 \in K
    <2>1. PICK g : Fits(g, n)
      OBVIOUS
    <2> DEFINE h == [i \in 1 .. n + 1 |-> IF i <= n THEN g[i] ELSE IF i = 1 THEN q[i] ELSE g[n] \o q[i]]
    <2>2. ASSUME NEW i \in 1 .. n + 1 PROVE h[i] = IF i = 1 THEN q[i] ELSE h[i - 1] \o q[i]
      <3>1. CASE i <= n
        <4>1. h[i] = g[i] /\ i \in 1 .. n /\ (i # 1 => i - 1 \in 1 .. n /\ h[i - 1] = g[i - 1])
          BY <3>1
        <4>2. g[i] = IF i = 1 THEN q[i] ELSE g[i - 1] \o q[i]
          BY <2>1, <4>1
        <4> HIDE DEF h
        <4> QED BY <4>1, <4>2
      <3>2. CASE i = n + 1
        <4>1. h[i] = IF i = 1 THEN q[i] ELSE g[n] \o q[i]
          BY <3>2
        <4>2. i # 1 => h[i - 1] = g[n]
          BY <3>2
        <4> HIDE DEF h
        <4> QED BY <4>1, <4>2
      <3> QED BY <3>1, <3>2
    <2>3. Fits(h, n + 1)
      <3>1. h = [i \in 1 .. n + 1 |-> h[i]]
        OBVIOUS
      <3> HIDE DEF h
      <3> QED BY <2>2, <3>1
    <2> HIDE DEF h, Fits
    <2> QED BY <2>3
  <1> HIDE DEF Fits
  <1>3. K = Nat
    BY <1>1, <1>2, Glue!Induction
  <1>4. \E g : Fits(g, Len(q))
    BY <1>3
  <1>5. Fits(fl, Len(q))
    BY <1>4
  <1>6. FlattenSeq(q) = fl[Len(q)]
    BY DEF FlattenSeq, Fits
  <1> HIDE DEF fl
  <1>7. \A i \in 1 .. Len(q) : fl[i] = IF i = 1 THEN q[i] ELSE fl[i - 1] \o q[i]
    BY <1>5 DEF Fits
  <1> QED BY <1>6, <1>7

LEMMA FlattenedNext ==
    ASSUME NEW q, Len(q) \in Nat, Len(q) # 0
    PROVE  \E fl : /\ FlattenSeq(q) = fl[Len(q)] /\ fl[1] = q[1]
                   /\ \A i \in 1 .. Len(q) : i + 1 \in 1 .. Len(q) => fl[i + 1] = fl[i] \o q[i + 1]
  <1>1. PICK fl : /\ FlattenSeq(q) = fl[Len(q)]
                  /\ \A i \in 1 .. Len(q) : fl[i] = IF i = 1 THEN q[1] ELSE fl[i - 1] \o q[i]
    BY Flattened
  <1>2. ASSUME NEW i \in 1 .. Len(q), i + 1 \in 1 .. Len(q) PROVE fl[i + 1] = fl[i] \o q[i + 1]
    <2> DEFINE k == i + 1
    <2>1. k \in 1 .. Len(q) /\ k # 1 /\ k - 1 = i
      BY <1>2
    <2> HIDE DEF k
    <2>2. fl[k] = fl[k - 1] \o q[k]
      BY ONLY <1>1, <2>1
    <2> QED BY <2>1, <2>2 DEF k
  <1>3. 1 \in 1 .. Len(q) /\ fl[1] = q[1]
    BY <1>1
  <1> QED BY <1>1, <1>2, <1>3

LEMMA GoesFlat ==
    ASSUME NEW tt, NEW q, Len(q) \in Nat, NEW A, \A i \in 1 .. Len(q) : Goes(tt, q[i], A, A),
           q = [i \in 1 .. Len(q) |-> q[i]]
    PROVE  Goes(tt, FlattenSeq(q), A, A)
  <1>1. CASE Len(q) = 0
    <2>1. q = <<>>
      BY <1>1
    <2>2. FlattenSeq(q) = <<>>
      BY <1>1, <2>1 DEF FlattenSeq
    <2> QED BY <1>1, <2>2, GoesNone
  <1>2. CASE Len(q) # 0
    <2>1. PICK fl : /\ FlattenSeq(q) = fl[Len(q)] /\ fl[1] = q[1]
                    /\ \A i \in 1 .. Len(q) : i + 1 \in 1 .. Len(q) => fl[i + 1] = fl[i] \o q[i + 1]
      BY <1>2, FlattenedNext
    <2> DEFINE S == {i \in Nat : i \in 1 .. Len(q) => Goes(tt, fl[i], A, A)}
    <2>2. 0 \in S
      OBVIOUS
    <2>3. ASSUME NEW i \in S PROVE i + 1 \in S
      <3> SUFFICES ASSUME i + 1 \in 1 .. Len(q) PROVE Goes(tt, fl[i + 1], A, A)
        OBVIOUS
      <3>1. CASE i = 0
        BY <2>1, <3>1
      <3>2. CASE i # 0
        <4>1. i \in 1 .. Len(q)
          BY <3>2
        <4>2. Goes(tt, fl[i], A, A) /\ Goes(tt, q[i + 1], A, A)
          BY <4>1
        <4>3. Goes(tt, fl[i] \o q[i + 1], A, A)
          BY <4>2, GoesJoin
        <4> QED BY <2>1, <4>1, <4>3
      <3> QED BY <3>1, <3>2
    <2>4. S = Nat
      BY <2>2, <2>3, Glue!Induction
    <2>5. Goes(tt, fl[Len(q)], A, A)
      BY <1>2, <2>4
    <2> QED BY <2>1, <2>5
  <1> QED BY <1>1, <1>2

LEMMA GoesFlatTo ==
    ASSUME NEW tt, NEW q, Len(q) \in Nat, NEW A, \A i \in 1 .. Len(q) : Goes(tt, q[i], A, A), NEW E,
           NEW j \in 1 .. Len(q), Goes(tt, q[j], A, E), \A i \in 1 .. Len(q) : Goes(tt, q[i], E, E)
    PROVE  Goes(tt, FlattenSeq(q), A, E)
  <1>1. PICK fl : /\ FlattenSeq(q) = fl[Len(q)] /\ fl[1] = q[1]
                  /\ \A i \in 1 .. Len(q) : i + 1 \in 1 .. Len(q) => fl[i + 1] = fl[i] \o q[i + 1]
    <2>1. Len(q) # 0
      OBVIOUS
    <2> QED BY <2>1, FlattenedNext
  <1> DEFINE Z == {i \in Nat : i \in 1 .. Len(q) => Goes(tt, fl[i], A, A) /\ (j <= i => Goes(tt, fl[i], A, E))}
  <1>2. 0 \in Z
    OBVIOUS
  <1>3. ASSUME NEW i \in Z PROVE i + 1 \in Z
    <2> SUFFICES ASSUME i + 1 \in 1 .. Len(q)
                 PROVE  Goes(tt, fl[i + 1], A, A) /\ (j <= i + 1 => Goes(tt, fl[i + 1], A, E))
      OBVIOUS
    <2>1. CASE i = 0
      BY <1>1, <2>1
    <2>2. CASE i # 0
      <3>1. i \in 1 .. Len(q)
        BY <2>2
      <3>2. Goes(tt, fl[i], A, A) /\ Goes(tt, q[i + 1], A, A) /\ Goes(tt, q[i + 1], E, E)
        BY <3>1
      <3>3. Goes(tt, fl[i] \o q[i + 1], A, A)
        BY ONLY <3>2, GoesJoin
      <3>4. CASE j <= i
        <4>1. Goes(tt, fl[i], A, E)
          BY <3>1, <3>4
        <4>2. Goes(tt, fl[i] \o q[i + 1], A, E)
          BY ONLY <3>2, <4>1, GoesJoin
        <4> QED BY <1>1, <3>1, <3>3, <4>2
      <3>5. CASE j = i + 1
        <4>0. Goes(tt, q[i + 1], A, E)
          BY <3>5
        <4>1. Goes(tt, fl[i] \o q[i + 1], A, E)
          BY ONLY <3>2, <4>0, GoesJoin
        <4> QED BY <1>1, <3>1, <3>3, <4>1
      <3>6. CASE j > i + 1
        <4>1. ~(j <= i + 1)
          BY <3>6
        <4> QED BY <1>1, <3>1, <3>3, <4>1
      <3> QED BY <3>4, <3>5, <3>6
    <2> QED BY <2>1, <2>2
  <1>4. Z = Nat
    BY <1>2, <1>3, Glue!Induction
  <1>5. Len(q) \in Z /\ Len(q) \in 1 .. Len(q) /\ j <= Len(q)
    BY <1>4
  <1> QED BY <1>1, <1>5

\* Each element of a finite set is in its list.
LEMMA Listed1 ==
    ASSUME NEW S, IsFiniteSet(S), NEW x \in S
    PROVE  \E i \in 1 .. Cardinality(S) : SetToSeq(S)[i] = x
  <1> DEFINE n == Cardinality(S)
             g == SetToSeq(S)
  <1>1. n \in Nat /\ ExistsBijection(1 .. n, S)
    BY FS_CardinalityType
  <1>2. \E h \in [1 .. n -> S] : IsInjective(h)
    BY <1>1 DEF ExistsBijection, Bijection, Injection, IsInjective
  <1>3. g \in [1 .. n -> S] /\ IsInjective(g)
    BY <1>2 DEF SetToSeq
  <1> HIDE DEF g
  <1>4. g \in Injection(1 .. n, S)
    BY <1>3 DEF Injection, IsInjective
  <1>5. Cardinality(1 .. n) = n
    BY <1>1, FS_Interval
  <1>6. g \in Surjection(1 .. n, S)
    BY <1>4, <1>5, FS_Injection
  <1> QED BY <1>6 DEF Surjection, g

\* Rules for each element of a set: they keep a set of packets that the rules for each
\* element keep, and take it where the rules for one of the elements take it.
LEMMA GoesEach ==
    ASSUME NEW tt, NEW A, NEW S, NEW g, IsFiniteSet(S), DOMAIN g = S, \A x \in S : Goes(tt, g[x], A, A)
    PROVE  Goes(tt, Concat(g), A, A)
  <1> DEFINE l == SetToSeq(S)
             q == [i \in DOMAIN l |-> g[l[i]]]
             n == Cardinality(S)
  <1>1. l \in [1 .. n -> S] /\ n \in Nat
    BY Listing
  <1>2. Concat(g) = FlattenSeq(q)
    BY DEF Concat
  <1> HIDE DEF l, n
  <1>3. q = [i \in 1 .. n |-> g[l[i]]]
    BY <1>1
  <1> HIDE DEF q
  <1>4. Len(q) = n /\ q = [i \in 1 .. Len(q) |-> q[i]] /\ \A i \in 1 .. n : q[i] = g[l[i]] /\ l[i] \in S
    BY <1>1, <1>3
  <1>5. Len(q) \in Nat /\ \A i \in 1 .. Len(q) : Goes(tt, q[i], A, A)
    BY <1>1, <1>4
  <1> QED BY <1>2, <1>4, <1>5, GoesFlat

LEMMA GoesEachTo ==
    ASSUME NEW tt, NEW A, NEW S, NEW g, IsFiniteSet(S), DOMAIN g = S, \A x \in S : Goes(tt, g[x], A, A),
           NEW E, NEW x \in S, Goes(tt, g[x], A, E), \A y \in S : Goes(tt, g[y], E, E)
    PROVE  Goes(tt, Concat(g), A, E)
  <1> DEFINE l == SetToSeq(S)
             q == [i \in DOMAIN l |-> g[l[i]]]
             n == Cardinality(S)
  <1>1. l \in [1 .. n -> S] /\ n \in Nat
    BY Listing
  <1>2. PICK j \in 1 .. n : l[j] = x
    BY Listed1
  <1>3. Concat(g) = FlattenSeq(q)
    BY DEF Concat
  <1> HIDE DEF l, n
  <1>4. q = [i \in 1 .. n |-> g[l[i]]]
    BY <1>1
  <1> HIDE DEF q
  <1>5. Len(q) = n /\ q = [i \in 1 .. Len(q) |-> q[i]] /\ \A i \in 1 .. n : q[i] = g[l[i]] /\ l[i] \in S
    BY <1>1, <1>4
  <1>6. /\ Len(q) \in Nat /\ j \in 1 .. Len(q) /\ Goes(tt, q[j], A, E)
        /\ \A i \in 1 .. Len(q) : Goes(tt, q[i], A, A) /\ Goes(tt, q[i], E, E)
    BY <1>1, <1>2, <1>5
  <1> QED BY <1>3, <1>5, <1>6, GoesFlatTo

-----------------------------------------------------------------------------
(* A packet, and what rules can have made of it. *)

Put(p, m, k, v, o) == [p EXCEPT !.mark = m, !.cmark = k, !.verdict = v, !.port = o]

LEMMA PutIs ==
    ASSUME NEW p, IsPacket(p), NEW m, NEW k, NEW v, NEW o
    PROVE  LET q == Put(p, m, k, v, o)
           IN  /\ q.proto = p.proto /\ q.dport = p.dport /\ q.to = p.to /\ q.iface = p.iface
               /\ q.mac = p.mac /\ q.uid = p.uid /\ q.gid = p.gid /\ q.syn = p.syn
               /\ q.new = p.new /\ q.reply = p.reply /\ q.socket = p.socket
               /\ q.mark = m /\ q.cmark = k /\ q.verdict = v /\ q.port = o
  BY DEF Put, IsPacket

LEMMA PutItself ==
    ASSUME NEW p, IsPacket(p)
    PROVE  p = Put(p, p.mark, p.cmark, p.verdict, p.port)
  BY DEF Put, IsPacket

\* The options that look at what no rule changes.
Fixed == {"p", "not_p", "dport", "not_dport", "d", "i", "mac", "uid", "gid", "app",
          "syn", "new", "reply", "socket"}
On(p, on)  == DOMAIN on \subseteq Fixed /\ \A k \in DOMAIN on : Meets(p, k, on[k])
Off(p, on) == \E k \in DOMAIN on \cap Fixed : ~Meets(p, k, on[k])

LEMMA PutMeets ==
    ASSUME NEW p, IsPacket(p), NEW m, NEW k, NEW v, NEW o, NEW x \in Fixed, NEW y
    PROVE  Meets(Put(p, m, k, v, o), x, y) <=> Meets(p, x, y)
  <1> DEFINE q == Put(p, m, k, v, o)
  <1>1. /\ q.proto = p.proto /\ q.dport = p.dport /\ q.to = p.to /\ q.iface = p.iface
        /\ q.mac = p.mac /\ q.uid = p.uid /\ q.gid = p.gid /\ q.syn = p.syn
        /\ q.new = p.new /\ q.reply = p.reply /\ q.socket = p.socket
    BY PutIs
  <1> HIDE DEF q
  <1>2. Meets(q, x, y) <=> Meets(p, x, y)
    BY <1>1 DEF Meets, Fixed
  <1> QED BY <1>2 DEF q

LEMMA OnOff ==
    ASSUME NEW p, IsPacket(p), NEW m, NEW k, NEW v, NEW o, NEW on
    PROVE  /\ On(p, on) => Matches(Put(p, m, k, v, o), on)
           /\ Off(p, on) => ~Matches(Put(p, m, k, v, o), on)
  BY PutMeets DEF On, Off, Matches

\* What a rule makes of it.
One(on, t, a) == [on |-> on, target |-> t, arg |-> a]

LEMMA PutSkips ==
    ASSUME NEW tt, NEW p, IsPacket(p), NEW m, NEW k, NEW v, NEW o, NEW on, NEW t, NEW a,
           v # "CONTINUE" \/ ~Matches(Put(p, m, k, v, o), on)
    PROVE  AfterMiddle(tt, One(on, t, a), Put(p, m, k, v, o)) = Put(p, m, k, v, o)
  <1>1. Put(p, m, k, v, o).verdict = v /\ One(on, t, a).on = on
    BY PutIs DEF One
  <1> QED BY <1>1 DEF AfterMiddle, After

LEMMA PutEnds ==
    ASSUME NEW tt, NEW p, IsPacket(p), NEW m, NEW k, NEW o, NEW on, NEW t, NEW a,
           Matches(Put(p, m, k, "CONTINUE", o), on), t \notin {"MARK", "CONNMARK", "JUMP"}
    PROVE  AfterMiddle(tt, One(on, t, a), Put(p, m, k, "CONTINUE", o))
             = Put(p, m, k, t, a)
  <1> DEFINE q == Put(p, m, k, "CONTINUE", o)
             r == One(on, t, a)
  <1>1. q.verdict = "CONTINUE" /\ q.mark = m /\ q.cmark = k /\ Matches(q, on)
    BY PutIs
  <1>2. r.on = on /\ r.target = t /\ r.arg = a
    BY DEF One
  <1>3. [q EXCEPT !.verdict = t, !.port = a] = Put(p, m, k, t, a)
    BY DEF Put, IsPacket
  <1> HIDE DEF q, r
  <1>4. AfterMiddle(tt, r, q) = [q EXCEPT !.verdict = t, !.port = a]
    BY <1>1, <1>2 DEF AfterMiddle, After
  <1> QED BY <1>3, <1>4 DEF q, r

LEMMA PutMarks ==
    ASSUME NEW tt, NEW p, IsPacket(p), NEW m, NEW k, NEW o, NEW on, NEW a,
           Matches(Put(p, m, k, "CONTINUE", o), on)
    PROVE  AfterMiddle(tt, One(on, "MARK", a), Put(p, m, k, "CONTINUE", o))
             = Put(p, m \cup Bits(a), k, "CONTINUE", o)
  <1> DEFINE q == Put(p, m, k, "CONTINUE", o)
             r == One(on, "MARK", a)
  <1>1. q.verdict = "CONTINUE" /\ q.mark = m /\ q.cmark = k /\ Matches(q, on)
    BY PutIs
  <1>2. r.on = on /\ r.target = "MARK" /\ r.arg = a
    BY DEF One
  <1>3. [q EXCEPT !.mark = m \cup Bits(a)] = Put(p, m \cup Bits(a), k, "CONTINUE", o)
    BY DEF Put, IsPacket
  <1> HIDE DEF q, r
  <1>4. AfterMiddle(tt, r, q) = [q EXCEPT !.mark = m \cup Bits(a)]
    BY <1>1, <1>2 DEF AfterMiddle, After
  <1> QED BY <1>3, <1>4 DEF q, r

LEMMA PutConnmarks ==
    ASSUME NEW tt, NEW p, IsPacket(p), NEW m, NEW k, NEW o, NEW on, NEW a,
           Matches(Put(p, m, k, "CONTINUE", o), on)
    PROVE  AfterMiddle(tt, One(on, "CONNMARK", a), Put(p, m, k, "CONTINUE", o))
             = Put(p, m, k \cup Bits(a), "CONTINUE", o)
  <1> DEFINE q == Put(p, m, k, "CONTINUE", o)
             r == One(on, "CONNMARK", a)
  <1>1. q.verdict = "CONTINUE" /\ q.mark = m /\ q.cmark = k /\ Matches(q, on)
    BY PutIs
  <1>2. r.on = on /\ r.target = "CONNMARK" /\ r.arg = a
    BY DEF One
  <1>3. [q EXCEPT !.cmark = k \cup Bits(a)] = Put(p, m, k \cup Bits(a), "CONTINUE", o)
    BY DEF Put, IsPacket
  <1> HIDE DEF q, r
  <1>4. AfterMiddle(tt, r, q) = [q EXCEPT !.cmark = k \cup Bits(a)]
    BY <1>1, <1>2 DEF AfterMiddle, After
  <1> QED BY <1>3, <1>4 DEF q, r

LEMMA PutJumps ==
    ASSUME NEW tt, NEW p, IsPacket(p), NEW m, NEW k, NEW o, NEW on, NEW a,
           Matches(Put(p, m, k, "CONTINUE", o), on)
    PROVE  AfterMiddle(tt, One(on, "JUMP", a), Put(p, m, k, "CONTINUE", o))
             = Left(Inner!Run(tt, tt[a], Put(p, m, k, "CONTINUE", o)))
  <1> DEFINE q == Put(p, m, k, "CONTINUE", o)
             r == One(on, "JUMP", a)
  <1>1. q.verdict = "CONTINUE" /\ q.mark = m /\ q.cmark = k /\ Matches(q, on)
    BY PutIs
  <1>2. r.on = on /\ r.target = "JUMP" /\ r.arg = a
    BY DEF One
  <1> HIDE DEF q, r
  <1>3. AfterMiddle(tt, r, q) = Left(Inner!Run(tt, tt[a], q))
    BY <1>1, <1>2 DEF AfterMiddle, After
  <1> QED BY <1>3 DEF q, r

LEMMA PutLeft ==
    ASSUME NEW p, IsPacket(p), NEW m, NEW k, NEW v, NEW o
    PROVE  Left(Put(p, m, k, v, o)) = Put(p, m, k, IF v = "RETURN" THEN "CONTINUE" ELSE v, o)
  <1>1. Put(p, m, k, v, o).verdict = v
    BY PutIs
  <1>2. [Put(p, m, k, v, o) EXCEPT !.verdict = "CONTINUE"] = Put(p, m, k, "CONTINUE", o)
    BY DEF Put, IsPacket
  <1> QED BY <1>1, <1>2 DEF Left

\* Rules that jump nowhere are walked the same at any depth.
Jumpless(rules) == IsSeq(rules) /\ \A i \in 1 .. Len(rules) : rules[i].target # "JUMP"

LEMMA InnerRun ==
    ASSUME NEW tt, NEW rules, Jumpless(rules), NEW q
    PROVE  Inner!Run(tt, rules, q) = Middle!Run(tt, rules, q)
  <1> DEFINE si == Inner!Steps(tt, rules, q)
             sm == Middle!Steps(tt, rules, q)
             S == {i \in Nat : i \in 0 .. Len(rules) => si[i] = sm[i]}
  <1>0. Len(rules) \in Nat
    BY SeqLen DEF Jumpless
  <1>1. \A i \in 0 .. Len(rules) : si[i] = IF i = 0 THEN q ELSE AfterInner(tt, rules[i], si[i - 1])
    BY <1>0, Inner!StepsAt
  <1>2. \A i \in 0 .. Len(rules) : sm[i] = IF i = 0 THEN q ELSE AfterMiddle(tt, rules[i], sm[i - 1])
    BY <1>0, Middle!StepsAt
  <1>3. Inner!Run(tt, rules, q) = si[Len(rules)] /\ Middle!Run(tt, rules, q) = sm[Len(rules)]
    BY DEF Inner!Run, Middle!Run
  <1> HIDE DEF si, sm
  <1>4. \A x : \A i \in 1 .. Len(rules) : AfterInner(tt, rules[i], x) = AfterMiddle(tt, rules[i], x)
    BY DEF AfterInner, AfterMiddle, After, Jumpless
  <1>5. 0 \in S
    BY <1>0, <1>1, <1>2
  <1>6. ASSUME NEW i \in S PROVE i + 1 \in S
    <2> SUFFICES ASSUME i + 1 \in 0 .. Len(rules) PROVE si[i + 1] = sm[i + 1]
      OBVIOUS
    <2> DEFINE k == i + 1
    <2>1. k \in 0 .. Len(rules) /\ k \in 1 .. Len(rules) /\ k # 0 /\ k - 1 = i /\ si[i] = sm[i]
      OBVIOUS
    <2> HIDE DEF k
    <2>2. si[k] = AfterInner(tt, rules[k], si[k - 1]) /\ sm[k] = AfterMiddle(tt, rules[k], sm[k - 1])
      BY ONLY <1>1, <1>2, <2>1
    <2>3. si[k] = sm[k]
      BY ONLY <1>4, <2>1, <2>2
    <2> QED BY <2>3 DEF k
  <1>7. S = Nat
    BY <1>5, <1>6, Inner!Induction
  <1> QED BY <1>0, <1>3, <1>7

LEMMA JumplessSeqs ==
    /\ Jumpless(<<>>)
    /\ \A a, b : Jumpless(a) /\ Jumpless(b) => Jumpless(a \o b)
    /\ \A b, a : Jumpless(a) => Jumpless(When(b, a))
    /\ \A on, t, a : t # "JUMP" => Jumpless(Rule(on, t, a))
  <1>1. Jumpless(<<>>)
    BY NoSeq DEF Jumpless
  <1>2. ASSUME NEW a, NEW b, Jumpless(a), Jumpless(b) PROVE Jumpless(a \o b)
    BY <1>2, JoinSeq DEF Jumpless
  <1>3. \A b, a : Jumpless(a) => Jumpless(When(b, a))
    BY <1>1 DEF When
  <1>4. ASSUME NEW on, NEW t, NEW a, t # "JUMP" PROVE Jumpless(Rule(on, t, a))
    <2> DEFINE r == [on |-> on, target |-> t, arg |-> a]
    <2>1. Rule(on, t, a) = <<r>> /\ r.target = t
      BY DEF Rule
    <2> HIDE DEF r
    <2> QED BY <1>4, <2>1, OneSeq DEF Jumpless
  <1> QED BY <1>1, <1>2, <1>3, <1>4

LEMMA JumplessEach ==
    ASSUME NEW S, NEW g, IsFiniteSet(S), DOMAIN g = S, \A x \in S : Jumpless(g[x])
    PROVE  Jumpless(Concat(g))
  <1>1. IsSeq(Concat(g)) /\ \A j \in 1 .. Len(Concat(g)) :
          \E x \in DOMAIN g : \E k \in 1 .. Len(g[x]) : Concat(g)[j] = g[x][k]
    BY ConcatEach DEF Jumpless
  <1> QED BY <1>1 DEF Jumpless

-----------------------------------------------------------------------------
(* Packets that are let go. *)

\* What a packet can look like on its way when no rule takes it: the one mark it may
\* bear is tun's mark to bypass.
Kept(p, V) == {Put(p, m, p.cmark, v, "none") : m \in {{}, {25}}, v \in V}
Open == {"CONTINUE"}
Over == {"RETURN", "ACCEPT"}
Let  == {"CONTINUE", "RETURN", "ACCEPT"}

Gives(tt, rules, p, W) == Goes(tt, rules, Kept(p, Open), Kept(p, W))

LEMMA KeptUnion ==
    ASSUME NEW p, NEW V, NEW W
    PROVE  /\ Kept(p, V) \cup Kept(p, W) = Kept(p, V \cup W)
           /\ V \subseteq W => Kept(p, V) \subseteq Kept(p, W)
  BY DEF Kept

LEMMA KeptEnded ==
    ASSUME NEW p, IsPacket(p), NEW V, "CONTINUE" \notin V, NEW tt, NEW s, IsSeq(s)
    PROVE  Goes(tt, s, Kept(p, V), Kept(p, V))
  <1>1. \A q \in Kept(p, V) : q.verdict # "CONTINUE"
    BY PutIs DEF Kept
  <1> QED BY <1>1, GoesOn

LEMMA GivesWider ==
    ASSUME NEW tt, NEW s, NEW p, NEW W, NEW X, Gives(tt, s, p, W), W \subseteq X
    PROVE  Gives(tt, s, p, X)
  BY KeptUnion, GoesWider DEF Gives

\* Rules that go on where others have come to: W is where they get from packets that
\* no rule has ended the walk of.
LEMMA GivesOn ==
    ASSUME NEW tt, NEW s, NEW p, IsPacket(p), NEW W, NEW X, IsSeq(s), 
           "CONTINUE" \in W => Gives(tt, s, p, X), W \ Open \subseteq X
    PROVE  Goes(tt, s, Kept(p, W), Kept(p, X))
  <1> DEFINE E == W \ Open
  <1>1. "CONTINUE" \notin E
    BY DEF Open
  <1> HIDE DEF E
  <1>2. Goes(tt, s, Kept(p, E), Kept(p, E))
    BY <1>1, KeptEnded
  <1>3. Goes(tt, s, Kept(p, E), Kept(p, X))
    BY <1>2, KeptUnion, GoesWider DEF E
  <1>4. CASE "CONTINUE" \notin W
    <2>1. E = W
      BY <1>4 DEF E, Open
    <2> QED BY <1>3, <2>1
  <1>5. CASE "CONTINUE" \in W
    <2>1. Goes(tt, s, Kept(p, Open), Kept(p, X))
      BY <1>5 DEF Gives
    <2>2. Goes(tt, s, Kept(p, Open) \cup Kept(p, E), Kept(p, X) \cup Kept(p, X))
      BY <1>3, <2>1, GoesBoth
    <2>3. Kept(p, Open) \cup Kept(p, E) = Kept(p, Open \cup E) /\ Open \cup E = W
      BY <1>5, KeptUnion DEF E, Open
    <2> QED BY <2>2, <2>3
  <1> QED BY <1>4, <1>5

LEMMA GivesJoin ==
    ASSUME NEW tt, NEW a, NEW b, NEW p, IsPacket(p), NEW W, NEW X, Gives(tt, a, p, W), IsSeq(b),
           "CONTINUE" \in W => Gives(tt, b, p, X), W \ Open \subseteq X
    PROVE  Gives(tt, a \o b, p, X)
  <1>1. Goes(tt, b, Kept(p, W), Kept(p, X))
    BY GivesOn
  <1>2. Goes(tt, a, Kept(p, Open), Kept(p, W))
    BY DEF Gives
  <1> QED BY <1>1, <1>2, GoesJoin DEF Gives

\* The ways rules are put together: neither part ends the walk, the first one does,
\* the second one does.
LEMMA GivesBoth ==
    ASSUME NEW tt, NEW a, NEW b, NEW p, IsPacket(p), NEW X, Gives(tt, a, p, X), Gives(tt, b, p, X)
    PROVE  Gives(tt, a \o b, p, X)
  <1>1. IsSeq(b) /\ X \ Open \subseteq X
    BY DEF Gives, Goes
  <1> QED BY <1>1, GivesJoin

LEMMA GivesFirst ==
    ASSUME NEW tt, NEW a, NEW b, NEW p, IsPacket(p), NEW X, Gives(tt, a, p, X), IsSeq(b),
           "CONTINUE" \notin X
    PROVE  Gives(tt, a \o b, p, X)
  <1>1. X \ Open \subseteq X
    OBVIOUS
  <1> QED BY <1>1, GivesJoin

LEMMA GivesLast ==
    ASSUME NEW tt, NEW a, NEW b, NEW p, IsPacket(p), NEW X, Gives(tt, a, p, X \cup Open),
           Gives(tt, b, p, X)
    PROVE  Gives(tt, a \o b, p, X)
  <1>1. IsSeq(b) /\ (X \cup Open) \ Open \subseteq X
    BY DEF Gives, Goes
  <1> QED BY <1>1, GivesJoin

LEMMA GivesNone ==
    ASSUME NEW tt, NEW p, NEW X, "CONTINUE" \in X
    PROVE  Gives(tt, <<>>, p, X)
  <1>1. Open \subseteq X
    BY DEF Open
  <1> QED BY <1>1, GoesNone, GoesWider, KeptUnion DEF Gives

LEMMA GivesWhen ==
    ASSUME NEW tt, NEW b, NEW s, NEW p, NEW X, "CONTINUE" \in X, b => Gives(tt, s, p, X)
    PROVE  Gives(tt, When(b, s), p, X)
  BY GivesNone DEF When

LEMMA GivesEach ==
    ASSUME NEW tt, NEW p, IsPacket(p), NEW S, NEW g, IsFiniteSet(S), DOMAIN g = S,
           NEW X, "CONTINUE" \in X, \A x \in S : Gives(tt, g[x], p, X)
    PROVE  Gives(tt, Concat(g), p, X)
  <1>1. ASSUME NEW x \in S PROVE Goes(tt, g[x], Kept(p, X), Kept(p, X))
    <2>1. IsSeq(g[x]) /\ X \ Open \subseteq X /\ Gives(tt, g[x], p, X)
      BY DEF Gives, Goes
    <2> QED BY <2>1, GivesOn
  <1>2. Goes(tt, Concat(g), Kept(p, X), Kept(p, X))
    BY <1>1, GoesEach
  <1>3. Kept(p, Open) \subseteq Kept(p, X)
    BY KeptUnion DEF Open
  <1> QED BY <1>2, <1>3, GoesWider DEF Gives

LEMMA GivesEachTo ==
    ASSUME NEW tt, NEW p, IsPacket(p), NEW S, NEW g, IsFiniteSet(S), DOMAIN g = S,
           NEW X, "CONTINUE" \notin X, \A x \in S : Gives(tt, g[x], p, X \cup Open),
           NEW x \in S, Gives(tt, g[x], p, X)
    PROVE  Gives(tt, Concat(g), p, X)
  <1> DEFINE A == Kept(p, X \cup Open)
             E == Kept(p, X)
  <1>1. ASSUME NEW y \in S PROVE Goes(tt, g[y], A, A) /\ Goes(tt, g[y], E, E)
    <2>1. IsSeq(g[y]) /\ (X \cup Open) \ Open \subseteq X \cup Open /\ Gives(tt, g[y], p, X \cup Open)
      BY DEF Gives, Goes
    <2> QED BY <2>1, GivesOn, KeptEnded
  <1>2. Goes(tt, g[x], A, E)
    <2>1. IsSeq(g[x]) /\ (X \cup Open) \ Open \subseteq X
      BY DEF Gives, Goes
    <2> QED BY <2>1, GivesOn
  <1> HIDE DEF A, E
  <1>3. Goes(tt, Concat(g), A, E)
    BY <1>1, <1>2, GoesEachTo
  <1>4. Kept(p, Open) \subseteq A
    BY KeptUnion DEF A
  <1>5. Goes(tt, Concat(g), Kept(p, Open), E)
    BY <1>3, <1>4, GoesWider
  <1> QED BY <1>5 DEF Gives, E

-----------------------------------------------------------------------------
(* The rules that let go, or do not match. *)

LEMMA GivesRule ==
    ASSUME NEW tt, NEW p, IsPacket(p), NEW on, NEW t, NEW a, NEW X,
           \A m \in {{}, {25}} :
             LET q == Put(p, m, p.cmark, "CONTINUE", "none")
             IN  AfterMiddle(tt, One(on, t, a), q) \in Kept(p, X)
    PROVE  Gives(tt, Rule(on, t, a), p, X)
  <1>1. \A q \in Kept(p, Open) : AfterMiddle(tt, One(on, t, a), q) \in Kept(p, X)
    BY DEF Kept, Open
  <1> QED BY <1>1, GoesRule DEF Gives, One

LEMMA GivesOff ==
    ASSUME NEW tt, NEW p, IsPacket(p), NEW on, NEW t, NEW a, Off(p, on)
    PROVE  Gives(tt, Rule(on, t, a), p, Open)
  <1>1. ASSUME NEW m \in {{}, {25}}
        PROVE  AfterMiddle(tt, One(on, t, a), Put(p, m, p.cmark, "CONTINUE", "none"))
                 \in Kept(p, Open)
    <2>1. ~Matches(Put(p, m, p.cmark, "CONTINUE", "none"), on)
      BY OnOff
    <2>2. AfterMiddle(tt, One(on, t, a), Put(p, m, p.cmark, "CONTINUE", "none"))
            = Put(p, m, p.cmark, "CONTINUE", "none")
      BY <2>1, PutSkips
    <2> QED BY <2>2 DEF Kept, Open
  <1> QED BY <1>1, GivesRule

LEMMA GivesVerdict ==
    ASSUME NEW tt, NEW p, IsPacket(p), NEW on, NEW t \in Over
    PROVE  /\ Gives(tt, Rule(on, t, "none"), p, Open \cup {t})
           /\ On(p, on) => Gives(tt, Rule(on, t, "none"), p, {t})
  <1> DEFINE r == One(on, t, "none")
             q(m) == Put(p, m, p.cmark, "CONTINUE", "none")
             z(m) == Put(p, m, p.cmark, t, "none")
  <1>1. ASSUME NEW m \in {{}, {25}}
        PROVE  AfterMiddle(tt, r, q(m)) = IF Matches(q(m), on) THEN z(m) ELSE q(m)
    <2>1. CASE Matches(q(m), on)
      BY <2>1, PutEnds DEF Over
    <2>2. CASE ~Matches(q(m), on)
      BY <2>2, PutSkips
    <2> QED BY <2>1, <2>2
  <1>2. \A m \in {{}, {25}} : On(p, on) => Matches(q(m), on)
    BY OnOff
  <1>3. \A m \in {{}, {25}} : q(m) \in Kept(p, Open \cup {t}) /\ z(m) \in Kept(p, {t})
                             /\ z(m) \in Kept(p, Open \cup {t})
    BY DEF Kept, Open
  <1> HIDE DEF q, z, r
  <1>4. \A m \in {{}, {25}} : AfterMiddle(tt, r, q(m)) \in Kept(p, Open \cup {t})
    BY <1>1, <1>3
  <1>5. On(p, on) => \A m \in {{}, {25}} : AfterMiddle(tt, r, q(m)) \in Kept(p, {t})
    BY <1>1, <1>2, <1>3
  <1>6. Gives(tt, Rule(on, t, "none"), p, Open \cup {t})
    BY <1>4, GivesRule DEF q, r
  <1>7. On(p, on) => Gives(tt, Rule(on, t, "none"), p, {t})
    BY <1>5, GivesRule DEF q, r
  <1> QED BY <1>6, <1>7

LEMMA GivesReturn ==
    ASSUME NEW tt, NEW p, IsPacket(p), NEW on
    PROVE  /\ Gives(tt, Return(on), p, {"CONTINUE", "RETURN"}) /\ Gives(tt, Accept(on), p, {"CONTINUE", "ACCEPT"})
           /\ Gives(tt, Return(on), p, Let) /\ Gives(tt, Accept(on), p, Let)
           /\ On(p, on) => Gives(tt, Return(on), p, {"RETURN"}) /\ Gives(tt, Accept(on), p, {"ACCEPT"})
           /\ On(p, on) => Gives(tt, Return(on), p, Over) /\ Gives(tt, Accept(on), p, Over)
  <1>1. "RETURN" \in Over /\ "ACCEPT" \in Over
    BY DEF Over
  <1>2. /\ Gives(tt, Return(on), p, Open \cup {"RETURN"}) /\ Gives(tt, Accept(on), p, Open \cup {"ACCEPT"})
        /\ On(p, on) => Gives(tt, Return(on), p, {"RETURN"}) /\ Gives(tt, Accept(on), p, {"ACCEPT"})
    BY <1>1, GivesVerdict DEF Return, Accept
  <1>3. Open \cup {"RETURN"} = {"CONTINUE", "RETURN"} /\ Open \cup {"ACCEPT"} = {"CONTINUE", "ACCEPT"}
    BY DEF Open
  <1>4. {"CONTINUE", "RETURN"} \subseteq Let /\ {"CONTINUE", "ACCEPT"} \subseteq Let
    BY DEF Let
  <1>5. {"RETURN"} \subseteq Over /\ {"ACCEPT"} \subseteq Over
    BY DEF Over
  <1> QED BY <1>2, <1>3, <1>4, <1>5, GivesWider

\* A rule that jumps to a chain that jumps no further.
LEMMA GivesJump ==
    ASSUME NEW tt, NEW p, IsPacket(p), NEW on, NEW ch, NEW W, W \subseteq Let,
           Jumpless(tt[ch]), Gives(tt, tt[ch], p, W)
    PROVE  /\ Gives(tt, Jump(on, ch), p, {"CONTINUE", "ACCEPT"})
           /\ On(p, on) /\ W = {"ACCEPT"} => Gives(tt, Jump(on, ch), p, {"ACCEPT"})
  <1> DEFINE r == One(on, "JUMP", ch)
             q(m) == Put(p, m, p.cmark, "CONTINUE", "none")
             X == IF W = {"ACCEPT"} THEN {"ACCEPT"} ELSE {"CONTINUE", "ACCEPT"}
  <1>1. ASSUME NEW m \in {{}, {25}}
        PROVE  /\ Left(Inner!Run(tt, tt[ch], q(m))) \in Kept(p, {"CONTINUE", "ACCEPT"})
               /\ W = {"ACCEPT"} => Left(Inner!Run(tt, tt[ch], q(m))) \in Kept(p, {"ACCEPT"})
    <2>1. Inner!Run(tt, tt[ch], q(m)) = Middle!Run(tt, tt[ch], q(m))
      BY InnerRun
    <2>2. q(m) \in Kept(p, Open)
      BY DEF Kept, Open
    <2>3. Middle!Run(tt, tt[ch], q(m)) \in Kept(p, W)
      BY <2>2 DEF Gives, Goes
    <2>4. PICK n \in {{}, {25}}, v \in W : Middle!Run(tt, tt[ch], q(m)) = Put(p, n, p.cmark, v, "none")
      BY <2>3 DEF Kept
    <2>5. Left(Put(p, n, p.cmark, v, "none"))
            = Put(p, n, p.cmark, IF v = "RETURN" THEN "CONTINUE" ELSE v, "none")
      BY PutLeft
    <2>6. (IF v = "RETURN" THEN "CONTINUE" ELSE v) \in {"CONTINUE", "ACCEPT"}
          /\ (W = {"ACCEPT"} => (IF v = "RETURN" THEN "CONTINUE" ELSE v) \in {"ACCEPT"})
      BY DEF Let
    <2> QED BY <2>1, <2>4, <2>5, <2>6 DEF Kept
  <1>2. ASSUME NEW m \in {{}, {25}}
        PROVE  /\ AfterMiddle(tt, r, q(m)) \in {q(m), Left(Inner!Run(tt, tt[ch], q(m)))}
               /\ Matches(q(m), on) => AfterMiddle(tt, r, q(m)) = Left(Inner!Run(tt, tt[ch], q(m)))
    <2>1. CASE Matches(q(m), on)
      BY <2>1, PutJumps
    <2>2. CASE ~Matches(q(m), on)
      BY <2>2, PutSkips
    <2> QED BY <2>1, <2>2
  <1>3. \A m \in {{}, {25}} : q(m) \in Kept(p, {"CONTINUE", "ACCEPT"})
    BY DEF Kept
  <1>4. \A m \in {{}, {25}} : On(p, on) => Matches(q(m), on)
    BY OnOff
  <1> HIDE DEF q, r
  <1>5. \A m \in {{}, {25}} : AfterMiddle(tt, r, q(m)) \in Kept(p, {"CONTINUE", "ACCEPT"})
    BY <1>1, <1>2, <1>3
  <1>6. On(p, on) /\ W = {"ACCEPT"} => \A m \in {{}, {25}} : AfterMiddle(tt, r, q(m)) \in Kept(p, {"ACCEPT"})
    BY <1>1, <1>2, <1>4
  <1>7. Gives(tt, Jump(on, ch), p, {"CONTINUE", "ACCEPT"})
    BY <1>5, GivesRule DEF q, r, Jump
  <1>8. On(p, on) /\ W = {"ACCEPT"} => Gives(tt, Jump(on, ch), p, {"ACCEPT"})
    BY <1>6, GivesRule DEF q, r, Jump
  <1> QED BY <1>7, <1>8

\* Tun's mark to bypass is one such a packet may bear.
LEMMA GivesBypass ==
    ASSUME NEW tt, NEW p, IsPacket(p), NEW on
    PROVE  Gives(tt, Mark(on, "TUN_BYPASS"), p, Open)
  <1> DEFINE r == One(on, "MARK", "TUN_BYPASS")
             q(m) == Put(p, m, p.cmark, "CONTINUE", "none")
  <1>1. ASSUME NEW m \in {{}, {25}} PROVE AfterMiddle(tt, r, q(m)) \in Kept(p, Open)
    <2>1. AfterMiddle(tt, r, q(m)) = q(m) \/ AfterMiddle(tt, r, q(m)) = q(m \cup {25})
      <3>1. CASE Matches(q(m), on)
        BY <3>1, PutMarks DEF Bits
      <3>2. CASE ~Matches(q(m), on)
        BY <3>2, PutSkips
      <3> QED BY <3>1, <3>2
    <2>2. m \cup {25} \in {{}, {25}}
      OBVIOUS
    <2> QED BY <2>1, <2>2 DEF Kept, Open
  <1> HIDE DEF r
  <1> QED BY <1>1, GivesRule DEF r, Mark

LEMMA GivesDoOff ==
    ASSUME NEW tt, NEW p, IsPacket(p), NEW on, Off(p, on),
           NEW action \in {"Redirect", "Tproxy", "Mark", "MarkReturn", "TunRoute", "Return"}
    PROVE  Gives(tt, Do(action, on), p, Open)
  <1>1. /\ Gives(tt, Redirect(on), p, Open) /\ Gives(tt, Tproxy(on), p, Open)
        /\ Gives(tt, Return(on), p, Open) /\ \A m : Gives(tt, Mark(on, m), p, Open)
    BY GivesOff DEF Redirect, Tproxy, Return, Mark
  <1>2. ASSUME NEW m PROVE Gives(tt, MarkReturn(on, m), p, Open)
    BY <1>1, GivesBoth DEF MarkReturn
  <1> QED BY <1>1, <1>2 DEF Do

-----------------------------------------------------------------------------
(* What the options of the rules say of a packet. *)

LEMMA OnAll ==
    ASSUME NEW p
    PROVE  On(p, <<>>)
  <1>1. DOMAIN <<>> = {}
    OBVIOUS
  <1> QED BY <1>1 DEF On

LEMMA OnDest ==
    ASSUME NEW p, NEW v
    PROVE  /\ v \in p.to => On(p, [d |-> v])
           /\ v \notin p.to => Off(p, [d |-> v])
  <1> DEFINE on == [d |-> v]
  <1>1. DOMAIN on = {"d"} /\ on["d"] = v
    OBVIOUS
  <1>2. Meets(p, "d", v) <=> v \in p.to
    BY DEF Meets
  <1> HIDE DEF on
  <1>3. (v \in p.to => On(p, on)) /\ (v \notin p.to => Off(p, on))
    BY <1>1, <1>2 DEF On, Off, Fixed
  <1> QED BY <1>3 DEF on

LEMMA OnOwner ==
    ASSUME NEW p, NEW v
    PROVE  /\ p.uid = v => On(p, [uid |-> v])
           /\ p.uid # v => Off(p, [uid |-> v])
           /\ p.gid = v => On(p, [gid |-> v])
           /\ p.gid # v => Off(p, [gid |-> v])
           /\ p.uid \in v => On(p, [app |-> v])
           /\ p.uid \notin v => Off(p, [app |-> v])
  <1> DEFINE ou == [uid |-> v]
             og == [gid |-> v]
             oa == [app |-> v]
  <1>1. DOMAIN ou = {"uid"} /\ ou["uid"] = v
    OBVIOUS
  <1>2. DOMAIN og = {"gid"} /\ og["gid"] = v
    OBVIOUS
  <1>3. DOMAIN oa = {"app"} /\ oa["app"] = v
    OBVIOUS
  <1>4. /\ Meets(p, "uid", v) <=> p.uid = v
        /\ Meets(p, "gid", v) <=> p.gid = v
        /\ Meets(p, "app", v) <=> p.uid \in v
    BY DEF Meets
  <1> HIDE DEF ou, og, oa
  <1>5. (p.uid = v => On(p, ou)) /\ (p.uid # v => Off(p, ou))
    BY <1>1, <1>4 DEF On, Off, Fixed
  <1>6. (p.gid = v => On(p, og)) /\ (p.gid # v => Off(p, og))
    BY <1>2, <1>4 DEF On, Off, Fixed
  <1>7. (p.uid \in v => On(p, oa)) /\ (p.uid \notin v => Off(p, oa))
    BY <1>3, <1>4 DEF On, Off, Fixed
  <1> QED BY <1>5, <1>6, <1>7 DEF ou, og, oa

LEMMA OnInterface ==
    ASSUME NEW p, NEW i, NEW m
    PROVE  /\ p.iface = i => On(p, [i |-> i])
           /\ p.iface # i => Off(p, [i |-> i])
           /\ p.iface = i /\ p.mac = m => On(p, [i |-> i, mac |-> m])
           /\ p.iface # i \/ p.mac # m => Off(p, [i |-> i, mac |-> m])
  <1> DEFINE oi == [i |-> i]
             om == [i |-> i, mac |-> m]
  <1>1. DOMAIN oi = {"i"} /\ oi["i"] = i
    OBVIOUS
  <1>2. DOMAIN om = {"i", "mac"} /\ om["i"] = i /\ om["mac"] = m
    OBVIOUS
  <1>3. Meets(p, "i", i) <=> p.iface = i
    BY DEF Meets
  <1>4. Meets(p, "mac", m) <=> p.mac = m
    BY DEF Meets
  <1> HIDE DEF oi, om
  <1>5. (p.iface = i => On(p, oi)) /\ (p.iface # i => Off(p, oi))
    BY <1>1, <1>3 DEF On, Off, Fixed
  <1>6. (p.iface = i /\ p.mac = m => On(p, om)) /\ (p.iface # i \/ p.mac # m => Off(p, om))
    BY <1>2, <1>3, <1>4 DEF On, Off, Fixed
  <1> QED BY <1>5, <1>6 DEF oi, om

LEMMA OffDns ==
    ASSUME NEW p, NEW x, p.dport # "53"
    PROVE  Off(p, [p |-> x, dport |-> "53"])
  <1> DEFINE on == [p |-> x, dport |-> "53"]
  <1>1. "dport" \in DOMAIN on /\ on["dport"] = "53"
    OBVIOUS
  <1>2. ~Meets(p, "dport", "53")
    BY DEF Meets
  <1> HIDE DEF on
  <1>3. Off(p, on)
    BY <1>1, <1>2 DEF Off, Fixed
  <1> QED BY <1>3 DEF on

\* Performance mode's options: a connection's first packets.
LEMMA OnFirst ==
    ASSUME NEW p, NEW x
    PROVE  /\ p.proto = x /\ p.syn = TRUE => On(p, [p |-> x, syn |-> TRUE])
           /\ p.proto = x /\ p.new = TRUE => On(p, [p |-> x, new |-> TRUE])
           /\ p.proto # x => Off(p, [p |-> x, syn |-> TRUE])
           /\ p.proto # x \/ p.new # TRUE => Off(p, [p |-> x, new |-> TRUE])
  <1> DEFINE os == [p |-> x, syn |-> TRUE]
             on == [p |-> x, new |-> TRUE]
  <1>1. DOMAIN os = {"p", "syn"} /\ os["p"] = x /\ os["syn"] = TRUE
    OBVIOUS
  <1>2. DOMAIN on = {"p", "new"} /\ on["p"] = x /\ on["new"] = TRUE
    OBVIOUS
  <1>3. Meets(p, "p", x) <=> p.proto = x
    BY DEF Meets
  <1>4. Meets(p, "syn", TRUE) <=> p.syn = TRUE
    BY DEF Meets
  <1>5. Meets(p, "new", TRUE) <=> p.new = TRUE
    BY DEF Meets
  <1> HIDE DEF os, on
  <1>6. (p.proto = x /\ p.syn = TRUE => On(p, os)) /\ (p.proto # x => Off(p, os))
    BY <1>1, <1>3, <1>4 DEF On, Off, Fixed
  <1>7. (p.proto = x /\ p.new = TRUE => On(p, on)) /\ (p.proto # x \/ p.new # TRUE => Off(p, on))
    BY <1>2, <1>3, <1>5 DEF On, Off, Fixed
  <1> QED BY <1>6, <1>7 DEF os, on

LEMMA OffForce ==
    ASSUME NEW p, NEW x, NEW v, "cn" \notin p.to \/ p.uid # v, NEW S, "cn" \notin p.to \/ p.uid \notin S
    PROVE  Off(p, [p |-> x, d |-> "cn", uid |-> v]) /\ Off(p, [p |-> x, d |-> "cn", app |-> S])
  <1> DEFINE ou == [p |-> x, d |-> "cn", uid |-> v]
             oa == [p |-> x, d |-> "cn", app |-> S]
  <1>1. DOMAIN ou = {"p", "d", "uid"} /\ ou["d"] = "cn" /\ ou["uid"] = v
    OBVIOUS
  <1>2. DOMAIN oa = {"p", "d", "app"} /\ oa["d"] = "cn" /\ oa["app"] = S
    OBVIOUS
  <1>3. /\ Meets(p, "d", "cn") <=> "cn" \in p.to
        /\ Meets(p, "uid", v) <=> p.uid = v
        /\ Meets(p, "app", S) <=> p.uid \in S
    BY DEF Meets
  <1> HIDE DEF ou, oa
  <1>4. Off(p, ou)
    BY <1>1, <1>3 DEF Off, Fixed
  <1>5. Off(p, oa)
    BY <1>2, <1>3 DEF Off, Fixed
  <1> QED BY <1>4, <1>5 DEF ou, oa

LEMMA OffSocket ==
    ASSUME NEW p, p.socket # TRUE
    PROVE  Off(p, [p |-> "tcp", socket |-> TRUE])
  <1> DEFINE on == [p |-> "tcp", socket |-> TRUE]
  <1>1. "socket" \in DOMAIN on /\ on["socket"] = TRUE
    OBVIOUS
  <1>2. ~Meets(p, "socket", TRUE)
    BY DEF Meets
  <1> HIDE DEF on
  <1>3. Off(p, on)
    BY <1>1, <1>2 DEF Off, Fixed
  <1> QED BY <1>3 DEF on

\* Options put together: without one another's names they are met together.
LEMMA OnAlso ==
    ASSUME NEW p, NEW a, NEW b, DOMAIN a \cap DOMAIN b = {}
    PROVE  /\ On(p, a) /\ On(p, b) => On(p, Also(a, b))
           /\ Off(p, a) \/ Off(p, b) => Off(p, Also(a, b))
  <1> DEFINE ab == Also(a, b)
  <1>1. DOMAIN ab = DOMAIN a \cup DOMAIN b
    BY DEF Also
  <1>2. \A k \in DOMAIN a : ab[k] = a[k]
    BY DEF Also
  <1>3. \A k \in DOMAIN b : ab[k] = b[k]
    BY DEF Also
  <1> HIDE DEF ab
  <1>4. On(p, a) /\ On(p, b) => On(p, ab)
    BY <1>1, <1>2, <1>3 DEF On
  <1>5. Off(p, a) \/ Off(p, b) => Off(p, ab)
    BY <1>1, <1>2, <1>3 DEF Off
  <1> QED BY <1>4, <1>5 DEF ab

\* A rule for each protocol: the options it is made of.
LEMMA OnProtocol ==
    ASSUME NEW p, NEW x, NEW on, "p" \notin DOMAIN on
    PROVE  /\ p.proto = x /\ On(p, on) => On(p, Also([p |-> x], on))
           /\ p.proto # x \/ Off(p, on) => Off(p, Also([p |-> x], on))
  <1> DEFINE op == [p |-> x]
  <1>1. DOMAIN op = {"p"} /\ op["p"] = x
    OBVIOUS
  <1>2. Meets(p, "p", x) <=> p.proto = x
    BY DEF Meets
  <1> HIDE DEF op
  <1>3. (p.proto = x => On(p, op)) /\ (p.proto # x => Off(p, op))
    BY <1>1, <1>2 DEF On, Off, Fixed
  <1>4. DOMAIN op \cap DOMAIN on = {}
    BY <1>1
  <1> QED BY <1>3, <1>4, OnAlso DEF op

-----------------------------------------------------------------------------
(* The parts of the chains, for a packet that is not a query. *)

Actions == {"Redirect", "Tproxy", "Mark", "MarkReturn", "TunRoute", "Return"}

LEMMA OpenLet == Open \subseteq Let /\ Over \subseteq Let /\ "CONTINUE" \in Let /\ "CONTINUE" \notin Over
                 /\ Over \cup Open = Let /\ "CONTINUE" \in Open
  BY DEF Open, Let, Over

LEMMA GivesProtocols ==
    ASSUME NEW tt, NEW p, IsPacket(p), NEW protos \in SUBSET {"tcp", "udp"}, NEW on,
           "p" \notin DOMAIN on, NEW action \in Actions
    PROVE  /\ p.proto \notin protos \/ Off(p, on)
                => Gives(tt, ProtocolRules(protos, on, action), p, Open)
           /\ Gives(tt, ProtocolRules(protos, on, "Return"), p, Let)
  <1> DEFINE o(x) == Also([p |-> x], on)
             g == [x \in protos |-> Do(action, o(x))]
             h == [x \in protos |-> Do("Return", o(x))]
  <1>1. IsFiniteSet(protos)
    BY SomeProtos
  <1>2. ASSUME p.proto \notin protos \/ Off(p, on), NEW x \in protos
        PROVE  Gives(tt, Do(action, o(x)), p, Open)
    <2>1. Off(p, o(x))
      BY <1>2, OnProtocol
    <2> HIDE DEF o
    <2> QED BY <2>1, GivesDoOff DEF Actions
  <1>3. ASSUME NEW x \in protos PROVE Gives(tt, Do("Return", o(x)), p, Let)
    <2> HIDE DEF o
    <2> QED BY GivesReturn DEF Do
  <1> HIDE DEF o
  <1>4. DOMAIN g = protos /\ DOMAIN h = protos /\ \A x \in protos : g[x] = Do(action, o(x)) /\ h[x] = Do("Return", o(x))
    OBVIOUS
  <1> HIDE DEF g, h
  <1>5. p.proto \notin protos \/ Off(p, on) => Gives(tt, Concat(g), p, Open)
    BY <1>1, <1>2, <1>4, GivesEach, OpenLet
  <1>6. Gives(tt, Concat(h), p, Let)
    BY <1>1, <1>3, <1>4, GivesEach, OpenLet
  <1> QED BY <1>5, <1>6 DEF g, h, o, ProtocolRules, ForEach

LEMMA GivesDns ==
    ASSUME NEW tt, NEW p, IsPacket(p), p.dport # "53", NEW s
    PROVE  /\ Gives(tt, MangleDns(s, DnsTproxy(s)), p, Open)
           /\ Gives(tt, MangleDns(s, DnsMark(s)), p, Open)
           /\ Gives(tt, TunDns(s), p, Open)
  <1> DEFINE o(x) == [p |-> x, dport |-> "53"]
             S == DnsProtos(s) \ (IF Enhance(s) THEN {"tcp"} ELSE {})
             Q == DnsProtos(s) \cap MangleProtos(s)
             P == DnsProtos(s)
             g == [x \in S |-> Return(o(x))]
             h == [x \in Q |-> Tproxy(o(x))]
             k == [x \in Q |-> Mark(o(x), "FWMARK")]
             t == [x \in P |-> MarkReturn(o(x), "TUN_ROUTE")]
  <1>0. IsFiniteSet(S) /\ IsFiniteSet(Q) /\ IsFiniteSet(P)
    <2>1. S \in SUBSET {"tcp", "udp"} /\ Q \in SUBSET {"tcp", "udp"} /\ P \in SUBSET {"tcp", "udp"}
      BY ProtoSets
    <2> HIDE DEF S, Q, P
    <2> QED BY <2>1, SomeProtos
  <1> HIDE DEF S, Q, P
  <1>1. \A x : Off(p, o(x))
    BY OffDns
  <1> HIDE DEF o
  <1>2. ASSUME NEW x
        PROVE  /\ Gives(tt, Return(o(x)), p, Open) /\ Gives(tt, Tproxy(o(x)), p, Open)
               /\ Gives(tt, Mark(o(x), "FWMARK"), p, Open) /\ Gives(tt, Mark(o(x), "TUN_ROUTE"), p, Open)
    BY <1>1, GivesOff DEF Return, Tproxy, Mark
  <1>3. ASSUME NEW x PROVE Gives(tt, MarkReturn(o(x), "TUN_ROUTE"), p, Open)
    BY <1>2, GivesBoth DEF MarkReturn
  <1>4. /\ DOMAIN g = S /\ DOMAIN h = Q /\ DOMAIN k = Q /\ DOMAIN t = P
        /\ \A x \in S : Gives(tt, g[x], p, Open)
        /\ \A x \in Q : Gives(tt, h[x], p, Open)
        /\ \A x \in Q : Gives(tt, k[x], p, Open)
        /\ \A x \in P : Gives(tt, t[x], p, Open)
    BY <1>2, <1>3
  <1> HIDE DEF g, h, k, t
  <1>5. Gives(tt, Concat(g), p, Open)
    BY <1>0, <1>4, GivesEach, OpenLet
  <1>6. Gives(tt, Concat(h), p, Open)
    BY <1>0, <1>4, GivesEach, OpenLet
  <1>7. Gives(tt, Concat(k), p, Open)
    BY <1>0, <1>4, GivesEach, OpenLet
  <1>8. Gives(tt, Concat(t), p, Open)
    BY <1>0, <1>4, GivesEach, OpenLet
  <1>9. DnsReturn(s) = Concat(g) /\ DnsTproxy(s) = Concat(h) /\ DnsMark(s) = Concat(k)
    BY DEF g, h, k, o, S, Q, DnsReturn, DnsTproxy, DnsMark, ForEach
  <1>10. TunDns(s) = When(~DnsDisable(s), Concat(t))
    BY DEF t, o, P, TunDns, ForEach
  <1>11. Gives(tt, TunDns(s), p, Open)
    BY <1>8, <1>10, GivesWhen, OpenLet
  <1> QED BY <1>5, <1>6, <1>7, <1>9, <1>11 DEF MangleDns

LEMMA GivesIgnored ==
    ASSUME NEW tt, NEW p, IsPacket(p), NEW s
    PROVE  /\ Gives(tt, IgnoredInterfaces(s), p, Let)
           /\ p.iface \in BlockedInterfaces => Gives(tt, IgnoredInterfaces(s), p, Over)
           /\ p.iface \in BlockedInterfaces
                => Gives(tt, ForEach(BlockedInterfaces, LAMBDA i : Accept([i |-> i])), p, {"ACCEPT"})
           /\ Gives(tt, ForEach(BlockedInterfaces, LAMBDA i : Accept([i |-> i])), p, {"CONTINUE", "ACCEPT"})
  <1> DEFINE B == BlockedInterfaces
             o(i) == [i |-> i]
             g == [i \in B |-> Return(o(i))]
             h == [i \in B |-> Accept(o(i))]
  <1>1. IsFiniteSet(B)
    BY ListsAssumption
  <1>2. \A i : p.iface = i => On(p, o(i))
    BY OnInterface
  <1> HIDE DEF o
  <1>3. ASSUME NEW i
        PROVE  /\ Gives(tt, Return(o(i)), p, Let) /\ Gives(tt, Accept(o(i)), p, {"CONTINUE", "ACCEPT"})
               /\ p.iface = i => Gives(tt, Return(o(i)), p, Over) /\ Gives(tt, Accept(o(i)), p, {"ACCEPT"})
    BY <1>2, GivesReturn
  <1>4. DOMAIN g = B /\ DOMAIN h = B /\ \A i \in B : g[i] = Return(o(i)) /\ h[i] = Accept(o(i))
    OBVIOUS
  <1> HIDE DEF g, h
  <1>5. Gives(tt, Concat(g), p, Let)
    BY <1>1, <1>3, <1>4, GivesEach, OpenLet
  <1>6. Gives(tt, Concat(h), p, {"CONTINUE", "ACCEPT"})
    BY <1>1, <1>3, <1>4, GivesEach
  <1>7. ASSUME p.iface \in B PROVE Gives(tt, Concat(g), p, Over) /\ Gives(tt, Concat(h), p, {"ACCEPT"})
    <2> DEFINE j == p.iface
    <2>1. Gives(tt, g[j], p, Over) /\ Gives(tt, h[j], p, {"ACCEPT"})
      BY <1>3, <1>4, <1>7
    <2>2. (\A i \in B : Gives(tt, g[i], p, Over \cup Open)) /\ j \in B
      BY <1>3, <1>4, <1>7, OpenLet
    <2>3. \A i \in B : Gives(tt, h[i], p, {"ACCEPT"} \cup Open)
      <3>1. {"ACCEPT"} \cup Open = {"CONTINUE", "ACCEPT"}
        BY DEF Open
      <3> QED BY <1>3, <1>4, <3>1
    <2> HIDE DEF j
    <2>4. Gives(tt, Concat(g), p, Over)
      BY <1>1, <1>4, <2>1, <2>2, GivesEachTo, OpenLet
    <2>5. "CONTINUE" \notin {"ACCEPT"}
      OBVIOUS
    <2>6. Gives(tt, Concat(h), p, {"ACCEPT"})
      BY <1>1, <1>4, <2>1, <2>2, <2>3, <2>5, GivesEachTo
    <2> QED BY <2>4, <2>6
  <1>8. IgnoredInterfaces(s) = Concat(g) /\ ForEach(BlockedInterfaces, LAMBDA i : Accept([i |-> i])) = Concat(h)
    BY DEF g, h, o, B, IgnoredInterfaces, ForEach
  <1> QED BY <1>5, <1>6, <1>7, <1>8 DEF B

LEMMA GivesDnsNat ==
    ASSUME NEW tt, NEW p, IsPacket(p), p.dport # "53", NEW s, NEW protos \in SUBSET {"tcp", "udp"}, NEW inbound
    PROVE  Gives(tt, DnsNatRules(s, protos, inbound), p, Let)
  <1> DEFINE o(x) == [p |-> x, dport |-> "53"]
             g == [x \in protos |-> Rule(o(x), "REDIRECT", "dns")]
  <1>1. IsFiniteSet(protos)
    BY SomeProtos
  <1>2. \A x : Off(p, o(x))
    BY OffDns
  <1> HIDE DEF o
  <1>3. DOMAIN g = protos /\ \A x \in protos : Gives(tt, g[x], p, Open)
    BY <1>2, GivesOff
  <1> HIDE DEF g
  <1>4. Gives(tt, Concat(g), p, Let)
    BY <1>1, <1>3, GivesEach, GivesWider, OpenLet
  <1>5. Gives(tt, When(inbound /\ s.family = "V4", IgnoredInterfaces(s)), p, Let)
    BY GivesIgnored, GivesWhen, OpenLet
  <1>6. Gives(tt, When(inbound /\ s.family = "V4", IgnoredInterfaces(s)) \o Concat(g), p, Let)
    BY <1>4, <1>5, GivesBoth
  <1>7. DnsNatRules(s, protos, inbound) = When(inbound /\ s.family = "V4", IgnoredInterfaces(s)) \o Concat(g)
    BY DEF g, o, DnsNatRules, IgnoredInterfaces, ForEach
  <1> QED BY <1>6, <1>7

LEMMA GivesFake6 ==
    ASSUME NEW tt, NEW p, IsPacket(p), NEW s, "fake" \in p.to => s.family # "V6",
           NEW action \in {"Tproxy", "Mark"}
    PROVE  Gives(tt, FakeIp6(s, action), p, Open)
  <1> DEFINE b == s.family = "V6" /\ s.fake_ip /\ s.bin_name = "mihomo"
             on == [d |-> "fake"]
             r == ProtocolRules(MangleProtos(s), on, action)
  <1>1. "fake" \notin p.to => Off(p, on)
    BY OnDest
  <1>2. "p" \notin DOMAIN on
    OBVIOUS
  <1> HIDE DEF on
  <1>3. b => Gives(tt, r, p, Open)
    <2>1. action \in Actions /\ MangleProtos(s) \in SUBSET {"tcp", "udp"}
      BY ProtoSets DEF Actions
    <2> QED BY <1>1, <1>2, <2>1, GivesProtocols
  <1> HIDE DEF r, b
  <1>4. Gives(tt, When(b, r), p, Open)
    BY <1>3, GivesWhen, OpenLet
  <1> QED BY <1>4 DEF r, b, on, FakeIp6

\* The applications forced past the China list are others.
Unforced(s, p) == ~("cn" \in p.to /\ CnipMatcher(s) /\ p.uid \in s.cnip_force_uids)

LEMMA GivesForce ==
    ASSUME NEW tt, NEW p, IsPacket(p), NEW s, Finite(s), Unforced(s, p),
           NEW protos \in SUBSET {"tcp", "udp"}, NEW action \in Actions
    PROVE  Gives(tt, CnipForce(s, protos, action), p, Open)
  <1> DEFINE F == s.cnip_force_uids
             oa(x) == [p |-> x, d |-> "cn", app |-> F]
             ou(x, u) == [p |-> x, d |-> "cn", uid |-> u]
             g == [x \in protos |-> Do(action, oa(x))]
             h(u) == [x \in protos |-> Do(action, ou(x, u))]
             k == [u \in F |-> Concat(h(u))]
  <1>0. IsFiniteSet(protos) /\ IsFiniteSet(F)
    BY SomeProtos DEF Finite
  <1> SUFFICES ASSUME CnipMatcher(s), s.cnip_force_uids # {}
               PROVE  Gives(tt, CnipForce(s, protos, action), p, Open)
    BY GivesNone, OpenLet DEF CnipForce, When
  <1>1. \A x : \A u \in F : Off(p, oa(x)) /\ Off(p, ou(x, u))
    BY OffForce DEF Unforced
  <1>1a. \A x : Off(p, oa(x))
    BY <1>1
  <1> HIDE DEF oa, ou, F
  <1>2. DOMAIN g = protos /\ \A x \in protos : Gives(tt, g[x], p, Open)
    BY <1>1a, GivesDoOff DEF Actions
  <1>3. Gives(tt, Concat(g), p, Open)
    <2> HIDE DEF g
    <2> QED BY <1>0, <1>2, GivesEach, OpenLet
  <1>4. ASSUME NEW u \in F PROVE Gives(tt, Concat(h(u)), p, Open)
    <2> DEFINE hu == h(u)
    <2>1. DOMAIN hu = protos /\ \A x \in protos : Gives(tt, hu[x], p, Open)
      BY <1>1, GivesDoOff DEF Actions
    <2> HIDE DEF hu
    <2>2. Gives(tt, Concat(hu), p, Open)
      BY <1>0, <2>1, GivesEach, OpenLet
    <2> QED BY <2>2 DEF hu
  <1> HIDE DEF h
  <1>5. DOMAIN k = F /\ \A u \in F : Gives(tt, k[u], p, Open)
    BY <1>4
  <1>6. Gives(tt, Concat(k), p, Open)
    <2> HIDE DEF k
    <2> QED BY <1>0, <1>5, GivesEach, OpenLet
  <1>7. CnipForce(s, protos, action) = IF s.cnip = "ebpf" THEN Concat(g) ELSE Concat(k)
    BY DEF CnipForce, When, ForEach, g, k, h, oa, ou, F
  <1> QED BY <1>3, <1>6, <1>7

-----------------------------------------------------------------------------
(* What lets destinations go. *)

LEMMA GivesStart ==
    ASSUME NEW tt, NEW p, IsPacket(p), NEW s, s.owner \in {"both", "uid", "gid", "none"}
    PROVE  /\ Gives(tt, SetupLocalChainCommon(s), p, Let) /\ Gives(tt, CoreBypass(s), p, Let)
           /\ Gives(tt, ReplyBypass(s), p, Let)
  <1>1. \A on : Gives(tt, Return(on), p, Let)
    BY GivesReturn
  <1>2. Gives(tt, <<>>, p, Let)
    BY GivesNone, OpenLet
  <1>3. Gives(tt, CoreBypass(s), p, Let)
    BY <1>1, <1>2 DEF CoreBypass
  <1>4. Gives(tt, SetupLocalChainCommon(s), p, Let)
    BY <1>1, <1>3 DEF SetupLocalChainCommon
  <1>5. Gives(tt, ReplyBypass(s), p, Let)
    BY <1>1, GivesWhen, OpenLet DEF ReplyBypass
  <1> QED BY <1>3, <1>4, <1>5

LEMMA GivesNonDns ==
    ASSUME NEW tt, NEW p, IsPacket(p), p.dport # "53", NEW v
    PROVE  /\ Gives(tt, NonDnsAccept([d |-> v]), p, {"CONTINUE", "ACCEPT"})
           /\ v \in p.to => Gives(tt, NonDnsAccept([d |-> v]), p, {"ACCEPT"})
           /\ Jumpless(NonDnsAccept([d |-> v]))
  <1> DEFINE a == Also([d |-> v], [p |-> "udp", not_dport |-> "53"])
             b == Also([d |-> v], [not_p |-> "udp"])
  <1>1. /\ DOMAIN a = {"d", "p", "not_dport"}
        /\ a["d"] = v /\ a["p"] = "udp" /\ a["not_dport"] = "53"
    BY DEF Also
  <1>2. DOMAIN b = {"d", "not_p"} /\ b["d"] = v /\ b["not_p"] = "udp"
    BY DEF Also
  <1>3. NonDnsAccept([d |-> v]) = Accept(a) \o Accept(b)
    BY DEF NonDnsAccept
  <1> HIDE DEF a, b
  <1>4. /\ Meets(p, "d", v) <=> v \in p.to
        /\ Meets(p, "not_dport", "53")
        /\ Meets(p, "p", "udp") <=> p.proto = "udp"
        /\ Meets(p, "not_p", "udp") <=> p.proto # "udp"
    BY DEF Meets
  <1>5. v \in p.to /\ p.proto = "udp" => On(p, a)
    BY <1>1, <1>4 DEF On, Fixed
  <1>6. v \in p.to /\ p.proto # "udp" => On(p, b)
    BY <1>2, <1>4 DEF On, Fixed
  <1>7. /\ Gives(tt, Accept(a), p, {"CONTINUE", "ACCEPT"}) /\ Gives(tt, Accept(b), p, {"CONTINUE", "ACCEPT"})
        /\ On(p, a) => Gives(tt, Accept(a), p, {"ACCEPT"})
        /\ On(p, b) => Gives(tt, Accept(b), p, {"ACCEPT"})
    BY GivesReturn
  <1>8. Gives(tt, Accept(a) \o Accept(b), p, {"CONTINUE", "ACCEPT"})
    BY <1>7, GivesBoth
  <1>9. ASSUME v \in p.to PROVE Gives(tt, Accept(a) \o Accept(b), p, {"ACCEPT"})
    <2>1. IsSeq(Accept(b)) /\ "CONTINUE" \notin {"ACCEPT"} /\ {"ACCEPT"} \cup Open = {"CONTINUE", "ACCEPT"}
      BY RuleSeq DEF Accept, Open
    <2>2. CASE p.proto = "udp"
      BY <1>5, <1>7, <1>9, <2>1, <2>2, GivesFirst
    <2>3. CASE p.proto # "udp"
      BY <1>6, <1>7, <1>9, <2>1, <2>3, GivesLast
    <2> QED BY <2>2, <2>3
  <1>10. Jumpless(Accept(a) \o Accept(b))
    <2>1. Jumpless(Accept(a)) /\ Jumpless(Accept(b))
      BY JumplessSeqs DEF Accept
    <2> QED BY <2>1, JumplessSeqs
  <1> QED BY <1>3, <1>8, <1>9, <1>10

\* A destination a chain that looks at the table's own LOCAL_IP lets go.
Spared(s, p, class) == "subnet" \in p.to \/ ("cn" \in p.to /\ CnipMatcher(s)) \/ class \in p.to

LEMMA GivesCommonBypass ==
    ASSUME NEW tt, NEW p, IsPacket(p), p.dport # "53", NEW s, NEW class,
           tt["LOCAL_IP"] = LocalIpChain(class)
    PROVE  /\ Gives(tt, CommonBypass(s), p, Let)
           /\ Spared(s, p, class) => Gives(tt, CommonBypass(s), p, Over)
  <1> DEFINE a == Return([d |-> "subnet"])
             b == Return([d |-> "cn"])
             d == When(CnipMatcher(s), b)
             j == Jump(<<>>, "LOCAL_IP")
  <1>0. "CONTINUE" \notin Over /\ Over \cup Open = Let /\ "CONTINUE" \in Let /\ Over \subseteq Let
    BY OpenLet
  <1>1. /\ Gives(tt, a, p, Let) /\ Gives(tt, b, p, Let)
        /\ "subnet" \in p.to => Gives(tt, a, p, Over)
        /\ "cn" \in p.to => Gives(tt, b, p, Over)
    BY GivesReturn, OnDest
  <1>2. Gives(tt, d, p, Let)
    BY <1>0, <1>1, GivesWhen
  <1>3. CnipMatcher(s) /\ "cn" \in p.to => Gives(tt, d, p, Over)
    BY <1>1 DEF When
  <1>4. /\ Gives(tt, tt["LOCAL_IP"], p, {"CONTINUE", "ACCEPT"})
        /\ class \in p.to => Gives(tt, tt["LOCAL_IP"], p, {"ACCEPT"})
        /\ Jumpless(tt["LOCAL_IP"])
    BY GivesNonDns DEF LocalIpChain
  <1>5. {"CONTINUE", "ACCEPT"} \subseteq Let /\ {"ACCEPT"} \subseteq Let /\ {"ACCEPT"} \subseteq Over
    BY DEF Let, Over
  <1>6. Gives(tt, j, p, Let)
    <2>1. Gives(tt, j, p, {"CONTINUE", "ACCEPT"})
      BY <1>4, <1>5, GivesJump
    <2> QED BY <1>5, <2>1, GivesWider
  <1>7. ASSUME class \in p.to PROVE Gives(tt, j, p, Over)
    <2>1. Gives(tt, j, p, {"ACCEPT"})
      BY <1>4, <1>5, <1>7, GivesJump, OnAll
    <2> QED BY <1>5, <2>1, GivesWider
  <1>8. CommonBypass(s) = a \o d \o j
    BY DEF CommonBypass
  <1> HIDE DEF a, b, d, j
  <1>9. IsSeq(d) /\ IsSeq(j)
    BY <1>2, <1>6 DEF Gives, Goes
  <1>10. Gives(tt, a \o d, p, Let)
    BY <1>1, <1>2, GivesBoth
  <1>11. Gives(tt, a \o d \o j, p, Let)
    BY <1>6, <1>10, GivesBoth
  <1>12. CASE class \in p.to
    BY <1>0, <1>7, <1>8, <1>10, <1>11, <1>12, GivesLast
  <1>13. CASE "subnet" \in p.to
    <2>1. Gives(tt, a \o d, p, Over)
      BY <1>0, <1>1, <1>9, <1>13, GivesFirst
    <2> QED BY <1>0, <1>8, <1>9, <1>11, <2>1, GivesFirst
  <1>14. CASE CnipMatcher(s) /\ "cn" \in p.to
    <2>1. Gives(tt, a \o d, p, Over)
      BY <1>0, <1>1, <1>3, <1>14, GivesLast
    <2> QED BY <1>0, <1>8, <1>9, <1>11, <2>1, GivesFirst
  <1>15. CASE ~Spared(s, p, class)
    BY <1>8, <1>11, <1>15
  <1> QED BY <1>12, <1>13, <1>14, <1>15 DEF Spared

\* Performance mode's chain of destinations.
LEMMA GivesPerfDest ==
    ASSUME NEW tt, NEW p, IsPacket(p), p.dport # "53", NEW s
    PROVE  /\ Gives(tt, PerfDest(s), p, {"CONTINUE", "ACCEPT"}) /\ Jumpless(PerfDest(s))
           /\ "subnet" \in p.to \/ ("cn" \in p.to /\ CnipMatcher(s))
                => Gives(tt, PerfDest(s), p, {"ACCEPT"})
  <1> DEFINE C == {"CONTINUE", "ACCEPT"}
             A == {"ACCEPT"}
             n(v) == NonDnsAccept([d |-> v])
             w == When(CnipMatcher(s), n("cn"))
             x == When(s.addrtype, n("LOCAL"))
             y == When(~s.loopback_listed, n("loopback"))
  <1>0. "CONTINUE" \in C /\ "CONTINUE" \notin A /\ A \cup Open = C /\ A \subseteq C
    BY DEF Open
  <1>1. \A v : /\ Gives(tt, n(v), p, C) /\ Jumpless(n(v))
               /\ v \in p.to => Gives(tt, n(v), p, A)
    BY GivesNonDns
  <1>2. PerfDest(s) = n("subnet") \o w \o x \o y
    BY DEF PerfDest
  <1> HIDE DEF n, C, A
  <1>3. Gives(tt, w, p, C) /\ Gives(tt, x, p, C) /\ Gives(tt, y, p, C)
    BY <1>0, <1>1, GivesWhen
  <1>4. Jumpless(w) /\ Jumpless(x) /\ Jumpless(y)
    BY <1>1, JumplessSeqs
  <1>5. "cn" \in p.to /\ CnipMatcher(s) => Gives(tt, w, p, A)
    BY <1>1 DEF When
  <1> HIDE DEF w, x, y
  <1>6. IsSeq(w) /\ IsSeq(x) /\ IsSeq(y)
    BY <1>4 DEF Jumpless
  <1>7. Gives(tt, n("subnet") \o w, p, C) /\ Jumpless(n("subnet") \o w)
    BY <1>1, <1>3, <1>4, GivesBoth, JumplessSeqs
  <1>8. Gives(tt, n("subnet") \o w \o x, p, C) /\ Jumpless(n("subnet") \o w \o x)
    BY <1>3, <1>4, <1>7, GivesBoth, JumplessSeqs
  <1>9. Gives(tt, PerfDest(s), p, C) /\ Jumpless(PerfDest(s))
    BY <1>2, <1>3, <1>4, <1>8, GivesBoth, JumplessSeqs
  <1>10. ASSUME "subnet" \in p.to \/ ("cn" \in p.to /\ CnipMatcher(s))
         PROVE  Gives(tt, PerfDest(s), p, A)
    <2>1. Gives(tt, n("subnet") \o w, p, A)
      <3>1. CASE "subnet" \in p.to
        BY <1>0, <1>1, <1>6, <3>1, GivesFirst
      <3>2. CASE "cn" \in p.to /\ CnipMatcher(s)
        BY <1>0, <1>1, <1>5, <3>2, GivesLast
      <3> QED BY <1>10, <3>1, <3>2
    <2>2. Gives(tt, n("subnet") \o w \o x, p, A)
      BY <1>0, <1>6, <2>1, GivesFirst
    <2> QED BY <1>0, <1>2, <1>6, <2>2, GivesFirst
  <1> QED BY <1>9, <1>10 DEF C, A

-----------------------------------------------------------------------------
(* The rules for applications. *)

\* Rules for the owners of a set, whose options are all on or off for a packet.
LEMMA GivesOwners ==
    ASSUME NEW tt, NEW p, IsPacket(p), NEW S, IsFiniteSet(S)
    PROVE  /\ Gives(tt, ForEach(S, Return), p, Let)
           /\ (\E on \in S : On(p, on)) => Gives(tt, ForEach(S, Return), p, Over)
           /\ (\A on \in S : Off(p, on)) => Gives(tt, ForEach(S, Return), p, Open)
           /\ Gives(tt, ForEach(S, Accept), p, {"CONTINUE", "ACCEPT"})
           /\ (\E on \in S : On(p, on)) => Gives(tt, ForEach(S, Accept), p, {"ACCEPT"})
  <1> DEFINE g == [on \in S |-> Return(on)]
             h == [on \in S |-> Accept(on)]
  <1>1. \A on : /\ Gives(tt, Return(on), p, Let) /\ Gives(tt, Accept(on), p, {"CONTINUE", "ACCEPT"})
                /\ On(p, on) => Gives(tt, Return(on), p, Over) /\ Gives(tt, Accept(on), p, {"ACCEPT"})
    BY GivesReturn
  <1>2. \A on : Off(p, on) => Gives(tt, Return(on), p, Open)
    BY GivesOff DEF Return
  <1>3. DOMAIN g = S /\ DOMAIN h = S /\ \A on \in S : g[on] = Return(on) /\ h[on] = Accept(on)
    OBVIOUS
  <1> HIDE DEF g, h
  <1>4. Gives(tt, Concat(g), p, Let)
    BY <1>1, <1>3, GivesEach, OpenLet
  <1>5. Gives(tt, Concat(h), p, {"CONTINUE", "ACCEPT"})
    BY <1>1, <1>3, GivesEach
  <1>6. (\A on \in S : Off(p, on)) => Gives(tt, Concat(g), p, Open)
    BY <1>2, <1>3, GivesEach, OpenLet
  <1>7. ASSUME NEW on \in S, On(p, on)
        PROVE  Gives(tt, Concat(g), p, Over) /\ Gives(tt, Concat(h), p, {"ACCEPT"})
    <2>1. Gives(tt, g[on], p, Over) /\ Gives(tt, h[on], p, {"ACCEPT"})
      BY <1>1, <1>3, <1>7
    <2>2. \A x \in S : Gives(tt, g[x], p, Over \cup Open)
      BY <1>1, <1>3, OpenLet
    <2>3. {"ACCEPT"} \cup Open = {"CONTINUE", "ACCEPT"} /\ "CONTINUE" \notin {"ACCEPT"}
      BY DEF Open
    <2>4. \A x \in S : Gives(tt, h[x], p, {"ACCEPT"} \cup Open)
      BY <1>1, <1>3, <2>3
    <2>5. Gives(tt, Concat(g), p, Over)
      BY <1>3, <2>1, <2>2, GivesEachTo, OpenLet
    <2>6. Gives(tt, Concat(h), p, {"ACCEPT"})
      BY <1>3, <2>1, <2>3, <2>4, GivesEachTo
    <2> QED BY <2>5, <2>6
  <1>8. ForEach(S, Return) = Concat(g) /\ ForEach(S, Accept) = Concat(h)
    BY DEF g, h, ForEach
  <1> QED BY <1>4, <1>5, <1>6, <1>7, <1>8

TakeEach(S, protos, action) == Concat([on \in S |-> ProtocolRules(protos, on, action)])
RouteEach(S) == Concat([on \in S |-> Mark(on, "TUN_ROUTE")])

LEMMA GivesOthers ==
    ASSUME NEW tt, NEW p, IsPacket(p), NEW S, IsFiniteSet(S),
           \A on \in S : Off(p, on) /\ "p" \notin DOMAIN on,
           NEW protos \in SUBSET {"tcp", "udp"}, NEW action \in Actions
    PROVE  Gives(tt, TakeEach(S, protos, action), p, Open) /\ Gives(tt, RouteEach(S), p, Open)
  <1> DEFINE g == [on \in S |-> ProtocolRules(protos, on, action)]
             h == [on \in S |-> Mark(on, "TUN_ROUTE")]
  <1>1. DOMAIN g = S /\ \A on \in S : Gives(tt, g[on], p, Open)
    BY GivesProtocols
  <1>2. DOMAIN h = S /\ \A on \in S : Gives(tt, h[on], p, Open)
    BY GivesOff DEF Mark
  <1> HIDE DEF g, h
  <1>3. Gives(tt, Concat(g), p, Open) /\ Gives(tt, Concat(h), p, Open)
    BY <1>1, <1>2, GivesEach, OpenLet
  <1> QED BY <1>3 DEF g, h, TakeEach, RouteEach

\* The owner options the settings make.
LEMMA OwnersOn ==
    ASSUME NEW p, NEW s
    PROVE  /\ p.uid \in s.selected_uids => \E on \in Uids(s) : On(p, on)
           /\ p.uid \notin s.selected_uids => \A on \in Uids(s) : Off(p, on)
           /\ p.gid \in s.selected_gids => \E on \in Gids(s) : On(p, on)
           /\ p.gid \notin s.selected_gids => \A on \in Gids(s) : Off(p, on)
           /\ p.uid \notin SystemUids => \A on \in System : Off(p, on)
           /\ \A on \in Uids(s) \cup Gids(s) \cup System : "p" \notin DOMAIN on
  <1> DEFINE ou(u) == [uid |-> u]
             og(u) == [gid |-> u]
             oa(u) == [app |-> u]
  <1>1. \A u : /\ (p.uid = u => On(p, ou(u))) /\ (p.uid # u => Off(p, ou(u)))
               /\ (p.gid = u => On(p, og(u))) /\ (p.gid # u => Off(p, og(u)))
               /\ (p.uid \in u => On(p, oa(u))) /\ (p.uid \notin u => Off(p, oa(u)))
    BY OnOwner
  <1>2. \A u : "p" \notin DOMAIN ou(u) /\ "p" \notin DOMAIN og(u) /\ "p" \notin DOMAIN oa(u)
    OBVIOUS
  <1>3. Uids(s) = IF AppUidEbpf(s) THEN {oa(s.selected_uids)} ELSE {ou(u) : u \in s.selected_uids}
    BY DEF Uids
  <1>4. Gids(s) = {og(g) : g \in s.selected_gids} /\ System = {ou(u) : u \in SystemUids}
    BY DEF Gids, System
  <1> HIDE DEF ou, og, oa
  <1>5. /\ p.uid \in s.selected_uids => \E on \in Uids(s) : On(p, on)
        /\ p.uid \notin s.selected_uids => \A on \in Uids(s) : Off(p, on)
    BY <1>1, <1>3
  <1>6. /\ p.gid \in s.selected_gids => \E on \in Gids(s) : On(p, on)
        /\ p.gid \notin s.selected_gids => \A on \in Gids(s) : Off(p, on)
    BY <1>1, <1>4
  <1>7. p.uid \notin SystemUids => \A on \in System : Off(p, on)
    BY <1>1, <1>4
  <1>8. \A on \in Uids(s) \cup Gids(s) \cup System : "p" \notin DOMAIN on
    BY <1>2, <1>3, <1>4
  <1> QED BY <1>5, <1>6, <1>7, <1>8

\* The packet is of an application the lists name, of one the user left out.
Named(s, p) == p.uid \in s.selected_uids \/ p.gid \in s.selected_gids
LeftApp(s, p) == \/ s.proxy_mode = "blacklist" /\ Named(s, p)
                 \/ /\ s.proxy_mode = "whitelist" /\ ~Named(s, p) /\ p.uid \notin SystemUids
                    /\ s.selected_uids # {} \/ s.selected_gids # {}

LEMMA GivesLeftApp ==
    ASSUME NEW tt, NEW p, IsPacket(p), NEW s, Finite(s), LeftApp(s, p),
           NEW protos \in SUBSET {"tcp", "udp"}, NEW action \in {"Redirect", "Mark"}
    PROVE  Gives(tt, LocalProxyRules(s, protos, action), p, Let)
  <1> DEFINE take(S) == TakeEach(S, protos, action)
             ret(S) == ForEach(S, Return)
             all == ProtocolRules(protos, <<>>, action)
  <1>0. IsFiniteSet(Uids(s)) /\ IsFiniteSet(Gids(s)) /\ IsFiniteSet(System) /\ action \in Actions
    BY OwnerSets DEF Actions
  <1>1. CASE s.proxy_mode = "blacklist"
    <2>1. LocalProxyRules(s, protos, action) = ret(Uids(s)) \o ret(Gids(s)) \o all
      BY <1>1 DEF LocalProxyRules, ForEach
    <2>2. IsSeq(all)
      BY ProtocolRulesSeq
    <2>3. /\ Gives(tt, ret(Uids(s)), p, Let) /\ Gives(tt, ret(Gids(s)), p, Let)
          /\ p.uid \in s.selected_uids => Gives(tt, ret(Uids(s)), p, Over)
          /\ p.gid \in s.selected_gids => Gives(tt, ret(Gids(s)), p, Over)
      BY <1>0, GivesOwners, OwnersOn
    <2> HIDE DEF ret, all
    <2>4. Gives(tt, ret(Uids(s)) \o ret(Gids(s)), p, Over)
      <3>1. CASE p.uid \in s.selected_uids
        <4>1. IsSeq(ret(Gids(s)))
          BY <2>3 DEF Gives, Goes
        <4> QED BY <2>3, <3>1, <4>1, GivesFirst, OpenLet
      <3>2. CASE p.gid \in s.selected_gids
        BY <2>3, <3>2, GivesLast, OpenLet
      <3> QED BY <1>1, <3>1, <3>2 DEF LeftApp, Named
    <2>5. Gives(tt, ret(Uids(s)) \o ret(Gids(s)) \o all, p, Over)
      BY <2>2, <2>4, GivesFirst, OpenLet
    <2> QED BY <2>1, <2>5, GivesWider, OpenLet
  <1>2. CASE s.proxy_mode = "whitelist"
    <2>1. /\ p.uid \notin s.selected_uids /\ p.gid \notin s.selected_gids /\ p.uid \notin SystemUids
          /\ s.selected_uids # {} \/ s.selected_gids # {}
      BY <1>2 DEF LeftApp, Named
    <2>2. LocalProxyRules(s, protos, action) = take(Uids(s)) \o take(System) \o take(Gids(s))
      BY <1>2, <2>1 DEF LocalProxyRules, ForEach, TakeEach
    <2>3. /\ \A on \in Uids(s) : Off(p, on) /\ "p" \notin DOMAIN on
          /\ \A on \in Gids(s) : Off(p, on) /\ "p" \notin DOMAIN on
          /\ \A on \in System : Off(p, on) /\ "p" \notin DOMAIN on
      BY <2>1, OwnersOn
    <2>4. Gives(tt, take(Uids(s)), p, Open)
      BY <1>0, <2>3, GivesOthers
    <2>5. Gives(tt, take(System), p, Open)
      BY <1>0, <2>3, GivesOthers
    <2>6. Gives(tt, take(Gids(s)), p, Open)
      BY <1>0, <2>3, GivesOthers
    <2> HIDE DEF take
    <2>7. Gives(tt, take(Uids(s)) \o take(System), p, Open)
      BY <2>4, <2>5, GivesBoth
    <2>8. Gives(tt, take(Uids(s)) \o take(System) \o take(Gids(s)), p, Open)
      BY <2>6, <2>7, GivesBoth
    <2> QED BY <2>2, <2>8, GivesWider, OpenLet
  <1> QED BY <1>1, <1>2 DEF LeftApp

\* Performance mode's chain of applications.
LEMMA GivesPerfApp ==
    ASSUME NEW tt, NEW p, IsPacket(p), NEW s, Finite(s)
    PROVE  /\ Gives(tt, PerfOutApp(s), p, Let) /\ Jumpless(PerfOutApp(s))
           /\ LeftApp(s, p) => Gives(tt, PerfOutApp(s), p, {"ACCEPT"})
  <1> DEFINE A == {"ACCEPT"}
             C == {"CONTINUE", "ACCEPT"}
             acc(S) == ForEach(S, Accept)
             ret(S) == ForEach(S, Return)
             sys == When(s.selected_uids # {}, ret(System))
             rest == When(s.selected_uids # {} \/ s.selected_gids # {}, Accept(<<>>))
  <1>0. IsFiniteSet(Uids(s)) /\ IsFiniteSet(Gids(s)) /\ IsFiniteSet(System)
    BY OwnerSets
  <1>1. /\ A \cup Open = C /\ "CONTINUE" \notin A /\ C \subseteq Let /\ "CONTINUE" \in C
        /\ A \subseteq Let /\ Open \subseteq C
    BY DEF Open, Let
  <1>2. \A S : IsFiniteSet(S) => Jumpless(acc(S)) /\ Jumpless(ret(S))
    <2> SUFFICES ASSUME NEW S, IsFiniteSet(S) PROVE Jumpless(acc(S)) /\ Jumpless(ret(S))
      OBVIOUS
    <2> DEFINE g == [on \in S |-> Accept(on)]
               h == [on \in S |-> Return(on)]
    <2>1. DOMAIN g = S /\ DOMAIN h = S /\ \A on \in S : Jumpless(g[on]) /\ Jumpless(h[on])
      BY JumplessSeqs DEF Accept, Return
    <2> HIDE DEF g, h
    <2>2. Jumpless(Concat(g)) /\ Jumpless(Concat(h))
      BY <2>1, JumplessEach
    <2>3. acc(S) = Concat(g) /\ ret(S) = Concat(h)
      BY DEF g, h, ForEach
    <2> QED BY <2>2, <2>3
  <1>3. \A S : IsFiniteSet(S) => /\ Gives(tt, acc(S), p, C) /\ Gives(tt, ret(S), p, Let)
                                 /\ (\E on \in S : On(p, on)) => Gives(tt, acc(S), p, A)
                                 /\ (\A on \in S : Off(p, on)) => Gives(tt, ret(S), p, Open)
    BY GivesOwners
  <1>4. /\ p.uid \in s.selected_uids => \E on \in Uids(s) : On(p, on)
        /\ p.gid \in s.selected_gids => \E on \in Gids(s) : On(p, on)
        /\ p.uid \notin s.selected_uids => \A on \in Uids(s) : Off(p, on)
        /\ p.gid \notin s.selected_gids => \A on \in Gids(s) : Off(p, on)
        /\ p.uid \notin SystemUids => \A on \in System : Off(p, on)
    BY OwnersOn
  <1>5. PerfOutApp(s) = CASE s.proxy_mode = "blacklist" -> acc(Uids(s)) \o acc(Gids(s))
                          [] s.proxy_mode = "whitelist" -> ret(Uids(s)) \o sys \o ret(Gids(s)) \o rest
                          [] OTHER -> <<>>
    BY DEF PerfOutApp
  <1>6. /\ Jumpless(sys) /\ Jumpless(rest) /\ Gives(tt, sys, p, Let) /\ Gives(tt, rest, p, Let)
        /\ p.uid \notin SystemUids => Gives(tt, sys, p, Open)
        /\ s.selected_uids # {} \/ s.selected_gids # {} => Gives(tt, rest, p, A)
    <2> HIDE DEF ret, A, C
    <2>1. Jumpless(Accept(<<>>))
      BY JumplessSeqs DEF Accept
    <2>2. Jumpless(sys) /\ Jumpless(rest)
      BY <1>0, <1>2, <2>1, JumplessSeqs
    <2>3. Gives(tt, Accept(<<>>), p, Let) /\ Gives(tt, Accept(<<>>), p, A)
      BY GivesReturn, OnAll DEF A
    <2>4. Gives(tt, sys, p, Let) /\ Gives(tt, rest, p, Let)
      BY <1>0, <1>3, <2>3, GivesWhen, OpenLet
    <2>5. p.uid \notin SystemUids => Gives(tt, sys, p, Open)
      BY <1>0, <1>3, <1>4, GivesWhen, OpenLet
    <2>6. s.selected_uids # {} \/ s.selected_gids # {} => Gives(tt, rest, p, A)
      BY <2>3 DEF When
    <2> QED BY <2>2, <2>4, <2>5, <2>6
  <1> HIDE DEF A, C, acc, ret, sys, rest
  <1>7. CASE s.proxy_mode = "blacklist"
    <2>1. PerfOutApp(s) = acc(Uids(s)) \o acc(Gids(s))
      BY <1>5, <1>7
    <2>2. Jumpless(PerfOutApp(s))
      BY <1>0, <1>2, <2>1, JumplessSeqs
    <2>3. Gives(tt, PerfOutApp(s), p, Let)
      BY <1>0, <1>1, <1>3, <2>1, GivesBoth, GivesWider
    <2>4. ASSUME LeftApp(s, p) PROVE Gives(tt, PerfOutApp(s), p, A)
      <3>1. CASE p.uid \in s.selected_uids
        <4>1. IsSeq(acc(Gids(s)))
          BY <1>0, <1>2 DEF Jumpless
        <4> QED BY <1>0, <1>1, <1>3, <1>4, <2>1, <3>1, <4>1, GivesFirst
      <3>2. CASE p.gid \in s.selected_gids
        BY <1>0, <1>1, <1>3, <1>4, <2>1, <3>2, GivesLast
      <3> QED BY <1>7, <2>4, <3>1, <3>2 DEF LeftApp, Named
    <2> QED BY <2>2, <2>3, <2>4 DEF A
  <1>8. CASE s.proxy_mode = "whitelist"
    <2>1. PerfOutApp(s) = ret(Uids(s)) \o sys \o ret(Gids(s)) \o rest
      BY <1>5, <1>8
    <2>2. Jumpless(ret(Uids(s)) \o sys)
      BY <1>0, <1>2, <1>6, JumplessSeqs
    <2>3. Jumpless(ret(Uids(s)) \o sys \o ret(Gids(s)))
      BY <1>0, <1>2, <2>2, JumplessSeqs
    <2>4. Jumpless(PerfOutApp(s))
      BY <1>6, <2>1, <2>3, JumplessSeqs
    <2>5. Gives(tt, ret(Uids(s)) \o sys, p, Let)
      BY <1>0, <1>3, <1>6, GivesBoth
    <2>6. Gives(tt, ret(Uids(s)) \o sys \o ret(Gids(s)), p, Let)
      BY <1>0, <1>3, <2>5, GivesBoth
    <2>7. Gives(tt, PerfOutApp(s), p, Let)
      BY <1>6, <2>1, <2>6, GivesBoth
    <2>8. ASSUME LeftApp(s, p) PROVE Gives(tt, PerfOutApp(s), p, A)
      <3>1. /\ p.uid \notin s.selected_uids /\ p.gid \notin s.selected_gids /\ p.uid \notin SystemUids
            /\ s.selected_uids # {} \/ s.selected_gids # {}
        BY <1>8, <2>8 DEF LeftApp, Named
      <3>2. Gives(tt, ret(Uids(s)) \o sys, p, Open)
        BY <1>0, <1>3, <1>4, <1>6, <3>1, GivesBoth
      <3>3. Gives(tt, ret(Uids(s)) \o sys \o ret(Gids(s)), p, Open)
        BY <1>0, <1>3, <1>4, <3>1, <3>2, GivesBoth
      <3>4. Gives(tt, ret(Uids(s)) \o sys \o ret(Gids(s)), p, A \cup Open)
        BY <1>1, <3>3, GivesWider
      <3> QED BY <1>1, <1>6, <2>1, <3>1, <3>4, GivesLast
    <2> QED BY <2>4, <2>7, <2>8 DEF A
  <1>9. CASE s.proxy_mode \notin {"blacklist", "whitelist"}
    <2>1. PerfOutApp(s) = <<>> /\ ~LeftApp(s, p)
      BY <1>5, <1>9 DEF LeftApp
    <2> QED BY <2>1, GivesNone, JumplessSeqs, OpenLet
  <1> QED BY <1>7, <1>8, <1>9

\* Tun's rules for applications.
LEMMA GivesTunApp ==
    ASSUME NEW tt, NEW p, IsPacket(p), NEW s, Finite(s)
    PROVE  /\ ~(s.proxy_mode = "whitelist" /\ Named(s, p)) => Gives(tt, TunProxyMode(s), p, Let)
           /\ LeftApp(s, p) => Gives(tt, TunProxyMode(s), p, Over)
  <1> DEFINE U == {[uid |-> u] : u \in s.selected_uids}
             G == Gids(s)
             ret(S) == ForEach(S, Return)
             take(S) == RouteEach(S)
             rest == When(s.selected_uids # {} \/ s.selected_gids # {}, Return(<<>>))
  <1>1. IsFiniteSet(U) /\ IsFiniteSet(G)
    <2> DEFINE g == [u \in s.selected_uids |-> [uid |-> u]]
               I == {g[u] : u \in s.selected_uids}
    <2>1. IsFiniteSet(I)
      <3>1. g \in Surjection(s.selected_uids, I)
        BY DEF Surjection
      <3> QED BY <3>1, FS_Surjection DEF Finite
    <2> QED BY <2>1, OwnerSets
  <1>2. /\ p.uid \in s.selected_uids => \E on \in U : On(p, on)
        /\ p.uid \notin s.selected_uids => \A on \in U : Off(p, on)
    <2> DEFINE ou(u) == [uid |-> u]
    <2>1. \A u : (p.uid = u => On(p, ou(u))) /\ (p.uid # u => Off(p, ou(u)))
      BY OnOwner
    <2>2. U = {ou(u) : u \in s.selected_uids}
      OBVIOUS
    <2> HIDE DEF ou, U
    <2> QED BY <2>1, <2>2
  <1>3. /\ p.gid \in s.selected_gids => \E on \in G : On(p, on)
        /\ p.gid \notin s.selected_gids => \A on \in G : Off(p, on)
    BY OwnersOn
  <1>4. \A on \in U \cup G : "p" \notin DOMAIN on
    <2>1. \A on \in U : "p" \notin DOMAIN on
      OBVIOUS
    <2> QED BY <2>1, OwnersOn
  <1>5. TunProxyMode(s) = CASE s.proxy_mode = "blacklist" -> ret(U) \o ret(G)
                            [] s.proxy_mode = "whitelist" -> take(U) \o take(G) \o rest
                            [] OTHER -> <<>>
    BY DEF TunProxyMode, ForEach, RouteEach
  <1> HIDE DEF U, G
  <1>6. /\ Gives(tt, ret(U), p, Let) /\ Gives(tt, ret(G), p, Let)
        /\ p.uid \in s.selected_uids => Gives(tt, ret(U), p, Over)
        /\ p.gid \in s.selected_gids => Gives(tt, ret(G), p, Over)
    BY <1>1, <1>2, <1>3, GivesOwners
  <1>7. ASSUME ~Named(s, p) PROVE Gives(tt, take(U), p, Open) /\ Gives(tt, take(G), p, Open)
    <2>1. {} \in SUBSET {"tcp", "udp"} /\ "Mark" \in Actions
      BY DEF Actions
    <2>2. \A on \in U : Off(p, on) /\ "p" \notin DOMAIN on
      BY <1>2, <1>4, <1>7 DEF Named
    <2>3. \A on \in G : Off(p, on) /\ "p" \notin DOMAIN on
      BY <1>3, <1>4, <1>7 DEF Named
    <2>4. Gives(tt, take(U), p, Open)
      BY <1>1, <2>1, <2>2, GivesOthers
    <2>5. Gives(tt, take(G), p, Open)
      BY <1>1, <2>1, <2>3, GivesOthers
    <2> QED BY <2>4, <2>5
  <1>8. /\ Gives(tt, rest, p, Let)
        /\ s.selected_uids # {} \/ s.selected_gids # {} => Gives(tt, rest, p, Over)
    <2>1. Gives(tt, Return(<<>>), p, Let) /\ Gives(tt, Return(<<>>), p, Over)
      BY GivesReturn, OnAll
    <2> QED BY <2>1, GivesWhen, OpenLet DEF When
  <1> HIDE DEF ret, take, rest
  <1>9. CASE s.proxy_mode = "blacklist"
    <2>1. TunProxyMode(s) = ret(U) \o ret(G)
      BY <1>5, <1>9
    <2>2. Gives(tt, TunProxyMode(s), p, Let)
      BY <1>6, <2>1, GivesBoth
    <2>3. ASSUME LeftApp(s, p) PROVE Gives(tt, TunProxyMode(s), p, Over)
      <3>1. CASE p.uid \in s.selected_uids
        <4>1. IsSeq(ret(G))
          BY <1>6 DEF Gives, Goes
        <4> QED BY <1>6, <2>1, <3>1, <4>1, GivesFirst, OpenLet
      <3>2. CASE p.gid \in s.selected_gids
        BY <1>6, <2>1, <3>2, GivesLast, OpenLet
      <3> QED BY <1>9, <2>3, <3>1, <3>2 DEF LeftApp, Named
    <2> QED BY <2>2, <2>3
  <1>10. CASE s.proxy_mode = "whitelist"
    <2> SUFFICES ASSUME ~Named(s, p)
                 PROVE  /\ Gives(tt, TunProxyMode(s), p, Let)
                        /\ LeftApp(s, p) => Gives(tt, TunProxyMode(s), p, Over)
      BY <1>10 DEF LeftApp
    <2>1. TunProxyMode(s) = take(U) \o take(G) \o rest
      BY <1>5, <1>10
    <2>2. Gives(tt, take(U) \o take(G), p, Open)
      BY <1>7, GivesBoth
    <2>3. Gives(tt, take(U) \o take(G), p, Let)
      BY <2>2, GivesWider, OpenLet
    <2>4. Gives(tt, TunProxyMode(s), p, Let)
      BY <1>8, <2>1, <2>3, GivesBoth
    <2>5. LeftApp(s, p) => Gives(tt, TunProxyMode(s), p, Over)
      BY <1>8, <1>10, <2>1, <2>3, GivesLast, OpenLet DEF LeftApp
    <2> QED BY <2>4, <2>5
  <1>11. CASE s.proxy_mode \notin {"blacklist", "whitelist"}
    <2>1. TunProxyMode(s) = <<>> /\ ~LeftApp(s, p)
      BY <1>5, <1>11 DEF LeftApp
    <2> QED BY <2>1, GivesNone, OpenLet
  <1> QED BY <1>9, <1>10, <1>11

-----------------------------------------------------------------------------
(* The rules for interfaces and hotspot clients. *)

LEMMA GivesProtocolsOver ==
    ASSUME NEW tt, NEW p, IsPacket(p), NEW protos \in SUBSET {"tcp", "udp"}, NEW on,
           "p" \notin DOMAIN on, p.proto \in protos, On(p, on)
    PROVE  Gives(tt, ProtocolRules(protos, on, "Return"), p, Over)
  <1> DEFINE o(x) == Also([p |-> x], on)
             g == [x \in protos |-> Do("Return", o(x))]
  <1>1. IsFiniteSet(protos)
    BY SomeProtos
  <1>2. \A x : p.proto = x => On(p, o(x))
    BY OnProtocol
  <1> HIDE DEF o
  <1>3. \A x : /\ Gives(tt, Do("Return", o(x)), p, Over \cup Open)
               /\ p.proto = x => Gives(tt, Do("Return", o(x)), p, Over)
    BY <1>2, GivesReturn, OpenLet DEF Do
  <1>4. DOMAIN g = protos /\ \A x \in protos : g[x] = Do("Return", o(x))
    OBVIOUS
  <1> HIDE DEF g
  <1> DEFINE y == p.proto
  <1>5. y \in protos /\ Gives(tt, g[y], p, Over) /\ \A x \in protos : Gives(tt, g[x], p, Over \cup Open)
    BY <1>3, <1>4
  <1> HIDE DEF y
  <1>6. Gives(tt, Concat(g), p, Over)
    BY <1>1, <1>4, <1>5, GivesEachTo, OpenLet
  <1> QED BY <1>6 DEF g, o, ProtocolRules, ForEach

\* An interface or a hotspot client the user left to itself.
LeftClient(s, p) == s.mac_filter /\ p.iface \in ApInterfaces /\ (p.mac \in Macs) # (s.mac_mode = "whitelist")
LeftPort(s, p) == p.iface \in BlockedInterfaces \/ LeftClient(s, p)

MacTake(i, protos, action) == Concat([m \in Macs |-> ProtocolRules(protos, [i |-> i, mac |-> m], action)])
MacReturn(i) == Concat([m \in Macs |-> Return([i |-> i, mac |-> m])])
MacAccept(i) == Concat([m \in Macs |-> Accept([i |-> i, mac |-> m])])

LEMMA GivesMacTake ==
    ASSUME NEW tt, NEW p, IsPacket(p), NEW i, NEW protos \in SUBSET {"tcp", "udp"}, NEW action \in Actions
    PROVE  /\ p.iface # i \/ p.mac \notin Macs \/ p.proto \notin protos
                => Gives(tt, MacTake(i, protos, action), p, Open)
           /\ Gives(tt, MacTake(i, protos, "Return"), p, Let)
           /\ p.iface = i /\ p.mac \in Macs /\ p.proto \in protos
                => Gives(tt, MacTake(i, protos, "Return"), p, Over)
  <1> DEFINE o(m) == [i |-> i, mac |-> m]
             g == [m \in Macs |-> ProtocolRules(protos, o(m), action)]
             h == [m \in Macs |-> ProtocolRules(protos, o(m), "Return")]
  <1>0. IsFiniteSet(Macs)
    BY ListsAssumption
  <1>1. \A m : /\ "p" \notin DOMAIN o(m)
               /\ p.iface # i \/ p.mac # m => Off(p, o(m))
               /\ p.iface = i /\ p.mac = m => On(p, o(m))
    BY OnInterface
  <1> HIDE DEF o
  <1>2. \A m : /\ p.iface # i \/ p.mac # m \/ p.proto \notin protos
                    => Gives(tt, ProtocolRules(protos, o(m), action), p, Open)
               /\ Gives(tt, ProtocolRules(protos, o(m), "Return"), p, Let)
    BY <1>1, GivesProtocols
  <1>3. \A m : p.iface = i /\ p.mac = m /\ p.proto \in protos
                 => Gives(tt, ProtocolRules(protos, o(m), "Return"), p, Over)
    BY <1>1, GivesProtocolsOver
  <1>4. /\ DOMAIN g = Macs /\ DOMAIN h = Macs
        /\ \A m \in Macs : g[m] = ProtocolRules(protos, o(m), action) /\ h[m] = ProtocolRules(protos, o(m), "Return")
    OBVIOUS
  <1> HIDE DEF g, h
  <1>5. ASSUME p.iface # i \/ p.mac \notin Macs \/ p.proto \notin protos PROVE Gives(tt, Concat(g), p, Open)
    <2>1. \A m \in Macs : Gives(tt, g[m], p, Open)
      BY <1>2, <1>4, <1>5
    <2> QED BY <1>0, <1>4, <2>1, GivesEach, OpenLet
  <1>6. Gives(tt, Concat(h), p, Let)
    BY <1>0, <1>2, <1>4, GivesEach, OpenLet
  <1>7. ASSUME p.iface = i, p.mac \in Macs, p.proto \in protos PROVE Gives(tt, Concat(h), p, Over)
    <2> DEFINE y == p.mac
    <2>1. y \in Macs /\ Gives(tt, h[y], p, Over) /\ \A m \in Macs : Gives(tt, h[m], p, Over \cup Open)
      BY <1>2, <1>3, <1>4, <1>7, OpenLet
    <2> HIDE DEF y
    <2> QED BY <1>0, <1>4, <2>1, GivesEachTo, OpenLet
  <1> QED BY <1>5, <1>6, <1>7 DEF g, h, o, MacTake

LEMMA GivesMacs ==
    ASSUME NEW tt, NEW p, IsPacket(p), NEW i
    PROVE  /\ Gives(tt, MacReturn(i), p, Let) /\ Gives(tt, MacAccept(i), p, {"CONTINUE", "ACCEPT"})
           /\ p.iface # i \/ p.mac \notin Macs => Gives(tt, MacReturn(i), p, Open) /\ Gives(tt, MacAccept(i), p, Open)
           /\ p.iface = i /\ p.mac \in Macs => Gives(tt, MacReturn(i), p, Over) /\ Gives(tt, MacAccept(i), p, {"ACCEPT"})
           /\ Jumpless(MacReturn(i)) /\ Jumpless(MacAccept(i))
  <1> DEFINE o(m) == [i |-> i, mac |-> m]
             g == [m \in Macs |-> Return(o(m))]
             h == [m \in Macs |-> Accept(o(m))]
  <1>0. IsFiniteSet(Macs)
    BY ListsAssumption
  <1>1. \A m : /\ p.iface # i \/ p.mac # m => Off(p, o(m))
               /\ p.iface = i /\ p.mac = m => On(p, o(m))
    BY OnInterface
  <1> HIDE DEF o
  <1>2. \A on : /\ Gives(tt, Return(on), p, Let) /\ Gives(tt, Accept(on), p, {"CONTINUE", "ACCEPT"})
                /\ On(p, on) => Gives(tt, Return(on), p, Over) /\ Gives(tt, Accept(on), p, {"ACCEPT"})
    BY GivesReturn
  <1>3. \A on : Off(p, on) => Gives(tt, Return(on), p, Open) /\ Gives(tt, Accept(on), p, Open)
    BY GivesOff DEF Return, Accept
  <1>3a. \A on : Jumpless(Return(on)) /\ Jumpless(Accept(on))
    BY JumplessSeqs DEF Return, Accept
  <1>4. DOMAIN g = Macs /\ DOMAIN h = Macs /\ \A m \in Macs : g[m] = Return(o(m)) /\ h[m] = Accept(o(m))
    OBVIOUS
  <1> HIDE DEF g, h
  <1>5. Gives(tt, Concat(g), p, Let)
    BY <1>0, <1>2, <1>4, GivesEach, OpenLet
  <1>6. Gives(tt, Concat(h), p, {"CONTINUE", "ACCEPT"})
    BY <1>0, <1>2, <1>4, GivesEach
  <1>7. ASSUME p.iface # i \/ p.mac \notin Macs PROVE Gives(tt, Concat(g), p, Open) /\ Gives(tt, Concat(h), p, Open)
    <2>1. \A m \in Macs : Gives(tt, g[m], p, Open) /\ Gives(tt, h[m], p, Open)
      BY <1>1, <1>3, <1>4, <1>7
    <2> QED BY <1>0, <1>4, <2>1, GivesEach, OpenLet
  <1>8. ASSUME p.iface = i, p.mac \in Macs PROVE Gives(tt, Concat(g), p, Over) /\ Gives(tt, Concat(h), p, {"ACCEPT"})
    <2> DEFINE y == p.mac
    <2>0. {"ACCEPT"} \cup Open = {"CONTINUE", "ACCEPT"} /\ "CONTINUE" \notin {"ACCEPT"}
      BY DEF Open
    <2>1. y \in Macs /\ Gives(tt, g[y], p, Over) /\ \A m \in Macs : Gives(tt, g[m], p, Over \cup Open)
      BY <1>1, <1>2, <1>4, <1>8, OpenLet
    <2>2. Gives(tt, h[y], p, {"ACCEPT"}) /\ \A m \in Macs : Gives(tt, h[m], p, {"ACCEPT"} \cup Open)
      BY <1>1, <1>2, <1>4, <1>8, <2>0
    <2> HIDE DEF y
    <2>3. Gives(tt, Concat(g), p, Over)
      BY <1>0, <1>4, <2>1, GivesEachTo, OpenLet
    <2>4. Gives(tt, Concat(h), p, {"ACCEPT"})
      BY <1>0, <1>4, <2>0, <2>1, <2>2, GivesEachTo
    <2> QED BY <2>3, <2>4
  <1>9. Jumpless(Concat(g)) /\ Jumpless(Concat(h))
    BY <1>0, <1>3a, <1>4, JumplessEach
  <1> QED BY <1>5, <1>6, <1>7, <1>8, <1>9 DEF g, h, o, MacReturn, MacAccept

LEMMA ApSeq ==
    ASSUME NEW s, NEW protos \in SUBSET {"tcp", "udp"}, NEW blockAll, NEW action \in Actions
    PROVE  IsSeq(ApRules(s, protos, blockAll, action))
  <1> DEFINE oi(i) == [i |-> i]
             all(i) == ProtocolRules(protos, oi(i), action)
             ret(i) == IF blockAll THEN MacReturn(i) ELSE MacTake(i, protos, "Return")
             port(i) == IF s.mac_mode = "whitelist" THEN MacTake(i, protos, action) ELSE ret(i) \o all(i)
             g == [i \in ApInterfaces |-> port(i)]
  <1>1. ASSUME NEW i PROVE IsSeq(MacReturn(i)) /\ \A x \in Actions : IsSeq(MacTake(i, protos, x))
    <2> DEFINE r == [m \in Macs |-> Return([i |-> i, mac |-> m])]
               t(x) == [m \in Macs |-> ProtocolRules(protos, [i |-> i, mac |-> m], x)]
    <2>1. DOMAIN r = Macs /\ \A m \in Macs : IsSeq(r[m])
      BY RuleSeq DEF Return
    <2>2. IsSeq(Concat(r))
      <3> HIDE DEF r
      <3> QED BY <2>1, EachSeq, ListsAssumption
    <2>3. ASSUME NEW x \in Actions PROVE IsSeq(Concat(t(x)))
      <3> DEFINE tx == t(x)
      <3>1. DOMAIN tx = Macs /\ \A m \in Macs : IsSeq(tx[m])
        BY ProtocolRulesSeq DEF Actions
      <3> HIDE DEF tx
      <3>2. IsSeq(Concat(tx))
        BY <3>1, EachSeq, ListsAssumption
      <3> QED BY <3>2 DEF tx
    <2> QED BY <2>2, <2>3 DEF MacReturn, MacTake
  <1>2. \A on : IsSeq(ProtocolRules(protos, on, action))
    BY ProtocolRulesSeq DEF Actions
  <1>3. ASSUME NEW i PROVE IsSeq(port(i))
    <2>1. IsSeq(all(i)) /\ IsSeq(ret(i)) /\ IsSeq(MacTake(i, protos, action))
      BY <1>1, <1>2 DEF Actions
    <2> HIDE DEF all, ret
    <2>2. IsSeq(ret(i) \o all(i))
      BY <2>1, JoinSeq
    <2> QED BY <2>1, <2>2
  <1>4. ApRules(s, protos, blockAll, action) = IF ~s.mac_filter THEN ProtocolRules(protos, <<>>, action) ELSE Concat(g)
    BY DEF ApRules, ForEach, MacTake, MacReturn
  <1> HIDE DEF port
  <1>5. DOMAIN g = ApInterfaces /\ \A i \in ApInterfaces : IsSeq(g[i])
    BY <1>3
  <1> HIDE DEF g
  <1>6. IsSeq(Concat(g))
    BY <1>5, EachSeq, ListsAssumption
  <1> QED BY <1>2, <1>4, <1>6

\* The rules of the hotspot's clients, in the chains that take by protocol.
LEMMA GivesAp ==
    ASSUME NEW tt, NEW p, IsPacket(p), NEW s, LeftClient(s, p), NEW protos \in SUBSET {"tcp", "udp"},
           NEW blockAll, NEW action \in Actions
    PROVE  Gives(tt, ApRules(s, protos, blockAll, action), p, Let)
  <1> DEFINE oi(i) == [i |-> i]
             ret(i) == IF blockAll THEN MacReturn(i) ELSE MacTake(i, protos, "Return")
             all(i) == ProtocolRules(protos, oi(i), action)
             port(i) == IF s.mac_mode = "whitelist" THEN MacTake(i, protos, action) ELSE ret(i) \o all(i)
             g == [i \in ApInterfaces |-> port(i)]
  <1>0. IsFiniteSet(ApInterfaces) /\ "Return" \in Actions
    BY ListsAssumption DEF Actions
  <1>1. \A i : "p" \notin DOMAIN oi(i) /\ (p.iface # i => Off(p, oi(i)))
    BY OnInterface
  <1>2. \A i : p.iface # i \/ p.proto \notin protos => Gives(tt, all(i), p, Open)
    <2> HIDE DEF oi
    <2> QED BY <1>1, GivesProtocols
  <1>3. \A i : IsSeq(all(i))
    BY ProtocolRulesSeq DEF Actions
  <1> HIDE DEF all
  <1>4. ASSUME NEW i PROVE Gives(tt, port(i), p, Let)
    <2>1. CASE s.mac_mode = "whitelist"
      <3>1. p.mac \notin Macs
        BY <2>1 DEF LeftClient
      <3> QED BY <2>1, <3>1, GivesMacTake, GivesWider, OpenLet
    <2>2. CASE s.mac_mode # "whitelist" /\ p.iface # i
      <3>1. Gives(tt, ret(i), p, Let) /\ Gives(tt, all(i), p, Let)
        BY <1>0, <1>2, <2>2, GivesMacTake, GivesMacs, GivesWider, OpenLet
      <3> QED BY <2>2, <3>1, GivesBoth
    <2>3. CASE s.mac_mode # "whitelist" /\ p.iface = i
      <3>1. p.mac \in Macs
        BY <2>3 DEF LeftClient
      <3>2. CASE blockAll \/ p.proto \in protos
        <4>1. Gives(tt, ret(i), p, Over)
          BY <1>0, <2>3, <3>1, <3>2, GivesMacTake, GivesMacs
        <4>2. Gives(tt, ret(i) \o all(i), p, Over)
          BY <1>3, <4>1, GivesFirst, OpenLet
        <4> QED BY <2>3, <4>2, GivesWider, OpenLet
      <3>3. CASE ~blockAll /\ p.proto \notin protos
        <4>1. Gives(tt, ret(i), p, Open) /\ Gives(tt, all(i), p, Open)
          BY <1>0, <1>2, <3>3, GivesMacTake
        <4>2. Gives(tt, ret(i) \o all(i), p, Open)
          BY <4>1, GivesBoth
        <4> QED BY <2>3, <4>2, GivesWider, OpenLet
      <3> QED BY <3>2, <3>3
    <2> QED BY <2>1, <2>2, <2>3
  <1>5. ApRules(s, protos, blockAll, action) = Concat(g)
    BY DEF LeftClient, ApRules, ForEach, MacTake, MacReturn, all
  <1> HIDE DEF port
  <1>6. DOMAIN g = ApInterfaces /\ \A i \in ApInterfaces : Gives(tt, g[i], p, Let)
    BY <1>4
  <1> HIDE DEF g
  <1> QED BY <1>0, <1>5, <1>6, GivesEach, OpenLet

\* What both chains for external packets end with.
LEMMA GivesTail ==
    ASSUME NEW tt, NEW p, IsPacket(p), p.dport # "53", NEW s, NEW class,
           tt["LOCAL_IP"] = LocalIpChain(class),
           Spared(s, p, class) \/ (LeftPort(s, p) /\ p.iface # "lo"),
           NEW protos \in SUBSET {"tcp", "udp"}, NEW blockAll, NEW action \in {"Redirect", "Tproxy"}
    PROVE  Gives(tt, ExternalTail(s, protos, blockAll, action), p, Let)
  <1> DEFINE a == CommonBypass(s)
             b == IgnoredInterfaces(s)
             on == [i |-> "lo"]
             d == ProtocolRules(protos, on, action)
             e == ApRules(s, protos, blockAll, action)
  <1>0. action \in Actions
    BY DEF Actions
  <1>1. Gives(tt, a, p, Let) /\ (Spared(s, p, class) => Gives(tt, a, p, Over))
    BY GivesCommonBypass
  <1>2. Gives(tt, b, p, Let) /\ (p.iface \in BlockedInterfaces => Gives(tt, b, p, Over))
    BY GivesIgnored
  <1>3. p.iface # "lo" => Gives(tt, d, p, Let)
    <2>1. "p" \notin DOMAIN on /\ (p.iface # "lo" => Off(p, on))
      BY OnInterface
    <2> HIDE DEF on
    <2> QED BY <1>0, <2>1, GivesProtocols, GivesWider, OpenLet
  <1>4. LeftClient(s, p) => Gives(tt, e, p, Let)
    BY <1>0, GivesAp
  <1>5. IsSeq(d) /\ IsSeq(e)
    BY <1>0, ApSeq, ProtocolRulesSeq DEF Actions
  <1>6. ExternalTail(s, protos, blockAll, action) = a \o b \o d \o e
    BY DEF ExternalTail
  <1> HIDE DEF a, b, d, e
  <1>7. IsSeq(b)
    BY <1>2 DEF Gives, Goes
  <1>8. Gives(tt, a \o b, p, Let)
    BY <1>1, <1>2, GivesBoth
  <1>9. CASE Spared(s, p, class) \/ p.iface \in BlockedInterfaces
    <2>1. Gives(tt, a \o b, p, Over)
      <3>1. CASE Spared(s, p, class)
        BY <1>1, <1>7, <3>1, GivesFirst, OpenLet
      <3>2. CASE p.iface \in BlockedInterfaces
        BY <1>1, <1>2, <3>2, GivesLast, OpenLet
      <3> QED BY <1>9, <3>1, <3>2
    <2>2. Gives(tt, a \o b \o d, p, Over)
      BY <1>5, <2>1, GivesFirst, OpenLet
    <2>3. Gives(tt, a \o b \o d \o e, p, Over)
      BY <1>5, <2>2, GivesFirst, OpenLet
    <2> QED BY <1>6, <2>3, GivesWider, OpenLet
  <1>10. CASE LeftClient(s, p) /\ p.iface # "lo"
    <2>1. Gives(tt, a \o b \o d, p, Let)
      BY <1>3, <1>8, <1>10, GivesBoth
    <2>2. Gives(tt, a \o b \o d \o e, p, Let)
      BY <1>4, <1>10, <2>1, GivesBoth
    <2> QED BY <1>6, <2>2
  <1> QED BY <1>9, <1>10 DEF LeftPort

-----------------------------------------------------------------------------
(* Performance mode's chains. *)

LEMMA GivesPreIf ==
    ASSUME NEW tt, NEW p, IsPacket(p), NEW s
    PROVE  /\ Gives(tt, PerfPreIf(s), p, Let) /\ Jumpless(PerfPreIf(s))
           /\ LeftPort(s, p) /\ p.iface # "lo" => Gives(tt, PerfPreIf(s), p, {"ACCEPT"})
  <1> DEFINE A == {"ACCEPT"}
             C == {"CONTINUE", "ACCEPT"}
             oi(i) == [i |-> i]
             acc == ForEach(BlockedInterfaces, LAMBDA i : Accept([i |-> i]))
             lo == Return([i |-> "lo"])
             port(i) == IF s.mac_mode = "whitelist" THEN MacReturn(i) \o Accept(oi(i))
                        ELSE MacAccept(i) \o Return(oi(i))
             g == [i \in ApInterfaces |-> port(i)]
             each == Concat(g)
             end == Accept(<<>>)
  <1>0. /\ A \cup Open = C /\ "CONTINUE" \notin A /\ C \subseteq Let /\ A \subseteq Let /\ Open \subseteq C
        /\ IsFiniteSet(ApInterfaces) /\ IsFiniteSet(BlockedInterfaces)
    BY ListsAssumption DEF Open, Let
  <1>1. PerfPreIf(s) = acc \o lo \o (IF ~s.mac_filter THEN Return(<<>>) ELSE each \o end)
    BY DEF PerfPreIf, ForEach, MacReturn, MacAccept
  <1>2. Gives(tt, acc, p, C) /\ (p.iface \in BlockedInterfaces => Gives(tt, acc, p, A))
    BY GivesIgnored
  <1>3. Gives(tt, lo, p, Let) /\ (p.iface # "lo" => Gives(tt, lo, p, Open)) /\ Jumpless(lo)
    BY GivesReturn, GivesOff, OnInterface, JumplessSeqs DEF Return
  <1>4. Gives(tt, end, p, Let) /\ Gives(tt, end, p, A) /\ Jumpless(end)
    BY GivesReturn, OnAll, JumplessSeqs DEF Accept
  <1>5. Gives(tt, Return(<<>>), p, Let) /\ Jumpless(Return(<<>>))
    BY GivesReturn, JumplessSeqs DEF Return
  <1>6. Jumpless(acc)
    <2> DEFINE h == [i \in BlockedInterfaces |-> Accept([i |-> i])]
    <2>1. DOMAIN h = BlockedInterfaces /\ \A i \in BlockedInterfaces : Jumpless(h[i])
      BY JumplessSeqs DEF Accept
    <2> HIDE DEF h
    <2>2. Jumpless(Concat(h))
      BY <1>0, <2>1, JumplessEach
    <2> QED BY <2>2 DEF h, ForEach
  <1>7. \A i : (p.iface # i => Off(p, oi(i))) /\ (p.iface = i => On(p, oi(i)))
    BY OnInterface
  <1> HIDE DEF oi, acc, lo, end, A, C
  <1>8. \A on : /\ Gives(tt, Return(on), p, Let) /\ Gives(tt, Accept(on), p, Let)
                /\ Jumpless(Return(on)) /\ Jumpless(Accept(on)) /\ IsSeq(Return(on)) /\ IsSeq(Accept(on))
                /\ On(p, on) => Gives(tt, Accept(on), p, A)
    BY GivesReturn, JumplessSeqs, RuleSeq DEF Return, Accept, A
  <1>9. \A on : Off(p, on) => Gives(tt, Return(on), p, Open) /\ Gives(tt, Accept(on), p, Open)
    BY GivesOff DEF Return, Accept
  <1>10. ASSUME NEW i
         PROVE  /\ Gives(tt, port(i), p, Let) /\ Jumpless(port(i))
                /\ p.iface # i => Gives(tt, port(i), p, Open)
                /\ p.iface = i /\ LeftClient(s, p) => Gives(tt, port(i), p, A)
    <2>1. /\ Gives(tt, MacReturn(i), p, Let) /\ Gives(tt, MacAccept(i), p, C)
          /\ p.iface # i \/ p.mac \notin Macs => Gives(tt, MacReturn(i), p, Open) /\ Gives(tt, MacAccept(i), p, Open)
          /\ p.iface = i /\ p.mac \in Macs => Gives(tt, MacAccept(i), p, A)
          /\ Jumpless(MacReturn(i)) /\ Jumpless(MacAccept(i))
      BY GivesMacs DEF A, C
    <2>2. Jumpless(MacReturn(i) \o Accept(oi(i))) /\ Jumpless(MacAccept(i) \o Return(oi(i)))
      BY <1>8, <2>1, JumplessSeqs
    <2>3. Gives(tt, MacReturn(i) \o Accept(oi(i)), p, Let)
      BY <1>8, <2>1, GivesBoth
    <2>4. Gives(tt, MacAccept(i) \o Return(oi(i)), p, Let)
      <3>1. Gives(tt, MacAccept(i), p, Let)
        BY <1>0, <2>1, GivesWider
      <3> QED BY <1>8, <3>1, GivesBoth
    <2>5. ASSUME p.iface # i
          PROVE  Gives(tt, MacReturn(i) \o Accept(oi(i)), p, Open) /\ Gives(tt, MacAccept(i) \o Return(oi(i)), p, Open)
      <3>1. Gives(tt, Accept(oi(i)), p, Open) /\ Gives(tt, Return(oi(i)), p, Open)
        BY <1>7, <1>9, <2>5
      <3> QED BY <2>1, <2>5, <3>1, GivesBoth
    <2>6. ASSUME p.iface = i, p.mac \notin Macs PROVE Gives(tt, MacReturn(i) \o Accept(oi(i)), p, A)
      <3>1. Gives(tt, MacReturn(i), p, A \cup Open)
        BY <1>0, <2>1, <2>6, GivesWider
      <3> QED BY <1>0, <1>7, <1>8, <2>6, <3>1, GivesLast
    <2>7. ASSUME p.iface = i, p.mac \in Macs PROVE Gives(tt, MacAccept(i) \o Return(oi(i)), p, A)
      BY <1>0, <1>8, <2>1, <2>7, GivesFirst
    <2> QED BY <2>2, <2>3, <2>4, <2>5, <2>6, <2>7 DEF LeftClient
  <1> HIDE DEF port
  <1>11. DOMAIN g = ApInterfaces /\ \A i \in ApInterfaces : g[i] = port(i)
    OBVIOUS
  <1> HIDE DEF g
  <1>12. Gives(tt, each, p, Let)
    BY <1>0, <1>10, <1>11, GivesEach, OpenLet
  <1>13. Jumpless(each)
    BY <1>0, <1>10, <1>11, JumplessEach
  <1>14. ASSUME LeftClient(s, p) PROVE Gives(tt, each, p, A)
    <2> DEFINE y == p.iface
    <2>1. y \in ApInterfaces /\ Gives(tt, g[y], p, A)
      BY <1>10, <1>11, <1>14 DEF LeftClient
    <2>2. ASSUME NEW i \in ApInterfaces PROVE Gives(tt, g[i], p, A \cup Open)
      <3>1. CASE p.iface = i
        <4>1. Gives(tt, port(i), p, A)
          BY <1>10, <1>14, <3>1
        <4> QED BY <1>11, <4>1, GivesWider
      <3>2. CASE p.iface # i
        <4>1. Gives(tt, port(i), p, Open)
          BY <1>10, <3>2
        <4> QED BY <1>11, <4>1, GivesWider
      <3> QED BY <3>1, <3>2
    <2> HIDE DEF y
    <2> QED BY <1>0, <1>11, <2>1, <2>2, GivesEachTo
  <1> HIDE DEF each
  <1> DEFINE rest == IF ~s.mac_filter THEN Return(<<>>) ELSE each \o end
  <1>15. Gives(tt, rest, p, Let) /\ Jumpless(rest)
    <2>1. Gives(tt, each \o end, p, Let) /\ Jumpless(each \o end)
      BY <1>4, <1>12, <1>13, GivesBoth, JumplessSeqs
    <2> QED BY <1>5, <2>1
  <1>16. LeftClient(s, p) => Gives(tt, rest, p, A)
    <2>1. LeftClient(s, p) => Gives(tt, each \o end, p, A)
      BY <1>0, <1>4, <1>14, GivesFirst DEF Jumpless
    <2> QED BY <2>1 DEF LeftClient
  <1>17. PerfPreIf(s) = acc \o lo \o rest
    BY <1>1
  <1> HIDE DEF rest
  <1>18. Gives(tt, acc, p, Let)
    BY <1>0, <1>2, GivesWider
  <1>19. Gives(tt, acc \o lo, p, Let) /\ Jumpless(acc \o lo)
    BY <1>3, <1>6, <1>18, GivesBoth, JumplessSeqs
  <1>20. Gives(tt, acc \o lo \o rest, p, Let) /\ Jumpless(acc \o lo \o rest)
    BY <1>15, <1>19, GivesBoth, JumplessSeqs
  <1>21. ASSUME p.iface \in BlockedInterfaces PROVE Gives(tt, acc \o lo \o rest, p, A)
    <2>1. IsSeq(lo) /\ IsSeq(rest)
      BY <1>3, <1>15 DEF Jumpless
    <2>2. Gives(tt, acc \o lo, p, A)
      BY <1>0, <1>2, <1>21, <2>1, GivesFirst
    <2> QED BY <1>0, <2>1, <2>2, GivesFirst
  <1>22. ASSUME LeftClient(s, p), p.iface # "lo" PROVE Gives(tt, acc \o lo \o rest, p, A)
    <2>1. Gives(tt, lo, p, C)
      BY <1>0, <1>3, <1>22, GivesWider
    <2>2. Gives(tt, acc \o lo, p, A \cup Open)
      BY <1>0, <1>2, <2>1, GivesBoth
    <2> QED BY <1>16, <1>22, <2>2, GivesLast
  <1> QED BY <1>17, <1>20, <1>21, <1>22 DEF LeftPort, A

LEMMA FlattenTwo ==
    ASSUME NEW a, NEW b
    PROVE  FlattenSeq(<<a, b>>) = a \o b
  <1> DEFINE q == <<a, b>>
  <1>1. Len(q) = 2 /\ q[1] = a /\ q[2] = b
    OBVIOUS
  <1> HIDE DEF q
  <1>2. Len(q) \in Nat /\ Len(q) # 0
    BY <1>1
  <1>3. PICK fl : /\ FlattenSeq(q) = fl[Len(q)]
                  /\ \A i \in 1 .. Len(q) : fl[i] = IF i = 1 THEN q[1] ELSE fl[i - 1] \o q[i]
    BY <1>2, Flattened
  <1>4. fl[1] = q[1]
    BY <1>1, <1>3
  <1>5. fl[2] = fl[1] \o q[2]
    <2>1. 2 \in 1 .. Len(q) /\ 2 # 1 /\ 2 - 1 = 1
      BY <1>1
    <2>2. fl[2] = IF 2 = 1 THEN q[1] ELSE fl[2 - 1] \o q[2]
      BY <1>3, <2>1
    <2> QED BY <2>1, <2>2
  <1>6. FlattenSeq(q) = a \o b
    BY <1>1, <1>3, <1>4, <1>5
  <1> QED BY <1>6 DEF q

\* A packet that performance mode decides by, of a protocol mangle takes.
First(s, p) == p.proto \in MangleProtos(s) /\ p.new = TRUE /\ (p.proto = "tcp" => p.syn = TRUE)

FirstJumps(s, ch) == ForEach(MangleProtos(s), LAMBDA x :
  Jump(IF x = "tcp" THEN [p |-> x, syn |-> TRUE] ELSE [p |-> x, new |-> TRUE], ch))

LEMMA GivesFirstJumps ==
    ASSUME NEW tt, NEW p, IsPacket(p), NEW s, NEW ch, Jumpless(tt[ch]), Gives(tt, tt[ch], p, Let)
    PROVE  /\ Gives(tt, FirstJumps(s, ch), p, {"CONTINUE", "ACCEPT"})
           /\ First(s, p) /\ Gives(tt, tt[ch], p, {"ACCEPT"}) => Gives(tt, FirstJumps(s, ch), p, {"ACCEPT"})
  <1> DEFINE S == MangleProtos(s)
             o(x) == IF x = "tcp" THEN [p |-> x, syn |-> TRUE] ELSE [p |-> x, new |-> TRUE]
             g == [x \in S |-> Jump(o(x), ch)]
  <1>0. IsFiniteSet(S) /\ {"ACCEPT"} \cup Open = {"CONTINUE", "ACCEPT"} /\ "CONTINUE" \notin {"ACCEPT"}
        /\ {"ACCEPT"} \subseteq Let
    BY ProtoSets, SomeProtos DEF Open, Let
  <1>1. ASSUME First(s, p) PROVE p.proto \in S /\ On(p, o(p.proto))
    BY <1>1, OnFirst DEF First
  <1> HIDE DEF o, S
  <1>2. \A on : Gives(tt, Jump(on, ch), p, {"CONTINUE", "ACCEPT"})
    BY GivesJump
  <1>3. \A on : On(p, on) /\ Gives(tt, tt[ch], p, {"ACCEPT"}) => Gives(tt, Jump(on, ch), p, {"ACCEPT"})
    BY <1>0, GivesJump
  <1>4. DOMAIN g = S /\ \A x \in S : g[x] = Jump(o(x), ch)
    OBVIOUS
  <1> HIDE DEF g
  <1>5. Gives(tt, Concat(g), p, {"CONTINUE", "ACCEPT"})
    BY <1>0, <1>2, <1>4, GivesEach
  <1>6. ASSUME First(s, p), Gives(tt, tt[ch], p, {"ACCEPT"}) PROVE Gives(tt, Concat(g), p, {"ACCEPT"})
    <2> DEFINE y == p.proto
    <2>1. y \in S /\ Gives(tt, g[y], p, {"ACCEPT"})
      BY <1>1, <1>3, <1>4, <1>6
    <2>2. \A x \in S : Gives(tt, g[x], p, {"ACCEPT"} \cup Open)
      BY <1>0, <1>2, <1>4
    <2> HIDE DEF y
    <2> QED BY <1>0, <1>4, <2>1, <2>2, GivesEachTo
  <1>7. FirstJumps(s, ch) = Concat(g)
    BY DEF FirstJumps, ForEach, g, o, S
  <1> QED BY <1>5, <1>6, <1>7

LEMMA GivesPerfJumps ==
    ASSUME NEW tt, NEW p, IsPacket(p), NEW s, NEW a, NEW b, Jumpless(tt[a]), Gives(tt, tt[a], p, Let),
           Jumpless(tt[b]), Gives(tt, tt[b], p, Let)
    PROVE  /\ Gives(tt, PerfJumps(s, <<a, b>>), p, Let)
           /\ First(s, p) /\ (Gives(tt, tt[a], p, {"ACCEPT"}) \/ Gives(tt, tt[b], p, {"ACCEPT"}))
                => Gives(tt, PerfJumps(s, <<a, b>>), p, Over)
  <1> DEFINE C == {"CONTINUE", "ACCEPT"}
             A == {"ACCEPT"}
             ja == FirstJumps(s, a)
             jb == FirstJumps(s, b)
             q == [i \in DOMAIN <<a, b>> |-> FirstJumps(s, <<a, b>>[i])]
  <1>0. A \cup Open = C /\ "CONTINUE" \notin A /\ C \subseteq Let /\ A \subseteq Over
    BY DEF Open, Let, Over
  <1>1. PerfJumps(s, <<a, b>>) = FlattenSeq(q)
    BY DEF PerfJumps, FirstJumps
  <1>2. q = <<ja, jb>>
    OBVIOUS
  <1> HIDE DEF q
  <1>3. PerfJumps(s, <<a, b>>) = ja \o jb
    BY <1>1, <1>2, FlattenTwo
  <1>4. /\ Gives(tt, ja, p, C) /\ Gives(tt, jb, p, C)
        /\ First(s, p) /\ Gives(tt, tt[a], p, A) => Gives(tt, ja, p, A)
        /\ First(s, p) /\ Gives(tt, tt[b], p, A) => Gives(tt, jb, p, A)
    BY GivesFirstJumps
  <1> HIDE DEF ja, jb, A, C
  <1>5. Gives(tt, ja \o jb, p, Let)
    <2>1. Gives(tt, ja \o jb, p, C)
      BY <1>4, GivesBoth
    <2> QED BY <1>0, <2>1, GivesWider
  <1>6. ASSUME First(s, p), Gives(tt, tt[a], p, A) PROVE Gives(tt, ja \o jb, p, Over)
    <2>1. IsSeq(jb)
      BY <1>4 DEF Gives, Goes
    <2>2. Gives(tt, ja \o jb, p, A)
      BY <1>0, <1>4, <1>6, <2>1, GivesFirst
    <2> QED BY <1>0, <2>2, GivesWider
  <1>7. ASSUME First(s, p), Gives(tt, tt[b], p, A) PROVE Gives(tt, ja \o jb, p, Over)
    <2>1. Gives(tt, ja \o jb, p, A)
      BY <1>0, <1>4, <1>7, GivesLast
    <2> QED BY <1>0, <2>1, GivesWider
  <1> QED BY <1>3, <1>5, <1>6, <1>7 DEF A

\* Nothing is remembered of later packets, and without a memory nothing dispatched.
LEMMA GivesPerfEnd ==
    ASSUME NEW tt, NEW p, IsPacket(p), NEW s, 24 \notin p.cmark, NEW action \in {"Tproxy", "Mark"}
    PROVE  /\ p.proto \notin MangleProtos(s) \/ p.new # TRUE => Gives(tt, PerfConnmark(s), p, Let)
           /\ Gives(tt, PerfDispatch(s, action), p, Let)
  <1> DEFINE S == MangleProtos(s)
             o(x) == [p |-> x, new |-> TRUE]
             u(x) == [p |-> x, connmark |-> "FWMARK"]
             g == [x \in S |-> Connmark(o(x), "FWMARK")]
             h == [x \in S |-> Do(action, u(x))]
  <1>0. IsFiniteSet(S)
    BY ProtoSets, SomeProtos
  <1> HIDE DEF S
  <1>1. \A x : p.proto # x \/ p.new # TRUE => Off(p, o(x))
    BY OnFirst
  <1> HIDE DEF o
  <1>2. \A x : p.proto # x \/ p.new # TRUE => Gives(tt, Connmark(o(x), "FWMARK"), p, Open)
    BY <1>1, GivesOff DEF Connmark
  <1>3. DOMAIN g = S /\ \A x \in S : g[x] = Connmark(o(x), "FWMARK")
    OBVIOUS
  <1> HIDE DEF g
  <1>4. p.proto \notin S \/ p.new # TRUE => Gives(tt, Concat(g), p, Let)
    <2> SUFFICES ASSUME p.proto \notin S \/ p.new # TRUE PROVE Gives(tt, Concat(g), p, Let)
      OBVIOUS
    <2>1. \A x \in S : Gives(tt, g[x], p, Open)
      BY <1>2, <1>3
    <2>2. Gives(tt, Concat(g), p, Open)
      BY <1>0, <1>3, <2>1, GivesEach, OpenLet
    <2> QED BY <2>2, GivesWider, OpenLet
  <1>5. ASSUME NEW x, NEW m PROVE ~Matches(Put(p, m, p.cmark, "CONTINUE", "none"), u(x))
    <2> DEFINE on == u(x)
               q == Put(p, m, p.cmark, "CONTINUE", "none")
    <2>1. "connmark" \in DOMAIN on /\ on["connmark"] = "FWMARK"
      OBVIOUS
    <2>2. q.cmark = p.cmark
      BY PutIs
    <2>2a. Bits("FWMARK") = {24}
      BY DEF Bits
    <2> HIDE DEF q
    <2>3. ~Meets(q, "connmark", "FWMARK")
      BY <2>2, <2>2a DEF Meets
    <2> HIDE DEF on
    <2>4. ~Matches(q, on)
      BY <2>1, <2>3 DEF Matches
    <2> QED BY <2>4 DEF on, q
  <1> HIDE DEF u
  <1>6. ASSUME NEW x, NEW t, NEW a PROVE Gives(tt, Rule(u(x), t, a), p, Open)
    <2>1. ASSUME NEW m \in {{}, {25}}
          PROVE  AfterMiddle(tt, One(u(x), t, a), Put(p, m, p.cmark, "CONTINUE", "none")) \in Kept(p, Open)
      <3>1. AfterMiddle(tt, One(u(x), t, a), Put(p, m, p.cmark, "CONTINUE", "none"))
              = Put(p, m, p.cmark, "CONTINUE", "none")
        BY <1>5, PutSkips
      <3> QED BY <3>1 DEF Kept, Open
    <2> QED BY <2>1, GivesRule
  <1>7. DOMAIN h = S /\ \A x \in S : Gives(tt, h[x], p, Open)
    BY <1>6 DEF Do, Tproxy, Mark
  <1> HIDE DEF h
  <1>8. Gives(tt, Concat(h), p, Let)
    <2>1. Gives(tt, Concat(h), p, Open)
      BY <1>0, <1>7, GivesEach, OpenLet
    <2> QED BY <2>1, GivesWider, OpenLet
  <1>9. PerfConnmark(s) = Concat(g) /\ PerfDispatch(s, action) = Concat(h)
    BY DEF PerfConnmark, PerfDispatch, ForEach, g, h, o, u, S
  <1> QED BY <1>4, <1>8, <1>9 DEF S

-----------------------------------------------------------------------------
(* Tun's chains. *)

LEMMA GivesMarkReturn ==
    ASSUME NEW tt, NEW p, IsPacket(p), NEW on
    PROVE  /\ Gives(tt, MarkReturn(on, "TUN_BYPASS"), p, Let)
           /\ On(p, on) => Gives(tt, MarkReturn(on, "TUN_BYPASS"), p, Over)
           /\ Off(p, on) => Gives(tt, MarkReturn(on, "TUN_BYPASS"), p, Open)
  <1>1. Gives(tt, Mark(on, "TUN_BYPASS"), p, Open)
    BY GivesBypass
  <1>2. Gives(tt, Mark(on, "TUN_BYPASS"), p, Let)
    BY <1>1, GivesWider, OpenLet
  <1>3. Gives(tt, Return(on), p, Let) /\ (On(p, on) => Gives(tt, Return(on), p, Over))
    BY GivesReturn
  <1>4. Off(p, on) => Gives(tt, Return(on), p, Open)
    BY GivesOff DEF Return
  <1>5. Gives(tt, MarkReturn(on, "TUN_BYPASS"), p, Let)
    BY <1>2, <1>3, GivesBoth DEF MarkReturn
  <1>6. On(p, on) => Gives(tt, MarkReturn(on, "TUN_BYPASS"), p, Over)
    BY <1>2, <1>3, GivesLast, OpenLet DEF MarkReturn
  <1>7. Off(p, on) => Gives(tt, MarkReturn(on, "TUN_BYPASS"), p, Open)
    BY <1>1, <1>4, GivesBoth DEF MarkReturn
  <1> QED BY <1>5, <1>6, <1>7

MacRoute(i) == Concat([m \in Macs |-> Mark([i |-> i, mac |-> m], "TUN_ROUTE")])
MacBypass(i) == Concat([m \in Macs |-> MarkReturn([i |-> i, mac |-> m], "TUN_BYPASS")])

LEMMA GivesTunMacs ==
    ASSUME NEW tt, NEW p, IsPacket(p), NEW i
    PROVE  /\ IsSeq(MacRoute(i)) /\ IsSeq(MacBypass(i))
           /\ p.iface # i \/ p.mac \notin Macs
                => Gives(tt, MacRoute(i), p, Open) /\ Gives(tt, MacBypass(i), p, Open)
           /\ p.iface = i /\ p.mac \in Macs => Gives(tt, MacBypass(i), p, Over)
  <1> DEFINE o(m) == [i |-> i, mac |-> m]
             g == [m \in Macs |-> Mark(o(m), "TUN_ROUTE")]
             h == [m \in Macs |-> MarkReturn(o(m), "TUN_BYPASS")]
  <1>0. IsFiniteSet(Macs)
    BY ListsAssumption
  <1>1. \A m : /\ p.iface # i \/ p.mac # m => Off(p, o(m))
               /\ p.iface = i /\ p.mac = m => On(p, o(m))
    BY OnInterface
  <1> HIDE DEF o
  <1>2. \A m : /\ p.iface # i \/ p.mac # m => /\ Gives(tt, Mark(o(m), "TUN_ROUTE"), p, Open)
                                              /\ Gives(tt, MarkReturn(o(m), "TUN_BYPASS"), p, Open)
    BY <1>1, GivesOff, GivesMarkReturn DEF Mark
  <1>3. \A m : /\ Gives(tt, MarkReturn(o(m), "TUN_BYPASS"), p, Over \cup Open)
               /\ p.iface = i /\ p.mac = m => Gives(tt, MarkReturn(o(m), "TUN_BYPASS"), p, Over)
    BY <1>1, GivesMarkReturn, OpenLet
  <1>4. DOMAIN g = Macs /\ DOMAIN h = Macs /\ \A m \in Macs : g[m] = Mark(o(m), "TUN_ROUTE") /\ h[m] = MarkReturn(o(m), "TUN_BYPASS")
    OBVIOUS
  <1> HIDE DEF g, h
  <1>5. IsSeq(Concat(g)) /\ IsSeq(Concat(h))
    <2>1. \A m \in Macs : IsSeq(g[m]) /\ IsSeq(h[m])
      BY <1>4, MarkSeq
    <2> QED BY <1>0, <1>4, <2>1, EachSeq
  <1>6. ASSUME p.iface # i \/ p.mac \notin Macs PROVE Gives(tt, Concat(g), p, Open) /\ Gives(tt, Concat(h), p, Open)
    <2>1. \A m \in Macs : Gives(tt, g[m], p, Open) /\ Gives(tt, h[m], p, Open)
      BY <1>2, <1>4, <1>6
    <2> QED BY <1>0, <1>4, <2>1, GivesEach, OpenLet
  <1>7. ASSUME p.iface = i, p.mac \in Macs PROVE Gives(tt, Concat(h), p, Over)
    <2> DEFINE y == p.mac
    <2>1. y \in Macs /\ Gives(tt, h[y], p, Over) /\ \A m \in Macs : Gives(tt, h[m], p, Over \cup Open)
      BY <1>3, <1>4, <1>7
    <2> HIDE DEF y
    <2> QED BY <1>0, <1>4, <2>1, GivesEachTo, OpenLet
  <1> QED BY <1>5, <1>6, <1>7 DEF g, h, o, MacRoute, MacBypass

\* Tun's rules for interfaces: they let go what is left to itself, and leave alone what
\* the list of clients says nothing of.
LEMMA GivesTunPorts ==
    ASSUME NEW tt, NEW p, IsPacket(p), NEW s
    PROVE  /\ LeftPort(s, p) => Gives(tt, TunInterfacePolicy(s), p, Over)
           /\ ~(s.mac_filter /\ p.iface \in ApInterfaces) => Gives(tt, TunInterfacePolicy(s), p, Let)
  <1> DEFINE oi(i) == [i |-> i]
             b == [i \in BlockedInterfaces |-> MarkReturn(oi(i), "TUN_BYPASS")]
             blocked == Concat(b)
             port(i) == IF s.mac_mode = "whitelist" THEN MacRoute(i) \o MarkReturn(oi(i), "TUN_BYPASS")
                        ELSE MacBypass(i) \o Mark(oi(i), "TUN_ROUTE")
             g == [i \in ApInterfaces |-> port(i)]
             each == Concat(g)
             end == Return([mark |-> "TUN_BYPASS"])
             rest == When(s.mac_filter, each \o end)
  <1>0. IsFiniteSet(ApInterfaces) /\ IsFiniteSet(BlockedInterfaces)
    BY ListsAssumption
  <1>1. TunInterfacePolicy(s) = blocked \o rest
    BY DEF TunInterfacePolicy, ForEach, MacRoute, MacBypass
  <1>2. \A i : (p.iface # i => Off(p, oi(i))) /\ (p.iface = i => On(p, oi(i)))
    BY OnInterface
  <1> HIDE DEF oi
  <1>3. \A i : /\ Gives(tt, MarkReturn(oi(i), "TUN_BYPASS"), p, Let)
               /\ p.iface = i => Gives(tt, MarkReturn(oi(i), "TUN_BYPASS"), p, Over)
               /\ p.iface # i => Gives(tt, MarkReturn(oi(i), "TUN_BYPASS"), p, Open)
    BY <1>2, GivesMarkReturn
  <1>4. \A i : p.iface # i => Gives(tt, Mark(oi(i), "TUN_ROUTE"), p, Open)
    BY <1>2, GivesOff DEF Mark
  <1>5. DOMAIN b = BlockedInterfaces /\ \A i \in BlockedInterfaces : b[i] = MarkReturn(oi(i), "TUN_BYPASS")
    OBVIOUS
  <1> HIDE DEF b
  <1>6. Gives(tt, blocked, p, Let)
    BY <1>0, <1>3, <1>5, GivesEach, OpenLet
  <1>7. ASSUME p.iface \in BlockedInterfaces PROVE Gives(tt, blocked, p, Over)
    <2> DEFINE y == p.iface
    <2>1. y \in BlockedInterfaces /\ Gives(tt, b[y], p, Over)
          /\ \A i \in BlockedInterfaces : Gives(tt, b[i], p, Over \cup Open)
      BY <1>3, <1>5, <1>7, OpenLet
    <2> HIDE DEF y
    <2> QED BY <1>0, <1>5, <2>1, GivesEachTo, OpenLet
  <1>8. ASSUME NEW i
        PROVE  /\ IsSeq(port(i))
               /\ p.iface # i => Gives(tt, port(i), p, Open)
               /\ p.iface = i /\ LeftClient(s, p) => Gives(tt, port(i), p, Over)
    <2>0. IsSeq(MarkReturn(oi(i), "TUN_BYPASS")) /\ IsSeq(Mark(oi(i), "TUN_ROUTE"))
      BY MarkSeq
    <2>1. /\ IsSeq(MacRoute(i)) /\ IsSeq(MacBypass(i))
          /\ p.iface # i \/ p.mac \notin Macs
               => Gives(tt, MacRoute(i), p, Open) /\ Gives(tt, MacBypass(i), p, Open)
          /\ p.iface = i /\ p.mac \in Macs => Gives(tt, MacBypass(i), p, Over)
      BY GivesTunMacs
    <2>2. IsSeq(MacRoute(i) \o MarkReturn(oi(i), "TUN_BYPASS")) /\ IsSeq(MacBypass(i) \o Mark(oi(i), "TUN_ROUTE"))
      BY <2>0, <2>1, JoinSeq
    <2>3. ASSUME p.iface # i
          PROVE  /\ Gives(tt, MacRoute(i) \o MarkReturn(oi(i), "TUN_BYPASS"), p, Open)
                 /\ Gives(tt, MacBypass(i) \o Mark(oi(i), "TUN_ROUTE"), p, Open)
      BY <1>3, <1>4, <2>1, <2>3, GivesBoth
    <2>4. ASSUME p.iface = i, p.mac \notin Macs
          PROVE  Gives(tt, MacRoute(i) \o MarkReturn(oi(i), "TUN_BYPASS"), p, Over)
      <3>1. Gives(tt, MacRoute(i), p, Over \cup Open)
        BY <2>1, <2>4, GivesWider, OpenLet
      <3> QED BY <1>3, <2>4, <3>1, GivesLast
    <2>5. ASSUME p.iface = i, p.mac \in Macs
          PROVE  Gives(tt, MacBypass(i) \o Mark(oi(i), "TUN_ROUTE"), p, Over)
      BY <2>0, <2>1, <2>5, GivesFirst, OpenLet
    <2> QED BY <2>2, <2>3, <2>4, <2>5 DEF LeftClient
  <1> HIDE DEF port
  <1>9. DOMAIN g = ApInterfaces /\ \A i \in ApInterfaces : g[i] = port(i)
    OBVIOUS
  <1> HIDE DEF g
  <1>10. IsSeq(each)
    BY <1>0, <1>8, <1>9, EachSeq
  <1>11. Gives(tt, end, p, Let)
    BY GivesReturn
  <1>12. IsSeq(end) /\ IsSeq(blocked)
    BY <1>6, <1>11 DEF Gives, Goes
  <1>13. ASSUME LeftClient(s, p) PROVE Gives(tt, each, p, Over)
    <2> DEFINE y == p.iface
    <2>1. y \in ApInterfaces /\ Gives(tt, g[y], p, Over)
      BY <1>8, <1>9, <1>13 DEF LeftClient
    <2>2. ASSUME NEW i \in ApInterfaces PROVE Gives(tt, g[i], p, Over \cup Open)
      <3>1. CASE p.iface = i
        <4>1. Gives(tt, port(i), p, Over)
          BY <1>8, <1>13, <3>1
        <4> QED BY <1>9, <4>1, GivesWider
      <3>2. CASE p.iface # i
        <4>1. Gives(tt, port(i), p, Open)
          BY <1>8, <3>2
        <4> QED BY <1>9, <4>1, GivesWider
      <3> QED BY <3>1, <3>2
    <2> HIDE DEF y
    <2> QED BY <1>0, <1>9, <2>1, <2>2, GivesEachTo, OpenLet
  <1>14. ASSUME p.iface \notin ApInterfaces PROVE Gives(tt, each, p, Let)
    <2>1. \A i \in ApInterfaces : Gives(tt, g[i], p, Open)
      BY <1>8, <1>9, <1>14
    <2>2. Gives(tt, each, p, Open)
      BY <1>0, <1>9, <2>1, GivesEach, OpenLet
    <2> QED BY <2>2, GivesWider, OpenLet
  <1> HIDE DEF each, end
  <1>15. IsSeq(rest)
    <2>1. IsSeq(each \o end)
      BY <1>10, <1>12, JoinSeq
    <2> QED BY <2>1, WhenSeq
  <1>16. LeftClient(s, p) => Gives(tt, rest, p, Over)
    <2>1. LeftClient(s, p) => Gives(tt, each \o end, p, Over)
      BY <1>12, <1>13, GivesFirst, OpenLet
    <2> QED BY <2>1 DEF LeftClient, When
  <1>17. ASSUME ~(s.mac_filter /\ p.iface \in ApInterfaces) PROVE Gives(tt, rest, p, Let)
    <2>1. s.mac_filter => Gives(tt, each \o end, p, Let)
      BY <1>11, <1>14, <1>17, GivesBoth
    <2> QED BY <2>1, GivesWhen, OpenLet
  <1> HIDE DEF rest, blocked
  <1>18. LeftPort(s, p) => Gives(tt, blocked \o rest, p, Over)
    <2>1. p.iface \in BlockedInterfaces => Gives(tt, blocked \o rest, p, Over)
      BY <1>7, <1>15, GivesFirst, OpenLet
    <2>2. LeftClient(s, p) => Gives(tt, blocked \o rest, p, Over)
      BY <1>6, <1>16, GivesLast, OpenLet
    <2> QED BY <2>1, <2>2 DEF LeftPort
  <1>19. ~(s.mac_filter /\ p.iface \in ApInterfaces) => Gives(tt, blocked \o rest, p, Let)
    BY <1>6, <1>17, GivesBoth
  <1> QED BY <1>1, <1>18, <1>19

\* Tun's rules for destinations: China's addresses are marked to bypass, and what is
\* marked so returns before the mark that routes to tun.
LEMMA GivesTunDest ==
    ASSUME NEW tt, NEW p, IsPacket(p), NEW s, "fake" \notin p.to,
           "subnet" \in p.to \/ ("cn" \in p.to /\ CnipMatcher(s))
    PROVE  Gives(tt, TunBypassDestination(s), p, Let)
  <1> DEFINE a == When(s.fake_ip, MarkReturn([d |-> "fake"], "TUN_ROUTE"))
             b == Return([d |-> "subnet"])
             e == When(CnipMatcher(s), Mark([d |-> "cn"], "TUN_BYPASS"))
             r == Return([mark |-> "TUN_BYPASS"])
             z == Mark(<<>>, "TUN_ROUTE")
             M == {Put(p, {25}, p.cmark, "CONTINUE", "none")}
  <1>1. TunBypassDestination(s) = a \o b \o e \o r \o z
    BY DEF TunBypassDestination
  <1>2. Gives(tt, a, p, Let)
    <2>1. Off(p, [d |-> "fake"])
      BY OnDest
    <2>2. Gives(tt, MarkReturn([d |-> "fake"], "TUN_ROUTE"), p, Open)
      <3> DEFINE on == [d |-> "fake"]
      <3> HIDE DEF on
      <3>1. Off(p, on)
        BY <2>1 DEF on
      <3>2. Gives(tt, Mark(on, "TUN_ROUTE"), p, Open) /\ Gives(tt, Return(on), p, Open)
        BY <3>1, GivesOff DEF Mark, Return
      <3>3. Gives(tt, MarkReturn(on, "TUN_ROUTE"), p, Open)
        BY <3>2, GivesBoth DEF MarkReturn
      <3> QED BY <3>3 DEF on
    <2> QED BY <2>2, GivesWhen, GivesWider, OpenLet
  <1>3. Gives(tt, b, p, Let) /\ ("subnet" \in p.to => Gives(tt, b, p, Over))
    BY GivesReturn, OnDest
  <1>4. Gives(tt, e, p, Let)
    <2>1. Gives(tt, Mark([d |-> "cn"], "TUN_BYPASS"), p, Let)
      BY GivesBypass, GivesWider, OpenLet
    <2> QED BY <2>1, GivesWhen, OpenLet
  <1>5. IsSeq(e) /\ IsSeq(r) /\ IsSeq(z)
    BY <1>4, MarkSeq DEF Gives, Goes
  <1>6. ASSUME "cn" \in p.to, CnipMatcher(s) PROVE Goes(tt, e, Kept(p, Open), M)
    <2> DEFINE on == [d |-> "cn"]
               q(m) == Put(p, m, p.cmark, "CONTINUE", "none")
    <2>1. On(p, on)
      BY <1>6, OnDest
    <2> HIDE DEF on
    <2>2. ASSUME NEW m \in {{}, {25}} PROVE AfterMiddle(tt, One(on, "MARK", "TUN_BYPASS"), q(m)) \in M
      <3>1. Matches(q(m), on)
        BY <2>1, OnOff
      <3>2. AfterMiddle(tt, One(on, "MARK", "TUN_BYPASS"), q(m)) = q(m \cup Bits("TUN_BYPASS"))
        BY <3>1, PutMarks
      <3>3. m \cup Bits("TUN_BYPASS") = {25}
        BY DEF Bits
      <3> QED BY <3>2, <3>3
    <2> HIDE DEF M
    <2>3. \A x \in Kept(p, Open) : AfterMiddle(tt, One(on, "MARK", "TUN_BYPASS"), x) \in M
      BY <2>2 DEF Kept, Open
    <2>4. Goes(tt, Mark(on, "TUN_BYPASS"), Kept(p, Open), M)
      BY <2>3, GoesRule DEF Mark, One
    <2> QED BY <1>6, <2>4 DEF on, When
  <1>7. Goes(tt, r, M, Kept(p, Over))
    <2> DEFINE on == [mark |-> "TUN_BYPASS"]
               q == Put(p, {25}, p.cmark, "CONTINUE", "none")
    <2>1. DOMAIN on = {"mark"} /\ on["mark"] = "TUN_BYPASS"
      OBVIOUS
    <2>2. q.mark = {25} /\ Bits("TUN_BYPASS") = {25}
      BY PutIs DEF Bits
    <2> HIDE DEF q
    <2>3. Meets(q, "mark", "TUN_BYPASS")
      BY <2>2 DEF Meets
    <2> HIDE DEF on
    <2>4. Matches(q, on)
      BY <2>1, <2>3 DEF Matches
    <2>5. AfterMiddle(tt, One(on, "RETURN", "none"), q) = Put(p, {25}, p.cmark, "RETURN", "none")
      BY <2>4, PutEnds DEF q
    <2>6. Put(p, {25}, p.cmark, "RETURN", "none") \in Kept(p, Over)
      BY DEF Kept, Over
    <2>7. Goes(tt, Return(on), {q}, Kept(p, Over))
      BY <2>5, <2>6, GoesRule DEF Return, One
    <2> QED BY <2>7 DEF on, q
  <1> HIDE DEF a, b, e, r, z, M
  <1>8. Gives(tt, a \o b, p, Let)
    BY <1>2, <1>3, GivesBoth
  <1>9. CASE "subnet" \in p.to
    <2>1. Gives(tt, a \o b, p, Over)
      BY <1>2, <1>3, <1>9, GivesLast, OpenLet
    <2>2. Gives(tt, a \o b \o e, p, Over)
      BY <1>5, <2>1, GivesFirst, OpenLet
    <2>3. Gives(tt, a \o b \o e \o r, p, Over)
      BY <1>5, <2>2, GivesFirst, OpenLet
    <2>4. Gives(tt, a \o b \o e \o r \o z, p, Over)
      BY <1>5, <2>3, GivesFirst, OpenLet
    <2> QED BY <1>1, <2>4, GivesWider, OpenLet
  <1>10. CASE "cn" \in p.to /\ CnipMatcher(s)
    <2>1. Goes(tt, e, Kept(p, Open), M) /\ Goes(tt, a \o b, Kept(p, Open), Kept(p, Let))
      BY <1>6, <1>8, <1>10 DEF Gives
    <2>2. Goes(tt, e, Kept(p, Over), Kept(p, Over)) /\ Goes(tt, r, Kept(p, Over), Kept(p, Over))
          /\ Goes(tt, z, Kept(p, Over), Kept(p, Over))
      BY <1>5, KeptEnded, OpenLet
    <2>3. Goes(tt, e, Kept(p, Over) \cup Kept(p, Open), Kept(p, Over) \cup M)
      BY <2>1, <2>2, GoesBoth
    <2>4. Kept(p, Over) \cup Kept(p, Open) = Kept(p, Let)
      BY KeptUnion, OpenLet
    <2>5. Goes(tt, a \o b \o e, Kept(p, Open), Kept(p, Over) \cup M)
      BY <2>1, <2>3, <2>4, GoesJoin
    <2>6. Goes(tt, r, Kept(p, Over) \cup M, Kept(p, Over) \cup Kept(p, Over))
      BY <1>7, <2>2, GoesBoth
    <2>7. Kept(p, Over) \cup Kept(p, Over) = Kept(p, Over)
      OBVIOUS
    <2>8. Goes(tt, a \o b \o e \o r, Kept(p, Open), Kept(p, Over))
      BY <2>5, <2>6, <2>7, GoesJoin
    <2>9. Goes(tt, a \o b \o e \o r \o z, Kept(p, Open), Kept(p, Over))
      BY <2>2, <2>8, GoesJoin
    <2>10. Gives(tt, TunBypassDestination(s), p, Over)
      BY <1>1, <2>9 DEF Gives
    <2> QED BY <2>10, GivesWider, OpenLet
  <1> QED BY <1>9, <1>10

-----------------------------------------------------------------------------
(* Whole chains, for the packets they let go. *)

\* How the parts of a chain are put together here: neither ends the walk for sure, the
\* second one does, the first one does.
LEMMA GivesParts ==
    ASSUME NEW tt, NEW p, IsPacket(p), NEW a, NEW b
    PROVE  /\ Gives(tt, a, p, Let) /\ Gives(tt, b, p, Let) => Gives(tt, a \o b, p, Let)
           /\ Gives(tt, a, p, Let) /\ Gives(tt, b, p, Over) => Gives(tt, a \o b, p, Over)
           /\ Gives(tt, a, p, Over) /\ IsSeq(b) => Gives(tt, a \o b, p, Over)
           /\ Gives(tt, a, p, Over) \/ Gives(tt, a, p, Open) => Gives(tt, a, p, Let)
  <1>1. ASSUME Gives(tt, a, p, Let), Gives(tt, b, p, Let) PROVE Gives(tt, a \o b, p, Let)
    BY <1>1, GivesBoth
  <1>2. ASSUME Gives(tt, a, p, Let), Gives(tt, b, p, Over) PROVE Gives(tt, a \o b, p, Over)
    <2>1. Gives(tt, a, p, Over \cup Open)
      BY <1>2, OpenLet
    <2> QED BY <1>2, <2>1, GivesLast
  <1>3. ASSUME Gives(tt, a, p, Over), IsSeq(b) PROVE Gives(tt, a \o b, p, Over)
    BY <1>3, GivesFirst, OpenLet
  <1>4. ASSUME Gives(tt, a, p, Over) \/ Gives(tt, a, p, Open) PROVE Gives(tt, a, p, Let)
    BY <1>4, GivesWider, OpenLet
  <1> QED BY <1>1, <1>2, <1>3, <1>4

LEMMA GivesRedirectLocal ==
    ASSUME NEW tt, NEW p, IsPacket(p), p.dport # "53", NEW s, Finite(s),
           s.owner \in {"both", "uid", "gid", "none"},
           tt["LOCAL_IP"] = LocalIpChain("nat_local_ip"), Unforced(s, p),
           Spared(s, p, "nat_local_ip") \/ LeftApp(s, p)
    PROVE  Gives(tt, RedirectLocal(s), p, Let)
  <1> DEFINE tcp == Protos(s) \cap {"tcp"}
             a == SetupLocalChainCommon(s)
             b == ReplyBypass(s)
             d == CnipForce(s, tcp, "Redirect")
             e == CommonBypass(s)
             g == LocalProxyRules(s, tcp, "Redirect")
  <1>0. tcp \in SUBSET {"tcp", "udp"}
    OBVIOUS
  <1>1. Gives(tt, a, p, Let) /\ Gives(tt, b, p, Let)
    BY GivesStart
  <1> HIDE DEF tcp
  <1>2. Gives(tt, d, p, Let)
    BY <1>0, GivesForce, GivesParts DEF Actions
  <1>3. Gives(tt, e, p, Let) /\ (Spared(s, p, "nat_local_ip") => Gives(tt, e, p, Over))
    BY GivesCommonBypass
  <1>4. IsSeq(g) /\ (LeftApp(s, p) => Gives(tt, g, p, Let))
    BY <1>0, GivesLeftApp, LocalProxyRulesSeq
  <1> HIDE DEF a, b, d, e, g
  <1>5. Gives(tt, a \o b \o d, p, Let)
    <2>1. Gives(tt, a \o b, p, Let)
      BY <1>1, GivesParts
    <2> QED BY <1>2, <2>1, GivesParts
  <1>6. Gives(tt, a \o b \o d \o e, p, Let)
    BY <1>3, <1>5, GivesParts
  <1>7. ASSUME Spared(s, p, "nat_local_ip") PROVE Gives(tt, a \o b \o d \o e \o g, p, Let)
    <2>1. Gives(tt, a \o b \o d \o e, p, Over)
      BY <1>3, <1>5, <1>7, GivesParts
    <2>2. Gives(tt, a \o b \o d \o e \o g, p, Over)
      BY <1>4, <2>1, GivesParts
    <2> QED BY <2>2, GivesParts
  <1>8. ASSUME LeftApp(s, p) PROVE Gives(tt, a \o b \o d \o e \o g, p, Let)
    BY <1>4, <1>6, <1>8, GivesParts
  <1> QED BY <1>7, <1>8 DEF RedirectLocal, a, b, d, e, g, tcp

LEMMA GivesTproxyLocal ==
    ASSUME NEW tt, NEW p, IsPacket(p), p.dport # "53", NEW s, Finite(s),
           s.owner \in {"both", "uid", "gid", "none"},
           tt["LOCAL_IP"] = LocalIpChain("mangle_local_ip"), Unforced(s, p),
           "fake" \in p.to => s.family # "V6",
           Spared(s, p, "mangle_local_ip") \/ LeftApp(s, p)
    PROVE  Gives(tt, TproxyLocal(s), p, Let)
  <1> DEFINE mp == MangleProtos(s)
             a == SetupLocalChainCommon(s)
             b == ReplyBypass(s)
             k == MangleDns(s, DnsMark(s))
             v == FakeIp6(s, "Mark")
             d == CnipForce(s, mp, "MarkReturn")
             e == CommonBypass(s)
             g == LocalProxyRules(s, mp, "Mark")
  <1>0. mp \in SUBSET {"tcp", "udp"}
    BY ProtoSets
  <1>1. Gives(tt, a, p, Let) /\ Gives(tt, b, p, Let)
    BY GivesStart
  <1>1a. Gives(tt, k, p, Let) /\ Gives(tt, v, p, Let)
    BY GivesDns, GivesFake6, GivesParts
  <1> HIDE DEF mp
  <1>2. Gives(tt, d, p, Let)
    BY <1>0, GivesForce, GivesParts DEF Actions
  <1>3. Gives(tt, e, p, Let) /\ (Spared(s, p, "mangle_local_ip") => Gives(tt, e, p, Over))
    BY GivesCommonBypass
  <1>4. IsSeq(g) /\ (LeftApp(s, p) => Gives(tt, g, p, Let))
    BY <1>0, GivesLeftApp, LocalProxyRulesSeq
  <1> HIDE DEF a, b, d, e, g, k, v
  <1>5. Gives(tt, a \o b \o k \o v \o d, p, Let)
    <2>1. Gives(tt, a \o b, p, Let)
      BY <1>1, GivesParts
    <2>2. Gives(tt, a \o b \o k, p, Let)
      BY <1>1a, <2>1, GivesParts
    <2>3. Gives(tt, a \o b \o k \o v, p, Let)
      BY <1>1a, <2>2, GivesParts
    <2> QED BY <1>2, <2>3, GivesParts
  <1>6. Gives(tt, a \o b \o k \o v \o d \o e, p, Let)
    BY <1>3, <1>5, GivesParts
  <1>7. ASSUME Spared(s, p, "mangle_local_ip") PROVE Gives(tt, a \o b \o k \o v \o d \o e \o g, p, Let)
    <2>1. Gives(tt, a \o b \o k \o v \o d \o e, p, Over)
      BY <1>3, <1>5, <1>7, GivesParts
    <2>2. Gives(tt, a \o b \o k \o v \o d \o e \o g, p, Over)
      BY <1>4, <2>1, GivesParts
    <2> QED BY <2>2, GivesParts
  <1>8. ASSUME LeftApp(s, p) PROVE Gives(tt, a \o b \o k \o v \o d \o e \o g, p, Let)
    BY <1>4, <1>6, <1>8, GivesParts
  <1> QED BY <1>7, <1>8 DEF TproxyLocal, a, b, d, e, g, k, v, mp

\* Of a connection's packets, performance mode's chains take the first ones for what
\* they are and the later ones for what they remember.
Opening(p) == p.new = TRUE => (p.proto = "tcp" => p.syn = TRUE)
\* A destination performance mode's and tun's chains let go.
Away(s, p) == "subnet" \in p.to \/ ("cn" \in p.to /\ CnipMatcher(s))

LEMMA GivesPerf ==
    ASSUME NEW tt, NEW p, IsPacket(p), p.dport # "53", NEW s, 24 \notin p.cmark, Opening(p),
           NEW ip, NEW ch, tt[ip] = PerfDest(s), Jumpless(tt[ch]), Gives(tt, tt[ch], p, Let),
           Away(s, p) \/ Gives(tt, tt[ch], p, {"ACCEPT"}),
           NEW k, Gives(tt, k, p, Let), NEW action \in {"Tproxy", "Mark"}
    PROVE  /\ IsSeq(PerfConnmark(s)) /\ IsSeq(PerfDispatch(s, action))
           /\ Gives(tt, PerfDispatch(s, action), p, Let)
           /\ Gives(tt, PerfJumps(s, <<ip, ch>>), p, Let)
           /\ \/ Gives(tt, PerfJumps(s, <<ip, ch>>), p, Over)
              \/ Gives(tt, PerfConnmark(s), p, Let)
  <1>1. /\ Jumpless(tt[ip]) /\ Gives(tt, tt[ip], p, Let)
        /\ Away(s, p) => Gives(tt, tt[ip], p, {"ACCEPT"})
    <2>1. {"CONTINUE", "ACCEPT"} \subseteq Let
      BY DEF Let
    <2> QED BY <2>1, GivesPerfDest, GivesWider DEF Away
  <1>2. IsSeq(PerfConnmark(s)) /\ IsSeq(PerfDispatch(s, action)) /\ Gives(tt, PerfDispatch(s, action), p, Let)
    BY GivesPerfEnd, PerfSeq
  <1>3. Gives(tt, PerfJumps(s, <<ip, ch>>), p, Let) /\ (First(s, p) => Gives(tt, PerfJumps(s, <<ip, ch>>), p, Over))
    BY <1>1, GivesPerfJumps
  <1>4. ~First(s, p) => Gives(tt, PerfConnmark(s), p, Let)
    BY GivesPerfEnd DEF First, Opening
  <1> QED BY <1>2, <1>3, <1>4

LEMMA GivesPerfLocal ==
    ASSUME NEW tt, NEW p, IsPacket(p), p.dport # "53", NEW s, Finite(s),
           s.owner \in {"both", "uid", "gid", "none"}, 24 \notin p.cmark, Opening(p),
           tt["BOX_TP_OUT_IP"] = PerfDest(s), tt["BOX_TP_OUT_APP"] = PerfOutApp(s),
           Unforced(s, p), "fake" \in p.to => s.family # "V6",
           Away(s, p) \/ LeftApp(s, p)
    PROVE  Gives(tt, PerfLocal(s), p, Let)
  <1> DEFINE mp == MangleProtos(s)
             a == SetupLocalChainCommon(s)
             b == ReplyBypass(s)
             v == FakeIp6(s, "Mark")
             d == CnipForce(s, mp, "MarkReturn")
             j == PerfJumps(s, <<"BOX_TP_OUT_IP", "BOX_TP_OUT_APP">>)
             k == MangleDns(s, DnsMark(s))
             n == PerfConnmark(s)
             z == PerfDispatch(s, "Mark")
  <1>0. mp \in SUBSET {"tcp", "udp"}
    BY ProtoSets
  <1>1. Gives(tt, a, p, Let) /\ Gives(tt, b, p, Let)
    BY GivesStart
  <1>2. Gives(tt, v, p, Let) /\ Gives(tt, k, p, Let) /\ IsSeq(k)
    BY GivesDns, GivesFake6, GivesParts, DnsSeq
  <1> HIDE DEF mp
  <1>3. Gives(tt, d, p, Let)
    BY <1>0, GivesForce, GivesParts DEF Actions
  <1> HIDE DEF k
  <1>4. /\ IsSeq(n) /\ IsSeq(z) /\ Gives(tt, z, p, Let) /\ Gives(tt, j, p, Let)
        /\ Gives(tt, j, p, Over) \/ Gives(tt, n, p, Let)
    <2>1. /\ Jumpless(tt["BOX_TP_OUT_APP"]) /\ Gives(tt, tt["BOX_TP_OUT_APP"], p, Let)
          /\ Away(s, p) \/ Gives(tt, tt["BOX_TP_OUT_APP"], p, {"ACCEPT"})
      BY GivesPerfApp
    <2> QED BY <1>2, <2>1, GivesPerf
  <1> HIDE DEF a, b, v, d, j, n, z
  <1>5. Gives(tt, a \o b \o v \o d, p, Let)
    <2>1. Gives(tt, a \o b, p, Let)
      BY <1>1, GivesParts
    <2>2. Gives(tt, a \o b \o v, p, Let)
      BY <1>2, <2>1, GivesParts
    <2> QED BY <1>3, <2>2, GivesParts
  <1>6. ASSUME Gives(tt, n, p, Let) PROVE Gives(tt, a \o b \o v \o d \o j \o k \o n \o z, p, Let)
    <2>1. Gives(tt, a \o b \o v \o d \o j, p, Let)
      BY <1>4, <1>5, GivesParts
    <2>2. Gives(tt, a \o b \o v \o d \o j \o k, p, Let)
      BY <1>2, <2>1, GivesParts
    <2>3. Gives(tt, a \o b \o v \o d \o j \o k \o n, p, Let)
      BY <1>6, <2>2, GivesParts
    <2> QED BY <1>4, <2>3, GivesParts
  <1>7. ASSUME Gives(tt, j, p, Over) PROVE Gives(tt, a \o b \o v \o d \o j \o k \o n \o z, p, Let)
    <2>1. Gives(tt, a \o b \o v \o d \o j, p, Over)
      BY <1>5, <1>7, GivesParts
    <2>2. Gives(tt, a \o b \o v \o d \o j \o k, p, Over)
      BY <1>2, <2>1, GivesParts
    <2>3. Gives(tt, a \o b \o v \o d \o j \o k \o n, p, Over)
      BY <1>4, <2>2, GivesParts
    <2>4. Gives(tt, a \o b \o v \o d \o j \o k \o n \o z, p, Over)
      BY <1>4, <2>3, GivesParts
    <2> QED BY <2>4, GivesParts
  <1> QED BY <1>4, <1>6, <1>7 DEF PerfLocal, a, b, v, d, j, k, n, z, mp

\* The chains for packets that come in.
LEMMA GivesRedirectExternal ==
    ASSUME NEW tt, NEW p, IsPacket(p), p.dport # "53", NEW s, s.owner \in {"both", "uid", "gid", "none"},
           tt["LOCAL_IP"] = LocalIpChain("nat_local_ip"),
           Spared(s, p, "nat_local_ip") \/ (LeftPort(s, p) /\ p.iface # "lo")
    PROVE  Gives(tt, RedirectExternal(s), p, Let)
  <1> DEFINE tcp == Protos(s) \cap {"tcp"}
  <1>1. tcp \in SUBSET {"tcp", "udp"}
    OBVIOUS
  <1> HIDE DEF tcp
  <1>2. Gives(tt, ExternalTail(s, tcp, TRUE, "Redirect"), p, Let)
    BY <1>1, GivesTail
  <1>3. Gives(tt, ReplyBypass(s), p, Let)
    BY GivesStart
  <1> QED BY <1>2, <1>3, GivesParts DEF RedirectExternal, tcp

LEMMA GivesTproxyExternal ==
    ASSUME NEW tt, NEW p, IsPacket(p), p.dport # "53", NEW s, s.owner \in {"both", "uid", "gid", "none"},
           tt["LOCAL_IP"] = LocalIpChain("mangle_local_ip"), "fake" \in p.to => s.family # "V6",
           Spared(s, p, "mangle_local_ip") \/ (LeftPort(s, p) /\ p.iface # "lo")
    PROVE  Gives(tt, TproxyExternal(s), p, Let)
  <1> DEFINE b == ReplyBypass(s)
             k == MangleDns(s, DnsTproxy(s))
             v == FakeIp6(s, "Tproxy")
             x == ExternalTail(s, MangleProtos(s), FALSE, "Tproxy")
  <1>1. MangleProtos(s) \in SUBSET {"tcp", "udp"}
    BY ProtoSets
  <1>2. Gives(tt, x, p, Let)
    BY <1>1, GivesTail
  <1>3. Gives(tt, b, p, Let)
    BY GivesStart
  <1>4. Gives(tt, k, p, Let) /\ Gives(tt, v, p, Let)
    BY GivesDns, GivesFake6, GivesParts
  <1> HIDE DEF b, k, v, x
  <1>5. Gives(tt, b \o k, p, Let)
    BY <1>3, <1>4, GivesParts
  <1>6. Gives(tt, b \o k \o v, p, Let)
    BY <1>4, <1>5, GivesParts
  <1>7. Gives(tt, b \o k \o v \o x, p, Let)
    BY <1>2, <1>6, GivesParts
  <1> QED BY <1>7 DEF b, k, v, x, TproxyExternal

LEMMA GivesPerfExternal ==
    ASSUME NEW tt, NEW p, IsPacket(p), p.dport # "53", NEW s, s.owner \in {"both", "uid", "gid", "none"},
           24 \notin p.cmark, Opening(p),
           tt["BOX_TP_PRE_IP"] = PerfDest(s), tt["BOX_TP_PRE_IF"] = PerfPreIf(s),
           "fake" \in p.to => s.family # "V6",
           Away(s, p) \/ (LeftPort(s, p) /\ p.iface # "lo")
    PROVE  Gives(tt, PerfExternal(s), p, Let)
  <1> DEFINE b == ReplyBypass(s)
             k == MangleDns(s, DnsTproxy(s))
             v == FakeIp6(s, "Tproxy")
             j == PerfJumps(s, <<"BOX_TP_PRE_IP", "BOX_TP_PRE_IF">>)
             n == PerfConnmark(s)
             z == PerfDispatch(s, "Tproxy")
  <1>1. Gives(tt, b, p, Let)
    BY GivesStart
  <1>2. Gives(tt, k, p, Let) /\ Gives(tt, v, p, Let)
    BY GivesDns, GivesFake6, GivesParts
  <1> HIDE DEF k
  <1>3. /\ IsSeq(n) /\ IsSeq(z) /\ Gives(tt, z, p, Let) /\ Gives(tt, j, p, Let)
        /\ Gives(tt, j, p, Over) \/ Gives(tt, n, p, Let)
    <2>1. /\ Jumpless(tt["BOX_TP_PRE_IF"]) /\ Gives(tt, tt["BOX_TP_PRE_IF"], p, Let)
          /\ Away(s, p) \/ Gives(tt, tt["BOX_TP_PRE_IF"], p, {"ACCEPT"})
      BY GivesPreIf
    <2> QED BY <1>2, <2>1, GivesPerf
  <1> HIDE DEF b, v, j, n, z
  <1>4. Gives(tt, b \o k \o v, p, Let)
    <2>1. Gives(tt, b \o k, p, Let)
      BY <1>1, <1>2, GivesParts
    <2> QED BY <1>2, <2>1, GivesParts
  <1>5. ASSUME Gives(tt, n, p, Let) PROVE Gives(tt, b \o k \o v \o j \o n \o z, p, Let)
    <2>1. Gives(tt, b \o k \o v \o j, p, Let)
      BY <1>3, <1>4, GivesParts
    <2>2. Gives(tt, b \o k \o v \o j \o n, p, Let)
      BY <1>5, <2>1, GivesParts
    <2> QED BY <1>3, <2>2, GivesParts
  <1>6. ASSUME Gives(tt, j, p, Over) PROVE Gives(tt, b \o k \o v \o j \o n \o z, p, Let)
    <2>1. Gives(tt, b \o k \o v \o j, p, Over)
      BY <1>4, <1>6, GivesParts
    <2>2. Gives(tt, b \o k \o v \o j \o n, p, Over)
      BY <1>3, <2>1, GivesParts
    <2>3. Gives(tt, b \o k \o v \o j \o n \o z, p, Over)
      BY <1>3, <2>2, GivesParts
    <2> QED BY <2>3, GivesParts
  <1> QED BY <1>3, <1>5, <1>6 DEF b, k, v, j, n, z, PerfExternal

\* Tun's chains and the nat table's for queries.
LEMMA GivesTun ==
    ASSUME NEW tt, NEW p, IsPacket(p), p.dport # "53", NEW s, Finite(s),
           s.owner \in {"both", "uid", "gid", "none"}
    PROVE  /\ \/ LeftPort(s, p)
              \/ "fake" \notin p.to /\ Away(s, p) /\ ~(s.mac_filter /\ p.iface \in ApInterfaces)
              => Gives(tt, TunPre(s), p, Let)
           /\ /\ Unforced(s, p)
              /\ \/ LeftApp(s, p)
                 \/ "fake" \notin p.to /\ Away(s, p) /\ ~(s.proxy_mode = "whitelist" /\ Named(s, p))
              => Gives(tt, TunOut(s), p, Let)
  <1> DEFINE r == Return([i |-> "tun"])
             w == TunInterfacePolicy(s)
             k == TunDns(s)
             e == TunBypassDestination(s)
             a == CoreBypass(s)
             d == CnipForce(s, Protos(s), "TunRoute")
             g == TunProxyMode(s)
  <1>1. Gives(tt, r, p, Let) /\ Gives(tt, a, p, Let)
    BY GivesStart, GivesReturn
  <1>2. Gives(tt, k, p, Let) /\ IsSeq(k) /\ IsSeq(e)
    BY GivesDns, GivesParts, TunOutSeq
  <1>3. /\ LeftPort(s, p) => Gives(tt, w, p, Over)
        /\ ~(s.mac_filter /\ p.iface \in ApInterfaces) => Gives(tt, w, p, Let)
    BY GivesTunPorts
  <1>4. "fake" \notin p.to /\ Away(s, p) => Gives(tt, e, p, Let)
    BY GivesTunDest DEF Away
  <1>5. Unforced(s, p) => Gives(tt, d, p, Let)
    <2>1. Protos(s) \in SUBSET {"tcp", "udp"}
      BY ProtoSets
    <2> QED BY <2>1, GivesForce, GivesParts DEF Actions
  <1>6. /\ ~(s.proxy_mode = "whitelist" /\ Named(s, p)) => Gives(tt, g, p, Let)
        /\ LeftApp(s, p) => Gives(tt, g, p, Over)
    BY GivesTunApp
  <1> HIDE DEF r, w, k, e, a, d, g
  <1>7. ASSUME LeftPort(s, p) PROVE Gives(tt, r \o w \o k \o e, p, Let)
    <2>1. Gives(tt, r \o w, p, Over)
      BY <1>1, <1>3, <1>7, GivesParts
    <2>2. Gives(tt, r \o w \o k, p, Over)
      BY <1>2, <2>1, GivesParts
    <2>3. Gives(tt, r \o w \o k \o e, p, Over)
      BY <1>2, <2>2, GivesParts
    <2> QED BY <2>3, GivesParts
  <1>8. ASSUME "fake" \notin p.to, Away(s, p), ~(s.mac_filter /\ p.iface \in ApInterfaces)
        PROVE  Gives(tt, r \o w \o k \o e, p, Let)
    <2>1. Gives(tt, r \o w, p, Let)
      BY <1>1, <1>3, <1>8, GivesParts
    <2>2. Gives(tt, r \o w \o k, p, Let)
      BY <1>2, <2>1, GivesParts
    <2> QED BY <1>4, <1>8, <2>2, GivesParts
  <1>9. ASSUME Unforced(s, p) PROVE Gives(tt, a \o k \o d, p, Let)
    <2>1. Gives(tt, a \o k, p, Let)
      BY <1>1, <1>2, GivesParts
    <2> QED BY <1>5, <1>9, <2>1, GivesParts
  <1>10. ASSUME Unforced(s, p), LeftApp(s, p) PROVE Gives(tt, a \o k \o d \o g \o e, p, Let)
    <2>1. Gives(tt, a \o k \o d \o g, p, Over)
      BY <1>6, <1>9, <1>10, GivesParts
    <2>2. Gives(tt, a \o k \o d \o g \o e, p, Over)
      BY <1>2, <2>1, GivesParts
    <2> QED BY <2>2, GivesParts
  <1>11. ASSUME Unforced(s, p), "fake" \notin p.to, Away(s, p), ~(s.proxy_mode = "whitelist" /\ Named(s, p))
         PROVE  Gives(tt, a \o k \o d \o g \o e, p, Let)
    <2>1. Gives(tt, a \o k \o d \o g, p, Let)
      BY <1>6, <1>9, <1>11, GivesParts
    <2> QED BY <1>4, <1>11, <2>1, GivesParts
  <1>12. TunPre(s) = r \o w \o k \o e /\ TunOut(s) = a \o k \o d \o g \o e
    BY DEF TunPre, TunOut, r, w, k, e, a, d, g
  <1> QED BY <1>7, <1>8, <1>10, <1>11, <1>12

LEMMA GivesNatDns ==
    ASSUME NEW tt, NEW p, IsPacket(p), p.dport # "53", NEW s,
           s.owner \in {"both", "uid", "gid", "none"}
    PROVE  Gives(tt, HijackPre(s), p, Let) /\ Gives(tt, HijackOut(s), p, Let) /\ Gives(tt, ForwardOut(s), p, Let)
  <1>1. DnsProtos(s) \in SUBSET {"tcp", "udp"} /\ DnsProtos(s) \cap {"udp"} \in SUBSET {"tcp", "udp"}
    BY ProtoSets
  <1>2. /\ Gives(tt, DnsNatRules(s, DnsProtos(s), TRUE), p, Let)
        /\ Gives(tt, DnsNatRules(s, DnsProtos(s), FALSE), p, Let)
        /\ Gives(tt, DnsNatRules(s, DnsProtos(s) \cap {"udp"}, TRUE), p, Let)
    BY <1>1, GivesDnsNat
  <1>3. Gives(tt, CoreBypass(s), p, Let)
    BY GivesStart
  <1> QED BY <1>2, <1>3, GivesParts DEF HijackPre, HijackOut, ForwardOut

-----------------------------------------------------------------------------
(* The tables, for the packets they let go. *)

LEMMA KeptOpen ==
    ASSUME NEW p, IsPacket(p), NEW q \in Kept(p, {"CONTINUE", "ACCEPT"})
    PROVE  /\ [q EXCEPT !.verdict = "CONTINUE"] \in Kept(p, Open)
           /\ q.verdict \in {"CONTINUE", "ACCEPT"} /\ q.cmark = p.cmark /\ q.reply = p.reply
           /\ q.iface = p.iface
           /\ ~Marked(q, "FWMARK") /\ \A dst : TunRoute(q, dst) = "direct"
  <1>1. PICK m \in {{}, {25}}, v \in {"CONTINUE", "ACCEPT"} : q = Put(p, m, p.cmark, v, "none")
    BY DEF Kept
  <1>2. q.mark = m /\ q.cmark = p.cmark /\ q.verdict = v /\ q.reply = p.reply /\ q.iface = p.iface
    BY <1>1, PutIs
  <1>3. [q EXCEPT !.verdict = "CONTINUE"] = Put(p, m, p.cmark, "CONTINUE", "none")
    BY <1>1 DEF Put, IsPacket
  <1>4. [q EXCEPT !.verdict = "CONTINUE"] \in Kept(p, Open)
    BY <1>3 DEF Kept, Open
  <1>5. Bits("FWMARK") = {24} /\ Bits("TUN_ROUTE") = {24, 25}
    BY DEF Bits
  <1>6. ~Marked(q, "FWMARK") /\ ~Marked(q, "TUN_ROUTE")
    BY <1>2, <1>5 DEF Marked
  <1>7. \A dst : TunRoute(q, dst) = "direct"
    BY <1>6 DEF TunRoute
  <1> QED BY <1>1, <1>2, <1>4, <1>6, <1>7

\* What the nat table may have answered an echo to an address that stands for a name.
Echoed(p) == {Put(p, m, p.cmark, "DNAT", "icmp") : m \in {{}, {25}}}

\* A rule of a chain of the system's: a jump to a chain that lets the packet go, one
\* that does not match it, or the one that answers echoes.
Lets(tt, r, p) == \/ r.target = "JUMP" /\ Gives(tt, tt[r.arg], p, Let)
                  \/ Off(p, r.on)
                  \/ r.target = "DNAT" /\ r.arg = "icmp"

LEMMA LetsStays ==
    ASSUME NEW tt, NEW p, IsPacket(p), NEW r, Lets(tt, r, p),
           NEW q \in Kept(p, {"CONTINUE", "ACCEPT"}) \cup Echoed(p)
    PROVE  /\ AfterOuter(tt, r, q) \in Kept(p, {"CONTINUE", "ACCEPT"}) \cup Echoed(p)
           /\ r.target = "JUMP" /\ q \in Kept(p, {"CONTINUE", "ACCEPT"})
                => AfterOuter(tt, r, q) \in Kept(p, {"CONTINUE", "ACCEPT"})
  <1>1. CASE q \in Echoed(p)
    <2>1. PICK m \in {{}, {25}} : q = Put(p, m, p.cmark, "DNAT", "icmp")
      BY <1>1 DEF Echoed
    <2>2. q.verdict = "DNAT"
      BY <2>1, PutIs
    <2>3. AfterOuter(tt, r, q) = q
      BY <2>2 DEF AfterOuter, After
    <2> QED BY <1>1, <2>3
  <1>2. CASE q \in Kept(p, {"CONTINUE", "ACCEPT"})
    <2>1. PICK m \in {{}, {25}}, v \in {"CONTINUE", "ACCEPT"} : q = Put(p, m, p.cmark, v, "none")
      BY <1>2 DEF Kept
    <2>2. q.verdict = v
      BY <2>1, PutIs
    <2>3. CASE v # "CONTINUE" \/ ~Matches(q, r.on)
      <3>1. AfterOuter(tt, r, q) = q
        BY <2>2, <2>3 DEF AfterOuter, After
      <3> QED BY <1>2, <3>1
    <2>4. CASE v = "CONTINUE" /\ Matches(q, r.on)
      <3>0. ~Off(p, r.on)
        BY <2>1, <2>4, OnOff
      <3>1. CASE r.target = "JUMP" /\ Gives(tt, tt[r.arg], p, Let)
        <4>1. AfterOuter(tt, r, q) = Left(Middle!Run(tt, tt[r.arg], q))
          BY <2>2, <2>4, <3>1 DEF AfterOuter, After
        <4>2. q \in Kept(p, Open)
          BY <2>1, <2>4 DEF Kept, Open
        <4>3. Middle!Run(tt, tt[r.arg], q) \in Kept(p, Let)
          BY <3>1, <4>2 DEF Gives, Goes
        <4>4. PICK n \in {{}, {25}}, w \in Let : Middle!Run(tt, tt[r.arg], q) = Put(p, n, p.cmark, w, "none")
          BY <4>3 DEF Kept
        <4>5. Left(Put(p, n, p.cmark, w, "none")) = Put(p, n, p.cmark, IF w = "RETURN" THEN "CONTINUE" ELSE w, "none")
          BY PutLeft
        <4>6. (IF w = "RETURN" THEN "CONTINUE" ELSE w) \in {"CONTINUE", "ACCEPT"}
          BY DEF Let
        <4> QED BY <4>1, <4>4, <4>5, <4>6 DEF Kept
      <3>2. CASE r.target = "DNAT" /\ r.arg = "icmp"
        <4>1. AfterOuter(tt, r, q) = [q EXCEPT !.verdict = "DNAT", !.port = "icmp"]
          BY <2>2, <2>4, <3>2 DEF AfterOuter, After
        <4>2. [q EXCEPT !.verdict = "DNAT", !.port = "icmp"] = Put(p, m, p.cmark, "DNAT", "icmp")
          BY <2>1 DEF Put, IsPacket
        <4> QED BY <3>2, <4>1, <4>2 DEF Echoed
      <3> QED BY <3>0, <3>1, <3>2 DEF Lets
    <2> QED BY <2>1, <2>3, <2>4
  <1> QED
    <2>1. \A x \in Echoed(p) : x \notin Kept(p, {"CONTINUE", "ACCEPT"})
      <3> SUFFICES ASSUME NEW x \in Echoed(p), x \in Kept(p, {"CONTINUE", "ACCEPT"}) PROVE FALSE
        OBVIOUS
      <3>1. PICK m \in {{}, {25}} : x = Put(p, m, p.cmark, "DNAT", "icmp")
        BY DEF Echoed
      <3>2. x.verdict = "DNAT"
        BY <3>1, PutIs
      <3> QED BY <3>2, KeptOpen
    <2> QED BY <1>1, <1>2, <2>1

LEMMA EchoedIs ==
    ASSUME NEW p, IsPacket(p), NEW q \in Echoed(p)
    PROVE  q.verdict = "DNAT" /\ q.port = "icmp"
  BY PutIs DEF Echoed

\* A walk over such rules, from a packet that another table has let go.
LEMMA WalkLets ==
    ASSUME NEW tt, NEW p, IsPacket(p), NEW name, IsSeq(tt[name]),
           \A i \in 1 .. Len(tt[name]) : Lets(tt, tt[name][i], p),
           NEW q \in Kept(p, {"CONTINUE", "ACCEPT"})
    PROVE  /\ Walk(tt, name, q) \in Kept(p, {"CONTINUE", "ACCEPT"}) \cup Echoed(p)
           /\ (\A i \in 1 .. Len(tt[name]) : tt[name][i].target = "JUMP")
                => Walk(tt, name, q) \in Kept(p, {"CONTINUE", "ACCEPT"})
  <1> DEFINE rules == tt[name]
             Q == Kept(p, {"CONTINUE", "ACCEPT"})
             E == Echoed(p)
             o == [q EXCEPT !.verdict = "CONTINUE"]
             out == Outer!Run(tt, rules, o)
  <1>1. o \in Q
    <2>1. o \in Kept(p, Open)
      BY KeptOpen
    <2> QED BY <2>1 DEF Kept, Open
  <1>2. Len(rules) \in Nat
    BY SeqLen
  <1>3. \A i \in 1 .. Len(rules), x \in Q \cup E : AfterOuter(tt, rules[i], x) \in Q \cup E
    BY LetsStays
  <1>4. (\A i \in 1 .. Len(rules) : rules[i].target = "JUMP")
          => \A i \in 1 .. Len(rules), x \in Q : AfterOuter(tt, rules[i], x) \in Q
    BY LetsStays
  <1>5. \A x \in Q \cup E : Left(x) = x
    <2>1. \A x \in Q \cup E : x.verdict # "RETURN"
      BY KeptOpen, EchoedIs
    <2> QED BY <2>1 DEF Left
  <1>6. Walk(tt, name, q) = Left(out)
    BY DEF Walk
  <1> HIDE DEF Q, E, o, rules
  <1>7. out \in Q \cup E
    <2> DEFINE U == Q \cup E
    <2>1. o \in U /\ \A i \in 1 .. Len(rules), x \in U : AfterOuter(tt, rules[i], x) \in U
      BY <1>1, <1>3
    <2> HIDE DEF U
    <2>2. out \in U
      BY <1>2, <2>1, Outer!RunStays
    <2> QED BY <2>2 DEF U
  <1>8. (\A i \in 1 .. Len(rules) : rules[i].target = "JUMP") => out \in Q
    BY <1>1, <1>2, <1>4, Outer!RunStays
  <1> QED BY <1>5, <1>6, <1>7, <1>8 DEF Q, E, rules

\* A destination that both tables let go: China's and the intranet's always, the phone's
\* own networks by LOCAL_IP too, which the chains of performance mode and tun do not ask.
Free(s, p) == /\ "fake" \notin p.to
              /\ \/ Away(s, p)
                 \/ /\ {"mangle_local_ip", "nat_local_ip"} \subseteq p.to
                    /\ ~PerfChains(s) /\ s.network_mode # "tun"

\* The packets of this host, and those from elsewhere, that no chain takes.
LetOut(s, p) ==
  /\ Unforced(s, p)
  /\ \/ LeftApp(s, p)
     \/ Free(s, p) /\ ~(s.network_mode = "tun" /\ s.proxy_mode = "whitelist" /\ Named(s, p))
LetIn(s, p) ==
  \/ LeftPort(s, p) /\ p.iface # "lo"
  \/ Free(s, p) /\ ~(s.network_mode = "tun" /\ s.mac_filter /\ p.iface \in ApInterfaces)

\* No query, no name's address in IPv6, not of a connection that has been taken.
Plain(s, p) == /\ IsPacket(p) /\ p.dport # "53" /\ Opening(p) /\ 24 \notin p.cmark /\ p.socket # TRUE
               /\ "fake" \in p.to /\ TproxyUp(s) => s.family # "V6"
Known(s) == Finite(s) /\ s.owner \in {"both", "uid", "gid", "none"}

LEMMA RulesTwo ==
    ASSUME NEW tt, NEW p, NEW a, NEW b, IsSeq(a), IsSeq(b),
           \A i \in 1 .. Len(a) : Lets(tt, a[i], p), \A i \in 1 .. Len(b) : Lets(tt, b[i], p)
    PROVE  /\ IsSeq(a \o b) /\ \A i \in 1 .. Len(a \o b) : Lets(tt, (a \o b)[i], p)
           /\ (\A i \in 1 .. Len(a) : a[i].target = "JUMP") /\ (\A i \in 1 .. Len(b) : b[i].target = "JUMP")
                => \A i \in 1 .. Len(a \o b) : (a \o b)[i].target = "JUMP"
  <1>1. IsSeq(a \o b) /\ \A i \in 1 .. Len(a \o b) :
          \/ i \in 1 .. Len(a) /\ (a \o b)[i] = a[i]
          \/ i - Len(a) \in 1 .. Len(b) /\ (a \o b)[i] = b[i - Len(a)]
    BY JoinSeq
  <1> DEFINE rules == a \o b
  <1> HIDE DEF rules
  <1> QED BY <1>1 DEF rules

\* One such rule, there or not.
LEMMA RulesWhen ==
    ASSUME NEW tt, NEW p, NEW b, NEW on, NEW t, NEW a, b => Lets(tt, One(on, t, a), p)
    PROVE  /\ IsSeq(When(b, Rule(on, t, a)))
           /\ \A i \in 1 .. Len(When(b, Rule(on, t, a))) : Lets(tt, When(b, Rule(on, t, a))[i], p)
           /\ t = "JUMP" => \A i \in 1 .. Len(When(b, Rule(on, t, a))) : When(b, Rule(on, t, a))[i].target = "JUMP"
  <1> DEFINE rules == When(b, Rule(on, t, a))
  <1>1. IsSeq(rules) /\ \A i \in 1 .. Len(rules) : b /\ rules[i] = One(on, t, a)
    BY WhenRules DEF One
  <1>2. One(on, t, a).target = t
    BY DEF One
  <1> HIDE DEF rules
  <1>3. \A i \in 1 .. Len(rules) : Lets(tt, rules[i], p)
    BY <1>1
  <1>4. t = "JUMP" => \A i \in 1 .. Len(rules) : rules[i].target = "JUMP"
    BY <1>1, <1>2
  <1> QED BY <1>1, <1>3, <1>4 DEF rules

LEMMA JumpLets ==
    ASSUME NEW tt, NEW p, NEW on, NEW ch, Gives(tt, tt[ch], p, Let) \/ Off(p, on)
    PROVE  Lets(tt, One(on, "JUMP", ch), p)
  <1>1. One(on, "JUMP", ch).target = "JUMP" /\ One(on, "JUMP", ch).arg = ch /\ One(on, "JUMP", ch).on = on
    BY DEF One
  <1> QED BY <1>1 DEF Lets

LEMMA IcmpLets ==
    ASSUME NEW tt, NEW p, NEW s
    PROVE  IsSeq(FakeIpIcmp(s)) /\ \A i \in 1 .. Len(FakeIpIcmp(s)) : Lets(tt, FakeIpIcmp(s)[i], p)
  <1> DEFINE on == [d |-> "fake", p |-> "icmp"]
  <1> HIDE DEF on
  <1>1. One(on, "DNAT", "icmp").target = "DNAT" /\ One(on, "DNAT", "icmp").arg = "icmp"
    BY DEF One
  <1>2. Lets(tt, One(on, "DNAT", "icmp"), p)
    BY <1>1 DEF Lets
  <1> QED BY <1>2, RulesWhen DEF FakeIpIcmp, on

LEMMA NatLets ==
    ASSUME NEW s, Known(s), NEW p, Plain(s, p), NEW q \in Kept(p, {"CONTINUE", "ACCEPT"})
    PROVE  /\ LetOut(s, p) => Walk(NatChains(s), "OUTPUT", q) \in Kept(p, {"CONTINUE", "ACCEPT"}) \cup Echoed(p)
           /\ LetIn(s, p) => Walk(NatChains(s), "PREROUTING", q) \in Kept(p, {"CONTINUE", "ACCEPT"}) \cup Echoed(p)
  <1> DEFINE tt == NatChains(s)
             u == FakeIpIcmp(s)
             a == When(RedirectUp(s), Rule(<<>>, "JUMP", "BOX_LOCAL"))
             b == When(DnsNatUp(s), Rule(<<>>, "JUMP", "NAT_DNS_OUT"))
             d == When(RedirectUp(s), Rule(<<>>, "JUMP", "BOX_EXTERNAL"))
             e == When(DnsNatUp(s) /\ DnsRedirect(s), Rule(<<>>, "JUMP", "NAT_DNS_HIJACK"))
  <1>0. IsPacket(p) /\ p.dport # "53" /\ Finite(s) /\ s.owner \in {"both", "uid", "gid", "none"}
    BY DEF Plain, Known
  <1>1. /\ tt["OUTPUT"] = u \o a \o b /\ tt["PREROUTING"] = u \o d \o e
        /\ tt["BOX_LOCAL"] = RedirectLocal(s) /\ tt["BOX_EXTERNAL"] = RedirectExternal(s)
        /\ tt["LOCAL_IP"] = LocalIpChain("nat_local_ip") /\ tt["NAT_DNS_HIJACK"] = HijackPre(s)
        /\ tt["NAT_DNS_OUT"] = HijackOut(s) \/ tt["NAT_DNS_OUT"] = ForwardOut(s)
    BY DEF NatChains, Jump
  <1> HIDE DEF tt
  <1>2. IsSeq(u) /\ \A i \in 1 .. Len(u) : Lets(tt, u[i], p)
    BY IcmpLets
  <1> HIDE DEF u
  <1>3. Gives(tt, tt["NAT_DNS_HIJACK"], p, Let) /\ Gives(tt, tt["NAT_DNS_OUT"], p, Let)
    BY <1>0, <1>1, GivesNatDns
  <1>4. Lets(tt, One(<<>>, "JUMP", "NAT_DNS_HIJACK"), p) /\ Lets(tt, One(<<>>, "JUMP", "NAT_DNS_OUT"), p)
    BY <1>3, JumpLets
  <1>5. Free(s, p) => Spared(s, p, "nat_local_ip")
    BY DEF Free, Away, Spared
  <1>6. ASSUME LetOut(s, p) PROVE Walk(tt, "OUTPUT", q) \in Kept(p, {"CONTINUE", "ACCEPT"}) \cup Echoed(p)
    <2>1. Unforced(s, p) /\ (Spared(s, p, "nat_local_ip") \/ LeftApp(s, p))
      BY <1>5, <1>6 DEF LetOut
    <2>2. Gives(tt, tt["BOX_LOCAL"], p, Let)
      BY <1>0, <1>1, <2>1, GivesRedirectLocal
    <2>3. Lets(tt, One(<<>>, "JUMP", "BOX_LOCAL"), p)
      BY <2>2, JumpLets
    <2>4. IsSeq(a) /\ \A i \in 1 .. Len(a) : Lets(tt, a[i], p)
      BY <2>3, RulesWhen
    <2>5. IsSeq(b) /\ \A i \in 1 .. Len(b) : Lets(tt, b[i], p)
      BY <1>4, RulesWhen
    <2> HIDE DEF a, b
    <2>6. IsSeq(u \o a) /\ \A i \in 1 .. Len(u \o a) : Lets(tt, (u \o a)[i], p)
      BY <1>2, <2>4, RulesTwo
    <2>7. IsSeq(u \o a \o b) /\ \A i \in 1 .. Len(u \o a \o b) : Lets(tt, (u \o a \o b)[i], p)
      BY <2>5, <2>6, RulesTwo
    <2> QED BY <1>0, <1>1, <2>7, WalkLets
  <1>7. ASSUME LetIn(s, p) PROVE Walk(tt, "PREROUTING", q) \in Kept(p, {"CONTINUE", "ACCEPT"}) \cup Echoed(p)
    <2>1. Spared(s, p, "nat_local_ip") \/ (LeftPort(s, p) /\ p.iface # "lo")
      BY <1>5, <1>7 DEF LetIn
    <2>2. Gives(tt, tt["BOX_EXTERNAL"], p, Let)
      BY <1>0, <1>1, <2>1, GivesRedirectExternal
    <2>3. Lets(tt, One(<<>>, "JUMP", "BOX_EXTERNAL"), p)
      BY <2>2, JumpLets
    <2>4. IsSeq(d) /\ \A i \in 1 .. Len(d) : Lets(tt, d[i], p)
      BY <2>3, RulesWhen
    <2>5. IsSeq(e) /\ \A i \in 1 .. Len(e) : Lets(tt, e[i], p)
      BY <1>4, RulesWhen
    <2> HIDE DEF d, e
    <2>6. IsSeq(u \o d) /\ \A i \in 1 .. Len(u \o d) : Lets(tt, (u \o d)[i], p)
      BY <1>2, <2>4, RulesTwo
    <2>7. IsSeq(u \o d \o e) /\ \A i \in 1 .. Len(u \o d \o e) : Lets(tt, (u \o d \o e)[i], p)
      BY <2>5, <2>6, RulesTwo
    <2> QED BY <1>0, <1>1, <2>7, WalkLets
  <1> QED BY <1>6, <1>7 DEF tt

LEMMA MangleOutLets ==
    ASSUME NEW s, Known(s), NEW p, Plain(s, p), LetOut(s, p), NEW q \in Kept(p, {"CONTINUE", "ACCEPT"})
    PROVE  Walk(MangleChains(s), "OUTPUT", q) \in Kept(p, {"CONTINUE", "ACCEPT"})
  <1> DEFINE tt == MangleChains(s)
             a == When(TproxyUp(s), Rule(<<>>, "JUMP", "BOX_LOCAL"))
             b == When(TunUp(s), Rule(<<>>, "JUMP", "BOX_TUN_BYPASS_OUT"))
  <1>0. IsPacket(p) /\ p.dport # "53" /\ Finite(s) /\ s.owner \in {"both", "uid", "gid", "none"}
    BY DEF Plain, Known
  <1>1. /\ tt["OUTPUT"] = a \o b
        /\ tt["BOX_LOCAL"] = IF PerfChains(s) THEN PerfLocal(s) ELSE TproxyLocal(s)
        /\ tt["LOCAL_IP"] = LocalIpChain("mangle_local_ip")
        /\ tt["BOX_TP_OUT_IP"] = PerfDest(s) /\ tt["BOX_TP_OUT_APP"] = PerfOutApp(s)
        /\ tt["BOX_TUN_BYPASS_OUT"] = TunOut(s)
    BY DEF MangleChains, Jump
  <1> HIDE DEF tt
  <1>2. ASSUME TproxyUp(s) PROVE Lets(tt, One(<<>>, "JUMP", "BOX_LOCAL"), p)
    <2>1. "fake" \in p.to => s.family # "V6"
      BY <1>2 DEF Plain
    <2>2. Gives(tt, tt["BOX_LOCAL"], p, Let)
      <3>1. CASE PerfChains(s)
        <4>1. Unforced(s, p) /\ (Away(s, p) \/ LeftApp(s, p))
          BY <3>1 DEF LetOut, Free
        <4>2. 24 \notin p.cmark /\ Opening(p)
          BY DEF Plain
        <4>3. tt["BOX_LOCAL"] = PerfLocal(s)
          BY <1>1, <3>1
        <4> QED BY <1>0, <1>1, <2>1, <4>1, <4>2, <4>3, GivesPerfLocal
      <3>2. CASE ~PerfChains(s)
        <4>1. Unforced(s, p) /\ (Spared(s, p, "mangle_local_ip") \/ LeftApp(s, p))
          BY DEF LetOut, Free, Away, Spared
        <4>2. tt["BOX_LOCAL"] = TproxyLocal(s)
          BY <1>1, <3>2
        <4> QED BY <1>0, <1>1, <2>1, <4>1, <4>2, GivesTproxyLocal
      <3> QED BY <3>1, <3>2
    <2> QED BY <2>2, JumpLets
  <1>3. ASSUME TunUp(s) PROVE Lets(tt, One(<<>>, "JUMP", "BOX_TUN_BYPASS_OUT"), p)
    <2>1. s.network_mode = "tun"
      BY <1>3 DEF TunUp
    <2>2. Gives(tt, tt["BOX_TUN_BYPASS_OUT"], p, Let)
      BY <1>0, <1>1, <2>1, GivesTun DEF LetOut, Free
    <2> QED BY <2>2, JumpLets
  <1>4. /\ IsSeq(a) /\ \A i \in 1 .. Len(a) : Lets(tt, a[i], p)
        /\ \A i \in 1 .. Len(a) : a[i].target = "JUMP"
    <2>1. CASE TproxyUp(s)
      <3>1. Lets(tt, One(<<>>, "JUMP", "BOX_LOCAL"), p)
        BY <1>2, <2>1
      <3> QED BY <3>1, RulesWhen
    <2>2. CASE ~TproxyUp(s)
      <3>1. a = <<>>
        BY <2>2 DEF When
      <3> HIDE DEF a
      <3> QED BY <3>1, NoSeq
    <2> QED BY <2>1, <2>2
  <1>5. /\ IsSeq(b) /\ \A i \in 1 .. Len(b) : Lets(tt, b[i], p)
        /\ \A i \in 1 .. Len(b) : b[i].target = "JUMP"
    <2>1. CASE TunUp(s)
      <3>1. Lets(tt, One(<<>>, "JUMP", "BOX_TUN_BYPASS_OUT"), p)
        BY <1>3, <2>1
      <3> QED BY <3>1, RulesWhen
    <2>2. CASE ~TunUp(s)
      <3>1. b = <<>>
        BY <2>2 DEF When
      <3> HIDE DEF b
      <3> QED BY <3>1, NoSeq
    <2> QED BY <2>1, <2>2
  <1> HIDE DEF a, b
  <1>6. /\ IsSeq(a \o b) /\ \A i \in 1 .. Len(a \o b) : Lets(tt, (a \o b)[i], p)
        /\ \A i \in 1 .. Len(a \o b) : (a \o b)[i].target = "JUMP"
    BY <1>4, <1>5, RulesTwo
  <1>7. Walk(tt, "OUTPUT", q) \in Kept(p, {"CONTINUE", "ACCEPT"})
    BY <1>0, <1>1, <1>6, WalkLets
  <1> QED BY <1>7 DEF tt

LEMMA MangleInLets ==
    ASSUME NEW s, Known(s), NEW p, Plain(s, p), LetIn(s, p), NEW q \in Kept(p, {"CONTINUE", "ACCEPT"})
    PROVE  Walk(MangleChains(s), "PREROUTING", q) \in Kept(p, {"CONTINUE", "ACCEPT"})
  <1> DEFINE tt == MangleChains(s)
             don == [p |-> "tcp", socket |-> TRUE]
             a == When(TproxyUp(s) /\ DivertWanted(s), Rule(don, "JUMP", "DIVERT"))
             b == When(TproxyUp(s), Rule(<<>>, "JUMP", "BOX_EXTERNAL"))
             d == When(TunUp(s), Rule(<<>>, "JUMP", "BOX_TUN_BYPASS_PRE"))
  <1>0. IsPacket(p) /\ p.dport # "53" /\ Finite(s) /\ s.owner \in {"both", "uid", "gid", "none"}
    BY DEF Plain, Known
  <1>1. /\ tt["PREROUTING"] = a \o b \o d
        /\ tt["BOX_EXTERNAL"] = IF PerfChains(s) THEN PerfExternal(s) ELSE TproxyExternal(s)
        /\ tt["LOCAL_IP"] = LocalIpChain("mangle_local_ip")
        /\ tt["BOX_TP_PRE_IP"] = PerfDest(s) /\ tt["BOX_TP_PRE_IF"] = PerfPreIf(s)
        /\ tt["BOX_TUN_BYPASS_PRE"] = TunPre(s)
    BY DEF MangleChains, Jump
  <1> HIDE DEF tt
  <1>2. Lets(tt, One(don, "JUMP", "DIVERT"), p)
    <2>1. Off(p, don)
      BY OffSocket DEF Plain
    <2> HIDE DEF don
    <2> QED BY <2>1, JumpLets
  <1>3. ASSUME TproxyUp(s) PROVE Lets(tt, One(<<>>, "JUMP", "BOX_EXTERNAL"), p)
    <2>1. "fake" \in p.to => s.family # "V6"
      BY <1>3 DEF Plain
    <2>2. Gives(tt, tt["BOX_EXTERNAL"], p, Let)
      <3>1. CASE PerfChains(s)
        <4>1. Away(s, p) \/ (LeftPort(s, p) /\ p.iface # "lo")
          BY <3>1 DEF LetIn, Free
        <4>2. 24 \notin p.cmark /\ Opening(p)
          BY DEF Plain
        <4>3. tt["BOX_EXTERNAL"] = PerfExternal(s)
          BY <1>1, <3>1
        <4> QED BY <1>0, <1>1, <2>1, <4>1, <4>2, <4>3, GivesPerfExternal
      <3>2. CASE ~PerfChains(s)
        <4>1. Spared(s, p, "mangle_local_ip") \/ (LeftPort(s, p) /\ p.iface # "lo")
          BY DEF LetIn, Free, Away, Spared
        <4>2. tt["BOX_EXTERNAL"] = TproxyExternal(s)
          BY <1>1, <3>2
        <4> QED BY <1>0, <1>1, <2>1, <4>1, <4>2, GivesTproxyExternal
      <3> QED BY <3>1, <3>2
    <2> QED BY <2>2, JumpLets
  <1>4. ASSUME TunUp(s) PROVE Lets(tt, One(<<>>, "JUMP", "BOX_TUN_BYPASS_PRE"), p)
    <2>1. s.network_mode = "tun"
      BY <1>4 DEF TunUp
    <2>2. Gives(tt, tt["BOX_TUN_BYPASS_PRE"], p, Let)
      BY <1>0, <1>1, <2>1, GivesTun DEF LetIn, Free
    <2> QED BY <2>2, JumpLets
  <1> HIDE DEF don
  <1>5. /\ IsSeq(a) /\ \A i \in 1 .. Len(a) : Lets(tt, a[i], p)
        /\ \A i \in 1 .. Len(a) : a[i].target = "JUMP"
    BY <1>2, RulesWhen
  <1>6. /\ IsSeq(b) /\ \A i \in 1 .. Len(b) : Lets(tt, b[i], p)
        /\ \A i \in 1 .. Len(b) : b[i].target = "JUMP"
    <2>1. CASE TproxyUp(s)
      <3>1. Lets(tt, One(<<>>, "JUMP", "BOX_EXTERNAL"), p)
        BY <1>3, <2>1
      <3> QED BY <3>1, RulesWhen
    <2>2. CASE ~TproxyUp(s)
      <3>1. b = <<>>
        BY <2>2 DEF When
      <3> HIDE DEF b
      <3> QED BY <3>1, NoSeq
    <2> QED BY <2>1, <2>2
  <1>7. /\ IsSeq(d) /\ \A i \in 1 .. Len(d) : Lets(tt, d[i], p)
        /\ \A i \in 1 .. Len(d) : d[i].target = "JUMP"
    <2>1. CASE TunUp(s)
      <3>1. Lets(tt, One(<<>>, "JUMP", "BOX_TUN_BYPASS_PRE"), p)
        BY <1>4, <2>1
      <3> QED BY <3>1, RulesWhen
    <2>2. CASE ~TunUp(s)
      <3>1. d = <<>>
        BY <2>2 DEF When
      <3> HIDE DEF d
      <3> QED BY <3>1, NoSeq
    <2> QED BY <2>1, <2>2
  <1> HIDE DEF a, b, d
  <1>8. /\ IsSeq(a \o b) /\ \A i \in 1 .. Len(a \o b) : Lets(tt, (a \o b)[i], p)
        /\ \A i \in 1 .. Len(a \o b) : (a \o b)[i].target = "JUMP"
    BY <1>5, <1>6, RulesTwo
  <1> DEFINE ab == a \o b
  <1> HIDE DEF ab
  <1>9. /\ IsSeq(ab \o d) /\ \A i \in 1 .. Len(ab \o d) : Lets(tt, (ab \o d)[i], p)
        /\ \A i \in 1 .. Len(ab \o d) : (ab \o d)[i].target = "JUMP"
    BY <1>7, <1>8, RulesTwo DEF ab
  <1>10. Walk(tt, "PREROUTING", q) \in Kept(p, {"CONTINUE", "ACCEPT"})
    <2>1. tt["PREROUTING"] = ab \o d
      BY <1>1 DEF ab
    <2> QED BY <1>0, <1>9, <2>1, WalkLets
  <1> QED BY <1>10 DEF tt

-----------------------------------------------------------------------------
(* BypassedLeftAlone and LeftOutLeftAlone. *)

\* The connections both are about.
LeftToItself ==
  /\ ~Dns /\ ~Forced
  /\ \/ Bypassed /\ ~TunChoosesFirst
     \/ LeftOut /\ ~(f.dst = "fake" /\ c.family = "V6" /\ TproxyUp(c))

\* What holds of them: neither their last packet nor what conntrack remembers of them has
\* been taken.  A TCP connection that has been answered under the rules it began under
\* has an entry of an answered connection or none: performance mode's chains look at no
\* other packets of it than its first ones.
LeftInv ==
  /\ c \in Settings /\ chains = Tables(c) /\ f \in Flows
  /\ ct = "none" => nat = "direct" /\ cmark = {}
  /\ born /\ f.proto = "tcp" /\ answered => ct \in {"none", "est"}
  /\ up /\ born /\ LeftToItself => /\ fate \in {"none", "direct", "reject", "icmp"}
                                   /\ nat \in {"direct", "icmp"} /\ 24 \notin cmark

LEMMA SettingsKnown ==
    ASSUME LeftInv
    PROVE  Known(c)
  BY ListsAssumption DEF LeftInv, Known, Finite

\* A packet no rule has touched.
Fresh(p) == p.mark = {} /\ p.verdict = "CONTINUE" /\ p.port = "none" /\ p.reply = FALSE

LEMMA FreshKept ==
    ASSUME NEW p, IsPacket(p), Fresh(p)
    PROVE  p \in Kept(p, {"CONTINUE", "ACCEPT"})
  <1>1. p = Put(p, {}, p.cmark, "CONTINUE", "none")
    BY PutItself DEF Fresh
  <1> QED BY <1>1 DEF Kept

LEMMA NatDirect ==
    ASSUME NEW p, IsPacket(p), NEW chain, NEW m, nat \in {"direct", "icmp"},
           Walk(T.nat, chain, m) \in Kept(p, {"CONTINUE", "ACCEPT"}) \cup Echoed(p)
    PROVE  NatVerdict(chain, m) \in {"direct", "icmp"}
  <1> DEFINE q == Walk(T.nat, chain, m)
  <1>1. \/ q.verdict \in {"CONTINUE", "ACCEPT"}
        \/ q.verdict = "DNAT" /\ q.port = "icmp"
    BY KeptOpen, EchoedIs
  <1>2. NatVerdict(chain, m) = IF ct # "none" THEN nat
                               ELSE IF q.verdict \in {"REDIRECT", "DNAT"} THEN q.port ELSE "direct"
    BY DEF NatVerdict
  <1> HIDE DEF q
  <1> QED BY <1>1, <1>2

LEMMA LetGoesOut ==
    ASSUME LeftInv, up, NEW p, Plain(c, p), Fresh(p), LetOut(c, p), nat \in {"direct", "icmp"}, NEW dst
    PROVE  /\ Outgoing(p, dst).fate \in {"direct", "reject", "icmp"}
           /\ Outgoing(p, dst).nat \in {"direct", "icmp"} /\ Outgoing(p, dst).mark = p.cmark
  <1> DEFINE m == Walk(T.mangle, "OUTPUT", p)
             n == NatVerdict("OUTPUT", m)
             r == Walk(T.filter, "OUTPUT", m)
  <1>0. Known(c) /\ IsPacket(p) /\ p.reply = FALSE
    BY SettingsKnown DEF Plain, Fresh
  <1>1. T.mangle = MangleChains(c) /\ T.nat = NatChains(c)
    BY DEF T, LeftInv, Tables
  <1>2. m \in Kept(p, {"CONTINUE", "ACCEPT"})
    BY <1>0, <1>1, FreshKept, MangleOutLets
  <1> HIDE DEF m
  <1>3. Walk(T.nat, "OUTPUT", m) \in Kept(p, {"CONTINUE", "ACCEPT"}) \cup Echoed(p)
    BY <1>0, <1>1, <1>2, NatLets
  <1>4. n \in {"direct", "icmp"}
    BY <1>0, <1>3, NatDirect
  <1>5. m.cmark = p.cmark /\ ~Marked(m, "FWMARK") /\ TunRoute(m, dst) = "direct"
    BY <1>0, <1>2, KeptOpen
  <1> HIDE DEF n, r
  <1>6. /\ Outgoing(p, dst).mark = m.cmark /\ Outgoing(p, dst).nat = n
        /\ Outgoing(p, dst).fate = IF r.verdict = "REJECT" THEN "reject"
                                  ELSE IF n # "direct" THEN n ELSE "direct"
    BY <1>0, <1>5 DEF Outgoing, m, n, r
  <1> QED BY <1>4, <1>5, <1>6

LEMMA LetComesIn ==
    ASSUME LeftInv, up, NEW p, Plain(c, p), Fresh(p), LetIn(c, p), nat \in {"direct", "icmp"}, NEW dst
    PROVE  /\ Incoming(p, dst).fate \in {"direct", "icmp"}
           /\ Incoming(p, dst).nat \in {"direct", "icmp"} /\ Incoming(p, dst).mark = p.cmark
  <1> DEFINE m == Walk(T.mangle, "PREROUTING", p)
             n == IF p.iface = "lo" THEN "direct" ELSE NatVerdict("PREROUTING", m)
  <1>0. Known(c) /\ IsPacket(p) /\ p.reply = FALSE
    BY SettingsKnown DEF Plain, Fresh
  <1>1. T.mangle = MangleChains(c) /\ T.nat = NatChains(c)
    BY DEF T, LeftInv, Tables
  <1>2. m \in Kept(p, {"CONTINUE", "ACCEPT"})
    BY <1>0, <1>1, FreshKept, MangleInLets
  <1> HIDE DEF m
  <1>3. Walk(T.nat, "PREROUTING", m) \in Kept(p, {"CONTINUE", "ACCEPT"}) \cup Echoed(p)
    BY <1>0, <1>1, <1>2, NatLets
  <1>4. n \in {"direct", "icmp"}
    BY <1>0, <1>3, NatDirect
  <1>5. m.cmark = p.cmark /\ ~Marked(m, "FWMARK") /\ TunRoute(m, dst) = "direct"
        /\ m.verdict \in {"CONTINUE", "ACCEPT"}
    BY <1>0, <1>2, KeptOpen
  <1> HIDE DEF n
  <1>6. /\ Incoming(p, dst).mark = m.cmark /\ Incoming(p, dst).nat = n
        /\ Incoming(p, dst).fate = IF n # "direct" THEN n ELSE "direct"
    BY <1>0, <1>5 DEF Incoming, m, n
  <1> QED BY <1>4, <1>5, <1>6

\* What the properties say of the connection is what the chains see of its packets.
LEMMA SeenOut ==
    ASSUME LeftInv, LeftToItself, Local(f), NEW p, p.to = Classes(f.dst), p.uid = f.uid, p.gid = f.gid
    PROVE  LetOut(c, p)
  <1>1. Unforced(c, p)
    <2>1. "cn" \in p.to => f.dst = "cn"
      BY DEF Classes
    <2> QED BY <2>1 DEF LeftToItself, Forced, Unforced
  <1>2. CASE LeftOut
    <2>1. Named(c, p) = Listed /\ p.uid = f.uid
      BY DEF Named, Listed
    <2>2. LeftApp(c, p)
      BY <1>2, <2>1 DEF LeftOut, LeftApp, NoList
    <2> QED BY <1>1, <2>2 DEF LetOut
  <1>3. CASE Bypassed /\ ~TunChoosesFirst
    <2>1. "fake" \notin p.to
      BY <1>3 DEF Bypassed, Near, Classes
    <2>2. \/ Away(c, p)
          \/ /\ {"mangle_local_ip", "nat_local_ip"} \subseteq p.to
             /\ ~PerfChains(c) /\ c.network_mode # "tun"
      <3>1. CASE f.dst = "subnet" \/ (f.dst = "cn" /\ CnipMatcher(c))
        BY <3>1 DEF Away, Classes
      <3>2. CASE Near /\ addr = "applied"
        BY <3>2 DEF Near, Away, Classes
      <3>3. CASE Near /\ addr # "applied"
        BY <3>3 DEF Near, Classes, Tun
      <3> QED BY <1>3, <3>1, <3>2, <3>3 DEF Bypassed
    <2>3. ~(c.network_mode = "tun" /\ c.proxy_mode = "whitelist" /\ Named(c, p))
      BY <1>3 DEF TunChoosesFirst, Tun, Named, Listed
    <2> QED BY <1>1, <2>1, <2>2, <2>3 DEF LetOut, Free
  <1> QED BY <1>2, <1>3 DEF LeftToItself

LEMMA SeenIn ==
    ASSUME LeftInv, LeftToItself, ~Local(f), NEW p, p.to = Classes(f.dst), p.iface = f.iface, p.mac = f.mac
    PROVE  LetIn(c, p)
  <1>1. f.iface # "lo"
    BY FlowsAssumption DEF LeftInv
  <1>2. CASE LeftOut
    BY <1>1, <1>2 DEF LeftOut, LetIn, LeftPort, LeftClient
  <1>3. CASE Bypassed /\ ~TunChoosesFirst
    <2>1. "fake" \notin p.to
      BY <1>3 DEF Bypassed, Near, Classes
    <2>2. \/ Away(c, p)
          \/ /\ {"mangle_local_ip", "nat_local_ip"} \subseteq p.to
             /\ ~PerfChains(c) /\ c.network_mode # "tun"
      <3>1. CASE f.dst = "subnet" \/ (f.dst = "cn" /\ CnipMatcher(c))
        BY <3>1 DEF Away, Classes
      <3>2. CASE Near /\ addr = "applied"
        BY <3>2 DEF Near, Away, Classes
      <3>3. CASE Near /\ addr # "applied"
        BY <3>3 DEF Near, Classes, Tun
      <3> QED BY <1>3, <3>1, <3>2, <3>3 DEF Bypassed
    <2>3. ~(c.network_mode = "tun" /\ c.mac_filter /\ p.iface \in ApInterfaces)
      BY <1>3 DEF TunChoosesFirst, Tun
    <2> QED BY <2>1, <2>2, <2>3 DEF LetIn, Free
  <1> QED BY <1>2, <1>3 DEF LeftToItself

LEMMA SeenPlain ==
    ASSUME LeftInv, LeftToItself, 24 \notin cmark, ct = "none" \/ fate # "tproxy",
           ct # "est" => ~(f.proto = "tcp" /\ answered), NEW iface, NEW uid, NEW gid, NEW mac
    PROVE  LET p == Packet(iface, uid, gid, mac, f.dport, f.dst, f.proto = "tcp" /\ ~answered, FALSE)
           IN  Plain(c, p) /\ Fresh(p)
  <1> DEFINE p == Packet(iface, uid, gid, mac, f.dport, f.dst, f.proto = "tcp" /\ ~answered, FALSE)
  <1>1. IsPacket(p) /\ Fresh(p)
    BY DEF Packet, IsPacket, Fresh
  <1>2. p.dport # "53" /\ 24 \notin p.cmark
    BY DEF Packet, LeftToItself, Dns
  <1>3. p.socket # TRUE
    BY DEF Packet
  <1>4. Opening(p)
    <2>1. p.new = (ct # "est") /\ p.proto = f.proto /\ p.syn = (f.proto = "tcp" /\ ~answered)
      BY DEF Packet
    <2> HIDE DEF p
    <2> QED BY <2>1 DEF Opening
  <1>5. "fake" \in p.to /\ TproxyUp(c) => c.family # "V6"
    <2>1. "fake" \in p.to => f.dst = "fake"
      BY DEF Packet, Classes
    <2>2. f.dst = "fake" => ~Bypassed
      BY DEF Bypassed, Near
    <2> QED BY <2>1, <2>2 DEF LeftToItself
  <1> QED BY <1>1, <1>2, <1>3, <1>4, <1>5 DEF Plain

LEMMA LeftInit == Init => LeftInv
  BY DEF Init, LeftInv

LEMMA LeftStep ==
    ASSUME LeftInv, [Next]_vars
    PROVE  LeftInv'
  <1> DEFINE Same == UNCHANGED <<c, f, addr>>
  <1>0. Same => LeftToItself' = LeftToItself
    BY DEF LeftToItself, Dns, Forced, Bypassed, Near, LeftOut, TunChoosesFirst, Local, Listed, NoList,
           Tun, CnipMatcher, TproxyUp, TproxyMode, PerfChains, PerfConntrack, Enhance
  <1>1. CASE ApplyRules \/ ClearRules \/ Move \/ RefreshLocalIp
    BY <1>1 DEF ApplyRules, ClearRules, Move, RefreshLocalIp, Forget, LeftInv
  <1>2. CASE Send
    <2> DEFINE syn == f.proto = "tcp" /\ ~answered
               p == Packet(f.iface, f.uid, f.gid, f.mac, f.dport, f.dst, syn, FALSE)
               r == IF Local(f) THEN Outgoing(p, f.dst) ELSE Incoming(p, f.dst)
    <2>1. /\ c' = c /\ chains' = chains /\ f' = f /\ addr' = addr /\ up' = up /\ answered' = answered
          /\ fate' = IF up THEN r.fate ELSE "none"
          /\ born' = IF ct = "none" THEN up /\ ~(f.proto = "tcp" /\ answered) ELSE born
          /\ \/ r.fate = "reject" /\ ct' = ct /\ cmark' = cmark /\ nat' = nat
             \/ /\ ct' = IF ct = "none" THEN "new" ELSE ct
                /\ cmark' = r.mark /\ nat' = r.nat
      BY <1>2 DEF Send
    <2>2. ASSUME up, born', LeftToItself
          PROVE  /\ r.fate \in {"direct", "reject", "icmp"} /\ r.nat \in {"direct", "icmp"} /\ 24 \notin r.mark
                 /\ nat \in {"direct", "icmp"} /\ 24 \notin cmark
      <3>1. nat \in {"direct", "icmp"} /\ 24 \notin cmark /\ (ct = "none" \/ fate # "tproxy")
        BY <2>1, <2>2 DEF LeftInv
      <3>2. ct # "est" => ~(f.proto = "tcp" /\ answered)
        BY <2>1, <2>2 DEF LeftInv
      <3>3. Plain(c, p) /\ Fresh(p)
        BY <2>2, <3>1, <3>2, SeenPlain
      <3>4. /\ p.to = Classes(f.dst) /\ p.uid = f.uid /\ p.gid = f.gid /\ p.iface = f.iface
            /\ p.mac = f.mac /\ p.cmark = cmark
        BY DEF Packet
      <3> HIDE DEF p
      <3>5. CASE Local(f)
        <4>1. LetOut(c, p)
          BY <2>2, <3>4, <3>5, SeenOut
        <4>2. /\ Outgoing(p, f.dst).fate \in {"direct", "reject", "icmp"}
              /\ Outgoing(p, f.dst).nat \in {"direct", "icmp"} /\ Outgoing(p, f.dst).mark = cmark
          BY <2>2, <3>1, <3>3, <3>4, <4>1, LetGoesOut
        <4> QED BY <3>1, <3>5, <4>2
      <3>6. CASE ~Local(f)
        <4>1. LetIn(c, p)
          BY <2>2, <3>4, <3>6, SeenIn
        <4>2. /\ Incoming(p, f.dst).fate \in {"direct", "icmp"}
              /\ Incoming(p, f.dst).nat \in {"direct", "icmp"} /\ Incoming(p, f.dst).mark = cmark
          BY <2>2, <3>1, <3>3, <3>4, <4>1, LetComesIn
        <4> QED BY <3>1, <3>6, <4>2
      <3> QED BY <3>5, <3>6
    <2> HIDE DEF r
    <2>3. /\ c' \in Settings /\ chains' = Tables(c') /\ f' \in Flows
          /\ ct' = "none" => nat' = "direct" /\ cmark' = {}
      BY <2>1 DEF LeftInv
    <2>4. born' /\ f'.proto = "tcp" /\ answered' => ct' \in {"none", "est"}
      BY <2>1 DEF LeftInv
    <2>5. up' /\ born' /\ LeftToItself' => /\ fate' \in {"none", "direct", "reject", "icmp"}
                                           /\ nat' \in {"direct", "icmp"} /\ 24 \notin cmark'
      BY <1>0, <2>1, <2>2
    <2> QED BY <2>3, <2>4, <2>5 DEF LeftInv
  <1>3. CASE Answer
    BY <1>0, <1>3 DEF Answer, LeftInv
  <1>4. CASE Expire
    BY <1>0, <1>4 DEF Expire, LeftInv
  <1>5. CASE UNCHANGED vars
    BY <1>0, <1>5 DEF vars, LeftInv
  <1> QED BY <1>1, <1>2, <1>3, <1>4, <1>5 DEF Next

\* What goes to a destination the rules are to let go (the intranet, China's addresses,
\* the phone's and the hotspot's own networks) is not captured, whatever the settings, the
\* mode, the connection and the events before: queries, the applications forced past the
\* China list and, in tun, the owners and clients chosen by name are the exceptions.
THEOREM BypassedIsLeftAlone == Spec => []BypassedLeftAlone
  <1>1. LeftInv => BypassedLeftAlone
    BY DEF LeftInv, LeftToItself, BypassedLeftAlone, Settled, Captured
  <1> QED BY LeftInit, LeftStep, <1>1, PTL DEF Spec

\* The traffic of an application the user left out by the lists, or of an interface or a
\* hotspot client left to itself, is not captured in any mode, queries apart.
THEOREM LeftOutIsLeftAlone == Spec => []LeftOutLeftAlone
  <1>1. LeftInv => LeftOutLeftAlone
    BY DEF LeftInv, LeftToItself, LeftOutLeftAlone, Settled, Captured
  <1> QED BY LeftInit, LeftStep, <1>1, PTL DEF Spec
=============================================================================
