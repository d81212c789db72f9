----------------------------- MODULE RuleChains ------------------------------
(* The iptables chains boxctl builds, as sequences of rules, from the settings *)
(* (Config), the kernel's capabilities and the rule context: rules.rs and its  *)
(* submodules local_proxy, external, dns, performance, tun and routing.  The   *)
(* record c holds all three; a rule failing to be added is RuleBatch's matter. *)
(* Left out: whether the core is one with a fake-ip range (the range is empty   *)
(* then), and with which cores DNS is forwarded (mihomo_dns_forward says both); *)
(* of the two ports QUIC is refused on, one stands for both.                    *)
EXTENDS Netfilter

CONSTANTS BoxUid, BoxGid,            \* the user and group the core runs as
          ApInterfaces,              \* hotspot_ap_interfaces
          BlockedInterfaces,         \* blocked_interfaces
          Macs                       \* macs_list, the valid ones

SystemUids == {"0", "1052"}          \* root and the DNS tether, always whitelisted

Return(on)       == Rule(on, "RETURN", "none")
Accept(on)       == Rule(on, "ACCEPT", "none")
Reject(on)       == Rule(on, "REJECT", "none")
Jump(on, chain)  == Rule(on, "JUMP", chain)
Mark(on, m)      == Rule(on, "MARK", m)
Connmark(on, m)  == Rule(on, "CONNMARK", m)
Redirect(on)     == Rule(on, "REDIRECT", "redir")
Tproxy(on)       == Rule(on, "TPROXY", "tproxy")
MarkReturn(on, m) == Mark(on, m) \o Return(on)

\* What is done with the packets of a rule: ProxyAction, or they are let go.
Do(action, on) == CASE action = "Redirect"   -> Redirect(on)
                    [] action = "Tproxy"     -> Tproxy(on)
                    [] action = "Mark"       -> Mark(on, "FWMARK")
                    [] action = "MarkReturn" -> MarkReturn(on, "FWMARK")
                    [] action = "TunRoute"   -> MarkReturn(on, "TUN_ROUTE")
                    [] action = "Return"     -> Return(on)

When(b, rules) == IF b THEN rules ELSE <<>>
\* The rules g gives for each element of its domain, in some order of these.
Concat(g) == LET q == SetToSeq(DOMAIN g) IN FlattenSeq([i \in DOMAIN q |-> g[q[i]]])
ForEach(S, F(_)) == Concat([x \in S |-> F(x)])

-----------------------------------------------------------------------------
(* Questions the builders ask of the settings and capabilities. *)

Enhance(c)  == c.network_mode = "enhance"
TproxyMode(c) == c.network_mode \in {"tproxy", "enhance"}
RedirectMode(c) == c.network_mode \in {"redirect", "mixed", "enhance"}
NatUsable(c) == c.family = "V4" \/ c.ip6_nat

CnipMatcher(c) == c.cnip \in {"ipset", "ebpf"}
DnsRedirect(c) == c.dns_hijack_mode = "redirect"
DnsDisable(c)  == c.dns_hijack_mode = "disable"
DnsForward(c)  == c.mihomo_dns_forward /\ ~DnsRedirect(c) /\ ~DnsDisable(c)

PerfConntrack(c) == c.performance_mode /\ c.conntrack_match
PerfChains(c) == /\ PerfConntrack(c)
                 /\ c.connmark
                 /\ IF Enhance(c) THEN c.proxy_udp ELSE c.socket_transparent

AppUidEbpf(c) == /\ c.performance_mode
                 /\ c.selected_uids # {}
                 /\ c.proxy_mode \in {"blacklist", "whitelist"}
                 /\ c.app_pin_loaded

TunManaged(c) == c.cnip # "off" \/ c.mac_filter

\* The protocols the mangle chains take: TCP is left to nat in enhance mode.
MangleProtos(c) == {p \in {"tcp", "udp"} : IF p = "tcp" THEN c.proxy_tcp /\ ~Enhance(c)
                                                        ELSE c.proxy_udp}
Protos(c) == {p \in {"tcp", "udp"} : IF p = "tcp" THEN c.proxy_tcp ELSE c.proxy_udp}
DnsProtos(c) == {p \in {"tcp", "udp"} : IF p = "tcp" THEN c.dns_hijack_tcp ELSE c.dns_hijack_udp}

-----------------------------------------------------------------------------
(* Rules several chains share. *)

\* add_core_bypass_rule: the first variant of the owner match the kernel takes.
CoreBypass(c) == CASE c.owner = "both" -> Return([uid |-> BoxUid, gid |-> BoxGid])
                   [] c.owner = "uid"  -> Return([uid |-> BoxUid])
                   [] c.owner = "gid"  -> Return([gid |-> BoxGid])
                   [] c.owner = "none" -> <<>>

\* A chain that starts with the core's bypass, or failing that with the mark
\* the core puts on its own packets.
SetupLocalChainCommon(c) ==
  IF c.owner = "none" THEN Return([mark |-> "FWMARK"]) ELSE CoreBypass(c)

ReplyBypass(c) == When(PerfConntrack(c), Return([reply |-> TRUE]))

\* A destination is let go except for UDP to port 53.
NonDnsAccept(on) == Accept(Also(on, [p |-> "udp", not_dport |-> "53"]))
                    \o Accept(Also(on, [not_p |-> "udp"]))

\* LOCAL_IP of a table; the address class says which table's copy lists it.
LocalIpChain(class) == NonDnsAccept([d |-> class])

CommonBypass(c) == Return([d |-> "subnet"])
                   \o When(CnipMatcher(c), Return([d |-> "cn"]))
                   \o Jump(<<>>, "LOCAL_IP")

-----------------------------------------------------------------------------
(* DNS (dns.rs). *)

DnsReturn(c) == ForEach(DnsProtos(c) \ (IF Enhance(c) THEN {"tcp"} ELSE {}),
                        LAMBDA p : Return([p |-> p, dport |-> "53"]))
DnsTproxy(c) == ForEach(DnsProtos(c) \cap MangleProtos(c),
                        LAMBDA p : Tproxy([p |-> p, dport |-> "53"]))
DnsMark(c)   == ForEach(DnsProtos(c) \cap MangleProtos(c),
                        LAMBDA p : Mark([p |-> p, dport |-> "53"], "FWMARK"))

MangleDns(c, capture) ==
  IF DnsRedirect(c) \/ DnsDisable(c) \/ DnsForward(c) THEN DnsReturn(c) ELSE capture

DnsNatRules(c, protos, inbound) ==
  When(inbound /\ c.family = "V4", ForEach(BlockedInterfaces, LAMBDA i : Return([i |-> i])))
  \o ForEach(protos, LAMBDA p : Rule([p |-> p, dport |-> "53"], "REDIRECT", "dns"))

DnsNatEnabled(c) == (DnsRedirect(c) \/ DnsForward(c)) /\ NatUsable(c)

HijackPre(c) == DnsNatRules(c, DnsProtos(c), TRUE)
\* Mutant: the chain forgets to let the core's own queries go.
HijackOutBug(c) == DnsNatRules(c, DnsProtos(c), FALSE)
HijackOut(c) == CoreBypass(c) \o DnsNatRules(c, DnsProtos(c), FALSE)
ForwardOut(c) == CoreBypass(c) \o DnsNatRules(c, DnsProtos(c) \cap {"udp"}, TRUE)

-----------------------------------------------------------------------------
(* Packets of this host (local_proxy.rs). *)

CnipForce(c, protos, action) ==
  When(CnipMatcher(c) /\ c.cnip_force_uids # {},
       IF c.cnip = "ebpf"
       THEN ForEach(protos, LAMBDA p : Do(action, [p |-> p, d |-> "cn", app |-> c.cnip_force_uids]))
       ELSE ForEach(c.cnip_force_uids, LAMBDA u :
              ForEach(protos, LAMBDA p : Do(action, [p |-> p, d |-> "cn", uid |-> u]))))

ProtocolRules(protos, on, action) ==
  ForEach(protos, LAMBDA p : Do(action, Also([p |-> p], on)))

\* What the owner rules match: the application map, or one rule for each user.
Uids(c) == IF AppUidEbpf(c) THEN {[app |-> c.selected_uids]}
           ELSE {[uid |-> u] : u \in c.selected_uids}
Gids(c) == {[gid |-> g] : g \in c.selected_gids}
System  == {[uid |-> u] : u \in SystemUids}

LocalProxyRules(c, protos, action) ==
  LET Take(on) == ProtocolRules(protos, on, action)
  IN  CASE c.proxy_mode = "blacklist" ->
             ForEach(Uids(c), Return) \o ForEach(Gids(c), Return) \o Take(<<>>)
        [] c.proxy_mode = "whitelist" /\ (c.selected_uids # {} \/ c.selected_gids # {}) ->
             ForEach(Uids(c), Take) \o ForEach(System, Take) \o ForEach(Gids(c), Take)
        [] OTHER -> Take(<<>>)

-----------------------------------------------------------------------------
(* Packets that come in (external.rs). *)

IgnoredInterfaces(c) == ForEach(BlockedInterfaces, LAMBDA i : Return([i |-> i]))

ApRules(c, protos, blockAll, action) ==
  IF ~c.mac_filter THEN ProtocolRules(protos, <<>>, action)
  ELSE ForEach(ApInterfaces, LAMBDA i :
         IF c.mac_mode = "whitelist"
         THEN ForEach(Macs, LAMBDA m : ProtocolRules(protos, [i |-> i, mac |-> m], action))
         ELSE ForEach(Macs, LAMBDA m :
                IF blockAll THEN Return([i |-> i, mac |-> m])
                ELSE ProtocolRules(protos, [i |-> i, mac |-> m], "Return"))
              \o ProtocolRules(protos, [i |-> i], action))

ExternalTail(c, protos, blockAll, action) ==
  CommonBypass(c) \o IgnoredInterfaces(c)
  \o ProtocolRules(protos, [i |-> "lo"], action)
  \o ApRules(c, protos, blockAll, action)

-----------------------------------------------------------------------------
(* The nat chains of redirect, mixed and enhance. *)

RedirectExternal(c) ==
  ReplyBypass(c) \o ExternalTail(c, Protos(c) \cap {"tcp"}, TRUE, "Redirect")

\* Mutant: the applications' rules come before the destinations'.
RedirectLocalOrderBug(c) ==
  SetupLocalChainCommon(c) \o ReplyBypass(c)
  \o CnipForce(c, Protos(c) \cap {"tcp"}, "Redirect")
  \o LocalProxyRules(c, Protos(c) \cap {"tcp"}, "Redirect") \o CommonBypass(c)
RedirectLocal(c) ==
  SetupLocalChainCommon(c) \o ReplyBypass(c)
  \o CnipForce(c, Protos(c) \cap {"tcp"}, "Redirect") \o CommonBypass(c)
  \o LocalProxyRules(c, Protos(c) \cap {"tcp"}, "Redirect")

-----------------------------------------------------------------------------
(* The mangle chains of tproxy and enhance. *)

FakeIp6(c, action) == When(c.family = "V6" /\ c.fake_ip /\ c.bin_name = "mihomo",
                           ProtocolRules(MangleProtos(c), [d |-> "fake"], action))

\* Mutant: the DNS rules come after the rest, which lets destinations go.
TproxyExternalLateDnsBug(c) ==
  ReplyBypass(c) \o FakeIp6(c, "Tproxy")
  \o ExternalTail(c, MangleProtos(c), FALSE, "Tproxy") \o MangleDns(c, DnsTproxy(c))
\* Mutant: the chain and the local address chain it jumps to forget replies.
TproxyExternalReplyBug(c) ==
  MangleDns(c, DnsTproxy(c)) \o FakeIp6(c, "Tproxy")
  \o ExternalTail(c, MangleProtos(c), FALSE, "Tproxy")
TproxyExternal(c) ==
  ReplyBypass(c) \o MangleDns(c, DnsTproxy(c)) \o FakeIp6(c, "Tproxy")
  \o ExternalTail(c, MangleProtos(c), FALSE, "Tproxy")

\* Mutant: the applications' rules replace the rule for queries.
TproxyLocalDnsBug(c) ==
  SetupLocalChainCommon(c) \o ReplyBypass(c) \o FakeIp6(c, "Mark")
  \o CnipForce(c, MangleProtos(c), "MarkReturn") \o CommonBypass(c)
  \o LocalProxyRules(c, MangleProtos(c), "Mark")
TproxyLocal(c) ==
  SetupLocalChainCommon(c) \o ReplyBypass(c) \o MangleDns(c, DnsMark(c))
  \o FakeIp6(c, "Mark") \o CnipForce(c, MangleProtos(c), "MarkReturn")
  \o CommonBypass(c) \o LocalProxyRules(c, MangleProtos(c), "Mark")

\* Performance mode decides a connection's first packets in chains of their
\* own, remembers the decision in the connection's mark and dispatches by it.
PerfDest(c) ==
  NonDnsAccept([d |-> "subnet"])
  \o When(CnipMatcher(c), NonDnsAccept([d |-> "cn"]))
  \o When(c.addrtype, NonDnsAccept([d |-> "LOCAL"]))
  \o When(~c.loopback_listed, NonDnsAccept([d |-> "loopback"]))

PerfPreIf(c) ==
  ForEach(BlockedInterfaces, LAMBDA i : Accept([i |-> i])) \o Return([i |-> "lo"])
  \o IF ~c.mac_filter THEN Return(<<>>)
     ELSE ForEach(ApInterfaces, LAMBDA i :
            IF c.mac_mode = "whitelist"
            THEN ForEach(Macs, LAMBDA m : Return([i |-> i, mac |-> m])) \o Accept([i |-> i])
            ELSE ForEach(Macs, LAMBDA m : Accept([i |-> i, mac |-> m])) \o Return([i |-> i]))
          \o Accept(<<>>)

\* Mutant: the whitelist ends with its ACCEPT only if it names users.
PerfOutAppBug(c) ==
  CASE c.proxy_mode = "blacklist" -> ForEach(Uids(c), Accept) \o ForEach(Gids(c), Accept)
    [] c.proxy_mode = "whitelist" ->
         ForEach(Uids(c), Return) \o ForEach(Gids(c), Return)
         \o When(c.selected_gids = {} /\ c.selected_uids # {}, Accept(<<>>))
    [] OTHER -> <<>>
PerfOutApp(c) ==
  CASE c.proxy_mode = "blacklist" -> ForEach(Uids(c), Accept) \o ForEach(Gids(c), Accept)
    [] c.proxy_mode = "whitelist" ->
         ForEach(Uids(c), Return)
         \o When(c.selected_uids # {}, ForEach(System, Return))
         \o ForEach(Gids(c), Return)
         \o When(c.selected_uids # {} \/ c.selected_gids # {}, Accept(<<>>))
    [] OTHER -> <<>>

PerfJumps(c, targets) ==
  FlattenSeq([i \in DOMAIN targets |->
    ForEach(MangleProtos(c), LAMBDA p :
      Jump(IF p = "tcp" THEN [p |-> p, syn |-> TRUE] ELSE [p |-> p, new |-> TRUE],
           targets[i]))])

\* Mutant: only TCP connections are remembered.
PerfConnmarkTcpBug(c) == Connmark([p |-> "tcp", new |-> TRUE], "FWMARK")
\* Mutant: packets of any state decide again.
PerfConnmarkStateBug(c) == ForEach(MangleProtos(c), LAMBDA p : Connmark([p |-> p], "FWMARK"))
PerfConnmark(c) == ForEach(MangleProtos(c), LAMBDA p :
                     Connmark([p |-> p, new |-> TRUE], "FWMARK"))

PerfDispatch(c, action) == ForEach(MangleProtos(c), LAMBDA p :
                             Do(action, [p |-> p, connmark |-> "FWMARK"]))

PerfExternal(c) ==
  ReplyBypass(c) \o MangleDns(c, DnsTproxy(c)) \o FakeIp6(c, "Tproxy")
  \o PerfJumps(c, <<"BOX_TP_PRE_IP", "BOX_TP_PRE_IF">>)
  \o PerfConnmark(c) \o PerfDispatch(c, "Tproxy")

PerfLocal(c) ==
  SetupLocalChainCommon(c) \o ReplyBypass(c) \o FakeIp6(c, "Mark")
  \o CnipForce(c, MangleProtos(c), "MarkReturn")
  \o PerfJumps(c, <<"BOX_TP_OUT_IP", "BOX_TP_OUT_APP">>)
  \o MangleDns(c, DnsMark(c)) \o PerfConnmark(c) \o PerfDispatch(c, "Mark")

DivertWanted(c) == ~Enhance(c) /\ c.socket_match /\ PerfChains(c)

-----------------------------------------------------------------------------
(* The mangle chains of tun, when boxctl manages its routes (tun.rs). *)

TunInterfacePolicy(c) ==
  ForEach(BlockedInterfaces, LAMBDA i : MarkReturn([i |-> i], "TUN_BYPASS"))
  \o When(c.mac_filter,
       ForEach(ApInterfaces, LAMBDA i :
         IF c.mac_mode = "whitelist"
         THEN ForEach(Macs, LAMBDA m : Mark([i |-> i, mac |-> m], "TUN_ROUTE"))
              \o MarkReturn([i |-> i], "TUN_BYPASS")
         ELSE ForEach(Macs, LAMBDA m : MarkReturn([i |-> i, mac |-> m], "TUN_BYPASS"))
              \o Mark([i |-> i], "TUN_ROUTE"))
       \o Return([mark |-> "TUN_BYPASS"]))

TunDns(c) == When(~DnsDisable(c), ForEach(DnsProtos(c), LAMBDA p :
               MarkReturn([p |-> p, dport |-> "53"], "TUN_ROUTE")))

TunBypassDestination(c) ==
  When(c.fake_ip, MarkReturn([d |-> "fake"], "TUN_ROUTE"))
  \o Return([d |-> "subnet"])
  \o When(CnipMatcher(c), Mark([d |-> "cn"], "TUN_BYPASS"))
  \o Return([mark |-> "TUN_BYPASS"]) \o Mark(<<>>, "TUN_ROUTE")

TunProxyMode(c) ==
  LET Take(on) == Mark(on, "TUN_ROUTE")
      Users == {[uid |-> u] : u \in c.selected_uids}
  IN  CASE c.proxy_mode = "blacklist" -> ForEach(Users, Return) \o ForEach(Gids(c), Return)
        [] c.proxy_mode = "whitelist" -> ForEach(Users, Take) \o ForEach(Gids(c), Take)
             \o When(c.selected_uids # {} \/ c.selected_gids # {}, Return(<<>>))
        [] OTHER -> <<>>

TunPre(c) == Return([i |-> "tun"]) \o TunInterfacePolicy(c) \o TunDns(c)
             \o TunBypassDestination(c)
TunOut(c) == CoreBypass(c) \o TunDns(c)
             \o CnipForce(c, Protos(c), "TunRoute")
             \o TunProxyMode(c) \o TunBypassDestination(c)

-----------------------------------------------------------------------------
(* The tables one family gets: start_redirect, start_tproxy, start_tun_bypass. *)

RedirectUp(c) == RedirectMode(c) /\ NatUsable(c)
TproxyUp(c)   == TproxyMode(c) /\ c.tproxy
TunUp(c)      == c.network_mode = "tun" /\ TunManaged(c)
\* start_tproxy refuses IPv4 without the target; IPv6 goes without the chains.
ApplyFails(c) == TproxyMode(c) /\ ~c.tproxy /\ c.family = "V4"
DnsNatUp(c)   == DnsNatEnabled(c) /\ (RedirectUp(c) \/ TproxyUp(c))

FakeIpIcmp(c) == When(TproxyUp(c) /\ c.family = "V4" /\ c.fake_ip,
                      Rule([d |-> "fake", p |-> "icmp"], "DNAT", "icmp"))

LoopbackReject(c) ==
  CASE c.owner = "both" -> Reject([d |-> "loopback", p |-> "tcp", uid |-> BoxUid,
                                   gid |-> BoxGid, dport |-> "inbound"])
    [] c.owner = "uid"  -> Reject([d |-> "loopback", p |-> "tcp", uid |-> BoxUid,
                                   dport |-> "inbound"])
    [] c.owner = "gid"  -> Reject([d |-> "loopback", p |-> "tcp", gid |-> BoxGid,
                                   dport |-> "inbound"])
    [] c.owner = "none" -> <<>>

QuicBlock(c) == When(c.quic_disable /\ c.proxy_udp, Reject([p |-> "udp", dport |-> "443"]))

\* A jump is inserted at the head of a built-in chain: the latest comes first.
NatChains(c) ==
  [PREROUTING   |-> FakeIpIcmp(c) \o When(RedirectUp(c), Jump(<<>>, "BOX_EXTERNAL"))
                    \o When(DnsNatUp(c) /\ DnsRedirect(c), Jump(<<>>, "NAT_DNS_HIJACK")),
   OUTPUT       |-> FakeIpIcmp(c) \o When(RedirectUp(c), Jump(<<>>, "BOX_LOCAL"))
                    \o When(DnsNatUp(c), Jump(<<>>, "NAT_DNS_OUT")),
   BOX_EXTERNAL |-> RedirectExternal(c),
   BOX_LOCAL    |-> RedirectLocal(c),
   LOCAL_IP     |-> LocalIpChain("nat_local_ip"),
   NAT_DNS_HIJACK |-> HijackPre(c),
   NAT_DNS_OUT  |-> IF DnsRedirect(c) THEN HijackOut(c) ELSE ForwardOut(c)]

MangleChains(c) ==
  [PREROUTING   |-> When(TproxyUp(c) /\ DivertWanted(c),
                         Jump([p |-> "tcp", socket |-> TRUE], "DIVERT"))
                    \o When(TproxyUp(c), Jump(<<>>, "BOX_EXTERNAL"))
                    \o When(TunUp(c), Jump(<<>>, "BOX_TUN_BYPASS_PRE")),
   OUTPUT       |-> When(TproxyUp(c), Jump(<<>>, "BOX_LOCAL"))
                    \o When(TunUp(c), Jump(<<>>, "BOX_TUN_BYPASS_OUT")),
   DIVERT       |-> Mark(<<>>, "FWMARK") \o Accept(<<>>),
   BOX_EXTERNAL |-> IF PerfChains(c) THEN PerfExternal(c) ELSE TproxyExternal(c),
   BOX_LOCAL    |-> IF PerfChains(c) THEN PerfLocal(c) ELSE TproxyLocal(c),
   LOCAL_IP     |-> LocalIpChain("mangle_local_ip"),
   BOX_TP_PRE_IP  |-> PerfDest(c),
   BOX_TP_PRE_IF  |-> PerfPreIf(c),
   BOX_TP_OUT_IP  |-> PerfDest(c),
   BOX_TP_OUT_APP |-> PerfOutApp(c),
   BOX_TUN_BYPASS_PRE |-> TunPre(c),
   BOX_TUN_BYPASS_OUT |-> TunOut(c)]

FilterChains(c) ==
  [OUTPUT |-> When(RedirectUp(c) \/ (TproxyUp(c) /\ ~Enhance(c)), LoopbackReject(c))
              \o When(TproxyUp(c), QuicBlock(c))]

Tables(c) == [nat |-> NatChains(c), mangle |-> MangleChains(c), filter |-> FilterChains(c)]
=============================================================================
