----------------------------- MODULE PacketPath ------------------------------
(* One connection's packets through the chains RuleChains builds: where each   *)
(* packet ends, while rules come and go, connection tracking forgets, and the  *)
(* phone's addresses change.                                                   *)
EXTENDS RuleChains

CONSTANTS Settings,     \* the settings, capabilities and contexts considered
          Flows         \* the connections considered

\* What comes in on an interface has come from elsewhere: lo carries only what this host
\* sends to itself.
ASSUME FlowsAssumption == \A x \in Flows : x.iface # "lo"

\* Lists are finite, and the kernel's owner match is one of the four the
\* capabilities tell apart.
ASSUME ListsAssumption ==
  /\ IsFiniteSet(ApInterfaces) /\ IsFiniteSet(BlockedInterfaces) /\ IsFiniteSet(Macs)
  /\ \A s \in Settings :
       /\ s.owner \in {"both", "uid", "gid", "none"}
       /\ IsFiniteSet(s.selected_uids) /\ IsFiniteSet(s.selected_gids)
       /\ IsFiniteSet(s.cnip_force_uids)

VARIABLES c,            \* the settings in force
          chains,       \* the chains apply builds from them
          f,            \* the connection
          up,           \* the rules are in place
          addr,         \* the addresses against those the rules were built with
          answered,     \* the connection has been answered: TCP's handshake is over
          ct,           \* its conntrack entry: none, new (no reply yet), est
          cmark,        \* the entry's connmark
          nat,          \* what the nat table decided for the entry
          born,         \* the entry began with an opening packet under these rules
          fate,         \* where the last packet sent under these rules went
          back          \* where the last reply under these rules went

vars == <<c, chains, f, up, addr, answered, ct, cmark, nat, born, fate, back>>

NoRules == [nat    |-> [PREROUTING |-> <<>>, OUTPUT |-> <<>>],
            mangle |-> [PREROUTING |-> <<>>, OUTPUT |-> <<>>],
            filter |-> [OUTPUT |-> <<>>]]
T == IF up THEN chains ELSE NoRules

Local(x) == x.iface = "none"
IsCore(x) == Local(x) /\ x.uid = BoxUid /\ x.gid = BoxGid

\* The address classes of a destination.  The subnets are read when the rules
\* are built; LOCAL_IP is rebuilt by a refresh, but nat's not for IPv6.
Classes(dst) ==
  CASE dst \in {"home", "host"} ->
         {k \in {"subnet", "mangle_local_ip", "nat_local_ip", "LOCAL"} :
            CASE k = "subnet"          -> addr = "applied"
              [] k = "mangle_local_ip" -> addr # "moved"
              [] k = "nat_local_ip"    -> addr = "applied" \/ (addr = "refreshed" /\ c.family = "V4")
              [] k = "LOCAL"           -> dst = "host"}
    [] dst = "loopback" -> {"loopback", "LOCAL"} \cup (IF c.loopback_listed THEN {"subnet"} ELSE {})
    [] OTHER -> {dst}

Packet(iface, uid, gid, mac, dport, dst, syn, reply) ==
  [proto |-> f.proto, dport |-> dport, to |-> Classes(dst), iface |-> iface, mac |-> mac,
   uid |-> uid, gid |-> gid, syn |-> syn, new |-> ct # "est", reply |-> reply,
   socket |-> fate = "tproxy" /\ ct = "est" /\ ~reply,
   mark |-> {}, cmark |-> cmark, verdict |-> "CONTINUE", port |-> "none"]

-----------------------------------------------------------------------------
(* Routing: the ip rules of routing.rs, after the kernel's own local table.  *)

Marked(p, m) == Bits(m) \subseteq p.mark
OnLink(dst) == dst \in {"home", "host", "loopback"}     \* routes of table main
TunRoute(p, dst) == IF TunUp(c) /\ up /\ Marked(p, "TUN_ROUTE")
                       /\ ~(Marked(p, "TUN_BYPASS") /\ OnLink(dst))
                    THEN "tun" ELSE "direct"

\* The nat table is asked for a connection's first packet only.
NatVerdict(chain, p) ==
  IF ct # "none" THEN nat
  ELSE LET q == Walk(T.nat, chain, p)
       IN  IF q.verdict \in {"REDIRECT", "DNAT"} THEN q.port ELSE "direct"

\* Where a packet goes that comes in on an interface, lo included.
Incoming(p, dst) ==
  LET m == Walk(T.mangle, "PREROUTING", p)
      n == IF p.iface = "lo" THEN "direct" ELSE IF p.reply THEN nat ELSE NatVerdict("PREROUTING", m)
  IN  [mark |-> m.cmark, nat |-> n,
       fate |-> IF m.verdict = "TPROXY" \/ (p.socket /\ Marked(m, "FWMARK"))
              THEN IF n # "direct" /\ ~p.reply THEN "both" ELSE "tproxy"
              ELSE IF n # "direct" /\ ~p.reply THEN n ELSE TunRoute(m, dst)]

\* Where a packet of this host goes: mangle OUTPUT, the route its mark takes,
\* nat OUTPUT, filter OUTPUT; what is marked for TPROXY comes back on lo.
Outgoing(p, dst) ==
  LET m == Walk(T.mangle, "OUTPUT", p)
      n == IF p.reply THEN nat ELSE NatVerdict("OUTPUT", m)
      r == Walk(T.filter, "OUTPUT", m)
      turned == up /\ TproxyUp(c) /\ Marked(m, "FWMARK")
      lo == Incoming([m EXCEPT !.iface = "lo", !.uid = "none", !.gid = "none"], dst)
  IN  [mark |-> IF turned THEN lo.mark ELSE m.cmark, nat |-> n,
       fate |-> IF r.verdict = "REJECT" THEN "reject"
              ELSE IF n # "direct" /\ ~p.reply THEN IF turned THEN "both" ELSE n
              ELSE IF turned THEN IF lo.fate = "tproxy" THEN "tproxy" ELSE "lost"
              ELSE TunRoute(m, dst)]

-----------------------------------------------------------------------------
Init == /\ c \in Settings /\ chains = Tables(c) /\ f \in Flows
        /\ up = FALSE /\ addr = "applied" /\ answered = FALSE
        /\ ct = "none" /\ cmark = {} /\ nat = "direct"
        /\ born = FALSE /\ fate = "none" /\ back = "none"

\* Nothing has been decided under the new rules or the new addresses.
Forget == born' = FALSE /\ fate' = "none" /\ back' = "none"

ApplyRules == /\ ~up /\ ~ApplyFails(c)
              /\ up' = TRUE /\ addr' = "applied"
              /\ Forget
              /\ UNCHANGED <<c, chains, f, answered, ct, cmark, nat>>

ClearRules == /\ up
              /\ up' = FALSE
              /\ Forget
              /\ UNCHANGED <<c, chains, f, addr, answered, ct, cmark, nat>>

\* The phone gets other addresses: its connections are gone with the old ones.
Move == /\ up /\ addr # "moved"
        /\ addr' = "moved"
        /\ answered' = FALSE /\ ct' = "none" /\ cmark' = {} /\ nat' = "direct"
        /\ Forget
        /\ UNCHANGED <<c, chains, f, up>>

\* refresh_local_ip_rules, called by the network monitor.
RefreshLocalIp == /\ up /\ addr = "moved" /\ (RedirectMode(c) \/ TproxyMode(c))
                  /\ addr' = "refreshed"
                  /\ Forget
                  /\ UNCHANGED <<c, chains, f, up, answered, ct, cmark, nat>>

\* The connection sends a packet; a TCP connection opens with a SYN and may
\* send it again until it is answered.
Send ==
  /\ LET syn == f.proto = "tcp" /\ ~answered
         p == Packet(f.iface, f.uid, f.gid, f.mac, f.dport, f.dst, syn, FALSE)
         r == IF Local(f) THEN Outgoing(p, f.dst) ELSE Incoming(p, f.dst)
     IN  /\ fate' = IF up THEN r.fate ELSE "none"
         /\ IF r.fate = "reject" THEN UNCHANGED <<ct, cmark, nat>>
            ELSE /\ ct' = IF ct = "none" THEN "new" ELSE ct
                 /\ cmark' = r.mark
                 /\ nat' = r.nat
  /\ born' = IF ct = "none" THEN up /\ ~(f.proto = "tcp" /\ answered) ELSE born
  /\ UNCHANGED <<c, chains, f, up, addr, answered, back>>

\* The answer: from the network, from the tun device, or from the core itself,
\* which answers in the place of the destination it took the connection from.
Answer ==
  /\ ct # "none" /\ fate \notin {"reject", "lost", "both", "icmp"}
  /\ LET dst == IF Local(f) THEN "host" ELSE "home"
         from == IF fate = "tun" THEN "tun" ELSE "wan"
         r == IF fate \in {"tproxy", "redir", "dns"}
              THEN Outgoing(Packet("none", BoxUid, BoxGid, "none", "other", dst, FALSE, TRUE), dst)
              ELSE Incoming(Packet(from, "none", "none", "none", "other", dst, FALSE, TRUE), dst)
     IN  back' = IF up THEN r.fate ELSE "none"
  /\ ct' = "est" /\ answered' = TRUE
  /\ UNCHANGED <<c, chains, f, up, addr, cmark, nat, born, fate>>

\* Connection tracking forgets an idle connection, which goes on after that.
Expire == /\ ct # "none"
          /\ ct' = "none" /\ cmark' = {} /\ nat' = "direct"
          /\ UNCHANGED <<c, chains, f, up, addr, answered, born, fate, back>>

Next == \/ ApplyRules \/ ClearRules \/ Move \/ RefreshLocalIp
        \/ Send \/ Answer \/ Expire

Spec == Init /\ [][Next]_vars

-----------------------------------------------------------------------------
(* Words the properties are stated in, from the settings and not the chains. *)

Settled  == up /\ born /\ fate # "none"
Captured == fate \in {"redir", "tproxy", "dns", "tun"}
Dns      == f.dport = "53"
Forced   == Local(f) /\ f.uid \in c.cnip_force_uids /\ f.dst = "cn" /\ CnipMatcher(c)
Tun      == c.network_mode = "tun"

\* The mode takes connections of the flow's protocol.
Proxied == CASE c.network_mode \in {"redirect", "mixed"} -> RedirectUp(c) /\ f.proto \in Protos(c) \cap {"tcp"}
             [] c.network_mode = "tproxy" -> TproxyUp(c) /\ f.proto \in Protos(c)
             [] c.network_mode = "enhance" ->
                  /\ f.proto \in Protos(c)
                  /\ IF f.proto = "tcp" THEN RedirectUp(c) ELSE TproxyUp(c)
             [] c.network_mode = "tun" -> TunManaged(c)

Listed == f.uid \in c.selected_uids \/ f.gid \in c.selected_gids
NoList == c.selected_uids = {} /\ c.selected_gids = {}

\* The application, or the hotspot client, is one the user left to itself.
LeftOut == IF Local(f)
           THEN CASE c.proxy_mode = "blacklist" -> Listed
                  [] c.proxy_mode = "whitelist" -> ~NoList /\ ~Listed /\ f.uid \notin SystemUids
                  [] OTHER -> FALSE
           ELSE \/ f.iface \in BlockedInterfaces
                \/ c.mac_filter /\ f.iface \in ApInterfaces
                   /\ (f.mac \in Macs) # (c.mac_mode = "whitelist")

\* ... or one the user chose.
Chosen == IF Local(f)
          THEN CASE c.proxy_mode = "blacklist" -> ~Listed
                 [] c.proxy_mode = "whitelist" -> NoList \/ Listed
                 [] OTHER -> TRUE
          ELSE f.iface \in ApInterfaces /\ ~LeftOut

\* A destination the rules let go, as far as they know the phone's addresses.
\* Chains of performance mode and of tun do not look at LOCAL_IP.
Near == f.dst \in {"home", "host"} /\
        \/ addr = "applied"
        \/ addr = "refreshed" /\ c.family = "V4" /\ ~PerfChains(c) /\ ~Tun
Bypassed == f.dst = "subnet" \/ (f.dst = "cn" /\ CnipMatcher(c)) \/ Near

\* In tun mode the owner and the MAC rules are taken before the destination's.
TunChoosesFirst == Tun /\ IF Local(f) THEN c.proxy_mode = "whitelist" /\ Listed
                                      ELSE c.mac_filter /\ f.iface \in ApInterfaces

\* With half of an owner match the rules know the core by half of its identity, and
\* whoever shares that half is let go with it (add_core_bypass_rule).
TakenForTheCore == Local(f) /\ \/ c.owner = "uid" /\ f.uid = BoxUid
                               \/ c.owner = "gid" /\ f.gid = BoxGid

\* The user listed lo among the blocked interfaces, which validation allows: PREROUTING
\* lets go what OUTPUT has marked and routing has sent back.
LoBlocked == TproxyUp(c) /\ "lo" \in BlockedInterfaces

\* What goes to a bypassed destination (the intranet, the phone's and the
\* hotspot's own networks, China's addresses) is not taken, whoever sends it and
\* in whichever mode: only DNS and the applications forced past the China list
\* are (append_common_bypass_rules, setup_perf_dest_chain, tun.rs).
BypassedLeftAlone ==
  Settled /\ Bypassed /\ ~Dns /\ ~Forced /\ ~TunChoosesFirst => ~Captured

\* The traffic of an application or a hotspot client that the user left out is
\* not taken in any mode, DNS apart (apply_local_proxy_rules,
\* setup_perf_out_app_chain, append_tun_proxy_mode_rules, the MAC rules).
LeftOutLeftAlone ==
  Settled /\ LeftOut /\ ~Dns /\ ~Forced
    /\ ~(f.dst = "fake" /\ c.family = "V6" /\ TproxyUp(c))
  => ~Captured

\* The traffic the user chose is taken, whichever of the chains it takes that
\* for: TCP by nat and UDP by mangle in enhance mode, both by one otherwise.
ChosenIsCaptured ==
  /\ Settled /\ Chosen /\ Proxied /\ ~IsCore(f) /\ ~TakenForTheCore /\ ~LoBlocked /\ ~Dns
  /\ f.dst = "public" \/ (f.dst = "cn" /\ ~CnipMatcher(c))
  => Captured \/ fate = "reject"

\* A query of an application goes to the core: by nat when the DNS mode is
\* redirect or mihomo's forward, by mangle when it is tproxy, by tun's table.
\* (A resolver of table main's networks escapes tun: the mark that routes to tun
\* has the bit of the mark that routes by main, whose ip rule comes first.  And
\* LOCAL_IP and performance mode let TCP queries go as they do other TCP.)
DnsIsCaptured ==
  LET hijacked == ~DnsDisable(c) /\ f.proto \in DnsProtos(c)
      byNat    == DnsNatUp(c) /\ (DnsRedirect(c) \/ f.proto = "udp")
      byMangle == TproxyUp(c) /\ ~DnsRedirect(c) /\ ~DnsForward(c) /\ f.proto \in MangleProtos(c)
  IN  /\ Settled /\ Dns /\ hijacked /\ Local(f) /\ ~IsCore(f) /\ ~TakenForTheCore
      /\ byNat \/ byMangle \/ (TunUp(c) /\ ~OnLink(f.dst))
      /\ ~(PerfChains(c) /\ byMangle /\ LeftOut)
      /\ f.proto = "udp" \/ ~(Bypassed \/ OnLink(f.dst))
      => Captured

\* The core's own packets never come back to it, whatever they carry and
\* wherever they go, when the kernel has an owner match to tell them by.  (An
\* echo of its own to an address that stands for a name is the kernel's to
\* answer, like anybody's.)
CoreNotCaptured ==
  c.owner # "none" /\ IsCore(f)
    => \/ fate \in {"none", "direct", "reject"}
       \/ fate = "icmp" /\ f.proto = "icmp" /\ f.dst = "fake"

\* Nothing the OUTPUT chains mark is refused by the PREROUTING chains when it
\* comes back on lo, and nothing is both marked and redirected: two chains that
\* are built apart agree, unless the user blocks lo itself, and with two exceptions.
\* An application forced past the China list: PREROUTING's China rule knows no users
\* and lets its packets go.  And a query to an IPv6 address that stands for a name:
\* performance mode's OUTPUT chain has the rule for these addresses before those of
\* DNS, its PREROUTING chain after.
NothingLost ==
  fate \in {"lost", "both"}
    => LoBlocked \/ Forced \/ (PerfChains(c) /\ c.family = "V6" /\ Dns /\ f.dst = "fake")

\* An answer reaches whoever asked: no chain takes it for traffic to proxy, as
\* long as LOCAL_IP is up to date or the reply bypass is in place.
RepliesLeftAlone ==
  c.owner # "none" /\ (addr # "moved" \/ PerfConntrack(c)) => back \in {"none", "direct"}

\* All packets of a connection go the same way while its conntrack entry lives;
\* when the entry is lost the way still is the same, except that performance
\* mode does not look again at a TCP connection's applications and addresses.
FateKept ==
  [][ /\ fate # "none" /\ fate' # "none"
      /\ born /\ (ct # "none" \/ ~(PerfChains(c) /\ f.proto = "tcp"))
      /\ ~(PerfChains(c) /\ Dns /\ (LeftOut \/ Bypassed))
      => fate' = fate ]_vars
=============================================================================
