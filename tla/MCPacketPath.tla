---------------------------- MODULE MCPacketPath -----------------------------
(* Settings and connections for TLC: every mode, with and without performance *)
(* mode, crossed with one choice at a time of the other settings.             *)
EXTENDS PacketPath

Base ==
  [family |-> "V4", proxy_mode |-> "core", proxy_tcp |-> TRUE, proxy_udp |-> TRUE,
   dns_hijack_mode |-> "tproxy", dns_hijack_tcp |-> TRUE, dns_hijack_udp |-> TRUE,
   mihomo_dns_forward |-> FALSE, bin_name |-> "mihomo", fake_ip |-> TRUE,
   mac_filter |-> FALSE, mac_mode |-> "blacklist", cnip |-> "off", quic_disable |-> FALSE,
   selected_uids |-> {}, selected_gids |-> {}, cnip_force_uids |-> {},
   conntrack_match |-> TRUE, connmark |-> TRUE, socket_match |-> TRUE,
   socket_transparent |-> TRUE, addrtype |-> TRUE, owner |-> "both", ip6_nat |-> TRUE,
   tproxy |-> TRUE, app_pin_loaded |-> FALSE, loopback_listed |-> TRUE]

Black == [proxy_mode |-> "blacklist", selected_uids |-> {"app"}, selected_gids |-> {"net"}]
White == [proxy_mode |-> "whitelist", selected_uids |-> {"app"}, selected_gids |-> {"net"}]
Force == [cnip_force_uids |-> {"force"}]

Variations ==
  {<<>>, Black, White, [app_pin_loaded |-> TRUE] @@ Black, [app_pin_loaded |-> TRUE] @@ White,
   [cnip |-> "ipset"] @@ Force @@ White, [cnip |-> "ebpf"] @@ Force @@ Black,
   [cnip |-> "unmatched"] @@ Black,
   [proxy_mode |-> "whitelist"], [proxy_mode |-> "whitelist", selected_gids |-> {"net"}],
   [dns_hijack_mode |-> "redirect"], [dns_hijack_mode |-> "redirect"] @@ White,
   [dns_hijack_mode |-> "disable", cnip |-> "ipset"], [mihomo_dns_forward |-> TRUE],
   [dns_hijack_tcp |-> FALSE, cnip |-> "ebpf"] @@ Black, [dns_hijack_udp |-> FALSE],
   [mac_filter |-> TRUE], [mac_filter |-> TRUE, mac_mode |-> "whitelist", cnip |-> "ipset"],
   [family |-> "V6"], [family |-> "V6", dns_hijack_mode |-> "disable"], [family |-> "V6", ip6_nat |-> FALSE, dns_hijack_mode |-> "redirect"],
   [family |-> "V6", tproxy |-> FALSE, dns_hijack_mode |-> "redirect"] @@ White, [tproxy |-> FALSE],
   [owner |-> "uid", cnip |-> "ipset"], [owner |-> "gid"] @@ Black,
   [owner |-> "none", dns_hijack_mode |-> "redirect"],
   [addrtype |-> FALSE, loopback_listed |-> FALSE], [socket_transparent |-> FALSE],
   [proxy_tcp |-> FALSE], [proxy_udp |-> FALSE], [quic_disable |-> TRUE]}

With(m, p, o) == [network_mode |-> m, performance_mode |-> p] @@ o @@ Base

MCSettings ==
  {With(m, FALSE, o) : m \in {"redirect", "tproxy", "enhance", "tun"}, o \in Variations}
  \cup {With(m, TRUE, o) : m \in {"tproxy", "enhance"}, o \in Variations}
  \cup {With("redirect", TRUE, [app_pin_loaded |-> TRUE] @@ White), With("mixed", FALSE, Black)}

App(uid, gid, proto, dport, dst) ==
  [iface |-> "none", uid |-> uid, gid |-> gid, mac |-> "none", proto |-> proto, dport |-> dport, dst |-> dst]
From(iface, mac, proto, dport, dst) ==
  [iface |-> iface, uid |-> "none", gid |-> "none", mac |-> mac, proto |-> proto, dport |-> dport, dst |-> dst]

Users == {<<"app", "app">>, <<"plain", "net">>, <<"plain", "plain">>, <<"0", "3005">>}

MCFlows ==
  {App(u[1], u[2], p, d, "public") : u \in Users, p \in {"tcp", "udp"}, d \in {"any", "53"}}
  \cup {App("app", "app", p, "any", dst) : p \in {"tcp", "udp"}, dst \in {"cn", "subnet"}}
  \cup {App("plain", "plain", p, "any", dst) :
          p \in {"tcp", "udp"}, dst \in {"cn", "subnet", "home", "fake"}}
  \cup {App("plain", "plain", p, "53", "home") : p \in {"tcp", "udp"}}
  \cup {App("force", "force", p, "any", "cn") : p \in {"tcp", "udp"}}
  \cup {App("0", "0", "tcp", "any", "public"), App("plain", "plain", "udp", "443", "public"),
        App("0", "3005", "tcp", "inbound", "loopback"), App("plain", "plain", "icmp", "any", "fake"),
        App("0", "3005", "icmp", "any", "fake"),
        App("app", "app", "tcp", "any", "loopback"), App("app", "app", "udp", "53", "subnet"),
        App("plain", "plain", "udp", "53", "fake"), App("plain", "3005", "udp", "any", "public"),
        App("plain", "3005", "udp", "53", "public")}
  \cup {From("ap", m, p, "any", dst) :
          m \in {"m1", "m2"}, p \in {"tcp", "udp"}, dst \in {"public", "subnet", "cn"}}
  \cup {From("ap", "m1", "udp", "53", "public"), From("blk", "m2", "tcp", "any", "public"),
        From("blk", "m2", "udp", "53", "public"), From("wan", "none", "tcp", "any", "host")}

\* Walk follows jumps two deep: a chain the system's jump to may jump to others, and
\* these jump nowhere.
Jumps(X, n) == {X[n][i].arg : i \in {j \in DOMAIN X[n] : X[n][j].target = "JUMP"}}

ASSUME JumpsAssumption ==
  \A s \in Settings, k \in {"nat", "mangle", "filter"} :
    LET X == Tables(s)[k]
    IN  \A b \in {"PREROUTING", "OUTPUT", "FORWARD"} \cap DOMAIN X :
          \A x \in Jumps(X, b) : \A y \in Jumps(X, x) : Jumps(X, y) = {}
=============================================================================
