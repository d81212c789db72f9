--------------------------- MODULE MCMonitorWorker ---------------------------
(***************************************************************************)
(* Instances of MonitorWorker for TLC: a network that is known by both its *)
(* names and one whose SSID the tools do not tell.                         *)
(***************************************************************************)
EXTENDS MonitorWorker

CONSTANTS home, cafe, homeSsid, homeBssid, cafeBssid, wifi

MCSsidOf == [n \in Network |-> IF n = home THEN homeSsid ELSE unknown]
MCBssidOf == [n \in Network |-> IF n = home THEN homeBssid ELSE cafeBssid]

\* The tools tell no BSSID.
MCNoBssid == [n \in Network |-> unknown]

\* On everywhere but at home.
NotAtHome ==
    [control |-> TRUE, onDisconnect |-> TRUE, onConnect |-> TRUE,
     matching |-> TRUE, whitelist |-> FALSE,
     bssids |-> {homeBssid}, ssids |-> {homeSsid}, tun |-> FALSE]

\* On at home only, which is known by its SSID.
AtHome == [NotAtHome EXCEPT !.onDisconnect = FALSE, !.whitelist = TRUE,
                            !.bssids = {}]

\* The policy is off.
Manual == [AtHome EXCEPT !.control = FALSE, !.tun = TRUE]

MCSettings == [v \in 0 .. MaxEdits |-> CASE v = 0 -> NotAtHome
                                  [] v = 1 -> Manual
                                  [] v = 2 -> AtHome]

=============================================================================
