----------------------------- MODULE MCLiveRules -----------------------------
(***************************************************************************)
(* An instance of LiveRules for TLC: every kind of matcher, under modes    *)
(* with a LOCAL_IP chain in two tables, in one and in none.                *)
(***************************************************************************)
EXTENDS LiveRules, TLC

CONSTANTS a1, a2

MCSetup == {<<"enhance", "ipset">>, <<"redirect", "cnip">>, <<"tproxy", "app">>,
            <<"tun", "ipset">>}

MCAddr == {a1, a2}

MCSymmetry == Permutations(MCAddr)

=============================================================================
