----------------------------- MODULE MCBoxControl -----------------------------
(***************************************************************************)
(* Instances of BoxControl for TLC: a user's boxctl and the monitor's, two *)
(* core processes of one program, and configurations to edit between.      *)
(***************************************************************************)
EXTENDS BoxControl, TLC

CONSTANTS user, monitor, mihomo

MCBinOf == [p \in Pid |-> mihomo]

\* The pids are alike: both run the one program.
Symmetry == Permutations(Pid)

=============================================================================
