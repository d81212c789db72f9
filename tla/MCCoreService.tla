---------------------------- MODULE MCCoreService ----------------------------
(***************************************************************************)
(* Instances of CoreService for TLC.  Three core processes are enough for a*)
(* command to crash between spawning one and recording it, a second to find*)
(* it by scanning /proc and replace it, and a reader to hold the text of   *)
(* the first while the third is recorded.                                  *)
(***************************************************************************)
EXTENDS CoreService, TLC

CONSTANTS c1, c2, p1, p2, p3, mihomo, singbox

MCCmd == {c1, c2}
MCPid == {p1, p2, p3}
MCBin == {mihomo, singbox}

\* The first and the third process run one program, the second another.
MCBinOf == [p \in MCPid |-> IF p = p2 THEN singbox ELSE mihomo]

\* Commands are interchangeable, and so are processes that run one program.
Symmetry == Permutations(MCCmd) \cup Permutations({p1, p3})

=============================================================================
