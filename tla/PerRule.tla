------------------------------- MODULE PerRule -------------------------------
(***************************************************************************)
(* What building a family's chains means: "the per-rule path" (rules.rs),  *)
(* one iptables command for every chain and rule, each taking effect at    *)
(* once.  RuleBatch implements it with batches for iptables-restore.       *)
(***************************************************************************)
EXTENDS Naturals, Sequences

CONSTANTS Chain, Rule, Absent

VARIABLES
    chains,     \* the rules of each chain
    jumps,      \* chains a system chain jumps to
    calls       \* building calls so far: none may be without effect

directVars == <<chains, jumps, calls>>

Init == chains = [c \in Chain |-> Absent] /\ jumps = {} /\ calls = 0

Ensure(c) ==
    /\ chains' = [chains EXCEPT ![c] = <<>>]
    /\ calls' = calls + 1
    /\ UNCHANGED jumps

AppendRule(c, r) ==
    /\ chains[c] # Absent
    /\ chains' = [chains EXCEPT ![c] = Append(chains[c], r)]
    /\ calls' = calls + 1
    /\ UNCHANGED jumps

InsertRule(c, r) ==
    /\ chains[c] # Absent
    /\ chains' = [chains EXCEPT ![c] = <<r>> \o chains[c]]
    /\ calls' = calls + 1
    /\ UNCHANGED jumps

Jump(c) ==
    /\ chains[c] # Absent
    /\ jumps' = jumps \cup {c}
    /\ calls' = calls + 1
    /\ UNCHANGED chains

Unjump(c) ==
    /\ jumps' = jumps \ {c}
    /\ UNCHANGED <<chains, calls>>

Empty(c) ==
    /\ chains[c] # Absent
    /\ chains' = [chains EXCEPT ![c] = <<>>]
    /\ UNCHANGED <<jumps, calls>>

\* A chain that is in use or has rules cannot be deleted.
Delete(c) ==
    /\ chains[c] = <<>> /\ c \notin jumps
    /\ chains' = [chains EXCEPT ![c] = Absent]
    /\ UNCHANGED <<jumps, calls>>

Next ==
    \E c \in Chain :
        Ensure(c) \/ Jump(c) \/ Unjump(c) \/ Empty(c) \/ Delete(c) \/ \E r \in Rule : AppendRule(c, r) \/ InsertRule(c, r)

Spec == Init /\ [][Next]_directVars

=============================================================================
