------------------------------ MODULE RuleBatch ------------------------------
(***************************************************************************)
(* One family's rules built under a batch (rules/batch.rs): new chains and *)
(* appended rules of boxctl's own chains are recorded and reach the kernel *)
(* only when a command that cannot be batched - an insertion, a jump, a    *)
(* deletion - or the end of the batch flushes them, one iptables-restore   *)
(* for each table.                                                         *)
(*                                                                         *)
(* A flush that fails falls back to a command for each rule; if that fails *)
(* too, the batch keeps what it has and every later command flushes it     *)
(* again, those that undo the family's rules included.                     *)
(*                                                                         *)
(* Abstractions.  Rules are members of a set; bad ones are refused by this *)
(* kernel, always.  The order of the recorded rules is kept in each chain, *)
(* not between chains: a fallback that fails has reached any point of each.*)
(* An insertion that meets a failing flush is tried again once.            *)
(***************************************************************************)
EXTENDS Naturals, Sequences, FiniteSets

CONSTANTS
    Chain, Rule, Absent,
    Table,      \* iptables tables
    TableOf,    \* the table of each chain
    Bad,        \* rules a kernel may refuse
    Twice,      \* chains set up twice, as enhance does with NAT_DNS_HIJACK
    Batching,   \* is iptables-restore there?
    Skips,      \* is the family one whose failure is skipped (IPv6 tproxy)?
    MaxCalls    \* calls that build rules (bounds a run)

ASSUME BatchAssumption ==
    /\ TableOf \in [Chain -> Table]
    /\ Rule # {} /\ Bad \subseteq Rule /\ Twice \subseteq Chain
    /\ {Batching, Skips} \subseteq BOOLEAN
    /\ MaxCalls \in Nat
    /\ Absent \notin Seq(Rule)

VARIABLES
    bad,        \* the rules this kernel refuses
    kernel,     \* the rules of each chain
    jumps,      \* chains a system chain jumps to
    decls,      \* recorded new chains
    declared,   \* new chains flushed by this batch
    appends,    \* recorded rules of each chain
    call,       \* the unbatched command under way
    phase,      \* of the family: build, stop after a failure, end
    ensured,    \* chains set up so far
    calls       \* building calls so far

batchVars == <<bad, kernel, jumps, decls, declared, appends, call, phase, ensured, calls>>

Undo == {"unjump", "empty", "delete"}

\* An unbatched command: did the flush before it fail, will it be tried again?
Call == [op : {"insert", "jump", "end"} \cup Undo, chain : Chain, rule : Rule,
         failed : BOOLEAN, again : BOOLEAN]

NoCall == [op |-> "none"]

BatchTypeOK ==
    /\ bad \subseteq Bad
    /\ kernel \in [Chain -> Seq(Rule) \cup {Absent}]
    /\ jumps \subseteq Chain
    /\ decls \subseteq Chain /\ declared \subseteq Chain
    /\ appends \in [Chain -> Seq(Rule)]
    /\ call \in Call \cup {NoCall}
    /\ phase \in {"build", "stop", "ok", "err"}
    /\ ensured \subseteq Chain
    /\ calls \in Nat

BatchInit ==
    /\ bad \in SUBSET Bad
    /\ kernel = [c \in Chain |-> Absent]
    /\ jumps = {}
    /\ decls = {} /\ declared = {}
    /\ appends = [c \in Chain |-> <<>>]
    /\ call = NoCall
    /\ phase = "build"
    /\ ensured = {}
    /\ calls = 0

-----------------------------------------------------------------------------
(* Recording *)

Building == phase = "build" /\ call = NoCall /\ calls < MaxCalls

\* batch_record_chain: once for each chain of a batch.
RecordChain(c) == decls' = IF c \in declared THEN decls ELSE decls \cup {c}

\* ensure_chain
Ensure(c) ==
    /\ Building
    /\ c \in ensured => c \in Twice
    /\ ensured' = ensured \cup {c}
    /\ calls' = calls + 1
    /\ IF Batching
       THEN RecordChain(c) /\ UNCHANGED kernel
       ELSE kernel' = [kernel EXCEPT ![c] = <<>>] /\ UNCHANGED decls
    /\ UNCHANGED <<bad, jumps, declared, appends, call, phase>>

\* The rule is recorded together with its chain.
AppendRuleBug(c, r) ==
    /\ Building
    /\ c \in ensured
    /\ calls' = calls + 1
    /\ appends' = [appends EXCEPT ![c] = Append(appends[c], <<c, r>>)]
    /\ UNCHANGED <<bad, kernel, jumps, decls, declared, call, phase, ensured>>

\* ensure_rule_append: a refused rule shows at once only without a batch.
AppendRule(c, r) ==
    /\ Building
    /\ c \in ensured
    /\ calls' = calls + 1
    /\ IF Batching
       THEN /\ appends' = [appends EXCEPT ![c] = Append(appends[c], r)]
            /\ UNCHANGED <<kernel, phase>>
       ELSE /\ kernel' = IF r \in bad THEN kernel
                         ELSE [kernel EXCEPT ![c] = Append(kernel[c], r)]
            /\ phase' = IF r \in bad THEN "stop" ELSE "build"
            /\ UNCHANGED appends
    /\ UNCHANGED <<bad, jumps, decls, declared, call, ensured>>

\* An unbatched command begins: add_core_bypass_rule or ensure_jump.
Begin(op, c, r) ==
    /\ Building
    /\ c \in ensured
    /\ call' = [op |-> op, chain |-> c, rule |-> r, failed |-> FALSE, again |-> TRUE]
    /\ UNCHANGED <<bad, kernel, jumps, decls, declared, appends, phase, ensured, calls>>

-----------------------------------------------------------------------------
(* flush_batch *)

In(t) == {c \in Chain : TableOf[c] = t}

Dirty(t) == \E c \in In(t) : c \in decls \/ appends[c] # <<>>

Clean == \A t \in Table : ~ Dirty(t)

Refused(t) == \E c \in In(t) : \E i \in DOMAIN appends[c] : appends[c][i] \in bad

\* A chain with the first n of its recorded rules.  A declaration creates the
\* chain or empties it, in iptables-restore --noflush as by -N and -F.
Built(c, n) ==
    LET new == SubSeq(appends[c], 1, n)
    IN  IF c \in decls THEN new
        ELSE IF kernel[c] = Absent THEN Absent
        ELSE kernel[c] \o new

\* A chain once all it has in the batch is in the kernel.
WhenFlushed(c) ==
    IF c \in decls THEN appends[c]
    ELSE IF kernel[c] = Absent THEN Absent
    ELSE kernel[c] \o appends[c]

Flushing == call # NoCall /\ ~ call.failed

\* The rules that were flushed stay in the batch.
FlushTableBug(t) ==
    /\ Flushing /\ Dirty(t) /\ ~ Refused(t)
    /\ kernel' = [c \in Chain |-> IF c \in In(t) THEN WhenFlushed(c) ELSE kernel[c]]
    /\ declared' = declared \cup (decls \cap In(t))
    /\ decls' = decls \ In(t)
    /\ \E c \in In(t) : appends' = [appends EXCEPT ![c] = <<>>]
    /\ UNCHANGED <<bad, jumps, call, phase, ensured, calls>>

\* A table's batch is applied: by iptables-restore, or where that fails for
\* any reason of its own, command by command.
FlushTable(t) ==
    /\ Flushing /\ Dirty(t) /\ ~ Refused(t)
    /\ kernel' = [c \in Chain |-> IF c \in In(t) THEN WhenFlushed(c) ELSE kernel[c]]
    /\ declared' = declared \cup (decls \cap In(t))
    /\ decls' = decls \ In(t)
    /\ appends' = [c \in Chain |-> IF c \in In(t) THEN <<>> ELSE appends[c]]
    /\ UNCHANGED <<bad, jumps, call, phase, ensured, calls>>

\* How far the fallback gets in a chain: not past a refused rule.
Reached(c) ==
    {n \in 0 .. Len(appends[c]) : \A i \in 1 .. n : appends[c][i] \notin bad}

\* A refused rule fails both ways; the batch of the table is kept as it is.
FlushFails(t) ==
    /\ Flushing /\ Refused(t)
    /\ \E reach \in [In(t) -> 0 .. MaxCalls] :
         /\ \A c \in In(t) : reach[c] \in Reached(c)
         /\ kernel' = [c \in Chain |-> IF c \in In(t) THEN Built(c, reach[c])
                                       ELSE kernel[c]]
    /\ call' = [call EXCEPT !.failed = TRUE]
    /\ UNCHANGED <<bad, jumps, decls, declared, appends, phase, ensured, calls>>

\* ensure_jump checks, then inserts; a bypass rule has variants and a fallback.
TryAgain ==
    /\ call # NoCall /\ call.failed /\ call.again
    /\ call' = [call EXCEPT !.failed = FALSE, !.again = FALSE]
    /\ UNCHANGED <<bad, kernel, jumps, decls, declared, appends, phase, ensured, calls>>

-----------------------------------------------------------------------------
(* Unbatched commands *)

Flushed == call # NoCall /\ ~ call.failed /\ Clean
GaveUp == call # NoCall /\ call.failed /\ ~ call.again

\* The insertion's failure is a warning.
Insert ==
    /\ Flushed \/ GaveUp
    /\ call.op = "insert"
    /\ kernel' = IF GaveUp THEN kernel
                 ELSE [kernel EXCEPT ![call.chain] = <<call.rule>> \o kernel[call.chain]]
    /\ call' = NoCall
    /\ calls' = calls + 1
    /\ UNCHANGED <<bad, jumps, decls, declared, appends, phase, ensured>>

\* The jump's failure, of the flush or of its own, is the family's.
MakeJump ==
    /\ Flushed \/ GaveUp
    /\ call.op = "jump"
    /\ \/ /\ Flushed
          /\ jumps' = jumps \cup {call.chain}
          /\ calls' = calls + 1
          /\ UNCHANGED phase
       \/ phase' = "stop" /\ UNCHANGED <<jumps, calls>>
    /\ call' = NoCall
    /\ UNCHANGED <<bad, kernel, decls, declared, appends, ensured>>

\* stop_*: del_jump and cleanup_chain_fast of each chain, failures ignored.
AnyRule == CHOOSE r \in Rule : TRUE

UndoCall(op, c) == [op |-> op, chain |-> c, rule |-> AnyRule,
                    failed |-> FALSE, again |-> FALSE]

\* The jump is forgotten.
StopChainBug(c) ==
    /\ phase = "stop" /\ call = NoCall
    /\ c \in ensured
    /\ call' = UndoCall("empty", c)
    /\ UNCHANGED <<bad, kernel, jumps, decls, declared, appends, phase, ensured, calls>>

StopChain(c) ==
    /\ phase = "stop" /\ call = NoCall
    /\ c \in ensured
    /\ call' = UndoCall("unjump", c)
    /\ UNCHANGED <<bad, kernel, jumps, decls, declared, appends, phase, ensured, calls>>

\* -D, -F and -X, the batch being flushed again before each.
UndoNext ==
    /\ Flushed \/ GaveUp
    /\ call.op \in Undo
    /\ \/ /\ call.op = "unjump"
          /\ jumps' = jumps \ {call.chain}
          /\ call' = UndoCall("empty", call.chain)
          /\ UNCHANGED <<kernel, ensured>>
       \/ /\ call.op = "empty"
          /\ kernel' = IF kernel[call.chain] = Absent THEN kernel
                       ELSE [kernel EXCEPT ![call.chain] = <<>>]
          /\ call' = UndoCall("delete", call.chain)
          /\ UNCHANGED <<jumps, ensured>>
       \/ /\ call.op = "delete"
          /\ kernel' = IF kernel[call.chain] = <<>> /\ call.chain \notin jumps
                       THEN [kernel EXCEPT ![call.chain] = Absent]
                       ELSE kernel
          /\ call' = NoCall
          /\ ensured' = ensured \ {call.chain}
          /\ UNCHANGED jumps
    /\ UNCHANGED <<bad, decls, declared, appends, phase, calls>>

\* end_batch, after the family's rules or after all of them were undone.
EndBatch ==
    /\ call = NoCall
    /\ phase = "build" \/ (phase = "stop" /\ ensured = {})
    /\ \E c \in Chain : call' = UndoCall("end", c)
    /\ UNCHANGED <<bad, kernel, jumps, decls, declared, appends, phase, ensured, calls>>

\* The failure of end_batch is not an answer.
FamilyDoneBug ==
    /\ Flushed \/ GaveUp
    /\ call.op = "end"
    /\ phase' = IF phase = "stop" /\ ~ Skips THEN "err" ELSE "ok"
    /\ decls' = {} /\ declared' = {}
    /\ appends' = [c \in Chain |-> <<>>]
    /\ call' = NoCall
    /\ UNCHANGED <<bad, kernel, jumps, ensured, calls>>

\* apply_dual_stack's answer: the failure of the flush, too, is the family's,
\* even of a family that was skipped.
FamilyDone ==
    /\ Flushed \/ GaveUp
    /\ call.op = "end"
    /\ phase' = IF GaveUp \/ (phase = "stop" /\ ~ Skips) THEN "err" ELSE "ok"
    /\ decls' = {} /\ declared' = {}
    /\ appends' = [c \in Chain |-> <<>>]
    /\ call' = NoCall
    /\ UNCHANGED <<bad, kernel, jumps, ensured, calls>>

BatchNext ==
    \/ \E c \in Chain :
         \/ Ensure(c)
         \/ \E r \in Rule : AppendRule(c, r)
         \/ \E r \in Rule \ bad : Begin("insert", c, r)
         \/ Begin("jump", c, AnyRule)
         \/ StopChain(c)
    \/ \E t \in Table : FlushTable(t) \/ FlushFails(t)
    \/ TryAgain \/ Insert \/ MakeJump \/ UndoNext \/ EndBatch \/ FamilyDone

BatchSpec == BatchInit /\ [][BatchNext]_batchVars

-----------------------------------------------------------------------------
(* Properties *)

Direct == INSTANCE PerRule WITH chains <- [c \in Chain |-> WhenFlushed(c)]

Repeats == \E c \in ensured : Ensure(c)

NeverFails == bad = {} \/ ~ Batching

\* The batch path does what the per-rule path does: the kernel together with
\* the batch is the state in which each chain and rule takes effect at once,
\* but for a refused rule and for a chain that is set up a second time.
ImplementsPerRule ==
    Direct!Init /\ [][bad = {} /\ ~ Repeats => Direct!Next]_(Direct!directVars)

\* A family that failed, or was skipped, has left nothing in the kernel: "so
\* rollback observes the same applied state the per-rule path would have left"
\* (rules.rs).  With a refused rule that is true of the per-rule path only.
FailedLeavesNothing ==
    NeverFails /\ phase \in {"ok", "err"} /\ ensured = {} =>
        jumps = {} /\ \A c \in Chain : kernel[c] = Absent

\* A family answers Ok only with every chain it set up in the kernel, although
\* its last batch is flushed after the answer of its rules is known.
OkMeansBuilt ==
    phase = "ok" => /\ jumps \subseteq ensured
                    /\ \A c \in ensured : kernel[c] # Absent

=============================================================================
