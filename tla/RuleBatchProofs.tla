--------------------------- MODULE RuleBatchProofs ---------------------------
(***************************************************************************)
(* Proofs about batches.                                                   *)
(*                                                                         *)
(* Types, whatever happens: TInv is the inductive invariant.               *)
(*                                                                         *)
(* Where no flush can fail (NeverFails), BatchInv is one too, and with it: *)
(*   - every step of RuleBatch but the second setting up of a chain is a   *)
(*     step of PerRule or changes nothing, the rules still in the batch    *)
(*     being taken as applied;                                             *)
(*   - with LeftInv, a family that failed leaves nothing in the kernel.    *)
(* With DoneInv a family that answers Ok is in the kernel, whatever fails. *)
(***************************************************************************)
EXTENDS RuleBatch, SequenceTheorems, TLAPS

\* Without a batch nothing is recorded.  While the family is built, a chain that
\* was set up is in the kernel or recorded, and commands name such chains.
TypeInv ==
    /\ ~ Batching => Clean
    /\ phase = "build" => /\ decls \cup declared \subseteq ensured
                          /\ \A c \in ensured : c \in decls \/ kernel[c] # Absent
    /\ call # NoCall /\ call.op \in {"insert", "jump"} =>
           phase = "build" /\ call.chain \in ensured
    /\ call # NoCall /\ call.op \in Undo => phase = "stop"

TInv == BatchTypeOK /\ TypeInv

\* What is recorded belongs to a chain that was set up; no flush has failed.
BatchInv ==
    /\ decls \subseteq ensured
    /\ \A c \in Chain : c \notin ensured => appends[c] = <<>>
    /\ call # NoCall => /\ ~ call.failed
                        /\ call.op \in Undo => call.chain \in ensured

BInv == TInv /\ BatchInv

-----------------------------------------------------------------------------
(* Lemmas about sequences and the batch *)

LEMMA AppendConcat ==
    \A s, t \in Seq(Rule) : \A x \in Rule : s \o Append(t, x) = Append(s \o t, x)
  <1> SUFFICES ASSUME NEW s \in Seq(Rule), NEW t \in Seq(Rule), NEW x \in Rule
               PROVE  s \o Append(t, x) = Append(s \o t, x)
    OBVIOUS
  <1>1. Append(t, x) = t \o <<x>> /\ Append(s \o t, x) = (s \o t) \o <<x>>
    BY AppendIsConcat, ConcatProperties
  <1>2. <<x>> \in Seq(Rule)
    OBVIOUS
  <1>3. s \o (t \o <<x>>) = (s \o t) \o <<x>>
    BY <1>2, ConcatAssociative
  <1> QED BY <1>1, <1>3

\* An empty chain is there.
LEMMA EmptyPresent == <<>> # Absent
  <1>1. <<>> \in Seq(Rule)
    OBVIOUS
  <1> QED BY <1>1, BatchAssumption

\* A clean batch holds nothing.
LEMMA CleanEmpty ==
    ASSUME BatchTypeOK, Clean
    PROVE  decls = {} /\ \A c \in Chain : appends[c] = <<>>
  BY BatchAssumption DEF BatchTypeOK, Clean, Dirty, In

LEMMA WhenFlushedType ==
    ASSUME BatchTypeOK, NEW c \in Chain
    PROVE  WhenFlushed(c) \in Seq(Rule) \cup {Absent}
  BY ConcatProperties DEF BatchTypeOK, WhenFlushed

\* A chain that is recorded or in the kernel is there once it is flushed...
LEMMA WhenFlushedPresent ==
    ASSUME BatchTypeOK, NEW c \in Chain, c \in decls \/ kernel[c] # Absent
    PROVE  WhenFlushed(c) # Absent
  <1>1. appends[c] \in Seq(Rule)
    BY DEF BatchTypeOK
  <1>2. CASE c \in decls
    BY <1>1, <1>2, BatchAssumption DEF WhenFlushed
  <1>3. CASE c \notin decls
    <2>1. kernel[c] # Absent /\ kernel[c] \in Seq(Rule)
      BY <1>3 DEF BatchTypeOK
    <2>2. kernel[c] \o appends[c] \in Seq(Rule)
      BY <1>1, <2>1, ConcatProperties
    <2> QED BY <1>3, <2>1, <2>2, BatchAssumption DEF WhenFlushed
  <1> QED BY <1>2, <1>3

\* ... and where the fallback stops half-way.
LEMMA BuiltPresent ==
    ASSUME BatchTypeOK, NEW c \in Chain, NEW n \in Reached(c), kernel[c] # Absent
    PROVE  Built(c, n) # Absent
  <1>1. SubSeq(appends[c], 1, n) \in Seq(Rule)
    BY DEF Reached, BatchTypeOK
  <1>2. kernel[c] \in Seq(Rule)
    BY DEF BatchTypeOK
  <1>3. kernel[c] \o SubSeq(appends[c], 1, n) \in Seq(Rule)
    BY <1>1, <1>2, ConcatProperties
  <1> QED BY <1>1, <1>3, BatchAssumption DEF Built

\* With a clean batch, what counts is in the kernel.
LEMMA WhenClean ==
    ASSUME BatchTypeOK, Clean, NEW c \in Chain
    PROVE  WhenFlushed(c) = kernel[c]
  <1>1. decls = {} /\ appends[c] = <<>>
    BY CleanEmpty
  <1>2. kernel[c] \in Seq(Rule) \cup {Absent}
    BY DEF BatchTypeOK
  <1>3. kernel[c] \in Seq(Rule) => kernel[c] \o <<>> = kernel[c]
    BY ConcatEmptySeq
  <1> QED BY <1>1, <1>2, <1>3, BatchAssumption DEF WhenFlushed

LEMMA UndoCallType ==
    ASSUME NEW op \in {"end"} \cup Undo, NEW c \in Chain
    PROVE  UndoCall(op, c) \in Call
  BY BatchAssumption DEF UndoCall, Call, AnyRule, Undo

-----------------------------------------------------------------------------
(* The invariant *)

LEMMA BatchInitInv == BatchInit => BInv
  BY BatchAssumption
  DEF BatchInit, BInv, TInv, TypeInv, BatchTypeOK, BatchInv, Clean, Dirty, In, NoCall

LEMMA TypeStep ==
    ASSUME TInv, BatchNext
    PROVE  BatchTypeOK'
  <1> USE DEF TInv, BatchTypeOK
  <1>1. ASSUME NEW c \in Chain, Ensure(c)
        PROVE  BatchTypeOK'
    <2>1. [kernel EXCEPT ![c] = <<>>] \in [Chain -> Seq(Rule) \cup {Absent}]
      <3>1. <<>> \in Seq(Rule) \cup {Absent}
        OBVIOUS
      <3> QED BY <3>1
    <2>2. kernel' \in [Chain -> Seq(Rule) \cup {Absent}]
      BY <1>1, <2>1 DEF Ensure
    <2>3. decls' \subseteq Chain
      BY <1>1 DEF Ensure, RecordChain
    <2>4. calls' \in Nat
      BY <1>1 DEF Ensure
    <2> QED BY <1>1, <2>2, <2>3, <2>4 DEF Ensure
  <1>2. ASSUME NEW c \in Chain, NEW r \in Rule, AppendRule(c, r)
        PROVE  BatchTypeOK'
    <2>1. appends' \in [Chain -> Seq(Rule)]
      <3>1. Append(appends[c], r) \in Seq(Rule)
        OBVIOUS
      <3>2. [appends EXCEPT ![c] = Append(appends[c], r)] \in [Chain -> Seq(Rule)]
        BY <3>1
      <3> QED BY <1>2, <3>2 DEF AppendRule
    <2>2. kernel[c] # Absent => Append(kernel[c], r) \in Seq(Rule)
      OBVIOUS
    <2>3. ~ Batching => kernel[c] # Absent
      <3>1. c \in ensured
        BY <1>2 DEF AppendRule
      <3>2. phase = "build"
        BY <1>2 DEF AppendRule, Building
      <3> QED BY <3>1, <3>2, CleanEmpty DEF TypeInv
    <2>4. kernel' \in [Chain -> Seq(Rule) \cup {Absent}]
      BY <1>2, <2>2, <2>3 DEF AppendRule
    <2> QED BY <1>2, <2>1, <2>4 DEF AppendRule
  <1>3. ASSUME NEW c \in Chain, NEW r \in Rule, NEW op \in {"insert", "jump"},
               Begin(op, c, r)
        PROVE  BatchTypeOK'
    BY <1>3 DEF Begin, Call
  <1>4. ASSUME NEW c \in Chain, StopChain(c)
        PROVE  BatchTypeOK'
    BY <1>4, UndoCallType DEF StopChain, Undo
  <1>5. ASSUME NEW t \in Table, FlushTable(t)
        PROVE  BatchTypeOK'
    <2>1. kernel' \in [Chain -> Seq(Rule) \cup {Absent}]
      BY <1>5, WhenFlushedType DEF FlushTable
    <2>2. appends' \in [Chain -> Seq(Rule)]
      BY <1>5 DEF FlushTable
    <2> QED BY <1>5, <2>1, <2>2 DEF FlushTable
  <1>6. ASSUME NEW t \in Table, FlushFails(t)
        PROVE  BatchTypeOK'
    <2>1. ASSUME NEW c \in Chain, NEW n \in Reached(c)
          PROVE  Built(c, n) \in Seq(Rule) \cup {Absent}
      <3>1. SubSeq(appends[c], 1, n) \in Seq(Rule)
        BY DEF Reached
      <3> QED BY <3>1, ConcatProperties DEF Built
    <2>2. kernel' \in [Chain -> Seq(Rule) \cup {Absent}]
      BY <1>6, <2>1 DEF FlushFails, In
    <2>3. call' \in Call
      BY <1>6 DEF FlushFails, Flushing, Call, NoCall
    <2> QED BY <1>6, <2>2, <2>3 DEF FlushFails
  <1>7. CASE TryAgain
    BY <1>7 DEF TryAgain, Call
  <1>8. CASE Insert
    <2>1. CASE GaveUp
      BY <1>8, <2>1 DEF Insert
    <2>2. CASE Flushed /\ ~ GaveUp
      <3>1. call \in Call /\ call.chain \in ensured /\ phase = "build"
        BY <1>8, <2>2 DEF Insert, Flushed, TypeInv
      <3>2. kernel[call.chain] # Absent /\ call.chain \in Chain
        BY <2>2, <3>1, CleanEmpty DEF Flushed, TypeInv, Call
      <3>3. <<call.rule>> \o kernel[call.chain] \in Seq(Rule)
        <4>1. <<call.rule>> \in Seq(Rule) /\ kernel[call.chain] \in Seq(Rule)
          BY <3>1, <3>2 DEF Call
        <4> QED BY <4>1, ConcatProperties
      <3>4. kernel' = [kernel EXCEPT ![call.chain] = <<call.rule>> \o kernel[call.chain]]
        BY <1>8, <2>2 DEF Insert
      <3>5. kernel' \in [Chain -> Seq(Rule) \cup {Absent}]
        BY <3>3, <3>4
      <3> QED BY <1>8, <3>5 DEF Insert
    <2> QED BY <1>8, <2>1, <2>2 DEF Insert
  <1>9. CASE MakeJump
    <2>1. call \in Call /\ call.chain \in Chain
      BY <1>9 DEF MakeJump, Flushed, GaveUp, Call
    <2> QED BY <1>9, <2>1 DEF MakeJump
  <1>10. CASE UndoNext
    <2>1. call \in Call /\ call.chain \in Chain
      BY <1>10 DEF UndoNext, Flushed, GaveUp, Call
    <2>2. \A op \in Undo : UndoCall(op, call.chain) \in Call
      BY <2>1, UndoCallType
    <2>3. UndoCall("empty", call.chain) \in Call
          /\ UndoCall("delete", call.chain) \in Call
      BY <2>2 DEF Undo
    <2>4. call' \in Call \cup {NoCall}
      BY <1>10, <2>3 DEF UndoNext
    <2>5. kernel' \in [Chain -> Seq(Rule) \cup {Absent}]
      <3>1. <<>> \in Seq(Rule) \cup {Absent}
        OBVIOUS
      <3>2. \A x \in Seq(Rule) \cup {Absent} :
              [kernel EXCEPT ![call.chain] = x] \in [Chain -> Seq(Rule) \cup {Absent}]
        OBVIOUS
      <3>3. \/ kernel' = kernel
            \/ kernel' = [kernel EXCEPT ![call.chain] = <<>>]
            \/ kernel' = [kernel EXCEPT ![call.chain] = Absent]
        BY <1>10 DEF UndoNext
      <3> QED BY <3>1, <3>2, <3>3
    <2>6. jumps' \subseteq Chain /\ ensured' \subseteq Chain
      BY <1>10 DEF UndoNext
    <2> QED BY <1>10, <2>4, <2>5, <2>6 DEF UndoNext
  <1>11. CASE EndBatch
    BY <1>11, UndoCallType DEF EndBatch
  <1>12. CASE FamilyDone
    BY <1>12 DEF FamilyDone
  <1>13. \A c \in Chain : Begin("jump", c, AnyRule) => BatchTypeOK'
    BY <1>3, BatchAssumption DEF AnyRule
  <1>14. \A c \in Chain : \A r \in Rule \ bad : Begin("insert", c, r) => BatchTypeOK'
    BY <1>3
  <1> QED BY <1>1, <1>2, <1>4, <1>5, <1>6, <1>7, <1>8, <1>9, <1>10, <1>11,
             <1>12, <1>13, <1>14 DEF BatchNext

LEMMA TypeInvStep ==
    ASSUME TInv, BatchNext
    PROVE  TypeInv'
  <1> USE DEF TInv, TypeInv
  <1>1. ASSUME NEW c \in Chain, Ensure(c)
        PROVE  TypeInv'
    <2>1. call = NoCall /\ phase = "build"
      BY <1>1 DEF Ensure, Building
    <2>2. decls' \cup declared' \subseteq ensured'
      BY <1>1, <2>1 DEF Ensure, RecordChain
    <2>3. \A d \in ensured' : d \in decls' \/ kernel'[d] # Absent
      <3>1. CASE Batching
        BY <1>1, <2>1, <3>1 DEF Ensure, RecordChain
      <3>2. CASE ~ Batching
        <4>1. kernel' = [kernel EXCEPT ![c] = <<>>] /\ decls' = decls
          BY <1>1, <3>2 DEF Ensure
        <4>2. <<>> # Absent
          BY EmptyPresent
        <4> QED BY <1>1, <2>1, <4>1, <4>2 DEF Ensure, BatchTypeOK
      <3> QED BY <3>1, <3>2
    <2>4. ~ Batching => Clean'
      BY <1>1 DEF Ensure, Clean, Dirty, In
    <2> QED BY <1>1, <2>1, <2>2, <2>3, <2>4 DEF Ensure
  <1>2. ASSUME NEW c \in Chain, NEW r \in Rule, AppendRule(c, r)
        PROVE  TypeInv'
    <2>1. c \in ensured /\ call = NoCall /\ call' = NoCall /\ phase = "build"
      BY <1>2 DEF AppendRule, Building
    <2>3. \A d \in ensured' : d \in decls' \/ kernel'[d] # Absent
      <3>1. CASE Batching
        BY <1>2, <2>1, <3>1 DEF AppendRule
      <3>2. CASE ~ Batching
        <4>1. kernel' = kernel \/ kernel' = [kernel EXCEPT ![c] = Append(kernel[c], r)]
          BY <1>2, <3>2 DEF AppendRule
        <4>2. kernel[c] # Absent
          BY <2>1, <3>2, CleanEmpty
        <4>3. Append(kernel[c], r) # Absent
          <5>1. kernel[c] \in Seq(Rule)
            BY <4>2 DEF BatchTypeOK
          <5>2. Append(kernel[c], r) \in Seq(Rule)
            BY <5>1
          <5> QED BY <5>2, BatchAssumption
        <4> QED BY <1>2, <2>1, <4>1, <4>3 DEF AppendRule, BatchTypeOK
      <3> QED BY <3>1, <3>2
    <2>4. ~ Batching => Clean'
      BY <1>2 DEF AppendRule, Clean, Dirty, In
    <2> QED BY <1>2, <2>1, <2>3, <2>4 DEF AppendRule
  <1>3. ASSUME NEW c \in Chain, NEW r, NEW op \in {"insert", "jump"}, Begin(op, c, r)
        PROVE  TypeInv'
    BY <1>3 DEF Begin, Building, Undo, Clean, Dirty, In
  <1>4. ASSUME NEW c \in Chain, StopChain(c)
        PROVE  TypeInv'
    BY <1>4 DEF StopChain, UndoCall, Clean, Dirty, In
  <1>5. ASSUME NEW t \in Table, FlushTable(t)
        PROVE  TypeInv'
    <2>1. ~ Batching => Clean'
      BY <1>5 DEF FlushTable, Clean
    <2>2. ASSUME NEW d \in Chain, d \in decls \/ kernel[d] # Absent
          PROVE  d \in decls' \/ kernel'[d] # Absent
      <3>1. CASE d \notin In(t)
        BY <1>5, <2>2, <3>1 DEF FlushTable
      <3>2. CASE d \in In(t)
        BY <1>5, <2>2, <3>2, WhenFlushedPresent DEF FlushTable
      <3> QED BY <3>1, <3>2
    <2>3. UNCHANGED <<call, phase, ensured>> /\ decls' \cup declared' \subseteq declared \cup decls
      BY <1>5 DEF FlushTable
    <2>4. ensured \subseteq Chain
      BY DEF BatchTypeOK
    <2> QED BY <2>1, <2>2, <2>3, <2>4
  <1>6. ASSUME NEW t \in Table, FlushFails(t)
        PROVE  TypeInv'
    <2>1. Batching
      BY <1>6, CleanEmpty DEF FlushFails, Refused, In, BatchTypeOK
    <2>2. ASSUME NEW d \in Chain, d \notin decls, kernel[d] # Absent
          PROVE  kernel'[d] # Absent
      <3>1. kernel'[d] = kernel[d] \/ \E n \in Reached(d) : kernel'[d] = Built(d, n)
        BY <1>6 DEF FlushFails
      <3>2. \A n \in Reached(d) : Built(d, n) # Absent
        BY <2>2, BuiltPresent
      <3> QED BY <2>2, <3>1, <3>2
    <2>3. call'.op = call.op /\ call'.chain = call.chain
      BY <1>6 DEF FlushFails, Flushing, BatchTypeOK, Call
    <2> QED BY <1>6, <2>1, <2>2, <2>3 DEF FlushFails, Flushing, BatchTypeOK
  <1>7. CASE TryAgain
    <2>1. call'.op = call.op /\ call'.chain = call.chain
      BY <1>7 DEF TryAgain, BatchTypeOK, Call
    <2> QED BY <1>7, <2>1 DEF TryAgain, Clean, Dirty, In
  <1>8. CASE Insert
    <2>1. CASE GaveUp
      BY <1>8, <2>1 DEF Insert, Clean, Dirty, In
    <2>2. CASE ~ GaveUp
      <3>1. call.op = "insert" /\ call \in Call /\ call.chain \in ensured
        BY <1>8, <2>2 DEF Insert, Flushed, BatchTypeOK
      <3>2. kernel' = [kernel EXCEPT ![call.chain] = <<call.rule>> \o kernel[call.chain]]
        BY <1>8, <2>2 DEF Insert
      <3>3. kernel'[call.chain] # Absent
        <4>1. Flushed /\ call.chain \in Chain /\ call.rule \in Rule /\ phase = "build"
          BY <1>8, <2>2, <3>1 DEF Insert, Flushed, Call
        <4>2. kernel[call.chain] # Absent
          BY <3>1, <4>1, CleanEmpty DEF Flushed
        <4>3. kernel[call.chain] \in Seq(Rule) /\ <<call.rule>> \in Seq(Rule)
          BY <4>1, <4>2 DEF BatchTypeOK
        <4>4. <<call.rule>> \o kernel[call.chain] \in Seq(Rule)
          BY <4>3, ConcatProperties
        <4>5. <<call.rule>> \o kernel[call.chain] # Absent
          BY <4>4, BatchAssumption
        <4> QED BY <3>2, <4>1, <4>5 DEF BatchTypeOK
      <3>4. \A d \in ensured : d # call.chain => kernel'[d] = kernel[d]
        BY <3>2 DEF BatchTypeOK
      <3> QED BY <1>8, <3>3, <3>4 DEF Insert, Clean, Dirty, In
    <2> QED BY <2>1, <2>2
  <1>9. CASE MakeJump
    BY <1>9 DEF MakeJump, Clean, Dirty, In
  <1>10. CASE UndoNext
    BY <1>10 DEF UndoNext, UndoCall, Undo, Flushed, GaveUp, Clean, Dirty, In
  <1>11. CASE EndBatch
    BY <1>11 DEF EndBatch, UndoCall, Undo, Clean, Dirty, In
  <1>12. CASE FamilyDone
    BY <1>12 DEF FamilyDone, Clean, Dirty, In, BatchTypeOK
  <1>13. \A c \in Chain : Begin("jump", c, AnyRule) => TypeInv'
    BY <1>3
  <1>14. \A c \in Chain : \A r \in Rule \ bad : Begin("insert", c, r) => TypeInv'
    BY <1>3
  <1> QED BY <1>1, <1>2, <1>4, <1>5, <1>6, <1>7, <1>8, <1>9, <1>10, <1>11,
             <1>12, <1>13, <1>14 DEF BatchNext

\* No flush can fail where no rule is refused, or where nothing is batched.

LEMMA NoFlushFails ==
    ASSUME TInv, NeverFails, NEW t \in Table
    PROVE  ~ FlushFails(t)
  <1>1. CASE bad = {}
    BY <1>1 DEF FlushFails, Refused
  <1>2. CASE ~ Batching
    <2>1. \A c \in Chain : appends[c] = <<>>
      BY <1>2, CleanEmpty DEF TInv, TypeInv
    <2> QED BY <2>1 DEF FlushFails, Refused, In
  <1> QED BY <1>1, <1>2 DEF NeverFails

LEMMA InvStep ==
    ASSUME BInv, BatchNext, NeverFails
    PROVE  BatchInv'
  <1> USE DEF BInv, TInv, BatchInv
  <1>1. ASSUME NEW c \in Chain, Ensure(c)
        PROVE  BatchInv'
    BY <1>1 DEF Ensure, Building, RecordChain
  <1>2. ASSUME NEW c \in Chain, NEW r \in Rule, AppendRule(c, r)
        PROVE  BatchInv'
    BY <1>2 DEF AppendRule, Building, BatchTypeOK
  <1>3. ASSUME NEW c \in Chain, NEW r, NEW op \in {"insert", "jump"}, Begin(op, c, r)
        PROVE  BatchInv'
    BY <1>3 DEF Begin, Building, Undo
  <1>4. ASSUME NEW c \in Chain, StopChain(c)
        PROVE  BatchInv'
    BY <1>4 DEF StopChain, UndoCall
  <1>5. ASSUME NEW t \in Table, FlushTable(t)
        PROVE  BatchInv'
    BY <1>5 DEF FlushTable
  <1>6. \A t \in Table : ~ FlushFails(t)
    BY NoFlushFails
  <1>7. ~ TryAgain /\ ~ GaveUp
    BY DEF TryAgain, GaveUp
  <1>8. CASE Insert \/ MakeJump
    BY <1>8 DEF Insert, MakeJump
  <1>9. CASE UndoNext
    <2>1. call.chain \in ensured /\ decls = {} /\ \A d \in Chain : appends[d] = <<>>
      BY <1>7, <1>9, CleanEmpty DEF UndoNext, Flushed
    <2> QED BY <1>9, <2>1 DEF UndoNext, UndoCall
  <1>10. CASE EndBatch
    BY <1>10 DEF EndBatch, UndoCall, Undo
  <1>11. CASE FamilyDone
    BY <1>11 DEF FamilyDone
  <1>12. \A c \in Chain : Begin("jump", c, AnyRule) => BatchInv'
    BY <1>3
  <1>13. \A c \in Chain : \A r \in Rule \ bad : Begin("insert", c, r) => BatchInv'
    BY <1>3
  <1> QED BY <1>1, <1>2, <1>4, <1>5, <1>6, <1>7, <1>8, <1>9, <1>10, <1>11,
             <1>12, <1>13 DEF BatchNext

-----------------------------------------------------------------------------
(* The refinement *)

\* The chains of PerRule.
Taken == [c \in Chain |-> WhenFlushed(c)]

LEMMA SameTaken ==
    ASSUME UNCHANGED <<kernel, decls, appends>>
    PROVE  Taken' = Taken
  BY DEF Taken, WhenFlushed

\* With a clean batch before and after, PerRule's chains are the kernel's.
LEMMA CleanTaken ==
    ASSUME BatchTypeOK, BatchTypeOK', Clean, UNCHANGED <<decls, appends>>
    PROVE  Taken = kernel /\ Taken' = kernel'
  <1>1. Taken = kernel
    BY WhenClean DEF Taken, BatchTypeOK
  <1>2. ASSUME NEW c \in Chain
        PROVE  WhenFlushed(c)' = kernel'[c]
    <2>1. decls' = {} /\ appends'[c] = <<>>
      BY CleanEmpty
    <2>2. kernel'[c] \in Seq(Rule) \cup {Absent}
      BY DEF BatchTypeOK
    <2>3. kernel'[c] \in Seq(Rule) => kernel'[c] \o <<>> = kernel'[c]
      BY ConcatEmptySeq
    <2> QED BY <2>1, <2>2, <2>3, BatchAssumption DEF WhenFlushed
  <1> QED BY <1>1, <1>2 DEF Taken, BatchTypeOK

LEMMA EnsureStep ==
    ASSUME BInv, NEW c \in Chain, c \notin ensured, Ensure(c)
    PROVE  Direct!Ensure(c)
  <1>1. c \notin ensured /\ appends[c] = <<>>
    BY DEF BInv, TInv, BatchInv, TypeInv
  <1>2. appends' = appends
    BY DEF Ensure
  <1>3. ASSUME NEW d \in Chain, d # c
        PROVE  WhenFlushed(d)' = WhenFlushed(d)
    BY <1>3 DEF Ensure, RecordChain, WhenFlushed, BInv, TInv, BatchTypeOK
  <1>4. WhenFlushed(c)' = <<>>
    <2>1. CASE Batching
      <3>1. c \notin declared
        BY <1>1 DEF Ensure, Building, BInv, TInv, BatchInv, TypeInv
      <3>2. c \in decls'
        BY <2>1, <3>1 DEF Ensure, RecordChain
      <3> QED BY <1>1, <1>2, <3>2 DEF WhenFlushed
    <2>2. CASE ~ Batching
      <3>1. kernel'[c] = <<>> /\ decls' = decls
        BY <2>2 DEF Ensure, BInv, TInv, BatchTypeOK
      <3>2. <<>> \o <<>> = <<>>
        OBVIOUS
      <3> QED BY <1>1, <1>2, <3>1, <3>2, EmptyPresent DEF WhenFlushed, BInv, TInv, BatchInv, TypeInv
    <2> QED BY <2>1, <2>2
  <1>5. Taken' = [Taken EXCEPT ![c] = <<>>]
    BY <1>3, <1>4 DEF Taken
  <1> QED BY <1>5 DEF Ensure, Direct!Ensure, Taken

LEMMA AppendStep ==
    ASSUME BInv, bad = {}, NEW c \in Chain, NEW r \in Rule, AppendRule(c, r)
    PROVE  Direct!AppendRule(c, r)
  <1>1. c \in ensured /\ phase = "build"
    BY DEF AppendRule, Building
  <1>2. ASSUME NEW d \in Chain, d # c
        PROVE  WhenFlushed(d)' = WhenFlushed(d)
    BY <1>2 DEF AppendRule, WhenFlushed, BInv, TInv, BatchTypeOK
  <1>3. WhenFlushed(c) # Absent /\ WhenFlushed(c) \in Seq(Rule)
    <2>1. CASE c \in decls
      <3>1. appends[c] \in Seq(Rule)
        BY DEF BInv, TInv, BatchTypeOK
      <3> QED BY <2>1, <3>1, BatchAssumption DEF WhenFlushed
    <2>2. CASE c \notin decls
      <3>1. kernel[c] # Absent /\ kernel[c] \in Seq(Rule) /\ appends[c] \in Seq(Rule)
        BY <1>1, <2>2 DEF BInv, TInv, BatchInv, TypeInv, BatchTypeOK
      <3>2. kernel[c] \o appends[c] \in Seq(Rule)
        BY <3>1, ConcatProperties
      <3> QED BY <2>2, <3>1, <3>2, BatchAssumption DEF WhenFlushed
    <2> QED BY <2>1, <2>2
  <1>4. WhenFlushed(c)' = Append(WhenFlushed(c), r)
    <2>1. CASE Batching
      <3>1. appends'[c] = Append(appends[c], r) /\ kernel' = kernel /\ decls' = decls
        BY <2>1 DEF AppendRule, BInv, TInv, BatchTypeOK
      <3>2. CASE c \in decls
        BY <3>1, <3>2 DEF WhenFlushed
      <3>3. CASE c \notin decls
        <4>1. kernel[c] # Absent /\ kernel[c] \in Seq(Rule) /\ appends[c] \in Seq(Rule)
          BY <1>1, <3>3 DEF BInv, TInv, BatchInv, TypeInv, BatchTypeOK
        <4>2. kernel[c] \o Append(appends[c], r) = Append(kernel[c] \o appends[c], r)
          BY <4>1, AppendConcat, Zenon
        <4> QED BY <3>1, <3>3, <4>1, <4>2 DEF WhenFlushed
      <3> QED BY <3>2, <3>3
    <2>2. CASE ~ Batching
      <3>1. Clean /\ decls = {} /\ appends[c] = <<>>
        BY <2>2, CleanEmpty DEF BInv, TInv, BatchInv, TypeInv
      <3>2. WhenFlushed(c) = kernel[c]
        BY <3>1, WhenClean DEF BInv, TInv
      <3>3. kernel'[c] = Append(kernel[c], r) /\ decls' = {} /\ appends'[c] = <<>>
        BY <2>2, <3>1 DEF AppendRule, BInv, TInv, BatchTypeOK
      <3>4. Append(kernel[c], r) \in Seq(Rule)
        <4>1. kernel[c] \in Seq(Rule)
          BY <1>3, <3>2
        <4> QED BY <4>1
      <3>5. Append(kernel[c], r) \o <<>> = Append(kernel[c], r)
        BY <3>4, ConcatEmptySeq
      <3>6. Append(kernel[c], r) # Absent
        BY <3>4, BatchAssumption
      <3> QED BY <3>2, <3>3, <3>5, <3>6 DEF WhenFlushed
    <2> QED BY <2>1, <2>2
  <1>5. Taken' = [Taken EXCEPT ![c] = Append(Taken[c], r)] /\ Taken[c] # Absent
    BY <1>2, <1>3, <1>4 DEF Taken
  <1> QED BY <1>5 DEF AppendRule, Direct!AppendRule, Taken

\* A flush changes nothing for PerRule.
LEMMA FlushStep ==
    ASSUME BInv, NEW t \in Table, FlushTable(t)
    PROVE  UNCHANGED Direct!directVars
  <1>1. ASSUME NEW c \in Chain, c \notin In(t)
        PROVE  WhenFlushed(c)' = WhenFlushed(c)
    BY <1>1 DEF FlushTable, WhenFlushed
  <1>2. ASSUME NEW c \in Chain, c \in In(t)
        PROVE  WhenFlushed(c)' = WhenFlushed(c)
    <2>1. kernel'[c] = WhenFlushed(c) /\ c \notin decls' /\ appends'[c] = <<>>
      BY <1>2 DEF FlushTable
    <2>2. WhenFlushed(c) \in Seq(Rule) \cup {Absent}
      BY WhenFlushedType DEF BInv, TInv
    <2>3. WhenFlushed(c) \in Seq(Rule) => WhenFlushed(c) \o <<>> = WhenFlushed(c)
      BY ConcatEmptySeq
    <2>4. WhenFlushed(c)' = IF kernel'[c] = Absent THEN Absent ELSE kernel'[c] \o <<>>
      BY <2>1 DEF WhenFlushed
    <2> QED BY <2>1, <2>2, <2>3, <2>4
  <1>3. Taken' = Taken
    BY <1>1, <1>2 DEF Taken
  <1> QED BY <1>3 DEF FlushTable, Direct!directVars, Taken

LEMMA InsertStep ==
    ASSUME BInv, BatchTypeOK', bad = {}, Insert
    PROVE  Direct!Next
  <1> DEFINE c == call.chain
             r == call.rule
  <1>1. Clean /\ ~ GaveUp /\ call.op = "insert" /\ call \in Call
    BY DEF Insert, Flushed, GaveUp, BInv, TInv, BatchInv, TypeInv, BatchTypeOK
  <1>2. c \in Chain /\ r \in Rule
    BY <1>1 DEF Call
  <1>3. kernel[c] # Absent
    BY <1>1, CleanEmpty DEF Insert, Flushed, GaveUp, BInv, TInv, BatchInv, TypeInv
  <1>4. kernel' = [kernel EXCEPT ![c] = <<r>> \o kernel[c]]
    BY <1>1 DEF Insert
  <1>5. Taken = kernel /\ Taken' = kernel'
    BY <1>1, CleanTaken DEF Insert, BInv, TInv
  <1>6. Taken[c] # Absent /\ Taken' = [Taken EXCEPT ![c] = <<r>> \o Taken[c]]
    BY <1>3, <1>4, <1>5
  <1>7. Direct!InsertRule(c, r)
    BY <1>6 DEF Insert, Direct!InsertRule, Taken
  <1> QED BY <1>2, <1>7 DEF Direct!Next

LEMMA MakeJumpStep ==
    ASSUME BInv, bad = {}, MakeJump
    PROVE  Direct!Next \/ UNCHANGED Direct!directVars
  <1> DEFINE c == call.chain
  <1>1. Taken' = Taken
    BY SameTaken DEF MakeJump
  <1>2. CASE jumps' = jumps \cup {c} /\ calls' = calls + 1
    <2>1. Clean /\ call.op = "jump" /\ call \in Call
      BY DEF MakeJump, Flushed, GaveUp, BInv, TInv, BatchInv, TypeInv, BatchTypeOK
    <2>2. c \in Chain
      BY <2>1 DEF Call
    <2>3. kernel[c] # Absent
      BY <2>1, CleanEmpty DEF MakeJump, Flushed, GaveUp, BInv, TInv, BatchInv, TypeInv
    <2>4. Taken[c] # Absent
      BY <2>1, <2>2, <2>3, WhenClean DEF Taken, BInv, TInv
    <2>5. Direct!Jump(c)
      BY <1>1, <1>2, <2>4 DEF Direct!Jump, Taken
    <2> QED BY <2>2, <2>5 DEF Direct!Next
  <1>3. CASE UNCHANGED <<jumps, calls>>
    BY <1>1, <1>3 DEF Direct!directVars, Taken
  <1> QED BY <1>2, <1>3 DEF MakeJump

LEMMA UndoStep ==
    ASSUME BInv, BatchTypeOK', bad = {}, UndoNext
    PROVE  Direct!Next \/ UNCHANGED Direct!directVars
  <1> DEFINE c == call.chain
  <1>1. Clean /\ call \in Call
    BY DEF UndoNext, Flushed, GaveUp, BInv, TInv, BatchInv, TypeInv, BatchTypeOK
  <1>2. c \in Chain
    BY <1>1 DEF Call
  <1>3. Taken = kernel /\ Taken' = kernel'
    BY <1>1, CleanTaken DEF UndoNext, BInv, TInv
  <1>4. CASE call.op = "unjump"
    <2>1. Direct!Unjump(c)
      BY <1>3, <1>4 DEF UndoNext, Direct!Unjump, Taken
    <2> QED BY <1>2, <2>1 DEF Direct!Next
  <1>5. CASE call.op = "empty"
    <2>1. CASE kernel[c] = Absent
      BY <1>3, <1>5, <2>1 DEF UndoNext, Direct!directVars, Taken
    <2>2. CASE kernel[c] # Absent
      <3>1. Direct!Empty(c)
        BY <1>3, <1>5, <2>2 DEF UndoNext, Direct!Empty, Taken
      <3> QED BY <1>2, <3>1 DEF Direct!Next
    <2> QED BY <2>1, <2>2
  <1>6. CASE call.op = "delete"
    <2>1. CASE kernel[c] = <<>> /\ c \notin jumps
      <3>1. Direct!Delete(c)
        BY <1>3, <1>6, <2>1 DEF UndoNext, Direct!Delete, Taken
      <3> QED BY <1>2, <3>1 DEF Direct!Next
    <2>2. CASE ~ (kernel[c] = <<>> /\ c \notin jumps)
      BY <1>3, <1>6, <2>2 DEF UndoNext, Direct!directVars, Taken
    <2> QED BY <2>1, <2>2
  <1> QED BY <1>4, <1>5, <1>6 DEF UndoNext

LEMMA FamilyDoneStep ==
    ASSUME BInv, BatchTypeOK', bad = {}, FamilyDone
    PROVE  UNCHANGED Direct!directVars
  <1>1. Clean
    BY DEF FamilyDone, Flushed, GaveUp, BInv, TInv, BatchInv, TypeInv
  <1>2. UNCHANGED <<decls, appends>>
    BY <1>1, CleanEmpty DEF FamilyDone, BInv, TInv, BatchTypeOK
  <1>3. Taken' = Taken
    BY <1>2, SameTaken DEF FamilyDone
  <1> QED BY <1>3 DEF FamilyDone, Direct!directVars, Taken

\* Every step of the batch is one of the per-rule path, or none.
LEMMA SimulationStep ==
    ASSUME BInv, BatchTypeOK', BatchNext, bad = {}, ~ Repeats
    PROVE  Direct!Next \/ UNCHANGED Direct!directVars
  <1>1. ASSUME NEW c \in Chain, Ensure(c)
        PROVE  Direct!Next
    BY <1>1, EnsureStep DEF Direct!Next, Repeats
  <1>2. ASSUME NEW c \in Chain, NEW r \in Rule, AppendRule(c, r)
        PROVE  Direct!Next
    BY <1>2, AppendStep DEF Direct!Next
  <1>3. ASSUME NEW c \in Chain, NEW r, NEW op, Begin(op, c, r)
        PROVE  UNCHANGED Direct!directVars
    BY <1>3, SameTaken DEF Begin, Direct!directVars, Taken
  <1>4. ASSUME NEW c \in Chain, StopChain(c)
        PROVE  UNCHANGED Direct!directVars
    BY <1>4, SameTaken DEF StopChain, Direct!directVars, Taken
  <1>5. ASSUME NEW t \in Table, FlushTable(t)
        PROVE  UNCHANGED Direct!directVars
    BY <1>5, FlushStep
  <1>6. ASSUME NEW t \in Table, FlushFails(t)
        PROVE  FALSE
    BY <1>6 DEF FlushFails, Refused
  <1>7. ~ TryAgain
    BY DEF TryAgain, BInv, TInv, BatchInv, TypeInv
  <1>8. CASE EndBatch
    BY <1>8, SameTaken DEF EndBatch, Direct!directVars, Taken
  <1> QED BY <1>1, <1>2, <1>3, <1>4, <1>5, <1>6, <1>7, <1>8, InsertStep, MakeJumpStep,
             UndoStep, FamilyDoneStep DEF BatchNext

-----------------------------------------------------------------------------
(* The theorems *)

\* The invariant of every kernel.
FailInv == TInv /\ (NeverFails => BatchInv)

\* A kernel does not change its mind about a rule.
LEMMA SameKernel ==
    ASSUME [BatchNext]_batchVars
    PROVE  bad' = bad /\ NeverFails' = NeverFails
  <1>1. bad' = bad
    BY DEF BatchNext, batchVars, Ensure, AppendRule, Begin, StopChain, FlushTable,
           FlushFails, TryAgain, Insert, MakeJump, UndoNext, EndBatch, FamilyDone
  <1> QED BY <1>1 DEF NeverFails

\* Where no flush can fail, what is recorded belongs to chains that were set up,
\* and no command is told of a failed flush.
THEOREM BatchInvariant == BatchSpec => []FailInv
  <1>1. BatchInit => FailInv
    BY BatchInitInv DEF BInv, FailInv
  <1>2. FailInv /\ [BatchNext]_batchVars => FailInv'
    <2> SUFFICES ASSUME FailInv, [BatchNext]_batchVars
                 PROVE  FailInv'
      OBVIOUS
    <2>1. CASE BatchNext
      <3>1. TInv'
        BY <2>1, TypeStep, TypeInvStep DEF FailInv, TInv
      <3>2. NeverFails => BatchInv'
        BY <2>1, InvStep DEF FailInv, BInv
      <3> QED BY <3>1, <3>2, SameKernel DEF FailInv
    <2>2. CASE UNCHANGED batchVars
      BY <2>2 DEF batchVars, FailInv, TInv, BatchTypeOK, BatchInv, TypeInv, Clean,
                  Dirty, In, NeverFails
    <2> QED BY <2>1, <2>2
  <1> QED BY <1>1, <1>2, PTL DEF BatchSpec

\* Kernel, jumps, batch and the command under way keep their types, whatever the
\* kernel refuses.
THEOREM BatchTypeCorrect == BatchSpec => []BatchTypeOK
  <1>1. FailInv => BatchTypeOK
    BY DEF FailInv, TInv
  <1> QED BY <1>1, BatchInvariant, PTL

\* rules.rs says that the batch leaves "the same applied state the per-rule path
\* would have left": where the kernel refuses no rule, that is so of every step
\* but the second setting up of a chain, for any chains, tables and rules, with
\* or without iptables-restore, whenever a flush comes.
THEOREM BatchImplements == BatchSpec => ImplementsPerRule
  <1>1. BatchInit => Direct!Init
    <2>1. ASSUME BatchInit
          PROVE  Taken = [c \in Chain |-> Absent]
      BY <2>1 DEF BatchInit, Taken, WhenFlushed
    <2> QED BY <2>1 DEF BatchInit, Direct!Init, Taken
  <1>2. FailInv /\ FailInv' /\ [BatchNext]_batchVars
          => [bad = {} /\ ~ Repeats => Direct!Next]_(Direct!directVars)
    <2> SUFFICES ASSUME FailInv, FailInv', [BatchNext]_batchVars, bad = {}, ~ Repeats
                 PROVE  Direct!Next \/ UNCHANGED Direct!directVars
      OBVIOUS
    <2>1. CASE BatchNext
      <3>1. BInv /\ BatchTypeOK'
        BY DEF FailInv, BInv, TInv, NeverFails
      <3> QED BY <2>1, <3>1, SimulationStep
    <2>2. CASE UNCHANGED batchVars
      BY <2>2, SameTaken DEF batchVars, Direct!directVars, Taken
    <2> QED BY <2>1, <2>2
  <1> QED BY <1>1, <1>2, BatchInvariant, PTL DEF BatchSpec, ImplementsPerRule

-----------------------------------------------------------------------------
(* What a failed family leaves *)

\* A chain that was not set up, or was undone, is not in the kernel; one that is
\* being undone is out of use before it is emptied, and empty before it is
\* deleted.
LeftInv ==
    /\ \A c \in Chain \ ensured : kernel[c] = Absent /\ c \notin jumps
    /\ call # NoCall /\ call.op \in {"empty", "delete"} => call.chain \notin jumps
    /\ call # NoCall /\ call.op = "delete" =>
           Clean /\ kernel[call.chain] \in {<<>>, Absent}

LEMMA LeftStep ==
    ASSUME BInv, LeftInv, BatchNext, NeverFails
    PROVE  LeftInv'
  <1> USE DEF BInv, TInv, BatchInv, LeftInv
  <1>1. ASSUME NEW c \in Chain, Ensure(c)
        PROVE  LeftInv'
    BY <1>1 DEF Ensure, Building, BatchTypeOK
  <1>2. ASSUME NEW c \in Chain, NEW r \in Rule, AppendRule(c, r)
        PROVE  LeftInv'
    BY <1>2 DEF AppendRule, Building, BatchTypeOK
  <1>3. ASSUME NEW c \in Chain, NEW r, NEW op \in {"insert", "jump"}, Begin(op, c, r)
        PROVE  LeftInv'
    BY <1>3 DEF Begin
  <1>4. ASSUME NEW c \in Chain, StopChain(c)
        PROVE  LeftInv'
    BY <1>4 DEF StopChain, UndoCall
  <1>5. ASSUME NEW t \in Table, FlushTable(t)
        PROVE  LeftInv'
    <2>1. call' = call /\ ensured' = ensured /\ jumps' = jumps
      BY <1>5 DEF FlushTable
    <2>2. \A c \in Chain \ ensured : kernel'[c] = Absent
      <3>1. \A c \in Chain \ ensured : WhenFlushed(c) = Absent
        BY DEF WhenFlushed
      <3> QED BY <1>5, <3>1 DEF FlushTable
    <2>3. ~ Clean
      BY <1>5 DEF FlushTable, Clean
    <2> QED BY <2>1, <2>2, <2>3
  <1>6. \A t \in Table : ~ FlushFails(t)
    BY NoFlushFails
  <1>7. ~ TryAgain /\ ~ GaveUp
    BY DEF TryAgain, GaveUp
  <1>8. CASE Insert
    <2>1. call.op = "insert" /\ call.chain \in ensured
      BY <1>7, <1>8 DEF Insert, Flushed, TypeInv
    <2> QED BY <1>7, <1>8, <2>1 DEF Insert, BatchTypeOK
  <1>9. CASE MakeJump
    <2>1. call.chain \in ensured
      BY <1>7, <1>9 DEF MakeJump, Flushed, TypeInv
    <2> QED BY <1>9, <2>1 DEF MakeJump
  <1>10. CASE UndoNext
    <2>1. Clean /\ call # NoCall /\ call.chain \in ensured /\ ensured \subseteq Chain
      BY <1>7, <1>10 DEF UndoNext, Flushed, BatchTypeOK
    <2>2. Clean'
      BY <1>10, <2>1 DEF UndoNext, Clean, Dirty, In
    <2>3. CASE call.op = "unjump"
      BY <1>10, <2>1, <2>2, <2>3 DEF UndoNext, UndoCall
    <2>4. CASE call.op = "empty"
      <3>1. /\ kernel' \in {kernel, [kernel EXCEPT ![call.chain] = <<>>]}
            /\ kernel[call.chain] = Absent => kernel' = kernel
            /\ kernel[call.chain] # Absent => kernel' = [kernel EXCEPT ![call.chain] = <<>>]
            /\ call' = UndoCall("delete", call.chain)
            /\ jumps' = jumps /\ ensured' = ensured
        BY <1>10, <2>4 DEF UndoNext
      <3>2. kernel'[call.chain] \in {<<>>, Absent}
        BY <2>1, <3>1 DEF BatchTypeOK
      <3>3. \A c \in Chain \ {call.chain} : kernel'[c] = kernel[c]
        BY <2>1, <3>1 DEF BatchTypeOK
      <3>4. call'.chain = call.chain /\ call.chain \notin jumps
        BY <2>1, <2>4, <3>1 DEF UndoCall
      <3> QED BY <2>1, <2>2, <3>1, <3>2, <3>3, <3>4
    <2>5. CASE call.op = "delete"
      <3>1. kernel'[call.chain] = Absent
        BY <1>10, <2>1, <2>5 DEF UndoNext, BatchTypeOK
      <3>2. \A c \in Chain \ {call.chain} : kernel'[c] = kernel[c]
        BY <1>10, <2>1, <2>5 DEF UndoNext, BatchTypeOK
      <3>3. call' = NoCall /\ jumps' = jumps /\ ensured' = ensured \ {call.chain}
        BY <1>10, <2>5 DEF UndoNext
      <3>4. call.chain \notin jumps
        BY <2>1, <2>5
      <3> QED BY <3>1, <3>2, <3>3, <3>4
    <2> QED BY <1>10, <2>3, <2>4, <2>5 DEF UndoNext
  <1>11. CASE EndBatch
    BY <1>11 DEF EndBatch, UndoCall
  <1>12. CASE FamilyDone
    BY <1>12 DEF FamilyDone
  <1>13. \A c \in Chain : Begin("jump", c, AnyRule) => LeftInv'
    BY <1>3
  <1>14. \A c \in Chain : \A r \in Rule \ bad : Begin("insert", c, r) => LeftInv'
    BY <1>3
  <1> QED BY <1>1, <1>2, <1>4, <1>5, <1>6, <1>7, <1>8, <1>9, <1>10, <1>11,
             <1>12, <1>13, <1>14 DEF BatchNext

\* Rollback leaves nothing of a failed family in the kernel, if there is no batch
\* (whatever the kernel refuses) or the kernel refuses no rule (jumps may fail).
THEOREM FailedFamilyLeavesNothing == BatchSpec => []FailedLeavesNothing
  <1> DEFINE Left == NeverFails => LeftInv
  <1>1. BatchInit => Left
    BY DEF BatchInit, LeftInv
  <1>2. FailInv /\ Left /\ [BatchNext]_batchVars => Left'
    <2> SUFFICES ASSUME FailInv, Left, [BatchNext]_batchVars, NeverFails
                 PROVE  LeftInv'
      BY SameKernel
    <2>1. CASE BatchNext
      BY <2>1, LeftStep DEF FailInv, BInv
    <2>2. CASE UNCHANGED batchVars
      BY <2>2 DEF batchVars, LeftInv, Clean, Dirty, In
    <2> QED BY <2>1, <2>2
  <1>3. FailInv /\ Left => FailedLeavesNothing
    BY DEF FailInv, TInv, BatchTypeOK, LeftInv, FailedLeavesNothing
  <1> QED BY <1>1, <1>2, <1>3, BatchInvariant, PTL DEF BatchSpec

-----------------------------------------------------------------------------
(* What a family that answers Ok has *)

\* A jump leads to a chain that was set up, and is gone before the chain is
\* emptied; the batch ends with the family built or with nothing left of it.
DoneInv ==
    /\ jumps \subseteq ensured
    /\ call # NoCall => /\ phase \in {"build", "stop"}
                        /\ call.op \in {"empty", "delete"} => call.chain \notin jumps
                        /\ call.op = "end" => phase = "build" \/ ensured = {}
    /\ OkMeansBuilt

LEMMA DoneStep ==
    ASSUME TInv, DoneInv, BatchNext
    PROVE  DoneInv'
  <1> USE DEF TInv, DoneInv, OkMeansBuilt
  <1>1. ASSUME NEW c \in Chain, Ensure(c)
        PROVE  DoneInv'
    BY <1>1 DEF Ensure, Building
  <1>2. ASSUME NEW c \in Chain, NEW r \in Rule, AppendRule(c, r)
        PROVE  DoneInv'
    BY <1>2 DEF AppendRule, Building
  <1>3. ASSUME NEW c \in Chain, NEW r, NEW op \in {"insert", "jump"}, Begin(op, c, r)
        PROVE  DoneInv'
    BY <1>3 DEF Begin, Building
  <1>4. ASSUME NEW c \in Chain, StopChain(c)
        PROVE  DoneInv'
    BY <1>4 DEF StopChain, UndoCall
  <1>5. ASSUME NEW t \in Table, FlushTable(t)
        PROVE  DoneInv'
    BY <1>5 DEF FlushTable, Flushing
  <1>6. ASSUME NEW t \in Table, FlushFails(t)
        PROVE  DoneInv'
    <2>1. call # NoCall /\ call \in Call
      BY <1>6 DEF FlushFails, Flushing, BatchTypeOK
    <2>2. call'.op = call.op /\ call'.chain = call.chain
      BY <1>6, <2>1 DEF FlushFails, Call
    <2>3. jumps' = jumps /\ ensured' = ensured /\ phase' = phase
      BY <1>6 DEF FlushFails
    <2> QED BY <2>1, <2>2, <2>3
  <1>7. CASE TryAgain
    <2>1. call # NoCall /\ call \in Call
      BY <1>7 DEF TryAgain, BatchTypeOK
    <2>2. call'.op = call.op /\ call'.chain = call.chain
      BY <1>7, <2>1 DEF TryAgain, Call
    <2> QED BY <1>7, <2>1, <2>2 DEF TryAgain
  <1>8. CASE Insert
    <2>1. phase = "build"
      BY <1>8 DEF Insert, Flushed, GaveUp, TypeInv
    <2> QED BY <1>8, <2>1 DEF Insert
  <1>9. CASE MakeJump
    <2>1. phase = "build" /\ call.chain \in ensured
      BY <1>9 DEF MakeJump, Flushed, GaveUp, TypeInv
    <2> QED BY <1>9, <2>1 DEF MakeJump
  <1>10. CASE UndoNext
    <2>1. phase = "stop"
      BY <1>10 DEF UndoNext, Flushed, GaveUp, TypeInv
    <2> QED BY <1>10, <2>1 DEF UndoNext, UndoCall, Flushed, GaveUp
  <1>11. CASE EndBatch
    BY <1>11 DEF EndBatch, UndoCall
  <1>12. CASE FamilyDone
    <2>1. call # NoCall /\ call.op = "end" /\ call' = NoCall
      BY <1>12 DEF FamilyDone, Flushed, GaveUp
    <2>2. phase = "build" /\ Flushed => \A c \in ensured : kernel[c] # Absent
      BY CleanEmpty DEF Flushed, TypeInv
    <2> QED BY <1>12, <2>1, <2>2 DEF FamilyDone
  <1>13. \A c \in Chain : Begin("jump", c, AnyRule) => DoneInv'
    BY <1>3
  <1>14. \A c \in Chain : \A r \in Rule \ bad : Begin("insert", c, r) => DoneInv'
    BY <1>3
  <1> QED BY <1>1, <1>2, <1>4, <1>5, <1>6, <1>7, <1>8, <1>9, <1>10, <1>11,
             <1>12, <1>13, <1>14 DEF BatchNext

\* A family answers Ok only with every chain it set up in the kernel and every
\* jump leading to one, whatever the kernel refuses and however often a flush is
\* tried again.
THEOREM OkFamilyIsBuilt == BatchSpec => []OkMeansBuilt
  <1>1. BatchInit => DoneInv
    BY DEF BatchInit, DoneInv, OkMeansBuilt
  <1>2. FailInv /\ DoneInv /\ [BatchNext]_batchVars => DoneInv'
    <2> SUFFICES ASSUME FailInv, DoneInv, [BatchNext]_batchVars
                 PROVE  DoneInv'
      OBVIOUS
    <2>1. CASE BatchNext
      BY <2>1, DoneStep DEF FailInv
    <2>2. CASE UNCHANGED batchVars
      BY <2>2 DEF batchVars, DoneInv, OkMeansBuilt
    <2> QED BY <2>1, <2>2
  <1>3. DoneInv => OkMeansBuilt
    BY DEF DoneInv
  <1> QED BY <1>1, <1>2, <1>3, BatchInvariant, PTL DEF BatchSpec

=============================================================================
