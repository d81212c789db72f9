------------------------------ MODULE ChainWalk -------------------------------
(***************************************************************************)
(* A walk over the rules of one chain, and what is true of it whatever a   *)
(* rule does.  The chains are sequences computed from the settings, of any *)
(* length, so these are inductions; an induction that names no operator is *)
(* one over a set of numbers, which has a least element (Least).           *)
(***************************************************************************)
EXTENDS Integers, Sequences, WellFoundedInduction, TLAPS

CONSTANT After(_, _, _)      \* what rule r of table T makes of packet p

\* The packet before the first rule (0) and after each; where the walk comes out.
Steps(T, rules, p) ==
  LET run[i \in 0 .. Len(rules)] == IF i = 0 THEN p ELSE After(T, rules[i], run[i - 1])
  IN  run

Run(T, rules, p) == Steps(T, rules, p)[Len(rules)]

-----------------------------------------------------------------------------
\* A set of numbers has a least one.
LEMMA Least ==
    ASSUME NEW S \in SUBSET Nat, S # {}
    PROVE  \E n \in S : \A m \in S : n <= m
  <1> DEFINE R == OpToRel(<, Nat)
  <1>1. IsWellFoundedOn(R, Nat)
    BY NatLessThanWellFounded
  <1> HIDE DEF R
  <1>2. \E n \in S : \A m \in S : ~ (<<m, n>> \in R)
    BY <1>1, WFMin
  <1>3. \A m \in Nat, n \in Nat : m < n => <<m, n>> \in R
    BY DEF R, OpToRel
  <1>4. \A m \in S, n \in S : ~ (m < n) => n <= m
    OBVIOUS
  <1> QED BY <1>2, <1>3, <1>4

\* Induction over a set of numbers.
LEMMA Induction ==
    ASSUME NEW S \in SUBSET Nat, 0 \in S, \A n \in S : n + 1 \in S
    PROVE  S = Nat
  <1> SUFFICES ASSUME Nat \ S # {} PROVE FALSE
    OBVIOUS
  <1>1. PICK n \in Nat \ S : \A m \in Nat \ S : n <= m
    BY Least
  <1>2. n # 0 /\ n - 1 \in Nat /\ n - 1 \in S
    BY <1>1
  <1> QED BY <1>1, <1>2

\* Such a function is there, so the recursive definition defines one: it fits for
\* no rule, and what fits for n rules can be extended to one more.
LEMMA StepsDef ==
    ASSUME NEW T, NEW rules, NEW p, Len(rules) \in Nat
    PROVE  Steps(T, rules, p) =
             [i \in 0 .. Len(rules) |-> IF i = 0 THEN p
                                        ELSE After(T, rules[i], Steps(T, rules, p)[i - 1])]
  <1> DEFINE Fits(g, n) == g = [i \in 0 .. n |-> IF i = 0 THEN p
                                               ELSE After(T, rules[i], g[i - 1])]
             S == {n \in Nat : \E g : Fits(g, n)}
  <1>1. 0 \in S
    <2>1. Fits([i \in 0 .. 0 |-> p], 0)
      OBVIOUS
    <2> QED BY <2>1
  <1>2. ASSUME NEW n \in S PROVE n + 1 \in S
    <2>1. PICK g : Fits(g, n)
      OBVIOUS
    <2> DEFINE h == [i \in 0 .. n + 1 |-> IF i <= n THEN g[i] ELSE After(T, rules[i], g[n])]
    <2>2. ASSUME NEW i \in 0 .. n + 1
          PROVE  h[i] = IF i = 0 THEN p ELSE After(T, rules[i], h[i - 1])
      <3>1. CASE i <= n
        BY <2>1, <3>1
      <3>2. CASE i = n + 1
        <4>1. h[n] = g[n] /\ i # 0 /\ i - 1 = n /\ ~ (i <= n)
          BY <3>2
        <4>2. h[i] = After(T, rules[i], g[n])
          BY <4>1
        <4> QED BY <4>1, <4>2
      <3> QED BY <3>1, <3>2
    <2>3. Fits(h, n + 1)
      BY <2>2
    <2> HIDE DEF Fits, h
    <2> QED BY <2>3
  <1> HIDE DEF Fits
  <1>3. S = Nat
    BY <1>1, <1>2, Induction
  <1>4. \E g : Fits(g, Len(rules))
    BY <1>3
  <1>5. Steps(T, rules, p) = CHOOSE g : Fits(g, Len(rules))
    BY DEF Steps, Fits
  <1>6. Fits(Steps(T, rules, p), Len(rules))
    BY <1>4, <1>5
  <1> QED BY <1>6 DEF Fits

\* The same, rule by rule.
LEMMA StepsAt ==
    ASSUME NEW T, NEW rules, NEW p, Len(rules) \in Nat
    PROVE  \A i \in 0 .. Len(rules) :
             Steps(T, rules, p)[i] = IF i = 0 THEN p
                                     ELSE After(T, rules[i], Steps(T, rules, p)[i - 1])
  <1> DEFINE st == Steps(T, rules, p)
  <1>1. st = [i \in 0 .. Len(rules) |-> IF i = 0 THEN p ELSE After(T, rules[i], st[i - 1])]
    BY StepsDef
  <1> HIDE DEF st
  <1> QED BY <1>1 DEF st

\* Every step of the walk is in a set that its start is in and every rule stays in.
LEMMA StepsStay ==
    ASSUME NEW T, NEW rules, NEW p, NEW Q, Len(rules) \in Nat, p \in Q,
           \A i \in 1 .. Len(rules), q \in Q : After(T, rules[i], q) \in Q
    PROVE  \A i \in 0 .. Len(rules) : Steps(T, rules, p)[i] \in Q
  <1> DEFINE st == Steps(T, rules, p)
             S == {i \in Nat : i <= Len(rules) => st[i] \in Q}
  <1>0. \A i \in 0 .. Len(rules) : st[i] = IF i = 0 THEN p ELSE After(T, rules[i], st[i - 1])
    BY StepsAt
  <1> HIDE DEF st
  <1>1. 0 \in S
    BY <1>0
  <1>2. ASSUME NEW i \in S PROVE i + 1 \in S
    <2> SUFFICES ASSUME i + 1 <= Len(rules) PROVE st[i + 1] \in Q
      OBVIOUS
    <2>1. st[i] \in Q
      OBVIOUS
    <2>2. st[i + 1] = After(T, rules[i + 1], st[i])
      BY <1>0
    <2> QED BY <2>1, <2>2
  <1>3. S = Nat
    BY <1>1, <1>2, Induction
  <1> QED BY <1>3 DEF st

LEMMA RunStays ==
    ASSUME NEW T, NEW rules, NEW p, NEW Q, Len(rules) \in Nat, p \in Q,
           \A i \in 1 .. Len(rules), q \in Q : After(T, rules[i], q) \in Q
    PROVE  Run(T, rules, p) \in Q
  BY StepsStay DEF Run

\* A chain in two parts is walked one after the other.
LEMMA RunAppend ==
    ASSUME NEW T, NEW a, NEW b, NEW p, Len(a) \in Nat, Len(b) \in Nat
    PROVE  Run(T, a \o b, p) = Run(T, b, Run(T, a, p))
  <1> PICK s : s = a \o b
    OBVIOUS
  <1> DEFINE q == Run(T, a, p)
             ss == Steps(T, s, p)
             sa == Steps(T, a, p)
             sb == Steps(T, b, q)
             Both == {i \in Nat : i <= Len(a) => ss[i] = sa[i]}
             Rest == {i \in Nat : i <= Len(b) => ss[Len(a) + i] = sb[i]}
  <1>0. /\ Len(s) = Len(a) + Len(b) /\ Len(s) \in Nat
        /\ \A i \in 1 .. Len(a) : s[i] = a[i]
        /\ \A i \in 1 .. Len(b) : s[Len(a) + i] = b[i]
    OBVIOUS
  <1>1. \A i \in 0 .. Len(s) : ss[i] = IF i = 0 THEN p ELSE After(T, s[i], ss[i - 1])
    <2>1. Len(s) \in Nat
      BY <1>0
    <2> QED BY ONLY <2>1, StepsAt
  <1>2. \A i \in 0 .. Len(a) : sa[i] = IF i = 0 THEN p ELSE After(T, a[i], sa[i - 1])
    BY StepsAt
  <1>3. \A i \in 0 .. Len(b) : sb[i] = IF i = 0 THEN q ELSE After(T, b[i], sb[i - 1])
    BY StepsAt
  <1>4. q = sa[Len(a)] /\ Run(T, b, q) = sb[Len(b)] /\ Run(T, s, p) = ss[Len(s)]
    BY DEF Run
  <1> HIDE DEF ss, sa, sb, q
  <1>5. 0 \in Both
    BY <1>0, <1>1, <1>2
  <1>6. ASSUME NEW i \in Both PROVE i + 1 \in Both
    <2> SUFFICES ASSUME i + 1 <= Len(a) PROVE ss[i + 1] = sa[i + 1]
      OBVIOUS
    <2>1. ss[i] = sa[i] /\ i + 1 - 1 = i /\ i + 1 # 0
      OBVIOUS
    <2>2. ss[i + 1] = After(T, s[i + 1], ss[i]) /\ s[i + 1] = a[i + 1]
      BY <1>0, <1>1
    <2>3. sa[i + 1] = After(T, a[i + 1], sa[i])
      BY <1>2
    <2> QED BY <2>1, <2>2, <2>3
  <1>7. Both = Nat
    BY <1>5, <1>6, Induction
  <1>8. ss[Len(a)] = q
    BY <1>4, <1>7
  <1>9. 0 \in Rest
    BY <1>3, <1>8
  <1>10. ASSUME NEW i \in Rest PROVE i + 1 \in Rest
    <2> SUFFICES ASSUME i + 1 <= Len(b) PROVE ss[Len(a) + (i + 1)] = sb[i + 1]
      OBVIOUS
    <2> DEFINE k == Len(a) + (i + 1)
    <2>1. ss[Len(a) + i] = sb[i] /\ k - 1 = Len(a) + i /\ k # 0 /\ k \in 0 .. Len(s)
      BY <1>0
    <2>2. s[k] = b[i + 1]
      BY <1>0
    <2> HIDE DEF k
    <2>3. ss[k] = After(T, s[k], ss[k - 1])
      BY <1>1, <2>1
    <2>4. sb[i + 1] = After(T, b[i + 1], sb[i])
      BY <1>3
    <2> QED BY <2>1, <2>2, <2>3, <2>4 DEF k
  <1>11. Rest = Nat
    BY <1>9, <1>10, Induction
  <1>12. ss[Len(a) + Len(b)] = sb[Len(b)]
    BY <1>11
  <1>13. Run(T, s, p) = Run(T, b, q)
    BY <1>0, <1>4, <1>12
  <1> QED BY <1>13 DEF q

\* A rule on its own, and no rule.
LEMMA RunOne ==
    ASSUME NEW T, NEW r, NEW p
    PROVE  Run(T, <<r>>, p) = After(T, r, p)
  <1>1. \A i \in 0 .. 1 : Steps(T, <<r>>, p)[i] =
          IF i = 0 THEN p ELSE After(T, <<r>>[i], Steps(T, <<r>>, p)[i - 1])
    BY StepsAt
  <1>2. Steps(T, <<r>>, p)[1] = After(T, r, Steps(T, <<r>>, p)[0])
    BY <1>1
  <1>3. Steps(T, <<r>>, p)[0] = p
    BY <1>1
  <1> QED BY <1>2, <1>3 DEF Run

LEMMA RunNone ==
    ASSUME NEW T, NEW p
    PROVE  Run(T, <<>>, p) = p
  <1>1. 0 \in 0 .. Len(<<>>)
    OBVIOUS
  <1>2. Steps(T, <<>>, p)[0] = p
    BY <1>1, StepsAt
  <1> QED BY <1>2 DEF Run
=============================================================================
