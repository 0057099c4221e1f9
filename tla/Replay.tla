------------------------------- MODULE Replay -------------------------------
(***************************************************************************)
(* What a state becomes when a list of updates is applied to it one after  *)
(* the other, for any operator that applies one update: the form of both   *)
(* Client's Run and Hub's View, and the facts their proofs need about it.  *)
(*                                                                         *)
(* The facts are proved by induction on the number of updates, in the form *)
(* of the least-number principle: the first place at which a fact fails.   *)
(***************************************************************************)
EXTENDS Integers, Sequences, SequenceTheorems, WellFoundedInduction, TLAPS

CONSTANTS Updates, Apply(_, _)

\* The states the first n of the updates us lead through, from s.
Steps(s, us, n) ==
  LET r[i \in 0..n] == IF i = 0 THEN s ELSE Apply(r[i - 1], us[i])
  IN  r

\* The state all of them lead to.
Result(s, us) == Steps(s, us, Len(us))[Len(us)]

Below == {ss \in Nat \X Nat : ss[1] < ss[2]}

\* A set of natural numbers has a least element.
LEMMA LeastNumber ==
  ASSUME NEW T \in SUBSET Nat, T # {}
  PROVE  \E x \in T : \A y \in T : x <= y
<1>1. IsWellFoundedOn(Below, Nat)
  BY NatLessThanWellFounded, Zenon DEF OpToRel, Below
<1>2. PICK x \in T : \A y \in T : ~(<<y, x>> \in Below)
  BY <1>1, WFMin
<1>3. \A y \in Nat : y < x => <<y, x>> \in Below
  BY DEF Below
<1>4. \A y \in T : ~(y < x)
  BY <1>2, <1>3
<1> QED BY <1>4

\* A set of numbers that holds 0, and with a number below n the next one, holds
\* the numbers up to n.
LEMMA UpTo ==
  ASSUME NEW n \in Nat, NEW T, 0 \in T, \A i \in 1..n : i - 1 \in T => i \in T
  PROVE  0..n \subseteq T
<1> DEFINE Missing == (0..n) \ T
<1> SUFFICES ASSUME Missing # {} PROVE FALSE
  OBVIOUS
<1>1. Missing \in SUBSET Nat
  OBVIOUS
<1>2. PICK i \in Missing : \A j \in Missing : i <= j
  <2> HIDE DEF Missing
  <2> QED BY <1>1, LeastNumber
<1>3. i \in 1..n /\ i - 1 \in 0..n /\ ~(i <= i - 1)
  BY <1>2
<1>4. i - 1 \in T
  BY <1>2, <1>3
<1> QED BY <1>2, <1>3, <1>4

IsSteps(f, s, us, n) == f = [i \in 0..n |-> IF i = 0 THEN s ELSE Apply(f[i - 1], us[i])]

\* The recursive definition defines a function.
LEMMA StepsExist ==
  ASSUME NEW s, NEW us, NEW n \in Nat
  PROVE  \E f : IsSteps(f, s, us, n)
<1> DEFINE T == {m \in 0..n : \E f : IsSteps(f, s, us, m)}
<1>1. 0 \in T
  <2>1. IsSteps([i \in 0..0 |-> s], s, us, 0)
    BY DEF IsSteps
  <2> QED BY <2>1
<1>2. ASSUME NEW m \in 1..n, m - 1 \in T PROVE m \in T
  <2>1. PICK f : IsSteps(f, s, us, m - 1)
    BY <1>2
  <2> DEFINE g == [i \in 0..m |-> IF i = m THEN Apply(f[m - 1], us[m]) ELSE f[i]]
  <2>2. \A i \in 0..(m - 1) : f[i] = IF i = 0 THEN s ELSE Apply(f[i - 1], us[i])
    BY <2>1 DEF IsSteps
  <2>3. ASSUME NEW i \in 0..m
        PROVE  g[i] = IF i = 0 THEN s ELSE Apply(g[i - 1], us[i])
    <3>1. CASE i = m
      BY <3>1
    <3>2. CASE i # m
      <4>1. i \in 0..(m - 1) /\ (i # 0 => i - 1 \in 0..m /\ i - 1 # m)
        BY <3>2
      <4> QED BY <2>2, <3>2, <4>1
    <3> QED BY <3>1, <3>2
  <2>4. g = [i \in 0..m |-> g[i]]
    OBVIOUS
  <2> HIDE DEF g
  <2>5. IsSteps(g, s, us, m)
    BY <2>3, <2>4 DEF IsSteps
  <2> QED BY <2>5
<1> HIDE DEF T
<1>3. n \in T
  BY <1>1, <1>2, UpTo
<1> QED BY <1>3 DEF T

LEMMA StepsDef ==
  ASSUME NEW s, NEW us, NEW n \in Nat
  PROVE  /\ Steps(s, us, n)[0] = s
         /\ \A i \in 1..n : Steps(s, us, n)[i] = Apply(Steps(s, us, n)[i - 1], us[i])
<1>1. IsSteps(Steps(s, us, n), s, us, n)
  BY StepsExist DEF Steps, IsSteps
<1> QED BY <1>1 DEF IsSteps

\* An invariant of every update is an invariant of the states.
LEMMA StepsType ==
  ASSUME NEW S, NEW s \in S, NEW us, NEW n \in Nat,
         \A x \in S : \A i \in 1..n : Apply(x, us[i]) \in S
  PROVE  \A i \in 0..n : Steps(s, us, n)[i] \in S
<1> DEFINE T == {i \in 0..n : Steps(s, us, n)[i] \in S}
<1>1. 0 \in T
  BY StepsDef
<1>2. \A i \in 1..n : i - 1 \in T => i \in T
  BY StepsDef
<1> HIDE DEF T
<1>3. 0..n \subseteq T
  BY <1>1, <1>2, UpTo
<1> QED BY <1>3 DEF T

\* The updates vs are the m that follow the first k of us.
Follow(vs, us, k, m) == \A i \in 1..m : vs[i] = us[k + i]

\* The states depend on the updates applied so far only.
LEMMA StepsPrefix ==
  ASSUME NEW s, NEW us, NEW vs, NEW n \in Nat, NEW k \in 0..n, Follow(vs, us, 0, k)
  PROVE  Steps(s, us, n)[k] = Steps(s, vs, k)[k]
<1> DEFINE T == {i \in 0..k : Steps(s, us, n)[i] = Steps(s, vs, k)[i]}
<1>1. 0 \in T
  BY StepsDef
<1>2. ASSUME NEW i \in 1..k, i - 1 \in T PROVE i \in T
  <2>1. /\ Steps(s, us, n)[i] = Apply(Steps(s, us, n)[i - 1], us[i])
        /\ Steps(s, vs, k)[i] = Apply(Steps(s, vs, k)[i - 1], vs[i])
    BY StepsDef
  <2>2. us[i] = vs[i]
    BY DEF Follow
  <2> QED BY <1>2, <2>1, <2>2
<1> HIDE DEF T
<1>3. 0..k \subseteq T
  BY <1>1, <1>2, UpTo
<1>4. k \in T
  BY <1>3
<1> QED BY <1>4 DEF T

IsSum(n, k, m) == n = k + m

\* Applying k updates first and m others then comes to the same as applying all.
LEMMA StepsShift ==
  ASSUME NEW s, NEW us, NEW vs, NEW n \in Nat, NEW k \in Nat, NEW m \in Nat, IsSum(n, k, m),
         Follow(vs, us, k, m)
  PROVE  Steps(s, us, n)[n] = Steps(Steps(s, us, n)[k], vs, m)[m]
<1> USE DEF IsSum
<1> DEFINE x == Steps(s, us, n)[k]
           T == {i \in 0..m : Steps(x, vs, m)[i] = Steps(s, us, n)[k + i]}
<1>1. 0 \in T
  BY StepsDef
<1>2. ASSUME NEW i \in 1..m, i - 1 \in T PROVE i \in T
  <2>1. Steps(x, vs, m)[i] = Apply(Steps(x, vs, m)[i - 1], vs[i])
    BY StepsDef
  <2>2. Steps(s, us, n)[k + i] = Apply(Steps(s, us, n)[k + i - 1], us[k + i])
    <3>1. k + i \in 1..n
      OBVIOUS
    <3> QED BY <3>1, StepsDef
  <2>3. k + (i - 1) = k + i - 1 /\ vs[i] = us[k + i]
    BY DEF Follow
  <2> QED BY <1>2, <2>1, <2>2, <2>3
<1> HIDE DEF T
<1>3. 0..m \subseteq T
  BY <1>1, <1>2, UpTo
<1>4. m \in T
  BY <1>3
<1> QED BY <1>4 DEF T

\* Each of the first n updates adds an element of f to a set.
Adds(us, f, n) == \A x : \A i \in 1..n : Apply(x, us[i]) = x \cup {f[i]}

Elements(f, n) == {f[i] : i \in 1..n}

\* Together they add all of them.
LEMMA StepsGather ==
  ASSUME NEW s, NEW us, NEW n \in Nat, NEW f, Adds(us, f, n)
  PROVE  Steps(s, us, n)[n] = s \cup Elements(f, n)
<1> USE DEF Adds, Elements
<1> DEFINE T == {i \in 0..n : Steps(s, us, n)[i] = s \cup {f[j] : j \in 1..i}}
<1>1. 0 \in T
  BY StepsDef
<1>2. ASSUME NEW i \in 1..n, i - 1 \in T PROVE i \in T
  <2>1. Steps(s, us, n)[i] = Apply(Steps(s, us, n)[i - 1], us[i])
    BY StepsDef
  <2>2. Apply(Steps(s, us, n)[i - 1], us[i]) = Steps(s, us, n)[i - 1] \cup {f[i]}
    OBVIOUS
  <2>3. Steps(s, us, n)[i - 1] = s \cup {f[j] : j \in 1..(i - 1)}
    BY <1>2
  <2>4. /\ \A j \in 1..i : j \in 1..(i - 1) \/ j = i
        /\ \A j \in 1..(i - 1) : j \in 1..i
        /\ i \in 1..i
    OBVIOUS
  <2>5. {f[j] : j \in 1..i} = {f[j] : j \in 1..(i - 1)} \cup {f[i]}
    BY <2>4
  <2>6. Steps(s, us, n)[i] = s \cup {f[j] : j \in 1..i}
    BY <2>1, <2>2, <2>3, <2>5
  <2> QED BY <2>6
<1> HIDE DEF T
<1>3. 0..n \subseteq T
  BY <1>1, <1>2, UpTo
<1>4. n \in T
  BY <1>3
<1> QED BY <1>4 DEF T

LEMMA ResultEmpty ==
  ASSUME NEW s
  PROVE  Result(s, <<>>) = s
BY StepsDef DEF Result

LEMMA ResultOne ==
  ASSUME NEW s, NEW u
  PROVE  Result(s, <<u>>) = Apply(s, u)
BY StepsDef DEF Result

LEMMA ResultTwo ==
  ASSUME NEW s, NEW u, NEW v
  PROVE  Result(s, <<u, v>>) = Apply(Apply(s, u), v)
<1>1. Steps(s, <<u, v>>, 2)[1] = Apply(s, u)
  BY StepsDef
<1>2. Steps(s, <<u, v>>, 2)[2] = Apply(Steps(s, <<u, v>>, 2)[1], v)
  BY StepsDef
<1> QED BY <1>1, <1>2 DEF Result

\* ws are the updates us and then vs.
Split(us, vs, ws) ==
  /\ Len(us) \in Nat /\ Len(vs) \in Nat /\ Len(ws) = Len(us) + Len(vs)
  /\ Follow(us, ws, 0, Len(us)) /\ Follow(vs, ws, Len(us), Len(vs))

LEMMA ResultSplit ==
  ASSUME NEW s, NEW us, NEW vs, NEW ws, Split(us, vs, ws)
  PROVE  Result(s, ws) = Result(Result(s, us), vs)
<1>1. PICK k \in Nat, m \in Nat, n \in Nat :
        /\ k = Len(us) /\ m = Len(vs) /\ n = Len(ws) /\ n = k + m
        /\ Follow(us, ws, 0, k) /\ Follow(vs, ws, k, m)
  BY DEF Split
<1>2. k \in 0..n
  BY <1>1
<1>3. IsSum(n, k, m) /\ Follow(vs, ws, k, m)
  BY <1>1 DEF IsSum
<1>4. Steps(s, ws, n)[k] = Steps(s, us, k)[k]
  <2>1. Follow(us, ws, 0, k)
    BY <1>1
  <2> QED BY <1>2, <2>1, StepsPrefix
<1>5. Steps(s, ws, n)[n] = Steps(Steps(s, ws, n)[k], vs, m)[m]
  BY <1>3, StepsShift
<1> QED BY <1>1, <1>4, <1>5 DEF Result

LEMMA ResultConcat ==
  ASSUME NEW s, NEW us \in Seq(Updates), NEW vs \in Seq(Updates)
  PROVE  Result(s, us \o vs) = Result(Result(s, us), vs)
<1>1. Split(us, vs, us \o vs)
  BY ConcatProperties, LenProperties DEF Split, Follow
<1> QED BY <1>1, ResultSplit

LEMMA ResultAppend ==
  ASSUME NEW s, NEW us \in Seq(Updates), NEW u \in Updates
  PROVE  Result(s, Append(us, u)) = Apply(Result(s, us), u)
<1>1. <<u>> \in Seq(Updates)
  OBVIOUS
<1>2. PICK one : one = <<u>>
  OBVIOUS
<1>3. Append(us, u) = us \o one
  BY <1>2, AppendIsConcat
<1>4. Result(s, us \o one) = Result(Result(s, us), one)
  BY <1>1, <1>2, ResultConcat
<1> QED BY <1>2, <1>3, <1>4, ResultOne

LEMMA ResultHead ==
  ASSUME NEW s, NEW us \in Seq(Updates), us # <<>>
  PROVE  Result(s, us) = Result(Apply(s, Head(us)), Tail(us))
<1>1. /\ Head(us) \in Updates /\ Tail(us) \in Seq(Updates)
      /\ us = <<Head(us)>> \o Tail(us)
  BY HeadTailProperties, ConcatProperties
<1>2. ASSUME NEW u \in Updates, NEW one, NEW rest \in Seq(Updates), one = <<u>>
      PROVE  Result(s, one \o rest) = Result(Apply(s, u), rest)
  <2>1. one \in Seq(Updates)
    BY <1>2
  <2>2. Result(s, one \o rest) = Result(Result(s, one), rest)
    BY <2>1, ResultConcat
  <2> QED BY <1>2, <2>2, ResultOne
<1> QED BY <1>1, <1>2, Zenon

\* A further update leaves the states before it alone.
LEMMA StepsAppend ==
  ASSUME NEW s, NEW us \in Seq(Updates), NEW u \in Updates, NEW i \in 0..Len(us)
  PROVE  Steps(s, Append(us, u), i)[i] = Steps(s, us, i)[i]
<1>1. i \in Nat /\ i \in 0..i
  BY LenProperties
<1>2. Follow(us, Append(us, u), 0, i)
  BY AppendProperties, LenProperties DEF Follow
<1> QED BY <1>1, <1>2, StepsPrefix

\* After the first update, the others lead through the same states.
LEMMA StepsTail ==
  ASSUME NEW s, NEW us \in Seq(Updates), us # <<>>, NEW i \in 0..Len(Tail(us))
  PROVE  Steps(Apply(s, Head(us)), Tail(us), i)[i] = Steps(s, us, i + 1)[i + 1]
<1>1. /\ Len(us) \in Nat /\ Len(Tail(us)) = Len(us) - 1 /\ Head(us) = us[1]
      /\ \A j \in 1..Len(Tail(us)) : Tail(us)[j] = us[j + 1]
  BY HeadTailProperties, LenProperties
<1>2. PICK n : n = i + 1
  OBVIOUS
<1>3. n \in Nat /\ 1 \in Nat /\ i \in Nat /\ IsSum(n, 1, i)
  BY <1>1, <1>2 DEF IsSum
<1>4. Follow(Tail(us), us, 1, i)
  BY <1>1 DEF Follow
<1>5. Steps(s, us, n)[n] = Steps(Steps(s, us, n)[1], Tail(us), i)[i]
  BY <1>3, <1>4, StepsShift
<1>6. Steps(s, us, n)[1] = Apply(s, us[1])
  BY <1>2, <1>3, StepsDef
<1> QED BY <1>1, <1>2, <1>5, <1>6
=============================================================================
