------------------------------ MODULE Recursion ------------------------------
(***************************************************************************)
(* Induction and recursion over intervals of integers and over finite      *)
(* sets, said with sets in place of predicates: a property to prove is the *)
(* set of the arguments that have it.  Everything rests on the least       *)
(* element that a well-founded order gives to a set of naturals.  What     *)
(* FlattenSeq does to sequences of sequences follows from that.            *)
(***************************************************************************)
EXTENDS Integers, SequencesExt, FiniteSetTheorems, SequenceTheorems, WellFoundedInduction, TLAPS

(* A set that contains 0 and the successor of each of its naturals contains *)
(* every natural number.                                                    *)
LEMMA NatSet ==
  ASSUME NEW S, 0 \in S, \A n \in Nat : n \in S => n + 1 \in S
  PROVE  Nat \subseteq S
<1> SUFFICES ASSUME Nat \ S # {} PROVE FALSE
  OBVIOUS
<1> DEFINE T == Nat \ S
<1>1. IsWellFoundedOn(OpToRel(<, Nat), Nat)
  BY NatLessThanWellFounded
<1>2. PICK x \in T : \A y \in T : ~ (<<y, x>> \in OpToRel(<, Nat))
  BY <1>1, WFMin
<1>3. \A y \in T : ~(y < x)
  BY <1>2 DEF OpToRel
<1>4. x # 0 /\ x \in Nat
  BY <1>2
<1>5. x - 1 \in Nat /\ x - 1 \notin T
  BY <1>3, <1>4
<1>6. x - 1 \in S
  BY <1>5
<1>7. (x - 1) + 1 \in S
  BY <1>5, <1>6
<1>8. (x - 1) + 1 = x
  BY <1>4
<1> QED BY <1>2, <1>7, <1>8

(* The same from m up to n. *)
LEMMA IntervalSet ==
  ASSUME NEW m \in Int, NEW n \in Int, NEW S,
         m \in S, \A i \in m .. (n - 1) : i \in S => i + 1 \in S
  PROVE  m .. n \subseteq S
<1> DEFINE T == {k \in Nat : m + k <= n => m + k \in S}
<1>1. 0 \in T
  OBVIOUS
<1>2. ASSUME NEW k \in Nat, k \in T PROVE k + 1 \in T
  <2>1. CASE m + (k + 1) <= n
    <3>1. m + k \in S /\ m + k \in m .. (n - 1)
      BY <1>2, <2>1
    <3>2. (m + k) + 1 \in S /\ (m + k) + 1 = m + (k + 1)
      BY <3>1
    <3> QED BY <3>2
  <2> QED BY <2>1
<1>3. Nat \subseteq T
  <2> HIDE DEF T
  <2> QED BY <1>1, <1>2, NatSet
<1>4. ASSUME NEW i \in m .. n PROVE i \in S
  <2>1. i - m \in Nat /\ m + (i - m) = i
    OBVIOUS
  <2>2. i - m \in T
    BY <1>3, <2>1
  <2> QED BY <2>1, <2>2
<1> QED BY <1>4

(* A set of naturals that is not empty has a least element. *)
LEMMA LeastNatural ==
  ASSUME NEW S \in SUBSET Nat, S # {}
  PROVE  \E x \in S : \A y \in S : x <= y
<1>1. IsWellFoundedOn(OpToRel(<, Nat), Nat)
  BY NatLessThanWellFounded
<1>2. PICK x \in S : \A y \in S : ~ (<<y, x>> \in OpToRel(<, Nat))
  BY <1>1, WFMin
<1>3. \A y \in S : ~(y < x)
  BY <1>2 DEF OpToRel
<1>4. x \in Int /\ \A y \in S : y \in Int
  OBVIOUS
<1> QED BY <1>3, <1>4

(* A family of sets that contains the empty set and whatever one element   *)
(* more makes of a member contains every finite set.                       *)
LEMMA FiniteSetSet ==
  ASSUME NEW S, IsFiniteSet(S), NEW F, {} \in F,
         \A T \in SUBSET S, x \in S : T \in F /\ x \notin T => T \cup {x} \in F
  PROVE  S \in F
<1> DEFINE G == {n \in Nat : \A T \in SUBSET S : Cardinality(T) = n => T \in F}
<1>1. \A T \in SUBSET S : IsFiniteSet(T) /\ Cardinality(T) \in Nat
  BY FS_Subset, FS_CardinalityType
<1>2. 0 \in G
  BY <1>1, FS_EmptySet
<1>3. ASSUME NEW n \in Nat, n \in G PROVE n + 1 \in G
  <2> SUFFICES ASSUME NEW T \in SUBSET S, Cardinality(T) = n + 1 PROVE T \in F
    OBVIOUS
  <2>0. IsFiniteSet(T) /\ n + 1 # 0
    BY <1>1
  <2>1. T # {}
    BY <2>0, FS_EmptySet
  <2>2. PICK x \in T : TRUE
    BY <2>1
  <2>3. Cardinality(T \ {x}) = n
    <3>1. Cardinality(T \ {x}) = Cardinality(T) - 1
      BY <2>0, <2>2, FS_RemoveElement
    <3> QED BY <3>1
  <2>4. T \ {x} \in F /\ T \ {x} \in SUBSET S /\ x \in S /\ x \notin T \ {x}
    BY <1>3, <2>2, <2>3
  <2>5. (T \ {x}) \cup {x} \in F
    BY <2>4
  <2>6. (T \ {x}) \cup {x} = T
    BY <2>2
  <2> QED BY <2>5, <2>6
<1>4. Nat \subseteq G
  <2> HIDE DEF G
  <2> QED BY <1>2, <1>3, NatSet
<1> QED BY <1>1, <1>4

(* A recursion from m up to n: step is the function from the value before  *)
(* and the argument to the value.                                          *)
Steps(A, m, n, step) == \A v \in A, i \in (m + 1) .. n : step[<<v, i>>] \in A

Iterates(f, m, n, a, step) ==
  \A i \in m .. n : f[i] = IF i = m THEN a ELSE step[<<f[i - 1], i>>]

(* It has a solution. *)
LEMMA Iteration ==
  ASSUME NEW A, NEW m \in Int, NEW n \in Int, NEW a \in A, NEW step, Steps(A, m, n, step)
  PROVE  \E f \in [m .. n -> A] : Iterates(f, m, n, a, step)
<1> USE DEF Steps, Iterates
<1> DEFINE Good(f, k) == \A i \in m .. k : f[i] = IF i = m THEN a ELSE step[<<f[i - 1], i>>]
           S == {k \in m .. n : \E f \in [m .. k -> A] : Good(f, k)}
<1>1. CASE m > n
  <2>1. m .. n = {}
    BY <1>1
  <2>2. [i \in m .. n |-> a] \in [m .. n -> A]
    OBVIOUS
  <2> QED BY <2>1, <2>2
<1>2. CASE m <= n
  <2>1. m \in S
    <3> DEFINE f == [i \in m .. m |-> a]
    <3>1. f \in [m .. m -> A] /\ Good(f, m)
      OBVIOUS
    <3>2. m \in m .. n
      BY <1>2
    <3> HIDE DEF f, Good
    <3> QED BY <3>1, <3>2
  <2>2. ASSUME NEW k \in m .. (n - 1), k \in S PROVE k + 1 \in S
    <3>1. PICK f \in [m .. k -> A] : Good(f, k)
      BY <2>2
    <3> DEFINE g == [i \in m .. (k + 1) |-> IF i = k + 1 THEN step[<<f[k], k + 1>>] ELSE f[i]]
    <3>2. f[k] \in A /\ k + 1 \in (m + 1) .. n
      OBVIOUS
    <3>3. step[<<f[k], k + 1>>] \in A
      BY <3>2
    <3>4. g \in [m .. (k + 1) -> A]
      BY <3>3
    <3>5. ASSUME NEW i \in m .. (k + 1)
          PROVE  g[i] = IF i = m THEN a ELSE step[<<g[i - 1], i>>]
      <4>1. CASE i = k + 1
        <5>1. i # m /\ g[i - 1] = f[k]
          BY <4>1
        <5> QED BY <4>1, <5>1
      <4>2. CASE i # k + 1
        <5>1. i \in m .. k /\ g[i] = f[i] /\ (i # m => g[i - 1] = f[i - 1])
          BY <4>2
        <5> QED BY <3>1, <5>1
      <4> QED BY <4>1, <4>2
    <3>6. k + 1 \in m .. n
      OBVIOUS
    <3> HIDE DEF g
    <3>7. Good(g, k + 1)
      BY <3>5
    <3> HIDE DEF Good
    <3> QED BY <3>4, <3>6, <3>7
  <2>3. m .. n \subseteq S
    <3> HIDE DEF S
    <3> QED BY <2>1, <2>2, IntervalSet
  <2>4. n \in S
    BY <1>2, <2>3
  <2> QED BY <2>4
<1> QED BY <1>1, <1>2

-----------------------------------------------------------------------------
(* What is where in a concatenation. *)
LEMMA ConcatAt ==
  ASSUME NEW A, NEW s \in Seq(A), NEW t \in Seq(A)
  PROVE  /\ s \o t \in Seq(A) /\ Len(s \o t) = Len(s) + Len(t)
         /\ \A i \in 1 .. Len(s) : (s \o t)[i] = s[i]
         /\ \A i \in 1 .. Len(t) : (s \o t)[Len(s) + i] = t[i]
  OBVIOUS

-----------------------------------------------------------------------------
(* FlattenSeq *)

(* f[i] is the concatenation of the first i sequences. *)
Flattens(f, s) == \A i \in 1 .. Len(s) : f[i] = IF i = 1 THEN s[i] ELSE f[i - 1] \o s[i]

LEMMA FlattenIs ==
  ASSUME NEW A, NEW s \in Seq(Seq(A)), s # <<>>
  PROVE  \E f \in [1 .. Len(s) -> Seq(A)] : Flattens(f, s) /\ FlattenSeq(s) = f[Len(s)]
<1> DEFINE n == Len(s)
           B == Seq(A)
           step == [x \in B \X (2 .. n) |-> x[1] \o s[x[2]]]
           Solves(f) == f = [i \in 1 .. n |-> IF i = 1 THEN s[i] ELSE f[i - 1] \o s[i]]
<1>1. n \in Nat /\ n >= 1 /\ s[1] \in B
  OBVIOUS
<1>2. \A i \in 1 .. n : s[i] \in B
  OBVIOUS
<1>3. ASSUME NEW v \in B, NEW i \in (1 + 1) .. n
      PROVE  step[<<v, i>>] = v \o s[i] /\ v \o s[i] \in B
  <2>1. i \in 2 .. n /\ s[i] \in B
    BY <1>1, <1>2
  <2>2. <<v, i>> \in B \X (2 .. n) /\ v \o s[i] \in B
    BY <2>1
  <2> HIDE DEF B
  <2> QED BY <2>2
<1>4. PICK f \in [1 .. n -> B] : Iterates(f, 1, n, s[1], step)
  <2> HIDE DEF step, n, B
  <2>1. Steps(B, 1, n, step)
    BY <1>3 DEF Steps
  <2>2. 1 \in Int /\ n \in Int /\ s[1] \in B
    BY <1>1
  <2> QED BY <2>1, <2>2, Iteration
<1>5. ASSUME NEW i \in 1 .. n PROVE f[i] = IF i = 1 THEN s[i] ELSE f[i - 1] \o s[i]
  <2>1. f[i] = IF i = 1 THEN s[1] ELSE step[<<f[i - 1], i>>]
    BY <1>4 DEF Iterates
  <2> HIDE DEF n, B
  <2>2. i # 1 => i - 1 \in 1 .. n /\ i \in (1 + 1) .. n
    BY <1>1
  <2>3. i # 1 => f[i - 1] \in B
    BY <2>2
  <2> HIDE DEF step
  <2> QED BY <1>3, <2>1, <2>2, <2>3
<1>6. Solves(f)
  BY <1>5
<1>7. Solves(CHOOSE g : Solves(g))
  <2> HIDE DEF Solves
  <2> QED BY <1>6
<1>8. n # 0
  BY <1>1
<1>9. FlattenSeq(s) = (CHOOSE g : Solves(g))[n]
  BY <1>8, Zenon DEF FlattenSeq
<1> DEFINE G == CHOOSE g : Solves(g)
<1>10. \A i \in 1 .. n : G[i] = IF i = 1 THEN s[i] ELSE G[i - 1] \o s[i]
  <2>1. Solves(G)
    BY <1>7
  <2> HIDE DEF G
  <2> QED BY <2>1
<1>11. FlattenSeq(s) = G[n]
  BY <1>9
<1>12. ASSUME NEW i \in 1 .. n PROVE G[i] = f[i]
  <2> DEFINE T == {j \in 1 .. n : G[j] = f[j]}
  <2> HIDE DEF G, n, B
  <2>1. 1 \in T
    <3>1. 1 \in 1 .. n
      BY <1>1
    <3>2. G[1] = s[1] /\ f[1] = s[1]
      BY <1>5, <1>10, <3>1
    <3> QED BY <3>1, <3>2
  <2>2. ASSUME NEW j \in 1 .. (n - 1), j \in T PROVE j + 1 \in T
    <3>1. j + 1 \in 1 .. n /\ j + 1 # 1 /\ (j + 1) - 1 = j /\ G[j] = f[j]
      BY <1>1, <2>2
    <3>2. G[j + 1] = G[j] \o s[j + 1] /\ f[j + 1] = f[j] \o s[j + 1]
      BY <1>5, <1>10, <3>1
    <3> QED BY <3>1, <3>2
  <2>3. 1 .. n \subseteq T
    <3>1. 1 \in Int /\ n \in Int
      BY <1>1
    <3> HIDE DEF T
    <3> QED BY <3>1, <2>1, <2>2, IntervalSet
  <2> QED BY <2>3
<1> HIDE DEF G
<1>13. FlattenSeq(s) = f[n]
  BY <1>1, <1>11, <1>12
<1>14. Flattens(f, s)
  BY <1>5 DEF Flattens
<1> QED BY <1>13, <1>14

LEMMA FlattenEmpty ==
  ASSUME NEW s, Len(s) = 0
  PROVE  FlattenSeq(s) = s
  BY DEF FlattenSeq

LEMMA FlattenType ==
  ASSUME NEW A, NEW s \in Seq(Seq(A))
  PROVE  FlattenSeq(s) \in Seq(A)
<1>1. CASE s = <<>>
  <2>1. Len(s) = 0 /\ s \in Seq(A)
    BY <1>1
  <2> QED BY <2>1, FlattenEmpty
<1>2. CASE s # <<>>
  <2>1. PICK f \in [1 .. Len(s) -> Seq(A)] : FlattenSeq(s) = f[Len(s)]
    BY <1>2, FlattenIs
  <2>2. Len(s) \in 1 .. Len(s)
    BY <1>2
  <2> QED BY <2>1, <2>2
<1> QED BY <1>1, <1>2

LEMMA FlattenAppend ==
  ASSUME NEW A, NEW s \in Seq(Seq(A)), NEW e \in Seq(A)
  PROVE  FlattenSeq(Append(s, e)) = FlattenSeq(s) \o e
<1> DEFINE t == Append(s, e)
           n == Len(s)
<1>1. /\ t \in Seq(Seq(A)) /\ t # <<>> /\ n \in Nat /\ Len(t) = n + 1 /\ t[n + 1] = e
      /\ \A i \in 1 .. n : t[i] = s[i]
  BY AppendProperties
<1> HIDE DEF t, n
<1>2. PICK g \in [1 .. Len(t) -> Seq(A)] : Flattens(g, t) /\ FlattenSeq(t) = g[Len(t)]
  BY <1>1, FlattenIs
<1>3. \A i \in 1 .. (n + 1) : g[i] = IF i = 1 THEN t[i] ELSE g[i - 1] \o t[i]
  BY <1>1, <1>2 DEF Flattens
<1>4. CASE s = <<>>
  <2>1. n = 0 /\ Len(s) = 0
    BY <1>4 DEF n
  <2>2. FlattenSeq(t) = e
    BY <1>1, <1>2, <1>3, <2>1
  <2>3. FlattenSeq(s) = <<>>
    BY <1>4, <2>1, FlattenEmpty
  <2> QED BY <2>2, <2>3 DEF t
<1>5. CASE s # <<>>
  <2>1. n >= 1
    BY <1>5 DEF n
  <2>2. PICK f \in [1 .. Len(s) -> Seq(A)] : Flattens(f, s) /\ FlattenSeq(s) = f[Len(s)]
    BY <1>5, FlattenIs
  <2>3. \A i \in 1 .. n : f[i] = IF i = 1 THEN s[i] ELSE f[i - 1] \o s[i]
    BY <2>2 DEF Flattens, n
  <2> DEFINE T == {j \in 1 .. n : g[j] = f[j]}
  <2>4. 1 \in T
    BY <1>1, <1>3, <2>1, <2>3
  <2>5. ASSUME NEW j \in 1 .. (n - 1), j \in T PROVE j + 1 \in T
    <3>1. j + 1 \in 1 .. n /\ j + 1 \in 1 .. (n + 1) /\ j + 1 # 1 /\ (j + 1) - 1 = j /\ g[j] = f[j]
      BY <1>1, <2>5
    <3>2. g[j + 1] = g[j] \o t[j + 1] /\ f[j + 1] = f[j] \o s[j + 1]
      BY <1>3, <2>3, <3>1
    <3> QED BY <1>1, <3>1, <3>2
  <2>6. 1 .. n \subseteq T
    <3>1. 1 \in Int /\ n \in Int
      BY <1>1
    <3> HIDE DEF T
    <3> QED BY <3>1, <2>4, <2>5, IntervalSet
  <2>7. g[n] = FlattenSeq(s)
    <3>1. n \in 1 .. n
      BY <1>1, <2>1
    <3>2. g[n] = f[n]
      BY <2>6, <3>1
    <3> QED BY <2>2, <3>2 DEF n
  <2>8. n + 1 \in 1 .. (n + 1) /\ n + 1 # 1 /\ (n + 1) - 1 = n
    BY <1>1, <2>1
  <2>9. g[n + 1] = g[n] \o t[n + 1]
    BY <1>3, <2>8
  <2> QED BY <1>1, <1>2, <2>7, <2>9 DEF t
<1> QED BY <1>4, <1>5

(* Its bytes: those of the sequence i + 1 begin behind those of the first i. *)
FirstOf(s, i) == FlattenSeq([j \in 1 .. i |-> s[j]])

LEMMA FirstOfIs ==
  ASSUME NEW A, NEW s \in Seq(Seq(A))
  PROVE  /\ FirstOf(s, 0) = <<>> /\ FirstOf(s, Len(s)) = FlattenSeq(s)
         /\ \A i \in 0 .. Len(s) : FirstOf(s, i) \in Seq(A)
         /\ \A i \in 0 .. (Len(s) - 1) : FirstOf(s, i + 1) = FirstOf(s, i) \o s[i + 1]
<1> DEFINE f(i) == [j \in 1 .. i |-> s[j]]
<1>1. \A i \in 0 .. Len(s) : f(i) \in Seq(Seq(A)) /\ Len(f(i)) = i
  OBVIOUS
<1>2. f(0) = <<>> /\ f(Len(s)) = s
  OBVIOUS
<1>3. FirstOf(s, 0) = <<>> /\ FirstOf(s, Len(s)) = FlattenSeq(s)
  <2>1. Len(<<>>) = 0
    OBVIOUS
  <2> QED BY <1>2, <2>1, FlattenEmpty DEF FirstOf
<1>4. ASSUME NEW i \in 0 .. Len(s) PROVE FirstOf(s, i) \in Seq(A)
  BY <1>1, FlattenType DEF FirstOf
<1>5. ASSUME NEW i \in 0 .. (Len(s) - 1) PROVE FirstOf(s, i + 1) = FirstOf(s, i) \o s[i + 1]
  <2>1. i \in 0 .. Len(s) /\ s[i + 1] \in Seq(A)
    OBVIOUS
  <2>2. f(i + 1) = Append(f(i), s[i + 1])
    BY <1>1, <2>1
  <2> HIDE DEF f
  <2>3. FlattenSeq(f(i + 1)) = FlattenSeq(f(i)) \o s[i + 1]
    BY <1>1, <2>1, <2>2, FlattenAppend
  <2> QED BY <2>3 DEF FirstOf, f
<1> QED BY <1>3, <1>4, <1>5

(* The first i are where they are in the first j, for every j from i on. *)
LEMMA FirstOfPrefix ==
  ASSUME NEW A, NEW s \in Seq(Seq(A)), NEW i \in 0 .. Len(s), NEW j \in i .. Len(s)
  PROVE  /\ Len(FirstOf(s, i)) <= Len(FirstOf(s, j))
         /\ \A m \in 1 .. Len(FirstOf(s, i)) : FirstOf(s, j)[m] = FirstOf(s, i)[m]
<1> DEFINE F(k) == FirstOf(s, k)
           T == {k \in i .. Len(s) : /\ Len(F(i)) <= Len(F(k))
                                     /\ \A m \in 1 .. Len(F(i)) : F(k)[m] = F(i)[m]}
<1>1. \A k \in 0 .. Len(s) : F(k) \in Seq(A)
  BY FirstOfIs
<1>2. \A k \in 0 .. (Len(s) - 1) : F(k + 1) = F(k) \o s[k + 1]
  BY FirstOfIs
<1> HIDE DEF F
<1>3. i \in T
  BY <1>1
<1>4. ASSUME NEW k \in i .. (Len(s) - 1), k \in T PROVE k + 1 \in T
  <2>1. k \in 0 .. (Len(s) - 1) /\ k \in 0 .. Len(s) /\ s[k + 1] \in Seq(A)
    OBVIOUS
  <2>2. F(k) \in Seq(A) /\ F(i) \in Seq(A) /\ F(k + 1) = F(k) \o s[k + 1]
    BY <1>1, <1>2, <2>1
  <2>3. Len(F(k + 1)) = Len(F(k)) + Len(s[k + 1]) /\ Len(s[k + 1]) \in Nat /\ Len(F(i)) \in Nat /\ Len(F(k)) \in Nat
    BY <2>1, <2>2
  <2>4. \A m \in 1 .. Len(F(k)) : F(k + 1)[m] = F(k)[m]
    BY <2>1, <2>2
  <2>5. Len(F(i)) <= Len(F(k)) /\ \A m \in 1 .. Len(F(i)) : F(k)[m] = F(i)[m]
    BY <1>4
  <2> QED BY <2>3, <2>4, <2>5
<1>5. i .. Len(s) \subseteq T
  <2>1. i \in Int /\ Len(s) \in Int
    OBVIOUS
  <2> HIDE DEF T
  <2> QED BY <1>3, <1>4, <2>1, IntervalSet
<1> QED BY <1>5 DEF F

LEMMA FlattenAt ==
  ASSUME NEW A, NEW s \in Seq(Seq(A)), NEW i \in 0 .. (Len(s) - 1)
  PROVE  /\ Len(FirstOf(s, i + 1)) = Len(FirstOf(s, i)) + Len(s[i + 1])
         /\ Len(FirstOf(s, i + 1)) <= Len(FlattenSeq(s))
         /\ \A m \in 1 .. Len(s[i + 1]) :
              FlattenSeq(s)[Len(FirstOf(s, i)) + m] = s[i + 1][m]
<1> DEFINE F(k) == FirstOf(s, k)
<1>1. i \in 0 .. Len(s) /\ i + 1 \in 0 .. Len(s) /\ Len(s) \in (i + 1) .. Len(s) /\ s[i + 1] \in Seq(A)
  OBVIOUS
<1>2. F(i) \in Seq(A) /\ F(i + 1) = F(i) \o s[i + 1] /\ F(Len(s)) = FlattenSeq(s)
  BY <1>1, FirstOfIs
<1>3. /\ Len(F(i + 1)) <= Len(F(Len(s)))
      /\ \A m \in 1 .. Len(F(i + 1)) : F(Len(s))[m] = F(i + 1)[m]
  BY <1>1, FirstOfPrefix
<1> HIDE DEF F
<1>4. Len(F(i + 1)) = Len(F(i)) + Len(s[i + 1]) /\ Len(F(i)) \in Nat /\ Len(s[i + 1]) \in Nat
  BY <1>1, <1>2
<1>5. ASSUME NEW m \in 1 .. Len(s[i + 1]) PROVE FlattenSeq(s)[Len(F(i)) + m] = s[i + 1][m]
  <2>1. Len(F(i)) + m \in 1 .. Len(F(i + 1))
    BY <1>4
  <2>2. F(i + 1)[Len(F(i)) + m] = s[i + 1][m]
    BY <1>1, <1>2, <1>4, <2>1
  <2> QED BY <1>2, <1>3, <2>1, <2>2
<1> QED BY <1>2, <1>3, <1>4, <1>5 DEF F
-----------------------------------------------------------------------------
(* A turn before the last one: its number, and the number of the next one,   *)
(* are turns of the loop.                                                    *)
LEMMA TurnAndNext ==
  ASSUME NEW n \in Nat, NEW t \in 0 .. (n - 1)
  PROVE  /\ t \in 0 .. n /\ t + 1 \in 0 .. n /\ t + 1 \in 1 .. n
         /\ t + 1 # 0 /\ (t + 1) - 1 = t
  OBVIOUS

(* A recursion that climbs: the value at p needs the one at next[p], beyond *)
(* p, and from limit on there is nothing more to do.                       *)
Climbs(f, limit, a, next, step) ==
  \A p \in Nat : f[p] = IF p >= limit THEN a ELSE step[<<f[next[p]], p>>]

LEMMA Climbing ==
  ASSUME NEW A, NEW a \in A, NEW limit \in Nat, NEW next \in [Nat -> Nat],
         \A p \in Nat : next[p] > p,
         NEW step, \A v \in A, p \in Nat : step[<<v, p>>] \in A
  PROVE  \E f \in [Nat -> A] : Climbs(f, limit, a, next, step)
<1> DEFINE F == [Nat -> A]
           Once(h) == [p \in Nat |-> IF p >= limit THEN a ELSE step[<<h[next[p]], p>>]]
           none == [p \in Nat |-> a]
           turn == [x \in F \X (1 .. limit) |-> Once(x[1])]
<1>1. none \in F
  OBVIOUS
<1>2. ASSUME NEW h \in F PROVE Once(h) \in F
  OBVIOUS
<1>3. PICK h \in [0 .. limit -> F] : Iterates(h, 0, limit, none, turn)
  <2>1. ASSUME NEW v \in F, NEW i \in (0 + 1) .. limit PROVE turn[<<v, i>>] \in F
    <3>1. <<v, i>> \in F \X (1 .. limit) /\ Once(v) \in F
      BY <1>2
    <3> HIDE DEF Once, F
    <3> QED BY <3>1
  <2> HIDE DEF turn, F, none
  <2>2. Steps(F, 0, limit, turn)
    BY <2>1 DEF Steps
  <2>3. 0 \in Int /\ limit \in Int
    OBVIOUS
  <2> QED BY <1>1, <2>2, <2>3, Iteration
<1>4. h[0] = none
  <2>1. 0 \in 0 .. limit
    OBVIOUS
  <2> HIDE DEF turn, F, none
  <2> QED BY <1>3, <2>1 DEF Iterates
<1>5. ASSUME NEW k \in 0 .. (limit - 1) PROVE h[k + 1] = Once(h[k])
  <2> HIDE DEF turn, F, none, Once
  <2>1. /\ k + 1 \in 0 .. limit /\ k + 1 # 0 /\ (k + 1) - 1 = k /\ k \in 0 .. limit
        /\ k + 1 \in 1 .. limit
    BY TurnAndNext
  <2>2. h[k + 1] = turn[<<h[k], k + 1>>]
    BY <1>3, <2>1 DEF Iterates
  <2>3. <<h[k], k + 1>> \in F \X (1 .. limit)
    BY <2>1
  <2> USE DEF turn
  <2> HIDE DEF Once, F
  <2> QED BY <2>2, <2>3
<1> HIDE DEF F, Once
<1> DEFINE C(k) == \A p \in Nat : p + k >= limit =>
                     h[k][p] = IF p >= limit THEN a ELSE step[<<h[k][next[p]], p>>]
           S == {k \in 0 .. limit : C(k)}
<1>6. 0 \in S
  BY <1>4
<1>7. ASSUME NEW k \in 0 .. (limit - 1), k \in S PROVE k + 1 \in S
  <2>1. \A p \in Nat : h[k + 1][p] = IF p >= limit THEN a ELSE step[<<h[k][next[p]], p>>]
    BY <1>5 DEF Once
  <2>2. ASSUME NEW q \in Nat, q + k >= limit PROVE h[k + 1][q] = h[k][q]
    BY <1>7, <2>1, <2>2
  <2>3. ASSUME NEW p \in Nat, p + (k + 1) >= limit
        PROVE  h[k + 1][p] = IF p >= limit THEN a ELSE step[<<h[k + 1][next[p]], p>>]
    <3>1. next[p] \in Nat /\ next[p] + k >= limit
      BY <2>3
    <3>2. h[k + 1][next[p]] = h[k][next[p]]
      BY <2>2, <3>1
    <3> QED BY <2>1, <3>2
  <2>4. C(k + 1)
    BY <2>3
  <2>5. k + 1 \in 0 .. limit
    OBVIOUS
  <2> HIDE DEF C
  <2> QED BY <2>4, <2>5
<1>8. 0 .. limit \subseteq S
  <2>1. 0 \in Int /\ limit \in Int
    OBVIOUS
  <2> HIDE DEF S
  <2> QED BY <1>6, <1>7, <2>1, IntervalSet
<1>9. limit \in 0 .. limit
  OBVIOUS
<1>10. C(limit)
  <2> HIDE DEF C
  <2> QED BY <1>8, <1>9
<1>11. Climbs(h[limit], limit, a, next, step)
  BY <1>10 DEF Climbs
<1>12. h[limit] \in [Nat -> A]
  BY <1>9 DEF F
<1> QED BY <1>11, <1>12

-----------------------------------------------------------------------------
(* A recursion without an end: a is the first value, step[v] the one after  *)
(* v, and it stays within A.                                                *)
Runs(f, a, step) == f[0] = a /\ \A k \in Nat : f[k + 1] = step[f[k]]
StaysIn(A, step) == \A v \in A : step[v] \in A

(* There is such a recursion. *)
LEMMA NatIteration ==
  ASSUME NEW A, NEW a \in A, NEW step, StaysIn(A, step)
  PROVE  \E f \in [Nat -> A] : Runs(f, a, step)
<1>0. \A v \in A : step[v] \in A
  BY DEF StaysIn
<1> DEFINE Good(n, f) == /\ f \in [0 .. n -> A] /\ f[0] = a
                         /\ \A k \in 0 .. (n - 1) : f[k + 1] = step[f[k]]
           S == {n \in Nat : \E f : Good(n, f)}
<1>1. 0 \in S
  <2> DEFINE g == [k \in 0 .. 0 |-> a]
  <2>1. g \in [0 .. 0 -> A] /\ g[0] = a
    OBVIOUS
  <2>2. \A k \in 0 .. (0 - 1) : g[k + 1] = step[g[k]]
    OBVIOUS
  <2>3. Good(0, g)
    BY <2>1, <2>2
  <2> QED BY <2>3
<1>2. ASSUME NEW n \in Nat, n \in S PROVE n + 1 \in S
  <2>1. PICK f : Good(n, f)
    BY <1>2
  <2> DEFINE g == [k \in 0 .. (n + 1) |-> IF k = n + 1 THEN step[f[n]] ELSE f[k]]
  <2>2. /\ f \in [0 .. n -> A] /\ f[0] = a
        /\ \A k \in 0 .. (n - 1) : f[k + 1] = step[f[k]]
    BY <2>1
  <2>3. step[f[n]] \in A
    BY <1>0, <2>2
  <2>4. g \in [0 .. (n + 1) -> A] /\ g[0] = a
    BY <2>2, <2>3
  <2>5. ASSUME NEW k \in 0 .. ((n + 1) - 1) PROVE g[k + 1] = step[g[k]]
    <3>1. CASE k = n
      BY <3>1
    <3>2. CASE k # n
      <4>1. k \in 0 .. (n - 1) /\ k + 1 # n + 1 /\ k # n + 1
        BY <3>2
      <4>2. f[k + 1] = step[f[k]]
        BY <2>2, <4>1
      <4> QED BY <4>1, <4>2
    <3> QED BY <3>1, <3>2
  <2>6. Good(n + 1, g)
    <3> HIDE DEF g
    <3> QED BY <2>4, <2>5
  <2>7. n + 1 \in Nat
    OBVIOUS
  <2> HIDE DEF Good
  <2>8. \E h : Good(n + 1, h)
    BY <2>6
  <2> QED BY <2>7, <2>8
<1>3. Nat \subseteq S
  <2> HIDE DEF S
  <2> QED BY <1>1, <1>2, NatSet
<1> DEFINE best == [n \in Nat |-> CHOOSE f : Good(n, f)]
<1>4. ASSUME NEW n \in Nat PROVE Good(n, best[n])
  <2>1. \E f : Good(n, f)
    BY <1>3
  <2> HIDE DEF Good
  <2> QED BY <2>1
<1> HIDE DEF best, Good
<1>5. ASSUME NEW n \in Nat PROVE \A k \in 0 .. n : best[n + 1][k] = best[n][k]
  <2> DEFINE T == {k \in 0 .. n : best[n + 1][k] = best[n][k]}
  <2>1. Good(n, best[n]) /\ Good(n + 1, best[n + 1])
    BY <1>4
  <2>2. /\ best[n][0] = a /\ best[n + 1][0] = a
        /\ \A k \in 0 .. (n - 1) : best[n][k + 1] = step[best[n][k]]
        /\ \A k \in 0 .. n : best[n + 1][k + 1] = step[best[n + 1][k]]
    BY <2>1 DEF Good
  <2>3. 0 \in T
    BY <2>2
  <2>4. ASSUME NEW k \in 0 .. (n - 1), k \in T PROVE k + 1 \in T
    <3>1. k \in 0 .. n /\ k + 1 \in 0 .. n
      BY TurnAndNext
    <3> QED BY <2>2, <2>4, <3>1
  <2>5. 0 .. n \subseteq T
    <3>1. 0 \in Int /\ n \in Int
      OBVIOUS
    <3> HIDE DEF T
    <3> QED BY <2>3, <2>4, <3>1, IntervalSet
  <2> QED BY <2>5
<1> DEFINE f == [n \in Nat |-> best[n][n]]
<1>6. f \in [Nat -> A] /\ f[0] = a
  <2>1. ASSUME NEW n \in Nat PROVE best[n][n] \in A
    <3>1. Good(n, best[n])
      BY <1>4
    <3>2. best[n] \in [0 .. n -> A] /\ n \in 0 .. n
      BY <3>1 DEF Good
    <3> QED BY <3>2
  <2>2. Good(0, best[0])
    BY <1>4
  <2> QED BY <2>1, <2>2 DEF Good
<1>7. ASSUME NEW k \in Nat PROVE f[k + 1] = step[f[k]]
  <2>0. k + 1 \in Nat /\ k \in 0 .. k /\ k \in 0 .. ((k + 1) - 1)
    OBVIOUS
  <2>1. Good(k + 1, best[k + 1])
    BY <1>4, <2>0
  <2>2. best[k + 1][k] = best[k][k]
    BY <1>5, <2>0
  <2>3. best[k + 1][k + 1] = step[best[k + 1][k]]
    BY <2>0, <2>1 DEF Good
  <2> QED BY <2>2, <2>3
<1> HIDE DEF f
<1>8. Runs(f, a, step)
  BY <1>6, <1>7 DEF Runs
<1> QED BY <1>6, <1>8

(* Whatever satisfies the recursion stays within A too. *)
LEMMA NatIterates ==
  ASSUME NEW A, NEW a \in A, NEW step, StaysIn(A, step),
         NEW w, w[0] = a, \A k \in Nat : w[k] \in A => w[k + 1] = step[w[k]]
  PROVE  \A k \in Nat : w[k] \in A /\ w[k + 1] = step[w[k]]
<1> DEFINE S == {k \in Nat : w[k] \in A}
<1>1. 0 \in S
  OBVIOUS
<1>2. \A k \in Nat : k \in S => k + 1 \in S
  BY DEF StaysIn
<1>3. Nat \subseteq S
  <2> HIDE DEF S
  <2> QED BY <1>1, <1>2, NatSet
<1> QED BY <1>3
=============================================================================
