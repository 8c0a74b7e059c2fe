---------------------------- MODULE ListsProofs ----------------------------
(***************************************************************************)
(* Lemmas about lists, least elements and induction that the proofs of the *)
(* components share.                                                       *)
(***************************************************************************)
EXTENDS Lists, SequencesExt, FiniteSetTheorems, SequenceTheorems,
        WellFoundedInduction, TLAPS

------------------------------------------------------------------------------
(* A set of natural numbers that is not empty has a least one, and Min is  *)
(* it.                                                                     *)
Below == {p \in Nat \X Nat : p[1] < p[2]}

LEMMA BelowWellFounded == IsWellFoundedOn(Below, Nat)
<1>1. Below = OpToRel(<, Nat)  BY Zenon DEF Below, OpToRel
<1> QED  BY <1>1, NatLessThanWellFounded, Zenon

LEMMA Least ==
  ASSUME NEW T \in SUBSET Nat, T # {}
  PROVE  \E x \in T : \A y \in T : x =< y
<1>1. PICK x \in T : \A y \in T : <<y, x>> \notin Below
  BY WFMin, BelowWellFounded, Zenon
<1>2. ASSUME NEW y \in T PROVE x =< y
  <2>1. x \in Nat /\ y \in Nat  OBVIOUS
  <2>2. <<y, x>> \notin Below  BY <1>1
  <2>3. <<y, x>> \in Nat \X Nat  BY <2>1
  <2>4. ~ (<<y, x>>[1] < <<y, x>>[2])  BY <2>2, <2>3, Zenon DEF Below
  <2> QED  BY <2>1, <2>4
<1> QED  BY <1>2

LEMMA MinIsLeast ==
  ASSUME NEW T \in SUBSET Nat, T # {}
  PROVE  Min(T) \in T /\ \A y \in T : Min(T) =< y
BY Least DEF Min

LEMMA MaxIsGreatest ==
  ASSUME NEW n \in Nat, NEW T \in SUBSET (1..n), T # {}
  PROVE  Max(T) \in T /\ \A y \in T : Max(T) >= y
<1> DEFINE D == {n - x : x \in T}
<1>1. PICK d \in D : \A e \in D : d =< e
  <2>1. \A x \in T : n - x \in Nat
    <3> TAKE x \in T
    <3>1. x \in 1..n  OBVIOUS
    <3> QED  BY <3>1
  <2>2. PICK x \in T : TRUE  OBVIOUS
  <2>3. n - x \in D  BY <2>2
  <2>4. D \in SUBSET Nat /\ D # {}  BY <2>1, <2>3
  <2> HIDE DEF D
  <2> QED  BY <2>4, Least
<1>2. PICK x \in T : d = n - x  BY <1>1
<1>3. ASSUME NEW y \in T PROVE x >= y
  <2>1. n - x =< n - y  BY <1>1, <1>2
  <2>2. x \in Nat /\ y \in Nat  OBVIOUS
  <2> QED  BY <2>1, <2>2
<1> QED  BY <1>3 DEF Max

(* Induction along 0..n over a set that holds what was proved of a number. *)
LEMMA SetInduction ==
  ASSUME NEW n \in Nat, NEW P, 0 \in P,
         \A k \in 0..n : k # n /\ k \in P => k + 1 \in P
  PROVE  0..n \subseteq P
<1>1. SUFFICES ASSUME (0..n) \ P # {} PROVE FALSE  OBVIOUS
<1>2. PICK x \in (0..n) \ P : \A y \in (0..n) \ P : x =< y
  <2>1. (0..n) \ P \in SUBSET Nat  OBVIOUS
  <2> QED  BY <1>1, <2>1, Least
<1>3. x # 0 /\ x - 1 \in 0..n /\ x - 1 # n  BY <1>2
<1>4. x - 1 \in P  BY <1>2, <1>3
<1> QED  BY <1>2, <1>3, <1>4

------------------------------------------------------------------------------
(* What Append and a new head do to the members of a list.                 *)
LEMMA Appended ==
  ASSUME NEW T, NEW l \in Seq(T), NEW x \in T
  PROVE  /\ Append(l, x) \in Seq(T) /\ Len(Append(l, x)) = Len(l) + 1
         /\ ToSet(Append(l, x)) = ToSet(l) \union {x}
         /\ IsInjective(l) /\ x \notin ToSet(l) => IsInjective(Append(l, x))
<1>1. /\ Append(l, x) \in Seq(T) /\ Len(Append(l, x)) = Len(l) + 1
      /\ \A i \in 1..Len(l) : Append(l, x)[i] = l[i]
      /\ Append(l, x)[Len(l) + 1] = x
  OBVIOUS
<1>2. DOMAIN Append(l, x) = DOMAIN l \union {Len(l) + 1} /\ DOMAIN l = 1..Len(l)
  BY <1>1
<1> QED  BY <1>1, <1>2, Len(l) \in Nat DEF ToSet, IsInjective

LEMMA Prepended ==
  ASSUME NEW T, NEW l \in Seq(T), NEW x \in T
  PROVE  /\ <<x>> \o l \in Seq(T) /\ Len(<<x>> \o l) = Len(l) + 1
         /\ ToSet(<<x>> \o l) = ToSet(l) \union {x}
         /\ IsInjective(l) /\ x \notin ToSet(l) => IsInjective(<<x>> \o l)
<1> DEFINE m == <<x>> \o l
<1>1. /\ m \in Seq(T) /\ Len(m) = Len(l) + 1 /\ m[1] = x
      /\ \A i \in 1..Len(l) : m[i + 1] = l[i]
  OBVIOUS
<1>2. DOMAIN m = 1..(Len(l) + 1) /\ DOMAIN l = 1..Len(l) /\ Len(l) \in Nat  BY <1>1
<1> HIDE DEF m
<1>3. \A i \in DOMAIN m : i = 1 \/ (i - 1 \in DOMAIN l /\ m[i] = l[i - 1])
  <2> TAKE i \in DOMAIN m
  <2>1. CASE i # 1
    <3>1. i - 1 \in 1..Len(l) /\ (i - 1) + 1 = i  BY <1>2, <2>1
    <3> QED  BY <1>1, <1>2, <3>1
  <2> QED  BY <2>1
<1>4. ToSet(m) = ToSet(l) \union {x}
  <2>1. ToSet(m) \subseteq ToSet(l) \union {x}  BY <1>1, <1>3 DEF ToSet
  <2>2. x \in ToSet(m)  BY <1>1, <1>2 DEF ToSet
  <2>3. ASSUME NEW i \in DOMAIN l PROVE l[i] \in ToSet(m)
    BY <1>1, <1>2 DEF ToSet
  <2> QED  BY <2>1, <2>2, <2>3 DEF ToSet
<1>5. ASSUME IsInjective(l), x \notin ToSet(l) PROVE IsInjective(m)
  <2>1. \A i \in DOMAIN l : l[i] # x  BY <1>5 DEF ToSet
  <2> QED  BY <1>1, <1>2, <1>3, <1>5, <2>1 DEF IsInjective
<1> QED  BY <1>1, <1>4, <1>5 DEF m

LEMMA TailMembers ==
  ASSUME NEW T, NEW l \in Seq(T), l # <<>>
  PROVE  /\ Tail(l) \in Seq(T) /\ ToSet(Tail(l)) \subseteq ToSet(l)
         /\ Head(l) \in ToSet(l)
<1>1. /\ Tail(l) \in Seq(T) /\ Len(l) # 0 /\ Len(l) \in Nat
      /\ Len(Tail(l)) = Len(l) - 1 /\ Head(l) = l[1]
      /\ \A i \in 1..Len(Tail(l)) : Tail(l)[i] = l[i + 1]
  OBVIOUS
<1>2. DOMAIN l = 1..Len(l) /\ DOMAIN Tail(l) = 1..Len(Tail(l))  BY <1>1
<1>3. \A i \in DOMAIN Tail(l) : i + 1 \in DOMAIN l  BY <1>1, <1>2
<1> QED  BY <1>1, <1>2, <1>3 DEF ToSet

LEMMA EmptyList ==
  /\ ToSet(<<>>) = {} /\ IsInjective(<<>>) /\ Len(<<>>) = 0
  /\ \A T : <<>> \in Seq(T)
BY DEF ToSet, IsInjective

(* The members of a list without repetitions are as many as it is long.    *)
LEMMA InjectiveLength ==
  ASSUME NEW T, NEW l \in Seq(T), IsInjective(l)
  PROVE  /\ IsFiniteSet(ToSet(l)) /\ Cardinality(ToSet(l)) = Len(l)
<1> DEFINE Upto(k) == {l[i] : i \in 1..k}
           P == {k \in 0..Len(l) : IsFiniteSet(Upto(k)) /\ Cardinality(Upto(k)) = k}
<1>0. Len(l) \in Nat /\ DOMAIN l = 1..Len(l)  OBVIOUS
<1>1. 0 \in P
  <2>1. Upto(0) = {} /\ 0 \in 0..Len(l)  BY <1>0
  <2> HIDE DEF Upto
  <2> QED  BY <2>1, FS_EmptySet
<1>2. ASSUME NEW k \in 0..Len(l), k # Len(l) /\ k \in P PROVE k + 1 \in P
  <2>1. k + 1 \in 0..Len(l) /\ k + 1 \in DOMAIN l
    <3>1. k # Len(l) /\ Len(l) \in Nat  BY <1>2
    <3>2. k + 1 \in 0..Len(l) /\ k + 1 \in 1..Len(l)  BY <3>1
    <3> QED  BY <1>0, <3>2
  <2>2. IsFiniteSet(Upto(k)) /\ Cardinality(Upto(k)) = k
    <3> HIDE DEF Upto
    <3> QED  BY <1>2
  <2> HIDE DEF P
  <2>3. Upto(k + 1) = Upto(k) \union {l[k + 1]}  BY <1>0, <2>1
  <2>4. l[k + 1] \notin Upto(k)
    <3>1. \A i \in 1..k : i \in DOMAIN l /\ i # k + 1  BY <1>0
    <3> QED  BY <2>1, <3>1 DEF IsInjective
  <2> HIDE DEF Upto
  <2>5. IsFiniteSet(Upto(k) \union {l[k + 1]}) /\ Cardinality(Upto(k) \union {l[k + 1]}) = k + 1
    BY <2>2, <2>4, FS_AddElement
  <2> QED  BY <2>1, <2>3, <2>5 DEF P
<1> HIDE DEF P
<1>3. 0..Len(l) \subseteq P  BY <1>0, <1>1, <1>2, SetInduction, Zenon
<1>4. Len(l) \in P  BY <1>0, <1>3
<1> QED  BY <1>0, <1>4 DEF P, ToSet

------------------------------------------------------------------------------
(* A recursion from 0 to n, whose steps are functions on T, has a solution. *)
Iterates(f, start, step, n) ==
  f = [k \in 0..n |-> IF k = 0 THEN start ELSE step[k][f[k - 1]]]

LEMMA Iteration ==
  ASSUME NEW T, NEW start \in T, NEW n \in Nat, NEW step \in [1..n -> [T -> T]]
  PROVE  \E f \in [0..n -> T] : Iterates(f, start, step, n)
<1> DEFINE P == {k \in 0..n : \E f \in [0..k -> T] : Iterates(f, start, step, k)}
<1>1. 0 \in P
  <2> DEFINE f == [k \in 0..0 |-> start]
  <2>1. f \in [0..0 -> T] /\ Iterates(f, start, step, 0)  BY DEF Iterates
  <2> QED  BY <2>1
<1>2. ASSUME NEW k \in 0..n, k # n, k \in P PROVE k + 1 \in P
  <2>1. PICK f \in [0..k -> T] : Iterates(f, start, step, k)  BY <1>2
  <2> DEFINE g == [i \in 0..(k + 1) |-> IF i <= k THEN f[i] ELSE step[i][f[i - 1]]]
  <2>2. \A i \in 0..k : f[i] = IF i = 0 THEN start ELSE step[i][f[i - 1]]
    BY <2>1 DEF Iterates
  <2>3. ASSUME NEW i \in 0..(k + 1)
        PROVE  g[i] \in T /\ g[i] = IF i = 0 THEN start ELSE step[i][g[i - 1]]
    <3>1. CASE i <= k  BY <2>2, <3>1
    <3>2. CASE ~(i <= k)
      <4>1. /\ i # 0 /\ i - 1 \in 0..(k + 1) /\ i - 1 <= k /\ i - 1 \in 0..k
            /\ i \in 1..n
        BY <1>2, <3>2
      <4>2. step[i] \in [T -> T] /\ f[i - 1] \in T  BY <4>1
      <4> QED  BY <3>2, <4>1, <4>2
    <3> QED  BY <3>1, <3>2
  <2>4. g \in [0..(k + 1) -> T] /\ Iterates(g, start, step, k + 1)
    <3>1. g = [i \in 0..(k + 1) |-> g[i]]  OBVIOUS
    <3> HIDE DEF g
    <3> QED  BY <2>3, <3>1 DEF Iterates
  <2> QED  BY <1>2, <2>4
<1> HIDE DEF P
<1>3. 0..n \subseteq P  BY <1>1, <1>2, SetInduction, Zenon
<1>4. n \in P  BY <1>3
<1> QED  BY <1>4 DEF P

(* Without takes its members from the list and none from S, and repeats    *)
(* none that the list does not repeat.                                     *)
LEMMA WithoutFacts ==
  ASSUME NEW T, NEW l \in Seq(T), NEW S
  PROVE  /\ Without(l, S) \in Seq(T)
         /\ ToSet(Without(l, S)) = ToSet(l) \ S
         /\ IsInjective(l) => IsInjective(Without(l, S))
<1>0. Len(l) \in Nat /\ DOMAIN l = 1..Len(l)  OBVIOUS
<1>1. PICK f : /\ f = [k \in 0..Len(l) |->
                        IF k = 0 THEN <<>>
                        ELSE IF l[k] \in S THEN f[k - 1] ELSE Append(f[k - 1], l[k])]
               /\ Without(l, S) = f[Len(l)]
  <2> DEFINE step == [k \in 1..Len(l) |->
                        [m \in Seq(T) |-> IF l[k] \in S THEN m ELSE Append(m, l[k])]]
  <2>1. step \in [1..Len(l) -> [Seq(T) -> Seq(T)]]
    <3>1. \A k \in 1..Len(l), m \in Seq(T) :
            l[k] \in T /\ Append(m, l[k]) \in Seq(T)
      BY <1>0, ElementOfSeq, AppendProperties
    <3> QED  BY <3>1
  <2>2. <<>> \in Seq(T)  OBVIOUS
  <2> HIDE DEF step
  <2>3. PICK f \in [0..Len(l) -> Seq(T)] : Iterates(f, <<>>, step, Len(l))
    BY <1>0, <2>1, <2>2, Iteration
  <2>4. ASSUME NEW k \in 0..Len(l), k # 0
        PROVE  step[k][f[k - 1]] = IF l[k] \in S THEN f[k - 1] ELSE Append(f[k - 1], l[k])
    <3>1. k \in 1..Len(l) /\ k - 1 \in 0..Len(l)  BY <1>0, <2>4
    <3>2. f[k - 1] \in Seq(T)  BY <3>1
    <3> QED  BY <3>1, <3>2 DEF step
  <2>5. f = [k \in 0..Len(l) |->
               IF k = 0 THEN <<>>
               ELSE IF l[k] \in S THEN f[k - 1] ELSE Append(f[k - 1], l[k])]
    BY <2>3, <2>4 DEF Iterates
  <2> QED  BY <2>5, Zenon DEF Without
<1>2. /\ f[0] = <<>>
      /\ \A k \in 1..Len(l) : f[k] = IF l[k] \in S THEN f[k - 1] ELSE Append(f[k - 1], l[k])
  <2>1. 0 \in 0..Len(l) /\ \A k \in 1..Len(l) : k \in 0..Len(l) /\ k # 0  BY <1>0
  <2> QED  BY <1>1, <2>1
<1> DEFINE Upto(k) == {l[i] : i \in 1..k}
           Good(k, m) == /\ m \in Seq(T)
                         /\ ToSet(m) = Upto(k) \ S
                         /\ IsInjective(l) => IsInjective(m)
           P == {k \in 0..Len(l) : Good(k, f[k])}
<1>4. 0 \in P
  <2>1. Upto(0) = {} /\ 0 \in 0..Len(l)  BY <1>0
  <2> HIDE DEF Upto
  <2>2. Good(0, <<>>)  BY <2>1, EmptyList
  <2> HIDE DEF Good
  <2> QED  BY <1>2, <2>1, <2>2
<1>5. ASSUME NEW k \in 0..Len(l), k # Len(l) /\ k \in P PROVE k + 1 \in P
  <2> DEFINE x == l[k + 1]
             m == f[k]
  <2>1. Good(k, m)
    <3> HIDE DEF Good
    <3> QED  BY <1>5
  <2>2. k + 1 \in 0..Len(l) /\ k + 1 \in DOMAIN l /\ (k + 1) - 1 = k
    <3>1. k # Len(l) /\ Len(l) \in Nat  BY <1>5
    <3>2. k + 1 \in 0..Len(l) /\ k + 1 \in 1..Len(l) /\ (k + 1) - 1 = k  BY <3>1
    <3> QED  BY <1>0, <3>2
  <2> HIDE DEF P
  <2>3. x \in T /\ f[k + 1] = IF x \in S THEN m ELSE Append(m, x)  BY <1>0, <1>2, <2>2
  <2>4. Upto(k + 1) = Upto(k) \union {x}  BY <1>0, <2>2
  <2>5. IsInjective(l) => x \notin Upto(k)
    <3>1. \A i \in 1..k : i \in DOMAIN l /\ i # k + 1  BY <1>0
    <3> QED  BY <2>2, <3>1 DEF IsInjective
  <2> HIDE DEF x, m, Upto
  <2>6. Good(k + 1, f[k + 1])
    <3>1. CASE x \in S  BY <2>1, <2>3, <2>4, <3>1
    <3>2. CASE x \notin S
      <4>1. /\ Append(m, x) \in Seq(T) /\ ToSet(Append(m, x)) = ToSet(m) \union {x}
            /\ IsInjective(m) /\ x \notin ToSet(m) => IsInjective(Append(m, x))
        BY <2>1, <2>3, Appended
      <4> QED  BY <2>1, <2>3, <2>4, <2>5, <3>2, <4>1
    <3> QED  BY <3>1, <3>2
  <2> HIDE DEF Good
  <2> QED  BY <2>2, <2>6 DEF P
<1> HIDE DEF P, Good
<1>6. 0..Len(l) \subseteq P  BY <1>0, <1>4, <1>5, SetInduction, Zenon
<1>7. Len(l) \in P  BY <1>0, <1>6
<1>8. Good(Len(l), Without(l, S))  BY <1>1, <1>7 DEF P
<1> QED  BY <1>0, <1>8 DEF Good, ToSet

------------------------------------------------------------------------------
(* Induction over lists, in the same form.                                 *)
LEMMA ListInduction ==
  ASSUME NEW T, NEW P, <<>> \in P,
         \A l \in Seq(T), x \in T : l \in P => Append(l, x) \in P
  PROVE  Seq(T) \subseteq P
<1>1. SUFFICES ASSUME NEW l \in Seq(T) PROVE l \in P  OBVIOUS
<1> DEFINE n == Len(l)
           Upto(k) == SubSeq(l, 1, k)
           Q == {k \in 0..n : Upto(k) \in P}
<1>2. n \in Nat  BY LenProperties
<1>3. Upto(0) = <<>>  OBVIOUS
<1>4. ASSUME NEW k \in 0..n, k # n
      PROVE  Upto(k) \in Seq(T) /\ l[k + 1] \in T /\ Upto(k + 1) = Append(Upto(k), l[k + 1])
  <2>1. k + 1 \in 1..n /\ k \in Nat  BY <1>2, <1>4
  <2>2. l[k + 1] \in T  BY <2>1, ElementOfSeq
  <2>3. /\ Upto(k) \in Seq(T) /\ Len(Upto(k)) = k
        /\ \A i \in 1..k : Upto(k)[i] = l[i]
    BY <1>2, <2>1
  <2>4. /\ Upto(k + 1) \in Seq(T) /\ Len(Upto(k + 1)) = k + 1
        /\ \A i \in 1..(k + 1) : Upto(k + 1)[i] = l[i]
    BY <1>2, <2>1
  <2> HIDE DEF Upto
  <2>5. /\ Append(Upto(k), l[k + 1]) \in Seq(T) /\ Len(Append(Upto(k), l[k + 1])) = k + 1
        /\ \A i \in 1..k : Append(Upto(k), l[k + 1])[i] = Upto(k)[i]
        /\ Append(Upto(k), l[k + 1])[k + 1] = l[k + 1]
    BY <2>2, <2>3, AppendProperties
  <2>6. \A i \in 1..(k + 1) : Upto(k + 1)[i] = Append(Upto(k), l[k + 1])[i]
    <3> TAKE i \in 1..(k + 1)
    <3>1. i \in 1..k \/ i = k + 1  BY <2>1
    <3> QED  BY <2>3, <2>4, <2>5, <3>1
  <2> QED  BY <2>2, <2>3, <2>4, <2>5, <2>6, SeqEqual
<1>5. Upto(n) = l
  <2>1. Upto(n) \in Seq(T) /\ Len(Upto(n)) = n /\ \A i \in 1..n : Upto(n)[i] = l[i]
    BY <1>2
  <2> QED  BY <2>1, SeqEqual
<1> HIDE DEF Upto
<1>6. 0 \in Q  BY <1>2, <1>3
<1>7. ASSUME NEW k \in 0..n, k # n /\ k \in Q PROVE k + 1 \in Q
  <2>1. k + 1 \in 0..n  BY <1>2, <1>7
  <2>2. Upto(k) \in P  BY <1>7
  <2> QED  BY <1>4, <1>7, <2>1, <2>2
<1> HIDE DEF Q, n
<1>8. 0..n \subseteq Q  BY <1>2, <1>6, <1>7, SetInduction, Zenon
<1>9. n \in Q  BY <1>2, <1>8
<1> QED  BY <1>5, <1>9 DEF Q

(* A recursion that takes one step more.                                   *)
LEMMA IterationStep ==
  ASSUME NEW start, NEW n \in Nat, NEW step, NEW more, NEW f, NEW g,
         \A k \in 1..n : step[k] = more[k],
         Iterates(f, start, step, n), Iterates(g, start, more, n + 1)
  PROVE  g[n + 1] = more[n + 1][f[n]]
<1> DEFINE P == {k \in 0..n : f[k] = g[k]}
<1>1. \A k \in 0..n : f[k] = IF k = 0 THEN start ELSE step[k][f[k - 1]]
  BY DEF Iterates
<1>2. \A k \in 0..(n + 1) : g[k] = IF k = 0 THEN start ELSE more[k][g[k - 1]]
  BY DEF Iterates
<1>3. 0 \in P
  <2>1. 0 \in 0..n /\ 0 \in 0..(n + 1)  OBVIOUS
  <2>2. f[0] = g[0]  BY <1>1, <1>2, <2>1
  <2> QED  BY <2>1, <2>2
<1>4. ASSUME NEW k \in 0..n, k # n /\ k \in P PROVE k + 1 \in P
  <2>1. /\ k + 1 \in 0..n /\ k + 1 \in 1..n /\ (k + 1) - 1 = k /\ k + 1 # 0
        /\ k + 1 \in 0..(n + 1)
    BY <1>4
  <2>2. f[k] = g[k]  BY <1>4
  <2>3. f[k + 1] = step[k + 1][f[k]] /\ g[k + 1] = more[k + 1][g[k]]  BY <1>1, <1>2, <2>1
  <2> QED  BY <2>1, <2>2, <2>3
<1> HIDE DEF P
<1>5. 0..n \subseteq P  BY <1>3, <1>4, SetInduction, Zenon
<1>6. n \in P  BY <1>5
<1>7. f[n] = g[n]  BY <1>6 DEF P
<1>8. n + 1 \in 0..(n + 1) /\ (n + 1) - 1 = n /\ n + 1 # 0  OBVIOUS
<1> QED  BY <1>2, <1>7, <1>8

(* Whatever takes these steps, as long as it stays in T, solves it.        *)
LEMMA Iterating ==
  ASSUME NEW T, NEW start \in T, NEW n \in Nat, NEW step \in [1..n -> [T -> T]],
         NEW h, h = [k \in 0..n |-> h[k]], h[0] = start,
         \A k \in 1..n : h[k - 1] \in T => h[k] = step[k][h[k - 1]]
  PROVE  h \in [0..n -> T] /\ Iterates(h, start, step, n)
<1> DEFINE P == {k \in 0..n : h[k] \in T}
<1>1. 0 \in P  OBVIOUS
<1>2. ASSUME NEW k \in 0..n, k # n /\ k \in P PROVE k + 1 \in P
  <2>1. k + 1 \in 0..n /\ k + 1 \in 1..n /\ (k + 1) - 1 = k  BY <1>2
  <2>2. h[k] \in T  BY <1>2
  <2>3. h[k + 1] = step[k + 1][h[k]]  BY <2>1, <2>2
  <2>4. step[k + 1] \in [T -> T]  BY <2>1
  <2> QED  BY <2>1, <2>2, <2>3, <2>4
<1> HIDE DEF P
<1>3. 0..n \subseteq P  BY <1>1, <1>2, SetInduction, Zenon
<1>4. \A k \in 0..n : h[k] \in T  BY <1>3 DEF P
<1>5. \A k \in 0..n : h[k] = IF k = 0 THEN start ELSE step[k][h[k - 1]]
  <2>1. ASSUME NEW k \in 0..n, k # 0 PROVE h[k] = step[k][h[k - 1]]
    <3>1. k \in 1..n /\ k - 1 \in 0..n  BY <2>1
    <3> QED  BY <1>4, <3>1
  <2> QED  BY <2>1
<1>6. h \in [0..n -> T]  BY <1>4
<1> QED  BY <1>5, <1>6 DEF Iterates

(* The concatenation of lists, list by list.                               *)
Joins(S, ss) == [k \in 1..Len(ss) |-> [u \in Seq(S) |-> u \o ss[k]]]

LEMMA JoinsFacts ==
  ASSUME NEW S, NEW ss \in Seq(Seq(S))
  PROVE  /\ Len(ss) \in Nat /\ \A k \in 1..Len(ss) : ss[k] \in Seq(S)
         /\ Joins(S, ss) \in [1..Len(ss) -> [Seq(S) -> Seq(S)]]
         /\ \A k \in 1..Len(ss), u \in Seq(S) : Joins(S, ss)[k][u] = u \o ss[k]
<1>1. Len(ss) \in Nat /\ \A k \in 1..Len(ss) : ss[k] \in Seq(S)
  BY LenProperties, ElementOfSeq
<1>2. \A k \in 1..Len(ss), u \in Seq(S) : u \o ss[k] \in Seq(S)  BY <1>1, ConcatProperties
<1> QED  BY <1>1, <1>2 DEF Joins

LEMMA FlattenIterates ==
  ASSUME NEW S, NEW ss \in Seq(Seq(S))
  PROVE  \E f \in [0..Len(ss) -> Seq(S)] : /\ Iterates(f, <<>>, Joins(S, ss), Len(ss))
                                           /\ FlattenSeq(ss) = f[Len(ss)]
<1> DEFINE n == Len(ss)
<1>1. /\ n \in Nat /\ \A k \in 1..n : ss[k] \in Seq(S)
      /\ Joins(S, ss) \in [1..n -> [Seq(S) -> Seq(S)]]
      /\ \A k \in 1..n, u \in Seq(S) : Joins(S, ss)[k][u] = u \o ss[k]
  BY JoinsFacts
<1>2. <<>> \in Seq(S)  OBVIOUS
<1> HIDE DEF n
<1>3. PICK f \in [0..n -> Seq(S)] : Iterates(f, <<>>, Joins(S, ss), n)
  BY <1>1, <1>2, Iteration
<1>4. f[0] = <<>> /\ \A k \in 1..n : f[k] = f[k - 1] \o ss[k]
  <2>1. 0 \in 0..n /\ \A k \in 1..n : k \in 0..n /\ k # 0 /\ k - 1 \in 0..n  BY <1>1
  <2>2. f[0] = <<>>  BY <1>3, <2>1 DEF Iterates
  <2>3. ASSUME NEW k \in 1..n PROVE f[k] = f[k - 1] \o ss[k]
    <3>1. f[k] = Joins(S, ss)[k][f[k - 1]]  BY <1>3, <2>1 DEF Iterates
    <3>2. f[k - 1] \in Seq(S)  BY <2>1
    <3> QED  BY <1>1, <3>1, <3>2
  <2> QED  BY <2>2, <2>3
<1>5. CASE n = 0
  <2>1. FlattenSeq(ss) = ss  BY <1>5 DEF FlattenSeq, n
  <2>2. ss = <<>>  BY <1>5, EmptySeq DEF n
  <2> QED  BY <1>3, <1>4, <1>5, <2>1, <2>2 DEF n
<1>6. CASE n # 0
  <2>1. \E fl : /\ fl = [i \in 1..n |-> IF i = 1 THEN ss[i] ELSE fl[i - 1] \o ss[i]]
                /\ FlattenSeq(ss) = fl[n]
    <3> DEFINE g == [i \in 1..n |-> f[i]]
    <3>1. g = [i \in 1..n |-> IF i = 1 THEN ss[i] ELSE g[i - 1] \o ss[i]]
      <4>1. ASSUME NEW i \in 1..n
            PROVE  g[i] = IF i = 1 THEN ss[i] ELSE g[i - 1] \o ss[i]
        <5>1. f[i] = f[i - 1] \o ss[i]  BY <1>4
        <5>2. CASE i = 1
          <6>1. <<>> \o ss[1] = ss[1]  BY <1>1, <5>2, ConcatEmptySeq
          <6>2. i - 1 = 0  BY <5>2
          <6>3. f[i] = <<>> \o ss[i]  BY <1>4, <5>1, <6>2
          <6> QED  BY <5>2, <6>1, <6>3
        <5>3. CASE i # 1
          <6>1. i - 1 \in 1..n  BY <1>1, <5>3
          <6> QED  BY <5>1, <5>3, <6>1
        <5> QED  BY <5>2, <5>3
      <4>2. g = [i \in 1..n |-> g[i]]  OBVIOUS
      <4> HIDE DEF g
      <4> QED  BY <4>1, <4>2
    <3> HIDE DEF g
    <3> QED  BY <1>6, <3>1, Zenon DEF FlattenSeq, n
  <2>2. PICK fl : /\ fl = [i \in 1..n |-> IF i = 1 THEN ss[i] ELSE fl[i - 1] \o ss[i]]
                  /\ FlattenSeq(ss) = fl[n]
    BY <2>1
  <2>3. \A i \in 1..n : fl[i] = IF i = 1 THEN ss[i] ELSE fl[i - 1] \o ss[i]
    BY <2>2
  <2> DEFINE P == {k \in 0..n : k # 0 => fl[k] = f[k]}
  <2>4. 0 \in P  BY <1>1
  <2>5. ASSUME NEW k \in 0..n, k # n /\ k \in P PROVE k + 1 \in P
    <3>1. /\ k + 1 \in 0..n /\ k + 1 \in 1..n /\ (k + 1) - 1 = k /\ k + 1 # 0
          /\ k + 1 = 1 <=> k = 0
      BY <1>1, <2>5
    <3>2. f[k + 1] = f[k] \o ss[k + 1]  BY <1>4, <3>1
    <3>3. fl[k + 1] = IF k + 1 = 1 THEN ss[k + 1] ELSE fl[k] \o ss[k + 1]  BY <2>3, <3>1
    <3>4. CASE k = 0
      <4>1. <<>> \o ss[k + 1] = ss[k + 1]  BY <1>1, <3>1, ConcatEmptySeq
      <4>2. fl[k + 1] = f[k + 1]  BY <1>4, <3>1, <3>2, <3>3, <3>4, <4>1
      <4> QED  BY <3>1, <4>2
    <3>5. CASE k # 0
      <4>1. fl[k] = f[k]  BY <2>5, <3>5
      <4>2. fl[k + 1] = f[k + 1]  BY <3>1, <3>2, <3>3, <3>5, <4>1
      <4> QED  BY <3>1, <4>2
    <3> QED  BY <3>4, <3>5
  <2> HIDE DEF P
  <2>6. 0..n \subseteq P  BY <1>1, <2>4, <2>5, SetInduction, Zenon
  <2>7. n \in P  BY <1>1, <2>6
  <2>8. fl[n] = f[n]  BY <1>6, <2>7 DEF P
  <2> QED  BY <1>3, <2>2, <2>8 DEF n
<1> QED  BY <1>5, <1>6

LEMMA FlattenSteps ==
  ASSUME NEW S, NEW ss \in Seq(Seq(S))
  PROVE  \E f \in [0..Len(ss) -> Seq(S)] :
           /\ f[0] = <<>> /\ \A k \in 1..Len(ss) : f[k] = f[k - 1] \o ss[k]
           /\ FlattenSeq(ss) = f[Len(ss)]
<1>1. PICK f \in [0..Len(ss) -> Seq(S)] : /\ Iterates(f, <<>>, Joins(S, ss), Len(ss))
                                          /\ FlattenSeq(ss) = f[Len(ss)]
  BY FlattenIterates
<1> DEFINE n == Len(ss)
<1>2. /\ n \in Nat /\ \A k \in 1..n, u \in Seq(S) : Joins(S, ss)[k][u] = u \o ss[k]
  BY JoinsFacts
<1>3. f = [k \in 0..n |-> IF k = 0 THEN <<>> ELSE Joins(S, ss)[k][f[k - 1]]]
      /\ f \in [0..n -> Seq(S)]
  BY <1>1 DEF Iterates
<1> HIDE DEF n
<1>4. 0 \in 0..n /\ \A k \in 1..n : k \in 0..n /\ k # 0 /\ k - 1 \in 0..n  BY <1>2
<1>5. f[0] = <<>>  BY <1>3, <1>4
<1>6. ASSUME NEW k \in 1..n PROVE f[k] = f[k - 1] \o ss[k]
  <2>1. f[k] = Joins(S, ss)[k][f[k - 1]]  BY <1>3, <1>4
  <2>2. f[k - 1] \in Seq(S)  BY <1>3, <1>4
  <2> QED  BY <1>2, <2>1, <2>2
<1> QED  BY <1>1, <1>5, <1>6 DEF n

LEMMA FlattenAppend ==
  ASSUME NEW S, NEW ss \in Seq(Seq(S)), NEW x \in Seq(S)
  PROVE  /\ FlattenSeq(ss) \in Seq(S) /\ FlattenSeq(<<>>) = <<>>
         /\ FlattenSeq(Append(ss, x)) = FlattenSeq(ss) \o x
<1> DEFINE n == Len(ss)
           tt == Append(ss, x)
<1>1. PICK f : /\ f \in [0..Len(ss) -> Seq(S)]
                 /\ Iterates(f, <<>>, Joins(S, ss), Len(ss)) /\ FlattenSeq(ss) = f[Len(ss)]
  BY FlattenIterates
<1>2. /\ n \in Nat /\ tt \in Seq(Seq(S)) /\ Len(tt) = n + 1 /\ tt[n + 1] = x
      /\ \A k \in 1..n : tt[k] = ss[k]
  BY AppendProperties, LenProperties
<1> HIDE DEF tt
<1>3. PICK g : /\ Iterates(g, <<>>, Joins(S, tt), Len(tt))
                 /\ FlattenSeq(tt) = g[Len(tt)]
  BY <1>2, FlattenIterates
<1>4. \A k \in 1..n : Joins(S, ss)[k] = Joins(S, tt)[k]
  <2>1. ASSUME NEW k \in 1..n PROVE Joins(S, ss)[k] = Joins(S, tt)[k]
    <3>1. k \in 1..Len(tt) /\ tt[k] = ss[k]  BY <1>2
    <3>2. Joins(S, tt)[k] = [u \in Seq(S) |-> u \o tt[k]]  BY <3>1, Zenon DEF Joins
    <3>3. Joins(S, ss)[k] = [u \in Seq(S) |-> u \o ss[k]]  BY Zenon DEF Joins
    <3> QED  BY <3>1, <3>2, <3>3
  <2> QED  BY <2>1
<1>5. Iterates(f, <<>>, Joins(S, ss), n) /\ Iterates(g, <<>>, Joins(S, tt), n + 1)
      /\ FlattenSeq(ss) = f[n] /\ FlattenSeq(tt) = g[n + 1] /\ f \in [0..n -> Seq(S)]
  BY <1>1, <1>2, <1>3
<1> HIDE DEF n
<1>6. g[n + 1] = Joins(S, tt)[n + 1][f[n]]
  <2>1. ASSUME NEW step, NEW more, step = Joins(S, ss), more = Joins(S, tt)
        PROVE  g[n + 1] = more[n + 1][f[n]]
    <3>1. Iterates(f, <<>>, step, n)  BY <1>5, <2>1
    <3>2. Iterates(g, <<>>, more, n + 1)  BY <1>5, <2>1
    <3>3. \A k \in 1..n : step[k] = more[k]  BY <1>4, <2>1
    <3>4. n \in Nat  BY <1>2
    <3> QED  BY ONLY <3>1, <3>2, <3>3, <3>4, IterationStep, SMTT(30)
  <2> QED  BY <2>1
<1>7. f[n] \in Seq(S) /\ n + 1 \in 1..Len(tt)  BY <1>2, <1>5
<1>8. Joins(S, tt)[n + 1][f[n]] = f[n] \o x
  <2>1. \A k \in 1..Len(tt), u \in Seq(S) : Joins(S, tt)[k][u] = u \o tt[k]
    BY <1>2, JoinsFacts
  <2>2. Joins(S, tt)[n + 1][f[n]] = f[n] \o tt[n + 1]  BY <1>7, <2>1
  <2> QED  BY <1>2, <2>2
<1>9. FlattenSeq(<<>>) = <<>>  BY DEF FlattenSeq
<1> QED  BY <1>5, <1>6, <1>7, <1>8, <1>9 DEF tt
=============================================================================
