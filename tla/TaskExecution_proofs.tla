-------------------------- MODULE TaskExecution_proofs ----------------------
(***************************************************************************)
(* What the Enclave computes and what the host makes of it, for payloads   *)
(* of any length in any radix, any tasks and any Enclaves.                 *)
(***************************************************************************)
EXTENDS TaskExecution, WellFoundedInduction, SequenceTheorems, TLAPS

(***************************************************************************)
(* Induction and recursion on natural numbers, stated with sets and        *)
(* functions.                                                              *)
(***************************************************************************)
\* A set of naturals that is not empty has a least element.
LEMMA LeastNatural ==
  ASSUME NEW T \in SUBSET Nat, T # {}
  PROVE  \E x \in T : \A y \in T : x <= y
<1> DEFINE R == OpToRel(<, Nat)
<1>1. IsWellFoundedOn(R, Nat)
  BY NatLessThanWellFounded
<1>2. \A x, y \in Nat : x < y => <<x, y>> \in R
  BY DEF OpToRel
<1> HIDE DEF R
<1>3. PICK x \in T : \A y \in T : <<y, x>> \notin R
  BY <1>1, WFMin
<1>4. ASSUME NEW y \in T PROVE x <= y
  <2>1. <<y, x>> \notin R
    BY <1>3
  <2>2. x \in Nat /\ y \in Nat /\ ~(y < x)
    BY <1>2, <2>1
  <2>. QED
    BY <2>2
<1>. QED
  BY <1>4

\* Induction up to a bound.
LEMMA BoundedInduction ==
  ASSUME NEW n \in Nat, NEW T \in SUBSET (0..n), 0 \in T,
         \A m \in T : m < n => m + 1 \in T
  PROVE  T = 0..n
<1> SUFFICES ASSUME (0..n) \ T # {} PROVE FALSE
  OBVIOUS
<1>1. PICK x \in (0..n) \ T : \A y \in (0..n) \ T : x <= y
  <2> DEFINE U == (0..n) \ T
  <2>1. U \in SUBSET Nat /\ U # {}
    OBVIOUS
  <2> HIDE DEF U
  <2>2. \E x \in U : \A y \in U : x <= y
    BY <2>1, LeastNatural
  <2>. QED
    BY <2>2 DEF U
<1>2. x # 0 /\ x - 1 \in 0..n /\ x - 1 \in T
  BY <1>1
<1>. QED
  BY <1>1, <1>2

\* A function to the naturals may be defined by recursion up to a bound.
LEMMA BoundedRecursion ==
  ASSUME NEW n \in Nat, NEW s \in Nat, NEW step \in [1..n -> [Nat -> Nat]]
  PROVE  \E f \in [0..n -> Nat] :
           f[0] = s /\ \A i \in 1..n : f[i] = step[i][f[i - 1]]
<1> DEFINE Solves(f, m) == /\ f \in [0..m -> Nat]
                           /\ f[0] = s
                           /\ \A i \in 1..m : f[i] = step[i][f[i - 1]]
           Solvable(m) == \E f : Solves(f, m)
           T == {m \in 0..n : Solvable(m)}
<1>1. Solvable(0)
  <2> DEFINE f == [i \in 0..0 |-> s]
  <2>1. Solves(f, 0)
    OBVIOUS
  <2> HIDE DEF f, Solves
  <2>. QED
    BY <2>1
<1>2. ASSUME NEW m \in T, m < n PROVE Solvable(m + 1)
  <2>1. m \in 0..n /\ m + 1 \in 1..n
    BY <1>2
  <2>2. PICK f : Solves(f, m)
    OBVIOUS
  <2> DEFINE next == step[m + 1][f[m]]
             g == [i \in 0..(m + 1) |-> IF i = m + 1 THEN next ELSE f[i]]
  <2>3. next \in Nat
    <3>1. m \in 0..m
      BY <2>1
    <3>2. f[m] \in Nat
      BY <2>2, <3>1
    <3>3. step[m + 1] \in [Nat -> Nat]
      BY <2>1
    <3>. QED
      BY <3>2, <3>3
  <2> HIDE DEF next
  <2>4. g \in [0..(m + 1) -> Nat]
    <3>1. ASSUME NEW i \in 0..(m + 1) PROVE (IF i = m + 1 THEN next ELSE f[i]) \in Nat
      BY <2>1, <2>2, <2>3
    <3>. QED
      BY <3>1
  <2>5. g[0] = s
    BY <2>1, <2>2
  <2>6. ASSUME NEW i \in 1..(m + 1) PROVE g[i] = step[i][g[i - 1]]
    <3>1. CASE i = m + 1
      <4>1. g[i] = next /\ g[i - 1] = f[m]
        BY <2>1, <3>1
      <4>. QED
        BY <3>1, <4>1 DEF next
    <3>2. CASE i # m + 1
      <4>1. /\ i \in 1..m /\ i \in 0..(m + 1)
            /\ i - 1 \in 0..(m + 1) /\ i - 1 # m + 1
        BY <2>1, <3>2
      <4>2. g[i] = f[i] /\ g[i - 1] = f[i - 1]
        BY <3>2, <4>1
      <4>3. f[i] = step[i][f[i - 1]]
        BY <2>2, <4>1
      <4>. QED
        BY <4>2, <4>3
    <3>. QED
      BY <3>1, <3>2
  <2> HIDE DEF g
  <2>7. Solves(g, m + 1)
    BY <2>4, <2>5, <2>6
  <2> HIDE DEF Solves
  <2>. QED
    BY <2>7
<1> HIDE DEF Solvable
<1>3. T = 0..n
  <2>1. T \in SUBSET (0..n) /\ 0 \in T
    BY <1>1
  <2>2. \A m \in T : m < n => m + 1 \in T
    BY <1>2
  <2> HIDE DEF T
  <2>. QED
    BY <2>1, <2>2, BoundedInduction
<1>4. Solvable(n)
  <2>1. n \in T
    <3> HIDE DEF T
    <3>. QED
      BY <1>3
  <2>. QED
    BY <2>1
<1>. QED
  BY <1>4 DEF Solvable

\* A function that is natural at zero and stays so is so up to the bound.
LEMMA BoundedType ==
  ASSUME NEW n \in Nat, NEW f, f[0] \in Nat,
         \A i \in 1..n : f[i - 1] \in Nat => f[i] \in Nat
  PROVE  \A i \in 0..n : f[i] \in Nat
<1> DEFINE T == {i \in 0..n : f[i] \in Nat}
<1>1. 0 \in T
  OBVIOUS
<1>2. ASSUME NEW m \in T, m < n PROVE m + 1 \in T
  <2>1. m + 1 \in 1..n /\ (m + 1) - 1 = m
    BY <1>2
  <2>. QED
    BY <2>1
<1> HIDE DEF T
<1>3. T = 0..n
  <2>1. T \in SUBSET (0..n)
    BY DEF T
  <2>. QED
    BY <1>1, <1>2, <2>1, BoundedInduction
<1>. QED
  BY <1>3 DEF T

(***************************************************************************)
(* The recursive functions of the Enclave's arithmetic, unfolded.          *)
(***************************************************************************)
LEMMA PrefixesUnfold ==
  ASSUME NEW p \in Payload
  PROVE  /\ \A i \in 0..Length : Prefixes(p)[i] \in Nat
         /\ Prefixes(p)[0] = 0
         /\ \A i \in 1..Length : Prefixes(p)[i] = Radix * Prefixes(p)[i - 1] + p[i]
<1> DEFINE Body(f) == [i \in 0..Length |-> IF i = 0 THEN 0 ELSE Radix * f[i - 1] + p[i]]
           step == [i \in 1..Length |-> [m \in Nat |-> Radix * m + p[i]]]
<1>1. \A i \in 1..Length, m \in Nat : Radix * m + p[i] \in Nat
  BY PayloadAssumption DEF Payload, Position
<1>2. Length \in Nat
  BY PayloadAssumption
<1>3. \E f : f = Body(f)
  <2>1. step \in [1..Length -> [Nat -> Nat]]
    BY <1>1
  <2>2. \A i \in 1..Length, m \in Nat : step[i][m] = Radix * m + p[i]
    OBVIOUS
  <2> HIDE DEF step
  <2>3. PICK f \in [0..Length -> Nat] :
          f[0] = 0 /\ \A i \in 1..Length : f[i] = step[i][f[i - 1]]
    BY <1>2, <2>1, BoundedRecursion
  <2>4. ASSUME NEW i \in 0..Length
        PROVE  f[i] = IF i = 0 THEN 0 ELSE Radix * f[i - 1] + p[i]
    <3>1. CASE i # 0
      <4>1. i \in 1..Length /\ f[i - 1] \in Nat
        BY <1>2, <3>1
      <4>. QED
        BY <2>2, <2>3, <3>1, <4>1
    <3>. QED
      BY <2>3, <3>1
  <2>5. f = Body(f)
    BY <2>4
  <2>. QED
    BY <2>5
<1>4. Prefixes(p) = CHOOSE f : f = Body(f)
  BY DEF Prefixes
<1>5. Prefixes(p) = Body(Prefixes(p))
  <2> HIDE DEF Body
  <2>. QED
    BY <1>3, <1>4
<1> DEFINE f == Prefixes(p)
<1>6. f = [i \in 0..Length |-> IF i = 0 THEN 0 ELSE Radix * f[i - 1] + p[i]]
  BY <1>5
<1> HIDE DEF f
<1>7. f[0] = 0 /\ \A i \in 1..Length : f[i] = Radix * f[i - 1] + p[i]
  BY <1>2, <1>6
<1>8. \A i \in 1..Length : f[i - 1] \in Nat => f[i] \in Nat
  BY <1>1, <1>7
<1>9. \A i \in 0..Length : f[i] \in Nat
  BY <1>2, <1>7, <1>8, BoundedType
<1>. QED
  BY <1>7, <1>9 DEF f

LEMMA PowersUnfold ==
  /\ \A i \in 0..Length : Powers[i] \in Nat
  /\ Powers[0] = 1
  /\ \A i \in 1..Length : Powers[i] = Radix * Powers[i - 1]
<1> DEFINE Body(f) == [i \in 0..Length |-> IF i = 0 THEN 1 ELSE Radix * f[i - 1]]
           step == [i \in 1..Length |-> [m \in Nat |-> Radix * m]]
<1>1. \A m \in Nat : Radix * m \in Nat
  BY PayloadAssumption
<1>2. Length \in Nat
  BY PayloadAssumption
<1>3. \E f : f = Body(f)
  <2>1. step \in [1..Length -> [Nat -> Nat]]
    BY <1>1
  <2>2. \A i \in 1..Length, m \in Nat : step[i][m] = Radix * m
    OBVIOUS
  <2> HIDE DEF step
  <2>3. PICK f \in [0..Length -> Nat] :
          f[0] = 1 /\ \A i \in 1..Length : f[i] = step[i][f[i - 1]]
    BY <1>2, <2>1, 1 \in Nat, BoundedRecursion
  <2>4. ASSUME NEW i \in 0..Length
        PROVE  f[i] = IF i = 0 THEN 1 ELSE Radix * f[i - 1]
    <3>1. CASE i # 0
      <4>1. i \in 1..Length /\ f[i - 1] \in Nat
        BY <1>2, <3>1
      <4>. QED
        BY <2>2, <2>3, <3>1, <4>1
    <3>. QED
      BY <2>3, <3>1
  <2>5. f = Body(f)
    BY <2>4
  <2>. QED
    BY <2>5
<1>4. Powers = CHOOSE f : f = Body(f)
  BY DEF Powers
<1>5. Powers = Body(Powers)
  <2> HIDE DEF Body
  <2>. QED
    BY <1>3, <1>4
<1>6. Powers = [i \in 0..Length |-> IF i = 0 THEN 1 ELSE Radix * Powers[i - 1]]
  BY <1>5
<1>7. Powers[0] = 1 /\ \A i \in 1..Length : Powers[i] = Radix * Powers[i - 1]
  BY <1>2, <1>6
<1>8. \A i \in 1..Length : Powers[i - 1] \in Nat => Powers[i] \in Nat
  BY <1>1, <1>7
<1>. QED
  BY <1>2, <1>7, <1>8, BoundedType

(***************************************************************************)
(* Facts about digits.                                                     *)
(***************************************************************************)
LEMMA LengthIsNat == Length \in Nat \ {0} /\ Radix \in Nat \ {0, 1}
BY PayloadAssumption

\* A sum of two digits and a carry has at most one to carry.
LEMMA DivMod ==
  ASSUME NEW m \in Nat \ {0}, NEW a \in Nat, a < 2 * m
  PROVE  /\ a \div m = IF a < m THEN 0 ELSE 1
         /\ a % m = IF a < m THEN a ELSE a - m
<1>1. CASE a < m
  BY <1>1
<1>2. CASE ~(a < m)
  BY <1>2
<1>. QED
  BY <1>1, <1>2

\* The leading digits decide, the last one between equals.
LEMMA DigitOrder ==
  \A x, y \in Nat, d, e \in 0..(Radix - 1) :
    /\ Radix * x + d < Radix * y + e <=> (x < y \/ (x = y /\ d < e))
    /\ Radix * x + d = Radix * y + e <=> (x = y /\ d = e)
<1> SUFFICES ASSUME NEW x \in Nat, NEW y \in Nat,
                    NEW d \in 0..(Radix - 1), NEW e \in 0..(Radix - 1)
             PROVE  /\ Radix * x + d < Radix * y + e <=> (x < y \/ (x = y /\ d < e))
                    /\ Radix * x + d = Radix * y + e <=> (x = y /\ d = e)
  OBVIOUS
<1>0. Radix \in Nat \ {0, 1}
  BY LengthIsNat
<1>1. CASE x < y
  <2>1. Radix * y >= Radix * x + Radix
    BY <1>0, <1>1
  <2>. QED
    BY <1>0, <1>1, <2>1
<1>2. CASE y < x
  <2>1. Radix * x >= Radix * y + Radix
    BY <1>0, <1>2
  <2>. QED
    BY <1>0, <1>2, <2>1
<1>3. CASE x = y
  BY <1>0, <1>3
<1>. QED
  BY <1>1, <1>2, <1>3

\* So many bytes stand for a number below the power of the radix.
LEMMA NumberIsBounded ==
  ASSUME NEW p \in Payload
  PROVE  \A i \in 0..Length : Prefixes(p)[i] \in Nat /\ Prefixes(p)[i] < Powers[i]
<1> DEFINE pre == Prefixes(p)
           T == {i \in 0..Length : pre[i] < Powers[i]}
<1>1. /\ \A i \in 0..Length : pre[i] \in Nat /\ Powers[i] \in Nat
      /\ pre[0] = 0 /\ Powers[0] = 1
      /\ \A i \in 1..Length : pre[i] = Radix * pre[i - 1] + p[i]
      /\ \A i \in 1..Length : Powers[i] = Radix * Powers[i - 1]
  BY PrefixesUnfold, PowersUnfold
<1> HIDE DEF pre
<1>2. 0 \in T
  BY <1>1, LengthIsNat
<1>3. ASSUME NEW m \in T, m < Length PROVE m + 1 \in T
  <2>1. m \in 0..Length /\ m + 1 \in 1..Length /\ m + 1 \in 0..Length /\ (m + 1) - 1 = m
    BY <1>3, LengthIsNat
  <2>2. p[m + 1] \in 0..(Radix - 1)
    BY <2>1 DEF Payload, Position
  <2>3. pre[m + 1] = Radix * pre[m] + p[m + 1] /\ Powers[m + 1] = Radix * Powers[m] + 0
    BY <1>1, <2>1
  <2>4. pre[m] \in Nat /\ Powers[m] \in Nat /\ pre[m] < Powers[m] /\ 0 \in 0..(Radix - 1)
    BY <1>1, <2>1, LengthIsNat
  <2>5. Radix * pre[m] + p[m + 1] < Radix * Powers[m] + 0
    BY <2>2, <2>4, DigitOrder, Zenon
  <2>. QED
    BY <2>1, <2>3, <2>5
<1>4. T = 0..Length
  <2>1. T \in SUBSET (0..Length)
    OBVIOUS
  <2> HIDE DEF T
  <2>. QED
    BY <1>2, <1>3, <2>1, BoundedInduction, LengthIsNat
<1>. QED
  BY <1>1, <1>4 DEF pre

\* Comparing byte by byte is comparing numbers.
LEMMA NumberOrder ==
  ASSUME NEW p \in Payload, NEW q \in Payload
  PROVE  /\ Less(p, q) <=> Number(p) < Number(q)
         /\ p = q <=> Number(p) = Number(q)
<1> DEFINE P == Prefixes(p)
           Q == Prefixes(q)
           Same(i) == \A j \in 1..i : p[j] = q[j]
           Below(i) == \E k \in 1..i : p[k] < q[k] /\ Same(k - 1)
           T == {i \in 0..Length : /\ P[i] < Q[i] <=> Below(i)
                                   /\ P[i] = Q[i] <=> Same(i)}
<1>1. /\ \A i \in 0..Length : P[i] \in Nat /\ Q[i] \in Nat
      /\ P[0] = 0 /\ Q[0] = 0
      /\ \A i \in 1..Length : P[i] = Radix * P[i - 1] + p[i] /\ Q[i] = Radix * Q[i - 1] + q[i]
  BY PrefixesUnfold
<1> HIDE DEF P, Q
<1>2. 0 \in T
  BY <1>1, LengthIsNat
<1>3. ASSUME NEW m \in T, m < Length PROVE m + 1 \in T
  <2> DEFINE n == m + 1
  <2>1. m \in 0..Length /\ n \in 1..Length /\ n \in 0..Length /\ n - 1 = m
    BY <1>3, LengthIsNat
  <2>2. /\ p[n] \in 0..(Radix - 1) /\ q[n] \in 0..(Radix - 1)
        /\ P[n] = Radix * P[m] + p[n] /\ Q[n] = Radix * Q[m] + q[n]
        /\ P[m] \in Nat /\ Q[m] \in Nat
    BY <1>1, <2>1 DEF Payload, Position
  <2>3. /\ P[n] < Q[n] <=> P[m] < Q[m] \/ (P[m] = Q[m] /\ p[n] < q[n])
        /\ P[n] = Q[n] <=> P[m] = Q[m] /\ p[n] = q[n]
    <3>1. /\ Radix * P[m] + p[n] < Radix * Q[m] + q[n]
               <=> P[m] < Q[m] \/ (P[m] = Q[m] /\ p[n] < q[n])
          /\ Radix * P[m] + p[n] = Radix * Q[m] + q[n] <=> P[m] = Q[m] /\ p[n] = q[n]
      <4>1. P[m] \in Nat /\ Q[m] \in Nat
        BY <2>2
      <4>2. p[n] \in 0..(Radix - 1) /\ q[n] \in 0..(Radix - 1)
        BY <2>2
      <4> HIDE DEF n, Below, Same, T
      <4>. QED
        BY <4>1, <4>2, DigitOrder
    <3>. QED
      BY <2>2, <3>1, Zenon
  <2>4. 1..n = (1..m) \cup {n}
    BY <2>1
  <2>5. Same(n) <=> Same(m) /\ p[n] = q[n]
    BY <2>4
  <2>6. Below(n) <=> Below(m) \/ (p[n] < q[n] /\ Same(m))
    <3> HIDE DEF Same
    <3>1. Below(n) <=> Below(m) \/ (p[n] < q[n] /\ Same(n - 1))
      BY <2>4
    <3>. QED
      BY <2>1, <3>1
  <2>7. P[m] < Q[m] <=> Below(m)
    OBVIOUS
  <2>8. P[m] = Q[m] <=> Same(m)
    OBVIOUS
  <2> HIDE DEF Same, Below
  <2>. QED
    BY <2>1, <2>3, <2>5, <2>6, <2>7, <2>8
<1> HIDE DEF Same, Below
<1>4. T = 0..Length
  <2>1. T \in SUBSET (0..Length)
    OBVIOUS
  <2> HIDE DEF T
  <2>. QED
    BY <1>2, <1>3, <2>1, BoundedInduction, LengthIsNat
<1>5. /\ P[Length] < Q[Length] <=> Below(Length)
      /\ P[Length] = Q[Length] <=> Same(Length)
  <2>1. Length \in T
    <3> HIDE DEF T
    <3>. QED
      BY <1>4, LengthIsNat
  <2>. QED
    BY <2>1
<1>6. Less(p, q) <=> Below(Length)
  BY DEF Less, Below, Same, Position
<1>7. p = q <=> Same(Length)
  <2>1. p = [j \in Position |-> p[j]] /\ q = [j \in Position |-> q[j]]
    BY DEF Payload
  <2>. QED
    BY <2>1 DEF Same, Position
<1>. QED
  BY <1>5, <1>6, <1>7 DEF P, Q, Number

(***************************************************************************)
(* Addition and subtraction.                                               *)
(***************************************************************************)
\* Recursion from the last byte to the first.
LEMMA DownwardRecursion ==
  ASSUME NEW step \in [Position -> [Nat -> Nat]]
  PROVE  \E f \in [Position -> Nat] :
           /\ f[Length] = 0
           /\ \A i \in Position : i # Length => f[i] = step[i][f[i + 1]]
<1> DEFINE last == Length - 1
           up == [n \in 1..last |-> step[Length - n]]
<1>1. Length \in Nat /\ last \in Nat
  BY LengthIsNat
<1>2. up \in [1..last -> [Nat -> Nat]] /\ \A n \in 1..last : up[n] = step[Length - n]
  <2>1. \A n \in 1..last : Length - n \in Position
    BY <1>1 DEF Position
  <2>. QED
    BY <2>1
<1>3. PICK g \in [0..last -> Nat] : g[0] = 0 /\ \A n \in 1..last : g[n] = up[n][g[n - 1]]
  <2> HIDE DEF last, up
  <2>. QED
    BY <1>1, <1>2, BoundedRecursion
<1> DEFINE f == [i \in Position |-> g[Length - i]]
<1>4. f \in [Position -> Nat] /\ f[Length] = 0
  <2>1. \A i \in Position : Length - i \in 0..last
    BY <1>1 DEF Position
  <2>2. f \in [Position -> Nat]
    BY <1>3, <2>1
  <2>3. Length \in Position /\ Length - Length = 0
    BY LengthIsNat DEF Position
  <2>. QED
    BY <1>3, <2>2, <2>3
<1>5. ASSUME NEW i \in Position, i # Length PROVE f[i] = step[i][f[i + 1]]
  <2>1. /\ Length - i \in 1..last /\ Length - (Length - i) = i
        /\ (Length - i) - 1 = Length - (i + 1) /\ i + 1 \in Position
    BY <1>1, <1>5 DEF Position
  <2>2. f[i] = g[Length - i] /\ f[i + 1] = g[Length - (i + 1)]
    BY <2>1
  <2>3. g[Length - i] = up[Length - i][g[(Length - i) - 1]]
    <3> HIDE DEF up
    <3>. QED
      BY <1>3, <2>1
  <2>4. up[Length - i] = step[i]
    <3> HIDE DEF up
    <3>. QED
      BY <1>2, <2>1
  <2> HIDE DEF up, f
  <2>. QED
    BY <2>1, <2>2, <2>3, <2>4
<1> HIDE DEF f
<1>. QED
  BY <1>4, <1>5

\* A carry that is a bit in the last byte and stays one is one everywhere.
LEMMA DownwardBits ==
  ASSUME NEW f, f[Length] = 0,
         \A i \in Position : i # Length => (f[i + 1] \in {0, 1} => f[i] \in {0, 1})
  PROVE  \A i \in Position : f[i] \in {0, 1}
<1> DEFINE last == Length - 1
           T == {n \in 0..last : f[Length - n] \in {0, 1}}
<1>1. Length \in Nat /\ last \in Nat
  BY LengthIsNat
<1>2. 0 \in T
  BY <1>1
<1>3. ASSUME NEW m \in T, m < last PROVE m + 1 \in T
  <2>1. /\ Length - (m + 1) \in Position /\ Length - (m + 1) # Length
        /\ (Length - (m + 1)) + 1 = Length - m /\ m + 1 \in 0..last
    BY <1>1, <1>3 DEF Position
  <2>2. f[(Length - (m + 1)) + 1] \in {0, 1}
    BY <2>1
  <2>3. f[Length - (m + 1)] \in {0, 1}
    BY <2>1, <2>2
  <2>. QED
    BY <2>1, <2>3
<1>4. T = 0..last
  <2>1. T \in SUBSET (0..last)
    OBVIOUS
  <2> HIDE DEF T, last
  <2>. QED
    BY <1>1, <1>2, <1>3, <2>1, BoundedInduction
<1>5. ASSUME NEW i \in Position PROVE f[i] \in {0, 1}
  <2>1. Length - i \in 0..last /\ Length - (Length - i) = i
    BY <1>1 DEF Position
  <2>2. Length - i \in T
    <3> HIDE DEF T
    <3>. QED
      BY <1>4, <2>1
  <2>. QED
    BY <2>1, <2>2
<1>. QED
  BY <1>5

LEMMA CarryUnfold ==
  ASSUME NEW lhs \in Payload, NEW rhs \in Payload
  PROVE  /\ \A i \in Position : Carry(lhs, rhs)[i] \in {0, 1}
         /\ Carry(lhs, rhs)[Length] = 0
         /\ \A i \in Position : i # Length =>
              Carry(lhs, rhs)[i] =
                (lhs[i + 1] + rhs[i + 1] + Carry(lhs, rhs)[i + 1]) \div Radix
<1> DEFINE At(i, c) == (lhs[i + 1] + rhs[i + 1] + c) \div Radix
           Body(f) == [i \in Position |-> IF i = Length THEN 0 ELSE At(i, f[i + 1])]
           step == [i \in Position |-> [c \in Nat |-> IF i = Length THEN 0 ELSE At(i, c)]]
<1>1. ASSUME NEW i \in Position, i # Length
      PROVE  /\ i + 1 \in Position
             /\ \A c \in Nat : At(i, c) \in Nat
             /\ \A c \in {0, 1} : At(i, c) \in {0, 1}
  <2>1. /\ i + 1 \in Position
        /\ lhs[i + 1] \in 0..(Radix - 1) /\ rhs[i + 1] \in 0..(Radix - 1)
    BY <1>1, LengthIsNat DEF Payload, Position
  <2>2. ASSUME NEW c \in Nat PROVE At(i, c) \in Nat
    BY <2>1, LengthIsNat
  <2>3. ASSUME NEW c \in {0, 1} PROVE At(i, c) \in {0, 1}
    <3> DEFINE sum == lhs[i + 1] + rhs[i + 1] + c
    <3>1. sum \in Nat /\ sum < 2 * Radix
      BY <2>1, LengthIsNat
    <3> HIDE DEF sum
    <3>2. sum \div Radix \in {0, 1}
      BY <3>1, LengthIsNat, DivMod
    <3>. QED
      BY <3>2 DEF sum
  <2>. QED
    BY <2>1, <2>2, <2>3
<1> HIDE DEF At
<1>2. \E f : f = Body(f)
  <2>1. step \in [Position -> [Nat -> Nat]]
    BY <1>1
  <2>2. \A i \in Position, c \in Nat : i # Length => step[i][c] = At(i, c)
    OBVIOUS
  <2> HIDE DEF step
  <2>3. PICK f \in [Position -> Nat] :
          /\ f[Length] = 0
          /\ \A i \in Position : i # Length => f[i] = step[i][f[i + 1]]
    BY <2>1, DownwardRecursion
  <2>4. ASSUME NEW i \in Position
        PROVE  f[i] = IF i = Length THEN 0 ELSE At(i, f[i + 1])
    BY <1>1, <2>2, <2>3
  <2>5. f = Body(f)
    BY <2>4
  <2> HIDE DEF Body
  <2>. QED
    BY <2>5
<1>3. Carry(lhs, rhs) = CHOOSE f : f = Body(f)
  BY DEF Carry, At
<1>4. Carry(lhs, rhs) = Body(Carry(lhs, rhs))
  <2> HIDE DEF Body
  <2>. QED
    BY <1>2, <1>3
<1> DEFINE out == Carry(lhs, rhs)
<1>5. out = [i \in Position |-> IF i = Length THEN 0 ELSE At(i, out[i + 1])]
  BY <1>4
<1> HIDE DEF out
<1>6. out[Length] = 0 /\ \A i \in Position : i # Length => out[i] = At(i, out[i + 1])
  BY <1>5, LengthIsNat DEF Position
<1>7. \A i \in Position : i # Length => (out[i + 1] \in {0, 1} => out[i] \in {0, 1})
  BY <1>1, <1>6
<1>8. \A i \in Position : out[i] \in {0, 1}
  BY <1>6, <1>7, DownwardBits
<1>. QED
  BY <1>6, <1>8 DEF At, out

LEMMA BorrowUnfold ==
  ASSUME NEW lhs \in Payload, NEW rhs \in Payload
  PROVE  /\ \A i \in Position : Borrow(lhs, rhs)[i] \in {0, 1}
         /\ Borrow(lhs, rhs)[Length] = 0
         /\ \A i \in Position : i # Length =>
              Borrow(lhs, rhs)[i] =
                IF lhs[i + 1] - rhs[i + 1] - Borrow(lhs, rhs)[i + 1] < 0 THEN 1 ELSE 0
<1> DEFINE At(i, c) == IF lhs[i + 1] - rhs[i + 1] - c < 0 THEN 1 ELSE 0
           Body(f) == [i \in Position |-> IF i = Length THEN 0 ELSE At(i, f[i + 1])]
           step == [i \in Position |-> [c \in Nat |-> IF i = Length THEN 0 ELSE At(i, c)]]
<1>1. ASSUME NEW i \in Position, i # Length
      PROVE  /\ i + 1 \in Position
             /\ \A c \in Nat : At(i, c) \in Nat
             /\ \A c \in {0, 1} : At(i, c) \in {0, 1}
  <2>1. /\ i + 1 \in Position
        /\ lhs[i + 1] \in 0..(Radix - 1) /\ rhs[i + 1] \in 0..(Radix - 1)
    BY <1>1, LengthIsNat DEF Payload, Position
  <2>2. ASSUME NEW c \in Nat PROVE At(i, c) \in Nat
    BY <2>1, LengthIsNat
  <2>3. ASSUME NEW c \in {0, 1} PROVE At(i, c) \in {0, 1}
    OBVIOUS
  <2>. QED
    BY <2>1, <2>2, <2>3
<1> HIDE DEF At
<1>2. \E f : f = Body(f)
  <2>1. step \in [Position -> [Nat -> Nat]]
    BY <1>1
  <2>2. \A i \in Position, c \in Nat : i # Length => step[i][c] = At(i, c)
    OBVIOUS
  <2> HIDE DEF step
  <2>3. PICK f \in [Position -> Nat] :
          /\ f[Length] = 0
          /\ \A i \in Position : i # Length => f[i] = step[i][f[i + 1]]
    BY <2>1, DownwardRecursion
  <2>4. ASSUME NEW i \in Position
        PROVE  f[i] = IF i = Length THEN 0 ELSE At(i, f[i + 1])
    BY <1>1, <2>2, <2>3
  <2>5. f = Body(f)
    BY <2>4
  <2> HIDE DEF Body
  <2>. QED
    BY <2>5
<1>3. Borrow(lhs, rhs) = CHOOSE f : f = Body(f)
  BY DEF Borrow, At
<1>4. Borrow(lhs, rhs) = Body(Borrow(lhs, rhs))
  <2> HIDE DEF Body
  <2>. QED
    BY <1>2, <1>3
<1> DEFINE out == Borrow(lhs, rhs)
<1>5. out = [i \in Position |-> IF i = Length THEN 0 ELSE At(i, out[i + 1])]
  BY <1>4
<1> HIDE DEF out
<1>6. out[Length] = 0 /\ \A i \in Position : i # Length => out[i] = At(i, out[i + 1])
  BY <1>5, LengthIsNat DEF Position
<1>7. \A i \in Position : i # Length => (out[i + 1] \in {0, 1} => out[i] \in {0, 1})
  BY <1>1, <1>6
<1>8. \A i \in Position : out[i] \in {0, 1}
  BY <1>6, <1>7, DownwardBits
<1>. QED
  BY <1>6, <1>8 DEF At, out

\* Digits that add up with a carry at each place add up as numbers, with the
\* carry out of the first place for the modulus.
LEMMA DigitsAddUp ==
  ASSUME NEW x \in Payload, NEW y \in Payload, NEW z \in Payload,
         NEW c, \A i \in 0..Length : c[i] \in {0, 1}, c[Length] = 0,
         \A i \in 1..Length : x[i] + y[i] + c[i] = z[i] + Radix * c[i - 1]
  PROVE  Number(x) + Number(y) = Number(z) + (IF c[0] = 1 THEN Modulus ELSE 0)
<1> DEFINE X == Prefixes(x)
           Y == Prefixes(y)
           Z == Prefixes(z)
           Over(i) == IF c[0] = 1 THEN Powers[i] ELSE 0
           T == {i \in 0..Length : X[i] + Y[i] + c[i] = Z[i] + Over(i)}
<1>1. /\ \A i \in 0..Length : X[i] \in Nat /\ Y[i] \in Nat /\ Z[i] \in Nat /\ Powers[i] \in Nat
      /\ X[0] = 0 /\ Y[0] = 0 /\ Z[0] = 0 /\ Powers[0] = 1
      /\ \A i \in 1..Length : /\ X[i] = Radix * X[i - 1] + x[i]
                              /\ Y[i] = Radix * Y[i - 1] + y[i]
                              /\ Z[i] = Radix * Z[i - 1] + z[i]
                              /\ Powers[i] = Radix * Powers[i - 1]
  BY PrefixesUnfold, PowersUnfold
<1> HIDE DEF X, Y, Z
<1>2. 0 \in T
  <2>1. 0 \in 0..Length
    BY LengthIsNat
  <2>2. c[0] \in {0, 1}
    BY <2>1
  <2>3. Over(0) = c[0]
    BY <1>1, <2>2
  <2>4. X[0] + Y[0] + c[0] = Z[0] + Over(0)
    BY <1>1, <2>2, <2>3
  <2>. QED
    BY <2>1, <2>4
<1>3. ASSUME NEW m \in T, m < Length PROVE m + 1 \in T
  <2> DEFINE n == m + 1
  <2>1. m \in 0..Length /\ n \in 1..Length /\ n \in 0..Length /\ n - 1 = m
    BY <1>3, LengthIsNat
  <2>2. /\ x[n] \in Nat /\ y[n] \in Nat /\ z[n] \in Nat
        /\ c[n] \in {0, 1} /\ c[m] \in {0, 1}
        /\ x[n] + y[n] + c[n] = z[n] + Radix * c[m]
    BY <2>1, LengthIsNat DEF Payload, Position
  <2>3. /\ X[m] \in Nat /\ Y[m] \in Nat /\ Z[m] \in Nat /\ Over(m) \in Nat
        /\ Radix \in Nat
    BY <1>1, <2>1, LengthIsNat
  <2>4. X[m] + Y[m] + c[m] = Z[m] + Over(m)
    OBVIOUS
  <2>5. /\ X[n] = Radix * X[m] + x[n]
        /\ Y[n] = Radix * Y[m] + y[n]
        /\ Z[n] = Radix * Z[m] + z[n]
        /\ Over(n) = Radix * Over(m)
    BY <1>1, <2>1, LengthIsNat
  <2> HIDE DEF Over, n
  <2>6. Radix * X[m] + Radix * Y[m] + Radix * c[m] = Radix * Z[m] + Radix * Over(m)
    <3>1. Radix * (X[m] + Y[m] + c[m]) = Radix * (Z[m] + Over(m))
      BY <2>4
    <3>. QED
      BY <2>2, <2>3, <3>1
  <2>7. X[n] + Y[n] + c[n] = Z[n] + Over(n)
    <3> DEFINE RX == Radix * X[m]
               RY == Radix * Y[m]
               RZ == Radix * Z[m]
               RC == Radix * c[m]
               RO == Radix * Over(m)
    <3>1. RX \in Nat /\ RY \in Nat /\ RZ \in Nat /\ RC \in Nat /\ RO \in Nat
      BY <2>2, <2>3
    <3>2. /\ X[n] = RX + x[n] /\ Y[n] = RY + y[n] /\ Z[n] = RZ + z[n] /\ Over(n) = RO
          /\ RX + RY + RC = RZ + RO
          /\ x[n] + y[n] + c[n] = z[n] + RC
      BY <2>2, <2>5, <2>6
    <3> HIDE DEF RX, RY, RZ, RC, RO
    <3>. QED
      BY <2>2, <3>1, <3>2
  <2>. QED
    BY <2>1, <2>7 DEF n
<1> HIDE DEF Over
<1>4. T = 0..Length
  <2>1. T \in SUBSET (0..Length)
    OBVIOUS
  <2> HIDE DEF T
  <2>. QED
    BY <1>2, <1>3, <2>1, BoundedInduction, LengthIsNat
<1>5. X[Length] + Y[Length] + c[Length] = Z[Length] + Over(Length)
  <2>1. Length \in T
    <3> HIDE DEF T
    <3>. QED
      BY <1>4, LengthIsNat
  <2>. QED
    BY <2>1
<1>. QED
  BY <1>1, <1>5, LengthIsNat DEF X, Y, Z, Over, Number, Modulus

\* A number below the modulus, or one above it by the modulus.
LEMMA NumberFacts ==
  /\ Modulus \in Nat \ {0}
  /\ \A p \in Payload : Number(p) \in Nat /\ Number(p) < Modulus
<1>1. \A p \in Payload : Number(p) \in Nat /\ Number(p) < Modulus
  BY NumberIsBounded, LengthIsNat DEF Number, Modulus
<1>2. [i \in Position |-> 0] \in Payload
  BY LengthIsNat DEF Payload
<1>3. Modulus \in Nat
  BY PowersUnfold, LengthIsNat DEF Modulus
<1>. QED
  BY <1>1, <1>2, <1>3

\* Addition wraps.
LEMMA AddIsSum ==
  ASSUME NEW lhs \in Payload, NEW rhs \in Payload
  PROVE  /\ AddSuint256(lhs, rhs) \in Payload
         /\ Number(AddSuint256(lhs, rhs)) = (Number(lhs) + Number(rhs)) % Modulus
<1> DEFINE carry == Carry(lhs, rhs)
           sum(i) == lhs[i] + rhs[i] + carry[i]
           out == AddSuint256(lhs, rhs)
           c == [i \in 0..Length |-> IF i = 0 THEN sum(1) \div Radix ELSE carry[i]]
<1>1. /\ \A i \in Position : carry[i] \in {0, 1}
      /\ carry[Length] = 0
      /\ \A i \in Position : i # Length => carry[i] = sum(i + 1) \div Radix
  BY CarryUnfold
<1>2. out = [i \in Position |-> sum(i) % Radix]
  BY DEF AddSuint256
<1> HIDE DEF carry, out
<1>3. ASSUME NEW i \in Position
      PROVE  /\ sum(i) % Radix \in 0..(Radix - 1)
             /\ sum(i) \div Radix \in {0, 1}
             /\ sum(i) = (sum(i) % Radix) + Radix * (sum(i) \div Radix)
  <2>1. lhs[i] \in 0..(Radix - 1) /\ rhs[i] \in 0..(Radix - 1) /\ carry[i] \in {0, 1}
    BY <1>1 DEF Payload
  <2>2. sum(i) \in Nat /\ sum(i) < 2 * Radix
    BY <2>1, LengthIsNat
  <2> HIDE DEF sum
  <2>3. /\ sum(i) \div Radix = IF sum(i) < Radix THEN 0 ELSE 1
        /\ sum(i) % Radix = IF sum(i) < Radix THEN sum(i) ELSE sum(i) - Radix
    BY <2>2, DivMod, LengthIsNat
  <2>. QED
    BY <2>2, <2>3, LengthIsNat
<1>4. out \in Payload
  BY <1>2, <1>3 DEF Payload
<1> HIDE DEF sum
<1>5. \A i \in 0..Length : c[i] \in {0, 1}
  <2>1. 1 \in Position /\ \A i \in 0..Length : i # 0 => i \in Position
    BY LengthIsNat DEF Position
  <2>. QED
    BY <1>1, <1>3, <2>1
<1>6. c[Length] = 0
  BY <1>1, LengthIsNat
<1>7. ASSUME NEW i \in 1..Length PROVE lhs[i] + rhs[i] + c[i] = out[i] + Radix * c[i - 1]
  <2>1. i \in Position /\ i \in 0..Length /\ i # 0 /\ i - 1 \in 0..Length
    BY LengthIsNat DEF Position
  <2>2. c[i - 1] = sum(i) \div Radix
    <3>1. CASE i = 1
      BY <2>1, <3>1
    <3>2. CASE i # 1
      <4>1. i - 1 \in Position /\ i - 1 # Length /\ (i - 1) + 1 = i /\ i - 1 # 0
        BY <3>2, LengthIsNat DEF Position
      <4>. QED
        BY <1>1, <2>1, <4>1
    <3>. QED
      BY <3>1, <3>2
  <2>3. lhs[i] + rhs[i] + c[i] = sum(i)
    BY <2>1 DEF sum
  <2>4. out[i] = sum(i) % Radix
    BY <1>2, <2>1
  <2>. QED
    BY <1>3, <2>1, <2>2, <2>3, <2>4
<1> HIDE DEF c
<1>8. Number(lhs) + Number(rhs) = Number(out) + (IF c[0] = 1 THEN Modulus ELSE 0)
  BY <1>4, <1>5, <1>6, <1>7, DigitsAddUp
<1> DEFINE total == Number(lhs) + Number(rhs)
<1>9. total \in Nat /\ total < 2 * Modulus /\ Number(out) \in Nat /\ Number(out) < Modulus
  BY <1>4, NumberFacts
<1>10. total % Modulus = IF total < Modulus THEN total ELSE total - Modulus
  <2> HIDE DEF total
  <2>. QED
    BY <1>9, DivMod, NumberFacts
<1>. QED
  BY <1>4, <1>8, <1>9, <1>10, NumberFacts DEF out

\* Subtraction wraps.
LEMMA SubIsDifference ==
  ASSUME NEW lhs \in Payload, NEW rhs \in Payload
  PROVE  /\ SubSuint256(lhs, rhs) \in Payload
         /\ Number(SubSuint256(lhs, rhs)) = (Number(lhs) + Modulus - Number(rhs)) % Modulus
<1> DEFINE borrow == Borrow(lhs, rhs)
           diff(i) == lhs[i] - rhs[i] - borrow[i]
           out == SubSuint256(lhs, rhs)
           over(i) == IF diff(i) < 0 THEN 1 ELSE 0
           c == [i \in 0..Length |-> IF i = 0 THEN over(1) ELSE borrow[i]]
<1>1. /\ \A i \in Position : borrow[i] \in {0, 1}
      /\ borrow[Length] = 0
      /\ \A i \in Position : i # Length => borrow[i] = over(i + 1)
  BY BorrowUnfold
<1>2. out = [i \in Position |-> IF diff(i) < 0 THEN diff(i) + Radix ELSE diff(i)]
  BY DEF SubSuint256
<1> HIDE DEF borrow, out
<1>3. ASSUME NEW i \in Position
      PROVE  /\ (IF diff(i) < 0 THEN diff(i) + Radix ELSE diff(i)) \in 0..(Radix - 1)
             /\ (IF diff(i) < 0 THEN diff(i) + Radix ELSE diff(i)) + rhs[i] + borrow[i]
                  = lhs[i] + Radix * over(i)
  <2>1. lhs[i] \in 0..(Radix - 1) /\ rhs[i] \in 0..(Radix - 1) /\ borrow[i] \in {0, 1}
    BY <1>1 DEF Payload
  <2>. QED
    BY <2>1, LengthIsNat
<1>4. out \in Payload
  BY <1>2, <1>3 DEF Payload
<1>5. \A i \in Position : over(i) \in {0, 1}
  OBVIOUS
<1> HIDE DEF over
<1>6. \A i \in 0..Length : c[i] \in {0, 1}
  <2>1. 1 \in Position /\ \A i \in 0..Length : i # 0 => i \in Position
    BY LengthIsNat DEF Position
  <2>. QED
    BY <1>1, <1>5, <2>1
<1>7. c[Length] = 0
  BY <1>1, LengthIsNat
<1>8. ASSUME NEW i \in 1..Length PROVE out[i] + rhs[i] + c[i] = lhs[i] + Radix * c[i - 1]
  <2>1. i \in Position /\ i \in 0..Length /\ i # 0 /\ i - 1 \in 0..Length
    BY LengthIsNat DEF Position
  <2>2. c[i - 1] = over(i)
    <3>1. CASE i = 1
      BY <2>1, <3>1
    <3>2. CASE i # 1
      <4>1. i - 1 \in Position /\ i - 1 # Length /\ (i - 1) + 1 = i /\ i - 1 # 0
        BY <3>2, LengthIsNat DEF Position
      <4>. QED
        BY <1>1, <2>1, <4>1
    <3>. QED
      BY <3>1, <3>2
  <2>3. c[i] = borrow[i]
    BY <2>1
  <2>4. out[i] + rhs[i] + borrow[i] = lhs[i] + Radix * over(i)
    BY <1>2, <1>3, <2>1
  <2>. QED
    BY <2>2, <2>3, <2>4
<1> HIDE DEF c
<1>9. Number(out) + Number(rhs) = Number(lhs) + (IF c[0] = 1 THEN Modulus ELSE 0)
  BY <1>4, <1>6, <1>7, <1>8, DigitsAddUp
<1> DEFINE total == Number(lhs) + Modulus - Number(rhs)
<1>10. /\ Number(lhs) \in Nat /\ Number(lhs) < Modulus
       /\ Number(rhs) \in Nat /\ Number(rhs) < Modulus
       /\ Number(out) \in Nat /\ Number(out) < Modulus
       /\ Modulus \in Nat \ {0}
  BY <1>4, NumberFacts
<1>11. total \in Nat /\ total < 2 * Modulus
  BY <1>10
<1>12. total % Modulus = IF total < Modulus THEN total ELSE total - Modulus
  <2> HIDE DEF total
  <2>. QED
    BY <1>11, DivMod, NumberFacts
<1>13. Number(out) = total % Modulus
  BY <1>9, <1>10, <1>12
<1>. QED
  BY <1>4, <1>13 DEF out

(***************************************************************************)
(* Truth values, and all the operations.                                   *)
(***************************************************************************)
LEMMA LastByteIsNumber ==
  ASSUME NEW b \in {0, 1}
  PROVE  /\ [i \in Position |-> IF i = Length THEN b ELSE 0] \in Payload
         /\ Number([i \in Position |-> IF i = Length THEN b ELSE 0]) = b
<1> DEFINE p == [i \in Position |-> IF i = Length THEN b ELSE 0]
           pre == Prefixes(p)
           last == Length - 1
           T == {i \in 0..last : pre[i] = 0}
<1>1. p \in Payload
  BY LengthIsNat DEF Payload
<1>2. /\ pre[0] = 0
      /\ \A i \in 1..Length : pre[i] = Radix * pre[i - 1] + p[i]
  BY <1>1, PrefixesUnfold
<1> HIDE DEF pre
<1>3. last \in Nat /\ Length \in 1..Length /\ \A i \in 1..last : i \in 1..Length /\ i # Length
  BY LengthIsNat
<1>4. 0 \in T
  BY <1>2, <1>3
<1>5. ASSUME NEW m \in T, m < last PROVE m + 1 \in T
  <2>1. m + 1 \in 1..last /\ m + 1 \in 0..last /\ (m + 1) - 1 = m /\ pre[m] = 0
    BY <1>3, <1>5
  <2>2. p[m + 1] = 0
    BY <1>3, <2>1 DEF Position
  <2>3. pre[m + 1] = Radix * 0 + 0
    BY <1>2, <1>3, <2>1, <2>2
  <2>. QED
    BY <2>1, <2>3, LengthIsNat
<1>6. T = 0..last
  <2>1. T \in SUBSET (0..last)
    OBVIOUS
  <2> HIDE DEF T, last
  <2>. QED
    BY <1>3, <1>4, <1>5, <2>1, BoundedInduction
<1>7. pre[last] = 0
  <2>1. last \in T
    <3> HIDE DEF T
    <3>. QED
      BY <1>3, <1>6
  <2>. QED
    BY <2>1
<1>8. p[Length] = b
  BY <1>3 DEF Position
<1>9. pre[Length] = b
  BY <1>2, <1>3, <1>7, <1>8, LengthIsNat
<1>. QED
  BY <1>1, <1>9 DEF pre, Number

\* The payload of a truth value stands for one or zero.
LEMMA BoolIsTruth ==
  ASSUME NEW b \in BOOLEAN
  PROVE  BoolToPayload(b) \in Payload /\ Number(BoolToPayload(b)) = Truth(b)
<1>1. BoolToPayload(b) = [i \in Position |-> IF i = Length THEN Truth(b) ELSE 0]
  BY DEF BoolToPayload, Truth
<1>2. Truth(b) \in {0, 1}
  BY DEF Truth
<1> HIDE DEF Truth
<1>. QED
  BY <1>1, <1>2, LastByteIsNumber

\* A payload is taken for true when its number is not zero.
LEMMA TrueIsNotZero ==
  ASSUME NEW p \in Payload
  PROVE  PayloadToBool(p) <=> Number(p) # 0
<1> DEFINE zero == [i \in Position |-> IF i = Length THEN 0 ELSE 0]
<1>1. zero \in Payload /\ Number(zero) = 0
  BY LastByteIsNumber
<1>2. PayloadToBool(p) <=> p # zero
  <2>1. p = [i \in Position |-> p[i]]
    BY DEF Payload
  <2>2. p = zero <=> \A i \in Position : p[i] = 0
    BY <2>1
  <2>. QED
    BY <2>2 DEF PayloadToBool
<1> HIDE DEF zero
<1>3. p = zero <=> Number(p) = Number(zero)
  BY <1>1, NumberOrder
<1>. QED
  BY <1>1, <1>2, <1>3

\* An evaluated operation has the meaning of the operation on numbers: the
\* sums and differences are those modulo the width, with every carry and
\* borrow, comparing byte by byte compares the numbers, and any byte that is
\* not zero makes a payload true.  For every radix and length, so for payloads
\* of 32 bytes, and all inputs.
THEOREM EvaluateCorrect ==
  ASSUME NEW op \in OperationCode, NEW ins,
         \A i \in 1..Arity(op) : ins[i] \in Payload
  PROVE  /\ Evaluate(op, ins) \in Payload
         /\ \A x : (\A i \in 1..Arity(op) : x[i] = Number(ins[i]))
                     => Number(Evaluate(op, ins)) = Meaning(op, x)
<1> SUFFICES ASSUME NEW x, \A i \in 1..Arity(op) : x[i] = Number(ins[i])
             PROVE  Evaluate(op, ins) \in Payload /\ Number(Evaluate(op, ins)) = Meaning(op, x)
  <2>1. \E x : \A i \in 1..Arity(op) : x[i] = Number(ins[i])
    <3> WITNESS [i \in 1..Arity(op) |-> Number(ins[i])]
    <3>. QED
      OBVIOUS
  <2>. QED
    BY <2>1
<1>1. /\ ins[1] \in Payload /\ x[1] = Number(ins[1])
      /\ op # "Not" => ins[2] \in Payload /\ x[2] = Number(ins[2])
      /\ op = "Select" => ins[3] \in Payload /\ x[3] = Number(ins[3])
  BY DEF Arity
<1>2. CASE op = "Add"
  BY <1>1, <1>2, AddIsSum DEF Evaluate, Meaning
<1>3. CASE op = "Sub"
  BY <1>1, <1>3, SubIsDifference DEF Evaluate, Meaning
<1>4. CASE op \in Comparison
  <2> DEFINE lt == Less(ins[1], ins[2])
             gt == Less(ins[2], ins[1])
             eq == ins[1] = ins[2]
  <2>1. /\ lt <=> x[1] < x[2]
        /\ gt <=> x[1] > x[2]
        /\ eq <=> x[1] = x[2]
        /\ x[1] \in Nat /\ x[2] \in Nat
        /\ lt \in BOOLEAN /\ gt \in BOOLEAN /\ eq \in BOOLEAN
    <3>1. /\ lt <=> x[1] < x[2]
          /\ gt <=> x[2] < x[1]
          /\ eq <=> x[1] = x[2]
      BY <1>1, <1>4, NumberOrder DEF Comparison
    <3>2. x[1] \in Nat /\ x[2] \in Nat
      BY <1>1, <1>4, NumberFacts DEF Comparison
    <3>3. lt \in BOOLEAN /\ gt \in BOOLEAN /\ eq \in BOOLEAN
      BY DEF Less
    <3> HIDE DEF lt, gt, eq
    <3>. QED
      BY <3>1, <3>2, <3>3
  <2>2. \E b \in BOOLEAN : Evaluate(op, ins) = BoolToPayload(b) /\ Meaning(op, x) = Truth(b)
    <3>0. /\ op = "Eq" => Evaluate(op, ins) = BoolToPayload(eq)
          /\ op = "Lt" => Evaluate(op, ins) = BoolToPayload(lt)
          /\ op = "Lte" => Evaluate(op, ins) = BoolToPayload(lt \/ eq)
          /\ op = "Gt" => Evaluate(op, ins) = BoolToPayload(gt)
          /\ op = "Gte" => Evaluate(op, ins) = BoolToPayload(gt \/ eq)
      BY DEF Evaluate
    <3> HIDE DEF lt, gt, eq
    <3>1. CASE op = "Eq"
      <4>1. Meaning(op, x) = Truth(eq)
        BY <2>1, <3>1 DEF Meaning, Truth
      <4>. QED
        BY <2>1, <3>0, <3>1, <4>1
    <3>2. CASE op = "Lt"
      <4>1. Meaning(op, x) = Truth(lt)
        BY <2>1, <3>2 DEF Meaning, Truth
      <4>. QED
        BY <2>1, <3>0, <3>2, <4>1
    <3>3. CASE op = "Lte"
      <4>1. Meaning(op, x) = Truth(lt \/ eq)
        BY <2>1, <3>3 DEF Meaning, Truth
      <4>2. (lt \/ eq) \in BOOLEAN
        OBVIOUS
      <4>. QED
        BY <3>0, <3>3, <4>1, <4>2
    <3>4. CASE op = "Gt"
      <4>1. Meaning(op, x) = Truth(gt)
        BY <2>1, <3>4 DEF Meaning, Truth
      <4>. QED
        BY <2>1, <3>0, <3>4, <4>1
    <3>5. CASE op = "Gte"
      <4>1. Meaning(op, x) = Truth(gt \/ eq)
        BY <2>1, <3>5 DEF Meaning, Truth
      <4>2. (gt \/ eq) \in BOOLEAN
        OBVIOUS
      <4>. QED
        BY <3>0, <3>5, <4>1, <4>2
    <3>. QED
      BY <1>4, <3>1, <3>2, <3>3, <3>4, <3>5 DEF Comparison
  <2>. QED
    BY <2>2, BoolIsTruth
<1>5. CASE op \in Logical
  <2>1. /\ PayloadToBool(ins[1]) <=> x[1] # 0
        /\ op # "Not" => (PayloadToBool(ins[2]) <=> x[2] # 0)
    BY <1>1, TrueIsNotZero
  <2>2. \E b \in BOOLEAN : Evaluate(op, ins) = BoolToPayload(b) /\ Meaning(op, x) = Truth(b)
    <3>1. CASE op = "And"
      BY <2>1, <3>1 DEF Evaluate, Meaning
    <3>2. CASE op = "Or"
      BY <2>1, <3>2 DEF Evaluate, Meaning
    <3>3. CASE op = "Not"
      BY <2>1, <3>3 DEF Evaluate, Meaning
    <3>. QED
      BY <1>5, <3>1, <3>2, <3>3 DEF Logical
  <2>. QED
    BY <2>2, BoolIsTruth
<1>6. CASE op = "Select"
  <2>1. PayloadToBool(ins[1]) <=> x[1] # 0
    BY <1>1, TrueIsNotZero
  <2>. QED
    BY <1>1, <1>6, <2>1 DEF Evaluate, Meaning
<1>. QED
  BY <1>2, <1>3, <1>4, <1>5, <1>6 DEF OperationCode, Arithmetic

(***************************************************************************)
(* The Handle Graph (operations.rs) and the Enclave (operation.rs) each    *)
(* have their own table of the operations, in crates that do not know each *)
(* other.                                                                  *)
(***************************************************************************)
\* The rules of the Enclave: for_task, check_arity and the expected type tags.
EnclaveAcceptsTypes(op, ts, out) ==
  /\ SupportedOperation(op, out)
  /\ Len(ts) = Arity(op)
  /\ ts = InputTypeTags(op, out)

\* Sequences of up to three elements, by their elements.
LEMMA ShortSequences ==
  ASSUME NEW ts \in Seq(HandleType)
  PROVE  /\ Len(ts) = 1 => \A x : ts = <<x>> <=> ts[1] = x
         /\ Len(ts) = 2 => \A x, y : ts = <<x, y>> <=> ts[1] = x /\ ts[2] = y
         /\ Len(ts) = 3 => \A x, y, z : ts = <<x, y, z>> <=> ts[1] = x /\ ts[2] = y /\ ts[3] = z
<1>1. ts = [i \in 1..Len(ts) |-> ts[i]]
  OBVIOUS
<1>2. ASSUME Len(ts) = 1, NEW x PROVE ts = <<x>> <=> ts[1] = x
  BY <1>1, <1>2
<1>3. ASSUME Len(ts) = 2, NEW x, NEW y PROVE ts = <<x, y>> <=> ts[1] = x /\ ts[2] = y
  BY <1>1, <1>3
<1>4. ASSUME Len(ts) = 3, NEW x, NEW y, NEW z
      PROVE  ts = <<x, y, z>> <=> ts[1] = x /\ ts[2] = y /\ ts[3] = z
  BY <1>1, <1>4
<1>. QED
  BY <1>2, <1>3, <1>4

\* The Enclave takes exactly the operations, input types and output types that
\* the Handle Graph lets into a Derived Handle: it can refuse no task for its
\* operation or types, and the graph refuses none the Enclave could evaluate.
THEOREM OperationsAgree ==
  ASSUME NEW op \in OperationCode, NEW out \in HandleType, NEW ts \in Seq(HandleType)
  PROVE  GraphAccepts(op, ts, out) <=> EnclaveAcceptsTypes(op, ts, out)
<1> USE DEF HandleType, OperationCode, Arithmetic, Comparison, Logical,
            GraphAccepts, EnclaveAcceptsTypes, SupportedOperation, ExpectedArity, Arity,
            InputTypesOK, RequiredInput, OutputTypeOK, RequiredOutput, InputTypeTags
<1>1. CASE op = "Not"
  <2>1. Len(ts) = 1 => (ts = <<"Sbool">> <=> ts[1] = "Sbool")
    BY ShortSequences
  <2>2. Len(ts) = 1 => (InputTypesOK(op, ts) <=> ts[1] = "Sbool")
    BY <1>1
  <2>. QED
    BY <1>1, <2>1, <2>2
<1>2. CASE op = "Select"
  <2>1. Len(ts) = 3 => (ts = <<"Sbool", out, out>> <=> ts[1] = "Sbool" /\ ts[2] = out /\ ts[3] = out)
    BY ShortSequences
  <2>2. Len(ts) = 3 => (InputTypesOK(op, ts) <=> ts[1] = "Sbool" /\ ts[3] = ts[2])
    BY <1>2
  <2>. QED
    BY <1>2, <2>1, <2>2
<1>3. CASE op \in Arithmetic \cup Comparison
  <2>1. Len(ts) = 2 => (ts = <<"Suint256", "Suint256">> <=> ts[1] = "Suint256" /\ ts[2] = "Suint256")
    BY ShortSequences
  <2>2. Len(ts) = 2 => (InputTypesOK(op, ts) <=> ts[1] = "Suint256" /\ ts[2] = "Suint256")
    BY <1>3
  <2>. QED
    BY <1>3, <2>1, <2>2
<1>4. CASE op \in {"And", "Or"}
  <2>1. Len(ts) = 2 => (ts = <<"Sbool", "Sbool">> <=> ts[1] = "Sbool" /\ ts[2] = "Sbool")
    BY ShortSequences
  <2>2. Len(ts) = 2 => (InputTypesOK(op, ts) <=> ts[1] = "Sbool" /\ ts[2] = "Sbool")
    BY <1>4
  <2>. QED
    BY <1>4, <2>1, <2>2
<1>. QED
  BY <1>1, <1>2, <1>3, <1>4

(***************************************************************************)
(* The inductive invariant.                                                *)
(***************************************************************************)
Ready(k) == states[k].tag = "Ready"

Stored(k) == states[k].system_ciphertext

\* A handle that is Ready has a ciphertext bound to it, of its declared type.
CiphertextsBound ==
  \A k \in HandleKey : Ready(k) =>
    /\ Stored(k).handle_id = k
    /\ Stored(k).type_tag = HandleTypeOf(tasks, k)
    /\ Stored(k).payload \in Payload

\* The inputs of a Ready Derived Handle are Ready.
InputsReady ==
  \A t \in tasks : Ready(t.output_handle_key) =>
    \A i \in DOMAIN t.input_handle_keys : Ready(t.input_handle_keys[i])

\* What MPC wraps for a handle is what the handle holds, and holds for good.
Faithful(envelope) ==
  /\ envelope.handle_id \in HandleKey
  /\ Ready(envelope.handle_id)
  /\ envelope.payload = Stored(envelope.handle_id).payload

EnvelopesFaithful ==
  /\ issued \in Seq(Range(issued)) /\ \A e \in Range(issued) : Faithful(e)
  /\ inputs \in Seq(Range(inputs)) /\ \A e \in Range(inputs) : Faithful(e)

\* What a call has at each of its stages.
CallShape ==
  /\ pc \in {"idle", "attest", "transform", "execute"}
  /\ disturbed \in BOOLEAN
  /\ pc = "idle" => task = Absent /\ ~disturbed
  /\ pc # "idle" => /\ task \in tasks
                    /\ states[task.output_handle_key].tag = "Pending"
                    /\ \A i \in DOMAIN task.input_handle_keys : Ready(task.input_handle_keys[i])
  /\ pc \in {"idle", "attest"} => attestation = Absent /\ inputs = <<>>
  /\ pc \in {"transform", "execute"} => attestation \in Enclave /\ Approved(attestation)
  /\ pc = "transform" => Len(inputs) < Len(task.input_handle_keys)
  /\ pc = "execute" => Len(inputs) = Len(task.input_handle_keys)

\* Until something outside the host goes wrong, the Enclave of the material
\* runs, and the inputs are those of the task, wrapped to it.
Undisturbed ==
  pc \in {"transform", "execute"} /\ ~disturbed =>
    /\ attestation = running
    /\ \A i \in DOMAIN inputs : inputs[i] = Transformed(task, i, attestation)

ExecutionInv ==
  /\ tasks \in Programs
  /\ running \in Enclave
  /\ DOMAIN states = HandleKey
  /\ CiphertextsBound
  /\ InputsReady
  /\ EnvelopesFaithful
  /\ CallShape
  /\ Undisturbed
  /\ ResultsCorrect
  /\ ReceiptTruthful

(***************************************************************************)
(* Facts about tasks, sequences and receipts.                              *)
(***************************************************************************)
\* What the scheduler builds of an accepted lineage.
LEMMA TaskFacts ==
  ASSUME NEW program \in Programs, NEW t \in program
  PROVE  /\ t.output_handle_key \in HandleKey \ DOMAIN Sources
         /\ t.operation_code \in OperationCode
         /\ t.output_handle_type \in HandleType
         /\ t.input_handle_keys \in Seq(HandleKey)
         /\ t # Absent
         /\ HandleTypeOf(program, t.output_handle_key) = t.output_handle_type
         /\ \A u \in program : u.output_handle_key = t.output_handle_key => u = t
         /\ EnclaveAcceptsTypes(t.operation_code, InputTypes(program, t), t.output_handle_type)
         /\ Len(t.input_handle_keys) = Arity(t.operation_code)
         /\ Len(t.input_handle_keys) \in Nat \ {0}
<1>1. program \subseteq ResolutionTask /\ WellBuilt(program)
  BY ProgramAssumption
<1>2. /\ t.output_handle_key \in HandleKey \ DOMAIN Sources
      /\ t.operation_code \in OperationCode
      /\ t.output_handle_type \in HandleType
      /\ t.input_handle_keys \in Seq(HandleKey)
      /\ t # Absent
  <2>1. t \in ResolutionTask
    BY <1>1
  <2>2. t # Absent
    <3>1. "output_handle_key" \in DOMAIN t /\ "output_handle_key" \notin DOMAIN Absent
      BY <2>1 DEF ResolutionTask, Absent
    <3>. QED
      BY <3>1
  <2>. QED
    BY <2>1, <2>2 DEF ResolutionTask
<1>3. ASSUME NEW u \in program PROVE u.output_handle_key = t.output_handle_key => u = t
  BY <1>1 DEF WellBuilt
<1>4. ASSUME NEW u \in program
      PROVE  HandleTypeOf(program, u.output_handle_key) = u.output_handle_type
  <2> DEFINE c == CHOOSE v \in program : v.output_handle_key = u.output_handle_key
  <2>1. c \in program /\ c.output_handle_key = u.output_handle_key
    OBVIOUS
  <2> HIDE DEF c
  <2>2. c = u
    BY <1>1, <2>1 DEF WellBuilt
  <2>3. u.output_handle_key \notin DOMAIN Sources
    BY <1>1 DEF ResolutionTask
  <2>4. HandleTypeOf(program, u.output_handle_key) = c.output_handle_type
    BY <2>3 DEF HandleTypeOf, c
  <2>. QED
    BY <2>2, <2>4
<1> DEFINE keys == t.input_handle_keys
           types == InputTypes(program, t)
<1>5. types \in Seq(HandleType) /\ Len(types) = Len(keys)
  <2>1. ASSUME NEW i \in DOMAIN keys PROVE HandleTypeOf(program, keys[i]) \in HandleType
    <3>1. keys[i] \in DOMAIN Sources \cup {u.output_handle_key : u \in program}
      BY <1>1 DEF WellBuilt
    <3>2. CASE keys[i] \in DOMAIN Sources
      BY <3>2, ProgramAssumption DEF HandleTypeOf
    <3>3. CASE keys[i] \notin DOMAIN Sources
      <4>1. PICK u \in program : u.output_handle_key = keys[i]
        BY <3>1, <3>3
      <4>2. u.output_handle_type \in HandleType
        BY <1>1 DEF ResolutionTask
      <4>. QED
        BY <1>4, <4>1, <4>2
    <3>. QED
      BY <3>2, <3>3
  <2>2. DOMAIN keys = 1..Len(keys) /\ Len(keys) \in Nat
    BY <1>2
  <2>3. types = [i \in DOMAIN keys |-> HandleTypeOf(program, keys[i])]
    BY DEF InputTypes
  <2> HIDE DEF keys, types
  <2>. QED
    BY <2>1, <2>2, <2>3
<1>6. GraphAccepts(t.operation_code, types, t.output_handle_type)
  BY <1>1 DEF WellBuilt
<1>7. EnclaveAcceptsTypes(t.operation_code, types, t.output_handle_type)
  BY <1>2, <1>5, <1>6, OperationsAgree
<1>8. Len(keys) = Arity(t.operation_code) /\ Arity(t.operation_code) \in Nat \ {0}
  <2>1. Len(types) = Arity(t.operation_code)
    BY <1>7 DEF EnclaveAcceptsTypes
  <2>. QED
    BY <1>5, <2>1 DEF Arity
<1>. QED
  BY <1>2, <1>3, <1>4, <1>7, <1>8

LEMMA AppendFacts ==
  ASSUME NEW s, s \in Seq(Range(s)), NEW e
  PROVE  /\ Append(s, e) \in Seq(Range(Append(s, e)))
         /\ Range(Append(s, e)) \subseteq Range(s) \cup {e}
         /\ Len(Append(s, e)) = Len(s) + 1
         /\ DOMAIN Append(s, e) = DOMAIN s \cup {Len(s) + 1}
         /\ \A i \in DOMAIN s : Append(s, e)[i] = s[i]
         /\ Append(s, e)[Len(s) + 1] = e
         /\ Len(s) \in Nat /\ DOMAIN s = 1..Len(s)
<1> DEFINE S == Range(s) \cup {e}
           a == Append(s, e)
<1>1. s \in Seq(S) /\ e \in S
  BY SeqMonotonic
<1> HIDE DEF S
<1>2. /\ a \in Seq(S) /\ Len(a) = Len(s) + 1
      /\ \A i \in 1..Len(s) : a[i] = s[i]
      /\ a[Len(s) + 1] = e
  BY <1>1, AppendProperties
<1>3. /\ DOMAIN a = 1..Len(a) /\ DOMAIN s = 1..Len(s) /\ Len(s) \in Nat
      /\ \A i \in DOMAIN a : a[i] \in S
  BY <1>1, <1>2
<1> HIDE DEF a
<1>4. DOMAIN a = DOMAIN s \cup {Len(s) + 1}
  BY <1>2, <1>3
<1>5. a \in Seq(Range(a)) /\ Range(a) \subseteq S
  BY <1>2, <1>3, SeqOfRange DEF Range
<1>. QED
  BY <1>2, <1>3, <1>4, <1>5 DEF S, a

LEMMA TailFacts ==
  ASSUME NEW s, s \in Seq(Range(s)), s # <<>>
  PROVE  Tail(s) \in Seq(Range(Tail(s))) /\ Range(Tail(s)) \subseteq Range(s)
<1> DEFINE S == Range(s)
           t == Tail(s)
<1>1. t \in Seq(S)
  BY HeadTailProperties
<1> HIDE DEF t, S
<1>2. t \in Seq(Range(t))
  BY <1>1, SeqOfRange
<1>3. Range(t) \subseteq S
  <2>1. \A i \in DOMAIN t : t[i] \in S
    BY <1>1
  <2>. QED
    BY <2>1 DEF Range
<1>. QED
  BY <1>2, <1>3 DEF t, S

LEMMA OpCodeFacts ==
  ASSUME NEW op \in OperationCode
  PROVE  OpCodeByte(op) \in DOMAIN OpCodes /\ OpCodes[OpCodeByte(op)] = op
<1>1. \E b \in DOMAIN OpCodes : OpCodes[b] = op
  <2>1. DOMAIN OpCodes = 1..11
    BY DEF OpCodes
  <2>2. /\ OpCodes[1] = "Add" /\ OpCodes[2] = "Sub" /\ OpCodes[3] = "Eq" /\ OpCodes[4] = "Lt"
        /\ OpCodes[5] = "Lte" /\ OpCodes[6] = "Gt" /\ OpCodes[7] = "Gte" /\ OpCodes[8] = "And"
        /\ OpCodes[9] = "Or" /\ OpCodes[10] = "Not" /\ OpCodes[11] = "Select"
    BY DEF OpCodes
  <2>. QED
    BY <2>1, <2>2 DEF OperationCode, Arithmetic, Comparison, Logical
<1>. QED
  BY <1>1 DEF OpCodeByte

\* A receipt is read back as it was written, whatever the number of its inputs.
LEMMA ReceiptRoundTrip ==
  ASSUME NEW op \in OperationCode, NEW key, NEW keys \in Seq(HandleKey), NEW digest,
         NEW r, r = [operation_code |-> op, output_handle_key |-> key,
                     input_handle_keys |-> keys, attestation_digest |-> digest]
  PROVE  DecodeReceipt(EncodeReceipt(r)) = r
<1> DEFINE byte == OpCodeByte(op)
           n == Len(keys)
           S == HandleKey \cup {byte, key, n, digest}
           head == <<byte, key, n>>
           last == <<digest>>
           front == head \o keys
           bytes == front \o last
<1>1. EncodeReceipt(r) = bytes
  BY DEF EncodeReceipt
<1>2. byte \in DOMAIN OpCodes /\ OpCodes[byte] = op
  BY OpCodeFacts
<1>3. n \in Nat /\ keys \in Seq(S) /\ head \in Seq(S) /\ last \in Seq(S)
  <2>1. keys \in Seq(S)
    BY SeqMonotonic
  <2>. QED
    BY <2>1
<1>4. /\ Len(head) = 3 /\ head[1] = byte /\ head[2] = key /\ head[3] = n
      /\ Len(last) = 1 /\ last[1] = digest
  OBVIOUS
<1> HIDE DEF byte, n, S, head, last
<1>5. /\ front \in Seq(S) /\ Len(front) = n + 3
      /\ \A i \in 1..(n + 3) : front[i] = IF i <= 3 THEN head[i] ELSE keys[i - 3]
  <2>1. Len(keys) = n
    BY DEF n
  <2>2. /\ head \o keys \in Seq(S)
        /\ Len(head \o keys) = Len(head) + Len(keys)
        /\ \A i \in 1..(Len(head) + Len(keys)) :
             (head \o keys)[i] = IF i <= Len(head) THEN head[i] ELSE keys[i - Len(head)]
    BY <1>3, ConcatProperties
  <2> HIDE DEF front
  <2>3. Len(head) + Len(keys) = n + 3 /\ Len(head) = 3
    BY <1>3, <1>4, <2>1
  <2>. QED
    BY <2>2, <2>3 DEF front
<1> HIDE DEF front
<1>6. /\ bytes \in Seq(S) /\ Len(bytes) = n + 4
      /\ \A i \in 1..(n + 4) : bytes[i] = IF i <= n + 3 THEN front[i] ELSE last[i - (n + 3)]
  <2>1. /\ front \o last \in Seq(S)
        /\ Len(front \o last) = Len(front) + Len(last)
        /\ \A i \in 1..(Len(front) + Len(last)) :
             (front \o last)[i] = IF i <= Len(front) THEN front[i] ELSE last[i - Len(front)]
    BY <1>3, <1>5, ConcatProperties
  <2> HIDE DEF bytes
  <2>2. Len(front) + Len(last) = n + 4 /\ Len(front) = n + 3
    BY <1>3, <1>4, <1>5
  <2>. QED
    BY <2>1, <2>2 DEF bytes
<1> HIDE DEF bytes
<1>7. /\ bytes[1] = byte /\ bytes[2] = key /\ bytes[3] = n
      /\ bytes[n + 4] = digest
      /\ \A i \in 1..n : bytes[i + 3] = keys[i]
  <2>1. bytes[1] = byte /\ bytes[2] = key /\ bytes[3] = n
    BY <1>3, <1>4, <1>5, <1>6
  <2>2. bytes[n + 4] = digest
    BY <1>3, <1>4, <1>6
  <2>3. ASSUME NEW i \in 1..n PROVE bytes[i + 3] = keys[i]
    <3>1. i + 3 \in 1..(n + 3) /\ i + 3 \in 1..(n + 4) /\ ~(i + 3 <= 3) /\ (i + 3) - 3 = i
      BY <1>3
    <3>. QED
      BY <1>5, <1>6, <3>1
  <2>. QED
    BY <2>1, <2>2, <2>3
<1> DEFINE sub == SubSeq(bytes, 4, n + 3)
<1>8. sub = keys
  <2>1. \A i \in 4..(n + 3) : bytes[i] \in S
    BY <1>3, <1>6
  <2>2. /\ sub \in Seq(S)
        /\ Len(sub) = IF 4 <= n + 3 THEN (n + 3) - 4 + 1 ELSE 0
        /\ \A i \in 1..((n + 3) - 4 + 1) : sub[i] = bytes[4 + i - 1]
    BY <1>3, <2>1, SubSeqProperties
  <2> HIDE DEF sub
  <2>3. Len(sub) = n
    BY <1>3, <2>2
  <2>4. ASSUME NEW i \in 1..n PROVE sub[i] = keys[i]
    <3>1. 4 + i - 1 = i + 3 /\ i \in 1..((n + 3) - 4 + 1)
      BY <1>3
    <3>. QED
      BY <1>7, <2>2, <3>1
  <2>. QED
    BY <1>3, <2>2, <2>3, <2>4, SeqEqual DEF n
<1>9. DecodeReceipt(bytes) =
        [operation_code |-> OpCodes[bytes[1]], output_handle_key |-> bytes[2],
         input_handle_keys |-> SubSeq(bytes, 4, bytes[3] + 3),
         attestation_digest |-> bytes[Len(bytes)]]
  <2>1. Len(bytes) >= 3 /\ bytes[1] \in DOMAIN OpCodes /\ Len(bytes) = bytes[3] + 4
    BY <1>2, <1>3, <1>6, <1>7
  <2>. QED
    BY <2>1 DEF DecodeReceipt
<1>. QED
  BY <1>1, <1>2, <1>6, <1>7, <1>8, <1>9

(***************************************************************************)
(* The invariant holds at the start and every step keeps it.               *)
(***************************************************************************)
LEMMA InitInv == Init => ExecutionInv
<1> SUFFICES ASSUME Init PROVE ExecutionInv
  OBVIOUS
<1>1. PICK values \in SourcePayloads :
        states = [k \in HandleKey |->
                    IF k \in DOMAIN Sources
                      THEN [tag |-> "Ready",
                            system_ciphertext |-> SystemCiphertext(k, Sources[k], values[k])]
                      ELSE Pending]
  BY DEF Init
<1>2. ASSUME NEW k \in HandleKey, Ready(k)
      PROVE  /\ k \in DOMAIN Sources
             /\ Stored(k) = SystemCiphertext(k, Sources[k], values[k])
  BY <1>1, <1>2 DEF Ready, Stored, Pending
<1>3. CiphertextsBound
  <2>1. \A k \in DOMAIN Sources : values[k] \in Payload
    BY EnclaveAssumption
  <2>. QED
    BY <1>2, <2>1 DEF CiphertextsBound, SystemCiphertext, HandleTypeOf
<1>4. \A t \in tasks : ~Ready(t.output_handle_key)
  <2>1. \A t \in tasks : t.output_handle_key \in HandleKey \ DOMAIN Sources
    BY TaskFacts DEF Init
  <2>. QED
    BY <1>2, <2>1
<1>5. InputsReady /\ ResultsCorrect /\ ReceiptTruthful
  BY <1>4 DEF InputsReady, ResultsCorrect, ReceiptTruthful, Ready
<1>6. EnvelopesFaithful
  BY DEF Init, EnvelopesFaithful, Range
<1>7. CallShape /\ Undisturbed
  BY DEF Init, CallShape, Undisturbed
<1>8. tasks \in Programs /\ running \in Enclave /\ DOMAIN states = HandleKey
  BY <1>1 DEF Init
<1>. QED
  BY <1>3, <1>5, <1>6, <1>7, <1>8 DEF ExecutionInv

\* What is said of the handles alone, in a step that leaves them as they are.
LEMMA StatesKept ==
  ASSUME ExecutionInv, UNCHANGED <<tasks, states>>
  PROVE  /\ (tasks \in Programs)' /\ (DOMAIN states = HandleKey)'
         /\ CiphertextsBound' /\ InputsReady' /\ ResultsCorrect' /\ ReceiptTruthful'
         /\ \A k : Ready(k)' <=> Ready(k)
         /\ \A e : Faithful(e) => Faithful(e)'
<1>1. tasks' = tasks /\ states' = states
  OBVIOUS
<1>2. \A k : (Ready(k)' <=> Ready(k)) /\ Stored(k)' = Stored(k) /\ Value(k)' = Value(k)
  BY <1>1 DEF Ready, Stored, Value
<1>3. (tasks \in Programs)' /\ (DOMAIN states = HandleKey)'
  BY <1>1 DEF ExecutionInv
<1>4. CiphertextsBound' /\ InputsReady'
  BY <1>1, <1>2 DEF ExecutionInv, CiphertextsBound, InputsReady
<1>5. ResultsCorrect' /\ ReceiptTruthful'
  BY <1>1, <1>2 DEF ExecutionInv, ResultsCorrect, ReceiptTruthful
<1>6. \A e : Faithful(e) => Faithful(e)'
  BY <1>2 DEF Faithful
<1>. QED
  BY <1>2, <1>3, <1>4, <1>5, <1>6

LEMMA BeginInv ==
  ASSUME ExecutionInv, NEW t \in tasks, Begin(t)
  PROVE  ExecutionInv'
<1>1. UNCHANGED <<tasks, states, running, retired, issued, attestation, inputs, disturbed>>
  BY DEF Begin
<1>2. \A k : Ready(k)' <=> Ready(k)
  BY <1>1, StatesKept
<1>3. EnvelopesFaithful'
  BY <1>1, StatesKept DEF ExecutionInv, EnvelopesFaithful
<1>4. CallShape'
  <2>1. pc' = "attest" /\ task' = t /\ pc = "idle"
    BY DEF Begin
  <2>2. attestation' = Absent /\ inputs' = <<>> /\ disturbed' \in BOOLEAN
    BY <1>1, <2>1 DEF ExecutionInv, CallShape
  <2>3. /\ (states[task.output_handle_key].tag = "Pending")'
        /\ (\A i \in DOMAIN task.input_handle_keys : Ready(task.input_handle_keys[i]))'
    BY <1>1, <2>1 DEF Begin, Claimable, Ready
  <2>. QED
    BY <1>1, <2>1, <2>2, <2>3 DEF CallShape
<1>5. Undisturbed'
  BY DEF Begin, Undisturbed
<1>. QED
  BY <1>1, <1>3, <1>4, <1>5, StatesKept DEF ExecutionInv

LEMMA ReplaceEnclaveInv ==
  ASSUME ExecutionInv, ReplaceEnclave
  PROVE  ExecutionInv'
<1>1. UNCHANGED <<tasks, states, issued, pc, task, attestation, inputs>>
  BY DEF ReplaceEnclave
<1>2. \A k : Ready(k)' <=> Ready(k)
  BY <1>1, StatesKept
<1>3. EnvelopesFaithful'
  BY <1>1, StatesKept DEF ExecutionInv, EnvelopesFaithful
<1>4. (pc = "idle" => ~disturbed') /\ (pc # "idle" => disturbed') /\ disturbed' \in BOOLEAN
  BY DEF ReplaceEnclave
<1>5. CallShape'
  BY <1>1, <1>2, <1>4 DEF ExecutionInv, CallShape, Ready
<1>6. Undisturbed'
  BY <1>1, <1>4 DEF Undisturbed
<1>7. running' \in Enclave
  BY DEF ReplaceEnclave
<1>. QED
  BY <1>1, <1>3, <1>5, <1>6, <1>7, StatesKept DEF ExecutionInv

\* A result that may be stored for a task.
GoodResult(state) ==
  state.tag = "Ready" =>
    /\ state.system_ciphertext.handle_id = task.output_handle_key
    /\ state.system_ciphertext.type_tag = task.output_handle_type
    /\ state.system_ciphertext.payload \in Payload
    /\ Number(state.system_ciphertext.payload) =
         Meaning(task.operation_code,
                 [i \in DOMAIN task.input_handle_keys |-> Value(task.input_handle_keys[i])])
    /\ DecodeReceipt(state.materialization_receipt) =
         [operation_code |-> task.operation_code,
          output_handle_key |-> task.output_handle_key,
          input_handle_keys |-> task.input_handle_keys,
          attestation_digest |-> ApprovedMeasurement]

\* Every exit of a call.
LEMMA EndCallInv ==
  ASSUME ExecutionInv, pc # "idle", NEW state, EndCall(state), GoodResult(state)
  PROVE  ExecutionInv'
<1> DEFINE out == task.output_handle_key
<1>1. /\ tasks' = tasks /\ running' = running /\ issued' = issued
      /\ pc' = "idle" /\ task' = Absent /\ attestation' = Absent /\ inputs' = <<>>
      /\ disturbed' = FALSE
      /\ states' = [states EXCEPT ![out] = state]
  BY DEF EndCall
<1>2. /\ tasks \in Programs /\ task \in tasks /\ DOMAIN states = HandleKey
      /\ states[out].tag = "Pending"
      /\ \A i \in DOMAIN task.input_handle_keys : Ready(task.input_handle_keys[i])
  BY DEF ExecutionInv, CallShape
<1>3. /\ out \in HandleKey /\ HandleTypeOf(tasks, out) = task.output_handle_type
      /\ \A t \in tasks : t.output_handle_key = out => t = task
  BY <1>2, TaskFacts
<1>4. /\ DOMAIN states' = HandleKey /\ states'[out] = state
      /\ \A k : k # out => states'[k] = states[k]
  BY <1>1, <1>2, <1>3
<1>5. ~Ready(out)
  BY <1>2 DEF Ready
<1>6. \A k : k # out => (Ready(k)' <=> Ready(k)) /\ Stored(k)' = Stored(k) /\ Value(k)' = Value(k)
  BY <1>4 DEF Ready, Stored, Value
<1>7. \A k : k = out => /\ Ready(k)' <=> state.tag = "Ready"
                       /\ Stored(k)' = state.system_ciphertext
                       /\ Value(k)' = Number(state.system_ciphertext.payload)
  BY <1>4 DEF Ready, Stored, Value
<1>8. \A k : Ready(k) => Ready(k)' /\ Stored(k)' = Stored(k) /\ Value(k)' = Value(k)
  BY <1>5, <1>6
<1>9. CiphertextsBound'
  <2>1. ASSUME NEW k \in HandleKey, Ready(k)'
        PROVE  /\ Stored(k)'.handle_id = k
               /\ Stored(k)'.type_tag = HandleTypeOf(tasks', k)
               /\ Stored(k)'.payload \in Payload
    <3>1. CASE k = out
      BY <1>1, <1>3, <1>7, <2>1, <3>1 DEF GoodResult
    <3>2. CASE k # out
      BY <1>1, <1>6, <2>1, <3>2 DEF ExecutionInv, CiphertextsBound
    <3>. QED
      BY <3>1, <3>2
  <2>. QED
    BY <2>1 DEF CiphertextsBound
<1>10. ASSUME NEW t \in tasks', Ready(t.output_handle_key)'
       PROVE  \A i \in DOMAIN t.input_handle_keys : Ready(t.input_handle_keys[i])
  <2>1. CASE t.output_handle_key = out
    BY <1>1, <1>2, <1>3, <2>1
  <2>2. CASE t.output_handle_key # out
    BY <1>1, <1>6, <1>10, <2>2 DEF ExecutionInv, InputsReady
  <2>. QED
    BY <2>1, <2>2
<1>11. InputsReady'
  BY <1>8, <1>10 DEF InputsReady
<1>12. EnvelopesFaithful'
  <2>1. \A e : Faithful(e) => Faithful(e)'
    BY <1>8 DEF Faithful
  <2>2. inputs' \in Seq(Range(inputs')) /\ Range(inputs') = {}
    BY <1>1 DEF Range
  <2>3. issued \in Seq(Range(issued)) /\ \A e \in Range(issued) : Faithful(e)
    BY DEF ExecutionInv, EnvelopesFaithful
  <2>. QED
    BY <1>1, <2>1, <2>2, <2>3 DEF EnvelopesFaithful
<1>13. CallShape' /\ Undisturbed'
  BY <1>1 DEF CallShape, Undisturbed
<1>14. ResultsCorrect'
  <2>1. ASSUME NEW t \in tasks', Ready(t.output_handle_key)'
        PROVE  Value(t.output_handle_key)' =
                 Meaning(t.operation_code,
                         [i \in DOMAIN t.input_handle_keys |-> Value(t.input_handle_keys[i])'])
    <3>1. [i \in DOMAIN t.input_handle_keys |-> Value(t.input_handle_keys[i])']
            = [i \in DOMAIN t.input_handle_keys |-> Value(t.input_handle_keys[i])]
      BY <1>8, <1>10, <2>1
    <3>2. CASE t.output_handle_key = out
      <4>1. t = task /\ state.tag = "Ready"
        BY <1>1, <1>3, <1>7, <2>1, <3>2
      <4>2. Value(t.output_handle_key)' = Number(state.system_ciphertext.payload)
        BY <1>7, <3>2
      <4>. QED
        BY <3>1, <3>2, <4>1, <4>2 DEF GoodResult
    <3>3. CASE t.output_handle_key # out
      <4>1. Ready(t.output_handle_key)
        BY <1>6, <2>1, <3>3
      <4>2. Value(t.output_handle_key) =
              Meaning(t.operation_code,
                      [i \in DOMAIN t.input_handle_keys |-> Value(t.input_handle_keys[i])])
        BY <1>1, <4>1 DEF ExecutionInv, ResultsCorrect, Ready
      <4>. QED
        BY <1>6, <3>1, <3>3, <4>2
    <3>. QED
      BY <3>2, <3>3
  <2>. QED
    BY <2>1 DEF ResultsCorrect, Ready
<1>15. ReceiptTruthful'
  <2>1. ASSUME NEW t \in tasks', states'[t.output_handle_key].tag = "Ready"
        PROVE  DecodeReceipt(states'[t.output_handle_key].materialization_receipt) =
                 [operation_code |-> t.operation_code, output_handle_key |-> t.output_handle_key,
                  input_handle_keys |-> t.input_handle_keys,
                  attestation_digest |-> ApprovedMeasurement]
    <3>1. CASE t.output_handle_key = out
      BY <1>1, <1>3, <1>4, <2>1, <3>1 DEF GoodResult
    <3>2. CASE t.output_handle_key # out
      BY <1>1, <1>4, <2>1, <3>2 DEF ExecutionInv, ReceiptTruthful
    <3>. QED
      BY <3>1, <3>2
  <2>. QED
    BY <2>1 DEF ReceiptTruthful
<1>. QED
  BY <1>1, <1>2, <1>4, <1>9, <1>11, <1>12, <1>13, <1>14, <1>15 DEF ExecutionInv

\* No failure is stored as a result.
LEMMA HandleFailureInv ==
  ASSUME ExecutionInv, pc # "idle", NEW error, NEW category, HandleFailure(error, category)
  PROVE  ExecutionInv'
<1>1. GoodResult(Pending)
  BY DEF GoodResult, Pending
<1>2. \A cause : GoodResult(Failed(category, cause))
  BY DEF GoodResult, Failed
<1>3. \E state : EndCall(state) /\ GoodResult(state)
  BY <1>1, <1>2 DEF HandleFailure
<1>. QED
  BY <1>3, EndCallInv

LEMMA FetchAttestationInv ==
  ASSUME ExecutionInv, FetchAttestation
  PROVE  ExecutionInv'
<1>1. pc = "attest"
  BY DEF FetchAttestation
<1>2. CASE \E error \in AttestationError : HandleFailure(error, "MpcTransformationFailure")
  BY <1>1, <1>2, HandleFailureInv
<1>3. CASE /\ Approved(running)
           /\ attestation' = running
           /\ pc' = "transform"
           /\ UNCHANGED <<tasks, states, running, retired, issued, task, inputs, disturbed>>
  <2>1. \A k : Ready(k)' <=> Ready(k)
    BY <1>3, StatesKept
  <2>2. EnvelopesFaithful'
    BY <1>3, StatesKept DEF ExecutionInv, EnvelopesFaithful
  <2>3. /\ tasks \in Programs /\ task \in tasks /\ inputs = <<>> /\ running \in Enclave
        /\ disturbed \in BOOLEAN
        /\ states[task.output_handle_key].tag = "Pending"
        /\ \A i \in DOMAIN task.input_handle_keys : Ready(task.input_handle_keys[i])
    BY <1>1 DEF ExecutionInv, CallShape
  <2>4. Len(inputs) < Len(task.input_handle_keys)
    <3>1. Len(task.input_handle_keys) \in Nat \ {0}
      BY <2>3, TaskFacts
    <3>. QED
      BY <2>3, <3>1
  <2>5. CallShape'
    BY <1>3, <2>1, <2>3, <2>4 DEF CallShape, Approved, Ready
  <2>6. Undisturbed'
    BY <1>3, <2>3 DEF Undisturbed
  <2>. QED
    BY <1>3, <2>2, <2>3, <2>5, <2>6, StatesKept DEF ExecutionInv
<1>. QED
  BY <1>2, <1>3 DEF FetchAttestation

\* The envelope MPC makes for the next input is of what the handle holds.
LEMMA TransformedFaithful ==
  ASSUME ExecutionInv, pc = "transform"
  PROVE  /\ Len(inputs) + 1 \in DOMAIN task.input_handle_keys
         /\ Faithful(Transformed(task, Len(inputs) + 1, attestation))
<1> DEFINE i == Len(inputs) + 1
           key == task.input_handle_keys[i]
<1>1. /\ tasks \in Programs /\ task \in tasks
      /\ \A j \in DOMAIN task.input_handle_keys : Ready(task.input_handle_keys[j])
      /\ Len(inputs) < Len(task.input_handle_keys)
      /\ inputs \in Seq(Range(inputs))
  BY DEF ExecutionInv, CallShape, EnvelopesFaithful
<1>2. task.input_handle_keys \in Seq(HandleKey)
  BY <1>1, TaskFacts
<1>3. i \in DOMAIN task.input_handle_keys
  <2>1. Len(inputs) \in Nat
    BY <1>1
  <2>. QED
    BY <1>1, <1>2, <2>1
<1>4. key \in HandleKey /\ Ready(key)
  BY <1>1, <1>2, <1>3
<1>5. /\ Transformed(task, i, attestation).handle_id = key
      /\ Transformed(task, i, attestation).payload = Stored(key).payload
  BY DEF Transformed, Stored
<1>. QED
  BY <1>3, <1>4, <1>5 DEF Faithful

LEMMA AcceptInputInv ==
  ASSUME ExecutionInv, pc = "transform",
         NEW envelope, Faithful(envelope), AcceptInput(envelope),
         \/ /\ Issue(envelope)
            /\ disturbed' = disturbed
            /\ envelope = Transformed(task, Len(inputs) + 1, attestation)
         \/ disturbed' = TRUE /\ issued' = issued
  PROVE  ExecutionInv'
<1> DEFINE keys == task.input_handle_keys
<1>1. /\ inputs' = Append(inputs, envelope)
      /\ pc' = IF Len(inputs) + 1 = Len(keys) THEN "execute" ELSE "transform"
      /\ tasks' = tasks /\ states' = states /\ running' = running /\ task' = task
      /\ attestation' = attestation
  BY DEF AcceptInput
<1>2. /\ tasks \in Programs /\ task \in tasks
      /\ states[task.output_handle_key].tag = "Pending"
      /\ \A j \in DOMAIN keys : Ready(keys[j])
      /\ Len(inputs) < Len(keys)
      /\ attestation \in Enclave /\ Approved(attestation)
      /\ disturbed \in BOOLEAN
  BY DEF ExecutionInv, CallShape
<1>3. /\ inputs \in Seq(Range(inputs)) /\ \A e \in Range(inputs) : Faithful(e)
      /\ issued \in Seq(Range(issued)) /\ \A e \in Range(issued) : Faithful(e)
  BY DEF ExecutionInv, EnvelopesFaithful
<1>4. /\ inputs' \in Seq(Range(inputs')) /\ Range(inputs') \subseteq Range(inputs) \cup {envelope}
      /\ Len(inputs') = Len(inputs) + 1
      /\ DOMAIN inputs' = DOMAIN inputs \cup {Len(inputs) + 1}
      /\ \A i \in DOMAIN inputs : inputs'[i] = inputs[i]
      /\ inputs'[Len(inputs) + 1] = envelope
      /\ Len(inputs) \in Nat
  BY <1>1, <1>3, AppendFacts
<1>5. issued' \in Seq(Range(issued')) /\ Range(issued') \subseteq Range(issued) \cup {envelope}
  <2>1. CASE issued' = issued
    BY <1>3, <2>1
  <2>2. CASE Issue(envelope)
    <3> DEFINE all == Append(issued, envelope)
    <3>1. /\ all \in Seq(Range(all)) /\ Range(all) \subseteq Range(issued) \cup {envelope}
          /\ Len(all) = Len(issued) + 1 /\ Len(issued) \in Nat
      BY <1>3, AppendFacts
    <3>2. issued' = all \/ issued' = Tail(all)
      BY <2>2 DEF Issue
    <3> HIDE DEF all
    <3>3. all # <<>>
      BY <3>1
    <3>4. Tail(all) \in Seq(Range(Tail(all))) /\ Range(Tail(all)) \subseteq Range(all)
      BY <3>1, <3>3, TailFacts
    <3>. QED
      BY <3>1, <3>2, <3>4
  <2>. QED
    BY <2>1, <2>2
<1>6. EnvelopesFaithful'
  <2>1. \A e : Faithful(e) => Faithful(e)'
    BY <1>1, StatesKept
  <2>. QED
    BY <1>3, <1>4, <1>5, <2>1 DEF EnvelopesFaithful
<1>7. CallShape'
  <2>1. /\ pc' = "transform" => Len(inputs') < Len(keys)
        /\ pc' = "execute" => Len(inputs') = Len(keys)
        /\ pc' \in {"transform", "execute"}
    <3>1. Len(keys) \in Nat
      BY <1>2, TaskFacts
    <3>. QED
      BY <1>1, <1>2, <1>4, <3>1
  <2>2. \A k : Ready(k)' <=> Ready(k)
    BY <1>1, StatesKept
  <2>3. disturbed' \in BOOLEAN
    BY <1>2
  <2>4. Approved(attestation)'
    BY <1>1, <1>2 DEF Approved
  <2>. QED
    BY <1>1, <1>2, <2>1, <2>2, <2>3, <2>4 DEF CallShape
<1>8. Undisturbed'
  <2>1. SUFFICES ASSUME ~disturbed'
                 PROVE  /\ attestation = running
                        /\ \A i \in DOMAIN inputs' :
                             inputs'[i] = Transformed(task, i, attestation)
    <3>1. \A i : Transformed(task, i, attestation)' = Transformed(task, i, attestation)
      BY <1>1 DEF Transformed
    <3>. QED
      BY <1>1, <3>1 DEF Undisturbed, Transformed
  <2>2. ~disturbed /\ envelope = Transformed(task, Len(inputs) + 1, attestation)
    BY <2>1
  <2>3. /\ attestation = running
        /\ \A i \in DOMAIN inputs : inputs[i] = Transformed(task, i, attestation)
    BY <2>2 DEF ExecutionInv, Undisturbed
  <2>. QED
    BY <1>4, <2>2, <2>3
<1>9. running' \in Enclave
  BY <1>1 DEF ExecutionInv
<1>. QED
  BY <1>1, <1>6, <1>7, <1>8, <1>9, StatesKept DEF ExecutionInv

LEMMA TransformInputInv ==
  ASSUME ExecutionInv, TransformInput
  PROVE  ExecutionInv'
<1> DEFINE envelope == Transformed(task, Len(inputs) + 1, attestation)
<1>1. pc = "transform"
  BY DEF TransformInput
<1>2. Faithful(envelope)
  BY <1>1, TransformedFaithful
<1>3. \/ AcceptInput(envelope) /\ Issue(envelope) /\ disturbed' = disturbed
      \/ \E late \in Range(issued) \ {envelope} :
           AcceptInput(late) /\ disturbed' = TRUE /\ issued' = issued
      \/ \E error \in TransformError : HandleFailure(error, "MpcTransformationFailure")
  BY DEF TransformInput, PinnedAttestation
<1>4. CASE AcceptInput(envelope) /\ Issue(envelope) /\ disturbed' = disturbed
  <2>1. \E e : /\ e = envelope /\ Faithful(e) /\ AcceptInput(e)
               /\ Issue(e) /\ disturbed' = disturbed
    BY <1>2, <1>4
  <2> HIDE DEF envelope
  <2>2. envelope = Transformed(task, Len(inputs) + 1, attestation)
    BY DEF envelope
  <2>. QED
    BY <1>1, <2>1, <2>2, AcceptInputInv
<1>5. CASE \E late \in Range(issued) \ {envelope} :
             AcceptInput(late) /\ disturbed' = TRUE /\ issued' = issued
  <2>1. PICK late \in Range(issued) : AcceptInput(late) /\ disturbed' = TRUE /\ issued' = issued
    BY <1>5
  <2>2. Faithful(late)
    BY DEF ExecutionInv, EnvelopesFaithful
  <2>. QED
    BY <1>1, <2>1, <2>2, AcceptInputInv
<1>6. CASE \E error \in TransformError : HandleFailure(error, "MpcTransformationFailure")
  BY <1>1, <1>6, HandleFailureInv
<1>. QED
  BY <1>3, <1>4, <1>5, <1>6

\* What the Enclave makes of inputs it accepts.
LEMMA MaterializedIsGood ==
  ASSUME ExecutionInv, pc = "execute", EnclaveAccepts(task)
  PROVE  GoodResult(Materialized(task))
<1> DEFINE op == task.operation_code
           keys == task.input_handle_keys
           payloads == [i \in DOMAIN inputs |-> inputs[i].payload]
           values == [i \in DOMAIN keys |-> Value(keys[i])]
           result == Evaluate(op, payloads)
<1>1. /\ tasks \in Programs /\ task \in tasks
      /\ \A j \in DOMAIN keys : Ready(keys[j])
      /\ attestation \in Enclave /\ Approved(attestation)
      /\ Len(inputs) = Len(keys)
      /\ inputs \in Seq(Range(inputs)) /\ \A e \in Range(inputs) : Faithful(e)
  BY DEF ExecutionInv, CallShape, EnvelopesFaithful
<1>2. /\ op \in OperationCode /\ keys \in Seq(HandleKey)
      /\ Len(keys) = Arity(op) /\ Len(keys) \in Nat
  BY <1>1, TaskFacts
<1>3. DOMAIN inputs = 1..Arity(op) /\ DOMAIN keys = 1..Arity(op)
  BY <1>1, <1>2
<1>4. ASSUME NEW i \in 1..Arity(op)
      PROVE  /\ payloads[i] \in Payload
             /\ values[i] = Number(payloads[i])
  <2>1. inputs[i].handle_id = keys[i]
    BY <1>3 DEF EnclaveAccepts, VerifyInputAad
  <2>2. Faithful(inputs[i])
    BY <1>1, <1>3 DEF Range
  <2>3. inputs[i].payload = Stored(keys[i]).payload /\ keys[i] \in HandleKey /\ Ready(keys[i])
    BY <2>1, <2>2 DEF Faithful
  <2>4. Stored(keys[i]).payload \in Payload
    BY <2>3 DEF ExecutionInv, CiphertextsBound
  <2>5. payloads[i] = inputs[i].payload /\ values[i] = Value(keys[i])
    BY <1>3
  <2>. QED
    BY <2>3, <2>4, <2>5 DEF Value, Stored
<1> HIDE DEF payloads, values, op
<1>5. result \in Payload /\ Number(result) = Meaning(op, values)
  BY <1>2, <1>4, EvaluateCorrect
<1>6. DecodeReceipt(EncodeReceipt(Receipt(task))) =
        [operation_code |-> op, output_handle_key |-> task.output_handle_key,
         input_handle_keys |-> keys, attestation_digest |-> ApprovedMeasurement]
  <2>1. Receipt(task) =
          [operation_code |-> op, output_handle_key |-> task.output_handle_key,
           input_handle_keys |-> keys, attestation_digest |-> ApprovedMeasurement]
    BY <1>1 DEF Receipt, BuildEnclaveTask, Approved, op
  <2>. QED
    BY <1>2, <2>1, ReceiptRoundTrip
<1>7. /\ Materialized(task).system_ciphertext =
           SystemCiphertext(task.output_handle_key, task.output_handle_type, result)
      /\ Materialized(task).materialization_receipt = EncodeReceipt(Receipt(task))
  BY DEF Materialized, op, payloads
<1>8. /\ Materialized(task).system_ciphertext.handle_id = task.output_handle_key
      /\ Materialized(task).system_ciphertext.type_tag = task.output_handle_type
      /\ Materialized(task).system_ciphertext.payload = result
  BY <1>7 DEF SystemCiphertext
<1> HIDE DEF result
<1>. QED
  BY <1>5, <1>6, <1>7, <1>8 DEF GoodResult, op, values

LEMMA ExecuteInv ==
  ASSUME ExecutionInv, Execute
  PROVE  ExecutionInv'
<1>1. pc = "execute"
  BY DEF Execute
<1>2. CASE EnclaveAccepts(task) /\ EndCall(Materialized(task))
  <2>1. GoodResult(Materialized(task))
    BY <1>1, <1>2, MaterializedIsGood
  <2>. QED
    BY <1>1, <1>2, <2>1, EndCallInv
<1>3. CASE EndCall(Failed("EnclaveExecutionFailure", "refused"))
  <2>1. GoodResult(Failed("EnclaveExecutionFailure", "refused"))
    BY DEF GoodResult, Failed
  <2>. QED
    BY <1>1, <1>3, <2>1, EndCallInv
<1>4. CASE HandleFailure("BackendUnavailable", "EnclaveExecutionFailure")
  BY <1>1, <1>4, HandleFailureInv
<1>. QED
  BY <1>2, <1>3, <1>4 DEF Execute

\* Nothing the host, MPC or the Enclave does, in any order and over any number
\* of calls, breaks the invariant.
THEOREM ExecutionCorrect == Spec => []ExecutionInv
<1>1. Init => ExecutionInv
  BY InitInv
<1>2. ASSUME ExecutionInv, [Next]_vars PROVE ExecutionInv'
  <2>1. ASSUME NEW t \in tasks, Begin(t) PROVE ExecutionInv'
    BY <1>2, <2>1, BeginInv
  <2>2. CASE FetchAttestation
    BY <1>2, <2>2, FetchAttestationInv
  <2>3. CASE TransformInput
    BY <1>2, <2>3, TransformInputInv
  <2>4. CASE Execute
    BY <1>2, <2>4, ExecuteInv
  <2>5. CASE ReplaceEnclave
    BY <1>2, <2>5, ReplaceEnclaveInv
  <2>6. CASE UNCHANGED vars
    <3>1. UNCHANGED <<tasks, states, running, issued, pc, task, attestation, inputs, disturbed>>
      BY <2>6 DEF vars, callVars
    <3>2. \A k : Ready(k)' <=> Ready(k)
      BY <1>2, <3>1, StatesKept
    <3>3. EnvelopesFaithful'
      BY <1>2, <3>1, StatesKept DEF ExecutionInv, EnvelopesFaithful
    <3>4. CallShape'
      BY <1>2, <3>1, <3>2 DEF ExecutionInv, CallShape, Approved
    <3>5. Undisturbed'
      BY <1>2, <3>1 DEF ExecutionInv, Undisturbed, Transformed
    <3>6. running' \in Enclave
      BY <1>2, <3>1 DEF ExecutionInv
    <3>. QED
      BY <1>2, <3>1, <3>3, <3>4, <3>5, <3>6, StatesKept DEF ExecutionInv
  <2>. QED
    BY <1>2, <2>1, <2>2, <2>3, <2>4, <2>5, <2>6 DEF Next, Step
<1>. QED
  BY <1>1, <1>2, PTL DEF Spec

\* A Ready Derived Handle holds the value its operation has on the values of
\* its inputs.
THEOREM ResultsAreCorrect == Spec => []ResultsCorrect
<1>1. ExecutionInv => ResultsCorrect
  BY DEF ExecutionInv
<1>. QED
  BY <1>1, ExecutionCorrect, PTL

\* The receipt of a Ready Derived Handle decodes to its own task and names an
\* approved image.
THEOREM ReceiptsAreTruthful == Spec => []ReceiptTruthful
<1>1. ExecutionInv => ReceiptTruthful
  BY DEF ExecutionInv
<1>. QED
  BY <1>1, ExecutionCorrect, PTL

\* A call has at most as many inputs as its task, and attestation material from
\* the time it fetched it.
THEOREM ExecutionTypeCorrect == Spec => []ExecutionTypeOK
<1>1. ASSUME ExecutionInv PROVE ExecutionTypeOK
  <2>1. running \in Enclave /\ tasks \in Programs /\ CallShape
    BY <1>1 DEF ExecutionInv
  <2>2. pc \in {"idle", "attest", "transform", "execute"} /\ (pc = "idle" <=> task = Absent)
    BY <2>1, TaskFacts DEF CallShape
  <2>3. ASSUME task # Absent
        PROVE  task \in tasks /\ Len(inputs) <= Len(task.input_handle_keys)
    <3>1. task \in tasks
      BY <2>1, <2>3 DEF CallShape
    <3>2. Len(task.input_handle_keys) \in Nat
      BY <2>1, <3>1, TaskFacts
    <3>3. Len(inputs) \in Nat
      BY <1>1 DEF ExecutionInv, EnvelopesFaithful
    <3>4. pc = "attest" => Len(inputs) = 0
      BY <2>1 DEF CallShape
    <3>. QED
      BY <2>1, <2>2, <2>3, <3>1, <3>2, <3>3, <3>4 DEF CallShape
  <2>4. pc \in {"transform", "execute"} <=> attestation # Absent
    <3>1. ASSUME NEW e \in Enclave PROVE e # Absent
      <4>1. "measurement" \in DOMAIN e /\ "measurement" \notin DOMAIN Absent
        BY EnclaveAssumption DEF IsEnclave, Absent
      <4>. QED
        BY <4>1
    <3>. QED
      BY <2>1, <3>1 DEF CallShape
  <2>5. \A k \in HandleKey : states[k].tag = "Ready" =>
          /\ states[k].system_ciphertext.handle_id = k
          /\ states[k].system_ciphertext.payload \in Payload
    BY <1>1 DEF ExecutionInv, CiphertextsBound, Ready, Stored
  <2>. QED
    BY <2>1, <2>2, <2>3, <2>4, <2>5 DEF ExecutionTypeOK
<1>. QED
  BY <1>1, ExecutionCorrect, PTL

(***************************************************************************)
(* Why the Enclave refuses.                                                *)
(***************************************************************************)
\* Undisturbed, a call brings the Enclave what it accepts, but for the request
\* ids MPC bound.
LEMMA UndisturbedIsAccepted ==
  ASSUME ExecutionInv, pc = "execute", ~disturbed, BindsEnclaveTaskId(task)
  PROVE  EnclaveAccepts(task)
<1> DEFINE op == task.operation_code
           out == task.output_handle_type
           keys == task.input_handle_keys
           types == InputTypes(tasks, task)
<1>1. /\ tasks \in Programs /\ task \in tasks
      /\ \A j \in DOMAIN keys : Ready(keys[j])
      /\ Len(inputs) = Len(keys)
      /\ inputs \in Seq(Range(inputs))
      /\ attestation = running
      /\ \A i \in DOMAIN inputs : inputs[i] = Transformed(task, i, attestation)
  BY DEF ExecutionInv, CallShape, EnvelopesFaithful, Undisturbed
<1>2. /\ keys \in Seq(HandleKey)
      /\ EnclaveAcceptsTypes(op, types, out)
      /\ Len(keys) = Arity(op)
      /\ task \in ResolutionTask
  BY <1>1, TaskFacts, ProgramAssumption
<1>3. DOMAIN inputs = DOMAIN keys /\ DOMAIN inputs \subseteq Nat
  BY <1>1, <1>2
<1>4. ASSUME NEW i \in DOMAIN inputs PROVE VerifyInputAad(task, i, InputTypeTags(op, out)[i])
  <2>1. inputs[i] = Transformed(task, i, attestation)
    BY <1>1
  <2>2. inputs[i].request_id = BuildEnclaveTask(task).request_id
    <3>1. inputs[i].request_id = MpcRequestId(task, i)
      BY <2>1 DEF Transformed
    <3>2. MpcRequestId(task, i) = RequestIdForEnclaveTask(task)
      BY <1>3 DEF BindsEnclaveTaskId
    <3>. QED
      BY <3>1, <3>2 DEF BuildEnclaveTask
  <2>3. inputs[i].handle_id = keys[i]
    BY <2>1 DEF Transformed
  <2>4. inputs[i].type_tag = InputTypeTags(op, out)[i]
    <3>1. inputs[i].type_tag = Stored(keys[i]).type_tag
      BY <2>1 DEF Transformed, Stored
    <3>2. keys[i] \in HandleKey /\ Ready(keys[i])
      BY <1>1, <1>2, <1>3
    <3>3. Stored(keys[i]).type_tag = HandleTypeOf(tasks, keys[i])
      BY <3>2 DEF ExecutionInv, CiphertextsBound
    <3>4. types[i] = HandleTypeOf(tasks, keys[i])
      BY <1>3 DEF InputTypes
    <3>5. types = InputTypeTags(op, out)
      BY <1>2 DEF EnclaveAcceptsTypes
    <3>. QED
      BY <3>1, <3>3, <3>4, <3>5
  <2>5. inputs[i].attestation_digest = running.measurement /\ inputs[i].key_id = running.key_id
    BY <1>1, <2>1 DEF Transformed
  <2>. QED
    BY <2>2, <2>3, <2>4, <2>5 DEF VerifyInputAad
<1>5. ValidateInputCount(task) /\ VerifyTaskAttestation(task)
  BY <1>1 DEF ValidateInputCount, VerifyTaskAttestation, BuildEnclaveTask
<1>6. SupportedOperation(op, out) /\ CheckArity(task)
  BY <1>2 DEF EnclaveAcceptsTypes, CheckArity
<1>. QED
  BY <1>4, <1>5, <1>6 DEF EnclaveAccepts

\* In a step that ends no call the handles stay as they are; a failure is
\* stored with its own category and cause.
LEMMA RefusalIsExecution ==
  ASSUME ExecutionInv, [Next]_vars, NEW k \in HandleKey, states'[k] # states[k],
         states'[k] = Failed("EnclaveExecutionFailure", "refused")
  PROVE  pc = "execute" /\ ~EnclaveAccepts(task)
<1> DEFINE refused == Failed("EnclaveExecutionFailure", "refused")
<1>1. /\ refused # Pending
      /\ \A category, cause :
           Failed(category, cause) = refused =>
             category = "EnclaveExecutionFailure" /\ cause = "refused"
      /\ Materialized(task) # refused
  <2>1. refused.tag = "Failed" /\ Pending.tag = "Pending" /\ Materialized(task).tag = "Ready"
    BY DEF Failed, Pending, Materialized
  <2>2. \A category, cause : /\ Failed(category, cause).category = category
                             /\ Failed(category, cause).cause = cause
    BY DEF Failed
  <2> HIDE DEF refused
  <2>3. refused.category = "EnclaveExecutionFailure" /\ refused.cause = "refused"
    BY <2>2 DEF refused
  <2>. QED
    BY <2>1, <2>2, <2>3
<1> HIDE DEF refused
<1>2. ASSUME NEW state, EndCall(state) PROVE state = refused
  <2>1. states' = [states EXCEPT ![task.output_handle_key] = state]
    BY <1>2 DEF EndCall
  <2>2. DOMAIN states = HandleKey
    BY DEF ExecutionInv
  <2>. QED
    BY <2>1, <2>2 DEF refused
<1>3. ASSUME NEW error, NEW category, HandleFailure(error, category)
      PROVE  category = "EnclaveExecutionFailure" /\ ~Retryable(error)
  <2>1. ~EndCall(Pending)
    BY <1>1, <1>2
  <2>2. EndCall(Failed(category, IF Retryable(error) THEN "exhausted" ELSE "refused"))
    BY <1>3, <2>1 DEF HandleFailure
  <2>3. Failed(category, IF Retryable(error) THEN "exhausted" ELSE "refused") = refused
    BY <1>2, <2>2
  <2>4. /\ category = "EnclaveExecutionFailure"
        /\ (IF Retryable(error) THEN "exhausted" ELSE "refused") = "refused"
    BY <1>1, <2>3
  <2>. QED
    BY <2>4
<1>4. CASE UNCHANGED states
  BY <1>4
<1>5. CASE FetchAttestation
  BY <1>3, <1>4, <1>5 DEF FetchAttestation
<1>6. CASE TransformInput
  BY <1>3, <1>4, <1>6 DEF TransformInput, AcceptInput
<1>7. CASE Execute
  <2>1. ~EndCall(Materialized(task))
    BY <1>1, <1>2
  <2>2. ~HandleFailure("BackendUnavailable", "EnclaveExecutionFailure")
    BY <1>3 DEF Retryable
  <2>. QED
    BY <1>7, <2>1, <2>2 DEF Execute
<1>8. CASE \/ \E t \in tasks : Begin(t)
           \/ ReplaceEnclave
           \/ UNCHANGED vars
  BY <1>4, <1>8 DEF Begin, ReplaceEnclave, vars
<1>. QED
  BY <1>5, <1>6, <1>7, <1>8 DEF Next, Step

\* The Enclave refuses a task for good only if it was replaced during the call,
\* MPC answered another request, or MPC bound another request id into an input
\* than the Enclave computes for the task: every other check of the Enclave is
\* met by what the graph, the scheduler and the host did before.
THEOREM RefusalsAreExplained == Spec => RefusalIsExplained
<1>1. ASSUME ExecutionInv, [Next]_vars
      PROVE  [Refusal => disturbed \/ ~BindsEnclaveTaskId(task)]_vars
  <2>1. ASSUME Refusal, ~disturbed, BindsEnclaveTaskId(task)
        PROVE  FALSE
    <3>1. PICK k \in HandleKey :
            states'[k] # states[k] /\ states'[k] = Failed("EnclaveExecutionFailure", "refused")
      BY <2>1 DEF Refusal
    <3>2. pc = "execute" /\ ~EnclaveAccepts(task)
      BY <1>1, <3>1, RefusalIsExecution
    <3>. QED
      BY <1>1, <2>1, <3>2, UndisturbedIsAccepted
  <2>. QED
    BY <2>1
<1>. QED
  BY <1>1, ExecutionCorrect, PTL DEF Spec, RefusalIsExplained

(***************************************************************************)
(* What becomes of the host's tasks if MPC binds the id of the request it  *)
(* answers, which is the only id the host sends it.                        *)
(***************************************************************************)
BindsItsRequestId ==
  \A t \in ResolutionTask, i \in Nat : MpcRequestId(t, i) = RequestIdForTaskInput(t, i)

\* No Derived Handle becomes Ready.
NothingMaterializes == \A t \in tasks : ~Ready(t.output_handle_key)

\* An envelope that answers a request of the host.
AnswersRequest(envelope) == envelope.request_id[1] = "resolution-task-input"

EchoInv ==
  /\ ExecutionInv
  /\ \A e \in Range(issued) \cup Range(inputs) : AnswersRequest(e)
  /\ NothingMaterializes

\* The Enclave accepts no input that carries the id of a request to MPC.
LEMMA EchoIsRefused ==
  ASSUME EchoInv, pc = "execute"
  PROVE  ~EnclaveAccepts(task)
<1>1. /\ tasks \in Programs /\ task \in tasks
      /\ Len(inputs) = Len(task.input_handle_keys)
      /\ inputs \in Seq(Range(inputs))
  BY DEF EchoInv, ExecutionInv, CallShape, EnvelopesFaithful
<1>2. Len(task.input_handle_keys) \in Nat \ {0}
  BY <1>1, TaskFacts
<1>3. 1 \in DOMAIN inputs
  BY <1>1, <1>2
<1>4. AnswersRequest(inputs[1])
  BY <1>3 DEF EchoInv, Range
<1>5. RequestIdForEnclaveTask(task)[1] = "enclave-task"
  BY DEF RequestIdForEnclaveTask
<1>. QED
  BY <1>3, <1>4, <1>5 DEF AnswersRequest, EnclaveAccepts, VerifyInputAad, BuildEnclaveTask

\* An exit that stores no result.
LEMMA EndCallEcho ==
  ASSUME EchoInv, ExecutionInv', NEW state, EndCall(state), state.tag # "Ready"
  PROVE  EchoInv'
<1>1. /\ tasks' = tasks /\ issued' = issued /\ inputs' = <<>>
      /\ states' = [states EXCEPT ![task.output_handle_key] = state]
  BY DEF EndCall
<1>2. Range(inputs') = {}
  BY <1>1 DEF Range
<1>3. DOMAIN states = HandleKey
  BY DEF EchoInv, ExecutionInv
<1>4. ASSUME NEW t \in tasks PROVE states'[t.output_handle_key].tag # "Ready"
  <2>1. t.output_handle_key \in HandleKey /\ states[t.output_handle_key].tag # "Ready"
    BY TaskFacts DEF EchoInv, ExecutionInv, NothingMaterializes, Ready
  <2>. QED
    BY <1>1, <1>3, <2>1
<1>5. NothingMaterializes'
  BY <1>1, <1>4 DEF NothingMaterializes, Ready
<1>6. \A e \in Range(issued)' \cup Range(inputs)' : AnswersRequest(e)'
  BY <1>1, <1>2 DEF EchoInv, AnswersRequest
<1>. QED
  BY <1>5, <1>6 DEF EchoInv

\* An input is accepted: MPC's answers stay answers.
LEMMA AcceptInputEcho ==
  ASSUME EchoInv, ExecutionInv', NEW envelope, AnswersRequest(envelope), AcceptInput(envelope),
         Issue(envelope) \/ issued' = issued
  PROVE  EchoInv'
<1>1. /\ inputs \in Seq(Range(inputs)) /\ issued \in Seq(Range(issued))
      /\ inputs' = Append(inputs, envelope) /\ tasks' = tasks /\ states' = states
  BY DEF EchoInv, ExecutionInv, EnvelopesFaithful, AcceptInput
<1>2. Range(inputs') \subseteq Range(inputs) \cup {envelope}
  BY <1>1, AppendFacts
<1>3. Range(issued') \subseteq Range(issued) \cup {envelope}
  <2> DEFINE all == Append(issued, envelope)
  <2>1. all \in Seq(Range(all)) /\ Range(all) \subseteq Range(issued) \cup {envelope} /\ all # <<>>
    BY <1>1, AppendFacts
  <2>2. issued' = issued \/ issued' = all \/ issued' = Tail(all)
    BY DEF Issue
  <2> HIDE DEF all
  <2>3. Range(Tail(all)) \subseteq Range(all)
    BY <2>1, TailFacts
  <2>. QED
    BY <2>1, <2>2, <2>3
<1>4. \A e \in Range(issued)' \cup Range(inputs)' : AnswersRequest(e)'
  BY <1>2, <1>3 DEF EchoInv, AnswersRequest
<1>5. NothingMaterializes'
  BY <1>1 DEF EchoInv, NothingMaterializes, Ready
<1>. QED
  BY <1>4, <1>5 DEF EchoInv

\* What HandleFailure stores is no result.
LEMMA HandleFailureEcho ==
  ASSUME EchoInv, ExecutionInv', NEW error, NEW category, HandleFailure(error, category)
  PROVE  EchoInv'
<1> DEFINE failure == Failed(category, IF Retryable(error) THEN "exhausted" ELSE "refused")
<1>1. Pending.tag # "Ready" /\ failure.tag # "Ready"
  BY DEF Pending, Failed
<1>2. EndCall(Pending) \/ EndCall(failure)
  BY DEF HandleFailure
<1> HIDE DEF failure
<1>. QED
  BY <1>1, <1>2, EndCallEcho

\* The host's pair of request ids (to_enclave_transformation.rs:147,
\* resolve_enclave.rs:338) is at odds with the Enclave's check
\* (validation.rs:75): if MPC answers with the id it was asked under, no task
\* is ever materialized, with whatever programs, Enclaves and late answers.
THEOREM EchoedIdsAreRefused ==
  ASSUME BindsItsRequestId
  PROVE  Spec => []NothingMaterializes
<1>1. Init => EchoInv
  <2>1. SUFFICES ASSUME Init PROVE EchoInv
    OBVIOUS
  <2>2. ExecutionInv
    BY <2>1, InitInv
  <2>3. Range(issued) = {} /\ Range(inputs) = {}
    BY <2>1 DEF Init, Range
  <2>4. ASSUME NEW t \in tasks PROVE ~Ready(t.output_handle_key)
    <3>1. t.output_handle_key \in HandleKey \ DOMAIN Sources
      BY <2>2, TaskFacts DEF ExecutionInv
    <3>2. states[t.output_handle_key] = Pending
      BY <2>1, <3>1 DEF Init
    <3>. QED
      BY <3>2 DEF Ready, Pending
  <2>. QED
    BY <2>2, <2>3, <2>4 DEF EchoInv, NothingMaterializes
<1>2. ASSUME EchoInv, ExecutionInv', [Next]_vars PROVE EchoInv'
  <2>1. CASE UNCHANGED <<tasks, states, issued, inputs>>
    BY <1>2, <2>1 DEF EchoInv, NothingMaterializes, AnswersRequest, Ready
  <2>2. CASE FetchAttestation
    BY <1>2, <2>1, <2>2, HandleFailureEcho DEF FetchAttestation
  <2>3. CASE TransformInput
    <3> DEFINE envelope == Transformed(task, Len(inputs) + 1, PinnedAttestation)
    <3>1. AnswersRequest(envelope)
      <4>1. /\ tasks \in Programs /\ task \in tasks
            /\ inputs \in Seq(Range(inputs))
        BY <1>2, <2>3 DEF TransformInput, EchoInv, ExecutionInv, CallShape, EnvelopesFaithful
      <4>2. task \in ResolutionTask /\ Len(inputs) + 1 \in Nat
        BY <4>1, ProgramAssumption
      <4>3. envelope.request_id = RequestIdForTaskInput(task, Len(inputs) + 1)
        BY <4>2 DEF BindsItsRequestId, Transformed
      <4>4. RequestIdForTaskInput(task, Len(inputs) + 1)[1] = "resolution-task-input"
        BY DEF RequestIdForTaskInput
      <4>. QED
        BY <4>3, <4>4 DEF AnswersRequest
    <3>2. \A late \in Range(issued) : AnswersRequest(late)
      BY <1>2 DEF EchoInv
    <3>3. \/ AcceptInput(envelope) /\ Issue(envelope)
          \/ \E late \in Range(issued) : AcceptInput(late) /\ issued' = issued
          \/ \E error \in TransformError : HandleFailure(error, "MpcTransformationFailure")
      BY <2>3 DEF TransformInput
    <3> HIDE DEF envelope
    <3>. QED
      BY <1>2, <3>1, <3>2, <3>3, AcceptInputEcho, HandleFailureEcho
  <2>4. CASE Execute
    <3>1. ~EnclaveAccepts(task)
      BY <1>2, <2>4, EchoIsRefused DEF Execute
    <3>2. Failed("EnclaveExecutionFailure", "refused").tag # "Ready"
      BY DEF Failed
    <3>. QED
      BY <1>2, <2>4, <3>1, <3>2, EndCallEcho, HandleFailureEcho DEF Execute
  <2>5. CASE \/ \E t \in tasks : Begin(t)
             \/ ReplaceEnclave
             \/ UNCHANGED vars
    BY <2>1, <2>5 DEF Begin, ReplaceEnclave, vars, callVars
  <2>. QED
    BY <1>2, <2>2, <2>3, <2>4, <2>5 DEF Next, Step
<1>3. EchoInv => NothingMaterializes
  BY DEF EchoInv
<1>. QED
  BY <1>1, <1>2, <1>3, ExecutionCorrect, PTL DEF Spec
=============================================================================
