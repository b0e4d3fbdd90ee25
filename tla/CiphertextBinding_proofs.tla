----------------------- MODULE CiphertextBinding_proofs -----------------------
(***************************************************************************)
(* Decoding is the exact inverse of encoding, for all widths of headers,   *)
(* lengths of fields and bytes: numbers, headers, fields, lists of fields, *)
(* AAD and envelopes, each read from its own encoding only, and read back  *)
(* from it.                                                                *)
(***************************************************************************)
EXTENDS CiphertextBinding, WellFoundedInduction, SequenceTheorems, TLAPS

(***************************************************************************)
(* Induction on natural numbers, stated with sets.                         *)
(***************************************************************************)
\* A set of naturals that is not empty has a least element.
LEMMA LeastNatural ==
  ASSUME NEW T \in SUBSET Nat, T # {}
  PROVE  \E x \in T : \A y \in T : x <= y
<1> DEFINE R == OpToRel(<, Nat)
<1>1. IsWellFoundedOn(R, Nat)
  BY NatLessThanWellFounded
<1>2. \A x, y \in Nat : x < y => <<x, y>> \in R
  BY DEF OpToRel
<1> HIDE DEF R
<1>3. PICK x \in T : \A y \in T : <<y, x>> \notin R
  BY <1>1, WFMin
<1>4. ASSUME NEW y \in T PROVE x <= y
  <2>1. <<y, x>> \notin R
    BY <1>3
  <2>2. x \in Nat /\ y \in Nat /\ ~(y < x)
    BY <1>2, <2>1
  <2>. QED
    BY <2>2
<1>. QED
  BY <1>4

\* Induction up to a bound.
LEMMA BoundedInduction ==
  ASSUME NEW n \in Nat, NEW T \in SUBSET (0..n), 0 \in T,
         \A m \in T : m < n => m + 1 \in T
  PROVE  T = 0..n
<1> SUFFICES ASSUME (0..n) \ T # {} PROVE FALSE
  OBVIOUS
<1>1. PICK x \in (0..n) \ T : \A y \in (0..n) \ T : x <= y
  <2> DEFINE U == (0..n) \ T
  <2>1. U \in SUBSET Nat /\ U # {}
    OBVIOUS
  <2> HIDE DEF U
  <2>2. \E x \in U : \A y \in U : x <= y
    BY <2>1, LeastNatural
  <2>. QED
    BY <2>2 DEF U
<1>2. x # 0 /\ x - 1 \in 0..n /\ x - 1 \in T
  BY <1>1
<1>. QED
  BY <1>1, <1>2

\* A function that is natural at zero and stays so is so up to the bound.
LEMMA BoundedType ==
  ASSUME NEW n \in Nat, NEW f, f[0] \in Nat,
         \A i \in 1..n : f[i - 1] \in Nat => f[i] \in Nat
  PROVE  \A i \in 0..n : f[i] \in Nat
<1> DEFINE T == {i \in 0..n : f[i] \in Nat}
<1>1. 0 \in T
  OBVIOUS
<1>2. ASSUME NEW m \in T, m < n PROVE m + 1 \in T
  <2>1. m + 1 \in 1..n /\ (m + 1) - 1 = m
    BY <1>2
  <2>. QED
    BY <2>1
<1> HIDE DEF T
<1>3. T = 0..n
  <2>1. T \in SUBSET (0..n)
    BY DEF T
  <2>. QED
    BY <1>1, <1>2, <2>1, BoundedInduction
<1>. QED
  BY <1>3 DEF T

\* A sequence of naturals may be defined by recursion.
LEMMA BoundedRecursion ==
  ASSUME NEW n \in Nat, NEW s \in Nat, NEW step \in [1..n -> [Nat -> Nat]]
  PROVE  \E f \in [0..n -> Nat] : /\ f[0] = s
                                  /\ \A i \in 1..n : f[i] = step[i][f[i - 1]]
<1> DEFINE next(x, i) == step[i][x]
           Solves(f, m) == f = [i \in 0..m |-> IF i = 0 THEN s ELSE next(f[i - 1], i)]
           Solvable(m) == \E f : Solves(f, m)
           T == {m \in 0..n : Solvable(m)}
<1> HIDE DEF next
<1>2. Solvable(0)
  <2> DEFINE f == [i \in 0..0 |-> s]
  <2>1. Solves(f, 0)
    OBVIOUS
  <2>. QED
    BY <2>1
<1>3. ASSUME NEW m \in T, m < n PROVE Solvable(m + 1)
  <2>1. PICK f : Solves(f, m)
    OBVIOUS
  <2> DEFINE g == [i \in 0..(m + 1) |-> IF i = m + 1 THEN next(f[m], m + 1) ELSE f[i]]
  <2>2. Solves(g, m + 1)
    <3>1. m \in Nat
      OBVIOUS
    <3>2. ASSUME NEW i \in 0..(m + 1)
          PROVE  g[i] = IF i = 0 THEN s ELSE next(g[i - 1], i)
      <4>1. CASE i = m + 1
        BY <3>1, <4>1
      <4>2. CASE i # m + 1
        <5>1. g[i] = f[i] /\ (i # 0 => g[i - 1] = f[i - 1])
          BY <3>1, <4>2
        <5>2. i \in 0..m
          BY <3>1, <4>2
        <5>3. f[i] = IF i = 0 THEN s ELSE next(f[i - 1], i)
          BY <2>1, <5>2
        <5>. QED
          BY <5>1, <5>3
      <4>. QED
        BY <4>1, <4>2
    <3>. QED
      BY <3>2
  <2>. QED
    BY <2>2
<1> HIDE DEF Solvable
<1>4. n \in T
  <2>1. T \in SUBSET (0..n) /\ 0 \in T
    BY <1>2
  <2>2. \A m \in T : m < n => m + 1 \in T
    BY <1>3
  <2> HIDE DEF T
  <2>3. T = 0..n
    BY <2>1, <2>2, BoundedInduction
  <2>. QED
    BY <2>3
<1>5. PICK f : Solves(f, n)
  BY <1>4 DEF Solvable
<1>6. f[0] = s
  BY <1>5, 0 \in 0..n
<1>7. ASSUME NEW i \in 1..n PROVE f[i] = next(f[i - 1], i)
  <2>1. i \in 0..n /\ i # 0
    OBVIOUS
  <2>. QED
    BY <1>5, <2>1
<1>8. f \in [0..n -> Nat]
  <2>1. ASSUME NEW i \in 1..n, NEW x \in Nat PROVE next(x, i) \in Nat
    BY DEF next
  <2>2. \A i \in 0..n : f[i] \in Nat
    BY <1>6, <1>7, <2>1, BoundedType
  <2>. QED
    BY <1>5, <2>2
<1>. QED
  BY <1>6, <1>7, <1>8 DEF next

(***************************************************************************)
(* Numbers and their bytes.                                                *)
(***************************************************************************)
\* Division with remainder.
LEMMA DivMod ==
  ASSUME NEW m \in Nat \ {0}, NEW a \in Nat
  PROVE  /\ a \div m \in Nat
         /\ a % m \in 0..(m - 1)
         /\ a = m * (a \div m) + (a % m)
OBVIOUS

LEMMA DivModUnique ==
  ASSUME NEW m \in Nat \ {0}, NEW q \in Nat, NEW r \in 0..(m - 1)
  PROVE  (m * q + r) \div m = q /\ (m * q + r) % m = r
<1> DEFINE a == m * q + r
           p == a \div m
           t == a % m
<1>1. a \in Nat
  OBVIOUS
<1>2. p \in Nat /\ t \in 0..(m - 1) /\ a = m * p + t
  BY <1>1, DivMod
<1>3. ~(p < q)
  <2>. SUFFICES ASSUME p < q PROVE FALSE
    OBVIOUS
  <2>1. m * q >= m * p + m
    <3> HIDE DEF p
    <3>. QED
      BY <1>2
  <2>. QED
    BY <1>2, <2>1
<1>4. ~(q < p)
  <2>. SUFFICES ASSUME q < p PROVE FALSE
    OBVIOUS
  <2>1. m * p >= m * q + m
    <3> HIDE DEF p
    <3>. QED
      BY <1>2
  <2>. QED
    BY <1>2, <2>1
<1>5. p = q
  <2> HIDE DEF p
  <2>. QED
    BY <1>2, <1>3, <1>4
<1>6. t = r
  <2> HIDE DEF p, t
  <2>. QED
    BY <1>2, <1>5 DEF a
<1>. QED
  BY <1>5, <1>6

LEMMA BaseFacts ==
  /\ Base \in Nat \ {0} /\ InfoBase \in Nat \ {0} /\ InlineEnd \in Nat
  /\ InlineEnd < Base
  /\ Len(Width) \in Nat \ {0} /\ DOMAIN Width = 1..Len(Width)
  /\ \A i \in DOMAIN Width : Width[i] \in 1..MaxWidth
  /\ MaxWidth \in Nat \ {0}
<1>1. Len(Width) \in Nat \ {0} /\ DOMAIN Width = 1..Len(Width)
  BY CodecAssumption, EmptySeq, LenProperties
<1>2. \A i \in DOMAIN Width : Width[i] \in Nat \ {0}
  BY <1>1, CodecAssumption, ElementOfSeq
<1>3. \A i \in DOMAIN Width : i <= Len(Width) /\ Len(Width) \in DOMAIN Width
  BY <1>1
<1>4. \A i \in DOMAIN Width : Width[i] <= MaxWidth
  BY <1>3, CodecAssumption DEF MaxWidth
<1>5. MaxWidth \in Nat \ {0}
  BY <1>1, <1>2, <1>3 DEF MaxWidth
<1>6. InlineEnd < Base /\ Base # 0 /\ InfoBase # 0
  BY <1>1, CodecAssumption
<1>. QED
  BY <1>1, <1>2, <1>4, <1>5, <1>6, CodecAssumption

LEMMA PowersUnfold ==
  /\ \A w \in 0..MaxWidth : Powers[w] \in Nat \ {0}
  /\ Powers[0] = 1
  /\ \A w \in 1..MaxWidth : Powers[w] = Base * Powers[w - 1]
<1> DEFINE step == [i \in 1..MaxWidth |-> [x \in Nat |-> Base * x]]
           Solves(f) == f = [w \in 0..MaxWidth |-> IF w = 0 THEN 1 ELSE Base * f[w - 1]]
<1>1. \E f : Solves(f) /\ \A w \in 0..MaxWidth : f[w] \in Nat
  <2>1. \A x \in Nat : Base * x \in Nat
    BY BaseFacts
  <2>2. step \in [1..MaxWidth -> [Nat -> Nat]]
    BY <2>1
  <2>3. \A i \in 1..MaxWidth, x \in Nat : step[i][x] = Base * x
    OBVIOUS
  <2> HIDE DEF step
  <2>4. PICK f \in [0..MaxWidth -> Nat] :
          f[0] = 1 /\ \A i \in 1..MaxWidth : f[i] = step[i][f[i - 1]]
    <3>1. MaxWidth \in Nat /\ 1 \in Nat
      BY BaseFacts
    <3>. QED
      BY <2>2, <3>1, BoundedRecursion
  <2>5. ASSUME NEW i \in 0..MaxWidth
        PROVE  f[i] = IF i = 0 THEN 1 ELSE Base * f[i - 1]
    <3>1. i # 0 => i \in 1..MaxWidth /\ f[i - 1] \in Nat
      BY <2>4, BaseFacts
    <3>. QED
      BY <2>3, <2>4, <3>1
  <2>6. Solves(f)
    BY <2>4, <2>5
  <2>. QED
    BY <2>4, <2>6
<1>2. Powers = CHOOSE f : Solves(f)
  BY DEF Powers
<1>3. Solves(Powers)
  <2> HIDE DEF Solves
  <2>. QED
    BY <1>1, <1>2
<1>4. Powers[0] = 1
  BY <1>3, BaseFacts
<1>5. \A w \in 1..MaxWidth : Powers[w] = Base * Powers[w - 1]
  BY <1>3, BaseFacts
<1>6. \A w \in 0..MaxWidth : Powers[w] \in Nat \ {0}
  <2> DEFINE T == {w \in 0..MaxWidth : Powers[w] \in Nat \ {0}}
  <2>1. T \in SUBSET (0..MaxWidth) /\ 0 \in T
    BY <1>4, BaseFacts
  <2>2. ASSUME NEW w \in T, w < MaxWidth PROVE w + 1 \in T
    <3>1. w + 1 \in 1..MaxWidth /\ (w + 1) - 1 = w /\ Powers[w] \in Nat \ {0}
      BY <2>2, BaseFacts
    <3>2. Powers[w + 1] = Base * Powers[w]
      BY <1>5, <3>1
    <3>3. \A x, y \in Nat \ {0} : x * y \in Nat \ {0}
      OBVIOUS
    <3>4. Powers[w + 1] \in Nat \ {0}
      BY <3>1, <3>2, <3>3, BaseFacts
    <3>. QED
      BY <3>1, <3>4
  <2> HIDE DEF T
  <2>3. T = 0..MaxWidth
    BY <2>1, <2>2, BaseFacts, BoundedInduction
  <2>. QED
    BY <2>3 DEF T
<1>. QED
  BY <1>4, <1>5, <1>6

LEMMA FromBigEndianUnfold ==
  ASSUME NEW s \in ByteString
  PROVE  \E p \in [0..Len(s) -> Nat] :
           /\ p[0] = 0
           /\ \A i \in 1..Len(s) : p[i] = Base * p[i - 1] + s[i]
           /\ FromBigEndian(s) = p[Len(s)]
<1> DEFINE n == Len(s)
           step == [i \in 1..n |-> [x \in Nat |-> Base * x + s[i]]]
           Solves(f) == f = [i \in 0..n |-> IF i = 0 THEN 0 ELSE Base * f[i - 1] + s[i]]
<1>1. n \in Nat /\ \A i \in 1..n : s[i] \in Nat
  BY LenProperties, ElementOfSeq, BaseFacts DEF ByteString
<1>2. FromBigEndian(s) = (CHOOSE f : Solves(f))[n]
  BY DEF FromBigEndian
<1> HIDE DEF n
<1>3. \E f : Solves(f)
  <2>1. \A i \in 1..n, x \in Nat : Base * x + s[i] \in Nat
    BY <1>1, BaseFacts
  <2>2. step \in [1..n -> [Nat -> Nat]]
    BY <2>1
  <2>3. \A i \in 1..n, x \in Nat : step[i][x] = Base * x + s[i]
    OBVIOUS
  <2> HIDE DEF step
  <2>4. PICK f \in [0..n -> Nat] :
          f[0] = 0 /\ \A i \in 1..n : f[i] = step[i][f[i - 1]]
    BY <1>1, <2>2, 0 \in Nat, BoundedRecursion
  <2>5. ASSUME NEW i \in 0..n
        PROVE  f[i] = IF i = 0 THEN 0 ELSE Base * f[i - 1] + s[i]
    <3>1. i # 0 => i \in 1..n /\ f[i - 1] \in Nat
      BY <1>1, <2>4
    <3>. QED
      BY <2>3, <2>4, <3>1
  <2>6. Solves(f)
    BY <2>4, <2>5
  <2>. QED
    BY <2>6
<1>4. PICK p : Solves(p) /\ FromBigEndian(s) = p[n]
  <2> HIDE DEF Solves
  <2>. QED
    BY <1>2, <1>3
<1>5. p[0] = 0 /\ \A i \in 1..n : p[i] = Base * p[i - 1] + s[i]
  BY <1>1, <1>4
<1>6. \A i \in 0..n : p[i] \in Nat
  <2>1. \A i \in 1..n, x \in Nat : Base * x + s[i] \in Nat
    BY <1>1, BaseFacts
  <2>2. p[0] \in Nat /\ \A i \in 1..n : p[i - 1] \in Nat => p[i] \in Nat
    BY <1>5, <2>1
  <2>. QED
    BY <1>1, <2>2, BoundedType
<1>7. p \in [0..n -> Nat]
  BY <1>4, <1>6
<1>. QED
  BY <1>4, <1>5, <1>7 DEF n

LEMMA BigEndianUnfold ==
  ASSUME NEW n \in Nat, NEW w \in Nat
  PROVE  \E q \in [0..w -> Nat] :
           /\ q[0] = n
           /\ \A i \in 1..w : q[i] = q[i - 1] \div Base
           /\ \A i \in 1..w : BigEndian(n, w)[i] = q[w - i] % Base
<1> DEFINE step == [i \in 1..w |-> [x \in Nat |-> x \div Base]]
           Solves(f) == f = [i \in 0..w |-> IF i = 0 THEN n ELSE f[i - 1] \div Base]
           Bytes(f) == [i \in 1..w |-> f[w - i] % Base]
<1>1. BigEndian(n, w) = Bytes(CHOOSE f : Solves(f))
  BY DEF BigEndian
<1>2. \A x \in Nat : x \div Base \in Nat
  BY BaseFacts, DivMod
<1>3. \E f : Solves(f)
  <2>1. step \in [1..w -> [Nat -> Nat]]
    BY <1>2
  <2>2. \A i \in 1..w, x \in Nat : step[i][x] = x \div Base
    OBVIOUS
  <2> HIDE DEF step
  <2>3. PICK f \in [0..w -> Nat] :
          f[0] = n /\ \A i \in 1..w : f[i] = step[i][f[i - 1]]
    BY <2>1, BoundedRecursion
  <2>4. ASSUME NEW i \in 0..w
        PROVE  f[i] = IF i = 0 THEN n ELSE f[i - 1] \div Base
    <3>1. i # 0 => i \in 1..w /\ f[i - 1] \in Nat
      BY <2>3
    <3>. QED
      BY <2>2, <2>3, <3>1
  <2>5. Solves(f)
    BY <2>3, <2>4
  <2>. QED
    BY <2>5
<1>4. PICK q : Solves(q) /\ BigEndian(n, w) = Bytes(q)
  <2> HIDE DEF Solves, Bytes
  <2>. QED
    BY <1>1, <1>3
<1>5. q[0] = n /\ \A i \in 1..w : q[i] = q[i - 1] \div Base
  BY <1>4
<1>6. \A i \in 0..w : q[i] \in Nat
  <2>1. q[0] \in Nat /\ \A i \in 1..w : q[i - 1] \in Nat => q[i] \in Nat
    BY <1>2, <1>5
  <2>. QED
    BY <2>1, BoundedType
<1>7. q \in [0..w -> Nat]
  BY <1>4, <1>6
<1>. QED
  BY <1>4, <1>5, <1>7

\* As many bytes as asked for.
LEMMA BigEndianType ==
  ASSUME NEW n \in Nat, NEW w \in Nat
  PROVE  /\ BigEndian(n, w) \in ByteString
         /\ Len(BigEndian(n, w)) = w
<1>1. PICK q \in [0..w -> Nat] : \A i \in 1..w : BigEndian(n, w)[i] = q[w - i] % Base
  BY BigEndianUnfold
<1>2. ASSUME NEW i \in 1..w PROVE BigEndian(n, w)[i] \in 0..(Base - 1)
  <2>1. q[w - i] \in Nat
    OBVIOUS
  <2>. QED
    BY <1>1, <2>1, BaseFacts, DivMod
<1>3. DOMAIN BigEndian(n, w) = 1..w
  BY DEF BigEndian
<1>4. BigEndian(n, w) = [i \in 1..w |-> BigEndian(n, w)[i]]
  BY DEF BigEndian
<1>5. BigEndian(n, w) \in [1..w -> 0..(Base - 1)]
  BY <1>2, <1>4
<1>6. BigEndian(n, w) \in ByteString
  BY <1>5, SeqDef DEF ByteString
<1>7. Len(BigEndian(n, w)) = w
  BY <1>3, <1>6, LenProperties DEF ByteString
<1>. QED
  BY <1>6, <1>7

\* A number that fits is read back.
LEMMA FromBigEndianInverse ==
  ASSUME NEW n \in Nat, NEW w \in 0..MaxWidth, n < Powers[w]
  PROVE  FromBigEndian(BigEndian(n, w)) = n
<1> DEFINE s == BigEndian(n, w)
<1>1. w \in Nat
  BY BaseFacts
<1>2. s \in ByteString /\ Len(s) = w
  BY <1>1, BigEndianType
<1>3. PICK q \in [0..w -> Nat] : /\ q[0] = n
                                 /\ \A i \in 1..w : q[i] = q[i - 1] \div Base
                                 /\ \A i \in 1..w : s[i] = q[w - i] % Base
  BY <1>1, BigEndianUnfold
<1> HIDE DEF s
<1>4. PICK p \in [0..w -> Nat] : /\ p[0] = 0
                                 /\ \A i \in 1..w : p[i] = Base * p[i - 1] + s[i]
                                 /\ FromBigEndian(s) = p[w]
  BY <1>2, FromBigEndianUnfold
<1>5. q[w] = 0
  <2> DEFINE T == {i \in 0..w : q[i] < Powers[w - i]}
  <2>1. T \in SUBSET (0..w) /\ 0 \in T
    BY <1>1, <1>3
  <2>2. ASSUME NEW i \in T, i < w PROVE i + 1 \in T
    <3> DEFINE x == q[i]
               d == x \div Base
               r == x % Base
               y == Powers[w - (i + 1)]
    <3>1. /\ i + 1 \in 1..w /\ i + 1 \in 0..w /\ (i + 1) - 1 = i /\ x \in Nat
          /\ w - i \in 1..MaxWidth /\ (w - i) - 1 = w - (i + 1)
          /\ w - (i + 1) \in 0..MaxWidth
      BY <1>1, <2>2, BaseFacts
    <3>2. Powers[w - i] = Base * y /\ y \in Nat
      BY <3>1, PowersUnfold
    <3>3. x < Base * y
      BY <3>2
    <3>4. q[i + 1] = d
      BY <1>3, <3>1
    <3>5. d \in Nat /\ r \in 0..(Base - 1) /\ x = Base * d + r
      BY <3>1, BaseFacts, DivMod
    <3> HIDE DEF x, y, d, r
    <3>6. d < y
      <4>. SUFFICES ASSUME y <= d PROVE FALSE
        BY <3>2, <3>5
      <4>1. Base * y <= Base * d
        BY <3>2, <3>5, BaseFacts
      <4>2. Base * y \in Nat /\ Base * d \in Nat
        BY <3>2, <3>5, BaseFacts
      <4>. QED
        BY <3>3, <3>5, <4>1, <4>2
    <3>. QED
      BY <3>1, <3>4, <3>6 DEF y
  <2> HIDE DEF T
  <2>3. T = 0..w
    BY <1>1, <2>1, <2>2, BoundedInduction
  <2>4. w \in T
    BY <1>1, <2>3
  <2>5. q[w] < Powers[0] /\ q[w] \in Nat
    BY <1>1, <2>4 DEF T
  <2>. QED
    BY <2>5, PowersUnfold
<1>6. p[w] = q[0]
  <2> DEFINE T == {i \in 0..w : p[i] = q[w - i]}
  <2>1. T \in SUBSET (0..w) /\ 0 \in T
    BY <1>1, <1>4, <1>5
  <2>2. ASSUME NEW i \in T, i < w PROVE i + 1 \in T
    <3> DEFINE x == q[w - (i + 1)]
    <3>1. /\ i + 1 \in 1..w /\ (i + 1) - 1 = i /\ w - i \in 1..w
          /\ (w - i) - 1 = w - (i + 1) /\ w - (i + 1) \in 0..w
      BY <1>1, <2>2
    <3>2. s[i + 1] = x % Base
      BY <1>3, <3>1
    <3>3. p[i] = x \div Base
      BY <1>3, <3>1
    <3>4. x \in Nat
      BY <3>1
    <3>5. x = Base * (x \div Base) + (x % Base)
      BY <3>4, BaseFacts, DivMod
    <3>6. p[i + 1] = Base * p[i] + s[i + 1]
      BY <1>4, <3>1
    <3>. QED
      BY <3>1, <3>2, <3>3, <3>5, <3>6
  <2> HIDE DEF T
  <2>3. T = 0..w
    BY <1>1, <2>1, <2>2, BoundedInduction
  <2>4. w \in T
    BY <1>1, <2>3
  <2>. QED
    BY <1>1, <2>4 DEF T
<1>7. FromBigEndian(s) = n
  BY <1>3, <1>4, <1>6
<1>. QED
  BY <1>7 DEF s

\* What is read fits, and is written as it was read.
LEMMA BigEndianInverse ==
  ASSUME NEW s \in ByteString
  PROVE  /\ FromBigEndian(s) \in Nat
         /\ BigEndian(FromBigEndian(s), Len(s)) = s
         /\ Len(s) <= MaxWidth => FromBigEndian(s) < Powers[Len(s)]
<1> DEFINE w == Len(s)
           n == FromBigEndian(s)
<1>1. w \in Nat /\ \A i \in 1..w : s[i] \in 0..(Base - 1)
  BY LenProperties, ElementOfSeq DEF ByteString
<1>2. PICK p \in [0..w -> Nat] : /\ p[0] = 0
                                 /\ \A i \in 1..w : p[i] = Base * p[i - 1] + s[i]
                                 /\ n = p[w]
  BY FromBigEndianUnfold
<1> HIDE DEF w, n
<1>3. n \in Nat
  <2>1. w \in 0..w
    BY <1>1
  <2>. QED
    BY <1>2, <2>1
<1>4. BigEndian(n, w) \in ByteString /\ Len(BigEndian(n, w)) = w
  BY <1>1, <1>3, BigEndianType
<1>5. PICK q \in [0..w -> Nat] : /\ q[0] = n
                                 /\ \A i \in 1..w : q[i] = q[i - 1] \div Base
                                 /\ \A i \in 1..w : BigEndian(n, w)[i] = q[w - i] % Base
  BY <1>1, <1>3, BigEndianUnfold
<1>6. ASSUME NEW i \in 1..w
      PROVE  p[i] \div Base = p[i - 1] /\ p[i] % Base = s[i]
  <2>1. p[i - 1] \in Nat /\ s[i] \in 0..(Base - 1)
    BY <1>1
  <2>2. \A x \in Nat, d \in 0..(Base - 1) :
          (Base * x + d) \div Base = x /\ (Base * x + d) % Base = d
    BY BaseFacts, DivModUnique
  <2>. QED
    BY <1>2, <2>1, <2>2
<1>7. \A i \in 0..w : q[i] = p[w - i]
  <2> DEFINE T == {i \in 0..w : q[i] = p[w - i]}
  <2>1. T \in SUBSET (0..w) /\ 0 \in T
    BY <1>1, <1>2, <1>5
  <2>2. ASSUME NEW i \in T, i < w PROVE i + 1 \in T
    <3>1. /\ i + 1 \in 1..w /\ (i + 1) - 1 = i /\ w - i \in 1..w
          /\ (w - i) - 1 = w - (i + 1)
      BY <1>1, <2>2
    <3>. QED
      BY <1>5, <1>6, <3>1
  <2> HIDE DEF T
  <2>3. T = 0..w
    BY <1>1, <2>1, <2>2, BoundedInduction
  <2>. QED
    BY <2>3 DEF T
<1>8. BigEndian(n, w) = s
  <2>1. ASSUME NEW i \in 1..w PROVE BigEndian(n, w)[i] = s[i]
    <3>1. w - i \in 0..w /\ w - (w - i) = i
      BY <1>1
    <3>. QED
      BY <1>5, <1>6, <1>7, <3>1
  <2>. QED
    BY <1>4, <2>1, SeqEqual DEF ByteString, w
<1>9. ASSUME w <= MaxWidth PROVE n < Powers[w]
  <2> DEFINE T == {i \in 0..w : p[i] < Powers[i]}
  <2>1. T \in SUBSET (0..w) /\ 0 \in T
    BY <1>1, <1>2, PowersUnfold
  <2>2. ASSUME NEW i \in T, i < w PROVE i + 1 \in T
    <3> DEFINE x == p[i]
               y == Powers[i]
               d == s[i + 1]
    <3>1. i + 1 \in 1..w /\ i + 1 \in 1..MaxWidth /\ (i + 1) - 1 = i /\ i \in 0..MaxWidth
      BY <1>1, <1>9, <2>2, BaseFacts
    <3>2. x \in Nat /\ y \in Nat /\ x < y /\ d \in 0..(Base - 1)
      BY <1>1, <3>1, PowersUnfold
    <3>3. p[i + 1] = Base * x + d /\ Powers[i + 1] = Base * y
      BY <1>2, <3>1, PowersUnfold
    <3> HIDE DEF x, y, d
    <3>4. Base * y >= Base * x + Base
      BY <3>2, BaseFacts
    <3>5. p[i + 1] < Powers[i + 1]
      BY <3>2, <3>3, <3>4, BaseFacts
    <3>. QED
      BY <3>1, <3>5
  <2> HIDE DEF T
  <2>3. T = 0..w
    BY <1>1, <2>1, <2>2, BoundedInduction
  <2>4. w \in T
    BY <1>1, <2>3
  <2>. QED
    BY <1>2, <2>4 DEF T
<1>. QED
  BY <1>3, <1>8, <1>9 DEF w, n

(***************************************************************************)
(* Sequences in three parts: an element, and two sequences.                *)
(***************************************************************************)
LEMMA SplitSequence ==
  ASSUME NEW S, NEW s \in Seq(S), NEW w \in Nat, w < Len(s)
  PROVE  /\ s[1] \in S
         /\ SubSeq(s, 2, 1 + w) \in Seq(S) /\ Len(SubSeq(s, 2, 1 + w)) = w
         /\ SubSeq(s, 2 + w, Len(s)) \in Seq(S)
         /\ s = <<s[1]>> \o SubSeq(s, 2, 1 + w) \o SubSeq(s, 2 + w, Len(s))
<1> DEFINE n == Len(s)
           front == SubSeq(s, 2, 1 + w)
           back == SubSeq(s, 2 + w, n)
<1>1. n \in Nat /\ \A i \in 1..n : s[i] \in S
  BY LenProperties, ElementOfSeq
<1>2. 1 \in 1..n /\ n \in 1..n /\ 2 \in Int /\ 1 + w \in Int /\ 2 + w \in Int
  BY <1>1
<1>3. front \in Seq(S) /\ Len(front) = w
  <2>1. \A i \in 2..(1 + w) : s[i] \in S
    BY <1>1
  <2>2. Len(front) = IF 2 <= 1 + w THEN (1 + w) - 2 + 1 ELSE 0
    BY <1>2, <2>1, SubSeqProperties
  <2>. QED
    BY <1>2, <2>1, <2>2, SubSeqProperties
<1>4. back \in Seq(S)
  <2>1. \A i \in (2 + w)..n : s[i] \in S
    BY <1>1
  <2>. QED
    BY <1>1, <1>2, <2>1, SubSeqProperties
<1>5. s = <<s[1]>> \o SubSeq(s, 2, n)
  <2>1. s = SubSeq(s, 1, n)
    BY SubSeqFull
  <2>2. SubSeq(s, 1, n) = <<s[1]>> \o SubSeq(s, 1 + 1, n)
    BY <1>2, SubSeqRecursiveFirst
  <2>. QED
    BY <2>1, <2>2
<1>6. SubSeq(s, 2, n) = front \o back
  <2>1. 2 \in 1..(n + 1) /\ 1 + w \in (2 - 1)..n /\ n \in (1 + w)..n
    BY <1>1
  <2>2. SubSeq(s, 2, 1 + w) \o SubSeq(s, (1 + w) + 1, n) = SubSeq(s, 2, n)
    BY <2>1, ConcatAdjacentSubSeq
  <2>3. (1 + w) + 1 = 2 + w
    OBVIOUS
  <2>. QED
    BY <2>2, <2>3
<1>7. <<s[1]>> \o (front \o back) = <<s[1]>> \o front \o back
  <2>1. <<s[1]>> \in Seq(S)
    BY <1>1, <1>2
  <2> HIDE DEF front, back
  <2>. QED
    BY <1>3, <1>4, <2>1, ConcatAssociative
<1>. QED
  BY <1>1, <1>2, <1>3, <1>4, <1>5, <1>6, <1>7

LEMMA PrefixOfConcat ==
  ASSUME NEW S, NEW s \in Seq(S), NEW t \in Seq(S)
  PROVE  /\ SubSeq(s \o t, 1, Len(s)) = s
         /\ SubSeq(s \o t, Len(s) + 1, Len(s \o t)) = t
<1> DEFINE u == s \o t
           m == Len(s)
           n == Len(t)
<1>1. /\ u \in Seq(S) /\ Len(u) = m + n /\ m \in Nat /\ n \in Nat
      /\ \A i \in 1..(m + n) : u[i] = IF i <= m THEN s[i] ELSE t[i - m]
  BY ConcatProperties, LenProperties
<1> HIDE DEF u
<1>2. SubSeq(u, 1, m) = s
  <2> DEFINE w == SubSeq(u, 1, m)
  <2>1. \A i \in 1..m : u[i] \in S
    BY <1>1, ElementOfSeq
  <2>2. /\ w \in Seq(S)
        /\ Len(w) = IF 1 <= m THEN m - 1 + 1 ELSE 0
        /\ \A i \in 1..(m - 1 + 1) : w[i] = u[1 + i - 1]
    <3>1. 1 \in Int /\ m \in Int
      BY <1>1
    <3> HIDE DEF m
    <3>. QED
      BY <2>1, <3>1, SubSeqProperties
  <2> HIDE DEF w
  <2>3. Len(w) = Len(s)
    BY <1>1, <2>2
  <2>4. ASSUME NEW i \in 1..Len(w) PROVE w[i] = s[i]
    <3>1. i \in 1..m /\ 1 + i - 1 = i
      BY <1>1, <2>3
    <3>2. w[i] = u[i] /\ u[i] = s[i]
      BY <1>1, <2>2, <3>1
    <3>. QED
      BY <3>2
  <2>5. w = s
    BY <2>2, <2>3, <2>4, SeqEqual
  <2>. QED
    BY <2>5 DEF w
<1>3. SubSeq(u, m + 1, Len(u)) = t
  <2> DEFINE w == SubSeq(u, m + 1, Len(u))
  <2>1. \A i \in (m + 1)..Len(u) : u[i] \in S
    BY <1>1, ElementOfSeq
  <2>2. /\ w \in Seq(S)
        /\ Len(w) = IF m + 1 <= Len(u) THEN Len(u) - (m + 1) + 1 ELSE 0
        /\ \A i \in 1..(Len(u) - (m + 1) + 1) : w[i] = u[(m + 1) + i - 1]
    <3>1. m + 1 \in Int /\ Len(u) \in Int
      BY <1>1
    <3> HIDE DEF m
    <3>. QED
      BY <2>1, <3>1, SubSeqProperties
  <2> HIDE DEF w
  <2>3. Len(w) = Len(t)
    BY <1>1, <2>2
  <2>4. ASSUME NEW i \in 1..Len(w) PROVE w[i] = t[i]
    <3>1. i \in 1..n /\ (m + 1) + i - 1 = m + i /\ m + i \in 1..(m + n)
      BY <1>1, <2>3
    <3>2. i \in 1..(Len(u) - (m + 1) + 1)
      BY <1>1, <3>1
    <3>3. w[i] = u[m + i]
      BY <2>2, <3>1, <3>2
    <3>4. u[m + i] = t[i]
      BY <1>1, <3>1
    <3>. QED
      BY <3>3, <3>4
  <2>5. w = t
    BY <2>2, <2>3, <2>4, SeqEqual
  <2>. QED
    BY <2>5 DEF w
<1>. QED
  BY <1>2, <1>3 DEF u

LEMMA JoinSequence ==
  ASSUME NEW S, NEW b \in S, NEW s \in Seq(S), NEW t \in Seq(S)
  PROVE  /\ <<b>> \o s \o t \in Seq(S)
         /\ <<b>> \o s \o t # <<>>
         /\ (<<b>> \o s \o t)[1] = b
         /\ Len(<<b>> \o s \o t) = 1 + Len(s) + Len(t)
         /\ SubSeq(<<b>> \o s \o t, 2, 1 + Len(s)) = s
         /\ SubSeq(<<b>> \o s \o t, 2 + Len(s), Len(<<b>> \o s \o t)) = t
<1> DEFINE u == <<b>> \o s
           v == u \o t
           m == Len(s)
           n == Len(t)
<1>1. <<b>> \in Seq(S) /\ Len(<<b>>) = 1 /\ <<b>>[1] = b
  OBVIOUS
<1>2. m \in Nat /\ n \in Nat
  BY LenProperties
<1>3. /\ u \in Seq(S) /\ Len(u) = 1 + m
      /\ \A i \in 1..(1 + m) : u[i] = IF i <= 1 THEN <<b>>[i] ELSE s[i - 1]
  <2>1. /\ <<b>> \o s \in Seq(S)
        /\ Len(<<b>> \o s) = Len(<<b>>) + Len(s)
        /\ \A i \in 1..(Len(<<b>>) + Len(s)) : (<<b>> \o s)[i] =
             IF i <= Len(<<b>>) THEN <<b>>[i] ELSE s[i - Len(<<b>>)]
    BY <1>1, ConcatProperties
  <2>. QED
    BY <1>1, <2>1
<1> HIDE DEF u
<1>4. /\ v \in Seq(S) /\ Len(v) = Len(u) + Len(t)
      /\ \A i \in 1..(Len(u) + Len(t)) : v[i] = IF i <= Len(u) THEN u[i] ELSE t[i - Len(u)]
  BY <1>3, ConcatProperties
<1> HIDE DEF v, m, n
<1>5. Len(v) = 1 + m + n /\ Len(v) \in Nat
  BY <1>2, <1>3, <1>4 DEF n
<1>6. v[1] = b
  BY <1>1, <1>2, <1>3, <1>4 DEF n
<1>7. v # <<>>
  BY <1>2, <1>5, EmptySeq
<1>8. SubSeq(v, 2, 1 + m) = s
  <2>1. \A i \in 2..(1 + m) : v[i] \in S
    BY <1>2, <1>4, <1>5, ElementOfSeq
  <2>2. /\ SubSeq(v, 2, 1 + m) \in Seq(S)
        /\ Len(SubSeq(v, 2, 1 + m)) = IF 2 <= 1 + m THEN (1 + m) - 2 + 1 ELSE 0
        /\ \A i \in 1..((1 + m) - 2 + 1) : SubSeq(v, 2, 1 + m)[i] = v[2 + i - 1]
    <3>1. 2 \in Int /\ 1 + m \in Int
      BY <1>2
    <3>. QED
      BY <2>1, <3>1, SubSeqProperties
  <2>3. Len(SubSeq(v, 2, 1 + m)) = Len(s)
    BY <1>2, <2>2 DEF m
  <2>4. ASSUME NEW i \in 1..Len(SubSeq(v, 2, 1 + m)) PROVE SubSeq(v, 2, 1 + m)[i] = s[i]
    <3>1. i \in 1..m
      BY <2>3 DEF m
    <3>2. SubSeq(v, 2, 1 + m)[i] = v[1 + i]
      BY <1>2, <2>2, <3>1
    <3>3. v[1 + i] = s[i]
      BY <1>2, <1>3, <1>4, <3>1 DEF n
    <3>. QED
      BY <3>2, <3>3
  <2>. QED
    BY <2>2, <2>3, <2>4, SeqEqual
<1>9. SubSeq(v, 2 + m, Len(v)) = t
  <2>1. SubSeq(v, Len(u) + 1, Len(v)) = t
    BY <1>3, PrefixOfConcat DEF v
  <2>2. Len(u) + 1 = 2 + m
    BY <1>2, <1>3
  <2>. QED
    BY <2>1, <2>2
<1>. QED
  BY <1>4, <1>5, <1>6, <1>7, <1>8, <1>9 DEF u, v, m, n

(***************************************************************************)
(* Headers.                                                                *)
(***************************************************************************)
LEMMA PowersMonotonic ==
  ASSUME NEW v \in 0..MaxWidth, NEW w \in v..MaxWidth
  PROVE  Powers[v] <= Powers[w]
<1> DEFINE n == MaxWidth - v
           T == {k \in 0..n : Powers[v] <= Powers[v + k]}
<1>1. n \in Nat /\ Powers[v] \in Nat
  BY BaseFacts, PowersUnfold
<1>2. T \in SUBSET (0..n) /\ 0 \in T
  <2>1. v + 0 = v /\ 0 \in 0..n
    BY <1>1, BaseFacts
  <2>. QED
    BY <1>1, <2>1
<1>3. ASSUME NEW k \in T, k < n PROVE k + 1 \in T
  <2> DEFINE x == Powers[v + k]
  <2>1. /\ v + k \in 0..MaxWidth /\ v + (k + 1) \in 1..MaxWidth
        /\ (v + (k + 1)) - 1 = v + k /\ k + 1 \in 0..n
    BY <1>1, <1>3, BaseFacts
  <2>2. x \in Nat /\ Powers[v] <= x /\ Powers[v + (k + 1)] = Base * x
    BY <2>1, PowersUnfold
  <2> HIDE DEF x
  <2>3. Base * x >= x
    BY <2>2, BaseFacts
  <2>4. Base * x \in Nat
    BY <2>2, BaseFacts
  <2>5. Powers[v] <= Powers[v + (k + 1)]
    BY <1>1, <2>2, <2>3, <2>4
  <2>. QED
    BY <2>1, <2>5
<1>4. T = 0..n
  <2> HIDE DEF T, n
  <2>. QED
    BY <1>1, <1>2, <1>3, BoundedInduction
<1>5. w - v \in T /\ v + (w - v) = w
  <2>1. w - v \in 0..n /\ v + (w - v) = w
    BY <1>1, BaseFacts
  <2> HIDE DEF T
  <2>. QED
    BY <1>4, <2>1
<1>. QED
  BY <1>5

\* Numbers below the base fit every header.
LEMMA SmallFits ==
  ASSUME NEW n \in Nat, n < Base
  PROVE  n < Powers[MaxWidth]
<1>1. Powers[1] <= Powers[MaxWidth]
  <2>1. 1 \in 0..MaxWidth /\ MaxWidth \in 1..MaxWidth
    BY BaseFacts
  <2>. QED
    BY <2>1, PowersMonotonic
<1>2. Powers[1] = Base * Powers[0] /\ Powers[0] = 1
  <2>1. 1 \in 1..MaxWidth /\ 1 - 1 = 0
    BY BaseFacts
  <2>. QED
    BY <2>1, PowersUnfold
<1>3. Powers[1] = Base
  BY <1>2, BaseFacts
<1>4. Powers[MaxWidth] \in Nat
  BY BaseFacts, PowersUnfold
<1>. QED
  BY <1>1, <1>3, <1>4, BaseFacts

\* The form that is chosen is the first that holds the number.
LEMMA FormIs ==
  ASSUME NEW n \in Nat, NEW i \in DOMAIN Width, n < Powers[Width[i]],
         \A j \in 1..(i - 1) : n >= Powers[Width[j]]
  PROVE  Form(n) = i
<1> DEFINE First(k) == n < Powers[Width[k]] /\ \A j \in 1..(k - 1) : n >= Powers[Width[j]]
<1>1. ASSUME NEW k \in DOMAIN Width, First(k) PROVE k = i
  <2>1. i \in Nat \ {0} /\ k \in Nat \ {0}
    BY BaseFacts
  <2>2. \A j \in DOMAIN Width : Powers[Width[j]] \in Nat
    BY BaseFacts, PowersUnfold
  <2>3. ~(k < i)
    <3>. SUFFICES ASSUME k < i PROVE FALSE
      OBVIOUS
    <3>1. k \in 1..(i - 1)
      BY <2>1
    <3>. QED
      BY <1>1, <2>2, <3>1
  <2>4. ~(i < k)
    <3>. SUFFICES ASSUME i < k PROVE FALSE
      OBVIOUS
    <3>1. i \in 1..(k - 1)
      BY <2>1
    <3>. QED
      BY <1>1, <2>2, <3>1
  <2>. QED
    BY <2>1, <2>3, <2>4
<1>2. First(i)
  OBVIOUS
<1>3. Form(n) = CHOOSE k \in DOMAIN Width : First(k)
  BY DEF Form
<1> HIDE DEF First
<1>. QED
  BY <1>1, <1>2, <1>3

LEMMA FormExists ==
  ASSUME NEW n \in Nat, n < Powers[MaxWidth]
  PROVE  /\ Form(n) \in DOMAIN Width
         /\ n < Powers[Width[Form(n)]]
         /\ \A j \in 1..(Form(n) - 1) : n >= Powers[Width[j]]
<1> DEFINE T == {i \in DOMAIN Width : n < Powers[Width[i]]}
<1>1. T \in SUBSET Nat /\ T # {}
  <2>1. Len(Width) \in T
    BY BaseFacts DEF MaxWidth
  <2>2. DOMAIN Width \subseteq Nat
    BY BaseFacts
  <2>. QED
    BY <2>1, <2>2
<1>2. PICK i \in T : \A j \in T : i <= j
  <2> HIDE DEF T
  <2>. QED
    BY <1>1, LeastNatural
<1>3. i \in DOMAIN Width /\ n < Powers[Width[i]]
  OBVIOUS
<1>4. ASSUME NEW j \in 1..(i - 1) PROVE n >= Powers[Width[j]]
  <2>1. j \in DOMAIN Width /\ j \in Nat /\ i \in Nat /\ j < i
    BY <1>3, BaseFacts
  <2>2. j \notin T
    <3> HIDE DEF T
    <3>. QED
      BY <1>2, <2>1
  <2>3. Powers[Width[j]] \in Nat
    BY <2>1, BaseFacts, PowersUnfold
  <2>. QED
    BY <2>1, <2>2, <2>3
<1>5. Form(n) = i
  BY <1>3, <1>4, FormIs
<1>. QED
  BY <1>3, <1>4, <1>5

\* The header at the front of a byte string, in its short and its long forms.
LEMMA ReadHeaderShort ==
  ASSUME NEW buf \in ByteString, buf # <<>>, buf[1] % InfoBase < InlineEnd
  PROVE  ReadHeader(buf) = [ok |-> TRUE, major |-> buf[1] \div InfoBase,
                            argument |-> buf[1] % InfoBase,
                            rest |-> SubSeq(buf, 2, Len(buf))]
<1> DEFINE info == buf[1] % InfoBase
<1>1. info - InlineEnd + 1 \notin DOMAIN Width
  <2>1. buf[1] \in Nat
    <3>1. 1 \in 1..Len(buf)
      BY EmptySeq DEF ByteString
    <3>2. buf[1] \in 0..(Base - 1)
      BY <3>1, ElementOfSeq DEF ByteString
    <3>. QED
      BY <3>2, BaseFacts
  <2>2. info \in Nat
    <3>1. InfoBase \in Nat \ {0}
      BY BaseFacts
    <3>2. info \in 0..(InfoBase - 1)
      BY <2>1, <3>1, DivMod
    <3> HIDE DEF info
    <3>. QED
      BY <3>1, <3>2
  <2> HIDE DEF info
  <2>. QED
    BY <2>2, BaseFacts DEF info
<1>2. 2 + 0 = 2
  OBVIOUS
<1>. QED
  BY <1>1, <1>2 DEF ReadHeader

LEMMA ReadHeaderLong ==
  ASSUME NEW buf \in ByteString, buf # <<>>, NEW form \in DOMAIN Width,
         buf[1] % InfoBase = InlineEnd + form - 1, Len(buf) > Width[form]
  PROVE  LET n == FromBigEndian(SubSeq(buf, 2, 1 + Width[form]))
         IN  ReadHeader(buf) =
               IF n < MinValue(form) THEN Malformed
               ELSE [ok |-> TRUE, major |-> buf[1] \div InfoBase, argument |-> n,
                     rest |-> SubSeq(buf, 2 + Width[form], Len(buf))]
<1>1. form \in Nat \ {0} /\ InlineEnd \in Nat
  BY BaseFacts
<1>2. ~(buf[1] % InfoBase < InlineEnd) /\ (buf[1] % InfoBase) - InlineEnd + 1 = form
  BY <1>1
<1>. QED
  BY <1>2 DEF ReadHeader

LEMMA ReadHeaderForms ==
  ASSUME NEW buf \in ByteString, ReadHeader(buf).ok
  PROVE  /\ buf # <<>> /\ buf[1] \in 0..(Base - 1)
         /\ \/ buf[1] % InfoBase < InlineEnd
            \/ \E form \in DOMAIN Width :
                 buf[1] % InfoBase = InlineEnd + form - 1 /\ Len(buf) > Width[form]
<1>1. ~Malformed.ok
  BY DEF Malformed
<1>2. buf # <<>>
  BY <1>1 DEF ReadHeader
<1>3. buf[1] \in 0..(Base - 1)
  <2>1. 1 \in 1..Len(buf)
    BY <1>2, EmptySeq DEF ByteString
  <2>. QED
    BY <2>1, ElementOfSeq DEF ByteString
<1> DEFINE info == buf[1] % InfoBase
           form == info - InlineEnd + 1
<1>4. info \in Nat /\ InlineEnd \in Nat
  <2>1. buf[1] \in Nat
    BY <1>3, BaseFacts
  <2>2. InfoBase \in Nat \ {0} /\ InlineEnd \in Nat
    BY BaseFacts
  <2>3. info \in 0..(InfoBase - 1)
    BY <2>1, <2>2, DivMod
  <2> HIDE DEF info
  <2>. QED
    BY <2>2, <2>3
<1>5. ASSUME ~(info < InlineEnd)
      PROVE  form \in DOMAIN Width /\ Len(buf) > Width[form]
  BY <1>1, <1>2, <1>5 DEF ReadHeader
<1>6. info = InlineEnd + form - 1
  BY <1>4
<1>. QED
  BY <1>2, <1>3, <1>5, <1>6

\* What is written is read back, whatever follows it.
LEMMA HeaderWritten ==
  ASSUME NEW major \in 0..4, NEW n \in Nat, n < Powers[MaxWidth], NEW tail \in ByteString
  PROVE  /\ WriteHeader(major, n) \in ByteString
         /\ ReadHeader(WriteHeader(major, n) \o tail) =
              [ok |-> TRUE, major |-> major, argument |-> n, rest |-> tail]
<1> DEFINE S == 0..(Base - 1)
<1>1. ByteString = Seq(S)
  BY DEF ByteString
<1>2. \A info \in 0..(InfoBase - 1) :
        /\ major * InfoBase + info \in S
        /\ (major * InfoBase + info) \div InfoBase = major
        /\ (major * InfoBase + info) % InfoBase = info
  <2>. SUFFICES ASSUME NEW info \in 0..(InfoBase - 1)
                PROVE  /\ InfoBase * major + info \in S
                       /\ (InfoBase * major + info) \div InfoBase = major
                       /\ (InfoBase * major + info) % InfoBase = info
    <3>1. InfoBase \in Nat /\ major \in Nat
      BY BaseFacts
    <3>2. major * InfoBase = InfoBase * major
      BY <3>1
    <3>. QED
      BY <3>2
  <2>1. InfoBase \in Nat \ {0} /\ major \in Nat
    BY BaseFacts
  <2>2. InfoBase * major + InfoBase <= 5 * InfoBase /\ InfoBase * major \in Nat
    BY <2>1
  <2>3. InfoBase * major + info \in S
    BY <2>1, <2>2, BaseFacts, CodecAssumption
  <2>. QED
    BY <2>1, <2>3, DivModUnique
<1>3. CASE n < InlineEnd
  <2> DEFINE b == major * InfoBase + n
             buf == <<b>> \o tail
  <2>1. n \in 0..(InfoBase - 1)
    BY <1>3, BaseFacts, CodecAssumption
  <2>2. b \in S /\ b \div InfoBase = major /\ b % InfoBase = n
    BY <1>2, <2>1
  <2>3. WriteHeader(major, n) = <<b>>
    BY <1>3 DEF WriteHeader
  <2> HIDE DEF b, S
  <2>4. <<b>> \in Seq(S) /\ <<>> \in Seq(S) /\ tail \in Seq(S) /\ <<b>> \o <<>> = <<b>>
    BY <1>1, <2>2
  <2>5. /\ buf \in Seq(S) /\ buf # <<>> /\ buf[1] = b /\ SubSeq(buf, 2, Len(buf)) = tail
    <3>1. /\ <<b>> \o <<>> \o tail \in Seq(S)
          /\ <<b>> \o <<>> \o tail # <<>>
          /\ (<<b>> \o <<>> \o tail)[1] = b
          /\ SubSeq(<<b>> \o <<>> \o tail, 2 + Len(<<>>), Len(<<b>> \o <<>> \o tail)) = tail
      BY <2>2, <2>4, JoinSequence
    <3>2. 2 + Len(<<>>) = 2
      OBVIOUS
    <3>. QED
      BY <2>4, <3>1, <3>2
  <2> HIDE DEF buf
  <2>6. ReadHeader(buf) = [ok |-> TRUE, major |-> major, argument |-> n, rest |-> tail]
    BY <1>1, <1>3, <2>2, <2>5, ReadHeaderShort
  <2>. QED
    BY <1>1, <2>3, <2>4, <2>6 DEF buf
<1>4. CASE ~(n < InlineEnd)
  <2> DEFINE form == Form(n)
             w == Width[form]
             info == InlineEnd + form - 1
             b == major * InfoBase + InlineEnd + form - 1
             digits == BigEndian(n, w)
             buf == <<b>> \o digits \o tail
  <2>1. /\ form \in DOMAIN Width
        /\ n < Powers[w]
        /\ \A j \in 1..(form - 1) : n >= Powers[Width[j]]
    BY FormExists
  <2>2. form \in 1..Len(Width) /\ w \in 1..MaxWidth /\ w \in Nat /\ w \in 0..MaxWidth
    BY <2>1, BaseFacts
  <2>3. info \in 0..(InfoBase - 1)
    BY <2>2, BaseFacts, CodecAssumption
  <2>4. b = major * InfoBase + info
    BY <2>2, BaseFacts
  <2>5. b \in S /\ b \div InfoBase = major /\ b % InfoBase = info
    BY <1>2, <2>3, <2>4
  <2>6. digits \in ByteString /\ Len(digits) = w
    BY <2>2, BigEndianType
  <2>7. FromBigEndian(digits) = n
    BY <2>1, <2>2, FromBigEndianInverse
  <2>8. ~(n < MinValue(form))
    <3>1. CASE form = 1
      BY <1>4, <3>1 DEF MinValue
    <3>2. CASE form # 1
      <4>1. form - 1 \in 1..(form - 1) /\ form - 1 \in DOMAIN Width
        BY <2>2, <3>2, BaseFacts
      <4>2. Powers[Width[form - 1]] \in Nat
        BY <4>1, BaseFacts, PowersUnfold
      <4>3. n >= Powers[Width[form - 1]]
        BY <2>1, <4>1
      <4>. QED
        BY <3>2, <4>2, <4>3 DEF MinValue
    <3>. QED
      BY <3>1, <3>2
  <2>9. WriteHeader(major, n) = <<b>> \o digits
    BY <1>4 DEF WriteHeader
  <2> HIDE DEF form, b, S, digits
  <2>10. /\ buf \in Seq(S) /\ buf # <<>> /\ buf[1] = b
         /\ Len(buf) = 1 + w + Len(tail)
         /\ SubSeq(buf, 2, 1 + w) = digits
         /\ SubSeq(buf, 2 + w, Len(buf)) = tail
    <3>1. /\ <<b>> \o digits \o tail \in Seq(S)
          /\ <<b>> \o digits \o tail # <<>>
          /\ (<<b>> \o digits \o tail)[1] = b
          /\ Len(<<b>> \o digits \o tail) = 1 + Len(digits) + Len(tail)
          /\ SubSeq(<<b>> \o digits \o tail, 2, 1 + Len(digits)) = digits
          /\ SubSeq(<<b>> \o digits \o tail, 2 + Len(digits),
                    Len(<<b>> \o digits \o tail)) = tail
      <4>1. b \in S /\ digits \in Seq(S) /\ tail \in Seq(S)
        BY <1>1, <2>5, <2>6
      <4>. QED
        BY <4>1, JoinSequence
    <3>. QED
      BY <2>6, <3>1
  <2>11. <<b>> \o digits \in ByteString
    <3>1. <<b>> \in Seq(S) /\ digits \in Seq(S)
      BY <1>1, <2>5, <2>6
    <3>. QED
      BY <1>1, <3>1, ConcatProperties
  <2>12. Len(tail) \in Nat
    BY <1>1, LenProperties
  <2> HIDE DEF buf
  <2>13. Len(buf) > w
    BY <2>2, <2>10, <2>12
  <2>14. ReadHeader(buf) = [ok |-> TRUE, major |-> major, argument |-> n, rest |-> tail]
    BY <1>1, <2>1, <2>5, <2>7, <2>8, <2>10, <2>13, ReadHeaderLong
  <2>. QED
    BY <2>9, <2>11, <2>14 DEF buf
<1>. QED
  BY <1>3, <1>4

\* What is read is written as it was read.
LEMMA HeaderRead ==
  ASSUME NEW buf \in ByteString, ReadHeader(buf).ok
  PROVE  /\ ReadHeader(buf).argument \in Nat
         /\ ReadHeader(buf).argument < Powers[MaxWidth]
         /\ ReadHeader(buf).rest \in ByteString
         /\ buf = WriteHeader(ReadHeader(buf).major, ReadHeader(buf).argument)
                    \o ReadHeader(buf).rest
<1> DEFINE S == 0..(Base - 1)
           b == buf[1]
           major == b \div InfoBase
           info == b % InfoBase
<1>1. ByteString = Seq(S)
  BY DEF ByteString
<1>2. /\ buf # <<>> /\ b \in S
      /\ \/ info < InlineEnd
         \/ \E form \in DOMAIN Width : info = InlineEnd + form - 1 /\ Len(buf) > Width[form]
  BY ReadHeaderForms
<1>3. major \in Nat /\ info \in 0..(InfoBase - 1) /\ b = major * InfoBase + info
  <2>1. b \in Nat /\ InfoBase \in Nat \ {0}
    BY <1>2, BaseFacts
  <2>2. major \in Nat /\ info \in 0..(InfoBase - 1) /\ b = InfoBase * major + info
    BY <2>1, DivMod
  <2> HIDE DEF major
  <2>. QED
    BY <2>1, <2>2
<1>4. Len(buf) \in Nat \ {0}
  BY <1>1, <1>2, EmptySeq
<1>5. CASE info < InlineEnd
  <2> DEFINE rest == SubSeq(buf, 2, Len(buf))
  <2>1. ReadHeader(buf) = [ok |-> TRUE, major |-> major, argument |-> info, rest |-> rest]
    BY <1>2, <1>5, ReadHeaderShort
  <2>2. rest \in ByteString /\ buf = <<b>> \o rest
    <3>1. rest \in Seq(S) /\ buf = <<b>> \o SubSeq(buf, 2, 1) \o rest
      <4>1. 0 < Len(buf) /\ 2 + 0 = 2 /\ 1 + 0 = 1
        BY <1>4
      <4>2. \A w \in Nat : w < Len(buf) =>
              /\ SubSeq(buf, 2 + w, Len(buf)) \in Seq(S)
              /\ buf = <<buf[1]>> \o SubSeq(buf, 2, 1 + w) \o SubSeq(buf, 2 + w, Len(buf))
        BY <1>1, SplitSequence
      <4>3. /\ SubSeq(buf, 2 + 0, Len(buf)) \in Seq(S)
            /\ buf = <<buf[1]>> \o SubSeq(buf, 2, 1 + 0) \o SubSeq(buf, 2 + 0, Len(buf))
        BY <4>1, <4>2
      <4>. QED
        BY <4>1, <4>3
    <3>2. SubSeq(buf, 2, 1) = <<>>
      BY SubSeqEmpty
    <3>3. <<b>> \o <<>> = <<b>>
      <4>1. <<b>> \in Seq(S)
        BY <1>2
      <4>. QED
        BY <4>1, ConcatEmptySeq
    <3>. QED
      BY <1>1, <3>1, <3>2, <3>3
  <2>3. WriteHeader(major, info) = <<b>>
    BY <1>3, <1>5 DEF WriteHeader
  <2>4. info \in Nat /\ info < Powers[MaxWidth]
    <3>1. info \in Nat /\ info < Base
      <4> HIDE DEF info
      <4>. QED
        BY <1>3, <1>5, BaseFacts
    <3>. QED
      BY <3>1, SmallFits
  <2>5. /\ ReadHeader(buf).major = major
        /\ ReadHeader(buf).argument = info
        /\ ReadHeader(buf).rest = rest
    BY <2>1
  <2> HIDE DEF rest, b, major, info
  <2>. QED
    BY <2>2, <2>3, <2>4, <2>5
<1>6. ASSUME NEW form \in DOMAIN Width, info = InlineEnd + form - 1, Len(buf) > Width[form]
      PROVE  /\ ReadHeader(buf).argument \in Nat
             /\ ReadHeader(buf).argument < Powers[MaxWidth]
             /\ ReadHeader(buf).rest \in ByteString
             /\ buf = WriteHeader(ReadHeader(buf).major, ReadHeader(buf).argument)
                        \o ReadHeader(buf).rest
  <2> DEFINE w == Width[form]
             digits == SubSeq(buf, 2, 1 + w)
             rest == SubSeq(buf, 2 + w, Len(buf))
             n == FromBigEndian(digits)
  <2>1. form \in 1..Len(Width) /\ w \in 1..MaxWidth /\ w \in Nat /\ w \in 0..MaxWidth
    BY <1>6, BaseFacts
  <2>2. /\ digits \in ByteString /\ Len(digits) = w
        /\ rest \in ByteString
        /\ buf = <<b>> \o digits \o rest
    BY <1>1, <1>6, <2>1, SplitSequence
  <2>3. ReadHeader(buf) = IF n < MinValue(form) THEN Malformed
                          ELSE [ok |-> TRUE, major |-> major, argument |-> n, rest |-> rest]
    BY <1>2, <1>6, ReadHeaderLong
  <2> HIDE DEF digits, rest, n
  <2>4. ~(n < MinValue(form))
    BY <2>3 DEF Malformed
  <2>5. ReadHeader(buf) = [ok |-> TRUE, major |-> major, argument |-> n, rest |-> rest]
    BY <2>3, <2>4
  <2>6. n \in Nat /\ n < Powers[w] /\ BigEndian(n, w) = digits
    BY <2>1, <2>2, BigEndianInverse DEF n
  <2>7. \A j \in DOMAIN Width : Powers[Width[j]] \in Nat
    BY BaseFacts, PowersUnfold
  <2>8. ASSUME NEW j \in 1..(form - 1) PROVE n >= Powers[Width[j]]
    <3>1. /\ form # 1 /\ j \in DOMAIN Width /\ form - 1 \in DOMAIN Width /\ j <= form - 1
      BY <2>1, BaseFacts
    <3>2. n >= Powers[Width[form - 1]]
      BY <2>4, <2>6, <2>7, <3>1 DEF MinValue
    <3>3. Powers[Width[j]] <= Powers[Width[form - 1]]
      <4>1. Width[j] \in 0..MaxWidth /\ Width[form - 1] \in Width[j]..MaxWidth
        BY <3>1, BaseFacts, CodecAssumption
      <4>. QED
        BY <4>1, PowersMonotonic
    <3>. QED
      BY <2>6, <2>7, <3>1, <3>2, <3>3
  <2>9. Form(n) = form
    BY <2>6, <2>8, FormIs
  <2>10. ~(n < InlineEnd)
    <3>1. CASE form = 1
      BY <2>4, <3>1 DEF MinValue
    <3>2. CASE form # 1
      <4>1. 1 \in 1..(form - 1) /\ 1 \in DOMAIN Width
        BY <2>1, <3>2, BaseFacts
      <4>2. n >= Powers[Width[1]]
        BY <2>8, <4>1
      <4>3. Powers[1] <= Powers[Width[1]]
        <5>1. 1 \in 0..MaxWidth /\ Width[1] \in 1..MaxWidth
          BY <4>1, BaseFacts
        <5>. QED
          BY <5>1, PowersMonotonic
      <4>4. Powers[1] = Base * Powers[0] /\ Powers[0] = 1
        <5>1. 1 \in 1..MaxWidth /\ 1 - 1 = 0
          BY BaseFacts
        <5>. QED
          BY <5>1, PowersUnfold
      <4>5. Powers[1] = Base
        BY <4>4, BaseFacts
      <4>. QED
        BY <2>6, <2>7, <4>1, <4>2, <4>3, <4>5, BaseFacts
    <3>. QED
      BY <3>1, <3>2
  <2>11. WriteHeader(major, n) = <<b>> \o digits
    <3>1. major * InfoBase + InlineEnd + form - 1 = b
      <4>1. major * InfoBase \in Nat
        <5>1. \A x, y \in Nat : x * y \in Nat
          OBVIOUS
        <5>2. major \in Nat /\ InfoBase \in Nat
          BY <1>3, BaseFacts
        <5> HIDE DEF major
        <5>. QED
          BY <5>1, <5>2
      <4> HIDE DEF b, major, info
      <4>. QED
        BY <1>3, <1>6, <2>1, <4>1, BaseFacts
    <3> HIDE DEF b, major
    <3>. QED
      BY <2>6, <2>9, <2>10, <3>1 DEF WriteHeader
  <2>12. n < Powers[MaxWidth]
    <3>1. Powers[w] <= Powers[MaxWidth]
      <4>1. w \in 0..MaxWidth /\ MaxWidth \in w..MaxWidth
        BY <2>1, BaseFacts
      <4>. QED
        BY <4>1, PowersMonotonic
    <3>2. Powers[w] \in Nat /\ Powers[MaxWidth] \in Nat
      BY <2>1, BaseFacts, PowersUnfold
    <3>. QED
      BY <2>6, <3>1, <3>2
  <2>13. /\ ReadHeader(buf).major = major
         /\ ReadHeader(buf).argument = n
         /\ ReadHeader(buf).rest = rest
    BY <2>5
  <2> HIDE DEF b, major
  <2>. QED
    BY <2>2, <2>6, <2>11, <2>12, <2>13
<1>. QED
  BY <1>2, <1>5, <1>6

(***************************************************************************)
(* The recursive functions of the codec, unfolded.                         *)
(***************************************************************************)
\* What has been written before each field.
LEMMA WriteFieldsUnfold ==
  ASSUME NEW fields, NEW value, Len(fields) \in Nat
  PROVE  \E written :
           /\ written[0] = <<>>
           /\ \A i \in 1..Len(fields) :
                written[i] = written[i - 1] \o WriteField(fields[i], value[fields[i]])
           /\ WriteFields(fields, value) = written[Len(fields)]
<1> DEFINE n == Len(fields)
           next(out, i) == out \o WriteField(fields[i], value[fields[i]])
           Solves(f, m) == f = [i \in 0..m |-> IF i = 0 THEN <<>> ELSE next(f[i - 1], i)]
           Solvable(m) == \E f : Solves(f, m)
           T == {m \in 0..n : Solvable(m)}
<1>1. WriteFields(fields, value) = (CHOOSE f : Solves(f, n))[n]
  BY DEF WriteFields
<1> HIDE DEF next
<1>2. Solvable(0)
  <2> DEFINE f == [i \in 0..0 |-> <<>>]
  <2>1. Solves(f, 0)
    OBVIOUS
  <2>. QED
    BY <2>1
<1>3. ASSUME NEW m \in T, m < n PROVE Solvable(m + 1)
  <2>1. PICK f : Solves(f, m)
    OBVIOUS
  <2> DEFINE g == [i \in 0..(m + 1) |-> IF i = m + 1 THEN next(f[m], m + 1) ELSE f[i]]
  <2>2. Solves(g, m + 1)
    <3>1. m \in Nat
      OBVIOUS
    <3>2. ASSUME NEW i \in 0..(m + 1)
          PROVE  g[i] = IF i = 0 THEN <<>> ELSE next(g[i - 1], i)
      <4>1. CASE i = m + 1
        BY <3>1, <4>1
      <4>2. CASE i # m + 1
        <5>1. g[i] = f[i] /\ (i # 0 => g[i - 1] = f[i - 1])
          BY <3>1, <4>2
        <5>2. f[i] = IF i = 0 THEN <<>> ELSE next(f[i - 1], i)
          BY <2>1, <3>1, <4>2
        <5>. QED
          BY <5>1, <5>2
      <4>. QED
        BY <4>1, <4>2
    <3>. QED
      BY <3>2
  <2>. QED
    BY <2>2
<1> HIDE DEF Solvable
<1>4. n \in T
  <2>1. T \in SUBSET (0..n) /\ 0 \in T
    BY <1>2
  <2>2. \A m \in T : m < n => m + 1 \in T
    BY <1>3
  <2> HIDE DEF T
  <2>3. T = 0..n
    BY <2>1, <2>2, BoundedInduction
  <2>. QED
    BY <2>3
<1>5. PICK f : f = (CHOOSE x : Solves(x, n)) /\ Solves(f, n)
  <2>1. \E x : Solves(x, n)
    BY <1>4 DEF Solvable
  <2> HIDE DEF Solves
  <2>. QED
    BY <2>1
<1>6. /\ f[0] = <<>>
      /\ \A i \in 1..n : f[i] = next(f[i - 1], i)
  BY <1>5
<1>. QED
  BY <1>1, <1>5, <1>6 DEF next

\* The reader before each field.
LEMMA ReadFieldsUnfold ==
  ASSUME NEW r, NEW fields, Len(fields) \in Nat
  PROVE  \E reader :
           /\ reader[0] = r
           /\ \A i \in 1..Len(fields) :
                reader[i] = ReadField(reader[i - 1], fields[i])
           /\ ReadFields(r, fields) = reader[Len(fields)]
<1> DEFINE n == Len(fields)
           next(out, i) == ReadField(out, fields[i])
           Solves(f, m) == f = [i \in 0..m |-> IF i = 0 THEN r ELSE next(f[i - 1], i)]
           Solvable(m) == \E f : Solves(f, m)
           T == {m \in 0..n : Solvable(m)}
<1>1. ReadFields(r, fields) = (CHOOSE f : Solves(f, n))[n]
  BY DEF ReadFields
<1> HIDE DEF next
<1>2. Solvable(0)
  <2> DEFINE f == [i \in 0..0 |-> r]
  <2>1. Solves(f, 0)
    OBVIOUS
  <2>. QED
    BY <2>1
<1>3. ASSUME NEW m \in T, m < n PROVE Solvable(m + 1)
  <2>1. PICK f : Solves(f, m)
    OBVIOUS
  <2> DEFINE g == [i \in 0..(m + 1) |-> IF i = m + 1 THEN next(f[m], m + 1) ELSE f[i]]
  <2>2. Solves(g, m + 1)
    <3>1. m \in Nat
      OBVIOUS
    <3>2. ASSUME NEW i \in 0..(m + 1)
          PROVE  g[i] = IF i = 0 THEN r ELSE next(g[i - 1], i)
      <4>1. CASE i = m + 1
        BY <3>1, <4>1
      <4>2. CASE i # m + 1
        <5>1. g[i] = f[i] /\ (i # 0 => g[i - 1] = f[i - 1])
          BY <3>1, <4>2
        <5>2. f[i] = IF i = 0 THEN r ELSE next(f[i - 1], i)
          BY <2>1, <3>1, <4>2
        <5>. QED
          BY <5>1, <5>2
      <4>. QED
        BY <4>1, <4>2
    <3>. QED
      BY <3>2
  <2>. QED
    BY <2>2
<1> HIDE DEF Solvable
<1>4. n \in T
  <2>1. T \in SUBSET (0..n) /\ 0 \in T
    BY <1>2
  <2>2. \A m \in T : m < n => m + 1 \in T
    BY <1>3
  <2> HIDE DEF T
  <2>3. T = 0..n
    BY <2>1, <2>2, BoundedInduction
  <2>. QED
    BY <2>3
<1>5. PICK f : f = (CHOOSE x : Solves(x, n)) /\ Solves(f, n)
  <2>1. \E x : Solves(x, n)
    BY <1>4 DEF Solvable
  <2> HIDE DEF Solves
  <2>. QED
    BY <2>1
<1>6. /\ f[0] = r
      /\ \A i \in 1..n : f[i] = next(f[i - 1], i)
  BY <1>5
<1>. QED
  BY <1>1, <1>5, <1>6 DEF next

(***************************************************************************)
(* Fields.                                                                 *)
(***************************************************************************)
IsReader(r) == r = [ok |-> r.ok, rest |-> r.rest, value |-> r.value]

LEMMA MajorFacts ==
  ASSUME NEW field
  PROVE  Major(field) \in 0..4
BY DEF Major, UINT, BYTES, TEXT, ARRAY

\* Reading a field, whole.
LEMMA ReadFieldCases ==
  ASSUME NEW r, NEW field, IsReader(r)
  PROVE  LET h == ReadHeader(r.rest)
             n == IF IsString(field) THEN h.argument ELSE 0
             v == IF IsString(field) THEN SubSeq(h.rest, 1, n) ELSE h.argument
             good == /\ r.ok /\ h.ok /\ h.major = Major(field)
                     /\ n <= Len(h.rest) /\ FieldOK(field, v)
         IN  /\ IsReader(ReadField(r, field))
             /\ ReadField(r, field).ok <=> good
             /\ good => ReadField(r, field) =
                          [ok |-> TRUE, rest |-> SubSeq(h.rest, n + 1, Len(h.rest)),
                           value |-> With(r.value, field, v)]
<1> DEFINE h == ReadHeader(r.rest)
           n == IF IsString(field) THEN h.argument ELSE 0
           v == IF IsString(field) THEN SubSeq(h.rest, 1, n) ELSE h.argument
           read == [ok |-> TRUE, rest |-> SubSeq(h.rest, n + 1, Len(h.rest)),
                    value |-> With(r.value, field, v)]
           failed == [ok |-> FALSE, rest |-> r.rest, value |-> r.value]
           good == /\ r.ok /\ h.ok /\ h.major = Major(field)
                   /\ n <= Len(h.rest) /\ FieldOK(field, v)
<1>1. ReadField(r, field) = IF good THEN read ELSE failed
  BY DEF ReadField, ReadValue
<1>2. read.ok /\ IsReader(read)
  BY DEF IsReader
<1>3. ~failed.ok /\ IsReader(failed)
  BY DEF IsReader
<1> HIDE DEF h, n, v, good, read, failed
<1>4. /\ IsReader(ReadField(r, field))
      /\ ReadField(r, field).ok <=> good
      /\ good => ReadField(r, field) = read
  BY <1>1, <1>2, <1>3
<1>. QED
  BY <1>4 DEF h, n, v, good, read

\* What a reader took is the field's value as it is written, and the other
\* values stay.
LEMMA FieldRead ==
  ASSUME NEW r, NEW field, IsReader(r), r.rest \in ByteString, ReadField(r, field).ok
  PROVE  /\ r.ok
         /\ IsReader(ReadField(r, field))
         /\ ReadField(r, field).rest \in ByteString
         /\ \E v : /\ IsValue(field, v)
                   /\ WriteField(field, v) \in ByteString
                   /\ ReadField(r, field).value = With(r.value, field, v)
                   /\ r.rest = WriteField(field, v) \o ReadField(r, field).rest
<1> DEFINE h == ReadHeader(r.rest)
           n == IF IsString(field) THEN h.argument ELSE 0
           v == IF IsString(field) THEN SubSeq(h.rest, 1, n) ELSE h.argument
           rest == SubSeq(h.rest, n + 1, Len(h.rest))
           next == ReadField(r, field)
           S == 0..(Base - 1)
<1>1. ByteString = Seq(S)
  BY DEF ByteString
<1>2. /\ r.ok /\ h.ok /\ h.major = Major(field)
      /\ n <= Len(h.rest) /\ FieldOK(field, v)
      /\ IsReader(next)
      /\ next = [ok |-> TRUE, rest |-> rest, value |-> With(r.value, field, v)]
  BY ReadFieldCases
<1>3. /\ h.argument \in Nat /\ h.argument < Powers[MaxWidth]
      /\ h.rest \in ByteString
      /\ r.rest = WriteHeader(Major(field), h.argument) \o h.rest
  BY <1>2, HeaderRead
<1>4. WriteHeader(Major(field), h.argument) \in ByteString
  BY <1>3, MajorFacts, HeaderWritten
<1>5. Len(h.rest) \in Nat
  BY <1>1, <1>3, LenProperties
<1> DEFINE s == h.rest
<1>6. /\ rest \in ByteString
      /\ IsValue(field, v)
      /\ WriteField(field, v) \in ByteString
      /\ r.rest = WriteField(field, v) \o rest
  <2>1. CASE IsString(field)
    <3> DEFINE k == h.argument
    <3>1. n = k /\ v = SubSeq(s, 1, k) /\ rest = SubSeq(s, k + 1, Len(s))
      BY <2>1
    <3>2. k \in Nat /\ k <= Len(s) /\ s \in Seq(S) /\ Len(s) \in Nat
      BY <1>1, <1>2, <1>3, <1>5, <3>1
    <3> HIDE DEF k, n, v, rest, s, S
    <3>3. SubSeq(s, 1, k) \o SubSeq(s, k + 1, Len(s)) = s
      <4>1. 1 \in 1..(Len(s) + 1) /\ k \in (1 - 1)..Len(s) /\ Len(s) \in k..Len(s)
        BY <3>2
      <4>2. SubSeq(s, 1, k) \o SubSeq(s, k + 1, Len(s)) = SubSeq(s, 1, Len(s))
        BY <3>2, <4>1, ConcatAdjacentSubSeq
      <4>3. SubSeq(s, 1, Len(s)) = s
        BY <3>2, SubSeqFull
      <4>. QED
        BY <4>2, <4>3
    <3>4. SubSeq(s, 1, k) \in Seq(S) /\ Len(SubSeq(s, 1, k)) = k
      <4>1. \A i \in 1..k : s[i] \in S
        BY <3>2, ElementOfSeq
      <4>2. 1 \in Int /\ k \in Int
        BY <3>2
      <4>3. /\ SubSeq(s, 1, k) \in Seq(S)
            /\ Len(SubSeq(s, 1, k)) = IF 1 <= k THEN k - 1 + 1 ELSE 0
        BY <4>1, <4>2, SubSeqProperties
      <4>. QED
        BY <3>2, <4>3
    <3>5. SubSeq(s, k + 1, Len(s)) \in Seq(S)
      <4>1. \A i \in (k + 1)..Len(s) : s[i] \in S
        BY <3>2, ElementOfSeq
      <4>2. k + 1 \in Int /\ Len(s) \in Int
        BY <3>2
      <4>. QED
        BY <4>1, <4>2, SubSeqProperties
    <3>6. v \in Seq(S) /\ rest \in Seq(S) /\ v \o rest = s /\ Len(v) = k
      BY <3>1, <3>3, <3>4, <3>5
    <3>7. WriteField(field, v) = WriteHeader(Major(field), k) \o v
      BY <2>1, <3>6 DEF WriteField
    <3>8. WriteHeader(Major(field), k) \in Seq(S)
      BY <1>1, <1>4 DEF k
    <3>9. (WriteHeader(Major(field), k) \o v) \o rest = WriteHeader(Major(field), k) \o (v \o rest)
      <4> DEFINE head == WriteHeader(Major(field), k)
      <4>1. head \in Seq(S) /\ v \in Seq(S) /\ rest \in Seq(S)
        BY <3>6, <3>8
      <4> HIDE DEF head
      <4>2. (head \o v) \o rest = head \o (v \o rest)
        BY <4>1, ConcatAssociative
      <4>. QED
        BY <4>2 DEF head
    <3>10. r.rest = WriteHeader(Major(field), k) \o s
      BY <1>3 DEF k, s
    <3>11. IsValue(field, v)
      BY <1>1, <1>2, <1>3, <2>1, <3>6 DEF IsValue, k
    <3>12. WriteField(field, v) \in Seq(S)
      BY <3>6, <3>7, <3>8, ConcatProperties
    <3>. QED
      BY <1>1, <3>6, <3>7, <3>9, <3>10, <3>11, <3>12
  <2>2. CASE ~IsString(field)
    <3>1. n = 0 /\ v = h.argument /\ rest = SubSeq(s, 1, Len(s))
      BY <2>2
    <3>2. rest = s /\ s \in ByteString
      BY <1>1, <1>3, <3>1, SubSeqFull
    <3>3. WriteField(field, v) = WriteHeader(Major(field), h.argument)
      BY <2>2, <3>1 DEF WriteField
    <3>4. IsValue(field, v)
      <4> HIDE DEF v, h
      <4>. QED
        BY <1>2, <1>3, <2>2, <3>1 DEF IsValue
    <3> HIDE DEF v, h, rest
    <3>. QED
      BY <1>3, <1>4, <3>2, <3>3, <3>4
  <2>. QED
    BY <2>1, <2>2
<1> HIDE DEF v, rest, h, n, s
<1>7. next.rest = rest /\ next.value = With(r.value, field, v)
  BY <1>2
<1>. QED
  BY <1>2, <1>6, <1>7

\* What was written is read back.
LEMMA FieldWritten ==
  ASSUME NEW r, NEW field, NEW v, NEW tail \in ByteString,
         IsReader(r), r.ok, IsValue(field, v)
  PROVE  /\ WriteField(field, v) \in ByteString
         /\ r.rest = WriteField(field, v) \o tail =>
              ReadField(r, field) =
                [ok |-> TRUE, rest |-> tail, value |-> With(r.value, field, v)]
<1> DEFINE S == 0..(Base - 1)
           w == WriteField(field, v)
           k == IF IsString(field) THEN Len(v) ELSE v
           s == IF IsString(field) THEN v \o tail ELSE tail
           head == WriteHeader(Major(field), k)
<1>1. ByteString = Seq(S)
  BY DEF ByteString
<1>2. /\ IsString(field) => v \in Seq(S)
      /\ k \in Nat /\ k < Powers[MaxWidth]
      /\ FieldOK(field, v)
  <2>1. IsString(field) => v \in Seq(S)
    BY <1>1 DEF IsValue
  <2>2. IsString(field) => Len(v) \in Nat
    <3> HIDE DEF S
    <3>. QED
      BY <2>1, LenProperties
  <2>. QED
    BY <2>1, <2>2 DEF IsValue
<1> HIDE DEF S
<1>3. s \in Seq(S)
  BY <1>1, <1>2, ConcatProperties
<1> HIDE DEF s
<1>4. head \in Seq(S) /\ Major(field) \in 0..4
  BY <1>1, <1>2, MajorFacts, HeaderWritten
<1> HIDE DEF k
<1>5. w \in Seq(S) /\ w \o tail = head \o s
  <2>1. CASE IsString(field)
    <3>1. w = head \o v /\ s = v \o tail /\ v \in Seq(S) /\ tail \in Seq(S)
      BY <1>1, <1>2, <2>1 DEF WriteField, k, s
    <3> HIDE DEF w, head
    <3>2. (head \o v) \o tail = head \o (v \o tail)
      BY <1>4, <3>1, ConcatAssociative
    <3>3. head \o v \in Seq(S)
      BY <1>4, <3>1, ConcatProperties
    <3>. QED
      BY <3>1, <3>2, <3>3
  <2>2. CASE ~IsString(field)
    <3>1. w = head /\ s = tail
      BY <2>2 DEF WriteField, k, s
    <3>. QED
      BY <1>4, <3>1
  <2>. QED
    BY <2>1, <2>2
<1>6. ASSUME r.rest = w \o tail
      PROVE  ReadField(r, field) =
                [ok |-> TRUE, rest |-> tail, value |-> With(r.value, field, v)]
  <2> DEFINE h == ReadHeader(r.rest)
             n == IF IsString(field) THEN h.argument ELSE 0
             x == IF IsString(field) THEN SubSeq(h.rest, 1, n) ELSE h.argument
             rest == SubSeq(h.rest, n + 1, Len(h.rest))
  <2>1. h = [ok |-> TRUE, major |-> Major(field), argument |-> k, rest |-> s]
    <3>1. ReadHeader(head \o s) =
            [ok |-> TRUE, major |-> Major(field), argument |-> k, rest |-> s]
      BY <1>1, <1>2, <1>3, <1>4, HeaderWritten
    <3>2. r.rest = head \o s
      BY <1>5, <1>6
    <3>. QED
      BY <3>1, <3>2
  <2>2. h.ok /\ h.major = Major(field) /\ h.argument = k /\ h.rest = s
    BY <2>1
  <2> HIDE DEF h
  <2>3. n <= Len(s) /\ x = v /\ rest = tail
    <3>1. CASE IsString(field)
      <4>1. k = Len(v) /\ s = v \o tail /\ v \in Seq(S) /\ tail \in Seq(S)
        BY <1>1, <1>2, <3>1 DEF k, s
      <4>2. Len(v) \in Nat /\ Len(tail) \in Nat /\ Len(s) = Len(v) + Len(tail)
        BY <4>1, LenProperties, ConcatProperties
      <4>3. SubSeq(v \o tail, 1, Len(v)) = v
        BY <4>1, PrefixOfConcat
      <4>4. SubSeq(v \o tail, Len(v) + 1, Len(v \o tail)) = tail
        BY <4>1, PrefixOfConcat
      <4>5. n = Len(v)
        BY <2>2, <3>1, <4>1
      <4>. QED
        BY <2>2, <3>1, <4>1, <4>2, <4>3, <4>4, <4>5
    <3>2. CASE ~IsString(field)
      <4>1. k = v /\ s = tail /\ n = 0 /\ x = v
        BY <2>2, <3>2 DEF k, s
      <4>2. Len(s) \in Nat
        BY <1>3, LenProperties
      <4>3. SubSeq(s, 1, Len(s)) = s
        BY <1>3, SubSeqFull
      <4>4. rest = SubSeq(s, 1, Len(s))
        BY <2>2, <4>1
      <4>. QED
        BY <4>1, <4>2, <4>3, <4>4
    <3>. QED
      BY <3>1, <3>2
  <2>4. r.ok /\ h.ok /\ h.major = Major(field) /\ n <= Len(h.rest) /\ FieldOK(field, x)
    BY <1>2, <2>2, <2>3
  <2>5. ReadField(r, field) = [ok |-> TRUE, rest |-> rest, value |-> With(r.value, field, x)]
    BY <2>4, ReadFieldCases DEF h
  <2> HIDE DEF x, rest, n
  <2>. QED
    BY <2>3, <2>5
<1> HIDE DEF w
<1>. QED
  BY <1>1, <1>5, <1>6 DEF w

\* Fields that were read are written as they were read, by whoever has their
\* values.
LEMMA FieldsRead ==
  ASSUME NEW r, NEW fields, NEW value, Len(fields) \in Nat,
         IsReader(r), r.rest \in ByteString, ReadFields(r, fields).ok,
         \A i, j \in 1..Len(fields) : fields[i] = fields[j] => i = j,
         \A i \in 1..Len(fields) :
           value[fields[i]] = ReadFields(r, fields).value[fields[i]]
  PROVE  /\ r.ok
         /\ IsReader(ReadFields(r, fields))
         /\ ReadFields(r, fields).rest \in ByteString
         /\ DOMAIN ReadFields(r, fields).value =
              DOMAIN r.value \cup {fields[i] : i \in 1..Len(fields)}
         /\ \A g \in DOMAIN r.value :
              (\A i \in 1..Len(fields) : g # fields[i]) =>
                ReadFields(r, fields).value[g] = r.value[g]
         /\ \A i \in 1..Len(fields) : IsValue(fields[i], value[fields[i]])
         /\ WriteFields(fields, value) \in ByteString
         /\ r.rest = WriteFields(fields, value) \o ReadFields(r, fields).rest
<1> DEFINE n == Len(fields)
           end == ReadFields(r, fields)
           S == 0..(Base - 1)
<1>1. PICK reader : /\ reader[0] = r
                    /\ \A i \in 1..n : reader[i] = ReadField(reader[i - 1], fields[i])
                    /\ end = reader[n]
  BY ReadFieldsUnfold
<1>2. PICK written : /\ written[0] = <<>>
                     /\ \A i \in 1..n :
                          written[i] = written[i - 1] \o WriteField(fields[i], value[fields[i]])
                     /\ WriteFields(fields, value) = written[n]
  BY WriteFieldsUnfold
<1>3. n \in Nat /\ n \in 0..n
  OBVIOUS
<1>4. ByteString = Seq(S)
  BY DEF ByteString
<1> HIDE DEF n, end, S
<1>5. \A i \in 0..n : IsReader(reader[i])
  <2> DEFINE T == {i \in 0..n : IsReader(reader[i])}
  <2>1. T \in SUBSET (0..n) /\ 0 \in T
    BY <1>1, <1>3
  <2>2. ASSUME NEW m \in T, m < n PROVE m + 1 \in T
    <3>1. m + 1 \in 1..n /\ m + 1 \in 0..n /\ (m + 1) - 1 = m
      BY <1>3, <2>2
    <3>. QED
      BY <1>1, <3>1, ReadFieldCases
  <2> HIDE DEF T
  <2>3. T = 0..n
    BY <1>3, <2>1, <2>2, BoundedInduction
  <2>. QED
    BY <2>3 DEF T
<1>6. \A i \in 0..n : reader[i].ok
  <2> DEFINE T == {k \in 0..n : reader[n - k].ok}
  <2>1. T \in SUBSET (0..n) /\ 0 \in T
    <3>1. n - 0 = n /\ 0 \in 0..n
      BY <1>3
    <3>. QED
      BY <1>1, <3>1 DEF end
  <2>2. ASSUME NEW m \in T, m < n PROVE m + 1 \in T
    <3>1. /\ m + 1 \in 0..n /\ n - m \in 1..n /\ (n - m) - 1 = n - (m + 1)
          /\ n - (m + 1) \in 0..n
      BY <1>3, <2>2
    <3>2. reader[n - m] = ReadField(reader[n - (m + 1)], fields[n - m])
      BY <1>1, <3>1
    <3>. QED
      BY <1>5, <3>1, <3>2, ReadFieldCases
  <2> HIDE DEF T
  <2>3. T = 0..n
    BY <1>3, <2>1, <2>2, BoundedInduction
  <2>4. ASSUME NEW i \in 0..n PROVE reader[i].ok
    <3>1. n - i \in 0..n /\ n - (n - i) = i
      BY <1>3
    <3>. QED
      BY <2>3, <3>1 DEF T
  <2>. QED
    BY <2>4
<1>7. ASSUME NEW k \in 1..n, reader[k - 1].rest \in ByteString
      PROVE  /\ reader[k].rest \in ByteString
             /\ \E v : /\ IsValue(fields[k], v)
                       /\ WriteField(fields[k], v) \in ByteString
                       /\ reader[k].value = With(reader[k - 1].value, fields[k], v)
                       /\ reader[k - 1].rest = WriteField(fields[k], v) \o reader[k].rest
  <2>1. k - 1 \in 0..n /\ k \in 0..n
    BY <1>3
  <2>2. IsReader(reader[k - 1]) /\ ReadField(reader[k - 1], fields[k]).ok
    BY <1>1, <1>5, <1>6, <2>1
  <2> DEFINE q == reader[k - 1]
             f == fields[k]
  <2>3. q.rest \in ByteString /\ reader[k] = ReadField(q, f)
    BY <1>1, <1>7
  <2> HIDE DEF q, f
  <2>4. IsReader(q) /\ ReadField(q, f).ok
    BY <2>2 DEF q, f
  <2>5. /\ ReadField(q, f).rest \in ByteString
        /\ \E v : /\ IsValue(f, v)
                  /\ WriteField(f, v) \in ByteString
                  /\ ReadField(q, f).value = With(q.value, f, v)
                  /\ q.rest = WriteField(f, v) \o ReadField(q, f).rest
    BY <2>3, <2>4, FieldRead
  <2>. QED
    BY <2>3, <2>5 DEF q, f
<1>8. \A k \in 0..n : reader[k].rest \in ByteString
  <2> DEFINE T == {k \in 0..n : reader[k].rest \in ByteString}
  <2>1. T \in SUBSET (0..n) /\ 0 \in T
    BY <1>1, <1>3
  <2>2. ASSUME NEW m \in T, m < n PROVE m + 1 \in T
    <3>1. m + 1 \in 1..n /\ m + 1 \in 0..n /\ (m + 1) - 1 = m
      BY <1>3, <2>2
    <3>. QED
      BY <1>7, <3>1
  <2> HIDE DEF T
  <2>3. T = 0..n
    BY <1>3, <2>1, <2>2, BoundedInduction
  <2>. QED
    BY <2>3 DEF T
<1>9. ASSUME NEW k \in 1..n
      PROVE  /\ DOMAIN reader[k].value = DOMAIN reader[k - 1].value \cup {fields[k]}
             /\ \A g \in DOMAIN reader[k - 1].value :
                  g # fields[k] => reader[k].value[g] = reader[k - 1].value[g]
             /\ IsValue(fields[k], reader[k].value[fields[k]])
             /\ WriteField(fields[k], reader[k].value[fields[k]]) \in ByteString
             /\ reader[k - 1].rest =
                  WriteField(fields[k], reader[k].value[fields[k]]) \o reader[k].rest
  <2>1. k - 1 \in 0..n
    BY <1>3
  <2>2. PICK v : /\ IsValue(fields[k], v)
                 /\ WriteField(fields[k], v) \in ByteString
                 /\ reader[k].value = With(reader[k - 1].value, fields[k], v)
                 /\ reader[k - 1].rest = WriteField(fields[k], v) \o reader[k].rest
    BY <1>7, <1>8, <2>1
  <2>3. reader[k].value[fields[k]] = v
    BY <2>2 DEF With
  <2>. QED
    BY <2>2, <2>3 DEF With
<1>10. \A k \in 0..n :
         /\ DOMAIN reader[k].value = DOMAIN r.value \cup {fields[i] : i \in 1..k}
         /\ \A g \in DOMAIN r.value :
              (\A i \in 1..k : g # fields[i]) => reader[k].value[g] = r.value[g]
  <2> DEFINE Known(k) == DOMAIN r.value \cup {fields[i] : i \in 1..k}
             Good(k) == /\ DOMAIN reader[k].value = Known(k)
                        /\ \A g \in DOMAIN r.value :
                             (\A i \in 1..k : g # fields[i]) => reader[k].value[g] = r.value[g]
             T == {k \in 0..n : Good(k)}
  <2>1. T \in SUBSET (0..n) /\ 0 \in T
    BY <1>1, <1>3
  <2>2. ASSUME NEW m \in T, m < n PROVE m + 1 \in T
    <3>1. m + 1 \in 1..n /\ m + 1 \in 0..n /\ (m + 1) - 1 = m /\ m \in Nat
      BY <1>3, <2>2
    <3>2. /\ DOMAIN reader[m + 1].value = Known(m) \cup {fields[m + 1]}
          /\ \A g \in Known(m) :
               g # fields[m + 1] => reader[m + 1].value[g] = reader[m].value[g]
      <4>1. DOMAIN reader[m].value = Known(m)
        OBVIOUS
      <4>2. /\ DOMAIN reader[m + 1].value = DOMAIN reader[(m + 1) - 1].value \cup {fields[m + 1]}
            /\ \A g \in DOMAIN reader[(m + 1) - 1].value :
                 g # fields[m + 1] =>
                   reader[m + 1].value[g] = reader[(m + 1) - 1].value[g]
        BY <1>9, <3>1
      <4> HIDE DEF Known, T
      <4>. QED
        BY <3>1, <4>1, <4>2
    <3>3. 1..(m + 1) = 1..m \cup {m + 1}
      BY <3>1
    <3>4. Known(m + 1) = Known(m) \cup {fields[m + 1]}
      BY <3>3
    <3>5. ASSUME NEW g \in DOMAIN r.value, \A i \in 1..(m + 1) : g # fields[i]
          PROVE  reader[m + 1].value[g] = r.value[g]
      <4>1. reader[m + 1].value[g] = reader[m].value[g]
        BY <3>2, <3>3, <3>5
      <4>2. reader[m].value[g] = r.value[g]
        BY <3>3, <3>5
      <4>. QED
        BY <4>1, <4>2
    <3>. QED
      BY <3>1, <3>2, <3>4, <3>5
  <2> HIDE DEF T
  <2>3. T = 0..n
    BY <1>3, <2>1, <2>2, BoundedInduction
  <2>. QED
    BY <2>3 DEF T
<1>11. ASSUME NEW i \in 1..n PROVE value[fields[i]] = reader[i].value[fields[i]]
  <2> DEFINE d == n - i
             T == {k \in 0..d : reader[i + k].value[fields[i]] = reader[i].value[fields[i]]}
  <2>1. d \in Nat /\ i + 0 = i /\ 0 \in 0..d /\ i + d = n /\ d \in 0..d /\ i \in Nat
    BY <1>3
  <2>2. T \in SUBSET (0..d) /\ 0 \in T
    BY <2>1
  <2>3. ASSUME NEW k \in T, k < d PROVE k + 1 \in T
    <3>1. /\ k + 1 \in 0..d /\ i + (k + 1) \in 1..n /\ (i + (k + 1)) - 1 = i + k
          /\ i + k \in 0..n /\ i \in 1..(i + k) /\ i # i + (k + 1)
      <4>1. k \in 0..d
        OBVIOUS
      <4> HIDE DEF T
      <4>. QED
        BY <1>3, <2>1, <2>3, <4>1
    <3>2. fields[i] # fields[i + (k + 1)]
      BY <3>1 DEF n
    <3>3. fields[i] \in DOMAIN reader[i + k].value
      BY <1>10, <3>1
    <3> DEFINE j == i + (k + 1)
    <3>4. j \in 1..n /\ j - 1 = i + k /\ fields[i] # fields[j]
      BY <3>1, <3>2
    <3> HIDE DEF j
    <3>5. \A g \in DOMAIN reader[i + k].value :
            g # fields[j] => reader[j].value[g] = reader[i + k].value[g]
      <4>1. \A g \in DOMAIN reader[j - 1].value :
              g # fields[j] => reader[j].value[g] = reader[j - 1].value[g]
        BY <1>9, <3>4
      <4>. QED
        BY <3>4, <4>1
    <3>6. reader[j].value[fields[i]] = reader[i + k].value[fields[i]]
      BY <3>3, <3>4, <3>5
    <3>. QED
      BY <3>1, <3>6 DEF j
  <2> HIDE DEF T, d
  <2>4. T = 0..d
    BY <2>1, <2>2, <2>3, BoundedInduction
  <2>5. d \in T
    BY <2>1, <2>4
  <2>6. reader[n].value[fields[i]] = reader[i].value[fields[i]]
    BY <2>1, <2>5 DEF T
  <2>7. value[fields[i]] = end.value[fields[i]]
    BY DEF n, end
  <2>. QED
    BY <1>1, <2>6, <2>7
<1>12. \A k \in 0..n : written[k] \in ByteString /\ r.rest = written[k] \o reader[k].rest
  <2> DEFINE T == {k \in 0..n : written[k] \in ByteString /\ r.rest = written[k] \o reader[k].rest}
  <2>1. T \in SUBSET (0..n) /\ 0 \in T
    <3>1. <<>> \in Seq(S) /\ <<>> \o r.rest = r.rest
      BY <1>4, EmptySeq, ConcatEmptySeq
    <3>2. written[0] \in ByteString /\ r.rest = written[0] \o reader[0].rest
      BY <1>1, <1>2, <1>4, <3>1
    <3>3. 0 \in 0..n
      BY <1>3
    <3>4. 0 \in T
      BY <3>2, <3>3
    <3>. QED
      BY <3>4
  <2>2. ASSUME NEW m \in T, m < n PROVE m + 1 \in T
    <3> DEFINE w == WriteField(fields[m + 1], value[fields[m + 1]])
               x == written[m]
               t == reader[m + 1].rest
    <3>1. m + 1 \in 1..n /\ m + 1 \in 0..n /\ (m + 1) - 1 = m
      BY <1>3, <2>2
    <3>2. w \in Seq(S) /\ reader[m].rest = w \o t
      BY <1>4, <1>9, <1>11, <3>1
    <3>3. written[m + 1] = x \o w
      BY <1>2, <3>1
    <3>4. x \in Seq(S) /\ t \in Seq(S) /\ r.rest = x \o (w \o t)
      BY <1>4, <1>8, <3>1, <3>2
    <3> HIDE DEF w, x
    <3>5. x \o w \in Seq(S)
      BY <3>2, <3>4, ConcatProperties
    <3>6. (x \o w) \o t = x \o (w \o t)
      <4> HIDE DEF t
      <4>. QED
        BY <3>2, <3>4, ConcatAssociative
    <3>. QED
      BY <1>4, <3>1, <3>3, <3>4, <3>5, <3>6
  <2> HIDE DEF T
  <2>3. T = 0..n
    BY <1>3, <2>1, <2>2, BoundedInduction
  <2>. QED
    BY <2>3 DEF T
<1>13. r.ok
  BY <1>1, <1>3, <1>6
<1>14. IsReader(end) /\ end.rest \in ByteString
  BY <1>1, <1>3, <1>5, <1>8
<1>15. /\ DOMAIN end.value = DOMAIN r.value \cup {fields[i] : i \in 1..n}
       /\ \A g \in DOMAIN r.value :
            (\A i \in 1..n : g # fields[i]) => end.value[g] = r.value[g]
  BY <1>1, <1>3, <1>10
<1>16. /\ WriteFields(fields, value) \in ByteString
       /\ r.rest = WriteFields(fields, value) \o end.rest
  BY <1>1, <1>2, <1>3, <1>12
<1>17. \A i \in 1..n : IsValue(fields[i], value[fields[i]])
  BY <1>9, <1>11
<1>. QED
  BY <1>13, <1>14, <1>15, <1>16, <1>17 DEF n, end

\* Fields that were written are read back.
LEMMA FieldsWritten ==
  ASSUME NEW r, NEW fields, NEW value, NEW tail \in ByteString, Len(fields) \in Nat,
         IsReader(r), r.ok,
         \A i \in 1..Len(fields) : IsValue(fields[i], value[fields[i]])
  PROVE  /\ WriteFields(fields, value) \in ByteString
         /\ r.rest = WriteFields(fields, value) \o tail =>
              /\ IsReader(ReadFields(r, fields))
              /\ ReadFields(r, fields).ok
              /\ ReadFields(r, fields).rest = tail
              /\ DOMAIN ReadFields(r, fields).value =
                   DOMAIN r.value \cup {fields[i] : i \in 1..Len(fields)}
              /\ \A i \in 1..Len(fields) :
                   ReadFields(r, fields).value[fields[i]] = value[fields[i]]
              /\ \A g \in DOMAIN r.value :
                   (\A i \in 1..Len(fields) : g # fields[i]) =>
                     ReadFields(r, fields).value[g] = r.value[g]
<1> DEFINE n == Len(fields)
           end == ReadFields(r, fields)
           S == 0..(Base - 1)
           W(i) == WriteField(fields[i], value[fields[i]])
<1>1. PICK reader : /\ reader[0] = r
                    /\ \A i \in 1..n : reader[i] = ReadField(reader[i - 1], fields[i])
                    /\ end = reader[n]
  BY ReadFieldsUnfold
<1>2. PICK written : /\ written[0] = <<>>
                     /\ \A i \in 1..n : written[i] = written[i - 1] \o W(i)
                     /\ WriteFields(fields, value) = written[n]
  BY WriteFieldsUnfold
<1>3. n \in Nat /\ n \in 0..n
  OBVIOUS
<1>4. ByteString = Seq(S)
  BY DEF ByteString
<1>5. \A i \in 1..n : IsValue(fields[i], value[fields[i]])
  OBVIOUS
<1> HIDE DEF n, end, S
<1>6. \A i \in 1..n : W(i) \in ByteString
  <2>1. ASSUME NEW i \in 1..n PROVE W(i) \in ByteString
    BY <1>5, FieldWritten
  <2>. QED
    BY <2>1
<1>7. \A k \in 0..n : written[k] \in ByteString
  <2> DEFINE T == {k \in 0..n : written[k] \in ByteString}
  <2>1. T \in SUBSET (0..n) /\ 0 \in T
    <3>1. <<>> \in Seq(S)
      BY EmptySeq
    <3>2. written[0] \in ByteString
      BY <1>2, <1>4, <3>1
    <3>. QED
      BY <1>3, <3>2
  <2>2. ASSUME NEW m \in T, m < n PROVE m + 1 \in T
    <3>1. m + 1 \in 1..n /\ m + 1 \in 0..n /\ (m + 1) - 1 = m
      BY <1>3, <2>2
    <3>2. written[m + 1] = written[m] \o W(m + 1) /\ W(m + 1) \in Seq(S) /\ written[m] \in Seq(S)
      BY <1>2, <1>4, <1>6, <3>1
    <3> HIDE DEF W
    <3>3. written[m + 1] \in Seq(S)
      BY <3>2, ConcatProperties
    <3>. QED
      BY <1>4, <3>1, <3>3
  <2> HIDE DEF T
  <2>3. T = 0..n
    BY <1>3, <2>1, <2>2, BoundedInduction
  <2>. QED
    BY <2>3 DEF T
<1> DEFINE Known(k) == DOMAIN r.value \cup {fields[i] : i \in 1..k}
           Good(k, t) ==
             /\ IsReader(reader[k]) /\ reader[k].ok /\ reader[k].rest = t
             /\ DOMAIN reader[k].value = Known(k)
             /\ \A i \in 1..k : reader[k].value[fields[i]] = value[fields[i]]
             /\ \A g \in DOMAIN r.value :
                  (\A i \in 1..k : g # fields[i]) => reader[k].value[g] = r.value[g]
           T == {k \in 0..n : \A t \in ByteString : r.rest = written[k] \o t => Good(k, t)}
<1>8. T = 0..n
  <2>1. T \in SUBSET (0..n) /\ 0 \in T
    <3>1. ASSUME NEW t \in ByteString, r.rest = written[0] \o t PROVE Good(0, t)
      <4>1. <<>> \o t = t
        BY <1>4, ConcatEmptySeq
      <4>2. reader[0].rest = t
        BY <1>1, <1>2, <3>1, <4>1
      <4>. QED
        BY <1>1, <4>2
    <3> HIDE DEF Good
    <3>. QED
      BY <1>3, <3>1
  <2>2. ASSUME NEW m \in T, m < n PROVE m + 1 \in T
    <3>1. m + 1 \in 1..n /\ m + 1 \in 0..n /\ (m + 1) - 1 = m /\ m \in 0..n /\ m \in Nat
      BY <1>3, <2>2
    <3>2. ASSUME NEW t \in ByteString, r.rest = written[m + 1] \o t PROVE Good(m + 1, t)
      <4> DEFINE w == W(m + 1)
                 x == written[m]
                 f == fields[m + 1]
                 v == value[f]
      <4>1. w \in Seq(S) /\ x \in Seq(S) /\ t \in Seq(S) /\ written[m + 1] = x \o w
        BY <1>2, <1>4, <1>6, <1>7, <3>1
      <4> HIDE DEF w, x
      <4>2. (x \o w) \o t = x \o (w \o t) /\ w \o t \in Seq(S)
        <5>1. w \o t \in Seq(S)
          BY <4>1, ConcatProperties
        <5>2. (x \o w) \o t = x \o (w \o t)
          <6>1. \A a, b, c \in Seq(S) : (a \o b) \o c = a \o (b \o c)
            BY ConcatAssociative
          <6>. QED
            BY <4>1, <6>1
        <5>. QED
          BY <5>1, <5>2
      <4>3. Good(m, w \o t)
        <5>1. r.rest = written[m] \o (w \o t)
          BY <3>2, <4>1, <4>2 DEF x
        <5> HIDE DEF Good
        <5>. QED
          BY <1>4, <2>2, <4>2, <5>1
      <4>4. reader[m + 1] = [ok |-> TRUE, rest |-> t, value |-> With(reader[m].value, f, v)]
        <5>1. /\ IsReader(reader[m]) /\ reader[m].ok
              /\ reader[m].rest = WriteField(f, v) \o t /\ IsValue(f, v)
          BY <1>5, <3>1, <4>3 DEF w
        <5>2. reader[m + 1] = ReadField(reader[m], f)
          BY <1>1, <3>1
        <5> DEFINE q == reader[m]
        <5> HIDE DEF q, f, v
        <5>3. IsReader(q) /\ q.ok /\ q.rest = WriteField(f, v) \o t /\ IsValue(f, v)
          BY <5>1 DEF q
        <5>4. ReadField(q, f) = [ok |-> TRUE, rest |-> t, value |-> With(q.value, f, v)]
          BY <5>3, FieldWritten
        <5>. QED
          BY <5>2, <5>4 DEF q
      <4>5. IsReader(reader[m + 1]) /\ reader[m + 1].ok /\ reader[m + 1].rest = t
        BY <4>4 DEF IsReader
      <4>6. /\ DOMAIN reader[m + 1].value = Known(m) \cup {f}
            /\ reader[m + 1].value[f] = v
            /\ \A g \in Known(m) : g # f => reader[m + 1].value[g] = reader[m].value[g]
        <5>1. reader[m + 1].value = With(reader[m].value, f, v)
          BY <4>4
        <5>2. DOMAIN reader[m].value = Known(m)
          BY <4>3
        <5> HIDE DEF Known, f, v
        <5>. QED
          BY <5>1, <5>2 DEF With
      <4>7. 1..(m + 1) = 1..m \cup {m + 1}
        BY <3>1
      <4>8. Known(m + 1) = Known(m) \cup {f}
        BY <4>7
      <4>9. ASSUME NEW i \in 1..(m + 1)
            PROVE  reader[m + 1].value[fields[i]] = value[fields[i]]
        <5>1. CASE fields[i] = f
          BY <4>6, <5>1
        <5>2. CASE fields[i] # f
          <6>1. i \in 1..m
            BY <4>7, <5>2
          <6>2. reader[m].value[fields[i]] = value[fields[i]]
            BY <4>3, <6>1
          <6>. QED
            BY <4>6, <5>2, <6>1, <6>2
        <5>. QED
          BY <5>1, <5>2
      <4>10. ASSUME NEW g \in DOMAIN r.value, \A i \in 1..(m + 1) : g # fields[i]
             PROVE  reader[m + 1].value[g] = r.value[g]
        <5>1. g # f /\ \A i \in 1..m : g # fields[i]
          BY <4>7, <4>10
        <5>2. reader[m].value[g] = r.value[g]
          BY <4>3, <5>1
        <5>. QED
          BY <4>6, <5>1, <5>2
      <4>. QED
        BY <4>5, <4>6, <4>8, <4>9, <4>10
    <3> HIDE DEF Good
    <3>. QED
      BY <3>1, <3>2
  <2> HIDE DEF T
  <2>. QED
    BY <1>3, <2>1, <2>2, BoundedInduction
<1>9. WriteFields(fields, value) \in ByteString
  BY <1>2, <1>3, <1>7
<1>10. ASSUME r.rest = WriteFields(fields, value) \o tail PROVE Good(n, tail)
  <2>1. n \in T
    BY <1>3, <1>8
  <2> HIDE DEF Good
  <2>. QED
    BY <1>2, <1>10, <2>1
<1>11. r.rest = WriteFields(fields, value) \o tail =>
         /\ IsReader(end) /\ end.ok /\ end.rest = tail
         /\ DOMAIN end.value = DOMAIN r.value \cup {fields[i] : i \in 1..n}
         /\ \A i \in 1..n : end.value[fields[i]] = value[fields[i]]
         /\ \A g \in DOMAIN r.value :
              (\A i \in 1..n : g # fields[i]) => end.value[g] = r.value[g]
  BY <1>1, <1>10
<1>. QED
  BY <1>9, <1>11 DEF n, end

(***************************************************************************)
(* AAD and envelopes.                                                      *)
(***************************************************************************)
\* What reading fields adds to a reader.
LEMMA FieldsReadDomain ==
  ASSUME NEW r, NEW fields, Len(fields) \in Nat,
         IsReader(r), r.rest \in ByteString, ReadFields(r, fields).ok,
         \A i, j \in 1..Len(fields) : fields[i] = fields[j] => i = j
  PROVE  /\ DOMAIN ReadFields(r, fields).value =
              DOMAIN r.value \cup {fields[i] : i \in 1..Len(fields)}
         /\ \A g \in DOMAIN r.value :
              (\A i \in 1..Len(fields) : g # fields[i]) =>
                ReadFields(r, fields).value[g] = r.value[g]
<1> DEFINE value == ReadFields(r, fields).value
<1>1. \A i \in 1..Len(fields) : value[fields[i]] = ReadFields(r, fields).value[fields[i]]
  OBVIOUS
<1> HIDE DEF value
<1>2. /\ WriteFields(fields, value) \in ByteString
      /\ DOMAIN ReadFields(r, fields).value =
           DOMAIN r.value \cup {fields[i] : i \in 1..Len(fields)}
      /\ \A g \in DOMAIN r.value :
           (\A i \in 1..Len(fields) : g # fields[i]) =>
             ReadFields(r, fields).value[g] = r.value[g]
  BY <1>1, FieldsRead
<1>. QED
  BY <1>2

\* The fields of a body, all different and none of them a field of the prefix.
LEMMA BodyFacts ==
  ASSUME NEW kind \in AadKind
  PROVE  /\ DecodedBody(kind) = EncodedBody(kind)
         /\ Len(EncodedBody(kind)) \in Nat
         /\ DOMAIN EncodedBody(kind) = 1..Len(EncodedBody(kind))
         /\ \A i, j \in 1..Len(EncodedBody(kind)) :
              EncodedBody(kind)[i] = EncodedBody(kind)[j] => i = j
         /\ \A i \in 1..Len(EncodedBody(kind)) :
              EncodedBody(kind)[i] \notin {"array_len", "version", "kind"}
<1>0. kind \in {1, 2, 3, 4}
  BY DEF AadKind
<1>1. CASE kind = 1
  BY <1>1 DEF EncodedBody, DecodedBody
<1>2. CASE kind = 2
  BY <1>2 DEF EncodedBody, DecodedBody
<1>3. CASE kind = 3
  BY <1>3 DEF EncodedBody, DecodedBody
<1>4. CASE kind = 4
  BY <1>4 DEF EncodedBody, DecodedBody
<1>. QED
  BY <1>0, <1>1, <1>2, <1>3, <1>4

LEMMA EnvelopeFacts ==
  ASSUME NEW env \in Envelope
  PROVE  /\ DecodedEnvelope(env) = EncodedEnvelope(env)
         /\ Len(EncodedEnvelope(env)) \in Nat
         /\ DOMAIN EncodedEnvelope(env) = 1..Len(EncodedEnvelope(env))
         /\ \A i, j \in 1..Len(EncodedEnvelope(env)) :
              EncodedEnvelope(env)[i] = EncodedEnvelope(env)[j] => i = j
         /\ \A i \in 1..Len(EncodedEnvelope(env)) :
              EncodedEnvelope(env)[i] # "array_len"
         /\ \E i \in 1..Len(EncodedEnvelope(env)) : EncodedEnvelope(env)[i] = "aad"
<1>1. CASE env = "System"
  BY <1>1 DEF EncodedEnvelope, DecodedEnvelope
<1>2. CASE env # "System"
  BY <1>2 DEF EncodedEnvelope, DecodedEnvelope
<1>. QED
  BY <1>1, <1>2

\* The length of an array is written as a header.
LEMMA ArrayLengthFacts ==
  /\ \A n : WriteField("array_len", n) = WriteHeader(ARRAY, n)
  /\ \A kind \in AadKind : IsValue("array_len", ArrayLength(kind))
  /\ \A env \in Envelope : IsValue("array_len", EnvelopeLength(env))
<1>1. Major("array_len") = ARRAY /\ ~IsString("array_len")
  BY DEF Major, IsString, ARRAY, BYTES, TEXT
<1>2. \A n : WriteField("array_len", n) = WriteHeader(ARRAY, n)
  BY <1>1 DEF WriteField
<1>3. ASSUME NEW n \in 0..9 PROVE IsValue("array_len", n)
  <2>1. n \in Nat /\ n < Base
    BY BaseFacts, CodecAssumption
  <2>2. FieldOK("array_len", n)
    BY DEF FieldOK
  <2>. QED
    BY <1>1, <2>1, <2>2, SmallFits DEF IsValue
<1>4. \A kind \in AadKind : ArrayLength(kind) \in 0..9
  BY DEF ArrayLength
<1>5. \A env \in Envelope : EnvelopeLength(env) \in 0..9
  BY DEF EnvelopeLength
<1>. QED
  BY <1>2, <1>3, <1>4, <1>5

\* An AAD is read from its own encoding only.
LEMMA AadRead ==
  ASSUME NEW buf \in ByteString, DecodeAad(AadKind, buf).ok
  PROVE  EncodeAad(DecodeAad(AadKind, buf).value) = buf
<1> DEFINE S == 0..(Base - 1)
           q == Reader(buf)
           a == ReadField(q, "array_len")
           b == ReadField(a, "version")
           p == ReadField(b, "kind")
           kind == p.value.kind
           end == ReadFields(p, DecodedBody(kind))
           value == DecodeAad(AadKind, buf).value
           body == EncodedBody(kind)
<1>1. ByteString = Seq(S)
  BY DEF ByteString
<1>2. /\ p.ok /\ kind \in AadKind /\ p.value.array_len = ArrayLength(kind)
      /\ DecodeAad(AadKind, buf) = Result(end) /\ Result(end).ok
  <2>1. DecodePrefix(buf) = p
    BY DEF DecodePrefix
  <2> HIDE DEF p
  <2>. QED
    BY <2>1 DEF DecodeAad, DecodeWithPrefix, Refused
<1>3. IsReader(q) /\ q.rest = buf
  BY DEF Reader, IsReader
<1> HIDE DEF S, q
<1>4. IsReader(a) /\ IsReader(b) /\ IsReader(p)
  BY <1>3, ReadFieldCases
<1> HIDE DEF p
<1>5. b.ok
  BY <1>2, <1>4, ReadFieldCases DEF p
<1> HIDE DEF b
<1>6. a.ok
  BY <1>4, <1>5, ReadFieldCases DEF b
<1>7. PICK n : /\ a.rest \in ByteString
               /\ WriteField("array_len", n) \in ByteString
               /\ a.value = With(q.value, "array_len", n)
               /\ buf = WriteField("array_len", n) \o a.rest
  BY <1>3, <1>6, FieldRead
<1> HIDE DEF a
<1>8. PICK v : /\ b.rest \in ByteString
               /\ WriteField("version", v) \in ByteString
               /\ b.value = With(a.value, "version", v)
               /\ a.rest = WriteField("version", v) \o b.rest
  BY <1>4, <1>5, <1>7, FieldRead DEF b
<1>9. PICK k : /\ p.rest \in ByteString
               /\ WriteField("kind", k) \in ByteString
               /\ p.value = With(b.value, "kind", k)
               /\ b.rest = WriteField("kind", k) \o p.rest
  BY <1>2, <1>4, <1>8, FieldRead DEF p
<1>10. /\ {"array_len", "version", "kind"} \subseteq DOMAIN p.value
       /\ p.value["array_len"] = n /\ p.value["version"] = v /\ p.value["kind"] = k
  BY <1>7, <1>8, <1>9 DEF With
<1>11. k = kind /\ n = ArrayLength(kind)
  BY <1>2, <1>10
<1> HIDE DEF kind
<1>12. /\ DecodedBody(kind) = body
       /\ Len(body) \in Nat
       /\ \A i, j \in 1..Len(body) : body[i] = body[j] => i = j
       /\ \A i \in 1..Len(body) : body[i] \notin {"array_len", "version", "kind"}
  BY <1>2, BodyFacts
<1> HIDE DEF body
<1>13. end = ReadFields(p, body)
  BY <1>12
<1> HIDE DEF end
<1>14. end.ok /\ end.rest = <<>>
  BY <1>2 DEF Result
<1>15. value = [field \in DOMAIN end.value \ {"array_len"} |-> end.value[field]]
  BY <1>2 DEF Result
<1> HIDE DEF value
<1>16. /\ DOMAIN end.value = DOMAIN p.value \cup {body[i] : i \in 1..Len(body)}
       /\ \A g \in DOMAIN p.value :
            (\A i \in 1..Len(body) : g # body[i]) => end.value[g] = p.value[g]
  <2>1. IsReader(p) /\ p.rest \in ByteString /\ ReadFields(p, body).ok
    BY <1>4, <1>9, <1>13, <1>14
  <2>2. /\ DOMAIN ReadFields(p, body).value =
             DOMAIN p.value \cup {body[i] : i \in 1..Len(body)}
        /\ \A g \in DOMAIN p.value :
             (\A i \in 1..Len(body) : g # body[i]) =>
               ReadFields(p, body).value[g] = p.value[g]
    BY <1>12, <2>1, FieldsReadDomain
  <2>. QED
    BY <1>13, <2>2
<1>17. value["version"] = v /\ value["kind"] = kind
  BY <1>10, <1>11, <1>12, <1>15, <1>16
<1>18. \A i \in 1..Len(body) : value[body[i]] = end.value[body[i]]
  BY <1>12, <1>15, <1>16
<1>19. /\ WriteFields(body, value) \in ByteString
       /\ p.rest = WriteFields(body, value) \o end.rest
  <2>1. /\ IsReader(p) /\ p.rest \in ByteString /\ ReadFields(p, body).ok
        /\ \A i \in 1..Len(body) : value[body[i]] = ReadFields(p, body).value[body[i]]
    BY <1>4, <1>9, <1>13, <1>14, <1>18
  <2>2. /\ WriteFields(body, value) \in ByteString
        /\ p.rest = WriteFields(body, value) \o ReadFields(p, body).rest
    BY <1>12, <2>1, FieldsRead
  <2>. QED
    BY <1>13, <2>2
<1>20. EncodeAad(value) = WriteField("array_len", n) \o WriteField("version", v)
                            \o WriteField("kind", k) \o WriteFields(body, value)
  BY <1>11, <1>17, ArrayLengthFacts DEF EncodeAad, body
<1> DEFINE A == WriteField("array_len", n)
           V == WriteField("version", v)
           K == WriteField("kind", k)
           F == WriteFields(body, value)
<1>21. /\ A \in Seq(S) /\ V \in Seq(S) /\ K \in Seq(S) /\ F \in Seq(S)
       /\ buf = A \o a.rest /\ a.rest = V \o b.rest /\ b.rest = K \o p.rest
       /\ p.rest = F \o <<>>
  BY <1>1, <1>7, <1>8, <1>9, <1>14, <1>19
<1> HIDE DEF A, V, K, F
<1>22. F \o <<>> = F
  BY <1>21, ConcatEmptySeq
<1>23. A \o V \o K \o F = A \o (V \o (K \o F))
  <2>1. A \in Seq(S) /\ V \in Seq(S) /\ K \in Seq(S) /\ F \in Seq(S)
    BY <1>21
  <2>. QED
    BY <2>1
<1>24. EncodeAad(value) = buf
  BY <1>20, <1>21, <1>22, <1>23 DEF A, V, K, F
<1>. QED
  BY <1>24 DEF value

\* An AAD that was encoded is read back.
LEMMA AadWritten ==
  ASSUME NEW value, value.kind \in AadKind,
         value = [field \in {"version", "kind"} \cup Range(EncodedBody(value.kind)) |->
                    value[field]],
         \A field \in {"version", "kind"} \cup Range(EncodedBody(value.kind)) :
           IsValue(field, value[field])
  PROVE  /\ EncodeAad(value) \in ByteString
         /\ DecodeAad(AadKind, EncodeAad(value)).ok
         /\ DecodeAad(AadKind, EncodeAad(value)).value = value
<1> DEFINE S == 0..(Base - 1)
           kind == value.kind
           body == EncodedBody(kind)
           n == ArrayLength(kind)
           A == WriteField("array_len", n)
           V == WriteField("version", value.version)
           K == WriteField("kind", kind)
           F == WriteFields(body, value)
           buf == A \o V \o K \o F
           q == Reader(buf)
           a == ReadField(q, "array_len")
           b == ReadField(a, "version")
           p == ReadField(b, "kind")
           end == ReadFields(p, body)
<1>1. ByteString = Seq(S)
  BY DEF ByteString
<1>2. EncodeAad(value) = buf
  BY ArrayLengthFacts DEF EncodeAad
<1>3. /\ DecodedBody(kind) = body
      /\ Len(body) \in Nat
      /\ Range(body) = {body[i] : i \in 1..Len(body)}
      /\ \A i \in 1..Len(body) : body[i] \notin {"array_len", "version", "kind"}
  BY BodyFacts DEF Range
<1>4. /\ IsValue("array_len", n) /\ IsValue("version", value.version) /\ IsValue("kind", kind)
      /\ \A i \in 1..Len(body) : IsValue(body[i], value[body[i]])
  <2>1. IsValue("array_len", n)
    BY ArrayLengthFacts
  <2>2. IsValue("version", value["version"]) /\ IsValue("kind", value["kind"])
    OBVIOUS
  <2>3. \A i \in 1..Len(body) : body[i] \in Range(body)
    BY <1>3
  <2>. QED
    BY <2>1, <2>2, <2>3
<1>5. DOMAIN value = {"version", "kind"} \cup {body[i] : i \in 1..Len(body)}
  BY <1>3
<1>6. value = [field \in {"version", "kind"} \cup {body[i] : i \in 1..Len(body)} |-> value[field]]
  BY <1>3
<1>7. IsReader(q) /\ q.ok /\ q.rest = buf /\ DOMAIN q.value = {}
  BY DEF Reader, IsReader
<1>8. kind \in AadKind /\ value["kind"] = kind /\ value["version"] = value.version
  OBVIOUS
<1> HIDE DEF S, q, kind, body, n
<1>9. A \in Seq(S) /\ V \in Seq(S) /\ K \in Seq(S)
  <2>1. <<>> \in ByteString
    BY <1>1, EmptySeq
  <2>. QED
    BY <1>1, <1>4, <1>7, <2>1, FieldWritten
<1>10. F \in Seq(S)
  <2>1. <<>> \in ByteString
    BY <1>1, EmptySeq
  <2>. QED
    BY <1>1, <1>3, <1>4, <1>7, <2>1, FieldsWritten
<1> HIDE DEF A, V, K, F
<1>11. /\ buf \in Seq(S)
       /\ buf = A \o (V \o (K \o F))
       /\ V \o (K \o F) \in Seq(S) /\ K \o F \in Seq(S)
  <2>1. K \o F \in Seq(S)
    BY <1>9, <1>10, ConcatProperties
  <2>2. V \o (K \o F) \in Seq(S)
    BY <1>9, <2>1, ConcatProperties
  <2>3. buf \in Seq(S) /\ buf = A \o (V \o (K \o F))
    <3>1. A \o V \in Seq(S)
      BY <1>9, ConcatProperties
    <3>2. A \o V \o K \in Seq(S)
      BY <1>9, <3>1, ConcatProperties
    <3>3. A \o V \o K \o F \in Seq(S)
      BY <1>10, <3>2, ConcatProperties
    <3>4. buf = A \o (V \o (K \o F))
      BY <1>9, <1>10
    <3>. QED
      BY <3>3, <3>4
  <2>. QED
    BY <2>1, <2>2, <2>3
<1> HIDE DEF buf
<1>12. a = [ok |-> TRUE, rest |-> V \o (K \o F), value |-> With(q.value, "array_len", n)]
  <2> DEFINE t == V \o (K \o F)
  <2>1. t \in ByteString /\ q.rest = WriteField("array_len", n) \o t
    BY <1>1, <1>7, <1>11 DEF A
  <2> HIDE DEF t
  <2>2. a = [ok |-> TRUE, rest |-> t, value |-> With(q.value, "array_len", n)]
    BY <1>4, <1>7, <2>1, FieldWritten
  <2>. QED
    BY <2>2 DEF t
<1>13. IsReader(a) /\ a.ok /\ a.rest = V \o (K \o F) /\ a.value = With(q.value, "array_len", n)
  BY <1>12 DEF IsReader
<1> HIDE DEF a
<1>14. b = [ok |-> TRUE, rest |-> K \o F, value |-> With(a.value, "version", value.version)]
  <2> DEFINE t == K \o F
             v == value.version
  <2>1. t \in ByteString /\ a.rest = WriteField("version", v) \o t /\ IsValue("version", v)
    BY <1>1, <1>4, <1>11, <1>13 DEF V
  <2> HIDE DEF t, v
  <2>2. b = [ok |-> TRUE, rest |-> t, value |-> With(a.value, "version", v)]
    BY <1>13, <2>1, FieldWritten
  <2>. QED
    BY <2>2 DEF t, v
<1>15. IsReader(b) /\ b.ok /\ b.rest = K \o F /\ b.value = With(a.value, "version", value.version)
  BY <1>14 DEF IsReader
<1> HIDE DEF b
<1>16. p = [ok |-> TRUE, rest |-> F, value |-> With(b.value, "kind", kind)]
  BY <1>1, <1>4, <1>10, <1>15, FieldWritten DEF K
<1>17. IsReader(p) /\ p.ok /\ p.rest = F /\ p.value = With(b.value, "kind", kind)
  BY <1>16 DEF IsReader
<1> HIDE DEF p
<1>18. /\ DOMAIN p.value = {"array_len", "version", "kind"}
       /\ p.value["array_len"] = n
       /\ p.value["version"] = value.version
       /\ p.value["kind"] = kind
  BY <1>7, <1>13, <1>15, <1>17 DEF With
<1>19. /\ end.ok /\ end.rest = <<>>
       /\ DOMAIN end.value = DOMAIN p.value \cup {body[i] : i \in 1..Len(body)}
       /\ \A i \in 1..Len(body) : end.value[body[i]] = value[body[i]]
       /\ \A g \in DOMAIN p.value :
            (\A i \in 1..Len(body) : g # body[i]) => end.value[g] = p.value[g]
  <2> DEFINE t == <<>>
  <2>1. t \in ByteString
    BY <1>1, EmptySeq
  <2>2. p.rest = WriteFields(body, value) \o t /\ Len(body) \in Nat
    BY <1>3, <1>10, <1>17, ConcatEmptySeq DEF F
  <2> HIDE DEF t, end
  <2>3. /\ ReadFields(p, body).ok
        /\ ReadFields(p, body).rest = t
        /\ DOMAIN ReadFields(p, body).value =
             DOMAIN p.value \cup {body[i] : i \in 1..Len(body)}
        /\ \A i \in 1..Len(body) : ReadFields(p, body).value[body[i]] = value[body[i]]
        /\ \A g \in DOMAIN p.value :
             (\A i \in 1..Len(body) : g # body[i]) =>
               ReadFields(p, body).value[g] = p.value[g]
    BY <1>4, <1>17, <2>1, <2>2, FieldsWritten
  <2>. QED
    BY <2>3 DEF t, end
<1> HIDE DEF end
<1> DEFINE known == {"version", "kind"} \cup {body[i] : i \in 1..Len(body)}
<1>20. DOMAIN end.value \ {"array_len"} = known
  BY <1>3, <1>18, <1>19
<1>21. \A field \in known : end.value[field] = value[field]
  BY <1>3, <1>8, <1>18, <1>19
<1>22. [field \in DOMAIN end.value \ {"array_len"} |-> end.value[field]] = value
  BY <1>6, <1>20, <1>21
<1>23. DecodeAad(AadKind, buf) = Result(end)
  <2>1. DecodePrefix(buf) = p
    BY DEF DecodePrefix, p, b, a, q
  <2>2. p.value.kind = kind /\ p.value.array_len = ArrayLength(kind)
    BY <1>18 DEF n
  <2>. QED
    BY <1>3, <1>8, <1>17, <2>1, <2>2 DEF DecodeAad, DecodeWithPrefix, end
<1>24. Result(end).ok /\ Result(end).value = value
  BY <1>19, <1>22 DEF Result
<1>. QED
  BY <1>1, <1>2, <1>11, <1>23, <1>24

\* An envelope is read from its own encoding only, and so is the AAD in it.
LEMMA EnvelopeRead ==
  ASSUME NEW env \in Envelope, NEW buf \in ByteString, DecodeEnvelope(env, buf).ok
  PROVE  /\ EncodeEnvelope(env, DecodeEnvelope(env, buf).value) = buf
         /\ DecodeEnvelope(env, buf).value.aad \in ByteString
         /\ BindAad(env, DecodeEnvelope(env, buf).value.aad)
<1> DEFINE S == 0..(Base - 1)
           q == Reader(buf)
           a == ReadField(q, "array_len")
           fields == EncodedEnvelope(env)
           end == ReadFields(a, DecodedEnvelope(env))
           value == DecodeEnvelope(env, buf).value
<1>1. ByteString = Seq(S)
  BY DEF ByteString
<1>2. /\ a.ok /\ a.value.array_len = EnvelopeLength(env)
      /\ DecodeEnvelope(env, buf) = Result(end)
      /\ Result(end).ok
      /\ BindAad(env, Result(end).value.aad)
  BY DEF DecodeEnvelope, Refused
<1>3. IsReader(q) /\ q.rest = buf
  BY DEF Reader, IsReader
<1> HIDE DEF S, q
<1>4. IsReader(a)
  BY <1>3, ReadFieldCases
<1>5. PICK n : /\ a.rest \in ByteString
               /\ WriteField("array_len", n) \in ByteString
               /\ a.value = With(q.value, "array_len", n)
               /\ buf = WriteField("array_len", n) \o a.rest
  BY <1>2, <1>3, FieldRead
<1> HIDE DEF a
<1>6. "array_len" \in DOMAIN a.value /\ n = EnvelopeLength(env)
  BY <1>2, <1>5 DEF With
<1>7. /\ DecodedEnvelope(env) = fields
      /\ Len(fields) \in Nat
      /\ \A i, j \in 1..Len(fields) : fields[i] = fields[j] => i = j
      /\ \A i \in 1..Len(fields) : fields[i] # "array_len"
      /\ \E i \in 1..Len(fields) : fields[i] = "aad"
  BY EnvelopeFacts
<1> HIDE DEF fields
<1>8. end = ReadFields(a, fields)
  BY <1>7
<1> HIDE DEF end
<1>9. end.ok /\ end.rest = <<>>
  BY <1>2 DEF Result
<1>10. value = [field \in DOMAIN end.value \ {"array_len"} |-> end.value[field]]
  BY <1>2 DEF Result
<1>11. BindAad(env, value.aad)
  BY <1>2
<1> HIDE DEF value
<1>12. DOMAIN end.value = DOMAIN a.value \cup {fields[i] : i \in 1..Len(fields)}
  <2>1. IsReader(a) /\ a.rest \in ByteString /\ ReadFields(a, fields).ok
    BY <1>4, <1>5, <1>8, <1>9
  <2>2. DOMAIN ReadFields(a, fields).value =
          DOMAIN a.value \cup {fields[i] : i \in 1..Len(fields)}
    BY <1>7, <2>1, FieldsReadDomain
  <2>. QED
    BY <1>8, <2>2
<1>13. \A i \in 1..Len(fields) : value[fields[i]] = end.value[fields[i]]
  BY <1>7, <1>10, <1>12
<1>14. /\ WriteFields(fields, value) \in ByteString
       /\ a.rest = WriteFields(fields, value) \o end.rest
       /\ \A i \in 1..Len(fields) : IsValue(fields[i], value[fields[i]])
  <2>1. /\ IsReader(a) /\ a.rest \in ByteString /\ ReadFields(a, fields).ok
        /\ \A i \in 1..Len(fields) : value[fields[i]] = ReadFields(a, fields).value[fields[i]]
    BY <1>4, <1>5, <1>8, <1>9, <1>13
  <2>2. /\ WriteFields(fields, value) \in ByteString
        /\ a.rest = WriteFields(fields, value) \o ReadFields(a, fields).rest
        /\ \A i \in 1..Len(fields) : IsValue(fields[i], value[fields[i]])
    BY <1>7, <2>1, FieldsRead
  <2>. QED
    BY <1>8, <2>2
<1>15. value.aad \in ByteString
  <2>1. IsValue("aad", value["aad"])
    BY <1>7, <1>14
  <2>2. IsString("aad")
    BY DEF IsString, Major, BYTES, TEXT
  <2>. QED
    BY <2>1, <2>2 DEF IsValue
<1>16. EncodeEnvelope(env, value) = WriteField("array_len", n) \o WriteFields(fields, value)
  BY <1>6, ArrayLengthFacts DEF EncodeEnvelope, fields
<1>17. WriteFields(fields, value) \o <<>> = WriteFields(fields, value)
  BY <1>1, <1>14, ConcatEmptySeq
<1>18. EncodeEnvelope(env, value) = buf
  BY <1>5, <1>9, <1>14, <1>16, <1>17
<1>. QED
  BY <1>11, <1>15, <1>18 DEF value

\* An envelope that was encoded is read back if the AAD in it is its own.
LEMMA EnvelopeWritten ==
  ASSUME NEW env \in Envelope, NEW value,
         value = [field \in Range(EncodedEnvelope(env)) |-> value[field]],
         \A field \in Range(EncodedEnvelope(env)) : IsValue(field, value[field])
  PROVE  /\ EncodeEnvelope(env, value) \in ByteString
         /\ DecodeEnvelope(env, EncodeEnvelope(env, value)).ok <=> BindAad(env, value.aad)
         /\ BindAad(env, value.aad) =>
              DecodeEnvelope(env, EncodeEnvelope(env, value)).value = value
<1> DEFINE S == 0..(Base - 1)
           fields == EncodedEnvelope(env)
           n == EnvelopeLength(env)
           A == WriteField("array_len", n)
           F == WriteFields(fields, value)
           buf == A \o F
           q == Reader(buf)
           a == ReadField(q, "array_len")
           end == ReadFields(a, fields)
<1>1. ByteString = Seq(S)
  BY DEF ByteString
<1>2. EncodeEnvelope(env, value) = buf
  BY ArrayLengthFacts DEF EncodeEnvelope
<1>3. /\ DecodedEnvelope(env) = fields
      /\ Len(fields) \in Nat
      /\ Range(fields) = {fields[i] : i \in 1..Len(fields)}
      /\ \A i \in 1..Len(fields) : fields[i] # "array_len"
  BY EnvelopeFacts DEF Range
<1>4. IsValue("array_len", n) /\ \A i \in 1..Len(fields) : IsValue(fields[i], value[fields[i]])
  <2>1. IsValue("array_len", n)
    BY ArrayLengthFacts
  <2>2. \A i \in 1..Len(fields) : fields[i] \in Range(fields)
    BY <1>3
  <2>. QED
    BY <2>1, <2>2
<1>5. value = [field \in {fields[i] : i \in 1..Len(fields)} |-> value[field]]
  BY <1>3
<1>6. IsReader(q) /\ q.ok /\ q.rest = buf /\ DOMAIN q.value = {}
  BY DEF Reader, IsReader
<1> HIDE DEF S, q, fields, n
<1>7. <<>> \in ByteString
  BY <1>1, EmptySeq
<1>8. A \in Seq(S)
  BY <1>1, <1>4, <1>6, <1>7, FieldWritten
<1>9. F \in Seq(S)
  BY <1>1, <1>3, <1>4, <1>6, <1>7, FieldsWritten
<1> HIDE DEF A, F
<1>10. buf \in Seq(S)
  BY <1>8, <1>9, ConcatProperties
<1>11. a = [ok |-> TRUE, rest |-> F, value |-> With(q.value, "array_len", n)]
  BY <1>1, <1>4, <1>6, <1>9, FieldWritten DEF A
<1> HIDE DEF buf
<1>12. IsReader(a) /\ a.ok /\ a.rest = F /\ a.value = With(q.value, "array_len", n)
  BY <1>11 DEF IsReader
<1> HIDE DEF a
<1>13. DOMAIN a.value = {"array_len"} /\ a.value["array_len"] = n
  BY <1>6, <1>12 DEF With
<1>14. /\ end.ok /\ end.rest = <<>>
       /\ DOMAIN end.value = DOMAIN a.value \cup {fields[i] : i \in 1..Len(fields)}
       /\ \A i \in 1..Len(fields) : end.value[fields[i]] = value[fields[i]]
  <2> DEFINE t == <<>>
  <2>1. t \in ByteString
    BY <1>7
  <2>2. a.rest = WriteFields(fields, value) \o t /\ Len(fields) \in Nat
    BY <1>3, <1>9, <1>12, ConcatEmptySeq DEF F
  <2> HIDE DEF t, end
  <2>3. /\ ReadFields(a, fields).ok
        /\ ReadFields(a, fields).rest = t
        /\ DOMAIN ReadFields(a, fields).value =
             DOMAIN a.value \cup {fields[i] : i \in 1..Len(fields)}
        /\ \A i \in 1..Len(fields) :
             ReadFields(a, fields).value[fields[i]] = value[fields[i]]
        /\ \A g \in DOMAIN a.value :
             (\A i \in 1..Len(fields) : g # fields[i]) =>
               ReadFields(a, fields).value[g] = a.value[g]
    <3> DEFINE r == a
               f == fields
    <3>1. IsReader(r) /\ r.ok /\ \A i \in 1..Len(f) : IsValue(f[i], value[f[i]])
      BY <1>4, <1>12
    <3>2. r.rest = WriteFields(f, value) \o t /\ Len(f) \in Nat
      BY <2>2
    <3> HIDE DEF r, f
    <3>3. /\ ReadFields(r, f).ok
          /\ ReadFields(r, f).rest = t
          /\ DOMAIN ReadFields(r, f).value =
               DOMAIN r.value \cup {f[i] : i \in 1..Len(f)}
          /\ \A i \in 1..Len(f) : ReadFields(r, f).value[f[i]] = value[f[i]]
          /\ \A g \in DOMAIN r.value :
               (\A i \in 1..Len(f) : g # f[i]) => ReadFields(r, f).value[g] = r.value[g]
      BY <2>1, <3>1, <3>2, FieldsWritten, SMTT(60)
    <3>. QED
      BY <3>3 DEF r, f
  <2>. QED
    BY <2>3 DEF t, end
<1> HIDE DEF end
<1>15. DOMAIN end.value \ {"array_len"} = {fields[i] : i \in 1..Len(fields)}
  BY <1>3, <1>13, <1>14
<1>16. [field \in DOMAIN end.value \ {"array_len"} |-> end.value[field]] = value
  BY <1>5, <1>14, <1>15
<1>17. Result(end).ok /\ Result(end).value = value
  BY <1>14, <1>16 DEF Result
<1>18. DecodeEnvelope(env, buf) = IF BindAad(env, value.aad) THEN Result(end) ELSE Refused
  <2>1. a.value.array_len = EnvelopeLength(env)
    BY <1>13 DEF n
  <2>2. a = ReadField(Reader(buf), "array_len") /\ end = ReadFields(a, DecodedEnvelope(env))
    BY <1>3 DEF a, q, end
  <2>. QED
    BY <1>12, <1>17, <2>1, <2>2 DEF DecodeEnvelope
<1>19. ~Refused.ok
  BY DEF Refused
<1>. QED
  BY <1>1, <1>2, <1>10, <1>17, <1>18, <1>19

(***************************************************************************)
(* Decoders of different types.                                            *)
(***************************************************************************)
\* A field that was read is known, and stays as the next ones are read.
LEMMA ReadFieldKeeps ==
  ASSUME NEW r, NEW field, IsReader(r), ReadField(r, field).ok
  PROVE  /\ IsReader(ReadField(r, field))
         /\ r.ok
         /\ field \in DOMAIN ReadField(r, field).value
         /\ \A g \in DOMAIN r.value :
              g # field => /\ g \in DOMAIN ReadField(r, field).value
                           /\ ReadField(r, field).value[g] = r.value[g]
<1> DEFINE h == ReadHeader(r.rest)
           n == IF IsString(field) THEN h.argument ELSE 0
           v == IF IsString(field) THEN SubSeq(h.rest, 1, n) ELSE h.argument
<1>1. /\ IsReader(ReadField(r, field)) /\ r.ok
      /\ ReadField(r, field).value = With(r.value, field, v)
  BY ReadFieldCases
<1> HIDE DEF v
<1>. QED
  BY <1>1 DEF With

\* The array header of buf, as every decoder reads it first.
ArrayHeader(buf) == ReadField(Reader(buf), "array_len")

\* A length that was read is a field of its reader.
LEMMA ArrayHeaderRead ==
  ASSUME NEW buf, ArrayHeader(buf).ok
  PROVE  IsReader(ArrayHeader(buf)) /\ "array_len" \in DOMAIN ArrayHeader(buf).value
<1>1. IsReader(Reader(buf))
  BY DEF IsReader, Reader
<1>. QED
  BY <1>1, ReadFieldKeeps DEF ArrayHeader

\* What the AAD decoder accepts is an array of seven or nine items.
LEMMA AadIsLong ==
  ASSUME NEW kinds, NEW buf, DecodeAad(kinds, buf).ok
  PROVE  /\ ArrayHeader(buf).value.array_len \in {7, 9}
         /\ DecodePrefix(buf).value.kind \in kinds
<1> DEFINE a == ArrayHeader(buf)
           b == ReadField(a, "version")
           p == ReadField(b, "kind")
<1>1. DecodePrefix(buf) = p
  BY DEF DecodePrefix, ArrayHeader
<1> HIDE DEF a, b, p
<1>2. /\ p.ok
      /\ p.value.kind \in kinds
      /\ p.value.array_len = ArrayLength(p.value.kind)
  BY <1>1 DEF DecodeAad, DecodeWithPrefix, Refused
<1>3. IsReader(a)
  <2>1. IsReader(Reader(buf))
    BY DEF IsReader, Reader
  <2>. QED
    BY <2>1, ReadFieldCases DEF a, ArrayHeader
<1>4. IsReader(b)
  BY <1>3, ReadFieldCases DEF b
<1>5. b.ok /\ \A g \in DOMAIN b.value : g # "kind" => p.value[g] = b.value[g]
  BY <1>2, <1>4, ReadFieldKeeps DEF p
<1>6. /\ a.ok
      /\ \A g \in DOMAIN a.value :
           g # "version" => g \in DOMAIN b.value /\ b.value[g] = a.value[g]
  BY <1>3, <1>5, ReadFieldKeeps DEF b
<1>7. "array_len" \in DOMAIN a.value
  BY <1>6, ArrayHeaderRead DEF a
<1>8. p.value.array_len = a.value.array_len
  BY <1>5, <1>6, <1>7
<1> QED BY <1>1, <1>2, <1>8 DEF a, ArrayLength

\* What an envelope decoder accepts is an array of six or four items around an
\* AAD of the right kind; Enclave and Reader envelopes are read alike.
LEMMA EnvelopeIsShort ==
  ASSUME NEW env \in Envelope, NEW buf, DecodeEnvelope(env, buf).ok
  PROVE  /\ ArrayHeader(buf).value.array_len = EnvelopeLength(env)
         /\ BindAad(env, Result(ReadFields(ArrayHeader(buf), DecodedEnvelope(env))).value.aad)
BY DEF DecodeEnvelope, ArrayHeader, Refused

\* The decoders of two types never accept the same bytes.
LEMMA DecodersDisjoint ==
  ASSUME NEW buf,
         NEW x \in Envelope \cup {"Aad"}, NEW y \in Envelope \cup {"Aad"},
         Decode(x, buf).ok, Decode(y, buf).ok
  PROVE  x = y
<1> DEFINE len == ArrayHeader(buf).value.array_len
           d == Result(ReadFields(ArrayHeader(buf), DecodedEnvelope("Reader")))
<1>1. ASSUME NEW z \in Envelope \cup {"Aad"}, Decode(z, buf).ok
      PROVE  \/ len = 6 /\ z = "System"
             \/ len = 4 /\ z \in {"Enclave", "Reader"}
             \/ len \in {7, 9} /\ z = "Aad"
  <2>1. CASE z = "Aad"
    BY <1>1, <2>1, AadIsLong DEF Decode
  <2>2. CASE z \in Envelope
    <3>1. len = EnvelopeLength(z)
      BY <1>1, <2>2, EnvelopeIsShort DEF Decode, Envelope
    <3> QED BY <2>2, <3>1 DEF EnvelopeLength, Envelope
  <2> QED BY <2>1, <2>2
<1>2. ~(Decode("Enclave", buf).ok /\ Decode("Reader", buf).ok)
  <2> SUFFICES ASSUME Decode("Enclave", buf).ok, Decode("Reader", buf).ok PROVE FALSE
    OBVIOUS
  <2>1. BindAad("Reader", d.value.aad)
    BY EnvelopeIsShort DEF Decode, Envelope
  <2>2. BindAad("Enclave", d.value.aad)
    BY EnvelopeIsShort DEF Decode, Envelope, DecodedEnvelope
  <2> HIDE DEF d
  <2> QED BY <2>1, <2>2 DEF BindAad, AadMatches
<1> HIDE DEF len
<1> QED BY <1>1, <1>2

\* Whatever was sent and however it was changed, the bytes have at most one
\* reading.
THEOREM OneReadingCorrect == Spec => []OneReading
<1>1. OneReading
  <2>1. ASSUME NEW m \in Readings(bytes), NEW n \in Readings(bytes) PROVE m = n
    BY DecodersDisjoint DEF Readings
  <2>2. ASSUME NEW j \in AadKind, NEW k \in AadKind,
               DecodeAad({j}, bytes).ok, DecodeAad({k}, bytes).ok
        PROVE  j = k
    BY <2>2, AadIsLong
  <2> QED BY <2>1, <2>2 DEF OneReading
<1> QED BY <1>1, PTL

(***************************************************************************)
(* What was encoded, and what damage makes of it.                          *)
(***************************************************************************)
\* A value that is encoded is read back by the decoder of its type, which
\* refuses an envelope around an AAD that is not its own.
LEMMA EncodedMessage ==
  ASSUME NEW m \in Messages
  PROVE  /\ m = [as |-> m.as, value |-> m.value] /\ m.as \in Envelope \cup {"Aad"}
         /\ Encode(m) \in ByteString
         /\ m.as = "Aad" \/ BindAad(m.as, m.value.aad) =>
              Decode(m.as, Encode(m)).ok /\ Decode(m.as, Encode(m)).value = m.value
         /\ ~(m.as = "Aad" \/ BindAad(m.as, m.value.aad)) => ~Decode(m.as, Encode(m)).ok
<1> DEFINE value == m.value
           env == m.as
<1>1. /\ m = [as |-> m.as, value |-> m.value] /\ m.as \in Envelope \cup {"Aad"}
      /\ m.as = "Aad" => m.value.kind \in AadKind
      /\ m.value = [field \in Fields(m) |-> m.value[field]]
      /\ \A field \in Fields(m) : IsValue(field, m.value[field])
  BY MessageAssumption
<1>2. CASE m.as = "Aad"
  <2>1. Fields(m) = {"version", "kind"} \cup Range(EncodedBody(value.kind))
    BY <1>2 DEF Fields
  <2>2. /\ value.kind \in AadKind
        /\ value = [field \in {"version", "kind"} \cup Range(EncodedBody(value.kind)) |->
                      value[field]]
        /\ \A field \in {"version", "kind"} \cup Range(EncodedBody(value.kind)) :
             IsValue(field, value[field])
    BY <1>1, <1>2, <2>1
  <2>3. Encode(m) = EncodeAad(value) /\ \A buf : Decode(m.as, buf) = DecodeAad(AadKind, buf)
    BY <1>2 DEF Encode, Decode
  <2> HIDE DEF value
  <2>4. /\ EncodeAad(value) \in ByteString
        /\ DecodeAad(AadKind, EncodeAad(value)).ok
        /\ DecodeAad(AadKind, EncodeAad(value)).value = value
    BY <2>2, AadWritten
  <2>. QED
    BY <1>1, <1>2, <2>3, <2>4 DEF value
<1>3. CASE m.as # "Aad"
  <2>1. Fields(m) = Range(EncodedEnvelope(env)) /\ env \in Envelope
    BY <1>1, <1>3 DEF Fields
  <2>2. /\ value = [field \in Range(EncodedEnvelope(env)) |-> value[field]]
        /\ \A field \in Range(EncodedEnvelope(env)) : IsValue(field, value[field])
    BY <1>1, <2>1
  <2>3. /\ Encode(m) = EncodeEnvelope(env, value)
        /\ \A buf : Decode(m.as, buf) = DecodeEnvelope(env, buf)
    BY <1>3 DEF Encode, Decode
  <2> HIDE DEF value, env
  <2>4. /\ EncodeEnvelope(env, value) \in ByteString
        /\ DecodeEnvelope(env, EncodeEnvelope(env, value)).ok <=> BindAad(env, value.aad)
        /\ BindAad(env, value.aad) =>
             DecodeEnvelope(env, EncodeEnvelope(env, value)).value = value
    BY <2>1, <2>2, EnvelopeWritten
  <2>. QED
    BY <1>1, <1>3, <2>3, <2>4 DEF value, env
<1>. QED
  BY <1>2, <1>3

\* Damage leaves a string of bytes.
LEMMA DamagedBytes ==
  ASSUME NEW s \in ByteString, NEW i \in 1..Len(s)
  PROVE  /\ RemoveAt(s, i) \in ByteString
         /\ \A b \in Byte : /\ ReplaceAt(s, i, b) \in ByteString
                            /\ InsertAt(s, i + 1, b) \in ByteString
<1> DEFINE S == 0..(Base - 1)
<1>1. s \in Seq(S) /\ Byte \subseteq S /\ ByteString = Seq(S)
  BY MessageAssumption DEF ByteString
<1> HIDE DEF S
<1>2. Len(s) \in Nat /\ i \in Int /\ \A j \in 1..Len(s) : s[j] \in S
  BY <1>1, LenProperties
<1>3. \A m, n \in Int : 1 <= m /\ n <= Len(s) => SubSeq(s, m, n) \in Seq(S)
  <2> SUFFICES ASSUME NEW m \in Int, NEW n \in Int, 1 <= m, n <= Len(s)
               PROVE  SubSeq(s, m, n) \in Seq(S)
    OBVIOUS
  <2>1. \A j \in m..n : s[j] \in S
    BY <1>2
  <2>. QED
    BY <2>1, SubSeqProperties
<1>4. /\ SubSeq(s, 1, i - 1) \in Seq(S) /\ SubSeq(s, i + 1, Len(s)) \in Seq(S)
      /\ SubSeq(s, 1, (i + 1) - 1) \in Seq(S)
  BY <1>2, <1>3
<1>5. RemoveAt(s, i) \in Seq(S)
  BY <1>4, ConcatProperties DEF RemoveAt
<1>6. ASSUME NEW b \in Byte
      PROVE  ReplaceAt(s, i, b) \in Seq(S) /\ InsertAt(s, i + 1, b) \in Seq(S)
  <2>1. b \in S /\ <<b>> \in Seq(S)
    BY <1>1
  <2>2. ReplaceAt(s, i, b) \in Seq(S)
    BY <1>1, <2>1, ExceptSeq DEF ReplaceAt
  <2>3. SubSeq(s, 1, (i + 1) - 1) \o <<b>> \in Seq(S)
    BY <1>4, <2>1, ConcatProperties
  <2>4. InsertAt(s, i + 1, b) \in Seq(S)
    BY <1>4, <2>3, ConcatProperties DEF InsertAt
  <2>. QED
    BY <2>2, <2>4
<1>. QED
  BY <1>1, <1>5, <1>6

\* The inductive invariant: bytes that were not changed are those of the value
\* that was sent, and changed or not they are bytes.
Received ==
  /\ sent \in Messages
  /\ bytes \in ByteString
  /\ edits \in Nat
  /\ edits = 0 => bytes = Encode(sent)

LEMMA ReceivedInvariant == Spec => []Received
<1>1. Init => Received
  BY EncodedMessage DEF Init, Received
<1>2. Received /\ [Damage]_vars => Received'
  <2> SUFFICES ASSUME Received, [Damage]_vars PROVE Received'
    OBVIOUS
  <2>1. CASE Damage
    <3>1. edits' \in Nat /\ edits' # 0 /\ sent' \in Messages
      BY <2>1 DEF Damage, Received
    <3>2. bytes' \in ByteString
      <4> DEFINE s == bytes
      <4>1. s \in ByteString
        BY DEF Received
      <4>2. PICK i \in 1..Len(s) : \/ bytes' = RemoveAt(s, i)
                                   \/ \E b \in Byte : \/ bytes' = ReplaceAt(s, i, b)
                                                      \/ bytes' = InsertAt(s, i + 1, b)
        BY <2>1 DEF Damage
      <4> HIDE DEF s
      <4>3. CASE bytes' = RemoveAt(s, i)
        BY <4>1, <4>3, DamagedBytes
      <4>4. ASSUME NEW b \in Byte, bytes' = ReplaceAt(s, i, b) PROVE bytes' \in ByteString
        BY <4>1, <4>4, DamagedBytes
      <4>5. ASSUME NEW b \in Byte, bytes' = InsertAt(s, i + 1, b) PROVE bytes' \in ByteString
        BY <4>1, <4>5, DamagedBytes
      <4>. QED
        BY <4>2, <4>3, <4>4, <4>5
    <3>. QED
      BY <3>1, <3>2 DEF Received
  <2>2. CASE UNCHANGED vars
    BY <2>2 DEF Received, vars
  <2>. QED
    BY <2>1, <2>2
<1>. QED
  BY <1>1, <1>2, PTL DEF Spec

\* Bytes that arrive as they were encoded are read as the value that was sent
\* and as nothing else, whatever the parameters of the codec and whatever
\* values of the types of the source are sent.
THEOREM RoundTripCorrect == Spec => []RoundTrip
<1>1. Received => RoundTrip
  <2> SUFFICES ASSUME Received, edits = 0
               PROVE  IF sent.as = "Aad" \/ BindAad(sent.as, sent.value.aad)
                        THEN Readings(bytes) = {sent}
                        ELSE \A m \in Readings(bytes) : m.as # sent.as
    BY DEF RoundTrip
  <2>1. sent \in Messages /\ bytes = Encode(sent)
    BY DEF Received
  <2>2. /\ sent = [as |-> sent.as, value |-> sent.value]
        /\ sent.as \in Envelope \cup {"Aad"}
        /\ sent.as = "Aad" \/ BindAad(sent.as, sent.value.aad) =>
             Decode(sent.as, bytes).ok /\ Decode(sent.as, bytes).value = sent.value
        /\ ~(sent.as = "Aad" \/ BindAad(sent.as, sent.value.aad)) =>
             ~Decode(sent.as, bytes).ok
    BY <2>1, EncodedMessage
  <2>3. CASE sent.as = "Aad" \/ BindAad(sent.as, sent.value.aad)
    <3>1. ASSUME NEW x \in Envelope \cup {"Aad"}, Decode(x, bytes).ok PROVE x = sent.as
      BY <2>2, <2>3, <3>1, DecodersDisjoint
    <3>2. Readings(bytes) = {[as |-> sent.as, value |-> Decode(sent.as, bytes).value]}
      BY <2>2, <2>3, <3>1 DEF Readings
    <3>. QED
      BY <2>2, <2>3, <3>2
  <2>4. CASE ~(sent.as = "Aad" \/ BindAad(sent.as, sent.value.aad))
    BY <2>2, <2>4 DEF Readings
  <2>. QED
    BY <2>3, <2>4
<1>. QED
  BY <1>1, ReceivedInvariant, PTL

\* Whatever happened to the bytes, a value that is read from them encodes to
\* these very bytes, and so does the AAD of an envelope.
THEOREM CanonicalCorrect == Spec => []Canonical
<1>1. Received => Canonical
  <2> SUFFICES ASSUME Received,
                      NEW x \in Envelope \cup {"Aad"}, Decode(x, bytes).ok,
                      NEW m, m = [as |-> x, value |-> Decode(x, bytes).value]
               PROVE  /\ Encode(m) = bytes
                      /\ m.as # "Aad" =>
                           EncodeAad(DecodeAad(AadKind, m.value.aad).value) = m.value.aad
    BY DEF Canonical, Readings
  <2>1. bytes \in ByteString
    BY DEF Received
  <2>2. m.as = x /\ m.value = Decode(x, bytes).value
    OBVIOUS
  <2>3. CASE x = "Aad"
    BY <2>1, <2>2, <2>3, AadRead DEF Encode, Decode
  <2>4. CASE x \in Envelope /\ x # "Aad"
    <3> DEFINE value == DecodeEnvelope(x, bytes).value
    <3>1. DecodeEnvelope(x, bytes).ok /\ m.value = value
      BY <2>2, <2>4 DEF Decode
    <3>2. EncodeEnvelope(x, value) = bytes /\ value.aad \in ByteString /\ BindAad(x, value.aad)
      BY <2>1, <2>4, <3>1, EnvelopeRead
    <3> HIDE DEF value
    <3>3. EncodeAad(DecodeAad(AadKind, value.aad).value) = value.aad
      BY <3>2, AadRead DEF BindAad
    <3>. QED
      BY <2>2, <2>4, <3>1, <3>2, <3>3 DEF Encode
  <2>. QED
    BY <2>3, <2>4
<1>. QED
  BY <1>1, ReceivedInvariant, PTL
=============================================================================
