-------------------------- MODULE ArithmeticLemmas --------------------------
(***************************************************************************)
(* Multiplication and division by a parameter, which the provers do not    *)
(* decide by themselves: the other proofs are linear once they cite these. *)
(* And induction, over sets of numbers: a recursion whose steps are those  *)
(* of a function has a result after each number of steps.                  *)
(***************************************************************************)
EXTENDS Integers, TLAPS, WellFoundedInduction

(* Multiplication by a natural number is monotone. *)
LEMMA MulMonotone ==
    ASSUME NEW k \in Nat, NEW a \in Nat, NEW b \in Nat, a =< b
    PROVE  k * a =< k * b
<1>1. PICK d \in Nat : b = a + d
  <2>1. b - a \in Nat /\ b = a + (b - a)
    OBVIOUS
  <2> QED
    BY <2>1
<1>2. k * b = k * a + k * d
  BY <1>1
<1>3. k * d \in Nat /\ k * a \in Nat
  OBVIOUS
<1> QED
  BY <1>2, <1>3

(* A byte count obtained by dividing and adding one covers the pages. *)
LEMMA DivisionRoundsDown ==
    ASSUME NEW x \in Nat, NEW k \in Nat \ {0}
    PROVE  /\ x \div k \in Nat
           /\ x < k * ((x \div k) + 1)
           /\ x % k \in 0..(k - 1)
OBVIOUS

(* A number is its quotient times the divisor, plus its remainder. *)
LEMMA DivisionSplits ==
    ASSUME NEW x \in Nat, NEW k \in Nat \ {0}
    PROVE  /\ x \div k \in Nat
           /\ x % k \in 0..(k - 1)
           /\ x = k * (x \div k) + (x % k)
OBVIOUS

(* Rows of k numbers: a number of an earlier row is less than the first of *)
(* a later row.                                                            *)
LEMMA RowsInOrder ==
    ASSUME NEW k \in Nat \ {0}, NEW p \in Nat, NEW q \in Nat, p < q
    PROVE  k * p + k =< k * q
<1>1. k * (p + 1) =< k * q
  BY MulMonotone
<1>2. k * (p + 1) = k * p + k
  OBVIOUS
<1> QED
  BY <1>1, <1>2

(* Row and column of a number are unique. *)
LEMMA DivisionUnique ==
    ASSUME NEW k \in Nat \ {0}, NEW q \in Nat, NEW r \in 0..(k - 1),
           NEW x \in Nat, x = k * q + r
    PROVE  x \div k = q /\ x % k = r
<1> DEFINE p == x \div k
           s == x % k
<1>1. p \in Nat /\ s \in 0..(k - 1) /\ x = k * p + s
  BY DivisionSplits
<1>m. k * p \in Nat /\ k * q \in Nat
  BY <1>1
<1> HIDE DEF p, s
<1>2. CASE p < q
  <2>1. k * p + k =< k * q
    BY <1>1, <1>2, RowsInOrder
  <2> QED
    BY <1>1, <1>m, <2>1
<1>3. CASE q < p
  <2>1. k * q + k =< k * p
    BY <1>1, <1>3, RowsInOrder
  <2> QED
    BY <1>1, <1>m, <2>1
<1>4. CASE p = q
  <2>1. s = r
    BY <1>1, <1>m, <1>4
  <2> QED
    BY <1>4, <2>1 DEF p, s
<1> QED
  BY <1>1, <1>2, <1>3, <1>4

(* Remainder of a number that passes the divisor once. *)
LEMMA RemainderOnce ==
    ASSUME NEW k \in Nat \ {0}, NEW x \in Nat, k =< x, x < k + k
    PROVE  x % k = x - k
<1> DEFINE p == x \div k
           s == x % k
<1>1. p \in Nat /\ s \in 0..(k - 1) /\ x = k * p + s
  BY DivisionSplits
<1>2. k * p \in Nat
  BY <1>1
<1> HIDE DEF p, s
<1>3. CASE p < 1
  <2>1. p = 0 /\ k * 0 = 0
    BY <1>1, <1>3
  <2> QED
    BY <1>1, <2>1
<1>4. CASE 1 < p
  <2>1. k * 2 =< k * p /\ k * 2 = k + k
    BY <1>1, <1>4, MulMonotone
  <2> QED
    BY <1>1, <1>2, <2>1
<1>5. CASE p = 1
  <2>1. k * p = k
    BY <1>5
  <2>2. s = x - k
    BY <1>1, <2>1
  <2> QED
    BY <2>2 DEF s
<1> QED
  BY <1>1, <1>3, <1>4, <1>5

(* A number less than the first of row q lies in an earlier row. *)
LEMMA RowBelow ==
    ASSUME NEW k \in Nat \ {0}, NEW q \in Nat, NEW x \in Nat, x < k * q
    PROVE  x \div k < q
<1> DEFINE p == x \div k
           s == x % k
<1>1. p \in Nat /\ s \in 0..(k - 1) /\ x = k * p + s
  BY DivisionSplits
<1>m. k * p \in Nat /\ k * q \in Nat
  BY <1>1
<1> HIDE DEF p, s
<1>2. CASE q =< p
  <2>1. k * q =< k * p
    BY <1>1, <1>2, MulMonotone
  <2> QED
    BY <1>1, <1>m, <2>1
<1>3. p < q
  BY <1>1, <1>2
<1> QED
  BY <1>3 DEF p

(* The successor of a number is in the same row, unless it starts the next.*)
LEMMA NextInRow ==
    ASSUME NEW k \in Nat \ {0}, NEW x \in Nat
    PROVE  (x + 1) \div k = IF (x + 1) % k = 0 THEN (x \div k) + 1 ELSE x \div k
<1> DEFINE p == x \div k
           s == x % k
<1>1. p \in Nat /\ s \in 0..(k - 1) /\ x = k * p + s
  BY DivisionSplits
<1>m. k * p \in Nat /\ k * (p + 1) = k * p + k
  BY <1>1
<1> HIDE DEF p, s
<1>2. CASE s + 1 = k
  <2>1. x + 1 = k * (p + 1) + 0
    BY <1>1, <1>m, <1>2
  <2>2. (x + 1) \div k = p + 1 /\ (x + 1) % k = 0
    <3>1. \A y \in Nat, q \in Nat : y = k * q + 0 => y \div k = q /\ y % k = 0
      BY DivisionUnique
    <3>2. p + 1 \in Nat /\ x + 1 \in Nat
      BY <1>1
    <3> QED
      BY <2>1, <3>1, <3>2
  <2> QED
    BY <2>2 DEF p
<1>3. CASE s + 1 # k
  <2>1. x + 1 = k * p + (s + 1) /\ s + 1 \in 0..(k - 1) /\ s + 1 # 0
    BY <1>1, <1>m, <1>3
  <2>2. (x + 1) \div k = p /\ (x + 1) % k = s + 1
    <3>1. \A y \in Nat, q \in Nat, r \in 0..(k - 1) :
              y = k * q + r => y \div k = q /\ y % k = r
      BY DivisionUnique
    <3>2. p \in Nat /\ x + 1 \in Nat
      BY <1>1
    <3> QED
      BY <2>1, <3>1, <3>2
  <2> QED
    BY <2>1, <2>2 DEF p
<1> QED
  BY <1>2, <1>3

(* Every nonempty set of natural numbers has a least element. *)
LEMMA LeastNatural ==
    ASSUME NEW S, \A x \in S : x \in Nat, S # {}
    PROVE  \E k \in S : \A j \in S : k =< j
<1>1. S \subseteq Nat
  OBVIOUS
<1>2. PICK k \in S : \A j \in S : <<j, k>> \notin OpToRel(<, Nat)
  BY <1>1, NatLessThanWellFounded, WFMin
<1>3. \A j \in S : j < k => <<j, k>> \in OpToRel(<, Nat)
  BY DEF OpToRel
<1>4. \A j \in S : ~(j < k)
  BY <1>2, <1>3
<1>5. \A j \in S : k =< j
  BY <1>4
<1> QED
  BY <1>5

(* Induction: a set that has zero and with each number its successor has   *)
(* them all.                                                               *)
LEMMA NatInduct ==
    ASSUME NEW P, 0 \in P, \A n \in Nat : n \in P => n + 1 \in P
    PROVE  \A n \in Nat : n \in P
<1> DEFINE Bad == {n \in Nat : n \notin P}
<1>1. ASSUME Bad # {} PROVE FALSE
  <2>1. PICK k \in Bad : \A j \in Bad : k =< j
    BY <1>1, LeastNatural
  <2>2. k \in Nat /\ k \notin P /\ k # 0
    BY <2>1
  <2>3. k - 1 \in Nat /\ (k - 1) + 1 = k /\ ~(k =< k - 1)
    BY <2>2
  <2>4. k - 1 \in P
    BY <2>1, <2>3
  <2> QED
    BY <2>2, <2>3, <2>4
<1> QED
  BY <1>1

(* g tells from a state of A and a letter of B the next state; text has N  *)
(* letters; f is the run of g over it, from s on.                          *)
IsMachine(g, A, B) == g \in [A \X B -> A]

IsText(text, N, B) == text \in [1..N -> B]

IsRun(f, g, A, s, text, N) ==
    /\ f \in [0..N -> A] /\ f[0] = s
    /\ \A i \in 1..N : f[i] = g[<<f[i - 1], text[i]>>]

(* A machine has a run over every text. *)
LEMMA RunExists ==
    ASSUME NEW A, NEW B, NEW g, IsMachine(g, A, B), NEW s \in A,
           NEW N \in Nat, NEW text, IsText(text, N, B)
    PROVE  \E f : IsRun(f, g, A, s, text, N)
<1> USE DEF IsMachine, IsText
<1> DEFINE Upto(n) == {f \in [0..n -> A] :
                         f[0] = s /\ \A i \in 1..n : f[i] = g[<<f[i - 1], text[i]>>]}
           P == {n \in Nat : n =< N => Upto(n) # {}}
<1>1. 0 \in P
  <2>1. [i \in 0..0 |-> s] \in Upto(0)
    OBVIOUS
  <2> QED
    BY <2>1
<1>2. ASSUME NEW n \in Nat, n \in P PROVE n + 1 \in P
  <2> SUFFICES ASSUME n + 1 =< N PROVE Upto(n + 1) # {}
    OBVIOUS
  <2>1. PICK f \in [0..n -> A] :
           f[0] = s /\ \A i \in 1..n : f[i] = g[<<f[i - 1], text[i]>>]
    BY <1>2
  <2> DEFINE last == g[<<f[n], text[n + 1]>>]
             h == [i \in 0..(n + 1) |-> IF i = n + 1 THEN last ELSE f[i]]
  <2>2. last \in A
    BY <1>2, <2>1
  <2> HIDE DEF last
  <2>3. h \in [0..(n + 1) -> A]
    BY <2>1, <2>2
  <2>4. h[0] = s
    BY <2>1
  <2>5. ASSUME NEW i \in 1..(n + 1) PROVE h[i] = g[<<h[i - 1], text[i]>>]
    <3>1. CASE i = n + 1
      <4>1. i - 1 = n /\ n \in 0..(n + 1) /\ n # n + 1 /\ i \in 0..(n + 1)
        BY <1>2, <3>1
      <4> QED
        BY <3>1, <4>1 DEF last
    <3>2. CASE i # n + 1
      <4>1. i \in 1..n /\ i \in 0..(n + 1) /\ i - 1 \in 0..(n + 1) /\ i - 1 # n + 1
        BY <1>2, <3>2
      <4> QED
        BY <2>1, <3>2, <4>1
    <3> QED
      BY <3>1, <3>2
  <2>6. h \in Upto(n + 1)
    BY <2>3, <2>4, <2>5
  <2> QED
    BY <2>6
<1>3. N \in P
  <2> HIDE DEF P
  <2> QED
    BY <1>1, <1>2, NatInduct
<1>4. Upto(N) # {}
  BY <1>3
<1> QED
  BY <1>4 DEF IsRun
=============================================================================
