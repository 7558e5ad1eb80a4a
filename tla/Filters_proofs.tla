--------------------------- MODULE Filters_proofs ---------------------------
(***************************************************************************)
(* Induction for recursive functions over an index, and what Only returns. *)
(*                                                                         *)
(* The induction theorems of the library take an operator; these take a    *)
(* set of numbers, and follow from the well-foundedness of Nat.            *)
(***************************************************************************)
EXTENDS Filters, Integers, WellFoundedInduction, TLAPS

(* A sequence of whatever elements.                                        *)
IsSeq(s) == \E T : s \in Seq(T)

(* Induction over the naturals, for a set of them. *)
LEMMA SetInduction ==
  ASSUME NEW S, 0 \in S, \A n \in Nat : n \in S => n + 1 \in S
  PROVE  Nat \subseteq S
<1>. SUFFICES ASSUME Nat \ S # {}  PROVE FALSE
  OBVIOUS
<1>1. \E x \in Nat \ S : \A y \in Nat \ S : ~(<<y, x>> \in OpToRel(<, Nat))
  BY NatLessThanWellFounded, WFMin, Zenon
<1>2. PICK x \in Nat \ S : \A y \in Nat \ S : ~(<<y, x>> \in OpToRel(<, Nat))
  BY <1>1
<1>3. \A y \in Nat \ S : ~(y < x)
  BY <1>2 DEF OpToRel
<1>4. x # 0 /\ x - 1 \in Nat
  OBVIOUS
<1>5. x - 1 \in S
  BY <1>3, <1>4
<1>. QED
  BY <1>4, <1>5

(* Induction up to a number. *)
LEMMA UpTo ==
  ASSUME NEW N \in Nat, NEW S, 0 \in S, \A n \in 0..(N - 1) : n \in S => n + 1 \in S
  PROVE  N \in S
<1>. DEFINE T == {n \in Nat : n <= N => n \in S}
<1>1. 0 \in T
  OBVIOUS
<1>2. \A n \in Nat : n \in T => n + 1 \in T
  OBVIOUS
<1>3. Nat \subseteq T
  <2>. HIDE DEF T
  <2>. QED
    BY <1>1, <1>2, SetInduction
<1>. QED
  BY <1>3

(* The value of Only's recursive function at i.                            *)
Keeping(k, s, S, i) ==
  IF i = 0 THEN <<>> ELSE IF s[i] \in S THEN Append(k[i - 1], s[i]) ELSE k[i - 1]

(* Only is the last value of a recursive function on the sequence. *)
LEMMA OnlyIs ==
  ASSUME NEW s, NEW S, Len(s) \in Nat
  PROVE  \E k : k = [i \in 0..Len(s) |-> Keeping(k, s, S, i)] /\ Only(s, S) = k[Len(s)]
<1>. DEFINE Has == {n \in Nat : \E k : k = [i \in 0..n |-> Keeping(k, s, S, i)]}
<1>1. 0 \in Has
  <2>. DEFINE k == [i \in 0..0 |-> <<>>]
  <2>1. k = [i \in 0..0 |-> Keeping(k, s, S, i)]
    BY DEF Keeping
  <2>. QED
    BY <2>1
<1>2. ASSUME NEW n \in Nat, n \in Has  PROVE n + 1 \in Has
  <2>1. PICK k : k = [i \in 0..n |-> Keeping(k, s, S, i)]
    BY <1>2
  <2>. DEFINE h == [i \in 0..(n + 1) |-> IF i = n + 1 THEN Keeping(k, s, S, i) ELSE k[i]]
  <2>2. \A i \in 0..(n + 1) : h[i] = Keeping(h, s, S, i)
    <3>. SUFFICES ASSUME NEW i \in 0..(n + 1)  PROVE h[i] = Keeping(h, s, S, i)
      OBVIOUS
    <3>1. i = 0 \/ h[i - 1] = k[i - 1]
      OBVIOUS
    <3>2. Keeping(h, s, S, i) = Keeping(k, s, S, i)
      BY <3>1 DEF Keeping
    <3>3. i # n + 1 => k[i] = Keeping(k, s, S, i)
      BY <2>1
    <3>. QED
      BY <3>2, <3>3
  <2>3. h = [i \in 0..(n + 1) |-> h[i]]
    OBVIOUS
  <2>. HIDE DEF h
  <2>4. h = [i \in 0..(n + 1) |-> Keeping(h, s, S, i)]
    BY <2>2, <2>3
  <2>. QED
    BY <2>4
<1>3. Nat \subseteq Has
  <2>. HIDE DEF Has
  <2>. QED
    BY <1>1, <1>2, SetInduction
<1>4. \E k : k = [i \in 0..Len(s) |-> Keeping(k, s, S, i)]
  BY <1>3
<1>. QED
  BY <1>4 DEF Only, Keeping

(* What Only keeps: the elements of s that are in S. *)
LEMMA OnlyKeeps ==
  ASSUME NEW T, NEW s \in Seq(T), NEW S
  PROVE  /\ Only(s, S) \in Seq(T)
         /\ \A x : (\E i \in DOMAIN Only(s, S) : Only(s, S)[i] = x)
                     <=> x \in S /\ \E i \in DOMAIN s : s[i] = x
<1>1. PICK k : k = [i \in 0..Len(s) |-> Keeping(k, s, S, i)] /\ Only(s, S) = k[Len(s)]
  BY OnlyIs
<1>. DEFINE Good(n) == /\ k[n] \in Seq(T)
                       /\ \A x : (\E i \in DOMAIN k[n] : k[n][i] = x)
                                    <=> x \in S /\ \E i \in 1..n : s[i] = x
            Goods == {n \in Nat : Good(n)}
<1>2. Good(0)
  <2>1. k[0] = <<>>
    BY <1>1 DEF Keeping
  <2>. QED
    BY <2>1
<1>3. ASSUME NEW n \in 0..(Len(s) - 1), Good(n)  PROVE Good(n + 1)
  <2>2. k[n + 1] = Keeping(k, s, S, n + 1)
    BY <1>1
  <2>3. k[n + 1] = IF s[n + 1] \in S THEN Append(k[n], s[n + 1]) ELSE k[n]
    BY <2>2 DEF Keeping
  <2>4. s[n + 1] \in T
    OBVIOUS
  <2>5. \A x : (\E i \in 1..(n + 1) : s[i] = x) <=> (\E i \in 1..n : s[i] = x) \/ s[n + 1] = x
    OBVIOUS
  <2>6. CASE s[n + 1] \in S
    <3>1. k[n + 1] = Append(k[n], s[n + 1]) /\ k[n + 1] \in Seq(T)
      BY <1>3, <2>3, <2>4, <2>6
    <3>2. DOMAIN k[n + 1] = DOMAIN k[n] \cup {Len(k[n]) + 1}
          /\ (\A i \in DOMAIN k[n] : k[n + 1][i] = k[n][i])
          /\ k[n + 1][Len(k[n]) + 1] = s[n + 1]
      BY <1>3, <2>4, <3>1
    <3>. QED
      BY <1>3, <2>5, <2>6, <3>1, <3>2
  <2>7. CASE s[n + 1] \notin S
    <3>1. k[n + 1] = k[n]
      BY <2>3, <2>7
    <3>. QED
      BY <1>3, <2>5, <2>7, <3>1
  <2>. QED
    BY <2>6, <2>7
<1>5. Good(Len(s))
  <2>. HIDE DEF Good
  <2>1. 0 \in Goods /\ \A n \in 0..(Len(s) - 1) : n \in Goods => n + 1 \in Goods
    BY <1>2, <1>3
  <2>. HIDE DEF Goods
  <2>2. Len(s) \in Goods
    BY <2>1, UpTo
  <2>. QED
    BY <2>2 DEF Goods
<1>6. DOMAIN s = 1..Len(s)
  OBVIOUS
<1>. QED
  BY <1>1, <1>5, <1>6
=============================================================================
