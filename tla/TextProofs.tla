----------------------------- MODULE TextProofs -----------------------------
(***************************************************************************)
(* Lemmas about data: induction over the naturals in a form that needs no  *)
(* operator as a parameter, functions defined by recursion, and what the   *)
(* conversions of names of module Text do to texts of any length.          *)
(***************************************************************************)
EXTENDS Text, Integers, WellFoundedInduction, TLAPS

(* Every set of natural numbers that is not empty has a least member.      *)
LEMMA LeastNatural ==
  ASSUME NEW S, S \subseteq Nat, S # {}
  PROVE  \E n \in S : \A m \in S : n <= m
<1> DEFINE Less == {p \in Nat \X Nat : p[1] < p[2]}
<1>1. OpToRel(<, Nat) = Less
  BY DEF OpToRel
<1>2. IsWellFoundedOn(OpToRel(<, Nat), Nat)
  BY NatLessThanWellFounded
<1>3. IsWellFoundedOn(Less, Nat)
  <2> HIDE DEF Less
  <2> QED
    BY <1>1, <1>2
<1>4. \E n \in S : \A m \in S : <<m, n>> \notin Less
  <2> HIDE DEF Less
  <2> QED
    BY <1>3, WFMin
<1>5. PICK n \in S : \A m \in S : <<m, n>> \notin Less
  BY <1>4
<1>6. ASSUME NEW m \in S PROVE n <= m
  <2>1. ~(m < n)
    BY <1>5
  <2> QED
    BY <2>1
<1> QED
  BY <1>6

(* Induction: a set that has 0 and with each number below n the next one.  *)
LEMMA Induction ==
  ASSUME NEW n \in Nat, NEW S, 0 \in S,
         \A k \in 0..n : k \in S /\ k < n => k + 1 \in S
  PROVE  0..n \subseteq S
<1> SUFFICES ASSUME ~(0..n \subseteq S) PROVE FALSE
  OBVIOUS
<1> DEFINE Missed == {k \in 0..n : k \notin S}
<1>1. Missed \subseteq Nat /\ Missed # {}
  OBVIOUS
<1>2. PICK k \in Missed : \A m \in Missed : k <= m
  BY <1>1, LeastNatural
<1>3. k # 0 /\ k - 1 \in 0..n /\ k - 1 < n
  OBVIOUS
<1>4. k - 1 \notin Missed
  BY <1>1, <1>2, <1>3
<1>5. k - 1 \in S
  BY <1>3, <1>4
<1>6. (k - 1) + 1 \in S
  BY <1>3, <1>5
<1> QED
  BY <1>6

(* So has every set of numbers up to some number a greatest.               *)
LEMMA GreatestMember ==
  ASSUME NEW n \in Nat, NEW S, S \subseteq 1..n, S # {}
  PROVE  Max(S) \in S /\ \A m \in S : m <= Max(S)
<1> DEFINE Below == {n - m : m \in S}
<1>1. Below \subseteq Nat /\ Below # {}
  <2>1. ASSUME NEW m \in S PROVE n - m \in Nat
    <3>1. m \in 1..n
      OBVIOUS
    <3> QED
      BY <3>1
  <2> QED
    BY <2>1
<1>2. PICK b \in Below : \A k \in Below : b <= k
  <2> HIDE DEF Below
  <2> QED
    BY <1>1, LeastNatural
<1>3. PICK g \in S : b = n - g
  BY <1>2
<1>4. \A m \in S : g >= m
  <2> SUFFICES ASSUME NEW m \in S PROVE g >= m
    OBVIOUS
  <2>1. n - g <= n - m
    BY <1>2, <1>3
  <2> QED
    BY <2>1
<1>5. Max(S) \in S /\ \A m \in S : Max(S) >= m
  BY <1>3, <1>4 DEF Max
<1> QED
  BY <1>5

(* Recursion: step[k] leads from the value for k - 1 to the value for k.   *)
Steps(step, n, V) == step \in [1..n -> [V -> V]]

Recursive(f, base, step, n, V) ==
  /\ f \in [0..n -> V]
  /\ f[0] = base
  /\ \A k \in 1..n : f[k] = step[k][f[k - 1]]

LEMMA RecursionExists ==
  ASSUME NEW n \in Nat, NEW V, NEW base \in V, NEW step, Steps(step, n, V)
  PROVE  \E f : Recursive(f, base, step, n, V)
<1> USE DEF Steps, Recursive
<1> DEFINE Upto(m, f) == /\ f \in [0..m -> V] /\ f[0] = base
                         /\ \A k \in 1..m : f[k] = step[k][f[k - 1]]
           S == {m \in 0..n : \E f \in [0..m -> V] : Upto(m, f)}
<1>1. 0 \in S
  <2> DEFINE f == [k \in 0..0 |-> base]
  <2>1. f \in [0..0 -> V] /\ Upto(0, f)
    OBVIOUS
  <2>2. 0 \in 0..n
    OBVIOUS
  <2> HIDE DEF f, Upto
  <2> QED
    BY <2>1, <2>2
<1>2. ASSUME NEW m \in 0..n, m \in S, m < n
      PROVE  m + 1 \in S
  <2>1. PICK f \in [0..m -> V] : Upto(m, f)
    BY <1>2
  <2> DEFINE g == [k \in 0..(m + 1) |-> IF k = m + 1 THEN step[m + 1][f[m]] ELSE f[k]]
  <2>2. m + 1 \in 1..n /\ f[m] \in V
    BY <1>2, <2>1
  <2>3. step[m + 1][f[m]] \in V
    BY <2>2
  <2>4. g \in [0..(m + 1) -> V]
    BY <2>1, <2>3
  <2>5. g[0] = base
    BY <2>1
  <2>6. ASSUME NEW k \in 1..(m + 1) PROVE g[k] = step[k][g[k - 1]]
    <3>1. CASE k = m + 1
      BY <2>2, <3>1
    <3>2. CASE k # m + 1
      <4>1. k \in 1..m /\ k - 1 \in 0..m /\ k \in 0..m
        BY <3>2
      <4>2. g[k] = f[k] /\ g[k - 1] = f[k - 1]
        BY <3>2, <4>1
      <4> QED
        BY <2>1, <4>1, <4>2
    <3> QED
      BY <3>1, <3>2
  <2>7. Upto(m + 1, g)
    BY <2>4, <2>5, <2>6
  <2>8. m + 1 \in 0..n
    BY <2>2
  <2> HIDE DEF g, Upto
  <2> QED
    BY <2>4, <2>7, <2>8
<1>3. n \in S
  <2> HIDE DEF S
  <2>1. 0..n \subseteq S
    BY <1>1, <1>2, Induction
  <2> QED
    BY <2>1
<1> QED
  BY <1>3

Alike(f, g, n) ==
  /\ f[0] = g[0]
  /\ \A k \in 1..n : f[k - 1] = g[k - 1] => f[k] = g[k]

LEMMA RecursionUnique ==
  ASSUME NEW n \in Nat, NEW f, NEW g, Alike(f, g, n)
  PROVE  \A k \in 0..n : f[k] = g[k]
<1> USE DEF Alike
<1> DEFINE S == {k \in 0..n : f[k] = g[k]}
<1>1. 0 \in S
  OBVIOUS
<1>2. \A k \in 0..n : k \in S /\ k < n => k + 1 \in S
  OBVIOUS
<1>3. 0..n \subseteq S
  <2> HIDE DEF S
  <2> QED
    BY <1>1, <1>2, Induction
<1> QED
  BY <1>3

LEMMA SameRecursion ==
  ASSUME NEW n \in Nat, NEW f, NEW g, Alike(f, g, n)
  PROVE  f[n] = g[n]
  BY RecursionUnique

(* The same without an end: a value for every natural number, each got by  *)
(* the same step from the one before.                                      *)
Repeats(f, base, step) == f[0] = base /\ \A n \in Nat : f[n + 1] = step[f[n]]

LEMMA RecursionOnNat ==
  ASSUME NEW V, NEW base \in V, NEW step \in [V -> V]
  PROVE  \E f \in [Nat -> V] : Repeats(f, base, step)
<1> DEFINE steps(n)  == [k \in 1..n |-> step]
           Upto(f, n) == Recursive(f, base, steps(n), n, V)
           F(n)       == CHOOSE f : Upto(f, n)
           g          == [n \in Nat |-> F(n)[n]]
<1>1. ASSUME NEW n \in Nat
      PROVE  /\ F(n) \in [0..n -> V] /\ F(n)[0] = base
             /\ \A k \in 1..n : F(n)[k] = step[F(n)[k - 1]]
  <2>1. Steps(steps(n), n, V)
    BY DEF Steps
  <2>2. \E f : Upto(f, n)
    <3> HIDE DEF steps
    <3> QED
      BY <2>1, RecursionExists
  <2>3. Upto(F(n), n)
    <3> HIDE DEF Upto
    <3> QED
      BY <2>2
  <2> HIDE DEF F
  <2> QED
    BY <2>3 DEF Recursive
<1> HIDE DEF F
<1>2. ASSUME NEW n \in Nat PROVE F(n + 1)[n] = F(n)[n]
  <2>1. Alike(F(n + 1), F(n), n)
    <3>1. F(n + 1)[0] = F(n)[0]
      BY <1>1
    <3>2. ASSUME NEW k \in 1..n, F(n + 1)[k - 1] = F(n)[k - 1]
          PROVE  F(n + 1)[k] = F(n)[k]
      <4>1. k \in 1..(n + 1) /\ n + 1 \in Nat
        OBVIOUS
      <4>2. F(n + 1)[k] = step[F(n + 1)[k - 1]]
        BY <1>1, <4>1
      <4>3. F(n)[k] = step[F(n)[k - 1]]
        BY <1>1
      <4> QED
        BY <3>2, <4>2, <4>3
    <3> QED
      BY <3>1, <3>2 DEF Alike
  <2> QED
    BY <2>1, SameRecursion
<1>3. g \in [Nat -> V]
  <2>1. \A n \in Nat : n \in 0..n
    OBVIOUS
  <2> QED
    BY <1>1, <2>1
<1>4. g[0] = base
  BY <1>1
<1>5. ASSUME NEW n \in Nat PROVE g[n + 1] = step[g[n]]
  <2>1. n + 1 \in Nat /\ n + 1 \in 1..(n + 1) /\ (n + 1) - 1 = n
    OBVIOUS
  <2>2. F(n + 1)[n + 1] = step[F(n + 1)[n]]
    BY <1>1, <2>1
  <2> QED
    BY <1>2, <2>1, <2>2
<1> QED
  <2>1. Repeats(g, base, step)
    BY <1>4, <1>5 DEF Repeats
  <2> HIDE DEF g
  <2> QED
    BY <1>3, <2>1

(* Two sequences of the same elements are the same.                        *)
LEMMA SameElements ==
  ASSUME NEW A, NEW s \in Seq(A), NEW t \in Seq(A), Len(s) = Len(t),
         \A j \in 1..Len(t) : s[j] = t[j]
  PROVE  s = t
<1>1. s = [j \in 1..Len(s) |-> s[j]] /\ t = [j \in 1..Len(t) |-> t[j]]
  OBVIOUS
<1> QED
  BY <1>1

-----------------------------------------------------------------------------
(* FlattenSeq                                                              *)

Flattens(f, s) == /\ f[0] = <<>>
                  /\ \A k \in 1..Len(s) : f[k] = f[k - 1] \o s[k]

LEMMA FlattenIsRecursive ==
  ASSUME NEW A, NEW s \in Seq(Seq(A))
  PROVE  \E f \in [0..Len(s) -> Seq(A)] : Flattens(f, s) /\ FlattenSeq(s) = f[Len(s)]
<1> DEFINE n    == Len(s)
           V    == Seq(A)
           step == [k \in 1..n |-> [x \in V |-> x \o s[k]]]
<1>1. n \in Nat /\ <<>> \in V /\ \A k \in 1..n : s[k] \in V
  OBVIOUS
<1>2. \A x \in V, y \in V : x \o y \in V
  OBVIOUS
<1> HIDE DEF V, n
<1>3. Steps(step, n, V)
  BY <1>1, <1>2 DEF Steps
<1>4. PICK f : Recursive(f, <<>>, step, n, V)
  <2>1. n \in Nat
    BY <1>1
  <2>2. <<>> \in V
    BY <1>1
  <2> HIDE DEF step
  <2> QED
    BY <1>3, <2>1, <2>2, RecursionExists
<1>5. \A k \in 1..n : f[k] = f[k - 1] \o s[k]
  <2> SUFFICES ASSUME NEW k \in 1..n PROVE f[k] = f[k - 1] \o s[k]
    OBVIOUS
  <2>1. f[k - 1] \in V
    BY <1>1, <1>4 DEF Recursive
  <2> QED
    BY <1>4, <2>1 DEF Recursive
<1>6. CASE n = 0
  <2>1. s = <<>>
    BY <1>6 DEF n
  <2>2. FlattenSeq(s) = <<>>
    BY <2>1 DEF FlattenSeq
  <2> QED
    BY <1>4, <1>5, <1>6, <2>2 DEF n, V, Flattens, Recursive
<1>7. CASE n # 0
  <2> DEFINE Eq(h) == h = [i \in 1..n |-> IF i = 1 THEN s[i] ELSE h[i - 1] \o s[i]]
             h     == [i \in 1..n |-> f[i]]
             g     == CHOOSE x : Eq(x)
  <2>1. f[1] = s[1]
    <3>0. 1 \in 1..n /\ 1 - 1 = 0
      BY <1>1, <1>7
    <3>1. f[1] = f[1 - 1] \o s[1] /\ s[1] \in V /\ f[0] = <<>>
      BY <1>1, <1>4, <1>5, <3>0 DEF Recursive
    <3>2. ASSUME NEW x \in V PROVE <<>> \o x = x
      BY DEF V
    <3> HIDE DEF V, step, Eq, h, g
    <3> QED
      BY <3>0, <3>1, <3>2
  <2>2. Eq(h)
    <3>1. ASSUME NEW i \in 1..n
          PROVE  f[i] = IF i = 1 THEN s[i] ELSE h[i - 1] \o s[i]
      <4>1. CASE i = 1
        BY <2>1, <4>1
      <4>2. CASE i # 1
        <5>1. i - 1 \in 1..n
          BY <1>1, <4>2
        <5>2. h[i - 1] = f[i - 1]
          BY <5>1
        <5> QED
          BY <1>5, <4>2, <5>2
      <4> QED
        BY <4>1, <4>2
    <3> QED
      BY <3>1
  <2>3. Eq(g)
    <3> HIDE DEF h, Eq
    <3> QED
      BY <2>2
  <2>4. FlattenSeq(s) = g[n]
    BY <1>7 DEF FlattenSeq, n
  <2> DEFINE z == [k \in 0..n |-> IF k = 0 THEN <<>> ELSE g[k]]
  <2>5. z[0] = f[0]
    BY <1>1, <1>4 DEF Recursive
  <2>6. \A k \in 1..n : g[k] = IF k = 1 THEN s[k] ELSE g[k - 1] \o s[k]
    <3> HIDE DEF g
    <3> QED
      BY <2>3
  <2>7. \A k \in 1..n : z[k - 1] = f[k - 1] => z[k] = f[k]
    <3> SUFFICES ASSUME NEW k \in 1..n, z[k - 1] = f[k - 1] PROVE z[k] = f[k]
      OBVIOUS
    <3> HIDE DEF g
    <3>1. z[k] = g[k]
      BY <1>1
    <3>2. CASE k = 1
      BY <2>1, <2>6, <3>1, <3>2
    <3>3. CASE k # 1
      <4>1. g[k - 1] = f[k - 1]
        BY <1>1, <3>3
      <4> QED
        BY <1>5, <2>6, <3>1, <3>3, <4>1
    <3> QED
      BY <3>2, <3>3
  <2>8. \A k \in 0..n : z[k] = f[k]
    <3>1. n \in Nat
      BY <1>1
    <3>2. Alike(z, f, n)
      BY <2>5, <2>7 DEF Alike
    <3> HIDE DEF z
    <3> QED
      BY <3>1, <3>2, RecursionUnique
  <2>9. g[n] = f[n]
    <3> HIDE DEF g
    <3> QED
      BY <1>1, <1>7, <2>8
  <2> QED
    BY <1>4, <1>5, <2>4, <2>9 DEF n, V, Flattens, Recursive
<1> QED
  BY <1>6, <1>7

LEMMA FlattenAppend ==
  ASSUME NEW A, NEW s \in Seq(Seq(A)), NEW e \in Seq(A)
  PROVE  /\ FlattenSeq(s) \in Seq(A)
         /\ FlattenSeq(Append(s, e)) = FlattenSeq(s) \o e
<1> DEFINE n == Len(s)
           t == Append(s, e)
<1>1. t \in Seq(Seq(A)) /\ Len(t) = n + 1 /\ n \in Nat /\ t[n + 1] = e
      /\ \A k \in 1..n : t[k] = s[k]
  OBVIOUS
<1> HIDE DEF t
<1>2. PICK f \in [0..n -> Seq(A)] : Flattens(f, s) /\ FlattenSeq(s) = f[n]
  BY FlattenIsRecursive
<1>3. PICK g \in [0..(n + 1) -> Seq(A)] : Flattens(g, t) /\ FlattenSeq(t) = g[n + 1]
  BY <1>1, FlattenIsRecursive
<1>4. f[0] = g[0]
  BY <1>2, <1>3 DEF Flattens
<1>5. \A k \in 1..n : f[k - 1] = g[k - 1] => f[k] = g[k]
  <2> SUFFICES ASSUME NEW k \in 1..n, f[k - 1] = g[k - 1] PROVE f[k] = g[k]
    OBVIOUS
  <2>1. f[k] = f[k - 1] \o s[k]
    BY <1>2 DEF Flattens
  <2>2. k \in 1..(n + 1)
    BY <1>1
  <2>3. g[k] = g[k - 1] \o t[k]
    BY <1>1, <1>3, <2>2 DEF Flattens
  <2> QED
    BY <1>1, <2>1, <2>3
<1>6. f[n] = g[n]
  <2>1. n \in Nat
    BY <1>1
  <2>2. Alike(f, g, n)
    BY <1>4, <1>5 DEF Alike
  <2> HIDE DEF n
  <2> QED
    BY <2>1, <2>2, SameRecursion, Zenon
<1>7. g[n + 1] = g[n] \o e
  <2>1. n + 1 \in 1..(n + 1) /\ (n + 1) - 1 = n
    BY <1>1
  <2>2. g[n + 1] = g[(n + 1) - 1] \o t[n + 1]
    BY <1>1, <1>3, <2>1 DEF Flattens
  <2> HIDE DEF n
  <2> QED
    BY <1>1, <2>1, <2>2
<1>8. f[n] = g[n] /\ f[n] \in Seq(A)
  BY <1>1, <1>2, <1>6
<1>9. FlattenSeq(t) = FlattenSeq(s) \o e
  <2>1. FlattenSeq(t) = g[n] \o e
    <3> HIDE DEF n
    <3> QED
      BY <1>3, <1>7, Zenon
  <2> HIDE DEF n
  <2> QED
    BY <1>2, <1>8, <2>1, Zenon
<1>10. FlattenSeq(s) \in Seq(A)
  <2> HIDE DEF n
  <2> QED
    BY <1>2, <1>8, Zenon
<1> QED
  BY <1>9, <1>10 DEF t

-----------------------------------------------------------------------------
(* Encode                                                                  *)

Escapable == {"%", "/", "&", " "}

CodeOf(c, unsafe) == IF c \in unsafe THEN Escaped(c) ELSE <<c>>

(* The characters of the encoding of a text over the characters A.         *)
Codes(A, unsafe) == (A \ unsafe) \cup {"%", "2", "5", "6", "F", "0"}

LEMMA ConcatTyped ==
  ASSUME NEW A, NEW s \in Seq(A), NEW t \in Seq(A)
  PROVE  /\ s \o t \in Seq(A)
         /\ Len(s \o t) = Len(s) + Len(t)
         /\ \A i \in 1..Len(s) : (s \o t)[i] = s[i]
         /\ \A i \in 1..Len(t) : (s \o t)[Len(s) + i] = t[i]
  OBVIOUS

LEMMA HexIsCode ==
  ASSUME NEW c \in Escapable
  PROVE  /\ Hex[c] \in {<<"2", "5">>, <<"2", "F">>, <<"2", "6">>, <<"2", "0">>}
         /\ \A d \in Escapable : Hex[c][2] = Hex[d][2] => c = d
<1>1. Hex["%"] = <<"2", "5">> /\ Hex["/"] = <<"2", "F">>
  BY DEF Hex
<1>2. Hex["&"] = <<"2", "6">> /\ Hex[" "] = <<"2", "0">>
  BY DEF Hex
<1>3. /\ <<"2", "5">>[2] = "5" /\ <<"2", "F">>[2] = "F"
      /\ <<"2", "6">>[2] = "6" /\ <<"2", "0">>[2] = "0"
  OBVIOUS
<1> QED
  BY <1>1, <1>2, <1>3 DEF Escapable

(* An escape is a percent sign and two digits.                             *)
LEMMA EscapeShape ==
  ASSUME NEW A, NEW unsafe, NEW c \in Escapable
  PROVE  /\ Escaped(c) \in Seq(Codes(A, unsafe))
         /\ Len(Escaped(c)) = 3
         /\ Escaped(c)[1] = "%"
         /\ Escaped(c)[3] = Hex[c][2]
<1> DEFINE B == Codes(A, unsafe)
<1>1. {"%", "2", "5", "6", "F", "0"} \subseteq B
  BY DEF Codes
<1> HIDE DEF B
<1>2. PICK a \in B, b \in B : Hex[c] = <<a, b>>
  BY <1>1, HexIsCode
<1>3. <<"%">> \in Seq(B) /\ <<a, b>> \in Seq(B) /\ Len(<<"%">>) = 1 /\ Len(<<a, b>>) = 2
      /\ <<"%">>[1] = "%" /\ <<a, b>>[2] = b
  BY <1>1
<1>4. <<"%">> \o <<a, b>> \in Seq(B) /\ Len(<<"%">> \o <<a, b>>) = 3
      /\ (<<"%">> \o <<a, b>>)[1] = "%"
      /\ (<<"%">> \o <<a, b>>)[1 + 2] = b
  BY <1>3, ConcatTyped
<1> QED
  BY <1>2, <1>3, <1>4 DEF Escaped, B

LEMMA CodeShape ==
  ASSUME NEW A, NEW unsafe \in SUBSET Escapable, NEW c \in A
  PROVE  /\ CodeOf(c, unsafe) \in Seq(Codes(A, unsafe))
         /\ Len(CodeOf(c, unsafe)) = IF c \in unsafe THEN 3 ELSE 1
         /\ CodeOf(c, unsafe)[1] = IF c \in unsafe THEN "%" ELSE c
<1>1. CASE c \in unsafe
  BY <1>1, EscapeShape DEF CodeOf
<1>2. CASE c \notin unsafe
  BY <1>2 DEF CodeOf, Codes
<1> QED
  BY <1>1, <1>2

LEMMA EncodeEmpty == \A unsafe : Encode(<<>>, unsafe) = <<>>
  BY DEF Encode, FlattenSeq

LEMMA EncodeAppend ==
  ASSUME NEW A, NEW unsafe \in SUBSET Escapable, NEW s \in Seq(A), NEW c \in A
  PROVE  /\ Encode(s, unsafe) \in Seq(Codes(A, unsafe))
         /\ Encode(Append(s, c), unsafe) = Encode(s, unsafe) \o CodeOf(c, unsafe)
<1> DEFINE B         == Codes(A, unsafe)
           t         == Append(s, c)
           CodesOf(r) == [j \in DOMAIN r |-> CodeOf(r[j], unsafe)]
<1>1. t \in Seq(A) /\ Len(t) = Len(s) + 1 /\ t[Len(s) + 1] = c
      /\ \A j \in 1..Len(s) : t[j] = s[j]
  OBVIOUS
<1>2. ASSUME NEW r \in Seq(A) PROVE CodesOf(r) \in Seq(Seq(B)) /\ Len(CodesOf(r)) = Len(r)
  <2>1. DOMAIN r = 1..Len(r) /\ Len(r) \in Nat /\ \A j \in 1..Len(r) : r[j] \in A
    OBVIOUS
  <2>2. \A j \in 1..Len(r) : CodeOf(r[j], unsafe) \in Seq(B)
    BY <2>1, CodeShape
  <2> HIDE DEF B
  <2> QED
    BY <2>1, <2>2
<1>3. CodeOf(c, unsafe) \in Seq(B)
  BY CodeShape
<1> HIDE DEF B, t
<1>4. CodesOf(t) = Append(CodesOf(s), CodeOf(c, unsafe))
  <2>1. CodesOf(s) \in Seq(Seq(B)) /\ Len(CodesOf(s)) = Len(s) /\ CodesOf(t) \in Seq(Seq(B))
        /\ Len(CodesOf(t)) = Len(s) + 1
    BY <1>1, <1>2
  <2>2. CodesOf(t)[Len(s) + 1] = CodeOf(c, unsafe)
    BY <1>1
  <2>3. \A j \in 1..Len(s) : CodesOf(t)[j] = CodesOf(s)[j]
    BY <1>1
  <2> HIDE DEF CodesOf
  <2> QED
    BY <1>3, <2>1, <2>2, <2>3
<1>5. FlattenSeq(CodesOf(t)) = FlattenSeq(CodesOf(s)) \o CodeOf(c, unsafe)
      /\ FlattenSeq(CodesOf(s)) \in Seq(B)
  <2>1. CodesOf(s) \in Seq(Seq(B))
    BY <1>2
  <2> HIDE DEF CodesOf
  <2> QED
    BY <1>3, <1>4, <2>1, FlattenAppend
<1>6. ASSUME NEW r PROVE Encode(r, unsafe) = FlattenSeq(CodesOf(r))
  BY DEF Encode, CodeOf
<1> HIDE DEF CodesOf
<1> QED
  BY <1>5, <1>6 DEF B, t

LEMMA EncodeTyped ==
  ASSUME NEW A, NEW unsafe \in SUBSET Escapable, NEW s \in Seq(A)
  PROVE  Encode(s, unsafe) \in Seq(Codes(A, unsafe))
<1>1. CASE A = {}
  <2>1. s = <<>>
    BY <1>1
  <2>2. <<>> \in Seq(Codes(A, unsafe))
    OBVIOUS
  <2> QED
    BY <2>1, <2>2, EncodeEmpty
<1>2. CASE A # {}
  BY <1>2, EncodeAppend
<1> QED
  BY <1>1, <1>2

LEMMA PrefixGrows ==
  ASSUME NEW A, NEW s \in Seq(A), NEW k \in 0..Len(s)
  PROVE  /\ SubSeq(s, 1, k) \in Seq(A)
         /\ k < Len(s) => SubSeq(s, 1, k + 1) = Append(SubSeq(s, 1, k), s[k + 1])
         /\ SubSeq(s, 1, Len(s)) = s
         /\ SubSeq(s, 1, 0) = <<>>
<1>1. SubSeq(s, 1, k) \in Seq(A) /\ Len(SubSeq(s, 1, k)) = k
      /\ \A j \in 1..k : SubSeq(s, 1, k)[j] = s[j]
  OBVIOUS
<1>2. ASSUME k < Len(s)
      PROVE  SubSeq(s, 1, k + 1) = Append(SubSeq(s, 1, k), s[k + 1])
  BY <1>2
<1> QED
  BY <1>1, <1>2

(* The encoding of a text begins with those of its prefixes, so the code   *)
(* of its character k + 1 stands behind the encoding of the first k.       *)
CodeAfter(s, k, unsafe) ==
  LET e == Encode(s, unsafe)
      l == Len(Encode(SubSeq(s, 1, k), unsafe))
      p == CodeOf(s[k + 1], unsafe)
  IN /\ l \in Nat /\ l + Len(p) <= Len(e)
     /\ \A i \in 1..Len(p) : e[l + i] = p[i]

LEMMA EncodeExtends ==
  ASSUME NEW A, NEW unsafe \in SUBSET Escapable, NEW s \in Seq(A), NEW k \in 0..Len(s), k < Len(s)
  PROVE  CodeAfter(s, k, unsafe)
<1> DEFINE E(m) == Encode(SubSeq(s, 1, m), unsafe)
           l    == Len(E(k))
           p    == CodeOf(s[k + 1], unsafe)
           B    == Codes(A, unsafe)
           n    == Len(s) - (k + 1)
           Good(e) == l + Len(p) <= Len(e) /\ \A i \in 1..Len(p) : e[l + i] = p[i]
           S    == {d \in 0..n : Good(E(k + 1 + d))}
<1>1. n \in Nat /\ k \in Nat /\ Len(s) \in Nat /\ k + 1 + n = Len(s)
  OBVIOUS
<1>2. ASSUME NEW m \in 0..Len(s)
      PROVE  E(m) \in Seq(B) /\ Len(E(m)) \in Nat
             /\ (m < Len(s) => /\ E(m + 1) = E(m) \o CodeOf(s[m + 1], unsafe)
                               /\ CodeOf(s[m + 1], unsafe) \in Seq(B))
  <2>1. SubSeq(s, 1, m) \in Seq(A)
    BY PrefixGrows
  <2>2. ASSUME NEW c \in A
        PROVE  /\ E(m) \in Seq(B) /\ CodeOf(c, unsafe) \in Seq(B)
               /\ Encode(Append(SubSeq(s, 1, m), c), unsafe) = E(m) \o CodeOf(c, unsafe)
    <3> DEFINE t == SubSeq(s, 1, m)
    <3>1. t \in Seq(A)
      BY <2>1
    <3> HIDE DEF t
    <3>2. /\ Encode(t, unsafe) \in Seq(Codes(A, unsafe))
          /\ Encode(Append(t, c), unsafe) = Encode(t, unsafe) \o CodeOf(c, unsafe)
      BY <3>1, EncodeAppend
    <3>3. CodeOf(c, unsafe) \in Seq(Codes(A, unsafe))
      BY CodeShape
    <3> QED
      BY <3>2, <3>3 DEF t
  <2>3. s[k + 1] \in A
    BY <1>1
  <2>4. E(m) \in Seq(B)
    BY <2>2, <2>3
  <2>5. ASSUME m < Len(s)
        PROVE  /\ E(m + 1) = E(m) \o CodeOf(s[m + 1], unsafe)
               /\ CodeOf(s[m + 1], unsafe) \in Seq(B)
    <3>1. s[m + 1] \in A
      BY <2>5
    <3>2. SubSeq(s, 1, m + 1) = Append(SubSeq(s, 1, m), s[m + 1])
      BY <2>5, PrefixGrows
    <3> QED
      BY <2>2, <3>1, <3>2
  <2> HIDE DEF E, B
  <2> QED
    BY <2>4, <2>5
<1>3. p \in Seq(B) /\ Len(p) \in Nat
  BY <1>1, <1>2
<1> HIDE DEF E, B, p
<1>4. Good(E(k + 1))
  <2>1. E(k + 1) = E(k) \o p /\ E(k) \in Seq(B)
    BY <1>1, <1>2 DEF p
  <2> QED
    BY <1>3, <2>1, ConcatTyped
<1>5. ASSUME NEW m \in 0..Len(s), m < Len(s), Good(E(m)) PROVE Good(E(m + 1))
  <2>1. PICK q \in Seq(B) : E(m + 1) = E(m) \o q
    BY <1>2, <1>5
  <2>2. E(m) \in Seq(B) /\ l \in Nat
    BY <1>1, <1>2
  <2> HIDE DEF l
  <2>3. Len(E(m) \o q) >= Len(E(m)) /\ \A i \in 1..Len(E(m)) : (E(m) \o q)[i] = E(m)[i]
    BY <2>1, <2>2
  <2>4. \A i \in 1..Len(p) : l + i \in 1..Len(E(m))
    BY <1>3, <1>5, <2>2
  <2> QED
    BY <1>3, <1>5, <2>1, <2>2, <2>3, <2>4
<1>6. n \in S
  <2> HIDE DEF Good
  <2>1. 0 \in S
    BY <1>1, <1>4
  <2>2. \A d \in 0..n : d \in S /\ d < n => d + 1 \in S
    <3> SUFFICES ASSUME NEW d \in 0..n, d \in S, d < n PROVE d + 1 \in S
      OBVIOUS
    <3>1. k + 1 + d \in 0..Len(s) /\ k + 1 + d < Len(s) /\ (k + 1 + d) + 1 = k + 1 + (d + 1)
          /\ d + 1 \in 0..n
      BY <1>1
    <3>2. Good(E((k + 1 + d) + 1))
      BY <1>5, <3>1
    <3> QED
      BY <3>1, <3>2
  <2>3. n \in 0..n
    BY <1>1
  <2>4. n \in Nat
    BY <1>1
  <2> HIDE DEF S, n
  <2> QED
    BY <2>1, <2>2, <2>3, <2>4, Induction
<1>7. Good(E(Len(s)))
  BY <1>1, <1>6
<1>8. E(Len(s)) = Encode(s, unsafe)
  BY <1>1, PrefixGrows DEF E
<1>9. l \in Nat
  BY <1>1, <1>2
<1> QED
  BY <1>7, <1>8, <1>9 DEF E, p, CodeAfter

(* Codes are told apart by what they begin with: an escape by its percent  *)
(* sign and its second digit, any other by its character.                  *)
LEMMA CodesDiffer ==
  ASSUME NEW unsafe \in SUBSET Escapable, "%" \in unsafe, NEW c, NEW d,
         NEW p, NEW q, p = CodeOf(c, unsafe), q = CodeOf(d, unsafe),
         p[1] = q[1], c \in unsafe /\ d \in unsafe => p[3] = q[3]
  PROVE  c = d
<1>1. ASSUME NEW x \in unsafe PROVE Escaped(x)[1] = "%" /\ Escaped(x)[3] = Hex[x][2]
  BY EscapeShape
<1>2. ASSUME NEW x PROVE <<x>>[1] = x
  OBVIOUS
<1>3. CASE c \in unsafe /\ d \in unsafe
  BY <1>1, <1>3, HexIsCode DEF CodeOf
<1>4. CASE c \in unsafe /\ d \notin unsafe
  BY <1>1, <1>2, <1>4 DEF CodeOf
<1>5. CASE c \notin unsafe /\ d \in unsafe
  BY <1>1, <1>2, <1>5 DEF CodeOf
<1>6. CASE c \notin unsafe /\ d \notin unsafe
  BY <1>2, <1>6 DEF CodeOf
<1> QED
  BY <1>3, <1>4, <1>5, <1>6

LEMMA EncodedAlikeIsPrefix ==
  ASSUME NEW A, NEW unsafe \in SUBSET Escapable, "%" \in unsafe,
         NEW s \in Seq(A), NEW t \in Seq(A), Encode(s, unsafe) = Encode(t, unsafe)
  PROVE  Len(s) <= Len(t) /\ \A j \in 1..Len(s) : s[j] = t[j]
<1> DEFINE L(r, k) == Len(Encode(SubSeq(r, 1, k), unsafe))
           P(r, k) == CodeOf(r[k + 1], unsafe)
<1>0. ASSUME NEW r \in Seq(A), NEW k \in 0..Len(r), k < Len(r)
      PROVE  /\ L(r, k) \in Nat /\ L(r, k) + Len(P(r, k)) <= Len(Encode(r, unsafe))
             /\ \A i \in 1..Len(P(r, k)) : Encode(r, unsafe)[L(r, k) + i] = P(r, k)[i]
             /\ Len(P(r, k)) = (IF r[k + 1] \in unsafe THEN 3 ELSE 1)
  <2>1. r[k + 1] \in A
    BY <1>0
  <2>2. Len(P(r, k)) = (IF r[k + 1] \in unsafe THEN 3 ELSE 1)
    <3> DEFINE c == r[k + 1]
    <3>1. c \in A
      BY <2>1
    <3> HIDE DEF c
    <3>2. Len(CodeOf(c, unsafe)) = (IF c \in unsafe THEN 3 ELSE 1)
      BY <3>1, CodeShape
    <3> QED
      BY <3>2 DEF c
  <2>3. /\ L(r, k) \in Nat /\ L(r, k) + Len(P(r, k)) <= Len(Encode(r, unsafe))
        /\ \A i \in 1..Len(P(r, k)) : Encode(r, unsafe)[L(r, k) + i] = P(r, k)[i]
    <3>1. CodeAfter(r, k, unsafe)
      BY <1>0, EncodeExtends
    <3> QED
      BY <3>1 DEF CodeAfter
  <2> HIDE DEF L, P
  <2> QED
    BY <2>2, <2>3, Zenon
<1> DEFINE n == Len(s)
           e == Encode(s, unsafe)
           S == {k \in 0..n : k <= Len(t) /\ \A j \in 1..k : s[j] = t[j]}
<1>1. n \in Nat /\ Len(t) \in Nat
  OBVIOUS
<1>2. 0 \in S
  BY <1>1
<1>3. ASSUME NEW k \in 0..n, k \in S, k < n PROVE k + 1 \in S
  <2> DEFINE l == L(s, k)
             p == P(s, k)
             q == P(t, k)
  <2>1. k + 1 \in 1..n /\ k \in 0..Len(t) /\ k \in 0..Len(s) /\ s[k + 1] \in A
    BY <1>1, <1>3
  <2>2. SubSeq(s, 1, k) = SubSeq(t, 1, k)
    <3>1. SubSeq(s, 1, k) \in Seq(A) /\ SubSeq(t, 1, k) \in Seq(A)
          /\ Len(SubSeq(s, 1, k)) = k /\ Len(SubSeq(t, 1, k)) = k
      BY <2>1
    <3>2. \A j \in 1..k : SubSeq(s, 1, k)[j] = SubSeq(t, 1, k)[j]
      BY <1>3, <2>1
    <3> DEFINE a == SubSeq(s, 1, k)
               b == SubSeq(t, 1, k)
    <3> HIDE DEF a, b
    <3>3. a \in Seq(A) /\ b \in Seq(A) /\ Len(a) = k /\ Len(b) = k /\ \A j \in 1..k : a[j] = b[j]
      BY <3>1, <3>2 DEF a, b
    <3>4. a = b
      BY <3>3
    <3> QED
      BY <3>4 DEF a, b
  <2>3. l \in Nat /\ l + Len(p) <= Len(e) /\ \A i \in 1..Len(p) : e[l + i] = p[i]
    BY <1>0, <1>3, <2>1
  <2>4. Len(p) = (IF s[k + 1] \in unsafe THEN 3 ELSE 1)
    BY <1>0, <1>3, <2>1
  <2>5. k < Len(t)
    <3>1. SUFFICES ASSUME k = Len(t) PROVE FALSE
      BY <1>1, <2>1
    <3>2. SubSeq(t, 1, Len(t)) = t
      BY PrefixGrows, <1>1
    <3>3. l = Len(e)
      BY <2>2, <3>1, <3>2 DEF L
    <3> HIDE DEF l, e, p
    <3> QED
      BY <2>3, <2>4, <3>3
  <2>6. t[k + 1] \in A
    BY <1>1, <2>1, <2>5
  <2>7. l + Len(q) <= Len(e) /\ \A i \in 1..Len(q) : e[l + i] = q[i]
    <3>1. L(t, k) = l
      BY <2>2
    <3>2. L(t, k) + Len(q) <= Len(Encode(t, unsafe))
          /\ \A i \in 1..Len(q) : Encode(t, unsafe)[L(t, k) + i] = q[i]
      BY <1>0, <2>1, <2>5
    <3> QED
      BY <3>1, <3>2
  <2>8. Len(q) = (IF t[k + 1] \in unsafe THEN 3 ELSE 1)
    BY <1>0, <2>1, <2>5
  <2>9. p[1] = q[1] /\ (s[k + 1] \in unsafe /\ t[k + 1] \in unsafe => p[3] = q[3])
    <3> HIDE DEF l, e, p, q
    <3> QED
      BY <2>3, <2>4, <2>7, <2>8
  <2>10. s[k + 1] = t[k + 1]
    BY <2>9, CodesDiffer
  <2>11. k + 1 <= Len(t) /\ k + 1 \in 0..n
    BY <1>1, <2>1, <2>5
  <2>12. \A j \in 1..(k + 1) : s[j] = t[j]
    BY <1>3, <2>1, <2>10
  <2> QED
    BY <2>11, <2>12
<1>4. n \in 0..n
  BY <1>1
<1>5. n \in S
  <2> HIDE DEF S, n
  <2>1. n \in Nat
    BY <1>1
  <2> QED
    BY <1>2, <1>3, <1>4, <2>1, Induction
<1> QED
  BY <1>5

(* Two texts never get one encoding.                                       *)
LEMMA EncodeInjective ==
  ASSUME NEW A, NEW unsafe \in SUBSET Escapable, "%" \in unsafe,
         NEW s \in Seq(A), NEW t \in Seq(A), Encode(s, unsafe) = Encode(t, unsafe)
  PROVE  s = t
<1>1. Len(s) <= Len(t) /\ \A j \in 1..Len(s) : s[j] = t[j]
  BY EncodedAlikeIsPrefix
<1>2. Len(t) <= Len(s)
  BY EncodedAlikeIsPrefix
<1>3. Len(s) = Len(t)
  BY <1>1, <1>2
<1> QED
  BY <1>1, <1>3

(* A name without a slash is what follows the last slash of its path.      *)
LEMMA StripOfName ==
  ASSUME NEW A, "/" \notin A, NEW s \in Seq(A)
  PROVE  StripPath(<<"/">> \o s) = s
<1> DEFINE B    == A \cup {"/"}
           path == <<"/">> \o s
           at   == {j \in DOMAIN path : path[j] = "/"}
<1>1. <<"/">> \in Seq(B) /\ s \in Seq(B) /\ Len(<<"/">>) = 1 /\ <<"/">>[1] = "/"
      /\ Len(s) \in Nat
  OBVIOUS
<1>2. /\ path \in Seq(B) /\ Len(path) = 1 + Len(s) /\ path[1] = "/"
      /\ \A i \in 1..Len(s) : path[1 + i] = s[i]
  BY <1>1, ConcatTyped
<1>3. \A i \in 1..Len(s) : s[i] \in A
  OBVIOUS
<1> HIDE DEF path
<1>4. DOMAIN path = 1..(1 + Len(s))
  BY <1>2
<1>5. \A j \in 2..(1 + Len(s)) : path[j] # "/"
  <2> SUFFICES ASSUME NEW j \in 2..(1 + Len(s)) PROVE path[j] # "/"
    OBVIOUS
  <2>1. j - 1 \in 1..Len(s) /\ 1 + (j - 1) = j
    BY <1>1
  <2> QED
    BY <1>2, <1>3, <2>1
<1>6. at = {1}
  BY <1>1, <1>2, <1>4, <1>5
<1>7. Max({1}) = 1
  BY DEF Max
<1>8. SubSeq(path, 2, Len(path)) = s
  <2>1. SubSeq(path, 2, Len(path)) \in Seq(B) /\ Len(SubSeq(path, 2, Len(path))) = Len(s)
        /\ \A i \in 1..Len(s) : SubSeq(path, 2, Len(path))[i] = path[1 + i]
    BY <1>1, <1>2
  <2> HIDE DEF B
  <2> QED
    BY <1>1, <1>2, <2>1
<1> QED
  <2>1. StripPath(path) = SubSeq(path, Max(at) + 1, Len(path))
    BY DEF StripPath
  <2> HIDE DEF at
  <2>2. Max(at) = 1
    BY <1>6, <1>7, Zenon
  <2>3. Max(at) + 1 = 2
    BY <2>2
  <2>4. StripPath(path) = s
    BY <1>8, <2>1, <2>3
  <2> QED
    BY <2>4 DEF path
=============================================================================
