------------------------ MODULE MarkdownBlocksProofs ------------------------
(***************************************************************************)
(* Theorems about MarkdownBlocks, for documents of any length made of any  *)
(* lines.  Their bodies are put together by concatenation, which the model *)
(* defines by recursion; what is needed of it is proved first, by the      *)
(* smallest counterexample.                                                *)
(***************************************************************************)
EXTENDS MarkdownBlocks, SequenceTheorems, FiniteSetTheorems, WellFoundedInduction, TLAPS

(* What a line is made of, and what the output is made of.                 *)
Plain == Marks \cup AllWords
Token == Plain \cup Tags

-----------------------------------------------------------------------------
(* Recursion over the positions of a sequence.                             *)

LEMMA Smallest ==
  ASSUME NEW S \in SUBSET Nat, S # {}
  PROVE  \E n \in S : \A m \in S : n <= m
<1>1. PICK n \in S : \A m \in S : ~(<<m, n>> \in OpToRel(<, Nat))
  BY NatLessThanWellFounded, WFMin
<1>2. \A m \in S : ~(m < n)
  BY <1>1 DEF OpToRel
<1> QED BY <1>2

(* f is the function by which Concat is defined.                           *)
IsConcat(seqs, f) ==
  f = [n \in 0 .. Len(seqs) |-> IF n = 0 THEN <<>> ELSE f[n - 1] \o seqs[n]]

LEMMA ConcatIs ==
  ASSUME NEW seqs, Len(seqs) \in Nat, NEW f, IsConcat(seqs, f)
  PROVE  Concat(seqs) = f[Len(seqs)]
<1> DEFINE g == CHOOSE h : IsConcat(seqs, h)
           S == { n \in 0 .. Len(seqs) : f[n] # g[n] }
<1>1. IsConcat(seqs, g)
  OBVIOUS
<1>2. Concat(seqs) = g[Len(seqs)]
  BY DEF Concat, IsConcat
<1> HIDE DEF g
<1>3. S = {}
  <2> SUFFICES ASSUME S # {} PROVE FALSE
    OBVIOUS
  <2>0. S \in SUBSET Nat
    OBVIOUS
  <2> HIDE DEF S
  <2>1. PICK n \in S : \A m \in S : n <= m
    BY <2>0, Smallest
  <2>2. n \in 0 .. Len(seqs) /\ f[n] # g[n]
    BY DEF S
  <2>3. n # 0
    BY <1>1, <2>2 DEF IsConcat
  <2>4. n - 1 \in 0 .. Len(seqs) /\ n - 1 \notin S
    BY <2>1, <2>2, <2>3
  <2>5. f[n - 1] = g[n - 1]
    BY <2>4 DEF S
  <2> QED BY <1>1, <2>2, <2>3, <2>5 DEF IsConcat
<1> QED BY <1>2, <1>3

LEMMA ConcatExists ==
  ASSUME NEW seqs, Len(seqs) \in Nat
  PROVE  \E f : IsConcat(seqs, f)
<1> DEFINE IsUpTo(m, f) ==
             /\ f = [n \in 0 .. m |-> f[n]]
             /\ \A n \in 0 .. m : f[n] = IF n = 0 THEN <<>> ELSE f[n - 1] \o seqs[n]
           S == { m \in 0 .. Len(seqs) : ~ \E f : IsUpTo(m, f) }
<1>1. S = {}
  <2> SUFFICES ASSUME S # {} PROVE FALSE
    OBVIOUS
  <2>0. S \in SUBSET Nat
    OBVIOUS
  <2> HIDE DEF S
  <2>1. PICK m \in S : \A k \in S : m <= k
    BY <2>0, Smallest
  <2>2. m \in 0 .. Len(seqs) /\ ~ \E f : IsUpTo(m, f)
    BY DEF S
  <2>3. m # 0
    <3> DEFINE f == [n \in 0 .. 0 |-> <<>>]
    <3>1. IsUpTo(0, f)
      OBVIOUS
    <3> HIDE DEF IsUpTo, f
    <3> QED BY <2>2, <3>1
  <2>4. m - 1 \in 0 .. Len(seqs) /\ m - 1 \notin S
    BY <2>1, <2>2, <2>3
  <2>5. PICK f : IsUpTo(m - 1, f)
    BY <2>4 DEF S
  <2> DEFINE g == [n \in 0 .. m |-> IF n = m THEN f[m - 1] \o seqs[m] ELSE f[n]]
  <2>6. ASSUME NEW n \in 0 .. m
        PROVE  g[n] = IF n = 0 THEN <<>> ELSE g[n - 1] \o seqs[n]
    <3>1. CASE n = m
      BY <2>2, <2>3, <3>1
    <3>2. CASE n # m
      <4>1. n \in 0 .. m - 1 /\ (n # 0 => n - 1 \in 0 .. m - 1)
        BY <2>2, <3>2
      <4>2. f[n] = IF n = 0 THEN <<>> ELSE f[n - 1] \o seqs[n]
        BY <2>5, <4>1
      <4>3. g[n] = f[n] /\ (n # 0 => g[n - 1] = f[n - 1])
        BY <2>2, <4>1
      <4> QED BY <4>2, <4>3
    <3> QED BY <3>1, <3>2
  <2>7. IsUpTo(m, g)
    BY <2>6
  <2> HIDE DEF IsUpTo, g
  <2> QED BY <2>2, <2>7
<1>2. PICK f : IsUpTo(Len(seqs), f)
  BY <1>1
<1>3. IsConcat(seqs, f)
  BY <1>2 DEF IsConcat
<1> QED BY <1>3

(* What is concatenated step by step.                                      *)
LEMMA ConcatSteps ==
  ASSUME NEW T, NEW seqs \in Seq(Seq(T)), NEW f, IsConcat(seqs, f)
  PROVE  \A n \in 0 .. Len(seqs) : f[n] \in Seq(T)
<1> DEFINE S == { n \in 0 .. Len(seqs) : f[n] \notin Seq(T) }
<1>0. Len(seqs) \in Nat /\ \A n \in 1 .. Len(seqs) : seqs[n] \in Seq(T)
  BY LenProperties
<1> SUFFICES ASSUME S # {} PROVE FALSE
  OBVIOUS
<1>1. S \in SUBSET Nat
  BY <1>0
<1> HIDE DEF S
<1>2. PICK n \in S : \A m \in S : n <= m
  BY <1>1, Smallest
<1>3. n \in 0 .. Len(seqs) /\ f[n] \notin Seq(T)
  BY DEF S
<1>4. n # 0
  BY <1>0, <1>3 DEF IsConcat
<1>5. n - 1 \in 0 .. Len(seqs) /\ n - 1 \notin S
  BY <1>0, <1>2, <1>3, <1>4
<1>6. f[n - 1] \in Seq(T) /\ seqs[n] \in Seq(T)
  BY <1>0, <1>3, <1>4, <1>5 DEF S
<1>7. f[n] = f[n - 1] \o seqs[n]
  BY <1>0, <1>3, <1>4 DEF IsConcat
<1> QED BY <1>3, <1>6, <1>7, ConcatProperties

LEMMA ConcatType ==
  ASSUME NEW T, NEW seqs \in Seq(Seq(T))
  PROVE  Concat(seqs) \in Seq(T)
<1>1. Len(seqs) \in Nat
  BY LenProperties
<1>2. PICK f : IsConcat(seqs, f)
  BY <1>1, ConcatExists
<1>3. f[Len(seqs)] \in Seq(T)
  BY <1>1, <1>2, ConcatSteps
<1> QED BY <1>1, <1>2, <1>3, ConcatIs

LEMMA ConcatOfNone ==
  ASSUME NEW seqs, Len(seqs) = 0
  PROVE  Concat(seqs) = <<>>
<1>1. PICK f : IsConcat(seqs, f)
  BY ConcatExists
<1>2. f[0] = <<>>
  BY <1>1 DEF IsConcat
<1> QED BY <1>1, <1>2, ConcatIs

(* The first n sequences, one after the other.                             *)
Upto(seqs, n) == Concat([i \in 1 .. n |-> seqs[i]])

LEMMA UptoNone == ASSUME NEW seqs PROVE Upto(seqs, 0) = <<>>
<1>1. Len([i \in 1 .. 0 |-> seqs[i]]) = 0
  OBVIOUS
<1> QED BY <1>1, ConcatOfNone DEF Upto

LEMMA UptoNext ==
  ASSUME NEW seqs, NEW n \in Nat
  PROVE  Upto(seqs, n + 1) = Upto(seqs, n) \o seqs[n + 1]
<1> DEFINE a == [i \in 1 .. n |-> seqs[i]]
           b == [i \in 1 .. n + 1 |-> seqs[i]]
<1>1. Len(a) = n /\ Len(b) = n + 1
  OBVIOUS
<1>2. /\ \A i \in 1 .. n : a[i] = seqs[i]
      /\ \A i \in 1 .. n + 1 : b[i] = seqs[i]
  OBVIOUS
<1> HIDE DEF a, b
<1>3. PICK f : IsConcat(a, f)
  BY <1>1, ConcatExists
<1>4. f = [i \in 0 .. n |-> f[i]]
      /\ \A i \in 0 .. n : f[i] = IF i = 0 THEN <<>> ELSE f[i - 1] \o seqs[i]
  <2>1. f = [i \in 0 .. n |-> IF i = 0 THEN <<>> ELSE f[i - 1] \o a[i]]
    BY <1>1, <1>3 DEF IsConcat
  <2>2. \A i \in 0 .. n : f[i] = IF i = 0 THEN <<>> ELSE f[i - 1] \o a[i]
    BY <2>1
  <2>3. f = [i \in 0 .. n |-> f[i]]
    BY <2>1
  <2>4. \A i \in 0 .. n : i # 0 => a[i] = seqs[i]
    BY <1>2
  <2> QED BY <2>2, <2>3, <2>4
<1> DEFINE g == [i \in 0 .. n + 1 |-> IF i = n + 1 THEN f[n] \o seqs[n + 1] ELSE f[i]]
<1>5. /\ g = [i \in 0 .. n + 1 |-> g[i]]
      /\ g[n + 1] = f[n] \o seqs[n + 1]
      /\ \A i \in 0 .. n : g[i] = f[i]
  <2>1. g = [i \in 0 .. n + 1 |-> g[i]]
    OBVIOUS
  <2>2. g[n + 1] = f[n] \o seqs[n + 1]
    <3>1. n + 1 \in 0 .. n + 1
      OBVIOUS
    <3> QED BY <3>1
  <2>3. \A i \in 0 .. n : g[i] = f[i]
    OBVIOUS
  <2> QED BY <2>1, <2>2, <2>3
<1> HIDE DEF g
<1>6. ASSUME NEW i \in 0 .. n + 1
      PROVE  g[i] = IF i = 0 THEN <<>> ELSE g[i - 1] \o seqs[i]
  <2>1. CASE i = n + 1
    <3>1. g[i - 1] = f[n] /\ i # 0
      <4>1. i - 1 = n /\ n \in 0 .. n /\ i # 0
        BY <2>1
      <4> QED BY <1>5, <4>1
    <3> QED BY <1>5, <2>1, <3>1
  <2>2. CASE i # n + 1
    <3>1. i \in 0 .. n /\ (i # 0 => i - 1 \in 0 .. n)
      BY <2>2
    <3>2. g[i] = f[i] /\ (i # 0 => g[i - 1] = f[i - 1])
      BY <1>5, <3>1
    <3> QED BY <1>4, <3>1, <3>2
  <2> QED BY <2>1, <2>2
<1>7. IsConcat(b, g)
  <2>1. \A i \in 0 .. n + 1 : g[i] = IF i = 0 THEN <<>> ELSE g[i - 1] \o b[i]
    BY <1>2, <1>6
  <2> QED BY <1>1, <1>5, <2>1 DEF IsConcat
<1>8. Concat(b) = g[n + 1] /\ Concat(a) = f[n]
  BY <1>1, <1>3, <1>7, ConcatIs
<1> QED BY <1>5, <1>8 DEF Upto, a, b

LEMMA UptoLast ==
  ASSUME NEW seqs, NEW n \in Nat \ {0}
  PROVE  Upto(seqs, n) = Upto(seqs, n - 1) \o seqs[n]
<1>1. n - 1 \in Nat /\ (n - 1) + 1 = n
  OBVIOUS
<1>2. Upto(seqs, (n - 1) + 1) = Upto(seqs, n - 1) \o seqs[(n - 1) + 1]
  BY <1>1, UptoNext
<1> QED BY <1>1, <1>2

LEMMA UptoAll ==
  ASSUME NEW T, NEW seqs \in Seq(T)
  PROVE  Concat(seqs) = Upto(seqs, Len(seqs))
<1>1. seqs = [i \in 1 .. Len(seqs) |-> seqs[i]]
  BY LenProperties
<1> QED BY <1>1 DEF Upto

LEMMA UptoSame ==
  ASSUME NEW a, NEW b, NEW n \in Nat, \A i \in 1 .. n : a[i] = b[i]
  PROVE  Upto(a, n) = Upto(b, n)
<1>1. [i \in 1 .. n |-> a[i]] = [i \in 1 .. n |-> b[i]]
  OBVIOUS
<1> QED BY <1>1 DEF Upto

LEMMA UptoType ==
  ASSUME NEW T, NEW seqs, NEW n \in Nat, \A i \in 1 .. n : seqs[i] \in Seq(T)
  PROVE  Upto(seqs, n) \in Seq(T)
<1>1. [i \in 1 .. n |-> seqs[i]] \in Seq(Seq(T))
  OBVIOUS
<1> QED BY <1>1, ConcatType DEF Upto

(* Two sequences of sequences.                                             *)
LEMMA ConcatBoth ==
  ASSUME NEW T, NEW a \in Seq(Seq(T)), NEW b \in Seq(Seq(T))
  PROVE  Concat(a \o b) = Concat(a) \o Concat(b)
<1> DEFINE m == Len(a)
           c == a \o b
           S == { n \in 0 .. Len(b) : Upto(c, m + n) # Upto(a, m) \o Upto(b, n) }
<1>1. /\ m \in Nat /\ Len(b) \in Nat /\ c \in Seq(Seq(T)) /\ Len(c) = m + Len(b)
      /\ \A i \in 1 .. m : c[i] = a[i]
      /\ \A i \in 1 .. Len(b) : c[m + i] = b[i]
      /\ \A i \in 1 .. m : a[i] \in Seq(T)
      /\ \A i \in 1 .. Len(b) : b[i] \in Seq(T)
  <2>1. m \in Nat /\ Len(b) \in Nat /\ c \in Seq(Seq(T)) /\ Len(c) = m + Len(b)
    BY LenProperties, ConcatProperties
  <2>2. \A i \in 1 .. m + Len(b) : c[i] = IF i <= m THEN a[i] ELSE b[i - m]
    BY ConcatProperties
  <2>3. \A i \in 1 .. Len(b) : c[m + i] = b[i]
    <3> SUFFICES ASSUME NEW i \in 1 .. Len(b) PROVE c[m + i] = b[i]
      OBVIOUS
    <3>1. m + i \in 1 .. m + Len(b) /\ ~(m + i <= m) /\ (m + i) - m = i
      BY <2>1
    <3> HIDE DEF m, c
    <3> QED BY <2>2, <3>1
  <2>4. \A i \in 1 .. m : c[i] = a[i]
    BY <2>1, <2>2
  <2> QED BY <2>1, <2>3, <2>4, ElementOfSeq
<1> HIDE DEF m, c
<1>2. Upto(a, m) \in Seq(T) /\ \A n \in 0 .. Len(b) : Upto(b, n) \in Seq(T)
  BY <1>1, UptoType
<1>3. S = {}
  <2> SUFFICES ASSUME S # {} PROVE FALSE
    OBVIOUS
  <2>0. S \in SUBSET Nat
    BY <1>1
  <2> HIDE DEF S
  <2>1. PICK n \in S : \A k \in S : n <= k
    BY <2>0, Smallest
  <2>2. n \in 0 .. Len(b) /\ Upto(c, m + n) # Upto(a, m) \o Upto(b, n)
    BY DEF S
  <2>3. n # 0
    <3>1. Upto(c, m) = Upto(a, m)
      BY <1>1, UptoSame
    <3>2. Upto(a, m) \o <<>> = Upto(a, m) /\ Upto(b, 0) = <<>>
      BY <1>2, ConcatEmptySeq, UptoNone
    <3>3. m + 0 = m
      BY <1>1
    <3> QED BY <2>2, <3>1, <3>2, <3>3
  <2>4. n - 1 \in 0 .. Len(b) /\ n - 1 \notin S
    BY <1>1, <2>1, <2>2, <2>3, SMTT(30)
  <2>5. Upto(c, m + (n - 1)) = Upto(a, m) \o Upto(b, n - 1)
    BY <2>4 DEF S
  <2>6. /\ Upto(c, (m + (n - 1)) + 1) = Upto(c, m + (n - 1)) \o c[(m + (n - 1)) + 1]
        /\ Upto(b, (n - 1) + 1) = Upto(b, n - 1) \o b[(n - 1) + 1]
    <3>1. m + (n - 1) \in Nat /\ n - 1 \in Nat
      BY <1>1, <2>4
    <3> QED BY <3>1, UptoNext
  <2>7. (m + (n - 1)) + 1 = m + n /\ (n - 1) + 1 = n /\ n \in 1 .. Len(b)
    BY <1>1, <2>2, <2>3
  <2>8. c[m + n] = b[n] /\ b[n] \in Seq(T)
    BY <1>1, <2>7
  <2>9. (Upto(a, m) \o Upto(b, n - 1)) \o b[n] = Upto(a, m) \o (Upto(b, n - 1) \o b[n])
    <3>1. Upto(b, n - 1) \in Seq(T)
      BY <1>2, <2>4
    <3>2. \A x, y, z \in Seq(T) : (x \o y) \o z = x \o (y \o z)
      BY ConcatAssociative
    <3> QED BY <1>2, <2>8, <3>1, <3>2
  <2>10. Upto(c, m + n) = Upto(c, m + (n - 1)) \o b[n] /\ Upto(b, n) = Upto(b, n - 1) \o b[n]
    BY <2>6, <2>7, <2>8
  <2>11. Upto(c, m + n) = Upto(a, m) \o Upto(b, n)
    BY <2>5, <2>9, <2>10
  <2> QED BY <2>2, <2>11
<1>4. Upto(c, m + Len(b)) = Upto(a, m) \o Upto(b, Len(b))
  <2>1. \A n \in 0 .. Len(b) : Upto(c, m + n) = Upto(a, m) \o Upto(b, n)
    BY <1>3
  <2> QED BY <1>1, <2>1
<1>5. Concat(c) = Upto(c, m + Len(b)) /\ Concat(b) = Upto(b, Len(b))
  BY <1>1, UptoAll
<1>6. Concat(a) = Upto(a, m)
  BY UptoAll DEF m
<1> QED BY <1>4, <1>5, <1>6 DEF c

-----------------------------------------------------------------------------
(* Words.                                                                  *)

LEMMA OneToken ==
  ASSUME NEW T, NEW t \in T PROVE <<t>> \in Seq(T) /\ Len(<<t>>) = 1 /\ <<t>>[1] = t
OBVIOUS

WordIn(t) == IF t \in AllWords THEN <<t>> ELSE <<>>
WordsIn(tokens) == [i \in DOMAIN tokens |-> WordIn(tokens[i])]

LEMMA WordsAre ==
  ASSUME NEW tokens \in Seq(Token)
  PROVE  /\ Words(tokens) = Concat(WordsIn(tokens))
         /\ WordsIn(tokens) \in Seq(Seq(Token))
         /\ Len(WordsIn(tokens)) = Len(tokens)
         /\ \A i \in 1 .. Len(tokens) : WordsIn(tokens)[i] = WordIn(tokens[i])
<1>1. Words(tokens) = Concat(WordsIn(tokens))
  BY DEF Words, WordsIn, WordIn
<1>2. DOMAIN tokens = 1 .. Len(tokens) /\ Len(tokens) \in Nat
  BY LenProperties
<1>3. \A i \in 1 .. Len(tokens) : WordIn(tokens[i]) \in Seq(Token)
  <2>1. \A i \in 1 .. Len(tokens) : tokens[i] \in Token
    BY ElementOfSeq
  <2>2. ASSUME NEW t \in Token PROVE WordIn(t) \in Seq(Token)
    <3>1. <<t>> \in Seq(Token) /\ <<>> \in Seq(Token)
      BY OneToken
    <3> QED BY <3>1 DEF WordIn
  <2> HIDE DEF WordIn
  <2> QED BY <2>1, <2>2
<1> HIDE DEF WordIn
<1>4. \A i \in 1 .. Len(tokens) : WordsIn(tokens)[i] = WordIn(tokens[i])
  BY <1>2 DEF WordsIn
<1>5. WordsIn(tokens) \in Seq(Seq(Token)) /\ Len(WordsIn(tokens)) = Len(tokens)
  <2>1. WordsIn(tokens) = [i \in 1 .. Len(tokens) |-> WordIn(tokens[i])]
    BY <1>2 DEF WordsIn
  <2> QED BY <1>2, <1>3, <2>1
<1> QED BY <1>1, <1>4, <1>5

LEMMA WordsType == ASSUME NEW tokens \in Seq(Token) PROVE Words(tokens) \in Seq(Token)
BY WordsAre, ConcatType

LEMMA WordsBoth ==
  ASSUME NEW a \in Seq(Token), NEW b \in Seq(Token)
  PROVE  Words(a \o b) = Words(a) \o Words(b)
<1>1. /\ a \o b \in Seq(Token) /\ Len(a \o b) = Len(a) + Len(b)
      /\ Len(a) \in Nat /\ Len(b) \in Nat
      /\ \A i \in 1 .. Len(a) + Len(b) :
           (a \o b)[i] = IF i <= Len(a) THEN a[i] ELSE b[i - Len(a)]
  BY ConcatProperties, LenProperties
<1> DEFINE x == WordsIn(a)
           y == WordsIn(b)
           z == WordsIn(a \o b)
<1>2. /\ x \in Seq(Seq(Token)) /\ y \in Seq(Seq(Token)) /\ z \in Seq(Seq(Token))
      /\ Len(x) = Len(a) /\ Len(y) = Len(b) /\ Len(z) = Len(a) + Len(b)
      /\ \A i \in 1 .. Len(a) : x[i] = WordIn(a[i])
      /\ \A i \in 1 .. Len(b) : y[i] = WordIn(b[i])
      /\ \A i \in 1 .. Len(a) + Len(b) : z[i] = WordIn((a \o b)[i])
  BY <1>1, WordsAre
<1>3. Words(a) = Concat(x) /\ Words(b) = Concat(y) /\ Words(a \o b) = Concat(z)
  BY <1>1, WordsAre
<1> HIDE DEF x, y, z, WordIn
<1>4. /\ x \o y \in Seq(Seq(Token)) /\ Len(x \o y) = Len(a) + Len(b)
      /\ \A i \in 1 .. Len(a) + Len(b) :
           (x \o y)[i] = IF i <= Len(a) THEN x[i] ELSE y[i - Len(a)]
  <2>1. x \in Seq(Seq(Token)) /\ y \in Seq(Seq(Token))
    BY <1>2
  <2>2. /\ x \o y \in Seq(Seq(Token)) /\ Len(x \o y) = Len(x) + Len(y)
        /\ \A i \in 1 .. Len(x) + Len(y) :
             (x \o y)[i] = IF i <= Len(x) THEN x[i] ELSE y[i - Len(x)]
    BY <2>1, ConcatProperties
  <2>3. Len(x) = Len(a) /\ Len(y) = Len(b)
    BY <1>2
  <2> QED BY <2>2, <2>3
<1>5. ASSUME NEW i \in 1 .. Len(a) + Len(b) PROVE z[i] = (x \o y)[i]
  <2>1. CASE i <= Len(a)
    <3>1. i \in 1 .. Len(a)
      BY <1>1, <2>1
    <3> QED BY <1>1, <1>2, <1>4, <2>1, <3>1
  <2>2. CASE ~(i <= Len(a))
    <3>1. i - Len(a) \in 1 .. Len(b)
      BY <1>1, <2>2
    <3> QED BY <1>1, <1>2, <1>4, <2>2, <3>1
  <2> QED BY <2>1, <2>2
<1>6. z = x \o y
  BY <1>2, <1>4, <1>5, SeqEqual
<1>7. Concat(x \o y) = Concat(x) \o Concat(y)
  BY <1>2, ConcatBoth
<1> QED BY <1>3, <1>6, <1>7

(* Tokens without a word.                                                  *)
LEMMA Wordless ==
  ASSUME NEW tokens \in Seq(Token),
         \A i \in 1 .. Len(tokens) : tokens[i] \notin AllWords
  PROVE  Words(tokens) = <<>>
<1> DEFINE seqs == WordsIn(tokens)
           S == { n \in 0 .. Len(tokens) : Upto(seqs, n) # <<>> }
<1>1. /\ Words(tokens) = Concat(seqs) /\ seqs \in Seq(Seq(Token))
      /\ Len(seqs) = Len(tokens) /\ Len(tokens) \in Nat
      /\ \A i \in 1 .. Len(tokens) : seqs[i] = <<>>
  BY WordsAre, LenProperties DEF WordIn
<1> HIDE DEF seqs
<1>2. S = {}
  <2> SUFFICES ASSUME S # {} PROVE FALSE
    OBVIOUS
  <2>0. S \in SUBSET Nat
    BY <1>1
  <2> HIDE DEF S
  <2>1. PICK n \in S : \A k \in S : n <= k
    BY <2>0, Smallest
  <2>2. n \in 0 .. Len(tokens) /\ Upto(seqs, n) # <<>>
    BY DEF S
  <2>3. n # 0
    BY <2>2, UptoNone
  <2>4. n - 1 \in 0 .. Len(tokens) /\ n - 1 \notin S /\ (n - 1) + 1 = n
    BY <1>1, <2>1, <2>2, <2>3
  <2>5. Upto(seqs, n - 1) = <<>>
    BY <2>4 DEF S
  <2>6. Upto(seqs, n) = Upto(seqs, n - 1) \o seqs[n]
    <3>1. n - 1 \in Nat
      BY <1>1, <2>4
    <3>2. Upto(seqs, (n - 1) + 1) = Upto(seqs, n - 1) \o seqs[(n - 1) + 1]
      BY <3>1, UptoNext
    <3> QED BY <2>4, <3>2
  <2>7. seqs[n] = <<>>
    BY <1>1, <2>2, <2>3
  <2>8. <<>> \o <<>> = <<>>
    OBVIOUS
  <2> QED BY <2>2, <2>5, <2>6, <2>7, <2>8
<1>3. Upto(seqs, Len(tokens)) = <<>>
  BY <1>1, <1>2
<1> QED BY <1>1, <1>3, UptoAll

LEMMA WordsNone == Words(<<>>) = <<>>
<1>1. <<>> \in Seq(Token) /\ Len(<<>>) = 0
  OBVIOUS
<1>2. \A i \in 1 .. Len(<<>>) : <<>>[i] \notin AllWords
  OBVIOUS
<1> QED BY <1>1, <1>2, Wordless

LEMMA WordsOfConcat ==
  ASSUME NEW seqs \in Seq(Seq(Token)), NEW words, DOMAIN words = DOMAIN seqs,
         words = [i \in DOMAIN seqs |-> Words(seqs[i])]
  PROVE  Words(Concat(seqs)) = Concat(words)
<1> DEFINE S == { n \in 0 .. Len(seqs) : Words(Upto(seqs, n)) # Upto(words, n) }
<1>1. /\ Len(seqs) \in Nat /\ DOMAIN seqs = 1 .. Len(seqs)
      /\ \A i \in 1 .. Len(seqs) : seqs[i] \in Seq(Token)
  BY LenProperties, ElementOfSeq
<1>2. words \in Seq(Seq(Token)) /\ Len(words) = Len(seqs)
  <2>1. \A i \in 1 .. Len(seqs) : Words(seqs[i]) \in Seq(Token)
    BY <1>1, WordsType
  <2> QED BY <1>1, <2>1
<1>3. \A i \in 1 .. Len(seqs) : words[i] = Words(seqs[i])
  BY <1>1
<1>4. S = {}
  <2> SUFFICES ASSUME S # {} PROVE FALSE
    OBVIOUS
  <2>0. S \in SUBSET Nat
    BY <1>1
  <2> HIDE DEF S
  <2>1. PICK n \in S : \A k \in S : n <= k
    BY <2>0, Smallest
  <2>2. n \in 0 .. Len(seqs) /\ Words(Upto(seqs, n)) # Upto(words, n)
    BY DEF S
  <2>3. n # 0
    BY <2>2, WordsNone, UptoNone
  <2>4. n - 1 \in 0 .. Len(seqs) /\ n - 1 \notin S /\ (n - 1) + 1 = n /\ n - 1 \in Nat
    BY <1>1, <2>1, <2>2, <2>3
  <2>5. Words(Upto(seqs, n - 1)) = Upto(words, n - 1)
    BY <2>4 DEF S
  <2>6. /\ Upto(seqs, (n - 1) + 1) = Upto(seqs, n - 1) \o seqs[(n - 1) + 1]
        /\ Upto(words, (n - 1) + 1) = Upto(words, n - 1) \o words[(n - 1) + 1]
    BY <2>4, UptoNext
  <2>7. n \in 1 .. Len(seqs) /\ words[n] = Words(seqs[n]) /\ seqs[n] \in Seq(Token)
    BY <1>1, <1>3, <2>2, <2>3
  <2>8. Upto(seqs, n - 1) \in Seq(Token)
    <3>1. \A i \in 1 .. n - 1 : seqs[i] \in Seq(Token)
      BY <1>1, <2>4
    <3> QED BY <2>4, <3>1, UptoType
  <2>9. Words(Upto(seqs, n - 1) \o seqs[n]) = Words(Upto(seqs, n - 1)) \o Words(seqs[n])
    BY <2>7, <2>8, WordsBoth
  <2>10. /\ Upto(seqs, n) = Upto(seqs, n - 1) \o seqs[n]
         /\ Upto(words, n) = Upto(words, n - 1) \o words[n]
    BY <2>4, <2>6
  <2> QED BY <2>2, <2>5, <2>7, <2>9, <2>10
<1>5. \A n \in 0 .. Len(seqs) : Words(Upto(seqs, n)) = Upto(words, n)
  BY <1>4
<1>6. Words(Upto(seqs, Len(seqs))) = Upto(words, Len(seqs))
  BY <1>1, <1>5
<1>7. Concat(seqs) = Upto(seqs, Len(seqs))
  BY UptoAll
<1>8. Concat(words) = Upto(words, Len(words))
  BY <1>2, UptoAll
<1> QED BY <1>2, <1>6, <1>7, <1>8

-----------------------------------------------------------------------------
(* Tags.                                                                   *)

LEMMA Vocabulary == \A t \in Tags \cup Marks : t \notin AllWords
BY WordAssumption

LEMMA ElementTags ==
  ASSUME NEW tags \in Elements
  PROVE  tags = <<tags[1], tags[2]>> /\ tags[1] \in StartTags /\ tags[2] \in EndTags
BY DEF Elements, StartTags, EndTags

LEMMA EndTagOf ==
  ASSUME NEW tags \in Elements
  PROVE  EndTag[tags[1]] = tags[2]
<1>1. \A a, b \in Elements : a[1] = b[1] => a[2] = b[2]
  BY DEF Elements
<1>2. tags[1] \in StartTags
  BY DEF StartTags
<1>3. EndTag[tags[1]] = (CHOOSE e \in Elements : e[1] = tags[1])[2]
  BY <1>2 DEF EndTag
<1> QED BY <1>1, <1>3

LEMMA TagKinds ==
  /\ StartTags \cap EndTags = {} /\ "<hr/>" \notin StartTags \cup EndTags
  /\ \A t \in StartTags : EndTag[t] \in EndTags
  /\ Tags \cap Plain = {} /\ Tags \subseteq Token
<1>1. ASSUME NEW t \in StartTags PROVE EndTag[t] \in EndTags
  <2>1. PICK tags \in Elements : t = tags[1]
    BY DEF StartTags
  <2> QED BY <2>1, EndTagOf DEF EndTags
<1>2. StartTags \cap EndTags = {} /\ "<hr/>" \notin StartTags \cup EndTags
  BY DEF StartTags, EndTags, Elements
<1>3. Tags \cap Marks = {}
  <2>1. StartTags = {"<ul>", "<ol>", "<li>", "<label>", "<p>", "<h1>", "<pre>", "<code>",
                     "<blockquote>", "<table>", "<thead>", "<tbody>", "<tfoot>", "<tr>",
                     "<th>", "<td>"}
    BY DEF StartTags, Elements
  <2>2. EndTags = {"</ul>", "</ol>", "</li>", "</label>", "</p>", "</h1>", "</pre>",
                   "</code>", "</blockquote>", "</table>", "</thead>", "</tbody>",
                   "</tfoot>", "</tr>", "</th>", "</td>"}
    BY DEF EndTags, Elements
  <2>3. \A t \in Marks : t \notin StartTags /\ t \notin EndTags /\ t # "<hr/>"
    BY <2>1, <2>2 DEF Marks
  <2> QED BY <2>3 DEF Tags
<1> QED BY <1>1, <1>2, <1>3, WordAssumption DEF Plain, Token

LEMMA PlainSeq == ASSUME NEW l \in Seq(Plain) PROVE l \in Seq(Token)
BY SeqMonotonic DEF Token

-----------------------------------------------------------------------------
(* The words of an element are those of its contents.                      *)

LEMMA ElementType ==
  ASSUME NEW tags \in Elements, NEW contents \in Seq(Token)
  PROVE  Element(tags, contents) \in Seq(Token)
<1>1. <<tags[1]>> \in Seq(Token) /\ <<tags[2]>> \in Seq(Token)
  <2>1. tags[1] \in Token /\ tags[2] \in Token
    BY ElementTags DEF Token, Tags
  <2> QED BY <2>1, OneToken
<1>2. <<tags[1]>> \o contents \in Seq(Token)
  BY <1>1, ConcatProperties
<1> QED BY <1>1, <1>2, ConcatProperties DEF Element

LEMMA TagWords == ASSUME NEW t \in Tags PROVE <<t>> \in Seq(Token) /\ Words(<<t>>) = <<>>
<1>1. t \in Token /\ t \notin AllWords
  BY Vocabulary DEF Token
<1>2. <<t>> \in Seq(Token) /\ Len(<<t>>) = 1 /\ <<t>>[1] = t
  BY <1>1, OneToken
<1>3. \A i \in 1 .. Len(<<t>>) : <<t>>[i] \notin AllWords
  BY <1>1, <1>2
<1> QED BY <1>2, <1>3, Wordless

LEMMA ElementWords ==
  ASSUME NEW tags \in Elements, NEW contents \in Seq(Token)
  PROVE  Words(Element(tags, contents)) = Words(contents)
<1>1. tags[1] \in Tags /\ tags[2] \in Tags
  BY ElementTags DEF Tags
<1> DEFINE start == <<tags[1]>>
           end == <<tags[2]>>
<1>2. start \in Seq(Token) /\ Words(start) = <<>> /\ end \in Seq(Token) /\ Words(end) = <<>>
  BY <1>1, TagWords
<1>3. Element(tags, contents) = start \o contents \o end
  BY DEF Element
<1> HIDE DEF start, end
<1>4. start \o contents \in Seq(Token) /\ Words(contents) \in Seq(Token)
  BY <1>2, ConcatProperties, WordsType
<1>5. /\ Words(start \o contents) = Words(start) \o Words(contents)
      /\ Words((start \o contents) \o end) = Words(start \o contents) \o Words(end)
  BY <1>2, <1>4, WordsBoth
<1>6. <<>> \o Words(contents) = Words(contents) /\ Words(contents) \o <<>> = Words(contents)
  BY <1>4, ConcatEmptySeq
<1> QED BY <1>2, <1>3, <1>5, <1>6

-----------------------------------------------------------------------------
(* The words of a table.                                                   *)

LEMMA ElementOfConcat ==
  ASSUME NEW tags \in Elements, NEW seqs \in Seq(Seq(Token))
  PROVE  /\ Element(tags, Concat(seqs)) \in Seq(Token)
         /\ Words(Element(tags, Concat(seqs))) =
              Concat([i \in DOMAIN seqs |-> Words(seqs[i])])
<1>1. Concat(seqs) \in Seq(Token)
  BY ConcatType
<1> DEFINE words == [i \in DOMAIN seqs |-> Words(seqs[i])]
<1>2. DOMAIN words = DOMAIN seqs
  OBVIOUS
<1>3. Words(Concat(seqs)) = Concat(words)
  BY <1>2, WordsOfConcat
<1> QED BY <1>1, <1>3, ElementType, ElementWords

LEMMA WordsOne == ASSUME NEW t \in Token PROVE Words(<<t>>) = WordIn(t)
<1>1. <<t>> \in Seq(Token) /\ Len(<<t>>) = 1 /\ <<t>>[1] = t
  BY OneToken
<1> DEFINE seqs == WordsIn(<<t>>)
<1>2. /\ Words(<<t>>) = Concat(seqs) /\ seqs \in Seq(Seq(Token)) /\ Len(seqs) = 1
      /\ seqs[1] = WordIn(t)
  <2>1. /\ Words(<<t>>) = Concat(seqs) /\ seqs \in Seq(Seq(Token))
        /\ Len(seqs) = Len(<<t>>)
        /\ \A i \in 1 .. Len(<<t>>) : seqs[i] = WordIn(<<t>>[i])
    BY <1>1, WordsAre
  <2> HIDE DEF seqs, WordIn
  <2> QED BY <1>1, <2>1
<1> HIDE DEF seqs, WordIn
<1>3. Concat(seqs) = Upto(seqs, 1)
  BY <1>2, UptoAll
<1>4. 1 \in Nat \ {0} /\ 1 - 1 = 0
  OBVIOUS
<1>5. Upto(seqs, 1) = <<>> \o seqs[1]
  <2>1. Upto(seqs, 1) = Upto(seqs, 1 - 1) \o seqs[1]
    BY <1>4, UptoLast
  <2> QED BY <1>4, <2>1, UptoNone
<1>6. seqs[1] \in Seq(Token)
  <2>1. 1 \in 1 .. Len(seqs)
    BY <1>2
  <2> QED BY <1>2, <2>1, ElementOfSeq
<1> QED BY <1>2, <1>3, <1>5, <1>6, ConcatEmptySeq

LEMMA RowWords ==
  ASSUME NEW cell \in Elements, NEW cells \in Seq(Plain)
  PROVE  /\ RowHtml(cell, cells) \in Seq(Token)
         /\ Words(RowHtml(cell, cells)) = Words(cells)
<1> DEFINE seqs == [i \in DOMAIN cells |-> Element(cell, <<cells[i]>>)]
           words == [i \in DOMAIN seqs |-> Words(seqs[i])]
<1>1. cells \in Seq(Token) /\ DOMAIN cells = 1 .. Len(cells) /\ Len(cells) \in Nat
  BY PlainSeq, LenProperties
<1>2. ASSUME NEW i \in DOMAIN cells
      PROVE  /\ Element(cell, <<cells[i]>>) \in Seq(Token)
             /\ Words(Element(cell, <<cells[i]>>)) = WordIn(cells[i])
  <2>1. cells[i] \in Token
    BY <1>1, ElementOfSeq
  <2>2. <<cells[i]>> \in Seq(Token) /\ Words(<<cells[i]>>) = WordIn(cells[i])
    BY <2>1, OneToken, WordsOne
  <2> QED BY <2>2, ElementType, ElementWords
<1> HIDE DEF WordIn
<1>3. seqs \in Seq(Seq(Token)) /\ DOMAIN seqs = DOMAIN cells
  BY <1>1, <1>2
<1>4. words = WordsIn(cells)
  BY <1>2 DEF WordsIn
<1>5. Concat(WordsIn(cells)) = Words(cells)
  BY <1>1, WordsAre
<1>6. <<"<tr>", "</tr>">> \in Elements
  BY DEF Elements
<1>7. RowHtml(cell, cells) = Element(<<"<tr>", "</tr>">>, Concat(seqs))
  BY DEF RowHtml
<1> HIDE DEF seqs
<1>8. /\ Element(<<"<tr>", "</tr>">>, Concat(seqs)) \in Seq(Token)
      /\ Words(Element(<<"<tr>", "</tr>">>, Concat(seqs))) = Concat(words)
  BY <1>3, <1>6, ElementOfConcat
<1> QED BY <1>4, <1>5, <1>7, <1>8

LEMMA TableElements ==
  ASSUME NEW table, NEW b
  PROVE  Cell(table, b) \in Elements /\ Section(table, b) \in Elements
BY DEF Cell, Section, Elements

LEMMA RowsToken ==
  ASSUME NEW rows \in Seq(Seq(Plain))
  PROVE  rows \in Seq(Seq(Token))
<1>1. Seq(Plain) \subseteq Seq(Token)
  BY PlainSeq
<1> QED BY <1>1, SeqMonotonic

LEMMA BlockWords ==
  ASSUME NEW table, NEW b, table[b] \in Seq(Seq(Plain))
  PROVE  /\ BlockHtml(table, b) \in Seq(Token)
         /\ Words(BlockHtml(table, b)) = Words(Concat(table[b]))
<1> DEFINE rows == table[b]
           cell == Cell(table, b)
           seqs == [r \in DOMAIN rows |-> RowHtml(cell, rows[r])]
           tags == Section(table, b)
<1>1. /\ rows \in Seq(Seq(Token)) /\ DOMAIN rows = 1 .. Len(rows) /\ Len(rows) \in Nat
      /\ cell \in Elements /\ tags \in Elements
  BY RowsToken, LenProperties, TableElements
<1>2. ASSUME NEW r \in DOMAIN rows
      PROVE  RowHtml(cell, rows[r]) \in Seq(Token) /\ Words(RowHtml(cell, rows[r])) = Words(rows[r])
  <2>1. rows[r] \in Seq(Plain)
    BY <1>1, ElementOfSeq
  <2> QED BY <1>1, <2>1, RowWords
<1>3. BlockHtml(table, b) = Element(tags, Concat(seqs))
  BY DEF BlockHtml
<1> HIDE DEF rows, cell, tags
<1>4. seqs \in Seq(Seq(Token)) /\ DOMAIN seqs = DOMAIN rows
  BY <1>1, <1>2
<1>5. [r \in DOMAIN seqs |-> Words(seqs[r])] = [r \in DOMAIN rows |-> Words(rows[r])]
  BY <1>2
<1> HIDE DEF seqs
<1>6. /\ Element(tags, Concat(seqs)) \in Seq(Token)
      /\ Words(Element(tags, Concat(seqs))) = Concat([r \in DOMAIN seqs |-> Words(seqs[r])])
  BY <1>1, <1>4, ElementOfConcat
<1> DEFINE words == [r \in DOMAIN rows |-> Words(rows[r])]
<1>7. DOMAIN words = DOMAIN rows
  OBVIOUS
<1>8. Words(Concat(rows)) = Concat(words)
  BY <1>1, <1>7, WordsOfConcat
<1> QED BY <1>3, <1>5, <1>6, <1>8 DEF rows

LEMMA TableWords ==
  ASSUME NEW table \in Seq(Seq(Seq(Plain)))
  PROVE  /\ TableHtml(table) \in Seq(Token)
         /\ [b \in DOMAIN table |-> Concat(table[b])] \in Seq(Seq(Token))
         /\ Words(TableHtml(table)) = Words(Concat([b \in DOMAIN table |-> Concat(table[b])]))
<1> DEFINE seqs == [b \in DOMAIN table |-> BlockHtml(table, b)]
           rows == [b \in DOMAIN table |-> Concat(table[b])]
           tags == <<"<table>", "</table>">>
<1>1. DOMAIN table = 1 .. Len(table) /\ Len(table) \in Nat
  BY LenProperties
<1>2. ASSUME NEW b \in DOMAIN table
      PROVE  /\ BlockHtml(table, b) \in Seq(Token)
             /\ Words(BlockHtml(table, b)) = Words(Concat(table[b]))
             /\ Concat(table[b]) \in Seq(Token)
  <2>1. table[b] \in Seq(Seq(Plain))
    BY <1>1, ElementOfSeq
  <2>2. table[b] \in Seq(Seq(Token))
    BY <2>1, RowsToken
  <2> QED BY <2>1, <2>2, BlockWords, ConcatType
<1>3. TableHtml(table) = Element(tags, Concat(seqs)) /\ tags \in Elements
  BY DEF TableHtml, Elements
<1>4. /\ seqs \in Seq(Seq(Token)) /\ DOMAIN seqs = DOMAIN table
      /\ rows \in Seq(Seq(Token)) /\ DOMAIN rows = DOMAIN table
  BY <1>1, <1>2
<1>5. [b \in DOMAIN seqs |-> Words(seqs[b])] = [b \in DOMAIN rows |-> Words(rows[b])]
  BY <1>2
<1> HIDE DEF seqs, rows, tags
<1>6. /\ Element(tags, Concat(seqs)) \in Seq(Token)
      /\ Words(Element(tags, Concat(seqs))) = Concat([b \in DOMAIN seqs |-> Words(seqs[b])])
  BY <1>3, <1>4, ElementOfConcat
<1> DEFINE words == [b \in DOMAIN rows |-> Words(rows[b])]
<1>7. DOMAIN words = DOMAIN rows
  OBVIOUS
<1>8. Words(Concat(rows)) = Concat(words)
  BY <1>4, <1>7, WordsOfConcat
<1> QED BY <1>3, <1>4, <1>5, <1>6, <1>8 DEF rows

-----------------------------------------------------------------------------
(* Which elements a sequence of tokens opens and closes.                   *)

(* A token takes the end tags that are waited for from one list to another.*)
Step(from, t, to) ==
  /\ t \in StartTags => to = Append(from, EndTag[t])
  /\ t \in EndTags => from = Append(to, t)
  /\ t \notin StartTags \cup EndTags => to = from

(* So do all of them.                                                      *)
Runs(s, tokens) == \A n \in 1 .. Len(tokens) : Step(s[n - 1], tokens[n], s[n])

Opens(tokens, from, to) ==
  \E s \in [0 .. Len(tokens) -> Seq(Token)] :
    s[0] = from /\ s[Len(tokens)] = to /\ Runs(s, tokens)

LEMMA OpensNone == ASSUME NEW x \in Seq(Token) PROVE Opens(<<>>, x, x)
<1> DEFINE s == [n \in 0 .. 0 |-> x]
<1>1. s \in [0 .. 0 -> Seq(Token)] /\ s[0] = x /\ Len(<<>>) = 0
  OBVIOUS
<1> HIDE DEF s
<1> QED BY <1>1 DEF Opens, Runs

LEMMA OpensOne ==
  ASSUME NEW t \in Token, NEW x \in Seq(Token), NEW y \in Seq(Token), Step(x, t, y)
  PROVE  Opens(<<t>>, x, y)
<1> DEFINE s == [n \in 0 .. 1 |-> IF n = 0 THEN x ELSE y]
<1>1. s \in [0 .. 1 -> Seq(Token)] /\ s[0] = x /\ s[1] = y
  OBVIOUS
<1>2. Len(<<t>>) = 1 /\ <<t>>[1] = t
  BY OneToken
<1> HIDE DEF s
<1>3. \A n \in 1 .. 1 : n = 1 /\ n - 1 = 0
  OBVIOUS
<1>4. Runs(s, <<t>>)
  BY <1>1, <1>2, <1>3 DEF Runs
<1> QED BY <1>1, <1>2, <1>4 DEF Opens

LEMMA OpensBoth ==
  ASSUME NEW a \in Seq(Token), NEW b \in Seq(Token),
         NEW x, NEW y, NEW z, Opens(a, x, y), Opens(b, y, z)
  PROVE  Opens(a \o b, x, z)
<1>1. PICK s \in [0 .. Len(a) -> Seq(Token)] :
        s[0] = x /\ s[Len(a)] = y /\ Runs(s, a)
  BY DEF Opens
<1>2. PICK t \in [0 .. Len(b) -> Seq(Token)] :
        t[0] = y /\ t[Len(b)] = z /\ Runs(t, b)
  BY DEF Opens
<1> DEFINE m == Len(a)
           c == a \o b
           u == [n \in 0 .. m + Len(b) |-> IF n <= m THEN s[n] ELSE t[n - m]]
<1>3. /\ m \in Nat /\ Len(b) \in Nat /\ Len(c) = m + Len(b)
      /\ \A n \in 1 .. m + Len(b) : c[n] = IF n <= m THEN a[n] ELSE b[n - m]
  BY LenProperties, ConcatProperties
<1>4. /\ s \in [0 .. m -> Seq(Token)] /\ s[0] = x /\ s[m] = y
      /\ \A n \in 1 .. m : Step(s[n - 1], a[n], s[n])
      /\ \A n \in 1 .. Len(b) : Step(t[n - 1], b[n], t[n])
  BY <1>1, <1>2 DEF Runs
<1> HIDE DEF m, c, u
<1>5. \A n \in 0 .. m : u[n] = s[n]
  BY <1>3 DEF u
<1>6. \A n \in 0 .. Len(b) : u[m + n] = t[n]
  <2> SUFFICES ASSUME NEW n \in 0 .. Len(b) PROVE u[m + n] = t[n]
    OBVIOUS
  <2>1. CASE n = 0
    <3>1. m + n = m /\ m \in 0 .. m
      BY <1>3, <2>1
    <3> QED BY <1>2, <1>4, <1>5, <2>1, <3>1
  <2>2. CASE n # 0
    <3>1. m + n \in 0 .. m + Len(b) /\ ~(m + n <= m) /\ (m + n) - m = n
      BY <1>3, <2>2
    <3> QED BY <3>1 DEF u
  <2> QED BY <2>1, <2>2
<1>7. u \in [0 .. m + Len(b) -> Seq(Token)]
  <2> SUFFICES ASSUME NEW n \in 0 .. m + Len(b)
               PROVE  (IF n <= m THEN s[n] ELSE t[n - m]) \in Seq(Token)
    BY DEF u
  <2>1. CASE n <= m
    <3>1. n \in 0 .. m
      BY <1>3, <2>1
    <3> QED BY <1>4, <2>1, <3>1
  <2>2. CASE ~(n <= m)
    <3>1. n - m \in 0 .. Len(b)
      BY <1>3, <2>2
    <3> QED BY <1>2, <2>2, <3>1
  <2> QED BY <2>1, <2>2
<1>8. ASSUME NEW n \in 1 .. m + Len(b) PROVE Step(u[n - 1], c[n], u[n])
  <2>1. CASE n <= m
    <3>1. n \in 1 .. m /\ n \in 0 .. m /\ n - 1 \in 0 .. m
      BY <1>3, <2>1
    <3>2. c[n] = a[n] /\ u[n - 1] = s[n - 1] /\ u[n] = s[n]
      BY <1>3, <1>5, <2>1, <3>1
    <3> QED BY <1>4, <3>1, <3>2
  <2>2. CASE ~(n <= m)
    <3>1. PICK k \in 1 .. Len(b) : n = m + k /\ n - 1 = m + (k - 1) /\ n - m = k
      <4>1. n - m \in 1 .. Len(b) /\ n = m + (n - m) /\ n - 1 = m + ((n - m) - 1)
        BY <1>3, <2>2
      <4> QED BY <4>1
    <3>2. k \in 0 .. Len(b) /\ k - 1 \in 0 .. Len(b)
      BY <1>3, <3>1
    <3>3. c[n] = b[k] /\ u[n - 1] = t[k - 1] /\ u[n] = t[k]
      BY <1>3, <1>6, <2>2, <3>1, <3>2
    <3> QED BY <1>4, <3>1, <3>3
  <2> QED BY <2>1, <2>2
<1>9. u[0] = x /\ u[m + Len(b)] = z
  <2>1. 0 \in 0 .. m /\ Len(b) \in 0 .. Len(b)
    BY <1>3
  <2> QED BY <1>2, <1>4, <1>5, <1>6, <2>1
<1>10. Opens(c, x, z)
  BY <1>3, <1>7, <1>8, <1>9 DEF Opens, Runs
<1> QED BY <1>10 DEF c

LEMMA OpensPlain ==
  ASSUME NEW l \in Seq(Plain), NEW x \in Seq(Token)
  PROVE  Opens(l, x, x)
<1> DEFINE s == [n \in 0 .. Len(l) |-> x]
<1>1. Len(l) \in Nat /\ \A n \in 1 .. Len(l) : l[n] \notin Tags
  BY LenProperties, ElementOfSeq, TagKinds
<1>2. s \in [0 .. Len(l) -> Seq(Token)] /\ \A n \in 0 .. Len(l) : s[n] = x
  OBVIOUS
<1> HIDE DEF s
<1>3. \A n \in 1 .. Len(l) : n \in 0 .. Len(l) /\ n - 1 \in 0 .. Len(l)
  BY <1>1
<1>4. 0 \in 0 .. Len(l) /\ Len(l) \in 0 .. Len(l)
  BY <1>1
<1>5. Runs(s, l)
  BY <1>1, <1>2, <1>3 DEF Runs, Step, Tags
<1> QED BY <1>2, <1>4, <1>5 DEF Opens

(* The recursion of OpenElements takes these steps.                        *)
LEMMA StepIsNest ==
  ASSUME NEW from \in Seq(Token), NEW to \in Seq(Token), NEW t, Step(from, t, to)
  PROVE  Nest(from, t) = to
<1>1. CASE t \in StartTags
  BY <1>1 DEF Nest, Step
<1>2. CASE t \in EndTags
  <2>1. t \notin StartTags /\ t \in Token
    BY <1>2, TagKinds DEF Tags
  <2>2. /\ from # <<>> /\ Len(from) = Len(to) + 1 /\ Len(to) \in Nat
        /\ \A i \in 1 .. Len(to) : from[i] = to[i]
        /\ from[Len(to) + 1] = t
    BY <1>2, <2>1, AppendProperties, LenProperties DEF Step
  <2>3. Last(from) = t
    BY <2>2 DEF Last
  <2>4. Front(from) = to
    <3>1. Front(from) = SubSeq(from, 1, Len(to))
      BY <2>2 DEF Front
    <3>2. \A i \in 1 .. Len(to) : from[i] \in Token
      BY <2>2, ElementOfSeq
    <3>3. /\ SubSeq(from, 1, Len(to)) \in Seq(Token)
          /\ Len(SubSeq(from, 1, Len(to))) = Len(to)
          /\ \A i \in 1 .. Len(to) : SubSeq(from, 1, Len(to))[i] = from[i]
      <4>1. /\ SubSeq(from, 1, Len(to)) \in Seq(Token)
            /\ Len(SubSeq(from, 1, Len(to))) = IF 1 <= Len(to) THEN Len(to) - 1 + 1 ELSE 0
            /\ \A i \in 1 .. Len(to) - 1 + 1 :
                 SubSeq(from, 1, Len(to))[i] = from[1 + i - 1]
        BY <2>2, <3>2, SubSeqProperties
      <4>2. Len(to) - 1 + 1 = Len(to) /\ \A i \in 1 .. Len(to) : 1 + i - 1 = i
        BY <2>2
      <4> QED BY <2>2, <4>1, <4>2
    <3> QED BY <2>2, <3>1, <3>3, SeqEqual
  <2> QED BY <1>2, <2>1, <2>2, <2>3, <2>4 DEF Nest
<1>3. CASE t \notin StartTags \cup EndTags
  BY <1>3 DEF Nest, Step
<1> QED BY <1>1, <1>2, <1>3

LEMMA OpensMeans ==
  ASSUME NEW tokens \in Seq(Token), Opens(tokens, <<>>, <<>>)
  PROVE  OpenElements(tokens) = <<>>
<1> DEFINE IsUpto(h) == h = [n \in 0 .. Len(tokens) |->
                               IF n = 0 THEN <<>> ELSE Nest(h[n - 1], tokens[n])]
           g == CHOOSE h : IsUpto(h)
<1>1. PICK s \in [0 .. Len(tokens) -> Seq(Token)] :
        s[0] = <<>> /\ s[Len(tokens)] = <<>> /\ Runs(s, tokens)
  BY DEF Opens
<1>2. Len(tokens) \in Nat
  BY LenProperties
<1>3. ASSUME NEW n \in 0 .. Len(tokens)
      PROVE  s[n] = IF n = 0 THEN <<>> ELSE Nest(s[n - 1], tokens[n])
  <2>1. CASE n = 0
    BY <1>1, <2>1
  <2>2. CASE n # 0
    <3>1. n \in 1 .. Len(tokens) /\ n - 1 \in 0 .. Len(tokens)
      BY <1>2, <2>2
    <3>2. s[n] \in Seq(Token) /\ s[n - 1] \in Seq(Token) /\ Step(s[n - 1], tokens[n], s[n])
      BY <1>1, <3>1 DEF Runs
    <3> QED BY <2>2, <3>2, StepIsNest
  <2> QED BY <2>1, <2>2
<1>4. IsUpto(s)
  <2>1. s = [n \in 0 .. Len(tokens) |-> s[n]]
    BY <1>1
  <2> QED BY <1>3, <2>1
<1>5. IsUpto(g)
  <2> HIDE DEF IsUpto
  <2> QED BY <1>4
<1>6. OpenElements(tokens) = g[Len(tokens)]
  BY DEF OpenElements
<1> HIDE DEF g
<1>7. \A n \in 0 .. Len(tokens) : g[n] = IF n = 0 THEN <<>> ELSE Nest(g[n - 1], tokens[n])
  BY <1>5
<1> DEFINE S == { n \in 0 .. Len(tokens) : s[n] # g[n] }
<1>8. S = {}
  <2> SUFFICES ASSUME S # {} PROVE FALSE
    OBVIOUS
  <2>0. S \in SUBSET Nat
    BY <1>2
  <2> HIDE DEF S, IsUpto
  <2>1. PICK n \in S : \A m \in S : n <= m
    BY <2>0, Smallest
  <2>2. n \in 0 .. Len(tokens) /\ s[n] # g[n]
    BY DEF S
  <2>3. n # 0
    BY <1>3, <1>7, <2>2
  <2>4. n - 1 \in 0 .. Len(tokens) /\ n - 1 \notin S
    BY <1>2, <2>1, <2>2, <2>3
  <2>5. s[n - 1] = g[n - 1]
    BY <2>4 DEF S
  <2> QED BY <1>3, <1>7, <2>2, <2>3, <2>5
<1>9. \A n \in 0 .. Len(tokens) : s[n] = g[n]
  BY <1>8
<1> QED BY <1>1, <1>2, <1>6, <1>9

-----------------------------------------------------------------------------
(* What leaves the open elements as they are.                              *)
Balanced(tokens) == \A x \in Seq(Token) : Opens(tokens, x, x)

LEMMA OpensStart ==
  ASSUME NEW tags \in Elements, NEW x \in Seq(Token)
  PROVE  /\ Append(x, tags[2]) \in Seq(Token)
         /\ Opens(<<tags[1]>>, x, Append(x, tags[2]))
         /\ Opens(<<tags[2]>>, Append(x, tags[2]), x)
<1>1. tags[1] \in StartTags /\ tags[2] \in EndTags /\ EndTag[tags[1]] = tags[2]
  BY ElementTags, EndTagOf
<1>2. tags[1] \in Token /\ tags[2] \in Token
  BY <1>1, TagKinds DEF Tags
<1>3. Append(x, tags[2]) \in Seq(Token)
  BY <1>2, AppendProperties
<1>4. Step(x, tags[1], Append(x, tags[2])) /\ Step(Append(x, tags[2]), tags[2], x)
  BY <1>1, TagKinds DEF Step
<1> QED BY <1>2, <1>3, <1>4, OpensOne

LEMMA OpensElement ==
  ASSUME NEW tags \in Elements, NEW contents \in Seq(Token), Balanced(contents)
  PROVE  Balanced(Element(tags, contents))
<1> SUFFICES ASSUME NEW x \in Seq(Token) PROVE Opens(Element(tags, contents), x, x)
  BY DEF Balanced
<1> DEFINE y == Append(x, tags[2])
           start == <<tags[1]>>
           end == <<tags[2]>>
<1>1. y \in Seq(Token) /\ Opens(start, x, y) /\ Opens(end, y, x)
  BY OpensStart
<1>2. start \in Seq(Token) /\ end \in Seq(Token)
  <2>1. tags[1] \in Token /\ tags[2] \in Token
    BY ElementTags, TagKinds DEF Tags
  <2> QED BY <2>1, OneToken
<1>3. Element(tags, contents) = start \o contents \o end
  BY DEF Element
<1> HIDE DEF y, start, end
<1>4. Opens(contents, y, y)
  BY <1>1 DEF Balanced
<1>5. Opens(start \o contents, x, y) /\ start \o contents \in Seq(Token)
  BY <1>1, <1>2, <1>4, OpensBoth, ConcatProperties
<1>6. Opens((start \o contents) \o end, x, x)
  BY <1>1, <1>2, <1>5, OpensBoth
<1> QED BY <1>3, <1>6

LEMMA BalancedConcat ==
  ASSUME NEW seqs \in Seq(Seq(Token)), \A i \in DOMAIN seqs : Balanced(seqs[i])
  PROVE  Balanced(Concat(seqs))
<1> SUFFICES ASSUME NEW x \in Seq(Token) PROVE Opens(Concat(seqs), x, x)
  BY DEF Balanced
<1> DEFINE S == { n \in 0 .. Len(seqs) : ~Opens(Upto(seqs, n), x, x) }
<1>1. /\ Len(seqs) \in Nat
      /\ \A i \in 1 .. Len(seqs) : seqs[i] \in Seq(Token) /\ Opens(seqs[i], x, x)
  BY LenProperties, ElementOfSeq DEF Balanced
<1>2. S = {}
  <2> SUFFICES ASSUME S # {} PROVE FALSE
    OBVIOUS
  <2>0. S \in SUBSET Nat
    BY <1>1
  <2> HIDE DEF S
  <2>1. PICK n \in S : \A m \in S : n <= m
    BY <2>0, Smallest
  <2>2. n \in 0 .. Len(seqs) /\ ~Opens(Upto(seqs, n), x, x)
    BY DEF S
  <2>3. n # 0
    BY <2>2, UptoNone, OpensNone
  <2>4. n - 1 \in 0 .. Len(seqs) /\ n - 1 \notin S /\ n \in Nat \ {0} /\ n \in 1 .. Len(seqs)
    BY <1>1, <2>1, <2>2, <2>3
  <2>5. Opens(Upto(seqs, n - 1), x, x)
    BY <2>4 DEF S
  <2>6. Upto(seqs, n) = Upto(seqs, n - 1) \o seqs[n]
    BY <2>4, UptoLast
  <2>7. Upto(seqs, n - 1) \in Seq(Token)
    <3>1. n - 1 \in Nat /\ \A i \in 1 .. n - 1 : seqs[i] \in Seq(Token)
      BY <1>1, <2>4
    <3> QED BY <3>1, UptoType
  <2>8. seqs[n] \in Seq(Token) /\ Opens(seqs[n], x, x)
    BY <1>1, <2>4
  <2> QED BY <2>2, <2>5, <2>6, <2>7, <2>8, OpensBoth
<1>3. \A n \in 0 .. Len(seqs) : Opens(Upto(seqs, n), x, x)
  BY <1>2
<1>4. Concat(seqs) = Upto(seqs, Len(seqs))
  BY UptoAll
<1> QED BY <1>1, <1>3, <1>4

LEMMA BalancedElement ==
  ASSUME NEW tags \in Elements, NEW seqs \in Seq(Seq(Token)),
         \A i \in DOMAIN seqs : Balanced(seqs[i])
  PROVE  Balanced(Element(tags, Concat(seqs)))
BY BalancedConcat, ConcatType, OpensElement

LEMMA RowBalanced ==
  ASSUME NEW cell \in Elements, NEW cells \in Seq(Plain)
  PROVE  Balanced(RowHtml(cell, cells))
<1> DEFINE seqs == [i \in DOMAIN cells |-> Element(cell, <<cells[i]>>)]
           tags == <<"<tr>", "</tr>">>
<1>1. DOMAIN cells = 1 .. Len(cells) /\ Len(cells) \in Nat
  BY LenProperties
<1>2. ASSUME NEW i \in DOMAIN cells
      PROVE  /\ Element(cell, <<cells[i]>>) \in Seq(Token)
             /\ Balanced(Element(cell, <<cells[i]>>))
  <2>1. cells[i] \in Plain
    BY <1>1, ElementOfSeq
  <2>2. <<cells[i]>> \in Seq(Plain)
    BY <2>1, OneToken
  <2>3. <<cells[i]>> \in Seq(Token) /\ Balanced(<<cells[i]>>)
    BY <2>2, PlainSeq, OpensPlain DEF Balanced
  <2> QED BY <2>3, ElementType, OpensElement
<1>3. seqs \in Seq(Seq(Token)) /\ \A i \in DOMAIN seqs : Balanced(seqs[i])
  BY <1>1, <1>2
<1>4. tags \in Elements /\ RowHtml(cell, cells) = Element(tags, Concat(seqs))
  BY DEF Elements, RowHtml
<1> HIDE DEF seqs, tags
<1> QED BY <1>3, <1>4, BalancedElement

LEMMA BlockBalanced ==
  ASSUME NEW table, NEW b, table[b] \in Seq(Seq(Plain))
  PROVE  Balanced(BlockHtml(table, b))
<1> DEFINE rows == table[b]
           cell == Cell(table, b)
           seqs == [r \in DOMAIN rows |-> RowHtml(cell, rows[r])]
           tags == Section(table, b)
<1>1. DOMAIN rows = 1 .. Len(rows) /\ Len(rows) \in Nat /\ cell \in Elements /\ tags \in Elements
  BY LenProperties, TableElements
<1>2. ASSUME NEW r \in DOMAIN rows
      PROVE  RowHtml(cell, rows[r]) \in Seq(Token) /\ Balanced(RowHtml(cell, rows[r]))
  <2>1. rows[r] \in Seq(Plain)
    BY <1>1, ElementOfSeq
  <2> QED BY <1>1, <2>1, RowWords, RowBalanced
<1>3. seqs \in Seq(Seq(Token)) /\ \A r \in DOMAIN seqs : Balanced(seqs[r])
  BY <1>1, <1>2
<1>4. BlockHtml(table, b) = Element(tags, Concat(seqs))
  BY DEF BlockHtml
<1> HIDE DEF seqs, tags
<1> QED BY <1>1, <1>3, <1>4, BalancedElement

LEMMA TableBalanced ==
  ASSUME NEW table \in Seq(Seq(Seq(Plain)))
  PROVE  Balanced(TableHtml(table))
<1> DEFINE seqs == [b \in DOMAIN table |-> BlockHtml(table, b)]
           tags == <<"<table>", "</table>">>
<1>1. DOMAIN table = 1 .. Len(table) /\ Len(table) \in Nat
  BY LenProperties
<1>2. ASSUME NEW b \in DOMAIN table
      PROVE  BlockHtml(table, b) \in Seq(Token) /\ Balanced(BlockHtml(table, b))
  <2>1. table[b] \in Seq(Seq(Plain))
    BY <1>1, ElementOfSeq
  <2> QED BY <2>1, BlockWords, BlockBalanced
<1>3. seqs \in Seq(Seq(Token)) /\ \A b \in DOMAIN seqs : Balanced(seqs[b])
  BY <1>1, <1>2
<1>4. TableHtml(table) = Element(tags, Concat(seqs)) /\ tags \in Elements
  BY DEF TableHtml, Elements
<1> HIDE DEF seqs, tags
<1> QED BY <1>3, <1>4, BalancedElement

-----------------------------------------------------------------------------
(* Short sequences.                                                        *)

LEMMA Two ==
  ASSUME NEW T, NEW a \in T, NEW b \in T
  PROVE  <<a, b>> \in Seq(T) /\ <<a, b>> = <<a>> \o <<b>>
<1>1. <<a, b>> \in Seq(T) /\ Len(<<a, b>>) = 2
  OBVIOUS
<1>2. <<a>> \o <<b>> \in Seq(T) /\ Len(<<a>> \o <<b>>) = 2
  OBVIOUS
<1>3. ASSUME NEW i \in 1 .. 2 PROVE <<a, b>>[i] = (<<a>> \o <<b>>)[i]
  <2>1. CASE i = 1
    BY <2>1
  <2>2. CASE i = 2
    BY <2>2
  <2> QED BY <2>1, <2>2
<1> QED BY <1>1, <1>2, <1>3, SeqEqual

LEMMA Three ==
  ASSUME NEW T, NEW a \in T, NEW b \in T, NEW c \in T
  PROVE  <<a, b, c>> \in Seq(T) /\ <<a, b, c>> = <<a, b>> \o <<c>>
<1>1. <<a, b, c>> \in Seq(T) /\ Len(<<a, b, c>>) = 3
  OBVIOUS
<1>2. <<a, b>> \o <<c>> \in Seq(T) /\ Len(<<a, b>> \o <<c>>) = 3
  OBVIOUS
<1>3. ASSUME NEW i \in 1 .. 3 PROVE <<a, b, c>>[i] = (<<a, b>> \o <<c>>)[i]
  <2>1. CASE i = 1
    BY <2>1
  <2>2. CASE i = 2
    BY <2>2
  <2>3. CASE i = 3
    BY <2>3
  <2> QED BY <2>1, <2>2, <2>3
<1> QED BY <1>1, <1>2, <1>3, SeqEqual

LEMMA Four ==
  ASSUME NEW T, NEW a \in T, NEW b \in T, NEW c \in T, NEW d \in T
  PROVE  <<a, b, c, d>> \in Seq(T) /\ <<a, b, c, d>> = <<a, b, c>> \o <<d>>
<1>1. <<a, b, c, d>> \in Seq(T) /\ Len(<<a, b, c, d>>) = 4
  OBVIOUS
<1>2. <<a, b, c>> \o <<d>> \in Seq(T) /\ Len(<<a, b, c>> \o <<d>>) = 4
  OBVIOUS
<1>3. ASSUME NEW i \in 1 .. 4 PROVE <<a, b, c, d>>[i] = (<<a, b, c>> \o <<d>>)[i]
  <2>1. CASE i = 1
    BY <2>1
  <2>2. CASE i = 2
    BY <2>2
  <2>3. CASE i = 3
    BY <2>3
  <2>4. CASE i = 4
    BY <2>4
  <2> QED BY <2>1, <2>2, <2>3, <2>4
<1> QED BY <1>1, <1>2, <1>3, SeqEqual

LEMMA AppendTwo ==
  ASSUME NEW T, NEW s \in Seq(T), NEW a \in T, NEW b \in T
  PROVE  s \o <<a, b>> = Append(Append(s, a), b)
<1>1. Append(s, a) \in Seq(T) /\ <<a>> \in Seq(T) /\ <<b>> \in Seq(T)
  BY AppendProperties, OneToken
<1>2. Append(Append(s, a), b) = (s \o <<a>>) \o <<b>>
  BY <1>1, AppendIsConcat
<1>3. (s \o <<a>>) \o <<b>> = s \o (<<a>> \o <<b>>)
  BY <1>1, ConcatAssociative
<1> QED BY <1>2, <1>3, Two, Three, Four

LEMMA AppendThree ==
  ASSUME NEW T, NEW s \in Seq(T), NEW a \in T, NEW b \in T, NEW c \in T
  PROVE  s \o <<a, b, c>> = Append(Append(Append(s, a), b), c)
<1>1. /\ Append(Append(s, a), b) \in Seq(T) /\ <<a, b>> \in Seq(T) /\ <<c>> \in Seq(T)
  BY AppendProperties, OneToken, Two, Three, Four
<1>2. Append(Append(Append(s, a), b), c) = (s \o <<a, b>>) \o <<c>>
  BY <1>1, AppendIsConcat, AppendTwo
<1>3. (s \o <<a, b>>) \o <<c>> = s \o (<<a, b>> \o <<c>>)
  BY <1>1, ConcatAssociative
<1>4. <<a, b, c>> = <<a, b>> \o <<c>>
  BY Three
<1> QED BY <1>2, <1>3, <1>4

(* Sequences of tags.                                                      *)
LEMMA OpensTwo ==
  ASSUME NEW a \in Token, NEW b \in Token, NEW x, NEW y, NEW z,
         Opens(<<a>>, x, y), Opens(<<b>>, y, z)
  PROVE  Opens(<<a, b>>, x, z)
<1>1. <<a>> \in Seq(Token) /\ <<b>> \in Seq(Token) /\ <<a, b>> = <<a>> \o <<b>>
  BY OneToken, Two, Three, Four
<1>2. Opens(<<a>> \o <<b>>, x, z)
  BY <1>1, OpensBoth
<1> QED BY <1>1, <1>2

LEMMA OpensThree ==
  ASSUME NEW a \in Token, NEW b \in Token, NEW c \in Token, NEW x, NEW y, NEW z,
         Opens(<<a, b>>, x, y), Opens(<<c>>, y, z)
  PROVE  Opens(<<a, b, c>>, x, z)
<1>1. <<a, b>> \in Seq(Token) /\ <<c>> \in Seq(Token) /\ <<a, b, c>> = <<a, b>> \o <<c>>
  BY OneToken, Two, Three, Four
<1>2. Opens(<<a, b>> \o <<c>>, x, z)
  BY <1>1, OpensBoth
<1> QED BY <1>1, <1>2

LEMMA OpensFour ==
  ASSUME NEW a \in Token, NEW b \in Token, NEW c \in Token, NEW d \in Token,
         NEW x, NEW y, NEW z, Opens(<<a, b, c>>, x, y), Opens(<<d>>, y, z)
  PROVE  Opens(<<a, b, c, d>>, x, z)
<1>1. /\ <<a, b, c>> \in Seq(Token) /\ <<d>> \in Seq(Token)
      /\ <<a, b, c, d>> = <<a, b, c>> \o <<d>>
  BY OneToken, Two, Three, Four
<1>2. Opens(<<a, b, c>> \o <<d>>, x, z)
  BY <1>1, OpensBoth
<1> QED BY <1>1, <1>2

LEMMA TagsOnly ==
  ASSUME NEW l \in Seq(Tags)
  PROVE  l \in Seq(Token) /\ Words(l) = <<>>
<1>1. l \in Seq(Token)
  BY SeqMonotonic DEF Token
<1>2. \A i \in 1 .. Len(l) : l[i] \notin AllWords
  BY ElementOfSeq, Vocabulary
<1> QED BY <1>1, <1>2, Wordless

-----------------------------------------------------------------------------
(* The end tags a parser's result waits for, the last one first to come.   *)
Awaited(kind) ==
  CASE kind = "checklist" -> <<"</ul>", "</li>", "</label>">>
    [] kind = "ordered"   -> <<"</ol>", "</li>">>
    [] kind = "unordered" -> <<"</ul>", "</li>">>
    [] kind = "quote"     -> <<"</blockquote>">>
    [] kind = "code"      -> <<"</pre>", "</code>">>
    [] kind = "paragraph" -> <<"</p>">>
    [] OTHER              -> <<>>

(* What a list puts in front of the line it hands on to end its child.     *)
Ender(kind) == IF kind = "checklist" THEN "</label>" ELSE "</li>"

LEMMA ListTags ==
  ASSUME NEW kind \in Lists
  PROVE  /\ Opening[kind] \in Seq(Tags) /\ Closing[kind] \in Seq(Tags)
         /\ Between[kind] \in Seq(Tags)
         /\ HeadIn(Closing[kind], {Ender(kind)}) /\ HeadIn(Between[kind], {Ender(kind)})
         /\ Opening[kind] # <<>>
<1>1. /\ "<ul>" \in Tags /\ "<ol>" \in Tags /\ "<li>" \in Tags /\ "<label>" \in Tags
      /\ "</ul>" \in Tags /\ "</ol>" \in Tags /\ "</li>" \in Tags /\ "</label>" \in Tags
  BY DEF Tags, StartTags, EndTags, Elements
<1>2. CASE kind = "checklist"
  BY <1>1, <1>2, Two, Three, Four DEF Opening, Closing, Between, HeadIn, Ender
<1>3. CASE kind = "ordered"
  BY <1>1, <1>3, Two, Three, Four DEF Opening, Closing, Between, HeadIn, Ender
<1>4. CASE kind = "unordered"
  BY <1>1, <1>4, Two, Three, Four DEF Opening, Closing, Between, HeadIn, Ender
<1> QED BY <1>2, <1>3, <1>4 DEF Lists

LEMMA PairOpens ==
  ASSUME NEW a, NEW b, <<a, b>> \in Elements, NEW x \in Seq(Token)
  PROVE  /\ a \in Token /\ b \in Token /\ Append(x, b) \in Seq(Token)
         /\ Opens(<<a>>, x, Append(x, b)) /\ Opens(<<b>>, Append(x, b), x)
<1> DEFINE tags == <<a, b>>
<1>1. tags \in Elements /\ tags[1] = a /\ tags[2] = b
  OBVIOUS
<1> HIDE DEF tags
<1>2. a \in Token /\ b \in Token
  BY <1>1, ElementTags, TagKinds DEF Tags
<1> QED BY <1>1, <1>2, OpensStart

LEMMA AwaitedType == \A kind : Awaited(kind) \in Seq(Token)
<1>1. /\ "</ul>" \in Tags /\ "</ol>" \in Tags /\ "</li>" \in Tags /\ "</label>" \in Tags
      /\ "</blockquote>" \in Tags /\ "</pre>" \in Tags /\ "</code>" \in Tags /\ "</p>" \in Tags
  BY DEF Tags, EndTags, Elements
<1>2. \A kind : Awaited(kind) \in Seq(Tags)
  BY <1>1, Two, Three, Four, OneToken DEF Awaited
<1> QED BY <1>2, TagsOnly

LEMMA ListOpens ==
  ASSUME NEW kind \in Lists, NEW x \in Seq(Token)
  PROVE  /\ Opens(Opening[kind], x, x \o Awaited(kind))
         /\ Opens(Closing[kind], x \o Awaited(kind), x)
         /\ Opens(Between[kind], x \o Awaited(kind), x \o Awaited(kind))
<1>1. /\ <<"<ul>", "</ul>">> \in Elements /\ <<"<ol>", "</ol>">> \in Elements
      /\ <<"<li>", "</li>">> \in Elements /\ <<"<label>", "</label>">> \in Elements
  BY DEF Elements
<1>2. CASE kind = "checklist"
  <2> DEFINE y == Append(x, "</ul>")
             z == Append(y, "</li>")
             w == Append(z, "</label>")
  <2>1. x \o Awaited(kind) = w
    <3>1. "</ul>" \in Token /\ "</li>" \in Token /\ "</label>" \in Token
      BY <1>1, PairOpens
    <3>2. Awaited(kind) = <<"</ul>", "</li>", "</label>">>
      BY <1>2 DEF Awaited
    <3> QED BY <3>1, <3>2, AppendThree
  <2>2. /\ y \in Seq(Token) /\ Opens(<<"<ul>">>, x, y) /\ Opens(<<"</ul>">>, y, x)
        /\ "<ul>" \in Token /\ "</ul>" \in Token
    BY <1>1, PairOpens
  <2> HIDE DEF y
  <2>3. /\ z \in Seq(Token) /\ Opens(<<"<li>">>, y, z) /\ Opens(<<"</li>">>, z, y)
        /\ "<li>" \in Token /\ "</li>" \in Token
    BY <1>1, <2>2, PairOpens
  <2> HIDE DEF z
  <2>4. /\ w \in Seq(Token) /\ Opens(<<"<label>">>, z, w) /\ Opens(<<"</label>">>, w, z)
        /\ "<label>" \in Token /\ "</label>" \in Token
    BY <1>1, <2>3, PairOpens
  <2> HIDE DEF w
  <2>5. Opens(<<"<ul>", "<li>">>, x, z) /\ Opens(<<"</label>", "</li>">>, w, y)
    BY <2>2, <2>3, <2>4, OpensTwo
  <2>6. /\ Opens(<<"<ul>", "<li>", "<label>">>, x, w)
        /\ Opens(<<"</label>", "</li>", "</ul>">>, w, x)
        /\ Opens(<<"</label>", "</li>", "<li>">>, w, z)
    BY <2>2, <2>3, <2>4, <2>5, OpensThree
  <2>7. Opens(<<"</label>", "</li>", "<li>", "<label>">>, w, w)
    BY <2>3, <2>4, <2>6, OpensFour
  <2>8. /\ Opening[kind] = <<"<ul>", "<li>", "<label>">>
        /\ Closing[kind] = <<"</label>", "</li>", "</ul>">>
        /\ Between[kind] = <<"</label>", "</li>", "<li>", "<label>">>
    BY <1>2 DEF Opening, Closing, Between
  <2> QED BY <2>1, <2>6, <2>7, <2>8
<1>3. ASSUME NEW a, NEW b, <<a, b>> \in Elements,
             Opening[kind] = <<a, "<li>">>, Closing[kind] = <<"</li>", b>>,
             Between[kind] = <<"</li>", "<li>">>, Awaited(kind) = <<b, "</li>">>
      PROVE  /\ Opens(Opening[kind], x, x \o Awaited(kind))
             /\ Opens(Closing[kind], x \o Awaited(kind), x)
             /\ Opens(Between[kind], x \o Awaited(kind), x \o Awaited(kind))
  <2> DEFINE y == Append(x, b)
             z == Append(y, "</li>")
  <2>1. x \o Awaited(kind) = z
    <3>1. b \in Token /\ "</li>" \in Token
      BY <1>1, <1>3, PairOpens
    <3> QED BY <1>3, <3>1, AppendTwo
  <2>2. /\ y \in Seq(Token) /\ Opens(<<a>>, x, y) /\ Opens(<<b>>, y, x)
        /\ a \in Token /\ b \in Token
    BY <1>3, PairOpens
  <2> HIDE DEF y
  <2>3. /\ z \in Seq(Token) /\ Opens(<<"<li>">>, y, z) /\ Opens(<<"</li>">>, z, y)
        /\ "<li>" \in Token /\ "</li>" \in Token
    BY <1>1, <2>2, PairOpens
  <2> HIDE DEF z
  <2>4. /\ Opens(<<a, "<li>">>, x, z) /\ Opens(<<"</li>", b>>, z, x)
        /\ Opens(<<"</li>", "<li>">>, z, z)
    BY <2>2, <2>3, OpensTwo
  <2> QED BY <1>3, <2>1, <2>4
<1>4. CASE kind = "ordered"
  <2>1. /\ Opening[kind] = <<"<ol>", "<li>">> /\ Closing[kind] = <<"</li>", "</ol>">>
        /\ Between[kind] = <<"</li>", "<li>">> /\ Awaited(kind) = <<"</ol>", "</li>">>
    BY <1>4 DEF Opening, Closing, Between, Awaited
  <2> QED BY <1>1, <1>3, <2>1
<1>5. CASE kind = "unordered"
  <2>1. /\ Opening[kind] = <<"<ul>", "<li>">> /\ Closing[kind] = <<"</li>", "</ul>">>
        /\ Between[kind] = <<"</li>", "<li>">> /\ Awaited(kind) = <<"</ul>", "</li>">>
    BY <1>5 DEF Opening, Closing, Between, Awaited
  <2> QED BY <1>1, <1>3, <2>1
<1> QED BY <1>2, <1>4, <1>5 DEF Lists

-----------------------------------------------------------------------------
(* The inductive invariant.                                                *)

Kinds == {"code", "headline", "hr", "quote", "table", "checklist", "ordered",
          "unordered", "paragraph"}

Parser == [ kind : Kinds, isStarted : BOOLEAN, isFinished : BOOLEAN,
            result : Seq(Token), table : Seq(Seq(Seq(Plain))), currentBlock : Nat ]

TypesOK ==
  /\ doc \in Seq(Lines) /\ Len(doc) <= MaxLines
  /\ parsers \in Seq(Parser)
  /\ level \in 0 .. Len(parsers)
  /\ phase \in {"read", "down", "up", "done"}
  /\ level = 0 <=> phase \in {"read", "done"}
  /\ phase = "read" => ~ended
  /\ phase = "done" => ended
  /\ ended \in BOOLEAN
  /\ line \in Seq(Token) /\ html \in Seq(Token)
  /\ health \in {"sound", "undefined"}

(* What may be in what: lists are in lists of their own sort, and code     *)
(* blocks, rules and tables, whose starting lines have nothing behind      *)
(* them, are never in a quote, which puts a space there.                   *)
Nests(outer, inner) ==
  \/ outer = "quote" /\ inner \notin {"code", "hr", "table"}
  \/ outer = "checklist" /\ inner = "checklist"
  \/ outer \in {"ordered", "unordered"} /\ inner \in {"ordered", "unordered"}

ShapeOK ==
  \A i, j \in DOMAIN parsers :
    /\ j = i + 1 => Nests(parsers[i].kind, parsers[j].kind)
    /\ i < j /\ parsers[j].kind = "quote" => parsers[i].kind = "quote"

TablesOK ==
  \A i \in DOMAIN parsers :
    IF parsers[i].kind = "table"
    THEN ~parsers[i].isFinished => parsers[i].result = <<>>
    ELSE parsers[i].table = <<>>

IsOpen(p) == p.isStarted /\ ~p.isFinished /\ p.kind \notin {"headline", "hr"}

IsEnder(l) == level > 1 /\ parsers[level - 1].kind \in Lists
              /\ HeadIn(l, {Ender(parsers[level - 1].kind)})

(* How far down the parsers have seen the line.                            *)
Seen == IF phase = "down" THEN level - 1 ELSE level

Fresh(p, l) == p = New(p.kind) /\ IsStartingLine(p.kind, l) /\ l \in Seq(Plain)

FlagsOK ==
  /\ \A i \in DOMAIN parsers : i > level => IsOpen(parsers[i])
  /\ \A i \in 1 .. level - 1 :
       parsers[i].isStarted /\ parsers[i].kind \notin {"headline", "hr"}
  /\ \A i, j \in 1 .. Seen :
       i < j /\ parsers[i].isFinished => parsers[j].isFinished
  /\ phase = "down" =>
       /\ \/ IsOpen(parsers[level])
          \/ level = Len(parsers) /\ Fresh(parsers[level], line)
       /\ \/ line \in Seq(Plain) /\ \A i \in 1 .. level - 1 : ~parsers[i].isFinished
          \/ IsEnder(line)
  /\ phase = "up" =>
       IF parsers[level].isFinished THEN level = Len(parsers) ELSE IsOpen(parsers[level])

(* The end tags that the parsers wait for, and those that they still will  *)
(* when the ones that have finished have returned.                         *)
Need(p)  == IF p.isStarted THEN Awaited(p.kind) ELSE <<>>
Lacks(p) == IF p.isFinished THEN <<>> ELSE Need(p)

Needed(ps, n) == Upto([i \in 1 .. n |-> Need(ps[i])], n)
Lacked(ps, n) == Upto([i \in 1 .. n |-> Lacks(ps[i])], n)

HtmlOK ==
  /\ Opens(html, <<>>, <<>>)
  /\ \A i \in DOMAIN parsers : ~(phase = "up" /\ i = level) =>
       Opens(parsers[i].result, Needed(parsers, i - 1), Needed(parsers, i))
  /\ phase = "up" =>
       Opens(parsers[level].result, Needed(parsers, level - 1), Lacked(parsers, level))
  /\ phase = "down" =>
       Opens(line, Needed(parsers, level - 1), Lacked(parsers, level - 1))

(* The words that the first n parsers hold.                                *)
Held(ps, n) == Upto([i \in 1 .. n |-> Words(Pending(ps[i]))], n)

WordsOK ==
  health = "sound" =>
    (Words(html) \o Held(parsers, Len(parsers)))
      \o (IF phase = "down" THEN Words(line) ELSE <<>>) = Written

LineOK ==
  phase = "down" /\ level = 1 =>
    IF ended THEN line = <<>>
    ELSE doc # <<>> /\ line = NthLine(doc[Len(doc)], Len(doc))

EndOK ==
  ended /\ parsers # <<>> /\ ~(phase = "down" /\ level = 1) =>
    parsers[1].isFinished \/ parsers[1].kind \in {"quote", "code", "table"}

(* How far the table has got: to the line before the one it is given.      *)
SoFar == IF phase = "down" /\ ~ended THEN Len(doc) - 1 ELSE Len(doc)

Breaks(j) == /\ doc[j] = Separator /\ j > 1
             /\ doc[j - 1] \in {<<"|table>">>, Separator}

TableOK ==
  /\ parsers # <<>> /\ parsers[1].kind = "table" /\ ~parsers[1].isFinished =>
       /\ Len(parsers[1].table) <= parsers[1].currentBlock + 1
       /\ parsers[1].isStarted /\ Len(parsers[1].table) = parsers[1].currentBlock =>
            SoFar > 0 /\ doc[SoFar] \in {<<"|table>">>, Separator}
       /\ Len(parsers[1].table) < parsers[1].currentBlock => \E j \in 1 .. SoFar : Breaks(j)
  /\ health = "undefined" => \E j \in DOMAIN doc : Breaks(j)

QuotesOK ==
  /\ \A i \in DOMAIN parsers :
       parsers[i].kind = "quote" => \E k \in DOMAIN doc : i <= Quotes(doc[k])
  /\ /\ phase = "down" /\ HeadIn(line, {">"})
     /\ \A i \in 1 .. level - 1 : parsers[i].kind = "quote"
     => doc # <<>> /\ Quotes(line) + level - 1 <= Quotes(doc[Len(doc)])

OnlyQuotes(n) ==
  \A i \in DOMAIN parsers :
    parsers[i].kind = "quote" /\ \E k \in DOMAIN doc : i + n <= Quotes(doc[k]) + 1

Ending == ~ended /\ doc # <<>> /\ doc[Len(doc)] = <<>> /\ parsers # <<>>
          /\ parsers[1].kind \notin {"code", "table"}

(* An empty line costs a quote: before it has been seen, the quotes are    *)
(* fewer than the line's marks allow by the empty lines before this one.   *)
Shrinking == \A n \in 1 .. Len(doc) - 1 : AreEmpty(n + 1) => OnlyQuotes(n)
Shrunk    == \A n \in 1 .. Len(doc) : AreEmpty(n) => OnlyQuotes(n)

EmptyOK ==
  Ending =>
    /\ phase = "read" => Shrunk
    /\ phase \in {"down", "up"} =>
         \A i \in 1 .. level - 1 : parsers[i].kind = "quote" \/ parsers[i].isFinished
    /\ phase = "down" => Shrinking /\ (line = <<>> \/ IsEnder(line))
    /\ phase = "up" => IF parsers[level].isFinished THEN Shrinking ELSE Shrunk

IInv == /\ TypesOK /\ ShapeOK /\ TablesOK /\ FlagsOK /\ HtmlOK /\ WordsOK
        /\ LineOK /\ EndOK /\ TableOK /\ QuotesOK /\ EmptyOK

-----------------------------------------------------------------------------
(* What the parsers up to one need, lack and hold.                         *)

LEMMA NeedType == \A p : Need(p) \in Seq(Token) /\ Lacks(p) \in Seq(Token)
BY AwaitedType DEF Need, Lacks

LEMMA NeededProps ==
  ASSUME NEW ps, NEW n \in Nat
  PROVE  /\ Needed(ps, n) \in Seq(Token) /\ Lacked(ps, n) \in Seq(Token)
         /\ n = 0 => Needed(ps, n) = <<>> /\ Lacked(ps, n) = <<>>
         /\ n > 0 => /\ Needed(ps, n) = Needed(ps, n - 1) \o Need(ps[n])
                     /\ Lacked(ps, n) = Lacked(ps, n - 1) \o Lacks(ps[n])
<1> DEFINE a == [i \in 1 .. n |-> Need(ps[i])]
           b == [i \in 1 .. n |-> Lacks(ps[i])]
<1>1. \A i \in 1 .. n : a[i] \in Seq(Token) /\ b[i] \in Seq(Token)
  BY NeedType
<1>2. Needed(ps, n) = Upto(a, n) /\ Lacked(ps, n) = Upto(b, n)
  BY DEF Needed, Lacked
<1>3. ASSUME n > 0
      PROVE  /\ Needed(ps, n) = Needed(ps, n - 1) \o Need(ps[n])
             /\ Lacked(ps, n) = Lacked(ps, n - 1) \o Lacks(ps[n])
  <2> DEFINE c == [i \in 1 .. n - 1 |-> Need(ps[i])]
             d == [i \in 1 .. n - 1 |-> Lacks(ps[i])]
  <2>1. /\ n - 1 \in Nat /\ n \in Nat \ {0} /\ a[n] = Need(ps[n]) /\ b[n] = Lacks(ps[n])
        /\ \A i \in 1 .. n - 1 : a[i] = c[i] /\ b[i] = d[i]
    BY <1>3
  <2>2. Needed(ps, n - 1) = Upto(c, n - 1) /\ Lacked(ps, n - 1) = Upto(d, n - 1)
    BY DEF Needed, Lacked
  <2> HIDE DEF a, b, c, d
  <2>3. Upto(a, n - 1) = Upto(c, n - 1) /\ Upto(b, n - 1) = Upto(d, n - 1)
    BY <2>1, UptoSame
  <2>4. Upto(a, n) = Upto(a, n - 1) \o a[n] /\ Upto(b, n) = Upto(b, n - 1) \o b[n]
    BY <2>1, UptoLast
  <2> QED BY <1>2, <2>1, <2>2, <2>3, <2>4
<1> HIDE DEF a, b
<1>4. Upto(a, n) \in Seq(Token) /\ Upto(b, n) \in Seq(Token)
  BY <1>1, UptoType
<1>5. n = 0 => Upto(a, n) = <<>> /\ Upto(b, n) = <<>>
  BY UptoNone
<1> QED BY <1>2, <1>3, <1>4, <1>5

LEMMA NeededSame ==
  ASSUME NEW ps, NEW qs, NEW n \in Nat, \A i \in 1 .. n : Need(ps[i]) = Need(qs[i])
  PROVE  Needed(ps, n) = Needed(qs, n)
<1>1. [i \in 1 .. n |-> Need(ps[i])] = [i \in 1 .. n |-> Need(qs[i])]
  OBVIOUS
<1> QED BY <1>1 DEF Needed

LEMMA LackedSame ==
  ASSUME NEW ps, NEW qs, NEW n \in Nat, \A i \in 1 .. n : Lacks(ps[i]) = Lacks(qs[i])
  PROVE  Lacked(ps, n) = Lacked(qs, n)
<1>1. [i \in 1 .. n |-> Lacks(ps[i])] = [i \in 1 .. n |-> Lacks(qs[i])]
  OBVIOUS
<1> QED BY <1>1 DEF Lacked

LEMMA LackedIsNeeded ==
  ASSUME NEW ps, NEW n \in Nat, \A i \in 1 .. n : ~ps[i].isFinished
  PROVE  Lacked(ps, n) = Needed(ps, n)
<1>1. \A i \in 1 .. n : Lacks(ps[i]) = Need(ps[i])
  BY DEF Lacks
<1>2. [i \in 1 .. n |-> Lacks(ps[i])] = [i \in 1 .. n |-> Need(ps[i])]
  BY <1>1
<1> QED BY <1>2 DEF Lacked, Needed

LEMMA PendingType ==
  ASSUME NEW p \in Parser
  PROVE  Pending(p) \in Seq(Token) /\ Words(Pending(p)) \in Seq(Token)
<1>1. p.result \in Seq(Token) /\ p.table \in Seq(Seq(Seq(Plain)))
  BY DEF Parser
<1>2. Concat([b \in DOMAIN p.table |-> Concat(p.table[b])]) \in Seq(Token)
  BY <1>1, TableWords, ConcatType
<1>3. Pending(p) \in Seq(Token)
  BY <1>1, <1>2, ConcatProperties DEF Pending
<1> QED BY <1>3, WordsType

(* A parser that is no table holds its result.                             *)
LEMMA PendingNoTable ==
  ASSUME NEW p, p.result \in Seq(Token), p.table = <<>> \/ p.isFinished
  PROVE  Pending(p) = p.result
<1>1. CASE p.isFinished
  BY <1>1 DEF Pending
<1>2. CASE ~p.isFinished
  <2> DEFINE rows == [b \in DOMAIN p.table |-> Concat(p.table[b])]
  <2>1. p.table = <<>>
    BY <1>2
  <2>2. Len(rows) = 0
    BY <2>1
  <2>3. Concat(rows) = <<>>
    BY <2>2, ConcatOfNone
  <2>4. Pending(p) = p.result \o <<>>
    BY <1>2, <2>3 DEF Pending
  <2> QED BY <2>4, ConcatEmptySeq
<1> QED BY <1>1, <1>2

LEMMA HeldProps ==
  ASSUME NEW ps, NEW n \in Nat, \A i \in 1 .. n : ps[i] \in Parser
  PROVE  /\ Held(ps, n) \in Seq(Token)
         /\ n = 0 => Held(ps, n) = <<>>
         /\ n > 0 => Held(ps, n) = Held(ps, n - 1) \o Words(Pending(ps[n]))
<1> DEFINE a == [i \in 1 .. n |-> Words(Pending(ps[i]))]
<1>1. \A i \in 1 .. n : a[i] \in Seq(Token)
  BY PendingType
<1>2. Held(ps, n) = Upto(a, n)
  BY DEF Held
<1>3. ASSUME n > 0 PROVE Held(ps, n) = Held(ps, n - 1) \o Words(Pending(ps[n]))
  <2> DEFINE c == [i \in 1 .. n - 1 |-> Words(Pending(ps[i]))]
  <2>1. /\ n - 1 \in Nat /\ n \in Nat \ {0} /\ a[n] = Words(Pending(ps[n]))
        /\ \A i \in 1 .. n - 1 : a[i] = c[i]
    BY <1>3
  <2>2. Held(ps, n - 1) = Upto(c, n - 1)
    BY DEF Held
  <2> HIDE DEF a, c
  <2>3. Upto(a, n - 1) = Upto(c, n - 1)
    BY <2>1, UptoSame
  <2>4. Upto(a, n) = Upto(a, n - 1) \o a[n]
    BY <2>1, UptoLast
  <2> QED BY <1>2, <2>1, <2>2, <2>3, <2>4
<1> HIDE DEF a
<1> QED BY <1>1, <1>2, <1>3, UptoType, UptoNone

LEMMA HeldSame ==
  ASSUME NEW ps, NEW qs, NEW n \in Nat,
         \A i \in 1 .. n : Words(Pending(ps[i])) = Words(Pending(qs[i]))
  PROVE  Held(ps, n) = Held(qs, n)
<1>1. [i \in 1 .. n |-> Words(Pending(ps[i]))] = [i \in 1 .. n |-> Words(Pending(qs[i]))]
  OBVIOUS
<1> QED BY <1>1 DEF Held

LEMMA HeldAll ==
  ASSUME NEW ps \in Seq(Parser)
  PROVE  /\ Concat([i \in DOMAIN ps |-> Pending(ps[i])]) \in Seq(Token)
         /\ Words(Concat([i \in DOMAIN ps |-> Pending(ps[i])])) = Held(ps, Len(ps))
<1> DEFINE seqs == [i \in DOMAIN ps |-> Pending(ps[i])]
           words == [i \in DOMAIN seqs |-> Words(seqs[i])]
<1>1. DOMAIN ps = 1 .. Len(ps) /\ Len(ps) \in Nat /\ \A i \in DOMAIN ps : ps[i] \in Parser
  BY LenProperties, ElementOfSeq
<1>2. \A i \in DOMAIN ps : Pending(ps[i]) \in Seq(Token) /\ Words(Pending(ps[i])) \in Seq(Token)
  BY <1>1, PendingType
<1>3. seqs \in Seq(Seq(Token)) /\ DOMAIN words = DOMAIN seqs
  BY <1>1, <1>2
<1>4. words \in Seq(Seq(Token)) /\ Len(words) = Len(ps)
  BY <1>1, <1>2
<1>5. \A i \in 1 .. Len(ps) : words[i] = [j \in 1 .. Len(ps) |-> Words(Pending(ps[j]))][i]
  BY <1>1
<1>6. Words(Concat(seqs)) = Concat(words)
  <2> HIDE DEF seqs
  <2> QED BY <1>3, WordsOfConcat
<1>7. Concat(words) = Upto(words, Len(ps))
  <2> HIDE DEF words
  <2> QED BY <1>4, UptoAll
<1>8. Upto(words, Len(ps)) = Held(ps, Len(ps))
  <2> HIDE DEF words
  <2> QED BY <1>1, <1>5, UptoSame DEF Held
<1>9. Concat(seqs) \in Seq(Token)
  <2> HIDE DEF seqs
  <2> QED BY <1>3, ConcatType
<1> QED BY <1>6, <1>7, <1>8, <1>9

-----------------------------------------------------------------------------
(* Lines.                                                                  *)

LEMMA HeadAndTail ==
  ASSUME NEW T, NEW l \in Seq(T), l # <<>>
  PROVE  /\ Head(l) \in T /\ Tail(l) \in Seq(T) /\ l = <<Head(l)>> \o Tail(l)
         /\ Len(l) \in Nat \ {0} /\ Len(Tail(l)) = Len(l) - 1
         /\ Head(l) = l[1] /\ \A i \in 1 .. Len(l) - 1 : Tail(l)[i] = l[i + 1]
<1>1. /\ Head(l) \in T /\ Tail(l) \in Seq(T) /\ Len(Tail(l)) = Len(l) - 1
      /\ \A i \in 1 .. Len(Tail(l)) : Tail(l)[i] = l[i + 1]
      /\ Len(l) \in Nat \ {0} /\ Head(l) = l[1]
  BY HeadTailProperties, EmptySeq
<1> DEFINE h == <<Head(l)>>
           t == Tail(l)
<1>2. h \in Seq(T) /\ Len(h) = 1 /\ h[1] = Head(l)
  BY <1>1, OneToken
<1> HIDE DEF h, t
<1>3. /\ h \o t \in Seq(T) /\ Len(h \o t) = Len(l)
      /\ \A i \in 1 .. Len(l) : (h \o t)[i] = IF i <= 1 THEN h[i] ELSE t[i - 1]
  <2>1. t \in Seq(T) /\ 1 + Len(t) = Len(l)
    BY <1>1 DEF t
  <2>2. /\ h \o t \in Seq(T) /\ Len(h \o t) = Len(h) + Len(t)
        /\ \A i \in 1 .. Len(h) + Len(t) :
             (h \o t)[i] = IF i <= Len(h) THEN h[i] ELSE t[i - Len(h)]
    BY <1>2, <2>1, ConcatProperties
  <2> QED BY <1>2, <2>1, <2>2
<1>4. ASSUME NEW i \in 1 .. Len(l) PROVE l[i] = (h \o t)[i]
  <2>1. CASE i = 1
    BY <1>1, <1>2, <1>3, <2>1
  <2>2. CASE i # 1
    <3>1. i - 1 \in 1 .. Len(l) - 1 /\ (i - 1) + 1 = i /\ ~(i <= 1)
      BY <1>1, <2>2
    <3>2. t[i - 1] = l[i]
      BY <1>1, <3>1 DEF t
    <3> QED BY <1>3, <3>1, <3>2
  <2> QED BY <2>1, <2>2
<1>5. l = h \o t
  BY <1>3, <1>4, SeqEqual
<1> QED BY <1>1, <1>5 DEF h, t

LEMMA TailWords ==
  ASSUME NEW l \in Seq(Token), l # <<>>, Head(l) \notin AllWords
  PROVE  Words(Tail(l)) = Words(l)
<1>1. Head(l) \in Token /\ Tail(l) \in Seq(Token) /\ l = <<Head(l)>> \o Tail(l)
  BY HeadAndTail
<1>2. /\ <<Head(l)>> \in Seq(Token) /\ Len(<<Head(l)>>) = 1
      /\ <<Head(l)>>[1] = Head(l)
  BY <1>1, OneToken
<1>3. Words(<<Head(l)>>) = <<>>
  <2>1. \A i \in 1 .. Len(<<Head(l)>>) : <<Head(l)>>[i] \notin AllWords
    BY <1>2
  <2> QED BY <1>2, <2>1, Wordless
<1>4. Words(<<Head(l)>> \o Tail(l)) = Words(<<Head(l)>>) \o Words(Tail(l))
  BY <1>1, <1>2, WordsBoth
<1>5. Words(Tail(l)) \in Seq(Token)
  BY <1>1, WordsType
<1> QED BY <1>1, <1>3, <1>4, <1>5, ConcatEmptySeq

LEMMA WithoutProps ==
  ASSUME NEW l \in Seq(Plain), NEW S \in SUBSET Marks
  PROVE  Without(l, S) \in Seq(Plain) /\ Words(Without(l, S)) = Words(l)
<1>1. CASE HeadIn(l, S)
  <2>1. l # <<>> /\ Head(l) \notin AllWords /\ Tail(l) \in Seq(Plain)
    BY <1>1, HeadAndTail, Vocabulary DEF HeadIn
  <2> QED BY <1>1, <2>1, PlainSeq, TailWords DEF Without
<1>2. CASE ~HeadIn(l, S)
  BY <1>2 DEF Without
<1> QED BY <1>1, <1>2

LEMMA WithoutMarkProps ==
  ASSUME NEW kind \in Lists, NEW l \in Seq(Plain)
  PROVE  WithoutMark(kind, l) \in Seq(Plain) /\ Words(WithoutMark(kind, l)) = Words(l)
<1>1. /\ {"1. ", "2. "} \subseteq Marks /\ {"* "} \subseteq Marks /\ {"* ", "- "} \subseteq Marks
      /\ {"- "} \subseteq Marks /\ {"[ ] "} \subseteq Marks
  BY DEF Marks
<1>2. CASE kind = "ordered"
  <2>1. WithoutMark(kind, l) = Without(Without(l, {"1. ", "2. "}), {"* "})
    BY <1>2 DEF WithoutMark
  <2> QED BY <1>1, <2>1, WithoutProps, ZenonT(30)
<1>3. CASE kind = "unordered"
  <2>1. WithoutMark(kind, l) = Without(l, {"* ", "- "})
    BY <1>3 DEF WithoutMark
  <2> QED BY <1>1, <2>1, WithoutProps
<1>4. CASE kind = "checklist"
  <2>1. WithoutMark(kind, l) = Without(Without(l, {"- "}), {"[ ] "})
    BY <1>4 DEF WithoutMark
  <2> QED BY <1>1, <2>1, WithoutProps, ZenonT(30)
<1> QED BY <1>2, <1>3, <1>4 DEF Lists

(* A line that begins with a tag begins with nothing else.                 *)
LEMMA TagAhead ==
  ASSUME NEW l, HeadIn(l, Tags), NEW kind \in Lists
  PROVE  /\ WithoutMark(kind, l) = l
         /\ \A k \in Lists : ~IsStartingLine(k, l)
         /\ ~HeadIn(l, {"  "}) /\ ~HeadIn(l, {">"}) /\ l # <<>>
<1>1. l # <<>> /\ Head(l) \notin Marks
  BY TagKinds DEF HeadIn, Plain
<1>2. \A S \in SUBSET Marks : ~HeadIn(l, S) /\ Without(l, S) = l
  BY <1>1 DEF HeadIn, Without
<1>3. /\ {"1. ", "2. "} \subseteq Marks /\ {"* "} \subseteq Marks /\ {"* ", "- "} \subseteq Marks
      /\ {"- "} \subseteq Marks /\ {"[ ] "} \subseteq Marks /\ {"1. "} \subseteq Marks
      /\ {"  "} \subseteq Marks /\ {">"} \subseteq Marks
  BY DEF Marks
<1>4. WithoutMark(kind, l) = l
  BY <1>2, <1>3 DEF WithoutMark, Lists
<1>5. \A k \in Lists : ~IsStartingLine(k, l)
  BY <1>2, <1>3 DEF IsStartingLine, Lists
<1> QED BY <1>1, <1>2, <1>3, <1>4, <1>5

-----------------------------------------------------------------------------
(* The parser for a line.                                                  *)

LEMMA ParserForProps ==
  ASSUME NEW kinds \in Seq(Kinds), NEW l
  PROVE  \/ /\ ParserFor(kinds, l) = <<>>
            /\ \A i \in 1 .. Len(kinds) : ~IsStartingLine(kinds[i], l)
         \/ /\ ParserFor(kinds, l) # <<>>
            /\ \E i \in 1 .. Len(kinds) :
                 ParserFor(kinds, l) = <<New(kinds[i])>> /\ IsStartingLine(kinds[i], l)
<1> DEFINE starting == { i \in DOMAIN kinds : IsStartingLine(kinds[i], l) }
<1>1. DOMAIN kinds = 1 .. Len(kinds) /\ Len(kinds) \in Nat
  BY LenProperties
<1>2. CASE starting = {}
  <2>1. ParserFor(kinds, l) = <<>>
    BY <1>2 DEF ParserFor
  <2>2. \A i \in 1 .. Len(kinds) : ~IsStartingLine(kinds[i], l)
    BY <1>1, <1>2
  <2> QED BY <2>1, <2>2
<1>3. CASE starting # {}
  <2>1. ParserFor(kinds, l) = <<New(kinds[Min(starting)])>>
    BY <1>3 DEF ParserFor
  <2>2. starting \in SUBSET Nat
    BY <1>1
  <2>3. \A i \in starting : i \in 1 .. Len(kinds) /\ IsStartingLine(kinds[i], l)
    BY <1>1
  <2> HIDE DEF starting
  <2>4. \E i \in starting : \A j \in starting : i <= j
    BY <1>3, <2>2, Smallest
  <2>5. Min(starting) \in starting
    BY <2>4 DEF Min
  <2>6. ParserFor(kinds, l) # <<>>
    BY <2>1
  <2> QED BY <2>1, <2>3, <2>5, <2>6
<1> QED BY <1>2, <1>3

LEMMA ChildrenProps ==
  ASSUME NEW kind \in Kinds
  PROVE  /\ Children(kind) \in Seq(Kinds)
         /\ kind \notin Lists \cup {"quote"} => Children(kind) = <<>>
         /\ kind \in Lists => \A i \in 1 .. Len(Children(kind)) :
                                Nests(kind, Children(kind)[i]) /\ Children(kind)[i] \in Lists
<1>0. Blocks \in Seq(Kinds) /\ <<"checklist">> \in Seq(Kinds)
      /\ <<"ordered", "unordered">> \in Seq(Kinds) /\ <<>> \in Seq(Kinds)
  BY DEF Blocks, Kinds
<1>1. Children(kind) \in Seq(Kinds)
  BY <1>0 DEF Children
<1>2. kind \notin Lists \cup {"quote"} => Children(kind) = <<>>
  BY DEF Children, Lists
<1>3. CASE kind = "checklist"
  <2>1. Children(kind) = <<"checklist">>
    BY <1>3 DEF Children
  <2>2. \A i \in 1 .. Len(Children(kind)) : Children(kind)[i] = "checklist"
    BY <2>1
  <2> QED BY <1>1, <1>2, <1>3, <2>2 DEF Nests, Lists
<1>4. CASE kind \in {"ordered", "unordered"}
  <2>1. Children(kind) = <<"ordered", "unordered">>
    BY <1>4 DEF Children
  <2>2. \A i \in 1 .. Len(Children(kind)) : Children(kind)[i] \in {"ordered", "unordered"}
    BY <2>1
  <2> QED BY <1>1, <1>2, <1>4, <2>2 DEF Nests, Lists
<1> QED BY <1>1, <1>2, <1>3, <1>4 DEF Lists

LEMMA BlocksProps ==
  /\ Blocks \in Seq(Kinds) /\ \A l : ParserFor(Blocks, l) = <<>> => l = <<>>
<1>1. Blocks \in Seq(Kinds) /\ Len(Blocks) = 9 /\ Blocks[9] = "paragraph"
  BY DEF Blocks, Kinds
<1>2. ASSUME NEW l, ParserFor(Blocks, l) = <<>> PROVE l = <<>>
  <2>1. ~IsStartingLine("paragraph", l)
    <3>1. \A i \in 1 .. Len(Blocks) : ~IsStartingLine(Blocks[i], l)
      BY <1>1, <1>2, ParserForProps
    <3>2. 9 \in 1 .. Len(Blocks)
      BY <1>1
    <3> QED BY <1>1, <3>1, <3>2
  <2> QED BY <2>1 DEF IsStartingLine
<1> QED BY <1>1, <1>2

(* A list hands a line that begins with a tag to no new child.             *)
LEMMA NoChildForTag ==
  ASSUME NEW l, HeadIn(l, Tags), NEW kind \in Lists
  PROVE  ParserFor(Children(kind), l) = <<>>
<1>1. kind \in Kinds
  BY DEF Lists, Kinds
<1>2. /\ Children(kind) \in Seq(Kinds)
      /\ \A i \in 1 .. Len(Children(kind)) : ~IsStartingLine(Children(kind)[i], l)
  BY <1>1, ChildrenProps, TagAhead
<1> QED BY <1>2, ParserForProps

LEMMA NoChild ==
  ASSUME NEW l, NEW kind \in Kinds \ (Lists \cup {"quote"})
  PROVE  ParserFor(Children(kind), l) = <<>>
<1>1. Children(kind) = <<>> /\ Children(kind) \in Seq(Kinds)
  BY ChildrenProps
<1>2. 1 .. Len(Children(kind)) = {}
  BY <1>1
<1> QED BY <1>1, <1>2, ParserForProps

-----------------------------------------------------------------------------
(* What parseBlock does to the parser, p, and the line, l.                 *)

Parses(p, l) ==
  /\ p \in Parser /\ l \in Seq(Token) /\ p.kind \notin {"quote", "table"}
  /\ IsOpen(p) \/ Fresh(p, l)
  /\ \/ l \in Seq(Plain)
     \/ p.kind \in Lists /\ IsOpen(p) /\ HeadIn(l, {Ender(p.kind)})

LEMMA FreshProps ==
  ASSUME NEW p, NEW l, Fresh(p, l)
  PROVE  /\ ~p.isStarted /\ IsStartingLine(p.kind, l) /\ l \in Seq(Plain) /\ ~IsOpen(p)
         /\ p.isFinished = (p.kind \in {"headline", "hr"})
<1> DEFINE k == p.kind
           b == k \in {"headline", "hr"}
<1>1. p = [ kind |-> k, isStarted |-> FALSE, isFinished |-> b,
            result |-> <<>>, table |-> <<>>, currentBlock |-> 0 ]
  BY DEF Fresh, New
<1> HIDE DEF k, b
<1>2. ~p.isStarted /\ p.isFinished = b
  BY <1>1
<1> QED BY <1>2 DEF Fresh, IsOpen, b, k

Passes(p, l, q, m) ==
  \A x, y \in Seq(Token) :
    Opens(l, x, y) /\ (l \in Seq(Plain) => x = y) => Opens(m, x \o Need(p), y \o Lacks(q))

ParsedOK(p, l, q, m) ==
  /\ q \in Parser /\ q.kind = p.kind /\ q.result = p.result /\ q.table = p.table
  /\ m \in Seq(Token) /\ Words(m) = Words(l)
  /\ q.isFinished \/ IsOpen(q)
  /\ Passes(p, l, q, m)
  /\ ~IsOpen(p) \/ p.kind \notin Lists => ParserFor(Children(p.kind), m) = <<>>
  /\ p.kind \in Lists => q.isStarted
  /\ p.kind \in Lists /\ IsOpen(p) =>
       (m \in Seq(Plain) /\ ~q.isFinished) \/ HeadIn(m, {Ender(p.kind)})
  /\ ~q.isFinished => l \in Seq(Plain) /\ (l # <<>> \/ p.kind = "code")

LEMMA ParsedParts == \A q, m : Parsed(q, m).parser = q /\ Parsed(q, m).line = m
BY DEF Parsed

LEMMA WhichBlock ==
  ASSUME NEW p, NEW l
  PROVE  /\ p.kind \in Lists => parseBlock(p, l) = ParseListLine(p, l)
         /\ p.kind = "code" => parseBlock(p, l) = ParseCodeLine(p, l)
         /\ p.kind = "paragraph" => parseBlock(p, l) = ParseParagraphLine(p, l)
         /\ p.kind = "headline" =>
              parseBlock(p, l) = Parsed(p, <<"<h1>">> \o Tail(l) \o <<"</h1>">>)
         /\ p.kind = "hr" => parseBlock(p, l) = Parsed(p, <<"<hr/>">>)
BY DEF parseBlock, Lists

LEMMA StartedProps ==
  ASSUME NEW p \in Parser
  PROVE  /\ Started(p) \in Parser /\ Finished(p) \in Parser
         /\ Started(p).kind = p.kind /\ Finished(p).kind = p.kind
         /\ Started(p).result = p.result /\ Finished(p).result = p.result
         /\ Started(p).table = p.table /\ Finished(p).table = p.table
         /\ Started(p).isStarted /\ Started(p).isFinished = p.isFinished
         /\ Finished(p).isFinished /\ Finished(p).isStarted = p.isStarted
BY DEF Started, Finished, Parser

(* Tags in front of the rest of a line.                                    *)
LEMMA TagsInFront ==
  ASSUME NEW tags \in Seq(Tags), NEW rest \in Seq(Token)
  PROVE  /\ tags \o rest \in Seq(Token) /\ Words(tags \o rest) = Words(rest)
         /\ \A S \in SUBSET Tags : HeadIn(tags, S) => HeadIn(tags \o rest, S)
<1>1. tags \in Seq(Token) /\ Words(tags) = <<>> /\ Words(rest) \in Seq(Token)
  BY TagsOnly, WordsType
<1>2. tags \o rest \in Seq(Token) /\ Words(tags \o rest) = Words(tags) \o Words(rest)
  BY <1>1, ConcatProperties, WordsBoth
<1>3. ASSUME NEW S \in SUBSET Tags, HeadIn(tags, S) PROVE HeadIn(tags \o rest, S)
  <2>1. tags # <<>> /\ Len(tags) \in Nat \ {0} /\ Head(tags) = tags[1] /\ Len(rest) \in Nat
    BY <1>1, <1>3, HeadAndTail, LenProperties DEF HeadIn
  <2>2. Len(tags \o rest) = Len(tags) + Len(rest) /\ (tags \o rest)[1] = tags[1]
    BY <1>1, <2>1, ConcatProperties
  <2>3. tags \o rest # <<>>
    BY <2>1, <2>2
  <2>4. Head(tags \o rest) = (tags \o rest)[1]
    BY <1>2, <2>3, HeadAndTail
  <2> QED BY <1>3, <2>1, <2>2, <2>3, <2>4 DEF HeadIn
<1> QED BY <1>1, <1>2, <1>3, ConcatEmptySeq

LEMMA EnderIsTag == \A kind : {Ender(kind)} \in SUBSET Tags
BY DEF Ender, Tags, EndTags, Elements

LEMMA OpensTagsInFront ==
  ASSUME NEW tags \in Seq(Tags), NEW rest \in Seq(Token), NEW x, NEW y, NEW z,
         Opens(tags, x, y), Opens(rest, y, z)
  PROVE  Opens(tags \o rest, x, z)
BY TagsOnly, OpensBoth

LEMMA ListStarts ==
  ASSUME NEW p, NEW l, Parses(p, l), p.kind \in Lists, ~IsOpen(p)
  PROVE  ParsedOK(p, l, parseBlock(p, l).parser, parseBlock(p, l).line)
<1> DEFINE rest == WithoutMark(p.kind, l)
           q == Started(p)
           m == Opening[p.kind] \o rest
<1>1. p \in Parser /\ l \in Seq(Plain) /\ ~p.isStarted /\ ~p.isFinished
  BY FreshProps DEF Parses, Lists
<1>2. parseBlock(p, l).parser = q /\ parseBlock(p, l).line = m
  <2>1. parseBlock(p, l) = ParseListLine(p, l)
    BY WhichBlock
  <2>2. ParseListLine(p, l) = Parsed(q, m)
    BY <1>1 DEF ParseListLine
  <2> HIDE DEF q, m
  <2> QED BY <2>1, <2>2, ParsedParts
<1>3. rest \in Seq(Plain) /\ rest \in Seq(Token) /\ Words(rest) = Words(l)
  BY <1>1, WithoutMarkProps, PlainSeq
<1>4. q \in Parser /\ q.kind = p.kind /\ q.result = p.result /\ q.table = p.table
      /\ q.isStarted /\ ~q.isFinished
  BY <1>1, StartedProps
<1>5. IsOpen(q)
  BY <1>4 DEF IsOpen, Lists
<1> HIDE DEF q, rest
<1>6. m \in Seq(Token) /\ Words(m) = Words(l) /\ HeadIn(m, Tags)
  <2>1. Opening[p.kind] \in Seq(Tags) /\ Opening[p.kind] # <<>>
    BY ListTags
  <2>2. HeadIn(Opening[p.kind], Tags)
    BY <2>1, HeadAndTail DEF HeadIn
  <2> QED BY <1>3, <2>1, <2>2, TagsInFront
<1>7. Passes(p, l, q, m)
  <2> SUFFICES ASSUME NEW x \in Seq(Token), NEW y \in Seq(Token), x = y
               PROVE  Opens(m, x \o Need(p), y \o Lacks(q))
    BY <1>1 DEF Passes
  <2>1. Need(p) = <<>> /\ Lacks(q) = Awaited(p.kind) /\ x \o <<>> = x
    BY <1>1, <1>4, ConcatEmptySeq DEF Need, Lacks
  <2>2. Opens(Opening[p.kind], x, x \o Awaited(p.kind)) /\ Opening[p.kind] \in Seq(Tags)
    BY ListOpens, ListTags
  <2>3. x \o Awaited(p.kind) \in Seq(Token)
    BY AwaitedType, ConcatProperties
  <2>4. Opens(rest, x \o Awaited(p.kind), x \o Awaited(p.kind))
    BY <1>3, <2>3, OpensPlain
  <2>5. Opens(m, x, x \o Awaited(p.kind))
    BY <1>3, <2>2, <2>4, OpensTagsInFront
  <2> QED BY <2>1, <2>5
<1>8. ParserFor(Children(p.kind), m) = <<>>
  BY <1>6, NoChildForTag
<1>9. l # <<>>
  BY DEF Parses, Fresh, IsStartingLine, Lists, HeadIn
<1> HIDE DEF m
<1> QED BY <1>1, <1>2, <1>4, <1>5, <1>6, <1>7, <1>8, <1>9 DEF ParsedOK

LEMMA OpenList ==
  ASSUME NEW p, NEW l, Parses(p, l), p.kind \in Lists, IsOpen(p)
  PROVE  /\ p \in Parser /\ p.isStarted /\ ~p.isFinished /\ l \in Seq(Token)
         /\ Need(p) = Awaited(p.kind) /\ Awaited(p.kind) \in Seq(Token)
         /\ l \in Seq(Plain) \/ HeadIn(l, {Ender(p.kind)})
         /\ l \in Seq(Plain) <=> ~EndsParentsItem(p.kind, l)
<1>1. /\ p \in Parser /\ p.isStarted /\ ~p.isFinished /\ l \in Seq(Token)
      /\ l \in Seq(Plain) \/ HeadIn(l, {Ender(p.kind)})
  BY DEF Parses, IsOpen
<1>2. EndsParentsItem(p.kind, l) <=> HeadIn(l, {Ender(p.kind)})
  BY DEF EndsParentsItem, Ender
<1>3. HeadIn(l, {Ender(p.kind)}) => l \notin Seq(Plain)
  <2> SUFFICES ASSUME HeadIn(l, {Ender(p.kind)}), l \in Seq(Plain) PROVE FALSE
    OBVIOUS
  <2>1. l # <<>> /\ Head(l) \in Tags /\ Head(l) \in Plain
    BY EnderIsTag, HeadAndTail DEF HeadIn
  <2> QED BY <2>1, TagKinds
<1> QED BY <1>1, <1>2, <1>3, AwaitedType DEF Need

(* The end of a list, or of an item, in front of what is left of the line. *)
LEMMA ListEnds ==
  ASSUME NEW p, NEW l, Parses(p, l), p.kind \in Lists, IsOpen(p),
         NEW rest \in Seq(Token), Words(rest) = Words(l),
         l \in Seq(Plain) => rest \in Seq(Plain), l \notin Seq(Plain) => rest = l
  PROVE  ParsedOK(p, l, Finished(p), Closing[p.kind] \o rest)
<1> DEFINE q == Finished(p)
           m == Closing[p.kind] \o rest
           kind == p.kind
<1>1. /\ p \in Parser /\ Need(p) = Awaited(kind) /\ Awaited(kind) \in Seq(Token)
      /\ l \in Seq(Token)
  BY OpenList
<1>2. q \in Parser /\ q.kind = p.kind /\ q.result = p.result /\ q.table = p.table
      /\ q.isFinished /\ q.isStarted
  BY <1>1, StartedProps, OpenList
<1>3. Closing[kind] \in Seq(Tags) /\ HeadIn(Closing[kind], {Ender(kind)})
  BY ListTags
<1> HIDE DEF q, kind
<1>4. m \in Seq(Token) /\ Words(m) = Words(l) /\ HeadIn(m, {Ender(kind)})
  BY <1>3, TagsInFront, EnderIsTag DEF kind
<1>5. Passes(p, l, q, m)
  <2> SUFFICES ASSUME NEW x \in Seq(Token), NEW y \in Seq(Token), Opens(l, x, y),
                      l \in Seq(Plain) => x = y
               PROVE  Opens(m, x \o Need(p), y \o Lacks(q))
    BY DEF Passes
  <2>1. Lacks(q) = <<>> /\ y \o <<>> = y
    BY <1>2, ConcatEmptySeq DEF Lacks
  <2>2. Opens(Closing[kind], x \o Awaited(kind), x)
    BY ListOpens DEF kind
  <2>3. Opens(rest, x, y)
    BY OpensPlain
  <2>4. Opens(m, x \o Awaited(kind), y)
    BY <1>3, <2>2, <2>3, OpensTagsInFront DEF kind
  <2> QED BY <1>1, <2>1, <2>4
<1> HIDE DEF m
<1>6. ParsedOK(p, l, q, m)
  BY <1>2, <1>4, <1>5 DEF ParsedOK, kind
<1> QED BY <1>6 DEF q, m, kind

LEMMA ListGoesOn ==
  ASSUME NEW p, NEW l, Parses(p, l), p.kind \in Lists, IsOpen(p),
         l \in Seq(Plain), l # <<>>,
         NEW rest \in Seq(Plain), Words(rest) = Words(l)
  PROVE  ParsedOK(p, l, p, rest) /\ ParsedOK(p, l, p, Between[p.kind] \o rest)
<1> DEFINE m == Between[p.kind] \o rest
           kind == p.kind
<1>1. /\ p \in Parser /\ Need(p) = Awaited(kind) /\ Awaited(kind) \in Seq(Token)
      /\ p.isStarted /\ ~p.isFinished
  BY OpenList
<1>2. Between[kind] \in Seq(Tags) /\ HeadIn(Between[kind], {Ender(kind)}) /\ kind \in Lists
  BY ListTags
<1>3. rest \in Seq(Token)
  BY PlainSeq
<1> HIDE DEF kind
<1>4. m \in Seq(Token) /\ Words(m) = Words(l) /\ HeadIn(m, {Ender(kind)})
  BY <1>2, <1>3, TagsInFront, EnderIsTag DEF kind
<1>5. Passes(p, l, p, m) /\ Passes(p, l, p, rest)
  <2> SUFFICES ASSUME NEW x \in Seq(Token)
               PROVE  /\ Opens(m, x \o Need(p), x \o Lacks(p))
                      /\ Opens(rest, x \o Need(p), x \o Lacks(p))
    BY DEF Passes
  <2>1. Lacks(p) = Awaited(kind)
    BY <1>1 DEF Lacks
  <2>2. Opens(Between[kind], x \o Awaited(kind), x \o Awaited(kind))
    BY <1>2, ListOpens
  <2>3. x \o Awaited(kind) \in Seq(Token)
    BY <1>1, ConcatProperties
  <2>4. Opens(rest, x \o Awaited(kind), x \o Awaited(kind))
    BY <2>3, OpensPlain
  <2>5. Opens(m, x \o Awaited(kind), x \o Awaited(kind))
    BY <1>2, <1>3, <2>2, <2>4, OpensTagsInFront DEF kind
  <2> QED BY <1>1, <2>1, <2>4, <2>5
<1>6. ParsedOK(p, l, p, rest)
  BY <1>1, <1>3, <1>5 DEF ParsedOK
<1> HIDE DEF m
<1>7. ParsedOK(p, l, p, m)
  BY <1>1, <1>4, <1>5 DEF ParsedOK, kind
<1> QED BY <1>6, <1>7 DEF m, kind

LEMMA ListParses ==
  ASSUME NEW p, NEW l, Parses(p, l), p.kind \in Lists, IsOpen(p)
  PROVE  ParsedOK(p, l, parseBlock(p, l).parser, parseBlock(p, l).line)
<1> DEFINE rest == WithoutMark(p.kind, l)
<1>1. /\ p \in Parser /\ p.isStarted /\ ~p.isFinished /\ l \in Seq(Token)
      /\ l \in Seq(Plain) \/ HeadIn(l, {Ender(p.kind)})
      /\ l \in Seq(Plain) <=> ~EndsParentsItem(p.kind, l)
  BY OpenList
<1>2. parseBlock(p, l) =
        IF HeadIn(l, {"  "}) THEN Parsed(p, Tail(l))
        ELSE IF rest = <<>> \/ EndsParentsItem(p.kind, l)
             THEN Parsed(Finished(p), Closing[p.kind] \o rest)
        ELSE IF IsStartOfNewListItem(p.kind, l) THEN Parsed(p, Between[p.kind] \o rest)
        ELSE Parsed(p, rest)
  BY <1>1, WhichBlock DEF ParseListLine
<1>3. \A q, m : Parsed(q, m).parser = q /\ Parsed(q, m).line = m
  BY ParsedParts
<1>4. CASE l \in Seq(Plain)
  <2>1. rest \in Seq(Plain) /\ rest \in Seq(Token) /\ Words(rest) = Words(l)
    BY <1>4, WithoutMarkProps, PlainSeq
  <2>2. CASE HeadIn(l, {"  "})
    <3>1. l # <<>> /\ Head(l) \in Marks /\ Tail(l) \in Seq(Plain)
      BY <1>4, <2>2, HeadAndTail DEF HeadIn, Marks
    <3>2. Words(Tail(l)) = Words(l)
      BY <1>1, <3>1, TailWords, Vocabulary
    <3>3. ParsedOK(p, l, p, Tail(l))
      BY <1>4, <3>1, <3>2, ListGoesOn
    <3> QED BY <1>2, <1>3, <2>2, <3>3
  <2>3. CASE ~HeadIn(l, {"  "}) /\ rest = <<>>
    <3> HIDE DEF rest
    <3>1. ParsedOK(p, l, Finished(p), Closing[p.kind] \o rest)
      BY <1>4, <2>1, ListEnds
    <3> QED BY <1>2, <1>3, <2>3, <3>1
  <2>4. CASE ~HeadIn(l, {"  "}) /\ rest # <<>>
    <3>1. l # <<>>
      BY <2>4 DEF WithoutMark, Without, HeadIn, Lists
    <3> HIDE DEF rest
    <3>2. ParsedOK(p, l, p, rest) /\ ParsedOK(p, l, p, Between[p.kind] \o rest)
      BY <1>4, <2>1, <3>1, ListGoesOn
    <3>3. ~EndsParentsItem(p.kind, l)
      BY <1>1, <1>4
    <3>4. CASE IsStartOfNewListItem(p.kind, l)
      <4>1. parseBlock(p, l) = Parsed(p, Between[p.kind] \o rest)
        BY <1>2, <2>4, <3>3, <3>4
      <4> QED BY <1>3, <3>2, <4>1
    <3>5. CASE ~IsStartOfNewListItem(p.kind, l)
      <4>1. parseBlock(p, l) = Parsed(p, rest)
        BY <1>2, <2>4, <3>3, <3>5
      <4> QED BY <1>3, <3>2, <4>1
    <3> QED BY <3>4, <3>5
  <2> QED BY <2>2, <2>3, <2>4
<1>5. CASE l \notin Seq(Plain)
  <2>1. HeadIn(l, {Ender(p.kind)}) /\ EndsParentsItem(p.kind, l)
    BY <1>1, <1>5
  <2>2. HeadIn(l, Tags)
    BY <2>1, EnderIsTag DEF HeadIn
  <2>3. rest = l /\ ~HeadIn(l, {"  "})
    BY <2>2, TagAhead
  <2> HIDE DEF rest
  <2>4. ParsedOK(p, l, Finished(p), Closing[p.kind] \o rest)
    BY <1>1, <1>5, <2>3, ListEnds
  <2> QED BY <1>2, <1>3, <2>1, <2>3, <2>4
<1> QED BY <1>4, <1>5

-----------------------------------------------------------------------------
(* The parsers that never have a child.                                    *)

LEMMA OtherParsed ==
  ASSUME NEW p, NEW l, Parses(p, l), p.kind \notin Lists,
         NEW q \in Parser, q.kind = p.kind, q.result = p.result, q.table = p.table,
         NEW m \in Seq(Token), Words(m) = Words(l), q.isFinished \/ IsOpen(q),
         ~q.isFinished => l # <<>> \/ p.kind = "code",
         \A x \in Seq(Token) : Opens(m, x \o Need(p), x \o Lacks(q))
  PROVE  ParsedOK(p, l, q, m)
<1>1. l \in Seq(Plain) /\ p.kind \in Kinds \ (Lists \cup {"quote"})
  BY DEF Parses, Parser
<1>2. ParserFor(Children(p.kind), m) = <<>>
  BY <1>1, NoChild
<1>3. Passes(p, l, q, m)
  BY <1>1 DEF Passes
<1> QED BY <1>1, <1>2, <1>3 DEF ParsedOK

LEMMA HeadlineParses ==
  ASSUME NEW p, NEW l, Parses(p, l), p.kind = "headline"
  PROVE  ParsedOK(p, l, parseBlock(p, l).parser, parseBlock(p, l).line)
<1> DEFINE tags == <<"<h1>", "</h1>">>
           m == Element(tags, Tail(l))
<1>1. p \in Parser /\ p.isFinished /\ ~p.isStarted /\ l \in Seq(Plain) /\ HeadIn(l, {"# "})
  BY FreshProps DEF Parses, IsOpen, Lists, IsStartingLine
<1>2. l # <<>> /\ Head(l) = "# " /\ l \in Seq(Token) /\ Tail(l) \in Seq(Plain)
  BY <1>1, PlainSeq, HeadAndTail DEF HeadIn
<1>3. Words(Tail(l)) = Words(l) /\ Tail(l) \in Seq(Token)
  <2>1. "# " \notin AllWords
    BY Vocabulary DEF Marks
  <2> QED BY <1>2, <2>1, TailWords, PlainSeq
<1>4. tags \in Elements
  BY DEF Elements
<1>5. Balanced(Tail(l))
  BY <1>2, OpensPlain DEF Balanced
<1>6. parseBlock(p, l).parser = p /\ parseBlock(p, l).line = m
  BY WhichBlock DEF Parsed, Element
<1> HIDE DEF tags
<1>7. m \in Seq(Token) /\ Words(m) = Words(l) /\ Balanced(m)
  BY <1>3, <1>4, <1>5, ElementType, ElementWords, OpensElement
<1>8. Need(p) = <<>> /\ Lacks(p) = <<>>
  BY <1>1 DEF Need, Lacks
<1>9. \A x \in Seq(Token) : Opens(m, x \o Need(p), x \o Lacks(p))
  BY <1>7, <1>8, ConcatEmptySeq DEF Balanced
<1>10. p.kind \notin Lists
  BY DEF Lists
<1> HIDE DEF m
<1>11. ParsedOK(p, l, p, m)
  BY <1>1, <1>7, <1>9, <1>10, OtherParsed
<1> QED BY <1>6, <1>11

LEMMA RuleParses ==
  ASSUME NEW p, NEW l, Parses(p, l), p.kind = "hr"
  PROVE  ParsedOK(p, l, parseBlock(p, l).parser, parseBlock(p, l).line)
<1> DEFINE m == <<"<hr/>">>
<1>1. p \in Parser /\ p.isFinished /\ ~p.isStarted /\ l = <<"---">>
  BY FreshProps DEF Parses, IsOpen, Lists, IsStartingLine
<1>2. "<hr/>" \in Tags /\ "---" \in Marks
  BY DEF Tags, Marks
<1>3. m \in Seq(Token) /\ Words(m) = <<>>
  BY <1>2, TagWords
<1>4. Words(l) = <<>>
  <2>1. "---" \in Token /\ "---" \notin AllWords
    BY <1>2, Vocabulary DEF Token, Plain
  <2> QED BY <1>1, <2>1, WordsOne DEF WordIn
<1>5. ASSUME NEW x \in Seq(Token) PROVE Opens(m, x, x)
  <2>1. "<hr/>" \in Token /\ Step(x, "<hr/>", x)
    BY <1>2, TagKinds DEF Step, Token
  <2> QED BY <2>1, OpensOne
<1>6. parseBlock(p, l).parser = p /\ parseBlock(p, l).line = m
  BY WhichBlock DEF Parsed
<1>7. Need(p) = <<>> /\ Lacks(p) = <<>>
  BY <1>1 DEF Need, Lacks
<1> HIDE DEF m
<1>8. \A x \in Seq(Token) : Opens(m, x \o Need(p), x \o Lacks(p))
  BY <1>5, <1>7, ConcatEmptySeq
<1>9. p.kind \notin Lists
  BY DEF Lists
<1>10. ParsedOK(p, l, p, m)
  BY <1>1, <1>3, <1>4, <1>8, <1>9, OtherParsed
<1> QED BY <1>6, <1>10

LEMMA CodeOpens ==
  ASSUME NEW x \in Seq(Token)
  PROVE  /\ Opens(<<"<pre>", "<code>">>, x, x \o Awaited("code"))
         /\ Opens(<<"</code>", "</pre>">>, x \o Awaited("code"), x)
<1> DEFINE y == Append(x, "</pre>")
           z == Append(y, "</code>")
<1>1. <<"<pre>", "</pre>">> \in Elements /\ <<"<code>", "</code>">> \in Elements
  BY DEF Elements
<1>2. /\ y \in Seq(Token) /\ Opens(<<"<pre>">>, x, y) /\ Opens(<<"</pre>">>, y, x)
      /\ "<pre>" \in Token /\ "</pre>" \in Token
  BY <1>1, PairOpens
<1>3. "</code>" \in Token
  BY <1>1, PairOpens
<1>4. x \o Awaited("code") = z
  <2>1. Awaited("code") = <<"</pre>", "</code>">>
    BY DEF Awaited
  <2>2. "</pre>" \in Token
    BY <1>2
  <2>3. x \o <<"</pre>", "</code>">> = Append(Append(x, "</pre>"), "</code>")
    BY <1>3, <2>2, AppendTwo
  <2> QED BY <2>1, <2>3
<1> HIDE DEF y
<1>5. /\ z \in Seq(Token) /\ Opens(<<"<code>">>, y, z) /\ Opens(<<"</code>">>, z, y)
      /\ "<code>" \in Token
  BY <1>1, <1>2, PairOpens
<1> HIDE DEF z
<1> QED BY <1>2, <1>3, <1>4, <1>5, OpensTwo

LEMMA CodeParses ==
  ASSUME NEW p, NEW l, Parses(p, l), p.kind = "code"
  PROVE  ParsedOK(p, l, parseBlock(p, l).parser, parseBlock(p, l).line)
<1>1. p \in Parser /\ l \in Seq(Plain) /\ l \in Seq(Token) /\ ~p.isFinished /\ p.kind \notin Lists
  <2>1. p \in Parser /\ p.kind \notin Lists /\ ~p.isFinished
    BY FreshProps DEF Parses, IsOpen, Lists
  <2> QED BY <2>1 DEF Parses
<1>2. parseBlock(p, l) = ParseCodeLine(p, l)
  BY WhichBlock
<1>3. Words(<<"fence">>) = <<>>
  <2>1. "fence" \in Token /\ "fence" \notin AllWords
    BY Vocabulary DEF Token, Plain, Marks
  <2> QED BY <2>1, WordsOne DEF WordIn
<1>4. \A t \in {"<pre>", "<code>", "</pre>", "</code>"} : t \in Tags
  BY DEF Tags, StartTags, EndTags, Elements
<1>5. /\ <<"<pre>", "<code>">> \in Seq(Token) /\ Words(<<"<pre>", "<code>">>) = <<>>
      /\ <<"</code>", "</pre>">> \in Seq(Token) /\ Words(<<"</code>", "</pre>">>) = <<>>
  <2>1. <<"<pre>", "<code>">> \in Seq(Tags) /\ <<"</code>", "</pre>">> \in Seq(Tags)
    BY <1>4, Two
  <2> QED BY <2>1, TagsOnly
<1>6. CASE ~p.isStarted
  <2> DEFINE q == Started(p)
             m == <<"<pre>", "<code>">>
  <2>1. l = <<"fence">>
    BY <1>6 DEF Parses, IsOpen, Fresh, IsStartingLine
  <2>2. parseBlock(p, l).parser = q /\ parseBlock(p, l).line = m
    BY <1>2, <1>6, <2>1 DEF ParseCodeLine, Parsed
  <2>3. /\ q \in Parser /\ q.kind = p.kind /\ q.result = p.result /\ q.table = p.table
        /\ q.isStarted /\ ~q.isFinished
    BY <1>1, StartedProps
  <2> HIDE DEF q
  <2>4. IsOpen(q) /\ Need(p) = <<>> /\ Lacks(q) = Awaited("code")
    BY <1>6, <2>3 DEF IsOpen, Need, Lacks
  <2>5. \A x \in Seq(Token) : Opens(m, x \o Need(p), x \o Lacks(q))
    BY <2>4, CodeOpens, ConcatEmptySeq
  <2> HIDE DEF m
  <2>6. m \in Seq(Token) /\ Words(m) = Words(l)
    BY <1>3, <1>5, <2>1 DEF m
  <2>7. ParsedOK(p, l, q, m)
    BY <1>1, <2>3, <2>4, <2>5, <2>6, OtherParsed
  <2> QED BY <2>2, <2>7
<1>7. CASE p.isStarted /\ l # <<"fence">>
  <2>1. parseBlock(p, l).parser = p /\ parseBlock(p, l).line = l
    BY <1>2, <1>7 DEF ParseCodeLine, Parsed
  <2>2. IsOpen(p) /\ Lacks(p) = Need(p)
    BY <1>1, <1>7 DEF IsOpen, Need, Lacks
  <2>3. ASSUME NEW x \in Seq(Token) PROVE Opens(l, x \o Need(p), x \o Lacks(p))
    <3>1. x \o Need(p) \in Seq(Token)
      BY NeedType, ConcatProperties
    <3> QED BY <1>1, <2>2, <3>1, OpensPlain
  <2>4. ParsedOK(p, l, p, l)
    BY <1>1, <2>2, <2>3, OtherParsed
  <2> QED BY <2>1, <2>4
<1>8. CASE p.isStarted /\ l = <<"fence">>
  <2> DEFINE q == Finished([p EXCEPT !.isStarted = FALSE])
             m == <<"</code>", "</pre>">>
  <2>1. parseBlock(p, l).parser = q /\ parseBlock(p, l).line = m
    BY <1>2, <1>8 DEF ParseCodeLine, Parsed
  <2>2. /\ q \in Parser /\ q.kind = p.kind /\ q.result = p.result /\ q.table = p.table
        /\ q.isFinished
    BY <1>1 DEF Parser, Finished
  <2> HIDE DEF q
  <2>3. Need(p) = Awaited("code") /\ Lacks(q) = <<>>
    BY <1>8, <2>2 DEF Need, Lacks
  <2>4. \A x \in Seq(Token) : Opens(m, x \o Need(p), x \o Lacks(q))
    BY <2>3, CodeOpens, ConcatEmptySeq
  <2> HIDE DEF m
  <2>5. m \in Seq(Token) /\ Words(m) = Words(l)
    BY <1>3, <1>5, <1>8 DEF m
  <2>6. ParsedOK(p, l, q, m)
    BY <1>1, <2>2, <2>4, <2>5, OtherParsed
  <2> QED BY <2>1, <2>6
<1> QED BY <1>6, <1>7, <1>8 DEF Parser

(* A line with a space at its end.                                         *)
LEMMA Spaced ==
  ASSUME NEW l \in Seq(Plain)
  PROVE  l \o <<" ">> \in Seq(Plain) /\ Words(l \o <<" ">>) = Words(l)
<1> DEFINE space == <<" ">>
<1>1. " " \in Plain /\ " " \in Token /\ " " \notin AllWords
  BY Vocabulary DEF Plain, Token, Marks
<1>2. space \in Seq(Plain) /\ space \in Seq(Token) /\ Words(space) = <<>>
  BY <1>1, OneToken, WordsOne DEF WordIn
<1> HIDE DEF space
<1>3. l \in Seq(Token) /\ Words(l) \in Seq(Token)
  BY PlainSeq, WordsType
<1>4. l \o space \in Seq(Plain) /\ Words(l \o space) = Words(l) \o <<>>
  BY <1>2, <1>3, ConcatProperties, WordsBoth
<1> QED BY <1>3, <1>4, ConcatEmptySeq DEF space

LEMMA ParagraphParses ==
  ASSUME NEW p, NEW l, Parses(p, l), p.kind = "paragraph"
  PROVE  ParsedOK(p, l, parseBlock(p, l).parser, parseBlock(p, l).line)
<1>1. /\ p \in Parser /\ l \in Seq(Plain) /\ l \in Seq(Token) /\ ~p.isFinished
      /\ p.kind \notin Lists /\ (~p.isStarted => l # <<>>)
  <2>1. p \in Parser /\ p.kind \notin Lists /\ ~p.isFinished /\ (~p.isStarted => l # <<>>)
    BY FreshProps DEF Parses, IsOpen, Lists, IsStartingLine
  <2> QED BY <2>1 DEF Parses
<1>2. parseBlock(p, l) = ParseParagraphLine(p, l)
  BY WhichBlock
<1> DEFINE start == <<"<p>">>
           end == <<"</p>">>
           spaced == l \o <<" ">>
<1>3. /\ start \in Seq(Tags) /\ end \in Seq(Tags) /\ <<"<p>", "</p>">> \in Elements
  <2>1. "<p>" \in Tags /\ "</p>" \in Tags
    BY DEF Tags, StartTags, EndTags, Elements
  <2> QED BY <2>1, OneToken DEF Elements
<1>4. spaced \in Seq(Plain) /\ spaced \in Seq(Token) /\ Words(spaced) = Words(l)
  BY <1>1, Spaced, PlainSeq
<1>5. ASSUME NEW x \in Seq(Token)
      PROVE  /\ Opens(start, x, x \o Awaited("paragraph"))
             /\ Opens(end, x \o Awaited("paragraph"), x)
             /\ x \o Awaited("paragraph") \in Seq(Token)
  <2>1. "</p>" \in Token /\ Awaited("paragraph") = <<"</p>">>
    BY <1>3, PairOpens DEF Awaited
  <2>2. x \o Awaited("paragraph") = Append(x, "</p>")
    BY <2>1, AppendIsConcat
  <2> QED BY <1>3, <2>2, PairOpens
<1>6. start \o l \o <<" ">> = start \o spaced
  <2>1. " " \in Token
    BY DEF Token, Plain, Marks
  <2> DEFINE space == <<" ">>
  <2>2. space \in Seq(Token) /\ start \in Seq(Token)
    BY <1>3, <2>1, OneToken, TagsOnly
  <2> HIDE DEF start, space
  <2>3. (start \o l) \o space = start \o (l \o space)
    BY <1>1, <2>2, ConcatAssociative
  <2> QED BY <2>3 DEF space
<1> HIDE DEF start, end, spaced
<1>7. CASE ~p.isStarted
  <2> DEFINE q == Started(p)
             m == start \o spaced
  <2>1. parseBlock(p, l).parser = q /\ parseBlock(p, l).line = m
    <3>1. ParseParagraphLine(p, l) = Parsed(q, start \o l \o <<" ">>)
      BY <1>7 DEF ParseParagraphLine, start
    <3> HIDE DEF q
    <3>2. parseBlock(p, l) = Parsed(q, m)
      BY <1>2, <1>6, <3>1
    <3> HIDE DEF m
    <3> QED BY <3>2, ParsedParts
  <2>2. /\ q \in Parser /\ q.kind = p.kind /\ q.result = p.result /\ q.table = p.table
        /\ q.isStarted /\ ~q.isFinished
    BY <1>1, StartedProps
  <2> HIDE DEF q
  <2>3. IsOpen(q) /\ Need(p) = <<>> /\ Lacks(q) = Awaited("paragraph")
    BY <1>7, <2>2 DEF IsOpen, Need, Lacks
  <2>4. m \in Seq(Token) /\ Words(m) = Words(l)
    BY <1>3, <1>4, TagsInFront
  <2>5. ASSUME NEW x \in Seq(Token) PROVE Opens(m, x \o Need(p), x \o Lacks(q))
    <3>1. Opens(spaced, x \o Awaited("paragraph"), x \o Awaited("paragraph"))
      BY <1>4, <1>5, OpensPlain
    <3>2. Opens(m, x, x \o Awaited("paragraph"))
      BY <1>3, <1>4, <1>5, <3>1, OpensTagsInFront
    <3> QED BY <2>3, <3>2, ConcatEmptySeq
  <2> HIDE DEF m
  <2>6. ParsedOK(p, l, q, m)
    BY <1>1, <1>7, <2>2, <2>3, <2>4, <2>5, OtherParsed
  <2> QED BY <2>1, <2>6
<1>8. CASE p.isStarted /\ l = <<>>
  <2> DEFINE q == Finished(p)
  <2>1. parseBlock(p, l).parser = q /\ parseBlock(p, l).line = end
    BY <1>2, <1>8 DEF ParseParagraphLine, Parsed, end
  <2>2. /\ q \in Parser /\ q.kind = p.kind /\ q.result = p.result /\ q.table = p.table
        /\ q.isFinished
    BY <1>1, StartedProps
  <2> HIDE DEF q
  <2>3. Need(p) = Awaited("paragraph") /\ Lacks(q) = <<>>
    BY <1>8, <2>2 DEF Need, Lacks
  <2>4. \A x \in Seq(Token) : Opens(end, x \o Need(p), x \o Lacks(q))
    BY <1>5, <2>3, ConcatEmptySeq
  <2>5. end \in Seq(Token) /\ Words(end) = Words(l)
    BY <1>3, <1>8, TagsOnly, WordsNone
  <2>6. ParsedOK(p, l, q, end)
    BY <1>1, <2>2, <2>4, <2>5, OtherParsed
  <2> QED BY <2>1, <2>6
<1>9. CASE p.isStarted /\ l # <<>>
  <2>1. parseBlock(p, l).parser = p /\ parseBlock(p, l).line = spaced
    <3>1. ParseParagraphLine(p, l) = Parsed(p, spaced)
      BY <1>9 DEF ParseParagraphLine, spaced
    <3> QED BY <1>2, <3>1, ParsedParts
  <2>2. IsOpen(p) /\ Lacks(p) = Need(p)
    BY <1>1, <1>9 DEF IsOpen, Need, Lacks
  <2>3. ASSUME NEW x \in Seq(Token) PROVE Opens(spaced, x \o Need(p), x \o Lacks(p))
    <3>1. x \o Need(p) \in Seq(Token)
      BY NeedType, ConcatProperties
    <3> QED BY <1>4, <2>2, <3>1, OpensPlain
  <2>4. ParsedOK(p, l, p, spaced)
    BY <1>1, <1>4, <1>9, <2>2, <2>3, OtherParsed
  <2> QED BY <2>1, <2>4
<1> QED BY <1>7, <1>8, <1>9 DEF Parser

LEMMA BlockParses ==
  ASSUME NEW p, NEW l, Parses(p, l)
  PROVE  ParsedOK(p, l, parseBlock(p, l).parser, parseBlock(p, l).line)
<1>1. p.kind \in Lists \cup {"code", "paragraph", "headline", "hr"}
  BY DEF Parses, Parser, Kinds, Lists
<1> QED BY <1>1, ListStarts, ListParses, CodeParses, ParagraphParses, HeadlineParses, RuleParses

-----------------------------------------------------------------------------
(* Marks of quotation.                                                     *)

QuoteMarks(l) == { i \in DOMAIN l : l[i] = ">" }

LEMMA QuotesType ==
  ASSUME NEW T, NEW l \in Seq(T)
  PROVE  /\ Quotes(l) = Cardinality(QuoteMarks(l)) /\ IsFiniteSet(QuoteMarks(l))
         /\ Quotes(l) \in Nat
<1>1. IsFiniteSet(DOMAIN l)
  BY LenProperties, FS_Interval
<1>2. QuoteMarks(l) \in SUBSET (DOMAIN l)
  BY DEF QuoteMarks
<1>3. IsFiniteSet(QuoteMarks(l))
  BY <1>1, <1>2, FS_Subset
<1> QED BY <1>3, FS_CardinalityType DEF Quotes, QuoteMarks

LEMMA QuotesTail ==
  ASSUME NEW T, NEW l \in Seq(T), l # <<>>
  PROVE  /\ Quotes(Tail(l)) <= Quotes(l)
         /\ Head(l) = ">" => Quotes(Tail(l)) + 1 <= Quotes(l)
<1> DEFINE t == Tail(l)
           S == QuoteMarks(l)
           R == QuoteMarks(t)
           f == [i \in R |-> i + 1]
<1>1. /\ t \in Seq(T) /\ Len(l) \in Nat \ {0} /\ Len(t) = Len(l) - 1 /\ Head(l) = l[1]
      /\ \A i \in 1 .. Len(l) - 1 : t[i] = l[i + 1]
  BY HeadAndTail
<1>2. DOMAIN l = 1 .. Len(l) /\ DOMAIN t = 1 .. Len(l) - 1
  BY <1>1, LenProperties
<1>3. ASSUME NEW i \in R PROVE i \in Nat /\ i + 1 \in S \ {1}
  BY <1>1, <1>2 DEF QuoteMarks
<1>4. f \in Injection(R, S \ {1}) /\ f \in Injection(R, S)
  BY <1>3 DEF Injection, IsInjective
<1>5. IsFiniteSet(S) /\ IsFiniteSet(S \ {1}) /\ Quotes(l) = Cardinality(S)
      /\ Quotes(t) = Cardinality(R) /\ Quotes(l) \in Nat
  BY <1>1, QuotesType, FS_RemoveElement
<1> HIDE DEF t, S, R, f
<1>6. Cardinality(R) <= Cardinality(S) /\ Cardinality(R) <= Cardinality(S \ {1})
  BY <1>4, <1>5, FS_Injection
<1>7. Head(l) = ">" => Cardinality(S \ {1}) = Cardinality(S) - 1
  <2> SUFFICES ASSUME Head(l) = ">" PROVE Cardinality(S \ {1}) = Cardinality(S) - 1
    OBVIOUS
  <2>1. 1 \in S
    BY <1>1, <1>2 DEF S, QuoteMarks
  <2> QED BY <1>5, <2>1, FS_RemoveElement
<1>8. Cardinality(R) \in Nat
  BY <1>1, QuotesType DEF R
<1>9. Quotes(t) <= Quotes(l) /\ (Head(l) = ">" => Quotes(t) + 1 <= Quotes(l))
  BY <1>5, <1>6, <1>7, <1>8
<1> QED BY <1>9 DEF t

LEMMA QuotesSpaced ==
  ASSUME NEW l \in Seq(Plain)
  PROVE  /\ Quotes(l \o <<" ">>) = Quotes(l) /\ Len(l \o <<" ">>) = Len(l) + 1
         /\ (l \o <<" ">>)[Len(l) + 1] = " "
         /\ l # <<>> => Head(l \o <<" ">>) = Head(l)
<1> DEFINE space == <<" ">>
           m == l \o space
<1>1. space \in Seq(Plain) /\ Len(space) = 1 /\ space[1] = " "
  <2>1. " " \in Plain
    BY DEF Plain, Marks
  <2> QED BY <2>1, OneToken
<1> HIDE DEF space
<1>2. /\ Len(l) \in Nat /\ m \in Seq(Plain) /\ Len(m) = Len(l) + 1
      /\ \A i \in 1 .. Len(l) + 1 : m[i] = IF i <= Len(l) THEN l[i] ELSE space[i - Len(l)]
  <2>1. /\ m \in Seq(Plain) /\ Len(m) = Len(l) + Len(space)
        /\ \A i \in 1 .. Len(l) + Len(space) :
             m[i] = IF i <= Len(l) THEN l[i] ELSE space[i - Len(l)]
    BY <1>1, ConcatProperties
  <2>2. Len(l) \in Nat
    BY LenProperties
  <2> HIDE DEF m
  <2> QED BY <1>1, <2>1, <2>2
<1> HIDE DEF m
<1>3. m[Len(l) + 1] = " " /\ \A i \in 1 .. Len(l) : m[i] = l[i]
  <2>1. Len(l) + 1 \in 1 .. Len(l) + 1 /\ ~(Len(l) + 1 <= Len(l)) /\ (Len(l) + 1) - Len(l) = 1
    BY <1>2
  <2>2. m[Len(l) + 1] = space[(Len(l) + 1) - Len(l)]
    BY <1>2, <2>1
  <2>3. \A i \in 1 .. Len(l) : i \in 1 .. Len(l) + 1 /\ i <= Len(l)
    BY <1>2
  <2>4. \A i \in 1 .. Len(l) : m[i] = l[i]
    BY <1>2, <2>3
  <2> QED BY <1>1, <2>1, <2>2, <2>4
<1>4. DOMAIN l = 1 .. Len(l) /\ DOMAIN m = 1 .. Len(l) + 1
  BY <1>2, LenProperties
<1>5. { i \in DOMAIN l : l[i] = ">" } = { i \in DOMAIN m : m[i] = ">" }
  <2>1. \A i \in DOMAIN m : i = Len(l) + 1 \/ i \in DOMAIN l
    BY <1>2, <1>4
  <2>2. \A i \in DOMAIN l : i \in DOMAIN m
    BY <1>2, <1>4
  <2> QED BY <1>3, <1>4, <2>1, <2>2
<1>6. ASSUME l # <<>> PROVE Head(m) = Head(l)
  <2>1. Len(l) \in Nat \ {0} /\ Head(l) = l[1] /\ 1 \in 1 .. Len(l)
    BY <1>6, HeadAndTail
  <2>2. m # <<>>
    BY <1>2
  <2>3. Head(m) = m[1]
    BY <1>2, <2>2, HeadAndTail
  <2> QED BY <1>3, <2>1, <2>3
<1>7. Quotes(m) = Quotes(l)
  BY <1>5 DEF Quotes
<1> QED BY <1>2, <1>3, <1>6, <1>7 DEF m, space

LEMMA WithoutQuotesProps ==
  ASSUME NEW l \in Seq(Plain)
  PROVE  /\ WithoutQuotes(l) \in Seq(Plain) /\ Words(WithoutQuotes(l)) = Words(l)
         /\ l = <<>> => WithoutQuotes(l) = <<>>
         /\ ~HeadIn(l, {">"}) => WithoutQuotes(l) = l
         /\ HeadIn(l, {">"}) => Quotes(WithoutQuotes(l)) + 1 <= Quotes(l)
<1>1. {">"} \in SUBSET Marks /\ {" "} \in SUBSET Marks
  BY DEF Marks
<1>2. CASE HeadIn(l, {">"}) /\ HeadIn(Tail(l), {" "})
  <2> DEFINE t == Tail(l)
             u == Tail(t)
  <2>1. l # <<>> /\ Head(l) = ">" /\ t # <<>> /\ Head(t) = " "
    BY <1>2 DEF HeadIn
  <2>2. t \in Seq(Plain) /\ Quotes(t) + 1 <= Quotes(l)
    BY <2>1, HeadAndTail, QuotesTail
  <2>3. Words(t) = Words(l)
    BY <1>1, <2>1, TailWords, PlainSeq, Vocabulary
  <2> HIDE DEF t
  <2>4. u \in Seq(Plain) /\ Quotes(u) <= Quotes(t)
    BY <2>1, <2>2, HeadAndTail, QuotesTail
  <2>5. Words(u) = Words(t)
    BY <1>1, <2>1, <2>2, TailWords, PlainSeq, Vocabulary
  <2>6. WithoutQuotes(l) = Without(u, {">"})
    BY <1>2 DEF WithoutQuotes, t
  <2> HIDE DEF u
  <2>7. Without(u, {">"}) \in Seq(Plain) /\ Words(Without(u, {">"})) = Words(u)
    BY <1>1, <2>4, WithoutProps
  <2>8. Quotes(Without(u, {">"})) <= Quotes(u)
    <3>1. CASE HeadIn(u, {">"})
      BY <2>4, <3>1, QuotesTail DEF Without, HeadIn
    <3>2. CASE ~HeadIn(u, {">"})
      BY <2>4, <3>2, QuotesType DEF Without
    <3> QED BY <3>1, <3>2
  <2>9. /\ Quotes(l) \in Nat /\ Quotes(t) \in Nat /\ Quotes(u) \in Nat
        /\ Quotes(Without(u, {">"})) \in Nat
    BY <2>2, <2>4, <2>7, QuotesType
  <2>10. Quotes(Without(u, {">"})) + 1 <= Quotes(l)
    BY <2>2, <2>4, <2>8, <2>9
  <2> QED BY <1>2, <2>1, <2>3, <2>5, <2>6, <2>7, <2>10
<1>3. CASE ~(HeadIn(l, {">"}) /\ HeadIn(Tail(l), {" "}))
  <2>1. WithoutQuotes(l) = Without(l, {">"})
    BY <1>3 DEF WithoutQuotes
  <2>2. Without(l, {">"}) \in Seq(Plain) /\ Words(Without(l, {">"})) = Words(l)
    BY <1>1, WithoutProps
  <2>3. ~HeadIn(l, {">"}) => Without(l, {">"}) = l
    BY DEF Without
  <2>4. HeadIn(l, {">"}) => Quotes(Without(l, {">"})) + 1 <= Quotes(l)
    BY QuotesTail DEF Without, HeadIn
  <2>5. l = <<>> => ~HeadIn(l, {">"})
    BY DEF HeadIn
  <2> QED BY <2>1, <2>2, <2>3, <2>4, <2>5
<1> QED BY <1>2, <1>3

LEMMA UnquotedProps ==
  ASSUME NEW l \in Seq(Plain)
  PROVE  /\ Unquoted(l) \in Seq(Plain) /\ Words(Unquoted(l)) = Words(l)
         /\ l = <<>> => Unquoted(l) = <<>>
         /\ HeadIn(Unquoted(l), {">"}) =>
              HeadIn(l, {">"}) /\ Quotes(Unquoted(l)) + 1 <= Quotes(l)
         /\ \A kind \in {"code", "hr", "table"} : ~IsStartingLine(kind, Unquoted(l))
<1> DEFINE r == WithoutQuotes(l)
           m == r \o <<" ">>
<1>1. /\ r \in Seq(Plain) /\ Words(r) = Words(l) /\ (l = <<>> => r = <<>>)
      /\ ~HeadIn(l, {">"}) => r = l
      /\ HeadIn(l, {">"}) => Quotes(r) + 1 <= Quotes(l)
  BY WithoutQuotesProps
<1>2. Unquoted(l) = IF r = <<>> THEN r ELSE m
  BY DEF Unquoted
<1> HIDE DEF r
<1>3. CASE r = <<>>
  <2>1. Unquoted(l) = <<>>
    BY <1>2, <1>3
  <2>2. ~HeadIn(<<>>, {">"}) /\ \A kind \in {"code", "hr", "table"} : ~IsStartingLine(kind, <<>>)
    BY DEF HeadIn, IsStartingLine
  <2> QED BY <1>1, <1>3, <2>1, <2>2
<1>4. CASE r # <<>>
  <2>1. Unquoted(l) = m
    BY <1>2, <1>4
  <2>2. m \in Seq(Plain) /\ Words(m) = Words(r)
    BY <1>1, Spaced
  <2>3. /\ Quotes(m) = Quotes(r) /\ Len(m) = Len(r) + 1 /\ m[Len(r) + 1] = " "
        /\ Head(m) = Head(r) /\ Len(r) \in Nat
    BY <1>1, <1>4, QuotesSpaced, LenProperties
  <2> HIDE DEF m
  <2>4. ASSUME HeadIn(m, {">"}) PROVE HeadIn(l, {">"}) /\ Quotes(m) + 1 <= Quotes(l)
    <3>1. Head(r) = ">"
      BY <2>3, <2>4 DEF HeadIn
    <3>2. HeadIn(r, {">"})
      BY <1>4, <3>1 DEF HeadIn
    <3> QED BY <1>1, <2>3, <3>2
  <2>5. ASSUME NEW t, m = <<t>> PROVE t = " "
    <3>1. Len(m) = 1 /\ m[1] = t
      BY <2>5
    <3> QED BY <2>3, <3>1
  <2>6. m # <<"fence">> /\ m # <<"---">> /\ m # <<"|table>">>
    BY <2>5
  <2>7. \A kind \in {"code", "hr", "table"} : ~IsStartingLine(kind, m)
    BY <2>6 DEF IsStartingLine
  <2> QED BY <1>1, <1>4, <2>1, <2>2, <2>4, <2>7
<1> QED BY <1>3, <1>4

-----------------------------------------------------------------------------
(* The lines of a document.                                                *)

LEMMA NthLineProps ==
  ASSUME NEW l \in Lines, NEW n \in 1 .. MaxLines
  PROVE  /\ NthLine(l, n) \in Seq(Plain) /\ Quotes(NthLine(l, n)) = Quotes(l)
         /\ HeadIn(NthLine(l, n), {">"}) <=> HeadIn(l, {">"})
         /\ NthLine(l, n) = <<>> <=> l = <<>>
         /\ \A t \in Marks : NthLine(l, n) = <<t>> <=> l = <<t>>
         /\ NthLine(l, n) = Separator <=> l = Separator
<1> DEFINE m == NthLine(l, n)
<1>1. /\ l \in Seq(Marks \cup {"words"}) /\ Len(l) \in Nat /\ DOMAIN l = 1 .. Len(l)
      /\ \A i \in 1 .. Len(l) : l[i] \in Marks \cup {"words"}
  BY LineAssumption, LenProperties, ElementOfSeq
<1>2. Word(n) \in AllWords /\ Word(n) \in Plain /\ Word(n) \notin Marks
  <2>1. Word(n) \in AllWords
    BY DEF AllWords
  <2> QED BY <2>1, Vocabulary DEF Plain
<1>3. m = [i \in 1 .. Len(l) |-> IF l[i] = "words" THEN Word(n) ELSE l[i]]
  BY <1>1 DEF NthLine
<1> HIDE DEF m
<1>4. m \in Seq(Plain) /\ Len(m) = Len(l) /\ DOMAIN m = 1 .. Len(l)
  BY <1>1, <1>2, <1>3 DEF Plain
<1>5. "words" \notin Marks
  BY DEF Marks
<1>6. ASSUME NEW i \in 1 .. Len(l), NEW t \in Marks PROVE m[i] = t <=> l[i] = t
  BY <1>1, <1>2, <1>3, <1>5
<1>7. ">" \in Marks /\ "- " \in Marks /\ "| - | -" \in Marks
  BY DEF Marks
<1>8. Quotes(m) = Quotes(l)
  <2>1. { i \in DOMAIN m : m[i] = ">" } = { i \in DOMAIN l : l[i] = ">" }
    BY <1>1, <1>4, <1>6, <1>7
  <2> QED BY <2>1 DEF Quotes
<1>9. m = <<>> <=> l = <<>>
  BY <1>1, <1>4, EmptySeq
<1>10. HeadIn(m, {">"}) <=> HeadIn(l, {">"})
  <2>1. l # <<>> => /\ Head(l) = l[1] /\ Head(m) = m[1] /\ 1 \in 1 .. Len(l)
    BY <1>1, <1>4, <1>9, HeadAndTail
  <2> QED BY <1>6, <1>7, <1>9, <2>1 DEF HeadIn
<1>11. ASSUME NEW t \in Marks PROVE m = <<t>> <=> l = <<t>>
  <2>1. <<t>> \in Seq(Plain) /\ <<t>> \in Seq(Marks \cup {"words"}) /\ Len(<<t>>) = 1 /\ <<t>>[1] = t
    BY OneToken DEF Plain
  <2>2. ASSUME Len(l) = 1 PROVE m[1] = t <=> l[1] = t
    BY <1>6, <2>2
  <2>3. m = <<t>> <=> Len(l) = 1 /\ m[1] = t
    <3>1. ASSUME Len(l) = 1, m[1] = t PROVE m = <<t>>
      <4>1. \A i \in 1 .. Len(m) : m[i] = <<t>>[i]
        BY <1>4, <2>1, <3>1
      <4> QED BY <1>4, <2>1, <3>1, <4>1, SeqEqual
    <3> QED BY <1>4, <2>1, <3>1
  <2>4. l = <<t>> <=> Len(l) = 1 /\ l[1] = t
    <3>1. ASSUME Len(l) = 1, l[1] = t PROVE l = <<t>>
      <4>1. \A i \in 1 .. Len(l) : l[i] = <<t>>[i]
        BY <2>1, <3>1
      <4> QED BY <1>1, <2>1, <3>1, <4>1, SeqEqual
    <3> QED BY <2>1, <3>1
  <2> QED BY <2>2, <2>3, <2>4
<1>12. m = Separator <=> l = Separator
  <2> DEFINE s == Separator
  <2>1. /\ s \in Seq(Plain) /\ s \in Seq(Marks \cup {"words"}) /\ Len(s) = 2
        /\ s[1] = "- " /\ s[2] = "| - | -"
    BY <1>7, Two DEF Plain, Separator
  <2> HIDE DEF s
  <2>0. \A i \in 1 .. 2 : i = 1 \/ i = 2
    OBVIOUS
  <2>2. ASSUME m = s PROVE l = s
    <3>0. Len(m) = Len(s) /\ Len(l) = Len(m)
      BY <1>4, <2>2
    <3>a. Len(l) = 2 /\ Len(l) = Len(s)
      BY <2>1, <3>0
    <3>b. 1 \in 1 .. 2 /\ 2 \in 1 .. 2
      OBVIOUS
    <3>1. Len(l) = 2 /\ 1 \in 1 .. Len(l) /\ 2 \in 1 .. Len(l) /\ Len(l) = Len(s)
      BY <3>a, <3>b
    <3>2. m[1] = "- " /\ m[2] = "| - | -"
      BY <2>1, <2>2
    <3>3. l[1] = "- " /\ l[2] = "| - | -"
      BY <1>6, <1>7, <3>1, <3>2
    <3>4. \A i \in 1 .. Len(l) : l[i] = s[i]
      BY <2>0, <2>1, <3>1, <3>3
    <3> QED BY <1>1, <2>1, <3>1, <3>4, SeqEqual
  <2>3. ASSUME l = s PROVE m = s
    <3>0. Len(l) = Len(s) /\ Len(l) = Len(m)
      BY <1>4, <2>3
    <3>a. Len(l) = 2 /\ Len(m) = 2 /\ Len(m) = Len(s)
      BY <2>1, <3>0
    <3>b. 1 \in 1 .. 2 /\ 2 \in 1 .. 2
      OBVIOUS
    <3>1. /\ Len(m) = 2 /\ Len(l) = 2 /\ 1 \in 1 .. Len(l) /\ 2 \in 1 .. Len(l)
          /\ Len(m) = Len(s)
      BY <3>a, <3>b
    <3>2. l[1] = "- " /\ l[2] = "| - | -"
      BY <2>1, <2>3
    <3>3. m[1] = "- " /\ m[2] = "| - | -"
      BY <1>6, <1>7, <3>1, <3>2
    <3>4. \A i \in 1 .. Len(m) : m[i] = s[i]
      BY <2>0, <2>1, <3>1, <3>3
    <3> QED BY <1>4, <2>1, <3>1, <3>4, SeqEqual
  <2> QED BY <2>2, <2>3 DEF s
<1> QED BY <1>4, <1>8, <1>9, <1>10, <1>11, <1>12 DEF m

-----------------------------------------------------------------------------
(* A parser keeps its line.                                                *)

LEMMA Replaced ==
  ASSUME NEW T, NEW ps \in Seq(T), NEW i \in 1 .. Len(ps), NEW q \in T
  PROVE  /\ [ps EXCEPT ![i] = q] \in Seq(T) /\ Len([ps EXCEPT ![i] = q]) = Len(ps)
         /\ [ps EXCEPT ![i] = q][i] = q
         /\ \A j \in 1 .. Len(ps) : j # i => [ps EXCEPT ![i] = q][j] = ps[j]
OBVIOUS

LEMMA ParserProps ==
  ASSUME TypesOK, level > 0
  PROVE  /\ Len(parsers) \in Nat \ {0} /\ level \in 1 .. Len(parsers) /\ level \in Nat \ {0}
         /\ DOMAIN parsers = 1 .. Len(parsers) /\ parsers # <<>> /\ parsers \in Seq(Parser)
         /\ \A i \in 1 .. Len(parsers) : parsers[i] \in Parser
         /\ Current \in Parser /\ Current = parsers[level] /\ level - 1 \in Nat
<1>1. Len(parsers) \in Nat /\ DOMAIN parsers = 1 .. Len(parsers) /\ level \in 0 .. Len(parsers)
      /\ parsers \in Seq(Parser) /\ \A i \in 1 .. Len(parsers) : parsers[i] \in Parser
  BY LenProperties, ElementOfSeq DEF TypesOK
<1>2. level \in 1 .. Len(parsers) /\ Len(parsers) \in Nat \ {0} /\ level \in Nat \ {0}
      /\ level - 1 \in Nat
  BY <1>1
<1>3. parsers # <<>>
  BY <1>2
<1> QED BY <1>1, <1>2, <1>3 DEF Current

(* Only lists and quotes have parsers below them.                          *)
LEMMA Parents ==
  ASSUME TypesOK, ShapeOK, NEW i \in 1 .. Len(parsers), i < Len(parsers)
  PROVE  /\ parsers[i].kind \in Lists \cup {"quote"}
         /\ parsers[i + 1].kind \notin {"code", "hr", "table"}
         /\ parsers[i + 1].kind = "quote" => parsers[i].kind = "quote"
<1>1. DOMAIN parsers = 1 .. Len(parsers) /\ Len(parsers) \in Nat
  BY LenProperties DEF TypesOK
<1>2. i + 1 \in DOMAIN parsers /\ i \in DOMAIN parsers
  BY <1>1
<1>3. Nests(parsers[i].kind, parsers[i + 1].kind)
  BY <1>2 DEF ShapeOK
<1> QED BY <1>3 DEF Nests, Lists

Keeps(q) ==
  /\ q \in Parser /\ q.kind = Current.kind
  /\ IF q.kind = "table" THEN ~q.isFinished => q.result = <<>> ELSE q.table = <<>>
  /\ q.isFinished \/ IsOpen(q)
  /\ ~q.isFinished => \A i \in 1 .. level - 1 : ~parsers[i].isFinished
  /\ Opens(q.result, Needed(parsers, level - 1), Lacked(parsers, level - 1) \o Lacks(q))
  /\ health' = "sound" =>
       Words(Pending(q)) = Words(Pending(Current)) \o Words(line)
  /\ ended /\ level = 1 => q.isFinished \/ q.kind \in {"quote", "code", "table"}
  /\ Ending => q.isFinished

LEMMA KeepShape ==
  ASSUME IInv, phase = "down", level = Len(parsers), NEW q, Keep(q), Keeps(q),
         health' \in {"sound", "undefined"}
  PROVE  TypesOK' /\ ShapeOK' /\ TablesOK' /\ FlagsOK'
<1>1. /\ TypesOK /\ ShapeOK /\ TablesOK /\ FlagsOK
  BY DEF IInv
<1>2. level > 0
  BY <1>1 DEF TypesOK
<1>3. /\ Len(parsers) \in Nat \ {0} /\ level \in 1 .. Len(parsers) /\ level \in Nat \ {0}
      /\ DOMAIN parsers = 1 .. Len(parsers) /\ parsers \in Seq(Parser)
  BY <1>1, <1>2, ParserProps
<1>4. /\ parsers' \in Seq(Parser) /\ Len(parsers') = Len(parsers) /\ parsers'[level] = q
      /\ \A j \in 1 .. Len(parsers) : j # level => parsers'[j] = parsers[j]
      /\ DOMAIN parsers' = 1 .. Len(parsers)
  <2>1. parsers' = [parsers EXCEPT ![level] = q] /\ q \in Parser
    BY DEF Keep, Keeps
  <2>2. /\ parsers' \in Seq(Parser) /\ Len(parsers') = Len(parsers) /\ parsers'[level] = q
        /\ \A j \in 1 .. Len(parsers) : j # level => parsers'[j] = parsers[j]
    BY <1>3, <2>1, Replaced
  <2>3. DOMAIN parsers' = 1 .. Len(parsers')
    BY <2>2, LenProperties
  <2> QED BY <2>2, <2>3
<1>5. \A j \in 1 .. Len(parsers) : parsers'[j].kind = parsers[j].kind
  BY <1>4 DEF Keeps, Current
<1>6. TypesOK'
  <2>1. doc' = doc /\ line' = line /\ level' = level /\ ended' = ended /\ html' = html
        /\ phase' = "up"
    BY DEF Keep
  <2>2. level' \in 0 .. Len(parsers') /\ level' # 0
    BY <1>3, <1>4, <2>1
  <2> QED BY <1>1, <1>4, <2>1, <2>2 DEF TypesOK
<1>7. ShapeOK'
  BY <1>1, <1>3, <1>4, <1>5 DEF ShapeOK
<1>8. TablesOK'
  <2> SUFFICES ASSUME NEW i \in DOMAIN parsers'
               PROVE  IF parsers'[i].kind = "table"
                      THEN ~parsers'[i].isFinished => parsers'[i].result = <<>>
                      ELSE parsers'[i].table = <<>>
    BY DEF TablesOK
  <2>1. CASE i = level
    BY <1>4, <2>1 DEF Keeps
  <2>2. CASE i # level
    BY <1>1, <1>3, <1>4, <2>2 DEF TablesOK
  <2> QED BY <2>1, <2>2
<1>9. FlagsOK'
  <2>1. level' = level /\ phase' = "up" /\ Seen' = level /\ Seen = level - 1
    BY DEF Keep, Seen
  <2>2. ASSUME NEW i \in DOMAIN parsers', i > level' PROVE IsOpen(parsers'[i])
    BY <1>3, <1>4, <2>1, <2>2
  <2>3. ASSUME NEW i \in 1 .. level' - 1
        PROVE  parsers'[i].isStarted /\ parsers'[i].kind \notin {"headline", "hr"}
    <3>1. i \in 1 .. level - 1 /\ i \in 1 .. Len(parsers) /\ i # level
      BY <1>3, <2>1
    <3> QED BY <1>1, <1>4, <3>1 DEF FlagsOK
  <2>4. ASSUME NEW i \in 1 .. Seen', NEW j \in 1 .. Seen', i < j, parsers'[i].isFinished
        PROVE  parsers'[j].isFinished
    <3>1. i \in 1 .. level - 1 /\ i \in 1 .. Len(parsers) /\ i # level
      BY <1>3, <2>1, <2>4
    <3>2. parsers'[i] = parsers[i]
      BY <1>4, <3>1
    <3>3. CASE j = level
      BY <1>4, <2>4, <3>1, <3>2, <3>3 DEF Keeps
    <3>4. CASE j # level
      <4>1. j \in 1 .. level - 1 /\ j \in 1 .. Len(parsers)
        BY <1>3, <2>1, <3>4
      <4>2. parsers'[j] = parsers[j]
        BY <1>4, <3>4, <4>1
      <4> QED BY <1>1, <2>1, <2>4, <3>1, <3>2, <4>1, <4>2 DEF FlagsOK
    <3> QED BY <3>3, <3>4
  <2>5. IF parsers'[level'].isFinished THEN level' = Len(parsers')
                                       ELSE IsOpen(parsers'[level'])
    BY <1>4, <2>1 DEF Keeps
  <2> HIDE DEF Keep, Keeps
  <2> QED BY <2>1, <2>2, <2>3, <2>4, <2>5 DEF FlagsOK
<1> QED BY <1>6, <1>7, <1>8, <1>9

LEMMA KeepHtml ==
  ASSUME IInv, phase = "down", level = Len(parsers), NEW q, Keep(q), Keeps(q),
         health = "sound"
  PROVE  HtmlOK' /\ WordsOK'
<1>1. /\ TypesOK /\ HtmlOK /\ WordsOK
  BY DEF IInv
<1>2. level > 0
  BY <1>1 DEF TypesOK
<1>3. /\ Len(parsers) \in Nat \ {0} /\ level \in 1 .. Len(parsers) /\ level \in Nat \ {0}
      /\ DOMAIN parsers = 1 .. Len(parsers) /\ parsers \in Seq(Parser)
      /\ level - 1 \in Nat /\ Current = parsers[level] /\ Current \in Parser
      /\ \A i \in 1 .. Len(parsers) : parsers[i] \in Parser
  BY <1>1, <1>2, ParserProps
<1>4. /\ parsers' \in Seq(Parser) /\ Len(parsers') = Len(parsers) /\ parsers'[level] = q
      /\ \A j \in 1 .. Len(parsers) : j # level => parsers'[j] = parsers[j]
      /\ DOMAIN parsers' = 1 .. Len(parsers)
      /\ \A i \in 1 .. Len(parsers) : parsers'[i] \in Parser
  <2>1. parsers' = [parsers EXCEPT ![level] = q] /\ q \in Parser
    BY DEF Keep, Keeps
  <2>2. /\ parsers' \in Seq(Parser) /\ Len(parsers') = Len(parsers) /\ parsers'[level] = q
        /\ \A j \in 1 .. Len(parsers) : j # level => parsers'[j] = parsers[j]
    BY <1>3, <2>1, Replaced
  <2> QED BY <2>2, LenProperties, ElementOfSeq
<1>5. level' = level /\ phase' = "up" /\ html' = html /\ doc' = doc /\ line' = line
  BY DEF Keep
<1>6. ASSUME NEW n \in Nat, n < level
      PROVE  Needed(parsers', n) = Needed(parsers, n) /\ Lacked(parsers', n) = Lacked(parsers, n)
             /\ Held(parsers', n) = Held(parsers, n)
  <2>1. \A i \in 1 .. n : parsers'[i] = parsers[i]
    BY <1>3, <1>4, <1>6
  <2> QED BY <2>1, NeededSame, LackedSame, HeldSame
<1>7. HtmlOK'
  <2>1. Opens(html', <<>>, <<>>)
    BY <1>1, <1>5 DEF HtmlOK
  <2>2. ASSUME NEW i \in DOMAIN parsers', i # level'
        PROVE  Opens(parsers'[i].result, Needed(parsers', i - 1), Needed(parsers', i))
    <3>1. i \in 1 .. Len(parsers) /\ i < level /\ i \in Nat /\ i - 1 \in Nat /\ i - 1 < level
      BY <1>3, <1>4, <1>5, <2>2
    <3>2. Needed(parsers', i - 1) = Needed(parsers, i - 1)
          /\ Needed(parsers', i) = Needed(parsers, i) /\ parsers'[i] = parsers[i]
      BY <1>4, <1>6, <3>1
    <3>3. Opens(parsers[i].result, Needed(parsers, i - 1), Needed(parsers, i))
      BY <1>1, <1>3, <3>1 DEF HtmlOK
    <3> QED BY <3>2, <3>3
  <2>3. Opens(parsers'[level'].result, Needed(parsers', level' - 1), Lacked(parsers', level'))
    <3>1. level - 1 < level
      BY <1>3
    <3>2. /\ Needed(parsers', level - 1) = Needed(parsers, level - 1)
          /\ Lacked(parsers', level - 1) = Lacked(parsers, level - 1)
      BY <1>3, <1>6, <3>1
    <3>3. Lacked(parsers', level) = Lacked(parsers', level - 1) \o Lacks(parsers'[level])
      <4>1. level \in Nat /\ level > 0
        BY <1>3
      <4> QED BY <4>1, NeededProps
    <3> QED BY <1>4, <1>5, <3>2, <3>3 DEF Keeps
  <2> QED BY <1>5, <2>1, <2>2, <2>3 DEF HtmlOK
<1>8. WordsOK'
  <2> SUFFICES ASSUME health' = "sound"
               PROVE  (Words(html') \o Held(parsers', Len(parsers'))) \o <<>> = Written'
    BY <1>5 DEF WordsOK
  <2>1. Written' = Written
    BY <1>5 DEF Written
  <2>2. (Words(html) \o Held(parsers, Len(parsers))) \o Words(line) = Written
    BY <1>1 DEF WordsOK
  <2> DEFINE a == Words(html)
             b == Held(parsers, level - 1)
             c == Words(Pending(Current))
             d == Words(line)
             e == Words(Pending(q))
  <2>3. e = c \o d
    BY DEF Keeps
  <2>4. Held(parsers, Len(parsers)) = b \o c
    <3>1. level > 0
      BY <1>3
    <3> QED BY <1>3, <3>1, HeldProps
  <2>5. Held(parsers', Len(parsers')) = b \o e
    <3>1. level > 0 /\ level - 1 < level
      BY <1>3
    <3>2. Held(parsers', level) = Held(parsers', level - 1) \o e
      BY <1>3, <1>4, <3>1, HeldProps
    <3> QED BY <1>3, <1>4, <1>6, <3>1, <3>2
  <2>6. a \in Seq(Token) /\ b \in Seq(Token) /\ c \in Seq(Token) /\ d \in Seq(Token)
    <3>1. \A i \in 1 .. level - 1 : parsers[i] \in Parser
      BY <1>3
    <3>2. b \in Seq(Token)
      BY <1>3, <3>1, HeldProps
    <3> QED BY <1>1, <1>3, <3>2, WordsType, PendingType DEF TypesOK
  <2> HIDE DEF a, b, c, d, e
  <2>7. (a \o (b \o c)) \o d = a \o (b \o (c \o d)) /\ a \o (b \o (c \o d)) \in Seq(Token)
    <3>1. b \o c \in Seq(Token) /\ c \o d \in Seq(Token)
      BY <2>6, ConcatProperties
    <3>2. (a \o (b \o c)) \o d = a \o ((b \o c) \o d)
      BY <2>6, <3>1, ConcatAssociative, SMTT(30)
    <3>4. (b \o c) \o d = b \o (c \o d)
      BY <2>6, ConcatAssociative, SMTT(30)
    <3>3. b \o (c \o d) \in Seq(Token)
      BY <2>6, <3>1, ConcatProperties
    <3> QED BY <2>6, <3>2, <3>3, <3>4, ConcatProperties
  <2>8. (a \o (b \o (c \o d))) \o <<>> = a \o (b \o (c \o d))
    BY <2>7, ConcatEmptySeq
  <2> QED BY <1>5, <2>1, <2>2, <2>3, <2>4, <2>5, <2>7, <2>8 DEF a, d
<1> QED BY <1>7, <1>8

LEMMA KeepInv ==
  ASSUME IInv, phase = "down", level = Len(parsers), NEW q, Keep(q), Keeps(q),
         health = "sound", health' \in {"sound", "undefined"}, TableOK'
  PROVE  IInv'
<1>1. /\ TypesOK /\ ShapeOK /\ EndOK /\ QuotesOK /\ EmptyOK
  BY DEF IInv
<1>2. TypesOK' /\ ShapeOK' /\ TablesOK' /\ FlagsOK' /\ HtmlOK' /\ WordsOK'
  BY KeepShape, KeepHtml
<1>3. level > 0
  BY <1>1 DEF TypesOK
<1>4. /\ Len(parsers) \in Nat \ {0} /\ level \in 1 .. Len(parsers) /\ level \in Nat \ {0}
      /\ DOMAIN parsers = 1 .. Len(parsers) /\ parsers \in Seq(Parser)
      /\ parsers # <<>> /\ Current = parsers[level]
  BY <1>1, <1>3, ParserProps
<1>5. /\ parsers' \in Seq(Parser) /\ Len(parsers') = Len(parsers) /\ parsers'[level] = q
      /\ \A j \in 1 .. Len(parsers) : j # level => parsers'[j] = parsers[j]
      /\ DOMAIN parsers' = 1 .. Len(parsers)
  <2>1. parsers' = [parsers EXCEPT ![level] = q] /\ q \in Parser
    BY DEF Keep, Keeps
  <2>2. /\ parsers' \in Seq(Parser) /\ Len(parsers') = Len(parsers) /\ parsers'[level] = q
        /\ \A j \in 1 .. Len(parsers) : j # level => parsers'[j] = parsers[j]
    BY <1>4, <2>1, Replaced
  <2> QED BY <2>2, LenProperties
<1>6. /\ level' = level /\ phase' = "up" /\ html' = html /\ doc' = doc /\ line' = line
      /\ ended' = ended
  BY DEF Keep
<1>7. \A j \in 1 .. Len(parsers) : parsers'[j].kind = parsers[j].kind
  BY <1>4, <1>5 DEF Keeps
<1>8. LineOK'
  BY <1>6 DEF LineOK
<1>9. EndOK'
  <2> SUFFICES ASSUME ended
               PROVE  parsers'[1].isFinished \/ parsers'[1].kind \in {"quote", "code", "table"}
    BY <1>6 DEF EndOK
  <2>1. CASE level = 1
    BY <1>5, <2>1 DEF Keeps
  <2>2. CASE level # 1
    <3>1. 1 \in 1 .. Len(parsers)
      BY <1>4
    <3>2. parsers'[1] = parsers[1]
      BY <1>5, <2>2, <3>1
    <3> QED BY <1>1, <1>4, <2>2, <3>2 DEF EndOK
  <2> QED BY <2>1, <2>2
<1>10. QuotesOK'
  BY <1>1, <1>4, <1>5, <1>6, <1>7 DEF QuotesOK
<1>11. EmptyOK'
  <2> SUFFICES ASSUME Ending'
               PROVE  /\ \A i \in 1 .. level - 1 :
                           parsers'[i].kind = "quote" \/ parsers'[i].isFinished
                      /\ q.isFinished /\ Shrinking'
    BY <1>5, <1>6 DEF EmptyOK
  <2>1. Ending
    <3>1. 1 \in 1 .. Len(parsers)
      BY <1>4
    <3> QED BY <1>4, <1>6, <1>7, <3>1 DEF Ending
  <2>2. /\ \A i \in 1 .. level - 1 : parsers[i].kind = "quote" \/ parsers[i].isFinished
        /\ Shrinking
    BY <1>1, <2>1 DEF EmptyOK
  <2>3. \A i \in 1 .. level - 1 : parsers'[i].kind = "quote" \/ parsers'[i].isFinished
    <3>1. \A i \in 1 .. level - 1 : i \in 1 .. Len(parsers) /\ i # level
      BY <1>4
    <3> QED BY <1>5, <2>2, <3>1
  <2>4. Shrinking'
    <3>1. \A n : OnlyQuotes(n) => OnlyQuotes(n)'
      BY <1>4, <1>5, <1>6, <1>7 DEF OnlyQuotes
    <3>2. \A n : AreEmpty(n)' = AreEmpty(n)
      BY <1>6 DEF AreEmpty
    <3> QED BY <1>6, <2>2, <3>1, <3>2 DEF Shrinking
  <2> QED BY <2>1, <2>3, <2>4 DEF Keeps
<1> QED BY <1>2, <1>8, <1>9, <1>10, <1>11 DEF IInv

-----------------------------------------------------------------------------
(* A parser hands its line on.                                             *)

LEMMA NewProps ==
  ASSUME NEW k \in Kinds
  PROVE  /\ New(k) \in Parser /\ New(k).kind = k /\ New(k).result = <<>> /\ New(k).table = <<>>
         /\ ~New(k).isStarted /\ New(k).currentBlock = 0
         /\ (k \notin {"headline", "hr"}) => ~New(k).isFinished
         /\ Need(New(k)) = <<>> /\ Lacks(New(k)) = <<>> /\ Words(Pending(New(k))) = <<>>
<1> DEFINE b == k \in {"headline", "hr"}
           p == [ kind |-> k, isStarted |-> FALSE, isFinished |-> b,
                  result |-> <<>>, table |-> <<>>, currentBlock |-> 0 ]
<1>0. New(k) = p /\ b \in BOOLEAN /\ (k \notin {"headline", "hr"} => ~b)
  BY DEF New
<1> HIDE DEF b
<1>1. /\ p \in Parser /\ p.kind = k /\ p.result = <<>> /\ p.table = <<>>
      /\ ~p.isStarted /\ p.currentBlock = 0
      /\ (k \notin {"headline", "hr"}) => ~p.isFinished
  <2>1. <<>> \in Seq(Token) /\ <<>> \in Seq(Seq(Seq(Plain))) /\ 0 \in Nat
    OBVIOUS
  <2> QED BY <1>0, <2>1 DEF Parser
<1> HIDE DEF p
<1>2. Need(p) = <<>> /\ Lacks(p) = <<>>
  BY <1>1 DEF Need, Lacks
<1>3. Pending(p) = <<>>
  <2>1. p.result \in Seq(Token)
    BY <1>1 DEF Parser
  <2> QED BY <1>1, <2>1, PendingNoTable
<1> QED BY <1>0, <1>1, <1>2, <1>3, WordsNone

LEMMA Added ==
  ASSUME NEW T, NEW s \in Seq(T), NEW t \in T
  PROVE  /\ s \o <<t>> \in Seq(T) /\ Len(s \o <<t>>) = Len(s) + 1
         /\ (s \o <<t>>)[Len(s) + 1] = t
         /\ \A i \in 1 .. Len(s) : (s \o <<t>>)[i] = s[i]
<1>1. s \o <<t>> = Append(s, t)
  BY AppendIsConcat
<1> QED BY <1>1, AppendProperties

Hands(q, m) ==
  /\ q \in Parser /\ q.kind = Current.kind /\ q.kind \in Lists \cup {"quote"}
  /\ q.isStarted /\ q.table = <<>>
  /\ m \in Seq(Token) /\ Words(m) = Words(line)
  /\ Words(Pending(q)) = Words(Pending(Current))
  /\ IsOpen(Current) => Need(q) = Need(Current)
  /\ ~q.isFinished => \A i \in 1 .. level - 1 : ~parsers[i].isFinished
  /\ \/ m \in Seq(Plain) /\ ~q.isFinished
     \/ q.kind \in Lists /\ HeadIn(m, {Ender(q.kind)})
  /\ Opens(q.result, Needed(parsers, level - 1), Needed(parsers, level - 1) \o Need(q))
  /\ Opens(m, Needed(parsers, level - 1) \o Need(q), Lacked(parsers, level - 1) \o Lacks(q))
  /\ ended /\ level = 1 => q.isFinished \/ q.kind = "quote"
  /\ q.kind = "quote" =>
       /\ HeadIn(m, {">"}) => HeadIn(line, {">"}) /\ Quotes(m) + 1 <= Quotes(line)
       /\ \A kind \in {"code", "hr", "table"} : ~IsStartingLine(kind, m)
  /\ Ending => \/ q.kind = "quote" /\ m = <<>>
               \/ q.kind \in Lists /\ q.isFinished /\ HeadIn(m, {Ender(q.kind)})

HandsToOld ==
  /\ level < Len(parsers) /\ Len(parsers') = Len(parsers)
  /\ \A i \in level + 1 .. Len(parsers) : parsers'[i] = parsers[i]

HandsToNew(q, m) ==
  /\ Len(parsers) = level /\ Len(parsers') = level + 1 /\ m \in Seq(Plain) /\ ~Ending
  /\ \E k \in Kinds : /\ parsers'[level + 1] = New(k) /\ IsStartingLine(k, m)
                      /\ Nests(q.kind, k)

LEMMA NewChild ==
  ASSUME NEW q, NEW m, Hands(q, m), ParserFor(Children(q.kind), m) # <<>>
  PROVE  /\ m \in Seq(Plain) /\ ~Ending
         /\ \E k \in Kinds : /\ ParserFor(Children(q.kind), m) = <<New(k)>>
                             /\ IsStartingLine(k, m) /\ Nests(q.kind, k)
<1>1. q.kind \in Kinds /\ Children(q.kind) \in Seq(Kinds)
  BY ChildrenProps DEF Hands, Parser
<1>2. PICK i \in 1 .. Len(Children(q.kind)) :
        /\ ParserFor(Children(q.kind), m) = <<New(Children(q.kind)[i])>>
        /\ IsStartingLine(Children(q.kind)[i], m)
  BY <1>1, ParserForProps
<1>3. Children(q.kind)[i] \in Kinds
  BY <1>1, ElementOfSeq
<1>4. CASE q.kind \in Lists
  <2>1. ~HeadIn(m, {Ender(q.kind)})
    <3> SUFFICES ASSUME HeadIn(m, {Ender(q.kind)}) PROVE FALSE
      OBVIOUS
    <3>1. HeadIn(m, Tags)
      BY EnderIsTag DEF HeadIn
    <3> QED BY <1>4, <3>1, NoChildForTag
  <2>2. "quote" \notin Lists
    BY DEF Lists
  <2>3. m \in Seq(Plain) /\ ~Ending
    BY <1>4, <2>1, <2>2 DEF Hands
  <2>4. Nests(q.kind, Children(q.kind)[i])
    BY <1>1, <1>4, ChildrenProps
  <2> QED BY <1>2, <1>3, <2>3, <2>4
<1>5. CASE q.kind = "quote"
  <2>1. "quote" \notin Lists
    BY DEF Lists
  <2>2. m \in Seq(Plain)
    BY <1>5, <2>1 DEF Hands
  <2> DEFINE k == Children(q.kind)[i]
  <2>3. Nests(q.kind, Children(q.kind)[i])
    <3>1. IsStartingLine(k, m)
      BY <1>2
    <3>2. \A kind \in {"code", "hr", "table"} : ~IsStartingLine(kind, m)
      BY <1>5 DEF Hands
    <3> HIDE DEF k
    <3>3. k \notin {"code", "hr", "table"}
      BY <3>1, <3>2
    <3> QED BY <1>5, <3>3 DEF Nests, k
  <2>4. m # <<>>
    <3>1. k \in Kinds /\ IsStartingLine(k, m)
      BY <1>2, <1>3
    <3> HIDE DEF k
    <3>2. \A S : ~HeadIn(<<>>, S)
      BY DEF HeadIn
    <3>3. <<>> # <<"fence">> /\ <<>> # <<"---">> /\ <<>> # <<"|table>">>
      OBVIOUS
    <3>4. ~IsStartingLine(k, <<>>)
      BY <3>2, <3>3 DEF IsStartingLine
    <3> QED BY <3>1, <3>4
  <2>5. ~Ending
    BY <1>5, <2>1, <2>4 DEF Hands
  <2> QED BY <1>2, <1>3, <2>2, <2>3, <2>5
<1> QED BY <1>4, <1>5 DEF Hands

LEMMA Handed ==
  ASSUME TypesOK, level > 0, NEW q, NEW m, HandOn(q, m), HasChildFor(m), Hands(q, m)
  PROVE  /\ parsers' \in Seq(Parser) /\ DOMAIN parsers' = 1 .. Len(parsers')
         /\ Len(parsers') \in Nat /\ level + 1 <= Len(parsers')
         /\ \A i \in 1 .. Len(parsers') : parsers'[i] \in Parser
         /\ parsers'[level] = q
         /\ \A i \in 1 .. level - 1 : parsers'[i] = parsers[i]
         /\ HandsToOld \/ HandsToNew(q, m)
<1>1. /\ Len(parsers) \in Nat \ {0} /\ level \in 1 .. Len(parsers) /\ level \in Nat \ {0}
      /\ DOMAIN parsers = 1 .. Len(parsers) /\ parsers \in Seq(Parser)
  BY ParserProps
<1> DEFINE ps == [parsers EXCEPT ![level] = q]
<1>2. /\ ps \in Seq(Parser) /\ Len(ps) = Len(parsers) /\ ps[level] = q
      /\ \A j \in 1 .. Len(parsers) : j # level => ps[j] = parsers[j]
  <2>1. q \in Parser
    BY DEF Hands
  <2> QED BY <1>1, <2>1, Replaced
<1>3. parsers' = ps \o (IF level < Len(parsers) THEN <<>> ELSE ParserFor(Children(q.kind), m))
  BY DEF HandOn
<1> HIDE DEF ps
<1>4. CASE level < Len(parsers)
  <2>1. parsers' = ps
    BY <1>2, <1>3, <1>4, ConcatEmptySeq
  <2>2. \A i \in level + 1 .. Len(parsers) : parsers'[i] = parsers[i]
    BY <1>1, <1>2, <2>1
  <2>3. HandsToOld
    BY <1>2, <1>4, <2>1, <2>2 DEF HandsToOld
  <2>4. \A i \in 1 .. level - 1 : i \in 1 .. Len(parsers) /\ i # level
    BY <1>1
  <2>5. DOMAIN parsers' = 1 .. Len(parsers') /\ \A i \in 1 .. Len(parsers') : parsers'[i] \in Parser
    BY <1>2, <2>1, LenProperties, ElementOfSeq
  <2>6. level + 1 <= Len(parsers') /\ Len(parsers') \in Nat
    BY <1>1, <1>2, <1>4, <2>1
  <2>7. parsers'[level] = q /\ \A i \in 1 .. level - 1 : parsers'[i] = parsers[i]
    BY <1>2, <2>1, <2>4
  <2>8. parsers' \in Seq(Parser)
    BY <1>2, <2>1
  <2> QED BY <2>3, <2>5, <2>6, <2>7, <2>8
<1>5. CASE ~(level < Len(parsers))
  <2>1. Len(parsers) = level
    <3>1. level <= Len(parsers) /\ level \in Nat /\ Len(parsers) \in Nat
      BY <1>1
    <3> QED BY <1>5, <3>1
  <2>2. q.kind = Current.kind
    BY DEF Hands
  <2>3. ParserFor(Children(q.kind), m) # <<>>
    BY <1>5, <2>2 DEF HasChildFor
  <2>4. PICK k \in Kinds : /\ ParserFor(Children(q.kind), m) = <<New(k)>>
                           /\ IsStartingLine(k, m) /\ Nests(q.kind, k)
    BY <2>3, NewChild
  <2>5. m \in Seq(Plain) /\ ~Ending
    BY <2>3, NewChild
  <2> DEFINE n == New(k)
  <2>6. parsers' = ps \o <<n>> /\ n \in Parser
    BY <1>3, <1>5, <2>4, NewProps
  <2> HIDE DEF n
  <2>7. /\ parsers' \in Seq(Parser) /\ Len(parsers') = Len(ps) + 1 /\ parsers'[Len(ps) + 1] = n
        /\ \A i \in 1 .. Len(ps) : parsers'[i] = ps[i]
    BY <1>2, <2>6, Added
  <2>8. HandsToNew(q, m)
    BY <1>2, <2>1, <2>4, <2>5, <2>7 DEF HandsToNew, n
  <2>9. DOMAIN parsers' = 1 .. Len(parsers') /\ \A i \in 1 .. Len(parsers') : parsers'[i] \in Parser
    BY <2>7, LenProperties, ElementOfSeq
  <2>10. \A i \in 1 .. level - 1 : i \in 1 .. Len(parsers) /\ i # level
    BY <1>1
  <2>11. level + 1 <= Len(parsers') /\ Len(parsers') \in Nat
    BY <1>1, <1>2, <2>1, <2>7
  <2>12. parsers'[level] = q /\ \A i \in 1 .. level - 1 : parsers'[i] = parsers[i]
    BY <1>1, <1>2, <2>7, <2>10
  <2> QED BY <2>7, <2>8, <2>9, <2>11, <2>12
<1> QED BY <1>4, <1>5

(* The parsers that had seen the line are as they were, but for the one it *)
(* comes from.                                                             *)
LEMMA HandedKinds ==
  ASSUME TypesOK, level > 0, NEW q, NEW m, HandOn(q, m), HasChildFor(m), Hands(q, m),
         NEW i \in 1 .. level
  PROVE  parsers'[i].kind = parsers[i].kind /\ i \in 1 .. Len(parsers) /\ i \in 1 .. Len(parsers')
<1>1. /\ Len(parsers) \in Nat \ {0} /\ level \in 1 .. Len(parsers) /\ level \in Nat \ {0}
      /\ Current = parsers[level]
  BY ParserProps
<1>2. /\ parsers'[level] = q /\ \A j \in 1 .. level - 1 : parsers'[j] = parsers[j]
      /\ level + 1 <= Len(parsers') /\ Len(parsers') \in Nat
  BY Handed
<1>3. i \in 1 .. Len(parsers) /\ i \in 1 .. Len(parsers')
  BY <1>1, <1>2
<1>4. q.kind = Current.kind
  BY DEF Hands
<1>5. CASE i = level
  BY <1>1, <1>2, <1>3, <1>4, <1>5
<1>6. CASE i # level
  <2>1. i \in 1 .. level - 1
    BY <1>1, <1>6
  <2> QED BY <1>2, <1>3, <2>1
<1> QED BY <1>5, <1>6

LEMMA HandShape ==
  ASSUME IInv, phase = "down", NEW q, NEW m, HandOn(q, m), HasChildFor(m), Hands(q, m)
  PROVE  TypesOK' /\ ShapeOK' /\ TablesOK' /\ FlagsOK'
<1>1. TypesOK /\ ShapeOK /\ TablesOK /\ FlagsOK
  BY DEF IInv
<1>2. level > 0
  BY <1>1 DEF TypesOK
<1>3. /\ Len(parsers) \in Nat \ {0} /\ level \in 1 .. Len(parsers) /\ level \in Nat \ {0}
      /\ DOMAIN parsers = 1 .. Len(parsers) /\ parsers \in Seq(Parser)
      /\ Current = parsers[level]
  BY <1>1, <1>2, ParserProps
<1>4. /\ parsers' \in Seq(Parser) /\ DOMAIN parsers' = 1 .. Len(parsers')
      /\ Len(parsers') \in Nat /\ level + 1 <= Len(parsers')
      /\ \A i \in 1 .. Len(parsers') : parsers'[i] \in Parser
      /\ parsers'[level] = q
      /\ \A i \in 1 .. level - 1 : parsers'[i] = parsers[i]
      /\ HandsToOld \/ HandsToNew(q, m)
  BY <1>1, <1>2, Handed
<1>5. \A i \in 1 .. level : parsers'[i].kind = parsers[i].kind
  BY <1>1, <1>2, HandedKinds
<1>6. /\ level' = level + 1 /\ line' = m /\ phase' = "down" /\ doc' = doc
      /\ ended' = ended /\ html' = html /\ health' = health
  BY DEF HandOn
<1>7. TypesOK'
  <2>1. level' \in 0 .. Len(parsers') /\ level' # 0
    BY <1>3, <1>4, <1>6
  <2>2. m \in Seq(Token)
    BY DEF Hands
  <2> QED BY <1>1, <1>4, <1>6, <2>1, <2>2 DEF TypesOK
<1>8. \A i \in 1 .. Len(parsers') : i \in 1 .. level - 1 \/ i = level \/ i \in level + 1 .. Len(parsers')
  BY <1>3, <1>4
<1>9. ASSUME HandsToOld
      PROVE  /\ ShapeOK' /\ TablesOK'
             /\ \A i \in DOMAIN parsers' : i > level' => IsOpen(parsers'[i])
             /\ \/ IsOpen(parsers'[level'])
                \/ level' = Len(parsers') /\ Fresh(parsers'[level'], line')
  <2>1. /\ level < Len(parsers) /\ Len(parsers') = Len(parsers)
        /\ \A i \in level + 1 .. Len(parsers) : parsers'[i] = parsers[i]
    BY <1>9 DEF HandsToOld
  <2>2. \A i \in 1 .. Len(parsers) : parsers'[i].kind = parsers[i].kind
    <3>1. \A i \in 1 .. Len(parsers) : i \in 1 .. level \/ i \in level + 1 .. Len(parsers)
      BY <1>3
    <3> QED BY <1>5, <2>1, <3>1
  <2>3. ShapeOK'
    BY <1>1, <1>3, <1>4, <2>1, <2>2 DEF ShapeOK
  <2>4. ASSUME NEW i \in DOMAIN parsers', i # level
        PROVE  parsers'[i] = parsers[i] /\ i \in DOMAIN parsers
    <3>1. i \in 1 .. Len(parsers)
      BY <1>4, <2>1
    <3>2. i \in 1 .. level - 1 \/ i \in level + 1 .. Len(parsers)
      BY <1>3, <2>4, <3>1
    <3> QED BY <1>3, <1>4, <2>1, <3>1, <3>2
  <2>5. TablesOK'
    <3> SUFFICES ASSUME NEW i \in DOMAIN parsers'
                 PROVE  IF parsers'[i].kind = "table"
                        THEN ~parsers'[i].isFinished => parsers'[i].result = <<>>
                        ELSE parsers'[i].table = <<>>
      BY DEF TablesOK
    <3>1. CASE i = level
      BY <1>4, <3>1 DEF Hands, Lists
    <3>2. CASE i # level
      BY <1>1, <2>4, <3>2 DEF TablesOK
    <3> QED BY <3>1, <3>2
  <2>6. \A i \in DOMAIN parsers' : i > level' => IsOpen(parsers'[i])
    <3> SUFFICES ASSUME NEW i \in DOMAIN parsers', i > level'
                 PROVE  IsOpen(parsers'[i])
      OBVIOUS
    <3>1. i > level /\ i # level
      BY <1>3, <1>4, <1>6
    <3> QED BY <1>1, <2>4, <3>1 DEF FlagsOK
  <2>7. IsOpen(parsers'[level'])
    <3>1. level' \in DOMAIN parsers' /\ level' # level /\ level' > level
      BY <1>3, <1>4, <1>6
    <3> QED BY <1>1, <2>4, <3>1 DEF FlagsOK
  <2> QED BY <2>3, <2>5, <2>6, <2>7
<1>10. ASSUME HandsToNew(q, m)
      PROVE  /\ ShapeOK' /\ TablesOK'
             /\ \A i \in DOMAIN parsers' : i > level' => IsOpen(parsers'[i])
             /\ \/ IsOpen(parsers'[level'])
                \/ level' = Len(parsers') /\ Fresh(parsers'[level'], line')
  <2>1. PICK k \in Kinds : /\ parsers'[level + 1] = New(k) /\ IsStartingLine(k, m)
                           /\ Nests(q.kind, k)
    BY <1>10 DEF HandsToNew
  <2>2. Len(parsers) = level /\ Len(parsers') = level + 1 /\ m \in Seq(Plain)
    BY <1>10 DEF HandsToNew
  <2>3. /\ New(k).kind = k /\ New(k).table = <<>> /\ New(k).result = <<>>
    BY NewProps
  <2>4. q.kind = parsers[level].kind
    BY <1>3 DEF Hands
  <2>5. ASSUME NEW i \in DOMAIN parsers' PROVE i \in 1 .. level \/ i = level + 1
    BY <1>3, <1>4, <2>2
  <2>6. ShapeOK'
    <3> SUFFICES ASSUME NEW i \in DOMAIN parsers', NEW j \in DOMAIN parsers'
                 PROVE  /\ j = i + 1 => Nests(parsers'[i].kind, parsers'[j].kind)
                        /\ i < j /\ parsers'[j].kind = "quote" => parsers'[i].kind = "quote"
      BY DEF ShapeOK
    <3>0. i \in 1 .. level + 1 /\ j \in 1 .. level + 1 /\ level \in Nat
      BY <1>3, <1>4, <2>2
    <3>1. CASE j = level + 1
      <4>1. parsers'[j].kind = k
        BY <2>1, <2>3, <3>1
      <4>2. j = i + 1 => i = level /\ level \in 1 .. level
        BY <1>3, <3>0, <3>1
      <4>3. j = i + 1 => Nests(parsers'[i].kind, parsers'[j].kind)
        BY <1>4, <2>1, <4>1, <4>2
      <4>4. ASSUME i < j, k = "quote" PROVE parsers'[i].kind = "quote"
        <5>1. q.kind = "quote"
          BY <2>1, <4>4 DEF Nests
        <5>2. CASE i = level
          BY <1>4, <5>1, <5>2
        <5>3. CASE i # level
          <6>1. i \in 1 .. level /\ i < level /\ i \in DOMAIN parsers /\ level \in DOMAIN parsers
            BY <1>3, <3>0, <3>1, <4>4, <5>3
          <6>2. parsers[i].kind = "quote"
            BY <1>1, <2>4, <5>1, <6>1 DEF ShapeOK
          <6> QED BY <1>5, <6>1, <6>2
        <5> QED BY <5>2, <5>3
      <4> QED BY <4>1, <4>3, <4>4
    <3>2. CASE j # level + 1 /\ i = level + 1
      <4>1. ~(j = i + 1) /\ ~(i < j)
        BY <3>0, <3>2
      <4> QED BY <4>1
    <3>3. CASE j # level + 1 /\ i # level + 1
      <4>1. i \in 1 .. level /\ j \in 1 .. level /\ i \in DOMAIN parsers /\ j \in DOMAIN parsers
        BY <1>3, <2>2, <2>5, <3>3
      <4> QED BY <1>1, <1>5, <4>1 DEF ShapeOK
    <3> QED BY <3>1, <3>2, <3>3
  <2>7. TablesOK'
    <3> SUFFICES ASSUME NEW i \in DOMAIN parsers'
                 PROVE  IF parsers'[i].kind = "table"
                        THEN ~parsers'[i].isFinished => parsers'[i].result = <<>>
                        ELSE parsers'[i].table = <<>>
      BY DEF TablesOK
    <3>1. CASE i = level
      BY <1>4, <3>1 DEF Hands, Lists
    <3>2. CASE i = level + 1
      BY <2>1, <2>3, <3>2
    <3>3. CASE i # level /\ i # level + 1
      <4>1. i \in 1 .. level - 1 /\ i \in DOMAIN parsers
        BY <1>3, <2>2, <2>5, <3>3
      <4> QED BY <1>1, <1>4, <4>1 DEF TablesOK
    <3> QED BY <3>1, <3>2, <3>3
  <2>8. \A i \in DOMAIN parsers' : i > level' => IsOpen(parsers'[i])
    BY <1>3, <1>4, <1>6, <2>2
  <2>9. level' = Len(parsers') /\ Fresh(parsers'[level'], line')
    BY <1>6, <2>1, <2>2, <2>3 DEF Fresh
  <2> QED BY <2>6, <2>7, <2>8, <2>9
<1>11. FlagsOK'
  <2>1. Seen' = level
    <3>1. Seen' = level' - 1
      BY <1>6 DEF Seen
    <3> QED BY <1>3, <1>6, <3>1
  <2>2. Seen = level - 1
    BY DEF Seen
  <2>3. \A i \in DOMAIN parsers' : i > level' => IsOpen(parsers'[i])
    BY <1>4, <1>9, <1>10
  <2>4. ASSUME NEW i \in 1 .. level' - 1
        PROVE  parsers'[i].isStarted /\ parsers'[i].kind \notin {"headline", "hr"}
    <3>1. i \in 1 .. level - 1 \/ i = level
      BY <1>3, <1>6
    <3>2. CASE i \in 1 .. level - 1
      BY <1>1, <1>4, <3>2 DEF FlagsOK
    <3>3. CASE i = level
      BY <1>4, <3>3 DEF Hands, Lists
    <3> QED BY <3>1, <3>2, <3>3
  <2>5. ASSUME NEW i \in 1 .. Seen', NEW j \in 1 .. Seen', i < j, parsers'[i].isFinished
        PROVE  parsers'[j].isFinished
    <3>1. i \in 1 .. level - 1
      BY <1>3, <2>1, <2>5
    <3>2. parsers'[i] = parsers[i]
      BY <1>4, <3>1
    <3>3. CASE j = level
      BY <1>4, <2>5, <3>1, <3>2, <3>3 DEF Hands
    <3>4. CASE j # level
      <4>1. j \in 1 .. level - 1
        BY <1>3, <2>1, <3>4
      <4>2. parsers'[j] = parsers[j]
        BY <1>4, <4>1
      <4> QED BY <1>1, <2>2, <2>5, <3>1, <3>2, <4>1, <4>2 DEF FlagsOK
    <3> QED BY <3>3, <3>4
  <2>6. \/ IsOpen(parsers'[level'])
        \/ level' = Len(parsers') /\ Fresh(parsers'[level'], line')
    BY <1>4, <1>9, <1>10
  <2>7. \/ line' \in Seq(Plain) /\ \A i \in 1 .. level' - 1 : ~parsers'[i].isFinished
        \/ IsEnder(line)'
    <3>1. CASE m \in Seq(Plain) /\ ~q.isFinished
      <4>1. \A i \in 1 .. level - 1 : ~parsers[i].isFinished
        BY <3>1 DEF Hands
      <4>2. \A i \in 1 .. level' - 1 : i \in 1 .. level - 1 \/ i = level
        BY <1>3, <1>6
      <4>3. \A i \in 1 .. level' - 1 : ~parsers'[i].isFinished
        BY <1>4, <3>1, <4>1, <4>2
      <4> QED BY <1>6, <3>1, <4>3
    <3>2. CASE q.kind \in Lists /\ HeadIn(m, {Ender(q.kind)})
      <4>1. level' > 1 /\ level' - 1 = level
        BY <1>3, <1>6
      <4>2. parsers'[level' - 1] = q
        BY <1>4, <4>1
      <4> QED BY <1>6, <3>2, <4>1, <4>2 DEF IsEnder
    <3> QED BY <3>1, <3>2 DEF Hands
  <2> QED BY <1>6, <2>3, <2>4, <2>5, <2>6, <2>7 DEF FlagsOK
<1> QED BY <1>4, <1>7, <1>9, <1>10, <1>11

LEMMA HandNeeds ==
  ASSUME IInv, phase = "down", NEW q, NEW m, HandOn(q, m), HasChildFor(m), Hands(q, m)
  PROVE  /\ \A n \in Nat : n < level => /\ Needed(parsers', n) = Needed(parsers, n)
                                        /\ Lacked(parsers', n) = Lacked(parsers, n)
                                        /\ Held(parsers', n) = Held(parsers, n)
         /\ Needed(parsers', level) = Needed(parsers, level - 1) \o Need(q)
         /\ Lacked(parsers', level) = Lacked(parsers, level - 1) \o Lacks(q)
         /\ Held(parsers', level) = Held(parsers, level)
         /\ HandsToOld => \A n \in Nat : n <= Len(parsers) =>
              Needed(parsers', n) = Needed(parsers, n) /\ Held(parsers', n) = Held(parsers, n)
<1>1. TypesOK /\ FlagsOK
  BY DEF IInv
<1>2. level > 0
  BY <1>1 DEF TypesOK
<1>3. /\ Len(parsers) \in Nat \ {0} /\ level \in 1 .. Len(parsers) /\ level \in Nat \ {0}
      /\ DOMAIN parsers = 1 .. Len(parsers) /\ parsers \in Seq(Parser)
      /\ Current = parsers[level] /\ level - 1 \in Nat
      /\ \A i \in 1 .. Len(parsers) : parsers[i] \in Parser
  BY <1>1, <1>2, ParserProps
<1>4. /\ DOMAIN parsers' = 1 .. Len(parsers')
      /\ Len(parsers') \in Nat /\ level + 1 <= Len(parsers')
      /\ \A i \in 1 .. Len(parsers') : parsers'[i] \in Parser
      /\ parsers'[level] = q
      /\ \A i \in 1 .. level - 1 : parsers'[i] = parsers[i]
  BY <1>1, <1>2, Handed
<1>5. ASSUME NEW n \in Nat, n < level
      PROVE  /\ Needed(parsers', n) = Needed(parsers, n)
             /\ Lacked(parsers', n) = Lacked(parsers, n)
             /\ Held(parsers', n) = Held(parsers, n)
  <2>1. \A i \in 1 .. n : parsers'[i] = parsers[i]
    BY <1>3, <1>4, <1>5
  <2> QED BY <2>1, NeededSame, LackedSame, HeldSame
<1>6. level \in Nat /\ level > 0 /\ level - 1 < level
  BY <1>3
<1>7. /\ Needed(parsers', level) = Needed(parsers', level - 1) \o Need(q)
      /\ Lacked(parsers', level) = Lacked(parsers', level - 1) \o Lacks(q)
  BY <1>4, <1>6, NeededProps
<1>8. Words(Pending(q)) = Words(Pending(Current))
  BY DEF Hands
<1>9. \A i \in 1 .. level : Words(Pending(parsers'[i])) = Words(Pending(parsers[i]))
  <2>1. \A i \in 1 .. level : i = level \/ i \in 1 .. level - 1
    BY <1>3
  <2> QED BY <1>3, <1>4, <1>8, <2>1
<1>10. Held(parsers', level) = Held(parsers, level)
  BY <1>6, <1>9, HeldSame
<1>11. ASSUME HandsToOld, NEW n \in Nat, n <= Len(parsers)
       PROVE  Needed(parsers', n) = Needed(parsers, n) /\ Held(parsers', n) = Held(parsers, n)
  <2>1. /\ level < Len(parsers)
        /\ \A i \in level + 1 .. Len(parsers) : parsers'[i] = parsers[i]
    BY <1>11 DEF HandsToOld
  <2>2. Need(q) = Need(parsers[level])
    <3>1. level # Len(parsers)
      <4>1. level \in Nat /\ Len(parsers) \in Nat /\ level < Len(parsers)
        BY <1>3, <2>1
      <4> QED BY <4>1
    <3>2. IsOpen(parsers[level])
      BY <1>1, <3>1 DEF FlagsOK
    <3> QED BY <1>3, <3>2 DEF Hands
  <2>3. \A i \in 1 .. n : i \in 1 .. level \/ i \in level + 1 .. Len(parsers)
    BY <1>3, <1>11
  <2>4. \A i \in 1 .. level : i = level \/ i \in 1 .. level - 1
    BY <1>3
  <2>5. \A i \in 1 .. n : Need(parsers'[i]) = Need(parsers[i])
    BY <1>4, <2>1, <2>2, <2>3, <2>4
  <2>6. \A i \in 1 .. n : Words(Pending(parsers'[i])) = Words(Pending(parsers[i]))
    BY <1>9, <2>1, <2>3
  <2> QED BY <2>5, <2>6, NeededSame, HeldSame
<1> QED BY <1>3, <1>5, <1>6, <1>7, <1>10, <1>11

LEMMA HandHtml ==
  ASSUME IInv, phase = "down", NEW q, NEW m, HandOn(q, m), HasChildFor(m), Hands(q, m)
  PROVE  HtmlOK' /\ WordsOK'
<1>1. TypesOK /\ HtmlOK /\ WordsOK
  BY DEF IInv
<1>2. level > 0
  BY <1>1 DEF TypesOK
<1>3. /\ Len(parsers) \in Nat \ {0} /\ level \in 1 .. Len(parsers) /\ level \in Nat \ {0}
      /\ DOMAIN parsers = 1 .. Len(parsers) /\ parsers \in Seq(Parser)
      /\ Current = parsers[level] /\ level - 1 \in Nat
      /\ \A i \in 1 .. Len(parsers) : parsers[i] \in Parser
  BY <1>1, <1>2, ParserProps
<1>4. /\ DOMAIN parsers' = 1 .. Len(parsers')
      /\ Len(parsers') \in Nat /\ level + 1 <= Len(parsers')
      /\ \A i \in 1 .. Len(parsers') : parsers'[i] \in Parser
      /\ parsers'[level] = q
      /\ \A i \in 1 .. level - 1 : parsers'[i] = parsers[i]
      /\ HandsToOld \/ HandsToNew(q, m)
  BY <1>1, <1>2, Handed
<1>5. /\ level' = level + 1 /\ line' = m /\ phase' = "down" /\ doc' = doc
      /\ html' = html /\ health' = health
  BY DEF HandOn
<1>6. /\ \A n \in Nat : n < level => /\ Needed(parsers', n) = Needed(parsers, n)
                                     /\ Lacked(parsers', n) = Lacked(parsers, n)
                                     /\ Held(parsers', n) = Held(parsers, n)
      /\ Needed(parsers', level) = Needed(parsers, level - 1) \o Need(q)
      /\ Lacked(parsers', level) = Lacked(parsers, level - 1) \o Lacks(q)
      /\ Held(parsers', level) = Held(parsers, level)
      /\ HandsToOld => \A n \in Nat : n <= Len(parsers) =>
           Needed(parsers', n) = Needed(parsers, n) /\ Held(parsers', n) = Held(parsers, n)
  BY HandNeeds
<1>7. ASSUME NEW i \in 1 .. level - 1
      PROVE  Opens(parsers'[i].result, Needed(parsers', i - 1), Needed(parsers', i))
  <2>1. i \in Nat /\ i < level /\ i - 1 \in Nat /\ i - 1 < level /\ i \in DOMAIN parsers
    BY <1>3
  <2>2. Opens(parsers[i].result, Needed(parsers, i - 1), Needed(parsers, i))
    BY <1>1, <2>1 DEF HtmlOK
  <2> QED BY <1>4, <1>6, <2>1, <2>2
<1>8. Opens(parsers'[level].result, Needed(parsers', level - 1), Needed(parsers', level))
  <2>1. level - 1 < level
    BY <1>3
  <2> QED BY <1>3, <1>4, <1>6, <2>1 DEF Hands
<1>9. ASSUME NEW i \in level + 1 .. Len(parsers')
      PROVE  Opens(parsers'[i].result, Needed(parsers', i - 1), Needed(parsers', i))
  <2>1. CASE HandsToOld
    <3>1. /\ Len(parsers') = Len(parsers)
          /\ \A j \in level + 1 .. Len(parsers) : parsers'[j] = parsers[j]
      BY <2>1 DEF HandsToOld
    <3>2. /\ i \in Nat /\ i - 1 \in Nat /\ i <= Len(parsers) /\ i - 1 <= Len(parsers)
          /\ i \in DOMAIN parsers /\ i # level
      BY <1>3, <3>1
    <3>3. Opens(parsers[i].result, Needed(parsers, i - 1), Needed(parsers, i))
      BY <1>1, <3>2 DEF HtmlOK
    <3> QED BY <1>6, <2>1, <3>1, <3>2, <3>3
  <2>2. CASE HandsToNew(q, m)
    <3>1. PICK k \in Kinds : parsers'[level + 1] = New(k)
      BY <2>2 DEF HandsToNew
    <3>2. i = level + 1 /\ i \in Nat /\ i > 0 /\ i - 1 = level
      <4>1. Len(parsers') = level + 1
        BY <2>2 DEF HandsToNew
      <4> QED BY <1>3, <4>1
    <3>3. parsers'[i].result = <<>> /\ Need(parsers'[i]) = <<>>
      BY <3>1, <3>2, NewProps
    <3>4. Needed(parsers', i) = Needed(parsers', i - 1) \o <<>>
      BY <3>2, <3>3, NeededProps
    <3>5. Needed(parsers', i - 1) \in Seq(Token)
      BY <1>3, <3>2, NeededProps
    <3> QED BY <3>3, <3>4, <3>5, OpensNone, ConcatEmptySeq
  <2> QED BY <1>4, <2>1, <2>2
<1>10. HtmlOK'
  <2>1. Opens(html', <<>>, <<>>)
    BY <1>1, <1>5 DEF HtmlOK
  <2>2. ASSUME NEW i \in DOMAIN parsers'
        PROVE  Opens(parsers'[i].result, Needed(parsers', i - 1), Needed(parsers', i))
    <3>1. i \in 1 .. level - 1 \/ i = level \/ i \in level + 1 .. Len(parsers')
      BY <1>3, <1>4
    <3> QED BY <1>7, <1>8, <1>9, <3>1
  <2>3. Opens(line', Needed(parsers', level' - 1), Lacked(parsers', level' - 1))
    <3>1. level' - 1 = level
      BY <1>3, <1>5
    <3> QED BY <1>5, <1>6, <3>1 DEF Hands
  <2> QED BY <1>5, <2>1, <2>2, <2>3 DEF HtmlOK
<1>11. Held(parsers', Len(parsers')) = Held(parsers, Len(parsers))
  <2>1. CASE HandsToOld
    <3>1. Len(parsers') = Len(parsers) /\ Len(parsers) \in Nat /\ Len(parsers) <= Len(parsers)
      BY <1>3, <2>1 DEF HandsToOld
    <3> QED BY <1>6, <2>1, <3>1
  <2>2. CASE HandsToNew(q, m)
    <3>1. PICK k \in Kinds : parsers'[level + 1] = New(k)
      BY <2>2 DEF HandsToNew
    <3>2. Len(parsers) = level /\ Len(parsers') = level + 1
      BY <2>2 DEF HandsToNew
    <3>3. level + 1 \in Nat /\ level + 1 > 0 /\ (level + 1) - 1 = level /\ level \in Nat
      BY <1>3
    <3>4. Words(Pending(parsers'[level + 1])) = <<>>
      BY <3>1, NewProps
    <3>5. Held(parsers', level + 1) = Held(parsers', level) \o <<>>
      BY <1>4, <3>2, <3>3, <3>4, HeldProps
    <3>6. Held(parsers, level) \in Seq(Token)
      BY <1>3, <3>2, <3>3, HeldProps
    <3> QED BY <1>6, <3>2, <3>5, <3>6, ConcatEmptySeq
  <2> QED BY <1>4, <2>1, <2>2
<1>12. WordsOK'
  <2>1. Written' = Written
    BY <1>5 DEF Written
  <2>2. Words(m) = Words(line)
    BY DEF Hands
  <2> QED BY <1>1, <1>5, <1>11, <2>1, <2>2 DEF WordsOK
<1> QED BY <1>10, <1>12

LEMMA QuotesPositive ==
  ASSUME NEW l \in Seq(Plain), HeadIn(l, {">"})
  PROVE  Quotes(l) \in Nat /\ Quotes(l) >= 1
<1>1. l # <<>> /\ Head(l) = ">" /\ Tail(l) \in Seq(Plain)
  BY HeadAndTail DEF HeadIn
<1>2. Quotes(l) \in Nat /\ Quotes(Tail(l)) \in Nat /\ Quotes(Tail(l)) + 1 <= Quotes(l)
  BY <1>1, QuotesType, QuotesTail
<1> QED BY <1>2

LEMMA HandInv ==
  ASSUME IInv, phase = "down", NEW q, NEW m, HandOn(q, m), HasChildFor(m), Hands(q, m)
  PROVE  IInv'
<1>1. TypesOK /\ ShapeOK /\ EndOK /\ TableOK /\ QuotesOK /\ EmptyOK /\ FlagsOK
  BY DEF IInv
<1>2. TypesOK' /\ ShapeOK' /\ TablesOK' /\ FlagsOK' /\ HtmlOK' /\ WordsOK'
  BY HandShape, HandHtml
<1>3. level > 0
  BY <1>1 DEF TypesOK
<1>4. /\ Len(parsers) \in Nat \ {0} /\ level \in 1 .. Len(parsers) /\ level \in Nat \ {0}
      /\ DOMAIN parsers = 1 .. Len(parsers) /\ parsers # <<>>
      /\ Current = parsers[level]
  BY <1>1, <1>3, ParserProps
<1>5. /\ DOMAIN parsers' = 1 .. Len(parsers')
      /\ Len(parsers') \in Nat /\ level + 1 <= Len(parsers')
      /\ parsers'[level] = q
      /\ \A i \in 1 .. level - 1 : parsers'[i] = parsers[i]
      /\ HandsToOld \/ HandsToNew(q, m)
  BY <1>1, <1>3, Handed
<1>6. \A i \in 1 .. level : parsers'[i].kind = parsers[i].kind
  BY <1>1, <1>3, HandedKinds
<1>7. /\ level' = level + 1 /\ line' = m /\ phase' = "down" /\ doc' = doc
      /\ ended' = ended /\ html' = html /\ health' = health
  BY DEF HandOn
<1>8. HandsToOld => \A i \in 1 .. Len(parsers) : parsers'[i].kind = parsers[i].kind
  <2>1. \A i \in 1 .. Len(parsers) : i \in 1 .. level \/ i \in level + 1 .. Len(parsers)
    BY <1>4
  <2> QED BY <1>6, <2>1 DEF HandsToOld
<1>9. LineOK'
  <2>1. level' # 1
    BY <1>4, <1>7
  <2> QED BY <2>1 DEF LineOK
<1>10. EndOK'
  <2> SUFFICES ASSUME ended
               PROVE  parsers'[1].isFinished \/ parsers'[1].kind \in {"quote", "code", "table"}
    BY <1>7 DEF EndOK
  <2>1. CASE level = 1
    BY <1>5, <2>1 DEF Hands
  <2>2. CASE level # 1
    <3>1. 1 \in 1 .. level - 1
      BY <1>4, <2>2
    <3>2. parsers'[1] = parsers[1]
      BY <1>5, <3>1
    <3> QED BY <1>1, <1>4, <2>2, <3>2 DEF EndOK
  <2> QED BY <2>1, <2>2
<1>11. TableOK'
  <2>1. SoFar' = SoFar /\ \A j : Breaks(j)' = Breaks(j)
    BY <1>7 DEF SoFar, Breaks
  <2>2. health' = "undefined" => \E j \in DOMAIN doc' : Breaks(j)'
    BY <1>1, <1>7, <2>1 DEF TableOK
  <2>3. CASE level = 1
    <3>1. parsers'[1].kind # "table"
      BY <1>5, <2>3 DEF Hands, Lists
    <3> QED BY <2>2, <3>1 DEF TableOK
  <2>4. CASE level # 1
    <3>1. 1 \in 1 .. level - 1
      BY <1>4, <2>4
    <3>2. parsers'[1] = parsers[1]
      BY <1>5, <3>1
    <3> QED BY <1>1, <1>4, <1>7, <2>1, <2>2, <3>2 DEF TableOK
  <2> QED BY <2>3, <2>4
<1>12. ASSUME HeadIn(m, {">"}), \A i \in 1 .. level : parsers'[i].kind = "quote", m \in Seq(Plain)
       PROVE  doc # <<>> /\ Quotes(m) + level <= Quotes(doc[Len(doc)])
  <2>1. level \in 1 .. level /\ \A i \in 1 .. level - 1 : i \in 1 .. level
    BY <1>4
  <2>2. q.kind = "quote" /\ \A i \in 1 .. level - 1 : parsers[i].kind = "quote"
    BY <1>5, <1>6, <1>12, <2>1
  <2>3. HeadIn(line, {">"}) /\ Quotes(m) + 1 <= Quotes(line)
    BY <1>12, <2>2 DEF Hands
  <2>4. doc # <<>> /\ Quotes(line) + level - 1 <= Quotes(doc[Len(doc)])
    BY <1>1, <2>2, <2>3 DEF QuotesOK
  <2>5. Quotes(m) \in Nat /\ Quotes(line) \in Nat /\ Quotes(doc[Len(doc)]) \in Nat
    <3>1. line \in Seq(Token) /\ doc \in Seq(Lines)
      BY <1>1 DEF TypesOK
    <3>2. doc[Len(doc)] \in Seq(Marks \cup {"words"})
      <4>1. doc[Len(doc)] \in Lines
        BY <2>4, <3>1, EmptySeq, ElementOfSeq, LenProperties
      <4> QED BY <4>1, LineAssumption
    <3> QED BY <1>12, <3>1, <3>2, QuotesType
  <2> QED BY <1>4, <2>3, <2>4, <2>5
<1>13. QuotesOK'
  <2>1. ASSUME NEW i \in DOMAIN parsers', parsers'[i].kind = "quote"
        PROVE  \E k \in DOMAIN doc : i <= Quotes(doc[k])
    <3>1. CASE i \in 1 .. level
      <4>1. i \in DOMAIN parsers /\ parsers[i].kind = "quote"
        BY <1>4, <1>6, <2>1, <3>1
      <4> QED BY <1>1, <4>1 DEF QuotesOK
    <3>2. CASE i \notin 1 .. level /\ HandsToOld
      <4>1. i \in DOMAIN parsers /\ parsers[i].kind = "quote"
        BY <1>4, <1>5, <1>8, <2>1, <3>2 DEF HandsToOld
      <4> QED BY <1>1, <4>1 DEF QuotesOK
    <3>3. CASE i \notin 1 .. level /\ HandsToNew(q, m)
      <4>1. Len(parsers') = level + 1 /\ m \in Seq(Plain) /\ Len(parsers) = level
        BY <3>3 DEF HandsToNew
      <4>2. i = level + 1
        BY <1>4, <1>5, <3>3, <4>1
      <4>3. PICK k \in Kinds : /\ parsers'[level + 1] = New(k) /\ IsStartingLine(k, m)
                               /\ Nests(q.kind, k)
        BY <3>3 DEF HandsToNew
      <4>4. k = "quote"
        BY <2>1, <4>2, <4>3, NewProps
      <4>5. q.kind = "quote" /\ HeadIn(m, {">"})
        BY <4>3, <4>4 DEF Nests, IsStartingLine
      <4>6. \A j \in 1 .. level : parsers'[j].kind = "quote"
        <5> SUFFICES ASSUME NEW j \in 1 .. level PROVE parsers'[j].kind = "quote"
          OBVIOUS
        <5>1. CASE j = level
          BY <1>5, <4>5, <5>1
        <5>2. CASE j # level
          <6>1. j < level /\ j \in DOMAIN parsers /\ level \in DOMAIN parsers
            BY <1>4, <5>2
          <6>2. parsers[level].kind = "quote"
            BY <1>4, <4>5 DEF Hands
          <6>3. parsers[j].kind = "quote"
            BY <1>1, <6>1, <6>2 DEF ShapeOK
          <6> QED BY <1>6, <6>3
        <5> QED BY <5>1, <5>2
      <4>7. doc # <<>> /\ Quotes(m) + level <= Quotes(doc[Len(doc)])
        BY <1>12, <4>1, <4>5, <4>6
      <4>8. Quotes(m) \in Nat /\ Quotes(m) >= 1
        BY <4>1, <4>5, QuotesPositive
      <4>9. doc \in Seq(Lines) /\ Len(doc) \in DOMAIN doc /\ Quotes(doc[Len(doc)]) \in Nat
        <5>1. doc \in Seq(Lines)
          BY <1>1 DEF TypesOK
        <5>2. Len(doc) \in DOMAIN doc /\ doc[Len(doc)] \in Lines
          BY <4>7, <5>1, EmptySeq, ElementOfSeq, LenProperties
        <5>3. doc[Len(doc)] \in Seq(Marks \cup {"words"})
          BY <5>2, LineAssumption
        <5> QED BY <5>1, <5>2, <5>3, QuotesType
      <4>10. i <= Quotes(doc[Len(doc)])
        BY <1>4, <4>2, <4>7, <4>8, <4>9
      <4> QED BY <4>9, <4>10
    <3> QED BY <1>5, <3>1, <3>2, <3>3
  <2>2. ASSUME HeadIn(line', {">"}), \A i \in 1 .. level' - 1 : parsers'[i].kind = "quote"
        PROVE  doc # <<>> /\ Quotes(m) + (level + 1) - 1 <= Quotes(doc[Len(doc)])
    <3>1. level' - 1 = level /\ level \in 1 .. level
      BY <1>4, <1>7
    <3>2. q.kind = "quote"
      BY <1>5, <2>2, <3>1
    <3>3. m \in Seq(Plain)
      BY <3>2 DEF Hands, Lists
    <3>4. doc # <<>> /\ Quotes(m) + level <= Quotes(doc[Len(doc)])
      BY <1>7, <1>12, <2>2, <3>1, <3>3
    <3>5. Quotes(m) \in Nat
      BY <3>3, QuotesType
    <3>6. Quotes(m) + (level + 1) - 1 = Quotes(m) + level
      BY <1>4, <3>5
    <3> QED BY <3>4, <3>6
  <2> QED BY <1>7, <2>1, <2>2 DEF QuotesOK
<1>14. EmptyOK'
  <2> SUFFICES ASSUME Ending'
               PROVE  /\ \A i \in 1 .. level' - 1 :
                           parsers'[i].kind = "quote" \/ parsers'[i].isFinished
                      /\ Shrinking' /\ (line' = <<>> \/ IsEnder(line)')
    BY <1>7 DEF EmptyOK
  <2>1. Ending
    <3>1. 1 \in 1 .. level
      BY <1>4
    <3> QED BY <1>4, <1>6, <1>7, <3>1 DEF Ending
  <2>2. HandsToOld
    BY <1>5, <2>1 DEF HandsToNew
  <2>3. /\ \A i \in 1 .. level - 1 : parsers[i].kind = "quote" \/ parsers[i].isFinished
        /\ Shrinking
    BY <1>1, <2>1 DEF EmptyOK
  <2>4. \/ q.kind = "quote" /\ m = <<>>
        \/ q.kind \in Lists /\ q.isFinished /\ HeadIn(m, {Ender(q.kind)})
    BY <2>1 DEF Hands
  <2>5. ASSUME NEW i \in 1 .. level' - 1
        PROVE  parsers'[i].kind = "quote" \/ parsers'[i].isFinished
    <3>1. i = level \/ i \in 1 .. level - 1
      BY <1>4, <1>7
    <3>2. CASE i = level
      BY <1>5, <2>4, <3>2
    <3>3. CASE i \in 1 .. level - 1
      BY <1>5, <2>3, <3>3
    <3> QED BY <3>1, <3>2, <3>3
  <2>6. Shrinking'
    <3>1. DOMAIN parsers' = DOMAIN parsers
      BY <1>4, <1>5, <2>2 DEF HandsToOld
    <3>2. \A n : OnlyQuotes(n) => OnlyQuotes(n)'
      BY <1>4, <1>7, <1>8, <2>2, <3>1 DEF OnlyQuotes
    <3>3. \A n : AreEmpty(n)' = AreEmpty(n)
      BY <1>7 DEF AreEmpty
    <3> QED BY <1>7, <2>3, <3>2, <3>3 DEF Shrinking
  <2>7. line' = <<>> \/ IsEnder(line)'
    <3>1. level' > 1 /\ parsers'[level' - 1] = q
      <4>1. level' > 1 /\ level' - 1 = level
        BY <1>4, <1>7
      <4> QED BY <1>5, <4>1
    <3> QED BY <1>7, <2>4, <3>1 DEF IsEnder
  <2> QED BY <2>5, <2>6, <2>7
<1> QED BY <1>2, <1>9, <1>10, <1>11, <1>13, <1>14 DEF IInv

-----------------------------------------------------------------------------
(* The actions that take a line.                                           *)

LEMMA WriteProps ==
  ASSUME NEW q \in Parser, NEW l \in Seq(Token)
  PROVE  /\ Write(q, l) \in Parser /\ Write(q, l).kind = q.kind
         /\ Write(q, l).isStarted = q.isStarted /\ Write(q, l).isFinished = q.isFinished
         /\ Write(q, l).table = q.table /\ Write(q, l).result = q.result \o l
         /\ IsOpen(Write(q, l)) = IsOpen(q) /\ Lacks(Write(q, l)) = Lacks(q)
         /\ Need(Write(q, l)) = Need(q)
<1>1. q.result \o l \in Seq(Token)
  BY ConcatProperties DEF Parser
<1>2. /\ Write(q, l) \in Parser /\ Write(q, l).kind = q.kind
      /\ Write(q, l).isStarted = q.isStarted /\ Write(q, l).isFinished = q.isFinished
      /\ Write(q, l).table = q.table /\ Write(q, l).result = q.result \o l
  BY <1>1 DEF Write, Parser
<1> QED BY <1>2 DEF IsOpen, Lacks, Need

LEMMA EnderIsNotPlain ==
  ASSUME NEW l, NEW kind, HeadIn(l, {Ender(kind)})
  PROVE  l \notin Seq(Plain) /\ l # <<>>
<1> SUFFICES ASSUME l \in Seq(Plain) PROVE FALSE
  BY DEF HeadIn
<1>1. l # <<>> /\ Head(l) \in Tags /\ Head(l) \in Plain
  BY EnderIsTag, HeadAndTail DEF HeadIn
<1> QED BY <1>1, TagKinds

LEMMA LineProps ==
  ASSUME IInv, phase = "down"
  PROVE  /\ level > 0 /\ line \in Seq(Token)
         /\ Needed(parsers, level - 1) \in Seq(Token)
         /\ Lacked(parsers, level - 1) \in Seq(Token)
         /\ Opens(line, Needed(parsers, level - 1), Lacked(parsers, level - 1))
         /\ Opens(Current.result, Needed(parsers, level - 1),
                  Needed(parsers, level - 1) \o Need(Current))
         /\ line \in Seq(Plain) \/ IsEnder(line)
         /\ line \in Seq(Plain) =>
              /\ \A i \in 1 .. level - 1 : ~parsers[i].isFinished
              /\ Lacked(parsers, level - 1) = Needed(parsers, level - 1)
         /\ IsOpen(Current) \/ (level = Len(parsers) /\ Fresh(Current, line))
         /\ Ending => line \notin Seq(Plain) \/ line = <<>>
         /\ Current.kind # "table" => Current.table = <<>>
<1>1. TypesOK /\ FlagsOK /\ HtmlOK /\ EmptyOK /\ TablesOK
  BY DEF IInv
<1>2. level > 0 /\ line \in Seq(Token)
  BY <1>1 DEF TypesOK
<1>3. /\ level \in 1 .. Len(parsers) /\ level \in Nat \ {0}
      /\ DOMAIN parsers = 1 .. Len(parsers) /\ Current = parsers[level] /\ level - 1 \in Nat
  BY <1>1, <1>2, ParserProps
<1>4. IsEnder(line) => line \notin Seq(Plain)
  BY EnderIsNotPlain DEF IsEnder
<1>5. line \in Seq(Plain) => /\ \A i \in 1 .. level - 1 : ~parsers[i].isFinished
                             /\ Lacked(parsers, level - 1) = Needed(parsers, level - 1)
  <2> SUFFICES ASSUME line \in Seq(Plain)
               PROVE  /\ \A i \in 1 .. level - 1 : ~parsers[i].isFinished
                      /\ Lacked(parsers, level - 1) = Needed(parsers, level - 1)
    OBVIOUS
  <2>1. \A i \in 1 .. level - 1 : ~parsers[i].isFinished
    BY <1>1, <1>4 DEF FlagsOK
  <2> QED BY <1>3, <2>1, LackedIsNeeded
<1>6. Needed(parsers, level - 1) \in Seq(Token) /\ Lacked(parsers, level - 1) \in Seq(Token)
  BY <1>3, NeededProps
<1>7. Needed(parsers, level) = Needed(parsers, level - 1) \o Need(Current)
  <2>1. level \in Nat /\ level > 0
    BY <1>3
  <2> QED BY <1>3, <2>1, NeededProps
<1>8. /\ Opens(line, Needed(parsers, level - 1), Lacked(parsers, level - 1))
      /\ Opens(Current.result, Needed(parsers, level - 1), Needed(parsers, level))
  BY <1>1, <1>3 DEF HtmlOK
<1>9. line \in Seq(Plain) \/ IsEnder(line)
  <2>1. \/ line \in Seq(Plain) /\ \A i \in 1 .. level - 1 : ~parsers[i].isFinished
        \/ IsEnder(line)
    BY <1>1 DEF FlagsOK
  <2> QED BY <2>1
<1>10. IsOpen(Current) \/ (level = Len(parsers) /\ Fresh(Current, line))
  BY <1>1, <1>3 DEF FlagsOK
<1>11. Ending => line \notin Seq(Plain) \/ line = <<>>
  BY <1>1, <1>4 DEF EmptyOK
<1>12. Current.kind # "table" => Current.table = <<>>
  BY <1>1, <1>3 DEF TablesOK
<1> QED BY <1>2, <1>5, <1>6, <1>7, <1>8, <1>9, <1>10, <1>11, <1>12

(* A parser that is not a table does nothing to one.                       *)
LEMMA KeepTable ==
  ASSUME IInv, phase = "down", level = Len(parsers), NEW q, Keep(q), Keeps(q),
         health' = "sound", q.kind # "table"
  PROVE  TableOK'
<1>1. TypesOK /\ ShapeOK
  BY DEF IInv
<1>2. level > 0
  BY <1>1 DEF TypesOK
<1>3. /\ level \in 1 .. Len(parsers) /\ level \in Nat \ {0} /\ parsers \in Seq(Parser)
  BY <1>1, <1>2, ParserProps
<1>4. parsers'[1].kind # "table"
  <2>1. parsers' = [parsers EXCEPT ![level] = q] /\ q \in Parser
    BY DEF Keep, Keeps
  <2>2. /\ parsers'[level] = q
        /\ \A j \in 1 .. Len(parsers) : j # level => parsers'[j] = parsers[j]
    BY <1>3, <2>1, Replaced
  <2>3. CASE level = 1
    BY <2>2, <2>3
  <2>4. CASE level # 1
    <3>1. 1 \in 1 .. Len(parsers) /\ 1 < Len(parsers)
      BY <1>3, <2>4
    <3>2. parsers[1].kind \in Lists \cup {"quote"}
      BY <1>1, <3>1, Parents
    <3> QED BY <2>2, <2>4, <3>1, <3>2 DEF Lists
  <2> QED BY <2>3, <2>4
<1> QED BY <1>4 DEF TableOK

LEMMA AddLineInv ==
  ASSUME IInv, health = "sound", AddLine
  PROVE  IInv'
<1> DEFINE p == Current
           q == parseBlock(p, line).parser
           m == parseBlock(p, line).line
           x == Needed(parsers, level - 1)
           y == Lacked(parsers, level - 1)
<1>1. phase = "down" /\ p.kind \notin {"quote", "table"}
  BY DEF AddLine
<1>2. IF HasChildFor(m) THEN HandOn(q, m) ELSE Keep(Write(q, m)) /\ UNCHANGED health
  BY DEF AddLine
<1>3. TypesOK /\ ShapeOK /\ LineOK /\ FlagsOK
  BY DEF IInv
<1>4. /\ level > 0 /\ line \in Seq(Token) /\ x \in Seq(Token) /\ y \in Seq(Token)
      /\ Opens(line, x, y) /\ Opens(p.result, x, x \o Need(p))
      /\ line \in Seq(Plain) \/ IsEnder(line)
      /\ line \in Seq(Plain) => (\A i \in 1 .. level - 1 : ~parsers[i].isFinished) /\ y = x
      /\ IsOpen(p) \/ (level = Len(parsers) /\ Fresh(p, line))
      /\ Ending => line \notin Seq(Plain) \/ line = <<>>
      /\ p.table = <<>>
  BY <1>1, LineProps
<1>5. /\ p \in Parser /\ p = parsers[level] /\ level \in 1 .. Len(parsers)
      /\ level \in Nat \ {0} /\ Len(parsers) \in Nat \ {0} /\ parsers # <<>>
  BY <1>3, <1>4, ParserProps
<1>6. Parses(p, line)
  <2> HIDE DEF p
  <2>1. CASE line \in Seq(Plain)
    BY <1>1, <1>4, <1>5, <2>1 DEF Parses
  <2>2. CASE line \notin Seq(Plain)
    <3>1. IsEnder(line) /\ IsOpen(p)
      BY <1>4, <2>2 DEF Fresh
    <3>2. level - 1 \in 1 .. Len(parsers) /\ level - 1 < Len(parsers) /\ (level - 1) + 1 = level
          /\ level - 1 \in DOMAIN parsers /\ level \in DOMAIN parsers
      BY <1>3, <1>5, <3>1, ParserProps, <1>4 DEF IsEnder
    <3>3. Nests(parsers[level - 1].kind, p.kind)
      BY <1>3, <1>5, <3>2 DEF ShapeOK
    <3>4. parsers[level - 1].kind \in Lists /\ HeadIn(line, {Ender(parsers[level - 1].kind)})
      BY <3>1 DEF IsEnder
    <3>5. p.kind \in Lists /\ Ender(p.kind) = Ender(parsers[level - 1].kind)
      BY <3>3, <3>4 DEF Nests, Lists, Ender
    <3> QED BY <1>1, <1>4, <1>5, <3>1, <3>4, <3>5 DEF Parses
  <2> QED BY <2>1, <2>2
<1>7. ParsedOK(p, line, q, m)
  BY <1>6, BlockParses
<1>8. Opens(m, x \o Need(p), y \o Lacks(q))
  BY <1>4, <1>7 DEF ParsedOK, Passes
<1> HIDE DEF q, m, p
<1>9. /\ q \in Parser /\ q.kind = p.kind /\ q.result = p.result /\ q.table = p.table
      /\ m \in Seq(Token) /\ Words(m) = Words(line)
      /\ q.isFinished \/ IsOpen(q)
      /\ ~IsOpen(p) \/ p.kind \notin Lists => ParserFor(Children(p.kind), m) = <<>>
      /\ p.kind \in Lists => q.isStarted
      /\ p.kind \in Lists /\ IsOpen(p) =>
           (m \in Seq(Plain) /\ ~q.isFinished) \/ HeadIn(m, {Ender(p.kind)})
      /\ ~q.isFinished => line \in Seq(Plain) /\ (line # <<>> \/ p.kind = "code")
  BY <1>7 DEF ParsedOK
<1>10. ended /\ level = 1 => line = <<>>
  BY <1>1, <1>3 DEF LineOK
<1>11. p.result \in Seq(Token) /\ Pending(p) = p.result
  <2>1. p.result \in Seq(Token)
    BY <1>5 DEF Parser
  <2> QED BY <1>4, <2>1, PendingNoTable
<1>12. CASE HasChildFor(m)
  <2>1. p.kind \in Lists /\ IsOpen(p)
    <3>1. CASE level < Len(parsers)
      <4>1. p.kind \in Lists \cup {"quote"}
        BY <1>3, <1>5, <3>1, Parents
      <4>2. level # Len(parsers)
        <5>1. level \in Nat /\ Len(parsers) \in Nat
          BY <1>5
        <5> QED BY <3>1, <5>1
      <4> QED BY <1>1, <1>4, <4>1, <4>2
    <3>2. CASE ~(level < Len(parsers))
      <4>1. ParserFor(Children(p.kind), m) # <<>>
        BY <1>12, <3>2 DEF HasChildFor, p
      <4> QED BY <1>9, <4>1
    <3> QED BY <3>1, <3>2
  <2>2. Pending(q) = Pending(p)
    BY <1>4, <1>9, <1>11, PendingNoTable
  <2>3. Need(q) = Need(p) /\ "quote" \notin Lists /\ "code" \notin Lists
    BY <1>9, <2>1 DEF Need, IsOpen, Lists
  <2>4. ~q.isFinished => \A i \in 1 .. level - 1 : ~parsers[i].isFinished
    BY <1>4, <1>9
  <2>5. q.isFinished => q.kind \in Lists /\ HeadIn(m, {Ender(q.kind)})
    BY <1>9, <2>1
  <2>6. \/ m \in Seq(Plain) /\ ~q.isFinished
        \/ q.kind \in Lists /\ HeadIn(m, {Ender(q.kind)})
    BY <1>9, <2>1
  <2>7. ended /\ level = 1 => q.isFinished
    BY <1>9, <1>10, <2>1, <2>3
  <2>8. Ending => q.isFinished
    BY <1>4, <1>9, <2>1, <2>3
  <2>9. Opens(q.result, x, x \o Need(q)) /\ Opens(m, x \o Need(q), y \o Lacks(q))
    BY <1>4, <1>8, <1>9, <2>3
  <2>10. q.kind = Current.kind /\ q.kind \in Lists \cup {"quote"} /\ q.kind # "quote"
         /\ q.isStarted /\ q.table = <<>> /\ Need(q) = Need(Current)
         /\ Words(Pending(q)) = Words(Pending(Current))
    BY <1>4, <1>9, <2>1, <2>2, <2>3 DEF p
  <2>11. Hands(q, m)
    BY <1>9, <2>4, <2>5, <2>6, <2>7, <2>8, <2>9, <2>10 DEF Hands
  <2>12. HandOn(q, m)
    BY <1>2, <1>12
  <2> QED BY <1>1, <1>12, <2>11, <2>12, HandInv
<1>13. CASE ~HasChildFor(m)
  <2> DEFINE w == Write(q, m)
  <2>1. Keep(w) /\ health' = health
    BY <1>2, <1>13
  <2>2. level = Len(parsers)
    <3>1. ~(level < Len(parsers))
      BY <1>13 DEF HasChildFor
    <3>2. level <= Len(parsers) /\ level \in Nat /\ Len(parsers) \in Nat
      BY <1>5
    <3> QED BY <3>1, <3>2
  <2>3. /\ w \in Parser /\ w.kind = q.kind /\ w.isStarted = q.isStarted
        /\ w.isFinished = q.isFinished /\ w.table = q.table /\ w.result = q.result \o m
        /\ IsOpen(w) = IsOpen(q) /\ Lacks(w) = Lacks(q)
    BY <1>9, WriteProps
  <2> HIDE DEF w
  <2>4. Opens(w.result, x, y \o Lacks(w))
    <3>1. Opens(p.result \o m, x, y \o Lacks(q))
      BY <1>4, <1>8, <1>9, <1>11, OpensBoth
    <3> QED BY <1>9, <2>3, <3>1
  <2>5. Words(Pending(w)) = Words(Pending(p)) \o Words(line)
    <3>1. w.result = p.result \o m /\ w.result \in Seq(Token) /\ w.table = <<>>
      BY <1>4, <1>9, <2>3 DEF Parser
    <3>2. Pending(w) = p.result \o m
      BY <3>1, PendingNoTable
    <3> QED BY <1>9, <1>11, <3>2, WordsBoth
  <2>6. ended /\ level = 1 => w.isFinished \/ w.kind \in {"quote", "code", "table"}
    BY <1>9, <1>10, <2>3
  <2>7. Ending => w.isFinished
    <3> SUFFICES ASSUME Ending, ~q.isFinished PROVE FALSE
      BY <2>3
    <3>1. p.kind = "code"
      BY <1>4, <1>9
    <3>2. level # 1
      BY <1>5, <3>1 DEF Ending
    <3>3. level - 1 \in 1 .. Len(parsers) /\ level - 1 < Len(parsers) /\ (level - 1) + 1 = level
      BY <1>5, <3>2
    <3>4. parsers[(level - 1) + 1].kind \notin {"code", "hr", "table"}
      BY <1>3, <3>3, Parents
    <3> QED BY <1>5, <3>1, <3>3, <3>4
  <2>8. w.kind = Current.kind /\ w.kind # "table" /\ w.table = <<>>
    BY <1>1, <1>4, <1>9, <2>3 DEF p
  <2>9. ~w.isFinished => \A i \in 1 .. level - 1 : ~parsers[i].isFinished
    BY <1>4, <1>9, <2>3
  <2>10. w.isFinished \/ IsOpen(w)
    BY <1>9, <2>3
  <2>11. Keeps(w)
    BY <2>3, <2>4, <2>5, <2>6, <2>7, <2>8, <2>9, <2>10 DEF Keeps, p
  <2>12. TableOK'
    BY <1>1, <2>1, <2>2, <2>8, <2>11, KeepTable
  <2> QED BY <1>1, <2>1, <2>2, <2>11, <2>12, KeepInv
<1> QED BY <1>12, <1>13

LEMMA QuoteOpens ==
  ASSUME NEW x \in Seq(Token)
  PROVE  /\ Opens(<<"<blockquote>">>, x, x \o Awaited("quote"))
         /\ Opens(<<"</blockquote>">>, x \o Awaited("quote"), x)
         /\ <<"<blockquote>">> \in Seq(Token) /\ Words(<<"<blockquote>">>) = <<>>
         /\ <<"</blockquote>">> \in Seq(Token) /\ Words(<<"</blockquote>">>) = <<>>
<1>1. <<"<blockquote>", "</blockquote>">> \in Elements
  BY DEF Elements
<1>2. /\ Opens(<<"<blockquote>">>, x, Append(x, "</blockquote>"))
      /\ Opens(<<"</blockquote>">>, Append(x, "</blockquote>"), x)
      /\ "</blockquote>" \in Token
  BY <1>1, PairOpens
<1>3. Append(x, "</blockquote>") = x \o <<"</blockquote>">>
  BY <1>2, AppendIsConcat
<1>4. Awaited("quote") = <<"</blockquote>">>
  BY DEF Awaited
<1>5. "<blockquote>" \in Tags /\ "</blockquote>" \in Tags
  <2> DEFINE tags == <<"<blockquote>", "</blockquote>">>
  <2>1. tags[1] \in Tags /\ tags[2] \in Tags
    BY <1>1, ElementTags DEF Tags
  <2> QED BY <2>1
<1> QED BY <1>2, <1>3, <1>4, <1>5, TagWords

(* A quote's start tag is in its result as soon as it has a line.          *)
LEMMA QuoteBegins ==
  ASSUME IInv, phase = "down", Current.kind = "quote", NEW q,
         q = IF Current.isStarted THEN Current
             ELSE Started(Write(Current, <<"<blockquote>">>))
  PROVE  /\ q \in Parser /\ q.kind = "quote" /\ q.isStarted /\ ~q.isFinished
         /\ q.table = <<>> /\ Pending(q) = q.result
         /\ Opens(q.result, Needed(parsers, level - 1),
                  Needed(parsers, level - 1) \o Awaited("quote"))
         /\ Words(q.result) = Words(Pending(Current))
<1> DEFINE p == Current
           x == Needed(parsers, level - 1)
           start == <<"<blockquote>">>
<1>1. /\ level > 0 /\ x \in Seq(Token) /\ Opens(p.result, x, x \o Need(p))
      /\ IsOpen(p) \/ (level = Len(parsers) /\ Fresh(p, line))
      /\ p.table = <<>>
  BY LineProps
<1>2. p \in Parser /\ p.result \in Seq(Token)
  <2>1. p \in Parser
    BY <1>1, ParserProps DEF IInv
  <2> QED BY <2>1 DEF Parser
<1>3. Pending(p) = p.result
  BY <1>1, <1>2, PendingNoTable
<1>4. ~p.isFinished
  BY <1>1, FreshProps DEF IsOpen
<1>5. CASE p.isStarted
  <2>1. Need(p) = Awaited("quote")
    BY <1>5 DEF Need
  <2> QED BY <1>1, <1>2, <1>3, <1>4, <1>5, <2>1
<1>6. CASE ~p.isStarted
  <2> DEFINE w == Write(p, start)
  <2>1. /\ start \in Seq(Token) /\ Words(start) = <<>>
        /\ Opens(start, x, x \o Awaited("quote"))
    BY <1>1, QuoteOpens
  <2>2. w \in Parser /\ w.kind = "quote" /\ ~w.isFinished /\ w.table = <<>>
        /\ w.result = p.result \o start
    BY <1>1, <1>2, <1>4, <2>1, WriteProps
  <2> HIDE DEF w
  <2>3. q = Started(w)
    BY <1>6 DEF w
  <2>4. /\ q \in Parser /\ q.kind = "quote" /\ q.isStarted /\ ~q.isFinished
        /\ q.table = <<>> /\ q.result = p.result \o start
    BY <2>2, <2>3 DEF Started, Parser
  <2>5. x \o Need(p) = x
    BY <1>1, <1>6, ConcatEmptySeq DEF Need
  <2>6. Opens(p.result \o start, x, x \o Awaited("quote"))
    BY <1>1, <1>2, <2>1, <2>5, OpensBoth
  <2>7. Words(p.result \o start) = Words(p.result)
    <3>1. Words(p.result \o start) = Words(p.result) \o Words(start)
      BY <1>2, <2>1, WordsBoth
    <3> QED BY <1>2, <2>1, <3>1, WordsType, ConcatEmptySeq
  <2>8. Pending(q) = q.result
    <3>1. q.result \in Seq(Token)
      BY <2>4 DEF Parser
    <3> QED BY <2>4, <3>1, PendingNoTable
  <2> QED BY <1>3, <2>4, <2>6, <2>7, <2>8
<1> QED BY <1>5, <1>6

(* No list's end tag is ever in front of a line that a quote is given.     *)
LEMMA QuotesLine ==
  ASSUME IInv, phase = "down", Current.kind = "quote"
  PROVE  line \in Seq(Plain)
<1>1. level > 0 /\ (line \in Seq(Plain) \/ IsEnder(line)) /\ TypesOK /\ ShapeOK
  BY LineProps DEF IInv
<1>2. level \in 1 .. Len(parsers) /\ Len(parsers) \in Nat /\ Current = parsers[level]
  BY <1>1, ParserProps
<1>3. ~IsEnder(line)
  <2> SUFFICES ASSUME IsEnder(line) PROVE FALSE
    OBVIOUS
  <2>1. level > 1 /\ parsers[level - 1].kind \in Lists
    BY DEF IsEnder
  <2>2. level - 1 \in 1 .. Len(parsers) /\ level - 1 < Len(parsers) /\ (level - 1) + 1 = level
    BY <1>2, <2>1
  <2>3. parsers[(level - 1) + 1].kind = "quote" => parsers[level - 1].kind = "quote"
    BY <1>1, <2>2, Parents
  <2> QED BY <1>2, <2>1, <2>2, <2>3 DEF Lists
<1> QED BY <1>1, <1>3

LEMMA AddQuoteLineInv ==
  ASSUME IInv, health = "sound", AddQuoteLine
  PROVE  IInv'
<1> DEFINE p == Current
           q == IF Current.isStarted THEN Current
                ELSE Started(Write(Current, <<"<blockquote>">>))
           rest == Unquoted(line)
           end == <<"</blockquote>">>
           x == Needed(parsers, level - 1)
           y == Lacked(parsers, level - 1)
<1>1. phase = "down" /\ p.kind = "quote"
  BY DEF AddQuoteLine
<1>2. IF HasChildFor(rest) THEN HandOn(q, rest)
      ELSE /\ Keep(IF line = <<>> THEN Finished(Write(q, end)) ELSE Write(q, rest))
           /\ UNCHANGED health
  BY DEF AddQuoteLine
<1>3. /\ q \in Parser /\ q.kind = "quote" /\ q.isStarted /\ ~q.isFinished
      /\ q.table = <<>> /\ Pending(q) = q.result
      /\ Opens(q.result, x, x \o Awaited("quote")) /\ Words(q.result) = Words(Pending(p))
  BY <1>1, QuoteBegins
<1>4. line \in Seq(Plain)
  BY <1>1, QuotesLine
<1>5. /\ level > 0 /\ x \in Seq(Token) /\ y = x
      /\ \A i \in 1 .. level - 1 : ~parsers[i].isFinished
      /\ Ending => line = <<>>
  BY <1>1, <1>4, LineProps
<1>6. /\ rest \in Seq(Plain) /\ rest \in Seq(Token) /\ Words(rest) = Words(line)
      /\ line = <<>> => rest = <<>>
      /\ HeadIn(rest, {">"}) => HeadIn(line, {">"}) /\ Quotes(rest) + 1 <= Quotes(line)
      /\ \A kind \in {"code", "hr", "table"} : ~IsStartingLine(kind, rest)
  BY <1>4, UnquotedProps, PlainSeq
<1> HIDE DEF q, rest, p
<1>7. /\ Need(q) = Awaited("quote") /\ Lacks(q) = Awaited("quote") /\ q.result \in Seq(Token)
      /\ x \o Awaited("quote") \in Seq(Token) /\ IsOpen(q)
  <2>1. Need(q) = Awaited("quote") /\ Lacks(q) = Awaited("quote") /\ IsOpen(q)
    BY <1>3 DEF Need, Lacks, IsOpen
  <2> QED BY <1>3, <1>5, <2>1, AwaitedType, ConcatProperties DEF Parser
<1>8. CASE HasChildFor(rest)
  <2>1. Opens(rest, x \o Need(q), y \o Lacks(q))
    BY <1>5, <1>6, <1>7, OpensPlain
  <2>2. IsOpen(Current) => Need(q) = Need(Current)
    BY <1>1, <1>7 DEF Need, IsOpen, p
  <2>3. q.kind = Current.kind /\ "quote" \in Lists \cup {"quote"}
        /\ Words(Pending(q)) = Words(Pending(Current))
    BY <1>1, <1>3 DEF p
  <2>4. Opens(q.result, x, x \o Need(q))
    BY <1>3, <1>7
  <2>5. Hands(q, rest)
    BY <1>3, <1>5, <1>6, <2>1, <2>2, <2>3, <2>4 DEF Hands
  <2>6. HandOn(q, rest)
    BY <1>2, <1>8
  <2> QED BY <1>1, <1>8, <2>5, <2>6, HandInv
<1>9. CASE ~HasChildFor(rest)
  <2> DEFINE w == IF line = <<>> THEN Finished(Write(q, end)) ELSE Write(q, rest)
  <2>1. Keep(w) /\ health' = health
    BY <1>2, <1>9
  <2>2. level = Len(parsers)
    <3>1. ~(level < Len(parsers))
      BY <1>9 DEF HasChildFor
    <3>2. level <= Len(parsers) /\ level \in Nat /\ Len(parsers) \in Nat
      BY <1>5, ParserProps DEF IInv
    <3> QED BY <3>1, <3>2
  <2>3. ASSUME line = <<>>
        PROVE  /\ w \in Parser /\ w.kind = "quote" /\ w.isFinished /\ w.table = <<>>
               /\ Opens(w.result, x, y \o Lacks(w))
               /\ Words(Pending(w)) = Words(Pending(p)) \o Words(line)
    <3>1. end \in Seq(Token) /\ Words(end) = <<>> /\ Opens(end, x \o Awaited("quote"), x)
      BY <1>5, QuoteOpens
    <3> DEFINE v == Write(q, end)
    <3>2. /\ v \in Parser /\ v.kind = "quote" /\ v.table = <<>>
          /\ v.result = q.result \o end
      BY <1>3, <3>1, WriteProps
    <3> HIDE DEF v
    <3>3. w = Finished(v)
      BY <2>3 DEF v
    <3> HIDE DEF w
    <3>4. /\ w \in Parser /\ w.kind = "quote" /\ w.isFinished /\ w.table = <<>>
          /\ w.result = q.result \o end
      BY <3>2, <3>3 DEF Finished, Parser
    <3>5. Opens(w.result, x, y \o Lacks(w))
      <4>1. Opens(q.result \o end, x, x)
        BY <1>3, <1>7, <3>1, OpensBoth
      <4>2. y \o Lacks(w) = x
        BY <1>5, <3>4, ConcatEmptySeq DEF Lacks
      <4> QED BY <3>4, <4>1, <4>2
    <3>6. Words(Pending(w)) = Words(Pending(p)) \o Words(line)
      <4>1. Pending(w) = w.result
        BY <3>4 DEF Pending
      <4>2. Words(w.result) = Words(q.result) \o <<>>
        BY <1>7, <3>1, <3>4, WordsBoth, ZenonT(30)
      <4>3. Words(line) = <<>>
        BY <2>3, WordsNone
      <4> QED BY <1>3, <4>1, <4>2, <4>3
    <3> QED BY <3>4, <3>5, <3>6
  <2>4. ASSUME line # <<>>
        PROVE  /\ w \in Parser /\ w.kind = "quote" /\ IsOpen(w) /\ w.table = <<>>
               /\ Opens(w.result, x, y \o Lacks(w))
               /\ Words(Pending(w)) = Words(Pending(p)) \o Words(line)
    <3>1. w = Write(q, rest)
      BY <2>4
    <3> HIDE DEF w
    <3>2. /\ w \in Parser /\ w.kind = "quote" /\ IsOpen(w) /\ w.table = <<>>
          /\ w.result = q.result \o rest /\ Lacks(w) = Lacks(q)
      BY <1>3, <1>6, <1>7, <3>1, WriteProps
    <3>3. Opens(w.result, x, y \o Lacks(w))
      <4>1. Opens(rest, x \o Awaited("quote"), x \o Awaited("quote"))
        BY <1>6, <1>7, OpensPlain
      <4> QED BY <1>3, <1>5, <1>6, <1>7, <3>2, <4>1, OpensBoth
    <3>4. Words(Pending(w)) = Words(Pending(p)) \o Words(line)
      <4>1. w.result \in Seq(Token)
        BY <3>2 DEF Parser
      <4>2. Pending(w) = w.result
        BY <3>2, <4>1, PendingNoTable
      <4> QED BY <1>3, <1>6, <1>7, <3>2, <4>2, WordsBoth
    <3> QED BY <3>2, <3>3, <3>4
  <2>5. Keeps(w)
    <3> HIDE DEF w
    <3>1. /\ w \in Parser /\ w.kind = "quote" /\ w.table = <<>>
          /\ w.isFinished \/ IsOpen(w)
          /\ Opens(w.result, x, y \o Lacks(w))
          /\ Words(Pending(w)) = Words(Pending(Current)) \o Words(line)
      BY <2>3, <2>4 DEF p
    <3>2. Ending => w.isFinished
      BY <1>5, <2>3
    <3> QED BY <1>1, <1>5, <3>1, <3>2 DEF Keeps, p
  <2>6. w.kind = "quote" /\ health' = "sound"
    <3> HIDE DEF w
    <3> QED BY <2>1, <2>3, <2>4
  <2> HIDE DEF w
  <2>7. TableOK'
    BY <1>1, <2>1, <2>2, <2>5, <2>6, KeepTable
  <2> QED BY <1>1, <2>1, <2>2, <2>5, <2>6, <2>7, KeepInv
<1> QED BY <1>8, <1>9

-----------------------------------------------------------------------------
(* The rows of a table, one after the other.                               *)
Rows(table) == Concat([b \in DOMAIN table |-> Concat(table[b])])

LEMMA RowsUpto ==
  ASSUME NEW table \in Seq(Seq(Seq(Plain)))
  PROVE  /\ Rows(table) = Upto([b \in DOMAIN table |-> Concat(table[b])], Len(table))
         /\ Rows(table) \in Seq(Token)
<1> DEFINE rows == [b \in DOMAIN table |-> Concat(table[b])]
<1>1. rows \in Seq(Seq(Token))
  BY TableWords
<1>2. Len(rows) = Len(table)
  <2>1. DOMAIN rows = 1 .. Len(table) /\ Len(table) \in Nat
    BY LenProperties
  <2> HIDE DEF rows
  <2> QED BY <1>1, <2>1, LenProperties
<1> HIDE DEF rows
<1>3. Concat(rows) = Upto(rows, Len(rows)) /\ Concat(rows) \in Seq(Token)
  BY <1>1, UptoAll, ConcatType
<1>4. Rows(table) = Concat(rows)
  BY DEF Rows, rows
<1> QED BY <1>2, <1>3, <1>4 DEF rows

(* One more block, without rows.                                           *)
LEMMA RowsOfNewBlock ==
  ASSUME NEW table \in Seq(Seq(Seq(Plain)))
  PROVE  /\ Append(table, <<>>) \in Seq(Seq(Seq(Plain)))
         /\ Len(Append(table, <<>>)) = Len(table) + 1
         /\ Rows(Append(table, <<>>)) = Rows(table)
<1> DEFINE blocks == Append(table, <<>>)
           n == Len(table)
           a == [b \in DOMAIN table |-> Concat(table[b])]
           c == [b \in DOMAIN blocks |-> Concat(blocks[b])]
<1>1. <<>> \in Seq(Seq(Plain))
  BY EmptySeq
<1>2. /\ blocks \in Seq(Seq(Seq(Plain))) /\ Len(blocks) = n + 1 /\ n \in Nat
      /\ blocks[n + 1] = <<>> /\ \A i \in 1 .. n : blocks[i] = table[i]
      /\ DOMAIN table = 1 .. n /\ DOMAIN blocks = 1 .. n + 1
  <2>1. blocks \in Seq(Seq(Seq(Plain))) /\ Len(blocks) = n + 1 /\ n \in Nat
        /\ blocks[n + 1] = <<>> /\ \A i \in 1 .. n : blocks[i] = table[i]
    BY <1>1, AppendProperties, LenProperties
  <2> QED BY <2>1, LenProperties
<1> HIDE DEF blocks, n
<1>3. Rows(table) = Upto(a, n) /\ Rows(blocks) = Upto(c, n + 1) /\ Rows(table) \in Seq(Token)
  BY <1>2, RowsUpto DEF n
<1>4. (\A i \in 1 .. n : a[i] = c[i]) /\ c[n + 1] = Concat(<<>>)
  BY <1>2
<1> HIDE DEF a, c
<1>5. Upto(c, n + 1) = Upto(c, n) \o c[n + 1] /\ Upto(c, n) = Upto(a, n)
  BY <1>2, <1>4, UptoNext, UptoSame
<1>6. Concat(<<>>) = <<>>
  BY EmptySeq, ConcatOfNone
<1>7. Rows(blocks) = Rows(table)
  BY <1>3, <1>4, <1>5, <1>6, ConcatEmptySeq
<1> QED BY <1>2, <1>7 DEF blocks, n

LEMMA ConcatAppend ==
  ASSUME NEW T, NEW seqs \in Seq(Seq(T)), NEW s \in Seq(T)
  PROVE  Concat(Append(seqs, s)) = Concat(seqs) \o s /\ Append(seqs, s) \in Seq(Seq(T))
<1> DEFINE n == Len(seqs)
           c == Append(seqs, s)
<1>1. /\ c \in Seq(Seq(T)) /\ Len(c) = n + 1 /\ n \in Nat
      /\ c[n + 1] = s /\ \A i \in 1 .. n : c[i] = seqs[i]
  BY AppendProperties, LenProperties
<1> HIDE DEF c
<1>2. Concat(c) = Upto(c, n + 1) /\ Concat(seqs) = Upto(seqs, n)
  <2>1. Concat(c) = Upto(c, Len(c))
    BY <1>1, UptoAll
  <2>2. Concat(seqs) = Upto(seqs, Len(seqs))
    BY UptoAll
  <2> QED BY <1>1, <2>1, <2>2
<1> HIDE DEF n
<1>3. Upto(c, n + 1) = Upto(c, n) \o c[n + 1] /\ Upto(c, n) = Upto(seqs, n)
  BY <1>1, UptoNext, UptoSame
<1> QED BY <1>1, <1>2, <1>3 DEF c

(* A row in the last block.                                                *)
LEMMA RowsOfNewRow ==
  ASSUME NEW blocks \in Seq(Seq(Seq(Plain))), blocks # <<>>, NEW cells \in Seq(Plain),
         NEW table, table = [blocks EXCEPT ![Len(blocks)] = Append(@, cells)]
  PROVE  /\ table \in Seq(Seq(Seq(Plain))) /\ Len(table) = Len(blocks)
         /\ Words(Rows(table)) = Words(Rows(blocks)) \o Words(cells)
<1> DEFINE n == Len(blocks)
           last == blocks[n]
           new == Append(last, cells)
           a == [b \in DOMAIN blocks |-> Concat(blocks[b])]
           c == [b \in DOMAIN table |-> Concat(table[b])]
<1>1. n \in Nat \ {0} /\ n \in 1 .. n /\ last \in Seq(Seq(Plain))
      /\ DOMAIN blocks = 1 .. n
  <2>1. n \in Nat /\ n # 0 /\ DOMAIN blocks = 1 .. n
    BY LenProperties, EmptySeq
  <2>2. n \in 1 .. n
    BY <2>1
  <2> QED BY <2>1, <2>2, ElementOfSeq
<1>2. last \in Seq(Seq(Token)) /\ cells \in Seq(Token)
  BY <1>1, RowsToken, PlainSeq
<1> HIDE DEF n, last
<1>3. /\ Concat(new) = Concat(last) \o cells /\ Concat(last) \in Seq(Token)
      /\ new \in Seq(Seq(Plain))
  BY <1>1, <1>2, ConcatAppend, ConcatType
<1>4. /\ table \in Seq(Seq(Seq(Plain))) /\ Len(table) = n /\ table[n] = new
      /\ \A i \in 1 .. n : i # n => table[i] = blocks[i]
      /\ DOMAIN table = 1 .. n
  <2>1. table = [blocks EXCEPT ![n] = new]
    BY <1>1 DEF n, last
  <2> HIDE DEF new
  <2>2. n \in 1 .. Len(blocks)
    BY <1>1 DEF n
  <2> DEFINE t == [blocks EXCEPT ![n] = new]
  <2>3. /\ t \in Seq(Seq(Seq(Plain))) /\ Len(t) = Len(blocks) /\ t[n] = new
        /\ \A i \in 1 .. Len(blocks) : i # n => t[i] = blocks[i]
    BY <1>3, <2>2, Replaced
  <2>4. table = t
    BY <2>1
  <2> HIDE DEF t
  <2> QED BY <2>3, <2>4, LenProperties DEF n
<1> HIDE DEF new
<1>5. /\ Rows(blocks) = Upto(a, n) /\ Rows(table) = Upto(c, n)
      /\ Rows(blocks) \in Seq(Token) /\ Rows(table) \in Seq(Token)
  BY <1>4, RowsUpto DEF n
<1>6. a[n] = Concat(last) /\ c[n] = Concat(new) /\ \A i \in 1 .. n - 1 : c[i] = a[i]
  <2>1. \A i \in 1 .. n - 1 : i \in 1 .. n /\ i # n
    BY <1>1
  <2> QED BY <1>1, <1>4, <2>1 DEF last
<1>7. \A i \in 1 .. n - 1 : a[i] \in Seq(Token)
  <2>1. a \in Seq(Seq(Token)) /\ DOMAIN a = 1 .. n
    BY <1>1, TableWords
  <2> HIDE DEF a
  <2>2. \A i \in 1 .. n - 1 : i \in 1 .. n
    BY <1>1
  <2> QED BY <2>1, <2>2, ElementOfSeq, LenProperties
<1> HIDE DEF a, c
<1> DEFINE u == Upto(a, n - 1)
<1>8. /\ Upto(a, n) = Upto(a, n - 1) \o a[n] /\ Upto(c, n) = Upto(c, n - 1) \o c[n]
      /\ Upto(c, n - 1) = u /\ u \in Seq(Token)
  <2>1. n - 1 \in Nat
    BY <1>1
  <2> QED BY <1>1, <1>6, <1>7, <2>1, UptoLast, UptoSame, UptoType
<1> HIDE DEF u
<1>9. Rows(table) = u \o (Concat(last) \o cells) /\ Rows(blocks) = u \o Concat(last)
  BY <1>3, <1>5, <1>6, <1>8 DEF u
<1>10. Rows(table) = Rows(blocks) \o cells
  <2>1. (u \o Concat(last)) \o cells = u \o (Concat(last) \o cells)
    BY <1>2, <1>3, <1>8, ConcatAssociative, SMTT(30)
  <2> QED BY <1>9, <2>1
<1> QED BY <1>2, <1>4, <1>5, <1>10, WordsBoth DEF n

-----------------------------------------------------------------------------
(* A table is never in another parser: it is given a line of the document. *)
LEMMA TableLine ==
  ASSUME IInv, phase = "down", Current.kind = "table"
  PROVE  /\ level = 1 /\ Len(parsers) = 1 /\ Current = parsers[1] /\ Current \in Parser
         /\ parsers # <<>>
         /\ ~Current.isFinished /\ Current.result = <<>> /\ line \in Seq(Plain)
         /\ Needed(parsers, level - 1) = <<>> /\ Lacked(parsers, level - 1) = <<>>
         /\ ~Current.isStarted => line = <<"|table>">> /\ Current.table = <<>>
                                  /\ Current.currentBlock = 0
<1> DEFINE p == Current
<1>1. TypesOK /\ ShapeOK /\ TablesOK
  BY DEF IInv
<1>2. /\ level > 0 /\ (line \in Seq(Plain) \/ IsEnder(line))
      /\ IsOpen(p) \/ (level = Len(parsers) /\ Fresh(p, line))
  BY LineProps
<1>3. /\ p \in Parser /\ p = parsers[level] /\ level \in 1 .. Len(parsers)
      /\ Len(parsers) \in Nat /\ parsers # <<>> /\ DOMAIN parsers = 1 .. Len(parsers)
  BY <1>1, <1>2, ParserProps
<1>4. level = Len(parsers)
  <2>1. ~(level < Len(parsers))
    <3>1. level < Len(parsers) => parsers[level].kind \in Lists \cup {"quote"}
      BY <1>1, <1>3, Parents
    <3>2. "table" \notin Lists \cup {"quote"}
      BY DEF Lists
    <3> QED BY <1>3, <3>1, <3>2
  <2>2. level \in Nat /\ level <= Len(parsers) /\ Len(parsers) \in Nat
    BY <1>3
  <2> QED BY <2>1, <2>2
<1>5. level = 1
  <2> SUFFICES ASSUME level # 1 PROVE FALSE
    OBVIOUS
  <2>1. level - 1 \in 1 .. Len(parsers) /\ level - 1 < Len(parsers) /\ (level - 1) + 1 = level
    BY <1>3
  <2>2. parsers[(level - 1) + 1].kind # "table"
    BY <1>1, <2>1, Parents
  <2> QED BY <1>3, <2>1, <2>2
<1>6. ~p.isFinished
  BY <1>2, FreshProps DEF IsOpen
<1>7. p.result = <<>>
  BY <1>1, <1>3, <1>6 DEF TablesOK
<1>8. line \in Seq(Plain)
  BY <1>2, <1>5 DEF IsEnder
<1>9. level - 1 = 0
  BY <1>5
<1>10. Needed(parsers, level - 1) = <<>> /\ Lacked(parsers, level - 1) = <<>>
  BY <1>9, NeededProps
<1>11. ASSUME ~p.isStarted
       PROVE  line = <<"|table>">> /\ p.table = <<>> /\ p.currentBlock = 0
  <2>1. Fresh(p, line)
    BY <1>2, <1>11 DEF IsOpen
  <2>2. IsStartingLine("table", line)
    BY <2>1 DEF Fresh
  <2>3. line = <<"|table>">>
    BY <2>2 DEF IsStartingLine
  <2>4. p = New("table")
    BY <2>1 DEF Fresh
  <2>5. "table" \in Kinds
    BY DEF Kinds
  <2> QED BY <2>3, <2>4, <2>5, NewProps
<1> QED BY <1>3, <1>4, <1>5, <1>6, <1>7, <1>8, <1>10, <1>11

(* The line of the document that a table is given.                         *)
LEMMA TableDoc ==
  ASSUME IInv, phase = "down", Current.kind = "table"
  PROVE  /\ Len(doc) \in Nat /\ DOMAIN doc = 1 .. Len(doc)
         /\ ended => line = <<>> /\ SoFar = Len(doc)
         /\ ~ended => /\ Len(doc) \in 1 .. Len(doc) /\ SoFar = Len(doc) - 1
                      /\ \A t \in Marks : line = <<t>> => doc[Len(doc)] = <<t>>
                      /\ line = Separator => doc[Len(doc)] = Separator
<1>1. /\ doc \in Seq(Lines) /\ Len(doc) <= MaxLines /\ LineOK /\ level = 1
      /\ Len(doc) \in Nat /\ DOMAIN doc = 1 .. Len(doc) /\ MaxLines \in Nat
  BY TableLine, LenProperties, LineAssumption DEF IInv, TypesOK
<1>2. CASE ended
  BY <1>1, <1>2 DEF LineOK, SoFar
<1>3. CASE ~ended
  <2>1. doc # <<>> /\ line = NthLine(doc[Len(doc)], Len(doc))
    BY <1>1, <1>3 DEF LineOK
  <2>2. Len(doc) \in 1 .. Len(doc) /\ Len(doc) \in 1 .. MaxLines
    BY <1>1, <2>1
  <2>3. doc[Len(doc)] \in Lines
    BY <1>1, <2>2, ElementOfSeq
  <2> QED BY <1>1, <1>3, <2>1, <2>2, <2>3, NthLineProps DEF SoFar
<1> QED BY <1>2, <1>3

(* What is left to show of a table that keeps its line.                    *)
LEMMA TableKeeps ==
  ASSUME IInv, phase = "down", health = "sound", Current.kind = "table",
         NEW q \in Parser, Keep(q), q.kind = "table",
         ~q.isFinished => q.result = <<>> /\ q.isStarted,
         Opens(q.result, <<>>, <<>>), health' \in {"sound", "undefined"},
         health' = "sound" => Words(Pending(q)) = Words(Pending(Current)) \o Words(line),
         ~q.isFinished =>
           /\ Len(q.table) <= q.currentBlock + 1
           /\ q.isStarted /\ Len(q.table) = q.currentBlock =>
                Len(doc) > 0 /\ doc[Len(doc)] \in {<<"|table>">>, Separator}
           /\ Len(q.table) < q.currentBlock => \E j \in 1 .. Len(doc) : Breaks(j),
         health' = "undefined" => \E j \in DOMAIN doc : Breaks(j)
  PROVE  IInv'
<1>1. /\ level = 1 /\ Len(parsers) = 1 /\ Current = parsers[1] /\ parsers # <<>>
      /\ Needed(parsers, level - 1) = <<>> /\ Lacked(parsers, level - 1) = <<>>
  BY TableLine
<1>2. Lacks(q) = <<>> /\ <<>> \o Lacks(q) = <<>>
  BY DEF Lacks, Need, Awaited
<1>3. \A i \in 1 .. level - 1 : FALSE
  BY <1>1
<1>4. ~Ending
  BY <1>1 DEF Ending
<1>5. q.isFinished \/ IsOpen(q)
  BY DEF IsOpen
<1>6. Keeps(q)
  BY <1>1, <1>2, <1>3, <1>4, <1>5 DEF Keeps
<1>7. parsers'[1] = q
  <2>1. parsers' = [parsers EXCEPT ![1] = q]
    BY <1>1 DEF Keep
  <2>2. parsers \in Seq(Parser) /\ 1 \in 1 .. Len(parsers)
    BY <1>1 DEF IInv, TypesOK
  <2> QED BY <2>1, <2>2, Replaced
<1>8. doc' = doc /\ phase' = "up" /\ SoFar' = Len(doc)
  BY DEF Keep, SoFar
<1>9. \A j : Breaks(j)' = Breaks(j)
  BY <1>8 DEF Breaks
<1>10. TableOK'
  <2>1. ASSUME ~parsers'[1].isFinished
        PROVE  /\ Len(parsers'[1].table) <= parsers'[1].currentBlock + 1
               /\ parsers'[1].isStarted /\ Len(parsers'[1].table) = parsers'[1].currentBlock =>
                    SoFar' > 0 /\ doc'[SoFar'] \in {<<"|table>">>, Separator}
               /\ Len(parsers'[1].table) < parsers'[1].currentBlock =>
                    \E j \in 1 .. SoFar' : Breaks(j)'
    BY <1>7, <1>8, <1>9, <2>1
  <2>2. health' = "undefined" => \E j \in DOMAIN doc' : Breaks(j)'
    BY <1>8, <1>9
  <2> QED BY <2>1, <2>2 DEF TableOK
<1> QED BY <1>1, <1>6, <1>10, KeepInv

(* A block of rows is never more than one behind the current block unless  *)
(* two separators, or the table's beginning and one, were next to another. *)
LEMMA TableIs ==
  ASSUME IInv, phase = "down", Current.kind = "table"
  PROVE  /\ Len(Current.table) \in Nat /\ Current.currentBlock \in Nat
         /\ Current.table \in Seq(Seq(Seq(Plain)))
         /\ Len(Current.table) <= Current.currentBlock + 1
         /\ Current.isStarted /\ Len(Current.table) = Current.currentBlock =>
              SoFar > 0 /\ doc[SoFar] \in {<<"|table>">>, Separator}
         /\ Len(Current.table) < Current.currentBlock => \E j \in 1 .. SoFar : Breaks(j)
         /\ Pending(Current) = Rows(Current.table)
<1> DEFINE p == Current
<1>1. TableOK
  BY DEF IInv
<1>2. /\ p = parsers[1] /\ parsers # <<>> /\ ~p.isFinished /\ p \in Parser /\ p.result = <<>>
  BY TableLine
<1>3. /\ Len(p.table) <= p.currentBlock + 1
      /\ p.isStarted /\ Len(p.table) = p.currentBlock =>
           SoFar > 0 /\ doc[SoFar] \in {<<"|table>">>, Separator}
      /\ Len(p.table) < p.currentBlock => \E j \in 1 .. SoFar : Breaks(j)
  BY <1>1, <1>2 DEF TableOK
<1>4. p.table \in Seq(Seq(Seq(Plain))) /\ p.currentBlock \in Nat
  BY <1>2 DEF Parser
<1>5. Len(p.table) \in Nat
  BY <1>4, LenProperties
<1>6. Pending(p) = Rows(p.table)
  <2>1. Pending(p) = <<>> \o Rows(p.table)
    BY <1>2 DEF Pending, Rows
  <2> HIDE DEF p
  <2>2. Rows(p.table) \in Seq(Token)
    BY <1>4, RowsUpto
  <2> QED BY <2>1, <2>2, ConcatEmptySeq
<1> QED BY <1>3, <1>4, <1>5, <1>6

LEMMA MarkWords ==
  ASSUME NEW t \in Marks
  PROVE  <<t>> \in Seq(Token) /\ Words(<<t>>) = <<>>
<1>1. t \in Token /\ t \notin AllWords
  BY Vocabulary DEF Token, Plain
<1> QED BY <1>1, OneToken, WordsOne DEF WordIn

LEMMA SeparatorWords == Separator \in Seq(Token) /\ Words(Separator) = <<>>
<1>1. "- " \in Marks /\ "| - | -" \in Marks
  BY DEF Marks
<1>2. <<"- ">> \in Seq(Token) /\ <<"| - | -">> \in Seq(Token) /\ Words(<<"- ">>) = <<>>
      /\ Words(<<"| - | -">>) = <<>>
  BY <1>1, MarkWords
<1>3. Separator = <<"- ">> \o <<"| - | -">>
  BY <1>1, Two DEF Separator
<1>4. Words(Separator) = <<>> \o <<>>
  BY <1>2, <1>3, WordsBoth
<1>5. Separator \in Seq(Token)
  BY <1>2, <1>3, ConcatProperties
<1>6. <<>> \o <<>> = <<>>
  BY EmptySeq, ConcatEmptySeq
<1> QED BY <1>4, <1>5, <1>6

LEMMA TableStarts ==
  ASSUME IInv, health = "sound", phase = "down", Current.kind = "table",
         ~Current.isStarted, Keep(Started(Current)), health' = health
  PROVE  IInv'
<1> DEFINE p == Current
           q == Started(p)
<1>1. /\ p \in Parser /\ ~p.isFinished /\ p.result = <<>> /\ line = <<"|table>">>
      /\ p.table = <<>> /\ p.currentBlock = 0
  BY TableLine
<1>2. /\ q \in Parser /\ q.kind = "table" /\ q.isStarted /\ ~q.isFinished /\ q.result = <<>>
      /\ q.table = <<>> /\ q.currentBlock = 0
  BY <1>1 DEF Started, Parser
<1>3. Keep(q) /\ "|table>" \in Marks
  BY DEF Marks
<1>4. Pending(p) = Pending(q)
  BY <1>1, <1>2 DEF Pending
<1> HIDE DEF q
<1>5. Words(Pending(q)) = Words(Pending(Current)) \o Words(line)
  <2>1. Words(line) = <<>> /\ Words(Pending(p)) \in Seq(Token)
    BY <1>1, <1>3, MarkWords, PendingType
  <2> QED BY <1>4, <2>1, ConcatEmptySeq
<1>6. Len(doc) > 0 /\ doc[Len(doc)] = <<"|table>">>
  <2>1. ~ended
    BY <1>1, TableDoc
  <2>2. Len(doc) \in 1 .. Len(doc) /\ doc[Len(doc)] = <<"|table>">> /\ Len(doc) \in Nat
    BY <1>1, <1>3, <2>1, TableDoc
  <2> QED BY <2>2
<1>7. Opens(q.result, <<>>, <<>>)
  BY <1>2, OpensNone, EmptySeq
<1>8. Len(q.table) = 0
  BY <1>2, EmptySeq
<1>9. /\ Len(q.table) <= q.currentBlock + 1
      /\ q.isStarted /\ Len(q.table) = q.currentBlock =>
           Len(doc) > 0 /\ doc[Len(doc)] \in {<<"|table>">>, Separator}
      /\ Len(q.table) < q.currentBlock => \E j \in 1 .. Len(doc) : Breaks(j)
  BY <1>2, <1>6, <1>8
<1> QED BY <1>2, <1>3, <1>5, <1>7, <1>9, TableKeeps

LEMMA TableSeparates ==
  ASSUME IInv, health = "sound", phase = "down", Current.kind = "table",
         Current.isStarted, line = Separator,
         Keep([Current EXCEPT !.currentBlock = @ + 1]), health' = health
  PROVE  IInv'
<1> DEFINE p == Current
           q == [Current EXCEPT !.currentBlock = @ + 1]
           n == Len(p.table)
           c == p.currentBlock
<1>1. p \in Parser /\ ~p.isFinished /\ p.result = <<>>
  BY TableLine
<1>2. /\ n \in Nat /\ c \in Nat /\ n <= c + 1
      /\ n = c => SoFar > 0 /\ doc[SoFar] \in {<<"|table>">>, Separator}
      /\ n < c => \E j \in 1 .. SoFar : Breaks(j)
  BY TableIs
<1>3. /\ q \in Parser /\ q.kind = "table" /\ q.isStarted /\ ~q.isFinished /\ q.result = <<>>
      /\ q.table = p.table /\ q.currentBlock = c + 1
  BY <1>1, <1>2 DEF Parser
<1>4. Keep(q)
  OBVIOUS
<1>5. Pending(p) = Pending(q)
  BY <1>1, <1>3 DEF Pending
<1> HIDE DEF q, n, c
<1>6. Words(Pending(q)) = Words(Pending(Current)) \o Words(line)
  <2>1. Words(line) = <<>> /\ Words(Pending(p)) \in Seq(Token)
    BY <1>1, SeparatorWords, PendingType
  <2> QED BY <1>5, <2>1, ConcatEmptySeq
<1>7. /\ Len(doc) \in 1 .. Len(doc) /\ doc[Len(doc)] = Separator /\ Len(doc) \in Nat
      /\ SoFar = Len(doc) - 1
  <2>1. ~ended
    BY TableDoc DEF Separator
  <2> QED BY <2>1, TableDoc
<1>8. Opens(q.result, <<>>, <<>>)
  BY <1>3, OpensNone, EmptySeq
<1>9. Len(q.table) = n
  BY <1>3 DEF n
<1>10. ASSUME n < c + 1 PROVE \E j \in 1 .. Len(doc) : Breaks(j)
  <2>1. CASE n = c
    <3>1. Breaks(Len(doc))
      BY <1>2, <1>7, <2>1 DEF Breaks
    <3> QED BY <1>7, <3>1
  <2>2. CASE n < c
    <3>1. PICK j \in 1 .. SoFar : Breaks(j)
      BY <1>2, <2>2
    <3>2. j \in 1 .. Len(doc)
      BY <1>7
    <3> QED BY <3>1, <3>2
  <2> QED BY <1>2, <1>10, <2>1, <2>2
<1>11. /\ Len(q.table) <= q.currentBlock + 1
       /\ q.isStarted /\ Len(q.table) = q.currentBlock =>
            Len(doc) > 0 /\ doc[Len(doc)] \in {<<"|table>">>, Separator}
       /\ Len(q.table) < q.currentBlock => \E j \in 1 .. Len(doc) : Breaks(j)
  <2>1. n <= (c + 1) + 1 /\ Len(doc) > 0
    BY <1>2, <1>7
  <2> QED BY <1>3, <1>7, <1>9, <1>10, <2>1
<1> QED BY <1>3, <1>4, <1>6, <1>8, <1>11, TableKeeps

LEMMA TableEnds ==
  ASSUME IInv, health = "sound", phase = "down", Current.kind = "table",
         line = <<"|<table">>,
         Keep(Finished(Write(Current, TableHtml(Current.table)))), health' = health
  PROVE  IInv'
<1> DEFINE p == Current
           t == TableHtml(p.table)
           w == Write(p, t)
           q == Finished(w)
<1>1. p \in Parser /\ ~p.isFinished /\ p.result = <<>>
  BY TableLine
<1>2. p.table \in Seq(Seq(Seq(Plain))) /\ Pending(p) = Rows(p.table)
  BY TableIs
<1>3. t \in Seq(Token) /\ Words(t) = Words(Rows(p.table)) /\ Balanced(t)
  BY <1>2, TableWords, TableBalanced DEF Rows
<1> HIDE DEF t
<1>4. w \in Parser /\ w.kind = "table" /\ w.result = <<>> \o t
  BY <1>1, <1>3, WriteProps
<1>5. <<>> \o t = t
  BY <1>3, ConcatEmptySeq
<1> HIDE DEF w
<1>6. q \in Parser /\ q.kind = "table" /\ q.isFinished /\ q.result = t
  BY <1>4, <1>5 DEF Finished, Parser
<1>7. Keep(q)
  BY DEF w, t
<1> HIDE DEF q
<1>8. Words(Pending(q)) = Words(Pending(Current)) \o Words(line)
  <2>1. "|<table" \in Marks
    BY DEF Marks
  <2>2. Words(line) = <<>> /\ Words(Pending(p)) \in Seq(Token)
    BY <1>1, <2>1, MarkWords, PendingType
  <2>3. Pending(q) = t
    BY <1>6 DEF Pending
  <2> QED BY <1>2, <1>3, <2>2, <2>3, ConcatEmptySeq
<1>9. Opens(q.result, <<>>, <<>>)
  <2>1. <<>> \in Seq(Token)
    BY EmptySeq
  <2> QED BY <1>3, <1>6, <2>1 DEF Balanced
<1> QED BY <1>6, <1>7, <1>8, <1>9, TableKeeps

LEMMA TableRow ==
  ASSUME IInv, health = "sound", phase = "down", Current.kind = "table",
         Current.isStarted, AddRow(Current, line)
  PROVE  IInv'
<1> DEFINE p == Current
           blocks == WithBlock(p)
           n == Len(p.table)
           c == p.currentBlock
           table == [blocks EXCEPT ![c + 1] = Append(@, line)]
           q == [p EXCEPT !.table = table]
<1>1. p \in Parser /\ ~p.isFinished /\ p.result = <<>> /\ line \in Seq(Plain)
  BY TableLine
<1>2. /\ n \in Nat /\ c \in Nat /\ n <= c + 1 /\ p.table \in Seq(Seq(Seq(Plain)))
      /\ n < c => \E j \in 1 .. SoFar : Breaks(j)
      /\ Pending(p) = Rows(p.table)
  BY TableIs
<1>3. IF c < Len(blocks) THEN Keep(q) /\ health' = health
                         ELSE Keep(p) /\ health' = "undefined"
  BY DEF AddRow
<1>4. /\ blocks \in Seq(Seq(Seq(Plain))) /\ Rows(blocks) = Rows(p.table)
      /\ Len(blocks) = IF n < c + 1 THEN n + 1 ELSE n
  BY <1>2, RowsOfNewBlock DEF WithBlock
<1>5. \A j \in 1 .. SoFar : j \in 1 .. Len(doc)
  <2>1. Len(doc) \in Nat /\ (SoFar = Len(doc) \/ SoFar = Len(doc) - 1)
    BY TableDoc
  <2> QED BY <2>1
<1> HIDE DEF blocks, n, c
<1>6. CASE c < Len(blocks)
  <2>1. Len(blocks) = c + 1
    BY <1>2, <1>4, <1>6
  <2>2. blocks # <<>>
    BY <1>2, <2>1, EmptySeq
  <2>3. table = [blocks EXCEPT ![Len(blocks)] = Append(@, line)]
    BY <2>1
  <2> HIDE DEF table
  <2>4. /\ table \in Seq(Seq(Seq(Plain))) /\ Len(table) = c + 1
        /\ Words(Rows(table)) = Words(Rows(p.table)) \o Words(line)
    BY <1>1, <1>4, <2>1, <2>2, <2>3, RowsOfNewRow
  <2>5. /\ q \in Parser /\ q.kind = "table" /\ q.isStarted /\ ~q.isFinished /\ q.result = <<>>
        /\ q.table = table /\ q.currentBlock = c
    BY <1>1, <2>4 DEF Parser, c
  <2>6. Keep(q) /\ health' = health
    BY <1>3, <1>6
  <2> HIDE DEF q
  <2>7. Pending(q) = Rows(table)
    <3>1. Pending(q) = <<>> \o Rows(table)
      BY <2>5 DEF Pending, Rows
    <3>2. Rows(table) \in Seq(Token)
      BY <2>4, RowsUpto
    <3> QED BY <3>1, <3>2, ConcatEmptySeq
  <2>8. Words(Pending(q)) = Words(Pending(Current)) \o Words(line)
    BY <1>2, <2>4, <2>7
  <2>9. Opens(q.result, <<>>, <<>>)
    BY <2>5, OpensNone, EmptySeq
  <2>10. c + 1 <= c + 1 /\ c + 1 # c /\ ~(c + 1 < c)
    BY <1>2
  <2>11. /\ Len(q.table) <= q.currentBlock + 1
         /\ q.isStarted /\ Len(q.table) = q.currentBlock =>
              Len(doc) > 0 /\ doc[Len(doc)] \in {<<"|table>">>, Separator}
         /\ Len(q.table) < q.currentBlock => \E j \in 1 .. Len(doc) : Breaks(j)
    BY <2>4, <2>5, <2>10
  <2> QED BY <2>5, <2>6, <2>8, <2>9, <2>11, TableKeeps
<1>7. CASE ~(c < Len(blocks))
  <2>1. n < c
    <3>1. Len(blocks) \in Nat /\ Len(blocks) <= c
      BY <1>2, <1>4, <1>7
    <3> QED BY <1>2, <1>4, <3>1
  <2>2. PICK j \in 1 .. SoFar : Breaks(j)
    BY <1>2, <2>1
  <2>3. j \in 1 .. Len(doc) /\ j \in DOMAIN doc
    BY <1>5, <2>2, TableDoc
  <2>4. Keep(p) /\ health' = "undefined"
    BY <1>3, <1>7
  <2>5. Opens(p.result, <<>>, <<>>)
    BY <1>1, OpensNone, EmptySeq
  <2>6. Len(p.table) <= p.currentBlock + 1 /\ Len(p.table) # p.currentBlock
    BY <1>2, <2>1 DEF n, c
  <2>7. /\ p.isStarted /\ Len(p.table) = p.currentBlock =>
             Len(doc) > 0 /\ doc[Len(doc)] \in {<<"|table>">>, Separator}
        /\ Len(p.table) < p.currentBlock => \E k \in 1 .. Len(doc) : Breaks(k)
    BY <2>2, <2>3, <2>6
  <2> QED BY <1>1, <2>2, <2>3, <2>4, <2>5, <2>6, <2>7, TableKeeps
<1> QED BY <1>6, <1>7

LEMMA AddTableLineInv ==
  ASSUME IInv, health = "sound", AddTableLine
  PROVE  IInv'
<1>1. phase = "down" /\ Current.kind = "table"
  BY DEF AddTableLine
<1>2. CASE ~Current.isStarted /\ Keep(Started(Current)) /\ UNCHANGED health
  BY <1>1, <1>2, TableStarts
<1>3. CASE /\ Current.isStarted /\ line = Separator
           /\ Keep([Current EXCEPT !.currentBlock = @ + 1]) /\ UNCHANGED health
  BY <1>1, <1>3, TableSeparates
<1>4. CASE /\ Current.isStarted /\ line = <<"|<table">>
           /\ Keep(Finished(Write(Current, TableHtml(Current.table)))) /\ UNCHANGED health
  BY <1>1, <1>4, TableEnds
<1>5. CASE /\ Current.isStarted /\ line \notin {Separator, <<"|<table">>}
           /\ AddRow(Current, line)
  BY <1>1, <1>5, TableRow
<1> QED BY <1>2, <1>3, <1>4, <1>5 DEF AddTableLine

-----------------------------------------------------------------------------
(* Parse() gives a line to the outermost parser.                           *)

LEMMA ReadProps ==
  ASSUME IInv, phase = "read"
  PROVE  /\ level = 0 /\ ~ended /\ parsers \in Seq(Parser) /\ Len(parsers) \in Nat
         /\ DOMAIN parsers = 1 .. Len(parsers) /\ \A i \in DOMAIN parsers : IsOpen(parsers[i])
         /\ doc \in Seq(Lines) /\ Len(doc) \in Nat /\ DOMAIN doc = 1 .. Len(doc)
         /\ Len(doc) <= MaxLines /\ MaxLines \in Nat /\ html \in Seq(Token)
         /\ SoFar = Len(doc)
<1>1. TypesOK /\ FlagsOK
  BY DEF IInv
<1>2. /\ level = 0 /\ ~ended /\ parsers \in Seq(Parser) /\ Len(parsers) \in Nat
      /\ DOMAIN parsers = 1 .. Len(parsers)
      /\ doc \in Seq(Lines) /\ Len(doc) \in Nat /\ DOMAIN doc = 1 .. Len(doc)
      /\ Len(doc) <= MaxLines /\ MaxLines \in Nat /\ html \in Seq(Token)
  BY <1>1, LenProperties, LineAssumption DEF TypesOK
<1>3. \A i \in DOMAIN parsers : IsOpen(parsers[i])
  <2>1. \A i \in DOMAIN parsers : i > level
    BY <1>2
  <2> QED BY <1>1, <2>1 DEF FlagsOK
<1> QED BY <1>2, <1>3 DEF SoFar

LEMMA GiveOld ==
  ASSUME IInv, phase = "read", parsers # <<>>, parsers' = parsers, level' = 1,
         phase' = "down", line' \in Seq(Plain), html' = html, health' = health,
         ended' \in BOOLEAN, doc' \in Seq(Lines), Len(doc') <= MaxLines
  PROVE  TypesOK' /\ ShapeOK' /\ TablesOK' /\ FlagsOK' /\ HtmlOK'
<1>1. TypesOK /\ ShapeOK /\ TablesOK /\ HtmlOK
  BY DEF IInv
<1>2. /\ parsers \in Seq(Parser) /\ Len(parsers) \in Nat /\ DOMAIN parsers = 1 .. Len(parsers)
      /\ \A i \in DOMAIN parsers : IsOpen(parsers[i])
  BY ReadProps
<1>3. Len(parsers) # 0 /\ 1 \in DOMAIN parsers
  BY <1>2, EmptySeq
<1>4. TypesOK'
  <2>1. level' \in 0 .. Len(parsers') /\ level' # 0
    BY <1>2, <1>3
  <2> QED BY <1>1, <2>1, PlainSeq DEF TypesOK
<1>5. ShapeOK' /\ TablesOK'
  BY <1>1 DEF ShapeOK, TablesOK
<1>6. FlagsOK'
  <2>1. Seen' = 0 /\ level' - 1 = 0
    BY DEF Seen
  <2>2. \A i \in 1 .. 0 : FALSE
    OBVIOUS
  <2> QED BY <1>2, <1>3, <2>1, <2>2 DEF FlagsOK
<1>7. HtmlOK'
  <2>1. level' - 1 = 0
    OBVIOUS
  <2>2. Needed(parsers, 0) = <<>> /\ Lacked(parsers, 0) = <<>>
    BY NeededProps
  <2>3. Opens(line', <<>>, <<>>)
    BY OpensPlain, EmptySeq
  <2>4. phase # "up" /\ phase' # "up"
    OBVIOUS
  <2>5. /\ Opens(html, <<>>, <<>>)
        /\ \A i \in DOMAIN parsers :
             Opens(parsers[i].result, Needed(parsers, i - 1), Needed(parsers, i))
    BY <1>1, <2>4 DEF HtmlOK
  <2>6. Opens(line', Needed(parsers', level' - 1), Lacked(parsers', level' - 1))
    BY <2>1, <2>2, <2>3
  <2> QED BY <2>4, <2>5, <2>6 DEF HtmlOK
<1> QED BY <1>4, <1>5, <1>6, <1>7

LEMMA GiveNew ==
  ASSUME IInv, phase = "read", NEW kind \in Kinds, parsers' = <<New(kind)>>,
         IsStartingLine(kind, line'), level' = 1,
         phase' = "down", line' \in Seq(Plain), html' = html, health' = health,
         ended' \in BOOLEAN, doc' \in Seq(Lines), Len(doc') <= MaxLines
  PROVE  /\ TypesOK' /\ ShapeOK' /\ TablesOK' /\ FlagsOK' /\ HtmlOK'
         /\ parsers'[1] = New(kind) /\ Len(parsers') = 1 /\ DOMAIN parsers' = {1}
         /\ Held(parsers', 1) = <<>>
<1> DEFINE p == New(kind)
<1>1. TypesOK /\ HtmlOK
  BY DEF IInv
<1>2. /\ p \in Parser /\ p.kind = kind /\ p.result = <<>> /\ p.table = <<>>
      /\ Need(p) = <<>> /\ Words(Pending(p)) = <<>>
  BY NewProps
<1>3. p = New(p.kind)
  BY <1>2
<1> HIDE DEF p
<1>4. parsers' = <<p>> /\ parsers' \in Seq(Parser) /\ Len(parsers') = 1 /\ parsers'[1] = p
      /\ DOMAIN parsers' = {1}
  <2>1. parsers' = <<p>>
    BY DEF p
  <2>2. parsers' \in Seq(Parser) /\ Len(parsers') = 1 /\ parsers'[1] = p
    BY <1>2, <2>1
  <2> QED BY <2>1, <2>2, LenProperties
<1>5. TypesOK'
  <2>1. level' \in 0 .. Len(parsers') /\ level' # 0
    BY <1>4
  <2> QED BY <1>1, <1>4, <2>1, PlainSeq DEF TypesOK
<1>6. ShapeOK' /\ TablesOK'
  <2>1. ShapeOK'
    BY <1>4 DEF ShapeOK
  <2>2. TablesOK'
    BY <1>2, <1>4 DEF TablesOK
  <2> QED BY <2>1, <2>2
<1>7. FlagsOK'
  <2>1. Seen' = 0 /\ level' - 1 = 0
    BY DEF Seen
  <2>2. \A i \in 1 .. 0 : FALSE
    OBVIOUS
  <2>3. Fresh(p, line')
    BY <1>2, <1>3 DEF Fresh
  <2>4. \A i \in DOMAIN parsers' : ~(i > level')
    BY <1>4
  <2> QED BY <1>4, <2>1, <2>2, <2>3, <2>4 DEF FlagsOK
<1>8. HtmlOK'
  <2>1. level' - 1 = 0 /\ 1 - 1 = 0
    OBVIOUS
  <2>2. Needed(parsers', 0) = <<>> /\ Lacked(parsers', 0) = <<>>
    BY NeededProps
  <2>3. Needed(parsers', 1) = <<>>
    <3>0. 1 \in Nat /\ 1 > 0
      OBVIOUS
    <3>1. Needed(parsers', 1) = Needed(parsers', 1 - 1) \o Need(parsers'[1])
      BY <3>0, NeededProps
    <3> QED BY <1>2, <1>4, <2>1, <2>2, <3>1, EmptySeq, ConcatEmptySeq
  <2>4. Opens(line', <<>>, <<>>) /\ Opens(<<>>, <<>>, <<>>)
    BY OpensPlain, OpensNone, EmptySeq
  <2>5. Opens(html, <<>>, <<>>)
    BY <1>1 DEF HtmlOK
  <2>6. Opens(line', Needed(parsers', level' - 1), Lacked(parsers', level' - 1))
    BY <2>1, <2>2, <2>4
  <2>7. \A i \in DOMAIN parsers' :
          Opens(parsers'[i].result, Needed(parsers', i - 1), Needed(parsers', i))
    BY <1>2, <1>4, <2>1, <2>2, <2>3, <2>4
  <2> QED BY <2>5, <2>6, <2>7 DEF HtmlOK
<1>9. Held(parsers', 1) = <<>>
  <2>1. 1 \in Nat /\ 1 > 0 /\ 1 - 1 = 0 /\ 0 \in Nat
    OBVIOUS
  <2>2. \A i \in 1 .. 1 : parsers'[i] \in Parser
    BY <1>2, <1>4
  <2>3. \A i \in 1 .. 0 : parsers'[i] \in Parser
    OBVIOUS
  <2>4. Held(parsers', 0) = <<>>
    BY <2>1, <2>3, HeldProps
  <2>5. Held(parsers', 1) = Held(parsers', 1 - 1) \o Words(Pending(parsers'[1]))
    BY <2>1, <2>2, HeldProps
  <2> QED BY <1>2, <1>4, <2>1, <2>4, <2>5, EmptySeq, ConcatEmptySeq
<1> QED BY <1>4, <1>5, <1>6, <1>7, <1>8, <1>9 DEF p

-----------------------------------------------------------------------------
(* A document with one more line.                                          *)

WordsOf(d) == [n \in DOMAIN d |-> Words(NthLine(d[n], n))]

LEMMA WrittenIs ==
  ASSUME NEW d \in Seq(Lines), Len(d) <= MaxLines
  PROVE  /\ Concat(WordsOf(d)) = Upto(WordsOf(d), Len(d))
         /\ Concat(WordsOf(d)) \in Seq(Token)
<1> DEFINE f == WordsOf(d)
<1>1. Len(d) \in Nat /\ DOMAIN d = 1 .. Len(d) /\ MaxLines \in Nat
  BY LenProperties, LineAssumption
<1>2. f = [n \in 1 .. Len(d) |-> f[n]]
  BY <1>1 DEF WordsOf
<1>3. ASSUME NEW n \in 1 .. Len(d) PROVE f[n] \in Seq(Token)
  <2>1. d[n] \in Lines /\ n \in 1 .. MaxLines
    BY <1>1, ElementOfSeq
  <2>2. NthLine(d[n], n) \in Seq(Token)
    BY <2>1, NthLineProps, PlainSeq
  <2> QED BY <1>1, <2>2, WordsType DEF WordsOf
<1> HIDE DEF f
<1>4. f \in Seq(Seq(Token)) /\ Len(f) = Len(d)
  <2>1. f \in Seq(Seq(Token)) /\ DOMAIN f = 1 .. Len(d)
    BY <1>1, <1>2, <1>3
  <2> QED BY <1>1, <2>1, LenProperties
<1>5. Concat(f) = Upto(f, Len(f)) /\ Concat(f) \in Seq(Token)
  BY <1>4, UptoAll, ConcatType
<1> QED BY <1>4, <1>5 DEF f

LEMMA OneMoreLine ==
  ASSUME IInv, phase = "read", Len(doc) < MaxLines, NEW l \in Lines, doc' = Append(doc, l)
  PROVE  /\ doc' \in Seq(Lines) /\ Len(doc') = Len(doc) + 1 /\ Len(doc') <= MaxLines
         /\ DOMAIN doc' = 1 .. Len(doc) + 1 /\ doc'[Len(doc) + 1] = l
         /\ \A i \in 1 .. Len(doc) : doc'[i] = doc[i]
         /\ \A j \in 1 .. Len(doc) : Breaks(j) => Breaks(j)'
         /\ Written' = Written \o Words(NthLine(l, Len(doc) + 1))
<1>1. /\ doc \in Seq(Lines) /\ Len(doc) \in Nat /\ DOMAIN doc = 1 .. Len(doc)
      /\ Len(doc) <= MaxLines /\ MaxLines \in Nat
  BY ReadProps
<1>2. /\ doc' \in Seq(Lines) /\ Len(doc') = Len(doc) + 1 /\ doc'[Len(doc) + 1] = l
      /\ \A i \in 1 .. Len(doc) : doc'[i] = doc[i]
  BY <1>1, AppendProperties
<1>3. Len(doc') <= MaxLines /\ DOMAIN doc' = 1 .. Len(doc) + 1
  BY <1>1, <1>2, LenProperties
<1>4. ASSUME NEW j \in 1 .. Len(doc), Breaks(j) PROVE Breaks(j)'
  <2>1. j > 1 /\ doc[j] = Separator /\ doc[j - 1] \in {<<"|table>">>, Separator}
    BY <1>4 DEF Breaks
  <2>2. j - 1 \in 1 .. Len(doc)
    BY <1>1, <2>1
  <2> QED BY <1>2, <2>1, <2>2 DEF Breaks
<1>5. Written' = Written \o Words(NthLine(l, Len(doc) + 1))
  <2> DEFINE f == WordsOf(doc)
             g == WordsOf(doc')
             m == Len(doc)
  <2>1. Written = Upto(f, m)
    BY <1>1, WrittenIs DEF Written, WordsOf
  <2>2. Written' = Upto(g, m + 1)
    BY <1>2, <1>3, WrittenIs DEF Written, WordsOf
  <2>3. g[m + 1] = Words(NthLine(l, m + 1)) /\ m + 1 \in DOMAIN doc'
    <3>1. m + 1 \in DOMAIN doc'
      BY <1>1, <1>3
    <3> QED BY <1>2, <3>1 DEF WordsOf
  <2>4. \A i \in 1 .. m : g[i] = f[i]
    <3>1. \A i \in 1 .. m : i \in DOMAIN doc /\ i \in DOMAIN doc'
      BY <1>1, <1>3
    <3> QED BY <1>2, <3>1 DEF WordsOf
  <2> HIDE DEF f, g, m
  <2>5. m \in Nat
    BY <1>1 DEF m
  <2>6. Upto(g, m + 1) = Upto(g, m) \o g[m + 1] /\ Upto(g, m) = Upto(f, m)
    BY <2>4, <2>5, UptoNext, UptoSame
  <2> QED BY <2>1, <2>2, <2>3, <2>6 DEF m
<1> QED BY <1>2, <1>3, <1>4, <1>5

LEMMA NothingStarts ==
  ASSUME NEW kind PROVE ~IsStartingLine(kind, <<>>)
BY DEF IsStartingLine, HeadIn

(* What a line that is read does, whoever it is given to.                  *)
LEMMA LineRead ==
  ASSUME IInv, phase = "read", Len(doc) < MaxLines, NEW l \in Lines, doc' = Append(doc, l),
         line' = NthLine(l, Len(doc) + 1)
  PROVE  /\ line' \in Seq(Plain) /\ line' \in Seq(Token)
         /\ line' = <<>> <=> l = <<>>
         /\ line' = NthLine(doc'[Len(doc')], Len(doc')) /\ doc' # <<>>
         /\ doc'[Len(doc')] = l
         /\ HeadIn(line', {">"}) => /\ Quotes(line') >= 1
                                    /\ Quotes(line') + 1 - 1 <= Quotes(doc'[Len(doc')])
                                    /\ \E k \in DOMAIN doc' : 1 <= Quotes(doc'[k])
<1>1. Len(doc) \in Nat /\ MaxLines \in Nat
  BY ReadProps
<1>2. /\ doc' \in Seq(Lines) /\ Len(doc') = Len(doc) + 1
      /\ DOMAIN doc' = 1 .. Len(doc) + 1 /\ doc'[Len(doc) + 1] = l
  BY OneMoreLine
<1>3. Len(doc) + 1 \in 1 .. MaxLines /\ Len(doc) + 1 \in DOMAIN doc'
  BY <1>1, <1>2
<1>4. /\ line' \in Seq(Plain) /\ Quotes(line') = Quotes(l)
      /\ line' = <<>> <=> l = <<>>
  BY <1>3, NthLineProps
<1>5. doc' # <<>>
  BY <1>3
<1>6. ASSUME HeadIn(line', {">"})
      PROVE  /\ Quotes(line') >= 1
             /\ Quotes(line') + 1 - 1 <= Quotes(doc'[Len(doc')])
             /\ \E k \in DOMAIN doc' : 1 <= Quotes(doc'[k])
  <2>1. Quotes(line') \in Nat /\ Quotes(line') >= 1
    BY <1>4, <1>6, QuotesPositive
  <2>2. Quotes(doc'[Len(doc) + 1]) = Quotes(line')
    BY <1>2, <1>4
  <2>3. 1 <= Quotes(doc'[Len(doc) + 1])
    BY <2>1, <2>2
  <2> QED BY <1>2, <1>3, <2>1, <2>2, <2>3
<1> QED BY <1>2, <1>4, <1>5, <1>6, PlainSeq

LEMMA ReadByOld ==
  ASSUME IInv, phase = "read", Len(doc) < MaxLines, NEW l \in Lines, doc' = Append(doc, l),
         line' = NthLine(l, Len(doc) + 1), health = "sound",
         parsers # <<>>, parsers' = parsers, level' = 1, phase' = "down",
         UNCHANGED <<ended, html, health>>
  PROVE  IInv'
<1>1. /\ ~ended /\ parsers \in Seq(Parser) /\ Len(parsers) \in Nat
      /\ DOMAIN parsers = 1 .. Len(parsers) /\ Len(doc) \in Nat /\ DOMAIN doc = 1 .. Len(doc)
      /\ SoFar = Len(doc) /\ html \in Seq(Token) /\ doc \in Seq(Lines) /\ Len(doc) <= MaxLines
  BY ReadProps
<1>2. TypesOK /\ TableOK /\ QuotesOK /\ EmptyOK /\ WordsOK
  BY DEF IInv
<1>3. /\ doc' \in Seq(Lines) /\ Len(doc') = Len(doc) + 1 /\ Len(doc') <= MaxLines
      /\ DOMAIN doc' = 1 .. Len(doc) + 1
      /\ \A i \in 1 .. Len(doc) : doc'[i] = doc[i]
      /\ \A j \in 1 .. Len(doc) : Breaks(j) => Breaks(j)'
      /\ Written' = Written \o Words(NthLine(l, Len(doc) + 1))
  BY OneMoreLine
<1>4. /\ line' \in Seq(Plain) /\ line' \in Seq(Token)
      /\ line' = <<>> <=> l = <<>>
      /\ line' = NthLine(doc'[Len(doc')], Len(doc')) /\ doc' # <<>>
      /\ doc'[Len(doc')] = l
      /\ HeadIn(line', {">"}) => Quotes(line') + 1 - 1 <= Quotes(doc'[Len(doc')])
  BY LineRead
<1>5. TypesOK' /\ ShapeOK' /\ TablesOK' /\ FlagsOK' /\ HtmlOK'
  <2>1. ended' \in BOOLEAN /\ html' = html /\ health' = health
    BY <1>2 DEF TypesOK
  <2> QED BY <1>3, <1>4, <2>1, GiveOld
<1>6. WordsOK'
  <2>1. Words(html) \o Held(parsers, Len(parsers)) \o <<>> = Written
    BY <1>2 DEF WordsOK
  <2>2. Words(html) \o Held(parsers, Len(parsers)) \in Seq(Token)
    <3>1. \A i \in 1 .. Len(parsers) : parsers[i] \in Parser
      BY <1>1, ElementOfSeq
    <3>2. Held(parsers, Len(parsers)) \in Seq(Token) /\ Words(html) \in Seq(Token)
      BY <1>1, <3>1, HeldProps, WordsType
    <3> QED BY <3>2, ConcatProperties
  <2>3. Words(html) \o Held(parsers, Len(parsers)) = Written
    BY <2>1, <2>2, ConcatEmptySeq
  <2> QED BY <1>3, <2>3 DEF WordsOK
<1>7. LineOK' /\ EndOK'
  BY <1>1, <1>4 DEF LineOK, EndOK
<1>8. TableOK'
  <2>1. SoFar' = Len(doc)
    BY <1>1, <1>3 DEF SoFar
  <2> SUFFICES ASSUME parsers[1].kind = "table", ~parsers[1].isFinished
               PROVE  /\ Len(parsers[1].table) <= parsers[1].currentBlock + 1
                      /\ parsers[1].isStarted /\ Len(parsers[1].table) = parsers[1].currentBlock =>
                           Len(doc) > 0 /\ doc'[Len(doc)] \in {<<"|table>">>, Separator}
                      /\ Len(parsers[1].table) < parsers[1].currentBlock =>
                           \E j \in 1 .. Len(doc) : Breaks(j)'
    BY <2>1 DEF TableOK
  <2>2. /\ Len(parsers[1].table) <= parsers[1].currentBlock + 1
        /\ parsers[1].isStarted /\ Len(parsers[1].table) = parsers[1].currentBlock =>
             Len(doc) > 0 /\ doc[Len(doc)] \in {<<"|table>">>, Separator}
        /\ Len(parsers[1].table) < parsers[1].currentBlock => \E j \in 1 .. Len(doc) : Breaks(j)
    BY <1>1, <1>2 DEF TableOK
  <2>3. Len(doc) > 0 => doc'[Len(doc)] = doc[Len(doc)]
    <3>1. Len(doc) > 0 => Len(doc) \in 1 .. Len(doc)
      BY <1>1
    <3> QED BY <1>3, <3>1
  <2> QED BY <1>3, <2>2, <2>3
<1>9. QuotesOK'
  <2>1. ASSUME NEW i \in DOMAIN parsers, parsers[i].kind = "quote"
        PROVE  \E k \in DOMAIN doc' : i <= Quotes(doc'[k])
    <3>1. PICK k \in DOMAIN doc : i <= Quotes(doc[k])
      BY <1>2, <2>1 DEF QuotesOK
    <3>2. k \in DOMAIN doc' /\ doc'[k] = doc[k]
      BY <1>1, <1>3
    <3> QED BY <3>1, <3>2
  <2> QED BY <1>4, <2>1 DEF QuotesOK
<1>10. EmptyOK'
  <2> SUFFICES ASSUME Ending'
               PROVE  (\A i \in 1 .. 0 : FALSE) /\ Shrinking' /\ line' = <<>>
    <3>1. level' - 1 = 0
      OBVIOUS
    <3> QED BY <3>1 DEF EmptyOK
  <2>1. line' = <<>> /\ parsers[1].kind \notin {"code", "table"}
    BY <1>4 DEF Ending
  <2>2. ASSUME NEW n \in 1 .. Len(doc') - 1, AreEmpty(n + 1)'
        PROVE  OnlyQuotes(n)'
    <3>1. n \in 1 .. Len(doc) /\ Len(doc) \in DOMAIN doc /\ n \in Int
      BY <1>1, <1>3, <2>2
    <3>2. \A i \in Len(doc') - (n + 1) + 1 .. Len(doc') : doc'[i] = <<>>
      BY <2>2 DEF AreEmpty
    <3>3. AreEmpty(n)
      <4>1. ASSUME NEW i \in Len(doc) - n + 1 .. Len(doc) PROVE doc[i] = <<>>
        <5>1. i \in Len(doc') - (n + 1) + 1 .. Len(doc') /\ i \in 1 .. Len(doc)
          BY <1>1, <1>3, <3>1
        <5> QED BY <1>3, <3>2, <5>1
      <4> QED BY <4>1 DEF AreEmpty
    <3>4. Ending
      <4>1. Len(doc) \in Len(doc) - n + 1 .. Len(doc)
        BY <1>1, <3>1
      <4>2. doc[Len(doc)] = <<>>
        BY <3>3, <4>1 DEF AreEmpty
      <4>3. doc # <<>>
        BY <3>1
      <4> QED BY <1>1, <2>1, <4>2, <4>3 DEF Ending
    <3>5. OnlyQuotes(n)
      BY <1>2, <3>1, <3>3, <3>4 DEF EmptyOK, Shrunk
    <3>6. ASSUME NEW i \in DOMAIN parsers
          PROVE  parsers[i].kind = "quote" /\ \E k \in DOMAIN doc' : i + n <= Quotes(doc'[k]) + 1
      <4>1. PICK k \in DOMAIN doc : i + n <= Quotes(doc[k]) + 1
        BY <3>5 DEF OnlyQuotes
      <4>2. k \in DOMAIN doc' /\ doc'[k] = doc[k]
        BY <1>1, <1>3
      <4> QED BY <3>5, <4>1, <4>2 DEF OnlyQuotes
    <3> QED BY <3>6 DEF OnlyQuotes
  <2> QED BY <2>1, <2>2 DEF Shrinking
<1> QED BY <1>5, <1>6, <1>7, <1>8, <1>9, <1>10 DEF IInv

LEMMA ReadByNew ==
  ASSUME IInv, phase = "read", Len(doc) < MaxLines, NEW l \in Lines, doc' = Append(doc, l),
         line' = NthLine(l, Len(doc) + 1), health = "sound", parsers = <<>>,
         NEW kind \in Kinds, parsers' = <<New(kind)>>, IsStartingLine(kind, line'),
         level' = 1, phase' = "down", UNCHANGED <<ended, html, health>>
  PROVE  IInv'
<1>1. /\ ~ended /\ Len(doc) \in Nat /\ html \in Seq(Token)
  BY ReadProps
<1>2. TypesOK /\ WordsOK
  BY DEF IInv
<1>3. /\ doc' \in Seq(Lines) /\ Len(doc') = Len(doc) + 1 /\ Len(doc') <= MaxLines
      /\ Written' = Written \o Words(NthLine(l, Len(doc) + 1))
  BY OneMoreLine
<1>4. /\ line' \in Seq(Plain) /\ line' \in Seq(Token)
      /\ line' = <<>> <=> l = <<>>
      /\ line' = NthLine(doc'[Len(doc')], Len(doc')) /\ doc' # <<>>
      /\ doc'[Len(doc')] = l
      /\ HeadIn(line', {">"}) => /\ Quotes(line') + 1 - 1 <= Quotes(doc'[Len(doc')])
                                 /\ \E k \in DOMAIN doc' : 1 <= Quotes(doc'[k])
  BY LineRead
<1>5. /\ TypesOK' /\ ShapeOK' /\ TablesOK' /\ FlagsOK' /\ HtmlOK'
      /\ parsers'[1] = New(kind) /\ Len(parsers') = 1 /\ DOMAIN parsers' = {1}
      /\ Held(parsers', 1) = <<>>
  <2>1. ended' \in BOOLEAN /\ html' = html /\ health' = health
    BY <1>2 DEF TypesOK
  <2> QED BY <1>3, <1>4, <2>1, GiveNew
<1>6. /\ New(kind).kind = kind /\ New(kind).table = <<>> /\ New(kind).currentBlock = 0
      /\ ~New(kind).isStarted
  BY NewProps
<1>7. WordsOK'
  <2>1. (Words(html) \o Held(parsers, Len(parsers))) \o <<>> = Written
    BY <1>2 DEF WordsOK
  <2>2. Held(parsers, Len(parsers)) = <<>>
    <3>1. Len(parsers) = 0 /\ \A i \in 1 .. 0 : parsers[i] \in Parser
      BY EmptySeq
    <3> QED BY <3>1, HeldProps
  <2>3. Words(html) \o <<>> = Words(html) /\ Words(html) \in Seq(Token)
    BY <1>1, WordsType, ConcatEmptySeq
  <2> QED BY <1>3, <1>5, <2>1, <2>2, <2>3 DEF WordsOK
<1>8. LineOK' /\ EndOK'
  BY <1>1, <1>4 DEF LineOK, EndOK
<1>9. TableOK'
  <2>1. Len(<<>>) = 0 /\ 0 <= 0 + 1 /\ ~(0 < 0)
    BY EmptySeq
  <2>2. /\ Len(parsers'[1].table) <= parsers'[1].currentBlock + 1
        /\ ~parsers'[1].isStarted
        /\ ~(Len(parsers'[1].table) < parsers'[1].currentBlock)
    BY <1>5, <1>6, <2>1
  <2> QED BY <2>2 DEF TableOK
<1>10. QuotesOK'
  <2>1. ASSUME kind = "quote" PROVE HeadIn(line', {">"})
    BY <2>1 DEF IsStartingLine
  <2>2. ASSUME NEW i \in DOMAIN parsers', parsers'[i].kind = "quote"
        PROVE  \E k \in DOMAIN doc' : i <= Quotes(doc'[k])
    BY <1>4, <1>5, <1>6, <2>1, <2>2
  <2> QED BY <1>4, <2>2 DEF QuotesOK
<1>11. EmptyOK'
  <2> SUFFICES ASSUME Ending' PROVE FALSE
    BY DEF EmptyOK
  <2>1. line' = <<>>
    BY <1>4 DEF Ending
  <2> QED BY <2>1, NothingStarts
<1> QED BY <1>5, <1>7, <1>8, <1>9, <1>10, <1>11 DEF IInv

(* An empty line that no parser is open for.                               *)
LEMMA ReadByNone ==
  ASSUME IInv, phase = "read", Len(doc) < MaxLines, NEW l \in Lines, doc' = Append(doc, l),
         line' = NthLine(l, Len(doc) + 1), line' = <<>>, health = "sound", parsers = <<>>,
         parsers' = <<>>, level' = 0, phase' = "read", UNCHANGED <<ended, html, health>>
  PROVE  IInv'
<1>1. /\ ~ended /\ level = 0 /\ Len(doc) \in Nat /\ DOMAIN parsers = 1 .. Len(parsers)
      /\ html \in Seq(Token)
  BY ReadProps
<1>2. TypesOK /\ WordsOK /\ HtmlOK
  BY DEF IInv
<1>3. /\ doc' \in Seq(Lines) /\ Len(doc') <= MaxLines
      /\ Written' = Written \o Words(NthLine(l, Len(doc) + 1))
  BY OneMoreLine
<1>4. parsers' = parsers /\ Len(parsers) = 0 /\ DOMAIN parsers = {}
  BY <1>1, EmptySeq
<1>5. TypesOK'
  <2>1. line' \in Seq(Token)
    BY LineRead
  <2> QED BY <1>1, <1>2, <1>3, <1>4, <2>1 DEF TypesOK
<1>6. ShapeOK' /\ TablesOK' /\ LineOK' /\ EndOK' /\ EmptyOK' /\ TableOK' /\ QuotesOK'
  BY <1>4 DEF ShapeOK, TablesOK, LineOK, EndOK, EmptyOK, TableOK, QuotesOK, Ending
<1>7. FlagsOK'
  <2>1. Seen' = 0 /\ (\A i \in 1 .. 0 : FALSE) /\ (\A i \in 1 .. level' - 1 : FALSE)
    BY DEF Seen
  <2> QED BY <1>4, <2>1 DEF FlagsOK
<1>8. HtmlOK'
  BY <1>2, <1>4 DEF HtmlOK
<1>9. WordsOK'
  <2>1. (Words(html) \o Held(parsers, Len(parsers))) \o <<>> = Written
    BY <1>2 DEF WordsOK
  <2>2. Written' = Written
    <3>1. \A i \in 1 .. Len(parsers) : parsers[i] \in Parser
      BY <1>4
    <3>2. Held(parsers, Len(parsers)) \in Seq(Token) /\ Words(html) \in Seq(Token)
      BY <1>1, <1>4, <3>1, HeldProps, WordsType
    <3>3. Written \in Seq(Token)
      BY <2>1, <3>2, ConcatProperties, EmptySeq
    <3> QED BY <1>3, <3>3, WordsNone, ConcatEmptySeq
  <2> QED BY <1>4, <2>1, <2>2 DEF WordsOK
<1> QED BY <1>5, <1>6, <1>7, <1>8, <1>9 DEF IInv

LEMMA ReadLineInv ==
  ASSUME IInv, health = "sound", ReadLine
  PROVE  IInv'
<1>1. PICK l \in Lines : doc' = Append(doc, l) /\ Give(NthLine(l, Len(doc) + 1))
  BY DEF ReadLine
<1> DEFINE m == NthLine(l, Len(doc) + 1)
           open == IF parsers = <<>> THEN ParserFor(Blocks, m) ELSE parsers
<1>2. phase = "read" /\ Len(doc) < MaxLines
  BY DEF ReadLine
<1>3. /\ parsers' = open /\ line' = m /\ UNCHANGED <<ended, html, health>>
      /\ IF open = <<>> THEN level' = 0 /\ phase' = "read" ELSE level' = 1 /\ phase' = "down"
  BY <1>1 DEF Give
<1> HIDE DEF m
<1>4. CASE parsers # <<>>
  <2>1. parsers' = parsers /\ level' = 1 /\ phase' = "down"
    BY <1>3, <1>4
  <2> QED BY <1>1, <1>2, <1>3, <1>4, <2>1, ReadByOld DEF m
<1>5. CASE parsers = <<>> /\ ParserFor(Blocks, m) = <<>>
  <2>1. m = <<>> /\ parsers' = <<>> /\ level' = 0 /\ phase' = "read"
    BY <1>3, <1>5, BlocksProps
  <2> QED BY <1>1, <1>2, <1>3, <1>5, <2>1, ReadByNone DEF m
<1>6. CASE parsers = <<>> /\ ParserFor(Blocks, m) # <<>>
  <2>1. PICK i \in 1 .. Len(Blocks) :
          ParserFor(Blocks, m) = <<New(Blocks[i])>> /\ IsStartingLine(Blocks[i], m)
    BY <1>6, BlocksProps, ParserForProps
  <2>2. Blocks[i] \in Kinds
    BY BlocksProps, ElementOfSeq
  <2>3. parsers' = <<New(Blocks[i])>> /\ level' = 1 /\ phase' = "down"
    BY <1>3, <1>6, <2>1
  <2> QED BY <1>1, <1>2, <1>3, <1>6, <2>1, <2>2, <2>3, ReadByNew DEF m
<1> QED BY <1>4, <1>5, <1>6

LEMMA EndOfFileInv ==
  ASSUME IInv, health = "sound", EndOfFile
  PROVE  IInv'
<1>1. /\ phase = "read" /\ ended' = TRUE /\ UNCHANGED <<doc, html, health>>
      /\ IF parsers = <<>>
         THEN phase' = "done" /\ UNCHANGED <<parsers, line, level>>
         ELSE phase' = "down" /\ parsers' = parsers /\ line' = <<>> /\ level' = 1
  BY DEF EndOfFile
<1>2. /\ ~ended /\ level = 0 /\ Len(doc) \in Nat /\ DOMAIN parsers = 1 .. Len(parsers)
      /\ html \in Seq(Token) /\ SoFar = Len(doc) /\ parsers' = parsers
      /\ doc \in Seq(Lines) /\ Len(doc) <= MaxLines
  BY <1>1, ReadProps
<1>3. TypesOK /\ ShapeOK /\ TablesOK /\ HtmlOK /\ WordsOK /\ TableOK /\ QuotesOK /\ FlagsOK
  BY DEF IInv
<1>4. SoFar' = Len(doc) /\ \A j : Breaks(j)' = Breaks(j)
  BY <1>1 DEF SoFar, Breaks
<1>5. EmptyOK' /\ TableOK'
  <2>1. ~Ending'
    BY <1>1 DEF Ending
  <2> QED BY <1>1, <1>2, <1>3, <1>4, <2>1 DEF EmptyOK, TableOK
<1>6. Written' = Written
  BY <1>1 DEF Written
<1>7. CASE parsers = <<>>
  <2>1. phase' = "done" /\ UNCHANGED <<parsers, line, level>>
    BY <1>1, <1>7
  <2>2. TypesOK'
    BY <1>1, <1>2, <1>3, <2>1 DEF TypesOK
  <2>3. ShapeOK' /\ TablesOK' /\ QuotesOK' /\ LineOK' /\ EndOK' /\ HtmlOK'
    BY <1>1, <1>3, <1>7, <2>1 DEF ShapeOK, TablesOK, QuotesOK, LineOK, EndOK, HtmlOK
  <2>4. FlagsOK'
    BY <1>1, <1>3, <2>1 DEF FlagsOK, Seen
  <2>5. WordsOK'
    BY <1>1, <1>3, <1>6, <2>1 DEF WordsOK
  <2> QED BY <1>5, <2>2, <2>3, <2>4, <2>5 DEF IInv
<1>8. CASE parsers # <<>>
  <2>1. phase' = "down" /\ line' = <<>> /\ level' = 1
    BY <1>1, <1>8
  <2>2. TypesOK' /\ ShapeOK' /\ TablesOK' /\ FlagsOK' /\ HtmlOK'
    <3>1. line' \in Seq(Plain) /\ ended' \in BOOLEAN /\ doc' \in Seq(Lines)
          /\ Len(doc') <= MaxLines /\ html' = html /\ health' = health
      BY <1>1, <1>2, <2>1, EmptySeq
    <3> QED BY <1>1, <1>2, <1>8, <2>1, <3>1, GiveOld
  <2>3. WordsOK'
    BY <1>1, <1>2, <1>3, <1>6, <2>1, WordsNone DEF WordsOK
  <2>4. LineOK' /\ EndOK'
    BY <1>1, <2>1 DEF LineOK, EndOK
  <2>5. QuotesOK'
    <3>1. ~HeadIn(line', {">"})
      BY <2>1 DEF HeadIn
    <3> QED BY <1>1, <1>2, <1>3, <3>1 DEF QuotesOK
  <2> QED BY <1>5, <2>2, <2>3, <2>4, <2>5 DEF IInv
<1> QED BY <1>7, <1>8

-----------------------------------------------------------------------------
(* A parser returns.                                                       *)

LEMMA UpProps ==
  ASSUME IInv, phase = "up"
  PROVE  /\ level \in 1 .. Len(parsers) /\ level \in Nat \ {0} /\ level - 1 \in Nat
         /\ Len(parsers) \in Nat \ {0} /\ DOMAIN parsers = 1 .. Len(parsers) /\ parsers # <<>>
         /\ parsers \in Seq(Parser) /\ \A i \in 1 .. Len(parsers) : parsers[i] \in Parser
         /\ Current = parsers[level] /\ Current \in Parser
         /\ Current.isFinished => level = Len(parsers)
         /\ ~Current.isFinished => \A i \in 1 .. level : IsOpen(parsers[i])
         /\ SoFar = Len(doc) /\ Seen = level
<1>1. TypesOK /\ FlagsOK
  BY DEF IInv
<1>2. level > 0
  BY <1>1 DEF TypesOK
<1>3. /\ level \in 1 .. Len(parsers) /\ level \in Nat \ {0} /\ level - 1 \in Nat
      /\ Len(parsers) \in Nat \ {0} /\ DOMAIN parsers = 1 .. Len(parsers) /\ parsers # <<>>
      /\ parsers \in Seq(Parser) /\ \A i \in 1 .. Len(parsers) : parsers[i] \in Parser
      /\ Current = parsers[level] /\ Current \in Parser
  BY <1>1, <1>2, ParserProps
<1>4. Seen = level /\ SoFar = Len(doc)
  BY DEF Seen, SoFar
<1>5. Current.isFinished => level = Len(parsers)
  BY <1>1, <1>3 DEF FlagsOK
<1>6. ASSUME ~Current.isFinished, NEW i \in 1 .. level PROVE IsOpen(parsers[i])
  <2>1. CASE i = level
    BY <1>1, <1>3, <1>6, <2>1 DEF FlagsOK
  <2>2. CASE i # level
    <3>1. i \in 1 .. level - 1 /\ i < level /\ level \in 1 .. level
      BY <1>3, <2>2
    <3>2. parsers[i].isStarted /\ parsers[i].kind \notin {"headline", "hr"}
      BY <1>1, <3>1 DEF FlagsOK
    <3>3. ~parsers[i].isFinished
      BY <1>1, <1>3, <1>4, <1>6, <3>1 DEF FlagsOK
    <3> QED BY <3>2, <3>3 DEF IsOpen
  <2> QED BY <2>1, <2>2
<1> QED BY <1>3, <1>4, <1>5, <1>6

(* One that stays open.                                                    *)
LEMMA ReturnOpen ==
  ASSUME IInv, health = "sound", phase = "up", ~Current.isFinished,
         parsers' = parsers, html' = html, level' = level - 1,
         phase' = IF level > 1 THEN "up" ELSE IF ended THEN "done" ELSE "read",
         UNCHANGED <<doc, line, ended, health>>
  PROVE  IInv'
<1>1. /\ TypesOK /\ ShapeOK /\ TablesOK /\ FlagsOK /\ HtmlOK /\ WordsOK /\ EndOK
      /\ TableOK /\ QuotesOK /\ EmptyOK
  BY DEF IInv
<1>2. /\ level \in 1 .. Len(parsers) /\ level \in Nat \ {0} /\ level - 1 \in Nat
      /\ Len(parsers) \in Nat \ {0} /\ DOMAIN parsers = 1 .. Len(parsers)
      /\ Current = parsers[level] /\ \A i \in 1 .. level : IsOpen(parsers[i])
      /\ SoFar = Len(doc)
  BY UpProps
<1>3. /\ phase' # "down" /\ (phase' = "up" => level > 1)
      /\ (phase' = "read" => ~ended /\ level = 1) /\ (phase' = "done" => ended /\ level = 1)
      /\ phase' \in {"read", "up", "done"}
  BY <1>2
<1>4. SoFar' = Len(doc) /\ Seen' = level - 1
  BY <1>3 DEF SoFar, Seen
<1>5. TypesOK'
  <2>1. level - 1 \in 0 .. Len(parsers) /\ (level - 1 = 0 <=> level = 1)
    BY <1>2
  <2> QED BY <1>1, <1>2, <1>3, <2>1 DEF TypesOK
<1>6. ShapeOK' /\ TablesOK'
  BY <1>1 DEF ShapeOK, TablesOK
<1>7. FlagsOK'
  <2>1. ASSUME NEW i \in DOMAIN parsers, i > level - 1 PROVE IsOpen(parsers[i])
    <3>1. i > level \/ i \in 1 .. level
      BY <1>2, <2>1
    <3> QED BY <1>1, <1>2, <3>1 DEF FlagsOK
  <2>2. \A i \in 1 .. level - 1 : i \in 1 .. level
    BY <1>2
  <2>3. \A i \in 1 .. (level - 1) - 1 : i \in 1 .. level
    BY <1>2
  <2>4. \A i \in 1 .. (level - 1) - 1 :
          parsers[i].isStarted /\ parsers[i].kind \notin {"headline", "hr"}
    BY <1>2, <2>3 DEF IsOpen
  <2>5. \A i, j \in 1 .. level - 1 :
          i < j /\ parsers[i].isFinished => parsers[j].isFinished
    BY <1>2, <2>2 DEF IsOpen
  <2>6. phase' = "up" => IsOpen(parsers[level - 1]) /\ ~parsers[level - 1].isFinished
    <3>1. phase' = "up" => level - 1 \in 1 .. level
      BY <1>2, <1>3
    <3> QED BY <1>2, <3>1 DEF IsOpen
  <2> QED BY <1>3, <1>4, <2>1, <2>4, <2>5, <2>6 DEF FlagsOK
<1>8. HtmlOK'
  <2>1. ASSUME NEW i \in 1 .. level PROVE Lacked(parsers, i) = Needed(parsers, i)
    <3>1. i \in Nat /\ \A j \in 1 .. i : j \in 1 .. level
      BY <1>2
    <3>2. \A j \in 1 .. i : ~parsers[j].isFinished
      BY <1>2, <3>1 DEF IsOpen
    <3> QED BY <3>1, <3>2, LackedIsNeeded
  <2>2. level \in 1 .. level
    BY <1>2
  <2>3. ASSUME NEW i \in DOMAIN parsers
        PROVE  Opens(parsers[i].result, Needed(parsers, i - 1), Needed(parsers, i))
    <3>1. CASE i = level
      <4>1. Opens(parsers[level].result, Needed(parsers, level - 1), Lacked(parsers, level))
        BY <1>1 DEF HtmlOK
      <4> QED BY <2>1, <2>2, <3>1, <4>1
    <3>2. CASE i # level
      BY <1>1, <3>2 DEF HtmlOK
    <3> QED BY <3>1, <3>2
  <2>4. ASSUME phase' = "up"
        PROVE  Opens(parsers[level - 1].result, Needed(parsers, (level - 1) - 1),
                     Lacked(parsers, level - 1))
    <3>1. level - 1 \in 1 .. level /\ level - 1 \in DOMAIN parsers
      BY <1>2, <1>3, <2>4
    <3> QED BY <2>1, <2>3, <3>1
  <2>5. Opens(html, <<>>, <<>>)
    BY <1>1 DEF HtmlOK
  <2> QED BY <1>3, <2>3, <2>4, <2>5 DEF HtmlOK
<1>9. WordsOK'
  <2>1. Written' = Written
    BY DEF Written
  <2> QED BY <1>1, <1>3, <2>1 DEF WordsOK
<1>10. LineOK' /\ EndOK' /\ QuotesOK'
  BY <1>1, <1>3 DEF LineOK, EndOK, QuotesOK
<1>11. TableOK'
  <2>1. \A j : Breaks(j)' = Breaks(j)
    BY DEF Breaks
  <2> QED BY <1>1, <1>2, <1>4, <2>1 DEF TableOK
<1>12. EmptyOK'
  <2> SUFFICES ASSUME Ending'
               PROVE  /\ Shrunk'
                      /\ \A i \in 1 .. (level - 1) - 1 :
                           parsers[i].kind = "quote" \/ parsers[i].isFinished
                      /\ phase' = "up" => ~parsers[level - 1].isFinished
    BY <1>3 DEF EmptyOK
  <2>1. Ending
    BY DEF Ending
  <2>2. Shrunk
    BY <1>1, <1>2, <2>1 DEF EmptyOK
  <2>3. Shrunk'
    BY <2>2 DEF Shrunk, AreEmpty, OnlyQuotes
  <2>4. \A i \in 1 .. (level - 1) - 1 : parsers[i].kind = "quote" \/ parsers[i].isFinished
    <3>1. \A i \in 1 .. (level - 1) - 1 : i \in 1 .. level - 1
      BY <1>2
    <3> QED BY <1>1, <2>1, <3>1 DEF EmptyOK
  <2>5. phase' = "up" => ~parsers[level - 1].isFinished
    <3>1. phase' = "up" => level - 1 \in 1 .. level
      BY <1>2, <1>3
    <3> QED BY <1>2, <3>1 DEF IsOpen
  <2> QED BY <2>3, <2>4, <2>5
<1> QED BY <1>5, <1>6, <1>7, <1>8, <1>9, <1>10, <1>11, <1>12 DEF IInv

(* The outermost parser that has finished.                                 *)
LEMMA ReturnOuter ==
  ASSUME IInv, health = "sound", phase = "up", Current.isFinished, level = 1,
         parsers' = <<>>, html' = html \o Current.result, level' = 0,
         phase' = IF ended THEN "done" ELSE "read", UNCHANGED <<doc, line, ended, health>>
  PROVE  IInv'
<1>1. TypesOK /\ HtmlOK /\ WordsOK
  BY DEF IInv
<1>2. /\ Len(parsers) = 1 /\ Current = parsers[1] /\ Current \in Parser
      /\ \A i \in 1 .. 1 : parsers[i] \in Parser
  BY UpProps
<1> DEFINE r == Current.result
<1>3. r \in Seq(Token) /\ html \in Seq(Token)
  BY <1>1, <1>2 DEF Parser, TypesOK
<1> HIDE DEF r
<1>4. html' = html \o r
  BY DEF r
<1>5. Len(parsers') = 0 /\ DOMAIN parsers' = {}
  BY EmptySeq
<1>6. TypesOK'
  <2>1. html' \in Seq(Token)
    BY <1>3, <1>4, ConcatProperties
  <2>2. parsers' \in Seq(Parser) /\ level' \in 0 .. Len(parsers') /\ ended \in BOOLEAN
    BY <1>1, <1>5, EmptySeq DEF TypesOK
  <2> QED BY <1>1, <2>1, <2>2 DEF TypesOK
<1>7. ShapeOK' /\ TablesOK' /\ LineOK' /\ EndOK' /\ EmptyOK' /\ TableOK' /\ QuotesOK'
  BY <1>5 DEF ShapeOK, TablesOK, LineOK, EndOK, EmptyOK, TableOK, QuotesOK, Ending
<1>8. FlagsOK'
  <2>1. Seen' = 0 /\ (\A i \in 1 .. 0 : FALSE) /\ (\A i \in 1 .. level' - 1 : FALSE)
    BY DEF Seen
  <2> QED BY <1>5, <2>1 DEF FlagsOK
<1>9. HtmlOK'
  <2>1. /\ Opens(html, <<>>, <<>>)
        /\ Opens(r, Needed(parsers, level - 1), Lacked(parsers, level))
    BY <1>1 DEF HtmlOK, r, Current
  <2>2. level - 1 = 0 /\ level \in Nat /\ level > 0
    OBVIOUS
  <2>3. Needed(parsers, level - 1) = <<>>
    BY <2>2, NeededProps
  <2>4. Lacked(parsers, level) = <<>>
    <3>1. Lacked(parsers, level) = Lacked(parsers, level - 1) \o Lacks(parsers[level])
      BY <2>2, NeededProps
    <3>2. Lacked(parsers, level - 1) = <<>>
      BY <2>2, NeededProps
    <3>3. Lacks(parsers[level]) = <<>>
      BY <1>2 DEF Lacks
    <3> QED BY <3>1, <3>2, <3>3, EmptySeq, ConcatEmptySeq
  <2>5. Opens(html \o r, <<>>, <<>>)
    BY <1>3, <2>1, <2>3, <2>4, OpensBoth
  <2> QED BY <1>4, <1>5, <2>5 DEF HtmlOK
<1>10. WordsOK'
  <2>1. (Words(html) \o Held(parsers, 1)) \o <<>> = Written
    BY <1>1, <1>2 DEF WordsOK
  <2>2. Held(parsers, 1) = Words(r)
    <3>1. 1 \in Nat /\ 1 > 0 /\ 1 - 1 = 0 /\ 0 \in Nat /\ \A i \in 1 .. 0 : parsers[i] \in Parser
      OBVIOUS
    <3>2. Held(parsers, 1) = Held(parsers, 1 - 1) \o Words(Pending(parsers[1]))
      BY <1>2, <3>1, HeldProps
    <3>3. Held(parsers, 0) = <<>>
      BY <3>1, HeldProps
    <3>4. Pending(parsers[1]) = r
      BY <1>2 DEF Pending, r
    <3> QED BY <1>3, <3>1, <3>2, <3>3, <3>4, WordsType, ConcatEmptySeq
  <2>3. Words(html \o r) = Words(html) \o Words(r)
    BY <1>3, WordsBoth
  <2>4. Held(parsers', Len(parsers')) = <<>>
    <3>1. \A i \in 1 .. 0 : parsers'[i] \in Parser
      OBVIOUS
    <3> QED BY <1>5, <3>1, HeldProps
  <2>5. Words(html \o r) \o <<>> = Words(html \o r)
    BY <1>3, ConcatProperties, WordsType, ConcatEmptySeq
  <2>6. Written' = Written
    BY DEF Written
  <2> QED BY <1>4, <2>1, <2>2, <2>3, <2>4, <2>5, <2>6 DEF WordsOK
<1> QED BY <1>6, <1>7, <1>8, <1>9, <1>10 DEF IInv

-----------------------------------------------------------------------------
(* One that another has handed its line to.                                *)
TakesResult ==
  /\ phase = "up" /\ Current.isFinished /\ level # 1 /\ level = Len(parsers)
  /\ parsers' = [SubSeq(parsers, 1, level - 1) EXCEPT
                   ![level - 1] = Write(@, Current.result)]
  /\ html' = html /\ level' = level - 1 /\ phase' = "up"
  /\ UNCHANGED <<doc, line, ended, health>>

LEMMA Taken ==
  ASSUME IInv, TakesResult, NEW n, n = level - 1, NEW p, p = parsers[level - 1],
         NEW r, r = Current.result
  PROVE  /\ n \in Nat \ {0} /\ n - 1 \in Nat /\ n + 1 = Len(parsers) /\ level = n + 1
         /\ p \in Parser /\ p.table = <<>> /\ p.kind # "table" /\ parsers[1].kind # "table"
         /\ r \in Seq(Token) /\ p.isStarted /\ p.kind \notin {"headline", "hr"}
         /\ parsers' \in Seq(Parser) /\ Len(parsers') = n /\ DOMAIN parsers' = 1 .. n
         /\ \A i \in 1 .. n : parsers'[i] \in Parser
         /\ parsers'[n] = Write(p, r)
         /\ \A i \in 1 .. n - 1 : parsers'[i] = parsers[i]
         /\ \A i \in 1 .. n : /\ parsers'[i].kind = parsers[i].kind
                              /\ parsers'[i].isStarted = parsers[i].isStarted
                              /\ parsers'[i].isFinished = parsers[i].isFinished
                              /\ parsers'[i].table = parsers[i].table
<1>1. TypesOK /\ ShapeOK /\ TablesOK /\ FlagsOK
  BY DEF IInv
<1>2. /\ level \in 1 .. Len(parsers) /\ Len(parsers) \in Nat \ {0} /\ level = Len(parsers)
      /\ parsers \in Seq(Parser) /\ \A i \in 1 .. Len(parsers) : parsers[i] \in Parser
      /\ Current \in Parser /\ level # 1 /\ DOMAIN parsers = 1 .. Len(parsers)
  BY UpProps DEF TakesResult
<1>3. /\ n \in Nat \ {0} /\ n - 1 \in Nat /\ n + 1 = Len(parsers) /\ level = n + 1
      /\ n \in 1 .. Len(parsers) /\ n < Len(parsers) /\ n \in 1 .. n
      /\ 1 \in 1 .. Len(parsers) /\ 1 < Len(parsers)
  BY <1>2
<1>4. p \in Parser /\ r \in Seq(Token) /\ p = parsers[n]
  BY <1>2, <1>3 DEF Parser
<1>5. /\ parsers[n].kind \in Lists \cup {"quote"} /\ parsers[1].kind \in Lists \cup {"quote"}
  BY <1>1, <1>3, Parents
<1>6. p.kind # "table" /\ parsers[1].kind # "table" /\ p.kind \notin {"headline", "hr"}
  BY <1>4, <1>5 DEF Lists
<1>7. p.table = <<>>
  BY <1>1, <1>2, <1>3, <1>4, <1>6 DEF TablesOK
<1>8. p.isStarted
  BY <1>1, <1>3, <1>4 DEF FlagsOK
<1> DEFINE front == SubSeq(parsers, 1, n)
<1>9. front \in Seq(Parser) /\ Len(front) = n /\ \A i \in 1 .. n : front[i] = parsers[i]
  <2>1. 1 \in 1 .. Len(parsers) + 1 /\ n \in 1 - 1 .. Len(parsers) /\ 1 <= n
    BY <1>3
  <2>2. \A i \in 1 .. n : parsers[i] \in Parser
    BY <1>2, <1>3
  <2> QED BY <1>2, <1>3, <2>1, <2>2, SubSeqProperties
<1> HIDE DEF front
<1>10. Write(p, r) \in Parser /\ Write(p, r).kind = p.kind
       /\ Write(p, r).isStarted = p.isStarted /\ Write(p, r).isFinished = p.isFinished
       /\ Write(p, r).table = p.table
  BY <1>4, WriteProps
<1>11. parsers' = [front EXCEPT ![n] = Write(p, r)]
  <2>1. parsers' = [front EXCEPT ![n] = Write(@, r)]
    BY DEF TakesResult, front
  <2>2. n \in DOMAIN front /\ front[n] = p
    BY <1>3, <1>4, <1>9, LenProperties
  <2> QED BY <2>1, <2>2
<1>12. /\ parsers' \in Seq(Parser) /\ Len(parsers') = n /\ parsers'[n] = Write(p, r)
       /\ \A i \in 1 .. n : i # n => parsers'[i] = front[i]
  <2>1. n \in 1 .. Len(front)
    BY <1>3, <1>9
  <2> QED BY <1>9, <1>10, <1>11, <2>1, Replaced
<1>13. \A i \in 1 .. n - 1 : parsers'[i] = parsers[i] /\ i \in 1 .. n
  <2>1. \A i \in 1 .. n - 1 : i \in 1 .. n /\ i # n
    BY <1>3
  <2> QED BY <1>9, <1>12, <2>1
<1>14. DOMAIN parsers' = 1 .. n /\ \A i \in 1 .. n : parsers'[i] \in Parser
  BY <1>12, LenProperties, ElementOfSeq
<1>15. ASSUME NEW i \in 1 .. n
       PROVE  /\ parsers'[i].kind = parsers[i].kind
              /\ parsers'[i].isStarted = parsers[i].isStarted
              /\ parsers'[i].isFinished = parsers[i].isFinished
              /\ parsers'[i].table = parsers[i].table
  <2>1. CASE i = n
    BY <1>4, <1>10, <1>12, <2>1
  <2>2. CASE i # n
    BY <1>9, <1>12, <2>2
  <2> QED BY <2>1, <2>2
<1> QED BY <1>3, <1>4, <1>6, <1>7, <1>8, <1>12, <1>13, <1>14, <1>15

LEMMA TakenShape ==
  ASSUME IInv, health = "sound", TakesResult, NEW n, n = level - 1,
         NEW p, p = parsers[level - 1], NEW r, r = Current.result
  PROVE  TypesOK' /\ ShapeOK' /\ TablesOK' /\ FlagsOK'
<1>1. TypesOK /\ ShapeOK /\ TablesOK /\ FlagsOK
  BY DEF IInv
<1>2. /\ n \in Nat \ {0} /\ n + 1 = Len(parsers) /\ level = n + 1
      /\ p.isStarted /\ p.kind \notin {"headline", "hr"}
      /\ parsers' \in Seq(Parser) /\ Len(parsers') = n /\ DOMAIN parsers' = 1 .. n
      /\ \A i \in 1 .. n : /\ parsers'[i].kind = parsers[i].kind
                           /\ parsers'[i].isStarted = parsers[i].isStarted
                           /\ parsers'[i].isFinished = parsers[i].isFinished
                           /\ parsers'[i].table = parsers[i].table
  BY Taken
<1>3. /\ parsers'[n].result = p.result \o r /\ p.kind # "table"
      /\ \A i \in 1 .. n - 1 : parsers'[i] = parsers[i]
  <2>1. p \in Parser /\ r \in Seq(Token) /\ parsers'[n] = Write(p, r) /\ p.kind # "table"
        /\ \A i \in 1 .. n - 1 : parsers'[i] = parsers[i]
    BY Taken, ZenonT(30)
  <2>2. Write(p, r).result = p.result \o r
    BY <2>1, WriteProps
  <2> QED BY <2>1, <2>2
<1>4. /\ html' = html /\ level' = n /\ phase' = "up" /\ phase = "up"
      /\ UNCHANGED <<doc, line, ended, health>>
  BY DEF TakesResult
<1>5. p = parsers[n]
  OBVIOUS
<1>6. DOMAIN parsers = 1 .. Len(parsers) /\ \A i \in 1 .. n : i \in 1 .. Len(parsers)
  <2>1. DOMAIN parsers = 1 .. Len(parsers)
    BY UpProps DEF TakesResult
  <2> QED BY <1>2, <2>1
<1>7. TypesOK'
  <2>1. level' \in 0 .. Len(parsers') /\ level' # 0
    BY <1>2, <1>4
  <2> QED BY <1>1, <1>2, <1>4, <2>1 DEF TypesOK
<1>8. ShapeOK'
  BY <1>1, <1>2, <1>6 DEF ShapeOK
<1>9. TablesOK'
  <2> SUFFICES ASSUME NEW i \in 1 .. n
               PROVE  IF parsers'[i].kind = "table"
                      THEN ~parsers'[i].isFinished => parsers'[i].result = <<>>
                      ELSE parsers'[i].table = <<>>
    BY <1>2 DEF TablesOK
  <2>1. CASE i = n
    BY <1>1, <1>2, <1>3, <1>5, <1>6, <2>1 DEF TablesOK
  <2>2. CASE i # n
    <3>1. i \in 1 .. n - 1
      BY <1>2, <2>2
    <3> QED BY <1>1, <1>3, <1>6, <3>1 DEF TablesOK
  <2> QED BY <2>1, <2>2
<1>10. FlagsOK'
  <2>1. Seen' = n /\ Seen = n + 1
    BY <1>2, <1>4 DEF Seen
  <2>2. \A i \in DOMAIN parsers' : ~(i > level')
    BY <1>2, <1>4
  <2>3. \A i \in 1 .. level' - 1 : i \in 1 .. level - 1 /\ i \in 1 .. n
    BY <1>2, <1>4
  <2>4. \A i \in 1 .. level' - 1 :
          parsers'[i].isStarted /\ parsers'[i].kind \notin {"headline", "hr"}
    BY <1>1, <1>2, <2>3 DEF FlagsOK
  <2>5. \A i \in 1 .. n : i \in 1 .. n + 1
    BY <1>2
  <2>6. \A i, j \in 1 .. n :
          i < j /\ parsers'[i].isFinished => parsers'[j].isFinished
    BY <1>1, <1>2, <2>1, <2>5 DEF FlagsOK
  <2>7. n \in 1 .. n
    BY <1>2
  <2>8. IF parsers'[n].isFinished THEN n = Len(parsers') ELSE IsOpen(parsers'[n])
    BY <1>2, <1>5, <2>7 DEF IsOpen
  <2> QED BY <1>4, <2>1, <2>2, <2>4, <2>6, <2>8 DEF FlagsOK
<1> QED BY <1>7, <1>8, <1>9, <1>10

LEMMA TakenHtml ==
  ASSUME IInv, health = "sound", TakesResult, NEW n, n = level - 1,
         NEW p, p = parsers[level - 1], NEW r, r = Current.result
  PROVE  HtmlOK' /\ WordsOK'
<1>1. TypesOK /\ HtmlOK /\ WordsOK
  BY DEF IInv
<1>2. /\ n \in Nat \ {0} /\ n - 1 \in Nat /\ n + 1 = Len(parsers) /\ level = n + 1
      /\ p \in Parser /\ p.table = <<>> /\ r \in Seq(Token)
      /\ parsers' \in Seq(Parser) /\ Len(parsers') = n /\ DOMAIN parsers' = 1 .. n
      /\ \A i \in 1 .. n : parsers'[i] \in Parser
      /\ parsers'[n] = Write(p, r)
      /\ \A i \in 1 .. n - 1 : parsers'[i] = parsers[i]
  BY Taken, ZenonT(30)
<1>3. /\ html' = html /\ level' = n /\ phase' = "up" /\ phase = "up"
      /\ doc' = doc /\ health' = health /\ Current.isFinished
  BY DEF TakesResult
<1>4. p = parsers[n] /\ Current = parsers[level]
  BY DEF Current
<1>5. Current.result = r
  OBVIOUS
<1>6. /\ Write(p, r).result = p.result \o r /\ Write(p, r).table = <<>>
      /\ Need(Write(p, r)) = Need(p) /\ Lacks(Write(p, r)) = Lacks(p)
      /\ p.result \in Seq(Token)
  BY <1>2, WriteProps DEF Parser
<1>7. DOMAIN parsers = 1 .. Len(parsers) /\ \A i \in 1 .. Len(parsers) : parsers[i] \in Parser
  BY UpProps DEF TakesResult
<1>8. \A i \in 1 .. n : Need(parsers'[i]) = Need(parsers[i])
                        /\ Lacks(parsers'[i]) = Lacks(parsers[i])
  <2>1. ASSUME NEW i \in 1 .. n
        PROVE  Need(parsers'[i]) = Need(parsers[i]) /\ Lacks(parsers'[i]) = Lacks(parsers[i])
    <3>1. i = n \/ i \in 1 .. n - 1
      BY <1>2
    <3> QED BY <1>2, <1>4, <1>6, <3>1
  <2> QED BY <2>1
<1>9. ASSUME NEW i \in Nat, i <= n
      PROVE  Needed(parsers', i) = Needed(parsers, i) /\ Lacked(parsers', i) = Lacked(parsers, i)
  <2>1. \A j \in 1 .. i : j \in 1 .. n
    BY <1>2, <1>9
  <2> QED BY <1>8, <2>1, NeededSame, LackedSame
<1>10. n \in Nat /\ n <= n /\ n - 1 <= n /\ n > 0 /\ level \in Nat /\ level > 0 /\ level - 1 = n
  BY <1>2
<1>11. HtmlOK'
  <2>1. ASSUME NEW i \in 1 .. n - 1
        PROVE  Opens(parsers'[i].result, Needed(parsers', i - 1), Needed(parsers', i))
    <3>1. i \in DOMAIN parsers /\ i # level /\ i \in Nat /\ i - 1 \in Nat /\ i <= n /\ i - 1 <= n
      BY <1>2, <1>7
    <3>2. Opens(parsers[i].result, Needed(parsers, i - 1), Needed(parsers, i))
      BY <1>1, <3>1 DEF HtmlOK
    <3>3. Needed(parsers', i - 1) = Needed(parsers, i - 1)
          /\ Needed(parsers', i) = Needed(parsers, i)
      BY <1>9, <3>1
    <3> QED BY <1>2, <3>2, <3>3
  <2>2. Opens(p.result, Needed(parsers, n - 1), Needed(parsers, n))
    <3>1. n \in DOMAIN parsers /\ n # level
      BY <1>2, <1>7
    <3> QED BY <1>1, <1>4, <3>1 DEF HtmlOK
  <2>3. Opens(r, Needed(parsers, n), Lacked(parsers, n))
    <3>1. Opens(parsers[level].result, Needed(parsers, level - 1), Lacked(parsers, level))
      BY <1>1, <1>3 DEF HtmlOK
    <3>2. Lacked(parsers, level) = Lacked(parsers, level - 1) \o Lacks(parsers[level])
      BY <1>10, NeededProps
    <3>3. Lacks(parsers[level]) = <<>>
      BY <1>3, <1>4 DEF Lacks
    <3>4. Lacked(parsers, n) \in Seq(Token)
      BY <1>10, NeededProps
    <3>5. Lacked(parsers, n) \o <<>> = Lacked(parsers, n)
      BY <3>4, ConcatEmptySeq
    <3> QED BY <1>4, <1>5, <1>10, <3>1, <3>2, <3>3, <3>5
  <2>4. Opens(p.result \o r, Needed(parsers, n - 1), Lacked(parsers, n))
    BY <1>2, <1>6, <2>2, <2>3, OpensBoth
  <2>5. Opens(parsers'[n].result, Needed(parsers', n - 1), Lacked(parsers', n))
    <3>1. Needed(parsers', n - 1) = Needed(parsers, n - 1)
          /\ Lacked(parsers', n) = Lacked(parsers, n)
      BY <1>2, <1>9, <1>10
    <3> QED BY <1>2, <1>6, <2>4, <3>1
  <2>6. Opens(html, <<>>, <<>>)
    BY <1>1 DEF HtmlOK
  <2>7. \A i \in DOMAIN parsers' : i # n => i \in 1 .. n - 1
    BY <1>2
  <2> QED BY <1>3, <2>1, <2>5, <2>6, <2>7 DEF HtmlOK
<1>12. WordsOK'
  <2> DEFINE a == Words(html)
             b == Held(parsers, n - 1)
             c == Words(p.result)
             d == Words(r)
  <2>1. (a \o Held(parsers, level)) \o <<>> = Written
    BY <1>1, <1>2, <1>3 DEF WordsOK
  <2>2. Held(parsers, level) = (b \o c) \o d
    <3>1. \A i \in 1 .. level : parsers[i] \in Parser
      BY <1>2, <1>7
    <3>2. Held(parsers, level) = Held(parsers, level - 1) \o Words(Pending(parsers[level]))
      BY <1>10, <3>1, HeldProps
    <3>3. \A i \in 1 .. n : parsers[i] \in Parser
      BY <1>2, <3>1
    <3>4. Held(parsers, n) = Held(parsers, n - 1) \o Words(Pending(parsers[n]))
      BY <1>10, <3>3, HeldProps
    <3>5. Pending(parsers[level]) = r
      BY <1>3, <1>4, <1>5 DEF Pending
    <3>6. Pending(parsers[n]) = p.result
      BY <1>2, <1>4, <1>6, PendingNoTable
    <3> QED BY <1>10, <3>2, <3>4, <3>5, <3>6
  <2>3. Held(parsers', n) = b \o (c \o d)
    <3>1. Held(parsers', n) = Held(parsers', n - 1) \o Words(Pending(parsers'[n]))
      BY <1>2, <1>10, HeldProps
    <3>2. Held(parsers', n - 1) = b
      BY <1>2, HeldSame
    <3>3. Pending(parsers'[n]) = p.result \o r
      <4>1. p.result \o r \in Seq(Token)
        BY <1>2, <1>6, ConcatProperties
      <4> QED BY <1>2, <1>6, <4>1, PendingNoTable
    <3>4. Words(p.result \o r) = c \o d
      BY <1>2, <1>6, WordsBoth
    <3> QED BY <3>1, <3>2, <3>3, <3>4
  <2>4. b \in Seq(Token) /\ c \in Seq(Token) /\ d \in Seq(Token)
    <3>1. \A i \in 1 .. n - 1 : parsers[i] \in Parser
      BY <1>2, <1>7
    <3> QED BY <1>2, <1>6, <3>1, HeldProps, WordsType
  <2>5. Written' = Written
    BY <1>3 DEF Written
  <2> HIDE DEF b, c, d
  <2>6. (b \o c) \o d = b \o (c \o d)
    BY <2>4, ConcatAssociative
  <2>7. (a \o Held(parsers', n)) \o <<>> = Written
    BY <2>1, <2>2, <2>3, <2>6
  <2> QED BY <1>2, <1>3, <2>5, <2>7 DEF WordsOK
<1> QED BY <1>11, <1>12

LEMMA TakenEmpty ==
  ASSUME IInv, health = "sound", TakesResult, NEW n, n = level - 1,
         NEW p, p = parsers[level - 1], NEW r, r = Current.result
  PROVE  EmptyOK'
<1>1. EmptyOK /\ QuotesOK /\ FlagsOK /\ TypesOK
  BY DEF IInv
<1>2. /\ n \in Nat \ {0} /\ n + 1 = Len(parsers) /\ level = n + 1
      /\ DOMAIN parsers' = 1 .. n
      /\ \A i \in 1 .. n : /\ parsers'[i].kind = parsers[i].kind
                           /\ parsers'[i].isFinished = parsers[i].isFinished
  BY Taken
<1>3. /\ level' = n /\ phase' = "up" /\ phase = "up" /\ doc' = doc /\ ended' = ended
      /\ Current.isFinished
  BY DEF TakesResult
<1>4. DOMAIN parsers = 1 .. n + 1 /\ parsers # <<>> /\ Seen = n + 1
  BY <1>2, UpProps DEF TakesResult
<1>5. Len(doc) \in Nat /\ DOMAIN doc = 1 .. Len(doc)
  BY <1>1, LenProperties DEF TypesOK
<1>6. n \in 1 .. n /\ 1 \in 1 .. n
  BY <1>2
<1> SUFFICES ASSUME Ending'
             PROVE  /\ \A i \in 1 .. n - 1 :
                         parsers'[i].kind = "quote" \/ parsers'[i].isFinished
                    /\ IF parsers'[n].isFinished THEN Shrinking' ELSE Shrunk'
  BY <1>3 DEF EmptyOK
<1>7. Ending
  BY <1>2, <1>3, <1>4, <1>6 DEF Ending
<1>8. /\ \A i \in 1 .. n : parsers[i].kind = "quote" \/ parsers[i].isFinished
      /\ Shrinking
  <2>1. parsers[level].isFinished /\ \A i \in 1 .. n : i \in 1 .. level - 1
    BY <1>2, <1>3 DEF Current
  <2> QED BY <1>1, <1>3, <1>7, <2>1 DEF EmptyOK
<1>9. \A i \in 1 .. n - 1 : parsers'[i].kind = "quote" \/ parsers'[i].isFinished
  <2>1. \A i \in 1 .. n - 1 : i \in 1 .. n
    BY <1>2
  <2> QED BY <1>2, <1>8, <2>1
<1>10. \A m : AreEmpty(m)' = AreEmpty(m)
  BY <1>3 DEF AreEmpty
<1>11. Shrinking'
  <2>1. ASSUME NEW m, OnlyQuotes(m) PROVE OnlyQuotes(m)'
    <3>1. \A i \in 1 .. n : i \in 1 .. n + 1
      BY <1>2
    <3> QED BY <1>2, <1>3, <1>4, <2>1, <3>1 DEF OnlyQuotes
  <2> QED BY <1>3, <1>8, <1>10, <2>1 DEF Shrinking
<1>12. ASSUME ~parsers'[n].isFinished PROVE Shrunk'
  <2>1. ASSUME NEW i \in 1 .. n PROVE parsers[i].kind = "quote"
    <3>1. ~parsers[n].isFinished
      BY <1>2, <1>6, <1>12
    <3>2. i \in 1 .. n + 1 /\ n \in 1 .. n + 1 /\ (i = n \/ i < n)
      BY <1>2
    <3>3. ~parsers[i].isFinished
      BY <1>1, <1>4, <3>1, <3>2 DEF FlagsOK
    <3> QED BY <1>8, <3>3
  <2>2. ASSUME NEW m \in 1 .. Len(doc), AreEmpty(m), NEW i \in 1 .. n
        PROVE  \E k \in DOMAIN doc : i + m <= Quotes(doc[k]) + 1
    <3>0. \A k \in DOMAIN doc : Quotes(doc[k]) \in Nat
      <4>1. ASSUME NEW k \in DOMAIN doc PROVE Quotes(doc[k]) \in Nat
        <5>1. doc[k] \in Lines
          BY <1>1, <1>5, ElementOfSeq DEF TypesOK
        <5>2. doc[k] \in Seq(Marks \cup {"words"})
          BY <5>1, LineAssumption
        <5> QED BY <5>2, QuotesType
      <4> QED BY <4>1
    <3>1. CASE m = 1
      <4>1. i \in DOMAIN parsers
        BY <1>2, <1>4
      <4>2. PICK k \in DOMAIN doc : i <= Quotes(doc[k])
        BY <1>1, <2>1, <4>1 DEF QuotesOK
      <4>3. i + m <= Quotes(doc[k]) + 1
        BY <1>2, <3>0, <3>1, <4>2
      <4> QED BY <4>3
    <3>2. CASE m # 1
      <4>1. m - 1 \in 1 .. Len(doc) - 1 /\ (m - 1) + 1 = m /\ m \in Nat
        BY <1>5, <3>2
      <4>2. OnlyQuotes(m - 1)
        BY <1>8, <2>2, <4>1 DEF Shrinking
      <4>3. i + 1 \in DOMAIN parsers
        BY <1>2, <1>4
      <4>4. PICK k \in DOMAIN doc : (i + 1) + (m - 1) <= Quotes(doc[k]) + 1
        BY <4>2, <4>3 DEF OnlyQuotes
      <4>5. (i + 1) + (m - 1) = i + m
        BY <1>2, <4>1
      <4> QED BY <4>4, <4>5
    <3> QED BY <3>1, <3>2
  <2>3. ASSUME NEW m \in 1 .. Len(doc), AreEmpty(m) PROVE OnlyQuotes(m)'
    BY <1>2, <1>3, <2>1, <2>2, <2>3 DEF OnlyQuotes
  <2> QED BY <1>3, <1>10, <2>3 DEF Shrunk
<1> QED BY <1>9, <1>11, <1>12

LEMMA ReturnInv ==
  ASSUME IInv, health = "sound", Return
  PROVE  IInv'
<1>1. phase = "up" /\ level' = level - 1 /\ UNCHANGED <<doc, line, ended, health>>
      /\ phase' = IF level > 1 THEN "up" ELSE IF ended THEN "done" ELSE "read"
  BY DEF Return
<1>2. /\ level \in 1 .. Len(parsers) /\ level \in Nat \ {0}
      /\ Current.isFinished => level = Len(parsers)
  BY <1>1, UpProps
<1>3. CASE ~Current.isFinished
  <2>1. parsers' = parsers /\ html' = html
    BY <1>3 DEF Return
  <2> QED BY <1>1, <1>3, <2>1, ReturnOpen
<1>4. CASE Current.isFinished /\ level = 1
  <2>1. parsers' = <<>> /\ html' = html \o Current.result
    BY <1>4 DEF Return
  <2>2. level' = 0 /\ phase' = IF ended THEN "done" ELSE "read"
    BY <1>1, <1>4
  <2> QED BY <1>1, <1>4, <2>1, <2>2, ReturnOuter
<1>5. CASE Current.isFinished /\ level # 1
  <2>1. /\ parsers' = [SubSeq(parsers, 1, level - 1) EXCEPT
                         ![level - 1] = Write(@, Current.result)]
        /\ html' = html
    BY <1>5 DEF Return
  <2>2. level > 1
    BY <1>2, <1>5
  <2>3. TakesResult
    BY <1>1, <1>2, <1>5, <2>1, <2>2 DEF TakesResult
  <2>4. TypesOK' /\ ShapeOK' /\ TablesOK' /\ FlagsOK' /\ HtmlOK' /\ WordsOK' /\ EmptyOK'
    BY <2>3, TakenShape, TakenHtml, TakenEmpty
  <2> DEFINE n == level - 1
             p == parsers[level - 1]
             r == Current.result
  <2>5. /\ DOMAIN parsers' = 1 .. n /\ parsers[1].kind # "table"
        /\ \A i \in 1 .. n : /\ parsers'[i].kind = parsers[i].kind
                             /\ parsers'[i].isFinished = parsers[i].isFinished
    BY <2>3, Taken
  <2>6. 1 \in 1 .. n /\ phase' = "up" /\ parsers # <<>> /\ DOMAIN parsers = 1 .. Len(parsers)
        /\ \A i \in 1 .. n : i \in 1 .. Len(parsers)
    <3>1. parsers # <<>> /\ DOMAIN parsers = 1 .. Len(parsers)
      BY <1>1, UpProps
    <3>2. 1 \in 1 .. n /\ phase' = "up" /\ \A i \in 1 .. n : i \in 1 .. Len(parsers)
      BY <1>1, <1>2, <2>2
    <3> QED BY <3>1, <3>2
  <2>7. EndOK /\ QuotesOK
    BY DEF IInv
  <2> HIDE DEF n, p, r
  <2>8. LineOK' /\ TableOK'
    BY <1>1, <2>5, <2>6 DEF LineOK, TableOK
  <2>9. EndOK'
    BY <1>1, <2>5, <2>6, <2>7 DEF EndOK
  <2>10. QuotesOK'
    BY <1>1, <2>5, <2>6, <2>7 DEF QuotesOK
  <2> QED BY <2>4, <2>8, <2>9, <2>10 DEF IInv
<1> QED BY <1>3, <1>4, <1>5

LEMMA InitInv == Init => IInv
<1> SUFFICES ASSUME Init PROVE IInv
  OBVIOUS
<1>1. /\ doc = <<>> /\ parsers = <<>> /\ line = <<>> /\ level = 0 /\ phase = "read"
      /\ ended = FALSE /\ html = <<>> /\ health = "sound"
  BY DEF Init
<1>2. Len(<<>>) = 0 /\ 0 \in Nat /\ DOMAIN parsers = {} /\ DOMAIN doc = {}
      /\ (\A i \in 1 .. 0 : FALSE) /\ (\A i \in 1 .. 0 - 1 : FALSE) /\ 0 \in 0 .. 0
  BY <1>1, EmptySeq
<1>3. TypesOK
  <2>1. 0 <= MaxLines
    BY LineAssumption
  <2>2. doc \in Seq(Lines) /\ Len(doc) <= MaxLines /\ parsers \in Seq(Parser)
        /\ level \in 0 .. Len(parsers) /\ line \in Seq(Token) /\ html \in Seq(Token)
    BY <1>1, <1>2, <2>1, EmptySeq
  <2> QED BY <1>1, <2>2 DEF TypesOK
<1>4. ShapeOK /\ TablesOK /\ LineOK /\ EndOK /\ EmptyOK /\ TableOK /\ QuotesOK
  BY <1>1, <1>2 DEF ShapeOK, TablesOK, LineOK, EndOK, EmptyOK, TableOK, QuotesOK, Ending
<1>5. FlagsOK
  <2>1. Seen = 0
    BY <1>1 DEF Seen
  <2> QED BY <1>1, <1>2, <2>1 DEF FlagsOK
<1>6. HtmlOK
  <2>1. Opens(html, <<>>, <<>>)
    BY <1>1, OpensNone, EmptySeq
  <2> QED BY <1>1, <1>2, <2>1 DEF HtmlOK
<1>7. WordsOK
  <2>1. Held(parsers, Len(parsers)) = <<>>
    <3>1. Len(parsers) = 0 /\ \A i \in 1 .. 0 : parsers[i] \in Parser
      BY <1>1, <1>2
    <3> QED BY <1>2, <3>1, HeldProps
  <2>2. Written = <<>>
    <3>1. doc \in Seq(Lines) /\ Len(doc) = 0
      BY <1>1, <1>2, <1>3 DEF TypesOK
    <3>2. Len(doc) <= MaxLines
      BY <1>3 DEF TypesOK
    <3>3. Concat(WordsOf(doc)) = Upto(WordsOf(doc), 0)
      BY <3>1, <3>2, WrittenIs
    <3> QED BY <3>3, UptoNone DEF Written, WordsOf
  <2>3. (Words(<<>>) \o <<>>) \o <<>> = <<>>
    BY WordsNone, EmptySeq, ConcatEmptySeq
  <2> QED BY <1>1, <2>1, <2>2, <2>3 DEF WordsOK
<1> QED BY <1>3, <1>4, <1>5, <1>6, <1>7 DEF IInv

LEMMA NextInv == IInv /\ [Next]_vars => IInv'
<1> SUFFICES ASSUME IInv, [Next]_vars PROVE IInv'
  OBVIOUS
<1>1. CASE UNCHANGED vars
  <2>1. /\ doc' = doc /\ parsers' = parsers /\ line' = line /\ level' = level
        /\ phase' = phase /\ ended' = ended /\ html' = html /\ health' = health
    BY <1>1 DEF vars
  <2>2. /\ TypesOK /\ ShapeOK /\ TablesOK /\ FlagsOK /\ HtmlOK /\ WordsOK
        /\ LineOK /\ EndOK /\ TableOK /\ QuotesOK /\ EmptyOK
    BY DEF IInv
  <2>3. TypesOK' /\ ShapeOK' /\ TablesOK'
    BY <2>1, <2>2 DEF TypesOK, ShapeOK, TablesOK
  <2>4. FlagsOK'
    BY <2>1, <2>2 DEF FlagsOK, Seen, IsEnder
  <2>5. HtmlOK'
    BY <2>1, <2>2 DEF HtmlOK
  <2>6. WordsOK' /\ LineOK' /\ EndOK' /\ QuotesOK'
    BY <2>1, <2>2 DEF WordsOK, Written, LineOK, EndOK, QuotesOK
  <2>7. TableOK'
    BY <2>1, <2>2 DEF TableOK, SoFar, Breaks
  <2>8. EmptyOK'
    BY <2>1, <2>2 DEF EmptyOK, Ending, Shrinking, Shrunk, AreEmpty, OnlyQuotes, IsEnder
  <2> QED BY <2>3, <2>4, <2>5, <2>6, <2>7, <2>8 DEF IInv
<1>2. CASE Next
  <2>1. health = "sound"
    BY <1>2 DEF Next
  <2>2. CASE ReadLine
    BY <2>1, <2>2, ReadLineInv
  <2>3. CASE EndOfFile
    BY <2>1, <2>3, EndOfFileInv
  <2>4. CASE AddLine
    BY <2>1, <2>4, AddLineInv
  <2>5. CASE AddQuoteLine
    BY <2>1, <2>5, AddQuoteLineInv
  <2>6. CASE AddTableLine
    BY <2>1, <2>6, AddTableLineInv
  <2>7. CASE Return
    BY <2>1, <2>7, ReturnInv
  <2> QED BY <1>2, <2>2, <2>3, <2>4, <2>5, <2>6, <2>7 DEF Next
<1> QED BY <1>1, <1>2

-----------------------------------------------------------------------------
(* Theorems                                                                *)

(* Whatever Parse() and the block parsers are doing, what each open parser *)
(* has written, what it will still have to close and how it came to be     *)
(* where it is in the stack fit together: the inductive invariant.         *)
THEOREM ParsersAgree == Spec => []IInv
<1> QED BY InitInv, NextInv, PTL DEF Spec

(* Every element of a body is closed, in the right order, whatever blocks  *)
(* are nested in one another or break off (quoteparser.h:70-117,           *)
(* orderedlistparser.h:86-126, unorderedlistparser.h, checklistparser.h).  *)
THEOREM BodiesAreWellFormed == Spec => []WellFormed
<1>1. IInv => WellFormed
  <2> SUFFICES ASSUME IInv PROVE WellFormed
    OBVIOUS
  <2>1. html \in Seq(Token) /\ Opens(html, <<>>, <<>>)
    BY DEF IInv, TypesOK, HtmlOK
  <2> QED BY <2>1, OpensMeans DEF WellFormed
<1> QED BY <1>1, ParsersAgree, PTL

(* No block parser loses a word of the document, writes one twice or out   *)
(* of order, and only quotes, code blocks and tables are ever left open by *)
(* its last line (parser.h, Parse()).                                      *)
THEOREM WordsAreKept == Spec => []NothingIsDropped
<1>1. IInv => NothingIsDropped
  <2> SUFFICES ASSUME IInv PROVE NothingIsDropped
    OBVIOUS
  <2> DEFINE pending == Concat([i \in DOMAIN parsers |-> Pending(parsers[i])])
  <2>1. TypesOK /\ WordsOK /\ FlagsOK /\ EndOK
    BY DEF IInv
  <2>2. html \in Seq(Token) /\ parsers \in Seq(Parser)
    BY <2>1 DEF TypesOK
  <2>3. pending \in Seq(Token) /\ Words(pending) = Held(parsers, Len(parsers))
    BY <2>2, HeldAll
  <2>4. ASSUME phase \in {"read", "done"}, health = "sound"
        PROVE  Words(html \o pending) = Written
    <3> HIDE DEF pending
    <3>1. (Words(html) \o Words(pending)) \o <<>> = Written
      BY <2>1, <2>3, <2>4 DEF WordsOK
    <3>2. Words(html \o pending) = Words(html) \o Words(pending)
      BY <2>2, <2>3, WordsBoth
    <3>3. Words(html \o pending) \in Seq(Token)
      BY <2>2, <2>3, ConcatProperties, WordsType
    <3> QED BY <3>1, <3>2, <3>3, ConcatEmptySeq
  <2>5. ASSUME phase = "done", parsers # <<>>
        PROVE  parsers[1].kind \in {"quote", "code", "table"}
    <3>1. ended /\ level = 0 /\ DOMAIN parsers = 1 .. Len(parsers) /\ Len(parsers) \in Nat
      BY <2>1, <2>2, <2>5, LenProperties DEF TypesOK
    <3>2. 1 \in DOMAIN parsers /\ 1 > level
      BY <2>2, <2>5, <3>1, EmptySeq
    <3>3. ~parsers[1].isFinished
      BY <2>1, <3>2 DEF FlagsOK, IsOpen
    <3> QED BY <2>1, <2>5, <3>1, <3>3 DEF EndOK
  <2> QED BY <2>4, <2>5 DEF NothingIsDropped
<1> QED BY <1>1, ParsersAgree, PTL

(* As many empty lines as a line can have marks of quotation, and one      *)
(* more, end every block but code blocks and tables (quoteparser.h:92).    *)
THEOREM BlocksEnd == Spec => []EmptyLinesEndBlocks
<1>1. IInv => EmptyLinesEndBlocks
  <2> SUFFICES ASSUME IInv, phase = "read", parsers # <<>>,
                      parsers[1].kind \notin {"code", "table"},
                      NEW n \in 1 .. Len(doc), AreEmpty(n)
               PROVE  /\ \E i \in DOMAIN doc : n <= Quotes(doc[i])
                      /\ \E i \in DOMAIN parsers : parsers[i].kind = "quote"
    BY DEF EmptyLinesEndBlocks
  <2>1. /\ ~ended /\ parsers \in Seq(Parser) /\ Len(parsers) \in Nat
        /\ DOMAIN parsers = 1 .. Len(parsers)
        /\ doc \in Seq(Lines) /\ Len(doc) \in Nat /\ DOMAIN doc = 1 .. Len(doc)
    BY ReadProps
  <2>2. Len(doc) \in Len(doc) - n + 1 .. Len(doc) /\ doc # <<>> /\ n \in Nat
    BY <2>1
  <2>3. doc[Len(doc)] = <<>>
    BY <2>2 DEF AreEmpty
  <2>4. Ending
    BY <2>1, <2>2, <2>3 DEF Ending
  <2>5. OnlyQuotes(n)
    BY <2>4 DEF IInv, EmptyOK, Shrunk
  <2>6. 1 \in DOMAIN parsers
    BY <2>1, EmptySeq
  <2>7. PICK k \in DOMAIN doc : 1 + n <= Quotes(doc[k]) + 1
    BY <2>5, <2>6 DEF OnlyQuotes
  <2>8. n <= Quotes(doc[k])
    <3>1. doc[k] \in Seq(Marks \cup {"words"})
      BY <2>1, ElementOfSeq, LineAssumption
    <3>2. Quotes(doc[k]) \in Nat
      BY <3>1, QuotesType
    <3> QED BY <2>2, <2>7, <3>2
  <2> QED BY <2>5, <2>6, <2>8 DEF OnlyQuotes
<1> QED BY <1>1, ParsersAgree, PTL

(* addRow() goes beyond the end of the vector only for a row of a table    *)
(* behind a separator that follows another, or the table's first line,     *)
(* with nothing in between (tableparser.h:100-115).                        *)
THEOREM TablesBreakOnlySo == Spec => []BrokenTables
<1>1. IInv => BrokenTables
  <2> SUFFICES ASSUME IInv, health = "undefined"
               PROVE  \E i, j \in DOMAIN doc :
                        /\ i < j /\ doc[i] \in {<<"|table>">>, Separator} /\ doc[j] = Separator
                        /\ \A k \in i + 1 .. j - 1 : doc[k] = Separator
    BY DEF BrokenTables
  <2>1. PICK j \in DOMAIN doc : Breaks(j)
    BY DEF IInv, TableOK
  <2>2. DOMAIN doc = 1 .. Len(doc) /\ Len(doc) \in Nat
    BY LenProperties DEF IInv, TypesOK
  <2>3. /\ j - 1 \in DOMAIN doc /\ j - 1 < j /\ (j - 1) + 1 .. j - 1 = {}
        /\ doc[j] = Separator /\ doc[j - 1] \in {<<"|table>">>, Separator}
    BY <2>1, <2>2 DEF Breaks
  <2> QED BY <2>3
<1> QED BY <1>1, ParsersAgree, PTL
================================================================================
