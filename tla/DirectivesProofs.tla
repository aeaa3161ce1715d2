--------------------------- MODULE DirectivesProofs ---------------------------
(* What the service writes into the fields of a response is what becomes   *)
(* of the session data, for keys and values of any length over any letters *)
(* (DirectivesAreStored).  A text is its parts one after another (TextOf); *)
(* the key the parser looks for begins at the first character, and with it *)
(* can only end where the written one does (CutIs); the value is what is   *)
(* left behind the blanks (ParseIs).  What remains is the loop over the    *)
(* two directives.                                                         *)
EXTENDS MCSessionStorage, Sequences, TLAPS

(* The least number of a set, where it is known.                           *)
LEMMA MinIs ==
  ASSUME NEW S \in SUBSET Nat, NEW m \in S, \A j \in S : m <= j
  PROVE  Fields!Min(S) = m
<1> DEFINE n == CHOOSE x \in S : \A y \in S : x <= y
<1>1. n \in S /\ \A j \in S : n <= j
  OBVIOUS
<1>2. Fields!Min(S) = n
  BY DEF Fields!Min
<1> HIDE DEF n
<1>3. n <= m /\ m <= n /\ n \in Nat /\ m \in Nat
  BY <1>1
<1> QED BY <1>2, <1>3

(* The greatest number of a set, where it is known.                        *)
LEMMA MaxIs ==
  ASSUME NEW S \in SUBSET Nat, NEW m \in S, \A j \in S : j <= m
  PROVE  Fields!Max(S) = m
<1> DEFINE n == CHOOSE x \in S : \A y \in S : x >= y
<1>1. n \in S /\ \A j \in S : n >= j
  BY \A j \in S : m >= j
<1>2. Fields!Max(S) = n
  BY DEF Fields!Max
<1> HIDE DEF n
<1>3. n <= m /\ m <= n /\ n \in Nat /\ m \in Nat
  BY <1>1
<1> QED BY <1>2, <1>3

(* A function on 1..n is a sequence of length n.                           *)
LEMMA SeqOf ==
  ASSUME NEW S, NEW n \in Nat, NEW f \in [1..n -> S]
  PROVE  f \in Seq(S) /\ Len(f) = n
OBVIOUS

(* A sequence over a smaller set is one over the larger set.               *)
LEMMA SeqIn ==
  ASSUME NEW S, NEW T, S \subseteq T, NEW s \in Seq(S)
  PROVE  s \in Seq(T)
<1>1. s \in [1..Len(s) -> T] /\ Len(s) \in Nat
  OBVIOUS
<1> QED BY <1>1, SeqOf

(* Its length is a natural number.                                         *)
LEMMA LenOf ==
  ASSUME NEW S, NEW s \in Seq(S)
  PROVE  Len(s) \in Nat
OBVIOUS

(* A sequence without elements is the empty one.                           *)
LEMMA NoElement ==
  ASSUME NEW S, NEW s \in Seq(S), Len(s) = 0
  PROVE  s = <<>>
OBVIOUS

(* Its elements are in the set.                                            *)
LEMMA ElementOf ==
  ASSUME NEW S, NEW s \in Seq(S), NEW i \in DOMAIN s
  PROVE  s[i] \in S
OBVIOUS

-----------------------------------------------------------------------------
(* The characters of a text, and where its parts are.                      *)
Character == Letter \cup {" ", "="}

(* One text after another.                                                 *)
LEMMA Concat ==
  ASSUME NEW s \in Seq(Character), NEW t \in Seq(Character)
  PROVE  /\ s \o t \in Seq(Character) /\ Len(s \o t) = Len(s) + Len(t)
         /\ \A i \in 1..Len(s) : (s \o t)[i] = s[i]
         /\ \A i \in 1..Len(t) : (s \o t)[Len(s) + i] = t[i]
<1> DEFINE T == Character
<1>1. s \in Seq(T) /\ t \in Seq(T)
  OBVIOUS
<1> HIDE DEF T
<1> QED BY <1>1 DEF T

(* Where the text of w has the "=" between its key and its value.          *)
Eq(w) == Len(w.key) + w.before + 1

(* The text of w, place by place.                                          *)
LEMMA TextOf ==
  ASSUME NEW w \in Fields!Written
  PROVE  LET t == Fields!Text(w)
             K == Len(w.key)
             E == Eq(w)
         IN /\ w.key \in Seq(Letter) /\ K \in Nat \ {0}
            /\ w.value \in Seq(Character) /\ w.before \in 0..1 /\ w.after \in 0..1
            /\ w.value # <<>> => w.value[1] # " "
            /\ t \in Seq(Character) /\ Len(t) = E + w.after + Len(w.value)
            /\ \A i \in 1..K : t[i] = w.key[i]
            /\ \A i \in (K + 1)..(E - 1) : t[i] = " "
            /\ t[E] = "="
            /\ \A i \in (E + 1)..(E + w.after) : t[i] = " "
            /\ \A i \in 1..Len(w.value) : t[E + w.after + i] = w.value[i]
<1> DEFINE t == Fields!Text(w)
           K == Len(w.key)
           E == Eq(w)
           V == Len(w.value)
<1>1. /\ w.key \in Fields!Keys /\ w.value \in Fields!Values
      /\ w.before \in 0..1 /\ w.after \in 0..1
  BY DEF Fields!Written
<1>2. w.key \in Seq(Letter) /\ K \in Nat \ {0}
  <2>1. PICK n \in 1..Longest : w.key \in [1..n -> Letter]
    BY <1>1 DEF Fields!Keys
  <2>2. n \in Nat \ {0}
    <3>1. Longest \in Nat
      BY FieldsAssumption, Zenon
    <3> QED BY <3>1
  <2> QED BY <2>1, <2>2, SeqOf
<1>3. w.value \in Seq(Character) /\ (w.value # <<>> => w.value[1] # " ")
  <2>1. PICK n \in 0..Longest : w.value \in [1..n -> Letter \cup {" ", "="}]
    BY <1>1 DEF Fields!Values
  <2>2. n \in Nat
    <3>1. Longest \in Nat
      BY FieldsAssumption, Zenon
    <3> QED BY <3>1
  <2>3. w.value # <<>> => w.value[1] # " "
    BY <1>1 DEF Fields!Values
  <2> QED BY <2>1, <2>2, <2>3, SeqOf DEF Character
<1>4. ASSUME NEW n \in 0..1
      PROVE  /\ Fields!Blanks(n) \in Seq(Character) /\ Len(Fields!Blanks(n)) = n
             /\ \A i \in 1..n : Fields!Blanks(n)[i] = " "
  <2>1. Fields!Blanks(n) \in [1..n -> Character] /\ \A i \in 1..n : Fields!Blanks(n)[i] = " "
    BY DEF Fields!Blanks, Character
  <2>2. n \in Nat
    OBVIOUS
  <2> QED BY <2>1, <2>2, SeqOf
<1> DEFINE bs == Fields!Blanks(w.before)
           as == Fields!Blanks(w.after)
           es == <<"=">>
           t1 == w.key \o bs
           t2 == t1 \o es
           t3 == t2 \o as
<1>5. /\ w.key \in Seq(Character) /\ es \in Seq(Character)
      /\ Len(es) = 1 /\ es[1] = "="
  <2>1. Letter \subseteq Character /\ "=" \in Character
    BY DEF Character
  <2> QED BY <1>2, <2>1, SeqIn
<1>6. t = t3 \o w.value
  BY DEF Fields!Text
<1>7. /\ bs \in Seq(Character) /\ Len(bs) = w.before /\ \A i \in 1..w.before : bs[i] = " "
      /\ as \in Seq(Character) /\ Len(as) = w.after /\ \A i \in 1..w.after : as[i] = " "
  BY <1>1, <1>4
<1> HIDE DEF bs, as, es
<1>8. /\ t1 \in Seq(Character) /\ Len(t1) = K + w.before
      /\ \A i \in 1..K : t1[i] = w.key[i]
      /\ \A i \in 1..w.before : t1[K + i] = " "
  <2>0. w.key \in Seq(Character) /\ bs \in Seq(Character)
    BY <1>5, <1>7
  <2>1. /\ w.key \o bs \in Seq(Character) /\ Len(w.key \o bs) = Len(w.key) + Len(bs)
        /\ \A i \in 1..Len(w.key) : (w.key \o bs)[i] = w.key[i]
        /\ \A i \in 1..Len(bs) : (w.key \o bs)[Len(w.key) + i] = bs[i]
    BY <2>0, Concat
  <2> QED BY <1>7, <2>1
<1> HIDE DEF t1
<1>9. /\ t2 \in Seq(Character) /\ Len(t2) = K + w.before + 1
      /\ \A i \in 1..(K + w.before) : t2[i] = t1[i]
      /\ \A i \in 1..1 : t2[K + w.before + i] = es[i]
  <2>0. t1 \in Seq(Character) /\ es \in Seq(Character)
    BY <1>5, <1>8
  <2>1. /\ t1 \o es \in Seq(Character) /\ Len(t1 \o es) = Len(t1) + Len(es)
        /\ \A i \in 1..Len(t1) : (t1 \o es)[i] = t1[i]
        /\ \A i \in 1..Len(es) : (t1 \o es)[Len(t1) + i] = es[i]
    BY <2>0, Concat
  <2> QED BY <1>5, <1>8, <2>1
<1> HIDE DEF t2
<1>10. E \in Nat /\ E = K + w.before + 1 /\ K \in Nat /\ V \in Nat
       /\ w.before \in Nat /\ w.after \in Nat
  <2>1. V \in Nat /\ K \in Nat
    BY <1>2, <1>3, LenOf
  <2> HIDE DEF V, K
  <2>2. E = K + w.before + 1
    BY DEF Eq, K
  <2> HIDE DEF E
  <2> QED BY <1>1, <2>1, <2>2
<1> HIDE DEF E, K, V
<1>11. /\ t3 \in Seq(Character) /\ Len(t3) = E + w.after
       /\ \A i \in 1..E : t3[i] = t2[i]
       /\ \A i \in 1..w.after : t3[E + i] = " "
  <2>0. t2 \in Seq(Character) /\ as \in Seq(Character)
    BY <1>7, <1>9
  <2>1. /\ t2 \o as \in Seq(Character) /\ Len(t2 \o as) = Len(t2) + Len(as)
        /\ \A i \in 1..Len(t2) : (t2 \o as)[i] = t2[i]
        /\ \A i \in 1..Len(as) : (t2 \o as)[Len(t2) + i] = as[i]
    BY <2>0, Concat
  <2> QED BY <1>7, <1>9, <1>10, <2>1
<1> HIDE DEF t3
<1>12. /\ t \in Seq(Character) /\ Len(t) = E + w.after + V
       /\ \A i \in 1..(E + w.after) : t[i] = t3[i]
       /\ \A i \in 1..V : t[E + w.after + i] = w.value[i]
  <2>0. t3 \in Seq(Character) /\ w.value \in Seq(Character)
    BY <1>3, <1>11
  <2>1. /\ t3 \o w.value \in Seq(Character) /\ Len(t3 \o w.value) = Len(t3) + Len(w.value)
        /\ \A i \in 1..Len(t3) : (t3 \o w.value)[i] = t3[i]
        /\ \A i \in 1..Len(w.value) : (t3 \o w.value)[Len(t3) + i] = w.value[i]
    BY <2>0, Concat
  <2> HIDE DEF t
  <2> QED BY <1>6, <1>11, <2>1 DEF V
<1> HIDE DEF t
<1>13. \A i \in 1..K : t[i] = w.key[i]
  <2> SUFFICES ASSUME NEW i \in 1..K PROVE t[i] = w.key[i]
    OBVIOUS
  <2>1. i \in 1..E /\ i \in 1..(E + w.after) /\ i \in 1..(K + w.before)
    BY <1>10
  <2> QED BY <1>8, <1>9, <1>11, <1>12, <2>1
<1>14. \A i \in (K + 1)..(E - 1) : t[i] = " "
  <2> SUFFICES ASSUME NEW i \in (K + 1)..(E - 1) PROVE t[i] = " "
    OBVIOUS
  <2>1. i - K \in 1..w.before /\ i = K + (i - K) /\ i \in 1..E /\ i \in 1..(E + w.after)
        /\ i \in 1..(K + w.before)
    BY <1>10
  <2>2. t[i] = t1[i]
    BY <1>9, <1>11, <1>12, <2>1
  <2>3. t1[K + (i - K)] = " "
    BY <1>8, <2>1
  <2> QED BY <2>1, <2>2, <2>3
<1>15. t[E] = "="
  <2>1. 1 \in 1..1 /\ E = K + w.before + 1 /\ E \in 1..E /\ E \in 1..(E + w.after)
    BY <1>10
  <2>2. t2[E] = "="
    BY <1>5, <1>9, <2>1
  <2> QED BY <1>11, <1>12, <2>1, <2>2
<1>16. \A i \in (E + 1)..(E + w.after) : t[i] = " "
  <2> SUFFICES ASSUME NEW i \in (E + 1)..(E + w.after) PROVE t[i] = " "
    OBVIOUS
  <2>1. i - E \in 1..w.after /\ i = E + (i - E) /\ i \in 1..(E + w.after)
    BY <1>10
  <2>2. t3[E + (i - E)] = " "
    BY <1>11, <2>1
  <2> QED BY <1>12, <2>1, <2>2
<1> QED BY <1>1, <1>2, <1>3, <1>12, <1>13, <1>14, <1>15, <1>16 DEF t, E, K, V

(* Where the key begins at the first character, it ends with the key that  *)
(* was written.                                                            *)
LEMMA CutIs ==
  ASSUME NEW w \in Fields!Written, Fields!Plain(w)
  PROVE  LET t == Fields!Text(w)
             K == Len(w.key)
             E == Eq(w)
         IN /\ [first |-> 1, last |-> K, eq |-> E] \in Fields!Cuts(t)
            /\ \A c \in Fields!Cuts(t) : c.first = 1 => c.last = K /\ c.eq = E
<1> DEFINE t == Fields!Text(w)
           K == Len(w.key)
           E == Eq(w)
           V == Len(w.value)
           L == Len(t)
<1>1. /\ w.key \in Seq(Letter) /\ K \in Nat \ {0}
      /\ w.value \in Seq(Character) /\ w.before \in 0..1 /\ w.after \in 0..1
      /\ t \in Seq(Character) /\ Len(t) = E + w.after + V
      /\ \A i \in 1..K : t[i] = w.key[i]
      /\ \A i \in (K + 1)..(E - 1) : t[i] = " "
      /\ t[E] = "="
      /\ \A i \in (E + 1)..(E + w.after) : t[i] = " "
      /\ \A i \in 1..V : t[E + w.after + i] = w.value[i]
  BY TextOf
<1>2. V \in Nat /\ E = K + w.before + 1
  BY <1>1, LenOf DEF Eq
<1> HIDE DEF t
<1>3. DOMAIN t = 1..L /\ DOMAIN w.key = 1..K /\ DOMAIN w.value = 1..V
  <2>1. t \in Seq(Character) /\ w.key \in Seq(Letter) /\ w.value \in Seq(Character)
    BY <1>1
  <2> QED BY <2>1
<1> HIDE DEF K, E, V
<1>9. /\ w.before \in 0..1 /\ w.after \in 0..1 /\ K \in Nat \ {0} /\ V \in Nat
      /\ L = E + w.after + V /\ E = K + w.before + 1
  BY <1>1, <1>2
<1> HIDE DEF L
<1>4. L = E + w.after + V /\ E \in 1..L /\ K \in 1..L /\ K < E /\ 1 \in 1..L
      /\ E \in Nat /\ L \in Nat /\ K \in Nat \ {0} /\ E \in {K + 1, K + 2}
  BY <1>9
<1>5. \A i \in 1..K : t[i] # " " /\ t[i] # "="
  <2>1. \A i \in 1..K : w.key[i] \in Letter
    <3>1. w.key \in Seq(Letter)
      BY <1>1
    <3> QED BY <1>3, <3>1, ElementOf, Zenon
  <2> QED BY <1>1, <2>1, FieldsAssumption
<1>6. ASSUME w.before = 0, NEW i \in (E + 1)..L PROVE t[i] # "="
  <2>1. CASE i \in (E + 1)..(E + w.after)
    BY <1>1, <2>1
  <2>2. CASE i \notin (E + 1)..(E + w.after)
    <3> DEFINE j == i - (E + w.after)
    <3>1. j \in 1..V /\ i = E + w.after + j
      BY <1>4, <1>9, <2>2
    <3> HIDE DEF j
    <3>2. t[i] = w.value[j]
      BY <1>1, <3>1
    <3>3. w.value[j] # "="
      <4>1. "=" \notin {w.value[k] : k \in DOMAIN w.value}
        BY <1>6 DEF Fields!Plain, Fields!ToSet
      <4> QED BY <1>3, <3>1, <4>1
    <3> QED BY <3>2, <3>3
  <2> QED BY <2>1, <2>2
<1>7. [first |-> 1, last |-> K, eq |-> E] \in Fields!Cuts(t)
  <2> DEFINE c == [first |-> 1, last |-> K, eq |-> E]
  <2>1. c \in [first : DOMAIN t, last : DOMAIN t, eq : DOMAIN t]
    BY <1>3, <1>4
  <2>2. /\ c.first = 1 /\ c.last = K /\ c.eq = E
        /\ c.first <= c.last /\ c.last < c.eq /\ t[c.eq] = "="
    <3>1. c.first = 1 /\ c.last = K /\ c.eq = E
      OBVIOUS
    <3>2. t[E] = "="
      BY <1>1
    <3>3. 1 <= K /\ K < E
      BY <1>4
    <3> HIDE DEF c
    <3> QED BY <3>1, <3>2, <3>3
  <2> HIDE DEF c
  <2>3. c \in Fields!Cuts(t)
    BY <1>1, <1>5, <2>1, <2>2, Zenon DEF Fields!Cuts
  <2> QED BY <2>3 DEF c
<1>8. ASSUME NEW c \in Fields!Cuts(t), c.first = 1
      PROVE  c.last = K /\ c.eq = E
  <2> DEFINE l == c.last
             e == c.eq
  <2>1. /\ l \in 1..L /\ e \in 1..L /\ l < e /\ t[e] = "="
        /\ \A i \in 1..l : t[i] # " "
        /\ \A i \in (l + 1)..(e - 1) : t[i] = " "
    BY <1>3, <1>8 DEF Fields!Cuts
  <2> HIDE DEF l, e
  <2>6. l \in Nat /\ e \in Nat /\ 1 <= l /\ l < e /\ e <= L
    <3>1. l \in 1..L /\ e \in 1..L /\ l < e
      BY <2>1
    <3> QED BY <1>4, <3>1
  <2>2. K < e
    <3> SUFFICES ASSUME e <= K PROVE FALSE
      BY <1>4, <2>6
    <3>1. e \in 1..K
      BY <1>4, <2>6
    <3> QED BY <1>5, <2>1, <3>1
  <2>3. ~ (l < K)
    <3> SUFFICES ASSUME l < K PROVE FALSE
      OBVIOUS
    <3>1. l + 1 \in 1..K /\ l + 1 \in (l + 1)..(e - 1)
      BY <1>4, <2>6, <2>2
    <3> QED BY <1>5, <2>1, <3>1
  <2>4. CASE w.before = 0
    <3>1. E = K + 1
      BY <1>9, <2>4
    <3>2. e \notin (E + 1)..L
      BY <1>6, <2>1, <2>4
    <3>3. e = E
      BY <1>4, <2>6, <2>2, <3>1, <3>2
    <3>4. l = K
      BY <1>4, <2>6, <2>3, <3>1, <3>3
    <3> QED BY <3>3, <3>4 DEF l, e
  <2>5. CASE w.before = 1
    <3>1. E = K + 2 /\ t[K + 1] = " "
      <4>1. E = K + 2
        BY <1>9, <2>5
      <4>2. K + 1 \in (K + 1)..(E - 1)
        BY <1>4, <4>1
      <4> QED BY <1>1, <4>1, <4>2
    <3>7. E = K + 2
      BY <3>1
    <3>2. ~ (K < l)
      <4> SUFFICES ASSUME K < l PROVE FALSE
        OBVIOUS
      <4>1. K + 1 \in 1..l
        BY <1>4, <2>6
      <4> QED BY <2>1, <3>1, <4>1
    <3>3. l = K
      BY <1>4, <2>6, <2>3, <3>2
    <3>4. e # K + 1
      BY <2>1, <3>1
    <3>5. ~ (E < e)
      <4> SUFFICES ASSUME E < e PROVE FALSE
        OBVIOUS
      <4>1. E \in (l + 1)..(e - 1)
        BY <1>4, <2>6, <3>3, <3>7
      <4> QED BY <1>1, <2>1, <4>1
    <3>6. e = E
      BY <1>4, <2>6, <2>2, <3>4, <3>5, <3>7
    <3> QED BY <3>3, <3>6 DEF l, e
  <2> QED BY <1>9, <2>4, <2>5
<1> QED BY <1>7, <1>8 DEF t, K, E

(* A part of a text.                                                       *)
LEMMA PartIs ==
  ASSUME NEW S, NEW t \in Seq(S), NEW m \in 1..(Len(t) + 1), NEW n \in Nat, NEW v \in Seq(S),
         n = m - 1 + Len(v), n <= Len(t),
         \A i \in 1..Len(v) : t[m - 1 + i] = v[i]
  PROVE  SubSeq(t, m, n) = v
<1>1. Len(v) \in Nat /\ Len(t) \in Nat
  OBVIOUS
<1>2. SubSeq(t, m, n) = [i \in 1..(n - m + 1) |-> t[i + m - 1]]
  OBVIOUS
<1>3. n - m + 1 = Len(v)
  BY <1>1
<1>4. \A i \in 1..Len(v) : i + m - 1 = m - 1 + i
  BY <1>1
<1>5. [i \in 1..Len(v) |-> t[i + m - 1]] = [i \in 1..Len(v) |-> v[i]]
  BY <1>4
<1>6. v = [i \in 1..Len(v) |-> v[i]]
  OBVIOUS
<1> QED BY <1>2, <1>3, <1>5, <1>6

(* The parser finds the key and the value that the service wrote.          *)
LEMMA ParseIs ==
  ASSUME NEW w \in Fields!Written, Fields!Plain(w)
  PROVE  Fields!parseDirective(Fields!Text(w)) = [Key |-> w.key, Value |-> w.value]
<1> DEFINE t == Fields!Text(w)
           K == Len(w.key)
           E == Eq(w)
           V == Len(w.value)
           L == Len(t)
           Cuts == Fields!Cuts(t)
           the == [first |-> 1, last |-> K, eq |-> E]
           first == Fields!Min({c.first : c \in Cuts})
           cut == CHOOSE c \in Cuts : /\ c.first = first
                                      /\ \A d \in Cuts : d.first = first => d.last <= c.last
           rest == {i \in DOMAIN t : i > cut.eq /\ t[i] # " "}
<1>1. /\ w.key \in Seq(Letter) /\ K \in Nat \ {0}
      /\ w.value \in Seq(Character) /\ w.before \in 0..1 /\ w.after \in 0..1
      /\ w.value # <<>> => w.value[1] # " "
      /\ t \in Seq(Character) /\ Len(t) = E + w.after + V
      /\ \A i \in 1..K : t[i] = w.key[i]
      /\ \A i \in (E + 1)..(E + w.after) : t[i] = " "
      /\ \A i \in 1..V : t[E + w.after + i] = w.value[i]
  BY TextOf
<1>2. V \in Nat /\ E = K + w.before + 1
  BY <1>1, LenOf DEF Eq
<1>3. the \in Cuts /\ \A c \in Cuts : c.first = 1 => c.last = K /\ c.eq = E
  BY CutIs
<1>4. Fields!parseDirective(t) =
        IF Cuts = {} THEN NoValue
        ELSE [Key   |-> SubSeq(t, first, cut.last),
              Value |-> IF rest = {} THEN <<>> ELSE SubSeq(t, Fields!Min(rest), L)]
  BY DEF Fields!parseDirective
<1> HIDE DEF t
<1>5. DOMAIN t = 1..L /\ L \in Nat
  <2>1. t \in Seq(Character)
    BY <1>1
  <2> QED BY <2>1
<1>6. \A c \in Cuts : /\ c = [first |-> c.first, last |-> c.last, eq |-> c.eq]
                      /\ c.first \in 1..L
  <2>1. \A c \in Cuts : c \in [first : DOMAIN t, last : DOMAIN t, eq : DOMAIN t]
    BY DEF Fields!Cuts
  <2> HIDE DEF Cuts, L
  <2> QED BY <1>5, <2>1
<1> HIDE DEF K, E, V, L, Cuts
<1>7. /\ w.before \in 0..1 /\ w.after \in 0..1 /\ K \in Nat \ {0} /\ V \in Nat
      /\ L = E + w.after + V /\ E = K + w.before + 1 /\ E \in Nat /\ L \in Nat
  <2>1. /\ w.before \in 0..1 /\ w.after \in 0..1 /\ K \in Nat \ {0} /\ V \in Nat
        /\ L = E + w.after + V /\ E = K + w.before + 1
    BY <1>1, <1>2 DEF L
  <2> QED BY <2>1
<1>8. the.first = 1 /\ the.last = K /\ the.eq = E
  OBVIOUS
<1> HIDE DEF the
<1>9. first = 1
  <2> DEFINE S == {c.first : c \in Cuts}
  <2>1. S \in SUBSET Nat /\ 1 \in S /\ \A j \in S : 1 <= j
    BY <1>3, <1>6, <1>8
  <2> HIDE DEF S
  <2>2. Fields!Min(S) = 1
    BY <2>1, MinIs
  <2> QED BY <2>2 DEF S
<1> HIDE DEF first
<1>10. cut.last = K /\ cut.eq = E
  <2>1. \A d \in Cuts : d.first = 1 => d.last <= the.last
    BY <1>3, <1>7, <1>8
  <2>2. cut \in Cuts /\ cut.first = 1
    BY <1>3, <1>8, <1>9, <2>1
  <2> HIDE DEF cut
  <2> QED BY <1>3, <2>2
<1> HIDE DEF cut
<1>11. SubSeq(t, first, cut.last) = w.key
  <2>1. w.key \in Seq(Character) /\ t \in Seq(Character)
    <3>1. Letter \subseteq Character
      BY DEF Character
    <3> QED BY <1>1, <3>1, SeqIn
  <2>2. 1 \in 1..(Len(t) + 1) /\ K \in Nat /\ K = 1 - 1 + Len(w.key) /\ K <= Len(t)
    BY <1>7 DEF K, L
  <2>3. \A i \in 1..Len(w.key) : t[1 - 1 + i] = w.key[i]
    <3> SUFFICES ASSUME NEW i \in 1..K PROVE t[1 - 1 + i] = w.key[i]
      BY DEF K
    <3>1. 1 - 1 + i = i
      BY <1>7
    <3> QED BY <1>1, <3>1
  <2>4. SubSeq(t, 1, K) = w.key
    BY <2>1, <2>2, <2>3, PartIs
  <2> QED BY <1>9, <1>10, <2>4
<1>12. Fields!parseDirective(t) =
         [Key   |-> w.key,
          Value |-> IF rest = {} THEN <<>> ELSE SubSeq(t, Fields!Min(rest), L)]
  <2> HIDE DEF rest
  <2> QED BY <1>3, <1>4, <1>11
<1>13. rest = {i \in 1..L : i > E /\ t[i] # " "}
  BY <1>5, <1>10
<1> HIDE DEF rest
<1>14. \A i \in rest : E + w.after < i
  <2> SUFFICES ASSUME NEW i \in rest PROVE E + w.after < i
    OBVIOUS
  <2>1. i \in 1..L /\ i > E /\ t[i] # " "
    BY <1>13
  <2>2. i \notin (E + 1)..(E + w.after)
    BY <1>1, <2>1
  <2>3. i \in 1..L /\ i > E
    BY <2>1
  <2>4. i \in Nat /\ i > E /\ E \in Nat /\ w.after \in Nat
    BY <1>7, <2>3
  <2> QED BY <2>2, <2>4
<1>15. CASE V = 0
  <2>1. w.value = <<>>
    BY <1>1, <1>15, NoElement DEF V
  <2>2. \A i \in 1..L : i <= E + w.after
    BY <1>7, <1>15
  <2>3. rest \subseteq 1..L
    BY <1>13
  <2>4. rest = {}
    BY <1>7, <1>14, <2>2, <2>3
  <2> QED BY <1>12, <2>1, <2>4 DEF t
<1>16. CASE V # 0
  <2> DEFINE m == E + w.after + 1
  <2>1. m \in 1..L /\ m > E /\ m - 1 = E + w.after /\ 1 \in 1..V /\ m \in 1..(L + 1)
        /\ L = m - 1 + V
    BY <1>7, <1>16
  <2>2. t[m] # " "
    <3>1. w.value # <<>>
      BY <1>16 DEF V
    <3>2. t[m] = w.value[1]
      BY <1>1, <2>1
    <3> QED BY <1>1, <3>1, <3>2
  <2>3. \A i \in rest : m <= i
    <3> SUFFICES ASSUME NEW i \in rest PROVE m <= i
      OBVIOUS
    <3>1. i \in 1..L /\ E + w.after < i
      BY <1>13, <1>14
    <3> QED BY <1>7, <3>1
  <2>4. \A i \in 1..V : t[m - 1 + i] = w.value[i]
    BY <1>1, <2>1
  <2> HIDE DEF m
  <2>5. m \in rest
    BY <1>13, <2>1, <2>2
  <2>6. rest \in SUBSET Nat
    <3>1. \A i \in rest : i \in 1..L
      BY <1>13
    <3> QED BY <1>7, <3>1
  <2>7. Fields!Min(rest) = m
    BY <2>3, <2>5, <2>6, MinIs
  <2>8. SubSeq(t, m, L) = w.value
    <3>1. t \in Seq(Character) /\ w.value \in Seq(Character)
      BY <1>1
    <3>2. m \in 1..(Len(t) + 1) /\ L \in Nat /\ L = m - 1 + Len(w.value) /\ L <= Len(t)
      BY <1>7, <2>1 DEF L, V
    <3> QED BY <2>4, <3>1, <3>2, PartIs DEF V
  <2> QED BY <1>12, <2>5, <2>7, <2>8 DEF t
<1> QED BY <1>15, <1>16
-----------------------------------------------------------------------------
(* The session data after all directives.                                  *)
StoreAll(data, ds) == Fields!FoldLeft(Fields!Store, data, ds)

(* Two directives are stored one after the other.                          *)
LEMMA TwoStored ==
  ASSUME NEW data, NEW d1, NEW d2
  PROVE  StoreAll(data, <<d1, d2>>) = Fields!Store(Fields!Store(data, d1), d2)
<1> DEFINE ds == <<d1, d2>>
           step(x, d) == Fields!Store(x, d)
           Solves(f) == f = [t \in SUBSET {1, 2} |->
                               IF t = {} THEN data
                               ELSE step(f[t \ {Fields!Max(t)}], ds[Fields!Max(t)])]
           fold == CHOOSE f : Solves(f)
           g == [t \in SUBSET {1, 2} |->
                   IF t = {} THEN data
                   ELSE IF t = {1} THEN step(data, d1)
                   ELSE IF t = {2} THEN step(data, d2)
                   ELSE step(step(data, d1), d2)]
<1>1. DOMAIN ds = {1, 2} /\ ds[1] = d1 /\ ds[2] = d2
  OBVIOUS
<1>2. StoreAll(data, ds) = fold[{1, 2}]
  BY <1>1 DEF StoreAll, Fields!FoldLeft, Fields!MapThenFoldSet
<1>3. Fields!Max({1}) = 1 /\ Fields!Max({2}) = 2 /\ Fields!Max({1, 2}) = 2
  <2>1. {1} \in SUBSET Nat /\ {2} \in SUBSET Nat /\ {1, 2} \in SUBSET Nat
        /\ 1 \in {1} /\ 2 \in {2} /\ 2 \in {1, 2}
        /\ (\A j \in {1} : j <= 1) /\ (\A j \in {2} : j <= 2) /\ (\A j \in {1, 2} : j <= 2)
    OBVIOUS
  <2>2. Fields!Max({1}) = 1
    BY <2>1, MaxIs
  <2>3. Fields!Max({2}) = 2
    BY <2>1, MaxIs
  <2>4. Fields!Max({1, 2}) = 2
    BY <2>1, MaxIs
  <2> QED BY <2>2, <2>3, <2>4
<1>4. /\ \A t \in SUBSET {1, 2} : t \in {{}, {1}, {2}, {1, 2}}
      /\ {1} \ {1} = {} /\ {2} \ {2} = {} /\ {1, 2} \ {2} = {1}
      /\ {1} # {} /\ {2} # {} /\ {1, 2} # {} /\ {1} # {2} /\ {1, 2} # {1} /\ {1, 2} # {2}
      /\ {} \in SUBSET {1, 2} /\ {1} \in SUBSET {1, 2} /\ {2} \in SUBSET {1, 2}
      /\ {1, 2} \in SUBSET {1, 2}
  <2>1. ASSUME NEW t \in SUBSET {1, 2} PROVE t \in {{}, {1}, {2}, {1, 2}}
    <3>1. CASE 1 \in t /\ 2 \in t
      BY <3>1
    <3>2. CASE 1 \in t /\ 2 \notin t
      BY <3>2
    <3>3. CASE 1 \notin t /\ 2 \in t
      BY <3>3
    <3>4. CASE 1 \notin t /\ 2 \notin t
      BY <3>4
    <3> QED BY <3>1, <3>2, <3>3, <3>4
  <2>2. {1} \ {1} = {} /\ {2} \ {2} = {} /\ {1, 2} \ {2} = {1}
    OBVIOUS
  <2>3. {1} # {} /\ {2} # {} /\ {1, 2} # {} /\ {1} # {2} /\ {1, 2} # {1} /\ {1, 2} # {2}
    OBVIOUS
  <2>4. /\ {} \in SUBSET {1, 2} /\ {1} \in SUBSET {1, 2} /\ {2} \in SUBSET {1, 2}
        /\ {1, 2} \in SUBSET {1, 2}
    OBVIOUS
  <2> QED BY <2>1, <2>2, <2>3, <2>4
<1> HIDE DEF ds, step
<1>5. Solves(g)
  <2>1. /\ g[{}] = data /\ g[{1}] = step(data, d1) /\ g[{2}] = step(data, d2)
        /\ g[{1, 2}] = step(step(data, d1), d2)
    BY <1>4
  <2> DEFINE h == [t \in SUBSET {1, 2} |->
                     IF t = {} THEN data
                     ELSE step(g[t \ {Fields!Max(t)}], ds[Fields!Max(t)])]
  <2>2. /\ h[{}] = data
        /\ h[{1}] = step(g[{1} \ {Fields!Max({1})}], ds[Fields!Max({1})])
        /\ h[{2}] = step(g[{2} \ {Fields!Max({2})}], ds[Fields!Max({2})])
        /\ h[{1, 2}] = step(g[{1, 2} \ {Fields!Max({1, 2})}], ds[Fields!Max({1, 2})])
    <3> HIDE DEF g
    <3> QED BY <1>4
  <2>3. DOMAIN g = SUBSET {1, 2} /\ DOMAIN h = SUBSET {1, 2}
        /\ g = [t \in DOMAIN g |-> g[t]] /\ h = [t \in DOMAIN h |-> h[t]]
    OBVIOUS
  <2> HIDE DEF g, h
  <2>4. \A t \in SUBSET {1, 2} : g[t] = h[t]
    <3>1. /\ h[{1}] = step(g[{}], ds[1]) /\ h[{2}] = step(g[{}], ds[2])
          /\ h[{1, 2}] = step(g[{1}], ds[2])
      BY <1>3, <1>4, <2>2
    <3>2. g[{}] = h[{}] /\ g[{1}] = h[{1}] /\ g[{2}] = h[{2}] /\ g[{1, 2}] = h[{1, 2}]
      BY <1>1, <2>1, <2>2, <3>1
    <3> QED BY <1>4, <3>2
  <2>5. g = h
    BY <2>3, <2>4
  <2> QED BY <2>5 DEF h
<1>6. Solves(fold)
  <2> HIDE DEF g
  <2> QED BY <1>5, Zenon
<1> HIDE DEF fold
<1>7. /\ fold[{}] = data
      /\ fold[{1}] = step(fold[{1} \ {Fields!Max({1})}], ds[Fields!Max({1})])
      /\ fold[{1, 2}] = step(fold[{1, 2} \ {Fields!Max({1, 2})}], ds[Fields!Max({1, 2})])
  <2> HIDE DEF g
  <2>1. ASSUME NEW t \in SUBSET {1, 2}
        PROVE  fold[t] = IF t = {} THEN data
                         ELSE step(fold[t \ {Fields!Max(t)}], ds[Fields!Max(t)])
    BY <1>6
  <2> HIDE DEF Solves
  <2>2. {} \in SUBSET {1, 2} /\ {1} \in SUBSET {1, 2} /\ {1, 2} \in SUBSET {1, 2}
        /\ {1} # {} /\ {1, 2} # {}
    BY <1>4
  <2> QED BY <2>1, <2>2
<1>8. fold[{1, 2}] = step(step(data, d1), d2)
  <2> HIDE DEF Solves, g
  <2>1. fold[{1}] = step(fold[{}], ds[1])
    BY <1>3, <1>4, <1>7
  <2>2. fold[{1, 2}] = step(fold[{1}], ds[2])
    BY <1>3, <1>4, <1>7
  <2> QED BY <1>1, <1>7, <2>1, <2>2
<1> QED BY <1>2, <1>8 DEF ds, step

(* What two fields make of the session data.                               *)
LEMMA UpdateIs ==
  ASSUME NEW w1 \in Fields!Written, NEW w2 \in Fields!Written,
         Fields!Plain(w1), Fields!Plain(w2), NEW data
  PROVE  Fields!Update(data, <<Fields!Text(w1), Fields!Text(w2)>>)
           = Fields!Store(Fields!Store(data, [Key |-> w1.key, Value |-> w1.value]),
                          [Key |-> w2.key, Value |-> w2.value])
<1> DEFINE d1 == [Key |-> w1.key, Value |-> w1.value]
           d2 == [Key |-> w2.key, Value |-> w2.value]
           ts == <<Fields!Text(w1), Fields!Text(w2)>>
           ds == [i \in DOMAIN ts |-> Fields!parseDirective(ts[i])]
<1>1. Fields!parseDirective(Fields!Text(w1)) = d1
  BY ParseIs
<1>2. Fields!parseDirective(Fields!Text(w2)) = d2
  BY ParseIs
<1>3. d1 \in Fields!Directive /\ d2 \in Fields!Directive
  <2>1. /\ w1.key \in Seq(Letter) /\ w1.value \in Seq(Character)
        /\ w2.key \in Seq(Letter) /\ w2.value \in Seq(Character)
    BY TextOf
  <2> QED BY <2>1 DEF Fields!Directive, Character
<1> HIDE DEF d1, d2
<1>4. ds = <<d1, d2>>
  <2> DEFINE t1 == Fields!Text(w1)
             t2 == Fields!Text(w2)
  <2> HIDE DEF t1, t2
  <2>1. DOMAIN <<t1, t2>> = {1, 2} /\ <<t1, t2>>[1] = t1 /\ <<t1, t2>>[2] = t2
    OBVIOUS
  <2>2. [i \in {1, 2} |-> Fields!parseDirective(<<t1, t2>>[i])] = <<d1, d2>>
    <3> DEFINE f == [i \in {1, 2} |-> Fields!parseDirective(<<t1, t2>>[i])]
    <3>1. f[1] = d1 /\ f[2] = d2
      BY <1>1, <1>2, <2>1 DEF t1, t2
    <3>2. f = [i \in {1, 2} |-> f[i]] /\ 1..2 = {1, 2}
      OBVIOUS
    <3> HIDE DEF f
    <3>3. f = [i \in 1..2 |-> IF i = 1 THEN d1 ELSE d2]
      BY <3>1, <3>2
    <3>4. <<d1, d2>> = [i \in 1..2 |-> IF i = 1 THEN d1 ELSE d2]
      OBVIOUS
    <3> QED BY <3>3, <3>4 DEF f
  <2> QED BY <2>1, <2>2 DEF t1, t2
<1>5. NoValue \notin Fields!ToSet(ds)
  <2>1. Fields!ToSet(<<d1, d2>>) = {d1, d2}
    BY DEF Fields!ToSet
  <2>2. NoValue \notin Fields!Directive
    BY FieldsAssumption, Zenon
  <2> HIDE DEF ds
  <2> QED BY <1>3, <1>4, <2>1, <2>2
<1>6. Fields!Update(data, ts) = StoreAll(data, ds)
  <2>1. Fields!Update(data, ts) = IF NoValue \in Fields!ToSet(ds) THEN data
                                  ELSE StoreAll(data, ds)
    BY DEF Fields!Update, StoreAll
  <2> HIDE DEF ds, ts
  <2> QED BY <1>5, <2>1
<1>7. Fields!Update(data, ts) = StoreAll(data, <<d1, d2>>)
  <2> HIDE DEF ds, ts
  <2> QED BY <1>4, <1>6
<1> HIDE DEF ts
<1>8. Fields!Update(data, ts) = Fields!Store(Fields!Store(data, d1), d2)
  BY <1>7, TwoStored
<1> QED BY <1>8 DEF ts, d1, d2
(* What a directive leaves of the session data, key by key.                *)
LEMMA StoreIs ==
  ASSUME NEW data, NEW d
  PROVE  \A k : /\ k \in DOMAIN Fields!Store(data, d) <=>
                     IF k = d.Key THEN d.Value # <<>> ELSE k \in DOMAIN data
                /\ k \in DOMAIN Fields!Store(data, d) =>
                     Fields!Store(data, d)[k] = IF k = d.Key THEN d.Value ELSE data[k]
<1>1. CASE d.Value = <<>>
  <2>1. Fields!Store(data, d) = [k \in DOMAIN data \ {d.Key} |-> data[k]]
    BY <1>1 DEF Fields!Store, Fields!Delete
  <2> QED BY <1>1, <2>1
<1>2. CASE d.Value # <<>>
  <2>1. Fields!Store(data, d) = [k \in DOMAIN data \cup {d.Key} |->
                                   IF k = d.Key THEN d.Value ELSE data[k]]
    BY <1>2 DEF Fields!Store, Fields!Assign
  <2> QED BY <1>2, <2>1
<1> QED BY <1>1, <1>2

(* The fields of a response are stored as the service wrote them.          *)
LEMMA FieldsAreStored == Fields!StoredAsWritten
<1> SUFFICES ASSUME NEW w1 \in {w \in Fields!Written : Fields!Plain(w)},
                    NEW w2 \in {w \in Fields!Written : Fields!Plain(w)},
                    NEW k \in {w1.key, w2.key, <<>>}
             PROVE  LET ws   == <<w1, w2>>
                        data == [j \in {w1.key, w2.key, <<>>} |-> <<"=">>]
                        stored == Fields!Update(data, <<Fields!Text(w1), Fields!Text(w2)>>)
                        of   == {i \in 1..2 : ws[i].key = k}
                        want == IF of = {} THEN data[k] ELSE ws[Fields!Max(of)].value
                    IN IF want = <<>> THEN k \notin DOMAIN stored
                       ELSE k \in DOMAIN stored /\ stored[k] = want
  BY DEF Fields!StoredAsWritten
<1> DEFINE ws   == <<w1, w2>>
           data == [j \in {w1.key, w2.key, <<>>} |-> <<"=">>]
           stored == Fields!Update(data, <<Fields!Text(w1), Fields!Text(w2)>>)
           of   == {i \in 1..2 : ws[i].key = k}
           want == IF of = {} THEN data[k] ELSE ws[Fields!Max(of)].value
<1> SUFFICES IF want = <<>> THEN k \notin DOMAIN stored
             ELSE k \in DOMAIN stored /\ stored[k] = want
  OBVIOUS
<1>0. /\ w1 \in Fields!Written /\ w2 \in Fields!Written
      /\ Fields!Plain(w1) /\ Fields!Plain(w2)
  OBVIOUS
<1> DEFINE d1 == [Key |-> w1.key, Value |-> w1.value]
           d2 == [Key |-> w2.key, Value |-> w2.value]
           one == Fields!Store(data, d1)
<1>1. stored = Fields!Store(one, d2)
  BY <1>0, UpdateIs
<1>2. d1.Key = w1.key /\ d1.Value = w1.value /\ d2.Key = w2.key /\ d2.Value = w2.value
  OBVIOUS
<1> HIDE DEF d1, d2, one, stored, want
<1>3. /\ k \in DOMAIN stored <=> IF k = w2.key THEN w2.value # <<>> ELSE k \in DOMAIN one
      /\ k \in DOMAIN stored => stored[k] = IF k = w2.key THEN w2.value ELSE one[k]
  BY <1>1, <1>2, StoreIs
<1>4. /\ k \in DOMAIN one <=> IF k = w1.key THEN w1.value # <<>> ELSE k \in DOMAIN data
      /\ k \in DOMAIN one => one[k] = IF k = w1.key THEN w1.value ELSE data[k]
  BY <1>2, StoreIs DEF one
<1>5. k \in DOMAIN data /\ data[k] = <<"=">>
  OBVIOUS
<1>6. ws[1] = w1 /\ ws[2] = w2 /\ 1..2 = {1, 2}
  OBVIOUS
<1> HIDE DEF data, ws
<1>7. of \in SUBSET Nat /\ \A i \in of : i <= 2
  BY <1>6
<1>8. CASE k = w2.key
  <2>1. 2 \in of
    BY <1>6, <1>8
  <2>2. Fields!Max(of) = 2
    BY <1>7, <2>1, MaxIs
  <2>3. want = w2.value
    BY <1>6, <2>1, <2>2 DEF want
  <2> QED BY <1>3, <1>8, <2>3
<1>9. CASE k # w2.key /\ k = w1.key
  <2>1. of = {1}
    BY <1>6, <1>9
  <2>2. of \in SUBSET Nat /\ 1 \in of /\ \A i \in of : i <= 1
    BY <2>1
  <2>3. Fields!Max(of) = 1
    BY <2>2, MaxIs
  <2>4. want = w1.value
    BY <1>6, <2>2, <2>3 DEF want
  <2> QED BY <1>3, <1>4, <1>9, <2>4
<1>10. CASE k # w2.key /\ k # w1.key
  <2>1. of = {}
    BY <1>6, <1>10
  <2>2. want = <<"=">> /\ <<"=">> # <<>>
    BY <1>5, <2>1 DEF want
  <2> QED BY <1>3, <1>4, <1>5, <1>10, <2>2
<1> QED BY <1>8, <1>9, <1>10

(* What the service writes into the fields of a response is what becomes   *)
(* of the session data.                                                    *)
THEOREM DirectivesBecomeSessionData == Spec => []DirectivesAreStored
<1>1. DirectivesAreStored
  BY FieldsAreStored DEF DirectivesAreStored
<1> QED BY <1>1, PTL
=============================================================================
