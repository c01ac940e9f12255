---------------------------- MODULE RedactionProofs ----------------------------
(***************************************************************************)
(* What the redactor's operators do to any text, under any rules' order of *)
(* finds and any terms: what a redacted text is made of and what it can no *)
(* longer hold, where that stood, what a rehydrated one is made of, and    *)
(* when the way there and back gives what was typed.                       *)
(***************************************************************************)
EXTENDS Redaction, FiniteSetTheorems, SequenceTheorems, WellFoundedInduction,
        TLAPS

-----------------------------------------------------------------------------
(* Induction over places, for sets of places.                              *)

(* A nonempty set of natural numbers has a least one.                      *)
LEMMA Least ==
    ASSUME NEW T, T \subseteq Nat, T # {}
    PROVE  \E i \in T : \A j \in T : i <= j
<1> DEFINE less == OpToRel(<, Nat)
<1>1. IsWellFoundedOn(less, Nat) BY NatLessThanWellFounded, Zenon
<1>2. PICK i \in T : \A j \in T : <<j, i>> \notin less
  <2> HIDE DEF less
  <2> QED BY <1>1, WFMin
<1>3. ASSUME NEW j \in T PROVE i <= j
  <2>1. i \in Nat /\ j \in Nat OBVIOUS
  <2>2. ~(j < i) BY <1>2, <2>1 DEF OpToRel
  <2> QED BY <2>1, <2>2
<1> QED BY <1>3

LEMMA Up ==
    ASSUME NEW N \in Nat, NEW T, 0 \in T,
           \A n \in 1..N : n - 1 \in T => n \in T
    PROVE  \A n \in 0..N : n \in T
<1> DEFINE Bad == (0..N) \ T
<1> SUFFICES ASSUME Bad # {} PROVE FALSE OBVIOUS
<1>1. Bad \subseteq Nat OBVIOUS
<1> HIDE DEF Bad
<1>2. PICK n \in Bad : \A j \in Bad : n <= j BY <1>1, Least
<1> USE DEF Bad
<1>3. n \in 1..N /\ n - 1 \in 0..N /\ ~(n <= n - 1) BY <1>2
<1> QED BY <1>2, <1>3

LEMMA Down ==
    ASSUME NEW N \in Nat, NEW T, N + 1 \in T,
           \A i \in 1..N : (\A j \in (i + 1)..(N + 1) : j \in T) => i \in T
    PROVE  \A i \in 1..(N + 1) : i \in T
<1> DEFINE Done == {n \in 0..N : \A j \in (N + 1 - n)..(N + 1) : j \in T}
<1>1. 0 \in Done OBVIOUS
<1>2. ASSUME NEW n \in 1..N, n - 1 \in Done PROVE n \in Done
  <2> DEFINE i == N + 1 - n
  <2>1. i \in 1..N /\ i + 1 = N + 1 - (n - 1) OBVIOUS
  <2>2. \A j \in (i + 1)..(N + 1) : j \in T BY <1>2, <2>1
  <2>3. i \in T BY <2>1, <2>2
  <2>4. \A j \in i..(N + 1) : j = i \/ j \in (i + 1)..(N + 1) BY <2>1
  <2> QED BY <2>2, <2>3, <2>4
<1> HIDE DEF Done
<1>3. \A n \in 0..N : n \in Done BY <1>1, <1>2, Up
<1> USE DEF Done
<1>4. N \in Done BY <1>3
<1> QED BY <1>4

-----------------------------------------------------------------------------
(* Maxima, and parts of a sequence.                                        *)

LEMMA MaxIn ==
    ASSUME NEW N \in Nat, NEW S, S \subseteq 0..N, S # {}
    PROVE  Max(S) \in S /\ \A n \in S : n <= Max(S)
<1> DEFINE T == {N - n : n \in S}
<1>1. T \subseteq Nat /\ T # {}
  <2>1. \A n \in S : n \in 0..N /\ N - n \in Nat OBVIOUS
  <2>2. PICK n \in S : TRUE OBVIOUS
  <2>3. N - n \in T BY <2>2
  <2> QED BY <2>1, <2>3
<1> HIDE DEF T
<1>2. PICK t \in T : \A u \in T : t <= u BY <1>1, Least
<1> USE DEF T
<1>3. PICK m \in S : t = N - m BY <1>2
<1>4. ASSUME NEW n \in S PROVE m >= n
  <2>1. N - n \in T OBVIOUS
  <2>2. N - m <= N - n BY <1>2, <1>3, <2>1
  <2>3. m \in 0..N /\ n \in 0..N OBVIOUS
  <2> QED BY <2>2, <2>3
<1>5. Max(S) \in S /\ \A n \in S : Max(S) >= n BY <1>4 DEF Max
<1>6. \A n \in S : n \in Int OBVIOUS
<1> QED BY <1>5, <1>6

LEMMA PartSeq ==
    ASSUME NEW P, NEW text \in Seq(P), NEW i \in 1..Len(text),
           NEW j \in i..Len(text)
    PROVE  LET part == SubSeq(text, i, j)
           IN  /\ part \in Seq(P) /\ Len(part) = j - i + 1 /\ part # <<>>
               /\ \A k \in 1..(j - i + 1) : part[k] = text[i + k - 1]
               /\ Range(part) = {text[k] : k \in i..j}
<1> DEFINE part == SubSeq(text, i, j)
           n == j - i + 1
<1>1. Len(text) \in Nat /\ i \in Nat /\ j \in Nat /\ n \in Nat /\ n >= 1
  OBVIOUS
<1>2. \A k \in i..j : text[k] \in P OBVIOUS
<1>3. part = [k \in 1..n |-> text[i + k - 1]] OBVIOUS
<1>4. \A k \in 1..n : i + k - 1 \in i..j BY <1>1
<1>5. part \in Seq(P) /\ Len(part) = n BY <1>1, <1>2, <1>3, <1>4
<1>6. Range(part) = {text[k] : k \in i..j}
  <2>1. ASSUME NEW k \in i..j
        PROVE  k - i + 1 \in 1..n /\ part[k - i + 1] = text[k]
    BY <1>1, <1>3
  <2>2. \A k \in 1..n : part[k] = text[i + k - 1] BY <1>3
  <2> HIDE DEF part, n
  <2>3. DOMAIN part = 1..n BY <1>3
  <2>4. ASSUME NEW x \in Range(part) PROVE x \in {text[k] : k \in i..j}
    BY <1>4, <2>2, <2>3 DEF Range
  <2>5. ASSUME NEW x \in {text[k] : k \in i..j} PROVE x \in Range(part)
    BY <2>1, <2>3 DEF Range
  <2> QED BY <2>4, <2>5
<1>7. part # <<>> BY <1>1, <1>5
<1> QED BY <1>3, <1>5, <1>6, <1>7
-----------------------------------------------------------------------------
(* Replaced, place by place from the end.                                  *)

Ends(text, by, i) == {j \in i..Len(text) : SubSeq(text, i, j) \in DOMAIN by}

FromAt(f, text, by, i) ==
    IF i > Len(text) THEN [text |-> <<>>, hits |-> {}]
    ELSE LET ends == {j \in i..Len(text) : SubSeq(text, i, j) \in DOMAIN by}
             end == IF ends = {} THEN i ELSE Max(ends)
             part == SubSeq(text, i, end)
             rest == f[end + 1]
         IN  IF ends = {}
             THEN [text |-> part \o rest.text, hits |-> rest.hits]
             ELSE [text |-> by[part] \o rest.text,
                   hits |-> rest.hits \cup {part}]

From(f, text, by, m) ==
    f = [i \in m..(Len(text) + 1) |-> FromAt(f, text, by, i)]

LEMMA EndsMax ==
    ASSUME NEW text, Len(text) \in Nat, NEW by, NEW i \in 1..Len(text),
           Ends(text, by, i) # {}
    PROVE  LET end == Max(Ends(text, by, i))
           IN  /\ end \in i..Len(text) /\ SubSeq(text, i, end) \in DOMAIN by
               /\ \A j \in Ends(text, by, i) : j <= end
<1>1. Ends(text, by, i) \subseteq 0..Len(text) BY DEF Ends
<1>2. /\ Max(Ends(text, by, i)) \in Ends(text, by, i)
      /\ \A j \in Ends(text, by, i) : j <= Max(Ends(text, by, i))
  BY <1>1, MaxIn
<1> QED BY <1>2 DEF Ends

(* What a place gets depends on the places after it alone.                 *)
LEMMA FromAgrees ==
    ASSUME NEW text, Len(text) \in Nat, NEW by, NEW f, NEW g,
           NEW i \in 1..(Len(text) + 1),
           \A j \in (i + 1)..(Len(text) + 1) : f[j] = g[j]
    PROVE  FromAt(f, text, by, i) = FromAt(g, text, by, i)
<1> DEFINE N == Len(text)
<1>1. CASE i = N + 1 BY <1>1, SMTT(60) DEF FromAt
<1>2. CASE i # N + 1
  <2>1. i \in 1..N /\ ~(i > N) BY <1>2
  <2>2. CASE Ends(text, by, i) = {}
    <3>1. f[i + 1] = g[i + 1] BY <2>1
    <3> QED BY <2>1, <2>2, <3>1 DEF FromAt, Ends
  <2>3. CASE Ends(text, by, i) # {}
    <3> DEFINE end == Max(Ends(text, by, i))
    <3>1. end \in i..N BY <2>1, <2>3, EndsMax
    <3> HIDE DEF end
    <3>2. end + 1 \in (i + 1)..(N + 1) BY <2>1, <3>1
    <3>3. f[end + 1] = g[end + 1] BY <3>2
    <3> QED BY <2>1, <2>3, <3>3 DEF FromAt, Ends, end
  <2> QED BY <2>2, <2>3
<1> QED BY <1>1, <1>2

LEMMA FromExists ==
    ASSUME NEW text, Len(text) \in Nat, NEW by
    PROVE  \E f : From(f, text, by, 1)
<1> DEFINE N == Len(text)
           T == {n \in 0..N : \E f : From(f, text, by, N + 1 - n)}
<1> HIDE DEF N
<1>0. N = Len(text) /\ N \in Nat BY DEF N
<1>1. 0 \in T
  <2> DEFINE f == [i \in (N + 1)..(N + 1) |-> [text |-> <<>>, hits |-> {}]]
  <2>1. \A i \in (N + 1)..(N + 1) : FromAt(f, text, by, i) = [text |-> <<>>, hits |-> {}]
    BY <1>0 DEF FromAt
  <2>2. f = [i \in (N + 1)..(N + 1) |-> FromAt(f, text, by, i)] BY <2>1
  <2> HIDE DEF f
  <2>3. From(f, text, by, N + 1 - 0) BY <1>0, <2>2 DEF From
  <2> QED BY <1>0, <2>3
<1>2. ASSUME NEW n \in 1..N, n - 1 \in T PROVE n \in T
  <2> DEFINE m == N + 1 - n
  <2>0. m \in 1..N /\ m + 1 = N + 1 - (n - 1) BY <1>0
  <2>1. PICK f : From(f, text, by, m + 1) BY <1>2, <2>0
  <2> HIDE DEF m
  <2>2. \A i \in (m + 1)..(N + 1) : f[i] = FromAt(f, text, by, i)
    BY <1>0, <2>1 DEF From
  <2> DEFINE g == [i \in m..(N + 1) |->
                    IF i = m THEN FromAt(f, text, by, m) ELSE f[i]]
  <2>3. \A i \in (m + 1)..(N + 1) : i \in m..(N + 1) /\ i # m BY <1>0, <2>0
  <2>4. m \in m..(N + 1) BY <1>0, <2>0
  <2>5. /\ g[m] = FromAt(f, text, by, m)
        /\ \A i \in (m + 1)..(N + 1) : g[i] = f[i]
        /\ g = [i \in m..(N + 1) |-> g[i]]
    BY <2>3, <2>4
  <2> HIDE DEF g
  <2>6. ASSUME NEW i \in m..(N + 1) PROVE g[i] = FromAt(g, text, by, i)
    <3>1. i \in 1..(N + 1) /\ \A j \in (i + 1)..(N + 1) : j \in (m + 1)..(N + 1)
      BY <1>0, <2>0
    <3>2. \A j \in (i + 1)..(N + 1) : f[j] = g[j] BY <2>5, <3>1
    <3>3. FromAt(f, text, by, i) = FromAt(g, text, by, i)
      BY <1>0, <3>1, <3>2, FromAgrees
    <3>4. i = m \/ i \in (m + 1)..(N + 1) BY <1>0, <2>0
    <3>5. CASE i = m BY <2>5, <3>3, <3>5
    <3>6. CASE i \in (m + 1)..(N + 1) BY <2>2, <2>5, <3>3, <3>6
    <3> QED BY <3>4, <3>5, <3>6
  <2>7. g = [i \in m..(N + 1) |-> FromAt(g, text, by, i)] BY <2>5, <2>6
  <2>8. From(g, text, by, m) BY <1>0, <2>7 DEF From
  <2>9. \E h : From(h, text, by, N + 1 - n) BY <2>8 DEF m
  <2> QED BY <2>9
<1> HIDE DEF T
<1>3. \A n \in 0..N : n \in T BY <1>0, <1>1, <1>2, Up
<1>4. N \in T BY <1>0, <1>3
<1>5. N + 1 - N = 1 BY <1>0
<1> QED BY <1>4, <1>5 DEF T

(* Nothing that is looked for begins at a place, and it stays; or the      *)
(* longest find at it gives way.                                           *)
Stays(f, text, by, i) ==
    /\ Ends(text, by, i) = {}
    /\ f[i].text = SubSeq(text, i, i) \o f[i + 1].text
    /\ f[i].hits = f[i + 1].hits

Gives(f, text, by, i, j) ==
    /\ j = Max(Ends(text, by, i)) /\ SubSeq(text, i, j) \in DOMAIN by
    /\ f[i].text = by[SubSeq(text, i, j)] \o f[j + 1].text
    /\ f[i].hits = f[j + 1].hits \cup {SubSeq(text, i, j)}

Runs(f, text, by) ==
    /\ Replaced(text, by) = f[1]
    /\ f[Len(text) + 1] = [text |-> <<>>, hits |-> {}]
    /\ \A i \in 1..Len(text) :
          \/ Stays(f, text, by, i)
          \/ \E j \in i..Len(text) : Gives(f, text, by, i, j)

LEMMA ReplacedRuns ==
    ASSUME NEW text, Len(text) \in Nat, NEW by
    PROVE  \E f : Runs(f, text, by)
<1> DEFINE N == Len(text)
           f == CHOOSE f : From(f, text, by, 1)
<1>1. Replaced(text, by) = f[1] BY DEF Replaced, From, FromAt
<1>2. From(f, text, by, 1) BY FromExists
<1> HIDE DEF f
<1>3. \A i \in 1..(N + 1) : f[i] = FromAt(f, text, by, i) BY <1>2 DEF From
<1>4. f[N + 1] = [text |-> <<>>, hits |-> {}]
  <2>1. N + 1 \in 1..(N + 1) /\ N + 1 > N OBVIOUS
  <2>2. f[N + 1] = FromAt(f, text, by, N + 1) BY <1>3, <2>1
  <2> QED BY <2>1, <2>2 DEF FromAt
<1>5. ASSUME NEW i \in 1..N
      PROVE  \/ Stays(f, text, by, i)
             \/ \E j \in i..N : Gives(f, text, by, i, j)
  <2>1. f[i] = FromAt(f, text, by, i) /\ ~(i > N) BY <1>3
  <2>2. CASE Ends(text, by, i) = {}
    <3> DEFINE t == SubSeq(text, i, i) \o f[i + 1].text
               h == f[i + 1].hits
    <3>1. f[i] = [text |-> t, hits |-> h] BY <2>1, <2>2 DEF FromAt, Ends
    <3>2. f[i].text = t /\ f[i].hits = h
      <4> HIDE DEF t, h
      <4> QED BY <3>1
    <3> QED BY <2>2, <3>2 DEF Stays
  <2>3. CASE Ends(text, by, i) # {}
    <3> DEFINE end == Max(Ends(text, by, i))
    <3>1. end \in i..N /\ SubSeq(text, i, end) \in DOMAIN by
      BY <2>3, EndsMax
    <3> DEFINE t == by[SubSeq(text, i, end)] \o f[end + 1].text
               h == f[end + 1].hits \cup {SubSeq(text, i, end)}
    <3>2. f[i] = [text |-> t, hits |-> h] BY <2>1, <2>3 DEF FromAt, Ends
    <3>3. f[i].text = t /\ f[i].hits = h
      <4> HIDE DEF t, h
      <4> QED BY <3>2
    <3> QED BY <3>1, <3>3 DEF Gives
  <2> QED BY <2>2, <2>3
<1> QED BY <1>1, <1>4, <1>5 DEF Runs

(* What a text and its hits are made of. *)
MadeOf(r, text, by) ==
    /\ IsFiniteSet(r.hits) /\ r.hits \subseteq DOMAIN by
    /\ \A x \in Range(r.text) :
          x \in Range(text) \/ \E s \in r.hits : x \in Range(by[s])

(* Every find that gave way is a part of the text, and what is left comes  *)
(* from the text or from what took the place of a find.                    *)
LEMMA ReplacedMadeOf ==
    ASSUME NEW P, NEW text \in Seq(P), NEW by, NEW Q,
           \A s \in DOMAIN by : by[s] \in Seq(Q)
    PROVE  LET r == Replaced(text, by)
           IN  /\ r.text \in Seq(P \cup Q) /\ MadeOf(r, text, by)
               /\ \A s \in r.hits : s \in Seq(P) /\ s # <<>>
<1> DEFINE N == Len(text)
           PQ == P \cup Q
<1>1. N \in Nat OBVIOUS
<1>2. PICK f : Runs(f, text, by) BY <1>1, ReplacedRuns
<1> DEFINE Good(i) == /\ f[i].text \in Seq(PQ) /\ MadeOf(f[i], text, by)
                      /\ \A s \in f[i].hits : s \in Seq(P) /\ s # <<>>
           T == {i \in 1..(N + 1) : Good(i)}
<1>3. Good(N + 1)
  <2>1. f[N + 1].text = <<>> /\ f[N + 1].hits = {} BY <1>2 DEF Runs
  <2>2. Range(<<>>) = {} /\ <<>> \in Seq(PQ) BY DEF Range
  <2>3. IsFiniteSet({}) BY FS_EmptySet
  <2> QED BY <2>1, <2>2, <2>3 DEF MadeOf
<1>4. ASSUME NEW i \in 1..N, \A j \in (i + 1)..(N + 1) : Good(j)
      PROVE  Good(i)
  <2>1. CASE Stays(f, text, by, i)
    <3> DEFINE part == SubSeq(text, i, i)
    <3>1. Good(i + 1)
      <4>1. i + 1 \in (i + 1)..(N + 1) BY <1>1
      <4> QED BY <1>4, <4>1
    <3>2. part \in Seq(P) /\ Range(part) \subseteq Range(text)
      <4>1. i \in i..N BY <1>1
      <4>2. part \in Seq(P) /\ Range(part) = {text[k] : k \in i..i}
        BY <4>1, PartSeq
      <4> QED BY <1>1, <4>2 DEF Range
    <3>3. f[i].text = part \o f[i + 1].text /\ f[i].hits = f[i + 1].hits
      BY <2>1 DEF Stays
    <3> HIDE DEF part
    <3>4. part \in Seq(PQ) BY <3>2, SeqMonotonic
    <3>5. /\ f[i].text \in Seq(PQ)
          /\ Range(f[i].text) = Range(part) \cup Range(f[i + 1].text)
      BY <3>1, <3>3, <3>4, ConcatProperties, RangeConcatenation
    <3> QED BY <3>1, <3>2, <3>3, <3>5 DEF MadeOf
  <2>2. ASSUME NEW j \in i..N, Gives(f, text, by, i, j) PROVE Good(i)
    <3> DEFINE part == SubSeq(text, i, j)
    <3>1. Good(j + 1)
      <4>1. j + 1 \in (i + 1)..(N + 1) BY <1>1
      <4> QED BY <1>4, <4>1
    <3>2. part \in Seq(P) /\ part # <<>> BY PartSeq
    <3>3. /\ part \in DOMAIN by
          /\ f[i].text = by[part] \o f[j + 1].text
          /\ f[i].hits = f[j + 1].hits \cup {part}
      BY <2>2 DEF Gives
    <3> HIDE DEF part
    <3>4. by[part] \in Seq(PQ) BY <3>3, SeqMonotonic
    <3>5. /\ f[i].text \in Seq(PQ)
          /\ Range(f[i].text) = Range(by[part]) \cup Range(f[j + 1].text)
      BY <3>1, <3>3, <3>4, ConcatProperties, RangeConcatenation
    <3>6. IsFiniteSet(f[i].hits)
      <4> DEFINE h == f[j + 1].hits
      <4>1. IsFiniteSet(h) BY <3>1 DEF MadeOf
      <4>2. f[i].hits = h \cup {part} BY <3>3
      <4> HIDE DEF h
      <4>3. IsFiniteSet(h \cup {part}) BY <4>1, FS_AddElement
      <4> QED BY <4>2, <4>3
    <3> QED BY <3>1, <3>2, <3>3, <3>5, <3>6 DEF MadeOf
  <2> QED BY <1>2, <2>1, <2>2 DEF Runs
<1> HIDE DEF Good
<1>5. \A i \in 1..(N + 1) : i \in T
  <2>1. N + 1 \in T BY <1>1, <1>3
  <2>2. ASSUME NEW i \in 1..N, \A j \in (i + 1)..(N + 1) : j \in T
        PROVE  i \in T
    BY <1>1, <1>4, <2>2
  <2> HIDE DEF T, N
  <2> QED BY <1>1, <2>1, <2>2, Down
<1>6. Good(1) BY <1>1, <1>5
<1> QED BY <1>2, <1>6 DEF Runs, Good

(* The end of u, from a place in it on, stands in s at a place.            *)
Stands(u, a, s, i) ==
    /\ i + Len(u) - a <= Len(s)
    /\ \A k \in a..Len(u) : s[i + k - a] = u[k]

LEMMA StandsPart ==
    ASSUME NEW P, NEW s \in Seq(P), NEW U, NEW u \in Seq(U), u # <<>>,
           NEW i \in 1..Len(s), Stands(u, 1, s, i)
    PROVE  /\ i + Len(u) - 1 \in i..Len(s)
           /\ u = SubSeq(s, i, i + Len(u) - 1)
<1> DEFINE n == Len(u)
           j == i + n - 1
           part == SubSeq(s, i, j)
<1>1. n \in Nat /\ n >= 1 /\ Len(s) \in Nat /\ j \in i..Len(s) /\ j - i + 1 = n
  BY EmptySeq DEF Stands
<1>2. /\ part \in Seq(P) /\ Len(part) = n
      /\ \A k \in 1..n : part[k] = s[i + k - 1]
  BY <1>1, PartSeq
<1>3. \A k \in 1..n : part[k] = u[k] BY <1>1, <1>2 DEF Stands
<1> HIDE DEF part
<1>4. part \in Seq(P \cup U) /\ u \in Seq(P \cup U) BY <1>2, SeqMonotonic
<1> QED BY <1>1, <1>2, <1>3, <1>4, SeqEqual DEF part

IsTyped(u) == \A k \in 1..Len(u) : ~IsPlaceholderPiece(u[k])

(* What stands in a text with a piece before it stands in the rest.        *)
LEMMA StandsBehind ==
    ASSUME NEW P, NEW b \in Seq(P), NEW s \in Seq(P), NEW U, NEW u \in Seq(U),
           NEW a \in 1..(Len(u) + 1), NEW p \in Nat, p > Len(b),
           Stands(u, a, b \o s, p)
    PROVE  Stands(u, a, s, p - Len(b))
<1> DEFINE m == Len(b)
           n == Len(u)
           l == Len(s)
           q == p - m
<1>1. m \in Nat /\ n \in Nat /\ l \in Nat /\ q \in Nat /\ q >= 1 OBVIOUS
<1>2. /\ Len(b \o s) = m + l
      /\ \A k \in (m + 1)..(m + l) : (b \o s)[k] = s[k - m]
  BY ConcatProperties
<1>3. p + n - a <= m + l /\ \A k \in a..n : (b \o s)[p + k - a] = u[k]
  BY <1>2 DEF Stands
<1> HIDE DEF m, n, l
<1>4. a \in 1..(n + 1) /\ p = q + m BY <1>1 DEF n, m
<1> HIDE DEF q
<1>5. q + n - a <= l BY <1>1, <1>3, <1>4
<1>6. ASSUME NEW k \in a..n PROVE s[q + k - a] = u[k]
  <2>1. p + k - a \in (m + 1)..(m + l) /\ (p + k - a) - m = q + k - a
    BY <1>1, <1>4, <1>5
  <2> QED BY <1>2, <1>3, <2>1
<1> QED BY <1>5, <1>6 DEF Stands, n, l, q, m

(* If finds give way to placeholders, what a person reads after it stood   *)
(* in the text before, and nothing that was looked for is left.            *)
LEMMA ReplacedLeaves ==
    ASSUME NEW P, NEW text \in Seq(P), NEW by, NEW Q,
           \A s \in DOMAIN by :
                /\ by[s] \in Seq(Q) /\ by[s] # <<>>
                /\ \A k \in 1..Len(by[s]) : IsPlaceholderPiece(by[s][k]),
           NEW U, NEW u \in Seq(U), u # <<>>, IsTyped(u),
           NEW p \in 1..Len(Replaced(text, by).text),
           Stands(u, 1, Replaced(text, by).text, p)
    PROVE  u \notin DOMAIN by /\ \E i \in 1..Len(text) : Stands(u, 1, text, i)
<1> DEFINE N == Len(text)
           n == Len(u)
           PQ == P \cup Q
<1>1. N \in Nat /\ n \in Nat /\ n >= 1 BY EmptySeq
<1>2. PICK f : Runs(f, text, by) BY <1>1, ReplacedRuns
<1> DEFINE Whole(i) == f[i].text \in Seq(PQ)
           InFront(i) == \A a \in 1..(n + 1) :
                Stands(u, a, f[i].text, 1) => Stands(u, a, text, i)
           Back(i) == \A q \in 1..Len(f[i].text) :
                Stands(u, 1, f[i].text, q) =>
                    u \notin DOMAIN by /\ \E j \in i..N : Stands(u, 1, text, j)
           Good(i) == Whole(i) /\ InFront(i) /\ Back(i)
           T == {i \in 1..(N + 1) : Good(i)}
<1>3. Good(N + 1)
  <2>1. f[N + 1].text = <<>> BY <1>2 DEF Runs
  <2>2. <<>> \in Seq(PQ) /\ Len(<<>>) = 0 OBVIOUS
  <2>3. ASSUME NEW a \in 1..(n + 1), Stands(u, a, <<>>, 1)
        PROVE  Stands(u, a, text, N + 1)
    <3>1. a = n + 1 BY <1>1, <2>2, <2>3 DEF Stands
    <3> QED BY <1>1, <3>1 DEF Stands
  <2> QED BY <2>1, <2>2, <2>3
<1>4. ASSUME NEW i \in 1..N, \A j \in (i + 1)..(N + 1) : Good(j)
      PROVE  Good(i)
  <2>1. CASE Stays(f, text, by, i)
    <3> DEFINE b == SubSeq(text, i, i)
               rest == f[i + 1].text
               whole == f[i].text
    <3>1. i + 1 \in (i + 1)..(N + 1) BY <1>1
    <3>2. Whole(i + 1) /\ InFront(i + 1) /\ Back(i + 1) BY <1>4, <3>1
    <3>3. i \in i..N BY <1>1
    <3>4. b \in Seq(P) /\ Len(b) = 1 /\ b[1] = text[i]
      <4>1. /\ b \in Seq(P) /\ Len(b) = i - i + 1
            /\ \A k \in 1..(i - i + 1) : b[k] = text[i + k - 1]
        BY <3>3, PartSeq
      <4> QED BY <1>1, <4>1
    <3>5. b \in Seq(PQ) BY <3>4, SeqMonotonic
    <3>6. whole = b \o rest BY <2>1 DEF Stays
    <3> HIDE DEF b
    <3>7. /\ whole \in Seq(PQ) /\ whole[1] = text[i]
          /\ Len(whole) = 1 + Len(rest)
      <4>1. rest \in Seq(PQ) /\ Len(rest) \in Nat BY <3>2
      <4> HIDE DEF whole, rest, PQ
      <4>2. /\ whole \in Seq(PQ) /\ Len(whole) = Len(b) + Len(rest)
            /\ \A k \in 1..(Len(b) + Len(rest)) :
                  whole[k] = IF k <= Len(b) THEN b[k] ELSE rest[k - Len(b)]
        BY <3>5, <3>6, <4>1, ConcatProperties
      <4>3. 1 \in 1..(Len(b) + Len(rest)) /\ 1 <= Len(b) BY <3>4, <4>1
      <4> QED BY <3>4, <4>2, <4>3
    <3>8. ASSUME NEW a \in 1..(n + 1), Stands(u, a, whole, 1)
          PROVE  Stands(u, a, text, i)
      <4>1. CASE a = n + 1 BY <1>1, <4>1 DEF Stands
      <4>2. CASE a # n + 1
        <5>1. a \in 1..n /\ a + 1 \in 1..(n + 1) BY <1>1, <4>2
        <5>2. 1 + a - a = 1 BY <5>1
        <5>3. u[a] = text[i] BY <3>7, <3>8, <5>1, <5>2 DEF Stands
        <5>4. Stands(u, a + 1, whole, 2)
          <6>1. 2 + n - (a + 1) = 1 + n - a BY <1>1, <5>1
          <6>2. \A k \in (a + 1)..n : k \in a..n /\ 2 + k - (a + 1) = 1 + k - a
            BY <1>1, <5>1
          <6> QED BY <3>8, <6>1, <6>2 DEF Stands
        <5>5. Stands(u, a + 1, rest, 1)
          <6> DEFINE c == a + 1
                     two == 1 + 1
          <6>1. Stands(u, c, b \o rest, two) BY <3>6, <5>4
          <6>2. rest \in Seq(PQ) /\ c \in 1..(Len(u) + 1) BY <3>2, <5>1
          <6>3. two \in Nat /\ two > Len(b) /\ two - Len(b) = 1 BY <3>4
          <6> HIDE DEF rest, PQ, c, two
          <6>4. Stands(u, c, rest, two - Len(b))
            BY <3>5, <6>1, <6>2, <6>3, StandsBehind
          <6> QED BY <6>3, <6>4 DEF c
        <5>6. Stands(u, a + 1, text, i + 1) BY <3>2, <5>1, <5>5
        <5>7. i + n - a <= N
          <6>1. (i + 1) + n - (a + 1) = i + n - a BY <1>1, <5>1
          <6> QED BY <5>6, <6>1 DEF Stands
        <5>8. ASSUME NEW k \in a..n PROVE text[i + k - a] = u[k]
          <6>1. CASE k = a BY <1>1, <5>3, <6>1
          <6>2. CASE k # a
            <7>1. k \in (a + 1)..n /\ (i + 1) + k - (a + 1) = i + k - a
              BY <1>1, <6>2
            <7> QED BY <5>6, <7>1 DEF Stands
          <6> QED BY <6>1, <6>2
        <5> QED BY <5>7, <5>8 DEF Stands
      <4> QED BY <4>1, <4>2
    <3>9. ASSUME NEW q \in 1..Len(whole), Stands(u, 1, whole, q)
          PROVE  u \notin DOMAIN by /\ \E j \in i..N : Stands(u, 1, text, j)
      <4>1. CASE q = 1
        <5>1. 1 \in 1..(n + 1) BY <1>1
        <5>2. Stands(u, 1, text, i) BY <3>8, <3>9, <4>1, <5>1
        <5>3. i + n - 1 \in i..N /\ u = SubSeq(text, i, i + n - 1)
          BY <5>2, StandsPart
        <5>4. u \notin DOMAIN by BY <2>1, <5>3 DEF Stays, Ends
        <5> QED BY <3>3, <5>2, <5>4
      <4>2. CASE q # 1
        <5>1. rest \in Seq(PQ) /\ Len(rest) \in Nat BY <3>2
        <5>2. q \in Nat /\ q > Len(b) /\ q - 1 \in 1..Len(rest)
          BY <3>4, <3>7, <4>2, <5>1
        <5>3. Stands(u, 1, b \o rest, q) /\ 1 \in 1..(n + 1)
          BY <1>1, <3>6, <3>9
        <5>4. Stands(u, 1, rest, q - 1)
          <6> HIDE DEF rest, PQ
          <6>1. Stands(u, 1, rest, q - Len(b))
            BY <3>5, <5>1, <5>2, <5>3, StandsBehind
          <6> QED BY <3>4, <6>1
        <5>5. u \notin DOMAIN by /\ \E j \in (i + 1)..N : Stands(u, 1, text, j)
          BY <3>2, <5>2, <5>4
        <5>6. \A j \in (i + 1)..N : j \in i..N BY <1>1
        <5> QED BY <5>5, <5>6
      <4> QED BY <4>1, <4>2
    <3> QED BY <3>7, <3>8, <3>9
  <2>2. ASSUME NEW j \in i..N, Gives(f, text, by, i, j) PROVE Good(i)
    <3> DEFINE b == by[SubSeq(text, i, j)]
               rest == f[j + 1].text
               whole == f[i].text
    <3>1. j + 1 \in (i + 1)..(N + 1) BY <1>1
    <3>2. Whole(j + 1) /\ Back(j + 1) BY <1>4, <3>1
    <3>3. /\ b \in Seq(Q) /\ b # <<>>
          /\ \A k \in 1..Len(b) : IsPlaceholderPiece(b[k])
          /\ whole = b \o rest
      BY <2>2 DEF Gives
    <3> HIDE DEF b
    <3>4. b \in Seq(PQ) /\ Len(b) \in Nat /\ Len(b) >= 1
      BY <3>3, SeqMonotonic, EmptySeq
    <3>5. /\ rest \in Seq(PQ) /\ Len(rest) \in Nat
          /\ whole \in Seq(PQ) /\ Len(whole) = Len(b) + Len(rest)
          /\ \A k \in 1..Len(b) : whole[k] = b[k]
      <4>1. rest \in Seq(PQ) BY <3>2
      <4> HIDE DEF whole, rest, PQ
      <4> QED BY <3>3, <3>4, <4>1, ConcatProperties
    <3>6. ASSUME NEW a \in 1..(n + 1), NEW q \in 1..Len(b),
                 Stands(u, a, whole, q)
          PROVE  a = n + 1
      <4> SUFFICES ASSUME a # n + 1 PROVE FALSE OBVIOUS
      <4>1. a \in 1..n /\ a \in a..n /\ q + a - a = q BY <1>1
      <4>2. u[a] = b[q] BY <3>5, <3>6, <4>1 DEF Stands
      <4> QED BY <3>3, <4>1, <4>2 DEF IsTyped
    <3>7. InFront(i)
      <4> SUFFICES ASSUME NEW a \in 1..(n + 1), Stands(u, a, whole, 1)
                   PROVE  Stands(u, a, text, i)
        OBVIOUS
      <4>1. a = n + 1 BY <3>4, <3>6
      <4> QED BY <1>1, <4>1 DEF Stands
    <3>8. ASSUME NEW q \in 1..Len(whole), Stands(u, 1, whole, q)
          PROVE  u \notin DOMAIN by /\ \E l \in i..N : Stands(u, 1, text, l)
      <4>1. ~(q \in 1..Len(b))
        <5>1. 1 \in 1..(n + 1) /\ 1 # n + 1 BY <1>1
        <5> QED BY <3>6, <3>8, <5>1
      <4>2. q \in Nat /\ q > Len(b) /\ q - Len(b) \in 1..Len(rest)
        BY <3>4, <3>5, <4>1
      <4>3. Stands(u, 1, b \o rest, q) /\ 1 \in 1..(n + 1)
        BY <1>1, <3>3, <3>8
      <4>4. Stands(u, 1, rest, q - Len(b))
        <5> HIDE DEF rest, PQ
        <5> QED BY <3>4, <3>5, <4>2, <4>3, StandsBehind
      <4>5. u \notin DOMAIN by /\ \E l \in (j + 1)..N : Stands(u, 1, text, l)
        BY <3>2, <4>2, <4>4
      <4>6. \A l \in (j + 1)..N : l \in i..N BY <1>1
      <4> QED BY <4>5, <4>6
    <3> QED BY <3>5, <3>7, <3>8
  <2> QED BY <1>2, <2>1, <2>2 DEF Runs
<1> HIDE DEF Good
<1>5. \A i \in 1..(N + 1) : i \in T
  <2>1. N + 1 \in T BY <1>1, <1>3
  <2>2. ASSUME NEW i \in 1..N, \A j \in (i + 1)..(N + 1) : j \in T
        PROVE  i \in T
    BY <1>1, <1>4, <2>2
  <2> HIDE DEF T, N
  <2> QED BY <1>1, <2>1, <2>2, Down
<1>6. Back(1)
  <2>1. Good(1) BY <1>1, <1>5
  <2> QED BY <2>1 DEF Good
<1>7. Replaced(text, by).text = f[1].text BY <1>2 DEF Runs
<1> QED BY <1>6, <1>7

-----------------------------------------------------------------------------
(* Placeholders, and one pass.                                             *)

Hash(entry) ==
    [c |-> IF entry \in DigitHashed THEN "digits" ELSE "hash",
     of |-> <<entry>>]

(* The pieces texts are made of, given the pieces they were made of before *)
(* and the entries of the map.                                             *)
Made(P, entries) == P \cup entries \cup {Hash(e) : e \in entries}

LEMMA PlaceholderPieces ==
    ASSUME NEW e
    PROVE  /\ Placeholder(e) = <<e, Hash(e)>>
           /\ Placeholder(e) \in Seq({e, Hash(e)})
           /\ Len(Placeholder(e)) = 2 /\ Placeholder(e) # <<>>
           /\ Placeholder(e)[1] = e /\ Placeholder(e)[2] = Hash(e)
           /\ Range(Placeholder(e)) = {e, Hash(e)}
           /\ IsPlaceholderPiece(Hash(e))
           /\ Hash(e).c \in {"digits", "hash"}
<1> DEFINE h == Hash(e)
<1>1. Placeholder(e) = <<e, h>> BY DEF Placeholder, Hash
<1>2. h.of = <<e>> /\ h.c \in {"digits", "hash"} BY DEF Hash
<1>3. <<e>> # <<>> OBVIOUS
<1> HIDE DEF h
<1>4. /\ <<e, h>> \in Seq({e, h}) /\ Len(<<e, h>>) = 2
      /\ <<e, h>>[1] = e /\ <<e, h>>[2] = h /\ <<e, h>> # <<>>
  OBVIOUS
<1>5. Range(<<e, h>>) = {e, h}
  <2>1. Range(<<e, h>>) = {<<e, h>>[k] : k \in 1..2}
    BY <1>4, RangeEquality
  <2>2. \A k \in 1..2 : k = 1 \/ k = 2 OBVIOUS
  <2>3. 1 \in 1..2 /\ 2 \in 1..2 OBVIOUS
  <2> QED BY <1>4, <2>1, <2>2, <2>3
<1> QED BY <1>1, <1>2, <1>3, <1>4, <1>5 DEF h, IsPlaceholderPiece

(* A text on its way through the passes, and the entries so far.           *)
Passing(state, P) ==
    /\ state.text \in Seq(Made(P, state.entries))
    /\ IsFiniteSet(state.entries)
    /\ \A e \in state.entries :
          /\ e.c \in DOMAIN Length /\ e.of # <<>> /\ e = Entry(e.c, e.of)
          /\ e.of \in Seq(Made(P, state.entries))

LEMMA MadeGrows ==
    ASSUME NEW P, NEW D, NEW E, D \subseteq E
    PROVE  Made(P, D) \subseteq Made(P, E)
BY DEF Made

(* The image of the hits. *)
LEMMA EntriesFinite ==
    ASSUME NEW tag, NEW S, IsFiniteSet(S)
    PROVE  IsFiniteSet({Entry(tag, s) : s \in S})
<1> DEFINE f == [s \in S |-> Entry(tag, s)]
           T == {Entry(tag, s) : s \in S}
<1>1. f \in Surjection(S, T) BY DEF Surjection
<1> HIDE DEF f, T
<1>2. IsFiniteSet(T) BY <1>1, FS_Surjection
<1> QED BY <1>2 DEF T

LEMMA PassKeeps ==
    ASSUME NEW P, NEW state, Passing(state, P), NEW tag \in DOMAIN Length,
           NEW found, \A s \in found : s # <<>>
    PROVE  Passing(Pass(state, tag, found), P)
<1> DEFINE by == [s \in found |-> Placeholder(Entry(tag, s))]
           M == Made(P, state.entries)
           Q == UNION {Range(Placeholder(Entry(tag, s))) : s \in found}
           r == Replaced(state.text, by)
           new == {Entry(tag, s) : s \in r.hits}
           entries == state.entries \cup new
           after == Pass(state, tag, found)
<1>1. state.text \in Seq(M) BY DEF Passing
<1>2. \A s \in DOMAIN by : by[s] \in Seq(Q)
  <2> SUFFICES ASSUME NEW s \in found
               PROVE  Placeholder(Entry(tag, s)) \in Seq(Q)
    OBVIOUS
  <2> DEFINE e == Entry(tag, s)
  <2>1. Range(Placeholder(e)) \subseteq Q OBVIOUS
  <2> HIDE DEF Q, e
  <2>2. Placeholder(e) \in Seq({e, Hash(e)})
        /\ Range(Placeholder(e)) = {e, Hash(e)}
    BY PlaceholderPieces
  <2> QED BY <2>1, <2>2, SeqMonotonic DEF e
<1>3. /\ r.text \in Seq(M \cup Q) /\ MadeOf(r, state.text, by)
      /\ \A s \in r.hits : s \in Seq(M) /\ s # <<>>
  <2> HIDE DEF by, M, Q
  <2> QED BY <1>1, <1>2, ReplacedMadeOf
<1>4. after.text = r.text /\ after.entries = entries BY DEF Pass
<1>5. IsFiniteSet(entries)
  <2>1. IsFiniteSet(new) BY <1>3, EntriesFinite DEF MadeOf
  <2> HIDE DEF new
  <2> QED BY <2>1, FS_Union DEF Passing
<1>6. M \subseteq Made(P, entries) BY MadeGrows
<1>7. \A x \in Range(r.text) : x \in Made(P, entries)
  <2> SUFFICES ASSUME NEW x \in Range(r.text) PROVE x \in Made(P, entries)
    OBVIOUS
  <2>1. CASE x \in Range(state.text)
    BY <1>1, <1>6, <2>1, RangeOfSeq
  <2>2. ASSUME NEW s \in r.hits, x \in Range(by[s])
        PROVE  x \in Made(P, entries)
    <3>1. s \in found BY <1>3 DEF MadeOf
    <3>2. by[s] = Placeholder(Entry(tag, s)) BY <3>1
    <3>3. x \in {Entry(tag, s), Hash(Entry(tag, s))}
      BY <2>2, <3>2, PlaceholderPieces
    <3>4. Entry(tag, s) \in entries OBVIOUS
    <3> QED BY <3>3, <3>4 DEF Made
  <2> QED BY <1>3, <2>1, <2>2 DEF MadeOf
<1>8. r.text \in Seq(Made(P, entries))
  <2>1. r.text \in Seq(Range(r.text)) BY <1>3, SeqOfRange
  <2> QED BY <1>7, <2>1, SeqMonotonic
<1>9. ASSUME NEW e \in entries
      PROVE  /\ e.c \in DOMAIN Length /\ e.of # <<>> /\ e = Entry(e.c, e.of)
             /\ e.of \in Seq(Made(P, entries))
  <2>1. CASE e \in state.entries
    BY <1>6, <2>1, SeqMonotonic DEF Passing
  <2>2. ASSUME NEW s \in r.hits, e = Entry(tag, s)
        PROVE  /\ e.c \in DOMAIN Length /\ e.of # <<>> /\ e = Entry(e.c, e.of)
               /\ e.of \in Seq(Made(P, entries))
    <3>1. e.c = tag /\ e.of = s BY <2>2 DEF Entry
    <3> HIDE DEF entries, M, r
    <3> QED BY <1>3, <1>6, <2>2, <3>1, SeqMonotonic
  <2> QED BY <2>1, <2>2
<1> HIDE DEF entries, after, r
<1> QED BY <1>4, <1>5, <1>8, <1>9 DEF Passing, after

(* What a person reads in a text after a pass stood in it before, and is   *)
(* not what the pass looked for.                                           *)
LEMMA PassLeaves ==
    ASSUME NEW P, NEW state, state.text \in Seq(P), NEW tag,
           NEW found, \A s \in found : s # <<>>,
           NEW U, NEW u \in Seq(U), u # <<>>, IsTyped(u),
           NEW p \in 1..Len(Pass(state, tag, found).text),
           Stands(u, 1, Pass(state, tag, found).text, p)
    PROVE  /\ u \notin found
           /\ \E i \in 1..Len(state.text) : Stands(u, 1, state.text, i)
<1> DEFINE by == [s \in found |-> Placeholder(Entry(tag, s))]
           Q == UNION {Range(Placeholder(Entry(tag, s))) : s \in found}
<1>1. Pass(state, tag, found).text = Replaced(state.text, by).text BY DEF Pass
<1>2. \A s \in DOMAIN by :
          /\ by[s] \in Seq(Q) /\ by[s] # <<>>
          /\ \A k \in 1..Len(by[s]) : IsPlaceholderPiece(by[s][k])
  <2> SUFFICES ASSUME NEW s \in found
               PROVE  LET b == Placeholder(Entry(tag, s))
                      IN  /\ b \in Seq(Q) /\ b # <<>>
                          /\ \A k \in 1..Len(b) : IsPlaceholderPiece(b[k])
    OBVIOUS
  <2> DEFINE e == Entry(tag, s)
             b == Placeholder(e)
  <2>1. Range(b) \subseteq Q OBVIOUS
  <2>2. IsPlaceholderPiece(e) BY DEF Entry, IsPlaceholderPiece
  <2> HIDE DEF Q, e
  <2>3. /\ b \in Seq({e, Hash(e)}) /\ Range(b) = {e, Hash(e)} /\ Len(b) = 2
        /\ b # <<>> /\ b[1] = e /\ b[2] = Hash(e) /\ IsPlaceholderPiece(Hash(e))
    BY PlaceholderPieces
  <2> HIDE DEF b
  <2>4. b \in Seq(Q) BY <2>1, <2>3, SeqMonotonic
  <2>5. ASSUME NEW k \in 1..Len(b) PROVE IsPlaceholderPiece(b[k])
    <3>1. k = 1 \/ k = 2 BY <2>3
    <3> QED BY <2>2, <2>3, <3>1
  <2> QED BY <2>3, <2>4, <2>5 DEF b, e
<1>3. DOMAIN by = found OBVIOUS
<1> HIDE DEF by, Q
<1>4. /\ p \in 1..Len(Replaced(state.text, by).text)
      /\ Stands(u, 1, Replaced(state.text, by).text, p)
  BY <1>1
<1>5. u \notin DOMAIN by /\ \E i \in 1..Len(state.text) :
                                Stands(u, 1, state.text, i)
  BY <1>2, <1>4, ReplacedLeaves
<1> QED BY <1>3, <1>5

-----------------------------------------------------------------------------
(* The passes of redact.                                                   *)

PassesTo(f, text, terms, n) ==
    f = [k \in 0..n |-> IF k = 0 THEN [text |-> text, entries |-> {}]
                                 ELSE Passed(f[k - 1], terms, k)]

LEMMA PassesExist ==
    ASSUME NEW text, NEW terms, NEW N \in Nat
    PROVE  \E f : PassesTo(f, text, terms, N)
<1> DEFINE T == {n \in 0..N : \E f : PassesTo(f, text, terms, n)}
<1>1. 0 \in T
  <2> DEFINE f == [k \in 0..0 |-> [text |-> text, entries |-> {}]]
  <2>1. PassesTo(f, text, terms, 0) BY DEF PassesTo
  <2> QED BY <2>1
<1>2. ASSUME NEW n \in 1..N, n - 1 \in T PROVE n \in T
  <2>1. PICK f : PassesTo(f, text, terms, n - 1) BY <1>2
  <2> DEFINE g == [k \in 0..n |->
                    IF k = n THEN Passed(f[n - 1], terms, n) ELSE f[k]]
             Value(k) == IF k = 0 THEN [text |-> text, entries |-> {}]
                                  ELSE Passed(g[k - 1], terms, k)
  <2>2. ASSUME NEW k \in 0..n PROVE g[k] = Value(k)
    <3>1. CASE k = n
      <4>1. g[n - 1] = f[n - 1] /\ n # 0 OBVIOUS
      <4>2. g[n] = Passed(f[n - 1], terms, n) OBVIOUS
      <4> HIDE DEF g
      <4> QED BY <3>1, <4>1, <4>2
    <3>2. CASE k # n
      <4>1. k \in 0..(n - 1) /\ g[k] = f[k] BY <3>2
      <4>2. k # 0 => g[k - 1] = f[k - 1] BY <3>2
      <4>3. f[k] = IF k = 0 THEN [text |-> text, entries |-> {}]
                            ELSE Passed(f[k - 1], terms, k)
        BY <2>1, <4>1 DEF PassesTo
      <4> HIDE DEF g
      <4> QED BY <4>1, <4>2, <4>3
    <3> QED BY <3>1, <3>2
  <2>3. g = [k \in 0..n |-> Value(k)]
    <3>1. g = [k \in 0..n |-> g[k]] OBVIOUS
    <3> HIDE DEF g
    <3> QED BY <2>2, <3>1
  <2>4. PassesTo(g, text, terms, n) BY <2>3 DEF PassesTo
  <2> QED BY <2>4
<1> HIDE DEF T
<1>3. \A n \in 0..N : n \in T BY <1>1, <1>2, Up
<1> QED BY <1>3 DEF T

LEMMA RulesTags ==
    /\ Len(Rules) \in Nat /\ DOMAIN Rules = 1..Len(Rules)
    /\ \A n \in 1..Len(Rules) : Rules[n] \in DOMAIN Length
<1> DEFINE always == <<"PRIVATE_KEY", "API_KEY", "EMAIL", "PHONE", "ETH_ADDR">>
           more == IF Mode = "strict" THEN <<"URL">> ELSE <<>>
           S == DOMAIN Length
<1>1. S = {"PRIVATE_KEY", "ETH_ADDR", "API_KEY", "CUSTOM", "EMAIL", "PHONE",
           "URL"}
  BY DEF Length
<1> HIDE DEF S
<1>2. always \in Seq(S) BY <1>1
<1>3. more \in Seq(S)
  <2>1. <<"URL">> \in Seq(S) BY <1>1
  <2>2. <<>> \in Seq(S) OBVIOUS
  <2>3. more = <<"URL">> \/ more = <<>> OBVIOUS
  <2> HIDE DEF more
  <2> QED BY <2>1, <2>2, <2>3
<1> HIDE DEF always, more
<1>4. always \o more \in Seq(S) BY <1>2, <1>3, ConcatProperties
<1>5. Rules = always \o more BY DEF Rules, always, more
<1>6. Rules \in Seq(S) BY <1>4, <1>5
<1>7. /\ Len(Rules) \in Nat /\ DOMAIN Rules = 1..Len(Rules)
      /\ \A n \in 1..Len(Rules) : Rules[n] \in S
  BY <1>6, LenProperties, ElementOfSeq
<1> QED BY <1>7 DEF S

LEMMA FoundNotEmpty ==
    ASSUME NEW P, NEW text \in Seq(P), NEW tag
    PROVE  \A s \in Found(tag, text) : s # <<>>
<1> SUFFICES ASSUME NEW s \in Found(tag, text) PROVE s # <<>> OBVIOUS
<1>1. PICK i \in 1..Len(text) : \E j \in i..Len(text) : s = SubSeq(text, i, j)
  <2>1. DOMAIN text = 1..Len(text) OBVIOUS
  <2>2. Found(tag, text) \subseteq
          UNION {{SubSeq(text, i, j) : j \in i..Len(text)} : i \in DOMAIN text}
    BY DEF Found
  <2> QED BY <2>1, <2>2
<1>2. PICK j \in i..Len(text) : s = SubSeq(text, i, j) BY <1>1
<1> QED BY <1>2, PartSeq

LEMMA NotBlank == ASSUME NEW t, ~Blank(t) PROVE t # <<>>
<1>1. Blank(<<>>) BY DEF Blank
<1> QED BY <1>1

(* What a pass looks for has a tag, and is not nothing.                    *)
LEMMA SoughtIs ==
    ASSUME NEW P, NEW text \in Seq(P), NEW terms, Len(terms) \in Nat,
           NEW n \in 1..Passes(terms)
    PROVE  LET sought == Sought(text, terms, n)
           IN  /\ sought.tag \in DOMAIN Length
               /\ \A s \in sought.found : s # <<>>
<1>1. CASE n <= Len(Rules)
  <2>1. n \in 1..Len(Rules) BY <1>1, RulesTags
  <2>2. Rules[n] \in DOMAIN Length BY <2>1, RulesTags
  <2>3. Sought(text, terms, n).tag = Rules[n]
        /\ Sought(text, terms, n).found = Found(Rules[n], text)
    BY <1>1 DEF Sought
  <2> QED BY <2>2, <2>3, FoundNotEmpty
<1>2. CASE ~(n <= Len(Rules))
  <2>1. /\ Sought(text, terms, n).tag = "CUSTOM"
        /\ Sought(text, terms, n).found =
                {t \in {terms[n - Len(Rules)]} : ~Blank(t)}
    BY <1>2 DEF Sought
  <2>2. "CUSTOM" \in DOMAIN Length BY DEF Length
  <2> QED BY <2>1, <2>2, NotBlank
<1> QED BY <1>1, <1>2

Seeks(text, terms, n) == Sought(text, terms, n).found

(* A pass is one for a tag. *)
LEMMA PassedIsPass ==
    ASSUME NEW P, NEW state, state.text \in Seq(P), NEW terms,
           Len(terms) \in Nat, NEW n \in 1..Passes(terms)
    PROVE  \E tag \in DOMAIN Length :
              /\ \A s \in Seeks(state.text, terms, n) : s # <<>>
              /\ Passed(state, terms, n)
                    = Pass(state, tag, Seeks(state.text, terms, n))
<1> DEFINE sought == Sought(state.text, terms, n)
<1>1. sought.tag \in DOMAIN Length /\ \A s \in sought.found : s # <<>>
  BY SoughtIs
<1>2. Passed(state, terms, n) = Pass(state, sought.tag, sought.found)
  BY DEF Passed
<1> HIDE DEF sought
<1> QED BY <1>1, <1>2 DEF Seeks, sought

(* The states of redact, one after the other.                              *)
Redacts(f, text, terms) ==
    /\ f[0] = [text |-> text, entries |-> {}]
    /\ \A n \in 1..Passes(terms) : f[n] = Passed(f[n - 1], terms, n)
    /\ Redacted(text, terms) = IF Mode = "none" THEN f[0] ELSE f[Passes(terms)]

LEMMA PassesNat ==
    ASSUME NEW terms, Len(terms) \in Nat
    PROVE  Passes(terms) \in Nat /\ Len(Rules) <= Passes(terms)
BY RulesTags DEF Passes

LEMMA RedactsExist ==
    ASSUME NEW text, NEW terms, Len(terms) \in Nat
    PROVE  \E f : Redacts(f, text, terms)
<1> DEFINE N == Passes(terms)
           f == CHOOSE f : PassesTo(f, text, terms, N)
           raw == [text |-> text, entries |-> {}]
<1>1. N \in Nat BY PassesNat
<1>2. PassesTo(f, text, terms, N)
  <2> HIDE DEF N
  <2> QED BY <1>1, PassesExist
<1>3. Redacted(text, terms) = IF Mode = "none" THEN raw ELSE f[N]
  BY DEF Redacted, PassesTo
<1> HIDE DEF f, N
<1>4. \A k \in 0..N : f[k] = IF k = 0 THEN raw ELSE Passed(f[k - 1], terms, k)
  BY <1>2 DEF PassesTo
<1>5. f[0] = raw
  <2>1. 0 \in 0..N BY <1>1
  <2> HIDE DEF raw
  <2> QED BY <1>4, <2>1
<1>6. \A n \in 1..N : n \in 0..N /\ n # 0 BY <1>1
<1>7. \A n \in 1..N : f[n] = Passed(f[n - 1], terms, n) BY <1>4, <1>6
<1> QED BY <1>3, <1>5, <1>7 DEF Redacts, N

LEMMA RedactsKeep ==
    ASSUME NEW P, NEW text \in Seq(P), NEW terms, Len(terms) \in Nat,
           NEW f, Redacts(f, text, terms)
    PROVE  \A n \in 0..Passes(terms) : Passing(f[n], P)
<1> DEFINE N == Passes(terms)
<1>1. N \in Nat BY PassesNat
<1> DEFINE T == {n \in 0..N : Passing(f[n], P)}
<1>2. Passing(f[0], P)
  <2>1. f[0].text = text /\ f[0].entries = {} BY DEF Redacts
  <2>2. Made(P, {}) = P BY DEF Made
  <2>3. IsFiniteSet({}) BY FS_EmptySet
  <2> QED BY <2>1, <2>2, <2>3 DEF Passing
<1>3. ASSUME NEW n \in 1..N, Passing(f[n - 1], P) PROVE Passing(f[n], P)
  <2> DEFINE s == f[n - 1]
  <2>1. f[n] = Passed(s, terms, n) BY DEF Redacts
  <2>2. s.text \in Seq(Made(P, s.entries)) BY <1>3 DEF Passing
  <2> HIDE DEF s
  <2>3. \E tag \in DOMAIN Length :
            /\ \A x \in Seeks(s.text, terms, n) : x # <<>>
            /\ Passed(s, terms, n) = Pass(s, tag, Seeks(s.text, terms, n))
    BY <2>2, PassedIsPass
  <2>4. Passing(s, P) BY <1>3 DEF s
  <2> QED BY <2>1, <2>3, <2>4, PassKeeps
<1>4. 0 \in T BY <1>1, <1>2
<1>5. ASSUME NEW n \in 1..N, n - 1 \in T PROVE n \in T BY <1>1, <1>3, <1>5
<1> HIDE DEF T, N
<1>6. \A n \in 0..N : n \in T BY <1>1, <1>4, <1>5, Up
<1> QED BY <1>6 DEF T, N

(* A redacted text is made of what it was made of before and of the        *)
(* placeholders of its entries, whose originals are made of the same.      *)
LEMMA RedactedMade ==
    ASSUME NEW P, NEW text \in Seq(P), NEW terms, Len(terms) \in Nat
    PROVE  Passing(Redacted(text, terms), P)
<1>1. Passes(terms) \in Nat BY PassesNat
<1>2. PICK f : Redacts(f, text, terms) BY RedactsExist
<1>3. \A n \in 0..Passes(terms) : Passing(f[n], P) BY <1>2, RedactsKeep
<1>4. Passing(f[0], P) /\ Passing(f[Passes(terms)], P) BY <1>1, <1>3
<1> QED BY <1>2, <1>4 DEF Redacts

(* What a person reads in a redacted text matches no rule and is no term.  *)
LEMMA RedactedLeaves ==
    ASSUME NEW P, NEW text \in Seq(P), NEW terms, Len(terms) \in Nat,
           Mode # "none", NEW U, NEW u \in Seq(U), u # <<>>, IsTyped(u),
           NEW p \in 1..Len(Redact(text, terms)),
           Stands(u, 1, Redact(text, terms), p)
    PROVE  /\ \A n \in 1..Len(Rules) : ~Matches(Rules[n], u)
           /\ \A k \in 1..Len(terms) : Blank(u) \/ terms[k] # u
<1> DEFINE N == Passes(terms)
           R == Len(Rules)
           In(s) == \E i \in 1..Len(s) : Stands(u, 1, s, i)
<1>1. N \in Nat /\ R \in Nat /\ R <= N BY PassesNat, RulesTags
<1>2. PICK f : Redacts(f, text, terms) BY RedactsExist
<1>3. \A n \in 0..N : Passing(f[n], P) BY <1>2, RedactsKeep
<1>4. In(f[N].text) BY <1>2 DEF Redacts, Redact
<1>5. ASSUME NEW n \in 1..N, In(f[n].text)
      PROVE  /\ In(f[n - 1].text)
             /\ u \notin Seeks(f[n - 1].text, terms, n)
  <2> DEFINE s == f[n - 1]
             M == Made(P, s.entries)
             found == Seeks(s.text, terms, n)
  <2>1. n - 1 \in 0..N BY <1>1
  <2>2. s.text \in Seq(M) BY <1>3, <2>1 DEF Passing
  <2>3. f[n] = Passed(s, terms, n) BY <1>2 DEF Redacts
  <2> HIDE DEF s, M
  <2>4. PICK tag \in DOMAIN Length :
            /\ \A x \in found : x # <<>>
            /\ Passed(s, terms, n) = Pass(s, tag, found)
    BY <2>2, PassedIsPass
  <2> HIDE DEF found
  <2>5. PICK i \in 1..Len(Pass(s, tag, found).text) :
            Stands(u, 1, Pass(s, tag, found).text, i)
    BY <1>5, <2>3, <2>4
  <2>6. In(s.text) /\ u \notin found BY <2>2, <2>4, <2>5, PassLeaves
  <2> QED BY <2>6 DEF s, found
<1> DEFINE T == {k \in 0..N : In(f[N - k].text)}
<1>6. \A k \in 0..N : k \in T
  <2>1. 0 \in T BY <1>1, <1>4
  <2>2. ASSUME NEW k \in 1..N, k - 1 \in T PROVE k \in T
    <3> DEFINE n == N - (k - 1)
    <3>1. n \in 1..N /\ n - 1 = N - k BY <1>1
    <3>2. In(f[n].text) BY <2>2
    <3>3. In(f[n - 1].text) BY <1>5, <3>1, <3>2
    <3> QED BY <1>1, <3>1, <3>3
  <2> HIDE DEF T, N
  <2> QED BY <1>1, <2>1, <2>2, Up
<1>7. ASSUME NEW n \in 0..N PROVE In(f[n].text)
  <2>1. N - n \in 0..N /\ N - (N - n) = n BY <1>1
  <2>2. In(f[N - (N - n)].text) BY <1>6, <2>1
  <2> QED BY <2>1, <2>2
<1>8. ASSUME NEW n \in 1..N PROVE u \notin Seeks(f[n - 1].text, terms, n)
  <2>1. n \in 0..N BY <1>1
  <2> QED BY <1>5, <1>7, <2>1
<1>9. ASSUME NEW n \in 1..R, Matches(Rules[n], u) PROVE FALSE
  <2> DEFINE s == f[n - 1].text
             M == Made(P, f[n - 1].entries)
  <2>1. n \in 1..N /\ n - 1 \in 0..N /\ n <= R /\ ~(n > R) BY <1>1
  <2>2. s \in Seq(M) BY <1>3, <2>1 DEF Passing
  <2>3. PICK i \in 1..Len(s) : Stands(u, 1, s, i) BY <1>7, <2>1
  <2> HIDE DEF s, M
  <2>4. i + Len(u) - 1 \in i..Len(s) /\ u = SubSeq(s, i, i + Len(u) - 1)
    BY <2>2, <2>3, StandsPart
  <2>5. i \in DOMAIN s BY <2>2
  <2>6. u \in Found(Rules[n], s) BY <1>9, <2>4, <2>5, SMTT(30) DEF Found
  <2>7. u \in Seeks(s, terms, n) BY <2>1, <2>6 DEF Seeks, Sought
  <2> QED BY <1>8, <2>1, <2>7 DEF s
<1>10. ASSUME NEW k \in 1..Len(terms), ~Blank(u), terms[k] = u PROVE FALSE
  <2> DEFINE n == R + k
  <2>1. n \in 1..N /\ n > R /\ ~(n <= R) /\ n - R = k
    BY <1>1 DEF Passes
  <2> HIDE DEF n
  <2>2. u \in Seeks(f[n - 1].text, terms, n)
    BY <1>10, <2>1 DEF Seeks, Sought
  <2> QED BY <1>8, <1>10, <2>1, <2>2
<1> QED BY <1>9, <1>10

-----------------------------------------------------------------------------
(* The way back.                                                           *)

LEMMA RestoreMade ==
    ASSUME NEW M, NEW text \in Seq(M), NEW entry, entry.of \in Seq(M)
    PROVE  Restore(text, entry) \in Seq(M)
<1> DEFINE by == [s \in {Placeholder(entry)} |-> entry.of]
           r == Replaced(text, by)
<1>1. \A s \in DOMAIN by : by[s] \in Seq(M) OBVIOUS
<1> HIDE DEF by
<1>2. r.text \in Seq(M \cup M) BY <1>1, ReplacedMadeOf
<1>3. M \cup M = M OBVIOUS
<1> QED BY <1>2, <1>3 DEF Restore, by

RestoresTo(f, text, order, n) ==
    f = [k \in 0..n |-> IF k = 0 THEN text ELSE Restore(f[k - 1], order[k])]

LEMMA RestoresExist ==
    ASSUME NEW text, NEW order, NEW N \in Nat
    PROVE  \E f : RestoresTo(f, text, order, N)
<1> DEFINE T == {n \in 0..N : \E f : RestoresTo(f, text, order, n)}
<1>1. 0 \in T
  <2> DEFINE f == [k \in 0..0 |-> text]
  <2>1. RestoresTo(f, text, order, 0) BY DEF RestoresTo
  <2> QED BY <2>1
<1>2. ASSUME NEW n \in 1..N, n - 1 \in T PROVE n \in T
  <2>1. PICK f : RestoresTo(f, text, order, n - 1) BY <1>2
  <2> DEFINE g == [k \in 0..n |->
                    IF k = n THEN Restore(f[n - 1], order[n]) ELSE f[k]]
             Value(k) == IF k = 0 THEN text ELSE Restore(g[k - 1], order[k])
  <2>2. ASSUME NEW k \in 0..n PROVE g[k] = Value(k)
    <3>1. CASE k = n
      <4>1. g[n - 1] = f[n - 1] /\ n # 0 OBVIOUS
      <4>2. g[n] = Restore(f[n - 1], order[n]) OBVIOUS
      <4> HIDE DEF g
      <4> QED BY <3>1, <4>1, <4>2
    <3>2. CASE k # n
      <4>1. k \in 0..(n - 1) /\ g[k] = f[k] BY <3>2
      <4>2. k # 0 => g[k - 1] = f[k - 1] BY <3>2
      <4>3. f[k] = IF k = 0 THEN text ELSE Restore(f[k - 1], order[k])
        BY <2>1, <4>1 DEF RestoresTo
      <4> HIDE DEF g
      <4> QED BY <4>1, <4>2, <4>3
    <3> QED BY <3>1, <3>2
  <2>3. g = [k \in 0..n |-> Value(k)]
    <3>1. g = [k \in 0..n |-> g[k]] OBVIOUS
    <3> HIDE DEF g
    <3> QED BY <2>2, <3>1
  <2>4. RestoresTo(g, text, order, n) BY <2>3 DEF RestoresTo
  <2> QED BY <2>4
<1> HIDE DEF T
<1>3. \A n \in 0..N : n \in T BY <1>1, <1>2, Up
<1> QED BY <1>3 DEF T

(* The texts on the way back, one after the other.                         *)
LEMMA RestoredRuns ==
    ASSUME NEW text, NEW order, Len(order) \in Nat
    PROVE  \E f : /\ f[0] = text /\ Restored(text, order) = f[Len(order)]
                  /\ \A n \in 1..Len(order) : f[n] = Restore(f[n - 1], order[n])
<1> DEFINE N == Len(order)
           f == CHOOSE f : RestoresTo(f, text, order, N)
<1>1. RestoresTo(f, text, order, N) BY RestoresExist
<1>2. Restored(text, order) = f[N] BY DEF Restored, RestoresTo
<1> HIDE DEF f
<1>3. \A k \in 0..N : f[k] = IF k = 0 THEN text ELSE Restore(f[k - 1], order[k])
  BY <1>1 DEF RestoresTo
<1>4. \A n \in 1..N : n \in 0..N /\ n # 0 OBVIOUS
<1> QED BY <1>2, <1>3, <1>4

LEMMA RestoredMade ==
    ASSUME NEW M, NEW text \in Seq(M), NEW order, Len(order) \in Nat,
           \A n \in 1..Len(order) : order[n].of \in Seq(M)
    PROVE  Restored(text, order) \in Seq(M)
<1> DEFINE N == Len(order)
<1>1. PICK f : /\ f[0] = text /\ Restored(text, order) = f[N]
               /\ \A n \in 1..N : f[n] = Restore(f[n - 1], order[n])
  BY RestoredRuns
<1> DEFINE T == {n \in 0..N : f[n] \in Seq(M)}
<1>2. 0 \in T BY <1>1
<1>3. ASSUME NEW n \in 1..N, n - 1 \in T PROVE n \in T
  <2> DEFINE was == f[n - 1]
             e == order[n]
  <2>1. was \in Seq(M) /\ e.of \in Seq(M) BY <1>3
  <2>2. f[n] = Restore(was, e) BY <1>1
  <2> HIDE DEF was, e
  <2>3. f[n] \in Seq(M) BY <2>1, <2>2, RestoreMade
  <2> QED BY <2>3
<1> HIDE DEF T
<1>4. \A n \in 0..N : n \in T BY <1>2, <1>3, Up
<1> QED BY <1>1, <1>4 DEF T

LEMMA OrderOf ==
    ASSUME NEW S, IsFiniteSet(S), NEW order \in SetToSeqs(S)
    PROVE  /\ Len(order) = Cardinality(S) /\ Len(order) \in Nat
           /\ \A n \in 1..Len(order) : order[n] \in S
<1> DEFINE m == Cardinality(S)
<1>1. m \in Nat BY FS_CardinalityType
<1>2. order \in [1..m -> S] BY DEF SetToSeqs
<1> HIDE DEF m
<1>3. Len(order) = m BY <1>1, <1>2
<1> QED BY <1>1, <1>2, <1>3 DEF m

(* The stages of rehydrate: every text it may have made of the placeholders *)
(* of the first lengths.                                                   *)
There(text, map) ==
    {e \in map : e \in Range(text) \/ \E f \in map : e \in Range(f.of)}

Group(text, map, n) == {e \in There(text, map) : Length[e.c] = Lengths[n]}

Stage(outs, text, map, n) ==
    {Restored(out, order) :
        out \in outs, order \in SetToSeqs(Group(text, map, n))}

StagesTo(f, text, map, n) ==
    f = [k \in 0..n |-> IF k = 0 THEN {text} ELSE Stage(f[k - 1], text, map, k)]

LEMMA StagesExist ==
    ASSUME NEW text, NEW map, NEW N \in Nat
    PROVE  \E f : StagesTo(f, text, map, N)
<1> DEFINE T == {n \in 0..N : \E f : StagesTo(f, text, map, n)}
<1>1. 0 \in T
  <2> DEFINE f == [k \in 0..0 |-> {text}]
  <2>1. StagesTo(f, text, map, 0) BY DEF StagesTo
  <2> QED BY <2>1
<1>2. ASSUME NEW n \in 1..N, n - 1 \in T PROVE n \in T
  <2>1. PICK f : StagesTo(f, text, map, n - 1) BY <1>2
  <2> DEFINE g == [k \in 0..n |->
                    IF k = n THEN Stage(f[n - 1], text, map, n) ELSE f[k]]
             Value(k) == IF k = 0 THEN {text} ELSE Stage(g[k - 1], text, map, k)
  <2>2. ASSUME NEW k \in 0..n PROVE g[k] = Value(k)
    <3>1. CASE k = n
      <4>1. g[n - 1] = f[n - 1] /\ n # 0 OBVIOUS
      <4>2. g[n] = Stage(f[n - 1], text, map, n) OBVIOUS
      <4> HIDE DEF g
      <4> QED BY <3>1, <4>1, <4>2
    <3>2. CASE k # n
      <4>1. k \in 0..(n - 1) /\ g[k] = f[k] BY <3>2
      <4>2. k # 0 => g[k - 1] = f[k - 1] BY <3>2
      <4>3. f[k] = IF k = 0 THEN {text} ELSE Stage(f[k - 1], text, map, k)
        BY <2>1, <4>1 DEF StagesTo
      <4> HIDE DEF g
      <4> QED BY <4>1, <4>2, <4>3
    <3> QED BY <3>1, <3>2
  <2>3. g = [k \in 0..n |-> Value(k)]
    <3>1. g = [k \in 0..n |-> g[k]] OBVIOUS
    <3> HIDE DEF g
    <3> QED BY <2>2, <3>1
  <2>4. StagesTo(g, text, map, n) BY <2>3 DEF StagesTo
  <2> QED BY <2>4
<1> HIDE DEF T
<1>3. \A n \in 0..N : n \in T BY <1>1, <1>2, Up
<1> QED BY <1>3 DEF T

Rehydrates(f, text, map) ==
    /\ f[0] = {text} /\ Rehydrations(text, map) = f[6]
    /\ \A n \in 1..6 : f[n] = Stage(f[n - 1], text, map, n)

LEMMA RehydratesExist ==
    ASSUME NEW text, NEW map
    PROVE  \E f : Rehydrates(f, text, map)
<1> DEFINE f == CHOOSE f : StagesTo(f, text, map, 6)
<1>1. StagesTo(f, text, map, 6) BY StagesExist
<1>2. Len(Lengths) = 6 BY DEF Lengths
<1>3. Rehydrations(text, map) = f[6]
  BY <1>2 DEF Rehydrations, StagesTo, Stage, Group, There
<1> HIDE DEF f
<1>4. \A k \in 0..6 : f[k] = IF k = 0 THEN {text}
                                      ELSE Stage(f[k - 1], text, map, k)
  BY <1>1 DEF StagesTo
<1>5. \A n \in 1..6 : n \in 0..6 /\ n # 0 OBVIOUS
<1> QED BY <1>3, <1>4, <1>5 DEF Rehydrates

(* Whatever the order of the hash map, a rehydrated text is made of what   *)
(* the text and the originals are made of.                                 *)
LEMMA RehydrationsMade ==
    ASSUME NEW M, NEW text \in Seq(M), NEW map, IsFiniteSet(map),
           \A e \in map : e.of \in Seq(M)
    PROVE  Rehydrations(text, map) \subseteq Seq(M)
<1>0. PICK f : Rehydrates(f, text, map) BY RehydratesExist
<1>1. /\ f[0] = {text} /\ Rehydrations(text, map) = f[6]
      /\ \A n \in 1..6 : f[n] = Stage(f[n - 1], text, map, n)
  BY <1>0 DEF Rehydrates
<1> DEFINE T == {n \in 0..6 : f[n] \subseteq Seq(M)}
<1>2. 0 \in T BY <1>1
<1>3. ASSUME NEW n \in 1..6, n - 1 \in T PROVE n \in T
  <2> DEFINE group == Group(text, map, n)
  <2>1. group \in SUBSET map BY DEF Group, There
  <2>2. IsFiniteSet(group)
    <3> HIDE DEF group
    <3> QED BY <2>1, FS_Subset
  <2>3. f[n] = Stage(f[n - 1], text, map, n) BY <1>1
  <2>4. ASSUME NEW out \in f[n - 1], NEW order \in SetToSeqs(group)
        PROVE  Restored(out, order) \in Seq(M)
    <3>1. out \in Seq(M) BY <1>3
    <3> HIDE DEF group
    <3>2. Len(order) \in Nat /\ \A k \in 1..Len(order) : order[k] \in group
      BY <2>2, OrderOf
    <3>3. \A k \in 1..Len(order) : order[k].of \in Seq(M) BY <2>1, <3>2
    <3> QED BY <3>1, <3>2, <3>3, RestoredMade
  <2>5. f[n] \subseteq Seq(M) BY <2>3, <2>4 DEF Stage
  <2> QED BY <2>5
<1> HIDE DEF T
<1>4. \A n \in 0..6 : n \in T BY <1>2, <1>3, Up
<1>5. 6 \in 0..6 OBVIOUS
<1> QED BY <1>1, <1>4, <1>5 DEF T
-----------------------------------------------------------------------------
(* There and back.                                                         *)

(* A sequence over some set. *)
IsSeq(s) == \E S : s \in Seq(S)

Plain(T) == \A x \in T : ~IsPlaceholderPiece(x)

(* Placeholders of what was typed, and the pieces of a text whose          *)
(* placeholders are all of this kind.                                      *)
Shallow(T) == {Entry(tag, s) : tag \in DOMAIN Length, s \in Seq(T) \ {<<>>}}

Woven(T) == Made(T, Shallow(T))

(* Every placeholder has its hash behind it, every hash its placeholder    *)
(* before it.                                                              *)
Whole(s) ==
    /\ \A k \in 1..Len(s) :
          IsTag(s[k]) => k + 1 \in 1..Len(s) /\ s[k + 1] = Hash(s[k])
    /\ \A k \in 1..Len(s) : IsPlaceholderPiece(s[k]) /\ ~IsTag(s[k])
          => k - 1 \in 1..Len(s) /\ IsTag(s[k - 1])

LEMMA HashIsNoTag == ASSUME NEW e PROVE Hash(e).of = <<e>> /\ ~IsTag(Hash(e))
<1>1. Hash(e).c \in {"digits", "hash"} /\ Hash(e).of = <<e>> BY DEF Hash
<1>2. {"digits", "hash"} \cap DOMAIN Length = {} BY DEF Length
<1> QED BY <1>1, <1>2 DEF IsTag

LEMMA ShallowPieces ==
    ASSUME NEW T, NEW e \in Shallow(T)
    PROVE  /\ IsTag(e) /\ IsPlaceholderPiece(e) /\ e.of \in Seq(T)
           /\ e.of # <<>> /\ e.c \in DOMAIN Length /\ Origin(e) = e.of
<1>1. PICK tag \in DOMAIN Length, s \in Seq(T) \ {<<>>} : e = Entry(tag, s)
  BY DEF Shallow
<1>2. e.c = tag /\ e.of = s BY <1>1 DEF Entry
<1> QED BY <1>1, <1>2 DEF IsTag, IsPlaceholderPiece, Origin

LEMMA WovenPieces ==
    ASSUME NEW T, Plain(T), NEW p \in Woven(T)
    PROVE  /\ Origin(p) \in Seq(T)
           /\ ~IsPlaceholderPiece(p) => p \in T /\ Origin(p) = <<p>>
           /\ IsTag(p) => p \in Shallow(T)
           /\ IsPlaceholderPiece(p) /\ ~IsTag(p) =>
                /\ Origin(p) = <<>> /\ p.of \in Seq(Shallow(T))
                /\ p = Hash(p.of[1]) /\ p.of[1] \in Shallow(T)
<1>1. CASE p \in T
  <2>1. ~IsPlaceholderPiece(p) BY <1>1 DEF Plain
  <2> QED BY <1>1, <2>1 DEF Origin, IsTag
<1>2. CASE p \in Shallow(T)
  BY <1>2, ShallowPieces
<1>3. ASSUME NEW e \in Shallow(T), p = Hash(e)
      PROVE  /\ IsPlaceholderPiece(p) /\ ~IsTag(p) /\ p.of = <<e>>
             /\ Origin(p) = <<>> /\ Origin(p) \in Seq(T)
  <2>1. p.of = <<e>> /\ ~IsTag(p) BY <1>3, HashIsNoTag
  <2>2. IsPlaceholderPiece(p) BY <1>3, PlaceholderPieces
  <2> QED BY <2>1, <2>2, EmptySeq DEF Origin
<1>4. ASSUME NEW e \in Shallow(T), p = Hash(e)
      PROVE  p.of \in Seq(Shallow(T)) /\ p.of[1] = e
  <2>1. p.of = <<e>> BY <1>3, <1>4
  <2> QED BY <2>1
<1>5. p \in T \/ p \in Shallow(T) \/ \E e \in Shallow(T) : p = Hash(e)
  BY DEF Woven, Made
<1>6. CASE \E e \in Shallow(T) : p = Hash(e) BY <1>3, <1>4, <1>6
<1> QED BY <1>1, <1>2, <1>5, <1>6

-----------------------------------------------------------------------------
(* Whole texts.                                                            *)

LEMMA WholeTyped ==
    ASSUME NEW T, Plain(T), NEW s \in Seq(T)
    PROVE  Whole(s)
BY DEF Whole, Plain, IsTag

LEMMA WholePlaceholder ==
    ASSUME NEW e, IsTag(e)
    PROVE  Whole(Placeholder(e))
<1> DEFINE b == Placeholder(e)
<1>1. Len(b) = 2 /\ b[1] = e /\ b[2] = Hash(e) BY PlaceholderPieces
<1>2. ~IsTag(Hash(e)) BY HashIsNoTag
<1> HIDE DEF b
<1>3. \A k \in 1..Len(b) : k = 1 \/ k = 2 BY <1>1
<1>4. 1 \in 1..Len(b) /\ 2 \in 1..Len(b) BY <1>1
<1>5. ASSUME NEW k \in 1..Len(b), IsTag(b[k])
      PROVE  k + 1 \in 1..Len(b) /\ b[k + 1] = Hash(b[k])
  <2>1. k = 1 BY <1>1, <1>2, <1>3, <1>5
  <2> QED BY <1>1, <1>4, <2>1
<1>6. ASSUME NEW k \in 1..Len(b), IsPlaceholderPiece(b[k]), ~IsTag(b[k])
      PROVE  k - 1 \in 1..Len(b) /\ IsTag(b[k - 1])
  <2>1. k = 2 BY <1>1, <1>3, <1>6
  <2> QED BY <1>1, <1>4, <2>1
<1> QED BY <1>5, <1>6 DEF Whole, b

LEMMA WholeConcat ==
    ASSUME NEW W, NEW a \in Seq(W), NEW b \in Seq(W), Whole(a), Whole(b)
    PROVE  Whole(a \o b)
<1> DEFINE m == Len(a)
           n == Len(b)
           s == a \o b
<1>1. m \in Nat /\ n \in Nat /\ Len(s) = m + n
  BY ConcatProperties
<1>2. \A k \in 1..m : s[k] = a[k] BY <1>1, ConcatProperties
<1>3. \A k \in 1..n : s[m + k] = b[k] BY <1>1, ConcatProperties
<1>4. \A k \in 1..(m + n) : k \in 1..m \/ (k - m \in 1..n /\ k = m + (k - m))
  BY <1>1
<1> HIDE DEF s
<1>5. ASSUME NEW k \in 1..(m + n), IsTag(s[k])
      PROVE  k + 1 \in 1..(m + n) /\ s[k + 1] = Hash(s[k])
  <2>1. CASE k \in 1..m
    <3>1. k + 1 \in 1..m /\ a[k + 1] = Hash(a[k])
      BY <1>2, <1>5, <2>1 DEF Whole
    <3> QED BY <1>1, <1>2, <2>1, <3>1
  <2>2. CASE k - m \in 1..n
    <3> DEFINE j == k - m
    <3>1. j \in 1..n /\ k = m + j /\ s[k] = b[j] BY <1>1, <1>3, <1>4, <2>2
    <3> HIDE DEF j
    <3>2. j + 1 \in 1..n /\ b[j + 1] = Hash(b[j])
      BY <1>5, <3>1 DEF Whole
    <3>3. s[m + (j + 1)] = b[j + 1] BY <1>3, <3>2
    <3>4. m + (j + 1) = k + 1 /\ k + 1 \in 1..(m + n) BY <1>1, <3>1, <3>2
    <3> QED BY <3>1, <3>2, <3>3, <3>4
  <2> QED BY <1>4, <2>1, <2>2
<1>6. ASSUME NEW k \in 1..(m + n), IsPlaceholderPiece(s[k]), ~IsTag(s[k])
      PROVE  k - 1 \in 1..(m + n) /\ IsTag(s[k - 1])
  <2>1. CASE k \in 1..m
    <3>1. k - 1 \in 1..m /\ IsTag(a[k - 1])
      BY <1>2, <1>6, <2>1 DEF Whole
    <3> QED BY <1>1, <1>2, <2>1, <3>1
  <2>2. CASE k - m \in 1..n
    <3> DEFINE j == k - m
    <3>1. j \in 1..n /\ k = m + j /\ s[k] = b[j] BY <1>1, <1>3, <1>4, <2>2
    <3> HIDE DEF j
    <3>2. j - 1 \in 1..n /\ IsTag(b[j - 1])
      BY <1>6, <3>1 DEF Whole
    <3>3. s[m + (j - 1)] = b[j - 1] BY <1>3, <3>2
    <3>4. m + (j - 1) = k - 1 /\ k - 1 \in 1..(m + n) BY <1>1, <3>1, <3>2
    <3> QED BY <3>1, <3>2, <3>3, <3>4
  <2> QED BY <1>4, <2>1, <2>2
<1> HIDE DEF m, n
<1> QED BY <1>1, <1>5, <1>6 DEF Whole, s
-----------------------------------------------------------------------------
(* What a text stands for.                                                 *)

LEMMA OnePiece ==
    ASSUME NEW P, NEW s \in Seq(P), NEW i \in 1..Len(s)
    PROVE  SubSeq(s, i, i) = <<s[i]>>
<1> DEFINE one == SubSeq(s, i, i)
<1>1. i \in i..Len(s) /\ s[i] \in P OBVIOUS
<1>2. one \in Seq(P) /\ Len(one) = i - i + 1
      /\ \A k \in 1..(i - i + 1) : one[k] = s[i + k - 1]
  BY <1>1, PartSeq
<1>3. Len(one) = 1 /\ one[1] = s[i] BY <1>1, <1>2
<1> HIDE DEF one
<1>4. <<s[i]>> \in Seq(P) /\ Len(<<s[i]>>) = 1 /\ <<s[i]>>[1] = s[i] BY <1>1
<1>5. \A k \in 1..1 : k = 1 OBVIOUS
<1>6. one = <<s[i]>> BY <1>2, <1>3, <1>4, <1>5, SeqEqual
<1> QED BY <1>6 DEF one

(* Piece by piece, from the end. *)
ExpandsTo(f, s) ==
    /\ Expanded(s) = f[1] /\ f[Len(s) + 1] = <<>>
    /\ \A i \in 1..Len(s) : f[i] = Origin(s[i]) \o f[i + 1]

LEMMA ExpandRuns ==
    ASSUME NEW S, NEW s \in Seq(S)
    PROVE  \E f : ExpandsTo(f, s)
<1> DEFINE N == Len(s)
           by == Originals(s)
<1>1. N \in Nat OBVIOUS
<1>2. PICK g : Runs(g, s, by) BY <1>1, ReplacedRuns
<1> DEFINE f == [i \in 1..(N + 1) |-> g[i].text]
<1>3. ASSUME NEW i \in 1..N PROVE g[i].text = Origin(s[i]) \o g[i + 1].text
  <2> DEFINE one == SubSeq(s, i, i)
  <2>1. one = <<s[i]>> BY OnePiece
  <2>2. s[i] \in Range(s) BY <1>1 DEF Range
  <2>3. one \in DOMAIN by /\ by[one] = Origin(s[i])
    <3>1. one \in {<<p>> : p \in Range(s)} BY <2>1, <2>2
    <3>2. one[1] = s[i] BY <2>1
    <3> HIDE DEF one
    <3> QED BY <3>1, <3>2 DEF Originals
  <2>4. i \in Ends(s, by, i) BY <1>1, <2>3 DEF Ends
  <2>5. PICK j \in i..N : Gives(g, s, by, i, j)
    <3>1. ~Stays(g, s, by, i) BY <2>4 DEF Stays
    <3> QED BY <1>2, <3>1 DEF Runs
  <2>6. j = i
    <3>1. SubSeq(s, i, j) \in {<<p>> : p \in Range(s)}
      BY <2>5 DEF Gives, Originals
    <3>2. Len(SubSeq(s, i, j)) = 1 BY <3>1
    <3>3. Len(SubSeq(s, i, j)) = j - i + 1 BY PartSeq
    <3>4. j \in Int /\ i \in Int BY <1>1
    <3> QED BY <3>2, <3>3, <3>4
  <2>7. g[i].text = by[one] \o g[i + 1].text BY <2>5, <2>6 DEF Gives
  <2> QED BY <2>3, <2>7
<1>4. Expanded(s) = g[1].text BY <1>2 DEF Runs, Expanded
<1>5. g[N + 1].text = <<>> BY <1>2 DEF Runs
<1>6. ExpandsTo(f, s)
  <2>1. \A i \in 1..(N + 1) : f[i] = g[i].text OBVIOUS
  <2>2. 1 \in 1..(N + 1) /\ N + 1 \in 1..(N + 1) BY <1>1
  <2>3. \A i \in 1..N : i \in 1..(N + 1) /\ i + 1 \in 1..(N + 1) BY <1>1
  <2> HIDE DEF f
  <2> QED BY <1>3, <1>4, <1>5, <2>1, <2>2, <2>3 DEF ExpandsTo
<1> QED BY <1>6

LEMMA ExpandSeq ==
    ASSUME NEW T, Plain(T), NEW s \in Seq(Woven(T)), NEW f, ExpandsTo(f, s)
    PROVE  \A i \in 1..(Len(s) + 1) : f[i] \in Seq(T)
<1> DEFINE N == Len(s)
           D == {i \in 1..(N + 1) : f[i] \in Seq(T)}
<1>1. N \in Nat OBVIOUS
<1>2. N + 1 \in D
  <2>1. f[N + 1] = <<>> BY DEF ExpandsTo
  <2>2. <<>> \in Seq(T) BY EmptySeq
  <2>3. N + 1 \in 1..(N + 1) BY <1>1
  <2> QED BY <2>1, <2>2, <2>3
<1>3. ASSUME NEW i \in 1..N, \A j \in (i + 1)..(N + 1) : j \in D PROVE i \in D
  <2>1. i + 1 \in (i + 1)..(N + 1) BY <1>1
  <2>2. f[i + 1] \in Seq(T) BY <1>3, <2>1
  <2>3. s[i] \in Woven(T) OBVIOUS
  <2>4. Origin(s[i]) \in Seq(T) BY <2>3, WovenPieces
  <2>5. f[i] = Origin(s[i]) \o f[i + 1] BY DEF ExpandsTo
  <2>6. f[i] \in Seq(T) BY <2>2, <2>4, <2>5, ConcatProperties
  <2> QED BY <2>6
<1> HIDE DEF D, N
<1>4. \A i \in 1..(N + 1) : i \in D BY <1>1, <1>2, <1>3, Down
<1> QED BY <1>4 DEF D, N

(* It is that of its parts.                                                *)
LEMMA ExpandConcat ==
    ASSUME NEW T, Plain(T), NEW a \in Seq(Woven(T)), NEW b \in Seq(Woven(T))
    PROVE  /\ Expanded(a \o b) = Expanded(a) \o Expanded(b)
           /\ Expanded(a) \in Seq(T)
<1> DEFINE W == Woven(T)
           m == Len(a)
           n == Len(b)
           s == a \o b
<1>1. m \in Nat /\ n \in Nat /\ s \in Seq(W) /\ Len(s) = m + n
  BY ConcatProperties
<1>2. \A k \in 1..m : s[k] = a[k] BY <1>1, ConcatProperties
<1>3. \A k \in 1..n : s[m + k] = b[k] BY <1>1, ConcatProperties
<1>4. PICK f : ExpandsTo(f, s) BY <1>1, ExpandRuns
<1>5. PICK g : ExpandsTo(g, a) BY ExpandRuns
<1>6. PICK h : ExpandsTo(h, b) BY ExpandRuns
<1>7. /\ \A i \in 1..(m + 1) : g[i] \in Seq(T)
      /\ \A i \in 1..(n + 1) : h[i] \in Seq(T)
  BY <1>5, <1>6, ExpandSeq
<1> HIDE DEF s, W
<1>8. \A i \in 1..(n + 1) : f[m + i] = h[i]
  <2> DEFINE D == {i \in 1..(n + 1) : f[m + i] = h[i]}
  <2>1. n + 1 \in D
    <3>1. m + (n + 1) = Len(s) + 1 BY <1>1
    <3>2. f[m + (n + 1)] = <<>> /\ h[n + 1] = <<>>
      BY <1>4, <1>6, <3>1 DEF ExpandsTo
    <3> QED BY <1>1, <3>2
  <2>2. ASSUME NEW i \in 1..n, \A j \in (i + 1)..(n + 1) : j \in D
        PROVE  i \in D
    <3>1. i + 1 \in (i + 1)..(n + 1) BY <1>1
    <3>2. f[m + (i + 1)] = h[i + 1] BY <2>2, <3>1
    <3>3. m + i \in 1..Len(s) /\ (m + i) + 1 = m + (i + 1) BY <1>1
    <3>4. f[m + i] = Origin(s[m + i]) \o f[m + (i + 1)]
      BY <1>4, <3>3 DEF ExpandsTo
    <3>5. h[i] = Origin(b[i]) \o h[i + 1] BY <1>6 DEF ExpandsTo
    <3>6. f[m + i] = h[i] BY <1>3, <3>2, <3>4, <3>5
    <3> QED BY <3>6
  <2> HIDE DEF D, m, n
  <2>3. \A i \in 1..(n + 1) : i \in D BY <1>1, <2>1, <2>2, Down
  <2> QED BY <2>3 DEF D
<1>9. \A i \in 1..(m + 1) : f[i] = g[i] \o h[1]
  <2> DEFINE D == {i \in 1..(m + 1) : f[i] = g[i] \o h[1]}
  <2>1. h[1] \in Seq(T) BY <1>1, <1>7
  <2>2. m + 1 \in D
    <3>1. f[m + 1] = h[1] BY <1>1, <1>8
    <3>2. g[m + 1] = <<>> BY <1>5 DEF ExpandsTo
    <3>3. <<>> \o h[1] = h[1] BY <2>1, ConcatEmptySeq
    <3>4. f[m + 1] = g[m + 1] \o h[1] BY <3>1, <3>2, <3>3
    <3>5. m + 1 \in 1..(m + 1) BY <1>1
    <3> QED BY <3>4, <3>5
  <2>3. ASSUME NEW i \in 1..m, \A j \in (i + 1)..(m + 1) : j \in D
        PROVE  i \in D
    <3>1. i + 1 \in (i + 1)..(m + 1) BY <1>1
    <3>2. f[i + 1] = g[i + 1] \o h[1] BY <2>3, <3>1
    <3>3. i \in 1..Len(s) BY <1>1
    <3>4. f[i] = Origin(s[i]) \o f[i + 1] BY <1>4, <3>3 DEF ExpandsTo
    <3>5. g[i] = Origin(a[i]) \o g[i + 1] BY <1>5 DEF ExpandsTo
    <3>6. Origin(a[i]) \in Seq(T)
      <4>1. a[i] \in Woven(T) OBVIOUS
      <4> QED BY <4>1, WovenPieces
    <3>7. i + 1 \in 1..(m + 1) /\ i \in 1..(m + 1) BY <1>1
    <3>8. (Origin(a[i]) \o g[i + 1]) \o h[1] = Origin(a[i]) \o (g[i + 1] \o h[1])
      <4>1. g[i + 1] \in Seq(T) BY <1>7, <3>7
      <4> DEFINE x == Origin(a[i])
                 y == g[i + 1]
                 z == h[1]
      <4>2. x \in Seq(T) /\ y \in Seq(T) /\ z \in Seq(T) BY <2>1, <3>6, <4>1
      <4> HIDE DEF x, y, z
      <4>3. (x \o y) \o z = x \o (y \o z) BY <4>2, ConcatAssociative, SMTT(30)
      <4> QED BY <4>3 DEF x, y, z
    <3>9. f[i] = g[i] \o h[1] BY <1>2, <3>2, <3>4, <3>5, <3>8
    <3> QED BY <3>7, <3>9
  <2> HIDE DEF D, m, n
  <2>4. \A i \in 1..(m + 1) : i \in D BY <1>1, <2>2, <2>3, Down
  <2> QED BY <2>4 DEF D
<1>10. 1 \in 1..(m + 1) BY <1>1
<1>11. f[1] = g[1] \o h[1] /\ g[1] \in Seq(T) BY <1>7, <1>9, <1>10
<1> QED BY <1>4, <1>5, <1>6, <1>11 DEF ExpandsTo, s

(* What was typed stands for itself.                                       *)
LEMMA ExpandTyped ==
    ASSUME NEW T, Plain(T), NEW s \in Seq(T)
    PROVE  Expanded(s) = s
<1> DEFINE N == Len(s)
<1>1. N \in Nat OBVIOUS
<1>2. PICK f : ExpandsTo(f, s) BY ExpandRuns
<1> DEFINE D == {i \in 1..(N + 1) : f[i] = SubSeq(s, i, N)}
<1>3. N + 1 \in D
  <2>1. SubSeq(s, N + 1, N) = <<>> BY <1>1, SubSeqEmpty
  <2>2. f[N + 1] = <<>> BY <1>2 DEF ExpandsTo
  <2>3. N + 1 \in 1..(N + 1) BY <1>1
  <2>4. f[N + 1] = SubSeq(s, N + 1, N) BY <2>1, <2>2
  <2> HIDE DEF N
  <2> QED BY <2>3, <2>4
<1>4. ASSUME NEW i \in 1..N, \A j \in (i + 1)..(N + 1) : j \in D PROVE i \in D
  <2>1. i + 1 \in (i + 1)..(N + 1) BY <1>1
  <2>2. f[i + 1] = SubSeq(s, i + 1, N) BY <1>4, <2>1
  <2>3. Origin(s[i]) = <<s[i]>>
    <3>1. s[i] \in T OBVIOUS
    <3> QED BY <3>1 DEF Plain, Origin
  <2>4. f[i] = Origin(s[i]) \o f[i + 1] BY <1>2 DEF ExpandsTo
  <2>5. N \in i..Len(s) BY <1>1
  <2>6. SubSeq(s, i, N) = <<s[i]>> \o SubSeq(s, i + 1, N)
    BY <2>5, SubSeqRecursiveFirst
  <2>7. f[i] = SubSeq(s, i, N) BY <2>2, <2>3, <2>4, <2>6
  <2> QED BY <2>7
<1> HIDE DEF D, N
<1>5. \A i \in 1..(N + 1) : i \in D BY <1>1, <1>3, <1>4, Down
<1> USE DEF D, N
<1>6. f[1] = SubSeq(s, 1, Len(s)) BY <1>1, <1>5
<1>7. SubSeq(s, 1, Len(s)) = s BY SubSeqFull
<1> QED BY <1>2, <1>6, <1>7 DEF ExpandsTo

LEMMA ExpandPlaceholder ==
    ASSUME NEW T, Plain(T), NEW e \in Shallow(T)
    PROVE  /\ Expanded(Placeholder(e)) = e.of
           /\ Placeholder(e) \in Seq(Woven(T))
<1> DEFINE b == Placeholder(e)
<1>1. /\ b \in Seq({e, Hash(e)}) /\ Len(b) = 2 /\ b[1] = e /\ b[2] = Hash(e)
  BY PlaceholderPieces
<1>2. {e, Hash(e)} \subseteq Woven(T) BY DEF Woven, Made
<1> HIDE DEF b
<1>3. b \in Seq(Woven(T)) BY <1>1, <1>2, SeqMonotonic
<1>4. PICK f : ExpandsTo(f, b) BY <1>3, ExpandRuns
<1>5. f[3] = <<>> BY <1>1, <1>4 DEF ExpandsTo
<1>6. 1 \in 1..Len(b) /\ 2 \in 1..Len(b) /\ 1 + 1 = 2 /\ 2 + 1 = 3 BY <1>1
<1>7. f[1] = Origin(e) \o f[2] /\ f[2] = Origin(Hash(e)) \o f[3]
  BY <1>1, <1>4, <1>6 DEF ExpandsTo
<1>8. Origin(Hash(e)) = <<>>
  BY HashIsNoTag, PlaceholderPieces DEF Origin
<1>9. Origin(e) = e.of /\ e.of \in Seq(T) BY ShallowPieces
<1>10. f[2] = <<>> BY <1>5, <1>7, <1>8
<1>11. e.of \o <<>> = e.of BY <1>9, ConcatEmptySeq
<1>12. f[1] = e.of BY <1>7, <1>9, <1>10, <1>11
<1> QED BY <1>3, <1>4, <1>12 DEF ExpandsTo, b
-----------------------------------------------------------------------------
(* What takes the place of a part and stands for the same.                 *)

LEMMA TwoPieces == ASSUME NEW x, NEW y PROVE <<x>> \o <<y>> = <<x, y>>
<1> DEFINE a == <<x>>
           b == <<y>>
           s == a \o b
           S == {x, y}
<1>1. a \in Seq(S) /\ b \in Seq(S) /\ <<x, y>> \in Seq(S) OBVIOUS
<1>2. Len(a) = 1 /\ Len(b) = 1 /\ Len(<<x, y>>) = 2 /\ a[1] = x /\ b[1] = y
  OBVIOUS
<1> HIDE DEF a, b, S
<1>3. s \in Seq(S) /\ Len(s) = 2 BY <1>1, <1>2, ConcatProperties
<1>4. s[1] = x /\ s[2] = y
  <2>1. \A k \in 1..(Len(a) + Len(b)) :
            s[k] = IF k <= Len(a) THEN a[k] ELSE b[k - Len(a)]
    BY <1>1, ConcatProperties
  <2>2. \A k \in 1..(1 + 1) : s[k] = IF k <= 1 THEN a[k] ELSE b[k - 1]
    BY <1>2, <2>1
  <2> HIDE DEF s
  <2>3. s[1] = a[1] /\ s[2] = b[2 - 1] BY <2>2
  <2>4. 2 - 1 = 1 OBVIOUS
  <2> QED BY <1>2, <2>3, <2>4
<1>5. \A k \in 1..2 : k = 1 \/ k = 2 OBVIOUS
<1> HIDE DEF s
<1>6. \A k \in 1..2 : s[k] = <<x, y>>[k] BY <1>4, <1>5
<1>7. s = <<x, y>> BY <1>1, <1>2, <1>3, <1>6, SeqEqual
<1> QED BY <1>7 DEF s, a, b

Loose(piece) == IsPlaceholderPiece(piece) /\ ~IsTag(piece)

(* The tag of the hash at a place. *)
Before(text, i) ==
    IF i \in 1..Len(text) /\ Loose(text[i]) THEN <<text[i - 1]>> ELSE <<>>

Exchanges(T, by, s) ==
    /\ ~Loose(s[1]) /\ ~IsTag(s[Len(s)])
    /\ by[s] \in Seq(Woven(T)) /\ Whole(by[s]) /\ Expanded(by[s]) = Expanded(s)

LEMMA BeforeNone ==
    ASSUME NEW text, Len(text) \in Nat, Whole(text), NEW i \in 1..Len(text),
           ~IsTag(text[i])
    PROVE  Before(text, i + 1) = <<>>
<1>1. ASSUME i + 1 \in 1..Len(text), Loose(text[i + 1]) PROVE FALSE
  <2>1. (i + 1) - 1 = i OBVIOUS
  <2>2. IsTag(text[i]) BY <1>1, <2>1 DEF Whole, Loose
  <2> QED BY <2>2
<1> QED BY <1>1 DEF Before

(* A piece that stays, behind what has been before it.                     *)
LEMMA WholeStays ==
    ASSUME NEW W, NEW text \in Seq(W), Whole(text), NEW i \in 1..Len(text),
           NEW w \in Seq(W), Whole(Before(text, i + 1) \o w)
    PROVE  Whole(Before(text, i) \o (<<text[i]>> \o w))
<1> DEFINE N == Len(text)
           p == text[i]
<1>1. N \in Nat /\ p \in W /\ <<p>> \in Seq(W) OBVIOUS
<1>2. /\ <<>> \o w = w /\ <<>> \o (<<p>> \o w) = <<p>> \o w
      /\ <<p>> \o w \in Seq(W)
  <2>1. <<p>> \o w \in Seq(W) BY <1>1, ConcatProperties
  <2> QED BY <2>1, ConcatEmptySeq
<1>3. CASE ~IsPlaceholderPiece(p)
  <2>1. ~IsTag(p) /\ ~Loose(p) BY <1>3 DEF IsTag, Loose
  <2>2. Before(text, i + 1) = <<>> /\ Before(text, i) = <<>>
    BY <1>1, <2>1, BeforeNone DEF Before
  <2>3. Whole(<<p>>)
    <3>1. <<p>> \in Seq({p}) /\ Plain({p}) BY <1>3 DEF Plain
    <3> QED BY <3>1, WholeTyped
  <2> HIDE DEF p
  <2>4. Whole(<<p>> \o w) BY <1>1, <1>2, <2>2, <2>3, WholeConcat
  <2> QED BY <1>2, <2>2, <2>4 DEF p
<1>4. CASE IsTag(p)
  <2>1. ~Loose(p) BY <1>4 DEF Loose
  <2>2. Before(text, i) = <<>> BY <2>1 DEF Before
  <2>3. i + 1 \in 1..N /\ text[i + 1] = Hash(p) BY <1>4 DEF Whole
  <2>4. Loose(text[i + 1])
    BY <2>3, HashIsNoTag, PlaceholderPieces DEF Loose
  <2>5. (i + 1) - 1 = i BY <1>1
  <2>6. Before(text, i + 1) = <<p>> BY <2>3, <2>4, <2>5 DEF Before
  <2> HIDE DEF p
  <2> QED BY <1>2, <2>2, <2>6 DEF p
<1>5. CASE Loose(p)
  <2> DEFINE e == text[i - 1]
  <2>1. i - 1 \in 1..N /\ IsTag(e) BY <1>5 DEF Whole, Loose
  <2>2. p = Hash(e)
    <3>1. (i - 1) + 1 = i BY <1>1
    <3> QED BY <2>1, <3>1 DEF Whole
  <2>3. Before(text, i) = <<e>> BY <1>5 DEF Before
  <2>4. Before(text, i + 1) = <<>>
    <3>1. ~IsTag(p) BY <1>5 DEF Loose
    <3> QED BY <1>1, <3>1, BeforeNone
  <2>5. Whole(Placeholder(e)) BY <2>1, WholePlaceholder
  <2>6. Placeholder(e) = <<e, p>> BY <2>2, PlaceholderPieces
  <2>7. e \in W BY <2>1
  <2> HIDE DEF e, p
  <2>8. Whole(w) BY <1>2, <2>4
  <2>9. <<e, p>> \in Seq(W) BY <1>1, <2>7
  <2>10. Whole(<<e, p>> \o w) BY <2>5, <2>6, <2>8, <2>9, WholeConcat
  <2>11. <<e>> \o (<<p>> \o w) = <<e, p>> \o w
    <3>1. <<e>> \in Seq(W) BY <2>7
    <3>2. (<<e>> \o <<p>>) \o w = <<e>> \o (<<p>> \o w)
      BY <1>1, <3>1, ConcatAssociative
    <3>3. <<e>> \o <<p>> = <<e, p>> BY TwoPieces
    <3> QED BY <3>2, <3>3
  <2>12. Before(text, i) \o (<<p>> \o w) = <<e, p>> \o w BY <2>3, <2>11
  <2> QED BY <2>10, <2>12 DEF p
<1> QED BY <1>3, <1>4, <1>5 DEF Loose

(* The same for what stands for what.                                      *)
LEMMA ExpandExchange ==
    ASSUME NEW T, Plain(T), NEW text \in Seq(Woven(T)),
           NEW i \in 1..Len(text), NEW j \in i..Len(text),
           NEW b \in Seq(Woven(T)), Expanded(b) = Expanded(SubSeq(text, i, j)),
           NEW w \in Seq(Woven(T)),
           Expanded(w) = Expanded(SubSeq(text, j + 1, Len(text)))
    PROVE  Expanded(b \o w) = Expanded(SubSeq(text, i, Len(text)))
<1> DEFINE N == Len(text)
           p == SubSeq(text, i, j)
           q == SubSeq(text, j + 1, N)
<1>1. N \in Nat /\ i \in Nat /\ j \in Nat OBVIOUS
<1>2. p \in Seq(Woven(T)) BY PartSeq
<1>3. q \in Seq(Woven(T))
  <2>1. \A k \in (j + 1)..N : text[k] \in Woven(T) BY <1>1
  <2>2. j + 1 \in Int /\ N \in Int BY <1>1
  <2> QED BY <2>1, <2>2, SubSeqProperties
<1>4. p \o q = SubSeq(text, i, N)
  <2>1. i \in 1..(Len(text) + 1) /\ j \in (i - 1)..Len(text) /\ N \in j..Len(text)
    BY <1>1
  <2> QED BY <2>1, ConcatAdjacentSubSeq
<1> HIDE DEF p, q
<1>5. Expanded(p \o q) = Expanded(p) \o Expanded(q) BY <1>2, <1>3, ExpandConcat
<1>6. Expanded(b \o w) = Expanded(b) \o Expanded(w) BY ExpandConcat
<1> QED BY <1>4, <1>5, <1>6 DEF p, q

LEMMA ReplacedWeaves ==
    ASSUME NEW T, Plain(T), NEW text \in Seq(Woven(T)), Whole(text), NEW by,
           \A s \in Replaced(text, by).hits : Exchanges(T, by, s)
    PROVE  LET out == Replaced(text, by).text
           IN  /\ out \in Seq(Woven(T)) /\ Whole(out)
               /\ Expanded(out) = Expanded(text)
<1> DEFINE N == Len(text)
           W == Woven(T)
<1>1. N \in Nat OBVIOUS
<1>2. PICK f : Runs(f, text, by) BY <1>1, ReplacedRuns
<1> DEFINE Good(i) ==
              (\A s \in f[i].hits : Exchanges(T, by, s)) =>
                /\ f[i].text \in Seq(W) /\ Whole(Before(text, i) \o f[i].text)
                /\ Expanded(f[i].text) = Expanded(SubSeq(text, i, N))
           D == {i \in 1..(N + 1) : Good(i)}
<1>3. Good(N + 1)
  <2>1. f[N + 1].text = <<>> BY <1>2 DEF Runs
  <2>2. SubSeq(text, N + 1, N) = <<>> BY <1>1, SubSeqEmpty
  <2>3. Before(text, N + 1) = <<>> BY <1>1 DEF Before
  <2>4. <<>> \in Seq(W) /\ <<>> \o <<>> = <<>> BY EmptySeq, ConcatEmptySeq
  <2>5. Whole(<<>>) BY DEF Whole
  <2> QED BY <2>1, <2>2, <2>3, <2>4, <2>5
<1>4. ASSUME NEW i \in 1..N, \A j \in (i + 1)..(N + 1) : Good(j)
      PROVE  Good(i)
  <2> SUFFICES ASSUME \A s \in f[i].hits : Exchanges(T, by, s)
               PROVE  /\ f[i].text \in Seq(W)
                      /\ Whole(Before(text, i) \o f[i].text)
                      /\ Expanded(f[i].text) = Expanded(SubSeq(text, i, N))
    OBVIOUS
  <2>1. CASE Stays(f, text, by, i)
    <3> DEFINE w == f[i + 1].text
               part == <<text[i]>>
    <3>1. f[i].text = part \o w /\ f[i].hits = f[i + 1].hits
      BY <2>1, OnePiece DEF Stays
    <3>2. i + 1 \in (i + 1)..(N + 1) BY <1>1
    <3>3. /\ w \in Seq(W) /\ Whole(Before(text, i + 1) \o w)
          /\ Expanded(w) = Expanded(SubSeq(text, i + 1, N))
      BY <1>4, <3>1, <3>2
    <3>4. part \in Seq(W) OBVIOUS
    <3>5. part = SubSeq(text, i, i) BY OnePiece
    <3>6. i \in i..N BY <1>1
    <3> HIDE DEF w
    <3>7. Whole(Before(text, i) \o (part \o w)) BY <3>3, WholeStays
    <3> HIDE DEF part
    <3>8. part \o w \in Seq(W) BY <3>3, <3>4, ConcatProperties
    <3>9. Expanded(part \o w) = Expanded(SubSeq(text, i, N))
      BY <3>3, <3>4, <3>5, <3>6, ExpandExchange
    <3> QED BY <3>1, <3>7, <3>8, <3>9
  <2>2. ASSUME NEW j \in i..N, Gives(f, text, by, i, j)
        PROVE  /\ f[i].text \in Seq(W)
               /\ Whole(Before(text, i) \o f[i].text)
               /\ Expanded(f[i].text) = Expanded(SubSeq(text, i, N))
    <3> DEFINE w == f[j + 1].text
               part == SubSeq(text, i, j)
               b == by[part]
    <3>1. f[i].text = b \o w /\ f[i].hits = f[j + 1].hits \cup {part}
      BY <2>2 DEF Gives
    <3>2. j + 1 \in (i + 1)..(N + 1) /\ j \in 1..N BY <1>1
    <3>3. Exchanges(T, by, part) BY <3>1
    <3>4. b \in Seq(W) /\ Whole(b) /\ Expanded(b) = Expanded(part)
      BY <3>3 DEF Exchanges
    <3>5. /\ w \in Seq(W) /\ Whole(Before(text, j + 1) \o w)
          /\ Expanded(w) = Expanded(SubSeq(text, j + 1, N))
      <4>1. \A s \in f[j + 1].hits : Exchanges(T, by, s) BY <3>1
      <4> QED BY <1>4, <3>2, <4>1
    <3>6. part[1] = text[i] /\ part[Len(part)] = text[j]
      <4>1. Len(part) = j - i + 1
            /\ \A k \in 1..(j - i + 1) : part[k] = text[i + k - 1]
        BY PartSeq
      <4>2. 1 \in 1..(j - i + 1) /\ j - i + 1 \in 1..(j - i + 1)
            /\ i + 1 - 1 = i /\ i + (j - i + 1) - 1 = j
        BY <1>1
      <4> HIDE DEF part
      <4> QED BY <4>1, <4>2
    <3>7. Before(text, i) = <<>>
      BY <3>3, <3>6 DEF Exchanges, Before
    <3>8. Before(text, j + 1) = <<>>
      <4>1. ~IsTag(text[j]) BY <3>3, <3>6 DEF Exchanges
      <4> QED BY <1>1, <3>2, <4>1, BeforeNone
    <3> HIDE DEF w, b
    <3>9. Whole(w) BY <3>5, <3>8, ConcatEmptySeq
    <3>10. b \o w \in Seq(W) BY <3>4, <3>5, ConcatProperties
    <3>11. Whole(b \o w) BY <3>4, <3>5, <3>9, WholeConcat
    <3>12. <<>> \o (b \o w) = b \o w BY <3>10, ConcatEmptySeq
    <3>13. Expanded(b \o w) = Expanded(SubSeq(text, i, N))
      BY <3>4, <3>5, ExpandExchange
    <3> QED BY <3>1, <3>7, <3>10, <3>11, <3>12, <3>13
  <2> QED BY <1>2, <2>1, <2>2 DEF Runs
<1> HIDE DEF Good
<1>5. \A i \in 1..(N + 1) : i \in D
  <2>1. N + 1 \in D BY <1>1, <1>3
  <2>2. ASSUME NEW i \in 1..N, \A j \in (i + 1)..(N + 1) : j \in D
        PROVE  i \in D
    BY <1>1, <1>4, <2>2
  <2> HIDE DEF D, N
  <2> QED BY <1>1, <2>1, <2>2, Down
<1>6. Good(1) BY <1>1, <1>5
<1>7. Replaced(text, by) = f[1] BY <1>2 DEF Runs
<1>8. /\ f[1].text \in Seq(W) /\ Whole(Before(text, 1) \o f[1].text)
      /\ Expanded(f[1].text) = Expanded(SubSeq(text, 1, N))
  BY <1>6, <1>7 DEF Good
<1>9. SubSeq(text, 1, N) = text BY SubSeqFull
<1>10. Before(text, 1) = <<>>
  <2>1. ASSUME 1 \in 1..Len(text), Loose(text[1]) PROVE FALSE
    <3>1. 1 - 1 \in 1..Len(text) BY <2>1 DEF Whole, Loose
    <3> QED BY <1>1, <3>1
  <2> QED BY <2>1 DEF Before
<1>11. Whole(f[1].text) BY <1>8, <1>10, ConcatEmptySeq
<1> QED BY <1>7, <1>8, <1>9, <1>11
-----------------------------------------------------------------------------
(* One pass, seen from what was typed.                                     *)

(* A piece stays unless it is part of a hit, and each hit leaves what took *)
(* its place.                                                              *)
LEMMA ReplacedKeeps ==
    ASSUME NEW P, NEW text \in Seq(P), NEW by, NEW Q,
           \A s \in DOMAIN by : by[s] \in Seq(Q)
    PROVE  LET r == Replaced(text, by)
           IN  /\ \A x \in Range(text) :
                     x \in Range(r.text) \/ \E s \in r.hits : x \in Range(s)
               /\ \A s \in r.hits : Range(by[s]) \subseteq Range(r.text)
<1> DEFINE N == Len(text)
           PQ == P \cup Q
<1>1. N \in Nat OBVIOUS
<1>2. PICK f : Runs(f, text, by) BY <1>1, ReplacedRuns
<1> DEFINE Good(i) ==
              /\ f[i].text \in Seq(PQ)
              /\ \A k \in i..N : \/ text[k] \in Range(f[i].text)
                                 \/ \E s \in f[i].hits : text[k] \in Range(s)
              /\ \A s \in f[i].hits : Range(by[s]) \subseteq Range(f[i].text)
           D == {i \in 1..(N + 1) : Good(i)}
<1>3. Good(N + 1)
  <2>1. f[N + 1].text = <<>> /\ f[N + 1].hits = {} BY <1>2 DEF Runs
  <2>2. (N + 1)..N = {} BY <1>1
  <2> QED BY <2>1, <2>2, EmptySeq
<1>4. ASSUME NEW i \in 1..N, \A j \in (i + 1)..(N + 1) : Good(j)
      PROVE  Good(i)
  <2>1. CASE Stays(f, text, by, i)
    <3> DEFINE w == f[i + 1].text
               part == <<text[i]>>
    <3>1. f[i].text = part \o w /\ f[i].hits = f[i + 1].hits
      BY <2>1, OnePiece DEF Stays
    <3>2. i + 1 \in (i + 1)..(N + 1) BY <1>1
    <3>3. Good(i + 1) BY <1>4, <3>2
    <3>4. text[i] \in P OBVIOUS
    <3>5. part \in Seq(PQ) /\ Range(part) = {text[i]}
      <4>1. part \in Seq(PQ) /\ Len(part) = 1 /\ part[1] = text[i] BY <3>4
      <4>2. \A k \in 1..1 : k = 1 OBVIOUS
      <4>3. 1 \in 1..1 OBVIOUS
      <4> HIDE DEF part
      <4> QED BY <4>1, <4>2, <4>3, RangeEquality
    <3> HIDE DEF part, PQ
    <3>6. f[i].text \in Seq(PQ)
          /\ Range(f[i].text) = {text[i]} \cup Range(w)
      BY <3>1, <3>3, <3>5, ConcatProperties, RangeConcatenation
    <3>7. \A k \in i..N : k = i \/ k \in (i + 1)..N BY <1>1
    <3> QED BY <3>1, <3>3, <3>6, <3>7
  <2>2. ASSUME NEW j \in i..N, Gives(f, text, by, i, j) PROVE Good(i)
    <3> DEFINE w == f[j + 1].text
               part == SubSeq(text, i, j)
               b == by[part]
    <3>1. /\ f[i].text = b \o w /\ f[i].hits = f[j + 1].hits \cup {part}
          /\ part \in DOMAIN by
      BY <2>2 DEF Gives
    <3>2. j + 1 \in (i + 1)..(N + 1) BY <1>1
    <3>3. Good(j + 1) BY <1>4, <3>2
    <3>4. b \in Seq(PQ) BY <3>1, SeqMonotonic
    <3>5. Range(part) = {text[k] : k \in i..j} BY PartSeq
    <3> HIDE DEF part, b, PQ
    <3>6. f[i].text \in Seq(PQ) /\ Range(f[i].text) = Range(b) \cup Range(w)
      BY <3>1, <3>3, <3>4, ConcatProperties, RangeConcatenation
    <3>7. \A k \in i..N : k \in i..j \/ k \in (j + 1)..N BY <1>1
    <3>8. \A k \in i..N : \/ text[k] \in Range(f[i].text)
                          \/ \E s \in f[i].hits : text[k] \in Range(s)
      BY <3>1, <3>3, <3>5, <3>6, <3>7
    <3>9. \A s \in f[i].hits : Range(by[s]) \subseteq Range(f[i].text)
      BY <3>1, <3>3, <3>6 DEF b
    <3> QED BY <3>6, <3>8, <3>9
  <2> QED BY <1>2, <2>1, <2>2 DEF Runs
<1> HIDE DEF Good
<1>5. \A i \in 1..(N + 1) : i \in D
  <2>1. N + 1 \in D BY <1>1, <1>3
  <2>2. ASSUME NEW i \in 1..N, \A j \in (i + 1)..(N + 1) : j \in D
        PROVE  i \in D
    BY <1>1, <1>4, <2>2
  <2> HIDE DEF D, N
  <2> QED BY <1>1, <2>1, <2>2, Down
<1>6. Good(1) BY <1>1, <1>5
<1>7. \A x \in Range(text) : \E k \in 1..N : x = text[k]
  BY RangeEquality
<1> QED BY <1>2, <1>6, <1>7 DEF Runs, Good

(* The same of a pass, whose hits leave placeholders.                      *)
Hits(state, tag, found) ==
    Replaced(state.text, [s \in found |-> Placeholder(Entry(tag, s))]).hits

LEMMA PassHits ==
    ASSUME NEW P, NEW state, state.text \in Seq(P), NEW tag, NEW found,
           \A s \in found : s # <<>>
    PROVE  LET hits == Hits(state, tag, found)
               after == Pass(state, tag, found)
           IN  /\ hits \subseteq found
               /\ after.entries = state.entries \cup {Entry(tag, s) : s \in hits}
               /\ \A s \in hits : /\ s \in Seq(P) /\ s # <<>>
                                  /\ Entry(tag, s) \in Range(after.text)
               /\ \A x \in Range(state.text) : \/ x \in Range(after.text)
                                               \/ \E s \in hits : x \in Range(s)
               /\ \A x \in Range(after.text) :
                     \/ x \in Range(state.text)
                     \/ \E s \in hits : x \in {Entry(tag, s), Hash(Entry(tag, s))}
<1> DEFINE by == [s \in found |-> Placeholder(Entry(tag, s))]
           Q == UNION {Range(Placeholder(Entry(tag, s))) : s \in found}
           r == Replaced(state.text, by)
           hits == Hits(state, tag, found)
           after == Pass(state, tag, found)
<1>1. /\ r.hits = hits /\ after.text = r.text
      /\ after.entries = state.entries \cup {Entry(tag, s) : s \in hits}
  BY DEF Pass, Hits
<1>2. \A s \in DOMAIN by : by[s] \in Seq(Q)
  <2> SUFFICES ASSUME NEW s \in found
               PROVE  Placeholder(Entry(tag, s)) \in Seq(Q)
    OBVIOUS
  <2> DEFINE e == Entry(tag, s)
  <2>1. Range(Placeholder(e)) \subseteq Q OBVIOUS
  <2> HIDE DEF Q, e
  <2>2. Placeholder(e) \in Seq({e, Hash(e)})
        /\ Range(Placeholder(e)) = {e, Hash(e)}
    BY PlaceholderPieces
  <2> QED BY <2>1, <2>2, SeqMonotonic DEF e
<1>3. \A s \in found : Range(by[s]) = {Entry(tag, s), Hash(Entry(tag, s))}
  <2> SUFFICES ASSUME NEW s \in found
               PROVE  Range(by[s]) = {Entry(tag, s), Hash(Entry(tag, s))}
    OBVIOUS
  <2>1. by[s] = Placeholder(Entry(tag, s)) OBVIOUS
  <2> HIDE DEF by
  <2> QED BY <2>1, PlaceholderPieces
<1>4. DOMAIN by = found OBVIOUS
<1> HIDE DEF by, Q
<1>5. /\ MadeOf(r, state.text, by)
      /\ \A s \in r.hits : s \in Seq(P) /\ s # <<>>
  BY <1>2, ReplacedMadeOf
<1>6. /\ \A x \in Range(state.text) :
            x \in Range(r.text) \/ \E s \in r.hits : x \in Range(s)
      /\ \A s \in r.hits : Range(by[s]) \subseteq Range(r.text)
  BY <1>2, ReplacedKeeps
<1> HIDE DEF r, hits, after
<1>7. hits \subseteq found BY <1>1, <1>4, <1>5 DEF MadeOf
<1>8. \A s \in hits : Range(by[s]) = {Entry(tag, s), Hash(Entry(tag, s))}
  BY <1>3, <1>7
<1>9. \A s \in hits : s \in Seq(P) /\ s # <<>> BY <1>1, <1>5
<1>10. \A s \in hits : Entry(tag, s) \in Range(after.text) BY <1>1, <1>6, <1>8
<1>11. \A x \in Range(state.text) :
          x \in Range(after.text) \/ \E s \in hits : x \in Range(s)
  BY <1>1, <1>6
<1>12. ASSUME NEW x \in Range(after.text)
       PROVE  \/ x \in Range(state.text)
              \/ \E s \in hits : x \in {Entry(tag, s), Hash(Entry(tag, s))}
  <2>1. x \in Range(r.text) BY <1>1
  <2>2. x \in Range(state.text) \/ \E s \in r.hits : x \in Range(by[s])
    BY <1>5, <2>1 DEF MadeOf
  <2>3. CASE x \in Range(state.text) BY <2>3
  <2>4. ASSUME NEW s \in r.hits, x \in Range(by[s])
        PROVE  \E u \in hits : x \in {Entry(tag, u), Hash(Entry(tag, u))}
    <3>1. s \in hits BY <1>1
    <3> QED BY <1>8, <2>4, <3>1
  <2> QED BY <2>2, <2>3, <2>4
<1> QED BY <1>1, <1>7, <1>9, <1>10, <1>11, <1>12 DEF hits, after

(* A hit that swallows a placeholder, or its hash, tangles the text.       *)
LEMMA PassTangles ==
    ASSUME NEW P, NEW state, state.text \in Seq(P), NEW tag \in DOMAIN Length,
           NEW found, \A s \in found : s # <<>>,
           NEW s \in Hits(state, tag, found), NEW piece \in Range(s),
           IsPlaceholderPiece(piece)
    PROVE  Tangled(Pass(state, tag, found).text)
<1> DEFINE after == Pass(state, tag, found)
           e == Entry(tag, s)
<1>1. e \in Range(after.text) /\ s # <<>> BY PassHits
<1>2. e.c = tag /\ e.of = s BY DEF Entry
<1> HIDE DEF e, after
<1>3. e \in Placeholders(after.text)
  BY <1>1, <1>2 DEF Placeholders, IsTag, IsPlaceholderPiece
<1> QED BY <1>2, <1>3 DEF Tangled, after

(* A tangled text stays tangled. *)
LEMMA StaysTangled ==
    ASSUME NEW P, NEW state, state.text \in Seq(P), NEW tag \in DOMAIN Length,
           NEW found, \A s \in found : s # <<>>,
           Tangled(state.text)
    PROVE  Tangled(Pass(state, tag, found).text)
<1> DEFINE after == Pass(state, tag, found)
<1>1. PICK outer \in Placeholders(state.text) :
          \E piece \in Range(outer.of) : IsPlaceholderPiece(piece)
  BY DEF Tangled
<1>2. outer \in Range(state.text) /\ IsTag(outer) /\ IsPlaceholderPiece(outer)
  BY DEF Placeholders, IsTag
<1>3. CASE outer \in Range(after.text)
  <2>1. outer \in Placeholders(after.text) BY <1>2, <1>3 DEF Placeholders
  <2> QED BY <1>1, <2>1 DEF Tangled
<1>4. ASSUME NEW s \in Hits(state, tag, found), outer \in Range(s)
      PROVE  Tangled(after.text)
  BY <1>2, <1>4, PassTangles
<1>5. \/ outer \in Range(after.text)
      \/ \E s \in Hits(state, tag, found) : outer \in Range(s)
  BY <1>2, PassHits
<1> QED BY <1>3, <1>4, <1>5

(* A pass whose hits were typed changes nothing of what the text stands    *)
(* for.                                                                    *)
LEMMA PassWeaves ==
    ASSUME NEW T, Plain(T), NEW state, state.text \in Seq(Woven(T)),
           Whole(state.text), NEW tag \in DOMAIN Length,
           NEW found, \A s \in found : s # <<>>,
           \A s \in Hits(state, tag, found) : s \in Seq(T)
    PROVE  LET after == Pass(state, tag, found)
           IN  /\ after.text \in Seq(Woven(T)) /\ Whole(after.text)
               /\ Expanded(after.text) = Expanded(state.text)
<1> DEFINE by == [s \in found |-> Placeholder(Entry(tag, s))]
           hits == Hits(state, tag, found)
<1>1. hits \subseteq found BY PassHits
<1>2. ASSUME NEW s \in hits PROVE Exchanges(T, by, s)
  <2> DEFINE e == Entry(tag, s)
  <2>1. s \in found /\ s \in Seq(T) /\ s # <<>> BY <1>1
  <2>2. e \in Shallow(T) BY <2>1 DEF Shallow
  <2>3. by[s] = Placeholder(e) BY <2>1
  <2>4. e.of = s BY DEF Entry
  <2> HIDE DEF by, e, hits
  <2>5. Expanded(by[s]) = s /\ by[s] \in Seq(Woven(T))
    BY <2>2, <2>3, <2>4, ExpandPlaceholder
  <2>6. Expanded(s) = s BY <2>1, ExpandTyped
  <2>7. Whole(by[s]) BY <2>2, <2>3, ShallowPieces, WholePlaceholder
  <2>8. Len(s) \in Nat \ {0} BY <2>1, EmptySeq
  <2>9. 1 \in 1..Len(s) /\ Len(s) \in 1..Len(s) BY <2>8
  <2>10. s[1] \in T /\ s[Len(s)] \in T BY <2>1, <2>9, ElementOfSeq
  <2>11. ~Loose(s[1]) /\ ~IsTag(s[Len(s)])
    BY <2>10 DEF Plain, Loose, IsTag
  <2> QED BY <2>5, <2>6, <2>7, <2>11 DEF Exchanges
<1>3. Replaced(state.text, by).hits = hits BY DEF Hits
<1>4. Pass(state, tag, found).text = Replaced(state.text, by).text BY DEF Pass
<1> HIDE DEF by, hits
<1>5. \A s \in Replaced(state.text, by).hits : Exchanges(T, by, s)
  BY <1>2, <1>3
<1> QED BY <1>4, <1>5, ReplacedWeaves
-----------------------------------------------------------------------------
(* A text through all passes: it is tangled, or it stands for what it      *)
(* stood for before, by placeholders the map has.                          *)

Weaves(T, t, state, map) ==
    /\ state.text \in Seq(Woven(T)) /\ Whole(state.text)
    /\ Expanded(state.text) = t
    /\ Placeholders(state.text) \subseteq map \cup state.entries

LEMMA PassWeavesOrTangles ==
    ASSUME NEW T, Plain(T), NEW t, NEW state, NEW map,
           Weaves(T, t, state, map), NEW tag \in DOMAIN Length,
           NEW found, \A s \in found : s # <<>>
    PROVE  LET after == Pass(state, tag, found)
           IN  Tangled(after.text) \/ Weaves(T, t, after, map)
<1> DEFINE after == Pass(state, tag, found)
           hits == Hits(state, tag, found)
<1>1. state.text \in Seq(Woven(T)) /\ Whole(state.text) BY DEF Weaves
<1>2. hits \subseteq found /\ \A s \in hits : s \in Seq(Woven(T))
  BY <1>1, PassHits
<1>3. CASE \A s \in hits : s \in Seq(T)
  <2>1. /\ after.text \in Seq(Woven(T)) /\ Whole(after.text)
        /\ Expanded(after.text) = t
    BY <1>1, <1>3, PassWeaves DEF Weaves
  <2>2. /\ after.entries = state.entries \cup {Entry(tag, s) : s \in hits}
        /\ \A x \in Range(after.text) :
              \/ x \in Range(state.text)
              \/ \E s \in hits : x \in {Entry(tag, s), Hash(Entry(tag, s))}
    <3> DEFINE W == Woven(T)
    <3>1. state.text \in Seq(W) BY <1>1
    <3> HIDE DEF W
    <3>2. after.entries = state.entries \cup {Entry(tag, s) : s \in hits}
      BY <3>1, PassHits
    <3>3. \A x \in Range(after.text) :
              \/ x \in Range(state.text)
              \/ \E s \in hits : x \in {Entry(tag, s), Hash(Entry(tag, s))}
      BY <3>1, PassHits
    <3> QED BY <3>2, <3>3
  <2> HIDE DEF after, hits
  <2>3. ASSUME NEW x \in Placeholders(after.text)
        PROVE  x \in Placeholders(state.text) \/ x \in after.entries
    <3>1. x \in Range(after.text) /\ IsTag(x) BY DEF Placeholders
    <3>2. CASE x \in Range(state.text) BY <3>1, <3>2 DEF Placeholders
    <3>3. ASSUME NEW s \in hits, x \in {Entry(tag, s), Hash(Entry(tag, s))}
          PROVE  x \in after.entries
      <4>1. x = Entry(tag, s) BY <3>1, <3>3, HashIsNoTag
      <4> QED BY <2>2, <4>1
    <3> QED BY <2>2, <3>1, <3>2, <3>3
  <2>4. Placeholders(after.text) \subseteq map \cup after.entries
    BY <2>2, <2>3 DEF Weaves
  <2>5. Weaves(T, t, after, map) BY <2>1, <2>4 DEF Weaves
  <2> QED BY <2>5 DEF after
<1>4. ASSUME NEW s \in hits, s \notin Seq(T) PROVE Tangled(after.text)
  <2>1. s \in Seq(Woven(T)) BY <1>2
  <2>2. PICK piece \in Range(s) : IsPlaceholderPiece(piece)
    <3> SUFFICES ASSUME \A x \in Range(s) : ~IsPlaceholderPiece(x)
                 PROVE  s \in Seq(T)
      BY <1>4
    <3>1. Range(s) \subseteq Woven(T) BY <2>1, RangeOfSeq
    <3>2. Range(s) \subseteq T BY <3>1, WovenPieces
    <3>3. s \in Seq(Range(s)) BY <2>1, SeqOfRange
    <3> QED BY <3>2, <3>3, SeqMonotonic
  <2> QED BY <1>1, <2>2, PassTangles
<1> QED BY <1>3, <1>4

LEMMA RedactedWeaves ==
    ASSUME NEW T, Plain(T), NEW t, NEW P, NEW text \in Seq(P), NEW map,
           NEW terms, Len(terms) \in Nat,
           \/ Tangled(text)
           \/ Weaves(T, t, [text |-> text, entries |-> {}], map)
    PROVE  LET r == Redacted(text, terms)
           IN  Tangled(r.text) \/ Weaves(T, t, r, map)
<1> DEFINE N == Passes(terms)
<1>1. N \in Nat BY PassesNat
<1>2. PICK f : Redacts(f, text, terms) BY RedactsExist
<1>3. \A n \in 0..N : Passing(f[n], P) BY <1>2, RedactsKeep
<1> DEFINE Good(n) == Tangled(f[n].text) \/ Weaves(T, t, f[n], map)
           D == {n \in 0..N : Good(n)}
<1>4. Good(0)
  <2>1. f[0] = [text |-> text, entries |-> {}] BY <1>2 DEF Redacts
  <2>2. f[0].text = text BY <2>1
  <2> QED BY <2>1, <2>2
<1>5. ASSUME NEW n \in 1..N, n - 1 \in D PROVE n \in D
  <2> DEFINE was == f[n - 1]
  <2>1. Tangled(was.text) \/ Weaves(T, t, was, map) BY <1>5
  <2>2. n - 1 \in 0..N /\ n \in 0..N BY <1>1
  <2>3. was.text \in Seq(Made(P, was.entries)) BY <1>3, <2>2 DEF Passing
  <2>4. f[n] = Passed(was, terms, n) BY <1>2 DEF Redacts
  <2> HIDE DEF was
  <2>5. \E tag \in DOMAIN Length :
            /\ \A s \in Seeks(was.text, terms, n) : s # <<>>
            /\ f[n] = Pass(was, tag, Seeks(was.text, terms, n))
    BY <2>3, <2>4, PassedIsPass
  <2>6. Tangled(f[n].text) \/ Weaves(T, t, f[n], map)
    BY <2>1, <2>3, <2>5, StaysTangled, PassWeavesOrTangles
  <2> QED BY <2>2, <2>6
<1>6. 0 \in D BY <1>1, <1>4
<1> HIDE DEF D, N
<1>7. \A n \in 0..N : n \in D BY <1>1, <1>5, <1>6, Up
<1> USE DEF D
<1>8. Good(N) BY <1>1, <1>7
<1> QED BY <1>2, <1>4, <1>8 DEF Redacts, N
-----------------------------------------------------------------------------
(* The way back of a text whose placeholders are of what was typed.        *)

(* Where a whole text has a placeholder's tag, it gives way.               *)
LEMMA RestoreRemoves ==
    ASSUME NEW P, NEW text \in Seq(P), Whole(text), NEW e, IsTag(e),
           NEW Q, e.of \in Seq(Q), e \notin Range(e.of)
    PROVE  e \notin Range(Restore(text, e))
<1> DEFINE N == Len(text)
           by == [s \in {Placeholder(e)} |-> e.of]
           PQ == P \cup Q
<1>1. N \in Nat OBVIOUS
<1>2. PICK f : Runs(f, text, by) BY <1>1, ReplacedRuns
<1>3. DOMAIN by = {Placeholder(e)} /\ by[Placeholder(e)] = e.of OBVIOUS
<1> HIDE DEF by
<1> DEFINE Good(i) == f[i].text \in Seq(PQ) /\ e \notin Range(f[i].text)
           D == {i \in 1..(N + 1) : Good(i)}
<1>4. Good(N + 1)
  <2>1. f[N + 1].text = <<>> BY <1>2 DEF Runs
  <2>2. Range(<<>>) = {} /\ <<>> \in Seq(PQ) BY DEF Range
  <2> QED BY <2>1, <2>2
<1>5. ASSUME NEW i \in 1..N, \A j \in (i + 1)..(N + 1) : Good(j)
      PROVE  Good(i)
  <2>1. CASE Stays(f, text, by, i)
    <3> DEFINE w == f[i + 1].text
               part == <<text[i]>>
    <3>1. f[i].text = part \o w
      BY <2>1, OnePiece DEF Stays
    <3>2. Good(i + 1)
      <4>1. i + 1 \in (i + 1)..(N + 1) BY <1>1
      <4> QED BY <1>5, <4>1
    <3>3. text[i] # e
      <4> SUFFICES ASSUME text[i] = e PROVE FALSE OBVIOUS
      <4>1. i + 1 \in 1..N /\ text[i + 1] = Hash(e) BY DEF Whole
      <4>2. i + 1 \in i..N BY <1>1, <4>1
      <4> DEFINE two == SubSeq(text, i, i + 1)
      <4>3. /\ two \in Seq(P) /\ Len(two) = (i + 1) - i + 1
            /\ \A k \in 1..((i + 1) - i + 1) : two[k] = text[i + k - 1]
        BY <4>2, PartSeq
      <4>4. (i + 1) - i + 1 = 2 /\ i + 1 - 1 = i /\ i + 2 - 1 = i + 1 BY <1>1
      <4> HIDE DEF two
      <4>5. Len(two) = 2 /\ two[1] = e /\ two[2] = Hash(e)
        BY <4>1, <4>3, <4>4
      <4>6. two = Placeholder(e)
        <5>1. /\ Placeholder(e) \in Seq({e, Hash(e)}) /\ Len(Placeholder(e)) = 2
              /\ Placeholder(e)[1] = e /\ Placeholder(e)[2] = Hash(e)
          BY PlaceholderPieces
        <5> DEFINE S == P \cup {e, Hash(e)}
        <5>2. two \in Seq(S) /\ Placeholder(e) \in Seq(S)
          BY <4>3, <5>1, SeqMonotonic
        <5>3. \A k \in 1..2 : k = 1 \/ k = 2 OBVIOUS
        <5>4. \A k \in 1..2 : two[k] = Placeholder(e)[k] BY <4>5, <5>1, <5>3
        <5> HIDE DEF S
        <5> QED BY <4>5, <5>1, <5>2, <5>4, SeqEqual
      <4>7. i + 1 \in Ends(text, by, i)
        BY <1>3, <4>2, <4>6 DEF Ends, two
      <4> QED BY <2>1, <4>7 DEF Stays
    <3>4. text[i] \in P OBVIOUS
    <3>5. part \in Seq(PQ) /\ Range(part) = {text[i]}
      <4>1. part \in Seq(PQ) /\ Len(part) = 1 /\ part[1] = text[i] BY <3>4
      <4>2. \A k \in 1..1 : k = 1 OBVIOUS
      <4>3. 1 \in 1..1 OBVIOUS
      <4> HIDE DEF part
      <4> QED BY <4>1, <4>2, <4>3, RangeEquality
    <3> HIDE DEF part, PQ
    <3>6. f[i].text \in Seq(PQ)
          /\ Range(f[i].text) = {text[i]} \cup Range(w)
      BY <3>1, <3>2, <3>5, ConcatProperties, RangeConcatenation
    <3> QED BY <3>2, <3>3, <3>6
  <2>2. ASSUME NEW j \in i..N, Gives(f, text, by, i, j) PROVE Good(i)
    <3> DEFINE w == f[j + 1].text
               b == e.of
    <3>1. f[i].text = b \o w BY <1>3, <2>2 DEF Gives
    <3>2. Good(j + 1)
      <4>1. j + 1 \in (i + 1)..(N + 1) BY <1>1
      <4> QED BY <1>5, <4>1
    <3>3. b \in Seq(PQ) BY SeqMonotonic
    <3>4. e \notin Range(b) OBVIOUS
    <3> HIDE DEF b, PQ
    <3>5. f[i].text \in Seq(PQ) /\ Range(f[i].text) = Range(b) \cup Range(w)
      BY <3>1, <3>2, <3>3, ConcatProperties, RangeConcatenation
    <3> QED BY <3>2, <3>4, <3>5
  <2> QED BY <1>2, <2>1, <2>2 DEF Runs
<1> HIDE DEF Good
<1>6. \A i \in 1..(N + 1) : i \in D
  <2>1. N + 1 \in D BY <1>1, <1>4
  <2>2. ASSUME NEW i \in 1..N, \A j \in (i + 1)..(N + 1) : j \in D
        PROVE  i \in D
    BY <1>1, <1>5, <2>2
  <2> HIDE DEF D, N
  <2> QED BY <1>1, <2>1, <2>2, Down
<1>7. Good(1) BY <1>1, <1>6
<1>8. Restore(text, e) = f[1].text BY <1>2 DEF Restore, Runs, by
<1> QED BY <1>7, <1>8 DEF Good

(* A text on its way back. *)
Returns(T, t, text) ==
    text \in Seq(Woven(T)) /\ Whole(text) /\ Expanded(text) = t

LEMMA RestoreWeaves ==
    ASSUME NEW T, Plain(T), NEW t, NEW text, Returns(T, t, text),
           NEW M, NEW e, IsTag(e), e.of \in Seq(M)
    PROVE  LET out == Restore(text, e)
           IN  /\ Returns(T, t, out)
               /\ Placeholders(out) \subseteq Placeholders(text) \ {e}
<1> DEFINE by == [s \in {Placeholder(e)} |-> e.of]
           r == Replaced(text, by)
           W == Woven(T)
<1>1. text \in Seq(W) /\ Whole(text) /\ Expanded(text) = t BY DEF Returns
<1>2. DOMAIN by = {Placeholder(e)} /\ by[Placeholder(e)] = e.of OBVIOUS
<1>3. \A s \in DOMAIN by : by[s] \in Seq(M) BY <1>2
<1> HIDE DEF by
<1>4. /\ MadeOf(r, text, by) /\ \A s \in r.hits : s \in Seq(W)
  BY <1>1, <1>3, ReplacedMadeOf
<1>5. ASSUME NEW s \in r.hits
      PROVE  s = Placeholder(e) /\ e \in Shallow(T)
  <2>1. s = Placeholder(e) BY <1>2, <1>4 DEF MadeOf
  <2>2. s \in Seq(W) BY <1>4
  <2>3. Len(s) = 2 /\ s[1] = e BY <2>1, PlaceholderPieces
  <2> HIDE DEF W
  <2>4. 1 \in 1..Len(s) BY <2>3
  <2>5. e \in W BY <2>2, <2>3, <2>4, ElementOfSeq
  <2> QED BY <2>1, <2>5, WovenPieces DEF W
<1>6. ASSUME NEW s \in r.hits PROVE Exchanges(T, by, s)
  <2>1. s = Placeholder(e) /\ e \in Shallow(T) BY <1>5
  <2>2. s[1] = e /\ Len(s) = 2 /\ s[2] = Hash(e) BY <2>1, PlaceholderPieces
  <2>3. ~Loose(s[1]) /\ ~IsTag(s[Len(s)]) BY <2>2, HashIsNoTag DEF Loose
  <2>4. by[s] = e.of /\ e.of \in Seq(T) BY <1>2, <2>1, ShallowPieces
  <2>5. by[s] \in Seq(W)
    <3>1. T \subseteq W BY DEF Woven, Made
    <3> QED BY <2>4, <3>1, SeqMonotonic
  <2>6. Whole(by[s]) BY <2>4, WholeTyped
  <2>7. Expanded(by[s]) = Expanded(s)
    <3>1. Expanded(e.of) = e.of BY <2>4, ExpandTyped
    <3>2. Expanded(Placeholder(e)) = e.of BY <2>1, ExpandPlaceholder
    <3> QED BY <2>1, <2>4, <3>1, <3>2
  <2> QED BY <2>3, <2>5, <2>6, <2>7 DEF Exchanges
<1>7. r.text \in Seq(W) /\ Whole(r.text) /\ Expanded(r.text) = Expanded(text)
  BY <1>1, <1>6, ReplacedWeaves
<1>8. Restore(text, e) = r.text BY DEF Restore, by
<1> HIDE DEF r
<1>9. Returns(T, t, r.text) BY <1>1, <1>7 DEF Returns
<1>10. ASSUME NEW x \in Placeholders(r.text)
       PROVE  x \in Placeholders(text) /\ x # e
  <2>1. x \in Range(r.text) /\ IsTag(x) BY DEF Placeholders
  <2>2. x \in Range(text)
    <3> SUFFICES ASSUME NEW s \in r.hits, x \in Range(by[s]) PROVE FALSE
      BY <1>4, <2>1 DEF MadeOf
    <3>1. e \in Shallow(T) /\ by[s] = e.of BY <1>2, <1>5
    <3>2. e.of \in Seq(T) BY <3>1, ShallowPieces
    <3>3. x \in T BY <3>1, <3>2, RangeOfSeq
    <3> QED BY <2>1, <3>3 DEF Plain, IsTag
  <2>3. x \in Placeholders(text) BY <2>1, <2>2 DEF Placeholders
  <2>4. ASSUME x = e PROVE FALSE
    <3>1. e \in W
      <4> HIDE DEF W
      <4> QED BY <1>1, <2>2, <2>4, RangeOfSeq
    <3>2. e \in Shallow(T) BY <3>1, WovenPieces
    <3>3. e.of \in Seq(T) BY <3>2, ShallowPieces
    <3>4. e \notin Range(e.of)
      <4>1. Range(e.of) \subseteq T BY <3>3, RangeOfSeq
      <4> QED BY <4>1 DEF Plain, IsTag
    <3>5. e \notin Range(Restore(text, e))
      BY <1>1, <3>3, <3>4, RestoreRemoves
    <3> QED BY <1>8, <2>1, <2>4, <3>5
  <2> QED BY <2>3, <2>4
<1> QED BY <1>8, <1>9, <1>10
LEMMA RestoredWeaves ==
    ASSUME NEW T, Plain(T), NEW t, NEW text, Returns(T, t, text),
           NEW order, Len(order) \in Nat, NEW M,
           \A n \in 1..Len(order) : IsTag(order[n]) /\ order[n].of \in Seq(M)
    PROVE  LET out == Restored(text, order)
           IN  /\ Returns(T, t, out)
               /\ Placeholders(out) \subseteq Placeholders(text)
               /\ \A n \in 1..Len(order) : order[n] \notin Placeholders(out)
<1> DEFINE N == Len(order)
<1>1. PICK f : /\ f[0] = text /\ Restored(text, order) = f[N]
               /\ \A n \in 1..N : f[n] = Restore(f[n - 1], order[n])
  BY RestoredRuns
<1> DEFINE Good(n) ==
              /\ Returns(T, t, f[n])
              /\ Placeholders(f[n]) \subseteq Placeholders(text)
              /\ \A k \in 1..n : order[k] \notin Placeholders(f[n])
           D == {n \in 0..N : Good(n)}
<1>2. Good(0) BY <1>1
<1>3. ASSUME NEW n \in 1..N, Good(n - 1) PROVE Good(n)
  <2> DEFINE was == f[n - 1]
             e == order[n]
             out == Restore(was, e)
  <2>1. Returns(T, t, was) /\ IsTag(e) /\ e.of \in Seq(M) BY <1>3
  <2>2. f[n] = out BY <1>1
  <2> HIDE DEF was, e
  <2>3. /\ Returns(T, t, out)
        /\ Placeholders(out) \subseteq Placeholders(was) \ {e}
    BY <2>1, RestoreWeaves
  <2> USE DEF was
  <2> HIDE DEF out
  <2>4. ASSUME NEW k \in 1..n PROVE order[k] \notin Placeholders(out)
    <3>1. CASE k = n BY <2>3, <3>1 DEF e
    <3>2. CASE k # n
      <4>1. k \in 1..(n - 1) BY <3>2
      <4> QED BY <1>3, <2>3, <4>1
    <3> QED BY <3>1, <3>2
  <2> QED BY <1>3, <2>2, <2>3, <2>4
<1> HIDE DEF Good
<1>4. 0 \in D BY <1>2
<1>5. ASSUME NEW n \in 1..N, n - 1 \in D PROVE n \in D BY <1>3, <1>5
<1> HIDE DEF D, N
<1>6. N \in Nat BY DEF N
<1>7. \A n \in 0..N : n \in D BY <1>4, <1>5, <1>6, Up
<1>8. Good(N) BY <1>6, <1>7 DEF D
<1> QED BY <1>1, <1>8 DEF Good, N

(* An order of a set has all of it.                                        *)
LEMMA OrderCovers ==
    ASSUME NEW S, IsFiniteSet(S), NEW order \in SetToSeqs(S), NEW e \in S
    PROVE  \E n \in 1..Len(order) : order[n] = e
<1> DEFINE m == Cardinality(S)
<1>1. m \in Nat BY FS_CardinalityType
<1>2. order \in [1..m -> S] /\ \A i, j \in 1..m : i # j => order[i] # order[j]
  BY DEF SetToSeqs
<1> HIDE DEF m
<1>3. order \in Injection(1..m, S)
  BY <1>2 DEF Injection, IsInjective
<1>4. Cardinality(1..m) = m
  <2>1. 1 \in Int /\ m \in Int BY <1>1
  <2>2. Cardinality(1..m) = IF 1 > m THEN 0 ELSE m - 1 + 1 BY <2>1, FS_Interval
  <2> QED BY <1>1, <2>2
<1>5. order \in Surjection(1..m, S) BY <1>3, <1>4, FS_Injection DEF m
<1>6. Len(order) = m BY <1>1, <1>2
<1> QED BY <1>5, <1>6 DEF Surjection

(* Every placeholder has its turn.                                         *)
LEMMA EveryLength ==
    \A tag \in DOMAIN Length : \E n \in 1..6 : Length[tag] = Lengths[n]
<1>1. ASSUME NEW tag \in DOMAIN Length
      PROVE  Length[tag] \in {30, 27, 26, 25, 24, 22}
  BY DEF Length
<1>2. /\ Lengths[1] = 30 /\ Lengths[2] = 27 /\ Lengths[3] = 26
      /\ Lengths[4] = 25 /\ Lengths[5] = 24 /\ Lengths[6] = 22
  BY DEF Lengths
<1>3. 1 \in 1..6 /\ 2 \in 1..6 /\ 3 \in 1..6 /\ 4 \in 1..6 /\ 5 \in 1..6
      /\ 6 \in 1..6
  OBVIOUS
<1> QED BY <1>1, <1>2, <1>3

(* A whole text without placeholders is as it was typed.                   *)
LEMMA NoneIsTyped ==
    ASSUME NEW T, Plain(T), NEW t, NEW text, Returns(T, t, text),
           Placeholders(text) = {}
    PROVE  text = t
<1>1. text \in Seq(Woven(T)) /\ Whole(text) /\ Expanded(text) = t BY DEF Returns
<1>2. ASSUME NEW k \in 1..Len(text) PROVE ~IsTag(text[k])
  <2>1. text[k] \in Range(text) BY <1>1, RangeEquality
  <2> QED BY <2>1 DEF Placeholders
<1>3. ASSUME NEW k \in 1..Len(text) PROVE text[k] \in T
  <2>1. ~IsPlaceholderPiece(text[k])
    <3> SUFFICES ASSUME IsPlaceholderPiece(text[k]) PROVE FALSE OBVIOUS
    <3>1. k - 1 \in 1..Len(text) /\ IsTag(text[k - 1]) BY <1>2 DEF Whole, Returns
    <3> QED BY <1>2, <3>1
  <2>2. text[k] \in Woven(T) BY <1>1, ElementOfSeq
  <2> QED BY <2>1, <2>2, WovenPieces
<1>4. text \in Seq(T)
  <2>1. Range(text) \subseteq T BY <1>1, <1>3, RangeEquality
  <2>2. text \in Seq(Range(text)) BY <1>1, SeqOfRange
  <2> QED BY <2>1, <2>2, SeqMonotonic
<1> QED BY <1>1, <1>4, ExpandTyped

(* A map that holds the placeholders of a text that is whole and, when     *)
(* redacted, not tangled gives back what the text stands for, in every     *)
(* order of the hash map.                                                  *)
LEMMA RoundTrips ==
    ASSUME NEW T, Plain(T), NEW was \in Seq(Woven(T)), Whole(was),
           NEW terms, Len(terms) \in Nat, ~Tangled(Redact(was, terms)),
           NEW map, IsFiniteSet(map), Placeholders(was) \subseteq map,
           Entries(was, terms) \subseteq map,
           NEW M, \A e \in map : IsTag(e) /\ e.of \in Seq(M)
    PROVE  Rehydrations(Redact(was, terms), map) \subseteq {Expanded(was)}
<1> DEFINE text == Redact(was, terms)
           t == Expanded(was)
<1>1. Returns(T, t, text) /\ Placeholders(text) \subseteq map
  <2> DEFINE raw == [text |-> was, entries |-> {}]
  <2>1. raw.text = was /\ raw.entries = {} OBVIOUS
  <2> HIDE DEF raw
  <2>2. Weaves(T, t, raw, map) BY <2>1 DEF Weaves
  <2>3. Weaves(T, t, Redacted(was, terms), map)
    BY <2>2, RedactedWeaves DEF Redact, raw
  <2> QED BY <2>3 DEF Weaves, Returns, Redact, Entries
<1> HIDE DEF t
<1> HIDE DEF text
<1>2. PICK f : Rehydrates(f, text, map) BY RehydratesExist
<1>3. /\ f[0] = {text} /\ Rehydrations(text, map) = f[6]
      /\ \A n \in 1..6 : f[n] = Stage(f[n - 1], text, map, n)
  BY <1>2 DEF Rehydrates
<1> DEFINE Good(n) == \A out \in f[n] :
              /\ Returns(T, t, out)
              /\ Placeholders(out) \subseteq Placeholders(text)
              /\ \A e \in Placeholders(out) : \A k \in 1..n :
                    Length[e.c] # Lengths[k]
           D == {n \in 0..6 : Good(n)}
<1>4. 0 \in D BY <1>1, <1>3
<1>5. ASSUME NEW n \in 1..6, Good(n - 1) PROVE Good(n)
  <2> DEFINE group == Group(text, map, n)
  <2>1. group \in SUBSET map BY DEF Group, There
  <2>2. IsFiniteSet(group)
    <3> HIDE DEF group
    <3> QED BY <2>1, FS_Subset
  <2>3. f[n] = {Restored(before, order) :
                    before \in f[n - 1], order \in SetToSeqs(group)}
    BY <1>3 DEF Stage
  <2>4. ASSUME NEW e \in Placeholders(text), Length[e.c] = Lengths[n]
        PROVE  e \in group
    <3>1. e \in Range(text) /\ e \in map BY <1>1 DEF Placeholders
    <3> QED BY <2>4, <3>1 DEF Group, There
  <2> HIDE DEF group
  <2>5. ASSUME NEW before \in f[n - 1], NEW order \in SetToSeqs(group)
        PROVE  LET out == Restored(before, order)
               IN  /\ Returns(T, t, out)
                   /\ Placeholders(out) \subseteq Placeholders(text)
                   /\ \A e \in Placeholders(out) : \A k \in 1..n :
                         Length[e.c] # Lengths[k]
    <3> DEFINE out == Restored(before, order)
    <3>1. Returns(T, t, before)
          /\ Placeholders(before) \subseteq Placeholders(text)
      BY <1>5
    <3>2. Len(order) \in Nat /\ \A k \in 1..Len(order) : order[k] \in group
      BY <2>2, OrderOf
    <3>3. \A k \in 1..Len(order) : IsTag(order[k]) /\ order[k].of \in Seq(M)
      BY <2>1, <3>2
    <3>4. /\ Returns(T, t, out)
          /\ Placeholders(out) \subseteq Placeholders(before)
          /\ \A k \in 1..Len(order) : order[k] \notin Placeholders(out)
      BY <3>1, <3>2, <3>3, RestoredWeaves
    <3> HIDE DEF out
    <3>5. ASSUME NEW e \in Placeholders(out), NEW k \in 1..n
          PROVE  Length[e.c] # Lengths[k]
      <4>1. CASE k = n
        <5> SUFFICES ASSUME Length[e.c] = Lengths[n] PROVE FALSE BY <4>1
        <5>1. e \in group BY <2>4, <3>1, <3>4
        <5>2. PICK l \in 1..Len(order) : order[l] = e
          BY <2>2, <5>1, OrderCovers
        <5> QED BY <3>4, <5>2
      <4>2. CASE k # n
        <5>1. k \in 1..(n - 1) BY <4>2
        <5> QED BY <1>5, <3>4, <5>1
      <4> QED BY <4>1, <4>2
    <3> QED BY <3>1, <3>4, <3>5 DEF out
  <2> QED BY <2>3, <2>5
<1> HIDE DEF Good
<1>6. ASSUME NEW n \in 1..6, n - 1 \in D PROVE n \in D BY <1>5, <1>6
<1> HIDE DEF D
<1>7. \A n \in 0..6 : n \in D BY <1>4, <1>6, Up
<1>8. Good(6) BY <1>7 DEF D
<1>9. ASSUME NEW out \in f[6] PROVE out = t
  <2>1. Returns(T, t, out) BY <1>8 DEF Good
  <2>2. ASSUME NEW e \in Placeholders(out) PROVE FALSE
    <3>1. e.c \in DOMAIN Length BY DEF Placeholders, IsTag
    <3>2. PICK n \in 1..6 : Length[e.c] = Lengths[n] BY <3>1, EveryLength
    <3> QED BY <1>8, <3>2 DEF Good
  <2> QED BY <2>1, <2>2, NoneIsTyped
<1> QED BY <1>3, <1>9 DEF text, t

-----------------------------------------------------------------------------
(* Where the hits of a pass stand, and what stays next to them.            *)

LEMMA ConcatAt ==
    ASSUME NEW P, NEW a \in Seq(P), NEW b \in Seq(P)
    PROVE  /\ a \o b \in Seq(P) /\ Len(a \o b) = Len(a) + Len(b)
           /\ Len(a) \in Nat /\ Len(b) \in Nat
           /\ \A k \in 1..Len(a) : (a \o b)[k] = a[k]
           /\ \A k \in 1..Len(b) : (a \o b)[Len(a) + k] = b[k]
           /\ \A k \in 1..Len(a \o b) :
                 \/ k \in 1..Len(a) /\ (a \o b)[k] = a[k]
                 \/ /\ k > Len(a) /\ k - Len(a) \in 1..Len(b)
                    /\ (a \o b)[k] = b[k - Len(a)]
<1> DEFINE m == Len(a)
           n == Len(b)
           s == a \o b
<1>1. m \in Nat /\ n \in Nat /\ s \in Seq(P) /\ Len(s) = m + n
  BY ConcatProperties
<1>2. \A k \in 1..m : s[k] = a[k] BY <1>1, ConcatProperties
<1>3. \A k \in 1..n : s[m + k] = b[k] BY <1>1, ConcatProperties
<1> HIDE DEF m, n, s
<1>4. \A k \in 1..(m + n) : k \in 1..m \/ (k > m /\ k - m \in 1..n /\ m + (k - m) = k)
  BY <1>1
<1>5. \A k \in 1..(m + n) : \/ k \in 1..m /\ s[k] = a[k]
                            \/ k > m /\ k - m \in 1..n /\ s[k] = b[k - m]
  BY <1>2, <1>3, <1>4
<1> QED BY <1>1, <1>2, <1>3, <1>5 DEF m, n, s

LEMMA ConsAt ==
    ASSUME NEW P, NEW x \in P, NEW b \in Seq(P)
    PROVE  /\ <<x>> \o b \in Seq(P) /\ Len(<<x>> \o b) = 1 + Len(b)
           /\ Len(b) \in Nat /\ (<<x>> \o b)[1] = x
           /\ \A k \in 1..Len(b) : (<<x>> \o b)[1 + k] = b[k]
           /\ \A k \in 1..Len(<<x>> \o b) :
                 k = 1 \/ (k - 1 \in 1..Len(b) /\ (<<x>> \o b)[k] = b[k - 1])
<1> DEFINE a == <<x>>
<1>1. a \in Seq(P) /\ b \in Seq(P) /\ Len(a) = 1 /\ a[1] = x OBVIOUS
<1> HIDE DEF a
<1> DEFINE s == a \o b
           n == Len(b)
<1>2. n \in Nat /\ s \in Seq(P) /\ Len(s) = 1 + n
  <2>1. n \in Nat OBVIOUS
  <2>2. s \in Seq(P) BY <1>1, ConcatProperties
  <2>3. Len(s) = Len(a) + Len(b) BY <1>1, ConcatProperties
  <2> QED BY <1>1, <2>1, <2>2, <2>3
<1>3. s[1] = x BY <1>1, <1>2, ConcatProperties
<1>4. \A k \in 1..n : s[1 + k] = b[k] BY <1>1, <1>2, ConcatProperties
<1> HIDE DEF s, n
<1>5. \A k \in 1..(1 + n) : k = 1 \/ (k - 1 \in 1..n /\ 1 + (k - 1) = k)
  BY <1>2
<1>6. \A k \in 1..(1 + n) : k = 1 \/ (k - 1 \in 1..n /\ s[k] = b[k - 1])
  BY <1>4, <1>5
<1> QED BY <1>2, <1>3, <1>4, <1>6 DEF s, n, a

(* What is looked for is in a hit, that begins with it or before it and is *)
(* as long as it can be.                                                   *)
LEMMA FindIsHit ==
    ASSUME NEW text, Len(text) \in Nat, NEW by, NEW p \in 1..Len(text),
           NEW q \in p..Len(text), SubSeq(text, p, q) \in DOMAIN by
    PROVE  \E a \in 1..p : \E b \in p..Len(text) :
              /\ SubSeq(text, a, b) \in Replaced(text, by).hits
              /\ SubSeq(text, a, b) \in DOMAIN by
              /\ \A j \in a..Len(text) : SubSeq(text, a, j) \in DOMAIN by => j <= b
<1> DEFINE N == Len(text)
<1>1. N \in Nat OBVIOUS
<1>2. PICK f : Runs(f, text, by) BY ReplacedRuns
<1> DEFINE Taken(i, a, b) ==
              /\ SubSeq(text, a, b) \in f[i].hits
              /\ SubSeq(text, a, b) \in DOMAIN by
              /\ \A j \in a..N : SubSeq(text, a, j) \in DOMAIN by => j <= b
           Good(i) == i <= p => \E a \in i..p : \E b \in p..N : Taken(i, a, b)
           D == {i \in 1..(N + 1) : Good(i)}
<1>3. Good(N + 1) BY <1>1
<1>4. ASSUME NEW i \in 1..N, \A j \in (i + 1)..(N + 1) : Good(j)
      PROVE  Good(i)
  <2> SUFFICES ASSUME i <= p
               PROVE  \E a \in i..p : \E b \in p..N : Taken(i, a, b)
    OBVIOUS
  <2>1. CASE Stays(f, text, by, i)
    <3>1. i # p
      <4> SUFFICES ASSUME i = p PROVE FALSE OBVIOUS
      <4>1. q \in Ends(text, by, i) BY DEF Ends
      <4> QED BY <2>1, <4>1 DEF Stays
    <3>2. i + 1 \in (i + 1)..(N + 1) /\ i + 1 <= p BY <1>1, <3>1
    <3>3. PICK a \in (i + 1)..p : \E b \in p..N : Taken(i + 1, a, b)
      BY <1>4, <3>2
    <3>4. PICK b \in p..N : Taken(i + 1, a, b) BY <3>3
    <3>5. f[i].hits = f[i + 1].hits BY <2>1 DEF Stays
    <3>6. a \in i..p OBVIOUS
    <3> QED BY <3>4, <3>5, <3>6
  <2>2. ASSUME NEW j \in i..N, Gives(f, text, by, i, j)
        PROVE  \E a \in i..p : \E b \in p..N : Taken(i, a, b)
    <3>1. /\ SubSeq(text, i, j) \in DOMAIN by
          /\ f[i].hits = f[j + 1].hits \cup {SubSeq(text, i, j)}
          /\ j = Max(Ends(text, by, i))
      BY <2>2 DEF Gives
    <3>2. CASE j < p
      <4>1. j + 1 \in (i + 1)..(N + 1) /\ j + 1 <= p BY <1>1, <3>2
      <4>2. PICK a \in (j + 1)..p : \E b \in p..N : Taken(j + 1, a, b)
        BY <1>4, <4>1
      <4>3. PICK b \in p..N : Taken(j + 1, a, b) BY <4>2
      <4>4. a \in i..p OBVIOUS
      <4> QED BY <3>1, <4>3, <4>4
    <3>3. CASE ~(j < p)
      <4>1. j \in p..N /\ i \in i..p BY <1>1, <3>3
      <4>2. j \in Ends(text, by, i) BY <3>1 DEF Ends
      <4>3. \A k \in Ends(text, by, i) : k <= j BY <3>1, <4>2, EndsMax
      <4>4. Taken(i, i, j) BY <3>1, <4>3 DEF Ends
      <4> QED BY <4>1, <4>4
    <3> QED BY <3>2, <3>3
  <2> QED BY <1>2, <2>1, <2>2 DEF Runs
<1> HIDE DEF Good
<1>5. \A i \in 1..(N + 1) : i \in D
  <2>1. N + 1 \in D BY <1>1, <1>3
  <2>2. ASSUME NEW i \in 1..N, \A j \in (i + 1)..(N + 1) : j \in D
        PROVE  i \in D
    BY <1>1, <1>4, <2>2
  <2> HIDE DEF D, N
  <2> QED BY <1>1, <2>1, <2>2, Down
<1>6. Good(1) /\ 1 <= p BY <1>1, <1>5
<1>7. Replaced(text, by) = f[1] BY <1>2 DEF Runs
<1> QED BY <1>6, <1>7 DEF Good

(* What each place gets is a text. *)
LEMMA RunsSeq ==
    ASSUME NEW P, NEW text \in Seq(P), NEW by, NEW Q,
           \A s \in DOMAIN by : by[s] \in Seq(Q),
           NEW f, Runs(f, text, by)
    PROVE  \A i \in 1..(Len(text) + 1) : f[i].text \in Seq(P \cup Q)
<1> DEFINE N == Len(text)
           Good(i) == f[i].text \in Seq(P \cup Q)
           D == {i \in 1..(N + 1) : Good(i)}
<1>1. N \in Nat OBVIOUS
<1>2. Good(N + 1)
  <2>1. f[N + 1].text = <<>> BY DEF Runs
  <2> QED BY <2>1
<1>3. ASSUME NEW i \in 1..N, \A j \in (i + 1)..(N + 1) : Good(j)
      PROVE  Good(i)
  <2>1. CASE Stays(f, text, by, i)
    <3>1. f[i].text = <<text[i]>> \o f[i + 1].text BY <2>1, OnePiece DEF Stays
    <3>2. f[i + 1].text \in Seq(P \cup Q)
      <4>1. i + 1 \in (i + 1)..(N + 1) BY <1>1
      <4> QED BY <1>3, <4>1
    <3>3. <<text[i]>> \in Seq(P \cup Q) OBVIOUS
    <3>4. <<text[i]>> \o f[i + 1].text \in Seq(P \cup Q)
      BY <3>2, <3>3, ConcatProperties
    <3> QED BY <3>1, <3>4
  <2>2. ASSUME NEW j \in i..N, Gives(f, text, by, i, j) PROVE Good(i)
    <3> DEFINE b == by[SubSeq(text, i, j)]
    <3>1. f[i].text = b \o f[j + 1].text /\ b \in Seq(Q) BY <2>2 DEF Gives
    <3>2. f[j + 1].text \in Seq(P \cup Q)
      <4>1. j + 1 \in (i + 1)..(N + 1) BY <1>1
      <4> QED BY <1>3, <4>1
    <3>3. b \in Seq(P \cup Q) BY <3>1, SeqMonotonic
    <3> HIDE DEF b
    <3>4. b \o f[j + 1].text \in Seq(P \cup Q) BY <3>2, <3>3, ConcatProperties
    <3> QED BY <3>1, <3>4
  <2> QED BY <2>1, <2>2 DEF Runs
<1> HIDE DEF Good
<1>4. N + 1 \in D BY <1>1, <1>2
<1>5. ASSUME NEW i \in 1..N, \A j \in (i + 1)..(N + 1) : j \in D
      PROVE  i \in D
  BY <1>1, <1>3, <1>5
<1> HIDE DEF D, N
<1>6. \A i \in 1..(N + 1) : i \in D BY <1>1, <1>4, <1>5, Down
<1> QED BY <1>6 DEF D, N, Good

(* A piece in no hit stays, and so does its right neighbour, or what is    *)
(* put in for a hit that begins with that.                                 *)
LEMMA StaysNext ==
    ASSUME NEW P, NEW text \in Seq(P), NEW by, NEW Q,
           \A s \in DOMAIN by : by[s] \in Seq(Q) /\ by[s] # <<>>,
           NEW p \in 1..Len(text),
           \A h \in Replaced(text, by).hits : text[p] \notin Range(h)
    PROVE  LET r == Replaced(text, by)
           IN  \E k \in 1..Len(r.text) :
                  /\ r.text[k] = text[p]
                  /\ p < Len(text) =>
                        /\ k + 1 \in 1..Len(r.text)
                        /\ \/ r.text[k + 1] = text[p + 1]
                           \/ \E h \in r.hits : /\ h \in DOMAIN by
                                                /\ h[1] = text[p + 1]
                                                /\ r.text[k + 1] = by[h][1]
<1> DEFINE N == Len(text)
           PQ == P \cup Q
<1>1. N \in Nat OBVIOUS
<1>2. PICK f : Runs(f, text, by) BY <1>1, ReplacedRuns
<1>3. \A i \in 1..(N + 1) : f[i].text \in Seq(PQ) BY <1>2, RunsSeq
<1> DEFINE Begins(i, x, hits) ==
              \/ x = text[i]
              \/ \E h \in hits : h \in DOMAIN by /\ h[1] = text[i] /\ x = by[h][1]
           Neighbour(i, k) == p < N =>
              k + 1 \in 1..Len(f[i].text)
                /\ Begins(p + 1, f[i].text[k + 1], f[i].hits)
           Good(i) ==
              i <= p /\ (\A h \in f[i].hits : text[p] \notin Range(h)) =>
                \E k \in 1..Len(f[i].text) :
                    f[i].text[k] = text[p] /\ Neighbour(i, k)
           D == {i \in 1..(N + 1) : Good(i)}
<1>4. Good(N + 1) BY <1>1
<1>5. ASSUME NEW i \in 1..N
      PROVE  1 \in 1..Len(f[i].text) /\ Begins(i, f[i].text[1], f[i].hits)
  <2>1. CASE Stays(f, text, by, i)
    <3> DEFINE a == <<text[i]>>
               b == f[i + 1].text
    <3>1. f[i].text = a \o b BY <2>1, OnePiece DEF Stays
    <3>2. text[i] \in PQ OBVIOUS
    <3>3. i + 1 \in 1..(N + 1) BY <1>1
    <3>4. b \in Seq(PQ) BY <1>3, <3>3
    <3> HIDE DEF b, PQ
    <3>5. Len(a \o b) = 1 + Len(b) /\ Len(b) \in Nat /\ (a \o b)[1] = text[i]
      BY <3>2, <3>4, ConsAt
    <3> HIDE DEF a
    <3> QED BY <3>1, <3>5
  <2>2. ASSUME NEW j \in i..N, Gives(f, text, by, i, j)
        PROVE  1 \in 1..Len(f[i].text) /\ Begins(i, f[i].text[1], f[i].hits)
    <3> DEFINE h == SubSeq(text, i, j)
               a == by[h]
               b == f[j + 1].text
    <3>1. /\ f[i].text = a \o b /\ h \in DOMAIN by /\ h \in f[i].hits
          /\ a \in Seq(Q) /\ a # <<>>
      BY <2>2 DEF Gives
    <3>2. a \in Seq(PQ) /\ Len(a) >= 1 BY <3>1, SeqMonotonic, EmptySeq
    <3>3. j + 1 \in 1..(N + 1) BY <1>1
    <3>4. b \in Seq(PQ) BY <1>3, <3>3
    <3>5. h[1] = text[i]
      <4>1. \A k \in 1..(j - i + 1) : h[k] = text[i + k - 1] BY PartSeq
      <4>2. 1 \in 1..(j - i + 1) /\ i + 1 - 1 = i BY <1>1
      <4> HIDE DEF h
      <4> QED BY <4>1, <4>2
    <3> HIDE DEF b, PQ, h
    <3>6. Len(a \o b) = Len(a) + Len(b) /\ Len(b) \in Nat /\ Len(a) \in Nat
          /\ \A k \in 1..Len(a) : (a \o b)[k] = a[k]
      BY <3>2, <3>4, ConcatAt
    <3>7. 1 \in 1..Len(a) /\ 1 \in 1..Len(a \o b) BY <3>2, <3>6
    <3> QED BY <3>1, <3>5, <3>6, <3>7
  <2> QED BY <1>2, <2>1, <2>2 DEF Runs
<1>6. ASSUME NEW i \in 1..N, \A j \in (i + 1)..(N + 1) : Good(j)
      PROVE  Good(i)
  <2> SUFFICES ASSUME i <= p, \A h \in f[i].hits : text[p] \notin Range(h)
               PROVE  \E k \in 1..Len(f[i].text) :
                          f[i].text[k] = text[p] /\ Neighbour(i, k)
    OBVIOUS
  <2>1. CASE Stays(f, text, by, i)
    <3> DEFINE a == <<text[i]>>
               b == f[i + 1].text
    <3>1. f[i].text = a \o b /\ f[i].hits = f[i + 1].hits
      BY <2>1, OnePiece DEF Stays
    <3>2. text[i] \in PQ OBVIOUS
    <3>3. i + 1 \in 1..(N + 1) /\ i + 1 \in (i + 1)..(N + 1) BY <1>1
    <3>4. b \in Seq(PQ) BY <1>3, <3>3
    <3>5. /\ Len(a \o b) = 1 + Len(b) /\ Len(b) \in Nat /\ (a \o b)[1] = text[i]
          /\ \A k \in 1..Len(b) : (a \o b)[1 + k] = b[k]
      <4> HIDE DEF b, PQ
      <4> QED BY <3>2, <3>4, ConsAt
    <3>6. CASE i = p
      <4>1. 1 \in 1..Len(f[i].text) /\ f[i].text[1] = text[p]
        <5> HIDE DEF a, b
        <5> QED BY <3>1, <3>5, <3>6
      <4>2. ASSUME p < N PROVE /\ 1 + 1 \in 1..Len(f[i].text)
                               /\ Begins(p + 1, f[i].text[1 + 1], f[i].hits)
        <5>1. p + 1 \in 1..N BY <4>2
        <5>2. 1 \in 1..Len(b) /\ Begins(p + 1, b[1], f[p + 1].hits)
          BY <1>5, <5>1, <3>6
        <5>3. f[i].text[1 + 1] = b[1] /\ 1 + 1 \in 1..Len(f[i].text)
          <6> HIDE DEF a, b
          <6> QED BY <3>1, <3>5, <5>2
        <5> QED BY <3>1, <3>6, <5>2, <5>3
      <4> QED BY <4>1, <4>2
    <3>7. CASE i # p
      <4>1. i + 1 <= p BY <3>7
      <4>2. PICK k \in 1..Len(b) : b[k] = text[p] /\ Neighbour(i + 1, k)
        BY <1>6, <3>1, <3>3, <4>1
      <4>3. 1 + k \in 1..Len(f[i].text) /\ f[i].text[1 + k] = text[p]
        BY <3>1, <3>5, <4>2, SMTT(30)
      <4>4. Neighbour(i, 1 + k)
        <5> SUFFICES ASSUME p < N
                     PROVE  /\ (1 + k) + 1 \in 1..Len(f[i].text)
                            /\ Begins(p + 1, f[i].text[(1 + k) + 1], f[i].hits)
          OBVIOUS
        <5>1. k + 1 \in 1..Len(b) /\ Begins(p + 1, b[k + 1], f[i + 1].hits)
          BY <4>2
        <5>2. (1 + k) + 1 = 1 + (k + 1) /\ 1 + (k + 1) \in 1..(1 + Len(b))
          BY <3>5, <5>1
        <5>3. f[i].text[1 + (k + 1)] = b[k + 1] BY <3>1, <3>5, <5>1
        <5> HIDE DEF a, b
        <5> QED BY <3>1, <3>5, <5>1, <5>2, <5>3
      <4> QED BY <4>3, <4>4
    <3> QED BY <3>6, <3>7
  <2>2. ASSUME NEW j \in i..N, Gives(f, text, by, i, j)
        PROVE  \E k \in 1..Len(f[i].text) :
                   f[i].text[k] = text[p] /\ Neighbour(i, k)
    <3> DEFINE h == SubSeq(text, i, j)
               a == by[h]
               b == f[j + 1].text
    <3>1. /\ f[i].text = a \o b /\ h \in f[i].hits
          /\ f[i].hits = f[j + 1].hits \cup {h} /\ a \in Seq(Q)
      BY <2>2 DEF Gives
    <3>2. a \in Seq(PQ) BY <3>1, SeqMonotonic
    <3>3. j + 1 \in 1..(N + 1) /\ j + 1 \in (i + 1)..(N + 1) BY <1>1
    <3>4. b \in Seq(PQ) BY <1>3, <3>3
    <3>5. j + 1 <= p
      <4> SUFFICES ASSUME p <= j PROVE FALSE BY <1>1
      <4>1. p \in i..j BY <1>1
      <4>2. Range(h) = {text[k] : k \in i..j} BY PartSeq
      <4> HIDE DEF h
      <4> QED BY <3>1, <4>1, <4>2
    <3>6. PICK k \in 1..Len(b) : b[k] = text[p] /\ Neighbour(j + 1, k)
      BY <1>6, <3>1, <3>3, <3>5
    <3> DEFINE l == Len(a)
    <3>7. /\ Len(a \o b) = l + Len(b) /\ Len(b) \in Nat /\ l \in Nat
          /\ \A n \in 1..Len(b) : (a \o b)[l + n] = b[n]
      <4> HIDE DEF a, b, PQ
      <4> QED BY <3>2, <3>4, ConcatAt
    <3>8. l + k \in 1..Len(f[i].text) /\ f[i].text[l + k] = text[p]
      <4> HIDE DEF l, a, b
      <4> QED BY <3>1, <3>6, <3>7
    <3>9. Neighbour(i, l + k)
      <4> SUFFICES ASSUME p < N
                   PROVE  /\ (l + k) + 1 \in 1..Len(f[i].text)
                          /\ Begins(p + 1, f[i].text[(l + k) + 1], f[i].hits)
        OBVIOUS
      <4>1. k + 1 \in 1..Len(b) /\ Begins(p + 1, b[k + 1], f[j + 1].hits)
        BY <3>6
      <4> HIDE DEF l, a, b
      <4>2. (l + k) + 1 = l + (k + 1) /\ l + (k + 1) \in 1..(l + Len(b))
        <5>1. l \in Nat /\ Len(b) \in Nat BY <3>7
        <5>2. k \in 1..Len(b) /\ k + 1 \in 1..Len(b) BY <4>1
        <5> QED BY <5>1, <5>2
      <4>3. f[i].text[l + (k + 1)] = b[k + 1] BY <3>1, <3>7, <4>1
      <4>4. Begins(p + 1, b[k + 1], f[i].hits) BY <3>1, <4>1
      <4> QED BY <3>1, <3>7, <4>2, <4>3, <4>4
    <3> QED BY <3>8, <3>9
  <2> QED BY <1>2, <2>1, <2>2 DEF Runs
<1> HIDE DEF Good
<1>7. \A i \in 1..(N + 1) : i \in D
  <2>1. N + 1 \in D BY <1>1, <1>4
  <2>2. ASSUME NEW i \in 1..N, \A j \in (i + 1)..(N + 1) : j \in D
        PROVE  i \in D
    BY <1>1, <1>6, <2>2
  <2> HIDE DEF D, N
  <2> QED BY <1>1, <2>1, <2>2, Down
<1>8. Good(1) /\ 1 <= p BY <1>1, <1>7
<1>9. Replaced(text, by) = f[1] BY <1>2 DEF Runs
<1>10. PICK k \in 1..Len(f[1].text) : f[1].text[k] = text[p] /\ Neighbour(1, k)
  BY <1>8, <1>9 DEF Good
<1> QED BY <1>9, <1>10
-----------------------------------------------------------------------------
(* Texts whose pieces carry their places.                                  *)

IsMark(x) == x.at = 0 /\ IsPlaceholderPiece(x.piece) /\ x.piece.c # "sp"

IsPlace(x, text) == x.at \in 1..Len(text) /\ x.piece = text[x.at]

Ordered(u) ==
    \A i, j \in 1..Len(u) :
        i < j /\ u[i].at # 0 /\ u[j].at # 0 => u[i].at < u[j].at

(* The places that are left are as they were, and in their order. *)
Tidy(u, text) ==
    /\ \A k \in 1..Len(u) : IsMark(u[k]) \/ IsPlace(u[k], text)
    /\ Ordered(u)

Marks(by, Q) ==
    /\ \A s \in DOMAIN by : by[s] \in Seq(Q) /\ by[s] # <<>>
    /\ \A x \in Q : IsMark(x)

(* A place is in a tidy text once. *)
LEMMA OneAt ==
    ASSUME NEW u, Len(u) \in Nat, NEW text, Len(text) \in Nat, Tidy(u, text),
           NEW i \in 1..Len(u), NEW j \in 1..Len(u),
           u[i].at = u[j].at, u[i].at # 0
    PROVE  i = j
<1>1. u[i].at \in Nat BY DEF Tidy, IsMark, IsPlace
<1>2. ~(i < j) /\ ~(j < i) BY <1>1 DEF Tidy, Ordered
<1> QED BY <1>2

(* The places left are those that no hit has; the hits are parts of the    *)
(* text.                                                                   *)
Tidied(r, u, text, by) ==
    /\ Tidy(r.text, text)
    /\ \A k \in 1..Len(r.text) : r.text[k].at # 0 =>
          \E m \in 1..Len(u) :
             r.text[k] = u[m] /\ \A h \in r.hits : u[m] \notin Range(h)
    /\ \A h \in r.hits :
          /\ h \in DOMAIN by
          /\ \E a \in 1..Len(u) : \E b \in a..Len(u) : h = SubSeq(u, a, b)

LEMMA ReplacedTidy ==
    ASSUME NEW P, NEW u \in Seq(P), NEW text, Len(text) \in Nat,
           Tidy(u, text), NEW by, NEW Q, Marks(by, Q)
    PROVE  /\ Replaced(u, by).text \in Seq(P \cup Q)
           /\ Tidied(Replaced(u, by), u, text, by)
<1> DEFINE N == Len(u)
           PQ == P \cup Q
<1>1. N \in Nat OBVIOUS
<1>2. PICK f : Runs(f, u, by) BY <1>1, ReplacedRuns
<1>3. \A i \in 1..(N + 1) : f[i].text \in Seq(PQ)
  BY <1>2, RunsSeq DEF Marks
<1> DEFINE Kept(i, x) == \E m \in i..N :
              x = u[m] /\ \A h \in f[i].hits : u[m] \notin Range(h)
           Part(i, h) == h \in DOMAIN by
              /\ \E a \in i..N : \E b \in a..N : h = SubSeq(u, a, b)
           Fine(i, x) == (IsMark(x) \/ IsPlace(x, text))
              /\ (x.at # 0 => Kept(i, x))
           Good(i) ==
              /\ \A k \in 1..Len(f[i].text) : Fine(i, f[i].text[k])
              /\ Ordered(f[i].text)
              /\ \A h \in f[i].hits : Part(i, h)
           D == {i \in 1..(N + 1) : Good(i)}
<1>4. Good(N + 1)
  <2>1. f[N + 1].text = <<>> /\ f[N + 1].hits = {} BY <1>2 DEF Runs
  <2>2. Len(<<>>) = 0 /\ 1..0 = {} OBVIOUS
  <2> QED BY <2>1, <2>2 DEF Ordered
<1>5. ASSUME NEW i \in 1..N, \A j \in (i + 1)..(N + 1) : Good(j)
      PROVE  Good(i)
  <2>1. CASE Stays(f, u, by, i)
    <3> DEFINE w == f[i + 1].text
               s == <<u[i]>> \o w
    <3>1. f[i].text = s /\ f[i].hits = f[i + 1].hits
      BY <2>1, OnePiece DEF Stays
    <3>2. i + 1 \in 1..(N + 1) /\ i + 1 \in (i + 1)..(N + 1) BY <1>1
    <3>3. w \in Seq(PQ) /\ u[i] \in PQ BY <1>3, <3>2
    <3>4. Good(i + 1) BY <1>5, <3>2
    <3>5. /\ Len(s) = 1 + Len(w) /\ Len(w) \in Nat /\ s[1] = u[i]
          /\ \A k \in 1..Len(s) :
                k = 1 \/ (k - 1 \in 1..Len(w) /\ s[k] = w[k - 1])
      <4> HIDE DEF w, PQ
      <4> QED BY <3>3, ConsAt
    <3> HIDE DEF s
    <3>6. ASSUME NEW h \in f[i].hits
          PROVE  Part(i, h) /\ (u[i].at # 0 => u[i] \notin Range(h))
      <4>1. PICK a \in (i + 1)..N : \E b \in a..N : h = SubSeq(u, a, b)
        BY <3>1, <3>4
      <4>2. PICK b \in a..N : h = SubSeq(u, a, b) BY <4>1
      <4>3. Range(h) = {u[k] : k \in a..b} BY <4>2, PartSeq
      <4>4. ASSUME NEW k \in a..b, u[i].at # 0, u[k] = u[i] PROVE FALSE
        <5>1. k \in 1..N /\ k # i BY <1>1
        <5> QED BY <1>1, <4>4, <5>1, OneAt
      <4>5. h \in DOMAIN by /\ a \in i..N BY <3>1, <3>4
      <4> QED BY <4>2, <4>3, <4>4, <4>5
    <3>7. ASSUME NEW k \in 1..Len(w) PROVE Fine(i, w[k])
      <4>1. Fine(i + 1, w[k]) BY <3>4
      <4>2. ASSUME NEW m \in (i + 1)..N PROVE m \in i..N OBVIOUS
      <4> QED BY <3>1, <4>1, <4>2
    <3>8. Fine(i, u[i])
      <4>1. IsMark(u[i]) \/ IsPlace(u[i], text) BY DEF Tidy
      <4>2. i \in i..N BY <1>1
      <4> QED BY <3>6, <4>1, <4>2
    <3>9. ASSUME NEW k \in 1..Len(s), NEW l \in 1..Len(s), k < l,
                 s[k].at # 0, s[l].at # 0
          PROVE  s[k].at < s[l].at
      <4>1. l - 1 \in 1..Len(w) /\ s[l] = w[l - 1] BY <3>5, <3>9
      <4>2. CASE k = 1
        <5>1. Kept(i + 1, w[l - 1]) BY <3>4, <3>9, <4>1
        <5>2. PICK m \in (i + 1)..N : w[l - 1] = u[m] BY <5>1
        <5>3. i < m /\ m \in 1..N BY <1>1
        <5> QED BY <3>5, <3>9, <4>1, <4>2, <5>2, <5>3 DEF Tidy, Ordered
      <4>3. CASE k # 1
        <5>1. k - 1 \in 1..Len(w) /\ s[k] = w[k - 1] BY <3>5, <4>3
        <5>2. k - 1 < l - 1 BY <3>5, <3>9
        <5>3. Ordered(w) BY <3>4
        <5> HIDE DEF w
        <5> QED BY <3>9, <4>1, <5>1, <5>2, <5>3 DEF Ordered
      <4> QED BY <4>2, <4>3
    <3>10. ASSUME NEW k \in 1..Len(s) PROVE Fine(i, s[k])
      <4> HIDE DEF Fine, w
      <4> QED BY <3>5, <3>7, <3>8
    <3>11. Ordered(s) BY <3>9 DEF Ordered
    <3> HIDE DEF Kept, Part, Fine
    <3> QED BY <3>1, <3>6, <3>10, <3>11
  <2>2. ASSUME NEW j \in i..N, Gives(f, u, by, i, j) PROVE Good(i)
    <3> DEFINE part == SubSeq(u, i, j)
               b == by[part]
               w == f[j + 1].text
               s == b \o w
    <3>1. /\ f[i].text = s /\ part \in DOMAIN by
          /\ f[i].hits = f[j + 1].hits \cup {part}
      BY <2>2 DEF Gives
    <3>2. j + 1 \in 1..(N + 1) /\ j + 1 \in (i + 1)..(N + 1) BY <1>1
    <3>3. w \in Seq(PQ) /\ b \in Seq(Q) /\ b \in Seq(PQ)
      <4>1. b \in Seq(Q) BY <3>1 DEF Marks
      <4> HIDE DEF b
      <4> QED BY <1>3, <3>2, <4>1, SeqMonotonic
    <3>4. Good(j + 1) BY <1>5, <3>2
    <3>5. /\ Len(s) = Len(b) + Len(w) /\ Len(w) \in Nat /\ Len(b) \in Nat
          /\ \A k \in 1..Len(s) :
                \/ k \in 1..Len(b) /\ s[k] = b[k]
                \/ /\ k > Len(b) /\ k - Len(b) \in 1..Len(w)
                   /\ s[k] = w[k - Len(b)]
      <4> HIDE DEF w, PQ, b
      <4> QED BY <3>3, ConcatAt
    <3>6. \A k \in 1..Len(b) : IsMark(b[k])
      <4> HIDE DEF b
      <4>1. \A k \in 1..Len(b) : b[k] \in Q BY <3>3, ElementOfSeq
      <4> QED BY <4>1 DEF Marks
    <3> HIDE DEF s
    <3>7. Range(part) = {u[k] : k \in i..j} BY PartSeq
    <3>8. ASSUME NEW h \in f[i].hits PROVE Part(i, h)
      <4>1. CASE h = part
        <5>1. i \in i..N BY <1>1
        <5> QED BY <3>1, <4>1, <5>1
      <4>2. CASE h # part
        <5>1. Part(j + 1, h) BY <3>1, <3>4, <4>2
        <5>2. \A a \in (j + 1)..N : a \in i..N BY <1>1
        <5> QED BY <5>1, <5>2
      <4> QED BY <4>1, <4>2
    <3>9. ASSUME NEW k \in 1..Len(w) PROVE Fine(i, w[k])
      <4>1. Fine(j + 1, w[k]) BY <3>4
      <4>2. ASSUME NEW m \in (j + 1)..N, w[k] = u[m], w[k].at # 0
            PROVE  m \in i..N /\ u[m] \notin Range(part)
        <5>1. m \in 1..N /\ m \in i..N BY <1>1
        <5>2. ASSUME NEW l \in i..j, u[l] = u[m] PROVE FALSE
          <6>1. l \in 1..N /\ l # m BY <1>1
          <6> QED BY <1>1, <4>2, <5>1, <5>2, <6>1, OneAt
        <5> HIDE DEF part
        <5> QED BY <3>7, <5>1, <5>2
      <4>3. ASSUME w[k].at # 0 PROVE Kept(i, w[k])
        <5>1. PICK m \in (j + 1)..N :
                 w[k] = u[m] /\ \A h \in f[j + 1].hits : u[m] \notin Range(h)
          BY <4>1, <4>3
        <5>2. m \in i..N /\ u[m] \notin Range(part) BY <4>2, <4>3, <5>1
        <5>3. \A h \in f[i].hits : u[m] \notin Range(h) BY <3>1, <5>1, <5>2
        <5> QED BY <5>1, <5>2, <5>3
      <4> QED BY <4>1, <4>3
    <3>10. ASSUME NEW k \in 1..Len(s) PROVE Fine(i, s[k])
      <4>1. ASSUME IsMark(s[k]) PROVE Fine(i, s[k]) BY <4>1 DEF IsMark
      <4> HIDE DEF Fine, b, w
      <4> QED BY <3>5, <3>6, <3>9, <4>1
    <3>11. ASSUME NEW k \in 1..Len(s), NEW l \in 1..Len(s), k < l,
                  s[k].at # 0, s[l].at # 0
           PROVE  s[k].at < s[l].at
      <4>1. Ordered(w) BY <3>4
      <4> DEFINE n == Len(b)
      <4> HIDE DEF b, w
      <4>2. /\ k - n \in 1..Len(w) /\ s[k] = w[k - n]
            /\ l - n \in 1..Len(w) /\ s[l] = w[l - n]
        BY <3>5, <3>6, <3>11 DEF IsMark
      <4>3. k - n < l - n BY <3>5, <3>11
      <4> HIDE DEF n
      <4> QED BY <3>11, <4>1, <4>2, <4>3 DEF Ordered
    <3>12. Ordered(s) BY <3>11 DEF Ordered
    <3> HIDE DEF Kept, Part, Fine
    <3> QED BY <3>1, <3>8, <3>10, <3>12
  <2> QED BY <1>2, <2>1, <2>2 DEF Runs
<1> HIDE DEF Good
<1>6. \A i \in 1..(N + 1) : i \in D
  <2>1. N + 1 \in D BY <1>1, <1>4
  <2>2. ASSUME NEW i \in 1..N, \A j \in (i + 1)..(N + 1) : j \in D
        PROVE  i \in D
    BY <1>1, <1>5, <2>2
  <2> HIDE DEF D, N
  <2> QED BY <1>1, <2>1, <2>2, Down
<1>7. Good(1) /\ 1 \in 1..(N + 1) BY <1>1, <1>6
<1>8. Replaced(u, by) = f[1] BY <1>2 DEF Runs
<1>9. f[1].text \in Seq(PQ) BY <1>3, <1>7
<1> QED BY <1>7, <1>8, <1>9 DEF Good, Tidy, Tidied
-----------------------------------------------------------------------------
(* A span of places over a pass.                                           *)

(* It stands in a text whole, or nothing of it does.                       *)
SitsAt(from, to, u, p) ==
    /\ p + to - from <= Len(u)
    /\ \A d \in 0..(to - from) : u[p + d].at = from + d

Sits(from, to, u) == \E p \in 1..Len(u) : SitsAt(from, to, u, p)

Gone(from, to, u) == \A k \in 1..Len(u) : u[k].at \notin from..to

LEMMA PlacesOf ==
    ASSUME NEW P, NEW u \in Seq(P), NEW a \in 1..Len(u), NEW b \in a..Len(u)
    PROVE  Places(SubSeq(u, a, b)) = {u[k].at : k \in a..b} \ {0}
<1> DEFINE s == SubSeq(u, a, b)
<1>1. Range(s) = {u[k] : k \in a..b} BY PartSeq
<1> HIDE DEF s
<1>2. {x.at : x \in Range(s)} = {u[k].at : k \in a..b} BY <1>1
<1> QED BY <1>2 DEF Places, s

LEMMA StaysGone ==
    ASSUME NEW P, NEW u \in Seq(P), NEW text, Len(text) \in Nat,
           Tidy(u, text), NEW by, NEW Q, Marks(by, Q),
           NEW from \in 1..Len(text), NEW to \in from..Len(text),
           Gone(from, to, u)
    PROVE  Gone(from, to, Replaced(u, by).text)
<1> DEFINE r == Replaced(u, by)
<1>1. Tidied(r, u, text, by) BY ReplacedTidy
<1> HIDE DEF r
<1>2. 0 \notin from..to OBVIOUS
<1>3. Gone(from, to, r.text) BY <1>1, <1>2 DEF Gone, Tidied
<1> QED BY <1>3 DEF r

(* What a hit has is gone. *)
LEMMA TakenGone ==
    ASSUME NEW P, NEW u \in Seq(P), NEW text, Len(text) \in Nat,
           Tidy(u, text), NEW by, NEW Q, Marks(by, Q),
           NEW from \in 1..Len(text), NEW to \in from..Len(text),
           NEW h \in Replaced(u, by).hits, from..to \subseteq Places(h)
    PROVE  Gone(from, to, Replaced(u, by).text)
<1> DEFINE r == Replaced(u, by)
           out == r.text
<1>0. Tidied(r, u, text, by) /\ h \in r.hits BY ReplacedTidy
<1> HIDE DEF r
<1>1. \A k \in 1..Len(out) : out[k].at # 0 =>
          \E m \in 1..Len(u) : out[k] = u[m] /\ u[m] \notin Range(h)
  BY <1>0 DEF Tidied
<1>2. PICK a \in 1..Len(u) : \E b \in a..Len(u) : h = SubSeq(u, a, b)
  BY <1>0 DEF Tidied
<1>3. PICK b \in a..Len(u) : h = SubSeq(u, a, b) BY <1>2
<1>4. Places(h) = {u[k].at : k \in a..b} \ {0} /\ Range(h) = {u[k] : k \in a..b}
  <2>1. Places(SubSeq(u, a, b)) = {u[k].at : k \in a..b} \ {0} BY PlacesOf
  <2>2. Range(SubSeq(u, a, b)) = {u[k] : k \in a..b} BY PartSeq
  <2> QED BY <1>3, <2>1, <2>2
<1> HIDE DEF out
<1>5. ASSUME NEW k \in 1..Len(out), out[k].at \in from..to PROVE FALSE
  <2>1. out[k].at # 0 BY <1>5
  <2>2. PICK m \in 1..Len(u) : out[k] = u[m] /\ u[m] \notin Range(h)
    BY <1>1, <2>1
  <2>3. u[m].at \in Places(h) BY <1>5, <2>2
  <2>4. PICK l \in a..b : u[l].at = u[m].at BY <1>4, <2>3
  <2>5. l \in 1..Len(u) OBVIOUS
  <2>6. l = m BY <2>1, <2>2, <2>4, <2>5, OneAt
  <2> QED BY <1>4, <2>2, <2>4, <2>6
<1> QED BY <1>5 DEF Gone, out, r

(* What no hit has a piece of stays whole. *)
LEMMA UntouchedSits ==
    ASSUME NEW P, NEW u \in Seq(P), NEW text, Len(text) \in Nat,
           Tidy(u, text), NEW by, NEW Q, Marks(by, Q),
           NEW from \in 1..Len(text), NEW to \in from..Len(text),
           NEW p \in 1..Len(u), SitsAt(from, to, u, p),
           \A d \in 0..(to - from) : \A h \in Replaced(u, by).hits :
                u[p + d] \notin Range(h)
    PROVE  Sits(from, to, Replaced(u, by).text)
<1> DEFINE r == Replaced(u, by)
           out == r.text
           n == to - from
<1>1. n \in Nat /\ p + n \in 1..Len(u) /\ Len(u) \in Nat BY DEF SitsAt
<1>2. /\ out \in Seq(P \cup Q) /\ Tidy(out, text)
      /\ \A h \in r.hits : h \in DOMAIN by
             /\ \E a \in 1..Len(u) : \E b \in a..Len(u) : h = SubSeq(u, a, b)
  <2>1. out \in Seq(P \cup Q) /\ Tidied(r, u, text, by) BY ReplacedTidy
  <2> HIDE DEF r
  <2> QED BY <2>1 DEF Tidied
<1>3. \A s \in DOMAIN by : by[s] \in Seq(Q) /\ by[s] # <<>> BY DEF Marks
<1>4. ASSUME NEW h \in r.hits
      PROVE  h[1] \in Range(h)
  <2>1. PICK a \in 1..Len(u) : \E b \in a..Len(u) : h = SubSeq(u, a, b) BY <1>2
  <2>2. PICK b \in a..Len(u) : h = SubSeq(u, a, b) BY <2>1
  <2>3. h \in Seq(P) /\ h # <<>> BY <2>2, PartSeq
  <2>4. 1 \in 1..Len(h) BY <2>3, EmptySeq
  <2> QED BY <2>3, <2>4, RangeEquality
<1> HIDE DEF n
<1>5. ASSUME NEW d \in 0..n
      PROVE  /\ u[p + d].at = from + d /\ u[p + d].at # 0
             /\ \E k \in 1..Len(out) :
                   /\ out[k] = u[p + d]
                   /\ d < n => k + 1 \in 1..Len(out) /\ out[k + 1] = u[p + (d + 1)]
  <2> DEFINE m == p + d
  <2>1. m \in 1..Len(u) /\ (d < n => m < Len(u)) BY <1>1
  <2>2. u[m].at = from + d /\ u[m].at # 0 BY DEF SitsAt, n
  <2>3. \A h \in r.hits : u[m] \notin Range(h) BY DEF n
  <2>4. d < n => d + 1 \in 0..n /\ m + 1 = p + (d + 1) BY <1>1
  <2>5. d < n => \A h \in r.hits : u[m + 1] \notin Range(h) BY <2>4 DEF n
  <2> HIDE DEF m, out
  <2>6. PICK k \in 1..Len(out) :
            /\ out[k] = u[m]
            /\ m < Len(u) =>
                  /\ k + 1 \in 1..Len(out)
                  /\ \/ out[k + 1] = u[m + 1]
                     \/ \E h \in r.hits : h[1] = u[m + 1]
    <3> HIDE DEF r
    <3>1. \E k \in 1..Len(r.text) :
                  /\ r.text[k] = u[m]
                  /\ m < Len(u) =>
                        /\ k + 1 \in 1..Len(r.text)
                        /\ \/ r.text[k + 1] = u[m + 1]
                           \/ \E h \in r.hits : /\ h \in DOMAIN by
                                                /\ h[1] = u[m + 1]
                                                /\ r.text[k + 1] = by[h][1]
      BY <1>3, <2>1, <2>3, StaysNext DEF r
    <3> QED BY <3>1 DEF out
  <2>7. d < n => k + 1 \in 1..Len(out) /\ out[k + 1] = u[m + 1]
    BY <1>4, <2>1, <2>5, <2>6
  <2> QED BY <2>2, <2>4, <2>6, <2>7 DEF m
<1> HIDE DEF r, out
<1>6. PICK k \in 1..Len(out) : out[k] = u[p + 0]
  <2>1. 0 \in 0..n BY <1>1
  <2> QED BY <1>5, <2>1
<1> DEFINE T == {d \in 0..n : k + d \in 1..Len(out) /\ out[k + d] = u[p + d]}
<1>7. 0 \in T BY <1>1, <1>6
<1>8. ASSUME NEW d \in 1..n, d - 1 \in T PROVE d \in T
  <2> DEFINE c == d - 1
  <2>1. c \in 0..n /\ c < n /\ c + 1 = d /\ k + d = (k + c) + 1 BY <1>1
  <2>2. k + c \in 1..Len(out) /\ out[k + c] = u[p + c] BY <1>8
  <2> HIDE DEF c
  <2>3. PICK l \in 1..Len(out) : /\ out[l] = u[p + c]
                                 /\ l + 1 \in 1..Len(out)
                                 /\ out[l + 1] = u[p + (c + 1)]
    BY <1>5, <2>1
  <2>4. u[p + c].at # 0 BY <1>5, <2>1
  <2>5. Len(out) \in Nat BY <1>2
  <2>6. l = k + c BY <1>2, <2>2, <2>3, <2>4, <2>5, OneAt
  <2>7. k + d = l + 1 /\ c + 1 = d /\ d \in 0..n BY <1>1, <2>1, <2>6
  <2>8. k + d \in 1..Len(out) /\ out[k + d] = u[p + d] BY <2>3, <2>7
  <2> QED BY <2>7, <2>8
<1> HIDE DEF T
<1>9. \A d \in 0..n : d \in T BY <1>1, <1>7, <1>8, Up
<1>10. \A d \in 0..n : k + d \in 1..Len(out) /\ out[k + d].at = from + d
  BY <1>5, <1>9 DEF T
<1>11. SitsAt(from, to, out, k)
  <2>1. n \in 0..n /\ k + n = k + to - from BY <1>1 DEF n
  <2>2. k + to - from <= Len(out) BY <1>2, <1>10, <2>1
  <2> QED BY <1>10, <2>2 DEF SitsAt, n
<1> QED BY <1>11 DEF Sits, out, r

(* Hits that have none or all of a span leave it whole or nothing of it.   *)
LEMMA SitsOrGone ==
    ASSUME NEW P, NEW u \in Seq(P), NEW text, Len(text) \in Nat,
           Tidy(u, text), NEW by, NEW Q, Marks(by, Q),
           NEW from \in 1..Len(text), NEW to \in from..Len(text),
           Sits(from, to, u),
           \A h \in Replaced(u, by).hits :
                \/ Places(h) \cap (from..to) = {}
                \/ from..to \subseteq Places(h)
    PROVE  LET out == Replaced(u, by).text
           IN  Sits(from, to, out) \/ Gone(from, to, out)
<1> DEFINE r == Replaced(u, by)
<1>1. PICK p \in 1..Len(u) : SitsAt(from, to, u, p) BY DEF Sits
<1>2. CASE \E h \in r.hits : from..to \subseteq Places(h) BY <1>2, TakenGone
<1>3. CASE ~ \E h \in r.hits : from..to \subseteq Places(h)
  <2>1. ASSUME NEW d \in 0..(to - from), NEW h \in r.hits, u[p + d] \in Range(h)
        PROVE  FALSE
    <3>1. u[p + d].at = from + d /\ from + d \in from..to /\ from + d # 0
      BY <1>1 DEF SitsAt
    <3>2. from + d \in Places(h) BY <2>1, <3>1 DEF Places
    <3> QED BY <1>3, <3>1, <3>2
  <2> QED BY <1>1, <2>1, UntouchedSits
<1> QED BY <1>2, <1>3

(* If a span is looked for whole, and every hit that begins elsewhere has  *)
(* none or all of it, nothing of it is left.                               *)
LEMMA FoundGone ==
    ASSUME NEW P, NEW u \in Seq(P), NEW text, Len(text) \in Nat,
           Tidy(u, text), NEW by, NEW Q, Marks(by, Q),
           NEW from \in 1..Len(text), NEW to \in from..Len(text),
           NEW p \in 1..Len(u), SitsAt(from, to, u, p),
           SubSeq(u, p, p + to - from) \in DOMAIN by,
           \A h \in Replaced(u, by).hits : h[1].at \notin from..to =>
                \/ Places(h) \cap (from..to) = {}
                \/ from..to \subseteq Places(h)
    PROVE  Gone(from, to, Replaced(u, by).text)
<1> DEFINE q == p + to - from
<1>1. q \in p..Len(u) /\ Len(u) \in Nat BY DEF SitsAt
<1>2. PICK a \in 1..p : \E b \in p..Len(u) :
          /\ SubSeq(u, a, b) \in Replaced(u, by).hits
          /\ \A j \in a..Len(u) : SubSeq(u, a, j) \in DOMAIN by => j <= b
  BY <1>1, FindIsHit
<1>3. PICK b \in p..Len(u) :
          /\ SubSeq(u, a, b) \in Replaced(u, by).hits
          /\ \A j \in a..Len(u) : SubSeq(u, a, j) \in DOMAIN by => j <= b
  BY <1>2
<1> DEFINE h == SubSeq(u, a, b)
<1>4. a \in 1..Len(u) /\ b \in a..Len(u) BY <1>1
<1>5. Places(h) = {u[k].at : k \in a..b} \ {0} BY <1>4, PlacesOf
<1>6. h[1] = u[a]
  <2>1. \A k \in 1..(b - a + 1) : h[k] = u[a + k - 1] BY <1>4, PartSeq
  <2>2. 1 \in 1..(b - a + 1) /\ a + 1 - 1 = a BY <1>4
  <2> HIDE DEF h
  <2> QED BY <2>1, <2>2
<1>7. h \in Replaced(u, by).hits BY <1>3
<1> HIDE DEF h
<1>8. \A d \in 0..(to - from) : u[p + d].at = from + d BY DEF SitsAt
<1>9. from..to \subseteq Places(h)
  <2>1. CASE a = p
    <3>1. q <= b BY <1>1, <1>3, <2>1
    <3>2. ASSUME NEW x \in from..to PROVE x \in Places(h)
      <4>1. x - from \in 0..(to - from) /\ p + (x - from) \in a..b
        BY <1>4, <2>1, <3>1
      <4>2. u[p + (x - from)].at = x /\ x # 0 BY <1>8, <4>1, SMTT(30)
      <4> QED BY <1>5, <4>1, <4>2
    <3> QED BY <3>2
  <2>2. CASE a # p
    <3>1. u[p].at = from
      <4>1. 0 \in 0..(to - from) /\ p + 0 = p /\ from + 0 = from OBVIOUS
      <4> QED BY <1>8, <4>1
    <3>2. u[a].at = 0 \/ u[a].at < from
      <4>1. a < p BY <2>2
      <4> QED BY <1>4, <3>1, <4>1 DEF Tidy, Ordered
    <3>3. u[a].at \notin from..to BY <3>2
    <3>4. from \in Places(h) \cap (from..to)
      <4>1. p \in a..b /\ from # 0 /\ from \in from..to BY <1>4
      <4> QED BY <1>5, <3>1, <4>1
    <3> QED BY <1>6, <1>7, <3>3, <3>4
  <2> QED BY <2>1, <2>2
<1> QED BY <1>7, <1>9, TakenGone
-----------------------------------------------------------------------------
(* Placed passes are passes.                                               *)

Faces(P) == {x.piece : x \in P}

LEMMA PiecesOf ==
    ASSUME NEW P, NEW u \in Seq(P)
    PROVE  /\ Pieces(u) \in Seq(Faces(P)) /\ Len(Pieces(u)) = Len(u)
           /\ Len(u) \in Nat
           /\ \A k \in 1..Len(u) : Pieces(u)[k] = u[k].piece
<1>1. Len(u) \in Nat /\ DOMAIN u = 1..Len(u) OBVIOUS
<1>2. Pieces(u) = [k \in 1..Len(u) |-> u[k].piece] BY <1>1 DEF Pieces
<1>3. \A k \in 1..Len(u) : u[k] \in P BY ElementOfSeq
<1>4. \A k \in 1..Len(u) : u[k].piece \in Faces(P) BY <1>3 DEF Faces
<1> QED BY <1>1, <1>2, <1>4

LEMMA PiecesPart ==
    ASSUME NEW P, NEW u \in Seq(P), NEW i \in 1..Len(u), NEW j \in i..Len(u)
    PROVE  Pieces(SubSeq(u, i, j)) = SubSeq(Pieces(u), i, j)
<1> DEFINE s == SubSeq(u, i, j)
           v == Pieces(u)
           t == SubSeq(v, i, j)
           n == j - i + 1
<1>1. s \in Seq(P) /\ Len(s) = n /\ \A k \in 1..n : s[k] = u[i + k - 1]
  BY PartSeq
<1>2. /\ v \in Seq(Faces(P)) /\ Len(v) = Len(u)
      /\ \A k \in 1..Len(u) : v[k] = u[k].piece
  BY PiecesOf
<1>3. t \in Seq(Faces(P)) /\ Len(t) = n /\ \A k \in 1..n : t[k] = v[i + k - 1]
  <2> HIDE DEF v
  <2> QED BY <1>2, PartSeq
<1>4. \A k \in 1..n : i + k - 1 \in 1..Len(u) OBVIOUS
<1> HIDE DEF s, t, v
<1>5. /\ Pieces(s) \in Seq(Faces(P)) /\ Len(Pieces(s)) = n
      /\ \A k \in 1..n : Pieces(s)[k] = s[k].piece
  BY <1>1, PiecesOf
<1>6. \A k \in 1..n : Pieces(s)[k] = t[k]
  <2> HIDE DEF n
  <2> QED BY <1>1, <1>2, <1>3, <1>4, <1>5
<1> HIDE DEF n
<1>7. Pieces(s) = t BY <1>3, <1>5, <1>6, SeqEqual
<1> QED BY <1>7 DEF s, t, v

LEMMA PiecesConcat ==
    ASSUME NEW P, NEW a \in Seq(P), NEW b \in Seq(P)
    PROVE  Pieces(a \o b) = Pieces(a) \o Pieces(b)
<1> DEFINE s == a \o b
           m == Len(a)
           n == Len(b)
           t == Pieces(a) \o Pieces(b)
<1>1. /\ s \in Seq(P) /\ Len(s) = m + n /\ m \in Nat /\ n \in Nat
      /\ \A k \in 1..Len(s) : \/ k \in 1..m /\ s[k] = a[k]
                              \/ /\ k > m /\ k - m \in 1..n
                                 /\ s[k] = b[k - m]
  BY ConcatAt
<1>2. /\ Pieces(a) \in Seq(Faces(P)) /\ Len(Pieces(a)) = m
      /\ Pieces(b) \in Seq(Faces(P)) /\ Len(Pieces(b)) = n
      /\ \A k \in 1..m : Pieces(a)[k] = a[k].piece
      /\ \A k \in 1..n : Pieces(b)[k] = b[k].piece
  BY PiecesOf
<1>3. /\ t \in Seq(Faces(P)) /\ Len(t) = m + n
      /\ \A k \in 1..m : t[k] = Pieces(a)[k]
      /\ \A k \in 1..n : t[m + k] = Pieces(b)[k]
  <2> DEFINE F == Faces(P)
             p == Pieces(a)
             q == Pieces(b)
  <2>1. p \in Seq(F) /\ q \in Seq(F) /\ Len(p) = m /\ Len(q) = n BY <1>2
  <2> HIDE DEF m, n, p, q, F
  <2>2. p \o q \in Seq(F) /\ Len(p \o q) = Len(p) + Len(q)
    BY <2>1, ConcatAt
  <2>3. \A k \in 1..Len(p) : (p \o q)[k] = p[k] BY <2>1, ConcatAt
  <2>4. \A k \in 1..Len(q) : (p \o q)[Len(p) + k] = q[k] BY <2>1, ConcatAt
  <2> QED BY <2>1, <2>2, <2>3, <2>4 DEF p, q, F
<1> HIDE DEF s, t
<1>4. /\ Pieces(s) \in Seq(Faces(P)) /\ Len(Pieces(s)) = Len(s)
      /\ \A k \in 1..Len(s) : Pieces(s)[k] = s[k].piece
  BY <1>1, PiecesOf
<1> HIDE DEF m, n
<1>5. ASSUME NEW k \in 1..(m + n) PROVE Pieces(s)[k] = t[k]
  <2>1. CASE k \in 1..m /\ s[k] = a[k]
    BY <1>1, <1>2, <1>3, <1>4, <2>1
  <2>2. CASE k > m /\ k - m \in 1..n /\ s[k] = b[k - m]
    <3>1. k = m + (k - m) BY <1>1
    <3>2. t[k] = Pieces(b)[k - m] BY <1>3, <2>2, <3>1
    <3> QED BY <1>1, <1>2, <1>4, <2>2, <3>2
  <2> QED BY <1>1, <2>1, <2>2
<1>6. Pieces(s) = t BY <1>1, <1>3, <1>4, <1>5, SeqEqual
<1> QED BY <1>6 DEF s, t

(* Replacing what shows certain pieces by what shows others is replacing   *)
(* these pieces by those.                                                  *)
LEMMA ReplacedPieces ==
    ASSUME NEW P, NEW u \in Seq(P), NEW by, NEW Q, NEW plain,
           \A s \in DOMAIN by : /\ by[s] \in Seq(Q)
                                /\ Pieces(by[s]) = plain[Pieces(s)],
           \A a \in 1..Len(u) : \A b \in a..Len(u) :
                SubSeq(u, a, b) \in DOMAIN by
                    <=> Pieces(SubSeq(u, a, b)) \in DOMAIN plain
    PROVE  Pieces(Replaced(u, by).text) = Replaced(Pieces(u), plain).text
<1> DEFINE N == Len(u)
           v == Pieces(u)
           PQ == P \cup Q
<1>1. N \in Nat /\ v \in Seq(Faces(P)) /\ Len(v) = N
      /\ \A k \in 1..N : v[k] = u[k].piece
  BY PiecesOf
<1>2. PICK f : Runs(f, u, by) BY <1>1, ReplacedRuns
<1>3. PICK g : Runs(g, v, plain)
  <2> HIDE DEF v
  <2> QED BY <1>1, ReplacedRuns
<1>4. \A i \in 1..(N + 1) : f[i].text \in Seq(PQ) BY <1>2, RunsSeq
<1>5. ASSUME NEW i \in 1..N PROVE Ends(u, by, i) = Ends(v, plain, i)
  <2>1. \A j \in i..N : Pieces(SubSeq(u, i, j)) = SubSeq(v, i, j)
    BY PiecesPart
  <2> HIDE DEF v
  <2> QED BY <1>1, <2>1 DEF Ends
<1> DEFINE Good(i) == Pieces(f[i].text) = g[i].text
           D == {i \in 1..(N + 1) : Good(i)}
<1>6. Good(N + 1)
  <2>1. f[N + 1].text = <<>> BY <1>2 DEF Runs
  <2>2. g[N + 1].text = <<>>
    <3> HIDE DEF v
    <3> QED BY <1>1, <1>3 DEF Runs
  <2>3. Pieces(<<>>) = <<>> BY DEF Pieces
  <2> QED BY <2>1, <2>2, <2>3
<1>7. ASSUME NEW i \in 1..N, \A j \in (i + 1)..(N + 1) : Good(j)
      PROVE  Good(i)
  <2>0. \/ Stays(g, v, plain, i)
        \/ \E j \in i..N : Gives(g, v, plain, i, j)
    <3> HIDE DEF v
    <3> QED BY <1>1, <1>3 DEF Runs
  <2>1. CASE Stays(f, u, by, i)
    <3>1. Ends(v, plain, i) = {} BY <1>5, <2>1 DEF Stays
    <3>2. Stays(g, v, plain, i)
      <4> SUFFICES ASSUME NEW j \in i..N, Gives(g, v, plain, i, j) PROVE FALSE
        BY <2>0
      <4> HIDE DEF v
      <4>1. j \in Ends(v, plain, i) BY <1>1 DEF Gives, Ends
      <4> QED BY <3>1, <4>1
    <3> DEFINE w == f[i + 1].text
               a == <<u[i]>>
    <3>3. f[i].text = a \o w BY <2>1, OnePiece DEF Stays
    <3>4. g[i].text = <<v[i]>> \o g[i + 1].text
      <4>1. SubSeq(v, i, i) = <<v[i]>>
        <5> HIDE DEF v
        <5> QED BY <1>1, OnePiece
      <4> HIDE DEF v
      <4> QED BY <3>2, <4>1 DEF Stays
    <3>5. i + 1 \in 1..(N + 1) /\ i + 1 \in (i + 1)..(N + 1) BY <1>1
    <3>6. w \in Seq(PQ) /\ Pieces(w) = g[i + 1].text BY <1>4, <1>7, <3>5
    <3>7. a \in Seq(PQ) /\ Pieces(a) = <<v[i]>>
      <4>1. v[i] = u[i].piece BY <1>1
      <4> HIDE DEF v
      <4> QED BY <4>1 DEF Pieces
    <3> HIDE DEF a, w, PQ, v
    <3>8. Pieces(a \o w) = Pieces(a) \o Pieces(w) BY <3>6, <3>7, PiecesConcat
    <3> QED BY <3>3, <3>4, <3>6, <3>7, <3>8
  <2>2. ASSUME NEW j \in i..N, Gives(f, u, by, i, j) PROVE Good(i)
    <3>1. SubSeq(u, i, j) \in DOMAIN by /\ j = Max(Ends(u, by, i))
      BY <2>2 DEF Gives
    <3>2. j \in Ends(u, by, i) BY <3>1 DEF Ends
    <3>3. Gives(g, v, plain, i, j)
      <4>1. Ends(v, plain, i) # {} /\ j = Max(Ends(v, plain, i))
        BY <1>5, <3>1, <3>2
      <4> HIDE DEF v
      <4>2. ~Stays(g, v, plain, i) BY <4>1 DEF Stays
      <4>3. PICK l \in i..N : Gives(g, v, plain, i, l) BY <2>0, <4>2
      <4>4. l = j BY <4>1, <4>3 DEF Gives
      <4> QED BY <4>3, <4>4
    <3> DEFINE part == SubSeq(u, i, j)
               b == by[part]
               w == f[j + 1].text
    <3>4. f[i].text = b \o w BY <2>2 DEF Gives
    <3>5. g[i].text = plain[SubSeq(v, i, j)] \o g[j + 1].text
      BY <3>3 DEF Gives
    <3>6. Pieces(part) = SubSeq(v, i, j) BY PiecesPart
    <3>7. j + 1 \in 1..(N + 1) /\ j + 1 \in (i + 1)..(N + 1) BY <1>1
    <3>8. w \in Seq(PQ) /\ Pieces(w) = g[j + 1].text BY <1>4, <1>7, <3>7
    <3>9. b \in Seq(Q) /\ Pieces(b) = plain[Pieces(part)] BY <3>1
    <3> HIDE DEF b, w, v, part
    <3>10. b \in Seq(PQ) BY <3>9, SeqMonotonic
    <3> HIDE DEF PQ
    <3>11. Pieces(b \o w) = Pieces(b) \o Pieces(w)
      BY <3>8, <3>10, PiecesConcat
    <3> QED BY <3>4, <3>5, <3>6, <3>8, <3>9, <3>11
  <2> QED BY <1>2, <2>1, <2>2 DEF Runs
<1> HIDE DEF Good
<1>8. \A i \in 1..(N + 1) : i \in D
  <2>1. N + 1 \in D BY <1>1, <1>6
  <2>2. ASSUME NEW i \in 1..N, \A j \in (i + 1)..(N + 1) : j \in D
        PROVE  i \in D
    BY <1>1, <1>7, <2>2
  <2> HIDE DEF D, N
  <2> QED BY <1>1, <2>1, <2>2, Down
<1>9. Good(1) BY <1>1, <1>8
<1>10. Replaced(u, by) = f[1] BY <1>2 DEF Runs
<1>11. Replaced(v, plain) = g[1] BY <1>3 DEF Runs
<1> QED BY <1>9, <1>10, <1>11 DEF Good

Mark(e) == [k \in 1..2 |-> [piece |-> Placeholder(e)[k], at |-> 0]]

Pair(e) == {[piece |-> e, at |-> 0], [piece |-> Hash(e), at |-> 0]}

LEMMA MarkIs ==
    ASSUME NEW e, e.c \in DOMAIN Length, e.of # <<>>
    PROVE  /\ Mark(e) \in Seq(Pair(e)) /\ Mark(e) # <<>>
           /\ \A x \in Pair(e) : IsMark(x)
           /\ Pieces(Mark(e)) = Placeholder(e)
<1> DEFINE b == Placeholder(e)
           m == Mark(e)
<1>1. /\ b \in Seq({e, Hash(e)}) /\ Len(b) = 2 /\ b[1] = e /\ b[2] = Hash(e)
      /\ IsPlaceholderPiece(Hash(e)) /\ Hash(e).c \in {"digits", "hash"}
  BY PlaceholderPieces
<1>2. m = [k \in 1..2 |-> [piece |-> b[k], at |-> 0]] BY DEF Mark
<1> HIDE DEF b, m
<1>3. \A k \in 1..2 : k = 1 \/ k = 2 OBVIOUS
<1>4. \A k \in 1..2 : m[k] \in Pair(e) BY <1>1, <1>2, <1>3 DEF Pair
<1>5. m \in Seq(Pair(e)) /\ Len(m) = 2
  <2>1. 2 \in Nat OBVIOUS
  <2> QED BY <1>2, <1>4, <2>1
<1>6. m # <<>> BY <1>5
<1>7. ASSUME NEW x \in Pair(e) PROVE IsMark(x)
  <2>1. "sp" \notin DOMAIN Length BY DEF Length
  <2>2. IsPlaceholderPiece(e) /\ e.c # "sp" BY <2>1 DEF IsPlaceholderPiece
  <2>3. Hash(e).c # "sp" BY <1>1
  <2> QED BY <1>1, <2>2, <2>3 DEF Pair, IsMark
<1>8. Pieces(m) = b
  <2>1. /\ Pieces(m) \in Seq(Faces(Pair(e))) /\ Len(Pieces(m)) = 2
        /\ \A k \in 1..2 : Pieces(m)[k] = m[k].piece
    BY <1>5, PiecesOf
  <2>2. \A k \in 1..2 : Pieces(m)[k] = b[k] BY <1>2, <2>1
  <2> DEFINE S == Faces(Pair(e)) \cup {e, Hash(e)}
  <2>3. Pieces(m) \in Seq(S) /\ b \in Seq(S) BY <1>1, <2>1, SeqMonotonic
  <2> HIDE DEF S
  <2> QED BY <1>1, <2>1, <2>2, <2>3, SeqEqual
<1> QED BY <1>5, <1>6, <1>7, <1>8 DEF b, m

(* One placed pass: what it replaces, what it cuts, and what one reads.    *)
Step(state, after, by, Q, terms, n) ==
    /\ Marks(by, Q)
    /\ \A s \in DOMAIN by : Pieces(s) \in Seeks(Pieces(state.text), terms, n)
    /\ \A a \in 1..Len(state.text) : \A b \in a..Len(state.text) :
          LET s == SubSeq(state.text, a, b)
          IN  Pieces(s) \in Seeks(Pieces(state.text), terms, n) => s \in DOMAIN by
    /\ after.text = Replaced(state.text, by).text
    /\ after.cuts = state.cuts \cup
          {[rank |-> n, at |-> Places(h), head |-> h[1].at] :
              h \in Replaced(state.text, by).hits}
    /\ \A plain : plain.text = Pieces(state.text)
          => Pieces(after.text) = Passed(plain, terms, n).text

LEMMA PlacedPassIs ==
    ASSUME NEW P, NEW state, state.text \in Seq(P), NEW terms,
           Len(terms) \in Nat, NEW n \in 1..Passes(terms)
    PROVE  \E by, Q : Step(state, PlacedPass(state, terms, n), by, Q, terms, n)
<1> DEFINE text == state.text
           v == Pieces(text)
           sought == Sought(v, terms, n)
           parts(i) == {SubSeq(text, i, j) : j \in i..Len(text)}
           finds == {s \in UNION {parts(i) : i \in DOMAIN text} :
                        Pieces(s) \in sought.found}
           e(s) == Entry(sought.tag, Pieces(s))
           by == [s \in finds |-> Mark(e(s))]
           Q == UNION {Pair(e(s)) : s \in finds}
           after == PlacedPass(state, terms, n)
           r == Replaced(text, by)
<1>1. v \in Seq(Faces(P)) /\ Len(v) = Len(text) BY PiecesOf
<1>2. sought.tag \in DOMAIN Length /\ \A s \in sought.found : s # <<>>
  <2> HIDE DEF v
  <2> QED BY <1>1, SoughtIs
<1>3. after = [text |-> r.text,
               cuts |-> state.cuts \cup
                            {[rank |-> n, at |-> Places(h), head |-> h[1].at] :
                                h \in r.hits}]
  BY DEF PlacedPass, Mark
<1>4. after.text = r.text /\ after.cuts = state.cuts \cup
          {[rank |-> n, at |-> Places(h), head |-> h[1].at] : h \in r.hits}
  <2> HIDE DEF after, r
  <2> QED BY <1>3
<1>5. \A s \in finds : Pieces(s) \in sought.found OBVIOUS
<1>6. ASSUME NEW a \in 1..Len(text), NEW b \in a..Len(text),
             Pieces(SubSeq(text, a, b)) \in sought.found
      PROVE  SubSeq(text, a, b) \in finds
  <2>1. a \in DOMAIN text OBVIOUS
  <2>2. SubSeq(text, a, b) \in parts(a) OBVIOUS
  <2> HIDE DEF sought, parts
  <2> QED BY <1>6, <2>1, <2>2
<1> HIDE DEF finds, sought, after
<1>7. ASSUME NEW s \in finds
      PROVE  /\ Mark(e(s)) \in Seq(Pair(e(s))) /\ Mark(e(s)) # <<>>
             /\ \A x \in Pair(e(s)) : IsMark(x)
             /\ Pieces(Mark(e(s))) = Placeholder(e(s))
  <2>1. e(s).c = sought.tag /\ e(s).of = Pieces(s) BY DEF Entry
  <2>2. e(s).c \in DOMAIN Length /\ e(s).of # <<>> BY <1>2, <1>5, <2>1
  <2> HIDE DEF e
  <2> QED BY <2>2, MarkIs
<1>8. Marks(by, Q)
  <2>1. ASSUME NEW s \in finds PROVE Mark(e(s)) \in Seq(Q)
    <3>1. Pair(e(s)) \subseteq Q OBVIOUS
    <3> HIDE DEF Q, e
    <3> QED BY <1>7, <3>1, SeqMonotonic
  <2>2. \A x \in Q : IsMark(x)
    <3> HIDE DEF e
    <3> QED BY <1>7
  <2> HIDE DEF Q, e
  <2> QED BY <1>7, <2>1, <2>2 DEF Marks
<1>9. ASSUME NEW plain, plain.text = v
      PROVE  Pieces(after.text) = Passed(plain, terms, n).text
  <2> DEFINE to == [t \in sought.found |-> Placeholder(Entry(sought.tag, t))]
  <2>1. Passed(plain, terms, n).text = Replaced(v, to).text
    BY <1>9 DEF Passed, Pass, sought
  <2>2. \A s \in DOMAIN by : by[s] \in Seq(Q)
    <3> HIDE DEF by, Q
    <3> QED BY <1>8 DEF Marks
  <2>3. \A s \in DOMAIN by : Pieces(by[s]) = to[Pieces(s)]
    <3>1. ASSUME NEW s \in finds PROVE Pieces(by[s]) = to[Pieces(s)]
      <4>1. Pieces(by[s]) = Placeholder(e(s)) BY <1>7
      <4>2. Pieces(s) \in sought.found BY <1>5
      <4>3. to[Pieces(s)] = Placeholder(Entry(sought.tag, Pieces(s))) BY <4>2
      <4> QED BY <4>1, <4>3
    <3> HIDE DEF to
    <3> QED BY <3>1
  <2>4. DOMAIN by = finds /\ DOMAIN to = sought.found OBVIOUS
  <2> HIDE DEF to, by, Q
  <2>5. \A a \in 1..Len(text) : \A b \in a..Len(text) :
            SubSeq(text, a, b) \in DOMAIN by
                <=> Pieces(SubSeq(text, a, b)) \in DOMAIN to
    BY <1>5, <1>6, <2>4
  <2> HIDE DEF r
  <2>6. Pieces(Replaced(text, by).text) = Replaced(v, to).text
    BY <2>2, <2>3, <2>5, ReplacedPieces
  <2> QED BY <1>4, <2>1, <2>6 DEF r
<1>10. sought.found = Seeks(v, terms, n) BY DEF sought, Seeks
<1>11. \A s \in DOMAIN by : Pieces(s) \in Seeks(v, terms, n)
  BY <1>5, <1>10
<1>12. ASSUME NEW a \in 1..Len(text), NEW b \in a..Len(text),
              Pieces(SubSeq(text, a, b)) \in Seeks(v, terms, n)
       PROVE  SubSeq(text, a, b) \in DOMAIN by
  BY <1>6, <1>10, <1>12
<1> HIDE DEF by, Q
<1>13. Step(state, after, by, Q, terms, n)
  BY <1>4, <1>8, <1>9, <1>11, <1>12 DEF Step
<1> QED BY <1>13 DEF after

PlacedTo(f, text, terms, n) ==
    f = [k \in 0..n |-> IF k = 0 THEN [text |-> Placed(text), cuts |-> {}]
                                 ELSE PlacedPass(f[k - 1], terms, k)]

LEMMA PlacedExist ==
    ASSUME NEW text, NEW terms, NEW N \in Nat
    PROVE  \E f : PlacedTo(f, text, terms, N)
<1> DEFINE T == {n \in 0..N : \E f : PlacedTo(f, text, terms, n)}
<1>1. 0 \in T
  <2> DEFINE f == [k \in 0..0 |-> [text |-> Placed(text), cuts |-> {}]]
  <2>1. PlacedTo(f, text, terms, 0) BY DEF PlacedTo
  <2> QED BY <2>1
<1>2. ASSUME NEW n \in 1..N, n - 1 \in T PROVE n \in T
  <2>1. PICK f : PlacedTo(f, text, terms, n - 1) BY <1>2
  <2> DEFINE g == [k \in 0..n |->
                    IF k = n THEN PlacedPass(f[n - 1], terms, n) ELSE f[k]]
             Value(k) == IF k = 0 THEN [text |-> Placed(text), cuts |-> {}]
                                  ELSE PlacedPass(g[k - 1], terms, k)
  <2>2. ASSUME NEW k \in 0..n PROVE g[k] = Value(k)
    <3>1. CASE k = n
      <4>1. g[n - 1] = f[n - 1] /\ n # 0 OBVIOUS
      <4>2. g[n] = PlacedPass(f[n - 1], terms, n) OBVIOUS
      <4> HIDE DEF g
      <4> QED BY <3>1, <4>1, <4>2
    <3>2. CASE k # n
      <4>1. k \in 0..(n - 1) /\ g[k] = f[k] BY <3>2
      <4>2. k # 0 => g[k - 1] = f[k - 1] BY <3>2
      <4>3. f[k] = IF k = 0 THEN [text |-> Placed(text), cuts |-> {}]
                            ELSE PlacedPass(f[k - 1], terms, k)
        BY <2>1, <4>1 DEF PlacedTo
      <4> HIDE DEF g
      <4> QED BY <4>1, <4>2, <4>3
    <3> QED BY <3>1, <3>2
  <2>3. g = [k \in 0..n |-> Value(k)]
    <3>1. g = [k \in 0..n |-> g[k]] OBVIOUS
    <3> HIDE DEF g
    <3> QED BY <2>2, <3>1
  <2>4. PlacedTo(g, text, terms, n) BY <2>3 DEF PlacedTo
  <2> QED BY <2>4
<1> HIDE DEF T
<1>3. \A n \in 0..N : n \in T BY <1>1, <1>2, Up
<1> QED BY <1>3 DEF T

(* The states of the placed passes, one after the other.                   *)
Follows(f, text, terms) ==
    /\ f[0].text = Placed(text) /\ f[0].cuts = {}
    /\ \A n \in 1..Passes(terms) : f[n] = PlacedPass(f[n - 1], terms, n)
    /\ Cuts(text, terms) = f[Passes(terms)].cuts

LEMMA PlacesExist ==
    ASSUME NEW text, NEW terms, Len(terms) \in Nat
    PROVE  \E f : Follows(f, text, terms)
<1> DEFINE N == Passes(terms)
           f == CHOOSE f : PlacedTo(f, text, terms, N)
           raw == [text |-> Placed(text), cuts |-> {}]
<1>1. N \in Nat BY PassesNat
<1>2. PlacedTo(f, text, terms, N)
  <2> HIDE DEF N
  <2> QED BY <1>1, PlacedExist
<1>3. Cuts(text, terms) = f[N].cuts BY DEF Cuts, PlacedTo
<1> HIDE DEF f, N
<1>4. \A k \in 0..N : f[k] = IF k = 0 THEN raw ELSE PlacedPass(f[k - 1], terms, k)
  BY <1>2 DEF PlacedTo
<1>5. f[0] = raw
  <2>1. 0 \in 0..N BY <1>1
  <2> HIDE DEF raw
  <2> QED BY <1>4, <2>1
<1>6. f[0].text = Placed(text) /\ f[0].cuts = {} BY <1>5
<1>7. \A n \in 1..N : n \in 0..N /\ n # 0 BY <1>1
<1>8. \A n \in 1..N : f[n] = PlacedPass(f[n - 1], terms, n) BY <1>4, <1>7
<1> QED BY <1>3, <1>6, <1>8 DEF Follows, N
-----------------------------------------------------------------------------
(* What becomes of what a rule or a term names.                            *)

LEMMA PlacedTidy ==
    ASSUME NEW P, NEW text \in Seq(P)
    PROVE  /\ IsSeq(Placed(text)) /\ Tidy(Placed(text), text)
           /\ Len(Placed(text)) = Len(text) /\ Pieces(Placed(text)) = text
           /\ \A k \in 1..Len(text) : Placed(text)[k].at = k
<1> DEFINE N == Len(text)
           V == {[piece |-> x, at |-> k] : x \in P, k \in 1..N}
           u == Placed(text)
<1>1. N \in Nat /\ DOMAIN text = 1..N /\ \A k \in 1..N : text[k] \in P
  BY ElementOfSeq
<1>2. u = [k \in 1..N |-> [piece |-> text[k], at |-> k]] BY <1>1 DEF Placed
<1>3. \A k \in 1..N : u[k] \in V /\ u[k].at = k /\ u[k].piece = text[k]
  BY <1>1, <1>2
<1> HIDE DEF u, V
<1>4. u \in Seq(V) /\ Len(u) = N BY <1>1, <1>2, <1>3
<1>5. Tidy(u, text) BY <1>3, <1>4 DEF Tidy, IsPlace, Ordered
<1>6. Pieces(u) = text
  <2>1. /\ Pieces(u) \in Seq(Faces(V)) /\ Len(Pieces(u)) = N
        /\ \A k \in 1..N : Pieces(u)[k] = u[k].piece
    BY <1>4, PiecesOf
  <2> DEFINE S == Faces(V) \cup P
  <2>2. Pieces(u) \in Seq(S) /\ text \in Seq(S) BY <2>1, SeqMonotonic
  <2> HIDE DEF S
  <2> QED BY <1>3, <2>1, <2>2, SeqEqual
<1> QED BY <1>3, <1>4, <1>5, <1>6 DEF IsSeq, u

(* The placed passes are the passes, on tidy texts.                        *)
LEMMA FollowsTidy ==
    ASSUME NEW P, NEW text \in Seq(P), NEW terms, Len(terms) \in Nat,
           NEW f, Follows(f, text, terms), NEW g, Redacts(g, text, terms)
    PROVE  /\ \A n \in 0..Passes(terms) :
                 /\ IsSeq(f[n].text) /\ Tidy(f[n].text, text)
                 /\ Pieces(f[n].text) = g[n].text
           /\ \A n \in 1..Passes(terms) :
                 \E by, Q : Step(f[n - 1], f[n], by, Q, terms, n)
           /\ \A n \in 0..Passes(terms) : f[n].cuts \subseteq Cuts(text, terms)
<1> DEFINE N == Passes(terms)
           Good(n) == /\ IsSeq(f[n].text) /\ Tidy(f[n].text, text)
                      /\ Pieces(f[n].text) = g[n].text
           T == {n \in 0..N : Good(n)}
<1>1. N \in Nat /\ Len(text) \in Nat BY PassesNat
<1>2. Good(0)
  <2>1. f[0].text = Placed(text) BY DEF Follows
  <2>2. g[0].text = text BY DEF Redacts
  <2> QED BY <2>1, <2>2, PlacedTidy
<1>3. ASSUME NEW n \in 1..N, IsSeq(f[n - 1].text)
      PROVE  \E by, Q : Step(f[n - 1], f[n], by, Q, terms, n)
  <2> DEFINE s == f[n - 1]
  <2>1. PICK V : s.text \in Seq(V) BY <1>3 DEF IsSeq
  <2>2. f[n] = PlacedPass(s, terms, n) BY DEF Follows
  <2> HIDE DEF s
  <2>3. \E by, Q : Step(s, PlacedPass(s, terms, n), by, Q, terms, n)
    BY <2>1, PlacedPassIs
  <2> QED BY <2>2, <2>3 DEF s
<1>4. ASSUME NEW n \in 1..N, Good(n - 1) PROVE Good(n)
  <2> DEFINE s == f[n - 1]
             was == g[n - 1]
  <2>1. PICK by, Q : Step(s, f[n], by, Q, terms, n) BY <1>3, <1>4
  <2>2. PICK V : s.text \in Seq(V) BY <1>4 DEF IsSeq
  <2>3. g[n] = Passed(was, terms, n) BY DEF Redacts
  <2>4. Tidy(s.text, text) /\ was.text = Pieces(s.text) BY <1>4
  <2> HIDE DEF s, was
  <2>5. /\ Marks(by, Q) /\ f[n].text = Replaced(s.text, by).text
        /\ Pieces(f[n].text) = Passed(was, terms, n).text
    BY <2>1, <2>4 DEF Step
  <2> DEFINE r == Replaced(s.text, by)
  <2>6. r.text \in Seq(V \cup Q) /\ Tidied(r, s.text, text, by)
    BY <1>1, <2>2, <2>4, <2>5, ReplacedTidy
  <2> HIDE DEF r
  <2> QED BY <2>3, <2>5, <2>6 DEF IsSeq, Tidied, r
<1> HIDE DEF Good
<1>5. 0 \in T BY <1>1, <1>2
<1>6. ASSUME NEW n \in 1..N, n - 1 \in T PROVE n \in T BY <1>1, <1>4, <1>6
<1> HIDE DEF T, N
<1>7. \A n \in 0..N : n \in T BY <1>1, <1>5, <1>6, Up
<1> USE DEF T
<1>8. ASSUME NEW n \in 1..N
      PROVE  \E by, Q : Step(f[n - 1], f[n], by, Q, terms, n)
  <2>1. n - 1 \in 0..N BY <1>1
  <2> QED BY <1>3, <1>7, <2>1 DEF Good
<1> DEFINE U == {n \in 0..N : \A k \in 0..n : f[k].cuts \subseteq f[n].cuts}
<1>9. 0 \in U BY <1>1
<1>10. ASSUME NEW n \in 1..N, n - 1 \in U PROVE n \in U
  <2>1. f[n - 1].cuts \subseteq f[n].cuts BY <1>8 DEF Step
  <2>2. \A k \in 0..n : k = n \/ k \in 0..(n - 1) BY <1>1
  <2>3. \A k \in 0..n : f[k].cuts \subseteq f[n].cuts BY <1>10, <2>1, <2>2
  <2> QED BY <1>1, <2>3
<1> HIDE DEF U
<1>11. \A n \in 0..N : n \in U BY <1>1, <1>9, <1>10, Up
<1>12. \A k \in 0..N : f[k].cuts \subseteq f[N].cuts
  <2>1. N \in U BY <1>1, <1>11
  <2> QED BY <2>1 DEF U
<1>13. f[N].cuts = Cuts(text, terms) BY DEF Follows, N
<1> QED BY <1>7, <1>8, <1>12, <1>13 DEF Good, N

(* Cuts know their pass. *)
LEMMA CutRanks ==
    ASSUME NEW P, NEW text \in Seq(P), NEW terms, Len(terms) \in Nat,
           NEW f, Follows(f, text, terms)
    PROVE  \A cut \in Cuts(text, terms) : cut.rank \in Nat
<1> DEFINE N == Passes(terms)
           T == {n \in 0..N : \A cut \in f[n].cuts : cut.rank \in Nat}
<1>1. N \in Nat BY PassesNat
<1>2. PICK g : Redacts(g, text, terms) BY RedactsExist
<1>3. \A n \in 1..N : \E by, Q : Step(f[n - 1], f[n], by, Q, terms, n)
  BY <1>2, FollowsTidy
<1>4. 0 \in T
  <2>1. f[0].cuts = {} BY DEF Follows
  <2> QED BY <1>1, <2>1
<1>5. ASSUME NEW n \in 1..N, n - 1 \in T PROVE n \in T
  <2>1. PICK by, Q : Step(f[n - 1], f[n], by, Q, terms, n) BY <1>3
  <2>2. f[n].cuts = f[n - 1].cuts \cup
          {[rank |-> n, at |-> Places(h), head |-> h[1].at] :
              h \in Replaced(f[n - 1].text, by).hits}
    BY <2>1 DEF Step
  <2>3. \A cut \in f[n - 1].cuts : cut.rank \in Nat BY <1>5
  <2>4. \A cut \in f[n].cuts : cut \in f[n - 1].cuts \/ cut.rank = n BY <2>2
  <2> QED BY <1>1, <2>3, <2>4
<1> HIDE DEF T, N
<1>6. \A n \in 0..N : n \in T BY <1>1, <1>4, <1>5, Up
<1>7. N \in T BY <1>1, <1>6
<1>8. f[N].cuts = Cuts(text, terms) BY DEF Follows, N
<1> QED BY <1>7, <1>8 DEF T

(* What pass n is to hide. *)
Wants(terms, n, s) ==
    IF n <= Len(Rules) THEN Matches(Rules[n], s)
    ELSE terms[n - Len(Rules)] = s /\ ~Blank(s)

LEMMA NamedSought ==
    ASSUME NEW P, NEW v \in Seq(P), NEW terms, NEW n \in Nat,
           NEW i \in 1..Len(v), NEW j \in i..Len(v),
           Wants(terms, n, SubSeq(v, i, j))
    PROVE  SubSeq(v, i, j) \in Seeks(v, terms, n)
<1> DEFINE s == SubSeq(v, i, j)
<1>1. CASE n <= Len(Rules)
  <2>1. i \in DOMAIN v OBVIOUS
  <2>2. Matches(Rules[n], s) BY <1>1 DEF Wants
  <2>3. s \in UNION {{SubSeq(v, k, l) : l \in k..Len(v)} : k \in DOMAIN v}
    BY <2>1, SMTT(30)
  <2> HIDE DEF s
  <2>4. s \in Found(Rules[n], v) BY <2>2, <2>3 DEF Found
  <2> QED BY <1>1, <2>4 DEF Seeks, Sought, s
<1>2. CASE ~(n <= Len(Rules))
  <2> HIDE DEF s
  <2>1. terms[n - Len(Rules)] = s /\ ~Blank(s) BY <1>2 DEF Wants, s
  <2>2. s \in {t \in {terms[n - Len(Rules)]} : ~Blank(t)} BY <2>1
  <2> QED BY <1>2, <2>2 DEF Seeks, Sought, s
<1> QED BY <1>1, <1>2

(* A span that stands in a tidy text reads as it did.                      *)
LEMMA SpanPieces ==
    ASSUME NEW P, NEW text \in Seq(P), NEW V, NEW u \in Seq(V), Tidy(u, text),
           NEW from \in 1..Len(text), NEW to \in from..Len(text),
           NEW p \in 1..Len(u), SitsAt(from, to, u, p)
    PROVE  /\ p + to - from \in p..Len(u)
           /\ Pieces(SubSeq(u, p, p + to - from)) = SubSeq(text, from, to)
<1> DEFINE q == p + to - from
           n == to - from + 1
           s == SubSeq(u, p, q)
           t == SubSeq(text, from, to)
<1>1. /\ Len(text) \in Nat /\ Len(u) \in Nat /\ q \in p..Len(u) /\ n \in Nat
      /\ q - p + 1 = n
  BY DEF SitsAt
<1>2. s \in Seq(V) /\ Len(s) = n /\ \A k \in 1..n : s[k] = u[p + k - 1]
  BY <1>1, PartSeq
<1>3. t \in Seq(P) /\ Len(t) = n /\ \A k \in 1..n : t[k] = text[from + k - 1]
  BY <1>1, PartSeq
<1> HIDE DEF s, t
<1>4. /\ Pieces(s) \in Seq(Faces(V)) /\ Len(Pieces(s)) = n
      /\ \A k \in 1..n : Pieces(s)[k] = s[k].piece
  BY <1>2, PiecesOf
<1>5. ASSUME NEW k \in 1..n PROVE Pieces(s)[k] = t[k]
  <2> DEFINE d == k - 1
  <2>1. d \in 0..(to - from) /\ p + d \in 1..Len(u) /\ from + d # 0
        /\ p + k - 1 = p + d /\ from + k - 1 = from + d
    BY <1>1
  <2> HIDE DEF d, n
  <2>2. u[p + d].at = from + d BY <2>1 DEF SitsAt
  <2>3. u[p + d].piece = text[from + d]
    BY <2>1, <2>2 DEF Tidy, IsMark, IsPlace
  <2> QED BY <1>2, <1>3, <1>4, <2>1, <2>3
<1> DEFINE S == Faces(V) \cup P
<1>6. Pieces(s) \in Seq(S) /\ t \in Seq(S) BY <1>3, <1>4, SeqMonotonic
<1> HIDE DEF S, n
<1>7. Pieces(s) = t BY <1>3, <1>4, <1>5, <1>6, SeqEqual
<1> QED BY <1>1, <1>7 DEF s, t

(* No pass before n has put a placeholder for a part of a span and not for *)
(* all of it, nor has pass n from outside.                                 *)
Spared(from, to, n, cuts) ==
    \A cut \in cuts :
        cut.rank < n \/ (cut.rank = n /\ cut.head \notin from..to) =>
            cut.at \cap (from..to) = {} \/ from..to \subseteq cut.at

(* What is gone does not come back. *)
LEMMA StepGone ==
    ASSUME NEW P, NEW text \in Seq(P), NEW terms, Len(terms) \in Nat,
           NEW f, Follows(f, text, terms),
           NEW from \in 1..Len(text), NEW to \in from..Len(text),
           NEW k \in 1..Passes(terms), Gone(from, to, f[k - 1].text)
    PROVE  Gone(from, to, f[k].text)
<1> DEFINE N == Passes(terms)
           u == f[k - 1].text
<1>1. N \in Nat /\ Len(text) \in Nat BY PassesNat
<1>2. PICK g : Redacts(g, text, terms) BY RedactsExist
<1>3. /\ \A m \in 0..N : IsSeq(f[m].text) /\ Tidy(f[m].text, text)
      /\ \A m \in 1..N : \E by, Q : Step(f[m - 1], f[m], by, Q, terms, m)
  BY <1>2, FollowsTidy
<1>4. k - 1 \in 0..N BY <1>1
<1>5. PICK V : u \in Seq(V) BY <1>3, <1>4 DEF IsSeq
<1>6. PICK by, Q : Step(f[k - 1], f[k], by, Q, terms, k) BY <1>3
<1>7. Marks(by, Q) /\ f[k].text = Replaced(u, by).text BY <1>6 DEF Step
<1>8. Tidy(u, text) BY <1>3, <1>4
<1> HIDE DEF u
<1>9. Gone(from, to, u) BY DEF u
<1> QED BY <1>1, <1>5, <1>7, <1>8, <1>9, StaysGone

(* Nor does it after all the passes that are left.                         *)
LEMMA GoneOn ==
    ASSUME NEW P, NEW text \in Seq(P), NEW terms, Len(terms) \in Nat,
           NEW f, Follows(f, text, terms),
           NEW from \in 1..Len(text), NEW to \in from..Len(text),
           NEW n \in 1..Passes(terms), Gone(from, to, f[n].text)
    PROVE  Gone(from, to, f[Passes(terms)].text)
<1> DEFINE N == Passes(terms)
<1>1. N \in Nat /\ Len(text) \in Nat BY PassesNat
<1> HIDE DEF N
<1>2. n \in 1..N BY DEF N
<1>3. ASSUME NEW k \in 1..N, Gone(from, to, f[k - 1].text)
      PROVE  Gone(from, to, f[k].text)
  BY <1>3, StepGone DEF N
<1> DEFINE Late == {k \in 0..N : n <= k => Gone(from, to, f[k].text)}
<1>4. 0 \in Late BY <1>1, <1>2
<1>5. ASSUME NEW k \in 1..N, k - 1 \in Late PROVE k \in Late
  <2>1. CASE k = n BY <1>1, <2>1
  <2>2. CASE n < k
    <3>1. n <= k - 1 BY <1>2, <2>2
    <3> QED BY <1>1, <1>3, <1>5, <3>1
  <2>3. CASE k < n
    <3>1. ~(n <= k) BY <1>2, <2>3
    <3> QED BY <1>1, <3>1
  <2> QED BY <1>2, <2>1, <2>2, <2>3
<1> HIDE DEF Late
<1>6. \A k \in 0..N : k \in Late BY <1>1, <1>4, <1>5, Up
<1>7. N \in Late /\ n <= N BY <1>1, <1>2, <1>6
<1> QED BY <1>7 DEF Late, N

(* Of what a pass is to hide nothing is left, if it was spared.            *)
LEMMA NamedGone ==
    ASSUME NEW P, NEW text \in Seq(P), NEW terms, Len(terms) \in Nat,
           NEW f, Follows(f, text, terms),
           NEW from \in 1..Len(text), NEW to \in from..Len(text),
           NEW n \in 1..Passes(terms),
           Wants(terms, n, SubSeq(text, from, to)),
           Spared(from, to, n, Cuts(text, terms))
    PROVE  Gone(from, to, f[Passes(terms)].text)
<1> DEFINE N == Passes(terms)
           cuts == Cuts(text, terms)
<1>1. N \in Nat /\ Len(text) \in Nat BY PassesNat
<1>2. PICK g : Redacts(g, text, terms) BY RedactsExist
<1>3. /\ \A k \in 0..N : IsSeq(f[k].text) /\ Tidy(f[k].text, text)
      /\ \A k \in 1..N : \E by, Q : Step(f[k - 1], f[k], by, Q, terms, k)
      /\ \A k \in 0..N : f[k].cuts \subseteq cuts
  BY <1>2, FollowsTidy
<1> HIDE DEF N, cuts
<1>4. n \in 1..N BY DEF N
<1>5. ASSUME NEW k \in 1..N, Gone(from, to, f[k - 1].text)
      PROVE  Gone(from, to, f[k].text)
  BY <1>5, StepGone DEF N
<1>6. ASSUME NEW k \in 1..N, k <= n, Sits(from, to, f[k - 1].text)
      PROVE  /\ Sits(from, to, f[k].text) \/ Gone(from, to, f[k].text)
             /\ k = n => Gone(from, to, f[k].text)
  <2> DEFINE u == f[k - 1].text
  <2>1. k - 1 \in 0..N /\ k \in 0..N BY <1>1
  <2>2. PICK V : u \in Seq(V) BY <1>3, <2>1 DEF IsSeq
  <2>3. PICK by, Q : Step(f[k - 1], f[k], by, Q, terms, k) BY <1>3
  <2>4. /\ Marks(by, Q) /\ f[k].text = Replaced(u, by).text
        /\ \A h \in Replaced(u, by).hits :
              [rank |-> k, at |-> Places(h), head |-> h[1].at] \in f[k].cuts
    BY <2>3 DEF Step
  <2>5. Tidy(u, text) /\ Sits(from, to, u) BY <1>3, <1>6, <2>1
  <2>6. ASSUME NEW h \in Replaced(u, by).hits,
               k < n \/ h[1].at \notin from..to
        PROVE  \/ Places(h) \cap (from..to) = {}
               \/ from..to \subseteq Places(h)
    <3> DEFINE cut == [rank |-> k, at |-> Places(h), head |-> h[1].at]
    <3>1. cut \in cuts BY <1>3, <2>1, <2>4
    <3>2. cut.rank = k /\ cut.at = Places(h) /\ cut.head = h[1].at OBVIOUS
    <3>3. k < n \/ k = n BY <1>6, <1>4
    <3> HIDE DEF cut
    <3> QED BY <2>6, <3>1, <3>2, <3>3 DEF Spared, cuts
  <2>7. PICK p \in 1..Len(u) : SitsAt(from, to, u, p) BY <2>5 DEF Sits
  <2>8. CASE k < n
    <3> HIDE DEF u
    <3>1. Sits(from, to, Replaced(u, by).text) \/ Gone(from, to, Replaced(u, by).text)
      BY <1>1, <2>2, <2>4, <2>5, <2>6, <2>8, SitsOrGone
    <3>2. k # n BY <1>4, <2>8
    <3> QED BY <2>4, <3>1, <3>2
  <2>9. CASE k = n
    <3> DEFINE v == Pieces(u)
               q == p + to - from
    <3> HIDE DEF u
    <3>1. q \in p..Len(u) /\ Pieces(SubSeq(u, p, q)) = SubSeq(text, from, to)
      BY <2>2, <2>5, <2>7, SpanPieces
    <3> HIDE DEF q
    <3>2. v \in Seq(Faces(V)) /\ Len(v) = Len(u) BY <2>2, PiecesOf
    <3>3. SubSeq(v, p, q) = SubSeq(text, from, to)
      BY <2>2, <3>1, PiecesPart
    <3>4. SubSeq(v, p, q) \in Seeks(v, terms, n)
      <4> HIDE DEF v
      <4>1. p \in 1..Len(v) /\ q \in p..Len(v) /\ n \in Nat
        BY <1>1, <1>4, <3>1, <3>2
      <4>2. Wants(terms, n, SubSeq(v, p, q)) BY <3>3
      <4> QED BY <3>2, <4>1, <4>2, NamedSought
    <3>5. Pieces(SubSeq(u, p, q)) \in Seeks(v, terms, k)
      BY <2>9, <3>1, <3>3, <3>4
    <3>6. SubSeq(u, p, q) \in DOMAIN by BY <2>3, <3>1, <3>5 DEF Step, u
    <3>7. Gone(from, to, Replaced(u, by).text)
      <4>1. \A h \in Replaced(u, by).hits : h[1].at \notin from..to =>
                \/ Places(h) \cap (from..to) = {}
                \/ from..to \subseteq Places(h)
        BY <2>6
      <4> QED BY <1>1, <2>2, <2>4, <2>5, <2>7, <3>6, <4>1, FoundGone DEF q
    <3> QED BY <2>4, <3>7
  <2>10. k < n \/ k = n BY <1>4, <1>6
  <2> QED BY <2>8, <2>9, <2>10
<1>7. Gone(from, to, f[n].text)
  <2>1. Sits(from, to, f[0].text)
    <3> DEFINE u == Placed(text)
    <3>1. Len(u) = Len(text) /\ \A k \in 1..Len(text) : u[k].at = k
      BY PlacedTidy
    <3> HIDE DEF u
    <3>2. \A d \in 0..(to - from) : from + d \in 1..Len(text) OBVIOUS
    <3>3. from + to - from <= Len(u) /\ from \in 1..Len(u) BY <3>1
    <3>4. SitsAt(from, to, u, from) BY <3>1, <3>2, <3>3 DEF SitsAt
    <3>5. f[0].text = u BY DEF Follows, u
    <3> QED BY <3>3, <3>4, <3>5 DEF Sits
  <2> DEFINE T == {k \in 0..N : k <= n - 1 =>
                Sits(from, to, f[k].text) \/ Gone(from, to, f[k].text)}
  <2>2. 0 \in T BY <1>1, <2>1
  <2>3. ASSUME NEW k \in 1..N, k - 1 \in T PROVE k \in T
    <3>1. k - 1 <= n - 1 /\ k <= n => 
             Sits(from, to, f[k].text) \/ Gone(from, to, f[k].text)
      BY <1>5, <1>6, <2>3
    <3> QED BY <1>1, <1>4, <3>1
  <2>4. \A k \in 0..N : k \in T
    <3> HIDE DEF T
    <3> QED BY <1>1, <2>2, <2>3, Up
  <2>5. n - 1 \in 0..N /\ n - 1 <= n - 1 /\ n \in 1..N BY <1>1, <1>4
  <2>6. Sits(from, to, f[n - 1].text) \/ Gone(from, to, f[n - 1].text)
    BY <2>4, <2>5
  <2>7. n <= n BY <1>4
  <2> QED BY <1>5, <1>6, <2>5, <2>6, <2>7
<1> QED BY <1>4, <1>7, GoneOn DEF N
-----------------------------------------------------------------------------
(* URLs, which no earlier placeholder spares.                              *)

OtherRules == {"PRIVATE_KEY", "API_KEY", "EMAIL", "PHONE", "ETH_ADDR"}

LEMMA UrlIs ==
    ASSUME NEW P, NEW s \in Seq(P)
    PROVE  Matches("URL", s) <=>
              /\ Len(s) >= 2 /\ s[1].c = "http"
              /\ \A k \in 1..Len(s) : s[k].c # "sp"
<1> DEFINE c == [k \in DOMAIN s |-> s[k].c]
<1>1. Len(s) \in Nat /\ DOMAIN s = 1..Len(s) OBVIOUS
<1>2. \A k \in 1..Len(s) : c[k] = s[k].c BY <1>1
<1>3. Matches("URL", s) <=>
        (Len(s) >= 2 /\ c[1] = "http" /\ \A k \in 1..Len(s) : c[k] # "sp")
  BY DEF Matches
<1>4. Len(s) >= 2 => 1 \in 1..Len(s) BY <1>1
<1> HIDE DEF c
<1> QED BY <1>2, <1>3, <1>4

(* The matches of the other rules hold no scheme.                          *)
LEMMA NoHttp ==
    ASSUME NEW P, NEW s \in Seq(P), NEW tag \in OtherRules, Matches(tag, s)
    PROVE  \A k \in 1..Len(s) : s[k].c # "http"
<1> DEFINE c == [k \in DOMAIN s |-> s[k].c]
           n == Len(s)
<1>1. n \in Nat /\ DOMAIN s = 1..n /\ DOMAIN c = 1..n OBVIOUS
<1>2. \A k \in 1..n : c[k] = s[k].c BY <1>1
<1>3. CASE tag = "PRIVATE_KEY"
  <2>1. c = <<"pem">> BY <1>3 DEF Matches
  <2> HIDE DEF c
  <2>2. c \in Seq({"pem"}) BY <2>1
  <2>3. DOMAIN c = 1..Len(c) /\ \A k \in 1..Len(c) : c[k] \in {"pem"}
    BY <2>2, ElementOfSeq
  <2>4. \A k \in 1..n : c[k] \in {"pem"} BY <1>1, <2>3
  <2> QED BY <1>2, <2>4
<1>4. CASE tag = "API_KEY"
  <2>1. c = <<"sk">> BY <1>4 DEF Matches
  <2> HIDE DEF c
  <2>2. c \in Seq({"sk"}) BY <2>1
  <2>3. DOMAIN c = 1..Len(c) /\ \A k \in 1..Len(c) : c[k] \in {"sk"}
    BY <2>2, ElementOfSeq
  <2>4. \A k \in 1..n : c[k] \in {"sk"} BY <1>1, <2>3
  <2> QED BY <1>2, <2>4
<1>5. CASE tag = "EMAIL"
  <2>1. /\ n >= 3 /\ c[n - 1] = "@" /\ c[n] = "host"
        /\ \A k \in 1..(n - 2) : c[k] \in NameClasses
    BY <1>5 DEF Matches
  <2> HIDE DEF c, n
  <2>2. "http" \notin NameClasses BY DEF NameClasses
  <2>3. \A k \in 1..n : k = n \/ k = n - 1 \/ k \in 1..(n - 2) BY <1>1
  <2>4. ASSUME NEW k \in 1..n PROVE c[k] # "http"
    BY <2>1, <2>2, <2>3
  <2> QED BY <1>2, <2>4 DEF n
<1>6. CASE tag = "PHONE"
  <2>1. \A k \in 1..n : c[k] \in {"digits", "sp"} BY <1>6 DEF Matches
  <2> HIDE DEF c
  <2> QED BY <1>2, <2>1
<1>7. CASE tag = "ETH_ADDR"
  <2>1. n = 3 /\ c[1] = "0x" /\ {c[2], c[3]} \subseteq {"hexes", "digits"}
    BY <1>7 DEF Matches
  <2> HIDE DEF c
  <2>2. \A k \in 1..3 : k = 1 \/ k = 2 \/ k = 3 OBVIOUS
  <2> QED BY <1>2, <2>1, <2>2
<1> QED BY <1>3, <1>4, <1>5, <1>6, <1>7 DEF OtherRules

(* They come first. *)
LEMMA RulesUrl ==
    ASSUME NEW n \in 1..Len(Rules), Rules[n] = "URL"
    PROVE  \A k \in 1..(n - 1) : Rules[k] \in OtherRules
<1> DEFINE always == <<"PRIVATE_KEY", "API_KEY", "EMAIL", "PHONE", "ETH_ADDR">>
           more == IF Mode = "strict" THEN <<"URL">> ELSE <<>>
           S == OtherRules \cup {"URL"}
<1>1. always \in Seq(S) /\ Len(always) = 5 BY DEF OtherRules
<1>2. \A k \in 1..5 : always[k] \in OtherRules
  <2>1. \A k \in 1..5 : k = 1 \/ k = 2 \/ k = 3 \/ k = 4 \/ k = 5 OBVIOUS
  <2> QED BY <2>1 DEF OtherRules
<1>3. more \in Seq(S) /\ Len(more) <= 1
  <2>1. CASE Mode = "strict"
    <3>1. more = <<"URL">> BY <2>1
    <3> HIDE DEF more
    <3> QED BY <3>1
  <2>2. CASE Mode # "strict"
    <3>1. more = <<>> BY <2>2
    <3> HIDE DEF more
    <3> QED BY <3>1
  <2> QED BY <2>1, <2>2
<1>4. Rules = always \o more BY DEF Rules, always, more
<1> HIDE DEF always, more, S
<1>5. /\ Len(always \o more) = Len(always) + Len(more)
      /\ \A k \in 1..Len(always) : (always \o more)[k] = always[k]
      /\ Len(more) \in Nat
  <2>1. always \in Seq(S) /\ more \in Seq(S) BY <1>1, <1>3
  <2>2. Len(always \o more) = Len(always) + Len(more) BY <2>1, ConcatAt
  <2>3. \A k \in 1..Len(always) : (always \o more)[k] = always[k]
    BY <2>1, ConcatAt
  <2>4. Len(more) \in Nat BY <2>1
  <2> QED BY <2>2, <2>3, <2>4
<1>6. Len(Rules) <= 6 /\ \A k \in 1..5 : Rules[k] \in OtherRules
  BY <1>1, <1>2, <1>3, <1>4, <1>5
<1>7. "URL" \notin OtherRules BY DEF OtherRules
<1>8. n = 6 BY <1>6, <1>7, RulesTags
<1>9. \A k \in 1..(n - 1) : k \in 1..5 BY <1>8
<1> QED BY <1>6, <1>9

(* A URL in a text of placed pieces.                                       *)
UrlAt(u, a, b) ==
    a < b /\ u[a].piece.c = "http" /\ \A k \in a..b : u[k].piece.c # "sp"

LEMMA UrlPart ==
    ASSUME NEW V, NEW u \in Seq(V), NEW a \in 1..Len(u), NEW b \in a..Len(u)
    PROVE  Matches("URL", Pieces(SubSeq(u, a, b))) <=> UrlAt(u, a, b)
<1> DEFINE s == SubSeq(u, a, b)
           n == b - a + 1
           v == Pieces(s)
<1>1. s \in Seq(V) /\ Len(s) = n /\ \A k \in 1..n : s[k] = u[a + k - 1]
  BY PartSeq
<1> HIDE DEF s
<1>2. v \in Seq(Faces(V)) /\ Len(v) = n /\ \A k \in 1..n : v[k] = s[k].piece
  BY <1>1, PiecesOf
<1> HIDE DEF v
<1>3. Matches("URL", v) <=>
        (n >= 2 /\ v[1].c = "http" /\ \A k \in 1..n : v[k].c # "sp")
  BY <1>2, UrlIs
<1>4. \A k \in 1..n : v[k] = u[a + k - 1].piece BY <1>1, <1>2
<1>5. n \in Nat /\ 1 \in 1..n /\ a + 1 - 1 = a /\ (n >= 2 <=> a < b) OBVIOUS
<1>6. \A k \in a..b : k - a + 1 \in 1..n /\ a + (k - a + 1) - 1 = k OBVIOUS
<1>7. \A k \in 1..n : a + k - 1 \in a..b OBVIOUS
<1> HIDE DEF n
<1>8. v[1].c = u[a].piece.c BY <1>4, <1>5
<1>9. (\A k \in 1..n : v[k].c # "sp") <=> (\A k \in a..b : u[k].piece.c # "sp")
  <2>1. ASSUME \A k \in 1..n : v[k].c # "sp", NEW k \in a..b
        PROVE  u[k].piece.c # "sp"
    <3>1. v[k - a + 1] = u[k].piece BY <1>4, <1>6
    <3> QED BY <1>6, <2>1, <3>1
  <2>2. ASSUME \A k \in a..b : u[k].piece.c # "sp", NEW k \in 1..n
        PROVE  v[k].c # "sp"
    BY <1>4, <1>7, <2>2
  <2> QED BY <2>1, <2>2
<1> QED BY <1>3, <1>5, <1>8, <1>9 DEF UrlAt, v, s

(* The scheme of a URL stands, and something else than a blank after it.   *)
Leads(from, u) ==
    \E p \in 1..Len(u) : /\ u[p].at = from /\ p + 1 \in 1..Len(u)
                         /\ u[p + 1].piece.c # "sp"

(* Nothing that gives way holds a scheme. *)
SparesHttp(u, by) ==
    \A a \in 1..Len(u) : \A b \in a..Len(u) :
        SubSeq(u, a, b) \in DOMAIN by => \A k \in a..b : u[k].piece.c # "http"

LEMMA LeadsStays ==
    ASSUME NEW P, NEW u \in Seq(P), NEW text, Len(text) \in Nat,
           Tidy(u, text), NEW by, NEW Q, Marks(by, Q),
           NEW from \in 1..Len(text), text[from].c = "http", Leads(from, u),
           SparesHttp(u, by)
    PROVE  Leads(from, Replaced(u, by).text)
<1> DEFINE r == Replaced(u, by)
           out == r.text
<1>1. PICK p \in 1..Len(u) : /\ u[p].at = from /\ p + 1 \in 1..Len(u)
                             /\ u[p + 1].piece.c # "sp"
  BY DEF Leads
<1>2. Tidied(r, u, text, by) BY ReplacedTidy
<1>3. u[p].piece.c = "http"
  <2>1. u[p].at # 0 BY <1>1
  <2> QED BY <1>1, <2>1 DEF Tidy, IsMark, IsPlace
<1> HIDE DEF r
<1>4. ASSUME NEW h \in r.hits PROVE u[p] \notin Range(h)
  <2>1. h \in DOMAIN by BY <1>2 DEF Tidied
  <2>2. PICK a \in 1..Len(u) : \E b \in a..Len(u) : h = SubSeq(u, a, b)
    BY <1>2 DEF Tidied
  <2>3. PICK b \in a..Len(u) : h = SubSeq(u, a, b) BY <2>2
  <2>4. Range(SubSeq(u, a, b)) = {u[k] : k \in a..b} BY PartSeq
  <2>5. \A k \in a..b : u[k].piece.c # "http" BY <2>1, <2>3 DEF SparesHttp
  <2> QED BY <1>3, <2>3, <2>4, <2>5
<1>5. \A s \in DOMAIN by : by[s] \in Seq(Q) /\ by[s] # <<>> BY DEF Marks
<1>6. PICK k \in 1..Len(out) :
            /\ out[k] = u[p]
            /\ p < Len(u) =>
                  /\ k + 1 \in 1..Len(out)
                  /\ \/ out[k + 1] = u[p + 1]
                     \/ \E h \in r.hits : /\ h \in DOMAIN by
                                          /\ h[1] = u[p + 1]
                                          /\ out[k + 1] = by[h][1]
  <2>1. \A h \in Replaced(u, by).hits : u[p] \notin Range(h) BY <1>4 DEF r
  <2>2. \E k \in 1..Len(r.text) :
                  /\ r.text[k] = u[p]
                  /\ p < Len(u) =>
                        /\ k + 1 \in 1..Len(r.text)
                        /\ \/ r.text[k + 1] = u[p + 1]
                           \/ \E h \in r.hits : /\ h \in DOMAIN by
                                                /\ h[1] = u[p + 1]
                                                /\ r.text[k + 1] = by[h][1]
    BY <1>5, <2>1, StaysNext DEF r
  <2> QED BY <2>2
<1>7. p < Len(u) BY <1>1
<1>8. out[k + 1].piece.c # "sp"
  <2>1. CASE out[k + 1] = u[p + 1] BY <1>1, <2>1
  <2>2. ASSUME NEW h \in r.hits, h \in DOMAIN by, out[k + 1] = by[h][1]
        PROVE  out[k + 1].piece.c # "sp"
    <3> DEFINE b == by[h]
    <3>1. b \in Seq(Q) /\ b # <<>> BY <1>5, <2>2
    <3> HIDE DEF b
    <3>2. 1 \in 1..Len(b) BY <3>1, EmptySeq
    <3>3. b[1] \in Q BY <3>1, <3>2, ElementOfSeq
    <3>4. IsMark(b[1]) BY <3>3 DEF Marks
    <3> QED BY <2>2, <3>4 DEF IsMark, b
  <2> QED BY <1>6, <1>7, <2>1, <2>2
<1> HIDE DEF out
<1>9. out[k].at = from /\ k + 1 \in 1..Len(out) BY <1>1, <1>6, <1>7
<1>10. Leads(from, out) BY <1>8, <1>9 DEF Leads
<1> QED BY <1>10 DEF out, r

(* The pass that looks for URLs leaves nothing of one that still begins    *)
(* as it did, whatever stands in the rest of it.                           *)
LEMMA UrlTaken ==
    ASSUME NEW P, NEW u \in Seq(P), NEW text, Len(text) \in Nat,
           Tidy(u, text), NEW by, NEW Q, Marks(by, Q),
           NEW from \in 1..Len(text), NEW to \in from..Len(text),
           text[from].c = "http", \A k \in from..to : text[k].c # "sp",
           Leads(from, u),
           \A a \in 1..Len(u) : \A b \in a..Len(u) :
                SubSeq(u, a, b) \in DOMAIN by <=> UrlAt(u, a, b)
    PROVE  Gone(from, to, Replaced(u, by).text)
<1> DEFINE r == Replaced(u, by)
           out == r.text
           N == Len(u)
<1>0. N \in Nat OBVIOUS
<1>1. PICK p \in 1..N : /\ u[p].at = from /\ p + 1 \in 1..N
                        /\ u[p + 1].piece.c # "sp"
  BY DEF Leads
<1>2. Tidied(r, u, text, by) BY ReplacedTidy
<1>3. u[p].piece.c = "http"
  <2>1. u[p].at # 0 BY <1>1
  <2> QED BY <1>1, <2>1 DEF Tidy, IsMark, IsPlace
<1>4. \A k \in 1..N : u[k].at = 0 => u[k].piece.c # "sp"
  BY DEF Tidy, IsMark, IsPlace
<1>5. \A k \in 1..N : u[k].at \in from..to => u[k].piece.c # "sp"
  BY DEF Tidy, IsMark, IsPlace
<1>6. \A k \in 1..N : u[k].at \in Nat BY DEF Tidy, IsMark, IsPlace
<1>7. \A i, j \in 1..N :
        i < j /\ u[i].at # 0 /\ u[j].at # 0 => u[i].at < u[j].at
  BY DEF Tidy, Ordered
<1> HIDE DEF r, out
<1>8. ASSUME NEW k \in 1..Len(out), out[k].at \in from..to PROVE FALSE
  <2>1. out[k].at # 0 BY <1>8
  <2>2. PICK m \in 1..N : out[k] = u[m] /\ \A h \in r.hits : u[m] \notin Range(h)
    BY <1>2, <2>1 DEF Tidied, out
  <2>3. u[m].at \in from..to /\ u[m].at # 0 BY <1>8, <2>1, <2>2
  <2>4. p <= m BY <1>1, <1>7, <2>3
  <2>5. ASSUME NEW i \in 1..N, p < i, i <= m PROVE u[i].piece.c # "sp"
    <3>1. CASE u[i].at = 0 BY <1>4, <3>1
    <3>2. CASE u[i].at # 0
      <4>1. u[p].at < u[i].at BY <1>1, <1>7, <2>5, <3>2
      <4>2. i = m \/ u[i].at < u[m].at BY <1>7, <2>3, <2>5, <3>2, SMTT(30)
      <4>3. u[i].at \in from..to BY <1>1, <1>6, <2>3, <4>1, <4>2
      <4> QED BY <1>5, <4>3
    <3> QED BY <3>1, <3>2
  <2> DEFINE q == IF m > p THEN m ELSE p + 1
  <2>6. q \in p..N /\ p < q /\ (q = m \/ q = p + 1) BY <1>1, <2>4
  <2>7. ASSUME NEW i \in p..q PROVE u[i].piece.c # "sp"
    <3>1. i = p \/ i = p + 1 \/ (i \in 1..N /\ p < i /\ i <= m)
      BY <2>6
    <3> QED BY <1>1, <1>3, <2>5, <3>1
  <2> HIDE DEF q
  <2>8. UrlAt(u, p, q) BY <1>3, <2>6, <2>7 DEF UrlAt
  <2>9. SubSeq(u, p, q) \in DOMAIN by BY <2>6, <2>8
  <2>10. PICK a \in 1..p : \E b \in p..N :
              /\ SubSeq(u, a, b) \in r.hits /\ SubSeq(u, a, b) \in DOMAIN by
              /\ \A j \in a..N : SubSeq(u, a, j) \in DOMAIN by => j <= b
    <3>1. \E a \in 1..p : \E b \in p..Len(u) :
              /\ SubSeq(u, a, b) \in Replaced(u, by).hits
              /\ SubSeq(u, a, b) \in DOMAIN by
              /\ \A j \in a..Len(u) : SubSeq(u, a, j) \in DOMAIN by => j <= b
      BY <1>0, <2>6, <2>9, FindIsHit
    <3> QED BY <3>1 DEF r
  <2>11. PICK b \in p..N :
              /\ SubSeq(u, a, b) \in r.hits /\ SubSeq(u, a, b) \in DOMAIN by
              /\ \A j \in a..N : SubSeq(u, a, j) \in DOMAIN by => j <= b
    BY <2>10
  <2>12. a \in 1..N /\ b \in a..N /\ m \in a..N BY <1>0, <2>4
  <2>13. UrlAt(u, a, b) BY <2>11, <2>12
  <2>14. CASE m <= b
    <3>1. Range(SubSeq(u, a, b)) = {u[i] : i \in a..b} BY <2>12, PartSeq
    <3>2. m \in a..b BY <2>12, <2>14
    <3> QED BY <2>2, <2>11, <3>1, <3>2
  <2>15. CASE b < m
    <3>1. ASSUME NEW i \in a..m PROVE u[i].piece.c # "sp"
      <4>1. i \in a..b \/ (i \in 1..N /\ p < i /\ i <= m)
        BY <2>12
      <4> QED BY <2>5, <2>13, <4>1 DEF UrlAt
    <3>2. a < m BY <2>12, <2>15
    <3>3. UrlAt(u, a, m) BY <2>13, <3>1, <3>2 DEF UrlAt
    <3>4. SubSeq(u, a, m) \in DOMAIN by BY <2>12, <3>3
    <3>5. m <= b BY <2>11, <2>12, <3>4
    <3> QED BY <2>12, <2>15, <3>5
  <2> QED BY <2>12, <2>14, <2>15
<1> QED BY <1>8 DEF Gone, out, r

(* Of a URL nothing is left, whatever was put into it before.              *)
LEMMA UrlGone ==
    ASSUME NEW P, NEW text \in Seq(P), NEW terms, Len(terms) \in Nat,
           NEW f, Follows(f, text, terms),
           NEW from \in 1..Len(text), NEW to \in from..Len(text),
           NEW n \in 1..Len(Rules), Rules[n] = "URL",
           Matches("URL", SubSeq(text, from, to))
    PROVE  Gone(from, to, f[Passes(terms)].text)
<1> DEFINE N == Passes(terms)
<1>1. N \in Nat /\ Len(text) \in Nat /\ Len(Rules) \in Nat /\ Len(Rules) <= N
  BY PassesNat, RulesTags
<1>2. PICK g : Redacts(g, text, terms) BY RedactsExist
<1>3. /\ \A k \in 0..N : IsSeq(f[k].text) /\ Tidy(f[k].text, text)
      /\ \A k \in 1..N : \E by, Q : Step(f[k - 1], f[k], by, Q, terms, k)
  BY <1>2, FollowsTidy
<1> HIDE DEF N
<1>4. /\ from < to /\ text[from].c = "http"
      /\ \A k \in from..to : text[k].c # "sp"
  <2> DEFINE s == SubSeq(text, from, to)
             m == to - from + 1
  <2>1. s \in Seq(P) /\ Len(s) = m /\ \A k \in 1..m : s[k] = text[from + k - 1]
    BY PartSeq
  <2> HIDE DEF s
  <2>2. m >= 2 /\ s[1].c = "http" /\ \A k \in 1..m : s[k].c # "sp"
    BY <2>1, UrlIs DEF s
  <2>3. 1 \in 1..m /\ from + 1 - 1 = from BY <2>2
  <2>4. \A k \in from..to : k - from + 1 \in 1..m /\ from + (k - from + 1) - 1 = k
    OBVIOUS
  <2>5. from < to BY <2>2
  <2> HIDE DEF m
  <2>6. text[from].c = "http" BY <2>1, <2>2, <2>3
  <2>7. ASSUME NEW k \in from..to PROVE text[k].c # "sp"
    <3>1. s[k - from + 1] = text[k] BY <2>1, <2>4
    <3> QED BY <2>2, <2>4, <3>1
  <2> QED BY <2>5, <2>6, <2>7
<1>5. n \in 1..N /\ \A k \in 1..n : k \in 1..N /\ k - 1 \in 0..N /\ k <= Len(Rules)
  BY <1>1
<1>6. ASSUME NEW k \in 1..n, Leads(from, f[k - 1].text)
      PROVE  /\ k < n => Leads(from, f[k].text)
             /\ k = n => Gone(from, to, f[k].text)
  <2> DEFINE u == f[k - 1].text
  <2>1. PICK V : u \in Seq(V) BY <1>3, <1>5 DEF IsSeq
  <2>2. PICK by, Q : Step(f[k - 1], f[k], by, Q, terms, k) BY <1>3, <1>5
  <2>3. /\ Marks(by, Q) /\ f[k].text = Replaced(u, by).text
        /\ \A s \in DOMAIN by : Pieces(s) \in Seeks(Pieces(u), terms, k)
        /\ \A a \in 1..Len(u) : \A b \in a..Len(u) :
              LET s == SubSeq(u, a, b)
              IN  Pieces(s) \in Seeks(Pieces(u), terms, k) => s \in DOMAIN by
    BY <2>2 DEF Step
  <2>4. Tidy(u, text) BY <1>3, <1>5
  <2>5. Leads(from, u) BY <1>6
  <2> HIDE DEF u
  <2> DEFINE v == Pieces(u)
  <2>6. v \in Seq(Faces(V)) /\ Len(v) = Len(u) BY <2>1, PiecesOf
  <2>7. ASSUME NEW a \in 1..Len(u), NEW b \in a..Len(u)
        PROVE  SubSeq(u, a, b) \in DOMAIN by
                    <=> Matches(Rules[k], Pieces(SubSeq(u, a, b)))
    <3> DEFINE s == SubSeq(u, a, b)
    <3>1. Pieces(s) = SubSeq(v, a, b) BY <2>1, PiecesPart
    <3>2. ASSUME s \in DOMAIN by PROVE Matches(Rules[k], Pieces(s))
      <4>1. Pieces(s) \in Seeks(v, terms, k) BY <2>3, <3>2
      <4>2. Seeks(v, terms, k) = Found(Rules[k], v)
        BY <1>5 DEF Seeks, Sought
      <4> HIDE DEF s, v
      <4> QED BY <4>1, <4>2 DEF Found
    <3>3. ASSUME Matches(Rules[k], Pieces(s)) PROVE s \in DOMAIN by
      <4> HIDE DEF v
      <4>1. Wants(terms, k, SubSeq(v, a, b)) BY <1>5, <3>1, <3>3 DEF Wants
      <4>2. a \in 1..Len(v) /\ b \in a..Len(v) /\ k \in Nat BY <2>6
      <4>3. SubSeq(v, a, b) \in Seeks(v, terms, k)
        BY <2>6, <4>1, <4>2, NamedSought
      <4>4. Pieces(s) \in Seeks(v, terms, k) BY <3>1, <4>3
      <4> QED BY <2>3, <4>4 DEF v
    <3> QED BY <3>2, <3>3
  <2>8. CASE k < n
    <3>1. Rules[k] \in OtherRules
      <4>1. k \in 1..(n - 1) BY <2>8
      <4> QED BY <4>1, RulesUrl
    <3>2. ASSUME NEW a \in 1..Len(u), NEW b \in a..Len(u),
                 SubSeq(u, a, b) \in DOMAIN by, NEW i \in a..b
          PROVE  u[i].piece.c # "http"
      <4> DEFINE s == SubSeq(u, a, b)
                 w == Pieces(s)
      <4>1. /\ s \in Seq(V) /\ Len(s) = b - a + 1
            /\ \A j \in 1..(b - a + 1) : s[j] = u[a + j - 1]
        BY <2>1, PartSeq
      <4>2. Matches(Rules[k], w) BY <2>7, <3>2
      <4> HIDE DEF s
      <4>3. /\ w \in Seq(Faces(V)) /\ Len(w) = Len(s)
            /\ \A j \in 1..Len(s) : w[j] = s[j].piece
        BY <4>1, PiecesOf
      <4> HIDE DEF w
      <4>4. \A j \in 1..Len(w) : w[j].c # "http"
        BY <3>1, <4>2, <4>3, NoHttp
      <4>5. i - a + 1 \in 1..(b - a + 1) /\ a + (i - a + 1) - 1 = i OBVIOUS
      <4>6. w[i - a + 1] = u[i].piece BY <4>1, <4>3, <4>5
      <4>7. i - a + 1 \in 1..Len(w) BY <4>1, <4>3, <4>5
      <4> QED BY <4>4, <4>6, <4>7
    <3>3. SparesHttp(u, by) BY <3>2 DEF SparesHttp
    <3>4. Leads(from, Replaced(u, by).text)
      BY <1>1, <1>4, <2>1, <2>3, <2>4, <2>5, <3>3, LeadsStays
    <3> QED BY <2>3, <2>8, <3>4
  <2>9. CASE k = n
    <3>1. \A a \in 1..Len(u) : \A b \in a..Len(u) :
                SubSeq(u, a, b) \in DOMAIN by <=> UrlAt(u, a, b)
      BY <2>1, <2>7, <2>9, UrlPart
    <3>2. Gone(from, to, Replaced(u, by).text)
      BY <1>1, <1>4, <2>1, <2>3, <2>4, <2>5, <3>1, UrlTaken
    <3> QED BY <2>3, <2>9, <3>2
  <2> QED BY <2>8, <2>9
<1>7. Leads(from, f[0].text)
  <2> DEFINE u == Placed(text)
  <2>1. /\ IsSeq(u) /\ Len(u) = Len(text) /\ Pieces(u) = text
        /\ \A k \in 1..Len(text) : u[k].at = k
    BY PlacedTidy
  <2> HIDE DEF u
  <2>2. PICK V : u \in Seq(V) BY <2>1 DEF IsSeq
  <2>3. from + 1 \in 1..Len(u) /\ from + 1 \in from..to BY <1>1, <1>4, <2>1
  <2>4. u[from + 1].piece = text[from + 1] BY <2>1, <2>2, <2>3, PiecesOf
  <2>5. u[from + 1].piece.c # "sp" BY <1>4, <2>3, <2>4
  <2>6. Leads(from, u) BY <2>1, <2>3, <2>5 DEF Leads
  <2> QED BY <2>6 DEF Follows, u
<1> DEFINE T == {k \in 0..n : k < n => Leads(from, f[k].text)}
<1>8. 0 \in T BY <1>7
<1>9. ASSUME NEW k \in 1..n, k - 1 \in T PROVE k \in T
  <2>1. Leads(from, f[k - 1].text) BY <1>9
  <2> QED BY <1>6, <2>1
<1>10. \A k \in 0..n : k \in T
  <2> HIDE DEF T
  <2>1. n \in Nat BY <1>1
  <2> QED BY <1>8, <1>9, <2>1, Up
<1>11. Leads(from, f[n - 1].text)
  <2>1. n - 1 \in 0..n /\ n - 1 < n BY <1>1
  <2> QED BY <1>10, <2>1
<1>12. Gone(from, to, f[n].text)
  <2>1. n \in 1..n BY <1>1
  <2> QED BY <1>6, <1>11, <2>1
<1> QED BY <1>5, <1>12, GoneOn DEF N

(* What a person reads in a redacted text is a piece of the text, from a   *)
(* place that is not gone.                                                 *)
LEMMA ReadFrom ==
    ASSUME NEW P, NEW text \in Seq(P), NEW terms, Len(terms) \in Nat,
           Mode # "none", NEW f, Follows(f, text, terms),
           NEW x \in Range(Redact(text, terms)), ~IsPlaceholderPiece(x)
    PROVE  \E k \in 1..Len(text) :
              /\ x = text[k]
              /\ \A from, to : Gone(from, to, f[Passes(terms)].text)
                                    => k \notin from..to
<1> DEFINE N == Passes(terms)
           u == f[N].text
<1>1. N \in Nat BY PassesNat
<1>2. PICK g : Redacts(g, text, terms) BY RedactsExist
<1>3. N \in 0..N BY <1>1
<1>4. IsSeq(u) /\ Tidy(u, text) /\ Pieces(u) = g[N].text
  BY <1>2, <1>3, FollowsTidy
<1>5. Pieces(u) = Redact(text, terms) BY <1>2, <1>4 DEF Redacts, Redact
<1> HIDE DEF u
<1>6. PICK V : u \in Seq(V) BY <1>4 DEF IsSeq
<1> DEFINE v == Pieces(u)
<1>7. /\ v \in Seq(Faces(V)) /\ Len(v) = Len(u)
      /\ \A i \in 1..Len(u) : v[i] = u[i].piece
  BY <1>6, PiecesOf
<1>8. x \in Range(v) BY <1>5
<1> HIDE DEF v
<1>9. PICK i \in 1..Len(v) : x = v[i] BY <1>7, <1>8, RangeEquality
<1>10. i \in 1..Len(u) /\ x = u[i].piece BY <1>7, <1>9
<1>11. IsPlace(u[i], text) BY <1>4, <1>10 DEF Tidy, IsMark
<1> DEFINE k == u[i].at
<1>12. k \in 1..Len(text) /\ x = text[k] BY <1>10, <1>11 DEF IsPlace
<1>13. ASSUME NEW from, NEW to, Gone(from, to, u) PROVE k \notin from..to
  BY <1>10, <1>13 DEF Gone
<1> QED BY <1>12, <1>13 DEF u
=============================================================================
