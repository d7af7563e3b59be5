-------------------------- MODULE PdfAnnot_proofs --------------------------
(***************************************************************************)
(* Proofs about PdfAnnot, for any number of annotations and openings.      *)
(* First what the operators of Epdfinfo make of a document, then what      *)
(* stays true of the document, of the entries the client holds, and of     *)
(* the list and the file.                                                  *)
(***************************************************************************)
EXTENDS PdfAnnot, SequenceTheorems, FiniteSetTheorems, SeqLemmas, TLAPS

-----------------------------------------------------------------------------
(***************************************************************************)
(* Sequences without repetition.                                           *)
(***************************************************************************)

LEMMA InSet == ASSUME NEW S, NEW s \in Seq(S), NEW e
               PROVE  /\ e \in ToSet(s) <=> \E i \in 1..Len(s) : s[i] = e
                      /\ ToSet(s) \subseteq S
                      /\ DOMAIN s = 1..Len(s)
                      /\ Len(s) \in Nat
BY LenProperties DEF ToSet

\* Reading a page puts each annotation before the last.
LEMMA Reversed ==
    ASSUME NEW S, NEW s \in Seq(S)
    PROVE  /\ Reverse(s) \in Seq(S) /\ Len(Reverse(s)) = Len(s)
           /\ ToSet(Reverse(s)) = ToSet(s)
           /\ IsInjective(s) => IsInjective(Reverse(s))
<1> DEFINE r == Reverse(s)
<1>1. Len(s) \in Nat /\ \A i \in 1..Len(s) : s[i] \in S
  BY LenProperties, ElementOfSeq
<1>2. r = [i \in 1..Len(s) |-> s[Len(s) - i + 1]]
  BY DEF Reverse
<1> HIDE DEF r
<1>3. \A i \in 1..Len(s) : Len(s) - i + 1 \in 1..Len(s) /\ r[i] = s[Len(s) - i + 1]
  BY <1>1, <1>2
<1>4. r \in Seq(S) /\ Len(r) = Len(s)
  BY <1>1, <1>2, <1>3, IsASeq
<1>5. ToSet(r) \subseteq ToSet(s)
  BY <1>1, <1>3, <1>4, InSet
<1>6. ASSUME NEW e \in ToSet(s) PROVE e \in ToSet(r)
  <2>1. PICK i \in 1..Len(s) : s[i] = e
    BY InSet
  <2>2. Len(s) - i + 1 \in 1..Len(s) /\ Len(s) - (Len(s) - i + 1) + 1 = i
    BY <1>1
  <2>3. r[Len(s) - i + 1] = e
    BY <1>3, <2>1, <2>2
  <2> QED
    BY <1>4, <2>2, <2>3, InSet
<1>7. ASSUME IsInjective(s) PROVE IsInjective(r)
  <2> SUFFICES ASSUME NEW i \in 1..Len(s), NEW j \in 1..Len(s), r[i] = r[j]
               PROVE  i = j
    BY <1>4, InSet DEF IsInjective
  <2>1. \A a, b \in 1..Len(s) : s[a] = s[b] => a = b
    BY <1>7, InSet DEF IsInjective
  <2>2. Len(s) - i + 1 = Len(s) - j + 1
    BY <1>3, <2>1
  <2> QED
    BY <1>1, <2>2
<1> QED
  BY <1>4, <1>5, <1>6, <1>7 DEF r

\* Putting an element at either end.
LEMMA AtTheEnd ==
    ASSUME NEW S, NEW s \in Seq(S), NEW e \in S
    PROVE  /\ Append(s, e) \in Seq(S) /\ Len(Append(s, e)) = Len(s) + 1
           /\ ToSet(Append(s, e)) = ToSet(s) \cup {e}
           /\ IsInjective(s) /\ e \notin ToSet(s) => IsInjective(Append(s, e))
<1> DEFINE r == Append(s, e)
<1>1. /\ Len(s) \in Nat /\ r \in Seq(S) /\ Len(r) = Len(s) + 1
      /\ \A i \in 1..Len(s) : r[i] = s[i]
      /\ r[Len(s) + 1] = e
  BY AppendProperties, LenProperties
<1> HIDE DEF r
<1>2. ToSet(r) = ToSet(s) \cup {e}
  <2>1. \A x : x \in ToSet(r) <=> \E i \in 1..Len(s) + 1 : r[i] = x
    BY <1>1, InSet
  <2>2. \A x : x \in ToSet(s) <=> \E i \in 1..Len(s) : s[i] = x
    BY InSet
  <2>3. \A i \in 1..Len(s) + 1 : i \in 1..Len(s) \/ i = Len(s) + 1
    BY <1>1
  <2>4. 1..Len(s) \subseteq 1..Len(s) + 1 /\ Len(s) + 1 \in 1..Len(s) + 1
    BY <1>1
  <2> QED
    BY <1>1, <2>1, <2>2, <2>3, <2>4
<1>3. ASSUME IsInjective(s), e \notin ToSet(s) PROVE IsInjective(r)
  <2>1. \A i \in 1..Len(s) : s[i] # e
    BY <1>3, InSet
  <2>2. \A i, j \in 1..Len(s) : s[i] = s[j] => i = j
    BY <1>3, InSet DEF IsInjective
  <2>3. DOMAIN r = 1..Len(s) + 1
    BY <1>1, InSet
  <2>4. \A i \in 1..Len(s) + 1 : i \in 1..Len(s) \/ i = Len(s) + 1
    BY <1>1
  <2> QED
    BY <1>1, <2>1, <2>2, <2>3, <2>4 DEF IsInjective
<1> QED
  BY <1>1, <1>2, <1>3 DEF r

LEMMA AtTheFront ==
    ASSUME NEW S, NEW s \in Seq(S), NEW e \in S
    PROVE  /\ <<e>> \o s \in Seq(S) /\ Len(<<e>> \o s) = Len(s) + 1
           /\ ToSet(<<e>> \o s) = ToSet(s) \cup {e}
           /\ IsInjective(s) /\ e \notin ToSet(s) => IsInjective(<<e>> \o s)
<1> DEFINE r == <<e>> \o s
<1>1. <<e>> \in Seq(S) /\ Len(<<e>>) = 1 /\ <<e>>[1] = e
  OBVIOUS
<1>2. /\ Len(s) \in Nat /\ r \in Seq(S) /\ Len(r) = Len(s) + 1
      /\ r[1] = e
      /\ \A i \in 1..Len(s) : r[i + 1] = s[i]
  <2>1. /\ r \in Seq(S) /\ Len(r) = 1 + Len(s)
        /\ \A i \in 1..(1 + Len(s)) : r[i] = IF i <= 1 THEN <<e>>[i] ELSE s[i - 1]
    BY <1>1, ConcatProperties
  <2>2. Len(s) \in Nat
    BY LenProperties
  <2> HIDE DEF r
  <2> QED
    BY <1>1, <2>1, <2>2
<1> HIDE DEF r
<1>3. \A i \in 1..Len(s) + 1 : i = 1 \/ \E j \in 1..Len(s) : i = j + 1
  <2>1. \A i \in 1..Len(s) + 1 : i = 1 \/ (i - 1 \in 1..Len(s) /\ i = (i - 1) + 1)
    BY <1>2
  <2> QED
    BY <2>1
<1>4. 1 \in 1..Len(s) + 1 /\ \A j \in 1..Len(s) : j + 1 \in 1..Len(s) + 1
  BY <1>2
<1>5. ToSet(r) = ToSet(s) \cup {e}
  <2>1. \A x : x \in ToSet(r) <=> \E i \in 1..Len(s) + 1 : r[i] = x
    BY <1>2, InSet
  <2>2. \A x : x \in ToSet(s) <=> \E i \in 1..Len(s) : s[i] = x
    BY InSet
  <2> QED
    BY <1>2, <1>3, <1>4, <2>1, <2>2
<1>6. ASSUME IsInjective(s), e \notin ToSet(s) PROVE IsInjective(r)
  <2>1. \A i \in 1..Len(s) : s[i] # e
    BY <1>6, InSet
  <2>2. \A i, j \in 1..Len(s) : s[i] = s[j] => i = j
    BY <1>6, InSet DEF IsInjective
  <2>3. DOMAIN r = 1..Len(s) + 1
    BY <1>2, InSet
  <2> QED
    BY <1>2, <1>3, <2>1, <2>2, <2>3 DEF IsInjective
<1> QED
  BY <1>2, <1>5, <1>6 DEF r

\* Taking the only occurrence of an element out.
LEMMA TakenOut ==
    ASSUME NEW S, NEW s \in Seq(S), IsInjective(s), NEW e, e \in ToSet(s)
    PROVE  /\ RemoveFirst(s, e) \in Seq(S)
           /\ Len(RemoveFirst(s, e)) = Len(s) - 1
           /\ ToSet(RemoveFirst(s, e)) = ToSet(s) \ {e}
           /\ IsInjective(RemoveFirst(s, e))
           /\ s[Len(s)] = e => \A i \in 1..Len(s) - 1 : RemoveFirst(s, e)[i] = s[i]
<1> DEFINE r == RemoveFirst(s, e)
<1>1. PICK k \in 1..Len(s) : s[k] = e
  BY InSet
<1>2. Len(s) \in Nat /\ DOMAIN s = 1..Len(s)
  BY InSet
<1>3. \A i, j \in 1..Len(s) : s[i] = s[j] => i = j
  BY <1>2 DEF IsInjective
<1>4. r = SubSeq(s, 1, k - 1) \o SubSeq(s, k + 1, Len(s))
  <2>1. {i \in 1..Len(s) : s[i] = e} = {k}
    BY <1>1, <1>3
  <2>2. Min({k}) = k
    BY <1>1 DEF Min
  <2>3. SelectInSeq(s, LAMBDA v : v = e) = k
    BY <2>1, <2>2 DEF SelectInSeq
  <2>4. r = RemoveAt(s, k)
    BY <1>1, <2>3 DEF RemoveFirst
  <2> QED
    BY <2>4 DEF RemoveAt
<1> HIDE DEF r
<1>5. /\ SubSeq(s, 1, k - 1) \in Seq(S) /\ Len(SubSeq(s, 1, k - 1)) = k - 1
      /\ \A i \in 1..k - 1 : SubSeq(s, 1, k - 1)[i] = s[i]
  <2>1. k - 1 \in Int /\ 1 \in Int /\ \A i \in 1..k - 1 : i \in 1..Len(s)
    BY <1>1, <1>2
  <2> QED
    BY <1>1, <1>2, <2>1, SubSeqProperties
<1>6. /\ SubSeq(s, k + 1, Len(s)) \in Seq(S)
      /\ Len(SubSeq(s, k + 1, Len(s))) = Len(s) - k
      /\ \A i \in 1..Len(s) - k : SubSeq(s, k + 1, Len(s))[i] = s[k + i]
  <2> DEFINE b == SubSeq(s, k + 1, Len(s))
  <2>1. k + 1 \in Int /\ Len(s) \in Int /\ \A i \in k + 1..Len(s) : s[i] \in S
    BY <1>2, ElementOfSeq
  <2>2. /\ b \in Seq(S)
        /\ Len(b) = IF k + 1 <= Len(s) THEN Len(s) - (k + 1) + 1 ELSE 0
        /\ \A i \in 1..Len(s) - (k + 1) + 1 : b[i] = s[(k + 1) + i - 1]
    BY <2>1, SubSeqProperties
  <2> HIDE DEF b
  <2>3. /\ Len(s) - (k + 1) + 1 = Len(s) - k
        /\ (IF k + 1 <= Len(s) THEN Len(s) - (k + 1) + 1 ELSE 0) = Len(s) - k
    <3>1. Len(s) \in Nat
      BY <1>2
    <3> QED
      BY ONLY <3>1, k \in 1..Len(s)
  <2>6. Len(b) = Len(s) - k
    BY <2>2, <2>3
  <2>4. \A i \in 1..Len(s) - k : (k + 1) + i - 1 = k + i
    OBVIOUS
  <2>5. \A i \in 1..Len(s) - k : b[i] = s[k + i]
    BY <2>2, <2>3, <2>4
  <2> QED
    BY <2>2, <2>5, <2>6 DEF b
<1>7. /\ r \in Seq(S) /\ Len(r) = Len(s) - 1
      /\ \A i \in 1..Len(s) - 1 : r[i] = IF i < k THEN s[i] ELSE s[i + 1]
  <2> DEFINE a == SubSeq(s, 1, k - 1)
             b == SubSeq(s, k + 1, Len(s))
  <2>1. /\ r \in Seq(S) /\ Len(r) = Len(a) + Len(b)
        /\ \A i \in 1..Len(a) + Len(b) : r[i] = IF i <= Len(a) THEN a[i] ELSE b[i - Len(a)]
    BY <1>4, <1>5, <1>6, ConcatProperties
  <2> HIDE DEF a, b
  <2>2. /\ Len(a) = k - 1 /\ Len(b) = Len(s) - k
        /\ \A i \in 1..k - 1 : a[i] = s[i]
        /\ \A i \in 1..Len(s) - k : b[i] = s[k + i]
    BY <1>5, <1>6 DEF a, b
  <2>3. Len(r) = Len(s) - 1 /\ Len(a) + Len(b) = Len(s) - 1
    BY <1>1, <1>2, <2>1, <2>2
  <2>4. ASSUME NEW i \in 1..Len(s) - 1, i < k PROVE r[i] = s[i]
    <3>1. i <= Len(a) /\ i \in 1..k - 1
      BY <1>1, <1>2, <2>2, <2>4
    <3>2. r[i] = a[i]
      BY <2>1, <2>3, <3>1
    <3> QED
      BY <2>2, <3>1, <3>2
  <2>5. ASSUME NEW i \in 1..Len(s) - 1, ~(i < k) PROVE r[i] = s[i + 1]
    <3>1. ~(i <= Len(a)) /\ i - Len(a) \in 1..Len(s) - k /\ k + (i - Len(a)) = i + 1
      BY <1>1, <1>2, <2>2, <2>5
    <3>2. r[i] = b[i - Len(a)]
      BY <2>1, <2>3, <3>1
    <3> QED
      BY <2>2, <3>1, <3>2
  <2> QED
    BY <2>1, <2>3, <2>4, <2>5
<1>8. \A i \in 1..Len(s) - 1 : i \in 1..Len(s) /\ i + 1 \in 1..Len(s)
  BY <1>2
<1>9. ToSet(r) = ToSet(s) \ {e}
  <2>1. ASSUME NEW x \in ToSet(r) PROVE x \in ToSet(s) /\ x # e
    <3>1. PICK i \in 1..Len(s) - 1 : r[i] = x
      BY <1>7, InSet
    <3>2. CASE i < k
      <4>1. x = s[i] /\ i # k
        BY <1>1, <1>7, <1>8, <3>1, <3>2
      <4> QED
        BY <1>1, <1>3, <1>8, <4>1, InSet
    <3>3. CASE ~(i < k)
      <4>1. x = s[i + 1] /\ i + 1 # k
        BY <1>1, <1>7, <1>8, <3>1, <3>3
      <4> QED
        BY <1>1, <1>3, <1>8, <4>1, InSet
    <3> QED
      BY <3>2, <3>3
  <2>2. ASSUME NEW x \in ToSet(s), x # e PROVE x \in ToSet(r)
    <3>1. PICK i \in 1..Len(s) : s[i] = x
      BY InSet
    <3>2. CASE i < k
      <4>1. i \in 1..Len(s) - 1 /\ r[i] = x
        BY <1>1, <1>2, <1>7, <3>1, <3>2
      <4> QED
        BY <1>7, <4>1, InSet
    <3>3. CASE ~(i < k)
      <4>1. i # k
        BY <1>1, <2>2, <3>1
      <4>2. i - 1 \in 1..Len(s) - 1 /\ ~(i - 1 < k) /\ (i - 1) + 1 = i
        BY <1>1, <1>2, <3>1, <3>3, <4>1
      <4>3. r[i - 1] = x
        BY <1>7, <3>1, <4>2
      <4> QED
        BY <1>7, <4>2, <4>3, InSet
    <3> QED
      BY <3>2, <3>3
  <2> QED
    BY <2>1, <2>2
<1>10. IsInjective(r)
  <2> SUFFICES ASSUME NEW i \in 1..Len(s) - 1, NEW j \in 1..Len(s) - 1, r[i] = r[j]
               PROVE  i = j
    BY <1>7, InSet DEF IsInjective
  <2>1. CASE i < k /\ j < k
    BY <1>3, <1>7, <1>8, <2>1
  <2>2. CASE i < k /\ ~(j < k)
    <3>1. i = j + 1
      BY <1>3, <1>7, <1>8, <2>2
    <3> QED
      BY <1>1, <1>2, <2>2, <3>1
  <2>3. CASE ~(i < k) /\ j < k
    <3>1. i + 1 = j
      BY <1>3, <1>7, <1>8, <2>3
    <3> QED
      BY <1>1, <1>2, <2>3, <3>1
  <2>4. CASE ~(i < k) /\ ~(j < k)
    <3>1. i + 1 = j + 1
      BY <1>3, <1>7, <1>8, <2>4
    <3> QED
      BY <1>2, <3>1
  <2> QED
    BY <2>1, <2>2, <2>3, <2>4
<1>11. ASSUME s[Len(s)] = e, NEW i \in 1..Len(s) - 1 PROVE r[i] = s[i]
  <2>1. k = Len(s)
    <3>1. Len(s) \in 1..Len(s)
      BY <1>1, <1>2
    <3> QED
      BY <1>1, <1>3, <1>11, <3>1
  <2>2. i < k
    BY <1>2, <2>1
  <2> QED
    BY <1>7, <2>2
<1> QED
  BY <1>7, <1>9, <1>10, <1>11 DEF r

\* What was appended last is taken off again.
LEMMA TakenBack ==
    ASSUME NEW S, NEW s \in Seq(S), IsInjective(s), NEW e \in S, e \notin ToSet(s)
    PROVE  RemoveFirst(Append(s, e), e) = s
<1> DEFINE t == Append(s, e)
           r == RemoveFirst(t, e)
<1>1. /\ t \in Seq(S) /\ Len(t) = Len(s) + 1 /\ IsInjective(t) /\ e \in ToSet(t)
      /\ \A i \in 1..Len(s) : t[i] = s[i]
      /\ t[Len(t)] = e /\ Len(s) \in Nat
  BY AtTheEnd, AppendProperties, LenProperties
<1> HIDE DEF t
<1>2. /\ r \in Seq(S) /\ Len(r) = Len(t) - 1
      /\ \A i \in 1..Len(t) - 1 : r[i] = t[i]
  BY <1>1, TakenOut
<1> HIDE DEF r
<1>3. Len(r) = Len(s) /\ \A i \in 1..Len(s) : r[i] = s[i]
  BY <1>1, <1>2
<1>4. r = s
  BY <1>2, <1>3, SeqEqual
<1> QED
  BY <1>4 DEF r, t

LEMMA AFunctionIsASeq ==
    ASSUME NEW S, NEW n \in Nat, NEW f \in [1..n -> S]
    PROVE  f \in Seq(S) /\ Len(f) = n
BY SeqDef

-----------------------------------------------------------------------------
(***************************************************************************)
(* Documents.  Sound says what Consistent leaves out, for a document whose *)
(* annotations are among the first m: none is there twice, in poppler or   *)
(* in the table, and the keys are below m.                                 *)
(***************************************************************************)

Item(m) == [annot : 1..m, key : 0..m - 1]
Table(m) == UNION {[K -> Item(m)] : K \in SUBSET (0..m - 1)}
Document(m) == [pdf : Seq(1..m), pages : Seq(Item(m)), keys : Table(m)]

Sound(d, m) ==
    /\ d \in Document(m)
    /\ Consistent(d)
    /\ IsInjective(d.pdf)
    /\ \A j, k \in DOMAIN d.keys : d.keys[j].annot = d.keys[k].annot => j = k

\* The page has been read: it is empty only if poppler has no annotation.
HasRead(d) == d.pages = <<>> => d.pdf = <<>>

\* A table, by what is under its keys.
LEMMA TableOf ==
    ASSUME NEW m \in Nat, NEW f, f = [k \in DOMAIN f |-> f[k]],
           DOMAIN f \subseteq 0..m - 1, \A k \in DOMAIN f : f[k] \in Item(m)
    PROVE  f \in Table(m)
<1>1. f \in [DOMAIN f -> Item(m)]
  OBVIOUS
<1> QED
  BY <1>1 DEF Table

LEMMA OfTable ==
    ASSUME NEW m \in Nat, NEW f \in Table(m)
    PROVE  /\ f = [k \in DOMAIN f |-> f[k]]
           /\ DOMAIN f \subseteq 0..m - 1
           /\ \A k \in DOMAIN f : f[k] \in Item(m)
<1>1. PICK K \in SUBSET (0..m - 1) : f \in [K -> Item(m)]
  BY DEF Table
<1>2. DOMAIN f = K /\ f = [k \in K |-> f[k]]
  BY <1>1
<1>3. \A k \in K : f[k] \in Item(m)
  BY <1>1
<1> QED
  BY <1>2, <1>3

\* A page and the table by members: what is printed is what is under a key.
LEMMA SoundFacts ==
    ASSUME NEW m \in Nat, NEW d, Sound(d, m)
    PROVE  /\ d.pdf \in Seq(1..m) /\ IsInjective(d.pdf)
           /\ d.pages \in Seq(Item(m)) /\ IsInjective(d.pages)
           /\ d.keys \in Table(m)
           /\ ToSet(d.pages) = {d.keys[k] : k \in DOMAIN d.keys}
           /\ \A k \in DOMAIN d.keys : d.keys[k].key = k
           /\ \A j, k \in DOMAIN d.keys : d.keys[j].annot = d.keys[k].annot => j = k
           /\ d.pages # <<>> => Len(d.pages) = Len(d.pdf)
           /\ d.pages # <<>> => {a.annot : a \in ToSet(d.pages)} = ToSet(d.pdf)
BY DEF Sound, Document, Consistent, Range

LEMMA SoundFrom ==
    ASSUME NEW m \in Nat, NEW p, NEW g, NEW t,
           p \in Seq(1..m), IsInjective(p),
           g \in Seq(Item(m)), IsInjective(g),
           t \in Table(m),
           ToSet(g) = {t[k] : k \in DOMAIN t},
           \A k \in DOMAIN t : t[k].key = k,
           \A j, k \in DOMAIN t : t[j].annot = t[k].annot => j = k,
           g # <<>> => Len(g) = Len(p),
           g # <<>> => {a.annot : a \in ToSet(g)} = ToSet(p)
    PROVE  Sound([pdf |-> p, pages |-> g, keys |-> t], m)
BY DEF Sound, Document, Consistent, Range

\* There are no annotations twice, so there are no more than were made.
LEMMA NoMore ==
    ASSUME NEW m \in Nat, NEW s \in Seq(1..m), IsInjective(s)
    PROVE  Len(s) <= m
<1>1. Len(s) \in Nat /\ DOMAIN s = 1..Len(s) /\ s \in [1..Len(s) -> 1..m]
  BY LenProperties, InSet
<1>2. IsFiniteSet(1..m) /\ Cardinality(1..m) = m
  BY FS_Interval
<1>3. IsFiniteSet(1..Len(s)) /\ Cardinality(1..Len(s)) = Len(s)
  <2>1. \A n \in Nat : IsFiniteSet(1..n) /\ Cardinality(1..n) = n
    BY FS_Interval
  <2> QED
    BY <1>1, <2>1
<1>4. s \in Injection(1..Len(s), 1..m)
  BY <1>1 DEF Injection, IsInjective
<1>5. Cardinality(1..Len(s)) <= Cardinality(1..m)
  BY <1>2, <1>4, FS_Injection
<1> QED
  BY <1>2, <1>3, <1>5

\* A document that is opened.
LEMMA LoadedSound ==
    ASSUME NEW m \in Nat, NEW p \in Seq(1..m), IsInjective(p)
    PROVE  Sound(Loaded(p), m) /\ Loaded(p).pdf = p /\ Loaded(p).keys = <<>>
<1>1. <<>> \in Seq(Item(m)) /\ DOMAIN <<>> = {} /\ ToSet(<<>>) = {} /\ IsInjective(<<>>)
  BY EmptySeq DEF ToSet, IsInjective
<1>2. <<>> \in Table(m)
  <2>1. <<>> = [k \in {} |-> <<>>[k]]
    OBVIOUS
  <2> QED
    BY <1>1, <2>1, TableOf
<1>3. {<<>>[k] : k \in DOMAIN <<>>} = {}
  BY <1>1
<1>4. Sound([pdf |-> p, pages |-> <<>>, keys |-> <<>>], m)
  BY <1>1, <1>2, <1>3, SoundFrom
<1> QED
  BY <1>4 DEF Loaded

\* More annotations may be made.
LEMMA SoundLater ==
    ASSUME NEW m \in Nat, NEW n \in Nat, m <= n, NEW d, Sound(d, m)
    PROVE  Sound(d, n)
<1>1. 1..m \subseteq 1..n /\ 0..m - 1 \subseteq 0..n - 1
  OBVIOUS
<1>2. Item(m) \subseteq Item(n)
  BY <1>1 DEF Item
<1>3. d \in Document(m)
  BY DEF Sound
<1>4. d.keys \in Table(n)
  BY <1>1, <1>2, <1>3, OfTable, TableOf DEF Document
<1>5. d.pdf \in Seq(1..n) /\ d.pages \in Seq(Item(n))
  <2>1. \A i \in 1..Len(d.pdf) : d.pdf[i] \in 1..n
    BY <1>1, <1>3, ElementOfSeq DEF Document
  <2>2. \A i \in 1..Len(d.pages) : d.pages[i] \in Item(n)
    BY <1>2, <1>3, ElementOfSeq DEF Document
  <2> QED
    BY <1>3, <2>1, <2>2, SeqDef DEF Document
<1>6. d \in Document(n)
  BY <1>3, <1>4, <1>5 DEF Document
<1> QED
  BY <1>6 DEF Sound

\* A document with a page: what there is when the page is read.
LEMMA ReadSound ==
    ASSUME NEW m \in Nat, NEW d, Sound(d, m)
    PROVE  /\ Sound(GetForPage(d), m)
           /\ HasRead(GetForPage(d))
           /\ GetForPage(d).pdf = d.pdf
           /\ HasRead(d) => GetForPage(d) = d
<1>1. CASE d.pages # <<>>
  BY <1>1 DEF GetForPage, HasRead
<1>2. CASE d.pages = <<>>
  <2> DEFINE read == [i \in DOMAIN d.pdf |-> [annot |-> d.pdf[i], key |-> i - 1]]
             t == [k \in 0..Len(read) - 1 |-> read[k + 1]]
             g == Reverse(read)
  <2>1. /\ d.pdf \in Seq(1..m) /\ IsInjective(d.pdf)
        /\ Len(d.pdf) \in Nat /\ DOMAIN d.pdf = 1..Len(d.pdf)
        /\ Len(d.pdf) <= m
        /\ \A i \in 1..Len(d.pdf) : d.pdf[i] \in 1..m
    BY SoundFacts, NoMore, InSet, ElementOfSeq
  <2>2. d.keys = <<>> /\ DOMAIN d.keys = {}
    <3>0. ToSet(<<>>) = {}
      BY DEF ToSet
    <3>1. ToSet(d.pages) = {} /\ ToSet(d.pages) = {d.keys[k] : k \in DOMAIN d.keys}
      BY <1>2, <3>0, SoundFacts
    <3>2. DOMAIN d.keys = {}
      BY <3>1
    <3>3. d.keys = [k \in DOMAIN d.keys |-> d.keys[k]]
      BY SoundFacts, OfTable
    <3> QED
      BY <3>2, <3>3
  <2>3. d = [pdf |-> d.pdf, pages |-> d.pages, keys |-> d.keys]
    BY DEF Sound, Document
  <2>4. /\ \A i \in 1..Len(d.pdf) : /\ read[i] \in Item(m)
                                    /\ read[i].annot = d.pdf[i] /\ read[i].key = i - 1
        /\ read \in Seq(Item(m)) /\ Len(read) = Len(d.pdf)
    <3>1. \A i \in 1..Len(d.pdf) : i - 1 \in 0..m - 1
      BY <2>1
    <3>2. \A i \in 1..Len(d.pdf) : read[i] = [annot |-> d.pdf[i], key |-> i - 1]
      BY <2>1
    <3>3. \A i \in 1..Len(d.pdf) : read[i] \in Item(m)
      BY <2>1, <3>1, <3>2 DEF Item
    <3>4. read = [i \in 1..Len(d.pdf) |-> read[i]]
      BY <2>1
    <3> HIDE DEF read
    <3>5. read \in Seq(Item(m)) /\ Len(read) = Len(d.pdf)
      <4>1. read \in [1..Len(d.pdf) -> Item(m)]
        BY <3>3, <3>4
      <4>2. read \in Seq(Item(m))
        BY <2>1, <4>1, AFunctionIsASeq
      <4> QED
        BY <2>1, <4>1, <4>2, LenProperties
    <3>6. ASSUME NEW i \in 1..Len(d.pdf)
          PROVE  read[i].annot = d.pdf[i] /\ read[i].key = i - 1
      <4>1. read[i] = [annot |-> d.pdf[i], key |-> i - 1]
        BY <3>2, Zenon
      <4> DEFINE r == read[i]
      <4>2. r = [annot |-> d.pdf[i], key |-> i - 1]
        BY <4>1
      <4> HIDE DEF r
      <4>3. r.annot = d.pdf[i] /\ r.key = i - 1
        BY <4>2
      <4> QED
        BY <4>3 DEF r
    <3> QED
      BY <3>3, <3>5, <3>6
  <2> HIDE DEF read
  <2>5. /\ DOMAIN t = 0..Len(d.pdf) - 1
        /\ \A k \in DOMAIN t : k + 1 \in 1..Len(d.pdf) /\ t[k] = read[k + 1]
        /\ t = [k \in DOMAIN t |-> t[k]]
    BY <2>1, <2>4
  <2> HIDE DEF t
  <2>6. t \in Table(m)
    <3>1. DOMAIN t \subseteq 0..m - 1
      BY <2>1, <2>5
    <3> QED
      BY <2>4, <2>5, <3>1, TableOf
  <2>7. /\ \A k \in DOMAIN t : t[k].key = k
        /\ \A j, k \in DOMAIN t : t[j].annot = t[k].annot => j = k
    <3>1. \A k \in DOMAIN t : t[k].key = (k + 1) - 1 /\ t[k].annot = d.pdf[k + 1]
      BY <2>4, <2>5
    <3>2. \A k \in DOMAIN t : (k + 1) - 1 = k
      BY <2>5
    <3>3. ASSUME NEW j \in DOMAIN t, NEW k \in DOMAIN t, t[j].annot = t[k].annot
          PROVE  j = k
      <4>1. j + 1 = k + 1
        <5>1. d.pdf[j + 1] = d.pdf[k + 1]
          BY <3>1, <3>3
        <5> QED
          BY <2>1, <2>5, <5>1 DEF IsInjective
      <4> QED
        BY <2>5, <4>1
    <3> QED
      BY <3>1, <3>2, <3>3
  <2>8. /\ g \in Seq(Item(m)) /\ Len(g) = Len(d.pdf)
        /\ ToSet(g) = ToSet(read)
        /\ IsInjective(g)
    <3>1. IsInjective(read)
      <4> SUFFICES ASSUME NEW i \in 1..Len(d.pdf), NEW j \in 1..Len(d.pdf), read[i] = read[j]
                   PROVE  i = j
        BY <2>4, InSet DEF IsInjective
      <4>1. i - 1 = j - 1
        BY <2>4
      <4> QED
        BY <2>1, <4>1
    <3> QED
      BY <2>4, <3>1, Reversed
  <2>9. ToSet(read) = {t[k] : k \in DOMAIN t}
    <3>1. ASSUME NEW i \in 1..Len(d.pdf) PROVE i - 1 \in DOMAIN t /\ t[i - 1] = read[i]
      <4>1. i - 1 \in DOMAIN t /\ (i - 1) + 1 = i
        BY <2>1, <2>5
      <4> QED
        BY <2>5, <4>1
    <3>2. \A e : e \in ToSet(read) <=> \E i \in 1..Len(d.pdf) : read[i] = e
      BY <2>4, InSet
    <3> QED
      BY <2>5, <3>1, <3>2
  <2>10. {a.annot : a \in ToSet(read)} = ToSet(d.pdf)
    <3>1. \A e : e \in ToSet(read) <=> \E i \in 1..Len(d.pdf) : read[i] = e
      BY <2>4, InSet
    <3>2. \A e : e \in ToSet(d.pdf) <=> \E i \in 1..Len(d.pdf) : d.pdf[i] = e
      BY <2>1, InSet
    <3> QED
      BY <2>4, <3>1, <3>2
  <2>11. Inserted(d.keys, t) = t
    BY <2>2, <2>5 DEF Inserted
  <2>12. GetForPage(d) = [pdf |-> d.pdf, pages |-> g, keys |-> t]
    <3>1. GetForPage(d) = [d EXCEPT !.pages = g, !.keys = Inserted(d.keys, t)]
      BY <1>2 DEF GetForPage, g, t, read
    <3> QED
      BY <2>3, <2>11, <3>1
  <2> HIDE DEF g
  <2>13. Sound(GetForPage(d), m)
    <3>1. ToSet(g) = {t[k] : k \in DOMAIN t} /\ {a.annot : a \in ToSet(g)} = ToSet(d.pdf)
      BY <2>8, <2>9, <2>10
    <3>2. Len(g) = Len(d.pdf) /\ g \in Seq(Item(m)) /\ IsInjective(g)
      BY <2>8
    <3>3. d.pdf \in Seq(1..m) /\ IsInjective(d.pdf)
      BY <2>1
    <3>4. Sound([pdf |-> d.pdf, pages |-> g, keys |-> t], m)
      BY <2>6, <2>7, <3>1, <3>2, <3>3, SoundFrom
    <3> QED
      BY <2>12, <3>4
  <2>14. HasRead(GetForPage(d))
    BY <2>1, <2>8, <2>12, EmptySeq, LenProperties DEF HasRead
  <2>15. ASSUME HasRead(d) PROVE GetForPage(d) = d
    <3>1. d.pdf = <<>> /\ Len(d.pdf) = 0
      BY <1>2, <2>15 DEF HasRead
    <3>2. g = <<>>
      BY <2>8, <3>1, EmptySeq
    <3>3. t = <<>>
      BY <2>5, <3>1
    <3> QED
      BY <1>2, <2>2, <2>3, <2>12, <3>2, <3>3
  <2> QED
    BY <2>12, <2>13, <2>14, <2>15
<1> QED
  BY <1>1, <1>2

\* A key that is free, at or above the number of annotations, and not above
\* the number of those ever made: as many keys are tried as are in use, and
\* one more (epdfinfo.c:2709-2715).
LEMMA FreeKey ==
    ASSUME NEW m \in Nat, NEW d, Sound(d, m), HasRead(d)
    PROVE  NewKey(d) \in 0..m /\ NewKey(d) \notin DOMAIN d.keys
<1> DEFINE n == Len(d.pages)
           c == Cardinality(DOMAIN d.keys)
           unused == (n..n + c) \ DOMAIN d.keys
<1>1. n \in Nat /\ n <= m
  <2>1. d.pages \in Seq(Item(m)) /\ d.pdf \in Seq(1..m) /\ Len(d.pdf) <= m
    BY SoundFacts, NoMore
  <2>2. CASE d.pages = <<>>
    BY <2>2
  <2>3. CASE d.pages # <<>>
    BY <2>1, <2>3, SoundFacts, LenProperties
  <2> QED
    BY <2>2, <2>3
<1>2. IsFiniteSet(DOMAIN d.keys) /\ c \in Nat /\ DOMAIN d.keys \subseteq 0..m - 1
  <2>1. DOMAIN d.keys \subseteq 0..m - 1
    BY SoundFacts, OfTable
  <2>2. IsFiniteSet(0..m - 1)
    BY FS_Interval
  <2> QED
    BY <2>1, <2>2, FS_Subset, FS_CardinalityType
<1> HIDE DEF n, c
<1>3. unused # {}
  <2> SUFFICES ASSUME n..n + c \subseteq DOMAIN d.keys PROVE FALSE
    OBVIOUS
  <2>1. Cardinality(n..n + c) <= c
    BY <1>2, FS_Subset DEF c
  <2>2. \A a, b \in Int : Cardinality(a..b) = IF a > b THEN 0 ELSE b - a + 1
    BY FS_Interval
  <2>3. Cardinality(n..n + c) = IF n > n + c THEN 0 ELSE (n + c) - n + 1
    BY <1>1, <1>2, <2>2
  <2> QED
    BY <1>1, <1>2, <2>1, <2>3
<1>4. unused \subseteq Nat
  BY <1>1, <1>2
<1>5. PICK k \in unused : \A j \in unused : k <= j
  BY <1>3, <1>4, Least
<1>6. k <= m
  <2>1. CASE m <= n + c
    <3>1. m \in unused
      BY <1>1, <1>2, <2>1
    <3> QED
      BY <1>5, <3>1
  <2>2. CASE ~(m <= n + c)
    BY <1>1, <1>2, <1>5, <2>2
  <2> QED
    BY <2>1, <2>2
<1>7. \A x \in unused : (\A j \in unused : x <= j) => x = k
  BY <1>4, <1>5
<1>8. NewKey(d) = k
  <2>1. NewKey(d) = CHOOSE x \in unused : \A j \in unused : x <= j
    BY DEF NewKey, unused, n, c
  <2> HIDE DEF unused
  <2> QED
    BY <1>5, <1>7, <2>1
<1> QED
  BY <1>1, <1>2, <1>5, <1>6, <1>8

\* An annotation added: a new entry under a key that was free, and nothing
\* else in the table changes.
LEMMA AddedSound ==
    ASSUME NEW m \in Nat, NEW d, Sound(d, m)
    PROVE  LET g == GetForPage(d)
               x == AddAnnot(d, m + 1)
               k == NewKey(g)
               a == [annot |-> m + 1, key |-> k]
           IN  /\ Sound(x, m + 1) /\ HasRead(x)
               /\ x.pdf = Append(d.pdf, m + 1)
               /\ ToSet(x.pdf) = ToSet(d.pdf) \cup {m + 1} /\ m + 1 \notin ToSet(d.pdf)
               /\ k \notin DOMAIN g.keys /\ DOMAIN x.keys = DOMAIN g.keys \cup {k}
               /\ x.keys[k] = a
               /\ \A j \in DOMAIN g.keys : x.keys[j] = g.keys[j]
<1> DEFINE g == GetForPage(d)
           x == AddAnnot(d, m + 1)
           k == NewKey(g)
           a == [annot |-> m + 1, key |-> k]
           p == Append(d.pdf, m + 1)
           l == <<a>> \o g.pages
           t == Inserted(g.keys, [j \in {k} |-> a])
<1>1. Sound(g, m) /\ HasRead(g) /\ g.pdf = d.pdf
  BY ReadSound
<1> HIDE DEF g
<1>2. k \in 0..m /\ k \notin DOMAIN g.keys
  BY <1>1, FreeKey
<1> HIDE DEF k
<1>3. Sound(g, m + 1)
  BY <1>1, SoundLater
<1>4. /\ g.pdf \in Seq(1..m) /\ IsInjective(g.pdf)
      /\ g.pages \in Seq(Item(m)) /\ g.pages \in Seq(Item(m + 1)) /\ IsInjective(g.pages)
      /\ g.pdf \in Seq(1..m + 1)
  BY <1>1, <1>3, SoundFacts
<1>5. a \in Item(m + 1) /\ a \notin Item(m) /\ a.annot = m + 1 /\ a.key = k
  BY <1>2 DEF Item
<1> HIDE DEF a
<1>6. /\ p \in Seq(1..m + 1) /\ IsInjective(p) /\ Len(p) = Len(g.pdf) + 1
      /\ ToSet(p) = ToSet(g.pdf) \cup {m + 1} /\ m + 1 \notin ToSet(g.pdf)
  <2>1. ToSet(g.pdf) \subseteq 1..m
    BY <1>4, InSet
  <2>2. m + 1 \in 1..m + 1 /\ m + 1 \notin ToSet(g.pdf)
    BY <2>1
  <2>3. p = Append(g.pdf, m + 1)
    BY <1>1
  <2> HIDE DEF p
  <2>4. /\ p \in Seq(1..m + 1) /\ Len(p) = Len(g.pdf) + 1
        /\ ToSet(p) = ToSet(g.pdf) \cup {m + 1}
        /\ IsInjective(g.pdf) /\ m + 1 \notin ToSet(g.pdf) => IsInjective(p)
    BY <1>4, <2>2, <2>3, AtTheEnd
  <2> QED
    BY <1>4, <2>2, <2>4
<1>7. /\ l \in Seq(Item(m + 1)) /\ Len(l) = Len(g.pages) + 1 /\ IsInjective(l)
      /\ ToSet(l) = ToSet(g.pages) \cup {a}
  <2>1. ToSet(g.pages) \subseteq Item(m)
    BY <1>4, InSet
  <2> QED
    BY <1>4, <1>5, <2>1, AtTheFront
<1>8. /\ DOMAIN t = DOMAIN g.keys \cup {k}
      /\ t[k] = a
      /\ \A j \in DOMAIN g.keys : t[j] = g.keys[j]
      /\ t = [j \in DOMAIN t |-> t[j]]
  <2>1. t = Inserted(g.keys, [j \in {k} |-> a])
    OBVIOUS
  <2> HIDE DEF t
  <2> QED
    BY <1>2, <2>1 DEF Inserted
<1> HIDE DEF p, l, t
<1>9. x = [pdf |-> p, pages |-> l, keys |-> t]
  <2>1. g = [pdf |-> g.pdf, pages |-> g.pages, keys |-> g.keys]
    BY <1>1 DEF Sound, Document
  <2>2. Entered(g, m + 1) = [g EXCEPT !.pages = l, !.keys = t]
    BY <1>5 DEF Entered, a, k, l, t
  <2>3. Entered(g, m + 1) = [pdf |-> g.pdf, pages |-> l, keys |-> t]
    BY <2>1, <2>2
  <2>4. x = [Entered(g, m + 1) EXCEPT !.pdf = Append(@, m + 1)]
    BY DEF AddAnnot, g
  <2> DEFINE e == Entered(g, m + 1)
  <2> HIDE DEF x, e
  <2>5. e = [pdf |-> g.pdf, pages |-> l, keys |-> t]
    BY <2>3 DEF e
  <2>6. x = [e EXCEPT !.pdf = Append(@, m + 1)]
    BY <2>4 DEF e
  <2>7. x = [pdf |-> Append(g.pdf, m + 1), pages |-> l, keys |-> t]
    BY <2>5, <2>6
  <2> QED
    BY <1>1, <2>7 DEF p
<1> HIDE DEF x
<1>10. /\ DOMAIN g.keys \subseteq 0..m - 1
       /\ \A j \in DOMAIN g.keys : /\ g.keys[j] \in Item(m)
                                   /\ g.keys[j] \in Item(m + 1) /\ g.keys[j].key = j
       /\ ToSet(g.pages) = {g.keys[j] : j \in DOMAIN g.keys}
       /\ \A i, j \in DOMAIN g.keys : g.keys[i].annot = g.keys[j].annot => i = j
  <2>1. g.keys \in Table(m) /\ g.keys \in Table(m + 1)
    BY <1>1, <1>3, SoundFacts
  <2>2. m + 1 \in Nat
    OBVIOUS
  <2>3. \A j \in DOMAIN g.keys : g.keys[j] \in Item(m) /\ g.keys[j] \in Item(m + 1)
    BY <2>1, <2>2, OfTable
  <2> QED
    BY <1>1, <2>1, <2>3, SoundFacts, OfTable
<1>11. t \in Table(m + 1)
  <2>1. DOMAIN t \subseteq 0..(m + 1) - 1
    BY <1>2, <1>8, <1>10
  <2>2. \A j \in DOMAIN t : t[j] \in Item(m + 1)
    BY <1>5, <1>8, <1>10
  <2> QED
    BY <1>8, <2>1, <2>2, TableOf
<1>12. ToSet(l) = {t[j] : j \in DOMAIN t}
  BY <1>7, <1>8, <1>10
<1>13. \A j \in DOMAIN t : t[j].key = j
  BY <1>5, <1>8, <1>10
<1>14. \A i, j \in DOMAIN t : t[i].annot = t[j].annot => i = j
  <2>1. \A j \in DOMAIN g.keys : t[j].annot \in 1..m /\ t[j].annot = g.keys[j].annot
    BY <1>8, <1>10 DEF Item
  <2>2. t[k].annot = m + 1 /\ m + 1 \notin 1..m
    BY <1>5, <1>8
  <2> QED
    BY <1>8, <1>10, <2>1, <2>2
<1>15. l # <<>> => Len(l) = Len(p)
  <2>1. CASE g.pages = <<>>
    BY <1>1, <1>6, <1>7, <2>1 DEF HasRead
  <2>2. CASE g.pages # <<>>
    BY <1>1, <1>6, <1>7, <2>2, SoundFacts
  <2> QED
    BY <2>1, <2>2
<1>16. l # <<>> => {b.annot : b \in ToSet(l)} = ToSet(p)
  <2>1. {b.annot : b \in ToSet(l)} = {b.annot : b \in ToSet(g.pages)} \cup {m + 1}
    BY <1>5, <1>7
  <2>2. {b.annot : b \in ToSet(g.pages)} = ToSet(g.pdf)
    <3>1. CASE g.pages = <<>>
      <4>1. ToSet(<<>>) = {}
        BY DEF ToSet
      <4> QED
        BY <1>1, <3>1, <4>1 DEF HasRead
    <3>2. CASE g.pages # <<>>
      BY <1>1, <3>2, SoundFacts
    <3> QED
      BY <3>1, <3>2
  <2> QED
    BY <1>6, <2>1, <2>2
<1>17. Sound(x, m + 1)
  <2>1. m + 1 \in Nat /\ IsInjective(l) /\ l \in Seq(Item(m + 1))
    BY <1>7
  <2>2. p \in Seq(1..m + 1) /\ IsInjective(p)
    BY <1>6
  <2>3. Sound([pdf |-> p, pages |-> l, keys |-> t], m + 1)
    BY <1>11, <1>12, <1>13, <1>14, <1>15, <1>16, <2>1, <2>2, SoundFrom
  <2> QED
    BY <1>9, <2>3
<1>18. HasRead(x)
  <2>1. l # <<>>
    BY <1>4, <1>7, LenProperties
  <2> QED
    BY <1>9, <2>1 DEF HasRead
<1>19. x.pdf = p /\ x.keys = t
  BY <1>9
<1> QED
  BY <1>1, <1>2, <1>6, <1>8, <1>17, <1>18, <1>19 DEF g, x, k, a, p

\* An annotation deleted by its key: it is gone from all three, and nothing
\* else changes.
LEMMA DeletedSound ==
    ASSUME NEW m \in Nat, NEW d, Sound(d, m), NEW k, Names(d, k)
    PROVE  LET x == DelAnnot(d, k)
               a == d.keys[k]
           IN  /\ Sound(x, m) /\ HasRead(x)
               /\ x.pdf = RemoveFirst(d.pdf, a.annot)
               /\ ToSet(x.pdf) = ToSet(d.pdf) \ {a.annot} /\ a.annot \in ToSet(d.pdf)
               /\ DOMAIN x.keys = DOMAIN d.keys \ {k}
               /\ \A j \in DOMAIN x.keys : x.keys[j] = d.keys[j]
<1> DEFINE x == DelAnnot(d, k)
           a == d.keys[k]
           p == RemoveFirst(d.pdf, a.annot)
           l == RemoveFirst(d.pages, a)
           t == Restrict(d.keys, DOMAIN d.keys \ {k})
<1>1. k \in DOMAIN d.keys /\ a.key = k
  BY SoundFacts DEF Names
<1>2. /\ d.pdf \in Seq(1..m) /\ IsInjective(d.pdf)
      /\ d.pages \in Seq(Item(m)) /\ IsInjective(d.pages)
      /\ ToSet(d.pages) = {d.keys[j] : j \in DOMAIN d.keys}
      /\ \A j \in DOMAIN d.keys : d.keys[j].key = j
      /\ \A i, j \in DOMAIN d.keys : d.keys[i].annot = d.keys[j].annot => i = j
  BY SoundFacts
<1>3. DOMAIN d.keys \subseteq 0..m - 1 /\ \A j \in DOMAIN d.keys : d.keys[j] \in Item(m)
  <2>1. d.keys \in Table(m)
    BY SoundFacts
  <2> QED
    BY <2>1, OfTable
<1>4. a \in ToSet(d.pages)
  BY <1>1, <1>2
<1>5. d.pages # <<>>
  <2>1. ToSet(<<>>) = {}
    BY DEF ToSet
  <2> QED
    BY <1>4, <2>1
<1>6. Len(d.pages) = Len(d.pdf) /\ {b.annot : b \in ToSet(d.pages)} = ToSet(d.pdf)
  BY <1>5, SoundFacts
<1>7. a.annot \in ToSet(d.pdf)
  BY <1>4, <1>6
<1>8. t = [j \in DOMAIN d.keys \ {k} |-> d.keys[j]]
  BY DEF Restrict
<1>9. x = [pdf |-> p, pages |-> l, keys |-> t]
  <2>1. d = [pdf |-> d.pdf, pages |-> d.pages, keys |-> d.keys]
    BY DEF Sound, Document
  <2>2. x = [d EXCEPT !.pdf = RemoveFirst(@, a.annot), !.pages = RemoveFirst(@, a),
                      !.keys = Restrict(@, DOMAIN @ \ {a.key})]
    BY DEF DelAnnot
  <2>3. x = [d EXCEPT !.pdf = p, !.pages = l, !.keys = t]
    BY <1>1, <2>2
  <2> HIDE DEF x, p, l, t
  <2> QED
    BY <2>1, <2>3
<1> HIDE DEF x, a, t
<1>10. /\ p \in Seq(1..m) /\ Len(p) = Len(d.pdf) - 1 /\ IsInjective(p)
       /\ ToSet(p) = ToSet(d.pdf) \ {a.annot}
  BY <1>2, <1>7, TakenOut
<1>11. /\ l \in Seq(Item(m)) /\ Len(l) = Len(d.pages) - 1 /\ IsInjective(l)
       /\ ToSet(l) = ToSet(d.pages) \ {a}
  BY <1>2, <1>4, TakenOut
<1> HIDE DEF p, l
<1>12. /\ DOMAIN t = DOMAIN d.keys \ {k}
       /\ \A j \in DOMAIN t : t[j] = d.keys[j]
       /\ t = [j \in DOMAIN t |-> t[j]]
  BY <1>8
<1>13. t \in Table(m)
  BY <1>3, <1>12, TableOf
<1>14. ToSet(l) = {t[j] : j \in DOMAIN t}
  <2>1. \A j \in DOMAIN d.keys : d.keys[j] = a => j = k
    BY <1>1, <1>2
  <2> QED
    BY <1>1, <1>2, <1>11, <1>12, <2>1 DEF a
<1>15. /\ \A j \in DOMAIN t : t[j].key = j
       /\ \A i, j \in DOMAIN t : t[i].annot = t[j].annot => i = j
  BY <1>2, <1>12
<1>16. Len(l) = Len(p)
  BY <1>6, <1>10, <1>11
<1>17. {b.annot : b \in ToSet(l)} = ToSet(p)
  <2>1. \A b \in ToSet(d.pages) : b.annot = a.annot => b = a
    BY <1>1, <1>2 DEF a
  <2>2. {b.annot : b \in ToSet(d.pages) \ {a}} = {b.annot : b \in ToSet(d.pages)} \ {a.annot}
    BY <1>4, <2>1
  <2> QED
    BY <1>6, <1>10, <1>11, <2>2
<1>18. Sound(x, m)
  <2>1. Sound([pdf |-> p, pages |-> l, keys |-> t], m)
    BY <1>10, <1>11, <1>13, <1>14, <1>15, <1>16, <1>17, SoundFrom
  <2> QED
    BY <1>9, <2>1
<1>19. x.pdf = p /\ x.keys = t /\ x.pages = l
  BY <1>9
<1>20. HasRead(x)
  <2>1. l = <<>> => Len(p) = 0
    BY <1>16, EmptySeq
  <2>2. Len(p) = 0 => p = <<>>
    BY <1>10, EmptySeq
  <2> QED
    BY <1>19, <2>1, <2>2 DEF HasRead
<1> QED
  BY <1>7, <1>10, <1>12, <1>18, <1>19, <1>20 DEF x, a, p

-----------------------------------------------------------------------------
(***************************************************************************)
(* What the client holds of a document.                                    *)
(***************************************************************************)

\* What KeyNamesOwn says of one entry got in the opening that d is of
Own(d, e) ==
    IF e.annot \in ToSet(d.pdf)
    THEN Names(d, e.key) /\ d.keys[e.key].annot = e.annot
    ELSE Names(d, e.key) => d.keys[e.key].annot > e.annot

\* x is what a handler makes of d, when annotations up to n are made instead
\* of m: entries keep naming their own.
Follows(d, m, x, n) ==
    /\ Sound(x, n)
    /\ HasRead(d) => HasRead(x)
    /\ HasRead(d) => \A e \in Entry : e.annot <= m /\ Own(d, e) => Own(x, e)

LEMMA FollowsSame ==
    ASSUME NEW m \in Nat, NEW d, Sound(d, m)
    PROVE  Follows(d, m, d, m)
BY DEF Follows

LEMMA FollowsRead ==
    ASSUME NEW m \in Nat, NEW d, Sound(d, m)
    PROVE  Follows(d, m, GetForPage(d), m)
<1>1. Sound(GetForPage(d), m) /\ (HasRead(d) => GetForPage(d) = d)
  BY ReadSound
<1> QED
  BY <1>1 DEF Follows

\* A key given to a new annotation goes to a greater number.
LEMMA FollowsAdded ==
    ASSUME NEW m \in Nat, NEW d, Sound(d, m)
    PROVE  Follows(d, m, AddAnnot(d, m + 1), m + 1)
<1> DEFINE x == AddAnnot(d, m + 1)
           k == NewKey(GetForPage(d))
<1>1. /\ Sound(x, m + 1) /\ HasRead(x)
      /\ ToSet(x.pdf) = ToSet(d.pdf) \cup {m + 1}
      /\ k \notin DOMAIN GetForPage(d).keys
      /\ DOMAIN x.keys = DOMAIN GetForPage(d).keys \cup {k}
      /\ x.keys[k] = [annot |-> m + 1, key |-> k]
      /\ \A j \in DOMAIN GetForPage(d).keys : x.keys[j] = GetForPage(d).keys[j]
  BY AddedSound
<1> HIDE DEF x, k
<1>2. ASSUME HasRead(d), NEW e \in Entry, e.annot <= m, Own(d, e)
      PROVE  Own(x, e)
  <2>1. /\ k \notin DOMAIN d.keys /\ DOMAIN x.keys = DOMAIN d.keys \cup {k}
        /\ \A j \in DOMAIN d.keys : x.keys[j] = d.keys[j]
    BY <1>1, <1>2, ReadSound
  <2>2. e.annot \in Nat
    BY DEF Entry, Annot
  <2>3. x.keys[k].annot = m + 1 /\ m + 1 > e.annot /\ e.annot # m + 1
    BY <1>1, <1>2, <2>2
  <2>4. e.annot \in ToSet(x.pdf) <=> e.annot \in ToSet(d.pdf)
    BY <1>1, <2>3
  <2>5. CASE e.key \in DOMAIN d.keys
    BY <1>2, <2>1, <2>4, <2>5 DEF Own, Names
  <2>6. CASE e.key \notin DOMAIN d.keys
    <3>1. e.annot \notin ToSet(x.pdf)
      BY <1>2, <2>4, <2>6 DEF Own, Names
    <3>2. Names(x, e.key) => e.key = k
      BY <2>1, <2>6 DEF Names
    <3> QED
      BY <2>3, <3>1, <3>2 DEF Own
  <2> QED
    BY <2>5, <2>6
<1> QED
  BY <1>1, <1>2 DEF Follows, x

LEMMA FollowsDeleted ==
    ASSUME NEW m \in Nat, NEW d, Sound(d, m), NEW k, Names(d, k)
    PROVE  Follows(d, m, DelAnnot(d, k), m)
<1> DEFINE x == DelAnnot(d, k)
           a == d.keys[k]
<1>1. /\ Sound(x, m) /\ HasRead(x)
      /\ ToSet(x.pdf) = ToSet(d.pdf) \ {a.annot}
      /\ DOMAIN x.keys = DOMAIN d.keys \ {k}
      /\ \A j \in DOMAIN x.keys : x.keys[j] = d.keys[j]
  BY DeletedSound
<1>2. \A i, j \in DOMAIN d.keys : d.keys[i].annot = d.keys[j].annot => i = j
  BY SoundFacts
<1> HIDE DEF x
<1>3. ASSUME NEW e \in Entry, Own(d, e) PROVE Own(x, e)
  <2>1. CASE e.annot \in ToSet(x.pdf)
    <3>1. e.annot \in ToSet(d.pdf) /\ e.annot # a.annot
      BY <1>1, <2>1
    <3>2. e.key \in DOMAIN d.keys /\ d.keys[e.key].annot = e.annot
      BY <1>3, <3>1 DEF Own, Names
    <3>3. e.key # k
      BY <3>1, <3>2
    <3> QED
      BY <1>1, <3>2, <3>3, <2>1 DEF Own, Names
  <2>2. CASE e.annot \notin ToSet(x.pdf) /\ e.key \in DOMAIN x.keys
    <3>1. e.key \in DOMAIN d.keys /\ e.key # k /\ x.keys[e.key] = d.keys[e.key]
      BY <1>1, <2>2
    <3>2. e.annot \notin ToSet(d.pdf)
      <4> SUFFICES ASSUME e.annot \in ToSet(d.pdf) PROVE FALSE
        OBVIOUS
      <4>1. d.keys[e.key].annot = e.annot /\ e.annot = a.annot
        BY <1>1, <1>3, <2>2 DEF Own
      <4> QED
        BY <1>2, <3>1, <4>1 DEF Names
    <3> QED
      BY <1>3, <2>2, <3>1, <3>2 DEF Own, Names
  <2>3. CASE e.annot \notin ToSet(x.pdf) /\ e.key \notin DOMAIN x.keys
    BY <2>3 DEF Own, Names
  <2> QED
    BY <2>1, <2>2, <2>3
<1> QED
  BY <1>1, <1>3 DEF Follows, x

LEMMA FollowsBoth ==
    ASSUME NEW m \in Nat, NEW n \in Nat, m <= n, NEW d, NEW x, Follows(d, m, x, n)
    PROVE  Follows(d, m, GetForPage(x), n)
<1>1. Sound(x, n)
  BY DEF Follows
<1>2. Sound(GetForPage(x), n) /\ (HasRead(x) => GetForPage(x) = x)
  BY <1>1, ReadSound
<1> QED
  BY <1>2 DEF Follows

\* The entries of a list, by what they say.
LEMMA Listed ==
    ASSUME NEW m \in Nat, m <= MaxAnnot, NEW d, Sound(d, m), NEW n \in Epoch
    PROVE  \A e : e \in Entries(d, n) <=>
                     /\ e \in Entry /\ e.epoch = n
                     /\ Names(d, e.key) /\ d.keys[e.key].annot = e.annot
<1>1. /\ ToSet(d.pages) = {d.keys[k] : k \in DOMAIN d.keys}
      /\ \A k \in DOMAIN d.keys : d.keys[k].key = k
      /\ \A k \in DOMAIN d.keys : d.keys[k] \in Item(m) /\ k \in 0..m - 1
  <2>1. d.keys \in Table(m)
    BY SoundFacts
  <2>2. \A k \in DOMAIN d.keys : d.keys[k] \in Item(m) /\ k \in 0..m - 1
    BY <2>1, OfTable
  <2> QED
    BY <2>2, SoundFacts
<1>2. ASSUME NEW e \in Entries(d, n)
      PROVE  e \in Entry /\ e.epoch = n /\ Names(d, e.key) /\ d.keys[e.key].annot = e.annot
  <2>1. PICK p \in ToSet(d.pages) : e = [key |-> p.key, annot |-> p.annot, epoch |-> n]
    BY DEF Entries, Printed
  <2>2. PICK k \in DOMAIN d.keys : p = d.keys[k]
    BY <1>1
  <2>3. p.key = k /\ p.annot \in 1..m /\ k \in 0..m - 1
    BY <1>1, <2>2 DEF Item
  <2>4. k \in Key /\ p.annot \in Annot
    BY <2>3, AnnotAssumption DEF Key, Annot
  <2> QED
    BY <2>1, <2>2, <2>3, <2>4 DEF Entry, Names
<1>3. ASSUME NEW e \in Entry, e.epoch = n, Names(d, e.key), d.keys[e.key].annot = e.annot
      PROVE  e \in Entries(d, n)
  <2> DEFINE p == d.keys[e.key]
  <2>1. p \in ToSet(d.pages) /\ p.key = e.key /\ p.annot = e.annot
    BY <1>1, <1>3 DEF Names
  <2>2. e = [key |-> e.key, annot |-> e.annot, epoch |-> e.epoch]
    BY DEF Entry
  <2>3. e = [key |-> p.key, annot |-> p.annot, epoch |-> n]
    BY <1>3, <2>1, <2>2
  <2> QED
    BY <2>1, <2>3 DEF Entries, Printed
<1> QED
  BY <1>2, <1>3

LEMMA ListedOwn ==
    ASSUME NEW m \in Nat, m <= MaxAnnot, NEW d, Sound(d, m), NEW n \in Epoch,
           NEW e \in Entries(d, n)
    PROVE  e \in Entry /\ e.epoch = n /\ e.annot <= m /\ Own(d, e) /\ e.annot \in ToSet(d.pdf)
<1>1. e \in Entry /\ e.epoch = n /\ Names(d, e.key) /\ d.keys[e.key].annot = e.annot
  BY Listed
<1>2. d.keys[e.key] \in ToSet(d.pages)
  BY <1>1, SoundFacts DEF Names
<1>3. d.pages # <<>>
  <2>1. ToSet(<<>>) = {}
    BY DEF ToSet
  <2> QED
    BY <1>2, <2>1
<1>4. e.annot \in ToSet(d.pdf)
  <2>1. {a.annot : a \in ToSet(d.pages)} = ToSet(d.pdf)
    BY <1>3, SoundFacts
  <2>2. e.annot \in {a.annot : a \in ToSet(d.pages)}
    BY <1>1, <1>2
  <2> QED
    BY <2>1, <2>2
<1>5. e.annot \in 1..m
  <2>1. ToSet(d.pdf) \subseteq 1..m
    BY SoundFacts, InSet
  <2> QED
    BY <1>4, <2>1
<1> QED
  BY <1>1, <1>4, <1>5 DEF Own

\* The list after an addition, and after a deletion.
LEMMA ListedAdded ==
    ASSUME NEW m \in Nat, m + 1 <= MaxAnnot, NEW d, Sound(d, m), NEW n \in Epoch
    PROVE  LET x == AddAnnot(d, m + 1)
               e == CHOOSE y \in Entries(x, n) : y.annot = m + 1
           IN  /\ e \in Entries(x, n) /\ e.annot = m + 1
               /\ HasRead(d) => Entries(x, n) \ {e} = Entries(d, n)
<1> DEFINE g == GetForPage(d)
           x == AddAnnot(d, m + 1)
           k == NewKey(g)
           e == CHOOSE y \in Entries(x, n) : y.annot = m + 1
           y == [key |-> k, annot |-> m + 1, epoch |-> n]
<1>1. /\ Sound(x, m + 1)
      /\ k \notin DOMAIN g.keys
      /\ DOMAIN x.keys = DOMAIN g.keys \cup {k}
      /\ x.keys[k] = [annot |-> m + 1, key |-> k]
      /\ \A j \in DOMAIN g.keys : x.keys[j] = g.keys[j]
  BY AddedSound
<1> HIDE DEF x, k
<1>2. m <= MaxAnnot /\ m + 1 \in Nat /\ MaxAnnot \in Nat
  BY AnnotAssumption
<1>3. \A z : z \in Entries(x, n) <=> /\ z \in Entry /\ z.epoch = n
                                     /\ Names(x, z.key) /\ x.keys[z.key].annot = z.annot
  <2> DEFINE q == m + 1
  <2>1. q \in Nat /\ q <= MaxAnnot /\ Sound(x, q)
    BY <1>1, <1>2
  <2> HIDE DEF q
  <2> QED
    BY <2>1, Listed
<1>4. y \in Entries(x, n)
  <2>1. k \in 0..(m + 1) - 1
    BY <1>1, <1>2, SoundFacts, OfTable
  <2>2. y \in Entry
    BY <1>2, <2>1 DEF Entry, Key, Annot
  <2> QED
    BY <1>1, <1>3, <2>2 DEF Names
<1>5. e \in Entries(x, n) /\ e.annot = m + 1
  BY <1>4
<1> HIDE DEF e
<1>6. ASSUME HasRead(d) PROVE Entries(x, n) \ {e} = Entries(d, n)
  <2>1. g = d
    BY <1>6, ReadSound
  <2>2. \A z : z \in Entries(d, n) <=> /\ z \in Entry /\ z.epoch = n
                                       /\ Names(d, z.key) /\ d.keys[z.key].annot = z.annot
    BY <1>2, Listed
  <2>3. \A j \in DOMAIN d.keys : d.keys[j].annot # m + 1
    <3>1. \A j \in DOMAIN d.keys : d.keys[j] \in Item(m)
      BY SoundFacts, OfTable
    <3> QED
      BY <3>1 DEF Item
  <2>4. ASSUME NEW z \in Entries(d, n) PROVE z \in Entries(x, n) \ {e}
    <3>1. z.annot # m + 1
      BY <2>2, <2>3 DEF Names
    <3>2. z \in Entries(x, n)
      BY <1>1, <1>3, <2>1, <2>2 DEF Names
    <3> QED
      BY <1>5, <3>1, <3>2
  <2>5. ASSUME NEW z \in Entries(x, n), z # e PROVE z \in Entries(d, n)
    <3>1. z.key # k
      <4> SUFFICES ASSUME z.key = k PROVE FALSE
        OBVIOUS
      <4>1. z.annot = m + 1
        BY <1>1, <1>3
      <4>2. e.key = k
        <5>1. e.key \in DOMAIN g.keys \cup {k} /\ x.keys[e.key].annot = m + 1
          BY <1>1, <1>3, <1>5 DEF Names
        <5> QED
          BY <1>1, <2>1, <2>3, <5>1
      <4>3. /\ z = [key |-> z.key, annot |-> z.annot, epoch |-> z.epoch]
            /\ e = [key |-> e.key, annot |-> e.annot, epoch |-> e.epoch]
            /\ z.epoch = e.epoch
        BY <1>3, <1>5 DEF Entry
      <4> QED
        BY <1>5, <2>5, <4>1, <4>2, <4>3
    <3> QED
      BY <1>1, <1>3, <2>1, <2>2, <3>1 DEF Names
  <2> QED
    BY <2>4, <2>5
<1> QED
  BY <1>5, <1>6 DEF e, x

LEMMA ListedDeleted ==
    ASSUME NEW m \in Nat, m <= MaxAnnot, NEW d, Sound(d, m), NEW n \in Epoch,
           NEW e \in Entries(d, n)
    PROVE  Entries(DelAnnot(d, e.key), n) = Entries(d, n) \ {e}
<1> DEFINE x == DelAnnot(d, e.key)
<1>1. \A z : z \in Entries(d, n) <=> /\ z \in Entry /\ z.epoch = n
                                     /\ Names(d, z.key) /\ d.keys[z.key].annot = z.annot
  BY Listed
<1>2. /\ Sound(x, m)
      /\ DOMAIN x.keys = DOMAIN d.keys \ {e.key}
      /\ \A j \in DOMAIN x.keys : x.keys[j] = d.keys[j]
  BY <1>1, DeletedSound
<1> HIDE DEF x
<1>3. \A z : z \in Entries(x, n) <=> /\ z \in Entry /\ z.epoch = n
                                     /\ Names(x, z.key) /\ x.keys[z.key].annot = z.annot
  BY <1>2, Listed
<1>4. \A z \in Entries(d, n) : z.key = e.key => z = e
  <2> SUFFICES ASSUME NEW z \in Entries(d, n), z.key = e.key PROVE z = e
    OBVIOUS
  <2>1. /\ z = [key |-> z.key, annot |-> z.annot, epoch |-> z.epoch]
        /\ e = [key |-> e.key, annot |-> e.annot, epoch |-> e.epoch]
    BY <1>1 DEF Entry
  <2>2. z.annot = e.annot /\ z.epoch = e.epoch
    BY <1>1
  <2> QED
    BY <2>1, <2>2
<1>5. \A z : z \in Entries(x, n) <=> z \in Entries(d, n) /\ z.key # e.key
  BY <1>1, <1>2, <1>3 DEF Names
<1> QED
  BY <1>4, <1>5 DEF x

-----------------------------------------------------------------------------
(***************************************************************************)
(* The invariants.                                                         *)
(***************************************************************************)

\* The document and the file have some of the annotations made.
DocInv ==
    /\ made \in 0..MaxAnnot
    /\ file \in Seq(1..made) /\ IsInjective(file)
    /\ Sound(doc, made)
    /\ epoch \in Epoch
    /\ open \in BOOLEAN /\ (open => epoch >= 1)

\* An entry the client holds is of this opening or an earlier one, and in
\* this one it names its own.
Kept(e) ==
    /\ e \in Entry /\ e.epoch <= epoch /\ e.annot <= made
    /\ open /\ e.epoch = epoch => HasRead(doc) /\ Own(doc, e)

HeldInv == \A e \in Held : Kept(e)

\* Nothing that was kept is disturbed.
KeepsAll == \A e \in Entry : Kept(e) => Kept(e)'

ListedInv ==
    /\ listed \in 0..epoch
    /\ open /\ listed = epoch => HasRead(doc)

\* A function that waits has something to do.  One that has added an
\* annotation still finds it, unless the document was closed meanwhile; one
\* that has deleted something has set the modified flag.
Adding == task.kind \in {"edit", "undo"}
First == Head(task.with)
AddedHere == Adding /\ First.epoch = epoch
TaskInv ==
    /\ task \in [kind : {"none", "edit", "undo", "delete"}, with : Seq(Entry),
                 delayed : BOOLEAN]
    /\ (task.with = <<>>) = Idle
    /\ Adding => Len(task.with) = 1 /\ ~task.delayed
    /\ open /\ AddedHere => First.annot \in ToSet(doc.pdf)
    /\ task.delayed => modified /\ task.kind = "delete"

FlagsInv == {touched, modified, lost, crossed} \subseteq BOOLEAN

\* The list lacks what a waiting function has added, and has what one has
\* deleted.
NoError == ~lost /\ ~crossed
ListInv ==
    open /\ listed = epoch /\ NoError /\ ~task.delayed =>
        rows = Entries(doc, epoch) \ (IF AddedHere THEN {First} ELSE {})

\* Without the modified flag, the document has the annotations of the file,
\* and one that a waiting function has added.
FileInv ==
    open /\ ~modified /\ ~touched /\ NoError =>
        doc.pdf = IF AddedHere THEN Append(file, First.annot) ELSE file

AnnotInv ==
    DocInv /\ HeldInv /\ ListedInv /\ TaskInv /\ FlagsInv /\ ListInv /\ FileInv

-----------------------------------------------------------------------------
(***************************************************************************)
(* What the parts of actions do to the document.                           *)
(***************************************************************************)

\* What a query finds
LEMMA Found ==
    ASSUME DocInv, CanOpen
    PROVE  /\ Sound(Opened, made) /\ Opening \in Epoch /\ Opening >= 1 /\ epoch <= Opening
           /\ made \in Nat /\ made <= MaxAnnot
           /\ Opening = epoch => open /\ Opened = doc
           /\ ~open => Opened.pdf = file /\ Opened.keys = <<>>
           /\ open => Opened = doc /\ Opening = epoch
<1>1. made \in Nat /\ made <= MaxAnnot /\ epoch \in Nat /\ epoch <= MaxEpoch /\ MaxEpoch \in Nat
  BY AnnotAssumption DEF DocInv, Epoch
<1>2. CASE open
  BY <1>1, <1>2 DEF DocInv, Opened, Opening
<1>3. CASE ~open
  <2>1. Opened = Loaded(file) /\ Opening = epoch + 1 /\ epoch < MaxEpoch
    BY <1>3 DEF Opened, Opening, CanOpen
  <2>2. Sound(Loaded(file), made) /\ Loaded(file).pdf = file /\ Loaded(file).keys = <<>>
    BY <1>1, LoadedSound DEF DocInv
  <2>3. Opening \in Epoch /\ Opening >= 1 /\ epoch <= Opening /\ Opening # epoch
    BY <1>1, <2>1 DEF Epoch
  <2> QED
    BY <1>1, <1>3, <2>1, <2>2, <2>3
<1> QED
  BY <1>2, <1>3

\* A query that leaves what follows from what it found
LEMMA LeavesKeeps ==
    ASSUME DocInv, CanOpen, NEW x, Leaves(x), Follows(Opened, made, x, made'),
           made' \in made..MaxAnnot, file' = file
    PROVE  DocInv' /\ KeepsAll /\ open' /\ doc' = x /\ epoch' = Opening
<1>1. open' = TRUE /\ doc' = x /\ epoch' = Opening
  BY DEF Leaves
<1>2. /\ Sound(Opened, made) /\ Opening \in Epoch /\ Opening >= 1 /\ epoch <= Opening
      /\ made \in Nat /\ made <= MaxAnnot
      /\ Opening = epoch => open /\ Opened = doc
  BY Found
<1>3. made' \in Nat /\ made <= made' /\ made' \in 0..MaxAnnot
  BY <1>2, AnnotAssumption
<1>4. file \in Seq(1..made') /\ IsInjective(file)
  <2>1. 1..made \subseteq 1..made'
    BY <1>2, <1>3
  <2> QED
    BY <2>1, SeqMonotonic DEF DocInv
<1>5. DocInv'
  BY <1>1, <1>2, <1>3, <1>4 DEF DocInv, Follows
<1>6. ASSUME NEW e \in Entry, Kept(e) PROVE Kept(e)'
  <2>1. e.epoch \in Nat /\ e.annot \in Nat /\ epoch \in Nat /\ Opening \in Nat
    BY <1>2 DEF Entry, Epoch, Annot, DocInv
  <2>2. e.epoch <= Opening /\ e.annot <= made'
    BY <1>2, <1>3, <1>6, <2>1 DEF Kept
  <2>3. ASSUME e.epoch = Opening PROVE HasRead(x) /\ Own(x, e)
    <3>1. Opening = epoch
      BY <1>2, <1>6, <2>1, <2>3 DEF Kept
    <3>2. open /\ Opened = doc
      BY <1>2, <3>1
    <3>3. HasRead(Opened) /\ Own(Opened, e) /\ e.annot <= made
      BY <1>6, <2>3, <3>1, <3>2 DEF Kept
    <3> QED
      BY <3>3 DEF Follows
  <2> QED
    BY <1>1, <2>2, <2>3 DEF Kept
<1> QED
  BY <1>1, <1>5, <1>6 DEF KeepsAll

\* The document is closed, and perhaps opened anew.
LEMMA ClosedKeeps ==
    ASSUME DocInv, Closed, made' = made, file' \in Seq(1..made), IsInjective(file')
    PROVE  DocInv' /\ KeepsAll /\ ~open' /\ epoch' = epoch
<1>1. open' = FALSE /\ doc' = Loaded(<<>>) /\ epoch' = epoch
  BY DEF Closed
<1>2. Sound(Loaded(<<>>), made)
  <2>1. <<>> \in Seq(1..made) /\ IsInjective(<<>>) /\ made \in Nat
    BY DEF IsInjective, DocInv
  <2> QED
    BY <2>1, LoadedSound
<1>3. DocInv'
  BY <1>1, <1>2 DEF DocInv
<1>4. KeepsAll
  BY <1>1 DEF KeepsAll, Kept
<1> QED
  BY <1>1, <1>3, <1>4

LEMMA ReopenedKeeps ==
    ASSUME DocInv, NEW p \in Seq(1..made), IsInjective(p), Reopened(p),
           made' = made, file' \in Seq(1..made), IsInjective(file')
    PROVE  /\ DocInv' /\ KeepsAll /\ open' /\ epoch' = epoch + 1 /\ epoch' \in Nat
           /\ doc'.pdf = p /\ HasRead(doc)'
           /\ listed' = epoch' /\ rows' = Entries(doc', epoch')
           /\ \A e \in rows' : Kept(e)'
<1>1. /\ epoch < MaxEpoch /\ open' = TRUE /\ epoch' = epoch + 1
      /\ doc' = GetForPage(Loaded(p))
      /\ listed' = epoch' /\ rows' = Entries(doc', epoch')
  BY DEF Reopened
<1>2. made \in Nat /\ made <= MaxAnnot /\ epoch \in Nat /\ MaxEpoch \in Nat
  BY AnnotAssumption DEF DocInv, Epoch
<1>3. Sound(doc', made) /\ HasRead(doc') /\ doc'.pdf = p
  <2>1. Sound(Loaded(p), made) /\ Loaded(p).pdf = p
    BY <1>2, LoadedSound
  <2> QED
    BY <1>1, <1>2, <2>1, ReadSound
<1>4. epoch' \in Epoch /\ epoch' >= 1 /\ epoch' \in Nat
  BY <1>1, <1>2 DEF Epoch
<1>5. DocInv'
  BY <1>1, <1>3, <1>4 DEF DocInv
<1>6. KeepsAll
  <2> SUFFICES ASSUME NEW e \in Entry, Kept(e) PROVE Kept(e)'
    BY DEF KeepsAll
  <2>1. e.epoch \in Nat /\ e.epoch <= epoch
    BY DEF Kept, Entry, Epoch
  <2>2. e.epoch <= epoch' /\ e.epoch # epoch'
    BY <1>1, <1>2, <2>1
  <2> QED
    BY <2>2 DEF Kept
<1>7. ASSUME NEW e \in rows' PROVE Kept(e)'
  <2>1. e \in Entries(doc', epoch')
    BY <1>1, <1>7
  <2>2. e \in Entry /\ e.epoch = epoch' /\ e.annot <= made /\ Own(doc', e)
    BY <1>2, <1>3, <1>4, <2>1, ListedOwn
  <2> QED
    BY <1>3, <1>4, <2>2 DEF Kept
<1> QED
  BY <1>1, <1>3, <1>4, <1>5, <1>6, <1>7

\* The list is read anew.
LEMMA ReadAnew ==
    ASSUME DocInv, CanOpen,
           NEW x, Leaves(GetForPage(x)), listed' = Opening,
           rows' = Entries(GetForPage(x), Opening),
           Follows(Opened, made, x, made'), made' \in made..MaxAnnot, file' = file
    PROVE  /\ DocInv' /\ KeepsAll /\ open' /\ epoch' = Opening
           /\ doc'.pdf = x.pdf /\ Follows(Opened, made, doc', made')
           /\ HasRead(x) => doc' = x
           /\ ListedInv'
           /\ rows' = Entries(doc', epoch')
           /\ \A e \in rows' : Kept(e)'
<1> DEFINE g == GetForPage(x)
<1>1. /\ Sound(Opened, made) /\ Opening \in Epoch /\ Opening >= 1 /\ epoch <= Opening
      /\ made \in Nat /\ made <= MaxAnnot
  BY Found
<1>2. made' \in Nat /\ made <= made' /\ made' <= MaxAnnot
  BY <1>1, AnnotAssumption
<1>3. Follows(Opened, made, g, made')
  BY <1>1, <1>2, FollowsBoth
<1>4. Sound(g, made') /\ HasRead(g) /\ g.pdf = x.pdf /\ (HasRead(x) => g = x)
  BY <1>2, ReadSound DEF Follows
<1>5. Leaves(g) /\ rows' = Entries(g, Opening)
  OBVIOUS
<1> HIDE DEF g
<1>6. DocInv' /\ KeepsAll /\ open' /\ doc' = g /\ epoch' = Opening
  BY <1>3, <1>5, LeavesKeeps
<1>7. ASSUME NEW e \in rows' PROVE Kept(e)'
  <2>1. e \in Entries(g, Opening)
    BY <1>5, <1>7
  <2>2. e \in Entry /\ e.epoch = Opening /\ e.annot <= made' /\ Own(g, e)
    BY <1>1, <1>2, <1>4, <2>1, ListedOwn
  <2>3. Opening <= Opening
    BY <1>1 DEF Epoch
  <2> QED
    BY <1>4, <1>6, <2>2, <2>3 DEF Kept
<1>8. ListedInv'
  <2>1. Opening \in 0..Opening
    BY <1>1 DEF Epoch
  <2> QED
    BY <1>4, <1>6, <2>1 DEF ListedInv
<1> QED
  BY <1>3, <1>4, <1>5, <1>6, <1>7, <1>8

\* The hooks: the list, if there is one, is that of the document.
LEMMA HooksKeep ==
    ASSUME DocInv, ListedInv, HeldInv, CanOpen,
           NEW x, RunModifiedHooks(x), Follows(Opened, made, x, made'),
           made' \in made..MaxAnnot, file' = file
    PROVE  /\ DocInv' /\ KeepsAll /\ open' /\ epoch' = Opening
           /\ doc'.pdf = x.pdf /\ Follows(Opened, made, doc', made')
           /\ HasRead(x) => doc' = x
           /\ ListedInv'
           /\ listed' = epoch' => rows' = Entries(doc', epoch')
           /\ \A e \in rows' : Kept(e)'
<1>1. /\ Sound(Opened, made) /\ Opening \in Epoch /\ Opening >= 1 /\ epoch <= Opening
      /\ made \in Nat /\ made <= MaxAnnot
  BY Found
<1>2. made' \in Nat /\ made <= made' /\ made' <= MaxAnnot
  BY <1>1, AnnotAssumption
<1>3. CASE listed = 0
  <2>1. Leaves(x) /\ listed' = listed /\ rows' = rows
    BY <1>3 DEF RunModifiedHooks, listVars
  <2>2. DocInv' /\ KeepsAll /\ open' /\ doc' = x /\ epoch' = Opening
    BY <2>1, LeavesKeeps
  <2>3. listed' # epoch' /\ listed' \in 0..epoch'
    BY <1>1, <1>3, <2>1, <2>2 DEF Epoch
  <2>4. \A e \in rows' : Kept(e)'
    BY <2>1, <2>2 DEF HeldInv, Held, KeepsAll, Kept
  <2> QED
    BY <2>2, <2>3, <2>4 DEF ListedInv
<1>4. CASE listed # 0
  <2>1. Leaves(GetForPage(x)) /\ listed' = Opening /\ rows' = Entries(GetForPage(x), Opening)
    BY <1>4 DEF RunModifiedHooks
  <2> QED
    BY <2>1, ReadAnew
<1> QED
  BY <1>3, <1>4

\* The entries of a waiting function are held.
LEMMA FirstHeld ==
    ASSUME TaskInv, HeldInv, ~Idle
    PROVE  First \in Held /\ Kept(First) /\ task.with # <<>> /\ task.with \in Seq(Entry)
<1>1. task.with \in Seq(Entry) /\ task.with # <<>>
  BY DEF TaskInv
<1>2. First = task.with[1] /\ 1 \in 1..Len(task.with)
  BY <1>1, HeadTail DEF First
<1>3. First \in ToSet(task.with)
  BY <1>1, <1>2, InSet
<1> QED
  BY <1>1, <1>3 DEF Held, HeldInv

LEMMA HeldNext ==
    ASSUME HeldInv, KeepsAll, \A e \in Held' : e \in Held \/ Kept(e)'
    PROVE  HeldInv'
BY DEF HeldInv, KeepsAll, Kept

\* If there is no error, a function that had added an annotation to the open
\* document still waits, and no other.
SameAdded ==
    NoError' => \/ Adding /\ Adding' /\ First' = First
                \/ ~(open /\ AddedHere) /\ ~Adding'

LEMMA AddedSame ==
    ASSUME DocInv, HeldInv, TaskInv, CanOpen, SameAdded, NoError', epoch' = Opening
    PROVE  /\ AddedHere' <=> open /\ AddedHere
           /\ AddedHere' => First' = First
<1>1. CASE Adding /\ Adding' /\ First' = First
  <2>1. First.epoch <= epoch /\ First.epoch \in Nat
    BY <1>1, FirstHeld DEF Kept, Entry, Epoch, Adding, Idle
  <2>2. /\ epoch <= Opening /\ (Opening = epoch => open) /\ (open => Opening = epoch)
        /\ epoch \in Nat /\ Opening \in Nat
    BY Found DEF DocInv, Epoch
  <2>3. First.epoch = Opening <=> open /\ First.epoch = epoch
    BY <2>1, <2>2
  <2> QED
    BY <1>1, <2>3 DEF AddedHere
<1>2. CASE ~(open /\ AddedHere) /\ ~Adding'
  BY <1>2 DEF AddedHere
<1> QED
  BY <1>1, <1>2 DEF SameAdded

\* What stays true when the annotations of the document do, and the file.
LEMMA SameFile ==
    ASSUME AnnotInv, CanOpen, SameAdded, NoError' => NoError,
           epoch' = Opening, doc'.pdf = Opened.pdf,
           file' = file, touched' = touched, modified' \/ modified' = modified
    PROVE  FileInv'
<1> SUFFICES ASSUME ~modified', ~touched', NoError'
             PROVE  doc'.pdf = IF AddedHere' THEN Append(file, First'.annot) ELSE file
  BY DEF FileInv
<1>1. /\ AddedHere' <=> open /\ AddedHere
      /\ AddedHere' => First' = First
  BY AddedSame DEF AnnotInv
<1>2. ~modified /\ ~touched /\ NoError
  OBVIOUS
<1>3. CASE open
  <2>1. Opened = doc
    BY <1>3, Found DEF AnnotInv
  <2> QED
    BY <1>1, <1>2, <1>3, <2>1 DEF AnnotInv, FileInv
<1>4. CASE ~open
  BY <1>1, <1>4, Found DEF AnnotInv
<1> QED
  BY <1>3, <1>4

\* What stays true when the list does.
LEMMA SameList ==
    ASSUME AnnotInv, CanOpen, SameAdded, NoError' => NoError,
           epoch' = Opening, HasRead(Opened) => doc' = Opened,
           listed' = listed, rows' = rows, task'.delayed = task.delayed
    PROVE  ListedInv' /\ ListInv'
<1>1. listed \in 0..epoch /\ epoch \in Nat /\ Opening \in Nat /\ epoch <= Opening
  BY Found DEF AnnotInv, ListedInv, DocInv, Epoch
<1>2. listed' \in 0..epoch'
  BY <1>1
<1>3. ASSUME listed' = epoch'
      PROVE  open /\ listed = epoch /\ epoch' = epoch /\ HasRead(doc) /\ doc' = doc
  <2>1. Opening = epoch /\ listed = epoch
    BY <1>1, <1>3
  <2>2. open /\ Opened = doc
    BY <2>1, Found DEF AnnotInv
  <2> QED
    BY <2>1, <2>2 DEF AnnotInv, ListedInv
<1>4. ASSUME listed' = epoch', NoError', ~task'.delayed
      PROVE  rows' = Entries(doc', epoch') \ (IF AddedHere' THEN {First'} ELSE {})
  <2>1. /\ AddedHere' <=> open /\ AddedHere
        /\ AddedHere' => First' = First
    BY <1>4, AddedSame DEF AnnotInv
  <2>2. rows = Entries(doc, epoch) \ (IF AddedHere THEN {First} ELSE {})
    BY <1>3, <1>4 DEF AnnotInv, ListInv
  <2> QED
    BY <1>3, <1>4, <2>1, <2>2
<1>5. ListInv'
  BY <1>4 DEF ListInv
<1> QED
  BY <1>2, <1>3, <1>5 DEF ListedInv

-----------------------------------------------------------------------------
(***************************************************************************)
(* The task, in the steps of the functions.                                *)
(***************************************************************************)

LEMMA IdleStays ==
    ASSUME TaskInv, Idle, task' = task
    PROVE  /\ TaskInv' /\ Idle' /\ SameAdded
           /\ ~Adding /\ ~Adding' /\ ~task.delayed /\ ~task'.delayed
<1>1. ~Adding /\ ~task.delayed /\ ~Adding' /\ ~task'.delayed
  BY DEF TaskInv, Adding, Idle
<1> QED
  BY <1>1 DEF TaskInv, AddedHere, Adding, Idle, SameAdded

LEMMA TaskEnds ==
    ASSUME task' = NoTask
    PROVE  /\ TaskInv' /\ Idle' /\ ~Adding' /\ ~task'.delayed
           /\ ToSet(task'.with) = {}
<1>1. /\ task'.kind = "none" /\ task'.with = <<>> /\ task'.delayed = FALSE
      /\ task' \in [kind : {"none", "edit", "undo", "delete"}, with : Seq(Entry),
                    delayed : BOOLEAN]
  BY DEF NoTask
<1>2. ToSet(<<>>) = {}
  BY DEF ToSet
<1> QED
  BY <1>1, <1>2 DEF TaskInv, AddedHere, Adding, Idle

LEMMA WaitsToDelete ==
    ASSUME NEW w \in Seq(Entry), w # <<>>, NEW b \in BOOLEAN,
           Waits("delete", w, b), b => modified'
    PROVE  TaskInv' /\ ~Adding' /\ task'.with = w /\ task'.delayed = b
<1>1. /\ task'.kind = "delete" /\ task'.with = w /\ task'.delayed = b
      /\ task' \in [kind : {"none", "edit", "undo", "delete"}, with : Seq(Entry),
                    delayed : BOOLEAN]
  BY DEF Waits
<1> QED
  BY <1>1 DEF TaskInv, AddedHere, Adding, Idle

LEMMA WaitsWithAdded ==
    ASSUME NEW k \in {"edit", "undo"}, NEW w \in Seq(Entry), Len(w) = 1,
           Waits(k, w, FALSE),
           open' /\ Head(w).epoch = epoch' => Head(w).annot \in ToSet(doc'.pdf)
    PROVE  TaskInv' /\ Adding' /\ task'.with = w /\ ~task'.delayed /\ First' = Head(w)
<1>1. /\ task'.kind = k /\ task'.with = w /\ task'.delayed = FALSE
      /\ task' \in [kind : {"none", "edit", "undo", "delete"}, with : Seq(Entry),
                    delayed : BOOLEAN]
  BY DEF Waits
<1>2. w # <<>>
  BY EmptySeq
<1> QED
  BY <1>1, <1>2 DEF TaskInv, AddedHere, Adding, Idle, First

\* A waiting function is not disturbed by a query that changes nothing.
LEMMA TaskStays ==
    ASSUME AnnotInv, CanOpen, task' = task, modified' = modified,
           epoch' = Opening, doc'.pdf = Opened.pdf
    PROVE  TaskInv' /\ SameAdded
<1>1. SameAdded
  <2>1. Adding' = Adding /\ First' = First
    BY DEF Adding, First
  <2> QED
    BY <2>1 DEF SameAdded, AddedHere
<1>2. ASSUME AddedHere' PROVE First'.annot \in ToSet(doc'.pdf)
  <2>1. Adding /\ First' = First /\ First.epoch = Opening
    BY <1>2 DEF AddedHere, Adding, First
  <2>2. First.epoch <= epoch /\ First.epoch \in Nat
    BY <2>1, FirstHeld DEF Kept, Entry, Epoch, Adding, Idle, AnnotInv
  <2>3. Opening = epoch
    BY <2>1, <2>2, Found DEF AnnotInv, DocInv, Epoch
  <2>4. open /\ Opened = doc
    BY <2>3, Found DEF AnnotInv
  <2> QED
    BY <2>1, <2>3, <2>4 DEF AnnotInv, TaskInv, AddedHere
<1>3. TaskInv'
  BY <1>2 DEF AnnotInv, TaskInv, Adding, Idle
<1> QED
  BY <1>1, <1>3

-----------------------------------------------------------------------------
(***************************************************************************)
(* Each step keeps the invariants.                                         *)
(***************************************************************************)

LEMMA InitAnnot == Init => AnnotInv
<1> SUFFICES ASSUME Init PROVE AnnotInv
  OBVIOUS
<1>1. /\ file \in {<<>>, <<1>>, <<1, 2>>} /\ made = Len(file)
      /\ touched = FALSE /\ open = FALSE /\ doc = Loaded(<<>>) /\ epoch = 0
      /\ modified = FALSE /\ listed = 0 /\ rows = {} /\ edit = {}
      /\ task = NoTask
      /\ lost = FALSE /\ crossed = FALSE
  BY DEF Init
<1>2. made \in 0..MaxAnnot /\ file \in Seq(1..made) /\ IsInjective(file)
  <2>1. 0 \in 0..MaxAnnot /\ 1 \in 0..MaxAnnot /\ 2 \in 0..MaxAnnot
    BY AnnotAssumption
  <2>2. CASE file = <<>>
    <3>1. made = 0 /\ <<>> \in Seq(1..0) /\ IsInjective(<<>>)
      BY <1>1, <2>2 DEF IsInjective
    <3> QED
      BY <2>1, <2>2, <3>1
  <2>3. CASE file = <<1>>
    <3>1. made = 1 /\ <<1>> \in Seq(1..1) /\ DOMAIN <<1>> = {1}
      BY <1>1, <2>3
    <3> QED
      BY <2>1, <2>3, <3>1 DEF IsInjective
  <2>4. CASE file = <<1, 2>>
    <3>1. made = 2 /\ <<1, 2>> \in Seq(1..2)
      BY <1>1, <2>4
    <3>2. IsInjective(<<1, 2>>)
      <4>1. \A i \in DOMAIN <<1, 2>> : <<1, 2>>[i] = i
        OBVIOUS
      <4> QED
        BY <4>1 DEF IsInjective
    <3> QED
      BY <2>1, <2>4, <3>1, <3>2
  <2> QED
    BY <1>1, <2>2, <2>3, <2>4
<1>3. Sound(doc, made)
  <2>1. <<>> \in Seq(1..made) /\ IsInjective(<<>>) /\ made \in Nat
    BY <1>2 DEF IsInjective
  <2> QED
    BY <1>1, <2>1, LoadedSound
<1>4. DocInv /\ ListedInv /\ FlagsInv
  <2>1. epoch \in Epoch /\ listed \in 0..epoch
    BY <1>1, AnnotAssumption DEF Epoch
  <2>4. ~open /\ open \in BOOLEAN
    BY <1>1
  <2>2. DocInv
    BY <1>2, <1>3, <2>1, <2>4 DEF DocInv
  <2>3. FlagsInv
    BY <1>1 DEF FlagsInv
  <2> QED
    BY <2>1, <2>2, <2>3, <2>4 DEF ListedInv
<1>5. TaskInv /\ ToSet(task.with) = {}
  <2>1. task.with = <<>> /\ ToSet(<<>>) = {}
    BY <1>1 DEF NoTask, ToSet
  <2> QED
    BY <1>1, <2>1 DEF TaskInv, NoTask, AddedHere, Adding, Idle
<1>6. HeldInv
  BY <1>1, <1>5 DEF HeldInv, Held
<1> QED
  BY <1>1, <1>4, <1>5, <1>6 DEF AnnotInv, ListInv, FileInv

LEMMA GetAnnotsKeeps ==
    ASSUME AnnotInv, GetAnnots PROVE AnnotInv'
<1> DEFINE x == GetForPage(Opened)
<1>1. /\ CanOpen /\ Leaves(x)
      /\ file' = file /\ touched' = touched /\ made' = made /\ modified' = modified
      /\ listed' = listed /\ rows' = rows /\ edit' = edit /\ task' = task
      /\ lost' = lost /\ crossed' = crossed
  BY DEF GetAnnots, clientVars, listVars
<1>2. Sound(Opened, made) /\ made \in Nat /\ made' \in made..MaxAnnot
  BY <1>1, Found, AnnotAssumption DEF AnnotInv
<1>3. x.pdf = Opened.pdf /\ (HasRead(Opened) => x = Opened) /\ Follows(Opened, made, x, made')
  BY <1>1, <1>2, ReadSound, FollowsRead
<1> HIDE DEF x
<1>4. DocInv' /\ KeepsAll /\ doc' = x /\ epoch' = Opening
  BY <1>1, <1>2, <1>3, LeavesKeeps DEF AnnotInv
<1>5. TaskInv' /\ SameAdded
  BY <1>1, <1>3, <1>4, TaskStays
<1>6. NoError' => NoError
  BY <1>1 DEF NoError
<1>7. ListedInv' /\ ListInv'
  BY <1>1, <1>3, <1>4, <1>5, <1>6, SameList
<1>8. FileInv'
  BY <1>1, <1>3, <1>4, <1>5, <1>6, SameFile
<1>9. HeldInv'
  <2>1. Held' = Held
    BY <1>1 DEF Held
  <2> QED
    BY <1>4, <2>1, HeldNext DEF AnnotInv
<1>10. FlagsInv'
  BY <1>1 DEF AnnotInv, FlagsInv
<1> QED
  BY <1>4, <1>5, <1>7, <1>8, <1>9, <1>10 DEF AnnotInv

LEMMA ListAnnotationsKeeps ==
    ASSUME AnnotInv, ListAnnotations PROVE AnnotInv'
<1>1. /\ Idle /\ CanOpen
      /\ Leaves(GetForPage(Opened)) /\ listed' = Opening
      /\ rows' = Entries(GetForPage(Opened), Opening)
      /\ file' = file /\ touched' = touched /\ made' = made /\ modified' = modified
      /\ edit' = edit /\ task' = task /\ lost' = lost /\ crossed' = crossed
  BY DEF ListAnnotations
<1>2. Sound(Opened, made) /\ made \in Nat /\ made' \in made..MaxAnnot
  BY <1>1, Found, AnnotAssumption DEF AnnotInv
<1>3. Follows(Opened, made, Opened, made')
  BY <1>1, <1>2, FollowsSame
<1>4. /\ DocInv' /\ KeepsAll /\ open' /\ epoch' = Opening /\ doc'.pdf = Opened.pdf
      /\ ListedInv' /\ rows' = Entries(doc', epoch') /\ \A e \in rows' : Kept(e)'
  BY <1>1, <1>2, <1>3, ReadAnew DEF AnnotInv
<1>5. TaskInv' /\ SameAdded /\ ~Adding'
  BY <1>1, IdleStays DEF AnnotInv
<1>6. ListInv'
  BY <1>4, <1>5 DEF ListInv, AddedHere
<1>7. FileInv'
  <2>1. NoError' => NoError
    BY <1>1 DEF NoError
  <2> QED
    BY <1>1, <1>4, <1>5, <2>1, SameFile
<1>8. HeldInv'
  BY <1>1, <1>4, HeldNext DEF Held, AnnotInv
<1>9. FlagsInv'
  BY <1>1 DEF AnnotInv, FlagsInv
<1> QED
  BY <1>4, <1>5, <1>6, <1>7, <1>8, <1>9 DEF AnnotInv

LEMMA EditContentsKeeps ==
    ASSUME AnnotInv, EditContents PROVE AnnotInv'
<1> DEFINE x == GetForPage(Opened)
<1>1. /\ Idle /\ CanOpen /\ Leaves(x)
      /\ \E e \in Entries(x, Opening) : edit' = {e}
      /\ file' = file /\ touched' = touched /\ made' = made /\ modified' = modified
      /\ listed' = listed /\ rows' = rows /\ task' = task
      /\ lost' = lost /\ crossed' = crossed
  BY DEF EditContents, listVars
<1>2. /\ Sound(Opened, made) /\ made \in Nat /\ made <= MaxAnnot /\ made' \in made..MaxAnnot
      /\ Opening \in Epoch /\ Opening \in Nat
  BY <1>1, Found, AnnotAssumption DEF AnnotInv, Epoch
<1>3. /\ x.pdf = Opened.pdf /\ (HasRead(Opened) => x = Opened) /\ HasRead(x)
      /\ Follows(Opened, made, x, made') /\ Sound(x, made)
  BY <1>1, <1>2, ReadSound, FollowsRead
<1> HIDE DEF x
<1>4. DocInv' /\ KeepsAll /\ doc' = x /\ epoch' = Opening
  BY <1>1, <1>2, <1>3, LeavesKeeps DEF AnnotInv
<1>5. TaskInv' /\ SameAdded /\ ~Adding'
  BY <1>1, IdleStays DEF AnnotInv
<1>6. NoError' => NoError
  BY <1>1 DEF NoError
<1>7. ListedInv' /\ ListInv'
  BY <1>1, <1>3, <1>4, <1>5, <1>6, SameList
<1>8. FileInv'
  BY <1>1, <1>3, <1>4, <1>5, <1>6, SameFile
<1>9. HeldInv'
  <2>1. ASSUME NEW e \in Entries(x, Opening) PROVE Kept(e)'
    <3>1. e \in Entry /\ e.epoch = Opening /\ e.annot <= made /\ Own(x, e)
      BY <1>2, <1>3, <2>1, ListedOwn
    <3> QED
      BY <1>1, <1>2, <1>3, <1>4, <3>1 DEF Kept
  <2> QED
    BY <1>1, <1>4, <2>1, HeldNext DEF Held, AnnotInv
<1>10. FlagsInv'
  BY <1>1 DEF AnnotInv, FlagsInv
<1> QED
  BY <1>4, <1>5, <1>7, <1>8, <1>9, <1>10 DEF AnnotInv

LEMMA CommitKeeps ==
    ASSUME AnnotInv, NEW e \in edit, Commit(e) PROVE AnnotInv'
<1>1. /\ Idle /\ CanOpen
      /\ crossed' = (crossed \/ (e.epoch # Opening /\ Names(Opened, e.key)))
      /\ file' = file /\ touched' = touched /\ made' = made
      /\ edit' = edit /\ task' = task /\ lost' = lost
  BY DEF Commit, Crosses
<1>2. Sound(Opened, made) /\ made \in Nat /\ made' \in made..MaxAnnot
  BY <1>1, Found, AnnotAssumption DEF AnnotInv
<1>3. Follows(Opened, made, Opened, made')
  BY <1>1, <1>2, FollowsSame
<1>4. TaskInv' /\ SameAdded /\ ~Adding'
  BY <1>1, IdleStays DEF AnnotInv
<1>5. NoError' => NoError
  BY <1>1 DEF NoError
<1>6. CASE Names(Opened, e.key)
  <2>1. RunModifiedHooks(Opened) /\ modified' = TRUE
    BY <1>6 DEF Commit
  <2>2. /\ DocInv' /\ KeepsAll /\ ListedInv'
        /\ listed' = epoch' => rows' = Entries(doc', epoch')
        /\ \A y \in rows' : Kept(y)'
    BY <1>1, <1>2, <1>3, <2>1, HooksKeep DEF AnnotInv
  <2>3. ListInv' /\ FileInv'
    BY <1>4, <2>1, <2>2 DEF ListInv, FileInv, AddedHere
  <2>4. HeldInv'
    BY <1>1, <2>2, HeldNext DEF Held, AnnotInv
  <2>5. FlagsInv'
    BY <1>1, <2>1 DEF AnnotInv, FlagsInv
  <2> QED
    BY <1>4, <2>2, <2>3, <2>4, <2>5 DEF AnnotInv
<1>7. CASE ~Names(Opened, e.key)
  <2>1. Leaves(Opened) /\ listed' = listed /\ rows' = rows /\ modified' = modified
    BY <1>7 DEF Commit, listVars
  <2>2. DocInv' /\ KeepsAll /\ doc' = Opened /\ epoch' = Opening
    BY <1>1, <1>2, <1>3, <2>1, LeavesKeeps DEF AnnotInv
  <2>3. ListedInv' /\ ListInv'
    BY <1>1, <1>4, <1>5, <2>1, <2>2, SameList
  <2>4. FileInv'
    BY <1>1, <1>4, <1>5, <2>1, <2>2, SameFile
  <2>5. HeldInv'
    BY <1>1, <2>1, <2>2, HeldNext DEF Held, AnnotInv
  <2>6. FlagsInv'
    BY <1>1, <2>1 DEF AnnotInv, FlagsInv
  <2> QED
    BY <1>4, <2>2, <2>3, <2>4, <2>5, <2>6 DEF AnnotInv
<1> QED
  BY <1>6, <1>7

LEMMA AddAnnotationKeeps ==
    ASSUME AnnotInv, AddAnnotation PROVE AnnotInv'
<1> DEFINE d == AddAnnot(Opened, made + 1)
           c == CHOOSE x \in Entries(d, Opening) : x.annot = made + 1
<1>0. PICK e : e = c
  OBVIOUS
<1>1. /\ Idle /\ CanOpen /\ made < MaxAnnot /\ made' = made + 1
      /\ \/ /\ Leaves(d) /\ Waits("edit", <<e>>, FALSE)
            /\ modified' = modified /\ listed' = listed /\ rows' = rows /\ edit' = edit
         \/ RunModifiedHooks(d) /\ modified' = TRUE /\ edit' \in {edit, {e}} /\ task' = task
      /\ file' = file /\ touched' = touched /\ lost' = lost /\ crossed' = crossed
  BY <1>0 DEF AddAnnotation, listVars
<1>2. /\ Sound(Opened, made) /\ made \in Nat /\ made' \in Nat /\ made' <= MaxAnnot
      /\ made + 1 <= MaxAnnot /\ made' \in made..MaxAnnot
      /\ Opening \in Epoch /\ Opening \in Nat /\ epoch <= Opening
  BY <1>1, Found, AnnotAssumption DEF AnnotInv, Epoch
<1>3. /\ HasRead(d) /\ Sound(d, made')
      /\ d.pdf = Append(Opened.pdf, made + 1)
  BY <1>1, <1>2, AddedSound
<1>4. Follows(Opened, made, d, made')
  BY <1>1, <1>2, FollowsAdded
<1>5. /\ e \in Entries(d, Opening) /\ e.annot = made + 1
      /\ HasRead(Opened) => Entries(d, Opening) \ {e} = Entries(Opened, Opening)
  BY <1>0, <1>2, ListedAdded
<1> HIDE DEF d, c
<1>6. /\ e \in Entry /\ e.epoch = Opening /\ e.annot <= made' /\ Own(d, e)
      /\ e.annot \in ToSet(d.pdf)
  BY <1>2, <1>3, <1>5, ListedOwn
<1>7. ~Adding /\ ~task.delayed
  BY <1>1, IdleStays DEF AnnotInv, Adding, Idle, TaskInv
<1>8. task.with = <<>> /\ ToSet(task.with) = {}
  <2>1. ToSet(<<>>) = {}
    BY DEF ToSet
  <2> QED
    BY <1>1, <2>1 DEF AnnotInv, TaskInv
<1>9. NoError' => NoError
  BY <1>1 DEF NoError
<1>10. FlagsInv'
  BY <1>1 DEF AnnotInv, FlagsInv
<1>11. CASE /\ Leaves(d) /\ Waits("edit", <<e>>, FALSE)
            /\ modified' = modified /\ listed' = listed /\ rows' = rows /\ edit' = edit
  <2>1. DocInv' /\ KeepsAll /\ open' /\ doc' = d /\ epoch' = Opening
    BY <1>1, <1>2, <1>4, <1>11, LeavesKeeps DEF AnnotInv
  <2>2. Kept(e)'
    BY <1>2, <1>3, <1>6, <2>1 DEF Kept
  <2>3. <<e>> \in Seq(Entry) /\ Len(<<e>>) = 1 /\ Head(<<e>>) = e /\ ToSet(<<e>>) = {e}
    <3>1. <<e>> \in Seq(Entry) /\ Len(<<e>>) = 1 /\ Head(<<e>>) = e /\ <<e>>[1] = e
      BY <1>6
    <3>2. DOMAIN <<e>> = {1}
      BY <1>6
    <3> QED
      BY <3>1, <3>2 DEF ToSet
  <2>4. TaskInv' /\ Adding' /\ task'.with = <<e>> /\ ~task'.delayed /\ First' = e
    BY <1>6, <1>11, <2>1, <2>3, WaitsWithAdded
  <2>5. AddedHere'
    BY <1>6, <2>1, <2>4 DEF AddedHere
  <2>6. HeldInv'
    <3>1. Held' = rows \cup edit \cup {e}
      BY <1>11, <2>3, <2>4 DEF Held
    <3> QED
      BY <2>1, <2>2, <3>1, HeldNext DEF AnnotInv, Held
  <2>7. ListedInv'
    BY <1>2, <1>3, <1>11, <2>1 DEF AnnotInv, ListedInv, DocInv, Epoch
  <2>8. ASSUME listed' = epoch', NoError' PROVE rows' = Entries(doc', epoch') \ {First'}
    <3>1. Opening = epoch /\ listed = epoch
      BY <1>2, <1>11, <2>1, <2>8 DEF AnnotInv, ListedInv, DocInv, Epoch
    <3>2. open /\ Opened = doc /\ HasRead(Opened)
      BY <1>1, <3>1, Found DEF AnnotInv, ListedInv
    <3>3. rows = Entries(doc, epoch)
      BY <1>7, <1>9, <2>8, <3>1, <3>2 DEF AnnotInv, ListInv, AddedHere
    <3> QED
      BY <1>5, <1>11, <2>1, <2>4, <3>1, <3>2, <3>3
  <2>9. ListInv'
    BY <2>5, <2>8 DEF ListInv
  <2>10. ASSUME ~modified', ~touched', NoError' PROVE doc'.pdf = Append(file', First'.annot)
    <3>1. Opened.pdf = file
      <4>1. CASE open
        BY <1>1, <1>7, <1>9, <1>11, <2>10, <4>1, Found DEF AnnotInv, FileInv, AddedHere
      <4>2. CASE ~open
        BY <1>1, <4>2, Found DEF AnnotInv
      <4> QED
        BY <4>1, <4>2
    <3> QED
      BY <1>1, <1>3, <1>5, <2>1, <2>4, <3>1
  <2>11. FileInv'
    BY <2>5, <2>10 DEF FileInv
  <2> QED
    BY <1>10, <2>1, <2>4, <2>6, <2>7, <2>9, <2>11 DEF AnnotInv
<1>12. CASE RunModifiedHooks(d) /\ modified' = TRUE /\ edit' \in {edit, {e}} /\ task' = task
  <2>1. /\ DocInv' /\ KeepsAll /\ open' /\ epoch' = Opening /\ doc' = d
        /\ ListedInv'
        /\ listed' = epoch' => rows' = Entries(doc', epoch')
        /\ \A y \in rows' : Kept(y)'
    BY <1>1, <1>2, <1>3, <1>4, <1>12, HooksKeep DEF AnnotInv
  <2>2. Kept(e)'
    BY <1>2, <1>3, <1>6, <2>1 DEF Kept
  <2>3. TaskInv' /\ ~Adding'
    BY <1>1, <1>12, IdleStays DEF AnnotInv
  <2>4. ListInv' /\ FileInv'
    BY <1>12, <2>1, <2>3 DEF ListInv, FileInv, AddedHere
  <2>5. HeldInv'
    BY <1>8, <1>12, <2>1, <2>2, HeldNext DEF Held, AnnotInv
  <2> QED
    BY <1>10, <2>1, <2>3, <2>4, <2>5 DEF AnnotInv
<1> QED
  BY <1>1, <1>11, <1>12

LEMMA EditAddedKeeps ==
    ASSUME AnnotInv, EditAdded PROVE AnnotInv'
<1>1. /\ task.kind = "edit" /\ CanOpen
      /\ crossed' = (crossed \/ (First.epoch # Opening /\ Names(Opened, First.key)))
      /\ RunModifiedHooks(Opened) /\ modified' = TRUE
      /\ edit' \in {edit, {First}} /\ task' = NoTask
      /\ file' = file /\ touched' = touched /\ made' = made /\ lost' = lost
  BY DEF EditAdded, Crosses, First
<1>2. Sound(Opened, made) /\ made \in Nat /\ made' \in made..MaxAnnot
  BY <1>1, Found, AnnotAssumption DEF AnnotInv
<1>3. Follows(Opened, made, Opened, made')
  BY <1>1, <1>2, FollowsSame
<1>4. /\ DocInv' /\ KeepsAll /\ ListedInv'
      /\ listed' = epoch' => rows' = Entries(doc', epoch')
      /\ \A y \in rows' : Kept(y)'
  BY <1>1, <1>2, <1>3, HooksKeep DEF AnnotInv
<1>5. TaskInv' /\ ~Adding' /\ ToSet(task'.with) = {}
  BY <1>1, TaskEnds
<1>6. First \in Held
  BY <1>1, FirstHeld DEF AnnotInv, Idle
<1>7. HeldInv'
  BY <1>1, <1>4, <1>5, <1>6, HeldNext DEF Held, AnnotInv
<1>8. ListInv' /\ FileInv'
  BY <1>1, <1>4, <1>5 DEF ListInv, FileInv, AddedHere
<1>9. FlagsInv'
  BY <1>1 DEF AnnotInv, FlagsInv
<1> QED
  BY <1>4, <1>5, <1>7, <1>8, <1>9 DEF AnnotInv

LEMMA EditAddedFailsKeeps ==
    ASSUME AnnotInv, EditAddedFails PROVE AnnotInv'
<1>1. /\ task.kind = "edit" /\ CanOpen
      /\ Leaves(Opened) /\ Waits("undo", task.with, FALSE)
      /\ file' = file /\ touched' = touched /\ made' = made /\ modified' = modified
      /\ listed' = listed /\ rows' = rows /\ edit' = edit
      /\ lost' = lost /\ crossed' = crossed
  BY DEF EditAddedFails, listVars
<1>2. Sound(Opened, made) /\ made \in Nat /\ made' \in made..MaxAnnot
  BY <1>1, Found, AnnotAssumption DEF AnnotInv
<1>3. Follows(Opened, made, Opened, made')
  BY <1>1, <1>2, FollowsSame
<1>4. DocInv' /\ KeepsAll /\ doc' = Opened /\ epoch' = Opening
  BY <1>1, <1>2, <1>3, LeavesKeeps DEF AnnotInv
<1>5. Adding /\ ~Idle /\ Len(task.with) = 1 /\ ~task.delayed /\ task.with \in Seq(Entry)
  BY <1>1 DEF AnnotInv, TaskInv, Adding, Idle
<1>6. Kept(First) /\ First \in Held
  BY <1>5, FirstHeld DEF AnnotInv
<1>7. ASSUME First.epoch = epoch' PROVE First.annot \in ToSet(doc'.pdf)
  <2>1. Opening = epoch
    BY <1>1, <1>4, <1>6, <1>7, Found DEF AnnotInv, Kept, DocInv, Epoch
  <2>2. open /\ Opened = doc
    BY <1>1, <2>1, Found DEF AnnotInv
  <2> QED
    BY <1>4, <1>5, <1>7, <2>1, <2>2 DEF AnnotInv, TaskInv, AddedHere
<1>8. TaskInv' /\ Adding' /\ task'.with = task.with /\ ~task'.delayed /\ First' = First
  <2>1. First = Head(task.with)
    BY DEF First
  <2> QED
    BY <1>1, <1>5, <1>7, <2>1, WaitsWithAdded
<1>9. SameAdded /\ (NoError' => NoError) /\ task'.delayed = task.delayed
  <2>1. task'.delayed = FALSE /\ task.delayed = FALSE
    BY <1>1, <1>5 DEF Waits, AnnotInv, TaskInv
  <2> QED
    BY <1>1, <1>5, <1>8, <2>1 DEF SameAdded, NoError
<1>10. ListedInv' /\ ListInv'
  BY <1>1, <1>4, <1>9, SameList
<1>11. FileInv'
  BY <1>1, <1>4, <1>9, SameFile
<1>12. HeldInv'
  BY <1>1, <1>4, <1>8, HeldNext DEF Held, AnnotInv
<1>13. FlagsInv'
  BY <1>1 DEF AnnotInv, FlagsInv
<1> QED
  BY <1>4, <1>8, <1>10, <1>11, <1>12, <1>13 DEF AnnotInv

LEMMA DeleteClickedKeeps ==
    ASSUME AnnotInv, DeleteClicked PROVE AnnotInv'
<1> DEFINE x == GetForPage(Opened)
<1>1. /\ Idle /\ CanOpen /\ Leaves(x)
      /\ \E e \in Entries(doc', epoch') : Waits("delete", <<e>>, FALSE)
      /\ file' = file /\ touched' = touched /\ made' = made /\ modified' = modified
      /\ listed' = listed /\ rows' = rows /\ edit' = edit
      /\ lost' = lost /\ crossed' = crossed
  BY DEF DeleteClicked, listVars
<1>2. /\ Sound(Opened, made) /\ made \in Nat /\ made <= MaxAnnot /\ made' \in made..MaxAnnot
      /\ Opening \in Epoch /\ Opening \in Nat
  BY <1>1, Found, AnnotAssumption DEF AnnotInv, Epoch
<1>3. /\ x.pdf = Opened.pdf /\ (HasRead(Opened) => x = Opened) /\ HasRead(x)
      /\ Follows(Opened, made, x, made') /\ Sound(x, made)
  BY <1>1, <1>2, ReadSound, FollowsRead
<1> HIDE DEF x
<1>4. DocInv' /\ KeepsAll /\ doc' = x /\ epoch' = Opening
  BY <1>1, <1>2, <1>3, LeavesKeeps DEF AnnotInv
<1>5. PICK e \in Entries(x, Opening) : Waits("delete", <<e>>, FALSE)
  BY <1>1, <1>4
<1>6. e \in Entry /\ Kept(e)'
  <2>1. e \in Entry /\ e.epoch = Opening /\ e.annot <= made /\ Own(x, e)
    BY <1>2, <1>3, ListedOwn
  <2> QED
    BY <1>1, <1>2, <1>3, <1>4, <2>1 DEF Kept
<1>7. <<e>> \in Seq(Entry) /\ <<e>> # <<>> /\ ToSet(<<e>>) = {e}
  <2>1. <<e>> \in Seq(Entry) /\ <<e>> # <<>> /\ <<e>>[1] = e /\ DOMAIN <<e>> = {1}
    BY <1>6
  <2> QED
    BY <2>1 DEF ToSet
<1>8. TaskInv' /\ ~Adding' /\ task'.with = <<e>> /\ task'.delayed = FALSE
  BY <1>5, <1>7, WaitsToDelete
<1>9. ~Adding /\ task.delayed = FALSE
  BY <1>1 DEF AnnotInv, TaskInv, Adding, Idle
<1>10. SameAdded /\ (NoError' => NoError)
  BY <1>1, <1>8, <1>9 DEF NoError, SameAdded, AddedHere
<1>11. ListedInv' /\ ListInv'
  BY <1>1, <1>3, <1>4, <1>8, <1>9, <1>10, SameList
<1>12. FileInv'
  BY <1>1, <1>3, <1>4, <1>10, SameFile
<1>13. HeldInv'
  BY <1>1, <1>4, <1>6, <1>7, <1>8, HeldNext DEF Held, AnnotInv
<1>14. FlagsInv'
  BY <1>1 DEF AnnotInv, FlagsInv
<1> QED
  BY <1>4, <1>8, <1>11, <1>12, <1>13, <1>14 DEF AnnotInv

\* One row is marked, or two.
LEMMA MarkedRows ==
    ASSUME rows \subseteq Entry, NEW s \in Marked
    PROVE  s \in Seq(Entry) /\ s # <<>>
<1>1. CASE s \in {<<e>> : e \in rows}
  <2>1. PICK e \in rows : s = <<e>>
    BY <1>1
  <2>2. e \in Entry
    OBVIOUS
  <2> QED
    BY <2>1, <2>2
<1>2. CASE s \in rows \X rows
  <2>1. PICK e \in rows, f \in rows : s = <<e, f>>
    BY <1>2
  <2>2. e \in Entry /\ f \in Entry
    OBVIOUS
  <2> QED
    BY <2>1, <2>2
<1> QED
  BY <1>1, <1>2 DEF Marked

LEMMA DeleteListedKeeps ==
    ASSUME AnnotInv, NEW s \in Marked, DeleteListed(s) PROVE AnnotInv'
<1> DEFINE entry(i) == [key |-> s[i].key, epoch |-> Opening,
                        annot |-> Opened.keys[s[i].key].annot]
           v == [i \in DOMAIN s |-> entry(i)]
<1>1. /\ Idle /\ CanOpen /\ Leaves(Opened)
      /\ \A i \in DOMAIN s : Names(Opened, s[i].key)
      /\ Waits("delete", v, FALSE)
      /\ file' = file /\ touched' = touched /\ made' = made /\ modified' = modified
      /\ listed' = listed /\ rows' = rows /\ edit' = edit
      /\ lost' = lost
      /\ crossed' = (crossed \/ \E i \in DOMAIN s : s[i].epoch # Opening)
  BY DEF DeleteListed, listVars
<1>2. /\ Sound(Opened, made) /\ made \in Nat /\ made <= MaxAnnot /\ made' \in made..MaxAnnot
      /\ Opening \in Epoch /\ Opening \in Nat
  BY <1>1, Found, AnnotAssumption DEF AnnotInv, Epoch
<1>3. Follows(Opened, made, Opened, made')
  BY <1>1, <1>2, FollowsSame
<1>4. DocInv' /\ KeepsAll /\ doc' = Opened /\ epoch' = Opening
  BY <1>1, <1>2, <1>3, LeavesKeeps DEF AnnotInv
<1>5. s \in Seq(Entry) /\ s # <<>> /\ Len(s) \in Nat /\ DOMAIN s = 1..Len(s)
  <2>1. rows \subseteq Entry
    BY DEF AnnotInv, HeldInv, Held, Kept
  <2> QED
    BY <2>1, MarkedRows, InSet
<1>6. ASSUME NEW i \in DOMAIN s PROVE entry(i) \in Entries(Opened, Opening)
  <2>7. s[i] \in Entry
    BY <1>5, ElementOfSeq
  <2>1. s[i] \in Entry /\ s[i].key \in Key
    BY <2>7 DEF Entry
  <2>2. s[i].key \in DOMAIN Opened.keys
    BY <1>1 DEF Names
  <2>3. Opened.keys \in Table(made)
    BY <1>2, SoundFacts
  <2>4. Opened.keys[s[i].key].annot \in Annot
    <3>1. Opened.keys[s[i].key] \in Item(made)
      BY <1>2, <2>2, <2>3, OfTable
    <3> QED
      BY <1>2, <3>1, AnnotAssumption DEF Item, Annot
  <2> DEFINE e == entry(i)
  <2>5. /\ e \in Entry /\ e.epoch = Opening /\ e.key = s[i].key
        /\ e.annot = Opened.keys[s[i].key].annot
    BY <1>2, <2>1, <2>4 DEF Entry
  <2> HIDE DEF e
  <2>6. e \in Entries(Opened, Opening)
    BY <1>1, <1>2, <2>5, Listed
  <2> QED
    BY <2>6 DEF e
<1>7. ASSUME NEW i \in DOMAIN s PROVE entry(i) \in Entry
  BY <1>2, <1>6, <1>7, ListedOwn
<1>8. /\ v \in Seq(Entry) /\ v # <<>>
      /\ ToSet(v) = {entry(i) : i \in DOMAIN s}
  <2>1. v \in [1..Len(s) -> Entry]
    BY <1>5, <1>7
  <2>2. v \in Seq(Entry) /\ Len(v) = Len(s)
    BY <1>5, <2>1, AFunctionIsASeq
  <2>3. v # <<>>
    BY <1>5, <2>2, EmptySeq
  <2>4. DOMAIN v = DOMAIN s /\ \A i \in DOMAIN s : v[i] = entry(i)
    OBVIOUS
  <2> HIDE DEF v
  <2> QED
    BY <2>2, <2>3, <2>4 DEF ToSet
<1>9. HasRead(Opened)
  <2>4. Len(s) # 0
    BY <1>5, EmptySeq
  <2>5. 1 \in DOMAIN s
    BY <1>5, <2>4
  <2>1. PICK i \in DOMAIN s : TRUE
    BY <2>5
  <2>2. Opened.keys[s[i].key] \in ToSet(Opened.pages)
    BY <1>1, <1>2, SoundFacts DEF Names
  <2>3. ToSet(<<>>) = {}
    BY DEF ToSet
  <2> QED
    BY <2>2, <2>3 DEF HasRead
<1> HIDE DEF v
<1>10. TaskInv' /\ ~Adding' /\ task'.with = v /\ task'.delayed = FALSE
  BY <1>1, <1>8, WaitsToDelete
<1>11. ~Adding /\ task.delayed = FALSE
  BY <1>1 DEF AnnotInv, TaskInv, Adding, Idle
<1>12. SameAdded /\ (NoError' => NoError)
  BY <1>1, <1>10, <1>11 DEF NoError, SameAdded, AddedHere
<1>13. ListedInv' /\ ListInv'
  BY <1>1, <1>4, <1>10, <1>11, <1>12, SameList
<1>14. FileInv'
  BY <1>1, <1>4, <1>12, SameFile
<1>15. ASSUME NEW e \in ToSet(v) PROVE Kept(e)'
  <2>1. PICK i \in DOMAIN s : e = entry(i)
    BY <1>8
  <2>2. e \in Entries(Opened, Opening)
    BY <1>6, <2>1
  <2>3. e \in Entry /\ e.epoch = Opening /\ e.annot <= made /\ Own(Opened, e)
    BY <1>2, <2>2, ListedOwn
  <2> QED
    BY <1>1, <1>2, <1>4, <1>9, <2>3 DEF Kept
<1>16. HeldInv'
  BY <1>1, <1>4, <1>10, <1>15, HeldNext DEF Held, AnnotInv
<1>17. FlagsInv'
  BY <1>1 DEF AnnotInv, FlagsInv
<1> QED
  BY <1>4, <1>10, <1>13, <1>14, <1>16, <1>17 DEF AnnotInv

LEMMA DeleteNextKeeps ==
    ASSUME AnnotInv, DeleteNext PROVE AnnotInv'
<1> DEFINE d == DelAnnot(Opened, First.key)
<1>1. /\ task.kind = "delete" /\ CanOpen
      /\ crossed' = (crossed \/ (First.epoch # Opening /\ Names(Opened, First.key)))
      /\ Names(Opened, First.key) /\ modified' = TRUE
      /\ IF Len(task.with) = 1
         THEN RunModifiedHooks(d) /\ task' = NoTask
         ELSE /\ Leaves(d) /\ listed' = listed /\ rows' = rows
              /\ Waits("delete", Tail(task.with), TRUE)
      /\ file' = file /\ touched' = touched /\ made' = made /\ edit' = edit /\ lost' = lost
  BY DEF DeleteNext, Crosses, First, listVars
<1>2. /\ Sound(Opened, made) /\ made \in Nat /\ made' \in made..MaxAnnot
      /\ Opening \in Nat /\ epoch \in Nat /\ epoch <= Opening
  BY <1>1, Found, AnnotAssumption DEF AnnotInv, Epoch, DocInv
<1>3. Follows(Opened, made, d, made') /\ HasRead(d)
  BY <1>1, <1>2, FollowsDeleted, DeletedSound
<1> HIDE DEF d
<1>4. FlagsInv'
  BY <1>1 DEF AnnotInv, FlagsInv
<1>5. FileInv'
  BY <1>1 DEF FileInv
<1>6. task.with \in Seq(Entry) /\ task.with # <<>>
  BY <1>1 DEF AnnotInv, TaskInv, Idle
<1>7. CASE Len(task.with) = 1
  <2>1. /\ DocInv' /\ KeepsAll /\ ListedInv'
        /\ listed' = epoch' => rows' = Entries(doc', epoch')
        /\ \A y \in rows' : Kept(y)'
    BY <1>1, <1>2, <1>3, <1>7, HooksKeep DEF AnnotInv
  <2>2. TaskInv' /\ ~Adding' /\ ToSet(task'.with) = {}
    BY <1>1, <1>7, TaskEnds
  <2>3. HeldInv'
    BY <1>1, <2>1, <2>2, HeldNext DEF Held, AnnotInv
  <2>4. ListInv'
    BY <2>1, <2>2 DEF ListInv, AddedHere
  <2> QED
    BY <1>4, <1>5, <2>1, <2>2, <2>3, <2>4 DEF AnnotInv
<1>8. CASE Len(task.with) # 1
  <2>1. /\ Leaves(d) /\ listed' = listed /\ rows' = rows
        /\ Waits("delete", Tail(task.with), TRUE)
    BY <1>1, <1>8
  <2>2. DocInv' /\ KeepsAll /\ doc' = d /\ epoch' = Opening
    BY <1>1, <1>2, <1>3, <2>1, LeavesKeeps DEF AnnotInv
  <2>3. /\ Tail(task.with) \in Seq(Entry) /\ Tail(task.with) # <<>>
        /\ ToSet(Tail(task.with)) \subseteq ToSet(task.with)
    <3> DEFINE w == task.with
               r == Tail(w)
    <3>1. /\ Len(w) \in Nat /\ Len(w) >= 1 /\ r \in Seq(Entry) /\ Len(r) = Len(w) - 1
          /\ \A i \in 1..Len(r) : r[i] = w[i + 1]
      BY <1>6, HeadTail
    <3>6. Len(w) # 1
      BY <1>8
    <3> HIDE DEF w, r
    <3>7. Len(r) # 0
      BY <3>1, <3>6
    <3>2. r # <<>>
      BY <3>7, EmptySeq
    <3>3. \A i \in 1..Len(r) : i + 1 \in 1..Len(w)
      BY <3>1
    <3>4. w \in Seq(Entry)
      BY <1>6 DEF w
    <3>5. ToSet(r) \subseteq ToSet(w)
      BY <3>1, <3>3, <3>4, InSet
    <3> QED
      BY <3>1, <3>2, <3>5 DEF w, r
  <2>4. TaskInv' /\ ~Adding' /\ task'.with = Tail(task.with) /\ task'.delayed = TRUE
    BY <1>1, <2>1, <2>3, WaitsToDelete
  <2>5. HeldInv'
    BY <1>1, <2>1, <2>2, <2>3, <2>4, HeldNext DEF Held, AnnotInv
  <2>6. ListedInv'
    BY <1>2, <1>3, <2>1, <2>2 DEF AnnotInv, ListedInv
  <2>7. ListInv'
    BY <2>4 DEF ListInv
  <2> QED
    BY <1>4, <1>5, <2>2, <2>4, <2>5, <2>6, <2>7 DEF AnnotInv
<1> QED
  BY <1>7, <1>8

\* What the undoing function deletes is what it had added, unless the
\* document was opened anew under it.
LEMMA StillThere ==
    ASSUME AnnotInv, Adding, CanOpen, First.epoch = Opening
    PROVE  /\ open /\ Opened = doc /\ Opening = epoch
           /\ First \in Entries(doc, epoch) /\ Names(doc, First.key)
           /\ doc.keys[First.key].annot = First.annot
<1>1. Kept(First) /\ First \in Held
  BY FirstHeld DEF AnnotInv, Adding, Idle
<1>2. Opening = epoch
  BY <1>1, Found DEF AnnotInv, Kept, DocInv, Epoch
<1>3. open /\ Opened = doc
  BY <1>2, Found DEF AnnotInv
<1>4. First.annot \in ToSet(doc.pdf)
  BY <1>2, <1>3 DEF AnnotInv, TaskInv, AddedHere
<1>5. Names(doc, First.key) /\ doc.keys[First.key].annot = First.annot
  BY <1>1, <1>2, <1>3, <1>4 DEF Kept, Own
<1>6. made \in Nat /\ made <= MaxAnnot /\ Sound(doc, made) /\ epoch \in Epoch
  BY AnnotAssumption DEF AnnotInv, DocInv
<1>7. First \in Entry /\ First.epoch = epoch
  BY <1>1, <1>2 DEF Kept
<1> HIDE DEF First
<1>8. First \in Entries(doc, epoch)
  BY <1>5, <1>6, <1>7, Listed
<1> QED
  BY <1>2, <1>3, <1>5, <1>8

\* What is appended to give a sequence without repetition is new.
LEMMA LastIsNew ==
    ASSUME NEW S, NEW s \in Seq(S), NEW e \in S, IsInjective(Append(s, e))
    PROVE  IsInjective(s) /\ e \notin ToSet(s)
<1> DEFINE t == Append(s, e)
<1>1. /\ Len(s) \in Nat /\ t \in Seq(S) /\ Len(t) = Len(s) + 1
      /\ \A i \in 1..Len(s) : t[i] = s[i]
      /\ t[Len(s) + 1] = e
  BY AppendProperties, LenProperties
<1>2. \A i, j \in DOMAIN t : t[i] = t[j] => i = j
  BY DEF IsInjective
<1> HIDE DEF t
<1>3. DOMAIN t = 1..Len(s) + 1
  BY <1>1, InSet
<1>4. /\ Len(s) + 1 \in 1..Len(s) + 1
      /\ \A i \in 1..Len(s) : i \in 1..Len(s) + 1 /\ i # Len(s) + 1
  BY <1>1
<1>5. e \notin ToSet(s)
  <2> SUFFICES ASSUME NEW i \in 1..Len(s), s[i] = e PROVE FALSE
    BY InSet
  <2>1. t[i] = t[Len(s) + 1]
    BY <1>1
  <2> QED
    BY <1>2, <1>3, <1>4, <2>1
<1>6. \A i, j \in 1..Len(s) : s[i] = s[j] => i = j
  BY <1>1, <1>2, <1>3, <1>4
<1>7. IsInjective(s)
  BY <1>6, InSet DEF IsInjective
<1> QED
  BY <1>5, <1>7

LEMMA UndoKeeps ==
    ASSUME AnnotInv, Undo PROVE AnnotInv'
<1> DEFINE d == DelAnnot(Opened, First.key)
<1>1. /\ task.kind = "undo" /\ CanOpen
      /\ crossed' = (crossed \/ (First.epoch # Opening /\ Names(Opened, First.key)))
      /\ Names(Opened, First.key) /\ Leaves(d) /\ task' = NoTask
      /\ file' = file /\ touched' = touched /\ made' = made /\ modified' = modified
      /\ listed' = listed /\ rows' = rows /\ edit' = edit /\ lost' = lost
  BY DEF Undo, Crosses, First, listVars
<1>2. /\ Sound(Opened, made) /\ made \in Nat /\ made' \in made..MaxAnnot
      /\ Opening \in Nat /\ epoch \in Nat /\ epoch <= Opening
  BY <1>1, Found, AnnotAssumption DEF AnnotInv, Epoch, DocInv
<1>3. /\ Follows(Opened, made, d, made') /\ HasRead(d)
      /\ d.pdf = RemoveFirst(Opened.pdf, Opened.keys[First.key].annot)
  BY <1>1, <1>2, FollowsDeleted, DeletedSound
<1> HIDE DEF d
<1>4. DocInv' /\ KeepsAll /\ open' /\ doc' = d /\ epoch' = Opening
  BY <1>1, <1>2, <1>3, LeavesKeeps DEF AnnotInv
<1>5. TaskInv' /\ ~Adding' /\ ToSet(task'.with) = {}
  BY <1>1, TaskEnds
<1>6. FlagsInv'
  BY <1>1 DEF AnnotInv, FlagsInv
<1>7. HeldInv'
  BY <1>1, <1>4, <1>5, HeldNext DEF Held, AnnotInv
<1>8. Adding /\ ~task.delayed
  BY <1>1 DEF Adding, AnnotInv, TaskInv
<1>9. ASSUME NoError'
      PROVE  /\ NoError /\ AddedHere /\ open /\ Opened = doc /\ Opening = epoch
             /\ First \in Entries(doc, epoch)
             /\ doc.keys[First.key].annot = First.annot
  <2>1. First.epoch = Opening /\ NoError
    BY <1>1, <1>9 DEF NoError
  <2> QED
    BY <1>1, <1>8, <2>1, StillThere DEF AddedHere
<1>10. ListedInv'
  BY <1>1, <1>2, <1>3, <1>4 DEF AnnotInv, ListedInv
<1>11. ListInv'
  <2> SUFFICES ASSUME listed' = epoch', NoError' PROVE rows' = Entries(doc', epoch')
    BY <1>5 DEF ListInv, AddedHere
  <2>1. rows = Entries(doc, epoch) \ {First}
    BY <1>1, <1>4, <1>8, <1>9 DEF AnnotInv, ListInv
  <2>2. made <= MaxAnnot /\ Sound(doc, made) /\ epoch \in Epoch
    BY AnnotAssumption DEF AnnotInv, DocInv
  <2>3. Entries(DelAnnot(doc, First.key), epoch) = Entries(doc, epoch) \ {First}
    BY <1>2, <1>9, <2>2, ListedDeleted
  <2> QED
    BY <1>1, <1>4, <1>9, <2>1, <2>3 DEF d
<1>12. FileInv'
  <2> SUFFICES ASSUME ~modified', ~touched', NoError' PROVE doc'.pdf = file
    BY <1>1, <1>5 DEF FileInv, AddedHere
  <2>1. doc.pdf = Append(file, First.annot)
    BY <1>1, <1>9 DEF AnnotInv, FileInv
  <2>2. doc.pdf \in Seq(1..made) /\ IsInjective(doc.pdf)
    BY <1>2, SoundFacts DEF AnnotInv, DocInv
  <2>3. First.annot \in 1..made
    <3>1. Sound(doc, made) /\ epoch \in Epoch /\ made <= MaxAnnot
      BY AnnotAssumption DEF AnnotInv, DocInv
    <3>2. First.annot \in ToSet(doc.pdf)
      BY <1>2, <1>9, <3>1, ListedOwn
    <3> QED
      BY <2>2, <3>2, InSet
  <2>4. file \in Seq(1..made) /\ IsInjective(file)
    BY DEF AnnotInv, DocInv
  <2>5. First.annot \notin ToSet(file)
    BY <2>1, <2>2, <2>3, <2>4, LastIsNew
  <2>6. RemoveFirst(Append(file, First.annot), First.annot) = file
    BY <2>3, <2>4, <2>5, TakenBack
  <2> QED
    BY <1>3, <1>4, <1>9, <2>1, <2>6
<1> QED
  BY <1>4, <1>5, <1>6, <1>7, <1>10, <1>11, <1>12 DEF AnnotInv

LEMMA DeleteFailsKeeps ==
    ASSUME AnnotInv, DeleteFails PROVE AnnotInv'
<1>1. /\ task.kind \in {"delete", "undo"} /\ CanOpen
      /\ IF task.delayed THEN RunModifiedHooks(Opened)
         ELSE Leaves(Opened) /\ listed' = listed /\ rows' = rows
      /\ lost' = (lost \/ Names(Opened, First.key)) /\ task' = NoTask
      /\ file' = file /\ touched' = touched /\ made' = made /\ modified' = modified
      /\ edit' = edit /\ crossed' = crossed
  BY DEF DeleteFails, First, listVars
<1>2. Sound(Opened, made) /\ made \in Nat /\ made' \in made..MaxAnnot
  BY <1>1, Found, AnnotAssumption DEF AnnotInv
<1>3. Follows(Opened, made, Opened, made')
  BY <1>1, <1>2, FollowsSame
<1>4. TaskInv' /\ ~Adding' /\ ~task'.delayed /\ ToSet(task'.with) = {}
  BY <1>1, TaskEnds
<1>5. FlagsInv'
  BY <1>1 DEF AnnotInv, FlagsInv
<1>6. CASE task.delayed
  <2>1. /\ DocInv' /\ KeepsAll /\ ListedInv'
        /\ listed' = epoch' => rows' = Entries(doc', epoch')
        /\ \A y \in rows' : Kept(y)'
    BY <1>1, <1>2, <1>3, <1>6, HooksKeep DEF AnnotInv
  <2>2. ListInv'
    BY <1>4, <2>1 DEF ListInv, AddedHere
  <2>3. FileInv'
    BY <1>1, <1>6 DEF AnnotInv, TaskInv, FileInv
  <2>4. HeldInv'
    BY <1>1, <1>4, <2>1, HeldNext DEF Held, AnnotInv
  <2> QED
    BY <1>4, <1>5, <2>1, <2>2, <2>3, <2>4 DEF AnnotInv
<1>7. CASE ~task.delayed
  <2>1. Leaves(Opened) /\ listed' = listed /\ rows' = rows
    BY <1>1, <1>7
  <2>2. DocInv' /\ KeepsAll /\ doc' = Opened /\ epoch' = Opening
    BY <1>1, <1>2, <1>3, <2>1, LeavesKeeps DEF AnnotInv
  <2>3. ASSUME NoError' PROVE ~(open /\ AddedHere)
    <3> SUFFICES ASSUME open, AddedHere PROVE FALSE
      OBVIOUS
    <3>1. Opening = epoch /\ Opened = doc
      BY <1>1, Found DEF AnnotInv
    <3>2. Names(Opened, First.key)
      BY <1>1, <3>1, StillThere DEF AddedHere
    <3> QED
      BY <1>1, <2>3, <3>2 DEF NoError
  <2>4. SameAdded /\ (NoError' => NoError) /\ task'.delayed = task.delayed
    <3>1. task.delayed = FALSE /\ task'.delayed = FALSE
      BY <1>1, <1>7 DEF AnnotInv, TaskInv, NoTask
    <3> QED
      BY <1>1, <1>4, <2>3, <3>1 DEF SameAdded, NoError
  <2>5. ListedInv' /\ ListInv'
    BY <1>1, <2>1, <2>2, <2>4, SameList
  <2>6. FileInv'
    BY <1>1, <2>2, <2>4, SameFile
  <2>7. HeldInv'
    BY <1>1, <1>4, <2>1, <2>2, HeldNext DEF Held, AnnotInv
  <2> QED
    BY <1>4, <1>5, <2>2, <2>5, <2>6, <2>7 DEF AnnotInv
<1> QED
  BY <1>6, <1>7

-----------------------------------------------------------------------------
(***************************************************************************)
(* Closing, and other programs.                                            *)
(***************************************************************************)

\* Nothing a waiting function has added is in a document opened anew.
LEMMA AfterClosed ==
    ASSUME AnnotInv, Closed, made' = made, file' \in Seq(1..made), IsInjective(file'),
           edit' = edit, FlagsInv',
           task' = NoTask \/ (task' = task /\ (task.delayed => modified'))
    PROVE  AnnotInv'
<1>1. DocInv' /\ KeepsAll /\ ~open' /\ epoch' = epoch /\ listed' = listed /\ rows' = rows
  BY ClosedKeeps DEF AnnotInv, Closed, listVars
<1>2. TaskInv' /\ ToSet(task'.with) \subseteq ToSet(task.with)
  <2>1. CASE task' = NoTask
    BY <2>1, TaskEnds
  <2>2. CASE task' = task /\ (task.delayed => modified')
    BY <1>1, <2>2 DEF AnnotInv, TaskInv, AddedHere, Adding, Idle
  <2> QED
    BY <2>1, <2>2
<1>3. HeldInv'
  BY <1>1, <1>2, HeldNext DEF Held, AnnotInv
<1>4. ListedInv' /\ ListInv' /\ FileInv'
  BY <1>1 DEF AnnotInv, ListedInv, ListInv, FileInv
<1> QED
  BY <1>1, <1>2, <1>3, <1>4 DEF AnnotInv

LEMMA AfterReopened ==
    ASSUME AnnotInv, NEW p \in Seq(1..made), IsInjective(p), Reopened(p),
           made' = made, file' = p, edit' = edit, FlagsInv',
           task' = NoTask \/ (task' = task /\ ~task.delayed)
    PROVE  AnnotInv'
<1>1. /\ DocInv' /\ KeepsAll /\ open' /\ epoch' = epoch + 1 /\ epoch' \in Nat
      /\ doc'.pdf = p /\ HasRead(doc)'
      /\ listed' = epoch' /\ rows' = Entries(doc', epoch')
      /\ \A e \in rows' : Kept(e)'
  BY ReopenedKeeps DEF AnnotInv
<1>2. TaskInv' /\ ~AddedHere' /\ ToSet(task'.with) \subseteq ToSet(task.with)
  <2>1. CASE task' = NoTask
    BY <2>1, TaskEnds DEF AddedHere
  <2>2. CASE task' = task /\ ~task.delayed
    <3>1. ~AddedHere'
      <4> SUFFICES ASSUME Adding, First.epoch = epoch' PROVE FALSE
        BY <2>2 DEF AddedHere, Adding, First
      <4>1. First.epoch <= epoch /\ epoch \in Nat
        BY FirstHeld DEF Kept, Adding, Idle, AnnotInv, DocInv, Epoch
      <4> QED
        BY <1>1, <4>1
    <3>2. TaskInv'
      BY <2>2, <3>1 DEF AnnotInv, TaskInv, Adding, Idle
    <3> QED
      BY <2>2, <3>1, <3>2
  <2> QED
    BY <2>1, <2>2
<1>3. HeldInv'
  BY <1>1, <1>2, HeldNext DEF Held, AnnotInv
<1>4. ListedInv' /\ ListInv' /\ FileInv'
  BY <1>1, <1>2 DEF ListedInv, ListInv, FileInv
<1> QED
  BY <1>1, <1>2, <1>3, <1>4 DEF AnnotInv

LEMMA SaveKeeps ==
    ASSUME AnnotInv, Save PROVE AnnotInv'
<1> DEFINE p == Opened.pdf
<1>1. /\ Idle /\ CanOpen /\ file' = p /\ Closes(p)
      /\ modified' = FALSE /\ touched' = FALSE
      /\ made' = made /\ edit' = edit /\ task' = task /\ lost' = lost /\ crossed' = crossed
  BY DEF Save
<1>2. p \in Seq(1..made) /\ IsInjective(p)
  BY <1>1, Found, SoundFacts DEF AnnotInv
<1> HIDE DEF p
<1>3. FlagsInv'
  BY <1>1 DEF AnnotInv, FlagsInv
<1>4. ~task.delayed
  BY <1>1, IdleStays DEF AnnotInv
<1>5. Closed \/ Reopened(p)
  BY <1>1 DEF Closes
<1> QED
  BY <1>1, <1>2, <1>3, <1>4, <1>5, AfterClosed, AfterReopened

LEMMA RevertKeeps ==
    ASSUME AnnotInv, Revert PROVE AnnotInv'
<1>1. /\ Idle \/ (touched /\ ~modified)
      /\ file' = file /\ Closes(file) /\ modified' = FALSE /\ touched' = FALSE
      /\ made' = made /\ edit' = edit /\ task' = task /\ lost' = lost /\ crossed' = crossed
  BY DEF Revert
<1>2. file \in Seq(1..made) /\ IsInjective(file)
  BY DEF AnnotInv, DocInv
<1>3. FlagsInv'
  BY <1>1 DEF AnnotInv, FlagsInv
<1>4. ~task.delayed
  BY <1>1 DEF AnnotInv, TaskInv, Idle
<1>5. Closed \/ Reopened(file)
  BY <1>1 DEF Closes
<1> QED
  BY <1>1, <1>2, <1>3, <1>4, <1>5, AfterClosed, AfterReopened

LEMMA DieKeeps ==
    ASSUME AnnotInv, Die PROVE AnnotInv'
<1>1. /\ task' \in {task, NoTask}
      /\ \/ task # task' /\ Reopened(file)
         \/ Closed
      /\ file' = file /\ touched' = touched /\ made' = made /\ modified' = modified
      /\ edit' = edit /\ lost' = lost /\ crossed' = crossed
  BY DEF Die
<1>2. file \in Seq(1..made) /\ IsInjective(file)
  BY DEF AnnotInv, DocInv
<1>3. FlagsInv' /\ (task.delayed => modified')
  BY <1>1 DEF AnnotInv, FlagsInv, TaskInv
<1> QED
  BY <1>1, <1>2, <1>3, AfterClosed, AfterReopened

\* The annotation another program makes is none of those there were.
LEMMA FileChangedKeeps ==
    ASSUME AnnotInv, FileChanged PROVE AnnotInv'
<1>1. /\ \/ made < MaxAnnot /\ made' = made + 1 /\ file' = <<made + 1>> \o file
         \/ file # <<>> /\ file' = Tail(file) /\ made' = made
      /\ touched' = TRUE
      /\ open' = open /\ doc' = doc /\ epoch' = epoch /\ modified' = modified
      /\ listed' = listed /\ rows' = rows /\ edit' = edit /\ task' = task
      /\ lost' = lost /\ crossed' = crossed
  BY DEF FileChanged, clientVars, listVars
<1>2. /\ made \in Nat /\ MaxAnnot \in Nat /\ made <= MaxAnnot
      /\ file \in Seq(1..made) /\ IsInjective(file) /\ Sound(doc, made)
  BY AnnotAssumption DEF AnnotInv, DocInv
<1>3. /\ made' \in 0..MaxAnnot /\ made <= made' /\ made' \in Nat
      /\ file' \in Seq(1..made') /\ IsInjective(file')
  <2>1. CASE made < MaxAnnot /\ made' = made + 1 /\ file' = <<made + 1>> \o file
    <3>1. made' \in 0..MaxAnnot /\ made <= made' /\ 1..made \subseteq 1..made'
          /\ made + 1 \in 1..made' /\ made' \in Nat
      BY <1>2, <2>1
    <3>2. file \in Seq(1..made')
      BY <1>2, <3>1, SeqMonotonic
    <3>3. made + 1 \notin ToSet(file)
      BY <1>2, InSet
    <3>4. <<made + 1>> \o file \in Seq(1..made') /\ IsInjective(<<made + 1>> \o file)
      BY <1>2, <3>1, <3>2, <3>3, AtTheFront
    <3> QED
      BY <2>1, <3>1, <3>4
  <2>2. CASE file # <<>> /\ file' = Tail(file) /\ made' = made
    <3>1. Tail(file) \in Seq(1..made) /\ Len(Tail(file)) = Len(file) - 1
          /\ Len(file) \in Nat
          /\ \A i \in 1..Len(Tail(file)) : Tail(file)[i] = file[i + 1]
      BY <1>2, <2>2, HeadTail, LenProperties
    <3>2. \A i, j \in 1..Len(file) : file[i] = file[j] => i = j
      BY <1>2, InSet DEF IsInjective
    <3>3. ASSUME NEW i \in 1..Len(Tail(file)), NEW j \in 1..Len(Tail(file)),
                 Tail(file)[i] = Tail(file)[j]
          PROVE  i = j
      <4>1. i + 1 \in 1..Len(file) /\ j + 1 \in 1..Len(file)
        BY <3>1
      <4>2. i + 1 = j + 1
        BY <3>1, <3>2, <3>3, <4>1
      <4> QED
        BY <4>2
    <3>4. IsInjective(Tail(file))
      BY <3>1, <3>3, InSet DEF IsInjective
    <3> QED
      BY <1>2, <2>2, <3>1, <3>4
  <2> QED
    BY <1>1, <2>1, <2>2
<1>4. DocInv'
  BY <1>1, <1>2, <1>3, SoundLater DEF AnnotInv, DocInv
<1>5. KeepsAll
  <2> SUFFICES ASSUME NEW e \in Entry, Kept(e) PROVE Kept(e)'
    BY DEF KeepsAll
  <2>1. e.annot \in Nat /\ e.annot <= made
    BY DEF Kept, Entry, Annot
  <2>2. e.annot <= made'
    BY <1>2, <1>3, <2>1
  <2> QED
    BY <1>1, <2>2 DEF Kept
<1>6. HeldInv'
  BY <1>1, <1>5, HeldNext DEF Held, AnnotInv
<1>7. TaskInv' /\ FlagsInv' /\ ListedInv' /\ ListInv' /\ FileInv'
  <2>1. TaskInv'
    BY <1>1 DEF AnnotInv, TaskInv, AddedHere, Adding, First, Idle
  <2>2. FlagsInv'
    BY <1>1 DEF AnnotInv, FlagsInv
  <2>3. ListedInv' /\ ListInv' /\ FileInv'
    BY <1>1 DEF AnnotInv, ListedInv, ListInv, FileInv, NoError, AddedHere, Adding, First
  <2> QED
    BY <2>1, <2>2, <2>3
<1> QED
  BY <1>4, <1>6, <1>7 DEF AnnotInv

-----------------------------------------------------------------------------
(***************************************************************************)
(* Theorems.                                                               *)
(***************************************************************************)

LEMMA AnnotStep == AnnotInv /\ [Next]_vars => AnnotInv'
<1> SUFFICES ASSUME AnnotInv, [Next]_vars PROVE AnnotInv'
  OBVIOUS
<1>1. CASE GetAnnots
  BY <1>1, GetAnnotsKeeps
<1>2. CASE ListAnnotations
  BY <1>2, ListAnnotationsKeeps
<1>3. CASE EditContents
  BY <1>3, EditContentsKeeps
<1>4. CASE \E e \in edit : Commit(e)
  BY <1>4, CommitKeeps
<1>5. CASE AddAnnotation
  BY <1>5, AddAnnotationKeeps
<1>6. CASE EditAdded
  BY <1>6, EditAddedKeeps
<1>7. CASE EditAddedFails
  BY <1>7, EditAddedFailsKeeps
<1>8. CASE DeleteClicked
  BY <1>8, DeleteClickedKeeps
<1>9. CASE \E marked \in Marked : DeleteListed(marked)
  BY <1>9, DeleteListedKeeps
<1>10. CASE DeleteNext
  BY <1>10, DeleteNextKeeps
<1>11. CASE Undo
  BY <1>11, UndoKeeps
<1>12. CASE DeleteFails
  BY <1>12, DeleteFailsKeeps
<1>13. CASE Save
  BY <1>13, SaveKeeps
<1>14. CASE Revert
  BY <1>14, RevertKeeps
<1>15. CASE Die
  BY <1>15, DieKeeps
<1>16. CASE FileChanged
  BY <1>16, FileChangedKeeps
<1>17. CASE UNCHANGED vars
  BY <1>17 DEF vars, serverVars, clientVars, listVars, AnnotInv, DocInv, HeldInv, Held,
               Kept, ListedInv, TaskInv, FlagsInv, ListInv, FileInv, NoError, AddedHere,
               Adding, First, Idle
<1> QED
  BY <1>1, <1>2, <1>3, <1>4, <1>5, <1>6, <1>7, <1>8, <1>9, <1>10, <1>11, <1>12,
     <1>13, <1>14, <1>15, <1>16, <1>17 DEF Next

\* In every state that pdf-annot.el, pdf-view.el and epdfinfo.c reach, the
\* server's document is sound, the client's keys name their own, and the list
\* and the file are what the flags and the waiting function say.
THEOREM AnnotInvariant == Spec => []AnnotInv
<1>1. Init => AnnotInv
  BY InitAnnot
<1>2. AnnotInv /\ [Next]_vars => AnnotInv'
  BY AnnotStep
<1> QED
  BY <1>1, <1>2, PTL DEF Spec

\* The variables have their types: the key that cmd_addannot's search ends
\* with (epdfinfo.c:2709-2715) is below the number of annotations made, and a
\* function of pdf-annot.el that deletes has an annotation left to delete.
THEOREM AnnotTypes == Spec => []TypeOK
<1>1. AnnotInv => TypeOK
  <2> SUFFICES ASSUME AnnotInv PROVE TypeOK
    OBVIOUS
  <2>1. /\ made \in Nat /\ made \in 0..MaxAnnot /\ MaxAnnot \in Nat /\ Sound(doc, made)
        /\ file \in Seq(1..made) /\ epoch \in Epoch /\ open \in BOOLEAN
    BY AnnotAssumption DEF AnnotInv, DocInv
  <2>2. 1..made \subseteq Annot /\ 0..made - 1 \subseteq Key
    BY <2>1 DEF Annot, Key
  <2>3. file \in Seq(Annot)
    BY <2>1, <2>2, SeqMonotonic
  <2>4. IsDocument(doc, Annot, Key)
    <3>1. Item(made) \subseteq AnnotationT(Annot, Key)
      BY <2>2 DEF Item, AnnotationT
    <3>2. doc.pdf \in Seq(Annot)
      <4>1. doc.pdf \in Seq(1..made)
        BY <2>1, SoundFacts
      <4> QED
        BY <2>2, <4>1, SeqMonotonic
    <3>3. doc.pages \in Seq(AnnotationT(Annot, Key))
      <4>1. doc.pages \in Seq(Item(made))
        BY <2>1, SoundFacts
      <4> QED
        BY <3>1, <4>1, SeqMonotonic
    <3>4. /\ DOMAIN doc.keys \subseteq 0..made - 1
          /\ \A k \in DOMAIN doc.keys : doc.keys[k] \in Item(made)
      <4>1. doc.keys \in Table(made)
        BY <2>1, SoundFacts
      <4> QED
        BY <2>1, <4>1, OfTable
    <3>5. Range(doc.keys) \subseteq AnnotationT(Annot, Key)
      BY <3>1, <3>4 DEF Range
    <3> QED
      BY <2>2, <3>2, <3>3, <3>4, <3>5 DEF IsDocument
  <2>5. rows \subseteq Entry /\ edit \subseteq Entry
    BY DEF AnnotInv, HeldInv, Held, Kept
  <2>6. modified \in BOOLEAN /\ {touched, open, modified, lost, crossed} \subseteq BOOLEAN
    BY <2>1 DEF AnnotInv, FlagsInv
  <2> QED
    BY <2>1, <2>3, <2>4, <2>5, <2>6 DEF AnnotInv, TaskInv, ListedInv, TypeOK
<1> QED
  BY <1>1, AnnotInvariant, PTL

\* epdfinfo.c keeps the list of a page and the table of keys together: they
\* hold the same annotations, those of poppler, each under its own key,
\* however additions, deletions and first reads of the page are mixed.
THEOREM TablesAgree == Spec => []Bookkeeping
<1>1. AnnotInv => Bookkeeping
  BY DEF AnnotInv, DocInv, Sound, Bookkeeping
<1> QED
  BY <1>1, AnnotInvariant, PTL

\* A key that the list, the edit buffer or a waiting function of pdf-annot.el
\* holds of the open document names the annotation it was got with; when that
\* is deleted it names nothing, or an annotation added later.
THEOREM KeysNameOwn == Spec => []KeyNamesOwn
<1>1. AnnotInv => KeyNamesOwn
  BY DEF AnnotInv, HeldInv, Kept, Own, KeyNamesOwn
<1> QED
  BY <1>1, AnnotInvariant, PTL

\* Between commands the list buffer shows the annotations of the document it
\* was read from, as pdf-annot-run-modified-hooks is to bring about, unless a
\* deletion has failed in poppler or a key was used after a closing.
THEOREM ListCurrent == Spec => []ListIsCurrent
<1>1. AnnotInv => ListIsCurrent
  BY DEF AnnotInv, TaskInv, ListInv, NoError, AddedHere, Adding, Idle, ListIsCurrent
<1> QED
  BY <1>1, AnnotInvariant, PTL

\* Between commands an unmodified buffer of pdf-view.el has an open document
\* with the annotations of the file, so nothing is lost when it is killed.
THEOREM UnmodifiedFile == Spec => []UnmodifiedIsFile
<1>1. AnnotInv => UnmodifiedIsFile
  BY DEF AnnotInv, FileInv, NoError, AddedHere, Adding, Idle, UnmodifiedIsFile
<1> QED
  BY <1>1, AnnotInvariant, PTL

=============================================================================
