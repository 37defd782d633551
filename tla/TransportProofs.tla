-------------------------- MODULE TransportProofs --------------------------
(***************************************************************************)
(* Connections: deserialize undoes serialize for messages of any words;    *)
(* and for any programs, messages, answers and size of a read, the server  *)
(* handles what was sent and a program reads the answer to it, as long as  *)
(* messages fit a read.  The argument: a message, the call for it and the  *)
(* answer to it are never on a connection together, and a program in its   *)
(* menu has read as many answers as it sent messages.                      *)
(***************************************************************************)
EXTENDS TransportSafety, FiniteSetTheorems, SequenceTheorems,
        WellFoundedInduction, TLAPS

-----------------------------------------------------------------------------
(***************************************************************************)
(* Texts: colons, fields, and what serialize writes                        *)
(***************************************************************************)

\* How many colons there are up to the i-th word.
Count(text, i) == Cardinality({j \in Colons(text) : j <= i})

\* A set of naturals with an element has a least one.
LEMMA LeastNatural ==
  ASSUME NEW T, T \subseteq Nat, T # {}
  PROVE  \E x \in T : \A y \in T : x <= y
<1> DEFINE R == {ss \in Nat \X Nat : ss[1] < ss[2]}
<1>1. IsWellFoundedOn(R, Nat)
  BY NatLessThanWellFounded DEF OpToRel
<1>2. \E x \in T : \A y \in T : ~ (<<y, x>> \in R)
  BY <1>1, WFMin
<1>3. PICK x \in T : \A y \in T : ~ (<<y, x>> \in R)
  BY <1>2
<1>4. ASSUME NEW y \in T PROVE x <= y
  <2>1. x \in Nat /\ y \in Nat /\ <<y, x>> \in Nat \X Nat
    BY <1>3
  <2> QED
    BY <1>3, <2>1
<1> QED
  BY <1>4

\* Counts of colons are naturals, none before the first word.
LEMMA CountType ==
  ASSUME NEW text \in Text
  PROVE  /\ Colons(text) \subseteq 1 .. Len(text)
         /\ IsFiniteSet(Colons(text)) /\ Cardinality(Colons(text)) \in Nat
         /\ \A i : Count(text, i) \in Nat
         /\ Count(text, 0) = 0
         /\ Count(text, Len(text)) = Cardinality(Colons(text))
<1>1. DOMAIN text = 1 .. Len(text) /\ Len(text) \in Nat
  BY LenProperties DEF Text
<1>2. Colons(text) \subseteq 1 .. Len(text)
  BY <1>1 DEF Colons
<1>3. IsFiniteSet(Colons(text))
  <2>1. IsFiniteSet(1 .. Len(text))
    BY <1>1, FS_Interval
  <2> QED
    BY <1>2, <2>1, FS_Subset
<1>4. \A i : IsFiniteSet({j \in Colons(text) : j <= i})
  BY <1>3, FS_Subset
<1>5. {j \in Colons(text) : j <= 0} = {}
  BY <1>1, <1>2
<1>6. {j \in Colons(text) : j <= Len(text)} = Colons(text)
  BY <1>1, <1>2
<1> QED
  BY <1>2, <1>3, <1>4, <1>5, <1>6, FS_CardinalityType, FS_EmptySet DEF Count

\* Each colon counts one.
LEMMA CountStep ==
  ASSUME NEW text \in Text, NEW i \in Nat
  PROVE  Count(text, i + 1)
           = Count(text, i) + (IF i + 1 \in Colons(text) THEN 1 ELSE 0)
<1> DEFINE S == {j \in Colons(text) : j <= i}
           T == {j \in Colons(text) : j <= i + 1}
<1>1. Colons(text) \subseteq Nat /\ IsFiniteSet(Colons(text)) /\ Len(text) \in Nat
  BY CountType, LenProperties DEF Text
<1>2. IsFiniteSet(S)
  BY <1>1, FS_Subset
<1>3. CASE i + 1 \in Colons(text)
  <2>1. T = S \cup {i + 1} /\ i + 1 \notin S
    BY <1>1, <1>3
  <2> QED
    BY <1>2, <1>3, <2>1, FS_AddElement DEF Count
<1>4. CASE i + 1 \notin Colons(text)
  <2>1. T = S
    BY <1>1, <1>4
  <2>2. Count(text, i + 1) = Count(text, i) /\ Count(text, i) \in Nat
    BY <2>1, CountType DEF Count
  <2> QED
    BY <1>4, <2>2
<1> QED
  BY <1>3, <1>4

\* Of two colons the later has more colons up to it.
LEMMA CountMonotone ==
  ASSUME NEW text \in Text, NEW i \in Nat, NEW j \in Colons(text), i < j
  PROVE  Count(text, i) < Count(text, j)
<1> DEFINE S == {l \in Colons(text) : l <= i}
           T == {l \in Colons(text) : l <= j}
<1>1. Colons(text) \subseteq Nat /\ IsFiniteSet(Colons(text))
  BY CountType, LenProperties DEF Text
<1>2. S \subseteq T /\ j \in T /\ j \notin S /\ IsFiniteSet(T)
  BY <1>1, FS_Subset
<1>3. Cardinality(S) <= Cardinality(T) /\ Cardinality(S) # Cardinality(T)
  BY <1>2, FS_Subset
<1>4. Cardinality(S) \in Nat /\ Cardinality(T) \in Nat
  BY CountType DEF Count
<1> QED
  BY <1>3, <1>4 DEF Count

\* The colon up to which there are k is the k-th.
LEMMA MarkOfCount ==
  ASSUME NEW text \in Text, NEW i \in Colons(text)
  PROVE  Mark(text, Count(text, i)) = i /\ Count(text, i) \in Nat \ {0}
<1>1. Colons(text) \subseteq Nat \ {0}
  BY CountType, LenProperties DEF Text
<1>2. Count(text, i) > 0 /\ Count(text, i) # 0
  BY <1>1, CountMonotone, CountType
<1>3. \A l \in Colons(text) : Count(text, l) = Count(text, i) => l = i
  BY <1>1, CountMonotone, CountType
<1>4. Mark(text, Count(text, i))
        = CHOOSE l \in Colons(text) : Count(text, l) = Count(text, i)
  <2> DEFINE k == Count(text, i)
  <2>1. \A n : n # 0 => Mark(text, n) = CHOOSE l \in Colons(text) : Count(text, l) = n
    BY Zenon DEF Mark, Count
  <2> QED
    BY <1>2, <2>1
<1>5. Mark(text, Count(text, i)) = i
  BY <1>3, <1>4
<1> QED
  BY <1>2, <1>5, CountType

\* A text of n colons has a k-th colon for every k up to n, after the one before
\* it and with no colon in between.
LEMMA MarkExists ==
  ASSUME NEW text \in Text, NEW k \in 1 .. Cardinality(Colons(text))
  PROVE  Mark(text, k) \in Colons(text) /\ Count(text, Mark(text, k)) = k
<1> DEFINE T == {i \in Nat : Count(text, i) >= k}
<1>1. Len(text) \in Nat /\ Cardinality(Colons(text)) \in Nat /\ k \in Nat /\ k >= 1
  BY CountType, LenProperties DEF Text
<1>2. Len(text) \in T
  BY <1>1, CountType
<1>3. PICK i \in T : \A l \in T : i <= l
  <2> HIDE DEF T
  <2>1. T \subseteq Nat
    BY DEF T
  <2> QED
    BY <1>2, <2>1, LeastNatural
<1>4. i # 0
  BY <1>1, <1>3, CountType
<1>5. i - 1 \in Nat /\ Count(text, i - 1) < k /\ Count(text, i - 1) \in Nat
  <2>1. i - 1 \in Nat /\ ~(i <= i - 1)
    BY <1>3, <1>4
  <2>2. i - 1 \notin T
    BY <1>3, <2>1
  <2>3. Count(text, i - 1) \in Nat
    BY CountType
  <2> QED
    BY <1>1, <2>1, <2>2, <2>3
<1>6. Count(text, i) = Count(text, i - 1) + (IF i \in Colons(text) THEN 1 ELSE 0)
  <2>1. (i - 1) + 1 = i
    BY <1>3
  <2> QED
    BY <1>5, <2>1, CountStep
<1>7. Count(text, i) >= k
  BY <1>3
<1>8. i \in Colons(text) /\ Count(text, i) = k
  BY <1>1, <1>5, <1>6, <1>7
<1> QED
  BY <1>8, MarkOfCount

\* Marks come in order, with no colon between two.
LEMMA MarkOrder ==
  ASSUME NEW text \in Text, NEW k \in Nat, k + 1 \in 1 .. Cardinality(Colons(text))
  PROVE  /\ Mark(text, k) \in Nat /\ Mark(text, k + 1) \in 1 .. Len(text)
         /\ Mark(text, k) < Mark(text, k + 1)
         /\ \A j \in Colons(text) :
              ~(Mark(text, k) < j /\ j < Mark(text, k + 1))
<1>1. /\ Colons(text) \subseteq 1 .. Len(text) /\ Cardinality(Colons(text)) \in Nat
      /\ \A i : Count(text, i) \in Nat
      /\ Count(text, 0) = 0 /\ Len(text) \in Nat
  BY CountType, LenProperties DEF Text
<1>2. Mark(text, k + 1) \in Colons(text) /\ Count(text, Mark(text, k + 1)) = k + 1
  BY MarkExists
<1>3. Mark(text, k) \in Nat /\ Count(text, Mark(text, k)) = k
  <2>1. CASE k = 0
    BY <2>1, <1>1 DEF Mark
  <2>2. CASE k # 0
    <3>1. k \in 1 .. Cardinality(Colons(text))
      BY <1>1, <2>2
    <3> QED
      BY <1>1, <3>1, MarkExists
  <2> QED
    BY <2>1, <2>2
<1>4. Mark(text, k) < Mark(text, k + 1)
  <2>1. CASE Mark(text, k + 1) < Mark(text, k)
    <3>1. Mark(text, k) \in Colons(text)
      <4>1. k # 0
        BY <2>1, <1>1, <1>2 DEF Mark
      <4>2. k \in 1 .. Cardinality(Colons(text))
        BY <1>1, <4>1
      <4> QED
        BY <4>2, MarkExists
    <3>2. Count(text, Mark(text, k + 1)) < Count(text, Mark(text, k))
      BY <1>1, <1>2, <2>1, <3>1, CountMonotone
    <3> QED
      BY <1>2, <1>3, <3>2
  <2>2. CASE Mark(text, k + 1) = Mark(text, k)
    BY <1>2, <1>3, <2>2
  <2> QED
    BY <1>1, <1>2, <1>3, <2>1, <2>2
<1>5. ASSUME NEW j \in Colons(text), Mark(text, k) < j, j < Mark(text, k + 1)
      PROVE  FALSE
  <2>1. Count(text, Mark(text, k)) < Count(text, j)
    BY <1>3, <1>5, CountMonotone
  <2>2. Count(text, j) < Count(text, Mark(text, k + 1))
    BY <1>1, <1>2, <1>5, CountMonotone
  <2> QED
    BY <1>1, <1>2, <1>3, <2>1, <2>2
<1> QED
  BY <1>1, <1>2, <1>3, <1>4, <1>5

\* A part of a text is a text.
LEMMA SubSeqOfText ==
  ASSUME NEW text \in Text, NEW i \in Nat, NEW j \in Int, i >= 1, j <= Len(text)
  PROVE  /\ SubSeq(text, i, j) \in Text
         /\ Len(SubSeq(text, i, j)) = IF i <= j THEN j - i + 1 ELSE 0
         /\ \A l \in 1 .. j - i + 1 : SubSeq(text, i, j)[l] = text[l + i - 1]
<1>1. Len(text) \in Nat /\ \A l \in 1 .. Len(text) : text[l] \in Words
  BY LenProperties, ElementOfSeq DEF Text
<1>2. \A l \in i .. j : text[l] \in Words
  BY <1>1
<1>3. \A l \in 1 .. j - i + 1 : SubSeq(text, i, j)[l] = text[i + l - 1]
  BY <1>2, SubSeqProperties
<1> QED
  BY <1>2, <1>3, SubSeqProperties DEF Text

\* The fields read from a text have no separator, but for the last.
LEMMA FieldsAreClean ==
  ASSUME NEW text \in Text, NEW n \in 1 .. Cardinality(Colons(text)),
         NEW k \in 1 .. n
  PROVE  /\ Fields(text, n)[k] \in Text
         /\ k < n => Colon \notin ToSet(Fields(text, n)[k])
<1>1. /\ Cardinality(Colons(text)) \in Nat /\ Len(text) \in Nat
      /\ DOMAIN text = 1 .. Len(text)
      /\ n \in Nat /\ k \in Nat /\ k >= 1 /\ k <= n
  BY CountType, LenProperties DEF Text
<1>2. Mark(text, k) \in 1 .. Len(text)
  <2>1. k - 1 \in Nat /\ (k - 1) + 1 = k /\ k \in 1 .. Cardinality(Colons(text))
    BY <1>1
  <2> QED
    BY <2>1, MarkOrder
<1>3. CASE k < n
  <2>1. k + 1 \in 1 .. Cardinality(Colons(text))
    BY <1>1, <1>3
  <2>2. /\ Mark(text, k + 1) \in 1 .. Len(text)
        /\ Mark(text, k) < Mark(text, k + 1)
        /\ \A j \in Colons(text) : ~(Mark(text, k) < j /\ j < Mark(text, k + 1))
    BY <1>1, <2>1, MarkOrder
  <2> DEFINE i == Mark(text, k) + 1
             j == Mark(text, k + 1) - 1
             s == SubSeq(text, i, j)
  <2>3. Fields(text, n)[k] = s
    BY <1>1, <1>3 DEF Fields
  <2>4. i \in Nat /\ i >= 1 /\ j \in Int /\ j <= Len(text)
    BY <1>1, <1>2, <2>2
  <2>5. /\ s \in Text
        /\ Len(s) = IF i <= j THEN j - i + 1 ELSE 0
        /\ \A l \in 1 .. j - i + 1 : s[l] = text[l + i - 1]
    BY <2>4, SubSeqOfText
  <2>6. ASSUME NEW l \in DOMAIN s, s[l] = Colon
        PROVE  FALSE
    <3>1. l \in 1 .. Len(s)
      BY <2>5, LenProperties DEF Text
    <3>2. i <= j /\ l \in 1 .. j - i + 1
      BY <2>4, <2>5, <3>1
    <3>3. l + i - 1 \in 1 .. Len(text) /\ text[l + i - 1] = Colon
      BY <2>4, <2>5, <2>6, <3>2
    <3>4. l + i - 1 \in Colons(text)
      BY <1>1, <3>3 DEF Colons
    <3>5. Mark(text, k) < l + i - 1 /\ l + i - 1 < Mark(text, k + 1)
      BY <1>2, <2>2, <3>2
    <3> QED
      BY <2>2, <3>4, <3>5
  <2> QED
    BY <2>3, <2>5, <2>6 DEF ToSet
<1>4. CASE k = n
  <2>1. ~(k < n)
    BY <1>1, <1>4
  <2>2. Fields(text, n)[k] = SubSeq(text, Mark(text, k) + 1, Len(text))
    BY <2>1 DEF Fields
  <2>3. Mark(text, k) + 1 \in Nat /\ Mark(text, k) + 1 >= 1
    BY <1>2
  <2>4. SubSeq(text, Mark(text, k) + 1, Len(text)) \in Text
    BY <1>1, <2>3, LenProperties, SubSeqOfText DEF Text
  <2> QED
    BY <1>4, <2>2, <2>4
<1> QED
  BY <1>1, <1>3, <1>4

(***************************************************************************)
(* What serialize writes, field by field.                                  *)
(***************************************************************************)

\* None of the first k fields has a separator in it.
Clean(fields, k) == \A j \in 1 .. k : Colon \notin ToSet(fields[j])

\* The text begins with the action and k of the fields, and nothing else.
Written(text, action, fields, k) ==
  /\ text \in Text
  /\ Cardinality(Colons(text)) >= k
  /\ k > 0 => Action(text) = <<action>>
  /\ k = 0 => text = <<action>>
  /\ Fields(text, k) = [j \in 1 .. k |-> fields[j]]
  /\ Clean(fields, k) => Cardinality(Colons(text)) = k

\* The action alone is the text of no fields.
LEMMA WrittenNone ==
  ASSUME NEW action \in Words \ {Colon}, NEW fields
  PROVE  Written(<<action>>, action, fields, 0)
<1>1. PICK text : text = <<action>>
  OBVIOUS
<1>2. text \in Text /\ DOMAIN text = {1} /\ text[1] = action
  BY <1>1 DEF Text
<1>3. Colons(text) = {}
  BY <1>2 DEF Colons
<1>4. Cardinality(Colons(text)) = 0
  BY <1>3, FS_EmptySet
<1>5. Fields(text, 0) = [j \in 1 .. 0 |-> fields[j]]
  <2>1. 1 .. 0 = {}
    OBVIOUS
  <2> QED
    BY <2>1 DEF Fields
<1> QED
  BY <1>1, <1>2, <1>4, <1>5 DEF Written

\* A text with a colon and a field after it, word by word.
Joins(new, text, f) ==
  /\ new \in Text /\ Len(new) = Len(text) + 1 + Len(f)
  /\ \A i \in 1 .. Len(text) : new[i] = text[i]
  /\ new[Len(text) + 1] = Colon
  /\ \A i \in 1 .. Len(f) : new[Len(text) + 1 + i] = f[i]

\* What is written for a further field.
LEMMA Joined ==
  ASSUME NEW text \in Text, NEW f \in Text
  PROVE  Joins(text \o (<<Colon>> \o f), text, f)
<1>0. PICK new : new = text \o (<<Colon>> \o f)
  OBVIOUS
<1>1. PICK g : g = <<Colon>> \o f
  OBVIOUS
<1>2. Len(text) \in Nat /\ Len(f) \in Nat /\ Colon \in Words
  BY LenProperties, VocabularyAssumption DEF Text
<1>3. /\ g \in Seq(Words) /\ Len(g) = Len(f) + 1 /\ g[1] = Colon
      /\ \A i \in 1 .. Len(f) : g[i + 1] = f[i]
  <2>1. <<Colon>> \in Seq(Words) /\ Len(<<Colon>>) = 1 /\ <<Colon>>[1] = Colon
    BY <1>2
  <2>2. /\ g \in Seq(Words) /\ Len(g) = 1 + Len(f)
        /\ \A i \in 1 .. 1 + Len(f) : g[i] = IF i <= 1 THEN <<Colon>>[i] ELSE f[i - 1]
    BY <1>1, <2>1, ConcatProperties DEF Text
  <2>3. ASSUME NEW i \in 1 .. Len(f) PROVE g[i + 1] = f[i]
    <3>1. i + 1 \in 1 .. 1 + Len(f) /\ ~(i + 1 <= 1) /\ (i + 1) - 1 = i
      BY <1>2
    <3> QED
      BY <2>2, <3>1
  <2>4. g[1] = Colon
    <3>1. 1 \in 1 .. 1 + Len(f)
      BY <1>2
    <3> QED
      BY <2>1, <2>2, <3>1
  <2> QED
    BY <1>2, <2>2, <2>3, <2>4
<1>4. /\ new \in Seq(Words) /\ Len(new) = Len(text) + Len(g)
      /\ \A i \in 1 .. Len(text) + Len(g) :
           new[i] = IF i <= Len(text) THEN text[i] ELSE g[i - Len(text)]
  BY <1>0, <1>1, <1>3, ConcatProperties DEF Text
<1>5. ASSUME NEW i \in 1 .. Len(f) PROVE new[Len(text) + 1 + i] = f[i]
  <2>1. /\ Len(text) + 1 + i \in 1 .. Len(text) + Len(g)
        /\ ~(Len(text) + 1 + i <= Len(text))
        /\ Len(text) + 1 + i - Len(text) = i + 1
    BY <1>2, <1>3
  <2> QED
    BY <1>3, <1>4, <2>1
<1>6. new[Len(text) + 1] = Colon
  <2>1. /\ Len(text) + 1 \in 1 .. Len(text) + Len(g)
        /\ ~(Len(text) + 1 <= Len(text)) /\ Len(text) + 1 - Len(text) = 1
    BY <1>2, <1>3
  <2> QED
    BY <1>3, <1>4, <2>1
<1>7. \A i \in 1 .. Len(text) : new[i] = text[i]
  BY <1>2, <1>3, <1>4
<1> QED
  <2>1. new \in Text
    BY <1>4 DEF Text
  <2>2. Len(new) = Len(text) + 1 + Len(f)
    BY <1>2, <1>3, <1>4
  <2>3. Joins(new, text, f)
    BY <1>5, <1>6, <1>7, <2>1, <2>2 DEF Joins
  <2> QED
    BY <1>0, <2>3

\* A further field keeps the fields before it readable if those are clean.
LEMMA WrittenNext ==
  ASSUME NEW text, NEW action \in Words, NEW fields, NEW k \in Nat,
         Written(text, action, fields, k), Clean(fields, k),
         NEW f \in Text, f = fields[k + 1],
         NEW new, Joins(new, text, f)
  PROVE  Written(new, action, fields, k + 1)
<1>1. PICK L, F : L = Len(text) /\ F = Len(f)
  OBVIOUS
<1>2. /\ text \in Text /\ L \in Nat /\ DOMAIN text = 1 .. L
      /\ F \in Nat /\ DOMAIN f = 1 .. F
  BY <1>1, LenProperties DEF Text, Written
<1>3. /\ new \in Text /\ Len(new) = L + 1 + F /\ DOMAIN new = 1 .. (L + 1 + F)
      /\ \A i \in 1 .. L : new[i] = text[i]
      /\ new[L + 1] = Colon
      /\ \A i \in 1 .. F : new[L + 1 + i] = f[i]
  <2>1. /\ new \in Text /\ Len(new) = Len(text) + 1 + Len(f)
        /\ \A i \in 1 .. Len(text) : new[i] = text[i]
        /\ new[Len(text) + 1] = Colon
        /\ \A i \in 1 .. Len(f) : new[Len(text) + 1 + i] = f[i]
    BY DEF Joins
  <2>2. DOMAIN new = 1 .. Len(new)
    BY <2>1, LenProperties DEF Text
  <2> QED
    BY <1>1, <2>1, <2>2
<1>4. Colons(text) \subseteq 1 .. L /\ IsFiniteSet(Colons(text))
      /\ Cardinality(Colons(text)) = k
  BY <1>1, <1>2, CountType DEF Written
<1>5. \A i \in 1 .. L : i \in Colons(new) <=> i \in Colons(text)
  BY <1>2, <1>3 DEF Colons
<1>6. L + 1 \in Colons(new)
  BY <1>2, <1>3 DEF Colons
<1>7. Colons(new) \subseteq 1 .. Len(new)
  BY <1>3, CountType
<1>8. \A i \in 1 .. L : Count(new, i) = Count(text, i)
  <2> SUFFICES ASSUME NEW i \in 1 .. L PROVE Count(new, i) = Count(text, i)
    OBVIOUS
  <2>1. {j \in Colons(new) : j <= i} = {j \in Colons(text) : j <= i}
    BY <1>2, <1>3, <1>4, <1>5, <1>7
  <2> QED
    BY <2>1 DEF Count
<1>9. Count(new, L + 1) = k + 1
  <2>1. {j \in Colons(new) : j <= L + 1} = Colons(text) \cup {L + 1}
    BY <1>2, <1>3, <1>4, <1>5, <1>6, <1>7
  <2>2. L + 1 \notin Colons(text)
    BY <1>2, <1>4
  <2> QED
    BY <1>4, <2>1, <2>2, FS_AddElement DEF Count
<1>10. Mark(new, k + 1) = L + 1
  BY <1>3, <1>6, <1>9, MarkOfCount
<1>11. ASSUME NEW j \in 1 .. k
       PROVE  Mark(new, j) = Mark(text, j) /\ Mark(text, j) \in 1 .. L
  <2>1. Mark(text, j) \in Colons(text) /\ Count(text, Mark(text, j)) = j
    BY <1>2, <1>4, MarkExists
  <2>2. Mark(text, j) \in 1 .. L /\ Mark(text, j) \in Colons(new)
        /\ Count(new, Mark(text, j)) = j
    BY <1>4, <1>5, <1>8, <2>1
  <2> QED
    BY <1>3, <2>2, MarkOfCount
<1>12. Cardinality(Colons(new)) >= k + 1
  <2>1. Colons(text) \cup {L + 1} \subseteq Colons(new) /\ L + 1 \notin Colons(text)
    BY <1>2, <1>4, <1>5, <1>6
  <2>2. /\ Cardinality(Colons(text) \cup {L + 1}) = k + 1
        /\ IsFiniteSet(Colons(new)) /\ Cardinality(Colons(new)) \in Nat
    BY <1>3, <1>4, <2>1, FS_AddElement, CountType
  <2>3. Cardinality(Colons(text) \cup {L + 1}) <= Cardinality(Colons(new))
    BY <2>1, <2>2, FS_Subset
  <2> QED
    BY <2>2, <2>3
<1>13. ASSUME NEW i \in Nat, NEW j \in Int, i >= 1, j <= L
       PROVE  SubSeq(new, i, j) = SubSeq(text, i, j)
  <2>1. j <= Len(new)
    BY <1>2, <1>3, <1>13
  <2>2. /\ SubSeq(text, i, j) \in Seq(Words) /\ SubSeq(new, i, j) \in Seq(Words)
        /\ Len(SubSeq(text, i, j)) = Len(SubSeq(new, i, j))
        /\ Len(SubSeq(text, i, j)) = IF i <= j THEN j - i + 1 ELSE 0
    BY <1>2, <1>3, <1>13, <2>1, SubSeqOfText DEF Text
  <2>3. ASSUME NEW l \in 1 .. Len(SubSeq(text, i, j))
        PROVE  SubSeq(new, i, j)[l] = SubSeq(text, i, j)[l]
    <3>1. l \in 1 .. j - i + 1 /\ l + i - 1 \in 1 .. L
      BY <1>2, <1>13, <2>2
    <3>2. SubSeq(new, i, j)[l] = new[l + i - 1] /\ SubSeq(text, i, j)[l] = text[l + i - 1]
      BY <1>2, <1>3, <1>13, <2>1, <3>1, SubSeqOfText
    <3> QED
      BY <1>3, <3>1, <3>2
  <2> QED
    BY <2>2, <2>3, SeqEqual
<1>14. Action(new) = <<action>>
  <2>1. CASE k = 0
    <3>1. text = <<action>>
      BY <2>1 DEF Written
    <3>2. L = 1
      BY <1>1, <3>1
    <3>3. Mark(new, 1) = 2
      BY <1>10, <2>1, <3>2
    <3>4. Action(new) = SubSeq(new, 1, L)
      BY <3>2, <3>3 DEF Action
    <3>5. SubSeq(new, 1, L) = SubSeq(text, 1, L)
      <4>1. 1 \in Nat /\ 1 >= 1 /\ L \in Int /\ L <= L
        BY <1>2
      <4> QED
        BY <1>13, <4>1
    <3>6. SubSeq(text, 1, L) = text
      BY <1>1, <1>2, SubSeqFull DEF Text
    <3> QED
      BY <3>1, <3>4, <3>5, <3>6
  <2>2. CASE k > 0
    <3>1. Mark(new, 1) = Mark(text, 1) /\ Mark(text, 1) \in 1 .. L
      BY <1>11, <2>2
    <3>2. Action(new) = Action(text)
      <4>1. PICK i : i = Mark(text, 1)
        OBVIOUS
      <4>2. 1 \in Nat /\ 1 >= 1 /\ i - 1 \in Int /\ i - 1 <= L
        BY <1>2, <3>1, <4>1
      <4>3. SubSeq(new, 1, i - 1) = SubSeq(text, 1, i - 1)
        BY <1>13, <4>2
      <4> QED
        BY <3>1, <4>1, <4>3 DEF Action
    <3> QED
      BY <2>2, <3>2 DEF Written
  <2> QED
    BY <2>1, <2>2
<1>15. Fields(new, k + 1) = [j \in 1 .. k + 1 |-> fields[j]]
  <2> SUFFICES ASSUME NEW j \in 1 .. k + 1
               PROVE  SubSeq(new, Mark(new, j) + 1,
                             IF j < k + 1 THEN Mark(new, j + 1) - 1 ELSE Len(new))
                        = fields[j]
    BY DEF Fields
  <2>1. CASE j = k + 1
    <3>1. Mark(new, j) + 1 = L + 2 /\ ~(j < k + 1)
      BY <1>2, <1>10, <2>1
    <3> DEFINE s == SubSeq(new, L + 2, Len(new))
    <3>2. /\ s \in Seq(Words) /\ Len(s) = F
          /\ \A l \in 1 .. F : s[l] = new[l + (L + 2) - 1]
      <4>1. L + 2 \in Nat /\ L + 2 >= 1 /\ Len(new) \in Int /\ Len(new) <= Len(new)
            /\ Len(new) - (L + 2) + 1 = F
        BY <1>2, <1>3
      <4>2. Len(s) = IF L + 2 <= Len(new) THEN Len(new) - (L + 2) + 1 ELSE 0
        BY <1>3, <4>1, SubSeqOfText
      <4> QED
        BY <1>2, <1>3, <4>1, <4>2, SubSeqOfText DEF Text
    <3>3. \A l \in 1 .. F : s[l] = f[l]
      <4> SUFFICES ASSUME NEW l \in 1 .. F PROVE s[l] = f[l]
        OBVIOUS
      <4>1. l + (L + 2) - 1 = L + 1 + l
        BY <1>2
      <4> QED
        BY <1>3, <3>2, <4>1
    <3>4. s = f
      BY <1>2, <3>2, <3>3, SeqEqual DEF Text
    <3> QED
      BY <2>1, <3>1, <3>4
  <2>2. CASE j = k
    <3>1. k \in 1 .. k /\ j < k + 1 /\ Mark(new, j + 1) - 1 = L
      BY <1>2, <1>10, <2>2
    <3>2. Mark(new, j) = Mark(text, j) /\ Mark(text, j) \in 1 .. L
      BY <1>11, <2>2, <3>1
    <3>3. SubSeq(new, Mark(text, j) + 1, L) = SubSeq(text, Mark(text, j) + 1, L)
      <4>1. Mark(text, j) + 1 \in Nat /\ Mark(text, j) + 1 >= 1 /\ L \in Int /\ L <= L
        BY <1>2, <3>2
      <4> QED
        BY <1>13, <4>1
    <3>4. Fields(text, k)[k] = SubSeq(text, Mark(text, k) + 1, L)
      <4>1. ~(k < k)
        OBVIOUS
      <4> QED
        BY <1>1, <3>1, <4>1 DEF Fields
    <3>5. Fields(text, k)[k] = fields[k]
      BY <3>1 DEF Written
    <3> QED
      BY <2>2, <3>1, <3>2, <3>3, <3>4, <3>5
  <2>3. CASE j < k
    <3>1. j \in 1 .. k /\ j + 1 \in 1 .. k /\ j < k + 1
      BY <2>3
    <3>2. /\ Mark(new, j) = Mark(text, j) /\ Mark(text, j) \in 1 .. L
          /\ Mark(new, j + 1) = Mark(text, j + 1) /\ Mark(text, j + 1) \in 1 .. L
      BY <1>11, <3>1
    <3>3. SubSeq(new, Mark(text, j) + 1, Mark(text, j + 1) - 1)
            = SubSeq(text, Mark(text, j) + 1, Mark(text, j + 1) - 1)
      <4>1. /\ Mark(text, j) + 1 \in Nat /\ Mark(text, j) + 1 >= 1
            /\ Mark(text, j + 1) - 1 \in Int /\ Mark(text, j + 1) - 1 <= L
        BY <1>2, <3>2
      <4> QED
        BY <1>13, <4>1
    <3>4. Fields(text, k)[j] = SubSeq(text, Mark(text, j) + 1, Mark(text, j + 1) - 1)
      BY <2>3, <3>1 DEF Fields
    <3>5. Fields(text, k)[j] = fields[j]
      BY <3>1 DEF Written
    <3> QED
      BY <3>1, <3>2, <3>3, <3>4, <3>5
  <2>4. j = k + 1 \/ j = k \/ j < k
    OBVIOUS
  <2> QED
    BY <2>1, <2>2, <2>3, <2>4
<1>16. ASSUME Clean(fields, k + 1) PROVE Cardinality(Colons(new)) = k + 1
  <2>1. Colon \notin ToSet(f)
    BY <1>16 DEF Clean
  <2>2. \A i \in 1 .. F : f[i] # Colon
    BY <1>2, <2>1 DEF ToSet
  <2>3. ASSUME NEW i \in Colons(new) PROVE i <= L + 1
    <3> SUFFICES ASSUME i > L + 1 PROVE FALSE
      BY <1>2, <1>3, <1>7
    <3>1. i - L - 1 \in 1 .. F /\ L + 1 + (i - L - 1) = i
      <4>1. i \in Nat /\ i <= L + 1 + F
        BY <1>3, <1>7
      <4>2. L \in Nat /\ F \in Nat
        BY <1>2
      <4>3. i > L + 1
        OBVIOUS
      <4>4. L + 1 + (i - L - 1) = i
        BY <4>1, <4>2
      <4>5. i - L - 1 \in Nat /\ i - L - 1 >= 1
        BY <4>1, <4>2, <4>3
      <4>6. i - L - 1 <= F
        <5>1. \A l, n \in Nat, h \in Nat : h <= l + 1 + n => h - l - 1 <= n
          OBVIOUS
        <5> QED
          BY <4>1, <4>2, <5>1
      <4> QED
        BY <4>2, <4>4, <4>5, <4>6
    <3>2. new[i] = f[i - L - 1] /\ new[i] = Colon
      BY <1>3, <3>1 DEF Colons
    <3> QED
      BY <2>2, <3>1, <3>2
  <2>4. {j \in Colons(new) : j <= L + 1} = Colons(new)
    BY <2>3
  <2> QED
    BY <1>9, <2>4 DEF Count
<1> QED
  BY <1>3, <1>12, <1>14, <1>15, <1>16 DEF Written

\* No class has more than five fields, and what is converted is one of them.
LEMMA LayoutFacts ==
  ASSUME NEW a \in DOMAIN Layout
  PROVE  /\ a \in ActionTypes /\ a \in Words /\ a # Colon
         /\ Layout[a].size \in 1 .. 5
         /\ Layout[a].numbers \subseteq 1 .. Layout[a].size
         /\ Layout[a].doubles \subseteq Layout[a].numbers
         /\ Layout[a].empty \in BOOLEAN
<1>1. DOMAIN Layout \subseteq ActionTypes /\ Colon \notin DOMAIN Layout
  BY DEF Layout, ActionTypes, Colon
<1>2. /\ Layout[a].size \in 1 .. 5
      /\ Layout[a].numbers \subseteq 1 .. Layout[a].size
      /\ Layout[a].doubles \subseteq Layout[a].numbers
      /\ Layout[a].empty \in BOOLEAN
  <2>1. Layout[a] \in {Credentials, Plain, Factors(0, {}), Factors(1, {}),
                       Factors(2, {}), Factors(2, {4}), SellTicketMessage}
    BY DEF Layout, SignUpMessage, LogInMessage, LogInValidatorMessage,
           GetAvailableTicketsMessage, BuyTicketMessage,
           ValidateTicketMessage, CheckIntegrityMessage, LogOutMessage,
           AcceptMessage, RejectMessage, AcceptAuthMessage, RejectAuthMessage
  <2> DEFINE Sound(l) == /\ l.size \in 1 .. 5 /\ l.numbers \subseteq 1 .. l.size
                         /\ l.doubles \subseteq l.numbers /\ l.empty \in BOOLEAN
  <2>2. ASSUME NEW n \in {0, 1, 2}, NEW ns \in {{}, {4}}, ns = {} \/ n = 2
        PROVE  Sound(Factors(n, ns))
    <3>1. /\ Factors(n, ns).size = 3 + n /\ Factors(n, ns).numbers = {3} \cup ns
          /\ Factors(n, ns).doubles = {} /\ Factors(n, ns).empty = FALSE
      BY DEF Factors
    <3>2. {3} \cup ns \subseteq 1 .. 3 + n /\ 3 + n \in 1 .. 5
      BY <2>2
    <3> QED
      BY <3>1, <3>2
  <2>3. Sound(Credentials) /\ Sound(Plain) /\ Sound(SellTicketMessage)
    BY DEF Credentials, Plain, SellTicketMessage, Factors
  <2> HIDE DEF Sound
  <2>4. /\ Sound(Factors(0, {})) /\ Sound(Factors(1, {}))
        /\ Sound(Factors(2, {})) /\ Sound(Factors(2, {4}))
    BY <2>2
  <2>5. Sound(Layout[a])
    BY <2>1, <2>3, <2>4
  <2> QED
    BY <2>5 DEF Sound
<1> QED
  BY <1>1, <1>2, VocabularyAssumption

\* What is written of a message is a message, with the same action and as many
\* fields; doubles have no separator in them.
LEMMA RoundedType ==
  ASSUME NEW m \in Message
  PROVE  /\ Rounded(m) \in Message /\ Rounded(m).action = m.action
         /\ Len(Rounded(m).fields) = Len(m.fields)
         /\ Separable(m) => Separable(Rounded(m))
         /\ \A k \in 1 .. Len(m.fields) :
              (Rounded(m).fields[k] = << >>) <=> (m.fields[k] = << >>)
<1>1. PICK a, fs, n, ds : /\ a = m.action /\ fs = m.fields /\ n = Len(fs)
                          /\ ds = Layout[a].doubles
  OBVIOUS
<1>2. /\ a \in DOMAIN Layout /\ fs \in Seq(Text) /\ n = Layout[a].size
      /\ m = [action |-> a, fields |-> fs]
      /\ \A k \in Layout[a].numbers : \E w \in Numbers : fs[k] = <<w>>
  BY <1>1 DEF Message
<1>3. /\ n \in Nat /\ DOMAIN fs = 1 .. n /\ ds \subseteq Layout[a].numbers
      /\ Layout[a].numbers \subseteq 1 .. n
      /\ \A k \in 1 .. n : fs[k] \in Text
  BY <1>1, <1>2, LayoutFacts, LenProperties, ElementOfSeq
<1>4. PICK gs : gs = [k \in 1 .. n |-> IF k \in ds THEN <<SixDigits[Head(fs[k])]>>
                                       ELSE fs[k]]
  OBVIOUS
<1>5. Rounded(m) = [action |-> a, fields |-> gs]
  <2>1. [k \in DOMAIN m.fields |->
           IF k \in Layout[m.action].doubles THEN <<SixDigits[Head(m.fields[k])]>>
                                             ELSE m.fields[k]] = gs
    BY <1>1, <1>3, <1>4
  <2>2. Rounded(m) = [m EXCEPT !.fields = gs]
    BY <2>1, Zenon DEF Rounded
  <2> QED
    BY <1>2, <2>2
<1>6. ASSUME NEW k \in ds PROVE \E w \in Numbers : gs[k] = <<w>> /\ fs[k] # << >>
  <2>1. PICK w \in Numbers : fs[k] = <<w>>
    BY <1>2, <1>3, <1>6
  <2>2. k \in 1 .. n
    BY <1>3, <1>6
  <2>3. gs[k] = <<SixDigits[w]>> /\ SixDigits[w] \in Numbers /\ fs[k] # << >>
    BY <1>4, <1>6, <2>1, <2>2, PrecisionAssumption
  <2> QED
    BY <2>3
<1>7. \A w \in Numbers : <<w>> \in Text /\ <<w>> # << >> /\ Colon \notin ToSet(<<w>>)
  BY VocabularyAssumption DEF Text, ToSet
<1>8. \A k \in 1 .. n : k \notin ds => gs[k] = fs[k]
  BY <1>4
<1>9. gs \in Seq(Text) /\ Len(gs) = n
  <2>1. \A k \in 1 .. n : gs[k] \in Text
    BY <1>3, <1>6, <1>7, <1>8
  <2>2. gs \in [1 .. n -> Text]
    BY <1>4, <2>1
  <2> QED
    BY <1>3, <2>2
<1>10. \A k \in Layout[a].numbers : \E w \in Numbers : gs[k] = <<w>>
  BY <1>2, <1>3, <1>6, <1>8
<1>11. \A k \in 1 .. n : (gs[k] = << >>) <=> (fs[k] = << >>)
  <2>1. ASSUME NEW k \in 1 .. n PROVE (gs[k] = << >>) <=> (fs[k] = << >>)
    <3>1. CASE k \in ds
      BY <1>6, <1>7, <3>1
    <3>2. CASE k \notin ds
      BY <1>8, <3>2
    <3> QED
      BY <3>1, <3>2
  <2> QED
    BY <2>1
<1>12. \A k \in 1 .. n - 1 :
         Colon \notin ToSet(fs[k]) => Colon \notin ToSet(gs[k])
  <2>1. ASSUME NEW k \in 1 .. n - 1, Colon \notin ToSet(fs[k])
        PROVE  Colon \notin ToSet(gs[k])
    <3>1. k \in 1 .. n
      BY <1>3
    <3>2. CASE k \in ds
      BY <1>6, <1>7, <3>2
    <3>3. CASE k \notin ds
      BY <1>8, <2>1, <3>1, <3>3
    <3> QED
      BY <3>2, <3>3
  <2> QED
    BY <2>1
<1>13. PICK r : r = Rounded(m)
  OBVIOUS
<1>14. r.action = a /\ r.fields = gs /\ r \in [action : DOMAIN Layout, fields : Seq(Text)]
  BY <1>2, <1>5, <1>9, <1>13
<1>15. r \in Message
  BY <1>2, <1>9, <1>10, <1>14 DEF Message
<1>16. Separable(m) => Separable(r)
  BY <1>1, <1>9, <1>12, <1>14 DEF Separable
<1> QED
  BY <1>1, <1>9, <1>11, <1>13, <1>14, <1>15, <1>16

\* What is written of messages without a double is the message.
LEMMA RoundedWithout ==
  ASSUME NEW m \in Message, Layout[m.action].doubles = {}
  PROVE  Rounded(m) = m
<1>1. m.fields = [k \in DOMAIN m.fields |-> m.fields[k]]
  BY LenProperties DEF Message
<1>2. Rounded(m) = [m EXCEPT !.fields = m.fields]
  BY <1>1 DEF Rounded
<1> QED
  BY <1>2 DEF Message

\* serialize writes the action and all fields of a message.
LEMMA SerializeWrites ==
  ASSUME NEW m \in Message, Separable(m)
  PROVE  Written(serialize(m), m.action, Rounded(m).fields, Layout[m.action].size)
<1>0. PICK r \in Message : r = Rounded(m) /\ r.action = m.action /\ Separable(r)
  BY RoundedType
<1>1. PICK a, fs, n : a = r.action /\ fs = r.fields /\ n = Len(r.fields)
  OBVIOUS
<1>2. /\ a \in Words \ {Colon} /\ n \in 1 .. 5 /\ n = Layout[r.action].size
      /\ fs \in Seq(Text) /\ n = Len(fs)
  BY <1>1, LayoutFacts DEF Message
<1>3. \A j \in 1 .. n : fs[j] \in Text
  BY <1>2, ElementOfSeq
<1>4. \A j \in 1 .. n - 1 : Colon \notin ToSet(fs[j])
  BY <1>0, <1>1 DEF Separable
<1>5. \A k \in 0 .. n - 1 : Clean(fs, k)
  BY <1>2, <1>4 DEF Clean
<1>6. \A k : /\ k <= n => Part(r, k) = <<Colon>> \o fs[k]
             /\ ~(k <= n) => Part(r, k) = << >>
  BY <1>1 DEF Part
<1>7. PICK t0, t1, t2, t3, t4, t5 :
        /\ t0 = <<a>>
        /\ t1 = t0 \o Part(r, 1)
        /\ t2 = t1 \o Part(r, 2)
        /\ t3 = t2 \o Part(r, 3)
        /\ t4 = t3 \o Part(r, 4)
        /\ t5 = t4 \o Part(r, 5)
  OBVIOUS
<1>8. serialize(m) = t5
  BY <1>0, <1>1, <1>7 DEF serialize
<1>9. Written(t0, a, fs, 0)
  BY <1>2, <1>7, WrittenNone
<1>10. ASSUME NEW t, NEW u, NEW k \in 0 .. n - 1, Written(t, a, fs, k),
              u = t \o Part(r, k + 1)
       PROVE  Written(u, a, fs, k + 1)
  <2>1. k + 1 \in 1 .. n /\ k \in Nat
    BY <1>2
  <2>2. PICK f \in Text : f = fs[k + 1]
    BY <1>3, <2>1
  <2>3. u = t \o (<<Colon>> \o f) /\ t \in Text
    <3>1. k + 1 <= n
      BY <1>2, <2>1
    <3>2. Part(r, k + 1) = <<Colon>> \o f
      BY <1>6, <2>2, <3>1
    <3> QED
      BY <1>10, <3>2 DEF Written
  <2>4. Joins(u, t, f)
    BY <2>3, Joined
  <2> QED
    BY <1>2, <1>5, <1>10, <2>1, <2>2, <2>4, WrittenNext
<1>11. Written(t1, a, fs, 1)
  <2>1. 0 \in 0 .. n - 1 /\ 0 + 1 = 1
    BY <1>2
  <2> QED
    BY <1>7, <1>9, <1>10, <2>1
<1>12. IF n >= 2 THEN Written(t2, a, fs, 2) ELSE t2 = t1
  <2>1. CASE n >= 2
    <3>1. 1 \in 0 .. n - 1 /\ 1 + 1 = 2
      BY <1>2, <2>1
    <3> QED
      BY <1>7, <1>10, <1>11, <2>1, <3>1
  <2>2. CASE ~(n >= 2)
    <3>1. t1 \in Text /\ ~(2 <= n)
      BY <1>2, <1>11, <2>2 DEF Written
    <3>2. Part(r, 2) = << >>
      BY <1>6, <3>1
    <3>3. t2 = t1
      BY <1>7, <3>1, <3>2, ConcatEmptySeq DEF Text
    <3> QED
      BY <2>2, <3>3
  <2> QED
    BY <2>1, <2>2
<1>13. IF n >= 3 THEN Written(t3, a, fs, 3) ELSE t3 = t2
  <2>1. CASE n >= 3
    <3>1. 2 \in 0 .. n - 1 /\ 2 + 1 = 3 /\ n >= 2
      BY <1>2, <2>1
    <3> QED
      BY <1>7, <1>10, <1>12, <2>1, <3>1
  <2>2. CASE ~(n >= 3)
    <3>1. t2 \in Text /\ ~(3 <= n)
      BY <1>2, <1>11, <1>12, <2>2 DEF Written
    <3>2. Part(r, 3) = << >>
      BY <1>6, <3>1
    <3>3. t3 = t2
      BY <1>7, <3>1, <3>2, ConcatEmptySeq DEF Text
    <3> QED
      BY <2>2, <3>3
  <2> QED
    BY <2>1, <2>2
<1>14. IF n >= 4 THEN Written(t4, a, fs, 4) ELSE t4 = t3
  <2>1. CASE n >= 4
    <3>1. 3 \in 0 .. n - 1 /\ 3 + 1 = 4 /\ n >= 3
      BY <1>2, <2>1
    <3> QED
      BY <1>7, <1>10, <1>13, <2>1, <3>1
  <2>2. CASE ~(n >= 4)
    <3>1. t3 \in Text /\ ~(4 <= n)
      BY <1>2, <1>11, <1>12, <1>13, <2>2 DEF Written
    <3>2. Part(r, 4) = << >>
      BY <1>6, <3>1
    <3>3. t4 = t3
      BY <1>7, <3>1, <3>2, ConcatEmptySeq DEF Text
    <3> QED
      BY <2>2, <3>3
  <2> QED
    BY <2>1, <2>2
<1>15. IF n >= 5 THEN Written(t5, a, fs, 5) ELSE t5 = t4
  <2>1. CASE n >= 5
    <3>1. 4 \in 0 .. n - 1 /\ 4 + 1 = 5 /\ n >= 4
      BY <1>2, <2>1
    <3> QED
      BY <1>7, <1>10, <1>14, <2>1, <3>1
  <2>2. CASE ~(n >= 5)
    <3>1. t4 \in Text /\ ~(5 <= n)
      BY <1>2, <1>11, <1>12, <1>13, <1>14, <2>2 DEF Written
    <3>2. Part(r, 5) = << >>
      BY <1>6, <3>1
    <3>3. t5 = t4
      BY <1>7, <3>1, <3>2, ConcatEmptySeq DEF Text
    <3> QED
      BY <2>2, <3>3
  <2> QED
    BY <2>1, <2>2
<1>16. Written(t5, a, fs, n)
  <2>1. n = 1 \/ n = 2 \/ n = 3 \/ n = 4 \/ n = 5
    BY <1>2
  <2> QED
    BY <1>11, <1>12, <1>13, <1>14, <1>15, <2>1
<1> QED
  BY <1>0, <1>1, <1>2, <1>8, <1>16

\* deserialize reads back every field as it was sent, but for a double, of which
\* it reads the six digits that serialize wrote; or it throws at an empty last
\* field.
LEMMA RoundTrip ==
  ASSUME NEW m \in Message, Separable(m)
  PROVE  /\ deserialize(serialize(m)) \in {Rounded(m), Thrown}
         /\ Layout[m.action].empty \/ m.fields[Len(m.fields)] # << >>
              => deserialize(serialize(m)) = Rounded(m)
<1>0. PICK r \in Message :
        /\ r = Rounded(m) /\ r.action = m.action /\ Len(r.fields) = Len(m.fields)
        /\ \A k \in 1 .. Len(m.fields) : (r.fields[k] = << >>) <=> (m.fields[k] = << >>)
  BY RoundedType
<1>1. PICK text, n : text = serialize(m) /\ n = Layout[r.action].size
  OBVIOUS
<1>2. /\ r.action \in DOMAIN Layout /\ r.fields \in Seq(Text)
      /\ n = Len(r.fields) /\ n \in 1 .. 5
      /\ Layout[r.action].numbers \subseteq 1 .. n
      /\ Layout[r.action].empty \in BOOLEAN
  BY <1>1, LayoutFacts DEF Message
<1>3. Written(text, r.action, r.fields, n)
  BY <1>0, <1>1, SerializeWrites
<1>4. Action(text) = <<r.action>> /\ Head(Action(text)) = r.action
  <2>1. n > 0
    <3>1. n \in 1 .. 5
      BY <1>2, Zenon
    <3> QED
      BY <3>1
  <2>2. n > 0 => Action(text) = <<r.action>>
    BY <1>3, Zenon DEF Written
  <2> QED
    BY <2>1, <2>2
<1>5. Fields(text, n) = r.fields
  <2>1. r.fields = [j \in 1 .. n |-> r.fields[j]]
    BY <1>2, LenProperties
  <2> QED
    BY <1>3, <2>1 DEF Written
<1>6. Cardinality(Colons(text)) >= n
  BY <1>3 DEF Written
<1>7. \A k \in Layout[r.action].numbers :
        IsNumber(r.fields[k]) /\ <<Head(r.fields[k])>> = r.fields[k]
  <2> SUFFICES ASSUME NEW k \in Layout[r.action].numbers
               PROVE  IsNumber(r.fields[k]) /\ <<Head(r.fields[k])>> = r.fields[k]
    OBVIOUS
  <2>1. PICK w \in Numbers : r.fields[k] = <<w>>
    BY <1>0 DEF Message
  <2> QED
    BY <2>1 DEF IsNumber
<1>8. r = [action |-> r.action, fields |-> r.fields]
  BY <1>0 DEF Message
<1>9. [k \in 1 .. n |-> IF k \in Layout[r.action].numbers
                          THEN <<Head(r.fields[k])>> ELSE r.fields[k]] = r.fields
  BY <1>2, <1>7, LenProperties
<1>10. deserialize(text)
         = IF Layout[r.action].empty \/ r.fields[n] # << >> THEN r ELSE Thrown
  BY <1>1, <1>4, <1>5, <1>6, <1>7, <1>8, <1>9 DEF deserialize
<1>11. (r.fields[n] = << >>) <=> (m.fields[n] = << >>)
  BY <1>0, <1>2
<1> QED
  BY <1>0, <1>1, <1>2, <1>10, <1>11

\* A further field leaves the second word of a text a colon.
LEMMA PartExtends ==
  ASSUME NEW m \in Message, NEW t \in Text, Len(t) >= 2, t[2] = Colon,
         NEW k \in 1 .. 5
  PROVE  LET u == t \o Part(m, k) IN u \in Text /\ Len(u) >= 2 /\ u[2] = Colon
<1>1. CASE k <= Len(m.fields)
  <2>1. m.fields \in Seq(Text)
    BY DEF Message
  <2>2. PICK f \in Text : f = m.fields[k]
    BY <1>1, <2>1, ElementOfSeq, LenProperties
  <2>3. PICK u : u = t \o (<<Colon>> \o f)
    OBVIOUS
  <2>4. Joins(u, t, f)
    BY <2>3, Joined
  <2>5. PICK L, F : L = Len(t) /\ F = Len(f)
    OBVIOUS
  <2>6. L \in Nat /\ F \in Nat /\ L >= 2
    BY <2>5, LenProperties DEF Text
  <2>7. u \in Text /\ Len(u) = L + 1 + F /\ \A i \in 1 .. L : u[i] = t[i]
    BY <2>4, <2>5 DEF Joins
  <2>8. u \in Text /\ Len(u) >= 2 /\ u[2] = Colon
    BY <2>6, <2>7
  <2>9. t \o Part(m, k) = u
    BY <1>1, <2>2, <2>3 DEF Part
  <2> QED
    BY <2>8, <2>9
<1>2. CASE ~(k <= Len(m.fields))
  <2>1. t \o Part(m, k) = t
    BY <1>2, ConcatEmptySeq DEF Part, Text
  <2> QED
    BY <2>1
<1> QED
  BY <1>1, <1>2

\* Every text of a message is a text with a colon.
LEMMA SerializeType ==
  ASSUME NEW m \in Message
  PROVE  /\ serialize(m) \in Text /\ Colons(serialize(m)) # {}
         /\ serialize(m) # << >>
<1>0. PICK r \in Message : r = Rounded(m)
  BY RoundedType
<1>1. PICK t0, t1, t2, t3, t4, t5 :
        /\ t0 = <<r.action>>
        /\ t1 = t0 \o Part(r, 1)
        /\ t2 = t1 \o Part(r, 2)
        /\ t3 = t2 \o Part(r, 3)
        /\ t4 = t3 \o Part(r, 4)
        /\ t5 = t4 \o Part(r, 5)
  OBVIOUS
<1>2. serialize(m) = t5
  BY <1>0, <1>1 DEF serialize
<1> DEFINE Marked(t) == t \in Text /\ Len(t) >= 2 /\ t[2] = Colon
<1>a. 2 \in 1 .. 5 /\ 3 \in 1 .. 5 /\ 4 \in 1 .. 5 /\ 5 \in 1 .. 5
  OBVIOUS
<1>3. Marked(t1)
  <2>1. /\ r.action \in Words /\ r.fields \in Seq(Text)
        /\ Len(r.fields) \in 1 .. 5
    BY LayoutFacts DEF Message
  <2>2. PICK f \in Text : f = r.fields[1]
    BY <2>1, ElementOfSeq
  <2>3. t0 \in Text /\ Len(t0) = 1
    BY <1>1, <2>1 DEF Text
  <2>4. t1 = t0 \o (<<Colon>> \o f)
    <3>1. PICK n : n = Len(r.fields)
      OBVIOUS
    <3>2. n \in 1 .. 5
      BY <2>1, <3>1
    <3>3. 1 <= n
      BY <3>2
    <3>4. Part(r, 1) = <<Colon>> \o f
      BY <2>2, <3>1, <3>3 DEF Part
    <3> QED
      BY <1>1, <3>4
  <2>5. Joins(t1, t0, f)
    BY <2>3, <2>4, Joined
  <2>6. t1 \in Text /\ Len(t1) = 2 + Len(f) /\ t1[2] = Colon
    BY <2>3, <2>5 DEF Joins
  <2>7. Len(f) \in Nat
    BY LenProperties DEF Text
  <2> QED
    BY <2>6, <2>7
<1>4. Marked(t2)
  <2>1. LET u == t1 \o Part(r, 2) IN u \in Text /\ Len(u) >= 2 /\ u[2] = Colon
    BY <1>3, <1>a, PartExtends
  <2> QED
    BY <1>1, <2>1
<1>5. Marked(t3)
  <2>1. LET u == t2 \o Part(r, 3) IN u \in Text /\ Len(u) >= 2 /\ u[2] = Colon
    BY <1>4, <1>a, PartExtends
  <2> QED
    BY <1>1, <2>1
<1>6. Marked(t4)
  <2>1. LET u == t3 \o Part(r, 4) IN u \in Text /\ Len(u) >= 2 /\ u[2] = Colon
    BY <1>5, <1>a, PartExtends
  <2> QED
    BY <1>1, <2>1
<1>7. Marked(t5)
  <2>1. LET u == t4 \o Part(r, 5) IN u \in Text /\ Len(u) >= 2 /\ u[2] = Colon
    BY <1>6, <1>a, PartExtends
  <2> QED
    BY <1>1, <2>1
<1>8. 2 \in DOMAIN t5
  BY <1>7, LenProperties DEF Text
<1>9. 2 \in Colons(t5)
  BY <1>7, <1>8 DEF Colons
<1>10. t5 # << >>
  BY <1>7
<1> QED
  BY <1>2, <1>7, <1>9, <1>10

\* deserialize of a text gives what a handler can be called with, or throws.
LEMMA DeserializeType ==
  ASSUME NEW text \in Text, Head(Action(text)) \in Served,
         deserialize(text) # Thrown
  PROVE  deserialize(text) \in Handled /\ deserialize(text).action = Head(Action(text))
<1>1. PICK a, n : a = Head(Action(text)) /\ n = Layout[a].size
  OBVIOUS
<1>2. a \in Served /\ a \in DOMAIN Layout
  BY <1>1 DEF Served, Layout
<1>3. n \in 2 .. 5 /\ 1 \notin Layout[a].numbers
  BY <1>1, <1>2 DEF Served, Layout, SignUpMessage, LogInMessage, LogInValidatorMessage,
         GetAvailableTicketsMessage, BuyTicketMessage, SellTicketMessage,
         ValidateTicketMessage, CheckIntegrityMessage, LogOutMessage, Credentials, Factors
<1>4. /\ Cardinality(Colons(text)) >= n
      /\ \A k \in Layout[a].numbers : IsNumber(Fields(text, n)[k])
      /\ deserialize(text)
           = [action |-> a,
              fields |-> [k \in 1 .. n |->
                            IF k \in Layout[a].numbers THEN <<Head(Fields(text, n)[k])>>
                                                        ELSE Fields(text, n)[k]]]
  BY <1>1 DEF deserialize
<1>5. Cardinality(Colons(text)) \in Nat
  BY CountType
<1>6. n \in 1 .. Cardinality(Colons(text)) /\ n \in Nat /\ 1 < n
  BY <1>3, <1>4, <1>5
<1>7. \A k \in 1 .. n : Fields(text, n)[k] \in Text
  BY <1>6, FieldsAreClean
<1>8. Colon \notin ToSet(Fields(text, n)[1])
  BY <1>6, FieldsAreClean
<1>9. \A k \in Layout[a].numbers : <<Head(Fields(text, n)[k])>> \in Text
  BY <1>4, VocabularyAssumption DEF IsNumber, Text
<1>10. PICK fs : fs = [k \in 1 .. n |->
                         IF k \in Layout[a].numbers THEN <<Head(Fields(text, n)[k])>>
                                                     ELSE Fields(text, n)[k]]
  OBVIOUS
<1>11. fs \in [1 .. n -> Text] /\ fs[1] = Fields(text, n)[1]
  <2>1. 1 \in 1 .. n
    BY <1>6
  <2>2. fs[1] = Fields(text, n)[1]
    BY <1>1, <1>3, <1>10, <2>1
  <2>3. ASSUME NEW k \in 1 .. n PROVE fs[k] \in Text
    <3>1. CASE k \in Layout[a].numbers
      BY <1>9, <1>10, <3>1
    <3>2. CASE k \notin Layout[a].numbers
      BY <1>7, <1>10, <3>2
    <3> QED
      BY <3>1, <3>2
  <2> QED
    BY <1>10, <2>2, <2>3
<1>12. fs \in Seq(Text) /\ Len(fs) = n
  BY <1>6, <1>11
<1>13. deserialize(text) = [action |-> a, fields |-> fs]
  BY <1>4, <1>10
<1>14. [action |-> a, fields |-> fs] \in Handled
  BY <1>2, <1>6, <1>8, <1>11, <1>12 DEF Handled
<1> QED
  BY <1>1, <1>13, <1>14

\* A single field separates itself.
LEMMA SeparableAlone ==
  ASSUME NEW m, Len(m.fields) = 1
  PROVE  Separable(m)
<1>1. PICK n : n = Len(m.fields)
  OBVIOUS
<1>2. n = 1
  BY <1>1
<1>3. \A k \in 1 .. n - 1 : Colon \notin ToSet(m.fields[k])
  BY <1>2
<1> QED
  BY <1>1, <1>3 DEF Separable

\* The program can read back whatever a handler answers.
LEMMA AnswersAreReplies ==
  ASSUME NEW m \in Handled
  PROVE  Answers(m) \subseteq Reply
<1>1. Reject \in Reply
  <2>1. << >> \in Text /\ << << >> >> \in Seq(Text) /\ Len(<< << >> >>) = 1
    BY DEF Text
  <2>2. Layout["REJECT"] = Plain /\ "REJECT" \in DOMAIN Layout
    BY DEF Layout, RejectMessage
  <2>3. /\ Plain.size = 1 /\ Plain.numbers = {} /\ Plain.doubles = {}
        /\ Plain.empty = TRUE
    BY DEF Plain
  <2>4. Reject.action = "REJECT" /\ Reject.fields = << << >> >>
        /\ Reject \in [action : DOMAIN Layout, fields : Seq(Text)]
    BY <2>1, <2>2 DEF Reject
  <2>5. Reject \in Message
    BY <2>1, <2>2, <2>3, <2>4 DEF Message
  <2>6. Separable(Reject)
    BY <2>1, <2>4, SeparableAlone
  <2> QED
    BY <2>2, <2>3, <2>4, <2>5, <2>6 DEF Reply
<1>2. ASSUME NEW text \in Texts["LOG_OUT"]
      PROVE  [action |-> "ACCEPT", fields |-> <<text>>] \in Reply
  <2>1. text \in Text /\ <<text>> \in Seq(Text) /\ Len(<<text>>) = 1
    BY MessagesAssumption DEF Served
  <2>2. Layout["ACCEPT"] = Plain /\ "ACCEPT" \in DOMAIN Layout
    BY DEF Layout, AcceptMessage
  <2>3. /\ Plain.size = 1 /\ Plain.numbers = {} /\ Plain.doubles = {}
        /\ Plain.empty = TRUE
    BY DEF Plain
  <2>4. PICK r : r = [action |-> "ACCEPT", fields |-> <<text>>]
    OBVIOUS
  <2>5. r.action = "ACCEPT" /\ r.fields = <<text>>
        /\ r \in [action : DOMAIN Layout, fields : Seq(Text)]
    BY <2>1, <2>2, <2>4
  <2>6. r \in Message
    BY <2>1, <2>2, <2>3, <2>5 DEF Message
  <2>7. Separable(r)
    BY <2>1, <2>5, SeparableAlone
  <2> QED
    BY <2>2, <2>3, <2>4, <2>5, <2>6, <2>7 DEF Reply
<1>3. ASSUME NEW action \in {"ACCEPT_AUTH", "REJECT_AUTH"}, NEW text \in Texts[m.action]
      PROVE  [action |-> action, fields |-> <<m.fields[1], Cookie, Nonce, text>>]
               \in Reply
  <2>1. PICK n, fs, r : /\ n = m.fields[1] /\ fs = <<n, Cookie, Nonce, text>>
                        /\ r = [action |-> action, fields |-> fs]
    OBVIOUS
  <2>2. text \in Text /\ text # << >>
    BY MessagesAssumption DEF Handled
  <2>3. Cookie \in Text /\ Colon \notin ToSet(Cookie)
    BY MessagesAssumption
  <2>4. PICK w \in Numbers : Nonce = <<w>>
    BY MessagesAssumption
  <2>5. Nonce \in Text /\ Colon \notin ToSet(Nonce)
    BY <2>4, VocabularyAssumption DEF Text, ToSet
  <2>6. n \in Text /\ Colon \notin ToSet(n)
    BY <2>1, ElementOfSeq DEF Handled
  <2>7. /\ fs \in Seq(Text) /\ Len(fs) = 4
        /\ fs[1] = n /\ fs[2] = Cookie /\ fs[3] = Nonce /\ fs[4] = text
    BY <2>1, <2>2, <2>3, <2>5, <2>6
  <2>8. Layout[action] = Factors(1, {}) /\ action \in DOMAIN Layout
    BY DEF Layout, AcceptAuthMessage, RejectAuthMessage
  <2>9. /\ Layout[action].size = 4 /\ Layout[action].numbers = {3}
        /\ Layout[action].doubles = {}
    BY <2>8 DEF Factors
  <2>10. r.action = action /\ r.fields = fs
         /\ r \in [action : DOMAIN Layout, fields : Seq(Text)]
    BY <2>1, <2>7, <2>8
  <2>11. r \in Message
    BY <2>4, <2>7, <2>9, <2>10 DEF Message
  <2>12. \A k \in 1 .. 3 : Colon \notin ToSet(fs[k])
    BY <2>3, <2>5, <2>6, <2>7
  <2>13. Separable(r)
    <3>1. PICK l : l = Len(r.fields)
      OBVIOUS
    <3>2. l - 1 = 3
      BY <2>7, <2>10, <3>1
    <3>3. \A k \in 1 .. l - 1 : Colon \notin ToSet(r.fields[k])
      BY <2>10, <2>12, <3>2
    <3> QED
      BY <3>1, <3>3 DEF Separable
  <2> QED
    BY <2>1, <2>2, <2>7, <2>9, <2>10, <2>11, <2>13 DEF Reply
<1>4. ASSUME NEW r \in Answers(m), r # Reject PROVE r \in Reply
  <2>1. CASE m.action = "LOG_OUT"
    BY <1>2, <1>4, <2>1 DEF Answers
  <2>2. CASE m.action # "LOG_OUT"
    BY <1>3, <1>4, <2>2 DEF Answers
  <2> QED
    BY <2>1, <2>2
<1> QED
  BY <1>1, <1>4

\* The program can read back what a handler answered.
LEMMA ReplyReadBack ==
  ASSUME NEW m \in Reply
  PROVE  deserialize(serialize(m)) = m
BY RoundTrip, RoundedWithout DEF Reply

-----------------------------------------------------------------------------
(***************************************************************************)
(* Reads                                                                   *)
(***************************************************************************)

\* A short record is read whole, a longer one Buffer words at a time.
LEMMA ChunkOf ==
  ASSUME NEW rs, NEW t \in Text, Head(rs).text = t
  PROVE  /\ Chunk(rs) \in Text
         /\ Len(t) <= Buffer => Chunk(rs) = t /\ AfterChunk(rs) = Tail(rs)
         /\ Len(t) > Buffer =>
              \E rest \in Text :
                /\ Len(Chunk(rs)) = Buffer
                /\ Chunk(rs) \o rest = t
                /\ AfterChunk(rs) = <<[Head(rs) EXCEPT !.text = rest]>> \o Tail(rs)
<1>1. PICK n, b : n = Len(t) /\ b = Buffer
  OBVIOUS
<1>2. n \in Nat /\ b \in Nat /\ b > 0
  BY <1>1, TransportAssumption, LenProperties DEF Text
<1>3. CASE n <= b
  <2>1. (IF n < b THEN n ELSE b) = n
    BY <1>2, <1>3
  <2>2. Chunk(rs) = SubSeq(t, 1, n)
    BY <1>1, <2>1 DEF Chunk
  <2>3. SubSeq(t, 1, n) = t
    <3>1. \A l \in 1 .. n : t[l] \in Words
      BY <1>1, <1>2, ElementOfSeq DEF Text
    <3>2. /\ SubSeq(t, 1, n) \in Text /\ Len(SubSeq(t, 1, n)) = n
          /\ \A l \in 1 .. n : SubSeq(t, 1, n)[l] = t[l]
      <4>1. 1 \in Nat /\ n \in Int /\ 1 >= 1 /\ n <= Len(t)
        BY <1>1, <1>2
      <4>2. /\ SubSeq(t, 1, n) \in Text
            /\ Len(SubSeq(t, 1, n)) = IF 1 <= n THEN n - 1 + 1 ELSE 0
            /\ \A l \in 1 .. n - 1 + 1 : SubSeq(t, 1, n)[l] = t[l + 1 - 1]
        BY <4>1, SubSeqOfText
      <4>3. n - 1 + 1 = n /\ (~(1 <= n) => n = 0) /\ \A l \in 1 .. n : l + 1 - 1 = l
        BY <1>2
      <4> QED
        BY <4>2, <4>3
    <3> QED
      BY <1>1, <3>2, SeqEqual DEF Text
  <2>4. SubSeq(t, b + 1, n) = << >>
    <3>1. b + 1 > n /\ b + 1 \in Int /\ n \in Int
      BY <1>2, <1>3
    <3> QED
      BY <3>1, SubSeqEmpty
  <2>5. AfterChunk(rs) = Tail(rs)
    BY <1>1, <2>4 DEF AfterChunk
  <2>6. ~(n > b)
    BY <1>2, <1>3
  <2>7. Chunk(rs) = t
    BY <2>2, <2>3
  <2> QED
    BY <1>1, <2>5, <2>6, <2>7
<1>4. CASE n > b
  <2>1. (IF n < b THEN n ELSE b) = b
    BY <1>2, <1>4
  <2>2. PICK chunk, rest : chunk = SubSeq(t, 1, b) /\ rest = SubSeq(t, b + 1, n)
    OBVIOUS
  <2>3. Chunk(rs) = chunk
    BY <1>1, <2>1, <2>2 DEF Chunk
  <2>4. /\ chunk \in Text /\ Len(chunk) = b
        /\ \A l \in 1 .. b : chunk[l] = t[l]
    <3>1. 1 \in Nat /\ b \in Int /\ 1 >= 1 /\ b <= Len(t)
      BY <1>1, <1>2, <1>4
    <3>2. /\ chunk \in Text
          /\ Len(chunk) = IF 1 <= b THEN b - 1 + 1 ELSE 0
          /\ \A l \in 1 .. b - 1 + 1 : chunk[l] = t[l + 1 - 1]
      BY <2>2, <3>1, SubSeqOfText
    <3>3. b - 1 + 1 = b /\ 1 <= b /\ \A l \in 1 .. b : l + 1 - 1 = l
      BY <1>2
    <3> QED
      BY <3>2, <3>3
  <2>5. /\ rest \in Text /\ Len(rest) = n - b
        /\ \A l \in 1 .. n - b : rest[l] = t[l + b]
    <3>1. b + 1 \in Nat /\ n \in Int /\ b + 1 >= 1 /\ n <= Len(t)
      BY <1>1, <1>2
    <3>2. /\ rest \in Text
          /\ Len(rest) = IF b + 1 <= n THEN n - (b + 1) + 1 ELSE 0
          /\ \A l \in 1 .. n - (b + 1) + 1 : rest[l] = t[l + (b + 1) - 1]
      BY <2>2, <3>1, SubSeqOfText
    <3>3. n - (b + 1) + 1 = n - b /\ b + 1 <= n /\ \A l \in Int : l + (b + 1) - 1 = l + b
      BY <1>2, <1>4
    <3> QED
      BY <3>2, <3>3
  <2>6. rest # << >>
    <3>1. n - b # 0
      BY <1>2, <1>4
    <3> QED
      BY <2>5, <3>1
  <2>7. chunk \o rest = t
    <3>1. PICK j : j = chunk \o rest
      OBVIOUS
    <3>2. /\ j \in Seq(Words) /\ Len(j) = b + (n - b)
          /\ \A i \in 1 .. b + (n - b) : j[i] = IF i <= b THEN chunk[i] ELSE rest[i - b]
      BY <2>4, <2>5, <3>1, ConcatProperties DEF Text
    <3>3. b + (n - b) = n
      BY <1>2
    <3>4. ASSUME NEW i \in 1 .. n PROVE j[i] = t[i]
      <4>1. CASE i <= b
        <5>1. i \in 1 .. b
          BY <1>2, <4>1
        <5> QED
          BY <2>4, <3>2, <3>3, <4>1, <5>1
      <4>2. CASE ~(i <= b)
        <5>1. i - b \in 1 .. n - b /\ (i - b) + b = i
          BY <1>2, <4>2
        <5>2. rest[i - b] = t[i]
          BY <2>5, <5>1
        <5> QED
          BY <3>2, <3>3, <4>2, <5>2
      <4> QED
        BY <4>1, <4>2
    <3>5. j \in Seq(Words) /\ Len(j) = n
      BY <3>2, <3>3
    <3> QED
      BY <1>1, <3>1, <3>4, <3>5, SeqEqual DEF Text
  <2>8. AfterChunk(rs) = <<[Head(rs) EXCEPT !.text = rest]>> \o Tail(rs)
    BY <1>1, <2>2, <2>6 DEF AfterChunk
  <2>9. ~(n <= b)
    BY <1>2, <1>4
  <2> QED
    BY <1>1, <2>3, <2>4, <2>5, <2>7, <2>8, <2>9
<1>5. n <= b \/ n > b
  BY <1>2
<1> QED
  BY <1>3, <1>4, <1>5

\* A read leaves a queue of records, no longer than before.
LEMMA AfterChunkType ==
  ASSUME NEW R, NEW rs \in Seq(R), rs # << >>, Head(rs).text \in Text,
         \A rest \in Text : [Head(rs) EXCEPT !.text = rest] \in R
  PROVE  /\ AfterChunk(rs) \in Seq(R)
         /\ Len(rs) <= 1 => Len(AfterChunk(rs)) <= 1
         /\ Len(rs) <= 1 /\ Len(Head(rs).text) <= Buffer => AfterChunk(rs) = << >>
<1>1. PICK t \in Text : t = Head(rs).text
  OBVIOUS
<1>2. PICK n, b, r : n = Len(t) /\ b = Buffer /\ r = Len(rs)
  OBVIOUS
<1>3. n \in Nat /\ b \in Nat /\ r \in Nat /\ r # 0
  BY <1>2, TransportAssumption, LenProperties, EmptySeq DEF Text
<1>4. Tail(rs) \in Seq(R) /\ Len(Tail(rs)) = r - 1 /\ (r <= 1 => Tail(rs) = << >>)
  <2>1. Tail(rs) \in Seq(R) /\ Len(Tail(rs)) = r - 1
    BY <1>2, HeadTailProperties
  <2>2. r <= 1 => r - 1 = 0
    BY <1>3
  <2>3. r <= 1 => Tail(rs) = << >>
    BY <2>1, <2>2, EmptySeq
  <2> QED
    BY <2>1, <2>3
<1>5. CASE n <= b
  <2>1. AfterChunk(rs) = Tail(rs)
    BY <1>1, <1>2, <1>5, ChunkOf
  <2>2. r <= 1 => r - 1 <= 1
    BY <1>3
  <2> QED
    BY <1>2, <1>4, <2>1, <2>2
<1>6. CASE n > b
  <2>1. PICK rest \in Text :
          AfterChunk(rs) = <<[Head(rs) EXCEPT !.text = rest]>> \o Tail(rs)
    BY <1>1, <1>2, <1>6, ChunkOf
  <2>2. PICK e \in R : e = [Head(rs) EXCEPT !.text = rest]
    OBVIOUS
  <2>3. <<e>> \in Seq(R) /\ Len(<<e>>) = 1
    OBVIOUS
  <2>4. PICK a : a = <<e>> \o Tail(rs)
    OBVIOUS
  <2>5. a \in Seq(R) /\ Len(a) = 1 + (r - 1)
    BY <1>4, <2>3, <2>4, ConcatProperties
  <2>6. 1 + (r - 1) = r
    BY <1>3
  <2>7. a = AfterChunk(rs)
    BY <2>1, <2>2, <2>4
  <2>8. ~(n <= b)
    BY <1>3, <1>6
  <2> QED
    BY <1>1, <1>2, <2>5, <2>6, <2>7, <2>8
<1>7. n <= b \/ n > b
  BY <1>3
<1> QED
  BY <1>5, <1>6, <1>7

-----------------------------------------------------------------------------
(***************************************************************************)
(* What steps of others do to a connection                                 *)
(***************************************************************************)

\* At most the server's end of the connection of d closes, and its thread ends.
Spared(d) ==
  /\ client'[d] = client[d] /\ toClient'[d] = toClient[d]
  /\ replies'[d] = replies[d] /\ marks'[d] = marks[d]
  /\ link'[d] \in {link[d], "none", "shut"}
  /\ \/ thread'[d] = thread[d] /\ toServer'[d] = toServer[d]
     \/ thread'[d] = NoThread /\ toServer'[d] = << >>

\* No other connection than that of c is touched.
OnlyOf(c) == \A d \in Clients : d # c =>
  /\ client'[d] = client[d] /\ toClient'[d] = toClient[d]
  /\ replies'[d] = replies[d] /\ marks'[d] = marks[d]
  /\ link'[d] = link[d]
  /\ thread'[d] = thread[d] /\ toServer'[d] = toServer[d]

\* A connection whose program is left alone stays in order.
LEMMA SparedStays ==
  ASSUME NEW d \in Clients, ConnInv(d), Spared(d)
  PROVE  ConnInv(d)'
<1>1. EndsAgree(d)'
  BY DEF ConnInv, EndsAgree, Spared, NoThread
<1>2. WholeMessages(d)'
  <2>1. CASE thread'[d] = thread[d] /\ toServer'[d] = toServer[d]
    BY <2>1 DEF ConnInv, WholeMessages, Spared
  <2>2. CASE thread'[d] = NoThread /\ toServer'[d] = << >>
    <3>1. \A i \in DOMAIN toServer'[d] : FALSE
      BY <2>2
    <3> QED
      BY <2>2, <3>1 DEF WholeMessages, NoThread
  <2> QED
    BY <2>1, <2>2 DEF Spared
<1>3. OneInFlight(d)'
  <2>1. CASE thread'[d] = thread[d] /\ toServer'[d] = toServer[d]
    BY <2>1 DEF ConnInv, OneInFlight, Quiet, Spared
  <2>2. CASE thread'[d] = NoThread /\ toServer'[d] = << >>
    <3>1. Len(toServer'[d]) <= 1 /\ thread'[d].pc # "serve"
      BY <2>2 DEF NoThread
    <3> QED
      BY <2>2, <3>1 DEF ConnInv, OneInFlight, Quiet, Spared
  <2> QED
    BY <2>1, <2>2 DEF Spared
<1>4. InStep(d)'
  <2>1. Quiet(d) => Quiet(d)'
    BY DEF Spared, Quiet, NoThread
  <2> QED
    BY <2>1 DEF ConnInv, InStep, Spared
<1> QED
  BY <1>1, <1>2, <1>3, <1>4 DEF ConnInv

\* So it is enough to look at the connection a step is about.
LEMMA OthersStay ==
  ASSUME IInv, NEW c \in Clients, OnlyOf(c), ConnInv(c)'
  PROVE  \A d \in Clients : ConnInv(d)'
<1>1. ASSUME NEW d \in Clients, d # c PROVE ConnInv(d)'
  <2>1. Spared(d)
    BY <1>1 DEF OnlyOf, Spared
  <2> QED
    BY <2>1, SparedStays DEF IInv
<1> QED
  BY <1>1

\* The server stays up, or what ended it stays marked.
LEMMA UpOrMarked ==
  ASSUME IInv, up' = up \/ up', \A c \in Clients : marks[c] \subseteq marks'[c]
  PROVE  up' \/ \E c \in Clients : marks'[c] # {}
BY DEF IInv

-----------------------------------------------------------------------------
(***************************************************************************)
(* Types                                                                   *)
(***************************************************************************)

\* What a program's SSL_write makes, and the server's.
Records == [m : Message, text : Text]
Answered == [text : Text]

LEMMA InitType == Init => TypeOK
<1> SUFFICES ASSUME Init PROVE TypeOK
  OBVIOUS
<1>1. << >> \in Seq(Clients) /\ << >> \in Text /\ << >> \in Seq(Reply)
      /\ << >> \in Seq(Records) /\ << >> \in Seq(Answered)
  BY EmptySeq DEF Text
<1>2. Second \in Nat /\ Second \in 0 .. Second
  BY TransportAssumption DEF Second
<1>3. NoThread \in Threads /\ Down \in Programs
  BY <1>1 DEF NoThread, Down, Threads, Programs
<1>4. \A c \in Clients : client[c].sent <= MaxSent[c] + 1
  BY TransportAssumption DEF Init, Down
<1> QED
  BY <1>1, <1>2, <1>3, <1>4 DEF Init, TypeOK, Records, Answered

LEMMA ClosedType ==
  ASSUME NEW state
  PROVE  Closed(state) \in {"none", "shut"}
BY DEF Closed

\* Types are kept by each step, in the order of Transport.
LEMMA AcceptType ==
  ASSUME TypeOK, Accept
  PROVE  TypeOK'
<1>1. PICK c, ip : c = Head(backlog) /\ ip = Address[c]
  OBVIOUS
<1>2. c \in Clients /\ Tail(backlog) \in Seq(Clients)
  BY <1>1, HeadTailProperties DEF TypeOK, Accept
<1>3. ip \in Addresses
  BY <1>1, <1>2 DEF Addresses
<1>4. backlog' \in Seq(Clients)
  BY <1>2 DEF Accept
<1>5. Second \in Nat /\ 0 \in 0 .. Second
  BY TransportAssumption DEF Second
<1>6. acceptor' \in Clients \cup {Nobody}
  BY <1>1, <1>2 DEF Accept, TypeOK
<1>7. since' \in [Addresses -> 0 .. Second]
  BY <1>1, <1>3, <1>5 DEF Accept, TypeOK
<1>8. link' \in [Clients -> {"none", "queued", "open", "left", "reset", "shut"}]
  BY <1>1, <1>2, ClosedType DEF Accept, TypeOK
<1> QED
  BY <1>4, <1>6, <1>7, <1>8 DEF Accept, TypeOK, history, wires

LEMMA HandshakeType ==
  ASSUME TypeOK, Handshake
  PROVE  TypeOK'
<1>1. acceptor \in Clients /\ acceptor' \in Clients \cup {Nobody}
  BY DEF Handshake, TypeOK
<1>2. Reading \in Threads
  BY DEF Reading, Threads
<1>3. /\ link' \in [Clients -> {"none", "queued", "open", "left", "reset", "shut"}]
      /\ thread' \in [Clients -> Threads]
  BY <1>1, <1>2 DEF Handshake, TypeOK, Goto
<1>4. /\ client' \in [Clients -> Programs]
      /\ \A c \in Clients : client'[c].sent = client[c].sent
  <2>1. CASE link[acceptor] = "queued"
    <3>1. client' = [client EXCEPT ![acceptor].st = "idle"]
      BY <2>1 DEF Handshake
    <3> QED
      BY <1>1, <3>1 DEF TypeOK, Programs
  <2>2. CASE link[acceptor] # "queued"
    BY <2>2 DEF Handshake, TypeOK
  <2> QED
    BY <2>1, <2>2
<1> QED
  BY <1>1, <1>3, <1>4 DEF Handshake, TypeOK, history, wires

LEMMA TickType ==
  ASSUME TypeOK, Tick
  PROVE  TypeOK'
<1>1. Second \in Nat
  BY TransportAssumption DEF Second
<1>2. \A ip \in Addresses : (IF since[ip] < Second THEN since[ip] + 1 ELSE Second)
                              \in 0 .. Second
  BY <1>1 DEF TypeOK
<1>3. since' \in [Addresses -> 0 .. Second]
  BY <1>2 DEF Tick
<1> QED
  BY <1>3 DEF Tick, TypeOK, history, wires

LEMMA StartServerType ==
  ASSUME TypeOK, StartServer
  PROVE  TypeOK'
<1>1. Second \in 0 .. Second
  BY TransportAssumption DEF Second
<1>2. since' \in [Addresses -> 0 .. Second]
  BY <1>1 DEF StartServer
<1> QED
  BY <1>2 DEF StartServer, TypeOK, history, wires

\* Of the queues a read comes from.
LEMMA QueueTypes ==
  ASSUME TypeOK, NEW c \in Clients
  PROVE  /\ toServer[c] # << >> =>
              /\ Head(toServer[c]) \in Records
              /\ Chunk(toServer[c]) \in Text
              /\ AfterChunk(toServer[c]) \in Seq(Records)
         /\ toClient[c] # << >> =>
              /\ Head(toClient[c]) \in Answered
              /\ Chunk(toClient[c]) \in Text
              /\ AfterChunk(toClient[c]) \in Seq(Answered)
<1>1. ASSUME toServer[c] # << >>
      PROVE  /\ Head(toServer[c]) \in Records
             /\ Chunk(toServer[c]) \in Text
             /\ AfterChunk(toServer[c]) \in Seq(Records)
  <2>1. toServer[c] \in Seq(Records)
    BY DEF TypeOK, Records
  <2>2. PICK h \in Records : h = Head(toServer[c])
    BY <1>1, <2>1, HeadTailProperties
  <2>3. h.text \in Text /\ \A rest \in Text : [h EXCEPT !.text = rest] \in Records
    BY DEF Records
  <2>4. Chunk(toServer[c]) \in Text
    BY <2>2, <2>3, ChunkOf
  <2>5. AfterChunk(toServer[c]) \in Seq(Records)
    BY <1>1, <2>1, <2>2, <2>3, AfterChunkType
  <2> QED
    BY <2>2, <2>4, <2>5
<1>2. ASSUME toClient[c] # << >>
      PROVE  /\ Head(toClient[c]) \in Answered
             /\ Chunk(toClient[c]) \in Text
             /\ AfterChunk(toClient[c]) \in Seq(Answered)
  <2>1. toClient[c] \in Seq(Answered)
    BY DEF TypeOK, Answered
  <2>2. PICK h \in Answered : h = Head(toClient[c])
    BY <1>2, <2>1, HeadTailProperties
  <2>3. h.text \in Text /\ \A rest \in Text : [h EXCEPT !.text = rest] \in Answered
    BY DEF Answered
  <2>4. Chunk(toClient[c]) \in Text
    BY <2>2, <2>3, ChunkOf
  <2>5. AfterChunk(toClient[c]) \in Seq(Answered)
    BY <1>2, <2>1, <2>2, <2>3, AfterChunkType
  <2> QED
    BY <2>2, <2>4, <2>5
<1> QED
  BY <1>1, <1>2

\* SSL_free and close of a thread.
LEMMA CloseType ==
  ASSUME TypeOK, NEW c \in Clients, Close(c)
  PROVE  /\ thread' \in [Clients -> Threads]
         /\ link' \in [Clients -> {"none", "queued", "open", "left", "reset", "shut"}]
         /\ toServer' \in [Clients -> Seq(Records)]
<1>1. NoThread \in Threads /\ << >> \in Seq(Records)
  BY EmptySeq DEF NoThread, Threads
<1>2. thread' \in [Clients -> Threads]
  BY <1>1 DEF Close, Goto, TypeOK
<1>3. link' \in [Clients -> {"none", "queued", "open", "left", "reset", "shut"}]
  BY ClosedType DEF Close, TypeOK
<1>4. toServer' \in [Clients -> Seq(Records)]
  BY <1>1 DEF Close, TypeOK, Records
<1> QED
  BY <1>2, <1>3, <1>4

LEMMA ReadMessageType ==
  ASSUME TypeOK, NEW c \in Clients, ReadMessage(c)
  PROVE  TypeOK'
<1>1. PICK text, after, of : /\ text = Chunk(toServer[c])
                             /\ after = AfterChunk(toServer[c])
                             /\ of = Head(toServer[c]).m
  OBVIOUS
<1>2. text \in Text /\ after \in Seq(Records) /\ of \in Message
  BY <1>1, QueueTypes DEF ReadMessage, Records
<1> DEFINE A == /\ thread' \in [Clients -> Threads]
                /\ link' \in [Clients -> {"none", "queued", "open", "left", "reset", "shut"}]
                /\ toServer' \in [Clients -> Seq(Records)]
<1>3. ASSUME Colons(text) = {} PROVE A
  <2>1. [pc |-> "refuse"] \in Threads
    BY DEF Threads
  <2>2. /\ Goto(c, [pc |-> "refuse"])
        /\ toServer' = [toServer EXCEPT ![c] = after] /\ UNCHANGED link
    BY <1>1, <1>3 DEF ReadMessage
  <2> QED
    BY <1>2, <2>1, <2>2 DEF TypeOK, Goto, Records
<1>4. ASSUME Colons(text) # {}, Dispatch(c, text, of) PROVE A
  <2>1. CASE Close(c)
    BY <2>1, CloseType
  <2>2. CASE /\ Head(Action(text)) \in Served /\ deserialize(text) # Thrown
             /\ Goto(c, [pc |-> "serve", m |-> deserialize(text), of |-> of])
             /\ toServer' = [toServer EXCEPT ![c] = after]
             /\ UNCHANGED link
    <3>1. PICK m \in Handled : m = deserialize(text)
      BY <1>2, <2>2, DeserializeType
    <3>2. [pc |-> "serve", m |-> m, of |-> of] \in Threads
      BY <1>2 DEF Threads
    <3>3. thread' \in [Clients -> Threads]
      BY <2>2, <3>1, <3>2 DEF TypeOK, Goto
    <3> QED
      BY <1>2, <2>2, <3>3 DEF TypeOK, Records
  <2>3. CASE toServer' = [toServer EXCEPT ![c] = after] /\ UNCHANGED <<link, thread>>
    BY <1>2, <2>3 DEF TypeOK, Records
  <2> QED
    BY <1>1, <1>4, <2>1, <2>2, <2>3 DEF Dispatch
<1>5. A
  BY <1>1, <1>3, <1>4 DEF ReadMessage
<1> QED
  BY <1>5 DEF ReadMessage, TypeOK, history, accepting, Records

LEMMA WriteType ==
  ASSUME TypeOK, NEW c \in Clients, NEW m \in Reply, Write(c, m)
  PROVE  /\ toClient' \in [Clients -> Seq(Answered)]
         /\ replies' \in [Clients -> Seq(Reply)]
         /\ link' \in [Clients -> {"none", "queued", "open", "left", "reset", "shut"}]
<1>1. PICK a : a = [text |-> serialize(m)]
  OBVIOUS
<1>2. a \in Answered
  BY <1>1, SerializeType DEF Answered, Reply
<1>3. PICK q, r : q = Append(toClient[c], a) /\ r = Append(replies[c], m)
  OBVIOUS
<1>4. q \in Seq(Answered)
  BY <1>2, <1>3, AppendProperties DEF TypeOK, Answered
<1>5. r \in Seq(Reply)
  BY <1>3, AppendProperties DEF TypeOK
<1>6. link' \in [Clients -> {"none", "queued", "open", "left", "reset", "shut"}]
  BY DEF Write, TypeOK
<1>7. CASE link[c] = "open"
  <2>1. toClient' = [toClient EXCEPT ![c] = q] /\ replies' = [replies EXCEPT ![c] = r]
    BY <1>1, <1>3, <1>7 DEF Write
  <2>2. toClient' \in [Clients -> Seq(Answered)]
    BY <1>4, <2>1 DEF TypeOK, Answered
  <2>3. replies' \in [Clients -> Seq(Reply)]
    BY <1>5, <2>1 DEF TypeOK
  <2> QED
    BY <1>6, <2>2, <2>3
<1>8. CASE link[c] # "open"
  BY <1>6, <1>8 DEF Write, TypeOK, Answered
<1> QED
  BY <1>7, <1>8

\* What a handler is called with can be answered, and the answer read.
LEMMA ServeWrites ==
  ASSUME TypeOK, NEW c \in Clients, Serve(c)
  PROVE  \E m \in Reply : Write(c, m)
<1>1. thread[c] \in Threads /\ thread[c].pc = "serve"
  BY DEF TypeOK, Serve
<1>2. thread[c].m \in Handled
  BY <1>1 DEF Threads
<1>3. PICK m \in Answers(thread[c].m) : Write(c, m)
  BY DEF Serve
<1> QED
  BY <1>2, <1>3, AnswersAreReplies

\* "Invalid message format." can be read back.
LEMMA RejectIsReply == Reject \in Reply
<1>1. PICK h : h = [action |-> "SIGN_UP", fields |-> << << >> >>]
  OBVIOUS
<1>2. << >> \in Text /\ << << >> >> \in Seq(Text) /\ Len(<< << >> >>) = 1
  BY EmptySeq DEF Text
<1>3. h.action \in Served /\ h.fields = << << >> >>
  BY <1>1 DEF Served
<1>4. Colon \notin ToSet(h.fields[1])
  BY <1>3 DEF ToSet
<1>5. h \in Handled
  BY <1>1, <1>2, <1>3, <1>4 DEF Handled, Served
<1>6. Answers(h) \subseteq Reply
  BY <1>5, AnswersAreReplies
<1> QED
  BY <1>6 DEF Answers

LEMMA ServeType ==
  ASSUME TypeOK, NEW c \in Clients, Serve(c)
  PROVE  TypeOK'
<1>1. PICK m \in Reply : Write(c, m)
  BY ServeWrites
<1>2. /\ toClient' \in [Clients -> Seq(Answered)]
      /\ replies' \in [Clients -> Seq(Reply)]
      /\ link' \in [Clients -> {"none", "queued", "open", "left", "reset", "shut"}]
  BY <1>1, WriteType
<1>3. Reading \in Threads
  BY DEF Reading, Threads
<1>4. thread' \in [Clients -> Threads]
  BY <1>3 DEF Serve, Goto, TypeOK
<1> QED
  BY <1>2, <1>4 DEF Serve, TypeOK, accepting, Answered

LEMMA RefuseType ==
  ASSUME TypeOK, NEW c \in Clients, Refuse(c)
  PROVE  TypeOK'
<1>1. Write(c, Reject)
  BY DEF Refuse
<1>2. /\ toClient' \in [Clients -> Seq(Answered)]
      /\ replies' \in [Clients -> Seq(Reply)]
      /\ link' \in [Clients -> {"none", "queued", "open", "left", "reset", "shut"}]
  BY <1>1, RejectIsReply, WriteType
<1>3. [pc |-> "returned"] \in Threads
  BY DEF Threads
<1>4. thread' \in [Clients -> Threads]
  BY <1>3 DEF Refuse, Goto, TypeOK
<1> QED
  BY <1>2, <1>4 DEF Refuse, TypeOK, accepting, Answered

LEMMA CloseOnlyType ==
  ASSUME TypeOK, NEW c \in Clients, Close(c),
         UNCHANGED <<up, accepting, toClient, client, history>>
  PROVE  TypeOK'
<1>1. /\ thread' \in [Clients -> Threads]
      /\ link' \in [Clients -> {"none", "queued", "open", "left", "reset", "shut"}]
      /\ toServer' \in [Clients -> Seq(Records)]
  BY CloseType
<1> QED
  BY <1>1 DEF TypeOK, accepting, history, Records

LEMMA BrokenPipeType ==
  ASSUME TypeOK, NEW c \in Clients, BrokenPipe(c)
  PROVE  TypeOK'
<1>1. /\ NoThread \in Threads /\ << >> \in Seq(Records) /\ << >> \in Seq(Clients)
  BY EmptySeq DEF NoThread, Threads
<1>2. thread' \in [Clients -> Threads] /\ toServer' \in [Clients -> Seq(Records)]
  BY <1>1 DEF BrokenPipe
<1>3. link' \in [Clients -> {"none", "queued", "open", "left", "reset", "shut"}]
  BY ClosedType DEF BrokenPipe
<1> QED
  BY <1>1, <1>2, <1>3 DEF BrokenPipe, TypeOK, history, Records

LEMMA LeaveType ==
  ASSUME TypeOK, NEW c \in Clients, Leave(c)
  PROVE  /\ client' \in [Clients -> Programs]
         /\ \A d \in Clients : client'[d].sent <= MaxSent[d] + 1
         /\ link' \in [Clients -> {"none", "queued", "open", "left", "reset", "shut"}]
         /\ toClient' \in [Clients -> Seq(Answered)]
         /\ replies' \in [Clients -> Seq(Reply)]
<1>1. << >> \in Text /\ << >> \in Seq(Answered) /\ << >> \in Seq(Reply)
  BY EmptySeq DEF Text
<1>2. Down \in Programs /\ Down.sent = 0
  BY <1>1 DEF Down, Programs
<1>3. client' = [client EXCEPT ![c] = Down]
  BY DEF Leave, Update
<1>4. client' \in [Clients -> Programs]
  BY <1>2, <1>3 DEF TypeOK
<1>5. \A d \in Clients : client'[d].sent <= MaxSent[d] + 1
  <2>1. MaxSent[c] \in Nat
    BY TransportAssumption
  <2>2. 0 <= MaxSent[c] + 1
    BY <2>1
  <2> QED
    BY <1>2, <1>3, <2>2 DEF TypeOK
<1>6. link' \in [Clients -> {"none", "queued", "open", "left", "reset", "shut"}]
  BY DEF Leave, TypeOK
<1>7. toClient' \in [Clients -> Seq(Answered)]
  BY <1>1 DEF Leave, TypeOK, Answered
<1>8. replies' \in [Clients -> Seq(Reply)]
  BY <1>1 DEF Leave, TypeOK
<1> QED
  BY <1>4, <1>5, <1>6, <1>7, <1>8

LEMMA LeaveOnlyType ==
  ASSUME TypeOK, NEW c \in Clients, Leave(c),
         UNCHANGED <<up, accepting, thread, toServer, marks>>
  PROVE  TypeOK'
<1>1. /\ client' \in [Clients -> Programs]
      /\ \A d \in Clients : client'[d].sent <= MaxSent[d] + 1
      /\ link' \in [Clients -> {"none", "queued", "open", "left", "reset", "shut"}]
      /\ toClient' \in [Clients -> Seq(Answered)]
      /\ replies' \in [Clients -> Seq(Reply)]
  BY LeaveType
<1> QED
  BY <1>1 DEF TypeOK, accepting, Answered

LEMMA LaunchType ==
  ASSUME TypeOK, NEW c \in Clients, Launch(c)
  PROVE  TypeOK'
<1>1. << >> \in Text /\ << >> \in Seq(Records)
  BY EmptySeq DEF Text
<1>2. PICK new : new = [Down EXCEPT !.st = "connecting"]
  OBVIOUS
<1>3. new \in Programs /\ new.sent = 0 /\ NoThread \in Threads
  BY <1>1, <1>2 DEF Down, Programs, NoThread, Threads
<1>4. client' = [client EXCEPT ![c] = new]
  BY <1>2 DEF Launch, Update
<1>5. client' \in [Clients -> Programs]
  BY <1>3, <1>4 DEF TypeOK
<1>6. \A d \in Clients : client'[d].sent <= MaxSent[d] + 1
  <2>1. MaxSent[c] \in Nat
    BY TransportAssumption
  <2>2. 0 <= MaxSent[c] + 1
    BY <2>1
  <2> QED
    BY <1>3, <1>4, <2>2 DEF TypeOK
<1>7. backlog' \in Seq(Clients)
  BY AppendProperties DEF Launch, TypeOK
<1>8. /\ link' \in [Clients -> {"none", "queued", "open", "left", "reset", "shut"}]
      /\ thread' \in [Clients -> Threads]
  BY <1>3 DEF Launch, TypeOK
<1>9. toServer' \in [Clients -> Seq(Records)]
  BY <1>1 DEF Launch, TypeOK, Records
<1>10. marks' \in [Clients -> SUBSET {"split", "interrupted"}]
  BY DEF Launch, TypeOK
<1> QED
  BY <1>5, <1>6, <1>7, <1>8, <1>9, <1>10 DEF Launch, TypeOK, Records

\* SSL_write of a program.
LEMMA SendType ==
  ASSUME TypeOK, NEW c \in Clients, NEW m \in Message,
         NEW mark \in SUBSET {"split", "interrupted"}, Send(c, m, mark)
  PROVE  /\ toServer' \in [Clients -> Seq(Records)]
         /\ marks' \in [Clients -> SUBSET {"split", "interrupted"}]
<1>1. PICK r : r = [m |-> m, text |-> serialize(m)]
  OBVIOUS
<1>2. r \in Records
  BY <1>1, SerializeType DEF Records
<1>3. Append(toServer[c], r) \in Seq(Records)
  BY <1>2, AppendProperties DEF TypeOK, Records
<1>4. toServer' = [toServer EXCEPT ![c] = Append(toServer[c], r)]
  BY <1>1 DEF Send
<1>5. toServer' \in [Clients -> Seq(Records)]
  BY <1>3, <1>4 DEF TypeOK, Records
<1>6. marks' \in [Clients -> SUBSET {"split", "interrupted"}]
  BY DEF Send, TypeOK
<1> QED
  BY <1>5, <1>6

\* A program in its menu or waiting has its log-out still to send.
LEMMA SentType ==
  ASSUME TypeOK, NEW c \in Clients, NEW st \in {"wait", "exit"},
         client[c].sent <= MaxSent[c],
         Update(c, [client[c] EXCEPT !.st = st, !.sent = @ + 1, !.got = << >>])
  PROVE  /\ client' \in [Clients -> Programs]
         /\ \A d \in Clients : client'[d].sent <= MaxSent[d] + 1
<1>1. << >> \in Text
  BY EmptySeq DEF Text
<1>2. PICK new : new = [client[c] EXCEPT !.st = st, !.sent = @ + 1, !.got = << >>]
  OBVIOUS
<1>3. new \in Programs /\ new.sent = client[c].sent + 1
  <2>1. client[c] \in Programs /\ client[c].sent + 1 \in Nat
    BY DEF TypeOK, Programs
  <2>2. /\ new.st = st /\ new.in = client[c].in
        /\ new.sent = client[c].sent + 1 /\ new.got = << >>
        /\ new = [st |-> new.st, in |-> new.in, sent |-> new.sent, got |-> new.got]
    BY <1>2, <2>1 DEF Programs
  <2> QED
    BY <1>1, <2>1, <2>2 DEF Programs
<1>4. client' = [client EXCEPT ![c] = new]
  BY <1>2 DEF Update
<1>5. client' \in [Clients -> Programs]
  BY <1>3, <1>4 DEF TypeOK
<1>6. new.sent <= MaxSent[c] + 1
  <2>1. MaxSent[c] \in Nat /\ client[c].sent \in Nat
    BY TransportAssumption DEF TypeOK, Programs
  <2> QED
    BY <1>3, <2>1
<1>7. \A d \in Clients : client'[d].sent <= MaxSent[d] + 1
  BY <1>4, <1>6 DEF TypeOK
<1> QED
  BY <1>5, <1>7

LEMMA SendDataType ==
  ASSUME TypeOK, NEW c \in Clients, NEW m \in Requests[c], SendData(c, m)
  PROVE  TypeOK'
<1>1. m \in Message
  BY MessagesAssumption
<1>2. client[c].sent <= MaxSent[c]
  <2>1. MaxSent[c] \in Nat /\ client[c].sent \in Nat
    BY TransportAssumption DEF TypeOK, Programs
  <2> QED
    BY <2>1 DEF SendData
<1>3. /\ toServer' \in [Clients -> Seq(Records)]
      /\ marks' \in [Clients -> SUBSET {"split", "interrupted"}]
  BY <1>1, SendType DEF SendData
<1>4. /\ client' \in [Clients -> Programs]
      /\ \A d \in Clients : client'[d].sent <= MaxSent[d] + 1
  BY <1>2, SentType DEF SendData
<1> QED
  BY <1>3, <1>4 DEF SendData, TypeOK, accepting, Records

LEMMA SendLogOutType ==
  ASSUME IInv, NEW c \in Clients, SendLogOut(c)
  PROVE  TypeOK'
<1>1. TypeOK /\ LogOut \in Message
  BY MessagesAssumption DEF IInv
<1>2. client[c].sent <= MaxSent[c]
  BY DEF IInv, ConnInv, EndsAgree, SendLogOut
<1>3. /\ toServer' \in [Clients -> Seq(Records)]
      /\ marks' \in [Clients -> SUBSET {"split", "interrupted"}]
  <2>1. PICK mark : mark = IF client[c].st = "wait" THEN {"interrupted"} ELSE {}
    OBVIOUS
  <2>2. Send(c, LogOut, mark) /\ mark \in SUBSET {"split", "interrupted"}
    BY <2>1 DEF SendLogOut
  <2> QED
    BY <1>1, <2>2, SendType
<1>4. /\ client' \in [Clients -> Programs]
      /\ \A d \in Clients : client'[d].sent <= MaxSent[d] + 1
  BY <1>1, <1>2, SentType DEF SendLogOut
<1> QED
  BY <1>1, <1>3, <1>4 DEF SendLogOut, TypeOK, accepting, Records

LEMMA ReceiveDataType ==
  ASSUME TypeOK, NEW c \in Clients, ReceiveData(c)
  PROVE  TypeOK'
<1>1. CASE Leave(c)
  BY <1>1, LeaveOnlyType DEF ReceiveData
<1>2. CASE ~Leave(c)
  <2>1. PICK text, got, more, after :
          /\ text = Chunk(toClient[c]) /\ got = client[c].got \o text
          /\ more = (Len(text) = Buffer) /\ after = AfterChunk(toClient[c])
    OBVIOUS
  <2>2. text \in Text /\ after \in Seq(Answered)
    BY <2>1, QueueTypes DEF ReceiveData
  <2>3. client[c].got \in Text
    BY DEF TypeOK, Programs
  <2>4. got \in Text
    BY <2>1, <2>2, <2>3, ConcatProperties DEF Text
  <2>5. PICK new : new = [client[c] EXCEPT
                     !.got = got,
                     !.st = IF more THEN @ ELSE "idle",
                     !.in = @ \/ (~more /\ Head(got) = "ACCEPT_AUTH")]
    OBVIOUS
  <2>6. new \in Programs /\ new.sent = client[c].sent
    BY <2>4, <2>5 DEF TypeOK, Programs
  <2>7. client' = [client EXCEPT ![c] = new] /\ toClient' = [toClient EXCEPT ![c] = after]
        /\ UNCHANGED <<link, replies>>
    BY <1>2, <2>1, <2>5 DEF ReceiveData, Update
  <2>8. client' \in [Clients -> Programs]
    BY <2>6, <2>7 DEF TypeOK
  <2>9. \A d \in Clients : client'[d].sent <= MaxSent[d] + 1
    BY <2>6, <2>7 DEF TypeOK
  <2>10. toClient' \in [Clients -> Seq(Answered)]
    BY <2>2, <2>7 DEF TypeOK, Answered
  <2> QED
    BY <2>7, <2>8, <2>9, <2>10 DEF ReceiveData, TypeOK, accepting, Answered
<1> QED
  BY <1>1, <1>2

-----------------------------------------------------------------------------
(***************************************************************************)
(* The ends of a connection                                                *)
(***************************************************************************)

LEMMA InitConn ==
  ASSUME Init, NEW c \in Clients
  PROVE  ConnInv(c)
<1>1. /\ client[c] = Down /\ thread[c] = NoThread /\ link[c] = "none"
      /\ toServer[c] = << >> /\ toClient[c] = << >> /\ replies[c] = << >>
      /\ marks[c] = {}
  BY DEF Init
<1>2. EndsAgree(c)
  BY <1>1 DEF EndsAgree, Down
<1>3. WholeMessages(c)
  BY <1>1 DEF WholeMessages, NoThread
<1>4. OneInFlight(c)
  BY <1>1 DEF OneInFlight, Quiet, NoThread
<1>5. InStep(c)
  BY <1>1 DEF InStep, Down
<1> QED
  BY <1>2, <1>3, <1>4, <1>5 DEF ConnInv

\* The steps that no program sees, but for a connection that closes.
LEMMA LoopKeepsConn ==
  ASSUME IInv, Accept \/ Tick \/ StartServer, NEW d \in Clients
  PROVE  ConnInv(d)'
<1>1. link'[d] \in {link[d], "none", "shut"}
  BY ClosedType DEF Accept, Tick, StartServer, IInv, TypeOK
<1>2. Spared(d)
  BY <1>1 DEF Spared, Accept, Tick, StartServer, IInv, TypeOK, wires, history
<1> QED
  BY <1>2, SparedStays DEF IInv

LEMMA HandshakeKeepsConn ==
  ASSUME IInv, Handshake, NEW d \in Clients
  PROVE  ConnInv(d)'
<1>1. PICK c \in Clients : c = acceptor
  BY DEF IInv, TypeOK, Handshake
<1>2. CASE link[c] # "queued"
  <2>1. link'[d] \in {link[d], "none"}
    BY <1>1, <1>2 DEF Handshake, IInv, TypeOK
  <2>2. Spared(d)
    BY <1>1, <1>2, <2>1 DEF Spared, Handshake, wires, history
  <2> QED
    BY <2>2, SparedStays DEF IInv
<1>3. CASE link[c] = "queued"
  <2>1. client[c].st = "connecting"
    BY <1>3 DEF IInv, ConnInv, EndsAgree
  <2>2. /\ client[c] = [Down EXCEPT !.st = "connecting"]
        /\ toServer[c] = << >> /\ marks[c] = {}
        /\ toClient[c] = << >> /\ replies[c] = << >>
    BY <2>1 DEF IInv, ConnInv, EndsAgree
  <2>3. /\ client' = [client EXCEPT ![c].st = "idle"]
        /\ thread' = [thread EXCEPT ![c] = Reading]
        /\ link' = [link EXCEPT ![c] = "open"]
    BY <1>1, <1>3 DEF Handshake, Goto
  <2>4. UNCHANGED <<toServer, toClient, replies, marks>>
    BY DEF Handshake, wires, history
  <2>5. /\ client'[c].st = "idle" /\ client'[c].sent = 0
        /\ thread'[c] = Reading /\ link'[c] = "open"
    BY <2>2, <2>3 DEF IInv, TypeOK, Down
  <2>6. EndsAgree(c)'
    <3>1. MaxSent[c] \in Nat
      BY TransportAssumption
    <3>2. 0 <= MaxSent[c]
      BY <3>1
    <3> QED
      BY <2>2, <2>4, <2>5, <3>2 DEF EndsAgree
  <2>7. WholeMessages(c)'
    BY <2>2, <2>4, <2>5 DEF WholeMessages, Reading
  <2>8. OneInFlight(c)'
    BY <2>2, <2>4, <2>5 DEF OneInFlight, Quiet, Reading
  <2>9. InStep(c)'
    BY <2>2, <2>4, <2>5 DEF InStep
  <2>10. OnlyOf(c)
    BY <2>3, <2>4 DEF OnlyOf, IInv, TypeOK
  <2>11. ConnInv(c)'
    BY <2>6, <2>7, <2>8, <2>9 DEF ConnInv
  <2> QED
    BY <2>10, <2>11, OthersStay
<1> QED
  BY <1>2, <1>3

LEMMA CloseKeepsConn ==
  ASSUME IInv, NEW c \in Clients, Close(c), UNCHANGED <<toClient, client, history>>,
         NEW d \in Clients
  PROVE  ConnInv(d)'
<1>1. link'[d] \in {link[d], "none", "shut"}
  BY ClosedType DEF Close, IInv, TypeOK
<1>2. \/ thread'[d] = thread[d] /\ toServer'[d] = toServer[d]
      \/ thread'[d] = NoThread /\ toServer'[d] = << >>
  BY DEF Close, Goto, IInv, TypeOK
<1>3. Spared(d)
  BY <1>1, <1>2 DEF Spared, history
<1> QED
  BY <1>3, SparedStays DEF IInv

LEMMA BrokenPipeKeepsConn ==
  ASSUME IInv, NEW c \in Clients, BrokenPipe(c), NEW d \in Clients
  PROVE  ConnInv(d)'
<1>1. link'[d] \in {"none", "shut"}
  BY ClosedType DEF BrokenPipe
<1>2. Spared(d)
  BY <1>1 DEF Spared, BrokenPipe, history
<1> QED
  BY <1>2, SparedStays DEF IInv

\* SIGPIPE needs a second answer on a connection that was left.
LEMMA BrokenPipeIsMarked ==
  ASSUME IInv, NEW c \in Clients, BrokenPipe(c)
  PROVE  marks'[c] # {}
<1>1. marks[c] # {}
  <2>1. thread[c].pc \in {"serve", "refuse"} /\ link[c] = "reset"
    BY DEF BrokenPipe
  <2>2. CASE thread[c].pc = "serve"
    BY <2>1, <2>2 DEF IInv, ConnInv, OneInFlight, Quiet
  <2>3. CASE thread[c].pc = "refuse"
    BY <2>3 DEF IInv, ConnInv, WholeMessages
  <2> QED
    BY <2>1, <2>2, <2>3
<1> QED
  BY <1>1 DEF BrokenPipe, history

\* The oldest record of a queue of one.
LEMMA OnlyRecord ==
  ASSUME NEW R, NEW rs \in Seq(R), rs # << >>
  PROVE  /\ 1 \in DOMAIN rs /\ rs[1] \in R /\ Head(rs) = rs[1]
<1>1. PICK n : n = Len(rs)
  OBVIOUS
<1>2. n \in Nat /\ n # 0 /\ DOMAIN rs = 1 .. n
  BY <1>1, LenProperties, EmptySeq
<1>3. 1 \in 1 .. n
  BY <1>2
<1> QED
  BY <1>1, <1>2, <1>3, ElementOfSeq

\* A read is the message that was sent, unless a long one was; and its record is
\* gone when the handler runs.
LEMMA ReadMessageKeepsConn ==
  ASSUME IInv, NEW c \in Clients, ReadMessage(c), NEW d \in Clients
  PROVE  ConnInv(d)'
<1>0. TypeOK /\ ConnInv(c)
  BY DEF IInv
<1>1. PICK rs \in Seq(Records) : rs = toServer[c] /\ rs # << >>
  BY <1>0 DEF TypeOK, Records, ReadMessage
<1>2. PICK r \in Records : r = Head(rs) /\ r = rs[1] /\ 1 \in DOMAIN rs
  BY <1>1, OnlyRecord
<1>3. PICK text, after : text = Chunk(rs) /\ after = AfterChunk(rs)
  OBVIOUS
<1>4. /\ thread[c].pc = "read" /\ ~Quiet(c)
      /\ UNCHANGED <<toClient, client, replies, marks>>
  BY <1>1 DEF ReadMessage, Reading, Quiet, history
<1>5. "split" \notin marks[c] =>
        /\ text = serialize(r.m)
        /\ \A i \in DOMAIN after : i + 1 \in DOMAIN rs /\ after[i] = rs[i + 1]
  <2> SUFFICES ASSUME "split" \notin marks[c]
               PROVE  /\ text = serialize(r.m)
                      /\ \A i \in DOMAIN after : i + 1 \in DOMAIN rs /\ after[i] = rs[i + 1]
    OBVIOUS
  <2>1. r.text = serialize(r.m) /\ Len(r.text) <= Buffer
    BY <1>0, <1>1, <1>2 DEF ConnInv, WholeMessages
  <2>2. r.text \in Text
    BY DEF Records
  <2>3. text = r.text /\ after = Tail(rs)
    BY <1>2, <1>3, <2>1, <2>2, ChunkOf
  <2>4. \A i \in DOMAIN after : i + 1 \in DOMAIN rs /\ after[i] = rs[i + 1]
    <3>1. PICK n : n = Len(rs)
      OBVIOUS
    <3>2. n \in Nat /\ DOMAIN rs = 1 .. n
      BY <3>1, LenProperties
    <3>3. /\ after \in Seq(Records) /\ Len(after) = n - 1
          /\ \A i \in 1 .. Len(after) : after[i] = rs[i + 1]
      BY <1>1, <2>3, <3>1, HeadTailProperties
    <3>4. DOMAIN after = 1 .. Len(after)
      BY <3>3, LenProperties
    <3>5. DOMAIN after = 1 .. n - 1
      BY <3>3, <3>4
    <3>6. \A i \in 1 .. n - 1 : i + 1 \in 1 .. n
      BY <3>2
    <3> QED
      BY <3>2, <3>3, <3>4, <3>5, <3>6
  <2> QED
    BY <2>1, <2>3, <2>4
<1>6. marks[c] = {} => after = << >>
  <2> SUFFICES ASSUME marks[c] = {} PROVE after = << >>
    OBVIOUS
  <2>1. r.text = serialize(r.m) /\ Len(r.text) <= Buffer
    BY <1>0, <1>1, <1>2 DEF ConnInv, WholeMessages
  <2>2. Len(rs) <= 1
    BY <1>0, <1>1 DEF ConnInv, OneInFlight
  <2>3. r.text \in Text /\ \A rest \in Text : [r EXCEPT !.text = rest] \in Records
    BY DEF Records
  <2> QED
    BY <1>1, <1>2, <1>3, <2>1, <2>2, <2>3, AfterChunkType
<1>7. ASSUME toServer' = [toServer EXCEPT ![c] = after], UNCHANGED link,
             \/ UNCHANGED thread
             \/ thread' = [thread EXCEPT ![c] = [pc |-> "refuse"]] /\ "split" \in marks[c]
             \/ thread' = [thread EXCEPT ![c] =
                              [pc |-> "serve", m |-> deserialize(text), of |-> r.m]]
      PROVE  ConnInv(d)'
  <2>1. /\ toServer'[c] = after /\ link'[c] = link[c]
        /\ thread'[c].pc \in {"read", "refuse", "serve"}
        /\ thread'[c].pc = "refuse" => "split" \in marks[c]
        /\ thread'[c].pc = "serve" =>
             thread'[c].m = deserialize(text) /\ thread'[c].of = r.m
    <3>1. thread \in [Clients -> Threads] /\ toServer'[c] = after /\ link'[c] = link[c]
      BY <1>0, <1>7 DEF TypeOK
    <3>2. CASE UNCHANGED thread
      BY <1>4, <3>1, <3>2
    <3>3. CASE thread' = [thread EXCEPT ![c] = [pc |-> "refuse"]] /\ "split" \in marks[c]
      BY <3>1, <3>3
    <3>4. CASE thread' = [thread EXCEPT ![c] =
                            [pc |-> "serve", m |-> deserialize(text), of |-> r.m]]
      BY <3>1, <3>4
    <3> QED
      BY <1>7, <3>2, <3>3, <3>4
  <2>2. client[c].st \notin {"down", "connecting"} \/ client[c].st = "down"
    BY <1>0, <1>4 DEF ConnInv, EndsAgree, NoThread
  <2>3. EndsAgree(c)'
    BY <1>0, <1>4, <2>1, <2>2 DEF ConnInv, EndsAgree, Down, NoThread
  <2>4. WholeMessages(c)'
    <3> SUFFICES ASSUME "split" \notin marks[c] PROVE WholeMessages(c)'
      BY <1>4 DEF WholeMessages
    <3>1. \A i \in DOMAIN after : /\ after[i].text = serialize(after[i].m)
                                  /\ Len(after[i].text) <= Buffer
      BY <1>0, <1>1, <1>5 DEF ConnInv, WholeMessages
    <3>2. thread'[c].pc = "serve" => thread'[c].m = deserialize(serialize(thread'[c].of))
      BY <1>5, <2>1
    <3>3. thread'[c].pc \notin {"refuse", "returned"}
      BY <2>1
    <3> QED
      BY <2>1, <3>1, <3>2, <3>3 DEF WholeMessages
  <2>5. OneInFlight(c)'
    <3> SUFFICES ASSUME marks[c] = {} PROVE OneInFlight(c)'
      BY <1>4 DEF OneInFlight
    <3>1. /\ toServer'[c] = << >> /\ Len(toServer'[c]) <= 1
          /\ Len(toClient'[c]) <= 1
          /\ toClient'[c] = << >> /\ link'[c] # "reset" /\ client'[c].st # "idle"
      BY <1>0, <1>4, <1>6, <2>1 DEF ConnInv, OneInFlight
    <3> QED
      BY <3>1 DEF OneInFlight
  <2>6. InStep(c)'
    <3> SUFFICES ASSUME "split" \notin marks[c] PROVE InStep(c)'
      BY <1>4 DEF InStep
    <3> QED
      BY <1>0, <1>4 DEF ConnInv, InStep
  <2>7. ConnInv(c)'
    BY <2>3, <2>4, <2>5, <2>6 DEF ConnInv
  <2>8. OnlyOf(c)
    BY <1>0, <1>4, <1>7 DEF OnlyOf, TypeOK
  <2> QED
    BY <2>7, <2>8, OthersStay
<1>8. CASE Colons(text) = {}
  <2>1. "split" \in marks[c]
    <3>1. Colons(serialize(r.m)) # {}
      BY SerializeType DEF Records
    <3> QED
      BY <1>5, <1>8, <3>1
  <2>2. /\ Goto(c, [pc |-> "refuse"])
        /\ toServer' = [toServer EXCEPT ![c] = after] /\ UNCHANGED link
    BY <1>1, <1>3, <1>8 DEF ReadMessage
  <2> QED
    BY <1>7, <2>1, <2>2 DEF Goto
<1>9. CASE Colons(text) # {}
  <2>1. Dispatch(c, text, r.m)
    BY <1>1, <1>2, <1>3, <1>9 DEF ReadMessage
  <2>2. CASE Close(c)
    BY <1>4, <2>2, CloseKeepsConn DEF history
  <2>3. CASE ~Close(c)
    <3>1. /\ toServer' = [toServer EXCEPT ![c] = after] /\ UNCHANGED link
          /\ \/ UNCHANGED thread
             \/ Goto(c, [pc |-> "serve", m |-> deserialize(text), of |-> r.m])
      BY <1>1, <1>3, <2>1, <2>3 DEF Dispatch
    <3> QED
      BY <1>7, <3>1 DEF Goto
  <2> QED
    BY <2>2, <2>3
<1> QED
  BY <1>8, <1>9

\* The records of connections.
LEMMA Queues ==
  ASSUME TypeOK, NEW c \in Clients
  PROVE  /\ toServer[c] \in Seq(Records) /\ toClient[c] \in Seq(Answered)
         /\ replies[c] \in Seq(Reply) /\ Len(replies[c]) \in Nat
         /\ client[c] \in Programs /\ client[c].sent \in Nat
         /\ client[c].got \in Text
<1>1. /\ toServer[c] \in Seq(Records) /\ toClient[c] \in Seq(Answered)
      /\ replies[c] \in Seq(Reply) /\ client[c] \in Programs
  BY DEF TypeOK, Records, Answered
<1> QED
  BY <1>1, LenProperties DEF Programs

\* An answer is written, and the thread reads again or returns.
LEMMA WriteKeepsConn ==
  ASSUME IInv, NEW c \in Clients, NEW m \in Reply, Write(c, m),
         \/ thread[c].pc = "serve" /\ Goto(c, Reading)
         \/ thread[c].pc = "refuse" /\ Goto(c, [pc |-> "returned"]),
         UNCHANGED <<toServer, client, marks>>,
         NEW d \in Clients
  PROVE  ConnInv(d)'
<1>0. TypeOK /\ ConnInv(c)
  BY DEF IInv
<1>1. /\ link'[c] = IF link[c] = "left" THEN "reset" ELSE link[c]
      /\ thread'[c].pc \in {"read", "returned"}
      /\ thread'[c].pc = "returned" => thread[c].pc = "refuse"
      /\ thread[c].pc \in {"serve", "refuse"}
  BY <1>0 DEF Write, Goto, Reading, TypeOK
<1>2. \/ /\ link[c] = "open"
         /\ toClient' = [toClient EXCEPT ![c] = Append(@, [text |-> serialize(m)])]
         /\ replies' = [replies EXCEPT ![c] = Append(@, m)]
      \/ link[c] # "open" /\ UNCHANGED <<toClient, replies>>
  BY DEF Write
<1>3. EndsAgree(c)'
  <2>1. client[c].st # "connecting" /\ client'[c] = client[c]
    BY <1>0, <1>1 DEF ConnInv, EndsAgree, NoThread
  <2>2. client[c].st = "down" => toClient'[c] = << >> /\ replies'[c] = << >>
    BY <1>0, <1>2 DEF ConnInv, EndsAgree, TypeOK
  <2> QED
    BY <1>0, <1>1, <2>1, <2>2 DEF ConnInv, EndsAgree
<1>4. WholeMessages(c)'
  BY <1>0, <1>1 DEF ConnInv, WholeMessages
<1>5. ASSUME "split" \notin marks[c], client[c].st \in {"idle", "wait"}
      PROVE  /\ marks[c] = {} /\ toServer[c] = << >> /\ toClient[c] = << >>
             /\ client[c].st = "wait" /\ client[c].got = << >>
             /\ Len(replies[c]) + 1 = client[c].sent
  <2>1. marks[c] = {}
    BY <1>0, <1>5 DEF ConnInv, EndsAgree, TypeOK
  <2>2. thread[c].pc = "serve"
    BY <1>0, <1>1, <1>5 DEF ConnInv, WholeMessages
  <2>3. ~Quiet(c) /\ toServer[c] = << >> /\ client[c].st = "wait"
    BY <1>0, <1>5, <2>1, <2>2 DEF ConnInv, OneInFlight, Quiet
  <2> QED
    BY <1>0, <1>5, <2>1, <2>3 DEF ConnInv, InStep
<1>6. OneInFlight(c)'
  <2> SUFFICES ASSUME marks[c] = {} PROVE OneInFlight(c)'
    BY DEF OneInFlight
  <2>1. thread[c].pc = "serve"
    BY <1>0, <1>1 DEF ConnInv, WholeMessages
  <2>2. toServer[c] = << >> /\ toClient[c] = << >>
    BY <1>0, <2>1 DEF ConnInv, OneInFlight, Quiet
  <2>3. Quiet(c)'
    BY <1>1, <2>1, <2>2 DEF Quiet
  <2>4. Len(toClient'[c]) <= 1
    <3>1. PICK a : a = [text |-> serialize(m)]
      OBVIOUS
    <3>2. Append(<< >>, a) = <<a>>
      OBVIOUS
    <3>3. toClient'[c] \in {<<a>>, << >>}
      BY <1>0, <1>2, <2>2, <3>1, <3>2 DEF TypeOK
    <3>4. Len(<<a>>) <= 1 /\ Len(<< >>) <= 1
      OBVIOUS
    <3> QED
      BY <3>3, <3>4
  <2>5. Len(toServer'[c]) <= 1 /\ thread'[c].pc # "serve"
    BY <1>1, <2>2
  <2> QED
    BY <2>3, <2>4, <2>5 DEF OneInFlight
<1>7. InStep(c)'
  <2> SUFFICES ASSUME "split" \notin marks[c], client[c].st \in {"idle", "wait"}
               PROVE  InStep(c)'
    BY DEF InStep
  <2>1. /\ marks[c] = {} /\ toServer[c] = << >> /\ toClient[c] = << >>
        /\ client[c].st = "wait" /\ client[c].got = << >>
        /\ Len(replies[c]) + 1 = client[c].sent
    BY <1>5
  <2>2. Quiet(c)'
    BY <1>1, <2>1 DEF Quiet
  <2>3. CASE link[c] # "open"
    BY <1>2, <2>1, <2>3 DEF InStep
  <2>4. CASE link[c] = "open"
    <3>1. PICK a, text, rep, n : /\ text = serialize(m) /\ a = [text |-> text]
                                 /\ rep = Append(replies[c], m)
                                 /\ n = client[c].sent
      OBVIOUS
    <3>2. Append(<< >>, a) = <<a>> /\ <<a>> # << >> /\ <<a>>[1] = a
      OBVIOUS
    <3>3. toClient'[c] = <<a>> /\ replies'[c] = rep
      BY <1>0, <1>2, <2>1, <2>4, <3>1, <3>2 DEF TypeOK
    <3>4. Len(rep) = n /\ rep[n] = m /\ n > 0
      <4>1. replies[c] \in Seq(Reply) /\ Len(replies[c]) \in Nat
        BY <1>0, Queues
      <4>2. PICK l \in Nat : l = Len(replies[c])
        BY <4>1
      <4>3. Len(rep) = l + 1 /\ rep[l + 1] = m
        BY <3>1, <4>1, <4>2, AppendProperties
      <4>4. l + 1 = n /\ n > 0
        BY <2>1, <3>1, <4>2
      <4> QED
        BY <4>3, <4>4
    <3>5. text \in Text
      BY <3>1, SerializeType DEF Reply
    <3>6. << >> \o text = text
      BY <3>5, ConcatEmptySeq DEF Text
    <3>7. client'[c].got \o toClient'[c][1].text = serialize(replies'[c][n])
      BY <2>1, <3>1, <3>2, <3>3, <3>4, <3>6
    <3>8. client'[c].sent = n /\ client'[c].st = "wait" /\ toClient'[c] # << >>
      BY <2>1, <3>1, <3>2, <3>3
    <3> QED
      BY <2>2, <3>3, <3>4, <3>7, <3>8 DEF InStep
  <2> QED
    BY <2>3, <2>4
<1>8. ConnInv(c)'
  BY <1>3, <1>4, <1>6, <1>7 DEF ConnInv
<1>9. OnlyOf(c)
  BY <1>0, <1>2 DEF OnlyOf, TypeOK, Write, Goto
<1> QED
  BY <1>8, <1>9, OthersStay

\* A program ends; an answer it did not read makes a reset, and no message of it
\* is left on such a connection.
LEMMA LeaveKeepsConn ==
  ASSUME IInv, NEW c \in Clients, Leave(c), UNCHANGED <<thread, toServer, marks>>,
         NEW d \in Clients
  PROVE  ConnInv(d)'
<1>0. TypeOK /\ ConnInv(c)
  BY DEF IInv
<1>1. /\ client'[c] = Down /\ toClient'[c] = << >> /\ replies'[c] = << >>
      /\ link'[c] \notin {"queued", "open"}
      /\ link'[c] = "reset" => link[c] = "reset" \/ toClient[c] # << >>
  BY <1>0 DEF Leave, Update, TypeOK
<1>2. EndsAgree(c)'
  BY <1>1 DEF EndsAgree, Down
<1>3. WholeMessages(c)'
  BY <1>0 DEF ConnInv, WholeMessages
<1>4. OneInFlight(c)'
  <2>1. client'[c].st # "idle" /\ Len(toClient'[c]) <= 1
    BY <1>1 DEF Down
  <2> QED
    BY <1>0, <1>1, <2>1 DEF ConnInv, OneInFlight, Quiet
<1>5. InStep(c)'
  BY <1>1 DEF InStep, Down
<1>6. ConnInv(c)'
  BY <1>2, <1>3, <1>4, <1>5 DEF ConnInv
<1>7. OnlyOf(c)
  BY <1>0 DEF OnlyOf, TypeOK, Leave, Update
<1> QED
  BY <1>6, <1>7, OthersStay

LEMMA LaunchKeepsConn ==
  ASSUME IInv, NEW c \in Clients, Launch(c), NEW d \in Clients
  PROVE  ConnInv(d)'
<1>0. TypeOK /\ ConnInv(c)
  BY DEF IInv
<1>1. /\ client'[c] = [Down EXCEPT !.st = "connecting"]
      /\ link'[c] = "queued" /\ thread'[c] = NoThread
      /\ toServer'[c] = << >> /\ marks'[c] = {}
      /\ toClient'[c] = << >> /\ replies'[c] = << >>
  BY <1>0 DEF Launch, Update, TypeOK, ConnInv, EndsAgree, Down
<1>2. EndsAgree(c)'
  BY <1>1 DEF EndsAgree, Down
<1>3. WholeMessages(c)'
  BY <1>1 DEF WholeMessages, NoThread
<1>4. OneInFlight(c)'
  BY <1>1 DEF OneInFlight, Quiet, NoThread
<1>5. InStep(c)'
  BY <1>1 DEF InStep, Down
<1>6. ConnInv(c)'
  BY <1>2, <1>3, <1>4, <1>5 DEF ConnInv
<1>7. OnlyOf(c)
  BY <1>0 DEF OnlyOf, TypeOK, Launch, Update
<1> QED
  BY <1>6, <1>7, OthersStay

\* A message is sent by a program in its menu, or it is a log-out.
LEMMA SendKeepsConn ==
  ASSUME IInv, NEW c \in Clients, NEW m \in Message,
         NEW mark \in SUBSET {"split", "interrupted"}, Send(c, m, mark),
         NEW st \in {"wait", "exit"},
         Update(c, [client[c] EXCEPT !.st = st, !.sent = @ + 1, !.got = << >>]),
         link[c] = "open",
         \/ client[c].st = "idle" /\ mark = {}
         \/ client[c].st = "wait" /\ mark = {"interrupted"} /\ st = "exit",
         st = "wait" => client[c].sent < MaxSent[c],
         UNCHANGED <<link, thread, toClient, replies>>,
         NEW d \in Clients
  PROVE  ConnInv(d)'
<1>0. TypeOK /\ ConnInv(c)
  BY DEF IInv
<1>1. PICK r : r = [m |-> m, text |-> serialize(m)]
  OBVIOUS
<1>2. r \in Records /\ r.m = m /\ r.text = serialize(m)
  BY <1>1, SerializeType DEF Records
<1>3. PICK n \in Nat : n = client[c].sent
  BY <1>0, Queues
<1>4. client'[c].st = st /\ client'[c].sent = n + 1 /\ client'[c].got = << >>
  BY <1>0, <1>3 DEF Update, TypeOK, Programs
<1>5. /\ toServer'[c] = Append(toServer[c], r)
      /\ marks'[c] = marks[c] \cup mark \cup
                       (IF Len(serialize(m)) > Buffer THEN {"split"} ELSE {})
  BY <1>0, <1>1 DEF Send, TypeOK
<1>6. EndsAgree(c)'
  <2>1. st = "wait" => "interrupted" \notin marks'[c]
    BY <1>0, <1>5 DEF ConnInv, EndsAgree
  <2>2. st = "wait" => n + 1 <= MaxSent[c]
    <3>1. MaxSent[c] \in Nat
      BY TransportAssumption
    <3> QED
      BY <1>3, <3>1
  <2> QED
    BY <1>4, <2>1, <2>2 DEF EndsAgree
<1>7. WholeMessages(c)'
  <2> SUFFICES ASSUME "split" \notin marks'[c] PROVE WholeMessages(c)'
    BY DEF WholeMessages
  <2>1. "split" \notin marks[c] /\ Len(serialize(m)) <= Buffer
    <3>1. "split" \notin marks[c] /\ ~(Len(serialize(m)) > Buffer)
      BY <1>5
    <3>2. Len(serialize(m)) \in Nat /\ Buffer \in Nat
      BY SerializeType, LenProperties, TransportAssumption DEF Text
    <3> QED
      BY <3>1, <3>2
  <2>2. ASSUME NEW i \in DOMAIN toServer'[c]
        PROVE  /\ toServer'[c][i].text = serialize(toServer'[c][i].m)
               /\ Len(toServer'[c][i].text) <= Buffer
    <3>1. PICK rs \in Seq(Records) : rs = toServer[c]
      BY <1>0, Queues
    <3>2. PICK l \in Nat : l = Len(rs) /\ DOMAIN rs = 1 .. l
      BY LenProperties
    <3>3. PICK q : q = Append(rs, r)
      OBVIOUS
    <3>4. /\ q \in Seq(Records) /\ Len(q) = l + 1
          /\ \A j \in 1 .. l : q[j] = rs[j]
          /\ q[l + 1] = r
      BY <1>2, <3>2, <3>3, AppendProperties
    <3>5. DOMAIN q = 1 .. l + 1
      BY <3>4, LenProperties
    <3>6. q = toServer'[c]
      BY <1>5, <3>1, <3>3
    <3>7. i \in 1 .. l \/ i = l + 1
      BY <3>5, <3>6
    <3>8. CASE i = l + 1
      BY <1>2, <2>1, <3>4, <3>6, <3>8
    <3>9. CASE i \in 1 .. l
      <4>1. rs[i].text = serialize(rs[i].m) /\ Len(rs[i].text) <= Buffer
        BY <1>0, <2>1, <3>1, <3>2, <3>9 DEF ConnInv, WholeMessages
      <4> QED
        BY <3>4, <3>6, <3>9, <4>1
    <3> QED
      BY <3>7, <3>8, <3>9
  <2>3. /\ thread[c].pc = "serve" => thread[c].m = deserialize(serialize(thread[c].of))
        /\ thread[c].pc \notin {"refuse", "returned"}
    BY <1>0, <2>1 DEF ConnInv, WholeMessages
  <2> QED
    BY <2>2, <2>3 DEF WholeMessages
<1>8. ASSUME client[c].st = "idle", "split" \notin marks[c]
      PROVE  /\ marks[c] = {} /\ Quiet(c) /\ toClient[c] = << >>
             /\ Len(replies[c]) = n
  <2>1. marks[c] = {}
    BY <1>0, <1>8 DEF ConnInv, EndsAgree, TypeOK
  <2> QED
    BY <1>0, <1>3, <1>8, <2>1 DEF ConnInv, OneInFlight, InStep
<1>9. OneInFlight(c)'
  <2> SUFFICES ASSUME marks'[c] = {} PROVE OneInFlight(c)'
    BY DEF OneInFlight
  <2>1. client[c].st = "idle" /\ "split" \notin marks[c]
    BY <1>5
  <2>2. Append(<< >>, r) = <<r>> /\ Len(<<r>>) <= 1
    OBVIOUS
  <2>3. Len(toServer'[c]) <= 1 /\ thread'[c].pc # "serve" /\ toClient'[c] = << >>
    BY <1>5, <1>8, <2>1, <2>2 DEF Quiet
  <2>4. Len(toClient'[c]) <= 1
    BY <2>3
  <2>5. link'[c] # "reset" /\ client'[c].st # "idle"
    BY <1>4
  <2> QED
    BY <2>3, <2>4, <2>5 DEF OneInFlight
<1>10. InStep(c)'
  <2> SUFFICES ASSUME "split" \notin marks'[c], st = "wait" PROVE InStep(c)'
    BY <1>4 DEF InStep
  <2>1. client[c].st = "idle" /\ "split" \notin marks[c]
    BY <1>5
  <2>2. toClient[c] = << >> /\ Len(replies[c]) = n
    BY <1>8, <2>1
  <2> QED
    BY <1>4, <2>2 DEF InStep
<1>11. ConnInv(c)'
  BY <1>6, <1>7, <1>9, <1>10 DEF ConnInv
<1>12. OnlyOf(c)
  BY <1>0 DEF OnlyOf, TypeOK, Send, Update
<1> QED
  BY <1>11, <1>12, OthersStay

\* A read is put after what was read before, until the whole answer is there.
LEMMA ReceiveDataKeepsConn ==
  ASSUME IInv, NEW c \in Clients, ReceiveData(c), NEW d \in Clients
  PROVE  ConnInv(d)'
<1>0. TypeOK /\ ConnInv(c) /\ UNCHANGED <<thread, toServer, marks>>
  BY DEF IInv, ReceiveData
<1>1. CASE Leave(c)
  BY <1>0, <1>1, LeaveKeepsConn
<1>2. CASE ~Leave(c)
  <2>1. PICK rs \in Seq(Answered) : rs = toClient[c] /\ rs # << >>
    BY <1>0, Queues DEF ReceiveData
  <2>2. PICK a \in Answered : a = Head(rs) /\ a = rs[1] /\ 1 \in DOMAIN rs
    BY <2>1, OnlyRecord
  <2>3. PICK text, got, more, after :
          /\ text = Chunk(rs) /\ got = client[c].got \o text
          /\ more = (Len(text) = Buffer) /\ after = AfterChunk(rs)
    OBVIOUS
  <2>4. PICK new : new = [client[c] EXCEPT
                     !.got = got,
                     !.st = IF more THEN @ ELSE "idle",
                     !.in = @ \/ (~more /\ Head(got) = "ACCEPT_AUTH")]
    OBVIOUS
  <2>5. /\ client' = [client EXCEPT ![c] = new]
        /\ toClient' = [toClient EXCEPT ![c] = after]
        /\ UNCHANGED <<link, replies>>
        /\ more \/ client[c].st = "wait"
    BY <1>2, <2>1, <2>3, <2>4 DEF ReceiveData, Update
  <2>6. client[c].st \in {"wait", "exit"}
    BY DEF ReceiveData, Waits
  <2>7. /\ new.st = (IF more THEN client[c].st ELSE "idle")
        /\ new.sent = client[c].sent /\ new.got = got
    BY <1>0, <2>4 DEF TypeOK, Programs
  <2>8. client'[c] = new /\ toClient'[c] = after
    BY <1>0, <2>5 DEF TypeOK
  <2>9. EndsAgree(c)'
    BY <1>0, <2>5, <2>6, <2>7, <2>8 DEF ConnInv, EndsAgree
  <2>10. WholeMessages(c)'
    BY <1>0 DEF ConnInv, WholeMessages
  <2>11. a.text \in Text /\ \A rest \in Text : [a EXCEPT !.text = rest] \in Answered
    BY DEF Answered
  <2>12. Len(rs) <= 1 => Len(after) <= 1
    BY <2>1, <2>2, <2>3, <2>11, AfterChunkType
  <2>13. OneInFlight(c)'
    <3> SUFFICES ASSUME marks[c] = {} PROVE OneInFlight(c)'
      BY <1>0 DEF OneInFlight
    <3>1. Len(rs) <= 1 /\ Quiet(c) /\ Len(toServer[c]) <= 1
      BY <1>0, <2>1 DEF ConnInv, OneInFlight
    <3>2. Quiet(c)' /\ Len(toClient'[c]) <= 1
      BY <1>0, <2>8, <2>12, <3>1 DEF Quiet
    <3> QED
      BY <1>0, <3>1, <3>2 DEF OneInFlight, Quiet
  <2>14. InStep(c)'
    <3> SUFFICES ASSUME "split" \notin marks[c], new.st \in {"idle", "wait"}
                 PROVE  InStep(c)'
      BY <1>0, <2>8 DEF InStep
    <3>1. client[c].st = "wait"
      BY <2>5, <2>6, <2>7
    <3>2. marks[c] = {}
      BY <1>0, <3>1 DEF ConnInv, EndsAgree, TypeOK
    <3>3. PICK n, g, answer : /\ n = client[c].sent /\ g = client[c].got
                              /\ answer = serialize(replies[c][n])
      OBVIOUS
    <3>4. /\ Quiet(c) /\ Len(replies[c]) = n /\ n > 0
          /\ g \o a.text = answer
      BY <1>0, <2>1, <2>2, <3>1, <3>3 DEF ConnInv, InStep
    <3>5. Quiet(c)' /\ Len(replies'[c]) = n /\ client'[c].sent = n
          /\ client'[c].got = got /\ answer = serialize(replies'[c][n])
      BY <1>0, <2>5, <2>7, <2>8, <3>3, <3>4 DEF Quiet
    <3>6. g \in Seq(Words) /\ Len(rs) <= 1
      BY <1>0, <2>1, <3>2, <3>3, Queues DEF Text, ConnInv, OneInFlight
    <3>7. CASE Len(a.text) <= Buffer
      <4>1. after = << >> /\ text = a.text
        BY <2>1, <2>2, <2>3, <2>11, <3>6, <3>7, AfterChunkType, ChunkOf
      <4>2. got = answer
        BY <2>3, <3>3, <3>4, <4>1
      <4>3. got \o << >> = got
        <5>1. got \in Seq(Words)
          BY <2>3, <2>11, <3>3, <3>6, <4>1, ConcatProperties DEF Text
        <5> QED
          BY <5>1, ConcatEmptySeq
      <4> QED
        BY <2>8, <3>4, <3>5, <4>1, <4>2, <4>3 DEF InStep
    <3>8. CASE Len(a.text) > Buffer
      <4>1. PICK rest \in Text :
              /\ Len(text) = Buffer /\ text \o rest = a.text
              /\ after = <<[a EXCEPT !.text = rest]>> \o Tail(rs)
        <5>1. Head(rs).text = a.text /\ a.text \in Text
          BY <2>2, <2>11
        <5>2. \E rest \in Text :
                /\ Len(Chunk(rs)) = Buffer /\ Chunk(rs) \o rest = a.text
                /\ AfterChunk(rs) = <<[Head(rs) EXCEPT !.text = rest]>> \o Tail(rs)
          BY <3>8, <5>1, ChunkOf
        <5> QED
          BY <2>2, <2>3, <5>2
      <4>2. more = TRUE /\ new.st = "wait"
        BY <2>3, <2>7, <3>1, <4>1
      <4>3. PICK e \in Answered : e = [a EXCEPT !.text = rest]
        BY <2>11
      <4>4. e.text = rest
        BY <2>2, <4>3 DEF Answered
      <4>5. after = <<e>>
        <5>1. Tail(rs) = << >>
          <6>1. PICK l \in Nat : l = Len(rs)
            BY LenProperties
          <6>2. Tail(rs) \in Seq(Answered) /\ Len(Tail(rs)) = l - 1
            BY <2>1, <6>1, HeadTailProperties
          <6>3. ~(Len(Tail(rs)) \in Nat \ {0})
            <7>1. l - 1 \notin Nat \ {0}
              BY <3>6, <6>1
            <7> QED
              BY <6>2, <7>1
          <6> QED
            BY <6>2, <6>3, EmptySeq
        <5>2. <<e>> \in Seq(Answered)
          OBVIOUS
        <5>3. <<e>> \o << >> = <<e>>
          BY <5>2, ConcatEmptySeq
        <5> QED
          BY <4>1, <4>3, <5>1, <5>3
      <4>6. after # << >> /\ after[1].text = rest
        BY <4>4, <4>5
      <4>7. got \o rest = answer
        <5>1. text \in Seq(Words) /\ rest \in Seq(Words)
          BY <2>2, <2>3, <2>11, <4>1, ChunkOf DEF Text
        <5>2. (g \o text) \o rest = g \o (text \o rest)
          BY <3>6, <5>1, ConcatAssociative
        <5> QED
          BY <2>3, <3>3, <3>4, <4>1, <5>2
      <4> QED
        BY <2>8, <3>4, <3>5, <4>2, <4>6, <4>7 DEF InStep
    <3>9. Len(a.text) <= Buffer \/ Len(a.text) > Buffer
      <4>1. Len(a.text) \in Nat /\ Buffer \in Nat
        BY <2>11, LenProperties, TransportAssumption DEF Text
      <4> QED
        BY <4>1
    <3> QED
      BY <3>7, <3>8, <3>9
  <2>15. ConnInv(c)'
    BY <2>9, <2>10, <2>13, <2>14 DEF ConnInv
  <2>16. OnlyOf(c)
    BY <1>0, <2>5 DEF OnlyOf, TypeOK
  <2> QED
    BY <2>15, <2>16, OthersStay
<1> QED
  BY <1>1, <1>2

-----------------------------------------------------------------------------
(***************************************************************************)
(* The theorems                                                            *)
(***************************************************************************)

LEMMA InitInv == Init => IInv
<1>1. Init => up
  BY DEF Init
<1> QED
  BY <1>1, InitType, InitConn DEF IInv

LEMMA ServerStepKeepsInv ==
  ASSUME IInv, NEW c \in Clients, ServerStep(c)
  PROVE  IInv'
<1>0. TypeOK
  BY DEF IInv
<1> DEFINE ConnInvs == \A d \in Clients : ConnInv(d)
           Ends == up \/ \E d \in Clients : marks[d] # {}
<1>1. ASSUME ReadMessage(c) PROVE TypeOK' /\ ConnInvs' /\ Ends'
  <2>1. up' = up /\ marks' = marks
    BY <1>1 DEF ReadMessage, history
  <2> QED
    BY <1>0, <1>1, <2>1, ReadMessageType, ReadMessageKeepsConn DEF IInv
<1>2. ASSUME Serve(c) PROVE TypeOK' /\ ConnInvs' /\ Ends'
  <2>1. PICK m \in Reply : Write(c, m)
    BY <1>0, <1>2, ServeWrites
  <2>2. /\ thread[c].pc = "serve" /\ Goto(c, Reading) /\ up' = up
        /\ UNCHANGED <<toServer, client, marks>>
    BY <1>2 DEF Serve
  <2>3. ConnInvs'
    BY <2>1, <2>2, WriteKeepsConn
  <2> QED
    BY <1>0, <1>2, <2>2, <2>3, ServeType DEF IInv
<1>3. ASSUME Refuse(c) PROVE TypeOK' /\ ConnInvs' /\ Ends'
  <2>1. Write(c, Reject) /\ Reject \in Reply
    BY <1>3, RejectIsReply DEF Refuse
  <2>2. /\ thread[c].pc = "refuse" /\ Goto(c, [pc |-> "returned"]) /\ up' = up
        /\ UNCHANGED <<toServer, client, marks>>
    BY <1>3 DEF Refuse
  <2>3. ConnInvs'
    BY <2>1, <2>2, WriteKeepsConn
  <2> QED
    BY <1>0, <1>3, <2>2, <2>3, RefuseType DEF IInv
<1>4. ASSUME ServeThrows(c) \/ ReadEnd(c) PROVE TypeOK' /\ ConnInvs' /\ Ends'
  <2>1. Close(c) /\ UNCHANGED <<up, accepting, toClient, client, history>>
    BY <1>4 DEF ServeThrows, ReadEnd
  <2>2. ConnInvs'
    BY <2>1, CloseKeepsConn
  <2>3. Ends'
    BY <2>1 DEF IInv, history
  <2> QED
    BY <1>0, <2>1, <2>2, <2>3, CloseOnlyType
<1>5. ASSUME BrokenPipe(c) PROVE TypeOK' /\ ConnInvs' /\ Ends'
  BY <1>0, <1>5, BrokenPipeType, BrokenPipeKeepsConn, BrokenPipeIsMarked
<1> QED
  BY <1>1, <1>2, <1>3, <1>4, <1>5 DEF ServerStep, IInv

LEMMA ProgramStepKeepsInv ==
  ASSUME IInv, NEW c \in Clients, ProgramStep(c)
  PROVE  IInv'
<1>0. TypeOK
  BY DEF IInv
<1> DEFINE ConnInvs == \A d \in Clients : ConnInv(d)
           Ends == up \/ \E d \in Clients : marks[d] # {}
<1>1. ASSUME Launch(c) PROVE TypeOK' /\ ConnInvs' /\ Ends'
  <2>1. up'
    BY <1>1 DEF Launch
  <2> QED
    BY <1>0, <1>1, <2>1, LaunchType, LaunchKeepsConn
<1>2. ASSUME ConnectionLost(c) \/ Crash(c) \/ (Leave(c) /\ ReceiveData(c))
      PROVE  TypeOK' /\ ConnInvs' /\ Ends'
  <2>1. Leave(c) /\ UNCHANGED <<up, accepting, thread, toServer, marks>>
    BY <1>2 DEF ConnectionLost, Crash, ReceiveData
  <2>2. ConnInvs'
    BY <2>1, LeaveKeepsConn
  <2>3. Ends'
    BY <2>1 DEF IInv
  <2> QED
    BY <1>0, <2>1, <2>2, <2>3, LeaveOnlyType
<1>3. ASSUME ReceiveData(c) PROVE TypeOK' /\ ConnInvs' /\ Ends'
  <2>1. up' = up /\ marks' = marks
    BY <1>3 DEF ReceiveData
  <2> QED
    BY <1>0, <1>3, <2>1, ReceiveDataType, ReceiveDataKeepsConn DEF IInv
<1>4. ASSUME NEW m, NEW mark, Send(c, m, mark), up' = up PROVE Ends'
  <2>1. \A d \in Clients : marks[d] \subseteq marks'[d]
    BY <1>0, <1>4 DEF Send, TypeOK
  <2> QED
    BY <1>4, <2>1, UpOrMarked
<1>5. ASSUME NEW m \in Requests[c], SendData(c, m) PROVE TypeOK' /\ ConnInvs' /\ Ends'
  <2>1. /\ m \in Message /\ Send(c, m, {}) /\ up' = up
        /\ Update(c, [client[c] EXCEPT !.st = "wait", !.sent = @ + 1, !.got = << >>])
        /\ link[c] = "open" /\ client[c].st = "idle"
        /\ client[c].sent < MaxSent[c]
        /\ UNCHANGED <<link, thread, toClient, replies>>
    BY <1>5, MessagesAssumption DEF SendData
  <2>2. ConnInvs'
    BY <2>1, SendKeepsConn
  <2> QED
    BY <1>0, <1>4, <1>5, <2>1, <2>2, SendDataType
<1>6. ASSUME SendLogOut(c) PROVE TypeOK' /\ ConnInvs' /\ Ends'
  <2>1. PICK mark : mark = IF client[c].st = "wait" THEN {"interrupted"} ELSE {}
    OBVIOUS
  <2>2. /\ LogOut \in Message /\ mark \in SUBSET {"split", "interrupted"}
        /\ Send(c, LogOut, mark) /\ up' = up
        /\ Update(c, [client[c] EXCEPT !.st = "exit", !.sent = @ + 1, !.got = << >>])
        /\ link[c] = "open"
        /\ \/ client[c].st = "idle" /\ mark = {}
           \/ client[c].st = "wait" /\ mark = {"interrupted"}
        /\ UNCHANGED <<link, thread, toClient, replies>>
    BY <1>6, <2>1, MessagesAssumption DEF SendLogOut
  <2>3. ConnInvs'
    BY <2>2, SendKeepsConn
  <2> QED
    BY <1>4, <1>6, <2>2, <2>3, SendLogOutType
<1> QED
  BY <1>1, <1>2, <1>3, <1>5, <1>6 DEF ProgramStep, IInv

\* Every step keeps the inductive invariant.
LEMMA StepKeepsInv == IInv /\ [Next]_vars => IInv'
<1> SUFFICES ASSUME IInv, [Next]_vars PROVE IInv'
  OBVIOUS
<1>0. TypeOK
  BY DEF IInv
<1>1. CASE Accept \/ Tick \/ StartServer
  <2>1. TypeOK'
    BY <1>0, <1>1, AcceptType, TickType, StartServerType
  <2>2. \A d \in Clients : ConnInv(d)'
    BY <1>1, LoopKeepsConn
  <2>3. (up' = up \/ up') /\ marks' = marks
    BY <1>1 DEF Accept, Tick, StartServer, history
  <2> QED
    BY <2>1, <2>2, <2>3 DEF IInv
<1>2. CASE Handshake
  <2>1. TypeOK' /\ \A d \in Clients : ConnInv(d)'
    BY <1>0, <1>2, HandshakeType, HandshakeKeepsConn
  <2>2. up' = up /\ marks' = marks
    BY <1>2 DEF Handshake, history
  <2> QED
    BY <2>1, <2>2 DEF IInv
<1>3. CASE \E c \in Clients : ServerStep(c) \/ ProgramStep(c)
  BY <1>3, ServerStepKeepsInv, ProgramStepKeepsInv
<1>4. CASE UNCHANGED vars
  <2>1. TypeOK'
    BY <1>0, <1>4 DEF TypeOK, vars, accepting, wires, history
  <2>2. \A d \in Clients : Spared(d)
    BY <1>4 DEF Spared, vars, wires, history
  <2>3. \A d \in Clients : ConnInv(d)'
    BY <2>2, SparedStays DEF IInv
  <2> QED
    BY <1>4, <2>1, <2>3 DEF IInv, vars, history
<1> QED
  BY <1>1, <1>2, <1>3, <1>4 DEF Next

\* The inductive invariant of the connections.
THEOREM TransportInvariant == Spec => []IInv
PROOF BY InitInv, StepKeepsInv, PTL DEF Spec

\* Connections, threads and programs have the states of the code.
THEOREM TransportTypes == Spec => []TypeOK
<1>1. IInv => TypeOK
  BY DEF IInv
<1> QED
  BY <1>1, TransportInvariant, PTL

\* What the server handles is what was sent, field by field, and of the price of a
\* sale its six significant digits: deserialize reads back what serialize wrote
\* of every message (TLSServer.cpp:222, SellTicketMessage.cpp:40).
THEOREM HandledAsSentHolds == Spec => []HandledAsSent
<1>1. IInv => HandledAsSent
  <2> SUFFICES ASSUME IInv, NEW c \in Clients, thread[c].pc = "serve",
                      "split" \notin marks[c], Separable(thread[c].of)
               PROVE  thread[c].m = Rounded(thread[c].of)
    BY DEF HandledAsSent
  <2>1. thread[c] \in Threads /\ thread[c].m = deserialize(serialize(thread[c].of))
    BY DEF IInv, TypeOK, ConnInv, WholeMessages
  <2>2. thread[c].m \in Handled /\ thread[c].of \in Message
    BY <2>1 DEF Threads
  <2>3. thread[c].m # Thrown
    BY <2>2 DEF Handled, Thrown, Served
  <2> QED
    BY <2>1, <2>2, <2>3, RoundTrip
<1> QED
  BY <1>1, TransportInvariant, PTL

\* A program reads its answers one by one and whole, over any number of reads
\* (TLSClient.cpp:161).
THEOREM AnswersMatchHolds == Spec => []AnswersMatch
<1>1. IInv => AnswersMatch
  <2> SUFFICES ASSUME IInv, NEW c \in Clients, client[c].st = "idle",
                      client[c].sent > 0, "split" \notin marks[c]
               PROVE  deserialize(client[c].got) = replies[c][client[c].sent]
    BY DEF AnswersMatch
  <2>1. PICK n : n = client[c].sent
    OBVIOUS
  <2>2. Len(replies[c]) = n /\ client[c].got = serialize(replies[c][n])
    BY <2>1 DEF IInv, ConnInv, InStep
  <2>3. replies[c][n] \in Reply
    <3>1. replies[c] \in Seq(Reply) /\ n \in Nat
      BY <2>1, Queues DEF IInv
    <3>2. n \in 1 .. n
      BY <2>1, <3>1
    <3> QED
      BY <2>2, <3>1, <3>2, ElementOfSeq
  <2> QED
    BY <2>1, <2>2, <2>3, ReplyReadBack
<1> QED
  BY <1>1, TransportInvariant, PTL

\* No program ends the server or leaves its connection behind, but by a message
\* longer than a read or a log-out during a wait (TLSServer.cpp:100 and 237).
THEOREM ServerOutlivesProgramsHolds == Spec => []ServerOutlivesPrograms
<1>1. IInv => ServerOutlivesPrograms
  BY DEF IInv, ConnInv, WholeMessages, ServerOutlivesPrograms
<1> QED
  BY <1>1, TransportInvariant, PTL
=============================================================================
