---------------------------- MODULE DataTree_nodes ----------------------------
(***************************************************************************)
(* What the operations of DataTree do to sequences of siblings and to the  *)
(* structure of the nodes: sibling chains stay disjoint, every node hangs  *)
(* in one place, and nodes without a place have no children.  The lemmas   *)
(* are about any chains tp and children kd, so that they speak of the      *)
(* state before a step and of the state after it alike.                    *)
(***************************************************************************)
EXTENDS DataTree, Recursion, SequenceTheorems

----------------------------------------------------------------------------
(* Sequences without duplicates.                                           *)

(* What InsertAt of the community modules returns, element by element.     *)
LEMMA InsertAtProperties ==
  ASSUME NEW S, NEW s \in Seq(S), NEW i \in 1..Len(s)+1, NEW e \in S
  PROVE  /\ InsertAt(s, i, e) \in Seq(S)
         /\ Len(InsertAt(s, i, e)) = Len(s) + 1
         /\ \A j \in 1..Len(s)+1 : InsertAt(s, i, e)[j] =
              IF j < i THEN s[j] ELSE IF j = i THEN e ELSE s[j-1]
<1> DEFINE a == SubSeq(s, 1, i-1)
           b == SubSeq(s, i, Len(s))
<1>1. Len(s) \in Nat /\ \A j \in 1..Len(s) : s[j] \in S
  BY LenProperties, ElementOfSeq
<1>2. /\ a \in Seq(S) /\ Len(a) = i - 1
      /\ \A j \in 1..i-1 : a[j] = s[j]
  <2>1. \A j \in 1..i-1 : s[j] \in S
    BY <1>1
  <2> QED BY <1>1, <2>1, SubSeqProperties
<1>3. /\ b \in Seq(S) /\ Len(b) = Len(s) - i + 1
      /\ \A j \in 1..Len(s)-i+1 : b[j] = s[i+j-1]
  <2>1. \A j \in i..Len(s) : s[j] \in S
    BY <1>1
  <2> QED BY <1>1, <2>1, SubSeqProperties
<1>4. <<e>> \in Seq(S) /\ Len(<<e>>) = 1 /\ <<e>>[1] = e
  OBVIOUS
<1> HIDE DEF a, b
<1>5. /\ a \o <<e>> \in Seq(S) /\ Len(a \o <<e>>) = i
      /\ \A j \in 1..i : (a \o <<e>>)[j] = IF j < i THEN s[j] ELSE e
  BY <1>2, <1>4, ConcatProperties
<1>6. /\ a \o <<e>> \o b \in Seq(S) /\ Len(a \o <<e>> \o b) = Len(s) + 1
      /\ \A j \in 1..Len(s)+1 : (a \o <<e>> \o b)[j] =
                     IF j <= i THEN (a \o <<e>>)[j] ELSE b[j - i]
  <2> DEFINE c == a \o <<e>>
  <2>1. c \in Seq(S) /\ Len(c) = i
    BY <1>5
  <2> HIDE DEF c
  <2>2. /\ c \o b \in Seq(S) /\ Len(c \o b) = Len(c) + Len(b)
        /\ \A j \in 1..Len(c) + Len(b) :
             (c \o b)[j] = IF j <= Len(c) THEN c[j] ELSE b[j - Len(c)]
    BY <1>3, <2>1, ConcatProperties
  <2>3. Len(c) + Len(b) = Len(s) + 1
    BY <1>1, <1>3, <2>1
  <2>4. /\ c \o b \in Seq(S) /\ Len(c \o b) = Len(s) + 1
        /\ \A j \in 1..Len(s)+1 : (c \o b)[j] = IF j <= i THEN c[j] ELSE b[j - i]
    BY <2>1, <2>2, <2>3
  <2> QED BY <2>4 DEF c
<1>7. InsertAt(s, i, e) = a \o <<e>> \o b
  BY DEF InsertAt, a, b
<1>8. ASSUME NEW j \in 1..Len(s)+1
      PROVE (a \o <<e>> \o b)[j] = IF j < i THEN s[j] ELSE IF j = i THEN e ELSE s[j-1]
  BY <1>1, <1>3, <1>5, <1>6
<1> QED
  BY <1>6, <1>7, <1>8

(* The same for RemoveAt.                                                  *)
LEMMA RemoveAtProperties ==
  ASSUME NEW S, NEW s \in Seq(S), NEW i \in 1..Len(s)
  PROVE  /\ RemoveAt(s, i) \in Seq(S)
         /\ Len(RemoveAt(s, i)) = Len(s) - 1
         /\ \A j \in 1..Len(s)-1 : RemoveAt(s, i)[j] = IF j < i THEN s[j] ELSE s[j+1]
<1> DEFINE a == SubSeq(s, 1, i-1)
           b == SubSeq(s, i+1, Len(s))
<1>1. Len(s) \in Nat /\ \A j \in 1..Len(s) : s[j] \in S
  BY LenProperties, ElementOfSeq
<1>2. /\ a \in Seq(S) /\ Len(a) = i - 1
      /\ \A j \in 1..i-1 : a[j] = s[j]
  <2>1. \A j \in 1..i-1 : s[j] \in S
    BY <1>1
  <2> QED BY <1>1, <2>1, SubSeqProperties
<1>3. /\ b \in Seq(S) /\ Len(b) = Len(s) - i
      /\ \A j \in 1..Len(s)-i : b[j] = s[i+j]
  <2>1. \A j \in i+1..Len(s) : s[j] \in S
    BY <1>1
  <2> QED BY <1>1, <2>1, SubSeqProperties
<1> HIDE DEF a, b
<1>4. /\ a \o b \in Seq(S) /\ Len(a \o b) = Len(s) - 1
      /\ \A j \in 1..Len(s)-1 : j < i => (a \o b)[j] = a[j]
      /\ \A j \in 1..Len(s)-1 : i <= j => (a \o b)[j] = b[j - (i-1)]
  <2>2. /\ a \o b \in Seq(S) /\ Len(a \o b) = Len(a) + Len(b)
        /\ \A j \in 1..Len(a) + Len(b) :
             (a \o b)[j] = IF j <= Len(a) THEN a[j] ELSE b[j - Len(a)]
    BY <1>2, <1>3, ConcatProperties
  <2>3. Len(a) + Len(b) = Len(s) - 1
    BY <1>1, <1>2, <1>3
  <2>4. Len(a) = i - 1 /\ i \in Int
    BY <1>2
  <2>5. ASSUME NEW j \in 1..Len(s)-1, j < i PROVE (a \o b)[j] = a[j]
    BY <2>2, <2>3, <2>4, <2>5
  <2>6. ASSUME NEW j \in 1..Len(s)-1, i <= j PROVE (a \o b)[j] = b[j - (i-1)]
    <3>1. j \in 1..Len(a) + Len(b) /\ ~(j <= Len(a))
      BY <2>3, <2>4, <2>6
    <3> QED BY <2>2, <2>4, <3>1
  <2> QED
    BY <2>2, <2>3, <2>5, <2>6
<1>5. RemoveAt(s, i) = a \o b
  BY DEF RemoveAt, a, b
<1>6. ASSUME NEW j \in 1..Len(s)-1
      PROVE (a \o b)[j] = IF j < i THEN s[j] ELSE s[j+1]
  <2>1. CASE j < i
    BY <1>1, <1>2, <1>4, <2>1
  <2>2. CASE i <= j
    <3>1. (a \o b)[j] = b[j - (i-1)]
      BY <1>4, <2>2
    <3>2. j - (i-1) \in 1..Len(s)-i /\ i + (j - (i-1)) = j + 1 /\ ~(j < i)
      BY <1>1, <2>2
    <3>3. b[j - (i-1)] = s[j + 1]
      BY <1>3, <3>2
    <3> QED BY <3>1, <3>2, <3>3
  <2>3. j < i \/ i <= j
    BY <1>1
  <2> QED BY <2>1, <2>2, <2>3
<1> QED
  BY <1>4, <1>5, <1>6

(* The position of a member of a sequence without duplicates.              *)
LEMMA PositionOfMember ==
  ASSUME NEW S, NEW s \in Seq(S), IsInjective(s), NEW e \in ToSet(s)
  PROVE LET k == SelectInSeq(s, LAMBDA v : v = e) IN
        k \in 1..Len(s) /\ s[k] = e
<1>1. PICK k \in 1..Len(s) : s[k] = e
   BY DEF ToSet
<1>2. {i \in 1..Len(s) : s[i] = e} = {k}
   BY <1>1 DEF IsInjective
<1>3. Min({k}) = k
   BY DEF Min
<1> QED BY <1>1, <1>2, <1>3 DEF SelectInSeq

(* The members of a sequence.                                              *)
LEMMA Members_ToSet ==
  ASSUME NEW S, NEW s \in Seq(S)
  PROVE  /\ ToSet(s) \subseteq S
         /\ \A x : x \in ToSet(s) <=> \E j \in 1..Len(s) : s[j] = x
         /\ ToSet(s) = {} <=> s = <<>>
         /\ s # <<>> => Len(s) \in Nat /\ Len(s) >= 1 /\ Head(s) = s[1] /\ Head(s) \in ToSet(s)
<1>1. Len(s) \in Nat /\ DOMAIN s = 1..Len(s) /\ \A j \in 1..Len(s) : s[j] \in S
  BY LenProperties, ElementOfSeq
<1>2. s # <<>> => Len(s) >= 1
  BY <1>1, EmptySeq
<1>3. s = <<>> => ToSet(s) = {}
  BY DEF ToSet
<1>4. \A x : x \in ToSet(s) <=> \E j \in 1..Len(s) : s[j] = x
  BY <1>1 DEF ToSet
<1>5. ASSUME s # <<>> PROVE s[1] \in ToSet(s) /\ Head(s) = s[1]
  BY <1>1, <1>2, <1>4, <1>5
<1> QED
  BY <1>1, <1>2, <1>3, <1>4, <1>5

(* A new sibling: the members, no duplicate, the first sibling.            *)
LEMMA Inserted ==
  ASSUME NEW S, NEW s \in Seq(S), IsInjective(s), NEW i \in 1..Len(s)+1, NEW n \in S \ ToSet(s)
  PROVE  LET q == InsertAt(s, i, n) IN
         /\ q \in Seq(S) /\ IsInjective(q) /\ q # <<>>
         /\ ToSet(q) = ToSet(s) \cup {n}
<1> DEFINE q == InsertAt(s, i, n)
<1>1. /\ q \in Seq(S) /\ Len(q) = Len(s) + 1
      /\ \A j \in 1..Len(s)+1 : q[j] = IF j < i THEN s[j] ELSE IF j = i THEN n ELSE s[j-1]
  <2>1. n \in S
    OBVIOUS
  <2> QED BY <2>1, InsertAtProperties
<1> HIDE DEF q
<1>2. /\ Len(s) \in Nat /\ DOMAIN s = 1..Len(s) /\ DOMAIN q = 1..Len(s)+1
      /\ \A x : x \in ToSet(s) <=> \E j \in 1..Len(s) : s[j] = x
      /\ \A x : x \in ToSet(q) <=> \E j \in 1..Len(s)+1 : q[j] = x
  BY <1>1, LenProperties, Members_ToSet
<1>3. ASSUME NEW a \in 1..Len(s)+1, NEW b \in 1..Len(s)+1, q[a] = q[b]
      PROVE  a = b
  <2>1. \A j \in 1..Len(s) : s[j] # n
    BY <1>2
  <2>2. \A j, k \in 1..Len(s) : s[j] = s[k] => j = k
    BY <1>2 DEF IsInjective
  <2>3. \A j \in 1..Len(s)+1 : (q[j] = n) <=> (j = i)
    BY <1>1, <1>2, <2>1
  <2>4. CASE a = i \/ b = i
    BY <1>3, <2>3, <2>4
  <2>5. CASE a # i /\ b # i
    <3> DEFINE at(j) == IF j < i THEN j ELSE j - 1
    <3>1. \A j \in 1..Len(s)+1 : j # i => at(j) \in 1..Len(s) /\ q[j] = s[at(j)]
      BY <1>1, <1>2
    <3>2. at(a) = at(b)
      BY <1>3, <2>2, <2>5, <3>1
    <3> QED BY <1>2, <2>5, <3>2
  <2> QED BY <2>4, <2>5
<1>4. ASSUME NEW x \in ToSet(s) PROVE x \in ToSet(q)
  <2>1. PICK j \in 1..Len(s) : s[j] = x
    BY <1>2
  <2>2. CASE j < i
    BY <1>1, <1>2, <2>1, <2>2
  <2>3. CASE i <= j
    <3>1. j + 1 \in 1..Len(s)+1 /\ ~(j + 1 < i) /\ j + 1 # i /\ j + 1 - 1 = j
      BY <1>2, <2>3
    <3>2. q[j + 1] = s[j]
      BY <1>1, <3>1
    <3> QED BY <1>2, <2>1, <3>1, <3>2
  <2>4. j < i \/ i <= j
    BY <1>2
  <2> QED BY <2>2, <2>3, <2>4
<1>5. n \in ToSet(q)
  BY <1>1, <1>2
<1>6. ASSUME NEW x \in ToSet(q) PROVE x \in ToSet(s) \cup {n}
  <2>1. PICK j \in 1..Len(s)+1 : q[j] = x
    BY <1>2
  <2>2. CASE j = i
    BY <1>1, <2>1, <2>2
  <2>3. CASE j # i
    <3> DEFINE k == IF j < i THEN j ELSE j - 1
    <3>1. k \in 1..Len(s) /\ q[j] = s[k]
      BY <1>1, <1>2, <2>3
    <3> QED BY <1>2, <2>1, <3>1
  <2> QED BY <2>2, <2>3
<1>7. q # <<>>
  BY <1>1, <1>2, EmptySeq
<1> QED
  BY <1>1, <1>2, <1>3, <1>4, <1>5, <1>6, <1>7 DEF IsInjective, q

(* A sibling less: the members, no duplicate, the first sibling.           *)
LEMMA Removed ==
  ASSUME NEW S, NEW s \in Seq(S), IsInjective(s), NEW n
  PROVE  LET q == RemoveFirst(s, n) IN
         /\ q \in Seq(S) /\ IsInjective(q)
         /\ ToSet(q) = ToSet(s) \ {n}
         /\ n \notin ToSet(s) => q = s
         /\ n \in ToSet(s) => Len(q) = Len(s) - 1
         /\ s # <<>> /\ Head(s) # n => q # <<>> /\ Head(q) = Head(s)
         /\ s # <<>> /\ Head(s) = n /\ Len(s) > 1 => q # <<>> /\ Head(q) = s[2]
         /\ s # <<>> /\ Head(s) = n /\ Len(s) = 1 => q = <<>>
<1> DEFINE q == RemoveFirst(s, n)
<1>1. /\ Len(s) \in Nat /\ DOMAIN s = 1..Len(s)
      /\ \A x : x \in ToSet(s) <=> \E j \in 1..Len(s) : s[j] = x
      /\ s # <<>> => Len(s) >= 1 /\ Head(s) = s[1] /\ Head(s) \in ToSet(s)
  BY LenProperties, Members_ToSet
<1>2. CASE n \notin ToSet(s)
  <2>1. q = s
    BY <1>1, <1>2 DEF RemoveFirst
  <2> QED BY <1>1, <1>2, <2>1
<1>3. CASE n \in ToSet(s)
  <2>1. PICK i \in 1..Len(s) : i = SelectInSeq(s, LAMBDA v : v = n) /\ s[i] = n
    BY <1>3, PositionOfMember
  <2>2. q = RemoveAt(s, i)
    BY <1>1, <1>3, <2>1 DEF RemoveFirst
  <2>3. /\ q \in Seq(S) /\ Len(q) = Len(s) - 1
        /\ \A j \in 1..Len(s)-1 : q[j] = IF j < i THEN s[j] ELSE s[j+1]
    BY <2>2, RemoveAtProperties
  <2> HIDE DEF q
  <2>4. \A j, k \in 1..Len(s) : s[j] = s[k] => j = k
    BY <1>1 DEF IsInjective
  <2>5. /\ DOMAIN q = 1..Len(s)-1
        /\ \A x : x \in ToSet(q) <=> \E j \in 1..Len(s)-1 : q[j] = x
        /\ q # <<>> => Head(q) = q[1]
        /\ Len(s) > 1 => q # <<>>
        /\ Len(s) = 1 => q = <<>>
    <3>1. DOMAIN q = 1..Len(q) /\ (Len(q) = 0 => q = <<>>) /\ (q = <<>> => Len(q) = 0)
      BY <2>3, LenProperties, EmptySeq
    <3>2. /\ \A x : x \in ToSet(q) <=> \E j \in 1..Len(q) : q[j] = x
          /\ q # <<>> => Head(q) = q[1]
      BY <2>3, Members_ToSet
    <3> QED BY <1>1, <2>3, <3>1, <3>2
  <2> DEFINE at(j) == IF j < i THEN j ELSE j + 1
  <2>6. \A j \in 1..Len(s)-1 : at(j) \in 1..Len(s) /\ at(j) # i /\ q[j] = s[at(j)]
    BY <1>1, <2>3
  <2>7. \A j, k \in 1..Len(s)-1 : at(j) = at(k) => j = k
    BY <1>1
  <2>8. ASSUME NEW k \in 1..Len(s), k # i PROVE \E j \in 1..Len(s)-1 : at(j) = k
    <3>1. CASE k < i
      BY <1>1, <3>1
    <3>2. CASE i < k
      <4>1. k - 1 \in 1..Len(s)-1 /\ at(k - 1) = k
        BY <1>1, <3>2
      <4> QED BY <4>1
    <3> QED BY <1>1, <2>8, <3>1, <3>2
  <2> HIDE DEF at
  <2>9. IsInjective(q)
    BY <2>4, <2>5, <2>6, <2>7 DEF IsInjective
  <2>10. ToSet(q) = ToSet(s) \ {n}
    <3>1. ASSUME NEW x \in ToSet(q) PROVE x \in ToSet(s) \ {n}
      <4>1. PICK j \in 1..Len(s)-1 : q[j] = x
        BY <2>5
      <4>2. at(j) \in 1..Len(s) /\ at(j) # i /\ s[at(j)] = x
        BY <2>6, <4>1
      <4> QED BY <1>1, <2>1, <2>4, <4>2
    <3>2. ASSUME NEW x \in ToSet(s) \ {n} PROVE x \in ToSet(q)
      <4>1. PICK k \in 1..Len(s) : s[k] = x
        BY <1>1
      <4>2. k # i
        BY <2>1, <4>1
      <4>3. PICK j \in 1..Len(s)-1 : at(j) = k
        BY <2>8, <4>2
      <4> QED BY <2>5, <2>6, <4>1, <4>3
    <3> QED BY <3>1, <3>2
  <2>11. ASSUME s # <<>>, Head(s) # n PROVE q # <<>> /\ Head(q) = Head(s)
    <3>1. i # 1 /\ Len(s) > 1 /\ at(1) = 1 /\ 1 \in 1..Len(s)-1
      BY <1>1, <2>1, <2>11 DEF at
    <3> QED BY <1>1, <2>5, <2>6, <2>11, <3>1
  <2>12. ASSUME s # <<>>, Head(s) = n PROVE i = 1
    BY <1>1, <2>1, <2>4, <2>12
  <2>13. ASSUME s # <<>>, Head(s) = n, Len(s) > 1 PROVE q # <<>> /\ Head(q) = s[2]
    <3>1. at(1) = 2 /\ 1 \in 1..Len(s)-1
      BY <1>1, <2>12, <2>13 DEF at
    <3> QED BY <2>5, <2>6, <2>13, <3>1
  <2> QED
    BY <1>1, <1>3, <2>3, <2>5, <2>9, <2>10, <2>11, <2>13 DEF q
<1> QED
  BY <1>2, <1>3

(* InSchemaOrder, PutBefore and PutAfter place the node among the others.  *)
LEMMA Placed ==
  ASSUME NEW S, NEW s \in Seq(S), IsInjective(s), NEW n \in S
  PROVE  /\ n \notin ToSet(s) =>
              /\ InSchemaOrder(s, n) \in Seq(S) /\ IsInjective(InSchemaOrder(s, n))
              /\ ToSet(InSchemaOrder(s, n)) = ToSet(s) \cup {n}
         /\ \A x \in ToSet(s) \ {n} :
              /\ PutBefore(s, x, n) \in Seq(S) /\ IsInjective(PutBefore(s, x, n))
              /\ ToSet(PutBefore(s, x, n)) = ToSet(s) \cup {n}
              /\ PutAfter(s, x, n) \in Seq(S) /\ IsInjective(PutAfter(s, x, n))
              /\ ToSet(PutAfter(s, x, n)) = ToSet(s) \cup {n}
<1>1. ASSUME n \notin ToSet(s)
      PROVE  /\ InSchemaOrder(s, n) \in Seq(S) /\ IsInjective(InSchemaOrder(s, n))
             /\ ToSet(InSchemaOrder(s, n)) = ToSet(s) \cup {n}
  <2> DEFINE before == {i \in DOMAIN s : Rank(s[i]) <= Rank(n)}
  <2>1. Len(s) \in Nat /\ DOMAIN s = 1..Len(s)
    BY LenProperties
  <2>2. IsFiniteSet(1..Len(s)) /\ Cardinality(1..Len(s)) = Len(s)
    BY <2>1, FS_Interval
  <2>3. Cardinality(before) \in Nat /\ Cardinality(before) <= Len(s)
    <3>1. before \in SUBSET (1..Len(s))
      BY <2>1
    <3> HIDE DEF before
    <3> QED BY <2>2, <3>1, FS_Subset, FS_CardinalityType
  <2> HIDE DEF before
  <2>4. Cardinality(before) + 1 \in 1..Len(s)+1
    BY <2>1, <2>3
  <2>5. InSchemaOrder(s, n) = InsertAt(s, Cardinality(before) + 1, n)
    BY DEF InSchemaOrder, before
  <2> QED
    BY <1>1, <2>4, <2>5, Inserted
<1>2. ASSUME NEW x \in ToSet(s) \ {n}
      PROVE  /\ PutBefore(s, x, n) \in Seq(S) /\ IsInjective(PutBefore(s, x, n))
             /\ ToSet(PutBefore(s, x, n)) = ToSet(s) \cup {n}
             /\ PutAfter(s, x, n) \in Seq(S) /\ IsInjective(PutAfter(s, x, n))
             /\ ToSet(PutAfter(s, x, n)) = ToSet(s) \cup {n}
  <2> DEFINE r == RemoveFirst(s, n)
             k == SelectInSeq(r, LAMBDA m : m = x)
             j == k + 1
  <2>1. r \in Seq(S) /\ IsInjective(r) /\ ToSet(r) = ToSet(s) \ {n}
    BY Removed
  <2>2. k \in 1..Len(r)
    <3> HIDE DEF r
    <3>1. x \in ToSet(r)
      BY <2>1
    <3> QED BY <2>1, <3>1, PositionOfMember
  <2>3. /\ PutBefore(s, x, n) = InsertAt(r, k, n)
        /\ PutAfter(s, x, n) = InsertAt(r, j, n)
    BY DEF PutBefore, PutAfter
  <2> HIDE DEF r, k
  <2>4. k \in 1..Len(r)+1 /\ j \in 1..Len(r)+1 /\ n \in S \ ToSet(r)
    BY <2>1, <2>2, LenProperties
  <2> HIDE DEF j
  <2>5. /\ InsertAt(r, k, n) \in Seq(S) /\ IsInjective(InsertAt(r, k, n))
        /\ ToSet(InsertAt(r, k, n)) = ToSet(r) \cup {n}
    BY <2>1, <2>4, Inserted
  <2>6. /\ InsertAt(r, j, n) \in Seq(S) /\ IsInjective(InsertAt(r, j, n))
        /\ ToSet(InsertAt(r, j, n)) = ToSet(r) \cup {n}
    BY <2>1, <2>4, Inserted
  <2> QED
    BY <2>1, <2>3, <2>5, <2>6
<1> QED
  BY <1>1, <1>2

----------------------------------------------------------------------------
(* Sequences filtered by a set: where a new element lands among the        *)
(* members of the set, and where one that moves.                           *)

(* The filtered beginnings of a sequence.                                  *)
Filters(S, s, W) ==
    {f \in [0..Len(s) -> Seq(S)] :
       f[0] = <<>> /\ \A i \in 1..Len(s) : f[i] = Taken(f[i - 1], s[i], W)}

LEMMA FilterExists ==
  ASSUME NEW S, NEW s \in Seq(S), NEW W
  PROVE  \E f \in Filters(S, s, W) : Filtered(s, W) = f[Len(s)]
<1> DEFINE X == Seq(S)
           N == Len(s)
           Eq(f) == f = [i \in 0..N |-> IF i = 0 THEN <<>> ELSE Taken(f[i - 1], s[i], W)]
           step == [i \in 1..N |-> [q \in X |-> Taken(q, s[i], W)]]
<1>1. N \in Nat /\ <<>> \in X
  BY LenProperties
<1>2. step \in [1..N -> [X -> X]]
  <2>1. \A i \in 1..N : \A q \in X : Taken(q, s[i], W) \in X
    BY ElementOfSeq, AppendProperties DEF Taken
  <2> QED BY <2>1
<1> HIDE DEF X, N
<1>3. PICK g \in [0..N -> X] : g[0] = <<>> /\ \A i \in 1..N : g[i] = step[i][g[i - 1]]
  <2> HIDE DEF step
  <2> QED BY <1>1, <1>2, RecursionExists
<1>4. ASSUME NEW i \in 1..N PROVE g[i] = Taken(g[i - 1], s[i], W)
  <2>1. i - 1 \in 0..N
    BY <1>1
  <2> QED BY <1>3, <2>1
<1> HIDE DEF step
<1>5. Eq(g)
  <2> DEFINE h == [i \in 0..N |-> IF i = 0 THEN <<>> ELSE Taken(g[i - 1], s[i], W)]
  <2>1. ASSUME NEW i \in 0..N PROVE h[i] = g[i]
    <3>1. CASE i = 0
      BY <1>3, <3>1
    <3>2. CASE i # 0
      <4>1. i \in 1..N
        BY <1>1, <3>2
      <4> QED BY <1>4, <3>2, <4>1
    <3> QED BY <3>1, <3>2
  <2>2. h = [i \in 0..N |-> h[i]] /\ g = [i \in 0..N |-> g[i]]
    BY <1>3
  <2> HIDE DEF h
  <2>3. h = g
    BY <2>1, <2>2
  <2> QED BY <2>3 DEF h
<1>6. PICK f : Eq(f) /\ Filtered(s, W) = f[N]
  BY <1>5 DEF Filtered, N
<1>7. f[0] = <<>> /\ \A i \in 1..N : f[i] = Taken(f[i - 1], s[i], W)
  BY <1>1, <1>6
<1> DEFINE T == {n \in Nat : n <= N => f[n] = g[n]}
<1>8. 0 \in T
  BY <1>3, <1>7
<1>9. ASSUME NEW n \in T PROVE n + 1 \in T
  <2> SUFFICES ASSUME n + 1 <= N PROVE f[n + 1] = g[n + 1]
    OBVIOUS
  <2>1. n + 1 \in 1..N /\ n + 1 - 1 = n /\ f[n] = g[n]
    BY <1>1
  <2> QED BY <1>4, <1>7, <2>1
<1>10. T \in SUBSET Nat
  OBVIOUS
<1>11. f[N] = g[N]
  <2>1. N \in T
    <3> HIDE DEF T
    <3> QED BY <1>1, <1>8, <1>9, <1>10, SetInduction
  <2> QED BY <1>1, <2>1
<1>12. g \in Filters(S, s, W)
  BY <1>3, <1>4 DEF Filters, X, N
<1> QED BY <1>6, <1>11, <1>12 DEF N

----------------------------------------------------------------------------
(* What a sequence with a new element at a position is.                    *)
Extends(S, q, s, i, e) ==
    /\ q \in Seq(S) /\ Len(q) = Len(s) + 1
    /\ \A j \in 1..Len(s)+1 : q[j] = IF j < i THEN s[j] ELSE IF j = i THEN e ELSE s[j-1]

LEMMA InsertAtExtends ==
  ASSUME NEW S, NEW s \in Seq(S), NEW i \in 1..Len(s)+1, NEW e \in S
  PROVE  Extends(S, InsertAt(s, i, e), s, i, e)
BY InsertAtProperties DEF Extends

(* A new sibling among the siblings, before the last of them.              *)
LEMMA InsertBelowAppend ==
  ASSUME NEW S, NEW q \in Seq(S), NEW n \in S, NEW x \in S, NEW i \in 1..Len(q)+1
  PROVE  InsertAt(Append(q, x), i, n) = Append(InsertAt(q, i, n), x)
<1>0. q \in Seq(S) /\ n \in S /\ i \in 1..Len(q)+1
  OBVIOUS
<1>1. Len(q) \in Nat /\ q \in Seq(S)
  BY LenProperties
<1>2. /\ Append(q, x) \in Seq(S) /\ Len(Append(q, x)) = Len(q) + 1
      /\ \A j \in 1..Len(q) : Append(q, x)[j] = q[j]
      /\ Append(q, x)[Len(q) + 1] = x
  BY AppendProperties
<1> DEFINE a == InsertAt(q, i, n)
           c == InsertAt(Append(q, x), i, n)
<1>4. /\ a \in Seq(S) /\ Len(a) = Len(q) + 1
      /\ \A j \in 1..Len(q)+1 : a[j] = IF j < i THEN q[j] ELSE IF j = i THEN n ELSE q[j-1]
  <2>1. Extends(S, InsertAt(q, i, n), q, i, n)
    BY <1>0, InsertAtExtends
  <2> QED BY <2>1 DEF Extends
<1>5. /\ c \in Seq(S) /\ Len(c) = Len(q) + 2
      /\ \A j \in 1..Len(q)+2 : c[j] = IF j < i THEN Append(q, x)[j] ELSE IF j = i THEN n ELSE Append(q, x)[j-1]
  <2> DEFINE b == Append(q, x)
  <2>1. b \in Seq(S) /\ i \in 1..Len(b)+1 /\ Len(b) + 1 = Len(q) + 2
    BY <1>1, <1>2
  <2> HIDE DEF b
  <2>2. /\ InsertAt(b, i, n) \in Seq(S) /\ Len(InsertAt(b, i, n)) = Len(b) + 1
        /\ \A j \in 1..Len(b)+1 : InsertAt(b, i, n)[j] = IF j < i THEN b[j] ELSE IF j = i THEN n ELSE b[j-1]
    <3>1. Extends(S, InsertAt(b, i, n), b, i, n)
      BY <1>0, <2>1, InsertAtExtends
    <3> QED BY <3>1 DEF Extends
  <2> QED BY <2>1, <2>2 DEF b
<1> HIDE DEF a, c
<1>8. c = Append(a, x)
  <2> DEFINE b == Append(a, x)
  <2>1. /\ b \in Seq(S) /\ Len(b) = Len(q) + 2
        /\ \A j \in 1..Len(q)+1 : b[j] = a[j]
        /\ b[Len(q) + 2] = x
    <3>1. /\ b \in Seq(S) /\ Len(b) = Len(a) + 1
          /\ \A j \in 1..Len(a) : b[j] = a[j]
          /\ b[Len(a) + 1] = x
      BY <1>4, AppendProperties
    <3> QED BY <1>1, <1>4, <3>1
  <2> HIDE DEF b
  <2>2. ASSUME NEW j \in 1..Len(q)+2 PROVE c[j] = b[j]
    <3>1. CASE j = Len(q) + 2
      <4>1. ~(j < i) /\ j # i /\ j - 1 = Len(q) + 1
        BY <1>1, <3>1
      <4> QED BY <1>1, <1>2, <1>5, <2>1, <3>1, <4>1
    <3>2. CASE j # Len(q) + 2
      <4>1. j \in 1..Len(q)+1
        BY <1>1, <3>2
      <4>2. b[j] = IF j < i THEN q[j] ELSE IF j = i THEN n ELSE q[j-1]
        BY <1>4, <2>1, <4>1
      <4>3. j < i => j \in 1..Len(q)
        BY <1>1, <4>1
      <4>4. ~(j < i) /\ j # i => j - 1 \in 1..Len(q)
        BY <1>1, <4>1
      <4> QED BY <1>2, <1>5, <4>2, <4>3, <4>4
    <3> QED BY <3>1, <3>2
  <2>3. c = b
    BY <1>5, <2>1, <2>2, SeqEqual
  <2> QED BY <2>3 DEF b
<1> QED BY <1>8 DEF a, c

(* A new sibling behind all others, in front of them, and taken out again. *)
LEMMA InsertEnds ==
  ASSUME NEW S, NEW q \in Seq(S), NEW n \in S
  PROVE  /\ InsertAt(q, Len(q) + 1, n) = Append(q, n)
         /\ InsertAt(q, 1, n) = <<n>> \o q
<1>0. q \in Seq(S) /\ n \in S
  OBVIOUS
<1>1. Len(q) \in Nat /\ q \in Seq(S)
  BY LenProperties
<1>3. Append(q, n) \in Seq(S) /\ Len(Append(q, n)) = Len(q) + 1
      /\ \A j \in 1..Len(q) : Append(q, n)[j] = q[j]
      /\ Append(q, n)[Len(q) + 1] = n
  BY AppendProperties
<1> DEFINE e == InsertAt(q, Len(q) + 1, n)
           z == InsertAt(q, 1, n)
<1>6. /\ e \in Seq(S) /\ Len(e) = Len(q) + 1
      /\ \A j \in 1..Len(q)+1 : e[j] = IF j < Len(q) + 1 THEN q[j] ELSE n
  <2> DEFINE k == Len(q) + 1
  <2>1. k \in 1..Len(q)+1 /\ \A j \in 1..Len(q)+1 : j < k \/ j = k
    BY <1>1
  <2> HIDE DEF k
  <2>2. /\ InsertAt(q, k, n) \in Seq(S) /\ Len(InsertAt(q, k, n)) = Len(q) + 1
        /\ \A j \in 1..Len(q)+1 : InsertAt(q, k, n)[j] = IF j < k THEN q[j] ELSE IF j = k THEN n ELSE q[j-1]
    <3>1. Extends(S, InsertAt(q, k, n), q, k, n)
      BY <1>0, <2>1, InsertAtExtends
    <3> QED BY <3>1 DEF Extends
  <2>3. /\ InsertAt(q, k, n) \in Seq(S) /\ Len(InsertAt(q, k, n)) = Len(q) + 1
        /\ \A j \in 1..Len(q)+1 : InsertAt(q, k, n)[j] = IF j < k THEN q[j] ELSE n
    BY <2>1, <2>2
  <2> QED BY <2>3 DEF k
<1>7. /\ z \in Seq(S) /\ Len(z) = Len(q) + 1 /\ z[1] = n
      /\ \A j \in 2..Len(q)+1 : z[j] = q[j-1]
  <2>1. 1 \in 1..Len(q)+1 /\ \A j \in 2..Len(q)+1 : j \in 1..Len(q)+1 /\ ~(j < 1) /\ j # 1
    BY <1>1
  <2> HIDE DEF e, z
  <2>2. ASSUME NEW k \in 1..Len(q)+1
        PROVE  /\ InsertAt(q, k, n) \in Seq(S) /\ Len(InsertAt(q, k, n)) = Len(q) + 1
               /\ \A j \in 1..Len(q)+1 : InsertAt(q, k, n)[j] = IF j < k THEN q[j] ELSE IF j = k THEN n ELSE q[j-1]
    <3>1. Extends(S, InsertAt(q, k, n), q, k, n)
      BY <1>0, InsertAtExtends
    <3> QED BY <3>1 DEF Extends
  <2>3. /\ InsertAt(q, 1, n) \in Seq(S) /\ Len(InsertAt(q, 1, n)) = Len(q) + 1
        /\ \A j \in 1..Len(q)+1 : InsertAt(q, 1, n)[j] = IF j < 1 THEN q[j] ELSE IF j = 1 THEN n ELSE q[j-1]
    BY <2>1, <2>2
  <2> QED BY <2>1, <2>3 DEF z
<1> HIDE DEF e, z
<1>9. e = Append(q, n)
  <2> DEFINE b == Append(q, n)
  <2>1. b \in Seq(S) /\ Len(b) = Len(e) /\ \A j \in 1..Len(e) : e[j] = b[j]
    <3>1. \A j \in 1..Len(q)+1 : j \in 1..Len(q) \/ j = Len(q) + 1
      BY <1>1
    <3> QED BY <1>1, <1>3, <1>6, <3>1
  <2> HIDE DEF b
  <2>2. e = b
    BY <1>6, <2>1, SeqEqual
  <2> QED BY <2>2 DEF b
<1>10. z = <<n>> \o q
  <2> DEFINE b == <<n>> \o q
  <2>1. /\ b \in Seq(S) /\ Len(b) = 1 + Len(q)
        /\ \A j \in 1..1+Len(q) : b[j] = IF j <= 1 THEN <<n>>[j] ELSE q[j - 1]
    <3>1. <<n>> \in Seq(S) /\ Len(<<n>>) = 1
      OBVIOUS
    <3> QED BY <1>1, <3>1, ConcatProperties
  <2>2. <<n>>[1] = n
    OBVIOUS
  <2> HIDE DEF b
  <2>3. Len(b) = Len(z) /\ \A j \in 1..Len(z) : z[j] = b[j]
    <3>1. \A j \in 1..Len(q)+1 : j = 1 \/ (j \in 2..Len(q)+1 /\ ~(j <= 1))
      BY <1>1
    <3>2. \A j \in 2..Len(q)+1 : b[j] = q[j - 1]
      BY <1>1, <2>1
    <3>3. b[1] = n
      BY <1>1, <2>1, <2>2
    <3> QED BY <1>1, <1>7, <2>1, <3>1, <3>2, <3>3
  <2>4. z = b
    BY <1>7, <2>1, <2>3, SeqEqual
  <2> QED BY <2>4 DEF b
<1> QED BY <1>9, <1>10 DEF e, z

LEMMA InsertThenRemove ==
  ASSUME NEW S, NEW q \in Seq(S), NEW n \in S, NEW i \in 1..Len(q)+1
  PROVE  RemoveAt(InsertAt(q, i, n), i) = q /\ InsertAt(q, i, n)[i] = n
<1>0. q \in Seq(S) /\ n \in S /\ i \in 1..Len(q)+1
  OBVIOUS
<1>1. Len(q) \in Nat /\ q \in Seq(S)
  BY LenProperties
<1> DEFINE a == InsertAt(q, i, n)
<1>4. /\ a \in Seq(S) /\ Len(a) = Len(q) + 1
      /\ \A j \in 1..Len(q)+1 : a[j] = IF j < i THEN q[j] ELSE IF j = i THEN n ELSE q[j-1]
  <2>1. Extends(S, InsertAt(q, i, n), q, i, n)
    BY <1>0, InsertAtExtends
  <2> QED BY <2>1 DEF Extends
<1> HIDE DEF a
<1>11. RemoveAt(a, i) = q /\ a[i] = n
  <2>1. i \in 1..Len(a)
    BY <1>1, <1>4
  <2> DEFINE b == RemoveAt(a, i)
  <2>2. /\ b \in Seq(S) /\ Len(b) = Len(a) - 1
        /\ \A j \in 1..Len(a)-1 : b[j] = IF j < i THEN a[j] ELSE a[j+1]
    BY <1>4, <2>1, RemoveAtProperties
  <2> HIDE DEF b
  <2>3. ASSUME NEW j \in 1..Len(q) PROVE b[j] = q[j]
    <3>1. j \in 1..Len(a)-1 /\ j \in 1..Len(q)+1 /\ j+1 \in 1..Len(q)+1 /\ j + 1 - 1 = j
      BY <1>1, <1>4
    <3>2. CASE j < i
      BY <1>4, <2>2, <3>1, <3>2
    <3>3. CASE ~(j < i)
      <4>1. ~(j + 1 < i) /\ j + 1 # i
        BY <3>3
      <4> QED BY <1>4, <2>2, <3>1, <3>3, <4>1
    <3> QED BY <3>2, <3>3
  <2>4. Len(b) = Len(q)
    BY <1>1, <1>4, <2>2
  <2>5. b = q
    BY <1>1, <2>2, <2>3, <2>4, SeqEqual
  <2> QED BY <1>1, <1>4, <2>5 DEF b
<1> QED BY <1>11 DEF a

----------------------------------------------------------------------------
(* The members met up to a position.                                       *)
Met(s, i, W) == {j \in 1..i : s[j] \in W}

LEMMA FilterCount ==
  ASSUME NEW S, NEW s \in Seq(S), NEW W, NEW f \in Filters(S, s, W)
  PROVE  /\ Len(s) \in Nat
         /\ \A i \in 0..Len(s) : f[i] \in Seq(S) /\ Len(f[i]) \in Nat
                                 /\ Len(f[i]) = Cardinality(Met(s, i, W))
         /\ \A i \in 1..Len(s) : s[i] \in W => Len(f[i]) = Len(f[i - 1]) + 1
         /\ \A i, k \in 0..Len(s) : i <= k => Len(f[i]) <= Len(f[k])
<1>1. /\ Len(s) \in Nat /\ \A i \in 1..Len(s) : s[i] \in S
      /\ f \in [0..Len(s) -> Seq(S)] /\ f[0] = <<>>
      /\ \A i \in 1..Len(s) : f[i] = Taken(f[i - 1], s[i], W)
  BY LenProperties, ElementOfSeq DEF Filters
<1>2. \A i \in 0..Len(s) : f[i] \in Seq(S) /\ Len(f[i]) \in Nat
  BY <1>1, LenProperties
<1>3. ASSUME NEW i \in 1..Len(s)
      PROVE  /\ s[i] \in W => Len(f[i]) = Len(f[i - 1]) + 1
             /\ s[i] \notin W => f[i] = f[i - 1]
  <2>1. i - 1 \in 0..Len(s) /\ s[i] \in S
    BY <1>1
  <2>2. f[i - 1] \in Seq(S) /\ Len(f[i - 1]) \in Nat
    BY <1>2, <2>1
  <2>3. Len(Append(f[i - 1], s[i])) = Len(f[i - 1]) + 1
    BY <2>1, <2>2, AppendProperties
  <2> QED BY <1>1, <2>2, <2>3 DEF Taken
<1>4. \A i \in 0..Len(s) : IsFiniteSet(Met(s, i, W))
  <2> SUFFICES ASSUME NEW i \in 0..Len(s) PROVE IsFiniteSet(Met(s, i, W))
    OBVIOUS
  <2>1. IsFiniteSet(1..i) /\ Met(s, i, W) \in SUBSET (1..i)
    BY FS_Interval DEF Met
  <2> QED BY <2>1, FS_Subset
<1> DEFINE T == {i \in Nat : i <= Len(s) => Len(f[i]) = Cardinality(Met(s, i, W))}
<1>5. 0 \in T
  <2>1. Met(s, 0, W) = {}
    BY DEF Met
  <2> QED BY <1>1, <2>1, FS_EmptySet
<1>6. ASSUME NEW i \in T PROVE i + 1 \in T
  <2> SUFFICES ASSUME i + 1 <= Len(s) PROVE Len(f[i + 1]) = Cardinality(Met(s, i + 1, W))
    OBVIOUS
  <2>1. i \in 0..Len(s) /\ i + 1 \in 1..Len(s) /\ i + 1 - 1 = i
        /\ Len(f[i]) = Cardinality(Met(s, i, W))
    BY <1>1
  <2>2. /\ s[i + 1] \in W => Len(f[i + 1]) = Len(f[i]) + 1
        /\ s[i + 1] \notin W => f[i + 1] = f[i]
    BY <1>3, <2>1
  <2>3. CASE s[i + 1] \in W
    <3>1. Met(s, i + 1, W) = Met(s, i, W) \cup {i + 1} /\ i + 1 \notin Met(s, i, W)
      BY <2>1, <2>3 DEF Met
    <3>2. Cardinality(Met(s, i + 1, W)) = Cardinality(Met(s, i, W)) + 1
      BY <1>4, <2>1, <3>1, FS_AddElement
    <3> QED BY <2>1, <2>2, <2>3, <3>2
  <2>4. CASE s[i + 1] \notin W
    <3>1. Met(s, i + 1, W) = Met(s, i, W)
      BY <2>1, <2>4 DEF Met
    <3> QED BY <1>2, <2>1, <2>2, <2>4, <3>1
  <2> QED BY <2>3, <2>4
<1>7. Nat \subseteq T
  <2>1. T \in SUBSET Nat
    OBVIOUS
  <2> HIDE DEF T
  <2> QED BY <1>5, <1>6, <2>1, SetInduction
<1>8. \A i \in 0..Len(s) : Len(f[i]) = Cardinality(Met(s, i, W))
  BY <1>7
<1>9. ASSUME NEW i \in 0..Len(s), NEW k \in 0..Len(s), i <= k PROVE Len(f[i]) <= Len(f[k])
  <2>1. Met(s, i, W) \in SUBSET Met(s, k, W)
    BY <1>9 DEF Met
  <2> QED BY <1>4, <1>8, <2>1, FS_Subset
<1> QED BY <1>1, <1>2, <1>3, <1>8, <1>9

(* A new member enters the filtered sequence behind those met before it,   *)
(* and what is not a member leaves it as it was.                           *)
Grows(s, k, n, W, f, g) ==
    /\ \A i \in 0..k-1 : g[i] = f[i]
    /\ n \in W => \A i \in k-1..Len(s) : g[i + 1] = InsertAt(f[i], Len(f[k - 1]) + 1, n)
    /\ n \notin W => \A i \in k-1..Len(s) : g[i + 1] = f[i]
    /\ Filtered(InsertAt(s, k, n), W) = g[Len(s) + 1]

LEMMA FilterInsert ==
  ASSUME NEW S, NEW s \in Seq(S), NEW W, NEW n \in S, NEW k \in 1..Len(s)+1,
         NEW f \in Filters(S, s, W)
  PROVE  \E g \in Filters(S, InsertAt(s, k, n), W) : Grows(s, k, n, W, f, g)
<1> DEFINE t == InsertAt(s, k, n)
           c == Len(f[k - 1]) + 1
<1>1. /\ t \in Seq(S) /\ Len(t) = Len(s) + 1
      /\ \A j \in 1..Len(s)+1 : t[j] = IF j < k THEN s[j] ELSE IF j = k THEN n ELSE s[j-1]
  <2>1. n \in S /\ s \in Seq(S) /\ k \in 1..Len(s)+1
    OBVIOUS
  <2>2. Extends(S, InsertAt(s, k, n), s, k, n)
    BY <2>1, InsertAtExtends
  <2> QED BY <2>2 DEF Extends
<1> HIDE DEF t
<1>2. PICK g \in Filters(S, t, W) : Filtered(t, W) = g[Len(t)]
  BY <1>1, FilterExists
<1>3. /\ f[0] = <<>> /\ \A i \in 1..Len(s) : f[i] = Taken(f[i - 1], s[i], W)
      /\ g[0] = <<>> /\ \A i \in 1..Len(s)+1 : g[i] = Taken(g[i - 1], t[i], W)
  BY <1>1, <1>2 DEF Filters
<1>4. /\ Len(s) \in Nat /\ \A i \in 1..Len(s) : s[i] \in S
      /\ \A i \in 0..Len(s) : f[i] \in Seq(S) /\ Len(f[i]) \in Nat
      /\ \A i, j \in 0..Len(s) : i <= j => Len(f[i]) <= Len(f[j])
  BY FilterCount, ElementOfSeq
<1>5. \A i \in 0..k-1 : g[i] = f[i]
  <2> DEFINE T == {i \in Nat : i <= k - 1 => g[i] = f[i]}
  <2>1. 0 \in T
    BY <1>3
  <2>2. ASSUME NEW i \in T PROVE i + 1 \in T
    <3> SUFFICES ASSUME i + 1 <= k - 1 PROVE g[i + 1] = f[i + 1]
      OBVIOUS
    <3>1. /\ i + 1 \in 1..Len(s) /\ i + 1 \in 1..Len(s)+1 /\ i + 1 - 1 = i /\ i + 1 < k
          /\ g[i] = f[i]
      BY <1>4
    <3>2. t[i + 1] = s[i + 1]
      BY <1>1, <3>1
    <3> QED BY <1>3, <3>1, <3>2
  <2>3. T \in SUBSET Nat
    OBVIOUS
  <2>4. Nat \subseteq T
    <3> HIDE DEF T
    <3> QED BY <2>1, <2>2, <2>3, SetInduction
  <2> QED BY <2>4
<1>6. g[k] = Taken(f[k - 1], n, W)
  <2>1. k - 1 \in 0..k-1 /\ k \in 1..Len(s)+1 /\ ~(k < k)
    BY <1>4
  <2>2. t[k] = n
    BY <1>1, <2>1
  <2> QED BY <1>3, <1>5, <2>1, <2>2
<1>7. ASSUME NEW i \in k..Len(s) PROVE g[i + 1] = Taken(g[i], s[i], W) /\ f[i] = Taken(f[i - 1], s[i], W)
  <2>1. /\ i + 1 \in 1..Len(s)+1 /\ i \in 1..Len(s) /\ i + 1 - 1 = i
        /\ ~(i + 1 < k) /\ i + 1 # k
    BY <1>4
  <2>2. t[i + 1] = s[i]
    BY <1>1, <2>1
  <2> QED BY <1>3, <2>1, <2>2
<1>8. ASSUME n \in W PROVE \A i \in k-1..Len(s) : g[i + 1] = InsertAt(f[i], c, n)
  <2> DEFINE T == {i \in Nat : k - 1 <= i /\ i <= Len(s) => g[i + 1] = InsertAt(f[i], c, n)}
  <2>1. ASSUME NEW i \in Nat, i + 1 = k PROVE g[i + 1] = InsertAt(f[i], c, n)
    <3>1. i = k - 1 /\ i \in 0..Len(s)
      BY <1>4, <2>1
    <3>2. f[i] \in Seq(S) /\ c = Len(f[i]) + 1
      BY <1>4, <3>1
    <3>3. c \in 1..Len(f[i])+1
      BY <1>4, <3>1, <3>2
    <3>4. InsertAt(f[i], Len(f[i]) + 1, n) = Append(f[i], n)
      <4>1. n \in S
        OBVIOUS
      <4> HIDE DEF c, T
      <4> QED BY <3>2, <4>1, InsertEnds
    <3> QED BY <1>6, <1>8, <2>1, <3>1, <3>2, <3>4 DEF Taken
  <2>2. 0 \in T
    BY <2>1
  <2>3. ASSUME NEW i \in T PROVE i + 1 \in T
    <3> SUFFICES ASSUME k - 1 <= i + 1, i + 1 <= Len(s) PROVE g[i + 1 + 1] = InsertAt(f[i + 1], c, n)
      OBVIOUS
    <3>1. CASE i + 1 + 1 = k
      BY <2>1, <3>1
    <3>2. CASE i + 1 + 1 # k
      <4>1. /\ i + 1 \in k..Len(s) /\ i + 1 - 1 = i /\ i \in 0..Len(s) /\ k - 1 \in 0..Len(s) /\ k - 1 <= i
            /\ i <= Len(s) /\ i + 1 \in 1..Len(s)
        BY <1>4, <3>2
      <4>2. g[i + 1] = InsertAt(f[i], c, n)
        BY <4>1
      <4>3. g[i + 1 + 1] = Taken(g[i + 1], s[i + 1], W) /\ f[i + 1] = Taken(f[i], s[i + 1], W)
        BY <1>7, <4>1
      <4>4. c \in 1..Len(f[i])+1 /\ s[i + 1] \in S /\ f[i] \in Seq(S) /\ n \in S
        BY <1>4, <4>1
      <4> HIDE DEF c, T
      <4>5. InsertAt(Append(f[i], s[i + 1]), c, n) = Append(InsertAt(f[i], c, n), s[i + 1])
        BY <4>4, InsertBelowAppend
      <4> QED BY <4>2, <4>3, <4>5 DEF Taken
    <3> QED BY <3>1, <3>2
  <2>4. T \in SUBSET Nat
    OBVIOUS
  <2>5. Nat \subseteq T
    <3> HIDE DEF T
    <3> QED BY <2>2, <2>3, <2>4, SetInduction
  <2> QED BY <1>4, <2>5
<1>9. ASSUME n \notin W PROVE \A i \in k-1..Len(s) : g[i + 1] = f[i]
  <2> DEFINE T == {i \in Nat : k - 1 <= i /\ i <= Len(s) => g[i + 1] = f[i]}
  <2>1. ASSUME NEW i \in Nat, i + 1 = k PROVE g[i + 1] = f[i]
    BY <1>6, <1>9, <2>1 DEF Taken
  <2>2. 0 \in T
    BY <2>1
  <2>3. ASSUME NEW i \in T PROVE i + 1 \in T
    <3> SUFFICES ASSUME k - 1 <= i + 1, i + 1 <= Len(s) PROVE g[i + 1 + 1] = f[i + 1]
      OBVIOUS
    <3>1. CASE i + 1 + 1 = k
      BY <2>1, <3>1
    <3>2. CASE i + 1 + 1 # k
      <4>1. i + 1 \in k..Len(s) /\ i + 1 - 1 = i /\ g[i + 1] = f[i]
        BY <1>4, <3>2
      <4> QED BY <1>7, <4>1
    <3> QED BY <3>1, <3>2
  <2>4. T \in SUBSET Nat
    OBVIOUS
  <2>5. Nat \subseteq T
    <3> HIDE DEF T
    <3> QED BY <2>2, <2>3, <2>4, SetInduction
  <2> QED BY <1>4, <2>5
<1> QED BY <1>1, <1>2, <1>5, <1>8, <1>9 DEF t, Grows

LEMMA FilteredInsert ==
  ASSUME NEW S, NEW s \in Seq(S), NEW W, NEW n \in S, NEW k \in 1..Len(s)+1
  PROVE  LET c == Cardinality(Met(s, k - 1, W))  m == Filtered(s, W) IN
         /\ m \in Seq(S) /\ c \in Nat /\ c <= Len(m)
         /\ k = Len(s) + 1 => c = Len(m)
         /\ n \in W => Filtered(InsertAt(s, k, n), W) = InsertAt(m, c + 1, n)
         /\ n \notin W => Filtered(InsertAt(s, k, n), W) = m
<1>1. PICK f \in Filters(S, s, W) : Filtered(s, W) = f[Len(s)]
  BY FilterExists
<1>2. /\ Len(s) \in Nat
      /\ \A i \in 0..Len(s) : f[i] \in Seq(S) /\ Len(f[i]) \in Nat
                              /\ Len(f[i]) = Cardinality(Met(s, i, W))
      /\ \A i, j \in 0..Len(s) : i <= j => Len(f[i]) <= Len(f[j])
  BY FilterCount
<1>3. PICK g \in Filters(S, InsertAt(s, k, n), W) :
           /\ n \in W => \A i \in k-1..Len(s) : g[i + 1] = InsertAt(f[i], Len(f[k - 1]) + 1, n)
           /\ n \notin W => \A i \in k-1..Len(s) : g[i + 1] = f[i]
           /\ Filtered(InsertAt(s, k, n), W) = g[Len(s) + 1]
  BY FilterInsert DEF Grows
<1>4. /\ k - 1 \in 0..Len(s) /\ Len(s) \in 0..Len(s) /\ Len(s) \in k-1..Len(s)
      /\ k - 1 <= Len(s) /\ (k = Len(s) + 1 => k - 1 = Len(s))
  BY <1>2
<1>5. /\ Cardinality(Met(s, k - 1, W)) = Len(f[k - 1]) /\ Len(f[k - 1]) \in Nat
      /\ Len(f[k - 1]) <= Len(f[Len(s)]) /\ f[Len(s)] \in Seq(S)
  BY <1>2, <1>4
<1> QED BY <1>1, <1>3, <1>4, <1>5

(* One more is met at a member.                                            *)
LEMMA MetMore ==
  ASSUME NEW S, NEW s \in Seq(S), NEW W
  PROVE  /\ \A i \in 0..Len(s) : Cardinality(Met(s, i, W)) \in Nat
         /\ \A k \in 1..Len(s) : s[k] \in W =>
              Cardinality(Met(s, k, W)) = Cardinality(Met(s, k - 1, W)) + 1
         /\ \A i, k \in 0..Len(s) : i <= k =>
              Cardinality(Met(s, i, W)) <= Cardinality(Met(s, k, W))
<1>1. PICK f \in Filters(S, s, W) : Filtered(s, W) = f[Len(s)]
  BY FilterExists
<1>2. /\ Len(s) \in Nat
      /\ \A i \in 0..Len(s) : f[i] \in Seq(S) /\ Len(f[i]) \in Nat
                              /\ Len(f[i]) = Cardinality(Met(s, i, W))
      /\ \A k \in 1..Len(s) : s[k] \in W => Len(f[k]) = Len(f[k - 1]) + 1
      /\ \A i, k \in 0..Len(s) : i <= k => Len(f[i]) <= Len(f[k])
  BY FilterCount
<1>3. \A k \in 1..Len(s) : k \in 0..Len(s) /\ k - 1 \in 0..Len(s)
  BY <1>2
<1> QED BY <1>2, <1>3

(* No member is met first.                                                 *)
LEMMA FilteredNone ==
  ASSUME NEW S, NEW s \in Seq(S), NEW W,
         \A k \in 1..Len(s) : s[k] \in W => Cardinality(Met(s, k - 1, W)) # 0
  PROVE  Filtered(s, W) = <<>>
<1>1. PICK f \in Filters(S, s, W) : Filtered(s, W) = f[Len(s)]
  BY FilterExists
<1>2. /\ Len(s) \in Nat /\ f[0] = <<>>
      /\ \A i \in 0..Len(s) : f[i] \in Seq(S) /\ Len(f[i]) = Cardinality(Met(s, i, W))
      /\ \A i \in 1..Len(s) : f[i] = Taken(f[i - 1], s[i], W)
  <2>1. /\ Len(s) \in Nat
        /\ \A i \in 0..Len(s) : f[i] \in Seq(S) /\ Len(f[i]) = Cardinality(Met(s, i, W))
    BY FilterCount
  <2> QED BY <2>1 DEF Filters
<1> DEFINE T == {i \in Nat : i <= Len(s) => f[i] = <<>>}
<1>3. 0 \in T
  BY <1>2
<1>4. ASSUME NEW i \in T PROVE i + 1 \in T
  <2> SUFFICES ASSUME i + 1 <= Len(s) PROVE f[i + 1] = <<>>
    OBVIOUS
  <2>1. i + 1 \in 1..Len(s) /\ i \in 0..Len(s) /\ i + 1 - 1 = i /\ f[i] = <<>>
    BY <1>2
  <2>2. Cardinality(Met(s, i, W)) = 0
    BY <1>2, <2>1, EmptySeq
  <2>3. s[i + 1] \notin W
    BY <2>1, <2>2
  <2> QED BY <1>2, <2>1, <2>3 DEF Taken
<1>5. Nat \subseteq T
  <2>1. T \in SUBSET Nat
    OBVIOUS
  <2> HIDE DEF T
  <2> QED BY <1>3, <1>4, <2>1, SetInduction
<1> QED BY <1>1, <1>2, <1>5

(* Taking a node out is the reverse of putting it where it was.            *)
LEMMA OutAndBack ==
  ASSUME NEW S, NEW s \in Seq(S), IsInjective(s), NEW a \in 1..Len(s)
  PROVE  LET r == RemoveFirst(s, s[a]) IN
         /\ r \in Seq(S) /\ Len(r) = Len(s) - 1 /\ Len(s) \in Nat
         /\ \A j \in 1..Len(s)-1 : r[j] = IF j < a THEN s[j] ELSE s[j + 1]
         /\ s = InsertAt(r, a, s[a])
<1> DEFINE n == s[a]
           r == RemoveFirst(s, n)
<1>1. /\ Len(s) \in Nat /\ DOMAIN s = 1..Len(s) /\ n \in S
      /\ \A j, k \in 1..Len(s) : s[j] = s[k] => j = k
  BY LenProperties, ElementOfSeq DEF IsInjective
<1>2. n \in ToSet(s)
  BY <1>1 DEF ToSet
<1>3. PICK i \in 1..Len(s) : i = SelectInSeq(s, LAMBDA v : v = n) /\ s[i] = n
  <2> HIDE DEF n
  <2> QED BY <1>2, PositionOfMember
<1>4. i = a
  BY <1>1, <1>3
<1>5. r = RemoveAt(s, a)
  BY <1>1, <1>2, <1>3, <1>4 DEF RemoveFirst
<1>6. /\ r \in Seq(S) /\ Len(r) = Len(s) - 1
      /\ \A j \in 1..Len(s)-1 : r[j] = IF j < a THEN s[j] ELSE s[j + 1]
  BY <1>5, RemoveAtProperties
<1> HIDE DEF r
<1> DEFINE t == InsertAt(r, a, n)
<1>7. /\ t \in Seq(S) /\ Len(t) = Len(s)
      /\ \A j \in 1..Len(s) : t[j] = IF j < a THEN r[j] ELSE IF j = a THEN n ELSE r[j-1]
  <2>1. a \in 1..Len(r)+1 /\ n \in S /\ r \in Seq(S) /\ Len(r) + 1 = Len(s)
    BY <1>1, <1>6
  <2> HIDE DEF n
  <2>2. Extends(S, InsertAt(r, a, n), r, a, n)
    BY <2>1, InsertAtExtends
  <2> QED BY <2>1, <2>2 DEF Extends
<1> HIDE DEF t
<1>8. ASSUME NEW j \in 1..Len(s) PROVE t[j] = s[j]
  <2>1. CASE j < a
    <3>1. j \in 1..Len(s)-1
      BY <1>1, <2>1
    <3> QED BY <1>6, <1>7, <2>1, <3>1
  <2>2. CASE j = a
    BY <1>7, <2>2
  <2>3. CASE ~(j < a) /\ j # a
    <3>1. j - 1 \in 1..Len(s)-1 /\ ~(j - 1 < a) /\ j - 1 + 1 = j
      BY <1>1, <2>3
    <3> QED BY <1>6, <1>7, <2>3, <3>1
  <2> QED BY <2>1, <2>2, <2>3
<1>9. t = s
  BY <1>7, <1>8, SeqEqual
<1> QED BY <1>1, <1>6, <1>9 DEF t, r

(* A new node beside another one: directly before it or behind it.         *)
LEMMA BesideAt ==
  ASSUME NEW S, NEW s \in Seq(S), IsInjective(s), NEW n \in S \ ToSet(s), NEW b \in 1..Len(s)
  PROVE  /\ PutBefore(s, s[b], n) = InsertAt(s, b, n)
         /\ PutAfter(s, s[b], n) = InsertAt(s, b + 1, n)
<1> DEFINE x == s[b]
<1>1. /\ Len(s) \in Nat /\ DOMAIN s = 1..Len(s)
      /\ \A j, k \in 1..Len(s) : s[j] = s[k] => j = k
  BY LenProperties DEF IsInjective
<1>2. RemoveFirst(s, n) = s
  BY Removed
<1>3. SelectInSeq(s, LAMBDA v : v = x) = b
  <2>1. x \in ToSet(s)
    BY <1>1 DEF ToSet
  <2>2. PICK i \in 1..Len(s) : i = SelectInSeq(s, LAMBDA v : v = x) /\ s[i] = x
    <3> HIDE DEF x
    <3> QED BY <2>1, PositionOfMember
  <2> QED BY <1>1, <2>2
<1> QED BY <1>2, <1>3 DEF PutBefore, PutAfter

LEMMA FilteredBeside ==
  ASSUME NEW S, NEW s \in Seq(S), IsInjective(s), NEW W, NEW n \in S \ ToSet(s),
         NEW b \in 1..Len(s), s[b] \in W, n \in W
  PROVE  LET p == Cardinality(Met(s, b - 1, W))  m == Filtered(s, W) IN
         /\ Filtered(PutBefore(s, s[b], n), W) = InsertAt(m, p + 1, n)
         /\ Filtered(PutAfter(s, s[b], n), W) = InsertAt(m, p + 2, n)
<1> DEFINE d == b + 1
<1>1. PutBefore(s, s[b], n) = InsertAt(s, b, n) /\ PutAfter(s, s[b], n) = InsertAt(s, d, n)
  BY BesideAt
<1>2. n \in S /\ b \in 1..Len(s)+1 /\ d \in 1..Len(s)+1 /\ d - 1 = b /\ b - 1 \in 0..Len(s)
  BY LenProperties
<1>3. Cardinality(Met(s, b, W)) = Cardinality(Met(s, b - 1, W)) + 1
      /\ Cardinality(Met(s, b - 1, W)) \in Nat
  BY <1>2, MetMore
<1> HIDE DEF d
<1>4. Filtered(InsertAt(s, b, n), W) = InsertAt(Filtered(s, W), Cardinality(Met(s, b - 1, W)) + 1, n)
  BY <1>2, FilteredInsert
<1>5. Filtered(InsertAt(s, d, n), W) = InsertAt(Filtered(s, W), Cardinality(Met(s, d - 1, W)) + 1, n)
  BY <1>2, FilteredInsert
<1>6. Cardinality(Met(s, d - 1, W)) + 1 = Cardinality(Met(s, b - 1, W)) + 2
  BY <1>2, <1>3
<1> QED BY <1>1, <1>4, <1>5, <1>6

(* A member moves beside another one.                                      *)
LEMMA FilteredMove ==
  ASSUME NEW S, NEW s \in Seq(S), IsInjective(s), NEW W,
         NEW a \in 1..Len(s), NEW b \in 1..Len(s), a # b
  PROVE  LET w == Cardinality(Met(s, a - 1, W))  p == Cardinality(Met(s, b - 1, W))
             m == Filtered(s, W)  r == RemoveAt(m, w + 1)
             q == IF w < p THEN p ELSE p + 1 IN
         /\ s[a] \in W /\ s[b] \in W =>
              /\ Filtered(PutBefore(s, s[b], s[a]), W) = InsertAt(r, q, m[w + 1])
              /\ Filtered(PutAfter(s, s[b], s[a]), W) = InsertAt(r, q + 1, m[w + 1])
         /\ s[a] \notin W /\ s[b] \notin W =>
              /\ Filtered(PutBefore(s, s[b], s[a]), W) = m
              /\ Filtered(PutAfter(s, s[b], s[a]), W) = m
<1> DEFINE n == s[a]
           x == s[b]
           r == RemoveFirst(s, n)
           w == Cardinality(Met(s, a - 1, W))
           p == Cardinality(Met(s, b - 1, W))
           d == IF b < a THEN b ELSE b - 1
           mr == Filtered(r, W)
<1>1. /\ Len(s) \in Nat /\ DOMAIN s = 1..Len(s) /\ n \in S /\ x \in S
      /\ \A j, k \in 1..Len(s) : s[j] = s[k] => j = k
  BY LenProperties, ElementOfSeq DEF IsInjective
<1>2. /\ r \in Seq(S) /\ Len(r) = Len(s) - 1
      /\ \A j \in 1..Len(s)-1 : r[j] = IF j < a THEN s[j] ELSE s[j + 1]
      /\ s = InsertAt(r, a, n)
  BY OutAndBack
<1>3. IsInjective(r)
  BY Removed
<1> HIDE DEF r
<1>4. d \in 1..Len(r) /\ r[d] = x /\ a \in 1..Len(r)+1 /\ d + 1 \in 1..Len(r)+1 /\ d \in 1..Len(r)+1
  <2>1. CASE b < a
    BY <1>1, <1>2, <2>1
  <2>2. CASE ~(b < a)
    <3>1. d = b - 1 /\ b - 1 \in 1..Len(s)-1 /\ ~(b - 1 < a) /\ b - 1 + 1 = b
      BY <1>1, <2>2
    <3> QED BY <1>1, <1>2, <3>1
  <2> QED BY <2>1, <2>2
<1>5. SelectInSeq(r, LAMBDA v : v = x) = d
  <2>1. DOMAIN r = 1..Len(r) /\ \A j, k \in 1..Len(r) : r[j] = r[k] => j = k
    BY <1>2, <1>3, LenProperties DEF IsInjective
  <2>2. x \in ToSet(r)
    BY <1>4, <2>1 DEF ToSet
  <2>3. PICK i \in 1..Len(r) : i = SelectInSeq(r, LAMBDA v : v = x) /\ r[i] = x
    <3> HIDE DEF x
    <3> QED BY <1>2, <1>3, <2>2, PositionOfMember
  <2> HIDE DEF d
  <2> QED BY <1>4, <2>1, <2>3
<1>6. PutBefore(s, x, n) = InsertAt(r, d, n) /\ PutAfter(s, x, n) = InsertAt(r, d + 1, n)
  BY <1>5 DEF PutBefore, PutAfter, r
<1>7. PICK f \in Filters(S, r, W) : mr = f[Len(r)]
  BY <1>2, FilterExists
<1>8. PICK g \in Filters(S, s, W) :
           /\ \A i \in 0..a-1 : g[i] = f[i]
           /\ n \in W => \A i \in a-1..Len(r) : g[i + 1] = InsertAt(f[i], Len(f[a - 1]) + 1, n)
           /\ Filtered(s, W) = g[Len(r) + 1]
  <2>1. n \in S /\ r \in Seq(S) /\ a \in 1..Len(r)+1 /\ f \in Filters(S, r, W)
    BY <1>1, <1>2, <1>4, <1>7
  <2> HIDE DEF n, mr, x, w, p, d
  <2>2. \E g \in Filters(S, InsertAt(r, a, n), W) : Grows(r, a, n, W, f, g)
    BY <2>1, FilterInsert
  <2>3. \E g \in Filters(S, s, W) :
          Grows(r, a, n, W, f, g) /\ Filtered(InsertAt(r, a, n), W) = Filtered(s, W)
    BY <1>2, <2>2 DEF n
  <2> QED BY <2>3 DEF Grows
<1>9. /\ \A i \in 0..Len(s) : g[i] \in Seq(S) /\ Len(g[i]) \in Nat
                              /\ Len(g[i]) = Cardinality(Met(s, i, W))
      /\ \A i \in 1..Len(s) : s[i] \in W => Len(g[i]) = Len(g[i - 1]) + 1
      /\ \A i, k \in 0..Len(s) : i <= k => Len(g[i]) <= Len(g[k])
  BY <1>8, FilterCount
<1>10. /\ \A i \in 0..Len(r) : f[i] \in Seq(S) /\ Len(f[i]) \in Nat
                               /\ Len(f[i]) = Cardinality(Met(r, i, W))
       /\ \A i \in 1..Len(r) : r[i] \in W => Len(f[i]) = Len(f[i - 1]) + 1
       /\ \A i, k \in 0..Len(r) : i <= k => Len(f[i]) <= Len(f[k])
  <2>1. r \in Seq(S) /\ f \in Filters(S, r, W)
    BY <1>2, <1>7
  <2> HIDE DEF n, mr, x, w, p, d
  <2> QED BY <2>1, FilterCount
<1>11. w = Len(f[a - 1]) /\ w \in Nat /\ p \in Nat /\ p = Len(g[b - 1])
  <2>1. a - 1 \in 0..Len(s) /\ b - 1 \in 0..Len(s) /\ a - 1 \in 0..a-1
    BY <1>1
  <2> QED BY <1>8, <1>9, <2>1
<1>12. CASE n \in W /\ x \in W
  <2> DEFINE q == IF w < p THEN p ELSE p + 1
  <2>1. Filtered(s, W) = InsertAt(mr, w + 1, n)
    <3>1. Len(r) \in a-1..Len(r)
      BY <1>1, <1>2
    <3> QED BY <1>7, <1>8, <1>11, <1>12, <3>1
  <2>2. /\ mr \in Seq(S) /\ w + 1 \in 1..Len(mr)+1
    <3>1. a - 1 \in 0..Len(r) /\ Len(r) \in 0..Len(r) /\ a - 1 <= Len(r)
      BY <1>1, <1>2
    <3>2. Len(f[a - 1]) <= Len(f[Len(r)]) /\ Len(f[Len(r)]) \in Nat /\ f[Len(r)] \in Seq(S)
      BY <1>10, <3>1
    <3> QED BY <1>7, <1>11, <3>2
  <2>3. RemoveAt(Filtered(s, W), w + 1) = mr /\ Filtered(s, W)[w + 1] = n
    <3> DEFINE i == w + 1
    <3>1. i \in 1..Len(mr)+1 /\ mr \in Seq(S) /\ n \in S
      BY <1>1, <2>2
    <3> HIDE DEF i, mr, n
    <3>2. RemoveAt(InsertAt(mr, i, n), i) = mr /\ InsertAt(mr, i, n)[i] = n
      BY <3>1, InsertThenRemove
    <3> QED BY <2>1, <3>2 DEF i
  <2>4. Cardinality(Met(r, d - 1, W)) + 1 = q
    <3>1. CASE b < a
      <4>1. d = b /\ b - 1 \in 0..a-1 /\ b - 1 \in 0..Len(r)
        BY <1>1, <1>2, <3>1
      <4>2. Cardinality(Met(r, d - 1, W)) = p
        BY <1>8, <1>10, <1>11, <4>1
      <4>3. p < w
        <5>1. b \in 0..Len(s) /\ a - 1 \in 0..Len(s) /\ b <= a - 1 /\ a - 1 \in 0..a-1
          BY <1>1, <3>1
        <5>2. Len(g[b]) <= Len(g[a - 1]) /\ Len(g[b]) = Len(g[b - 1]) + 1 /\ g[a - 1] = f[a - 1]
          BY <1>8, <1>9, <1>12, <5>1
        <5> QED BY <1>11, <5>2
      <4> QED BY <1>11, <4>2, <4>3
    <3>2. CASE ~(b < a)
      <4>1. /\ d = b - 1 /\ b - 2 \in a-1..Len(r) /\ b - 2 \in 0..Len(r) /\ d - 1 = b - 2 /\ b - 2 + 1 = b - 1
            /\ a - 1 \in 0..Len(r) /\ a - 1 <= b - 2
        BY <1>1, <1>2, <3>2
      <4>2. g[b - 1] = InsertAt(f[b - 2], w + 1, n)
        BY <1>8, <1>11, <1>12, <4>1
      <4>3. f[b - 2] \in Seq(S) /\ Len(f[b - 2]) \in Nat /\ w <= Len(f[b - 2])
            /\ Len(f[b - 2]) = Cardinality(Met(r, b - 2, W))
        BY <1>10, <1>11, <4>1
      <4>4. Len(g[b - 1]) = Len(f[b - 2]) + 1
        <5> DEFINE i == w + 1
                   h == f[b - 2]
        <5>1. i \in 1..Len(h)+1 /\ n \in S /\ h \in Seq(S)
          BY <1>1, <1>11, <4>3
        <5> HIDE DEF i, h, n
        <5>2. Extends(S, InsertAt(h, i, n), h, i, n)
          BY <5>1, InsertAtExtends
        <5> QED BY <4>2, <5>2 DEF Extends, i, h
      <4> QED BY <1>11, <4>1, <4>3, <4>4
    <3> QED BY <3>1, <3>2
  <2>5. Cardinality(Met(r, d, W)) = Cardinality(Met(r, d - 1, W)) + 1
    <3> HIDE DEF d
    <3> QED BY <1>2, <1>4, <1>12, MetMore
  <2>6. /\ Filtered(InsertAt(r, d, n), W) = InsertAt(mr, q, n)
        /\ Filtered(InsertAt(r, d + 1, n), W) = InsertAt(mr, q + 1, n)
    <3> DEFINE e == d + 1
    <3> HIDE DEF d
    <3>1. e \in 1..Len(r)+1 /\ e - 1 = d
      BY <1>4
    <3> HIDE DEF e, n, q
    <3>2. Filtered(InsertAt(r, d, n), W) = InsertAt(Filtered(r, W), Cardinality(Met(r, d - 1, W)) + 1, n)
      BY <1>1, <1>2, <1>4, <1>12, FilteredInsert
    <3>3. Filtered(InsertAt(r, e, n), W) = InsertAt(Filtered(r, W), Cardinality(Met(r, e - 1, W)) + 1, n)
      BY <1>1, <1>2, <1>4, <1>12, <3>1, FilteredInsert
    <3> QED BY <2>4, <2>5, <3>1, <3>2, <3>3 DEF e
  <2> QED BY <1>6, <1>12, <2>3, <2>6
<1>13. CASE n \notin W /\ x \notin W
  <2> DEFINE e == d + 1
  <2> HIDE DEF d
  <2>1. e \in 1..Len(r)+1
    BY <1>4
  <2> HIDE DEF e, n, x
  <2>2. n \in S /\ n \notin W /\ r \in Seq(S)
    BY <1>1, <1>2, <1>13
  <2>3. Filtered(InsertAt(r, d, n), W) = Filtered(r, W)
    BY <1>4, <2>2, FilteredInsert
  <2>4. Filtered(InsertAt(r, e, n), W) = Filtered(r, W)
    BY <2>1, <2>2, FilteredInsert
  <2>5. Filtered(InsertAt(r, a, n), W) = Filtered(r, W)
    BY <1>4, <2>2, FilteredInsert
  <2> QED BY <1>2, <1>6, <1>13, <2>3, <2>4, <2>5 DEF e, n, x
<1> QED BY <1>12, <1>13 DEF w, p

----------------------------------------------------------------------------
(* The structure of the nodes.                                             *)
Linked(tp, kd, n) ==
    \/ \E c \in tp : n \in ToSet(c)
    \/ \E m \in Nodes : n \in ToSet(kd[m])

Below(kd, n) == {x \in Nodes : \/ x = n
                               \/ x \in ToSet(kd[n])
                               \/ \E m \in ToSet(kd[n]) : x \in ToSet(kd[m])}
InChainOf(kd, c) == UNION {Below(kd, n) : n \in ToSet(c)}

(* A chain holds containers, or one detached entry, item or leaf.          *)
ChainOK(c) ==
    /\ c \in Seq(Nodes) /\ c # <<>> /\ IsInjective(c)
    /\ ToSet(c) \subseteq Boxes \/ Len(c) = 1

Shaped(tp, kd) ==
    /\ \A c \in tp : ChainOK(c)
    /\ kd \in [Nodes -> Seq(Nodes)]
    /\ \A m \in Nodes : IsInjective(kd[m])
    /\ \A m \in Nodes : \A n \in ToSet(kd[m]) : ParentKind(Kind(n)) = Kind(m)
    /\ \A m, k \in Nodes : \A n \in ToSet(kd[m]) : n \in ToSet(kd[k]) => m = k
    /\ \A c, d \in tp : \A n \in ToSet(c) : n \in ToSet(d) => c = d
    /\ \A c \in tp, m \in Nodes : \A n \in ToSet(c) : n \notin ToSet(kd[m])
    /\ \A m \in Nodes : ToSet(kd[m]) # {} => Linked(tp, kd, m)

(* Kinds follow the sets of nodes, and two levels below a node is the end. *)
LEMMA Kinds ==
  ASSUME NEW n \in Nodes
  PROVE  /\ Kind(n) \in {"box", "leaf", "entry", "item"}
         /\ Kind(n) = "box" <=> n \in Boxes
         /\ Kind(n) = "leaf" <=> n \in Leaves
         /\ Kind(n) = "entry" <=> n \in Entries
         /\ Kind(n) = "item" <=> n \in Items
  BY KindsAssumption DEF Nodes, Kind

LEMMA Levels ==
  ASSUME NEW tp, NEW kd, Shaped(tp, kd)
  PROVE  /\ \A m \in Nodes : ToSet(kd[m]) \subseteq Nodes
         /\ \A m \in Nodes : \A n \in ToSet(kd[m]) : n # m /\ n \notin Boxes
         /\ \A m \in Nodes : \A n \in ToSet(kd[m]) : \A x \in ToSet(kd[n]) :
               x # m /\ x # n /\ ToSet(kd[x]) = {}
         /\ \A c \in tp : ToSet(c) \subseteq Nodes
<1>1. \A m \in Nodes : ToSet(kd[m]) \subseteq Nodes
  BY Members_ToSet DEF Shaped
<1>2. \A c \in tp : ToSet(c) \subseteq Nodes
  BY Members_ToSet DEF Shaped, ChainOK
<1>3. ASSUME NEW m \in Nodes, NEW n \in ToSet(kd[m])
      PROVE  \/ Kind(m) = "box" /\ Kind(n) \in {"leaf", "entry"}
             \/ Kind(m) = "entry" /\ Kind(n) = "item"
  <2>1. n \in Nodes /\ ParentKind(Kind(n)) = Kind(m)
    BY <1>1 DEF Shaped
  <2> QED BY <2>1, Kinds DEF ParentKind
<1>4. ASSUME NEW m \in Nodes, NEW n \in ToSet(kd[m]) PROVE n # m /\ n \notin Boxes
  BY <1>1, <1>3, Kinds
<1>5. ASSUME NEW m \in Nodes, NEW n \in ToSet(kd[m]), NEW x \in ToSet(kd[n])
      PROVE  x # m /\ x # n /\ ToSet(kd[x]) = {}
  <2>1. n \in Nodes /\ x \in Nodes
    BY <1>1
  <2>2. Kind(m) = "box" /\ Kind(n) = "entry" /\ Kind(x) = "item"
    BY <1>3, <2>1
  <2> QED BY <1>3, <2>1, <2>2
<1> QED
  BY <1>1, <1>2, <1>4, <1>5

(* Ways to say that a node is in the tree of a chain.                      *)
LEMMA InChainOfMembers ==
  ASSUME NEW tp, NEW kd, Shaped(tp, kd), NEW c \in tp, NEW x
  PROVE  x \in InChainOf(kd, c) <=>
           \/ x \in ToSet(c)
           \/ \E n \in ToSet(c) : x \in ToSet(kd[n])
           \/ \E n \in ToSet(c) : \E m \in ToSet(kd[n]) : x \in ToSet(kd[m])
  BY Levels DEF InChainOf, Below

(* The tree of a chain is closed under children and parents.               *)
LEMMA ClosedTree ==
  ASSUME NEW tp, NEW kd, Shaped(tp, kd), NEW c \in tp
  PROVE  /\ InChainOf(kd, c) \subseteq Nodes
         /\ \A m \in Nodes : \A n \in ToSet(kd[m]) :
              m \in InChainOf(kd, c) <=> n \in InChainOf(kd, c)
<1>1. InChainOf(kd, c) \subseteq Nodes
  BY DEF InChainOf, Below
<1>2. ASSUME NEW m \in Nodes, NEW n \in ToSet(kd[m]), m \in InChainOf(kd, c)
      PROVE  n \in InChainOf(kd, c)
  BY <1>2, Levels, InChainOfMembers
<1>3. ASSUME NEW m \in Nodes, NEW n \in ToSet(kd[m]), n \in InChainOf(kd, c)
      PROVE  m \in InChainOf(kd, c)
  <2>1. \A k \in Nodes : n \in ToSet(kd[k]) => k = m
    BY DEF Shaped
  <2>2. n \notin ToSet(c)
    BY DEF Shaped
  <2>3. CASE \E k \in ToSet(c) : n \in ToSet(kd[k])
    BY <2>1, <2>3, Levels, InChainOfMembers
  <2>4. CASE \E k \in ToSet(c) : \E j \in ToSet(kd[k]) : n \in ToSet(kd[j])
    BY <2>1, <2>4, Levels, InChainOfMembers
  <2> QED BY <1>3, <2>2, <2>3, <2>4, InChainOfMembers
<1> QED
  BY <1>1, <1>2, <1>3

(* The trees of two chains share no node.                                  *)
LEMMA Separate ==
  ASSUME NEW tp, NEW kd, Shaped(tp, kd), NEW c \in tp, NEW d \in tp,
         NEW x \in InChainOf(kd, c), x \in InChainOf(kd, d)
  PROVE  c = d
<1>1. ASSUME NEW y \in ToSet(c), y \in InChainOf(kd, d) PROVE c = d
  <2>1. y \in ToSet(d)
    <3>1. \A m \in Nodes : y \notin ToSet(kd[m])
      BY <1>1 DEF Shaped
    <3>2. /\ ToSet(d) \subseteq Nodes
          /\ \A n \in ToSet(d) : ToSet(kd[n]) \subseteq Nodes
      BY Levels
    <3> QED BY <1>1, <3>1, <3>2, InChainOfMembers
  <2> QED BY <2>1 DEF Shaped
<1>2. ASSUME NEW y \in ToSet(c), NEW z \in ToSet(kd[y]), z \in InChainOf(kd, d) PROVE c = d
  BY <1>1, <1>2, ClosedTree, Levels
<1>3. ASSUME NEW y \in ToSet(c), NEW z \in ToSet(kd[y]), NEW w \in ToSet(kd[z]), w \in InChainOf(kd, d)
      PROVE  c = d
  BY <1>2, <1>3, ClosedTree, Levels
<1> QED
  BY <1>1, <1>2, <1>3, InChainOfMembers

(* The nodes that are allocated are the linked ones.                       *)
LEMMA LinkedInChain ==
  ASSUME NEW tp, NEW kd, Shaped(tp, kd), NEW x \in Nodes
  PROVE  Linked(tp, kd, x) <=> \E c \in tp : x \in InChainOf(kd, c)
<1>1. ASSUME NEW c \in tp, x \in InChainOf(kd, c) PROVE Linked(tp, kd, x)
  BY <1>1, InChainOfMembers, Levels DEF Linked
<1>2. ASSUME NEW c \in tp, x \in ToSet(c) PROVE x \in InChainOf(kd, c)
  BY <1>2, InChainOfMembers
<1>3. ASSUME NEW m \in Nodes, x \in ToSet(kd[m]) PROVE \E c \in tp : x \in InChainOf(kd, c)
  <2>1. Linked(tp, kd, m)
    BY <1>3 DEF Shaped
  <2>2. CASE \E c \in tp : m \in ToSet(c)
    BY <1>3, <2>2, InChainOfMembers
  <2>3. CASE \E k \in Nodes : m \in ToSet(kd[k])
    <3>1. PICK k \in Nodes : m \in ToSet(kd[k])
      BY <2>3
    <3>2. PICK c \in tp : k \in ToSet(c)
      <4>1. Linked(tp, kd, k)
        BY <3>1 DEF Shaped
      <4>2. \A j \in Nodes : k \notin ToSet(kd[j])
        BY <1>3, <3>1, Levels
      <4> QED BY <4>1, <4>2 DEF Linked
    <3> QED BY <1>3, <3>1, <3>2, InChainOfMembers
  <2> QED BY <2>1, <2>2, <2>3 DEF Linked
<1> QED
  BY <1>1, <1>2, <1>3 DEF Linked

(* A chain whose nodes keep their children keeps its tree.                 *)
LEMMA SameTree ==
  ASSUME NEW tp, NEW kd, Shaped(tp, kd), NEW tp2, NEW kd2, Shaped(tp2, kd2),
         NEW c \in tp \cap tp2, \A x \in InChainOf(kd, c) : kd2[x] = kd[x]
  PROVE  InChainOf(kd2, c) = InChainOf(kd, c)
<1>1. ToSet(c) \subseteq InChainOf(kd, c)
  BY InChainOfMembers
<1>2. \A n \in ToSet(c) : ToSet(kd[n]) \subseteq InChainOf(kd, c)
  BY InChainOfMembers
<1>3. ASSUME NEW n \in ToSet(c) PROVE Below(kd2, n) = Below(kd, n)
  BY <1>1, <1>2 DEF Below
<1> QED
  BY <1>3 DEF InChainOf

----------------------------------------------------------------------------
(* The operations preserve the structure.                                  *)

(* A node that has no place has no children.                               *)
LEMMA Childless ==
  ASSUME NEW tp, NEW kd, Shaped(tp, kd), NEW n \in Nodes, ~Linked(tp, kd, n)
  PROVE  ToSet(kd[n]) = {} /\ Below(kd, n) = {n}
  BY DEF Shaped, Below

(* A new child of a linked node.                                           *)
LEMMA AddChild ==
  ASSUME NEW tp, NEW kd, Shaped(tp, kd), NEW p \in Nodes, Linked(tp, kd, p),
         NEW n \in Nodes, ~Linked(tp, kd, n), ParentKind(Kind(n)) = Kind(p),
         NEW q \in Seq(Nodes), IsInjective(q), ToSet(q) = ToSet(kd[p]) \cup {n}
  PROVE  Shaped(tp, [kd EXCEPT ![p] = q])
<1> DEFINE kd2 == [kd EXCEPT ![p] = q]
<1>1. /\ kd2 \in [Nodes -> Seq(Nodes)]
      /\ ToSet(kd2[p]) = ToSet(kd[p]) \cup {n}
      /\ \A m \in Nodes : m # p => kd2[m] = kd[m]
      /\ \A m \in Nodes : IsInjective(kd2[m])
  BY DEF Shaped
<1>2. \A m \in Nodes : n \notin ToSet(kd[m])
  BY DEF Linked
<1>3. \A c \in tp : n \notin ToSet(c)
  BY DEF Linked
<1> HIDE DEF kd2
<1>4. \A m \in Nodes : ToSet(kd[m]) \subseteq ToSet(kd2[m])
  BY <1>1
<1>5. \A m \in Nodes : \A x \in ToSet(kd2[m]) : (x \in ToSet(kd[m])) \/ (x = n /\ m = p)
  BY <1>1
<1>6. \A m \in Nodes : \A x \in ToSet(kd2[m]) : ParentKind(Kind(x)) = Kind(m)
  BY <1>5 DEF Shaped
<1>7. \A m, k \in Nodes : \A x \in ToSet(kd2[m]) : x \in ToSet(kd2[k]) => m = k
  <2> SUFFICES ASSUME NEW m \in Nodes, NEW k \in Nodes, NEW x \in ToSet(kd2[m]), x \in ToSet(kd2[k])
               PROVE  m = k
    OBVIOUS
  <2>1. (x = n /\ m = p /\ k = p) \/ (x \in ToSet(kd[m]) /\ x \in ToSet(kd[k]))
    BY <1>2, <1>5
  <2> QED BY <2>1 DEF Shaped
<1>8. \A c \in tp, m \in Nodes : \A x \in ToSet(c) : x \notin ToSet(kd2[m])
  BY <1>3, <1>5 DEF Shaped
<1>9. \A m \in Nodes : Linked(tp, kd, m) => Linked(tp, kd2, m)
  BY <1>4 DEF Linked
<1>10. \A m \in Nodes : ToSet(kd2[m]) # {} => Linked(tp, kd2, m)
  BY <1>5, <1>9 DEF Shaped
<1> QED
  BY <1>1, <1>6, <1>7, <1>8, <1>10 DEF Shaped, kd2

(* The children of a node in another order.                                *)
LEMMA Reordered ==
  ASSUME NEW tp, NEW kd, Shaped(tp, kd), NEW p \in Nodes,
         NEW q \in Seq(Nodes), IsInjective(q), ToSet(q) = ToSet(kd[p])
  PROVE  Shaped(tp, [kd EXCEPT ![p] = q])
<1> DEFINE kd2 == [kd EXCEPT ![p] = q]
<1>1. /\ kd2 \in [Nodes -> Seq(Nodes)]
      /\ \A m \in Nodes : ToSet(kd2[m]) = ToSet(kd[m]) /\ IsInjective(kd2[m])
  BY DEF Shaped
<1> HIDE DEF kd2
<1>2. \A m \in Nodes : Linked(tp, kd, m) => Linked(tp, kd2, m)
  BY <1>1 DEF Linked
<1> QED
  BY <1>1, <1>2 DEF Shaped, kd2

(* A new container in a chain of containers, or in one of its own.         *)
LEMMA AddTop ==
  ASSUME NEW tp, NEW kd, Shaped(tp, kd), NEW s, s \in tp \/ ToSet(s) = {},
         NEW n \in Boxes, ~Linked(tp, kd, n),
         NEW c, ChainOK(c), ToSet(c) = ToSet(s) \cup {n}
  PROVE  Shaped((tp \ {s}) \cup {c}, kd)
<1> DEFINE tp2 == (tp \ {s}) \cup {c}
<1>1. n \in Nodes /\ (\A m \in Nodes : n \notin ToSet(kd[m])) /\ (\A d \in tp : n \notin ToSet(d))
  BY DEF Linked, Nodes
<1>2. \A d \in tp2 : ChainOK(d)
  BY DEF Shaped
<1>3. \A d \in tp2 : d = c \/ (d \in tp /\ d # s)
  OBVIOUS
<1>4. ASSUME NEW d \in tp, d # s, NEW x \in ToSet(d) PROVE x \notin ToSet(c)
  BY <1>1, <1>4 DEF Shaped
<1>5. \A d, e \in tp2 : \A x \in ToSet(d) : x \in ToSet(e) => d = e
  BY <1>3, <1>4 DEF Shaped
<1>6. \A d \in tp2, m \in Nodes : \A x \in ToSet(d) : x \notin ToSet(kd[m])
  BY <1>1, <1>3 DEF Shaped
<1>7. \A m \in Nodes : Linked(tp, kd, m) => Linked(tp2, kd, m)
  BY DEF Linked
<1> HIDE DEF tp2
<1> QED
  BY <1>2, <1>5, <1>6, <1>7 DEF Shaped, tp2

(* The chains without a node: lyd_unlink.                                  *)
Shorter(tp, n) == {RemoveFirst(c, n) : c \in tp} \ {<<>>}

LEMMA ShorterChains ==
  ASSUME NEW tp, NEW kd, Shaped(tp, kd), NEW n
  PROVE  /\ \A e \in Shorter(tp, n) : ChainOK(e) /\ n \notin ToSet(e)
                /\ \E c \in tp : e = RemoveFirst(c, n) /\ ToSet(e) = ToSet(c) \ {n}
         /\ \A c \in tp : n \notin ToSet(c) => c \in Shorter(tp, n)
         /\ \A c \in tp : ToSet(RemoveFirst(c, n)) = ToSet(c) \ {n}
         /\ \A c \in tp : \A x \in ToSet(c) : x # n => RemoveFirst(c, n) \in Shorter(tp, n)
         /\ \A e, f \in Shorter(tp, n) : \A x \in ToSet(e) : x \in ToSet(f) => e = f
<1>1. ASSUME NEW c \in tp
      PROVE  /\ RemoveFirst(c, n) \in Seq(Nodes) /\ IsInjective(RemoveFirst(c, n))
             /\ ToSet(RemoveFirst(c, n)) = ToSet(c) \ {n}
             /\ n \notin ToSet(c) => RemoveFirst(c, n) = c
             /\ n \in ToSet(c) => Len(RemoveFirst(c, n)) = Len(c) - 1
             /\ c # <<>> /\ c \in Seq(Nodes)
  BY Removed DEF Shaped, ChainOK
<1>2. ASSUME NEW c \in tp, RemoveFirst(c, n) # <<>> PROVE ChainOK(RemoveFirst(c, n))
  <2>1. ToSet(c) \subseteq Boxes \/ Len(c) = 1
    BY DEF Shaped, ChainOK
  <2>2. CASE ToSet(c) \subseteq Boxes \/ n \notin ToSet(c)
    BY <1>1, <1>2, <2>1, <2>2 DEF ChainOK
  <2>3. CASE Len(c) = 1 /\ n \in ToSet(c)
    <3>1. Len(RemoveFirst(c, n)) = 0
      BY <1>1, <2>3
    <3> QED BY <1>1, <1>2, <3>1, EmptySeq
  <2> QED BY <2>1, <2>2, <2>3
<1>3. \A c \in tp : \A x \in ToSet(c) : x # n => RemoveFirst(c, n) \in Shorter(tp, n)
  <2>1. ToSet(<<>>) = {}
    BY DEF ToSet
  <2> QED BY <1>1, <2>1 DEF Shorter
<1>4. \A c \in tp : n \notin ToSet(c) => c \in Shorter(tp, n)
  BY <1>1 DEF Shorter
<1>5. \A e \in Shorter(tp, n) : ChainOK(e) /\ n \notin ToSet(e)
                /\ \E c \in tp : e = RemoveFirst(c, n) /\ ToSet(e) = ToSet(c) \ {n}
  BY <1>1, <1>2 DEF Shorter
<1>6. ASSUME NEW e \in Shorter(tp, n), NEW f \in Shorter(tp, n), NEW x \in ToSet(e), x \in ToSet(f)
      PROVE  e = f
  <2>1. PICK c \in tp : e = RemoveFirst(c, n) /\ ToSet(e) = ToSet(c) \ {n}
    BY <1>5
  <2>2. PICK d \in tp : f = RemoveFirst(d, n) /\ ToSet(f) = ToSet(d) \ {n}
    BY <1>5
  <2>3. c = d
    BY <1>6, <2>1, <2>2 DEF Shaped
  <2> QED BY <2>1, <2>2, <2>3
<1> QED
  BY <1>1, <1>3, <1>4, <1>5, <1>6

(* lyd_free_tree of a node: it goes with all that is below it.             *)
Pruned(kd, n) ==
    [m \in Nodes |-> IF m \in Below(kd, n) THEN <<>> ELSE RemoveFirst(kd[m], n)]

LEMMA Prune ==
  ASSUME NEW tp, NEW kd, Shaped(tp, kd), NEW n \in Nodes
  PROVE  Shaped(Shorter(tp, n), Pruned(kd, n))
<1> DEFINE tp2 == Shorter(tp, n)
           kd2 == Pruned(kd, n)
<1>1. \A m \in Nodes : /\ RemoveFirst(kd[m], n) \in Seq(Nodes) /\ IsInjective(RemoveFirst(kd[m], n))
                        /\ ToSet(RemoveFirst(kd[m], n)) = ToSet(kd[m]) \ {n}
  BY Removed DEF Shaped
<1>2. <<>> \in Seq(Nodes) /\ IsInjective(<<>>) /\ ToSet(<<>>) = {}
  BY DEF IsInjective, ToSet
<1>3. \A m \in Nodes :
        /\ m \in Below(kd, n) => ToSet(kd2[m]) = {}
        /\ m \notin Below(kd, n) => ToSet(kd2[m]) = ToSet(kd[m]) \ {n}
  BY <1>1, <1>2 DEF Pruned
<1>4. kd2 \in [Nodes -> Seq(Nodes)] /\ \A m \in Nodes : IsInjective(kd2[m])
  BY <1>1, <1>2 DEF Pruned
<1> HIDE DEF kd2
<1>5. \A m \in Nodes : \A x \in ToSet(kd2[m]) : x \in ToSet(kd[m]) /\ x # n /\ m \notin Below(kd, n)
  BY <1>3
<1>6. \A e \in tp2 : ChainOK(e) /\ \E c \in tp : ToSet(e) = ToSet(c) \ {n}
  BY ShorterChains
<1>7. \A e, f \in tp2 : \A x \in ToSet(e) : x \in ToSet(f) => e = f
  BY ShorterChains
<1>8. \A e \in tp2, m \in Nodes : \A x \in ToSet(e) : x \notin ToSet(kd2[m])
  BY <1>5, <1>6 DEF Shaped
<1>9. ASSUME NEW m \in Nodes, ToSet(kd2[m]) # {} PROVE Linked(tp2, kd2, m)
  <2>1. m \notin Below(kd, n) /\ ToSet(kd[m]) # {}
    BY <1>5, <1>9
  <2>2. m # n
    BY <2>1 DEF Below
  <2>3. CASE \E c \in tp : m \in ToSet(c)
    BY <2>2, <2>3, ShorterChains DEF Linked
  <2>4. CASE \E k \in Nodes : m \in ToSet(kd[k])
    <3>1. PICK k \in Nodes : m \in ToSet(kd[k])
      BY <2>4
    <3>2. k \notin Below(kd, n)
      <4>1. k # n
        BY <2>1, <3>1 DEF Below
      <4>2. k \notin ToSet(kd[n])
        BY <2>1, <3>1 DEF Below
      <4>3. \A j \in ToSet(kd[n]) : k \notin ToSet(kd[j])
        BY <3>1, Levels
      <4> QED BY <4>1, <4>2, <4>3 DEF Below
    <3>3. m \in ToSet(kd2[k])
      BY <1>3, <2>2, <3>1, <3>2
    <3> QED BY <3>3 DEF Linked
  <2> QED BY <2>1, <2>3, <2>4 DEF Shaped, Linked
<1> HIDE DEF tp2
<1>10. \A m \in Nodes : \A x \in ToSet(kd2[m]) : ParentKind(Kind(x)) = Kind(m)
  BY <1>5 DEF Shaped
<1>11. \A m, k \in Nodes : \A x \in ToSet(kd2[m]) : x \in ToSet(kd2[k]) => m = k
  BY <1>5 DEF Shaped
<1> QED
  BY <1>4, <1>6, <1>7, <1>8, <1>9, <1>10, <1>11 DEF Shaped, tp2, kd2

(* lyd_unlink_tree of a node: it becomes a chain of its own.               *)
LEMMA Unlink ==
  ASSUME NEW tp, NEW kd, Shaped(tp, kd), NEW n \in Nodes
  PROVE  Shaped(Shorter(tp, n) \cup {<<n>>}, [m \in Nodes |-> RemoveFirst(kd[m], n)])
<1> DEFINE tp2 == Shorter(tp, n) \cup {<<n>>}
           kd2 == [m \in Nodes |-> RemoveFirst(kd[m], n)]
<1>1. /\ kd2 \in [Nodes -> Seq(Nodes)]
      /\ \A m \in Nodes : IsInjective(kd2[m]) /\ ToSet(kd2[m]) = ToSet(kd[m]) \ {n}
  BY Removed DEF Shaped
<1>2. ToSet(<<n>>) = {n} /\ ChainOK(<<n>>)
  BY DEF ToSet, ChainOK, IsInjective
<1> HIDE DEF kd2
<1>3. \A e \in tp2 : ChainOK(e) /\ (e = <<n>> \/ e \in Shorter(tp, n))
  BY <1>2, ShorterChains
<1>4. \A e, f \in tp2 : \A x \in ToSet(e) : x \in ToSet(f) => e = f
  <2> SUFFICES ASSUME NEW e \in tp2, NEW f \in tp2, NEW x \in ToSet(e), x \in ToSet(f) PROVE e = f
    OBVIOUS
  <2>1. \A g \in Shorter(tp, n) : n \notin ToSet(g)
    BY ShorterChains
  <2>2. CASE x = n
    BY <2>1, <2>2
  <2>3. CASE x # n
    <3>1. e \in Shorter(tp, n) /\ f \in Shorter(tp, n)
      BY <1>2, <2>3
    <3> QED BY <3>1, ShorterChains
  <2> QED BY <2>2, <2>3
<1>5. \A e \in tp2, m \in Nodes : \A x \in ToSet(e) : x \notin ToSet(kd2[m])
  <2> SUFFICES ASSUME NEW e \in tp2, NEW m \in Nodes, NEW x \in ToSet(e), x \in ToSet(kd2[m]) PROVE FALSE
    OBVIOUS
  <2>1. x # n /\ x \in ToSet(kd[m])
    BY <1>1
  <2>2. e \in Shorter(tp, n)
    BY <1>2, <2>1
  <2>3. PICK c \in tp : ToSet(e) = ToSet(c) \ {n}
    BY <2>2, ShorterChains
  <2> QED BY <2>1, <2>3 DEF Shaped
<1>6. ASSUME NEW m \in Nodes, Linked(tp, kd, m) PROVE Linked(tp2, kd2, m)
  <2>1. CASE m = n
    BY <1>2, <2>1 DEF Linked
  <2>2. CASE m # n /\ \E c \in tp : m \in ToSet(c)
    BY <2>2, ShorterChains DEF Linked
  <2>3. CASE m # n /\ \E k \in Nodes : m \in ToSet(kd[k])
    BY <1>1, <2>3 DEF Linked
  <2> QED BY <1>6, <2>1, <2>2, <2>3 DEF Linked
<1> HIDE DEF tp2
<1>7. \A m \in Nodes : ToSet(kd2[m]) # {} => Linked(tp2, kd2, m)
  BY <1>1, <1>6 DEF Shaped
<1>8. \A m \in Nodes : \A x \in ToSet(kd2[m]) : ParentKind(Kind(x)) = Kind(m)
  BY <1>1 DEF Shaped
<1>9. \A m, k \in Nodes : \A x \in ToSet(kd2[m]) : x \in ToSet(kd2[k]) => m = k
  BY <1>1 DEF Shaped
<1> QED
  BY <1>1, <1>3, <1>4, <1>5, <1>7, <1>8, <1>9 DEF Shaped, tp2, kd2

(* lyd_free_all of a chain, which may be the empty one of an empty tree.   *)
LEMMA Drop ==
  ASSUME NEW tp, NEW kd, Shaped(tp, kd), NEW c, c \in tp \/ InChainOf(kd, c) = {}
  PROVE  Shaped(tp \ {c}, [n \in Nodes |-> IF n \in InChainOf(kd, c) THEN <<>> ELSE kd[n]])
<1> DEFINE tp2 == tp \ {c}
           kd2 == [n \in Nodes |-> IF n \in InChainOf(kd, c) THEN <<>> ELSE kd[n]]
<1>1. <<>> \in Seq(Nodes) /\ IsInjective(<<>>) /\ ToSet(<<>>) = {}
  BY DEF IsInjective, ToSet
<1>2. /\ kd2 \in [Nodes -> Seq(Nodes)]
      /\ \A m \in Nodes : IsInjective(kd2[m])
      /\ \A m \in Nodes : \A x \in ToSet(kd2[m]) : x \in ToSet(kd[m]) /\ m \notin InChainOf(kd, c)
      /\ \A m \in Nodes : m \notin InChainOf(kd, c) => kd2[m] = kd[m]
  BY <1>1 DEF Shaped
<1> HIDE DEF kd2
<1>3. ASSUME NEW m \in Nodes, ToSet(kd2[m]) # {} PROVE Linked(tp2, kd2, m)
  <2>1. m \notin InChainOf(kd, c) /\ Linked(tp, kd, m)
    BY <1>2, <1>3 DEF Shaped
  <2>2. CASE \E d \in tp : m \in ToSet(d)
    <3>1. PICK d \in tp : m \in ToSet(d)
      BY <2>2
    <3>2. d # c
      BY <2>1, <3>1, InChainOfMembers
    <3> QED BY <3>1, <3>2 DEF Linked
  <2>3. CASE \E k \in Nodes : m \in ToSet(kd[k])
    <3>1. PICK k \in Nodes : m \in ToSet(kd[k])
      BY <2>3
    <3>2. k \notin InChainOf(kd, c)
      BY <2>1, <3>1, ClosedTree
    <3> QED BY <1>2, <3>1, <3>2 DEF Linked
  <2> QED BY <2>1, <2>2, <2>3 DEF Linked
<1>4. \A m \in Nodes : \A x \in ToSet(kd2[m]) : ParentKind(Kind(x)) = Kind(m)
  BY <1>2 DEF Shaped
<1>5. \A m, k \in Nodes : \A x \in ToSet(kd2[m]) : x \in ToSet(kd2[k]) => m = k
  BY <1>2 DEF Shaped
<1>6. \A d \in tp2, m \in Nodes : \A x \in ToSet(d) : x \notin ToSet(kd2[m])
  BY <1>2 DEF Shaped
<1> QED
  BY <1>2, <1>3, <1>4, <1>5, <1>6 DEF Shaped, kd2

(* A node leaves its chain and becomes a child of a node outside its tree. *)
LEMMA Adopt ==
  ASSUME NEW tp, NEW kd, Shaped(tp, kd), NEW c \in tp, NEW n \in ToSet(c),
         NEW p \in Nodes, Linked(tp, kd, p), p # n, ParentKind(Kind(n)) = Kind(p),
         NEW q \in Seq(Nodes), IsInjective(q), ToSet(q) = ToSet(kd[p]) \cup {n}
  PROVE  Shaped(Shorter(tp, n), [kd EXCEPT ![p] = q])
<1> DEFINE tp2 == Shorter(tp, n)
           kd2 == [kd EXCEPT ![p] = q]
<1>1. /\ kd2 \in [Nodes -> Seq(Nodes)]
      /\ ToSet(kd2[p]) = ToSet(kd[p]) \cup {n}
      /\ \A m \in Nodes : m # p => kd2[m] = kd[m]
      /\ \A m \in Nodes : IsInjective(kd2[m])
  BY DEF Shaped
<1>2. \A m \in Nodes : n \notin ToSet(kd[m])
  BY DEF Shaped
<1> HIDE DEF kd2
<1>3. \A m \in Nodes : \A x \in ToSet(kd2[m]) : (x \in ToSet(kd[m])) \/ (x = n /\ m = p)
  BY <1>1
<1>4. \A m \in Nodes : \A x \in ToSet(kd2[m]) : ParentKind(Kind(x)) = Kind(m)
  BY <1>3 DEF Shaped
<1>5. ASSUME NEW m \in Nodes, NEW k \in Nodes, NEW x \in ToSet(kd2[m]), x \in ToSet(kd2[k])
      PROVE  m = k
  <2>1. (x = n /\ m = p /\ k = p) \/ (x \in ToSet(kd[m]) /\ x \in ToSet(kd[k]))
    BY <1>2, <1>3, <1>5
  <2> QED BY <2>1 DEF Shaped
<1>6. ASSUME NEW e \in tp2, NEW m \in Nodes, NEW x \in ToSet(e) PROVE x \notin ToSet(kd2[m])
  <2>1. x # n
    BY ShorterChains
  <2>2. PICK d \in tp : x \in ToSet(d)
    BY ShorterChains
  <2> QED BY <1>3, <2>1, <2>2 DEF Shaped
<1>7. ASSUME NEW m \in Nodes, Linked(tp, kd, m) PROVE Linked(tp2, kd2, m)
  <2>1. CASE m = n
    BY <1>1, <2>1 DEF Linked
  <2>2. CASE m # n /\ \E d \in tp : m \in ToSet(d)
    BY <2>2, ShorterChains DEF Linked
  <2>3. CASE m # n /\ \E k \in Nodes : m \in ToSet(kd[k])
    BY <1>1, <2>3 DEF Linked
  <2> QED BY <1>7, <2>1, <2>2, <2>3 DEF Linked
<1>8. \A m \in Nodes : ToSet(kd2[m]) # {} => Linked(tp2, kd2, m)
  BY <1>3, <1>7 DEF Shaped
<1>9. /\ \A e \in tp2 : ChainOK(e)
      /\ \A e, f \in tp2 : \A x \in ToSet(e) : x \in ToSet(f) => e = f
  BY ShorterChains
<1> HIDE DEF tp2
<1> QED
  BY <1>1, <1>4, <1>5, <1>6, <1>8, <1>9 DEF Shaped, tp2, kd2

(* A parsed document of nodes that had no place.                           *)
LEMMA NewDocument ==
  ASSUME NEW tp, NEW kd, Shaped(tp, kd), NEW d, WellFormed(d),
         \A x \in InDocument(d) : ~Linked(tp, kd, x)
  PROVE  Shaped(IF d.top = <<>> THEN tp ELSE tp \cup {d.top},
                [n \in Nodes |-> IF n \in DOMAIN d.kids THEN d.kids[n] ELSE kd[n]])
<1> DEFINE tp2 == IF d.top = <<>> THEN tp ELSE tp \cup {d.top}
           kd2 == [n \in Nodes |-> IF n \in DOMAIN d.kids THEN d.kids[n] ELSE kd[n]]
<1>1. /\ d.top \in Seq(Nodes) /\ ToSet(d.top) \subseteq Boxes /\ IsInjective(d.top)
      /\ ToSet(d.top) \subseteq InDocument(d)
      /\ d.top = <<>> => ToSet(d.top) = {}
  BY Members_ToSet, SeqMonotonic DEF WellFormed, InDocument, Nodes
<1>2. /\ \A m \in DOMAIN d.kids : m \in InDocument(d) /\ ToSet(d.kids[m]) \subseteq InDocument(d)
      /\ \A m \in DOMAIN d.kids : d.kids[m] \in Seq(Nodes) /\ IsInjective(d.kids[m])
      /\ \A m, k \in DOMAIN d.kids : \A n \in ToSet(d.kids[m]) :
           ParentKind(Kind(n)) = Kind(m) /\ (n \in ToSet(d.kids[k]) => k = m)
  BY DEF WellFormed, InDocument
<1>3. InDocument(d) \subseteq Nodes
  <2>1. \A m \in DOMAIN d.kids : ToSet(d.kids[m]) \subseteq Nodes
    BY <1>2, Members_ToSet
  <2> QED BY <1>1, <2>1 DEF InDocument, Nodes
<1>4. /\ kd2 \in [Nodes -> Seq(Nodes)]
      /\ \A m \in Nodes : IsInjective(kd2[m])
      /\ \A m \in DOMAIN d.kids : kd2[m] = d.kids[m]
      /\ \A m \in Nodes : m \notin DOMAIN d.kids => kd2[m] = kd[m]
  BY <1>2, <1>3 DEF Shaped
<1> HIDE DEF kd2
<1>5. \A x \in InDocument(d) : /\ \A c \in tp : x \notin ToSet(c)
                               /\ \A m \in Nodes : x \notin ToSet(kd[m])
  BY DEF Linked
<1>6. \A m \in InDocument(d) : ToSet(kd[m]) = {}
  BY <1>3 DEF Shaped
<1>7. ASSUME NEW m \in Nodes, NEW x \in ToSet(kd2[m])
      PROVE  \/ x \notin InDocument(d) /\ x \in ToSet(kd[m]) /\ m \notin DOMAIN d.kids
             \/ x \in InDocument(d) /\ m \in DOMAIN d.kids /\ x \in ToSet(d.kids[m])
  BY <1>2, <1>4, <1>5
<1>8. \A m \in Nodes : \A x \in ToSet(kd2[m]) : ParentKind(Kind(x)) = Kind(m)
  BY <1>2, <1>7 DEF Shaped
<1>9. ASSUME NEW m \in Nodes, NEW k \in Nodes, NEW x \in ToSet(kd2[m]), x \in ToSet(kd2[k]) PROVE m = k
  <2>1. CASE x \in InDocument(d)
    BY <1>2, <1>7, <1>9, <2>1
  <2>2. CASE x \notin InDocument(d)
    BY <1>7, <1>9, <2>2 DEF Shaped
  <2> QED BY <2>1, <2>2
<1>10. \A c \in tp2 : ChainOK(c) /\ (c \in tp \/ (c = d.top /\ c # <<>>))
  BY <1>1 DEF Shaped, ChainOK
<1>11. ASSUME NEW c \in tp2, NEW e \in tp2, NEW x \in ToSet(c), x \in ToSet(e) PROVE c = e
  BY <1>1, <1>5, <1>10, <1>11 DEF Shaped
<1>12. ASSUME NEW m \in DOMAIN d.kids, NEW x \in ToSet(d.kids[m]) PROVE x \notin Boxes
  <2>1. x \in Nodes /\ m \in Nodes /\ ParentKind(Kind(x)) = Kind(m)
    BY <1>2, <1>3
  <2> QED BY <2>1, Kinds DEF ParentKind
<1>13. ASSUME NEW c \in tp2, NEW m \in Nodes, NEW x \in ToSet(c) PROVE x \notin ToSet(kd2[m])
  <2>1. CASE c \in tp
    BY <1>5, <1>7, <2>1 DEF Shaped
  <2>2. CASE c = d.top
    BY <1>1, <1>7, <1>12, <2>2
  <2> QED BY <1>10, <2>1, <2>2
<1>14. ASSUME NEW m \in Nodes, ToSet(kd2[m]) # {} PROVE Linked(tp2, kd2, m)
  <2>1. CASE m \in DOMAIN d.kids
    <3>1. CASE m \in ToSet(d.top)
      BY <1>1, <3>1 DEF Linked
    <3>2. CASE \E k \in DOMAIN d.kids : m \in ToSet(d.kids[k])
      BY <1>2, <1>3, <1>4, <3>2 DEF Linked
    <3> QED BY <1>2, <2>1, <3>1, <3>2 DEF InDocument
  <2>2. CASE m \notin DOMAIN d.kids
    <3>1. Linked(tp, kd, m)
      BY <1>4, <1>14, <2>2 DEF Shaped
    <3>2. CASE \E c \in tp : m \in ToSet(c)
      BY <3>2 DEF Linked
    <3>3. CASE \E k \in Nodes : m \in ToSet(kd[k])
      BY <1>2, <1>4, <1>6, <3>3 DEF Linked
    <3> QED BY <3>1, <3>2, <3>3 DEF Linked
  <2> QED BY <2>1, <2>2
<1> HIDE DEF tp2
<1> QED
  BY <1>4, <1>8, <1>9, <1>10, <1>11, <1>13, <1>14 DEF Shaped, tp2, kd2
=============================================================================
