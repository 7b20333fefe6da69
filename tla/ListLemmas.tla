----------------------------- MODULE ListLemmas -----------------------------
(***************************************************************************)
(* The kernel's doubly linked lists (kernel/list.asm) are modelled as      *)
(* sequences.  These lemmas say what each list operation does to the set   *)
(* of members of a list, and that it keeps the members distinct.  At the   *)
(* end are the facts about numbers that searches along a list or a bitmap  *)
(* rest on: least elements, and induction.                                 *)
(***************************************************************************)
EXTENDS Naturals, Sequences, SequencesExt, WellFoundedInduction, TLAPS

(* Membership and distinctness, by position. *)
LEMMA Positions ==
  ASSUME NEW S, NEW s \in Seq(S)
  PROVE  /\ \A x : x \in ToSet(s) <=> \E i \in 1..Len(s) : x = s[i]
         /\ IsInjective(s) <=> \A i, j \in 1..Len(s) : s[i] = s[j] => i = j
  BY DEF ToSet, IsInjective

(* Inserting a new member at the head. *)
LEMMA AddHead ==
  ASSUME NEW S, NEW s \in Seq(S), NEW e \in S
  PROVE  /\ <<e>> \o s \in Seq(S)
         /\ ToSet(<<e>> \o s) = ToSet(s) \cup {e}
         /\ e \notin ToSet(s) /\ IsInjective(s) => IsInjective(<<e>> \o s)
  <1> DEFINE r == <<e>> \o s
  <1>1. r \in Seq(S) /\ Len(r) = Len(s) + 1 /\ r[1] = e
        /\ \A i \in 1..Len(s) : r[i + 1] = s[i]
    OBVIOUS
  <1>2. \A i \in 1..Len(r) : i # 1 => i - 1 \in 1..Len(s) /\ r[i] = s[i - 1]
    BY <1>1
  <1> HIDE DEF r
  <1>s. /\ \A x : x \in ToSet(s) <=> \E i \in 1..Len(s) : x = s[i]
        /\ IsInjective(s) <=> \A i, j \in 1..Len(s) : s[i] = s[j] => i = j
    BY Positions
  <1>r. /\ \A x : x \in ToSet(r) <=> \E i \in 1..Len(r) : x = r[i]
        /\ IsInjective(r) <=> \A i, j \in 1..Len(r) : r[i] = r[j] => i = j
    BY <1>1, Positions
  <1>3. ASSUME NEW x PROVE x \in ToSet(r) <=> x \in ToSet(s) \/ x = e
    <2>1. ASSUME x \in ToSet(r) PROVE x \in ToSet(s) \/ x = e
      <3>1. PICK i \in 1..Len(r) : x = r[i]
        BY <2>1, <1>r
      <3> QED BY <1>1, <1>2, <3>1, <1>s
    <2>2. ASSUME x \in ToSet(s) PROVE x \in ToSet(r)
      <3>1. PICK i \in 1..Len(s) : x = s[i]
        BY <2>2, <1>s
      <3>2. i + 1 \in 1..Len(r) /\ x = r[i + 1]
        BY <1>1, <3>1
      <3> QED BY <1>1, <3>2, <1>s, <1>r
    <2>3. e \in ToSet(r)
      BY <1>1, Positions
    <2> QED BY <2>1, <2>2, <2>3
  <1>4. ASSUME e \notin ToSet(s), IsInjective(s) PROVE IsInjective(r)
    <2> SUFFICES ASSUME NEW i \in 1..Len(r), NEW j \in 1..Len(r), r[i] = r[j]
                 PROVE  i = j
      BY <1>r
    <2>1. CASE i = 1 \/ j = 1
      BY <1>1, <1>2, <1>4, <1>s, <2>1
    <2>2. CASE i # 1 /\ j # 1
      <3>1. i - 1 \in 1..Len(s) /\ j - 1 \in 1..Len(s) /\ s[i - 1] = s[j - 1]
        BY <1>2, <2>2
      <3> QED BY <1>4, <1>s, <3>1
    <2> QED BY <2>1, <2>2
  <1> QED BY <1>1, <1>3, <1>4 DEF r

(* Inserting a new member at the tail. *)
LEMMA AddTail ==
  ASSUME NEW S, NEW s \in Seq(S), NEW e \in S
  PROVE  /\ Append(s, e) \in Seq(S)
         /\ ToSet(Append(s, e)) = ToSet(s) \cup {e}
         /\ e \notin ToSet(s) /\ IsInjective(s) => IsInjective(Append(s, e))
  <1> DEFINE r == Append(s, e)
  <1>1. r \in Seq(S) /\ Len(r) = Len(s) + 1 /\ r[Len(s) + 1] = e
        /\ \A i \in 1..Len(s) : r[i] = s[i]
    OBVIOUS
  <1> HIDE DEF r
  <1>s. /\ \A x : x \in ToSet(s) <=> \E i \in 1..Len(s) : x = s[i]
        /\ IsInjective(s) <=> \A i, j \in 1..Len(s) : s[i] = s[j] => i = j
    BY Positions
  <1>r. /\ \A x : x \in ToSet(r) <=> \E i \in 1..Len(r) : x = r[i]
        /\ IsInjective(r) <=> \A i, j \in 1..Len(r) : r[i] = r[j] => i = j
    BY <1>1, Positions
  <1>3. ASSUME NEW x PROVE x \in ToSet(r) <=> x \in ToSet(s) \/ x = e
    <2>1. ASSUME x \in ToSet(r) PROVE x \in ToSet(s) \/ x = e
      BY <1>1, <2>1, <1>s, <1>r
    <2>2. ASSUME x \in ToSet(s) PROVE x \in ToSet(r)
      <3>1. PICK i \in 1..Len(s) : x = s[i]
        BY <2>2, <1>s
      <3>2. i \in 1..Len(r) /\ x = r[i]
        BY <1>1, <3>1
      <3> QED BY <1>1, <3>2, <1>s, <1>r
    <2>3. e \in ToSet(r)
      <3>1. Len(s) + 1 \in 1..Len(r)
        BY <1>1
      <3> QED BY <1>1, <3>1, <1>s, <1>r
    <2> QED BY <2>1, <2>2, <2>3
  <1>4. ASSUME e \notin ToSet(s), IsInjective(s) PROVE IsInjective(r)
    BY <1>1, <1>4, <1>s, <1>r
  <1> QED BY <1>1, <1>3, <1>4 DEF r

(* Deleting the head. *)
LEMMA DeleteHead ==
  ASSUME NEW S, NEW s \in Seq(S), s # <<>>
  PROVE  /\ Head(s) \in S /\ Tail(s) \in Seq(S)
         /\ ToSet(s) = ToSet(Tail(s)) \cup {Head(s)}
         /\ IsInjective(s) => IsInjective(Tail(s)) /\ Head(s) \notin ToSet(Tail(s))
  <1> DEFINE r == Tail(s)
  <1>1. r \in Seq(S) /\ Len(r) = Len(s) - 1 /\ Len(s) >= 1
        /\ \A i \in 1..Len(r) : r[i] = s[i + 1]
    OBVIOUS
  <1>2. Head(s) = s[1] /\ s[1] \in S
    OBVIOUS
  <1>3. \A i \in 2..Len(s) : i - 1 \in 1..Len(r) /\ s[i] = r[i - 1]
    BY <1>1
  <1> HIDE DEF r
  <1>s. /\ \A x : x \in ToSet(s) <=> \E i \in 1..Len(s) : x = s[i]
        /\ IsInjective(s) <=> \A i, j \in 1..Len(s) : s[i] = s[j] => i = j
    BY Positions
  <1>r. /\ \A x : x \in ToSet(r) <=> \E i \in 1..Len(r) : x = r[i]
        /\ IsInjective(r) <=> \A i, j \in 1..Len(r) : r[i] = r[j] => i = j
    BY <1>1, Positions
  <1>4. ASSUME NEW x PROVE x \in ToSet(s) <=> x \in ToSet(r) \/ x = Head(s)
    <2>1. ASSUME x \in ToSet(s) PROVE x \in ToSet(r) \/ x = Head(s)
      BY <1>1, <1>2, <1>3, <2>1, <1>s, <1>r
    <2>2. ASSUME x \in ToSet(r) PROVE x \in ToSet(s)
      <3>1. PICK i \in 1..Len(r) : x = r[i]
        BY <2>2, <1>r
      <3>2. i + 1 \in 1..Len(s) /\ x = s[i + 1]
        BY <1>1, <3>1
      <3> QED BY <1>1, <3>2, <1>s, <1>r
    <2>3. Head(s) \in ToSet(s)
      <3>1. 1 \in 1..Len(s)
        BY <1>1
      <3> QED BY <1>2, <3>1, <1>s, <1>r
    <2> QED BY <2>1, <2>2, <2>3
  <1>5. ASSUME IsInjective(s) PROVE IsInjective(r) /\ Head(s) \notin ToSet(r)
    BY <1>1, <1>2, <1>5, <1>s, <1>r, SMTT(30)
  <1> QED BY <1>1, <1>2, <1>4, <1>5 DEF r

(* Where the others are once node k is deleted. *)
LEMMA DeletePositions ==
  ASSUME NEW S, NEW s \in Seq(S), NEW k \in 1..Len(s)
  PROVE  LET r == RemoveAt(s, k)
         IN  /\ r \in Seq(S) /\ Len(r) = Len(s) - 1
             /\ \A i \in 1..(k - 1) : i \in 1..Len(r) /\ r[i] = s[i]
             /\ \A i \in k..Len(r) : i + 1 \in 1..Len(s) /\ r[i] = s[i + 1]
  <1> DEFINE r == RemoveAt(s, k)
  <1> DEFINE a == SubSeq(s, 1, k - 1)
             b == SubSeq(s, k + 1, Len(s))
  <1>a. /\ a \in Seq(S) /\ Len(a) = k - 1
        /\ \A i \in 1..(k - 1) : a[i] = s[i]
    OBVIOUS
  <1>b. /\ b \in Seq(S) /\ Len(b) = Len(s) - k
        /\ \A i \in 1..(Len(s) - k) : b[i] = s[i + k]
    OBVIOUS
  <1>c. r = a \o b
    BY DEF RemoveAt
  <1> HIDE DEF r, a, b
  <1>1. r \in Seq(S) /\ Len(r) = Len(s) - 1
    <2>0. a \in Seq(S) /\ b \in Seq(S)
      BY <1>a, <1>b
    <2>1. r \in Seq(S) /\ Len(r) = Len(a) + Len(b)
      BY <2>0, <1>c
    <2>2. Len(s) \in Nat
      OBVIOUS
    <2> QED BY <2>1, <2>2, <1>a, <1>b
  <1>2. ASSUME NEW i \in 1..(k - 1) PROVE i \in 1..Len(r) /\ r[i] = s[i]
    BY <1>a, <1>b, <1>c, <1>1
  <1>3. ASSUME NEW i \in k..Len(r) PROVE i + 1 \in 1..Len(s) /\ r[i] = s[i + 1]
    <2>1. i - (k - 1) \in 1..(Len(s) - k) /\ r[i] = b[i - (k - 1)]
      BY <1>a, <1>b, <1>c, <1>1
    <2> QED BY <1>b, <1>1, <2>1
  <1> QED BY <1>1, <1>2, <1>3 DEF r

(* Deleting a node anywhere in the list. *)
LEMMA DeleteNode ==
  ASSUME NEW S, NEW s \in Seq(S), NEW k \in 1..Len(s)
  PROVE  /\ RemoveAt(s, k) \in Seq(S)
         /\ ToSet(s) = ToSet(RemoveAt(s, k)) \cup {s[k]}
         /\ IsInjective(s) => IsInjective(RemoveAt(s, k))
                              /\ s[k] \notin ToSet(RemoveAt(s, k))
  <1> DEFINE r == RemoveAt(s, k)
  <1> HIDE DEF r
  <1>1. r \in Seq(S) /\ Len(r) = Len(s) - 1
    BY DeletePositions DEF r
  <1>2. /\ \A i \in 1..(k - 1) : i \in 1..Len(r) /\ r[i] = s[i]
        /\ \A i \in k..Len(r) : i + 1 \in 1..Len(s) /\ r[i] = s[i + 1]
    BY DeletePositions DEF r
  <1>3. \A i \in (k + 1)..Len(s) : i - 1 \in 1..Len(r) /\ s[i] = r[i - 1]
    <2> SUFFICES ASSUME NEW i \in (k + 1)..Len(s)
                 PROVE  i - 1 \in 1..Len(r) /\ s[i] = r[i - 1]
      OBVIOUS
    <2>1. i - 1 \in k..Len(r) /\ (i - 1) + 1 = i
      BY <1>1
    <2> QED BY <1>1, <1>2, <2>1
  <1>s. /\ \A x : x \in ToSet(s) <=> \E i \in 1..Len(s) : x = s[i]
        /\ IsInjective(s) <=> \A i, j \in 1..Len(s) : s[i] = s[j] => i = j
    BY Positions
  <1>r. /\ \A x : x \in ToSet(r) <=> \E i \in 1..Len(r) : x = r[i]
        /\ IsInjective(r) <=> \A i, j \in 1..Len(r) : r[i] = r[j] => i = j
    BY <1>1, Positions
  <1>4. ASSUME NEW x PROVE x \in ToSet(s) <=> x \in ToSet(r) \/ x = s[k]
    <2>1. ASSUME x \in ToSet(s) PROVE x \in ToSet(r) \/ x = s[k]
      <3>1. PICK i \in 1..Len(s) : x = s[i]
        BY <2>1, <1>s
      <3>2. CASE i < k
        <4>1. i \in 1..(k - 1)
          BY <3>2
        <4> QED BY <1>2, <3>1, <4>1, <1>r
      <3>3. CASE i > k
        BY <1>1, <1>3, <3>1, <3>3, <1>s, <1>r, SMTT(30)
      <3> QED BY <3>1, <3>2, <3>3
    <2>2. ASSUME x \in ToSet(r) PROVE x \in ToSet(s)
      <3>1. PICK i \in 1..Len(r) : x = r[i]
        BY <2>2, <1>r
      <3>2. CASE i < k
        <4>1. i \in 1..(k - 1) /\ i \in 1..Len(s)
          BY <1>1, <3>2
        <4> QED BY <1>2, <3>1, <4>1, <1>s
      <3>3. CASE i >= k
        BY <1>1, <1>2, <3>1, <3>3, <1>s, <1>r
      <3> QED BY <3>1, <3>2, <3>3
    <2>3. s[k] \in ToSet(s)
      BY Positions
    <2> QED BY <2>1, <2>2, <2>3
  <1>5. ASSUME IsInjective(s) PROVE IsInjective(r) /\ s[k] \notin ToSet(r)
    <2> DEFINE old(i) == IF i < k THEN i ELSE i + 1
    <2>1. ASSUME NEW i \in 1..Len(r)
          PROVE  old(i) \in 1..Len(s) /\ old(i) # k /\ r[i] = s[old(i)]
      <3>1. CASE i < k
        <4>1. i \in 1..(k - 1) /\ i \in 1..Len(s) /\ old(i) = i
          BY <1>1, <3>1
        <4> QED BY <1>2, <4>1
      <3>2. CASE i >= k
        <4>1. i \in k..Len(r) /\ i + 1 \in 1..Len(s) /\ old(i) = i + 1
          BY <1>1, <3>2
        <4> QED BY <1>2, <4>1
      <3> QED BY <3>1, <3>2
    <2>2. ASSUME NEW i \in 1..Len(r), NEW j \in 1..Len(r), old(i) = old(j)
          PROVE  i = j
      BY <2>2
    <2> HIDE DEF old
    <2>3. IsInjective(r)
      <3>1. ASSUME NEW i \in 1..Len(r), NEW j \in 1..Len(r), r[i] = r[j]
            PROVE  i = j
        <4>1. old(i) = old(j)
          BY <1>5, <1>s, <2>1, <3>1
        <4> QED BY <2>2, <4>1
      <3> QED BY <3>1, <1>r
    <2>4. s[k] \notin ToSet(r)
      <3>1. ASSUME NEW i \in 1..Len(r), s[k] = r[i] PROVE FALSE
        BY <1>5, <1>s, <2>1, <3>1
      <3> QED BY <3>1, <1>r
    <2> QED BY <2>3, <2>4
  <1> QED BY <1>1, <1>4, <1>5 DEF r

(* Where the others are once e is inserted as node k, before what was      *)
(* there.                                                                  *)
LEMMA InsertPositions ==
  ASSUME NEW S, NEW s \in Seq(S), NEW k \in 1..Len(s), NEW e \in S
  PROVE  LET r == InsertAt(s, k, e)
         IN  /\ r \in Seq(S) /\ Len(r) = Len(s) + 1 /\ r[k] = e
             /\ \A i \in 1..(k - 1) : r[i] = s[i]
             /\ \A i \in (k + 1)..Len(r) : i - 1 \in k..Len(s) /\ r[i] = s[i - 1]
  <1> DEFINE r == InsertAt(s, k, e)
  <1> DEFINE a == SubSeq(s, 1, k - 1)
             m == a \o <<e>>
             b == SubSeq(s, k, Len(s))
  <1>n. Len(s) \in Nat /\ k \in Nat /\ k >= 1 /\ k <= Len(s)
    OBVIOUS
  <1>a. /\ a \in Seq(S) /\ Len(a) = k - 1
        /\ \A i \in 1..(k - 1) : a[i] = s[i]
    OBVIOUS
  <1>b. /\ b \in Seq(S) /\ Len(b) = Len(s) - (k - 1)
        /\ \A i \in 1..(Len(s) - (k - 1)) : b[i] = s[i + (k - 1)]
    OBVIOUS
  <1>c. r = m \o b
    BY DEF InsertAt
  <1> HIDE DEF r, a, b
  <1>m. /\ m \in Seq(S) /\ Len(m) = k /\ m[k] = e
        /\ \A i \in 1..(k - 1) : m[i] = a[i]
    BY <1>a, <1>n
  <1> HIDE DEF m
  <1>1. r \in Seq(S) /\ Len(r) = Len(s) + 1
    <2>0. m \in Seq(S) /\ b \in Seq(S)
      BY <1>m, <1>b
    <2>1. r \in Seq(S) /\ Len(r) = Len(m) + Len(b)
      BY <2>0, <1>c
    <2> QED BY <2>1, <1>n, <1>m, <1>b
  <1>2. ASSUME NEW i \in 1..k PROVE r[i] = m[i]
    BY <1>m, <1>b, <1>c
  <1>3. ASSUME NEW i \in (k + 1)..Len(r) PROVE i - 1 \in k..Len(s) /\ r[i] = s[i - 1]
    <2>1. i - k \in 1..(Len(s) - (k - 1)) /\ r[i] = b[i - k]
      BY <1>m, <1>b, <1>c, <1>1
    <2>2. (i - k) + (k - 1) = i - 1
      BY <1>n, <1>1
    <2> QED BY <1>b, <1>1, <1>n, <2>1, <2>2
  <1>4. r[k] = e
    BY <1>m, <1>n, <1>2
  <1>5. ASSUME NEW i \in 1..(k - 1) PROVE r[i] = s[i]
    <2>1. i \in 1..k
      BY <1>n
    <2> QED BY <1>a, <1>m, <1>2, <2>1
  <1> QED BY <1>1, <1>3, <1>4, <1>5 DEF r

(* Inserting a new member anywhere in the list. *)
LEMMA AddNode ==
  ASSUME NEW S, NEW s \in Seq(S), NEW k \in 1..Len(s), NEW e \in S
  PROVE  /\ InsertAt(s, k, e) \in Seq(S)
         /\ ToSet(InsertAt(s, k, e)) = ToSet(s) \cup {e}
         /\ e \notin ToSet(s) /\ IsInjective(s) => IsInjective(InsertAt(s, k, e))
  <1> DEFINE r == InsertAt(s, k, e)
             old(i) == IF i < k THEN i ELSE i - 1
             new(i) == IF i < k THEN i ELSE i + 1
  <1> HIDE DEF r
  <1>1. /\ r \in Seq(S) /\ Len(r) = Len(s) + 1 /\ r[k] = e
        /\ \A i \in 1..(k - 1) : r[i] = s[i]
        /\ \A i \in (k + 1)..Len(r) : i - 1 \in k..Len(s) /\ r[i] = s[i - 1]
    BY InsertPositions DEF r
  <1>n. Len(s) \in Nat /\ k \in Nat /\ k >= 1 /\ k <= Len(s)
    OBVIOUS
  <1>2. ASSUME NEW i \in 1..Len(r), i # k PROVE old(i) \in 1..Len(s) /\ r[i] = s[old(i)]
    <2>1. CASE i < k
      <3>1. i \in 1..(k - 1) /\ old(i) = i
        BY <1>n, <2>1
      <3> QED BY <1>1, <1>n, <3>1
    <2>2. CASE i > k
      <3>1. i \in (k + 1)..Len(r) /\ old(i) = i - 1
        BY <1>n, <1>1, <2>2
      <3> QED BY <1>1, <1>n, <3>1
    <2> QED BY <1>2, <1>n, <1>1, <2>1, <2>2
  <1>3. ASSUME NEW i \in 1..Len(s) PROVE new(i) \in 1..Len(r) /\ s[i] = r[new(i)]
    <2>1. CASE i < k
      <3>1. i \in 1..(k - 1) /\ new(i) = i
        BY <1>n, <2>1
      <3> QED BY <1>1, <1>n, <3>1
    <2>2. CASE i >= k
      <3>1. i + 1 \in (k + 1)..Len(r) /\ new(i) = i + 1 /\ (i + 1) - 1 = i
        BY <1>n, <1>1, <2>2
      <3> QED BY <1>1, <1>n, <3>1
    <2> QED BY <1>n, <2>1, <2>2
  <1>4. ASSUME NEW i \in 1..Len(r), NEW j \in 1..Len(r), i # k, j # k, old(i) = old(j)
        PROVE  i = j
    BY <1>n, <1>1, <1>4
  <1> HIDE DEF old, new
  <1>s. /\ \A x : x \in ToSet(s) <=> \E i \in 1..Len(s) : x = s[i]
        /\ IsInjective(s) <=> \A i, j \in 1..Len(s) : s[i] = s[j] => i = j
    BY Positions
  <1>r. /\ \A x : x \in ToSet(r) <=> \E i \in 1..Len(r) : x = r[i]
        /\ IsInjective(r) <=> \A i, j \in 1..Len(r) : r[i] = r[j] => i = j
    BY <1>1, Positions
  <1>k. k \in 1..Len(r)
    BY <1>n, <1>1
  <1>5. ToSet(r) = ToSet(s) \cup {e}
    <2>1. ASSUME NEW x \in ToSet(r) PROVE x \in ToSet(s) \cup {e}
      <3>1. PICK i \in 1..Len(r) : x = r[i]
        BY <2>1, <1>r
      <3> QED BY <1>1, <1>2, <3>1, <1>s
    <2>2. ASSUME NEW x \in ToSet(s) PROVE x \in ToSet(r)
      <3>1. PICK i \in 1..Len(s) : x = s[i]
        BY <2>2, <1>s
      <3> QED BY <1>3, <3>1, <1>r
    <2>3. e \in ToSet(r)
      BY <1>1, <1>k, <1>r
    <2> QED BY <2>1, <2>2, <2>3
  <1>6. ASSUME e \notin ToSet(s), IsInjective(s) PROVE IsInjective(r)
    <2>1. ASSUME NEW i \in 1..Len(r), NEW j \in 1..Len(r), r[i] = r[j] PROVE i = j
      <3>1. CASE i = k \/ j = k
        BY <1>1, <1>2, <1>6, <1>s, <2>1, <3>1
      <3>2. CASE i # k /\ j # k
        BY <1>2, <1>4, <1>6, <1>s, <2>1, <3>2
      <3> QED BY <3>1, <3>2
    <2> QED BY <2>1, <1>r
  <1> QED BY <1>1, <1>5, <1>6 DEF r

-----------------------------------------------------------------------------
(* Induction without an operator parameter: every set of numbers that is   *)
(* not empty has a least one, because < is well founded.                   *)
LEMMA LeastExists ==
  ASSUME NEW T \in SUBSET Nat, T # {}
  PROVE  \E x \in T : \A y \in T : x <= y
  <1>1. IsWellFoundedOn(OpToRel(<, Nat), Nat)
    BY NatLessThanWellFounded
  <1>2. PICK x \in T : \A y \in T : ~(<<y, x>> \in OpToRel(<, Nat))
    BY <1>1, WFMin
  <1>3. ASSUME NEW y \in T PROVE x <= y
    <2>1. ~(y < x)
      BY <1>2 DEF OpToRel
    <2> QED BY <2>1
  <1> QED BY <1>3

(* Min, which FirstIndex, SelectInSeq and the bitmap searches rest on. *)
LEMMA MinIsLeast ==
  ASSUME NEW T \in SUBSET Nat, T # {}
  PROVE  Min(T) \in T /\ \A y \in T : Min(T) <= y
  BY LeastExists DEF Min

LEMMA MinIs ==
  ASSUME NEW T \in SUBSET Nat, NEW m \in T, \A y \in T : m <= y
  PROVE  Min(T) = m
  <1>0. T # {}
    OBVIOUS
  <1>1. Min(T) \in T /\ \A y \in T : Min(T) <= y
    BY <1>0, MinIsLeast
  <1>2. Min(T) \in Nat /\ m \in Nat /\ Min(T) <= m /\ m <= Min(T)
    BY <1>1
  <1> QED BY <1>2

(* What zero has, and n + 1 has when n has it, every number has. *)
LEMMA Induction ==
  ASSUME NEW S, 0 \in S, \A n \in Nat : n \in S => n + 1 \in S
  PROVE  Nat \subseteq S
  <1> DEFINE T == Nat \ S
  <1> SUFFICES ASSUME T # {} PROVE FALSE
    OBVIOUS
  <1>1. PICK x \in T : \A y \in T : x <= y
    BY LeastExists
  <1>2. x # 0 /\ x - 1 \in Nat /\ x - 1 \notin T
    BY <1>1
  <1> QED BY <1>1, <1>2

(* Unlinking a node that is known by its address. *)
LEMMA RemoveFirstAt ==
  ASSUME NEW S, NEW s \in Seq(S), NEW e
  PROVE  \/ e \notin ToSet(s) /\ RemoveFirst(s, e) = s
         \/ \E k \in 1..Len(s) : s[k] = e /\ RemoveFirst(s, e) = RemoveAt(s, k)
  <1> DEFINE T == {i \in 1..Len(s) : s[i] = e}
  <1>0. e \in ToSet(s) <=> \E i \in 1..Len(s) : s[i] = e
    BY Positions
  <1>1. CASE T = {}
    BY <1>0, <1>1 DEF RemoveFirst
  <1>2. CASE T # {}
    <2>0. T \in SUBSET Nat
      OBVIOUS
    <2>1. Min(T) \in T
      <3> HIDE DEF T
      <3> QED BY <1>2, <2>0, MinIsLeast
    <2>2. SelectInSeq(s, LAMBDA v : v = e) = Min(T)
      BY <1>2 DEF SelectInSeq
    <2>3. RemoveFirst(s, e) = RemoveAt(s, SelectInSeq(s, LAMBDA v : v = e))
      BY <1>2 DEF RemoveFirst
    <2> HIDE DEF T
    <2>4. RemoveFirst(s, e) = RemoveAt(s, Min(T))
      BY <2>2, <2>3
    <2>5. Min(T) \in 1..Len(s) /\ s[Min(T)] = e
      BY <2>1 DEF T
    <2> QED BY <2>4, <2>5
  <1> QED BY <1>1, <1>2

LEMMA DeleteFirst ==
  ASSUME NEW S, NEW s \in Seq(S), NEW e, IsInjective(s)
  PROVE  /\ RemoveFirst(s, e) \in Seq(S)
         /\ ToSet(RemoveFirst(s, e)) = ToSet(s) \ {e}
         /\ IsInjective(RemoveFirst(s, e))
  <1>1. CASE e \notin ToSet(s) /\ RemoveFirst(s, e) = s
    BY <1>1
  <1>2. ASSUME NEW k \in 1..Len(s), s[k] = e, RemoveFirst(s, e) = RemoveAt(s, k)
        PROVE  /\ RemoveFirst(s, e) \in Seq(S)
               /\ ToSet(RemoveFirst(s, e)) = ToSet(s) \ {e}
               /\ IsInjective(RemoveFirst(s, e))
    BY <1>2, DeleteNode
  <1> QED BY <1>1, <1>2, RemoveFirstAt
=============================================================================
