----------------------------- MODULE ListProofs -----------------------------
(***************************************************************************)
(* What adding to a list of threads, and taking from it, does to the set   *)
(* of its elements and to their being on it once.                          *)
(***************************************************************************)
EXTENDS Integers, Lists, TLAPS

\* The provers, in the order and with the seconds that suit these proofs.
USE SMTT(2), ZenonT(10), SMTT(40), ZenonT(60)

-----------------------------------------------------------------------------
(* Sequences *)

\* A sequence is empty or has a first element.
LEMMA EmptySeq ==
    ASSUME NEW S
    PROVE  /\ <<>> \in Seq(S) /\ Len(<<>>) = 0
           /\ \A s \in Seq(S) : s # <<>> => Len(s) \in Nat \ {0} /\ Head(s) = s[1]
OBVIOUS

\* A sequence and its elements.
LEMMA LenProperties ==
    ASSUME NEW S, NEW s \in Seq(S)
    PROVE  Len(s) \in Nat /\ DOMAIN s = 1..Len(s)
OBVIOUS

LEMMA ElementOfSeq ==
    ASSUME NEW S, NEW s \in Seq(S), NEW i \in 1..Len(s)
    PROVE  s[i] \in S
OBVIOUS

\* Sequences with the same elements are the same.
LEMMA SeqEqual ==
    ASSUME NEW S, NEW s \in Seq(S), NEW t \in Seq(S), Len(s) = Len(t), \A i \in 1..Len(s) : s[i] = t[i]
    PROVE  s = t
OBVIOUS

\* What the operators on sequences return.
LEMMA HeadTailProperties ==
    ASSUME NEW S, NEW s \in Seq(S), s # <<>>
    PROVE  /\ Head(s) \in S /\ Tail(s) \in Seq(S) /\ Len(Tail(s)) = Len(s) - 1
           /\ \A i \in 1..Len(Tail(s)) : Tail(s)[i] = s[i + 1]
OBVIOUS

LEMMA AppendProperties ==
    ASSUME NEW S, NEW s \in Seq(S), NEW x \in S
    PROVE  /\ Append(s, x) \in Seq(S) /\ Append(s, x) # <<>> /\ Len(Append(s, x)) = Len(s) + 1
           /\ \A i \in 1..Len(s) : Append(s, x)[i] = s[i]
           /\ Append(s, x)[Len(s) + 1] = x
OBVIOUS

LEMMA ConcatProperties ==
    ASSUME NEW S, NEW s \in Seq(S), NEW t \in Seq(S)
    PROVE  /\ s \o t \in Seq(S) /\ Len(s \o t) = Len(s) + Len(t)
           /\ \A i \in 1..Len(s) + Len(t) : (s \o t)[i] = IF i <= Len(s) THEN s[i] ELSE t[i - Len(s)]
OBVIOUS

LEMMA SubSeqProperties ==
    ASSUME NEW S, NEW s, NEW m \in Int, NEW n \in Int, \A i \in m..n : s[i] \in S
    PROVE  /\ SubSeq(s, m, n) \in Seq(S)
           /\ Len(SubSeq(s, m, n)) = IF m <= n THEN n - m + 1 ELSE 0
           /\ \A i \in 1..n - m + 1 : SubSeq(s, m, n)[i] = s[m + i - 1]
OBVIOUS

-----------------------------------------------------------------------------
(* Lists *)

\* Appending at the tail (run_enqueue, waitq_sleep) adds the element, and
\* only it, and keeps the list free of repetitions if it was not there.
LEMMA AppendFacts ==
    ASSUME NEW S, NEW list \in Seq(S), NEW x \in S
    PROVE  /\ Append(list, x) \in Seq(S)
           /\ Append(list, x) # <<>>
           /\ \A y : On(Append(list, x), y) <=> On(list, y) \/ y = x
           /\ Once(list) /\ ~On(list, x) => Once(Append(list, x))
<1>1. /\ Append(list, x) \in Seq(S) /\ Append(list, x) # <<>>
      /\ Len(Append(list, x)) = Len(list) + 1
      /\ \A i \in 1..Len(list) : Append(list, x)[i] = list[i]
      /\ Append(list, x)[Len(list) + 1] = x
  BY AppendProperties
<1>2. Len(list) \in Nat
  BY LenProperties
<1>3. ASSUME NEW y PROVE On(Append(list, x), y) <=> On(list, y) \/ y = x
  BY <1>1, <1>2 DEF On
<1>4. ASSUME Once(list), ~On(list, x) PROVE Once(Append(list, x))
  BY <1>1, <1>2, <1>4 DEF Once, On
<1> QED
  BY <1>1, <1>3, <1>4

\* Putting a call at the front of the list (begin) adds it, and only it, and
\* keeps the list free of repetitions if it was not there.
LEMMA ConsFacts ==
    ASSUME NEW S, NEW list \in Seq(S), NEW x \in S
    PROVE  /\ <<x>> \o list \in Seq(S)
           /\ \A y : On(<<x>> \o list, y) <=> On(list, y) \/ y = x
           /\ Once(list) /\ ~On(list, x) => Once(<<x>> \o list)
<1> DEFINE new == <<x>> \o list
<1>1. <<x>> \in Seq(S) /\ Len(<<x>>) = 1 /\ <<x>>[1] = x
  OBVIOUS
<1>2. Len(list) \in Nat
  BY LenProperties
<1>3. /\ new \in Seq(S) /\ Len(new) = Len(list) + 1
      /\ \A i \in 1..Len(new) : new[i] = IF i <= 1 THEN <<x>>[i] ELSE list[i - 1]
  BY <1>1, <1>2, ConcatProperties
<1> HIDE DEF new
<1>4. 1 \in 1..Len(new) /\ new[1] = x
  BY <1>1, <1>2, <1>3
<1>5. \A i \in 1..Len(new) : i = 1 \/ (i - 1 \in 1..Len(list) /\ new[i] = list[i - 1])
  <2> TAKE i \in 1..Len(new)
  <2>1. CASE i = 1
    BY <2>1
  <2>2. CASE i # 1
    <3>1. i - 1 \in 1..Len(list) /\ ~(i <= 1)
      BY <1>2, <1>3, <2>2
    <3> QED BY <1>3, <3>1
  <2> QED BY <2>1, <2>2
<1>6. \A i \in 1..Len(list) : i + 1 \in 1..Len(new) /\ new[i + 1] = list[i]
  <2> TAKE i \in 1..Len(list)
  <2>1. i + 1 \in 1..Len(new) /\ i + 1 # 1 /\ (i + 1) - 1 = i
    BY <1>2, <1>3
  <2> QED BY <1>5, <2>1
<1>7. ASSUME NEW y PROVE On(new, y) <=> On(list, y) \/ y = x
  <2>1. ASSUME On(new, y) PROVE On(list, y) \/ y = x
    BY <1>4, <1>5, <2>1 DEF On
  <2>2. ASSUME On(list, y) \/ y = x PROVE On(new, y)
    BY <1>4, <1>6, <2>2 DEF On
  <2> QED BY <2>1, <2>2
<1>8. ASSUME Once(list), ~On(list, x) PROVE Once(new)
  <2>1. \A i \in 1..Len(new) : i # 1 => new[i] # x
    BY <1>5, <1>8 DEF On
  <2>2. \A i, j \in 1..Len(new) : i # 1 /\ j # 1 /\ new[i] = new[j] => i - 1 = j - 1
    BY <1>5, <1>8 DEF Once
  <2>3. \A i \in 1..Len(new) : i \in Int
    OBVIOUS
  <2> QED BY <1>4, <2>1, <2>2, <2>3 DEF Once
<1> QED BY <1>3, <1>7, <1>8 DEF new

\* Taking the head off (run_dequeue, waitq_pop) removes the head and keeps
\* the rest.
LEMMA TailFacts ==
    ASSUME NEW S, NEW list \in Seq(S), list # <<>>, Once(list)
    PROVE  /\ Head(list) \in S
           /\ Tail(list) \in Seq(S)
           /\ Once(Tail(list))
           /\ On(list, Head(list))
           /\ \A y : On(Tail(list), y) <=> On(list, y) /\ y # Head(list)
<1>1. /\ Head(list) \in S /\ Tail(list) \in Seq(S) /\ Len(Tail(list)) = Len(list) - 1
      /\ \A i \in 1..Len(Tail(list)) : Tail(list)[i] = list[i + 1]
  BY HeadTailProperties
<1>2. Len(list) \in Nat \ {0} /\ Head(list) = list[1]
  BY EmptySeq, LenProperties
<1>3. On(list, Head(list))
  BY <1>2 DEF On
<1>4. Once(Tail(list))
  BY <1>1, <1>2 DEF Once
<1>5. ASSUME NEW y PROVE On(Tail(list), y) <=> On(list, y) /\ y # Head(list)
  <2>1. ASSUME On(Tail(list), y) PROVE On(list, y) /\ y # Head(list)
    <3>1. PICK i \in 1..Len(Tail(list)) : Tail(list)[i] = y
      BY <2>1 DEF On
    <3>2. i + 1 \in 1..Len(list) /\ list[i + 1] = y /\ i + 1 # 1
      BY <1>1, <1>2, <3>1
    <3> QED BY <1>2, <3>2 DEF On, Once
  <2>2. ASSUME On(list, y), y # Head(list) PROVE On(Tail(list), y)
    <3>1. PICK i \in 1..Len(list) : list[i] = y
      BY <2>2 DEF On
    <3>2. i - 1 \in 1..Len(Tail(list)) /\ Tail(list)[i - 1] = y
      BY <1>1, <1>2, <2>2, <3>1
    <3> QED BY <3>2 DEF On
  <2> QED BY <2>1, <2>2
<1> QED
  BY <1>1, <1>3, <1>4, <1>5

\* Where the elements of LinkAt(list, k + 1, x) come from.
LEMMA InsertElements ==
    ASSUME NEW S, NEW list \in Seq(S), NEW x \in S, NEW k \in 0..Len(list)
    PROVE  LET new == LinkAt(list, k + 1, x)
           IN  /\ new \in Seq(S) /\ Len(new) = Len(list) + 1
               /\ \A i \in 1..Len(list) + 1 :
                    new[i] = IF i <= k THEN list[i] ELSE IF i = k + 1 THEN x ELSE list[i - 1]
<1> DEFINE front == SubSeq(list, 1, k)
           back == SubSeq(list, k + 1, Len(list))
<1>1. Len(list) \in Nat /\ \A i \in 1..Len(list) : list[i] \in S
  BY LenProperties, ElementOfSeq
<1>2. front \in Seq(S) /\ Len(front) = k /\ \A i \in 1..k : front[i] = list[i]
  <2>1. \A i \in 1..k : list[i] \in S BY <1>1
  <2> QED BY <1>1, <2>1, SubSeqProperties
<1>3. back \in Seq(S) /\ Len(back) = Len(list) - k
      /\ \A i \in 1..Len(list) - k : back[i] = list[k + i]
  <2>1. \A i \in (k + 1)..Len(list) : list[i] \in S BY <1>1
  <2>2. k + 1 \in Int /\ Len(list) \in Int BY <1>1
  <2>3. /\ back \in Seq(S) /\ Len(back) = IF k + 1 <= Len(list) THEN Len(list) - (k + 1) + 1 ELSE 0
        /\ \A i \in 1..Len(list) - (k + 1) + 1 : back[i] = list[(k + 1) + i - 1]
    BY <2>1, <2>2, SubSeqProperties
  <2> QED BY <1>1, <2>3
<1> HIDE DEF front, back
<1>4. <<x>> \in Seq(S) /\ Len(<<x>>) = 1 /\ <<x>>[1] = x
  OBVIOUS
<1>5. /\ front \o <<x>> \in Seq(S) /\ Len(front \o <<x>>) = k + 1
      /\ \A i \in 1..k + 1 : (front \o <<x>>)[i] = IF i <= k THEN front[i] ELSE <<x>>[i - k]
  BY <1>2, <1>4, ConcatProperties
<1> DEFINE left == front \o <<x>>
<1>6. \A i \in 1..k + 1 : left[i] = IF i <= k THEN list[i] ELSE x
  BY <1>1, <1>2, <1>4, <1>5
<1>7. /\ left \o back \in Seq(S) /\ Len(left \o back) = Len(list) + 1
      /\ \A i \in 1..Len(list) + 1 :
            (left \o back)[i] = IF i <= k + 1 THEN left[i] ELSE back[i - (k + 1)]
  <2> HIDE DEF left
  <2>1. left \in Seq(S) /\ Len(left) = k + 1 BY <1>5 DEF left
  <2> QED BY <1>1, <1>3, <2>1, ConcatProperties
<1>8. LinkAt(list, k + 1, x) = left \o back
  <2>1. (k + 1) - 1 = k BY <1>1
  <2> QED BY <2>1 DEF LinkAt, front, back
<1>9. ASSUME NEW i \in 1..Len(list) + 1
      PROVE  (left \o back)[i] = IF i <= k THEN list[i] ELSE IF i = k + 1 THEN x ELSE list[i - 1]
  <2> HIDE DEF left
  <2>1. CASE i <= k + 1 BY <1>1, <1>6, <1>7, <2>1
  <2>2. CASE i > k + 1
    <3>1. i - (k + 1) \in 1..Len(list) - k /\ k + (i - (k + 1)) = i - 1 BY <1>1, <2>2
    <3>2. (left \o back)[i] = back[i - (k + 1)] BY <1>1, <1>7, <2>2
    <3>3. back[i - (k + 1)] = list[k + (i - (k + 1))] BY <1>3, <3>1
    <3>4. ~(i <= k) /\ i # k + 1 BY <1>1, <2>2
    <3> HIDE DEF back
    <3> QED BY <3>1, <3>2, <3>3, <3>4
  <2>3. i <= k + 1 \/ i > k + 1 BY <1>1
  <2> QED BY <2>1, <2>2, <2>3
<1>10. \A i \in 1..Len(list) + 1 : (left \o back)[i] =
          IF i <= k THEN list[i] ELSE IF i = k + 1 THEN x ELSE list[i - 1]
  BY <1>9
<1> DEFINE all == left \o back
<1> HIDE DEF all
<1>11. /\ all \in Seq(S) /\ Len(all) = Len(list) + 1
       /\ \A i \in 1..Len(list) + 1 : all[i] =
            IF i <= k THEN list[i] ELSE IF i = k + 1 THEN x ELSE list[i - 1]
  BY <1>7, <1>10 DEF all
<1>12. LinkAt(list, k + 1, x) = all BY <1>8 DEF all
<1> QED BY <1>11, <1>12

\* Inserting anywhere (sleep_insert) adds the element, and only it.
LEMMA InsertFacts ==
    ASSUME NEW S, NEW list \in Seq(S), NEW x \in S, NEW k \in 0..Len(list)
    PROVE  /\ LinkAt(list, k + 1, x) \in Seq(S)
           /\ \A y : On(LinkAt(list, k + 1, x), y) <=> On(list, y) \/ y = x
           /\ Once(list) /\ ~On(list, x) => Once(LinkAt(list, k + 1, x))
<1> DEFINE new == LinkAt(list, k + 1, x)
<1>1. /\ new \in Seq(S) /\ Len(new) = Len(list) + 1
      /\ \A i \in 1..Len(list) + 1 :
            new[i] = IF i <= k THEN list[i] ELSE IF i = k + 1 THEN x ELSE list[i - 1]
  BY InsertElements
<1>2. Len(list) \in Nat
  BY LenProperties
<1> HIDE DEF new
<1>3. ASSUME NEW y PROVE On(new, y) <=> On(list, y) \/ y = x
  <2>1. On(new, y) => On(list, y) \/ y = x
    BY <1>1, <1>2 DEF On
  <2>2. ASSUME On(list, y) PROVE On(new, y)
    <3>1. PICK i \in 1..Len(list) : list[i] = y BY <2>2 DEF On
    <3>2. CASE i <= k
      <4>1. i \in 1..Len(list) + 1 /\ new[i] = y BY <1>1, <1>2, <3>1, <3>2
      <4> QED BY <1>1, <4>1 DEF On
    <3>3. CASE i > k
      <4>1. i + 1 \in 1..Len(list) + 1 /\ (i + 1) - 1 = i /\ ~(i + 1 <= k) /\ i + 1 # k + 1
        BY <1>2, <3>1, <3>3
      <4>2. new[i + 1] = y BY <1>1, <3>1, <4>1
      <4> QED BY <1>1, <4>1, <4>2 DEF On
    <3> QED BY <1>2, <3>2, <3>3
  <2>3. On(new, x)
    <3>1. k + 1 \in 1..Len(list) + 1 /\ new[k + 1] = x BY <1>1, <1>2
    <3> QED BY <1>1, <3>1 DEF On
  <2> QED BY <2>1, <2>2, <2>3
<1>4. ASSUME Once(list), ~On(list, x) PROVE Once(new)
  <2>1. ASSUME NEW i \in 1..Len(list) + 1, NEW j \in 1..Len(list) + 1, new[i] = new[j]
        PROVE  i = j
    <3> DEFINE at(n) == IF n <= k THEN n ELSE n - 1
    <3>1. \A n \in 1..Len(list) + 1 : n # k + 1 => at(n) \in 1..Len(list) /\ new[n] = list[at(n)]
      BY <1>1, <1>2
    <3>2. \A n \in 1..Len(list) + 1 : n = k + 1 => new[n] = x
      BY <1>1, <1>2
    <3>3. CASE i = k + 1 /\ j # k + 1 BY <1>4, <2>1, <3>1, <3>2, <3>3 DEF On
    <3>4. CASE i # k + 1 /\ j = k + 1 BY <1>4, <2>1, <3>1, <3>2, <3>4 DEF On
    <3>5. CASE i # k + 1 /\ j # k + 1
      <4>1. at(i) = at(j) BY <1>4, <2>1, <3>1, <3>5 DEF Once
      <4> QED BY <1>2, <3>5, <4>1
    <3> QED BY <3>3, <3>4, <3>5
  <2> QED BY <1>1, <2>1 DEF Once
<1> QED BY <1>1, <1>3, <1>4 DEF new

\* Where the elements of UnlinkAt(list, k) come from.
LEMMA RemoveElements ==
    ASSUME NEW S, NEW list \in Seq(S), NEW k \in 1..Len(list)
    PROVE  /\ UnlinkAt(list, k) \in Seq(S)
           /\ Len(UnlinkAt(list, k)) = Len(list) - 1
           /\ \A i \in 1..Len(list) - 1 : UnlinkAt(list, k)[i] =
                IF i < k THEN list[i] ELSE list[i + 1]
<1> DEFINE front == SubSeq(list, 1, k - 1)
           back == SubSeq(list, k + 1, Len(list))
<1>1. Len(list) \in Nat /\ \A i \in 1..Len(list) : list[i] \in S
  BY LenProperties, ElementOfSeq
<1>2. front \in Seq(S) /\ Len(front) = k - 1 /\ \A i \in 1..k - 1 : front[i] = list[i]
  <2>1. \A i \in 1..k - 1 : list[i] \in S BY <1>1
  <2>2. k - 1 \in Int BY <1>1
  <2>3. /\ front \in Seq(S) /\ Len(front) = IF 1 <= k - 1 THEN (k - 1) - 1 + 1 ELSE 0
        /\ \A i \in 1..(k - 1) - 1 + 1 : front[i] = list[1 + i - 1]
    BY <2>1, <2>2, SubSeqProperties
  <2> QED BY <1>1, <2>3
<1>3. back \in Seq(S) /\ Len(back) = Len(list) - k
      /\ \A i \in 1..Len(list) - k : back[i] = list[k + i]
  <2>1. \A i \in (k + 1)..Len(list) : list[i] \in S BY <1>1
  <2>2. k + 1 \in Int /\ Len(list) \in Int BY <1>1
  <2>3. /\ back \in Seq(S) /\ Len(back) = IF k + 1 <= Len(list) THEN Len(list) - (k + 1) + 1 ELSE 0
        /\ \A i \in 1..Len(list) - (k + 1) + 1 : back[i] = list[(k + 1) + i - 1]
    BY <2>1, <2>2, SubSeqProperties
  <2> QED BY <1>1, <2>3
<1>4. UnlinkAt(list, k) = front \o back
  BY DEF UnlinkAt
<1> HIDE DEF front, back
<1>5. /\ front \o back \in Seq(S) /\ Len(front \o back) = (k - 1) + (Len(list) - k)
      /\ \A i \in 1..(k - 1) + (Len(list) - k) :
            (front \o back)[i] = IF i <= k - 1 THEN front[i] ELSE back[i - (k - 1)]
  <2>1. /\ front \o back \in Seq(S) /\ Len(front \o back) = Len(front) + Len(back)
        /\ \A i \in 1..Len(front) + Len(back) :
              (front \o back)[i] = IF i <= Len(front) THEN front[i] ELSE back[i - Len(front)]
    BY <1>2, <1>3, ConcatProperties
  <2> QED BY <1>2, <1>3, <2>1
<1>6. (k - 1) + (Len(list) - k) = Len(list) - 1
  BY <1>1
<1>7. ASSUME NEW i \in 1..Len(list) - 1
      PROVE  (front \o back)[i] = IF i < k THEN list[i] ELSE list[i + 1]
  <2>1. CASE i < k
    <3>1. i \in 1..k - 1 /\ i <= k - 1 BY <1>1, <2>1
    <3> QED BY <1>2, <1>5, <1>6, <2>1, <3>1
  <2>2. CASE ~(i < k)
    <3>1. i - (k - 1) \in 1..Len(list) - k /\ k + (i - (k - 1)) = i + 1 /\ ~(i <= k - 1)
      BY <1>1, <2>2
    <3> QED BY <1>3, <1>5, <1>6, <2>2, <3>1
  <2> QED BY <2>1, <2>2
<1> QED BY <1>4, <1>5, <1>6, <1>7

\* Unlinking (sleep_remove, waitq_remove) removes the element, and only it.
LEMMA WithoutFacts ==
    ASSUME NEW S, NEW list \in Seq(S), NEW x, Once(list)
    PROVE  /\ Without(list, x) \in Seq(S)
           /\ Once(Without(list, x))
           /\ \A y : On(Without(list, x), y) <=> On(list, y) /\ y # x
<1>1. CASE ~On(list, x)
  BY <1>1 DEF Without, On
<1>2. CASE On(list, x)
  <2> DEFINE k == CHOOSE n \in 1..Len(list) : list[n] = x
             new == UnlinkAt(list, k)
  <2>1. k \in 1..Len(list) /\ list[k] = x
    BY <1>2 DEF On
  <2>2. Without(list, x) = new
    BY <1>2 DEF Without, On
  <2> HIDE DEF k
  <2>3. /\ new \in Seq(S) /\ Len(new) = Len(list) - 1
        /\ \A i \in 1..Len(list) - 1 : new[i] = IF i < k THEN list[i] ELSE list[i + 1]
    BY <2>1, RemoveElements
  <2>4. Len(list) \in Nat
    BY LenProperties
  <2> HIDE DEF new
  <2> DEFINE at(n) == IF n < k THEN n ELSE n + 1
  <2>5. \A n \in 1..Len(new) : at(n) \in 1..Len(list) /\ at(n) # k /\ new[n] = list[at(n)]
    BY <2>1, <2>3, <2>4
  <2>6. Once(new)
    <3>1. ASSUME NEW i \in 1..Len(new), NEW j \in 1..Len(new), new[i] = new[j] PROVE i = j
      <4>1. at(i) = at(j) BY <2>5, <3>1 DEF Once
      <4> QED BY <2>1, <2>3, <2>4, <4>1
    <3> QED BY <3>1 DEF Once
  <2>7. ASSUME NEW y, On(new, y) PROVE On(list, y) /\ y # x
    BY <2>1, <2>5, <2>7 DEF On, Once
  <2>8. ASSUME NEW y, On(list, y), y # x PROVE On(new, y)
    <3>1. PICK i \in 1..Len(list) : list[i] = y BY <2>8 DEF On
    <3>2. i # k BY <2>1, <2>8, <3>1
    <3>3. CASE i < k
      <4>1. i \in 1..Len(list) - 1 BY <2>1, <2>4, <3>1, <3>3
      <4>2. new[i] = y BY <2>3, <3>1, <3>3, <4>1
      <4> QED BY <2>3, <4>1, <4>2 DEF On
    <3>4. CASE i > k
      <4>1. i - 1 \in 1..Len(list) - 1 /\ ~(i - 1 < k) /\ (i - 1) + 1 = i
        BY <2>1, <2>4, <3>1, <3>4
      <4>2. new[i - 1] = y BY <2>3, <3>1, <4>1
      <4> QED BY <2>3, <4>1, <4>2 DEF On
    <3> QED BY <2>1, <2>4, <3>1, <3>2, <3>3, <3>4
  <2> QED BY <2>2, <2>3, <2>6, <2>7, <2>8
<1> QED BY <1>1, <1>2

\* sleep_insert keeps the list sorted: x goes behind every element with a
\* key no larger than its own, and before the first with a larger one.
LEMMA InsertSorted ==
    ASSUME NEW S, NEW list \in Seq(S), NEW x \in S, NEW k \in 0..Len(list),
           NEW key \in [S -> Nat], NEW v \in Nat,
           SortedBy(list, key), ~On(list, x),
           \A i \in 1..k : key[list[i]] <= v,
           k < Len(list) => key[list[k + 1]] > v
    PROVE  SortedBy(LinkAt(list, k + 1, x), [key EXCEPT ![x] = v])
<1> DEFINE new == LinkAt(list, k + 1, x)
           nkey == [key EXCEPT ![x] = v]
<1>1. /\ new \in Seq(S) /\ Len(new) = Len(list) + 1
      /\ \A i \in 1..Len(list) + 1 :
            new[i] = IF i <= k THEN list[i] ELSE IF i = k + 1 THEN x ELSE list[i - 1]
  BY InsertElements
<1>2. Len(list) \in Nat /\ \A i \in 1..Len(list) : list[i] \in S
  BY LenProperties, ElementOfSeq
<1>3. nkey[x] = v
  OBVIOUS
<1>4. \A i \in 1..Len(list) : nkey[list[i]] = key[list[i]] /\ key[list[i]] \in Nat
  BY <1>2 DEF On
<1>5. \A i \in (k + 1)..Len(list) : key[list[i]] > v
  <2> SUFFICES ASSUME NEW i \in (k + 1)..Len(list) PROVE key[list[i]] > v
    OBVIOUS
  <2>1. k + 1 \in 1..Len(list) /\ k < Len(list) /\ i \in 1..Len(list) BY <1>2
  <2>2. key[list[k + 1]] > v BY <2>1
  <2>3. i = k + 1 \/ key[list[k + 1]] <= key[list[i]] BY <1>2, <2>1 DEF SortedBy
  <2> QED BY <1>4, <2>1, <2>2, <2>3
<1> HIDE DEF new, nkey
<1>6. ASSUME NEW i \in 1..Len(list) + 1, NEW j \in 1..Len(list) + 1, i < j
      PROVE  nkey[new[i]] <= nkey[new[j]]
  <2>1. CASE j <= k
    <3>1. i \in 1..Len(list) /\ j \in 1..Len(list) /\ i <= k BY <1>2, <1>6, <2>1
    <3>2. new[i] = list[i] /\ new[j] = list[j] BY <1>1, <2>1, <3>1
    <3> QED BY <1>4, <1>6, <3>1, <3>2 DEF SortedBy
  <2>2. CASE j = k + 1
    <3>1. i \in 1..k /\ i \in 1..Len(list) BY <1>2, <1>6, <2>2
    <3>2. new[i] = list[i] /\ new[j] = x BY <1>1, <1>2, <2>2, <3>1
    <3> QED BY <1>3, <1>4, <3>1, <3>2
  <2>3. CASE j > k + 1
    <3>1. PICK p \in 1..Len(list) : p = j - 1 /\ p \in (k + 1)..Len(list)
      BY <1>2, <2>3
    <3>2. new[j] = list[p] BY <1>1, <1>2, <2>3, <3>1
    <3>6. nkey[new[j]] = key[list[p]] BY <1>4, <3>2
    <3>3. CASE i <= k
      <4>1. i \in 1..Len(list) /\ i < p BY <1>2, <2>3, <3>1, <3>3
      <4>2. new[i] = list[i] BY <1>1, <3>3
      <4>3. nkey[new[i]] = key[list[i]] BY <1>4, <4>1, <4>2
      <4> QED BY <3>6, <4>1, <4>3 DEF SortedBy
    <3>4. CASE i = k + 1
      <4>1. new[i] = x BY <1>1, <1>2, <3>4
      <4>2. key[list[p]] > v BY <1>5, <3>1
      <4> QED BY <1>3, <1>4, <3>6, <4>1, <4>2
    <3>5. CASE i > k + 1
      <4>1. PICK q \in 1..Len(list) : q = i - 1 /\ q < p BY <1>2, <1>6, <3>1, <3>5
      <4>2. new[i] = list[q] BY <1>1, <1>2, <3>5, <4>1
      <4>3. nkey[new[i]] = key[list[q]] BY <1>4, <4>2
      <4> QED BY <3>6, <4>1, <4>3 DEF SortedBy
    <3> QED BY <1>2, <3>3, <3>4, <3>5
  <2> QED BY <1>2, <2>1, <2>2, <2>3
<1>7. SortedBy(new, nkey)
  BY <1>1, <1>6 DEF SortedBy
<1> QED BY <1>7 DEF new, nkey

\* Unlinking keeps the list sorted, whatever becomes of the key of the
\* element that left.
LEMMA WithoutSorted ==
    ASSUME NEW S, NEW list \in Seq(S), NEW x \in S, Once(list),
           NEW key \in [S -> Nat], NEW v \in Nat, SortedBy(list, key)
    PROVE  SortedBy(Without(list, x), [key EXCEPT ![x] = v])
<1> DEFINE nkey == [key EXCEPT ![x] = v]
<1>0. Len(list) \in Nat
  BY LenProperties
<1>1. \A i \in 1..Len(list) : list[i] \in S
  BY ElementOfSeq
<1>2. CASE ~On(list, x)
  <2>1. Without(list, x) = list BY <1>2 DEF Without, On
  <2>2. \A i \in 1..Len(list) : nkey[list[i]] = key[list[i]] BY <1>1, <1>2 DEF On
  <2> QED BY <2>1, <2>2 DEF SortedBy
<1>3. CASE On(list, x)
  <2> DEFINE k == CHOOSE n \in 1..Len(list) : list[n] = x
             new == UnlinkAt(list, k)
  <2>1. k \in 1..Len(list) /\ list[k] = x
    BY <1>3 DEF On
  <2>2. Without(list, x) = new
    BY <1>3 DEF Without, On
  <2> HIDE DEF k
  <2>3. /\ new \in Seq(S) /\ Len(new) = Len(list) - 1
        /\ \A i \in 1..Len(list) - 1 : new[i] = IF i < k THEN list[i] ELSE list[i + 1]
    BY <2>1, RemoveElements
  <2> HIDE DEF new
  <2> DEFINE at(n) == IF n < k THEN n ELSE n + 1
  <2>4. \A n \in 1..Len(new) : at(n) \in 1..Len(list) /\ at(n) # k /\ new[n] = list[at(n)]
    <3> SUFFICES ASSUME NEW n \in 1..Len(new)
                 PROVE  at(n) \in 1..Len(list) /\ at(n) # k /\ new[n] = list[at(n)]
      OBVIOUS
    <3>1. n \in 1..Len(list) - 1 BY <2>3
    <3>2. CASE n < k
      <4>1. new[n] = list[n] BY <2>3, <3>1, <3>2
      <4>2. n \in 1..Len(list) /\ n # k BY <1>0, <2>1, <3>1, <3>2
      <4> QED BY <3>2, <4>1, <4>2
    <3>3. CASE ~(n < k)
      <4>1. new[n] = list[n + 1] BY <2>3, <3>1, <3>3
      <4>2. n + 1 \in 1..Len(list) /\ n + 1 # k BY <1>0, <2>1, <3>1, <3>3
      <4> QED BY <3>3, <4>1, <4>2
    <3> QED BY <3>2, <3>3
  <2>5. \A n \in 1..Len(new) : new[n] # x /\ new[n] \in S
    BY <1>1, <2>1, <2>4 DEF Once
  <2>6. \A n \in 1..Len(new) : nkey[new[n]] = key[list[at(n)]]
    BY <2>4, <2>5
  <2>7. ASSUME NEW i \in 1..Len(new), NEW j \in 1..Len(new), i < j
        PROVE  nkey[new[i]] <= nkey[new[j]]
    <3>1. at(i) < at(j)
      <4>1. i \in Int /\ j \in Int /\ k \in Int BY <1>0, <2>1, <2>3
      <4> QED BY <2>7, <4>1
    <3>2. key[list[at(i)]] <= key[list[at(j)]] BY <2>4, <3>1 DEF SortedBy
    <3> QED BY <2>6, <3>2
  <2> QED BY <2>2, <2>7 DEF SortedBy
<1> QED BY <1>2, <1>3

\* Taking the head off the sleep list is unlinking it.
LEMMA TailIsWithout ==
    ASSUME NEW S, NEW list \in Seq(S), list # <<>>, Once(list)
    PROVE  Tail(list) = Without(list, Head(list))
<1>1. /\ Head(list) \in S /\ Tail(list) \in Seq(S) /\ Len(Tail(list)) = Len(list) - 1
      /\ \A i \in 1..Len(Tail(list)) : Tail(list)[i] = list[i + 1]
  BY HeadTailProperties
<1>2. Len(list) \in Nat \ {0} /\ Head(list) = list[1]
  BY EmptySeq, LenProperties
<1>3. 1 \in 1..Len(list) /\ (CHOOSE k \in 1..Len(list) : list[k] = Head(list)) = 1
  BY <1>2 DEF Once
<1>4. Without(list, Head(list)) = UnlinkAt(list, 1)
  BY <1>2, <1>3 DEF Without, On
<1>5. /\ UnlinkAt(list, 1) \in Seq(S) /\ Len(UnlinkAt(list, 1)) = Len(list) - 1
      /\ \A i \in 1..Len(list) - 1 : UnlinkAt(list, 1)[i] = IF i < 1 THEN list[i] ELSE list[i + 1]
  BY <1>3, RemoveElements
<1>6. \A i \in 1..Len(Tail(list)) : UnlinkAt(list, 1)[i] = Tail(list)[i]
  BY <1>1, <1>2, <1>5
<1> QED BY <1>1, <1>4, <1>5, <1>6, SeqEqual
=============================================================================
