---------------------------- MODULE SequenceLemmas ----------------------------
(* Lists without repetitions, of which entries are added and taken away. *)
EXTENDS Integers, Sequences, SequencesExt, SequenceTheorems, TLAPS

\* TailOfSeq: what Tail does to a sequence.
LEMMA TailOfSeq ==
  ASSUME NEW S, NEW s \in Seq(S), s # << >>
  PROVE  /\ Tail(s) \in Seq(S) /\ Head(s) = s[1] /\ s[1] \in S
         /\ Len(s) \in Nat \ {0} /\ DOMAIN s = 1 .. Len(s)
         /\ Len(Tail(s)) = Len(s) - 1 /\ DOMAIN Tail(s) = 1 .. Len(s) - 1
         /\ \A k \in 1 .. Len(s) - 1 : Tail(s)[k] = s[k + 1]
  OBVIOUS

\* FrontOfSeq: what a new first element does to a sequence.
LEMMA FrontOfSeq ==
  ASSUME NEW S, NEW s \in Seq(S), NEW e \in S
  PROVE  /\ <<e>> \o s \in Seq(S) /\ <<e>> \o s # << >> /\ (<<e>> \o s)[1] = e
         /\ Tail(<<e>> \o s) = s
OBVIOUS

\* TailOfList: if all elements of a sequence differ, Tail takes away the head
\* and nothing else.
LEMMA TailOfList ==
  ASSUME NEW S, NEW s \in Seq(S), s # << >>, IsInjective(s)
  PROVE  /\ IsInjective(Tail(s))
         /\ {Tail(s)[k] : k \in DOMAIN Tail(s)} = {s[k] : k \in DOMAIN s} \ {Head(s)}
<1>1. /\ Head(s) = s[1] /\ Len(s) \in Nat \ {0} /\ DOMAIN s = 1 .. Len(s)
      /\ DOMAIN Tail(s) = 1 .. Len(s) - 1
      /\ \A k \in 1 .. Len(s) - 1 : Tail(s)[k] = s[k + 1]
  BY TailOfSeq
<1>2. \A j, k \in 1 .. Len(s) : s[j] = s[k] => j = k
  BY <1>1 DEF IsInjective
<1>3. \A k \in 1 .. Len(s) - 1 : k + 1 \in 1 .. Len(s) /\ k + 1 # 1
  BY <1>1
<1>4. \A j, k \in 1 .. Len(s) - 1 : j + 1 = k + 1 => j = k
  OBVIOUS
<1>5. IsInjective(Tail(s))
  BY <1>1, <1>2, <1>3, <1>4 DEF IsInjective
<1>6. \A k \in 1 .. Len(s) : s[k] # s[1] => k - 1 \in 1 .. Len(s) - 1 /\ Tail(s)[k - 1] = s[k]
  BY <1>1
<1>7. {Tail(s)[k] : k \in DOMAIN Tail(s)} = {s[k] : k \in DOMAIN s} \ {s[1]}
  <2>1. ASSUME NEW k \in DOMAIN Tail(s)
        PROVE  Tail(s)[k] \in {s[j] : j \in DOMAIN s} \ {s[1]}
    BY <1>1, <1>2, <1>3, <2>1
  <2>2. ASSUME NEW k \in DOMAIN s, s[k] # s[1]
        PROVE  s[k] \in {Tail(s)[j] : j \in DOMAIN Tail(s)}
    BY <1>1, <1>6, <2>2
  <2> QED BY <2>1, <2>2
<1> QED BY <1>1, <1>5, <1>7

\* RemoveAtOfList: RemoveAt takes away its element and nothing else.
LEMMA RemoveAtOfList ==
  ASSUME NEW S, NEW s \in Seq(S), NEW n \in 1 .. Len(s), IsInjective(s)
  PROVE  /\ RemoveAt(s, n) \in Seq(S)
         /\ IsInjective(RemoveAt(s, n))
         /\ {RemoveAt(s, n)[k] : k \in DOMAIN RemoveAt(s, n)} = {s[k] : k \in DOMAIN s} \ {s[n]}
<1> DEFINE r == RemoveAt(s, n)
           Old(k) == IF k < n THEN k ELSE k + 1
           New(k) == IF k < n THEN k ELSE k - 1
<1>1. Len(s) \in Nat /\ DOMAIN s = 1 .. Len(s) /\ \A k \in 1 .. Len(s) : s[k] \in S
  OBVIOUS
<1>2. /\ SubSeq(s, 1, n - 1) \in Seq(S) /\ Len(SubSeq(s, 1, n - 1)) = n - 1
      /\ \A k \in 1 .. n - 1 : SubSeq(s, 1, n - 1)[k] = s[k]
  <2>1. \A k \in 1 .. n - 1 : s[k] \in S BY <1>1
  <2> QED BY <1>1, <2>1, SubSeqProperties
<1>3. /\ SubSeq(s, n + 1, Len(s)) \in Seq(S) /\ Len(SubSeq(s, n + 1, Len(s))) = Len(s) - n
      /\ \A k \in 1 .. Len(s) - n : SubSeq(s, n + 1, Len(s))[k] = s[n + k]
  <2>1. \A k \in n + 1 .. Len(s) : s[k] \in S BY <1>1
  <2>2. /\ SubSeq(s, n + 1, Len(s)) \in Seq(S)
        /\ Len(SubSeq(s, n + 1, Len(s))) = IF n + 1 <= Len(s) THEN Len(s) - (n + 1) + 1 ELSE 0
        /\ \A k \in 1 .. Len(s) - (n + 1) + 1 : SubSeq(s, n + 1, Len(s))[k] = s[n + 1 + k - 1]
    <3>1. n + 1 \in Int /\ Len(s) \in Int BY <1>1
    <3> DEFINE m == n + 1  e == Len(s)
    <3>2. m \in Int /\ e \in Int /\ \A k \in m .. e : s[k] \in S BY <2>1, <3>1
    <3> HIDE DEF m, e
    <3>3. /\ SubSeq(s, m, e) \in Seq(S)
          /\ Len(SubSeq(s, m, e)) = IF m <= e THEN e - m + 1 ELSE 0
          /\ \A k \in 1 .. e - m + 1 : SubSeq(s, m, e)[k] = s[m + k - 1]
      BY <3>2, SubSeqProperties
    <3> QED BY <3>3 DEF m, e
  <2>3. Len(s) - (n + 1) + 1 = Len(s) - n BY <1>1
  <2>4. \A k \in 1 .. Len(s) - n : n + 1 + k - 1 = n + k BY <1>1
  <2>5. (IF n + 1 <= Len(s) THEN Len(s) - (n + 1) + 1 ELSE 0) = Len(s) - n
    <3>1. n \in Int /\ n <= Len(s) /\ Len(s) \in Int BY <1>1
    <3>2. CASE n + 1 <= Len(s) BY <3>1, <3>2
    <3>3. CASE ~(n + 1 <= Len(s))
      <4>1. n = Len(s) BY <3>1, <3>3
      <4> QED BY <3>1, <3>3, <4>1
    <3> QED BY <3>2, <3>3
  <2>6. \A k \in 1 .. Len(s) - n : SubSeq(s, n + 1, Len(s))[k] = s[n + k]
    BY <2>2, <2>3, <2>4
  <2> QED BY <2>2, <2>5, <2>6
<1>4. /\ r \in Seq(S) /\ Len(r) = Len(s) - 1 /\ DOMAIN r = 1 .. Len(s) - 1
      /\ \A k \in 1 .. Len(s) - 1 : r[k] = s[Old(k)]
  <2> DEFINE a == SubSeq(s, 1, n - 1)  b == SubSeq(s, n + 1, Len(s))
  <2>1. r = a \o b BY DEF RemoveAt
  <2>2. /\ a \in Seq(S) /\ Len(a) = n - 1 /\ \A k \in 1 .. n - 1 : a[k] = s[k]
        /\ b \in Seq(S) /\ Len(b) = Len(s) - n /\ \A k \in 1 .. Len(s) - n : b[k] = s[n + k]
    BY <1>2, <1>3
  <2> HIDE DEF a, b, r
  <2>3. /\ r \in Seq(S) /\ Len(r) = Len(a) + Len(b)
        /\ \A k \in 1 .. Len(a) + Len(b) : r[k] = IF k <= Len(a) THEN a[k] ELSE b[k - Len(a)]
    BY <2>1, <2>2, ConcatProperties, Zenon
  <2>4. Len(r) = Len(s) - 1 /\ DOMAIN r = 1 .. Len(s) - 1
    BY <1>1, <2>2, <2>3
  <2>5. ASSUME NEW k \in 1 .. Len(s) - 1, k < n PROVE r[k] = s[Old(k)]
    <3>1. k \in 1 .. Len(a) + Len(b) /\ k <= Len(a) /\ k \in 1 .. n - 1
      BY <1>1, <2>2, <2>5
    <3> QED BY <2>2, <2>3, <2>5, <3>1
  <2>6. ASSUME NEW k \in 1 .. Len(s) - 1, ~(k < n) PROVE r[k] = s[Old(k)]
    <3>1. k \in 1 .. Len(a) + Len(b) /\ ~(k <= Len(a)) /\ k - Len(a) = k - n + 1
      BY <1>1, <2>2, <2>6
    <3>2. k - n + 1 \in 1 .. Len(s) - n /\ n + (k - n + 1) = k + 1
      BY <1>1, <2>6
    <3>3. r[k] = b[k - n + 1] BY <2>3, <3>1
    <3>4. b[k - n + 1] = s[k + 1] BY <2>2, <3>2
    <3> QED BY <2>6, <3>3, <3>4
  <2> QED BY <2>3, <2>4, <2>5, <2>6
<1>5. \A k \in 1 .. Len(s) - 1 : Old(k) \in 1 .. Len(s) /\ Old(k) # n
  BY <1>1
<1>6. \A j, k \in 1 .. Len(s) - 1 : Old(j) = Old(k) => j = k
  BY <1>1
<1>7. \A k \in 1 .. Len(s) : k # n => New(k) \in 1 .. Len(s) - 1 /\ Old(New(k)) = k
  BY <1>1
<1>8. \A j, k \in 1 .. Len(s) : s[j] = s[k] => j = k
  BY <1>1 DEF IsInjective
<1> HIDE DEF r, Old, New
<1>9. ASSUME NEW j \in DOMAIN r, NEW k \in DOMAIN r, r[j] = r[k]
      PROVE  j = k
  <2>1. j \in 1 .. Len(s) - 1 /\ k \in 1 .. Len(s) - 1
    BY <1>4
  <2>2. r[j] = s[Old(j)] /\ r[k] = s[Old(k)]
    BY <1>4, <2>1
  <2>3. Old(j) \in 1 .. Len(s) /\ Old(k) \in 1 .. Len(s)
    BY <1>5, <2>1
  <2>4. Old(j) = Old(k)
    BY <1>8, <1>9, <2>2, <2>3
  <2> QED BY <1>6, <2>1, <2>4
<1>10. {r[k] : k \in DOMAIN r} = {s[k] : k \in DOMAIN s} \ {s[n]}
  <2>1. ASSUME NEW k \in DOMAIN r PROVE r[k] \in {s[j] : j \in DOMAIN s} \ {s[n]}
    <3>1. k \in 1 .. Len(s) - 1 /\ r[k] = s[Old(k)] BY <1>4, <2>1
    <3>2. Old(k) \in 1 .. Len(s) /\ Old(k) # n BY <1>5, <3>1
    <3>3. n \in 1 .. Len(s) BY <1>1
    <3>4. s[Old(k)] # s[n] BY <1>8, <3>2, <3>3
    <3> QED BY <1>1, <3>1, <3>2, <3>4
  <2>2. ASSUME NEW k \in DOMAIN s, s[k] # s[n] PROVE s[k] \in {r[j] : j \in DOMAIN r}
    <3>1. New(k) \in DOMAIN r /\ r[New(k)] = s[k] BY <1>1, <1>4, <1>7, <2>2
    <3> QED BY <3>1
  <2> QED BY <2>1, <2>2
<1> QED BY <1>4, <1>9, <1>10 DEF IsInjective, r

\* ConsOfList: a new element before a list.
LEMMA ConsOfList ==
  ASSUME NEW S, NEW s \in Seq(S), NEW e \in S, IsInjective(s), e \notin Range(s)
  PROVE  /\ <<e>> \o s \in Seq(S)
         /\ IsInjective(<<e>> \o s)
         /\ Range(<<e>> \o s) = Range(s) \cup {e}
<1> DEFINE r == <<e>> \o s
<1>1. Len(s) \in Nat /\ DOMAIN s = 1 .. Len(s) /\ \A k \in 1 .. Len(s) : s[k] \in S
  OBVIOUS
<1>2. /\ r \in Seq(S) /\ Len(r) = Len(s) + 1 /\ DOMAIN r = 1 .. Len(s) + 1
      /\ \A k \in 1 .. Len(s) + 1 : r[k] = IF k = 1 THEN e ELSE s[k - 1]
  OBVIOUS
<1> HIDE DEF r
<1>3. \A j, k \in 1 .. Len(s) : s[j] = s[k] => j = k
  BY <1>1 DEF IsInjective
<1>4. \A k \in 1 .. Len(s) : s[k] # e
  BY <1>1 DEF Range
<1>5. ASSUME NEW j \in DOMAIN r, NEW k \in DOMAIN r, r[j] = r[k] PROVE j = k
  <2>1. \A i \in 1 .. Len(s) + 1 : i = 1 \/ i - 1 \in 1 .. Len(s)
    BY <1>1
  <2>2. j \in 1 .. Len(s) + 1 /\ k \in 1 .. Len(s) + 1
    BY <1>2
  <2>3. CASE j = 1 \/ k = 1
    BY <1>2, <1>4, <1>5, <2>1, <2>2, <2>3
  <2>4. CASE j # 1 /\ k # 1
    <3>1. j - 1 \in 1 .. Len(s) /\ k - 1 \in 1 .. Len(s)
      BY <2>1, <2>2, <2>4
    <3>2. s[j - 1] = s[k - 1]
      BY <1>2, <1>5, <2>2, <2>4
    <3>3. j - 1 = k - 1
      BY <1>3, <3>1, <3>2
    <3> QED BY <2>2, <3>3
  <2> QED BY <2>3, <2>4
<1>6. Range(r) \subseteq Range(s) \cup {e}
  <2>1. ASSUME NEW i \in 1 .. Len(s) + 1
        PROVE  r[i] \in {s[k] : k \in DOMAIN s} \cup {e}
    <3>1. CASE i = 1
      BY <1>2, <3>1
    <3>2. CASE i # 1
      <4>1. i - 1 \in DOMAIN s BY <1>1, <3>2
      <4>2. r[i] = s[i - 1] BY <1>2, <3>2
      <4> QED BY <4>1, <4>2
    <3> QED BY <3>1, <3>2
  <2> QED BY <1>2, <2>1 DEF Range
<1>7. Range(s) \cup {e} \subseteq Range(r)
  <2>1. \A i \in 1 .. Len(s) : i + 1 \in DOMAIN r /\ r[i + 1] = s[i]
    BY <1>1, <1>2
  <2>2. 1 \in DOMAIN r /\ r[1] = e
    BY <1>1, <1>2
  <2>3. \A i \in DOMAIN s : s[i] \in Range(r)
    BY <1>1, <2>1 DEF Range
  <2>4. e \in Range(r)
    BY <2>2 DEF Range
  <2> QED BY <2>3, <2>4 DEF Range
<1> QED BY <1>2, <1>5, <1>6, <1>7 DEF IsInjective, r

\* AppendOfList: a new element after a list.
LEMMA AppendOfList ==
  ASSUME NEW S, NEW s \in Seq(S), NEW e \in S, IsInjective(s), e \notin Range(s)
  PROVE  /\ Append(s, e) \in Seq(S)
         /\ IsInjective(Append(s, e))
         /\ Range(Append(s, e)) = Range(s) \cup {e}
<1> DEFINE r == Append(s, e)
<1>1. Len(s) \in Nat /\ DOMAIN s = 1 .. Len(s) /\ \A k \in 1 .. Len(s) : s[k] \in S
  OBVIOUS
<1>2. /\ r \in Seq(S) /\ Len(r) = Len(s) + 1 /\ DOMAIN r = 1 .. Len(s) + 1
      /\ r[Len(s) + 1] = e /\ \A k \in 1 .. Len(s) : r[k] = s[k]
  OBVIOUS
<1> HIDE DEF r
<1>3. \A j, k \in 1 .. Len(s) : s[j] = s[k] => j = k
  BY <1>1 DEF IsInjective
<1>4. \A k \in 1 .. Len(s) : s[k] # e
  BY <1>1 DEF Range
<1>5. \A i \in 1 .. Len(s) + 1 : i = Len(s) + 1 \/ i \in 1 .. Len(s)
  BY <1>1
<1>6. \A j, k \in DOMAIN r : r[j] = r[k] => j = k
  BY <1>1, <1>2, <1>3, <1>4, <1>5
<1>7. Range(r) = Range(s) \cup {e}
  BY <1>1, <1>2, <1>5 DEF Range
<1> QED BY <1>2, <1>6, <1>7 DEF IsInjective, r
=============================================================================
