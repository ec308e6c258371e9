------------------------------ MODULE LineLemmas ------------------------------
(* What happens to a sequence without repetitions when an element joins it   *)
(* at its end or leaves it: a line of waiters, a stack of idle sessions.     *)
EXTENDS Sequences, SequencesExt, TLAPS

(* Head and Tail. *)
LEMMA LineLeft ==
  ASSUME NEW S, NEW w \in Seq(S), w # << >>, IsInjective(w)
  PROVE  /\ Head(w) \in S /\ Head(w) \in ToSet(w)
         /\ Tail(w) \in Seq(S) /\ IsInjective(Tail(w))
         /\ ToSet(Tail(w)) = ToSet(w) \ {Head(w)}
<1>1. /\ Len(w) \in Nat \ {0} /\ DOMAIN w = 1 .. Len(w)
      /\ Tail(w) \in Seq(S) /\ DOMAIN Tail(w) = 1 .. Len(w) - 1
      /\ \A i \in 1 .. Len(w) - 1 : Tail(w)[i] = w[i + 1]
      /\ Head(w) = w[1] /\ w[1] \in S
  OBVIOUS
<1>2. \A i, j \in 1 .. Len(w) : w[i] = w[j] => i = j
  BY <1>1 DEF IsInjective
<1>3. IsInjective(Tail(w))
  BY <1>1, <1>2 DEF IsInjective
<1>4. ToSet(Tail(w)) = ToSet(w) \ {Head(w)}
  <2>1. ASSUME NEW x \in ToSet(Tail(w)) PROVE x \in ToSet(w) \ {Head(w)}
    <3>1. PICK i \in 1 .. Len(w) - 1 : x = w[i + 1]
      BY <1>1, <2>1 DEF ToSet
    <3> QED
      BY <1>1, <1>2, <3>1 DEF ToSet
  <2>2. ASSUME NEW x \in ToSet(w) \ {Head(w)} PROVE x \in ToSet(Tail(w))
    <3>1. PICK i \in 1 .. Len(w) : x = w[i] /\ i # 1
      BY <1>1, <2>2 DEF ToSet
    <3>2. i - 1 \in DOMAIN Tail(w) /\ Tail(w)[i - 1] = x
      BY <1>1, <3>1
    <3> QED
      BY <3>2 DEF ToSet
  <2> QED
    BY <2>1, <2>2
<1> QED
  BY <1>1, <1>3, <1>4 DEF ToSet

(* Append. *)
LEMMA LineJoined ==
  ASSUME NEW S, NEW w \in Seq(S), IsInjective(w), NEW x \in S, x \notin ToSet(w)
  PROVE  /\ Append(w, x) \in Seq(S) /\ IsInjective(Append(w, x))
         /\ ToSet(Append(w, x)) = ToSet(w) \cup {x}
         /\ Append(w, x) # << >> /\ Last(Append(w, x)) = x
<1> DEFINE v == Append(w, x)
<1>1. /\ Len(w) \in Nat /\ DOMAIN w = 1 .. Len(w)
      /\ v \in Seq(S) /\ Len(v) = Len(w) + 1 /\ DOMAIN v = 1 .. Len(w) + 1
      /\ \A i \in 1 .. Len(w) : v[i] = w[i]
      /\ v[Len(w) + 1] = x
  OBVIOUS
<1>2. \A i, j \in 1 .. Len(w) : w[i] = w[j] => i = j
  BY <1>1 DEF IsInjective
<1>3. \A i \in 1 .. Len(w) : w[i] # x
  BY <1>1 DEF ToSet
<1> HIDE DEF v
<1>4. IsInjective(v)
  <2> SUFFICES ASSUME NEW i \in 1 .. Len(w) + 1, NEW j \in 1 .. Len(w) + 1, v[i] = v[j]
               PROVE  i = j
    BY <1>1 DEF IsInjective
  <2>1. (i \in 1 .. Len(w) \/ i = Len(w) + 1) /\ (j \in 1 .. Len(w) \/ j = Len(w) + 1)
    BY <1>1
  <2> QED
    BY <1>1, <1>2, <1>3, <2>1
<1>5. ToSet(v) = ToSet(w) \cup {x}
  <2>1. ASSUME NEW y \in ToSet(v) PROVE y \in ToSet(w) \cup {x}
    <3>1. PICK i \in 1 .. Len(w) + 1 : y = v[i]
      BY <1>1, <2>1 DEF ToSet
    <3>2. i \in 1 .. Len(w) \/ i = Len(w) + 1
      BY <1>1
    <3> QED
      BY <1>1, <3>1, <3>2 DEF ToSet
  <2>2. ASSUME NEW y \in ToSet(w) PROVE y \in ToSet(v)
    <3>1. PICK i \in 1 .. Len(w) : y = w[i]
      BY <1>1, <2>2 DEF ToSet
    <3>2. i \in DOMAIN v /\ v[i] = y
      BY <1>1, <3>1
    <3> QED
      BY <3>2 DEF ToSet
  <2>3. Len(w) + 1 \in DOMAIN v /\ v[Len(w) + 1] = x
    BY <1>1
  <2> QED
    BY <2>1, <2>2, <2>3 DEF ToSet
<1>6. v # << >> /\ Last(v) = x
  BY <1>1 DEF Last
<1> QED
  BY <1>1, <1>4, <1>5, <1>6 DEF v

(* Where the second half of a concatenation is. *)
LEMMA Joined ==
  ASSUME NEW S, NEW a \in Seq(S), NEW b \in Seq(S),
         NEW j \in Len(a) + 1 .. Len(a) + Len(b)
  PROVE  (a \o b)[j] = b[j - Len(a)]
  OBVIOUS

(* RemoveAt: the order of the others stays, and so does the last of them. *)
LEMMA LineRemoved ==
  ASSUME NEW S, NEW w \in Seq(S), IsInjective(w), NEW i \in DOMAIN w
  PROVE  /\ RemoveAt(w, i) \in Seq(S) /\ IsInjective(RemoveAt(w, i))
         /\ ToSet(RemoveAt(w, i)) = ToSet(w) \ {w[i]}
         /\ w[i] # Last(w) => RemoveAt(w, i) # << >> /\ Last(RemoveAt(w, i)) = Last(w)
<1> DEFINE v == RemoveAt(w, i)
           n == Len(w)
<1>1. n \in Nat /\ DOMAIN w = 1 .. n /\ i \in 1 .. n /\ \A j \in 1 .. n : w[j] \in S
  OBVIOUS
<1>2. \A j, k \in 1 .. n : w[j] = w[k] => j = k
  BY <1>1 DEF IsInjective
<1>3. v = SubSeq(w, 1, i - 1) \o SubSeq(w, i + 1, n)
  BY DEF RemoveAt
<1>4. /\ SubSeq(w, 1, i - 1) \in Seq(S) /\ Len(SubSeq(w, 1, i - 1)) = i - 1
      /\ \A j \in 1 .. i - 1 : SubSeq(w, 1, i - 1)[j] = w[j]
  BY <1>1
<1>5. /\ SubSeq(w, i + 1, n) \in Seq(S) /\ Len(SubSeq(w, i + 1, n)) = n - i
      /\ \A j \in 1 .. n - i : SubSeq(w, i + 1, n)[j] = w[i + j]
  BY <1>1
<1> HIDE DEF v, n
<1>6. /\ v \in Seq(S) /\ Len(v) = n - 1 /\ DOMAIN v = 1 .. n - 1
      /\ \A j \in 1 .. i - 1 : v[j] = w[j]
      /\ \A j \in i .. n - 1 : v[j] = w[j + 1]
  <2>1. v \in Seq(S) /\ Len(v) = n - 1 /\ DOMAIN v = 1 .. n - 1
    BY <1>1, <1>3, <1>4, <1>5
  <2>2. ASSUME NEW j \in 1 .. i - 1 PROVE v[j] = w[j]
    BY <1>1, <1>3, <1>4, <1>5, <2>2
  <2>3. ASSUME NEW j \in i .. n - 1 PROVE v[j] = w[j + 1]
    <3> DEFINE a == SubSeq(w, 1, i - 1)
               b == SubSeq(w, i + 1, n)
    <3>0. v = a \o b /\ a \in Seq(S) /\ b \in Seq(S) /\ Len(a) = i - 1 /\ Len(b) = n - i
      BY <1>3, <1>4, <1>5
    <3> HIDE DEF a, b
    <3>a. j \in Len(a) + 1 .. Len(a) + Len(b)
      BY <1>1, <2>3, <3>0
    <3>b. (a \o b)[j] = b[j - Len(a)]
      BY <3>0, <3>a, Joined
    <3>1. v[j] = b[j - (i - 1)]
      BY <3>0, <3>b
    <3>2. j - (i - 1) \in 1 .. n - i /\ i + (j - (i - 1)) = j + 1
      BY <1>1, <2>3
    <3> QED
      BY <1>5, <3>1, <3>2 DEF b
  <2> QED
    BY <2>1, <2>2, <2>3
<1>7. \A j \in 1 .. n - 1 : \/ j \in 1 .. i - 1 /\ v[j] = w[j]
                            \/ j \in i .. n - 1 /\ j + 1 \in 1 .. n /\ v[j] = w[j + 1]
  BY <1>1, <1>6
<1>8. IsInjective(v)
  <2> SUFFICES ASSUME NEW j \in 1 .. n - 1, NEW k \in 1 .. n - 1, v[j] = v[k]
               PROVE  j = k
    BY <1>6 DEF IsInjective
  <2> QED
    BY <1>1, <1>2, <1>7
<1>9. ToSet(v) = ToSet(w) \ {w[i]}
  <2>1. ASSUME NEW x \in ToSet(v) PROVE x \in ToSet(w) \ {w[i]}
    <3>1. PICK j \in 1 .. n - 1 : x = v[j]
      BY <1>6, <2>1 DEF ToSet
    <3>2. PICK k \in 1 .. n : x = w[k] /\ k # i
      BY <1>1, <1>7, <3>1
    <3> QED
      BY <1>1, <1>2, <3>2 DEF ToSet
  <2>2. ASSUME NEW x \in ToSet(w) \ {w[i]} PROVE x \in ToSet(v)
    <3>1. PICK j \in 1 .. n : x = w[j] /\ j # i
      BY <1>1, <2>2 DEF ToSet
    <3>2. CASE j < i
      BY <1>1, <1>6, <3>1, <3>2 DEF ToSet
    <3>3. CASE j > i
      <4>1. j - 1 \in DOMAIN v /\ v[j - 1] = w[j]
        BY <1>1, <1>6, <3>1, <3>3
      <4> QED
        BY <3>1, <4>1 DEF ToSet
    <3> QED
      BY <1>1, <3>1, <3>2, <3>3
  <2> QED
    BY <2>1, <2>2
<1>10. ASSUME w[i] # Last(w) PROVE v # << >> /\ Last(v) = Last(w)
  <2>1. i < n /\ Last(w) = w[n]
    BY <1>1, <1>10 DEF Last, n
  <2> QED
    BY <1>1, <1>6, <2>1 DEF Last
<1> QED
  BY <1>6, <1>8, <1>9, <1>10 DEF v

(* Front and Last. *)
LEMMA LinePopped ==
  ASSUME NEW S, NEW w \in Seq(S), w # << >>, IsInjective(w)
  PROVE  /\ Last(w) \in S /\ Last(w) \in ToSet(w)
         /\ Front(w) \in Seq(S) /\ IsInjective(Front(w))
         /\ ToSet(Front(w)) = ToSet(w) \ {Last(w)}
<1> DEFINE n == Len(w)
<1>1. n \in Nat \ {0} /\ DOMAIN w = 1 .. n /\ n \in DOMAIN w /\ w[n] \in S
  OBVIOUS
<1>2. /\ Front(w) \in Seq(S) /\ Len(Front(w)) = n - 1 /\ DOMAIN Front(w) = 1 .. n - 1
      /\ \A j \in 1 .. n - 1 : Front(w)[j] = w[j]
  BY <1>1 DEF Front
<1>3. Last(w) = w[n]
  BY DEF Last
<1>4. \A j, k \in 1 .. n : w[j] = w[k] => j = k
  BY <1>1 DEF IsInjective
<1> HIDE DEF n
<1>5. IsInjective(Front(w))
  BY <1>1, <1>2, <1>4 DEF IsInjective
<1>6. ToSet(Front(w)) = ToSet(w) \ {Last(w)}
  <2>1. ASSUME NEW x \in ToSet(Front(w)) PROVE x \in ToSet(w) \ {Last(w)}
    <3>1. PICK j \in 1 .. n - 1 : x = w[j]
      BY <1>2, <2>1 DEF ToSet
    <3> QED
      BY <1>1, <1>3, <1>4, <3>1 DEF ToSet
  <2>2. ASSUME NEW x \in ToSet(w) \ {Last(w)} PROVE x \in ToSet(Front(w))
    <3>1. PICK j \in 1 .. n : x = w[j] /\ j # n
      BY <1>1, <1>3, <2>2 DEF ToSet
    <3>2. j \in DOMAIN Front(w) /\ Front(w)[j] = x
      BY <1>1, <1>2, <3>1
    <3> QED
      BY <3>2 DEF ToSet
  <2> QED
    BY <2>1, <2>2
<1> QED
  BY <1>1, <1>2, <1>3, <1>5, <1>6 DEF ToSet
=============================================================================
