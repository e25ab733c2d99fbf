------------------------- MODULE GroupEventsProofs --------------------------
(***************************************************************************)
(* What sortEvents, MergeMembershipUpdateEvents, ProcessEvents and         *)
(* newGroup of GroupChat.tla compute, for any accounts and events, by      *)
(* induction on the rounds of their loops: sorting orders the events and   *)
(* keeps them, merging unites them and keeps the order of those that were  *)
(* there (Embeds), and the members of a valid group are those whose last   *)
(* addition comes after their last removal (GroupMembers).                 *)
(***************************************************************************)
EXTENDS GroupFacts, WellFoundedInduction, FiniteSetTheorems, TLAPS

(* The contexts are large: more time than by default, and the SMT backend  *)
(* once more when its translation was cut off.                             *)
USE SMTT(30), ZenonT(30), Z3T(30), SMTT(40), Z3T(40)

(* A set of natural numbers has a least one. *)
LEMMA LeastNumber ==
  ASSUME NEW T, T \subseteq Nat, T # {}
  PROVE  \E n \in T : \A k \in T : n <= k
<1> DEFINE R == OpToRel(<, Nat)
<1>1. IsWellFoundedOn(R, Nat)
  BY NatLessThanWellFounded, Zenon
<1>2. \A k, n \in Nat : k < n => <<k, n>> \in R
  BY DEF OpToRel
<1> HIDE DEF R
<1>3. PICK n \in T : \A k \in T : ~(<<k, n>> \in R)
  BY <1>1, WFMin, Zenon
<1>4. \A k \in T : n <= k
  <2> TAKE k \in T
  <2>1. k \in Nat /\ n \in Nat
    BY <1>3
  <2>2. ~(k < n)
    BY <1>2, <1>3, <2>1, Zenon
  <2> QED BY <2>1, <2>2
<1> QED BY <1>4

(* Induction, for the set S of the numbers of which something holds. *)
LEMMA Induction ==
  ASSUME NEW S, 0 \in S, \A n \in Nat : n \in S => n + 1 \in S
  PROVE  Nat \subseteq S
<1> SUFFICES ASSUME Nat \ S # {} PROVE FALSE
  OBVIOUS
<1>1. PICK n \in Nat \ S : \A k \in Nat \ S : n <= k
  BY LeastNumber, Zenon
<1>2. n - 1 \in Nat /\ n - 1 \in S
  BY <1>1
<1> QED BY <1>1, <1>2

(* A loop of k rounds that starts with x; round n does G[n]. *)
IsLoop(f, X, k, G, x) ==
  /\ f \in [0..k -> X] /\ f[0] = x
  /\ \A n \in 1..k : f[n] = G[n][f[n - 1]]

(* There is a function of the values after each round. *)
LEMMA LoopValues ==
  ASSUME NEW X, NEW k \in Nat, NEW G \in [1..k -> [X -> X]], NEW x \in X
  PROVE  \E f : IsLoop(f, X, k, G, x)
<1> DEFINE Runs(j, f) == f[0] = x /\ \A n \in 1..j : f[n] = G[n][f[n - 1]]
           S == {j \in Nat : j <= k => \E f \in [0..j -> X] : Runs(j, f)}
<1>1. 0 \in S
  <2>1. [n \in 0..0 |-> x] \in [0..0 -> X] /\ Runs(0, [n \in 0..0 |-> x])
    OBVIOUS
  <2> QED BY <2>1, Zenon
<1>2. ASSUME NEW j \in Nat, j \in S PROVE j + 1 \in S
  <2> SUFFICES ASSUME j + 1 <= k PROVE \E f \in [0..(j + 1) -> X] : Runs(j + 1, f)
    OBVIOUS
  <2>1. PICK f \in [0..j -> X] : Runs(j, f)
    BY <1>2
  <2> DEFINE g == [n \in 0..(j + 1) |-> IF n <= j THEN f[n] ELSE G[j + 1][f[j]]]
  <2>2. f[j] \in X /\ j + 1 \in 1..k
    BY <2>1
  <2>3. G[j + 1][f[j]] \in X
    BY <2>2
  <2>4. g \in [0..(j + 1) -> X]
    BY <2>1, <2>3
  <2>5. g[0] = x /\ g[j + 1] = G[j + 1][f[j]] /\ \A n \in 0..j : g[n] = f[n]
    BY <2>1
  <2> HIDE DEF g
  <2>6. ASSUME NEW n \in 1..(j + 1) PROVE g[n] = G[n][g[n - 1]]
    <3>1. CASE n = j + 1
      BY <2>5, <3>1
    <3>2. CASE n \in 1..j
      BY <2>1, <2>5, <3>2
    <3> QED BY <3>1, <3>2
  <2> QED BY <2>4, <2>5, <2>6, Zenon
<1> HIDE DEF S
<1>3. k \in S
  BY <1>1, <1>2, Induction
<1> QED BY <1>3 DEF S, IsLoop
-----------------------------------------------------------------------------
(* The greatest of some numbers. *)
LEMMA MaxIsGreatest ==
  ASSUME NEW S, S \subseteq Nat, S # {}, NEW b \in Nat, \A k \in S : k <= b
  PROVE  Max(S) \in S /\ \A k \in S : k <= Max(S)
<1> DEFINE T == {b - k : k \in S}
<1>1. T \subseteq Nat /\ T # {}
  <2>1. \A k \in S : b - k \in Nat
    OBVIOUS
  <2> QED BY <2>1, Zenon
<1>2. PICK n \in T : \A k \in T : n <= k
  BY <1>1, LeastNumber, Zenon
<1>3. PICK m \in S : n = b - m
  BY <1>2
<1>4. \A k \in S : m >= k
  BY <1>2, <1>3
<1>5. Max(S) \in S /\ \A k \in S : Max(S) >= k
  BY <1>4, Zenon DEF Max
<1> QED BY <1>5

(* The events of a list are those at its positions. *)
LEMMA Elements ==
  ASSUME NEW s \in Seq(Events)
  PROVE  /\ Range(s) = {s[i] : i \in 1..Len(s)} /\ Range(s) \subseteq Events
         /\ Len(s) \in Nat /\ DOMAIN s = 1..Len(s)
         /\ \A i \in 1..Len(s) : s[i] \in Events /\ s[i].clock \in Nat
<1>1. Len(s) \in Nat /\ DOMAIN s = 1..Len(s) /\ \A i \in 1..Len(s) : s[i] \in Events
  OBVIOUS
<1>2. \A e \in Events : e.clock \in Nat
  BY DEF Events
<1> QED BY <1>1, <1>2 DEF Range

(* An event goes to a place p, before the later ones. *)
InsertedAt(p, s, e, t) ==
  /\ t \in Seq(Events) /\ Len(t) = Len(s) + 1
  /\ t[p] = e
  /\ \A i \in 1..(p - 1) : t[i] = s[i]
  /\ \A i \in (p + 1)..(Len(s) + 1) : t[i] = s[i - 1]
  /\ p > 1 => s[p - 1].clock <= e.clock
  /\ \A i \in p..Len(s) : e.clock < s[i].clock

(* insertEvent puts the event at one place and keeps the rest in order. *)
LEMMA InsertionPlace ==
  ASSUME NEW s \in Seq(Events), NEW e \in Events
  PROVE  \E p \in 1..(Len(s) + 1) : InsertedAt(p, s, e, insertEvent(s, e))
<1> DEFINE n == Len(s)
           OK(k) == /\ k < n => s[n - k].clock <= e.clock
                    /\ \A i \in (n - k + 1)..n : e.clock < s[i].clock
           later == CHOOSE k \in 0..n : OK(k)
           t == insertEvent(s, e)
<1>1. /\ n \in Nat /\ DOMAIN s = 1..n /\ e.clock \in Nat
      /\ \A i \in 1..n : s[i] \in Events /\ s[i].clock \in Nat
  BY Elements, Zenon DEF Events
<1> HIDE DEF n
<1>2. \E k \in 0..n : OK(k)
  <2> DEFINE T == {k \in 0..n : k < n => s[n - k].clock <= e.clock}
  <2>1. n \in T /\ T \subseteq Nat
    BY <1>1
  <2>2. PICK k \in T : \A j \in T : k <= j
    BY <2>1, LeastNumber, Zenon
  <2>3. ASSUME NEW i \in (n - k + 1)..n PROVE e.clock < s[i].clock
    <3>1. n - i \in 0..n /\ n - i < k /\ n - i < n /\ n - (n - i) = i /\ i \in 1..n
      BY <1>1, <2>2
    <3>2. n - i \notin T
      BY <2>2, <3>1
    <3>3. ~(s[i].clock <= e.clock)
      BY <3>1, <3>2
    <3> QED BY <1>1, <3>1, <3>3
  <2> QED BY <2>2, <2>3
<1>3. later \in 0..n /\ OK(later)
  BY <1>2
<1>4. t = SubSeq(s, 1, n - later) \o <<e>> \o SubSeq(s, n - later + 1, n)
  BY DEF insertEvent, n
<1> DEFINE p == n - later + 1
<1> HIDE DEF later, t
<1>5. p \in 1..(n + 1) /\ n - later = p - 1
  BY <1>1, <1>3
<1>6. (p > 1 => s[p - 1].clock <= e.clock) /\ \A i \in p..n : e.clock < s[i].clock
  BY <1>1, <1>3, <1>5
<1>7. t = SubSeq(s, 1, p - 1) \o <<e>> \o SubSeq(s, p, n)
  BY <1>4, <1>5, Zenon
<1> HIDE DEF p, OK
<1> DEFINE front == SubSeq(s, 1, p - 1)
           back == SubSeq(s, p, n)
<1>8. /\ front \in Seq(Events) /\ Len(front) = p - 1
      /\ \A i \in 1..(p - 1) : front[i] = s[i]
  BY <1>1, <1>5 DEF n
<1>9. /\ back \in Seq(Events) /\ Len(back) = n + 1 - p
      /\ \A i \in 1..(n + 1 - p) : back[i] = s[p + i - 1]
  BY <1>1, <1>5 DEF n
<1> HIDE DEF front, back
<1> DEFINE head == front \o <<e>>
<1>10. /\ head \in Seq(Events) /\ Len(head) = p /\ head[p] = e
       /\ \A i \in 1..(p - 1) : head[i] = s[i]
  BY <1>5, <1>8
<1>11. t = head \o back
  BY <1>7 DEF front, back
<1> HIDE DEF head
<1>12. /\ t \in Seq(Events) /\ Len(t) = n + 1
       /\ \A i \in 1..p : t[i] = head[i]
       /\ \A i \in (p + 1)..(n + 1) : t[i] = back[i - p]
  <2>1. /\ t \in Seq(Events) /\ Len(t) = Len(head) + Len(back)
        /\ \A i \in 1..(Len(head) + Len(back)) :
             t[i] = IF i <= Len(head) THEN head[i] ELSE back[i - Len(head)]
    BY <1>9, <1>10, <1>11
  <2>2. Len(head) + Len(back) = n + 1
    BY <1>1, <1>5, <1>9, <1>10
  <2>3. \A i \in 1..(n + 1) : t[i] = IF i <= p THEN head[i] ELSE back[i - p]
    BY <1>10, <2>1, <2>2
  <2>4. /\ \A i \in 1..p : i \in 1..(n + 1) /\ i <= p
        /\ \A i \in (p + 1)..(n + 1) : i \in 1..(n + 1) /\ ~(i <= p)
    BY <1>1, <1>5
  <2> QED BY <2>1, <2>2, <2>3, <2>4
<1>13. \A i \in (p + 1)..(n + 1) : t[i] = s[i - 1]
  <2> TAKE i \in (p + 1)..(n + 1)
  <2>1. i - p \in 1..(n + 1 - p) /\ p + (i - p) - 1 = i - 1
    BY <1>1, <1>5
  <2> QED BY <1>9, <1>12, <2>1
<1>14. \A i \in 1..(p - 1) : t[i] = s[i]
  BY <1>5, <1>10, <1>12
<1>15. InsertedAt(p, s, e, t)
  BY <1>5, <1>6, <1>10, <1>12, <1>13, <1>14 DEF InsertedAt, n
<1> QED BY <1>5, <1>15 DEF t, n

(* Insertion keeps the order, adds the event and loses none. *)
LEMMA Insertion ==
  ASSUME NEW s \in Seq(Events), NEW e \in Events, NEW t, NEW p \in 1..(Len(s) + 1),
         InsertedAt(p, s, e, t)
  PROVE  /\ Range(t) = Range(s) \cup {e}
         /\ Sorted(s) => Sorted(t)
<1>1. /\ t \in Seq(Events) /\ Len(t) = Len(s) + 1 /\ Len(s) \in Nat /\ e.clock \in Nat
      /\ \A i \in 1..Len(s) : s[i] \in Events /\ s[i].clock \in Nat
  BY Elements, Zenon DEF InsertedAt, Events
<1>2. /\ Range(t) = {t[i] : i \in 1..(Len(s) + 1)}
      /\ Range(s) = {s[i] : i \in 1..Len(s)}
  BY <1>1, Elements, Zenon
<1>3. Range(t) \subseteq Range(s) \cup {e}
  <2> SUFFICES ASSUME NEW i \in 1..(Len(s) + 1) PROVE t[i] \in Range(s) \cup {e}
    BY <1>2
  <2>1. CASE i < p
    BY <1>1, <1>2, <2>1 DEF InsertedAt
  <2>2. CASE i = p
    BY <2>2 DEF InsertedAt
  <2>3. CASE i > p
    <3>1. i - 1 \in 1..Len(s) /\ t[i] = s[i - 1]
      BY <1>1, <2>3 DEF InsertedAt
    <3> QED BY <1>2, <3>1
  <2> QED BY <1>1, <2>1, <2>2, <2>3
<1>4. Range(s) \cup {e} \subseteq Range(t)
  <2>1. e \in Range(t)
    BY <1>1, <1>2 DEF InsertedAt
  <2>2. ASSUME NEW i \in 1..Len(s) PROVE s[i] \in Range(t)
    <3>1. CASE i < p
      BY <1>1, <1>2, <3>1 DEF InsertedAt
    <3>2. CASE i >= p
      <4>1. i + 1 \in (p + 1)..(Len(s) + 1) /\ i + 1 \in 1..(Len(s) + 1) /\ (i + 1) - 1 = i
        BY <1>1, <3>2
      <4>2. t[i + 1] = s[i]
        BY <4>1 DEF InsertedAt
      <4> QED BY <1>2, <4>1, <4>2
    <3> QED BY <1>1, <3>1, <3>2
  <2> QED BY <1>2, <2>1, <2>2
<1>5. ASSUME Sorted(s) PROVE Sorted(t)
  <2> SUFFICES ASSUME NEW i \in 1..(Len(s) + 1), NEW j \in 1..(Len(s) + 1), i < j
               PROVE  t[i].clock <= t[j].clock
    <3>1. \A i \in 1..(Len(s) + 1) : t[i].clock \in Nat
      BY <1>1, Elements
    <3>2. Len(t) = Len(s) + 1
      BY <1>1
    <3>3. ASSUME NEW k \in 1..(Len(s) + 1), NEW l \in 1..(Len(s) + 1), k <= l
          PROVE  t[k].clock <= t[l].clock
      <4>1. CASE k = l
        BY <3>1, <4>1
      <4>2. CASE k < l
        BY <4>2
      <4> QED BY <3>3, <4>1, <4>2
    <3> QED BY <3>2, <3>3, Zenon DEF Sorted
  <2>1. CASE j < p
    <3>1. {i, j} \subseteq 1..(p - 1) /\ {i, j} \subseteq 1..Len(s) /\ i <= j
      BY <1>1, <2>1
    <3>2. t[i] = s[i] /\ t[j] = s[j]
      BY <3>1 DEF InsertedAt
    <3> QED BY <1>5, <3>1, <3>2 DEF Sorted
  <2>2. CASE j = p
    <3>1. i \in 1..(p - 1) /\ i \in 1..Len(s) /\ p - 1 \in 1..Len(s) /\ i <= p - 1 /\ p > 1
      BY <1>1, <2>2
    <3>2. t[i] = s[i] /\ s[p - 1].clock <= e.clock /\ t[j] = e
      BY <2>2, <3>1 DEF InsertedAt
    <3>3. s[i].clock <= s[p - 1].clock
      BY <1>5, <3>1 DEF Sorted
    <3> QED BY <1>1, <3>1, <3>2, <3>3
  <2>3. CASE p < j
    <3>1. j - 1 \in 1..Len(s) /\ t[j] = s[j - 1] /\ p <= j - 1 /\ p \in 1..Len(s)
      BY <1>1, <2>3 DEF InsertedAt
    <3>2. e.clock < s[j - 1].clock
      BY <1>1, <3>1 DEF InsertedAt
    <3>3. CASE i < p
      <4>1. i \in 1..(p - 1) /\ i \in 1..Len(s) /\ i <= j - 1
        BY <1>1, <3>1, <3>3
      <4>2. t[i] = s[i]
        BY <4>1 DEF InsertedAt
      <4> QED BY <1>5, <3>1, <4>1, <4>2 DEF Sorted
    <3>4. CASE i = p
      BY <1>1, <3>1, <3>2, <3>4 DEF InsertedAt
    <3>5. CASE i > p
      <4>1. i \in (p + 1)..(Len(s) + 1) /\ i - 1 \in 1..Len(s) /\ i - 1 <= j - 1
        BY <1>1, <3>1, <3>5
      <4>2. t[i] = s[i - 1]
        BY <4>1 DEF InsertedAt
      <4> QED BY <1>5, <3>1, <4>1, <4>2 DEF Sorted
    <3> QED BY <1>1, <3>3, <3>4, <3>5
  <2> QED BY <1>1, <2>1, <2>2, <2>3
<1> QED BY <1>3, <1>4, <1>5
-----------------------------------------------------------------------------
(* The lists sortEvents goes through. *)
Sorts(f, s) ==
  /\ f \in [0..Len(s) -> Seq(Events)] /\ f[0] = <<>>
  /\ \A n \in 1..Len(s) : f[n] = insertEvent(f[n - 1], s[n])

(* The recursion of sortEvents is a loop over the events. *)
LEMMA SortLoop ==
  ASSUME NEW s \in Seq(Events)
  PROVE  \E f : Sorts(f, s) /\ sortEvents(s) = f[Len(s)]
<1> DEFINE k == Len(s)
           G == [n \in 1..k |-> [x \in Seq(Events) |-> insertEvent(x, s[n])]]
           F(f) == [n \in 0..k |-> IF n = 0 THEN <<>> ELSE insertEvent(f[n - 1], s[n])]
           sorted == CHOOSE f : f = F(f)
<1>1. k \in Nat /\ \A n \in 1..k : s[n] \in Events
  BY Elements
<1>2. \A x \in Seq(Events), e \in Events : insertEvent(x, e) \in Seq(Events)
  BY InsertionPlace DEF InsertedAt
<1> HIDE DEF k
<1> DEFINE X == Seq(Events)
           x == <<>>
<1>3. G \in [1..k -> [X -> X]] /\ x \in X
  BY <1>1, <1>2
<1>4. \A y \in X, n \in 1..k : G[n][y] = insertEvent(y, s[n])
  OBVIOUS
<1> HIDE DEF G, X, x, F, sorted
<1>5. PICK f \in [0..k -> X] : f[0] = x /\ \A n \in 1..k : f[n] = G[n][f[n - 1]]
  <2>1. \E f : IsLoop(f, X, k, G, x)
    BY <1>1, <1>3, LoopValues
  <2> QED BY <2>1, Zenon DEF IsLoop
<1>6. \A n \in 1..k : f[n] = insertEvent(f[n - 1], s[n])
  <2> TAKE n \in 1..k
  <2>1. n - 1 \in 0..k
    BY <1>1
  <2>2. f[n - 1] \in X
    BY <1>5, <2>1
  <2> QED BY <1>4, <1>5, <2>2
<1> USE DEF X, x, F, sorted
<1>7. f = F(f)
  BY <1>1, <1>5, <1>6
<1>8. sorted = F(sorted)
  BY <1>7, Zenon
<1>9. sortEvents(s) = sorted[k]
  BY DEF sortEvents, k
<1> HIDE DEF sorted
<1>10. /\ DOMAIN sorted = 0..k /\ sorted[0] = <<>>
       /\ \A n \in 1..k : sorted[n] = insertEvent(sorted[n - 1], s[n])
  BY <1>1, <1>8
<1> DEFINE S == {n \in Nat : n <= k => sorted[n] \in Seq(Events)}
<1>11. 0 \in S
  BY <1>3, <1>10, Zenon
<1>12. ASSUME NEW n \in Nat, n \in S PROVE n + 1 \in S
  <2> SUFFICES ASSUME n + 1 <= k PROVE sorted[n + 1] \in Seq(Events)
    OBVIOUS
  <2>1. n + 1 \in 1..k /\ (n + 1) - 1 = n /\ sorted[n] \in Seq(Events)
    BY <1>1, <1>12
  <2>2. sorted[n + 1] = insertEvent(sorted[n], s[n + 1])
    BY <1>10, <2>1
  <2> QED BY <1>1, <1>2, <2>1, <2>2, Zenon
<1> HIDE DEF S
<1>13. Nat \subseteq S
  BY <1>11, <1>12, Induction
<1>14. \A n \in 0..k : sorted[n] \in Seq(Events)
  BY <1>1, <1>13 DEF S
<1>15. sorted \in [0..k -> Seq(Events)]
  <2>1. sorted = [n \in 0..k |-> sorted[n]]
    BY <1>8
  <2> QED BY <1>14, <2>1
<1> QED BY <1>9, <1>10, <1>15 DEF Sorts, k

(* sortEvents returns the same events, in the order of their clocks. *)
LEMMA SortOrders ==
  ASSUME NEW s \in Seq(Events)
  PROVE  /\ sortEvents(s) \in Seq(Events) /\ Len(sortEvents(s)) = Len(s)
         /\ Range(sortEvents(s)) = Range(s) /\ Sorted(sortEvents(s))
<1>1. PICK f : Sorts(f, s) /\ sortEvents(s) = f[Len(s)]
  BY SortLoop
<1> DEFINE k == Len(s)
           S == {n \in Nat : n <= k => /\ Len(f[n]) = n /\ Sorted(f[n])
                                       /\ Range(f[n]) = {s[i] : i \in 1..n}}
<1>2. k \in Nat /\ (\A n \in 1..k : s[n] \in Events) /\ Range(s) = {s[i] : i \in 1..k}
  BY Elements
<1>3. /\ \A n \in 0..k : f[n] \in Seq(Events)
      /\ f[0] = <<>> /\ \A n \in 1..k : f[n] = insertEvent(f[n - 1], s[n])
  BY <1>1 DEF Sorts
<1> HIDE DEF k
<1>4. 0 \in S
  BY <1>3 DEF Sorted, Range
<1>5. ASSUME NEW n \in Nat, n \in S PROVE n + 1 \in S
  <2> SUFFICES ASSUME n + 1 <= k
               PROVE  /\ Len(f[n + 1]) = n + 1 /\ Sorted(f[n + 1])
                      /\ Range(f[n + 1]) = {s[i] : i \in 1..(n + 1)}
    OBVIOUS
  <2>1. n + 1 \in 1..k /\ (n + 1) - 1 = n /\ n \in 0..k
    BY <1>2
  <2>2. f[n + 1] = insertEvent(f[n], s[n + 1]) /\ f[n] \in Seq(Events) /\ s[n + 1] \in Events
    BY <1>2, <1>3, <2>1
  <2>3. Len(f[n]) = n /\ Sorted(f[n]) /\ Range(f[n]) = {s[i] : i \in 1..n}
    BY <1>5, <2>1
  <2>4. PICK p \in 1..(Len(f[n]) + 1) : InsertedAt(p, f[n], s[n + 1], f[n + 1])
    BY <2>2, InsertionPlace
  <2>5. Len(f[n + 1]) = n + 1
    BY <2>3, <2>4 DEF InsertedAt
  <2>6. Range(f[n + 1]) = Range(f[n]) \cup {s[n + 1]} /\ Sorted(f[n + 1])
    BY <2>2, <2>3, <2>4, Insertion
  <2>7. {s[i] : i \in 1..(n + 1)} = {s[i] : i \in 1..n} \cup {s[n + 1]}
    OBVIOUS
  <2> QED BY <2>3, <2>5, <2>6, <2>7
<1> HIDE DEF S
<1>6. k \in S
  BY <1>2, <1>4, <1>5, Induction
<1>7. f[k] \in Seq(Events)
  BY <1>2, <1>3
<1> QED BY <1>1, <1>2, <1>6, <1>7 DEF S, k

(* A list that is in order stays as it is. *)
LEMMA SortIdle ==
  ASSUME NEW s \in Seq(Events), Sorted(s)
  PROVE  sortEvents(s) = s
<1>1. PICK f : Sorts(f, s) /\ sortEvents(s) = f[Len(s)]
  BY SortLoop
<1> DEFINE k == Len(s)
           S == {n \in Nat : n <= k => Len(f[n]) = n /\ \A i \in 1..n : f[n][i] = s[i]}
<1>2. k \in Nat /\ \A n \in 1..k : s[n] \in Events /\ s[n].clock \in Nat
  BY Elements
<1>3. /\ \A n \in 0..k : f[n] \in Seq(Events)
      /\ f[0] = <<>> /\ \A n \in 1..k : f[n] = insertEvent(f[n - 1], s[n])
  BY <1>1 DEF Sorts
<1>4. \A i, j \in 1..k : i <= j => s[i].clock <= s[j].clock
  BY DEF Sorted
<1> HIDE DEF k
<1>5. 0 \in S
  BY <1>3
<1>6. ASSUME NEW n \in Nat, n \in S PROVE n + 1 \in S
  <2> SUFFICES ASSUME n + 1 <= k
               PROVE  Len(f[n + 1]) = n + 1 /\ \A i \in 1..(n + 1) : f[n + 1][i] = s[i]
    OBVIOUS
  <2>1. n + 1 \in 1..k /\ (n + 1) - 1 = n /\ n \in 0..k
    BY <1>2
  <2>2. f[n + 1] = insertEvent(f[n], s[n + 1]) /\ f[n] \in Seq(Events) /\ s[n + 1] \in Events
    BY <1>2, <1>3, <2>1
  <2>3. Len(f[n]) = n /\ \A i \in 1..n : f[n][i] = s[i]
    BY <1>6, <2>1
  <2>4. PICK p \in 1..(n + 1) : InsertedAt(p, f[n], s[n + 1], f[n + 1])
    BY <2>2, <2>3, InsertionPlace
  <2>5. p = n + 1
    <3> SUFFICES ASSUME p <= n PROVE FALSE
      OBVIOUS
    <3>1. n \in p..n /\ n \in 1..n /\ n \in 1..k /\ n <= n + 1
      BY <2>1
    <3>2. s[n + 1].clock < f[n][n].clock /\ f[n][n] = s[n]
      BY <2>3, <2>4, <3>1 DEF InsertedAt
    <3>3. s[n].clock <= s[n + 1].clock
      BY <1>4, <2>1, <3>1
    <3> QED BY <1>2, <2>1, <3>1, <3>2, <3>3
  <2>6. Len(f[n + 1]) = n + 1 /\ f[n + 1][n + 1] = s[n + 1] /\ \A i \in 1..n : f[n + 1][i] = f[n][i]
    BY <2>3, <2>4, <2>5 DEF InsertedAt
  <2> QED BY <2>3, <2>6
<1> HIDE DEF S
<1>7. k \in S
  BY <1>2, <1>5, <1>6, Induction
<1>8. f[k] \in Seq(Events) /\ Len(f[k]) = k /\ \A i \in 1..k : f[k][i] = s[i]
  BY <1>2, <1>3, <1>7 DEF S
<1>9. f[k] = s
  BY <1>8 DEF k
<1> QED BY <1>1, <1>9 DEF k

(* If the first n events are not later than c, then so are the first n of  *)
(* the sorted list: only earlier ones can come before them.                *)
LEMMA SortKeepsFirst ==
  ASSUME NEW s \in Seq(Events), NEW c \in Nat, NEW m \in 0..Len(s),
         \A i \in 1..m : s[i].clock <= c
  PROVE  \A i \in 1..m : sortEvents(s)[i].clock <= c
<1>1. PICK f : Sorts(f, s) /\ sortEvents(s) = f[Len(s)]
  BY SortLoop
<1> DEFINE k == Len(s)
           S == {n \in Nat : n <= k => /\ Len(f[n]) = n
                                       /\ \A i \in 1..n : i <= m => f[n][i].clock <= c}
<1>2. k \in Nat /\ m \in 0..k /\ \A n \in 1..k : s[n] \in Events /\ s[n].clock \in Nat
  BY Elements
<1>3. /\ \A n \in 0..k : f[n] \in Seq(Events)
      /\ f[0] = <<>> /\ \A n \in 1..k : f[n] = insertEvent(f[n - 1], s[n])
  BY <1>1 DEF Sorts
<1> HIDE DEF k
<1>4. 0 \in S
  BY <1>3
<1>5. ASSUME NEW n \in Nat, n \in S PROVE n + 1 \in S
  <2> SUFFICES ASSUME n + 1 <= k
               PROVE  /\ Len(f[n + 1]) = n + 1
                      /\ \A i \in 1..(n + 1) : i <= m => f[n + 1][i].clock <= c
    OBVIOUS
  <2> DEFINE e == s[n + 1]
  <2>1. n + 1 \in 1..k /\ (n + 1) - 1 = n /\ n \in 0..k
    BY <1>2
  <2>2. f[n + 1] = insertEvent(f[n], e) /\ f[n] \in Seq(Events) /\ e \in Events
    BY <1>2, <1>3, <2>1
  <2>3. Len(f[n]) = n /\ \A i \in 1..n : i <= m => f[n][i].clock <= c
    BY <1>5, <2>1
  <2>4. PICK p \in 1..(n + 1) : InsertedAt(p, f[n], e, f[n + 1])
    BY <2>2, <2>3, InsertionPlace
  <2>5. e.clock \in Nat /\ \A i \in 1..n : f[n][i].clock \in Nat
    BY <1>2, <2>1, <2>2, <2>3, Elements
  <2>6. n + 1 <= m => e.clock <= c
    BY <2>1
  <2> HIDE DEF e
  <2>7. ASSUME NEW i \in 1..(n + 1), i <= m PROVE f[n + 1][i].clock <= c
    <3>1. CASE i < p
      <4>1. i \in 1..(p - 1) /\ i \in 1..n
        BY <3>1
      <4>2. f[n + 1][i] = f[n][i]
        BY <2>4, <4>1 DEF InsertedAt
      <4> QED BY <2>3, <2>7, <4>1, <4>2
    <3>2. CASE i = p
      <4>1. f[n + 1][i] = e
        BY <2>4, <3>2 DEF InsertedAt
      <4>2. CASE p = n + 1
        BY <2>6, <2>7, <3>2, <4>1, <4>2
      <4>3. CASE p \in 1..n
        <5>1. e.clock < f[n][p].clock
          BY <2>3, <2>4, <4>3 DEF InsertedAt
        <5>2. f[n][p].clock <= c
          BY <2>3, <2>7, <3>2, <4>3
        <5> QED BY <2>5, <4>1, <4>3, <5>1, <5>2
      <4> QED BY <4>2, <4>3
    <3>3. CASE i > p
      <4>1. i \in (p + 1)..(n + 1) /\ i - 1 \in 1..n /\ i - 1 <= m
        BY <1>2, <2>7, <3>3
      <4>2. f[n + 1][i] = f[n][i - 1]
        BY <2>3, <2>4, <4>1 DEF InsertedAt
      <4> QED BY <2>3, <4>1, <4>2
    <3> QED BY <3>1, <3>2, <3>3
  <2>8. Len(f[n + 1]) = n + 1
    BY <2>3, <2>4 DEF InsertedAt
  <2> QED BY <2>7, <2>8
<1> HIDE DEF S
<1>6. k \in S
  BY <1>2, <1>4, <1>5, Induction, Zenon
<1>7. \A i \in 1..k : i <= m => f[k][i].clock <= c
  BY <1>2, <1>6 DEF S
<1>8. \A i \in 1..m : i \in 1..k /\ i <= m
  BY <1>2
<1> QED BY <1>1, <1>7, <1>8 DEF k
-----------------------------------------------------------------------------
(* The lists MergeMembershipUpdateEvents goes through. *)
MergeSteps(f, dest, src) ==
  /\ f \in [0..Len(src) -> Seq(Events)] /\ f[0] = dest
  /\ \A n \in 1..Len(src) : f[n] = appendEvent(f[n - 1], src[n])

(* One more event, unless it is known. *)
LEMMA Appending ==
  ASSUME NEW s \in Seq(Events), NEW e \in Events
  PROVE  /\ appendEvent(s, e) \in Seq(Events)
         /\ Range(appendEvent(s, e)) = Range(s) \cup {e}
         /\ Len(s) <= Len(appendEvent(s, e))
         /\ \A i \in 1..Len(s) : appendEvent(s, e)[i] = s[i]
<1>1. CASE e \in Range(s)
  BY <1>1, Elements DEF appendEvent
<1>2. CASE e \notin Range(s)
  <2> DEFINE t == Append(s, e)
  <2>1. /\ t \in Seq(Events) /\ Len(t) = Len(s) + 1 /\ t[Len(s) + 1] = e /\ Len(s) \in Nat
        /\ \A i \in 1..Len(s) : t[i] = s[i]
    OBVIOUS
  <2>2. appendEvent(s, e) = t
    BY <1>2 DEF appendEvent
  <2> HIDE DEF t
  <2>3. Range(t) = {t[i] : i \in 1..(Len(s) + 1)} /\ Range(s) = {s[i] : i \in 1..Len(s)}
    BY <2>1, Elements
  <2>4. \A i \in 1..(Len(s) + 1) : i \in 1..Len(s) \/ i = Len(s) + 1
    BY <2>1
  <2>5. \A i \in 1..Len(s) : i \in 1..(Len(s) + 1)
    BY <2>1
  <2>6. Len(s) + 1 \in 1..(Len(s) + 1) /\ Len(s) <= Len(s) + 1
    BY <2>1
  <2>7. Range(t) = Range(s) \cup {e}
    BY <2>1, <2>3, <2>4, <2>5, <2>6
  <2> QED BY <2>1, <2>2, <2>6, <2>7
<1> QED BY <1>1, <1>2

(* The recursion of MergeMembershipUpdateEvents is a loop over src. *)
LEMMA MergeLoop ==
  ASSUME NEW dest \in Seq(Events), NEW src \in Seq(Events)
  PROVE  \E f : MergeSteps(f, dest, src) /\ MergeMembershipUpdateEvents(dest, src) = f[Len(src)]
<1> DEFINE k == Len(src)
           G == [n \in 1..k |-> [x \in Seq(Events) |-> appendEvent(x, src[n])]]
           F(f) == [n \in 0..k |-> IF n = 0 THEN dest ELSE appendEvent(f[n - 1], src[n])]
           merged == CHOOSE f : f = F(f)
           X == Seq(Events)
<1>1. k \in Nat /\ \A n \in 1..k : src[n] \in Events
  BY Elements
<1>2. \A x \in X, e \in Events : appendEvent(x, e) \in X
  BY Appending
<1> HIDE DEF k
<1>3. G \in [1..k -> [X -> X]] /\ dest \in X
  BY <1>1, <1>2
<1>4. \A y \in X, n \in 1..k : G[n][y] = appendEvent(y, src[n])
  OBVIOUS
<1> HIDE DEF G, X, F, merged
<1>5. PICK f \in [0..k -> X] : f[0] = dest /\ \A n \in 1..k : f[n] = G[n][f[n - 1]]
  <2>1. \E f : IsLoop(f, X, k, G, dest)
    BY <1>1, <1>3, LoopValues
  <2> QED BY <2>1, Zenon DEF IsLoop
<1>6. \A n \in 1..k : f[n] = appendEvent(f[n - 1], src[n])
  <2> TAKE n \in 1..k
  <2>1. n - 1 \in 0..k
    BY <1>1
  <2>2. f[n - 1] \in X
    BY <1>5, <2>1
  <2> QED BY <1>4, <1>5, <2>2
<1> USE DEF X, F, merged
<1>7. f = F(f)
  BY <1>1, <1>5, <1>6
<1>8. merged = F(merged)
  BY <1>7, Zenon
<1>9. MergeMembershipUpdateEvents(dest, src) = merged[k]
  BY DEF MergeMembershipUpdateEvents, k
<1> HIDE DEF merged
<1>10. /\ merged[0] = dest
       /\ \A n \in 1..k : merged[n] = appendEvent(merged[n - 1], src[n])
  BY <1>1, <1>8
<1> DEFINE S == {n \in Nat : n <= k => merged[n] \in Seq(Events)}
<1>11. 0 \in S
  BY <1>10
<1>12. ASSUME NEW n \in Nat, n \in S PROVE n + 1 \in S
  <2> SUFFICES ASSUME n + 1 <= k PROVE merged[n + 1] \in Seq(Events)
    OBVIOUS
  <2>1. n + 1 \in 1..k /\ (n + 1) - 1 = n /\ merged[n] \in Seq(Events)
    BY <1>1, <1>12
  <2>2. merged[n + 1] = appendEvent(merged[n], src[n + 1])
    BY <1>10, <2>1
  <2> QED BY <1>1, <1>2, <2>1, <2>2, Zenon
<1> HIDE DEF S
<1>13. Nat \subseteq S
  BY <1>11, <1>12, Induction
<1>14. \A n \in 0..k : merged[n] \in Seq(Events)
  BY <1>1, <1>13 DEF S
<1>15. merged \in [0..k -> Seq(Events)]
  <2>1. merged = [n \in 0..k |-> merged[n]]
    BY <1>8
  <2> QED BY <1>14, <2>1
<1> QED BY <1>9, <1>10, <1>15, Zenon DEF MergeSteps, k

(* Merging gives the events of both, those of the group first. *)
LEMMA MergeUnites ==
  ASSUME NEW dest \in Seq(Events), NEW src \in Seq(Events)
  PROVE  LET t == MergeMembershipUpdateEvents(dest, src) IN
         /\ t \in Seq(Events) /\ Range(t) = Range(dest) \cup Range(src)
         /\ Len(dest) <= Len(t) /\ \A i \in 1..Len(dest) : t[i] = dest[i]
<1>1. PICK f : MergeSteps(f, dest, src) /\ MergeMembershipUpdateEvents(dest, src) = f[Len(src)]
  BY MergeLoop
<1> DEFINE k == Len(src)
           S == {n \in Nat : n <= k =>
                   /\ Range(f[n]) = Range(dest) \cup {src[i] : i \in 1..n}
                   /\ Len(dest) <= Len(f[n]) /\ \A i \in 1..Len(dest) : f[n][i] = dest[i]}
<1>2. /\ k \in Nat /\ (\A n \in 1..k : src[n] \in Events) /\ Range(src) = {src[i] : i \in 1..k}
      /\ Len(dest) \in Nat
  BY Elements
<1>3. /\ \A n \in 0..k : f[n] \in Seq(Events)
      /\ f[0] = dest /\ \A n \in 1..k : f[n] = appendEvent(f[n - 1], src[n])
  BY <1>1 DEF MergeSteps
<1> HIDE DEF k
<1>4. 0 \in S
  BY <1>2, <1>3
<1>5. ASSUME NEW n \in Nat, n \in S PROVE n + 1 \in S
  <2> SUFFICES ASSUME n + 1 <= k
               PROVE  /\ Range(f[n + 1]) = Range(dest) \cup {src[i] : i \in 1..(n + 1)}
                      /\ Len(dest) <= Len(f[n + 1])
                      /\ \A i \in 1..Len(dest) : f[n + 1][i] = dest[i]
    OBVIOUS
  <2>1. n + 1 \in 1..k /\ (n + 1) - 1 = n /\ n \in 0..k
    BY <1>2
  <2>2. /\ f[n + 1] = appendEvent(f[n], src[n + 1]) /\ f[n] \in Seq(Events)
        /\ src[n + 1] \in Events
    BY <1>2, <1>3, <2>1
  <2>3. /\ Range(f[n]) = Range(dest) \cup {src[i] : i \in 1..n}
        /\ Len(dest) <= Len(f[n]) /\ \A i \in 1..Len(dest) : f[n][i] = dest[i]
    BY <1>5, <2>1
  <2>4. /\ f[n + 1] \in Seq(Events) /\ Range(f[n + 1]) = Range(f[n]) \cup {src[n + 1]}
        /\ Len(f[n]) <= Len(f[n + 1]) /\ \A i \in 1..Len(f[n]) : f[n + 1][i] = f[n][i]
    <3> DEFINE s == f[n]
               e == src[n + 1]
               t == f[n + 1]
    <3>1. s \in Seq(Events) /\ e \in Events /\ t = appendEvent(s, e)
      BY <2>2
    <3> HIDE DEF S, s, e, t
    <3>2. /\ t \in Seq(Events) /\ Range(t) = Range(s) \cup {e}
          /\ Len(s) <= Len(t) /\ \A i \in 1..Len(s) : t[i] = s[i]
      BY <3>1, Appending, Zenon
    <3> QED BY <3>2 DEF s, e, t
  <2>5. {src[i] : i \in 1..(n + 1)} = {src[i] : i \in 1..n} \cup {src[n + 1]}
    OBVIOUS
  <2>6. Len(f[n]) \in Nat /\ Len(f[n + 1]) \in Nat
    BY <2>2, <2>4, Elements
  <2>7. Len(dest) <= Len(f[n + 1]) /\ \A i \in 1..Len(dest) : i \in 1..Len(f[n])
    BY <1>2, <2>3, <2>4, <2>6
  <2> QED BY <2>3, <2>4, <2>5, <2>7
<1> HIDE DEF S
<1>6. k \in S
  BY <1>2, <1>4, <1>5, Induction
<1>7. f[k] \in Seq(Events)
  BY <1>2, <1>3
<1> QED BY <1>1, <1>2, <1>6, <1>7 DEF S, k

(* One more event does not change the order of the others. *)
LEMMA InsertionEmbeds ==
  ASSUME NEW s \in Seq(Events), NEW x \in Seq(Events), NEW e \in Events, e \notin Range(s),
         Embeds(s, x)
  PROVE  Embeds(s, insertEvent(x, e))
<1> DEFINE t == insertEvent(x, e)
           n == Len(s)
           l == Len(x)
<1>1. PICK p \in 1..(Len(x) + 1) : InsertedAt(p, x, e, t)
  BY InsertionPlace
<1>2. PICK h \in [1..n -> 1..l] :
        /\ \A i \in 1..n : x[h[i]] = s[i]
        /\ \A i, j \in 1..n : i < j => h[i] < h[j]
        /\ \A i \in 1..l : x[i] \in Range(s) => \E k \in 1..n : h[k] = i
  BY Zenon DEF Embeds
<1>3. n \in Nat /\ l \in Nat /\ p \in 1..(l + 1)
  BY Elements
<1>4. /\ Len(t) = l + 1 /\ t[p] = e
      /\ \A i \in 1..(p - 1) : t[i] = x[i]
      /\ \A i \in (p + 1)..(l + 1) : t[i] = x[i - 1]
  BY <1>1 DEF InsertedAt
<1> HIDE DEF t, n, l
<1> DEFINE g == [i \in 1..n |-> IF h[i] < p THEN h[i] ELSE h[i] + 1]
<1>5. \A i \in 1..n : h[i] \in 1..l /\ h[i] \in Nat
  BY <1>2, <1>3
<1>6. g \in [1..n -> 1..Len(t)]
  BY <1>3, <1>4, <1>5
<1>7. \A i \in 1..n : t[g[i]] = s[i]
  <2> TAKE i \in 1..n
  <2>1. CASE h[i] < p
    <3>1. g[i] = h[i] /\ h[i] \in 1..(p - 1)
      BY <1>3, <1>5, <2>1
    <3> QED BY <1>2, <1>4, <3>1
  <2>2. CASE ~(h[i] < p)
    <3>1. g[i] = h[i] + 1 /\ h[i] + 1 \in (p + 1)..(l + 1) /\ (h[i] + 1) - 1 = h[i]
      BY <1>3, <1>5, <2>2
    <3>2. t[h[i] + 1] = x[(h[i] + 1) - 1]
      BY <1>4, <3>1
    <3> QED BY <1>2, <3>1, <3>2
  <2> QED BY <2>1, <2>2
<1>8. \A i, j \in 1..n : i < j => g[i] < g[j]
  BY <1>2, <1>3, <1>5
<1>9. ASSUME NEW i \in 1..Len(t), t[i] \in Range(s) PROVE \E k \in 1..n : g[k] = i
  <2>1. i # p
    BY <1>4, <1>9
  <2>2. CASE i < p
    <3>1. i \in 1..(p - 1) /\ i \in 1..l
      BY <1>3, <1>4, <2>2
    <3>2. PICK k \in 1..n : h[k] = i
      BY <1>2, <1>4, <1>9, <3>1
    <3> QED BY <2>2, <3>2
  <2>3. CASE i > p
    <3>1. i \in (p + 1)..(l + 1) /\ i - 1 \in 1..l
      BY <1>3, <1>4, <2>3
    <3>2. t[i] = x[i - 1]
      BY <1>4, <3>1
    <3>3. PICK k \in 1..n : h[k] = i - 1
      BY <1>2, <1>9, <3>1, <3>2
    <3>4. g[k] = i
      BY <1>3, <1>4, <2>3, <3>3
    <3> QED BY <3>4
  <2> QED BY <1>3, <1>4, <2>1, <2>2, <2>3
<1> HIDE DEF g
<1>10. Embeds(s, t)
  BY <1>6, <1>7, <1>8, <1>9, Zenon DEF Embeds, n
<1> QED BY <1>10 DEF t

(* Sorting keeps the order of the events in front that are sorted already. *)
LEMMA SortEmbeds ==
  ASSUME NEW s \in Seq(Events), Sorted(s), NEW u \in Seq(Events), Len(s) <= Len(u),
         \A i \in 1..Len(s) : u[i] = s[i],
         \A i \in (Len(s) + 1)..Len(u) : u[i] \notin Range(s)
  PROVE  Embeds(s, sortEvents(u))
<1> DEFINE k == Len(s)
           l == Len(u)
<1>1. PICK f : Sorts(f, u) /\ sortEvents(u) = f[Len(u)]
  BY SortLoop
<1>2. PICK g : Sorts(g, s) /\ sortEvents(s) = g[Len(s)]
  BY SortLoop
<1>3. k \in Nat /\ l \in Nat /\ k <= l /\ Range(s) = {s[i] : i \in 1..k} /\ \A i \in 1..l : u[i] \in Events
  BY Elements
<1>4. /\ \A n \in 0..l : f[n] \in Seq(Events)
      /\ f[0] = <<>> /\ \A n \in 1..l : f[n] = insertEvent(f[n - 1], u[n])
  BY <1>1 DEF Sorts
<1>5. g[0] = <<>> /\ \A n \in 1..k : g[n] = insertEvent(g[n - 1], s[n])
  BY <1>2 DEF Sorts
<1>6. (\A i \in 1..k : u[i] = s[i]) /\ (\A i \in (k + 1)..l : u[i] \notin Range(s))
  OBVIOUS
<1>7. g[k] = s
  BY <1>2, SortIdle
<1>8. sortEvents(u) = f[l]
  BY <1>1
<1> HIDE DEF k, l
<1> DEFINE A == {n \in Nat : n <= k => f[n] = g[n]}
<1>9. k \in A
  <2>1. 0 \in A
    BY <1>4, <1>5
  <2>2. ASSUME NEW n \in Nat, n \in A PROVE n + 1 \in A
    <3> SUFFICES ASSUME n + 1 <= k PROVE f[n + 1] = g[n + 1]
      OBVIOUS
    <3>1. n + 1 \in 1..k /\ n + 1 \in 1..l /\ (n + 1) - 1 = n /\ n <= k
      BY <1>3
    <3>2. f[n] = g[n]
      BY <2>2, <3>1
    <3>3. f[n + 1] = insertEvent(f[n], u[n + 1])
      BY <1>4, <3>1
    <3>4. g[n + 1] = insertEvent(g[n], s[n + 1])
      BY <1>5, <3>1
    <3> QED BY <1>6, <3>1, <3>2, <3>3, <3>4
  <2> HIDE DEF A
  <2> QED BY <1>3, <2>1, <2>2, Induction
<1>10. f[k] = s
  BY <1>3, <1>7, <1>9
<1> DEFINE B == {n \in Nat : k + n <= l => Embeds(s, f[k + n])}
<1>11. 0 \in B
  <2> DEFINE h == [i \in 1..k |-> i]
  <2>1. h \in [1..k -> 1..k]
    OBVIOUS
  <2>2. \A i \in 1..k : h[i] = i
    OBVIOUS
  <2> HIDE DEF h
  <2>3. Embeds(s, s)
    BY <1>3, <2>1, <2>2 DEF Embeds, k
  <2>4. k + 0 = k
    BY <1>3
  <2> QED BY <1>10, <2>3, <2>4
<1>12. ASSUME NEW n \in Nat, n \in B PROVE n + 1 \in B
  <2> SUFFICES ASSUME k + (n + 1) <= l PROVE Embeds(s, f[k + (n + 1)])
    OBVIOUS
  <2> DEFINE i == k + (n + 1)
             x == f[k + n]
             e == u[i]
  <2>1. /\ i \in 1..l /\ i \in (k + 1)..l /\ i - 1 = k + n /\ k + n \in 0..l /\ k + n <= l
    BY <1>3
  <2>2. f[i] = insertEvent(f[i - 1], u[i])
    BY <1>4, <2>1
  <2>3. f[i] = insertEvent(x, e)
    BY <2>1, <2>2
  <2>4. x \in Seq(Events) /\ e \in Events /\ e \notin Range(s) /\ Embeds(s, x)
    BY <1>3, <1>4, <1>6, <1>12, <2>1, Zenon
  <2> HIDE DEF x, e, B
  <2>5. Embeds(s, insertEvent(x, e))
    BY <2>4, InsertionEmbeds
  <2> QED BY <2>3, <2>5
<1> HIDE DEF B
<1> DEFINE d == l - k
<1>13. d \in Nat /\ k + d = l
  BY <1>3
<1> HIDE DEF d
<1>14. d \in B
  BY <1>11, <1>12, <1>13, Induction
<1>15. k + d <= l
  BY <1>3, <1>13
<1> QED BY <1>8, <1>13, <1>14, <1>15 DEF B

(* The events that merging adds are new. *)
LEMMA MergeAddsNew ==
  ASSUME NEW dest \in Seq(Events), NEW src \in Seq(Events)
  PROVE  LET t == MergeMembershipUpdateEvents(dest, src) IN
         \A i \in (Len(dest) + 1)..Len(t) : t[i] \notin Range(dest)
<1>1. PICK f : MergeSteps(f, dest, src) /\ MergeMembershipUpdateEvents(dest, src) = f[Len(src)]
  BY MergeLoop
<1> DEFINE k == Len(src)
           l == Len(dest)
           S == {n \in Nat : n <= k =>
                   /\ Range(dest) \subseteq Range(f[n])
                   /\ \A i \in (l + 1)..Len(f[n]) : f[n][i] \notin Range(dest)}
<1>2. k \in Nat /\ l \in Nat /\ \A n \in 1..k : src[n] \in Events
  BY Elements
<1>3. /\ \A n \in 0..k : f[n] \in Seq(Events)
      /\ f[0] = dest /\ \A n \in 1..k : f[n] = appendEvent(f[n - 1], src[n])
  BY <1>1 DEF MergeSteps
<1>4. MergeMembershipUpdateEvents(dest, src) = f[k] /\ l = Len(dest)
  BY <1>1
<1> HIDE DEF k
<1>5. 0 \in S
  <2>1. \A i \in (l + 1)..Len(dest) : FALSE
    BY <1>2
  <2> HIDE DEF l
  <2> QED BY <1>3, <1>4, <2>1
<1> HIDE DEF l
<1>6. ASSUME NEW n \in Nat, n \in S PROVE n + 1 \in S
  <2> DEFINE x == f[n]
             e == src[n + 1]
             t == f[n + 1]
  <2> SUFFICES ASSUME n + 1 <= k
               PROVE  /\ Range(dest) \subseteq Range(t)
                      /\ \A i \in (l + 1)..Len(t) : t[i] \notin Range(dest)
    OBVIOUS
  <2>1. n + 1 \in 1..k /\ (n + 1) - 1 = n /\ n \in 0..k /\ n <= k
    BY <1>2
  <2>2. t = appendEvent(x, e) /\ x \in Seq(Events) /\ e \in Events
    BY <1>2, <1>3, <2>1
  <2>3. /\ Range(dest) \subseteq Range(x)
        /\ \A i \in (l + 1)..Len(x) : x[i] \notin Range(dest)
    BY <1>6, <2>1
  <2> HIDE DEF x, e, t, S
  <2>4. CASE e \in Range(x)
    <3>1. t = x
      BY <2>2, <2>4 DEF appendEvent
    <3> QED BY <2>3, <3>1
  <2>5. CASE e \notin Range(x)
    <3>1. t = Append(x, e)
      BY <2>2, <2>5 DEF appendEvent
    <3>2. /\ Len(t) = Len(x) + 1 /\ t[Len(x) + 1] = e /\ \A i \in 1..Len(x) : t[i] = x[i]
          /\ Len(x) \in Nat
      BY <2>2, <3>1
    <3>3. Range(x) \subseteq Range(t)
      BY <2>2, Appending
    <3>4. ASSUME NEW i \in (l + 1)..Len(t) PROVE t[i] \notin Range(dest)
      <4>1. CASE i = Len(x) + 1
        BY <2>3, <2>5, <3>2, <4>1
      <4>2. CASE i # Len(x) + 1
        <5>1. i \in (l + 1)..Len(x) /\ i \in 1..Len(x)
          BY <1>2, <3>2, <4>2
        <5> QED BY <2>3, <3>2, <5>1
      <4> QED BY <4>1, <4>2
    <3> QED BY <2>3, <3>3, <3>4
  <2> QED BY <2>4, <2>5
<1> HIDE DEF S
<1>7. k \in S
  BY <1>2, <1>5, <1>6, Induction
<1> QED BY <1>2, <1>4, <1>7 DEF S

(* Merging keeps the order of the events the group had. *)
LEMMA MergeEmbeds ==
  ASSUME NEW dest \in Seq(Events), Sorted(dest), NEW src \in Seq(Events)
  PROVE  Embeds(dest, sortEvents(MergeMembershipUpdateEvents(dest, src)))
<1> DEFINE u == MergeMembershipUpdateEvents(dest, src)
<1>1. /\ u \in Seq(Events) /\ Len(dest) <= Len(u) /\ \A i \in 1..Len(dest) : u[i] = dest[i]
  BY MergeUnites
<1>2. \A i \in (Len(dest) + 1)..Len(u) : u[i] \notin Range(dest)
  BY MergeAddsNew
<1> HIDE DEF u
<1>3. Embeds(dest, sortEvents(u))
  BY <1>1, <1>2, SortEmbeds
<1> QED BY <1>3 DEF u
-----------------------------------------------------------------------------
Processes(f, g, s) ==
  /\ f \in [0..Len(s) -> GroupState] /\ f[0] = g
  /\ \A n \in 1..Len(s) : f[n] = ProcessEvent(f[n - 1], s[n])

(* ProcessEvent gives a group again. *)
LEMMA ProcessTypes ==
  ASSUME NEW g \in GroupState, NEW e \in Events
  PROVE  ProcessEvent(g, e) \in GroupState
  BY Zenon DEF GroupState, Events, ProcessEvent, processEvent

(* Two such functions agree. *)
LEMMA ProcessUnique ==
  ASSUME NEW g, NEW s \in Seq(Events), NEW f, Processes(f, g, s), NEW h, Processes(h, g, s)
  PROVE  f = h
<1> DEFINE k == Len(s)
           S == {n \in Nat : n <= k => f[n] = h[n]}
<1>1. k \in Nat
  BY Elements
<1>2. /\ f[0] = h[0] /\ f \in [0..k -> GroupState] /\ h \in [0..k -> GroupState]
      /\ \A n \in 1..k : f[n - 1] = h[n - 1] => f[n] = h[n]
  BY DEF Processes
<1> HIDE DEF k
<1>3. 0 \in S
  BY <1>2
<1>4. ASSUME NEW n \in Nat, n \in S PROVE n + 1 \in S
  <2>1. n + 1 <= k => n + 1 \in 1..k /\ (n + 1) - 1 = n /\ n <= k
    BY <1>1
  <2> QED BY <1>2, <1>4, <2>1
<1> HIDE DEF S
<1>5. Nat \subseteq S
  BY <1>3, <1>4, Induction
<1>6. \A n \in 0..k : f[n] = h[n]
  BY <1>1, <1>5 DEF S
<1>7. f = [n \in 0..k |-> f[n]] /\ h = [n \in 0..k |-> h[n]]
  BY <1>2
<1> QED BY <1>6, <1>7

(* The recursion of ProcessEvents is a loop over the events. *)
LEMMA ProcessLoop ==
  ASSUME NEW g \in GroupState, NEW s \in Seq(Events)
  PROVE  \E f : Processes(f, g, s) /\ ProcessEvents(g, s) = f[Len(s)]
<1> DEFINE k == Len(s)
           G == [n \in 1..k |-> [x \in GroupState |-> ProcessEvent(x, s[n])]]
           F(f) == [n \in 0..k |-> IF n = 0 THEN g ELSE ProcessEvent(f[n - 1], s[n])]
           after == CHOOSE f : f = F(f)
<1>1. k \in Nat /\ \A n \in 1..k : s[n] \in Events
  BY Elements
<1>2. \A x \in GroupState, e \in Events : ProcessEvent(x, e) \in GroupState
  BY ProcessTypes
<1> HIDE DEF k
<1>3. G \in [1..k -> [GroupState -> GroupState]] /\ g \in GroupState
  BY <1>1, <1>2
<1>4. \A y \in GroupState, n \in 1..k : G[n][y] = ProcessEvent(y, s[n])
  OBVIOUS
<1> HIDE DEF G, F, after
<1>5. PICK f \in [0..k -> GroupState] : f[0] = g /\ \A n \in 1..k : f[n] = G[n][f[n - 1]]
  <2>1. \E f : IsLoop(f, GroupState, k, G, g)
    BY <1>1, <1>3, LoopValues
  <2> QED BY <2>1, Zenon DEF IsLoop
<1>6. \A n \in 1..k : f[n] = ProcessEvent(f[n - 1], s[n])
  <2> TAKE n \in 1..k
  <2>1. n - 1 \in 0..k
    BY <1>1
  <2>2. f[n - 1] \in GroupState
    BY <1>5, <2>1
  <2> QED BY <1>4, <1>5, <2>2
<1> USE DEF F, after
<1>7. f = F(f)
  BY <1>1, <1>5, <1>6
<1>8. after = F(after)
  BY <1>7, Zenon
<1>9. ProcessEvents(g, s) = after[k]
  BY DEF ProcessEvents, k
<1> HIDE DEF after
<1>10. /\ after[0] = g
       /\ \A n \in 1..k : after[n] = ProcessEvent(after[n - 1], s[n])
  BY <1>1, <1>8
<1> DEFINE S == {n \in Nat : n <= k => after[n] \in GroupState}
<1>11. 0 \in S
  BY <1>10
<1>12. ASSUME NEW n \in Nat, n \in S PROVE n + 1 \in S
  <2> SUFFICES ASSUME n + 1 <= k PROVE after[n + 1] \in GroupState
    OBVIOUS
  <2>1. n + 1 \in 1..k /\ (n + 1) - 1 = n /\ after[n] \in GroupState
    BY <1>1, <1>12
  <2>2. after[n + 1] = ProcessEvent(after[n], s[n + 1])
    BY <1>10, <2>1
  <2> QED BY <1>1, <1>2, <2>1, <2>2
<1> HIDE DEF S
<1>13. Nat \subseteq S
  BY <1>11, <1>12, Induction
<1>14. \A n \in 0..k : after[n] \in GroupState
  BY <1>1, <1>13 DEF S
<1>15. after \in [0..k -> GroupState]
  <2>1. after = [n \in 0..k |-> after[n]]
    BY <1>8
  <2> QED BY <1>14, <2>1
<1> QED BY <1>9, <1>10, <1>15 DEF Processes, k

(* More events can be processed later. *)
LEMMA ProcessMore ==
  ASSUME NEW g \in GroupState, NEW s \in Seq(Events), NEW t \in Seq(Events)
  PROVE  /\ ProcessEvents(g, s) \in GroupState
         /\ ProcessEvents(g, s \o t) = ProcessEvents(ProcessEvents(g, s), t)
<1> DEFINE k == Len(s)
           l == Len(t)
           u == s \o t
<1>1. /\ k \in Nat /\ l \in Nat /\ u \in Seq(Events) /\ Len(u) = k + l
      /\ \A n \in 1..k : u[n] = s[n]
      /\ \A n \in 1..l : u[k + n] = t[n]
  OBVIOUS
<1>2. PICK f : Processes(f, g, s) /\ ProcessEvents(g, s) = f[k]
  BY ProcessLoop
<1>3. PICK h : Processes(h, g, u) /\ ProcessEvents(g, u) = h[k + l]
  BY <1>1, ProcessLoop, Zenon
<1> HIDE DEF u
<1> DEFINE first == [n \in 0..k |-> h[n]]
           rest == [n \in 0..l |-> h[k + n]]
<1>4. /\ h \in [0..(k + l) -> GroupState] /\ h[0] = g
      /\ \A n \in 1..(k + l) : h[n] = ProcessEvent(h[n - 1], u[n])
  BY <1>1, <1>3 DEF Processes
<1>5. Processes(first, g, s)
  <2> HIDE DEF k, l
  <2>1. first \in [0..k -> GroupState] /\ first[0] = g
    BY <1>1, <1>4
  <2>2. \A n \in 1..k : first[n] = ProcessEvent(first[n - 1], s[n])
    BY <1>1, <1>4
  <2> QED BY <2>1, <2>2, Zenon DEF Processes, k
<1>6. f = first
  BY <1>2, <1>5, ProcessUnique
<1>7. f[k] = h[k] /\ f[k] \in GroupState
  BY <1>1, <1>2, <1>6 DEF Processes
<1>8. PICK r : Processes(r, f[k], t) /\ ProcessEvents(f[k], t) = r[l]
  BY <1>7, ProcessLoop
<1>9. Processes(rest, f[k], t)
  <2> HIDE DEF k, l
  <2>1. rest \in [0..l -> GroupState] /\ rest[0] = f[k]
    BY <1>1, <1>4, <1>7
  <2>2. ASSUME NEW n \in 1..l PROVE rest[n] = ProcessEvent(rest[n - 1], t[n])
    <3>1. k + n \in 1..(k + l) /\ (k + n) - 1 = k + (n - 1) /\ n - 1 \in 0..l /\ n \in 0..l
      BY <1>1
    <3>2. h[k + n] = ProcessEvent(h[k + (n - 1)], u[k + n]) /\ u[k + n] = t[n]
      BY <1>1, <1>4, <3>1
    <3> QED BY <3>1, <3>2
  <2> QED BY <2>1, <2>2, Zenon DEF Processes, l
<1>10. r = rest
  BY <1>8, <1>9, ProcessUnique
<1>11. r[l] = h[k + l]
  BY <1>1, <1>10
<1> QED BY <1>2, <1>3, <1>7, <1>8, <1>11 DEF u
-----------------------------------------------------------------------------
(* newGroup gives a group, valid or not. *)
LEMMA GroupTyped ==
  ASSUME NEW s \in Seq(Events)
  PROVE  newGroup(s) \in GroupState
<1> DEFINE g == ProcessEvents(Nobody, sortEvents(s))
           v == g.valid /\ FoundedByCreator(sortEvents(s))
<1>1. Nobody \in GroupState /\ sortEvents(s) \in Seq(Events) /\ <<>> \in Seq(Events)
  BY SortOrders DEF Nobody, GroupState
<1>2. g \in GroupState
  BY <1>1, ProcessMore
<1>3. newGroup(s) = [g EXCEPT !.valid = v]
  BY DEF newGroup, Nobody, FoundedByCreator
<1>4. v \in BOOLEAN
  BY <1>2 DEF GroupState, FoundedByCreator
<1> HIDE DEF g, v
<1> QED BY <1>2, <1>3, <1>4 DEF GroupState

(* The group of sorted events is what they lead to. *)
LEMMA GroupOfSorted ==
  ASSUME NEW s \in Seq(Events), Sorted(s)
  PROVE  LET g == ProcessEvents(Nobody, s) IN
         /\ g \in GroupState
         /\ newGroup(s).admins = g.admins /\ newGroup(s).members = g.members
         /\ newGroup(s).valid <=> g.valid /\ FoundedByCreator(s)
<1> DEFINE g == ProcessEvents(Nobody, s)
           v == g.valid /\ FoundedByCreator(s)
<1>1. Nobody \in GroupState /\ sortEvents(s) = s /\ <<>> \in Seq(Events)
  BY SortIdle DEF Nobody, GroupState
<1>2. g \in GroupState
  BY <1>1, ProcessMore
<1>3. newGroup(s) = [g EXCEPT !.valid = v]
  BY <1>1 DEF newGroup, Nobody, FoundedByCreator
<1> HIDE DEF g, v
<1>4. newGroup(s).valid = v /\ newGroup(s).admins = g.admins /\ newGroup(s).members = g.members
  BY <1>2, <1>3 DEF GroupState
<1> QED BY <1>2, <1>4, Zenon DEF g, v

(* Sorting the events first makes no difference. *)
LEMMA GroupSorts ==
  ASSUME NEW s \in Seq(Events)
  PROVE  newGroup(sortEvents(s)) = newGroup(s)
<1>1. sortEvents(s) \in Seq(Events) /\ sortEvents(sortEvents(s)) = sortEvents(s)
  BY SortOrders, SortIdle
<1> QED BY <1>1 DEF newGroup

(* New events in their order after those of a valid group. *)
LEMMA GroupExtends ==
  ASSUME NEW s \in Seq(Events), NEW t \in Seq(Events), Sorted(s \o t), newGroup(s).valid
  PROVE  newGroup(s \o t) = ProcessEvents(newGroup(s), t)
<1> DEFINE u == s \o t
           g == ProcessEvents(Nobody, s)
           h == ProcessEvents(Nobody, u)
<1>1. /\ u \in Seq(Events) /\ Len(u) = Len(s) + Len(t) /\ Len(s) \in Nat /\ Len(t) \in Nat
      /\ \A i \in 1..Len(s) : u[i] = s[i]
  OBVIOUS
<1> HIDE DEF u
<1>2. Sorted(u) /\ Sorted(s)
  <2>1. \A i \in 1..Len(s) : i \in 1..Len(u)
    BY <1>1
  <2> QED BY <1>1, <2>1 DEF Sorted, u
<1>3. /\ g \in GroupState /\ g.valid /\ FoundedByCreator(s)
      /\ newGroup(s).admins = g.admins /\ newGroup(s).members = g.members
  BY <1>2, GroupOfSorted
<1>4. newGroup(s) = g
  BY <1>3, GroupTyped DEF GroupState
<1>5. Nobody \in GroupState
  BY DEF Nobody, GroupState
<1>6. h = ProcessEvents(g, t)
  BY <1>5, ProcessMore DEF u
<1>7. s # <<>> /\ 1 \in 1..Len(s) /\ u # <<>> /\ u[1] = s[1]
  <2>1. s # <<>>
    BY <1>3 DEF FoundedByCreator
  <2>2. Len(s) # 0
    BY <2>1
  <2>3. 1 \in 1..Len(s) /\ Len(u) # 0
    BY <1>1, <2>2
  <2> QED BY <1>1, <2>1, <2>3
<1>8. FoundedByCreator(u)
  BY <1>3, <1>7 DEF FoundedByCreator
<1>9. /\ h \in GroupState
      /\ newGroup(u).admins = h.admins /\ newGroup(u).members = h.members
      /\ newGroup(u).valid <=> h.valid
  BY <1>1, <1>2, <1>8, GroupOfSorted
<1> HIDE DEF g, h
<1>10. newGroup(u) \in GroupState
  BY <1>1, GroupTyped
<1>11. newGroup(u) = h
  BY <1>9, <1>10 DEF GroupState
<1> QED BY <1>4, <1>6, <1>11 DEF u

(* Nobody is a member of a group without events. *)
LEMMA EmptyGroup == newGroup(<<>>).members = {}
<1>1. <<>> \in Seq(Events) /\ Len(<<>>) = 0 /\ Nobody \in GroupState
  BY DEF Nobody, GroupState
<1>2. Sorted(<<>>)
  BY DEF Sorted
<1>3. newGroup(<<>>).members = ProcessEvents(Nobody, <<>>).members
  BY <1>1, <1>2, GroupOfSorted, Zenon
<1>4. PICK f : Processes(f, Nobody, <<>>) /\ ProcessEvents(Nobody, <<>>) = f[Len(<<>>)]
  BY <1>1, ProcessLoop, Zenon
<1>5. ProcessEvents(Nobody, <<>>) = Nobody
  BY <1>1, <1>4 DEF Processes
<1> QED BY <1>3, <1>5 DEF Nobody

(* Events and later ones that are appended. *)
LEMMA Concatenation ==
  ASSUME NEW s \in Seq(Events), NEW t \in Seq(Events)
  PROVE  /\ s \o t \in Seq(Events) /\ Range(s \o t) = Range(s) \cup Range(t)
         /\ Sorted(s) /\ Sorted(t) /\ (\A e \in Range(s), f \in Range(t) : e.clock <= f.clock)
            => Sorted(s \o t)
<1> DEFINE u == s \o t
           k == Len(s)
           l == Len(t)
<1>1. /\ u \in Seq(Events) /\ Len(u) = k + l /\ k \in Nat /\ l \in Nat
      /\ \A i \in 1..k : u[i] = s[i]
      /\ \A i \in 1..l : u[k + i] = t[i]
  OBVIOUS
<1> HIDE DEF u, k, l
<1>2. /\ Range(s) = {s[i] : i \in 1..k} /\ Range(t) = {t[i] : i \in 1..l}
      /\ Range(u) = {u[i] : i \in 1..(k + l)}
  BY <1>1, Elements, Zenon DEF k, l
<1>3. \A i \in 1..(k + l) : i \in 1..k \/ (i - k \in 1..l /\ k + (i - k) = i)
  BY <1>1
<1>4. \A i \in 1..k : i \in 1..(k + l)
  BY <1>1
<1>5. \A i \in 1..l : k + i \in 1..(k + l)
  BY <1>1
<1>6. Range(u) \subseteq Range(s) \cup Range(t)
  <2>1. ASSUME NEW i \in 1..(k + l) PROVE u[i] \in Range(s) \cup Range(t)
    <3>1. CASE i \in 1..k
      BY <1>1, <1>2, <3>1, Zenon
    <3>2. CASE i - k \in 1..l /\ k + (i - k) = i
      <4>1. u[i] = t[i - k]
        BY <1>1, <3>2
      <4> QED BY <1>2, <3>2, <4>1
    <3> QED BY <1>3, <3>1, <3>2
  <2> QED BY <1>2, <2>1
<1>7. Range(s) \subseteq Range(u)
  BY <1>1, <1>2, <1>4
<1>8. Range(t) \subseteq Range(u)
  BY <1>1, <1>2, <1>5
<1>9. ASSUME Sorted(s), Sorted(t), \A e \in Range(s), f \in Range(t) : e.clock <= f.clock,
             NEW i \in 1..Len(u), NEW j \in 1..Len(u), i <= j
      PROVE  u[i].clock <= u[j].clock
  <2>1. i \in 1..(k + l) /\ j \in 1..(k + l)
    BY <1>1
  <2>2. CASE j \in 1..k
    <3>1. i \in 1..k
      BY <1>1, <1>9, <2>1, <2>2
    <3> QED BY <1>1, <1>9, <2>2, <3>1 DEF Sorted, k
  <2>3. CASE i \in 1..k /\ j - k \in 1..l
    <3>1. u[i] = s[i] /\ u[j] = t[j - k]
      BY <1>1, <1>3, <2>1, <2>3
    <3>2. s[i] \in Range(s) /\ t[j - k] \in Range(t)
      BY <1>2, <2>3
    <3> QED BY <1>9, <3>1, <3>2
  <2>4. CASE i - k \in 1..l /\ j - k \in 1..l
    <3>1. k + (i - k) = i /\ k + (j - k) = j /\ i - k <= j - k
      BY <1>1, <1>9, <2>1
    <3>2. u[i] = t[i - k] /\ u[j] = t[j - k]
      BY <1>1, <2>4, <3>1, Zenon
    <3> QED BY <1>9, <2>4, <3>1, <3>2 DEF Sorted, l
  <2> QED BY <1>3, <2>1, <2>2, <2>3, <2>4
<1>10. Sorted(s) /\ Sorted(t) /\ (\A e \in Range(s), f \in Range(t) : e.clock <= f.clock) => Sorted(u)
  BY <1>9, Zenon DEF Sorted
<1> QED BY <1>1, <1>6, <1>7, <1>8, <1>10 DEF u
-----------------------------------------------------------------------------
(* What one valid event does to the members and the admins. *)
LEMMA ProcessMembers ==
  ASSUME NEW g \in GroupState, NEW e \in Events, ProcessEvent(g, e).valid
  PROVE  /\ g.valid /\ validateEvent(g, e)
         /\ \A b : b \in ProcessEvent(g, e).members <=> Adds(e, b) \/ (b \in g.members /\ ~Removes(e, b))
         /\ \A b : b \in ProcessEvent(g, e).admins <=> Appoints(e, b) \/ (b \in g.admins /\ ~Removes(e, b))
<1>1. g.valid /\ validateEvent(g, e) /\ ProcessEvent(g, e) = processEvent(g, e)
  <2>1. CASE ~(g.valid /\ validateEvent(g, e))
    <3>1. ProcessEvent(g, e) = [g EXCEPT !.valid = FALSE]
      BY <2>1 DEF ProcessEvent
    <3>2. ~ProcessEvent(g, e).valid
      BY <3>1 DEF GroupState
    <3> QED BY <3>2
  <2> QED BY <2>1 DEF ProcessEvent
<1>2. CASE e.type = "created"
  <2>1. processEvent(g, e) = [g EXCEPT !.members = g.members \cup {e.from}, !.admins = g.admins \cup {e.from}]
    BY <1>2 DEF processEvent, GroupState
  <2>2. /\ processEvent(g, e).members = g.members \cup {e.from}
        /\ processEvent(g, e).admins = g.admins \cup {e.from}
    BY <2>1 DEF GroupState
  <2> QED BY <1>1, <1>2, <2>2 DEF Adds, Appoints, Removes
<1>3. CASE e.type = "added"
  <2>1. processEvent(g, e) = [g EXCEPT !.members = g.members \cup e.members]
    BY <1>3 DEF processEvent, GroupState
  <2>2. processEvent(g, e).members = g.members \cup e.members /\ processEvent(g, e).admins = g.admins
    BY <2>1 DEF GroupState
  <2> QED BY <1>1, <1>3, <2>2 DEF Adds, Appoints, Removes
<1>4. CASE e.type = "admins"
  <2>1. processEvent(g, e) = [g EXCEPT !.admins = g.admins \cup e.members]
    BY <1>4 DEF processEvent, GroupState
  <2>2. processEvent(g, e).members = g.members /\ processEvent(g, e).admins = g.admins \cup e.members
    BY <2>1 DEF GroupState
  <2> QED BY <1>1, <1>4, <2>2 DEF Adds, Appoints, Removes
<1>5. CASE e.type = "removed"
  <2>1. processEvent(g, e) = [g EXCEPT !.members = g.members \ e.members, !.admins = g.admins \ e.members]
    BY <1>5 DEF processEvent, GroupState
  <2>2. /\ processEvent(g, e).members = g.members \ e.members
        /\ processEvent(g, e).admins = g.admins \ e.members
    BY <2>1 DEF GroupState
  <2> QED BY <1>1, <1>5, <2>2 DEF Adds, Appoints, Removes
<1>6. CASE e.type \notin {"created", "added", "admins", "removed"}
  <2>1. processEvent(g, e) = g
    BY <1>6 DEF processEvent
  <2> QED BY <1>1, <1>6, <2>1 DEF Adds, Appoints, Removes
<1> QED BY <1>2, <1>3, <1>4, <1>5, <1>6

(* Whether the last of the numbers in I and J is one of I, with one number more. *)
LEMMA LatestStep ==
  ASSUME NEW n \in Nat, NEW I, NEW J, ~(n + 1 \in I /\ n + 1 \in J)
  PROVE  (\E i \in 1..(n + 1) : i \in I /\ \A j \in 1..(n + 1) : j \in J => j < i)
         <=> \/ n + 1 \in I
             \/ /\ n + 1 \notin J
                /\ \E i \in 1..n : i \in I /\ \A j \in 1..n : j \in J => j < i
<1>1. ASSUME n + 1 \in I PROVE \E i \in 1..(n + 1) : i \in I /\ \A j \in 1..(n + 1) : j \in J => j < i
  <2>1. n + 1 \in 1..(n + 1) /\ \A j \in 1..(n + 1) : j < n + 1 \/ j = n + 1
    OBVIOUS
  <2> QED BY <1>1, <2>1
<1>2. ASSUME n + 1 \notin J, NEW i \in 1..n, i \in I, \A j \in 1..n : j \in J => j < i
      PROVE  \E k \in 1..(n + 1) : k \in I /\ \A j \in 1..(n + 1) : j \in J => j < k
  <2>1. i \in 1..(n + 1) /\ \A j \in 1..(n + 1) : j \in 1..n \/ j = n + 1
    OBVIOUS
  <2> QED BY <1>2, <2>1
<1>3. ASSUME NEW i \in 1..(n + 1), i \in I, \A j \in 1..(n + 1) : j \in J => j < i, n + 1 \notin I
      PROVE  n + 1 \notin J /\ \E k \in 1..n : k \in I /\ \A j \in 1..n : j \in J => j < k
  <2>1. i # n + 1
    BY <1>3
  <2>2. i \in 1..n /\ n + 1 \in 1..(n + 1) /\ ~(n + 1 < i) /\ \A j \in 1..n : j \in 1..(n + 1)
    BY <2>1
  <2> QED BY <1>3, <2>2
<1> QED BY <1>1, <1>2, <1>3

(* After n events, members are those added last, and admins those appointed last. *)
LEMMA ProcessedMembers ==
  ASSUME NEW s \in Seq(Events), NEW f, Processes(f, Nobody, s)
  PROVE  \A n \in 0..Len(s) : f[n].valid =>
           /\ \A b : b \in f[n].members <=> AddedLast(s, n, b)
           /\ \A b : b \in f[n].admins <=> AppointedLast(s, n, b)
           /\ \A i \in 1..n : f[i - 1].valid /\ validateEvent(f[i - 1], s[i])
<1> DEFINE k == Len(s)
           Good(n) == f[n].valid =>
                        /\ \A b : b \in f[n].members <=> AddedLast(s, n, b)
                        /\ \A b : b \in f[n].admins <=> AppointedLast(s, n, b)
                        /\ \A i \in 1..n : f[i - 1].valid /\ validateEvent(f[i - 1], s[i])
           S == {n \in Nat : n <= k => Good(n)}
<1>1. k \in Nat /\ \A i \in 1..k : s[i] \in Events
  BY Elements
<1>2. /\ f \in [0..k -> GroupState] /\ f[0] = Nobody
      /\ \A n \in 1..k : f[n] = ProcessEvent(f[n - 1], s[n])
  BY DEF Processes
<1> HIDE DEF k
<1>3. 0 \in S
  BY <1>2 DEF Nobody, AddedLast, AppointedLast
<1>4. ASSUME NEW n \in Nat, n \in S PROVE n + 1 \in S
  <2> SUFFICES ASSUME n + 1 <= k, f[n + 1].valid
               PROVE  /\ \A b : b \in f[n + 1].members <=> AddedLast(s, n + 1, b)
                      /\ \A b : b \in f[n + 1].admins <=> AppointedLast(s, n + 1, b)
                      /\ \A i \in 1..(n + 1) : f[i - 1].valid /\ validateEvent(f[i - 1], s[i])
    OBVIOUS
  <2> DEFINE e == s[n + 1]
             g == f[n]
             h == f[n + 1]
  <2>1. n + 1 \in 1..k /\ (n + 1) - 1 = n /\ n \in 0..k
    BY <1>1
  <2>2. h = ProcessEvent(g, e) /\ e \in Events /\ g \in GroupState
    BY <1>1, <1>2, <2>1, Zenon
  <2>3. Good(n)
    BY <1>4, <2>1
  <2>4. /\ g.valid /\ validateEvent(g, e)
        /\ \A b : b \in h.members <=> Adds(e, b) \/ (b \in g.members /\ ~Removes(e, b))
        /\ \A b : b \in h.admins <=> Appoints(e, b) \/ (b \in g.admins /\ ~Removes(e, b))
    <3>1. h.valid
      OBVIOUS
    <3> HIDE DEF g, e, h, Good, S
    <3>2. /\ g.valid /\ validateEvent(g, e)
          /\ \A b : b \in ProcessEvent(g, e).members <=> Adds(e, b) \/ (b \in g.members /\ ~Removes(e, b))
          /\ \A b : b \in ProcessEvent(g, e).admins <=> Appoints(e, b) \/ (b \in g.admins /\ ~Removes(e, b))
      BY <2>2, <3>1, ProcessMembers, Zenon
    <3> QED BY <2>2, <3>2
  <2>5. /\ \A b : b \in g.members <=> AddedLast(s, n, b)
        /\ \A b : b \in g.admins <=> AppointedLast(s, n, b)
        /\ \A i \in 1..n : f[i - 1].valid /\ validateEvent(f[i - 1], s[i])
    BY <2>3, <2>4
  <2>6. ASSUME NEW b
        PROVE  /\ AddedLast(s, n + 1, b) <=> Adds(e, b) \/ (AddedLast(s, n, b) /\ ~Removes(e, b))
               /\ AppointedLast(s, n + 1, b) <=> Appoints(e, b) \/ (AppointedLast(s, n, b) /\ ~Removes(e, b))
    <3> DEFINE I == {i \in 1..k : Adds(s[i], b)}
               A == {i \in 1..k : Appoints(s[i], b)}
               J == {i \in 1..k : Removes(s[i], b)}
    <3>1. ~(Adds(e, b) /\ Removes(e, b)) /\ ~(Appoints(e, b) /\ Removes(e, b))
      BY DEF Adds, Appoints, Removes
    <3>2. /\ n + 1 \in I <=> Adds(e, b)
          /\ n + 1 \in A <=> Appoints(e, b)
          /\ n + 1 \in J <=> Removes(e, b)
      BY <2>1
    <3>3. \A i \in 1..(n + 1) : i \in 1..k
      BY <1>1, <2>1
    <3>4. \A i \in 1..n : i \in 1..k
      BY <1>1, <2>1
    <3>5. /\ AddedLast(s, n + 1, b) <=> \E i \in 1..(n + 1) : i \in I /\ \A j \in 1..(n + 1) : j \in J => j < i
          /\ AppointedLast(s, n + 1, b) <=> \E i \in 1..(n + 1) : i \in A /\ \A j \in 1..(n + 1) : j \in J => j < i
      BY <3>3 DEF AddedLast, AppointedLast
    <3>6. /\ AddedLast(s, n, b) <=> \E i \in 1..n : i \in I /\ \A j \in 1..n : j \in J => j < i
          /\ AppointedLast(s, n, b) <=> \E i \in 1..n : i \in A /\ \A j \in 1..n : j \in J => j < i
      BY <3>4 DEF AddedLast, AppointedLast
    <3> HIDE DEF I, A, J, e
    <3>7. AddedLast(s, n + 1, b) <=> n + 1 \in I \/ (n + 1 \notin J /\ AddedLast(s, n, b))
      BY <3>1, <3>2, <3>5, <3>6, LatestStep
    <3>8. AppointedLast(s, n + 1, b) <=> n + 1 \in A \/ (n + 1 \notin J /\ AppointedLast(s, n, b))
      BY <3>1, <3>2, <3>5, <3>6, LatestStep
    <3> QED BY <3>2, <3>7, <3>8, Zenon
  <2>7. \A i \in 1..(n + 1) : i \in 1..n \/ i = n + 1
    OBVIOUS
  <2>9. \A b : b \in h.members <=> AddedLast(s, n + 1, b)
    BY <2>4, <2>5, <2>6, Zenon
  <2>10. \A b : b \in h.admins <=> AppointedLast(s, n + 1, b)
    BY <2>4, <2>5, <2>6, Zenon
  <2>11. \A i \in 1..(n + 1) : f[i - 1].valid /\ validateEvent(f[i - 1], s[i])
    BY <2>1, <2>4, <2>5, <2>7
  <2> QED BY <2>9, <2>10, <2>11
<1> HIDE DEF S
<1>5. Nat \subseteq S
  BY <1>3, <1>4, Induction
<1>6. \A n \in 0..k : Good(n)
  BY <1>1, <1>5 DEF S
<1> QED BY <1>6 DEF k

(* The members and admins of a valid group. *)
LEMMA GroupMembers ==
  ASSUME NEW s \in Seq(Events), Sorted(s), newGroup(s).valid
  PROVE  /\ \A b : b \in newGroup(s).members <=> AddedLast(s, Len(s), b)
         /\ \A b : b \in newGroup(s).admins <=> AppointedLast(s, Len(s), b)
         /\ FoundedByCreator(s)
         /\ \A i \in 1..Len(s) : \E g \in GroupState :
              /\ validateEvent(g, s[i])
              /\ \A b : b \in g.members <=> AddedLast(s, i - 1, b)
              /\ \A b : b \in g.admins <=> AppointedLast(s, i - 1, b)
<1>1. Nobody \in GroupState
  BY DEF Nobody, GroupState
<1>2. PICK f : Processes(f, Nobody, s) /\ ProcessEvents(Nobody, s) = f[Len(s)]
  BY <1>1, ProcessLoop
<1>3. /\ newGroup(s).admins = f[Len(s)].admins /\ newGroup(s).members = f[Len(s)].members
      /\ f[Len(s)].valid /\ FoundedByCreator(s)
  BY <1>2, GroupOfSorted
<1>4. Len(s) \in 0..Len(s) /\ Range(s) = {s[i] : i \in 1..Len(s)}
  BY Elements
<1>5. /\ \A b : b \in f[Len(s)].members <=> AddedLast(s, Len(s), b)
      /\ \A b : b \in f[Len(s)].admins <=> AppointedLast(s, Len(s), b)
  BY <1>2, <1>3, <1>4, ProcessedMembers, Zenon
<1>6. ASSUME NEW i \in 1..Len(s)
      PROVE  \E g \in GroupState :
               /\ validateEvent(g, s[i])
               /\ \A b : b \in g.members <=> AddedLast(s, i - 1, b)
               /\ \A b : b \in g.admins <=> AppointedLast(s, i - 1, b)
  <2> DEFINE n == i - 1
  <2>1. n \in 0..Len(s) /\ Len(s) \in 0..Len(s)
    BY <1>4, Elements
  <2>2. f[n].valid /\ validateEvent(f[n], s[i])
    BY <1>2, <1>3, <2>1, ProcessedMembers, Zenon
  <2> HIDE DEF n
  <2>3. /\ \A b : b \in f[n].members <=> AddedLast(s, n, b)
        /\ \A b : b \in f[n].admins <=> AppointedLast(s, n, b)
    BY <1>2, <2>1, <2>2, ProcessedMembers
  <2>4. f[n] \in GroupState
    BY <1>2, <2>1, Zenon DEF Processes
  <2> QED BY <2>2, <2>3, <2>4 DEF n
<1> QED BY <1>3, <1>4, <1>5, <1>6, Zenon

(* ProcessEvents of one event. *)
LEMMA ProcessOne ==
  ASSUME NEW g \in GroupState, NEW new \in Seq(Events), Len(new) = 1
  PROVE  ProcessEvents(g, new) = ProcessEvent(g, new[1])
<1>1. PICK f : Processes(f, g, new) /\ ProcessEvents(g, new) = f[1]
  BY ProcessLoop, Zenon
<1>2. f[0] = g /\ f[1] = ProcessEvent(f[1 - 1], new[1])
  BY <1>1 DEF Processes
<1> QED BY <1>1, <1>2

(* A group with new events in between does not add b unless one of the new ones does. *)
LEMMA StaysOut ==
  ASSUME NEW s \in Seq(Events), NEW t \in Seq(Events), Embeds(s, t), NEW b,
         ~AddedLast(s, Len(s), b), AddedLast(t, Len(t), b)
  PROVE  \E e \in Range(t) \ Range(s) : Adds(e, b)
<1> DEFINE n == Len(s)
           l == Len(t)
<1>1. PICK i \in 1..l : Adds(t[i], b) /\ \A j \in 1..l : Removes(t[j], b) => j < i
  BY DEF AddedLast
<1>2. PICK h \in [1..n -> 1..l] :
        /\ \A k \in 1..n : t[h[k]] = s[k]
        /\ \A k, j \in 1..n : k < j => h[k] < h[j]
        /\ \A k \in 1..l : t[k] \in Range(s) => \E j \in 1..n : h[j] = k
  BY Zenon DEF Embeds
<1>3. /\ n \in Nat /\ l \in Nat /\ \A k \in 1..l : t[k] \in Range(t)
  BY Elements
<1>4. \A k \in 1..n : Adds(s[k], b) => \E j \in 1..n : Removes(s[j], b) /\ ~(j < k)
  BY DEF AddedLast
<1> HIDE DEF n, l
<1>5. t[i] \notin Range(s)
  <2> SUFFICES ASSUME t[i] \in Range(s) PROVE FALSE
    OBVIOUS
  <2>1. PICK k \in 1..n : h[k] = i
    BY <1>2
  <2>2. Adds(s[k], b)
    BY <1>1, <1>2, <2>1
  <2>3. PICK j \in 1..n : Removes(s[j], b) /\ ~(j < k)
    BY <1>4, <2>2
  <2>4. j # k
    BY <2>2, <2>3 DEF Adds, Removes
  <2>5. k < j
    BY <1>3, <2>3, <2>4
  <2>6. h[j] \in 1..l /\ Removes(t[h[j]], b) /\ h[k] < h[j]
    BY <1>2, <2>3, <2>5
  <2>7. h[j] < i
    BY <1>1, <2>6
  <2> QED BY <1>3, <2>1, <2>6, <2>7
<1> QED BY <1>1, <1>3, <1>5

(* The elements of a list are finitely many. *)
LEMMA FiniteRange ==
  ASSUME NEW s \in Seq(Events)
  PROVE  IsFiniteSet(Range(s))
<1>1. Len(s) \in Nat /\ Range(s) = {s[i] : i \in 1..Len(s)}
  BY Elements
<1>2. IsFiniteSet(1..Len(s))
  BY <1>1, FS_Interval
<1>3. s \in Surjection(1..Len(s), Range(s))
  BY <1>1 DEF Surjection
<1> QED BY <1>2, <1>3, FS_Surjection DEF ExistsSurjection

(* Who is a member of a sorted valid group has an addition not before any removal. *)
LEMMA MembersAreAdded ==
  ASSUME NEW s \in Seq(Events), Sorted(s), newGroup(s).valid, NEW b, b \in newGroup(s).members
  PROVE  \E e \in Range(s) : Adds(e, b) /\ \A r \in Range(s) : Removes(r, b) => r.clock <= e.clock
<1>1. PICK i \in 1..Len(s) : Adds(s[i], b) /\ \A j \in 1..Len(s) : Removes(s[j], b) => j < i
  BY GroupMembers DEF AddedLast
<1>2. /\ Len(s) \in Nat /\ Range(s) = {s[j] : j \in 1..Len(s)}
      /\ \A j \in 1..Len(s) : j < i => s[j].clock <= s[i].clock
  BY Elements DEF Sorted
<1>3. \A r \in Range(s) : Removes(r, b) => r.clock <= s[i].clock
  BY <1>1, <1>2
<1> QED BY <1>1, <1>2, <1>3, Zenon
(* Inserting an event does not repeat the creation. *)
LEMMA InsertOnce ==
  ASSUME NEW s \in Seq(Events), NEW e \in Events, NEW t, NEW p \in 1..(Len(s) + 1),
         InsertedAt(p, s, e, t), Once(s),
         e.type = "created" => \A d \in Range(s) : d.type # "created"
  PROVE  Once(t)
<1> DEFINE n == Len(s)
           old(i) == IF i < p THEN i ELSE i - 1
<1>1. n \in Nat /\ Len(t) = n + 1 /\ Range(s) = {s[i] : i \in 1..n}
  BY Elements DEF InsertedAt
<1>2. \A i \in 1..(n + 1) : i # p => old(i) \in 1..n /\ t[i] = s[old(i)]
  <2> TAKE i \in 1..(n + 1)
  <2> HAVE i # p
  <2>1. CASE i < p
    <3>1. i \in 1..(p - 1) /\ i \in 1..n
      BY <1>1, <2>1
    <3> QED BY <2>1, <3>1 DEF InsertedAt
  <2>2. CASE p < i
    <3>1. i \in (p + 1)..(Len(s) + 1) /\ i - 1 \in 1..n /\ ~(i < p)
      BY <1>1, <2>2
    <3> QED BY <3>1 DEF InsertedAt
  <2> QED BY <1>1, <2>1, <2>2
<1>3. \A i, j \in 1..(n + 1) : i # p /\ j # p /\ old(i) = old(j) => i = j
  BY <1>1
<1>4. t[p] = e
  BY DEF InsertedAt
<1> HIDE DEF n, old
<1> SUFFICES ASSUME NEW i \in 1..(n + 1), NEW j \in 1..(n + 1),
                    t[i].type = "created", t[j].type = "created"
             PROVE  i = j
  BY <1>1 DEF Once
<1>5. CASE i = p /\ j # p
  BY <1>1, <1>2, <1>4, <1>5, Zenon
<1>6. CASE i # p /\ j = p
  BY <1>1, <1>2, <1>4, <1>6
<1>7. CASE i # p /\ j # p
  BY <1>2, <1>3, <1>7 DEF Once, n
<1> QED BY <1>5, <1>6, <1>7

(* Nor does sorting. *)
LEMMA SortOnce ==
  ASSUME NEW s \in Seq(Events), Once(s)
  PROVE  Once(sortEvents(s))
<1>1. PICK f : Sorts(f, s) /\ sortEvents(s) = f[Len(s)]
  BY SortLoop
<1> DEFINE k == Len(s)
           S == {n \in Nat : n <= k => Once(f[n]) /\ Range(f[n]) = {s[i] : i \in 1..n}}
<1>2. k \in Nat /\ (\A n \in 1..k : s[n] \in Events)
  BY Elements
<1>3. /\ \A n \in 0..k : f[n] \in Seq(Events)
      /\ f[0] = <<>> /\ \A n \in 1..k : f[n] = insertEvent(f[n - 1], s[n])
  BY <1>1 DEF Sorts
<1> HIDE DEF k
<1>4. 0 \in S
  BY <1>3 DEF Once, Range
<1>5. ASSUME NEW n \in Nat, n \in S PROVE n + 1 \in S
  <2> SUFFICES ASSUME n + 1 <= k
               PROVE  Once(f[n + 1]) /\ Range(f[n + 1]) = {s[i] : i \in 1..(n + 1)}
    OBVIOUS
  <2> DEFINE v == f[n]
             w == f[n + 1]
             e == s[n + 1]
  <2>1. n + 1 \in 1..k /\ (n + 1) - 1 = n /\ n \in 0..k
    BY <1>2
  <2>2. w = insertEvent(v, e) /\ v \in Seq(Events) /\ e \in Events
    BY <1>2, <1>3, <2>1
  <2>3. Once(v) /\ Range(v) = {s[i] : i \in 1..n}
    BY <1>5, <2>1
  <2>4. {s[i] : i \in 1..(n + 1)} = {s[i] : i \in 1..n} \cup {e}
    OBVIOUS
  <2>5. e.type = "created" => \A d \in Range(v) : d.type # "created"
    <3>1. \A i \in 1..n : i \in 1..k /\ i # n + 1
      BY <1>2, <2>1
    <3> QED BY <2>1, <2>3, <3>1 DEF Once, k
  <2> HIDE DEF v, w, e, S
  <2>6. PICK p \in 1..(Len(v) + 1) : InsertedAt(p, v, e, w)
    BY <2>2, InsertionPlace
  <2>7. Range(w) = Range(v) \cup {e}
    BY <2>2, <2>6, Insertion
  <2>8. Once(w)
    BY <2>2, <2>3, <2>5, <2>6, InsertOnce
  <2>9. Range(w) = {s[i] : i \in 1..(n + 1)}
    BY <2>3, <2>4, <2>7, Zenon
  <2> QED BY <2>8, <2>9 DEF w
<1> HIDE DEF S
<1>6. k \in S
  BY <1>2, <1>4, <1>5, Induction, Zenon
<1> QED BY <1>1, <1>2, <1>6 DEF S, k

(* Nor does merging, if both sides have the same creation. *)
LEMMA MergeOnce ==
  ASSUME NEW dest \in Seq(Events), NEW src \in Seq(Events), Once(dest),
         \A c \in Range(src) : c.type = "created" => c \in Range(dest)
  PROVE  Once(MergeMembershipUpdateEvents(dest, src))
<1>1. PICK f : MergeSteps(f, dest, src) /\ MergeMembershipUpdateEvents(dest, src) = f[Len(src)]
  BY MergeLoop
<1> DEFINE k == Len(src)
           S == {n \in Nat : n <= k => Range(dest) \subseteq Range(f[n]) /\ Once(f[n])}
<1>2. k \in Nat /\ (\A n \in 1..k : src[n] \in Events) /\ Range(src) = {src[i] : i \in 1..k}
  BY Elements
<1>3. /\ \A n \in 0..k : f[n] \in Seq(Events)
      /\ f[0] = dest /\ \A n \in 1..k : f[n] = appendEvent(f[n - 1], src[n])
  BY <1>1 DEF MergeSteps
<1> HIDE DEF k
<1>4. 0 \in S
  BY <1>3
<1>5. ASSUME NEW n \in Nat, n \in S PROVE n + 1 \in S
  <2> SUFFICES ASSUME n + 1 <= k
               PROVE  Range(dest) \subseteq Range(f[n + 1]) /\ Once(f[n + 1])
    OBVIOUS
  <2> DEFINE s == f[n]
             t == f[n + 1]
             e == src[n + 1]
  <2>1. n + 1 \in 1..k /\ (n + 1) - 1 = n /\ n \in 0..k
    BY <1>2
  <2>2. t = appendEvent(s, e) /\ s \in Seq(Events) /\ e \in Events /\ e \in Range(src)
    BY <1>2, <1>3, <2>1
  <2>3. Range(dest) \subseteq Range(s) /\ Once(s)
    BY <1>5, <2>1
  <2> HIDE DEF s, t, e, S
  <2>4. Range(t) = Range(s) \cup {e}
    BY <2>2, Appending, Zenon
  <2>5. CASE e \in Range(s)
    BY <2>2, <2>3, <2>5 DEF appendEvent, t
  <2>6. CASE e \notin Range(s)
    <3>1. e.type # "created" /\ t = Append(s, e)
      BY <2>2, <2>3, <2>6 DEF appendEvent
    <3>2. /\ Len(t) = Len(s) + 1 /\ t[Len(s) + 1] = e /\ Len(s) \in Nat
          /\ \A i \in 1..Len(s) : t[i] = s[i]
      BY <2>2, <3>1
    <3>3. \A i \in 1..Len(t) : i \in 1..Len(s) \/ i = Len(s) + 1
      BY <3>2
    <3>4. Once(t)
      BY <2>3, <3>1, <3>2, <3>3 DEF Once
    <3> QED BY <2>3, <2>4, <3>4 DEF t
  <2> QED BY <2>5, <2>6
<1> HIDE DEF S
<1>6. k \in S
  BY <1>2, <1>4, <1>5, Induction, Zenon
<1> QED BY <1>1, <1>2, <1>6 DEF S, k

(* What is signed in a valid group is supported by the events that were there. *)
LEMMA SignedSupported ==
  ASSUME NEW s \in Seq(Events), NEW new \in Seq(Events), Independent(new),
         Sorted(s \o new), newGroup(s \o new).valid,
         \A d \in Range(s), e \in Range(new) : d.clock < e.clock
  PROVE  \A e \in Range(new) : SupportedBy(Range(s), e)
<1> DEFINE u == s \o new
           n == Len(s)
           k == Len(new)
<1>1. /\ u \in Seq(Events) /\ Len(u) = n + k /\ n \in Nat /\ k \in Nat
      /\ \A i \in 1..n : u[i] = s[i]
      /\ \A i \in 1..k : u[n + i] = new[i]
  OBVIOUS
<1>2. Sorted(u) /\ newGroup(u).valid
  OBVIOUS
<1>3. /\ Range(new) = {new[i] : i \in 1..k} /\ Range(s) = {s[i] : i \in 1..n}
      /\ \A i \in 1..k : new[i] \in Events
  BY Elements
<1> HIDE DEF u, n, k
<1>4. ASSUME NEW p \in 1..k
      PROVE  \E g \in GroupState :
               /\ validateEvent(g, new[p])
               /\ \A b \in g.members : AddedBefore(Range(s), new[p], b)
               /\ \A b \in g.admins : AppointedBefore(Range(s), new[p], b)
  <2> DEFINE i == n + p
  <2>1. i \in 1..Len(u) /\ u[i] = new[p] /\ new[p] \in Range(new)
    BY <1>1, <1>3
  <2>2. PICK g \in GroupState :
          /\ validateEvent(g, u[i])
          /\ \A b : b \in g.members <=> AddedLast(u, i - 1, b)
          /\ \A b : b \in g.admins <=> AppointedLast(u, i - 1, b)
    BY <1>1, <1>2, <2>1, GroupMembers, Zenon
  <2>3. ASSUME NEW j \in 1..(i - 1), NEW b, Adds(u[j], b) \/ Appoints(u[j], b)
        PROVE  u[j] \in Range(s)
    <3>1. CASE j <= n
      <4>1. j \in 1..n
        BY <1>1, <3>1
      <4> QED BY <1>1, <1>3, <4>1, Zenon
    <3>2. CASE n < j
      <4> DEFINE q == j - n
      <4>1. q \in 1..k /\ j = n + q /\ q < p /\ k # 1
        BY <1>1, <3>2
      <4>2. u[j] = new[q]
        BY <1>1, <4>1
      <4>3. new[q].type = "removed" \/ new[q].type \in DetailsChanged
        BY <4>1, Zenon DEF Independent, k
      <4> QED BY <2>3, <4>2, <4>3 DEF Adds, Appoints, DetailsChanged
    <3> QED BY <1>1, <3>1, <3>2
  <2>4. ASSUME NEW b \in g.members PROVE AddedBefore(Range(s), new[p], b)
    <3>1. PICK j \in 1..(i - 1) : Adds(u[j], b)
      BY <2>2 DEF AddedLast
    <3>2. u[j] \in Range(s)
      BY <2>3, <3>1, Zenon
    <3> QED BY <2>1, <3>1, <3>2, Zenon DEF AddedBefore
  <2>5. ASSUME NEW b \in g.admins PROVE AppointedBefore(Range(s), new[p], b)
    <3>1. PICK j \in 1..(i - 1) : Appoints(u[j], b)
      BY <2>2 DEF AppointedLast
    <3>2. u[j] \in Range(s)
      BY <2>3, <3>1, Zenon
    <3> QED BY <2>1, <3>1, <3>2, Zenon DEF AppointedBefore
  <2> QED BY <2>1, <2>2, <2>4, <2>5, Zenon
<1>5. ASSUME NEW e, NEW g \in GroupState, validateEvent(g, e)
      PROVE  /\ e.type \in DetailsChanged \cup {"added"} => e.from \in g.admins \cup g.members
             /\ e.type = "joined" => e.from \in g.members
             /\ e.type = "admins" => e.from \in g.admins /\ e.members \cap g.members # {}
  <2>1. CASE e.type \in DetailsChanged \cup {"added"}
    BY <1>5, <2>1, Zenon DEF validateEvent, DetailsChanged
  <2>2. CASE e.type = "joined"
    BY <1>5, <2>2 DEF validateEvent, DetailsChanged
  <2>3. CASE e.type = "admins"
    BY <1>5, <2>3, Zenon DEF validateEvent, DetailsChanged
  <2> QED BY <2>1, <2>2, <2>3 DEF DetailsChanged
<1>6. ASSUME NEW p \in 1..k
      PROVE  LET e == new[p] IN
             /\ e.type \in DetailsChanged \cup {"added"} =>
                  AddedBefore(Range(s), e, e.from) \/ AppointedBefore(Range(s), e, e.from)
             /\ e.type = "joined" => AddedBefore(Range(s), e, e.from)
             /\ e.type = "admins" => /\ AppointedBefore(Range(s), e, e.from)
                                     /\ \E b \in e.members : AddedBefore(Range(s), e, b)
  <2> DEFINE e == new[p]
  <2>1. PICK g \in GroupState :
          /\ validateEvent(g, e)
          /\ \A b \in g.members : AddedBefore(Range(s), e, b)
          /\ \A b \in g.admins : AppointedBefore(Range(s), e, b)
    BY <1>4, Zenon
  <2> HIDE DEF e
  <2>2. /\ e.type \in DetailsChanged \cup {"added"} => e.from \in g.admins \cup g.members
        /\ e.type = "joined" => e.from \in g.members
        /\ e.type = "admins" => e.from \in g.admins /\ e.members \cap g.members # {}
    BY <1>5, <2>1, Zenon
  <2>3. /\ e.type \in DetailsChanged \cup {"added"} =>
             AddedBefore(Range(s), e, e.from) \/ AppointedBefore(Range(s), e, e.from)
        /\ e.type = "joined" => AddedBefore(Range(s), e, e.from)
        /\ e.type = "admins" => /\ AppointedBefore(Range(s), e, e.from)
                                /\ \E b \in e.members : AddedBefore(Range(s), e, b)
    BY <2>1, <2>2
  <2> QED BY <2>3 DEF e
<1> QED BY <1>3, <1>6, ZenonT(40) DEF SupportedBy

(* Members are those with an addition later than any removal, if no two  *)
(* of their additions and removals have the same clock value.            *)
LEMMA Latest ==
  ASSUME NEW s \in Seq(Events), Sorted(s), newGroup(s).valid, NEW b,
         \A e, r \in Range(s) : Adds(e, b) /\ Removes(r, b) => e.clock # r.clock
  PROVE  b \in newGroup(s).members <=>
           \E e \in Range(s) : Adds(e, b) /\ \A r \in Range(s) : Removes(r, b) => r.clock < e.clock
<1> DEFINE n == Len(s)
<1>1. b \in newGroup(s).members <=> AddedLast(s, n, b)
  BY GroupMembers
<1>2. /\ Range(s) = {s[i] : i \in 1..n} /\ n \in Nat
      /\ \A i \in 1..n : s[i].clock \in Nat
  BY Elements, Zenon
<1>3. \A i, j \in 1..n : (i <= j => s[i].clock <= s[j].clock)
  BY DEF Sorted
<1> HIDE DEF n
<1>4. ASSUME NEW i \in 1..n, NEW j \in 1..n, Adds(s[i], b), Removes(s[j], b)
      PROVE  j < i <=> s[j].clock < s[i].clock
  <2> DEFINE x == s[i].clock
             y == s[j].clock
  <2>1. s[i] \in Range(s) /\ s[j] \in Range(s)
    BY <1>2, Zenon
  <2>2. x # y
    BY <1>4, <2>1, Zenon
  <2>3. x \in Nat /\ y \in Nat
    BY <1>2, Zenon
  <2>4. (j <= i => y <= x) /\ (i <= j => x <= y)
    BY <1>3, Zenon
  <2> HIDE DEF x, y
  <2>5. i \in Nat /\ j \in Nat
    BY <1>2
  <2>6. j < i <=> y < x
    BY <2>2, <2>3, <2>4, <2>5
  <2> QED BY <2>6 DEF x, y
<1>5. ASSUME AddedLast(s, n, b)
      PROVE  \E e \in Range(s) : Adds(e, b) /\ \A r \in Range(s) : Removes(r, b) => r.clock < e.clock
  <2>1. PICK i \in 1..n : Adds(s[i], b) /\ \A j \in 1..n : Removes(s[j], b) => j < i
    BY <1>5, Zenon DEF AddedLast
  <2>2. \A j \in 1..n : Removes(s[j], b) => s[j].clock < s[i].clock
    BY <1>4, <2>1, Zenon
  <2>3. s[i] \in Range(s) /\ \A r \in Range(s) : Removes(r, b) => r.clock < s[i].clock
    BY <1>2, <2>2, Zenon
  <2> QED BY <2>1, <2>3, Zenon
<1>6. ASSUME NEW e \in Range(s), Adds(e, b), \A r \in Range(s) : Removes(r, b) => r.clock < e.clock
      PROVE  AddedLast(s, n, b)
  <2>1. PICK i \in 1..n : e = s[i]
    BY <1>2, Zenon
  <2>2. \A j \in 1..n : s[j] \in Range(s)
    BY <1>2, Zenon
  <2>3. \A j \in 1..n : Removes(s[j], b) => j < i
    BY <1>4, <1>6, <2>1, <2>2, Zenon
  <2> QED BY <1>6, <2>1, <2>3, Zenon DEF AddedLast
<1> QED BY <1>1, <1>5, <1>6, Zenon

(* Members that nobody removes. *)
LEMMA StaysMember ==
  ASSUME NEW s \in Seq(Events), Sorted(s), newGroup(s).valid, NEW d \in Range(s), NEW b,
         Adds(d, b), \A r \in Range(s) : ~Removes(r, b)
  PROVE  b \in newGroup(s).members
<1>1. Range(s) = {s[i] : i \in 1..Len(s)}
  BY Elements, Zenon
<1>2. PICK i \in 1..Len(s) : d = s[i]
  BY <1>1, Zenon
<1>3. AddedLast(s, Len(s), b)
  BY <1>1, <1>2, Zenon DEF AddedLast
<1> QED BY <1>3, GroupMembers, Zenon

(* The first of the events of a valid group creates it, no other does. *)
LEMMA ValidOnce ==
  ASSUME NEW s \in Seq(Events), Sorted(s), newGroup(s).valid, RootOf(Range(s))
  PROVE  Once(s)
<1> DEFINE n == Len(s)
<1>1. n \in Nat /\ Range(s) = {s[i] : i \in 1..n} /\ \A i \in 1..n : s[i] \in Events /\ s[i].clock \in Nat
  BY Elements, Zenon
<1>2. FoundedByCreator(s)
  BY GroupMembers
<1>3. n # 0 /\ 1 \in 1..n /\ s[1].type = "created"
  <2>1. s # <<>> /\ s[1].type = "created"
    BY <1>2 DEF FoundedByCreator
  <2>2. n # 0
    BY <2>1
  <2> QED BY <1>1, <2>1, <2>2
<1>4. ASSUME NEW i \in 1..n, s[i].type = "created", i # 1 PROVE FALSE
  <2>1. 2 \in 1..n /\ 2 <= i /\ 1 <= 2
    BY <1>1, <1>4
  <2>2. s[i] = s[1]
    BY <1>1, <1>3, <1>4 DEF RootOf
  <2>3. s[1].clock <= s[2].clock /\ s[2].clock <= s[i].clock
    BY <1>1, <1>3, <2>1, Zenon DEF Sorted
  <2>4. s[2] = s[1]
    BY <1>1, <1>3, <2>1, <2>2, <2>3 DEF RootOf
  <2>5. PICK g \in GroupState :
          /\ validateEvent(g, s[2])
          /\ \A b : b \in g.members <=> AddedLast(s, 2 - 1, b)
    BY <2>1, GroupMembers
  <2>6. g.members = {}
    BY <1>3, <2>4, <2>5, Zenon DEF validateEvent, DetailsChanged
  <2>7. AddedLast(s, 2 - 1, s[1].from)
    <3>1. 1 \in 1..(2 - 1) /\ \A j \in 1..(2 - 1) : j = 1
      OBVIOUS
    <3>2. Adds(s[1], s[1].from) /\ ~Removes(s[1], s[1].from)
      BY <1>3 DEF Adds, Removes
    <3> QED BY <3>1, <3>2 DEF AddedLast
  <2> QED BY <2>5, <2>6, <2>7
<1>5. \A i \in 1..n : s[i].type = "created" => i = 1
  BY <1>4
<1> QED BY <1>5 DEF Once

(* A validated event leaves the group valid. *)
LEMMA ProcessValid ==
  ASSUME NEW g \in GroupState, NEW e \in Events, g.valid, validateEvent(g, e)
  PROVE  ProcessEvent(g, e).valid
<1>1. ProcessEvent(g, e) = processEvent(g, e)
  BY DEF ProcessEvent
<1>2. processEvent(g, e).valid = g.valid
  <2>1. CASE e.type = "created"
    <3>1. processEvent(g, e) = [g EXCEPT !.members = g.members \cup {e.from}, !.admins = g.admins \cup {e.from}]
      BY <2>1 DEF processEvent, GroupState
    <3> QED BY <3>1, Zenon DEF GroupState
  <2>2. CASE e.type = "added"
    <3>1. processEvent(g, e) = [g EXCEPT !.members = g.members \cup e.members]
      BY <2>2 DEF processEvent, GroupState
    <3> QED BY <3>1, Zenon DEF GroupState
  <2>3. CASE e.type = "admins"
    <3>1. processEvent(g, e) = [g EXCEPT !.admins = g.admins \cup e.members]
      BY <2>3 DEF processEvent, GroupState
    <3> QED BY <3>1, Zenon DEF GroupState
  <2>4. CASE e.type = "removed"
    <3>1. processEvent(g, e) = [g EXCEPT !.members = g.members \ e.members, !.admins = g.admins \ e.members]
      BY <2>4 DEF processEvent, GroupState
    <3> QED BY <3>1, Zenon DEF GroupState
  <2>5. CASE e.type \notin {"created", "added", "admins", "removed"}
    BY <2>5, Zenon DEF processEvent
  <2> QED BY <2>1, <2>2, <2>3, <2>4, <2>5, Zenon
<1> QED BY <1>1, <1>2

(* Events that support each other are a valid group, unless they remove others. *)
LEMMA SupportedValid ==
  ASSUME NEW s \in Seq(Events), Sorted(s), Once(s), Based(Range(s)), RootOf(Range(s)),
         Supported(Range(s)), Loose(Range(s))
  PROVE  newGroup(s).valid
<1> DEFINE k == Len(s)
<1>1. /\ k \in Nat /\ Range(s) = {s[i] : i \in 1..k}
      /\ \A i \in 1..k : s[i] \in Events /\ s[i].clock \in Nat
  BY Elements
<1>2. Nobody \in GroupState
  BY DEF Nobody, GroupState
<1>3. PICK f : Processes(f, Nobody, s) /\ ProcessEvents(Nobody, s) = f[k]
  BY <1>2, ProcessLoop
<1>4. /\ f \in [0..k -> GroupState] /\ f[0] = Nobody
      /\ \A n \in 1..k : f[n] = ProcessEvent(f[n - 1], s[n])
  BY <1>3, Zenon DEF Processes
<1> HIDE DEF k
<1>5. /\ 1 \in 1..k /\ s[1].type = "created" /\ s[1].from = Creator
      /\ \A i \in 1..k : i # 1 => s[i].type # "created"
  <2>1. PICK i \in 1..k : s[i].type = "created"
    BY <1>1 DEF Based
  <2>2. 1 \in 1..k /\ 1 <= i
    BY <1>1
  <2>3. s[1].clock <= s[i].clock
    BY <2>2, Zenon DEF Sorted, k
  <2>4. s[1] = s[i] /\ s[i].from = Creator
    BY <1>1, <2>1, <2>2, <2>3 DEF RootOf
  <2>5. \A j \in 1..k : s[j].type = "created" => j = 1
    BY <2>1, <2>2, <2>4, Zenon DEF Once, k
  <2> QED BY <2>1, <2>2, <2>4, <2>5, Zenon
<1>6. ASSUME NEW n \in 1..k, NEW j \in 1..k, j < n, s[n].type # "removed", Removes(s[j], s[n].from)
      PROVE  FALSE
  <2>1. s[j].clock <= s[n].clock
    BY <1>1, <1>6 DEF Sorted, k
  <2>2. s[j].type = "removed" /\ s[n].from \in s[j].members /\ s[j] \in Range(s) /\ s[n] \in Range(s)
    BY <1>1, <1>6, Zenon DEF Removes
  <2>3. s[n].from = Creator /\ s[n].clock < s[j].clock
    BY <1>6, <2>2 DEF Loose
  <2> QED BY <1>1, <2>1, <2>3
<1>7. ASSUME NEW n \in 1..k, NEW d \in Range(s), d.clock < s[n].clock
      PROVE  \E i \in 1..(n - 1) : d = s[i]
  <2>1. PICK i \in 1..k : d = s[i]
    BY <1>1, Zenon
  <2>2. ~(n <= i)
    <3>1. n <= i => s[n].clock <= s[i].clock
      BY Zenon DEF Sorted, k
    <3> QED BY <1>1, <1>7, <2>1, <3>1
  <2>3. i \in 1..(n - 1)
    BY <1>1, <2>2
  <2> QED BY <2>1, <2>3, Zenon
<1>8. ASSUME NEW n \in 1..k, \A j \in 1..(n - 1) : s[j] \in Range(s)
      PROVE  \A b : /\ AddedBefore(Range(s), s[n], b) /\ (\A j \in 1..(n - 1) : ~Removes(s[j], b))
                       => AddedLast(s, n - 1, b)
                    /\ AppointedBefore(Range(s), s[n], b) /\ (\A j \in 1..(n - 1) : ~Removes(s[j], b))
                       => AppointedLast(s, n - 1, b)
  <2> TAKE b
  <2>1. ASSUME AddedBefore(Range(s), s[n], b), \A j \in 1..(n - 1) : ~Removes(s[j], b)
        PROVE  AddedLast(s, n - 1, b)
    <3>1. PICK d \in Range(s) : Adds(d, b) /\ d.clock < s[n].clock
      BY <2>1, Zenon DEF AddedBefore
    <3>2. PICK i \in 1..(n - 1) : d = s[i]
      BY <1>7, <3>1, Zenon
    <3> QED BY <2>1, <3>1, <3>2, Zenon DEF AddedLast
  <2>2. ASSUME AppointedBefore(Range(s), s[n], b), \A j \in 1..(n - 1) : ~Removes(s[j], b)
        PROVE  AppointedLast(s, n - 1, b)
    <3>1. PICK d \in Range(s) : Appoints(d, b) /\ d.clock < s[n].clock
      BY <2>2 DEF AppointedBefore
    <3>2. PICK i \in 1..(n - 1) : d = s[i]
      BY <1>7, <3>1
    <3> QED BY <2>2, <3>1, <3>2, Zenon DEF AppointedLast
  <2> QED BY <2>1, <2>2
<1>9. ASSUME NEW n \in 1..k, f[n - 1].valid PROVE validateEvent(f[n - 1], s[n])
  <2> DEFINE e == s[n]
             g == f[n - 1]
             S == Range(s)
  <2>1. n - 1 \in 0..k /\ \A j \in 1..(n - 1) : j \in 1..k /\ j < n
    BY <1>1
  <2>2. /\ \A b : b \in g.members <=> AddedLast(s, n - 1, b)
        /\ \A b : b \in g.admins <=> AppointedLast(s, n - 1, b)
    <3> DEFINE m == n - 1
    <3>1. m \in 0..Len(s) /\ f[m].valid
      BY <1>9, <2>1, Zenon DEF k
    <3> HIDE DEF m
    <3>2. /\ \A b : b \in f[m].members <=> AddedLast(s, m, b)
          /\ \A b : b \in f[m].admins <=> AppointedLast(s, m, b)
      BY <1>3, <3>1, ProcessedMembers, Zenon
    <3> QED BY <3>2 DEF m
  <2>3. e \in S /\ e \in Events /\ \A j \in 1..(n - 1) : s[j] \in S
    BY <1>1, <2>1, Zenon
  <2>4. \A b : /\ AddedBefore(S, e, b) /\ (\A j \in 1..(n - 1) : ~Removes(s[j], b)) => b \in g.members
               /\ AppointedBefore(S, e, b) /\ (\A j \in 1..(n - 1) : ~Removes(s[j], b)) => b \in g.admins
    BY <1>8, <2>2, <2>3, Zenon
  <2>5. e.type # "removed" => \A j \in 1..(n - 1) : ~Removes(s[j], e.from)
    BY <1>6, <2>1
  <2>6. n = 1 => g = Nobody
    BY <1>4
  <2>7. n # 1 => e.type # "created"
    BY <1>5
  <2> HIDE DEF e, g, S
  <2>8. CASE e.type = "created"
    <3>1. g.members = {} /\ g.admins = {}
      BY <2>6, <2>7, <2>8 DEF Nobody
    <3> QED BY <2>8, <3>1 DEF validateEvent, DetailsChanged, e, g
  <2>9. CASE e.type \in DetailsChanged \cup {"added"}
    <3>1. e.type # "removed" /\ (AddedBefore(S, e, e.from) \/ AppointedBefore(S, e, e.from))
      BY <2>3, <2>9, Zenon DEF Supported, SupportedBy, DetailsChanged, S
    <3>2. e.from \in g.admins \cup g.members
      BY <2>4, <2>5, <3>1
    <3>3. validateEvent(g, e)
      BY <2>9, <3>2, Zenon DEF validateEvent, DetailsChanged
    <3> QED BY <3>3, Zenon DEF e, g
  <2>10. CASE e.type = "joined"
    <3>1. e.type # "removed" /\ AddedBefore(S, e, e.from)
      BY <2>3, <2>10, Zenon DEF Supported, SupportedBy, S
    <3>2. e.from \in g.members
      BY <2>4, <2>5, <3>1
    <3>3. validateEvent(g, e)
      BY <2>10, <3>2 DEF validateEvent, DetailsChanged
    <3> QED BY <3>3, Zenon DEF e, g
  <2>11. CASE e.type = "removed"
    <3>1. e.members = {e.from}
      BY <2>3, <2>11 DEF Loose, S
    <3>2. validateEvent(g, e)
      BY <2>11, <3>1 DEF validateEvent, DetailsChanged
    <3> QED BY <3>2 DEF e, g
  <2>12. CASE e.type = "admins"
    <3>1. AppointedBefore(S, e, e.from) /\ \E b \in e.members : AddedBefore(S, e, b)
      BY <2>3, <2>12, Zenon DEF Supported, SupportedBy, S
    <3>2. \A j \in 1..(n - 1) : s[j].type # "removed"
      BY <2>3, <2>12, Zenon DEF Loose, S
    <3>3. e.from \in g.admins /\ e.members \cap g.members # {}
      BY <2>4, <3>1, <3>2 DEF Removes
    <3>4. validateEvent(g, e)
      BY <2>12, <3>3 DEF validateEvent, DetailsChanged
    <3> QED BY <3>4, Zenon DEF e, g
  <2>13. e.type \in DetailsChanged \cup {"created", "added", "joined", "removed", "admins"}
    BY <2>3 DEF Events
  <2> QED BY <2>8, <2>9, <2>10, <2>11, <2>12, <2>13, Zenon DEF DetailsChanged
<1> DEFINE T == {n \in Nat : n <= k => f[n].valid}
<1>10. 0 \in T
  BY <1>4 DEF Nobody
<1>11. ASSUME NEW n \in Nat, n \in T PROVE n + 1 \in T
  <2> SUFFICES ASSUME n + 1 <= k PROVE f[n + 1].valid
    OBVIOUS
  <2> DEFINE m == n + 1
  <2>1. m \in 1..k /\ m - 1 = n /\ n \in 0..k /\ f[n].valid
    BY <1>1, <1>11
  <2> HIDE DEF m, T
  <2>2. validateEvent(f[m - 1], s[m]) /\ f[m] = ProcessEvent(f[m - 1], s[m])
    BY <1>4, <1>9, <2>1, Zenon
  <2>3. f[m - 1] \in GroupState /\ s[m] \in Events /\ f[m - 1].valid
    BY <1>1, <1>4, <2>1
  <2>4. f[m].valid
    BY <2>2, <2>3, ProcessValid, Zenon
  <2> QED BY <2>4 DEF m
<1> HIDE DEF T
<1>12. k \in T
  BY <1>1, <1>10, <1>11, Induction, Zenon
<1>13. ProcessEvents(Nobody, s).valid
  BY <1>1, <1>3, <1>12 DEF T
<1>14. FoundedByCreator(s)
  <2>1. s # <<>>
    BY <1>5 DEF k
  <2> QED BY <1>5, <2>1 DEF FoundedByCreator
<1> QED BY <1>13, <1>14, GroupOfSorted, Zenon

(* Together: the facts GroupFacts.tla names. *)
LEMMA EventFactsHold == EventFacts
<1>1. LeastNumberFact
  BY LeastNumber, Zenon DEF LeastNumberFact
<1>2. MaxIsGreatestFact
  BY MaxIsGreatest, Zenon DEF MaxIsGreatestFact
<1>3. EmptySetFact
  BY FS_EmptySet DEF EmptySetFact
<1>4. SingletonFact
  BY FS_Singleton, Zenon DEF SingletonFact
<1>5. CardinalityFact
  BY FS_CardinalityType DEF CardinalityFact
<1>6. SubsetFact
  BY FS_Subset DEF SubsetFact
<1>7. UnionFact
  BY FS_Union, Zenon DEF UnionFact
<1>8. AddElementFact
  BY FS_AddElement DEF AddElementFact
<1>9. ElementsFact
  BY Elements DEF ElementsFact
<1>10. FiniteRangeFact
  BY FiniteRange DEF FiniteRangeFact
<1>11. ConcatenationFact
  BY Concatenation DEF ConcatenationFact
<1>12. SortOrdersFact
  BY SortOrders DEF SortOrdersFact
<1>13. SortKeepsFirstFact
  BY SortKeepsFirst, Zenon DEF SortKeepsFirstFact
<1>14. SortOnceFact
  BY SortOnce DEF SortOnceFact
<1>15. MergeUnitesFact
  BY MergeUnites DEF MergeUnitesFact
<1>16. MergeEmbedsFact
  BY MergeEmbeds DEF MergeEmbedsFact
<1>17. MergeOnceFact
  BY MergeOnce DEF MergeOnceFact
<1>18. StaysOutFact
  BY StaysOut DEF StaysOutFact
<1>19. ProcessOneFact
  BY ProcessOne DEF ProcessOneFact
<1>20. ProcessMoreFact
  BY ProcessMore DEF ProcessMoreFact
<1>21. GroupTypedFact
  BY GroupTyped DEF GroupTypedFact
<1>22. EmptyGroupFact
  BY EmptyGroup DEF EmptyGroupFact
<1>23. GroupOfSortedFact
  BY GroupOfSorted DEF GroupOfSortedFact
<1>24. GroupSortsFact
  BY GroupSorts DEF GroupSortsFact
<1>25. GroupExtendsFact
  BY GroupExtends, Zenon DEF GroupExtendsFact
<1>26. GroupMembersFact
  BY GroupMembers DEF GroupMembersFact
<1>27. MembersAreAddedFact
  BY MembersAreAdded DEF MembersAreAddedFact
<1>28. LatestFact
  BY Latest DEF LatestFact
<1>29. StaysMemberFact
  BY StaysMember DEF StaysMemberFact
<1>30. SignedSupportedFact
  BY SignedSupported DEF SignedSupportedFact
<1>31. ValidOnceFact
  BY ValidOnce DEF ValidOnceFact
<1>32. SupportedValidFact
  BY SupportedValid DEF SupportedValidFact
<1> QED BY <1>1, <1>2, <1>3, <1>4, <1>5, <1>6, <1>7, <1>8, <1>9, <1>10, <1>11, <1>12,
           <1>13, <1>14, <1>15, <1>16, <1>17, <1>18, <1>19, <1>20, <1>21, <1>22,
           <1>23, <1>24, <1>25, <1>26, <1>27, <1>28, <1>29, <1>30, <1>31, <1>32, Zenon DEF EventFacts
=============================================================================
