---------------------------- MODULE OrderLemmas ----------------------------
(* Facts about the order of the natural numbers and of queues that the     *)
(* proofs share.                                                           *)
EXTENDS Queues, WellFoundedInduction, TLAPS

\* A set of natural numbers that is not empty has a least element: "the first
\* free slot" and "the lowest requester" name one.
LEMMA MinimumExists ==
  ASSUME NEW S, S \subseteq Nat, S # {}
  PROVE  \E i \in S : \A j \in S : i <= j
<1>. DEFINE Less == {ss \in Nat \X Nat : ss[1] < ss[2]}
<1>1. IsWellFoundedOn(Less, Nat)
  <2>1. OpToRel(<, Nat) = Less
    BY DEF OpToRel
  <2>. QED  BY <2>1, NatLessThanWellFounded
<1>2. PICK i \in S : \A j \in S : ~(<<j, i>> \in Less)
  <2>. HIDE DEF Less
  <2>. QED  BY <1>1, WFMin
<1>3. ASSUME NEW j \in S  PROVE  i <= j
  <2>1. i \in Nat /\ j \in Nat
    OBVIOUS
  <2>2. ~(j < i)
    BY <1>2, <2>1
  <2>. QED  BY <2>1, <2>2
<1>. QED  BY <1>3

\* What holds at zero and passes from each number to the next holds up to N:
\* induction, for a property given by the set of the numbers that have it.
LEMMA Climb ==
  ASSUME NEW N \in Nat, NEW S, 0 \in S,
         \A n \in 1 .. N : n - 1 \in S => n \in S
  PROVE  \A n \in 0 .. N : n \in S
<1> SUFFICES ASSUME (0 .. N) \ S # {} PROVE FALSE
  OBVIOUS
<1> DEFINE T == (0 .. N) \ S
<1>1. PICK i \in T : \A j \in T : i <= j
  <2>1. T \subseteq Nat /\ T # {}
    OBVIOUS
  <2> HIDE DEF T
  <2> QED
    BY <2>1, MinimumExists
<1>2. i \in 1 .. N
  OBVIOUS
<1>3. i - 1 \in (0 .. N) /\ ~(i <= i - 1)
  BY <1>2
<1>4. i - 1 \in S
  BY <1>1, <1>3
<1> QED
  BY <1>2, <1>4

Iterates(f, N, base, step) ==
  f[0] = base /\ \A n \in 1 .. N : f[n] = step[n][f[n - 1]]

\* A function defined by recursion on the numbers up to N exists.
LEMMA RecursionExists ==
  ASSUME NEW N \in Nat, NEW X, NEW base \in X, NEW step \in [1 .. N -> [X -> X]]
  PROVE  \E f \in [0 .. N -> X] : Iterates(f, N, base, step)
<1> DEFINE Upto(k, f) == f[0] = base /\ \A n \in 1 .. k : f[n] = step[n][f[n - 1]]
           S == {k \in 0 .. N : \E f \in [0 .. k -> X] : Upto(k, f)}
<1>1. 0 \in S
  <2> DEFINE f == [n \in 0 .. 0 |-> base]
  <2>1. f \in [0 .. 0 -> X] /\ Upto(0, f)
    OBVIOUS
  <2> HIDE DEF f, Upto
  <2>2. 0 \in 0 .. N
    OBVIOUS
  <2> QED
    BY <2>1, <2>2
<1>2. ASSUME NEW k \in 1 .. N, k - 1 \in S
      PROVE  k \in S
  <2>1. PICK f \in [0 .. k - 1 -> X] : Upto(k - 1, f)
    BY <1>2
  <2> DEFINE g == [n \in 0 .. k |-> IF n = k THEN step[k][f[k - 1]] ELSE f[n]]
  <2>2. k - 1 \in 0 .. k - 1 /\ f[k - 1] \in X /\ step[k][f[k - 1]] \in X
    OBVIOUS
  <2>3. g \in [0 .. k -> X]
    BY <2>2
  <2>4. g[0] = base
    BY <2>1
  <2>5. ASSUME NEW n \in 1 .. k PROVE g[n] = step[n][g[n - 1]]
    <3>1. n - 1 \in 0 .. k - 1 /\ g[n - 1] = f[n - 1]
      OBVIOUS
    <3>2. CASE n = k
      BY <3>1, <3>2
    <3>3. CASE n # k
      BY <2>1, <3>1, <3>3
    <3> QED
      BY <3>2, <3>3
  <2>6. Upto(k, g)
    BY <2>4, <2>5
  <2> HIDE DEF g, Upto
  <2> QED
    BY <2>3, <2>6
<1> HIDE DEF S
<1>3. \A k \in 1 .. N : k - 1 \in S => k \in S
  BY <1>2
<1>4. N \in S
  <2>1. \A n \in 0 .. N : n \in S
    BY ONLY N \in Nat, <1>1, <1>3, Climb
  <2> QED
    BY <2>1
<1> QED
  BY <1>4 DEF S, Iterates

-----------------------------------------------------------------------------
(* What Without leaves.                                                    *)

KeptUpto(queue, gone) ==
  CHOOSE kept : kept = [n \in 0 .. Len(queue) |->
    IF n = 0 THEN << >>
    ELSE IF queue[n] \in gone THEN kept[n - 1] ELSE Append(kept[n - 1], queue[n])]

LEMMA KeptUptoFacts ==
  ASSUME NEW T, NEW queue \in Seq(T), NEW gone
  PROVE  /\ Without(queue, gone) = KeptUpto(queue, gone)[Len(queue)]
         /\ KeptUpto(queue, gone) \in [0 .. Len(queue) -> Seq(T)]
         /\ KeptUpto(queue, gone)[0] = << >>
         /\ \A n \in 1 .. Len(queue) :
              KeptUpto(queue, gone)[n] = IF queue[n] \in gone THEN KeptUpto(queue, gone)[n - 1]
                                     ELSE Append(KeptUpto(queue, gone)[n - 1], queue[n])
<1> DEFINE N == Len(queue)
           step == [n \in 1 .. N |-> [s \in Seq(T) |-> IF queue[n] \in gone THEN s ELSE Append(s, queue[n])]]
           Body(kept) == [n \in 0 .. N |->
             IF n = 0 THEN << >>
             ELSE IF queue[n] \in gone THEN kept[n - 1] ELSE Append(kept[n - 1], queue[n])]
           kept == KeptUpto(queue, gone)
<1>1. N \in Nat /\ << >> \in Seq(T) /\ step \in [1 .. N -> [Seq(T) -> Seq(T)]]
  OBVIOUS
<1>2. PICK f \in [0 .. N -> Seq(T)] : f[0] = << >> /\ \A n \in 1 .. N : f[n] = step[n][f[n - 1]]
  <2> DEFINE X == Seq(T)  base == << >>
  <2>1. N \in Nat /\ base \in X /\ step \in [1 .. N -> [X -> X]]
    BY <1>1
  <2> HIDE DEF N, step, X, base
  <2>2. \E f \in [0 .. N -> X] : Iterates(f, N, base, step)
    BY <2>1, RecursionExists
  <2> QED
    BY <2>2 DEF X, base, Iterates
<1>3. ASSUME NEW n \in 1 .. N
      PROVE  f[n] = IF queue[n] \in gone THEN f[n - 1] ELSE Append(f[n - 1], queue[n])
  <2>1. n - 1 \in 0 .. N /\ f[n - 1] \in Seq(T)
    OBVIOUS
  <2>2. f[n] = step[n][f[n - 1]]
    BY <1>2
  <2> QED
    BY <2>1, <2>2
<1>4. f = Body(f)
  <2>0. \A n \in 0 .. N : Body(f)[n] = IF n = 0 THEN << >>
                          ELSE IF queue[n] \in gone THEN f[n - 1] ELSE Append(f[n - 1], queue[n])
    <3> HIDE DEF N
    <3> QED
      OBVIOUS
  <2>1. ASSUME NEW n \in 0 .. N PROVE f[n] = Body(f)[n]
    <3>1. CASE n = 0
      BY <1>2, <2>0, <3>1
    <3>2. CASE n # 0
      <4>1. n \in 1 .. N
        BY <3>2
      <4>2. f[n] = IF queue[n] \in gone THEN f[n - 1] ELSE Append(f[n - 1], queue[n])
        BY <1>3, <4>1
      <4> HIDE DEF Body
      <4> QED
        BY <2>0, <3>2, <4>2
    <3> QED
      BY <3>1, <3>2
  <2> HIDE DEF N
  <2> QED
    BY <2>1
<1>5. kept = Body(kept)
  BY <1>4 DEF KeptUpto
<1>6. Without(queue, gone) = kept[N]
  BY DEF Without, KeptUpto
<1>7. kept[0] = << >> /\ \A n \in 1 .. N : kept[n] = IF queue[n] \in gone THEN kept[n - 1]
                                                    ELSE Append(kept[n - 1], queue[n])
  <2> HIDE DEF kept
  <2>1. \A n \in 0 .. N : Body(kept)[n] = IF n = 0 THEN << >>
                          ELSE IF queue[n] \in gone THEN kept[n - 1] ELSE Append(kept[n - 1], queue[n])
    <3> HIDE DEF N
    <3> QED
      OBVIOUS
  <2>2. 0 \in 0 .. N /\ \A n \in 1 .. N : n \in 0 .. N /\ n # 0
    BY <1>1
  <2> HIDE DEF Body
  <2>3. \A n \in 0 .. N : kept[n] = Body(kept)[n]
    BY <1>5
  <2> QED
    BY <2>1, <2>2, <2>3
<1>8. \A n \in 0 .. N : kept[n] \in Seq(T)
  <2> DEFINE S == {n \in 0 .. N : kept[n] \in Seq(T)}
  <2> HIDE DEF kept
  <2>1. 0 \in S
    <3>1. 0 \in 0 .. N /\ kept[0] \in Seq(T)
      BY <1>1, <1>7
    <3> QED
      BY <3>1
  <2>2. ASSUME NEW n \in 1 .. N, n - 1 \in S PROVE n \in S
    <3>1. n \in 0 .. N /\ kept[n - 1] \in Seq(T) /\ queue[n] \in T
      BY <2>2
    <3>2. kept[n] = kept[n - 1] \/ kept[n] = Append(kept[n - 1], queue[n])
      BY <1>7
    <3>3. Append(kept[n - 1], queue[n]) \in Seq(T)
      BY ONLY <3>1
    <3>4. kept[n] \in Seq(T)
      BY <3>1, <3>2, <3>3
    <3> QED
      BY <3>1, <3>4
  <2>3. \A n \in 1 .. N : n - 1 \in S => n \in S
    BY <2>2
  <2> HIDE DEF S
  <2>4. \A n \in 0 .. N : n \in S
    BY ONLY <1>1, <2>1, <2>3, Climb
  <2> QED
    BY <2>4 DEF S
<1>9. kept \in [0 .. N -> Seq(T)]
  <2> HIDE DEF N
  <2>1. kept = [n \in 0 .. N |-> kept[n]]
    <3>1. Body(kept) = [n \in 0 .. N |-> Body(kept)[n]]
      OBVIOUS
    <3> HIDE DEF kept, Body
    <3> QED
      BY <1>5, <3>1
  <2> HIDE DEF kept
  <2> QED
    BY <1>8, <2>1
<1> QED
  BY <1>6, <1>7, <1>9

\* seq is the first n elements of the queue without those that are gone.
Shows(queue, gone, seq, n, place) ==
  /\ \A k \in 1 .. Len(seq) : seq[k] = queue[place[k]] /\ queue[place[k]] \notin gone
  /\ \A j, k \in 1 .. Len(seq) : j < k => place[j] < place[k]
  /\ \A m \in 1 .. n : queue[m] \notin gone => \E k \in 1 .. Len(seq) : place[k] = m

\* w is the queue without what is gone.
Left(w, queue, gone) ==
  \E place \in [1 .. Len(w) -> 1 .. Len(queue)] : Shows(queue, gone, w, Len(queue), place)

LEMMA WithoutLeft ==
  ASSUME NEW T, NEW queue \in Seq(T), NEW gone
  PROVE  Without(queue, gone) \in Seq(T) /\ Left(Without(queue, gone), queue, gone)
<1> DEFINE N == Len(queue)
           kept == KeptUpto(queue, gone)
           S == {n \in 0 .. N : \E place \in [1 .. Len(kept[n]) -> 1 .. n] : Shows(queue, gone, kept[n], n, place)}
<1>1. /\ N \in Nat /\ Without(queue, gone) = kept[N] /\ kept[0] = << >>
      /\ \A n \in 0 .. N : kept[n] \in Seq(T)
      /\ \A n \in 1 .. N : kept[n] = IF queue[n] \in gone THEN kept[n - 1]
                                      ELSE Append(kept[n - 1], queue[n])
  <2>1. /\ Without(queue, gone) = KeptUpto(queue, gone)[Len(queue)]
        /\ KeptUpto(queue, gone) \in [0 .. Len(queue) -> Seq(T)]
        /\ KeptUpto(queue, gone)[0] = << >>
        /\ \A n \in 1 .. Len(queue) :
             KeptUpto(queue, gone)[n] = IF queue[n] \in gone THEN KeptUpto(queue, gone)[n - 1]
                                        ELSE Append(KeptUpto(queue, gone)[n - 1], queue[n])
    BY KeptUptoFacts
  <2>2. Len(queue) \in Nat
    OBVIOUS
  <2> QED
    BY ONLY <2>1, <2>2
<1> HIDE DEF kept
<1>2. 0 \in S
  <2> DEFINE place == [k \in 1 .. 0 |-> k]
  <2>1. Len(kept[0]) = 0 /\ place \in [1 .. Len(kept[0]) -> 1 .. 0]
    BY <1>1
  <2>2. Shows(queue, gone, kept[0], 0, place)
    BY <2>1 DEF Shows
  <2> HIDE DEF place
  <2> QED
    BY <1>1, <2>1, <2>2
<1>3. ASSUME NEW n \in 1 .. N, n - 1 \in S PROVE n \in S
  <2> DEFINE old == kept[n - 1]
  <2>1. PICK place \in [1 .. Len(old) -> 1 .. n - 1] : Shows(queue, gone, old, n - 1, place)
    BY <1>3
  <2>2. n \in 0 .. N /\ old \in Seq(T) /\ Len(old) \in Nat /\ queue[n] \in T /\ N \in Nat
    BY <1>1
  <2>3. CASE queue[n] \in gone
    <3>1. kept[n] = old
      BY <1>1, <2>3
    <3>2. place \in [1 .. Len(old) -> 1 .. n] /\ Shows(queue, gone, old, n, place)
      <4>1. place \in [1 .. Len(old) -> 1 .. n]
        BY <2>2
      <4> QED
        BY <2>1, <2>3, <4>1 DEF Shows
    <3> HIDE DEF old
    <3> QED
      BY <2>2, <3>1, <3>2
  <2>4. CASE queue[n] \notin gone
    <3> DEFINE new == Append(old, queue[n])
               put == [k \in 1 .. Len(old) + 1 |-> IF k = Len(old) + 1 THEN n ELSE place[k]]
    <3>1. kept[n] = new
      BY <1>1, <2>4
    <3>2. /\ Len(new) = Len(old) + 1 /\ new[Len(old) + 1] = queue[n]
          /\ \A k \in 1 .. Len(old) : new[k] = old[k]
      BY <2>2
    <3>3. /\ put \in [1 .. Len(old) + 1 -> 1 .. n] /\ put[Len(old) + 1] = n
          /\ \A k \in 1 .. Len(old) : put[k] = place[k] /\ k # Len(old) + 1
      BY <2>2
    <3> HIDE DEF new, put, old
    <3>4. ASSUME NEW k \in 1 .. Len(new)
          PROVE  new[k] = queue[put[k]] /\ queue[put[k]] \notin gone
      <4>1. k \in 1 .. Len(old) \/ k = Len(old) + 1
        BY <2>2, <3>2
      <4> QED
        BY <2>1, <2>4, <3>2, <3>3, <4>1 DEF Shows
    <3>5. ASSUME NEW j \in 1 .. Len(new), NEW k \in 1 .. Len(new), j < k
          PROVE  put[j] < put[k]
      <4>1. j \in 1 .. Len(old) /\ (k \in 1 .. Len(old) \/ k = Len(old) + 1)
        <5>1. Len(old) \in Nat /\ j \in 1 .. Len(old) + 1 /\ k \in 1 .. Len(old) + 1
          BY <2>2, <3>2
        <5> QED
          BY ONLY <5>1, <3>5
      <4>2. put[j] = place[j] /\ place[j] \in 1 .. n - 1
        BY <3>3, <4>1
      <4>3. CASE k \in 1 .. Len(old)
        BY <2>1, <3>3, <3>5, <4>1, <4>3 DEF Shows
      <4>4. CASE k = Len(old) + 1
        BY <3>3, <4>2, <4>4
      <4> QED
        BY <4>1, <4>3, <4>4
    <3>6. ASSUME NEW m \in 1 .. n, queue[m] \notin gone
          PROVE  \E k \in 1 .. Len(new) : put[k] = m
      <4>1. CASE m = n
        <5>1. Len(old) + 1 \in 1 .. Len(new)
          BY <2>2, <3>2
        <5> QED
          BY <3>3, <4>1, <5>1
      <4>2. CASE m # n
        <5>1. m \in 1 .. n - 1
          BY <4>2
        <5>2. PICK k \in 1 .. Len(old) : place[k] = m
          BY <2>1, <3>6, <5>1 DEF Shows
        <5>3. k \in 1 .. Len(new)
          BY <2>2, <3>2
        <5> QED
          BY <3>3, <5>2, <5>3
      <4> QED
        BY <4>1, <4>2
    <3>7. Shows(queue, gone, new, n, put) /\ put \in [1 .. Len(new) -> 1 .. n]
      BY <3>2, <3>3, <3>4, <3>5, <3>6 DEF Shows
    <3> QED
      BY <2>2, <3>1, <3>7
  <2> QED
    BY <2>3, <2>4
<1>4. \A n \in 1 .. N : n - 1 \in S => n \in S
  BY <1>3
<1>5. N \in S
  <2> HIDE DEF S, N
  <2>1. N \in Nat
    BY <1>1
  <2>2. \A n \in 0 .. N : n \in S
    BY ONLY <1>2, <1>4, <2>1, Climb
  <2> QED
    BY <2>1, <2>2
<1>6. PICK place \in [1 .. Len(kept[N]) -> 1 .. N] : Shows(queue, gone, kept[N], N, place)
  BY <1>5
<1> DEFINE w == Without(queue, gone)
<1>7. w = kept[N] /\ kept[N] \in Seq(T)
  BY <1>1
<1> HIDE DEF S, w, N
<1>8. w \in Seq(T) /\ place \in [1 .. Len(w) -> 1 .. N] /\ Shows(queue, gone, w, N, place)
  BY <1>6, <1>7
<1>9. w \in Seq(T) /\ Left(w, queue, gone)
  BY <1>8 DEF Left, N
<1> QED
  BY <1>9 DEF w

\* What is left keeps its order, and nothing is left out but what is gone.
LEMMA WithoutFacts ==
  ASSUME NEW T, NEW queue \in Seq(T), NEW gone
  PROVE  /\ Without(queue, gone) \in Seq(T)
         /\ \E place \in [1 .. Len(Without(queue, gone)) -> 1 .. Len(queue)] :
              /\ \A k \in 1 .. Len(Without(queue, gone)) :
                   Without(queue, gone)[k] = queue[place[k]] /\ queue[place[k]] \notin gone
              /\ \A j, k \in 1 .. Len(Without(queue, gone)) : j < k => place[j] < place[k]
              /\ \A n \in 1 .. Len(queue) : queue[n] \notin gone =>
                   \E k \in 1 .. Len(Without(queue, gone)) : place[k] = n
<1> DEFINE w == Without(queue, gone)
<1>1. w \in Seq(T) /\ Left(w, queue, gone)
  BY WithoutLeft
<1> HIDE DEF w
<1>2. PICK place \in [1 .. Len(w) -> 1 .. Len(queue)] : Shows(queue, gone, w, Len(queue), place)
  BY <1>1 DEF Left
<1>3. /\ \A k \in 1 .. Len(w) : w[k] = queue[place[k]] /\ queue[place[k]] \notin gone
      /\ \A j, k \in 1 .. Len(w) : j < k => place[j] < place[k]
      /\ \A n \in 1 .. Len(queue) : queue[n] \notin gone => \E k \in 1 .. Len(w) : place[k] = n
  BY <1>2 DEF Shows
<1>4. \E p \in [1 .. Len(w) -> 1 .. Len(queue)] :
        /\ \A k \in 1 .. Len(w) : w[k] = queue[p[k]] /\ queue[p[k]] \notin gone
        /\ \A j, k \in 1 .. Len(w) : j < k => p[j] < p[k]
        /\ \A n \in 1 .. Len(queue) : queue[n] \notin gone => \E k \in 1 .. Len(w) : p[k] = n
  BY ONLY <1>2, <1>3
<1> QED
  BY <1>1, <1>4 DEF w
=============================================================================
