----------------------- MODULE NetworkAnalyzerProofs -----------------------
(***************************************************************************)
(* Theorems about the network analyzer: CaptureAnalysis, for any packets   *)
(* in any order, and CaptureBatch, for any number of runs of the script    *)
(* and of captures, any options and any number of retries.                 *)
(*                                                                         *)
(* The first part follows one capture: its interval lists, what the        *)
(* accumulators know of a direction, the handshakes, the classes of its    *)
(* segments, and what acknowledgements say in a short connection.          *)
(***************************************************************************)
EXTENDS CaptureBatch, CaptureAnalysis, SortedSetsProofs, FiniteSetTheorems, TLAPS

-----------------------------------------------------------------------------
(* Interval lists *)

Interval == Int \X Int

(* b is in one of the intervals of s.                                      *)
In(s, b) == \E k \in 1..Len(s) : s[k][1] <= b /\ b < s[k][2]

(* In order, and with a gap between each two.                              *)
Separate(s) ==
  /\ \A k \in 1..Len(s) : s[k][1] < s[k][2]
  /\ \A j, k \in 1..Len(s) : j < k => s[j][2] < s[k][1]

EndsBefore(s, x) == \A k \in 1..Len(s) : s[k][2] < x

\* The ends of the intervals of a list are numbers.
LEMMA IntervalEnds ==
  ASSUME NEW s \in Seq(Interval)
  PROVE  Len(s) \in Nat /\ \A k \in 1..Len(s) : s[k] \in Interval /\ s[k][1] \in Int /\ s[k][2] \in Int
  <1>1. Len(s) \in Nat /\ \A k \in 1..Len(s) : s[k] \in Interval
    BY LenProperties
  <1> QED BY <1>1 DEF Interval

\* The smaller and the larger of two numbers.
LEMMA Extremes ==
  ASSUME NEW a \in Int, NEW b \in Int
  PROVE  /\ Min({a, b}) = IF a <= b THEN a ELSE b
         /\ Max({a, b}) = IF a >= b THEN a ELSE b
  BY DEF Min, Max

\* Reach never passes a byte that no interval holds, and stops at one.
LEMMA ReachCovers ==
  ASSUME NEW s, s \in Seq(Interval), NEW c, c \in Int
  PROVE  /\ Reach(s, c) \in Int /\ Reach(s, c) >= c
         /\ \A b \in Int : c <= b /\ b < Reach(s, c) => In(s, b)
         /\ Separate(s) => ~In(s, Reach(s, c))
  <1> DEFINE N == Len(s)
             P(f) == f = [n \in 0..N |-> IF n = 0 THEN c ELSE Further(f[n - 1], s[n])]
             reached == CHOOSE f : P(f)
             F == [n \in 1..N |-> [x \in Int |-> Further(x, s[n])]]
             Fine(n) == /\ reached[n] \in Int /\ reached[n] >= c
                        /\ \A b \in Int : c <= b /\ b < reached[n] => In(s, b)
                        /\ Separate(s) => \A k \in 1..n :
                             ~(s[k][1] <= reached[n] /\ reached[n] < s[k][2])
  <1>1. N \in Nat /\ \A k \in 1..N : s[k][1] \in Int /\ s[k][2] \in Int
    BY IntervalEnds
  <1>2. Reach(s, c) = reached[N]
    BY DEF Reach
  <1> HIDE DEF N
  <1>3. F \in [1..N -> [Int -> Int]]
    BY <1>1 DEF Further
  <1> DEFINE f == Iterated(N, Int, c, F)
  <1>4. f \in [0..N -> Int] /\ f[0] = c /\ \A n \in 1..N : f[n] = F[n][f[n - 1]]
    <2> DEFINE S == Int
    <2>1. N \in Nat /\ c \in S /\ F \in [1..N -> [S -> S]]
      BY <1>1, <1>3
    <2> HIDE DEF F, S
    <2>2. Iterated(N, S, c, F) \in [0..N -> S] /\ Iterated(N, S, c, F)[0] = c
      BY ONLY <2>1, Recursion
    <2>3. \A n \in 1..N : Iterated(N, S, c, F)[n] = F[n][Iterated(N, S, c, F)[n - 1]]
      BY ONLY <2>1, Recursion
    <2> QED BY <2>2, <2>3 DEF S
  <1> HIDE DEF f
  <1>5. P(f)
    <2>1. \A n \in 1..N : n - 1 \in 0..N /\ f[n - 1] \in Int
      BY <1>1, <1>4
    <2>2. \A n \in 1..N : F[n][f[n - 1]] = Further(f[n - 1], s[n])
      BY <2>1
    <2>3. \A n \in 0..N : n # 0 => n \in 1..N
      BY <1>1
    <2> HIDE DEF F
    <2>4. \A n \in 0..N : f[n] = IF n = 0 THEN c ELSE Further(f[n - 1], s[n])
      BY <1>4, <2>2, <2>3
    <2> QED BY <1>4, <2>4
  <1>6. P(reached)
    BY <1>5
  <1> HIDE DEF reached, F
  <1>7. reached[0] = c /\ \A n \in 1..N : reached[n] = Further(reached[n - 1], s[n])
    BY <1>1, <1>6
  <1>8. Fine(0)
    BY <1>7
  <1>9. ASSUME NEW n \in 1..N, Fine(n - 1) PROVE Fine(n)
    <2>1. /\ s[n][1] \in Int /\ s[n][2] \in Int
          /\ reached[n] = IF s[n][1] <= reached[n - 1] /\ s[n][2] > reached[n - 1]
                          THEN s[n][2] ELSE reached[n - 1]
      BY <1>1, <1>7 DEF Further
    <2>2. /\ reached[n] \in Int /\ reached[n] >= c
          /\ \A b \in Int : c <= b /\ b < reached[n] => In(s, b)
      BY <1>9, <2>1 DEF In, N
    <2>3. ASSUME Separate(s), NEW k \in 1..n
          PROVE  ~(s[k][1] <= reached[n] /\ reached[n] < s[k][2])
      <3>1. CASE k = n
        BY <1>9, <2>1, <3>1
      <3>2. CASE k # n
        <4>1. k \in 1..(n - 1) /\ k \in 1..N /\ k < n
          BY <1>1, <3>2
        <4>2. ~(s[k][1] <= reached[n - 1] /\ reached[n - 1] < s[k][2])
          BY <1>9, <2>3, <4>1
        <4>3. s[k][2] < s[n][1] /\ s[n][1] < s[n][2] /\ s[k][2] \in Int
          BY <1>1, <2>3, <4>1 DEF Separate, N
        <4>4. reached[n - 1] \in Int
          BY <1>9
        <4> QED BY <2>1, <4>2, <4>3, <4>4
      <3> QED BY <3>1, <3>2
    <2> QED BY <2>2, <2>3
  <1> HIDE DEF Fine
  <1> DEFINE Bad == {n \in 0..N : ~ Fine(n)}
  <1>10. Bad = {}
    <2> SUFFICES ASSUME Bad # {} PROVE FALSE
      OBVIOUS
    <2>1. PICK n \in Bad : \A k \in Bad : n <= k
      <3>1. Bad \subseteq Nat
        BY <1>1
      <3> HIDE DEF Bad
      <3> QED BY <3>1, LeastNatural
    <2>2. n \in 1..N /\ ~ Fine(n) /\ n - 1 \in 0..N /\ ~ (n <= n - 1)
      BY <1>1, <1>8, <2>1
    <2>3. Fine(n - 1)
      BY <2>1, <2>2
    <2> QED BY <1>9, <2>2, <2>3
  <1>11. Fine(N)
    BY <1>1, <1>10
  <1> QED BY <1>2, <1>11 DEF Fine, In, N

\* An interval after all others is added to a list.
LEMMA AddLast ==
  ASSUME NEW s \in Seq(Interval), Separate(s),
         NEW iv \in Interval, iv[1] < iv[2], EndsBefore(s, iv[1])
  PROVE  /\ Append(s, iv) \in Seq(Interval) /\ Separate(Append(s, iv))
         /\ \A b \in Int : In(Append(s, iv), b) <=> In(s, b) \/ (iv[1] <= b /\ b < iv[2])
         /\ \A x \in Int : EndsBefore(s, x) /\ iv[2] < x => EndsBefore(Append(s, iv), x)
  <1> DEFINE t == Append(s, iv)
  <1>1. Len(s) \in Nat /\ \A k \in 1..Len(s) : s[k][1] \in Int /\ s[k][2] \in Int
    BY IntervalEnds
  <1>2. iv[1] \in Int /\ iv[2] \in Int
    BY DEF Interval
  <1>3. /\ t \in Seq(Interval) /\ Len(t) = Len(s) + 1
        /\ \A k \in 1..Len(s) : t[k] = s[k]
        /\ t[Len(s) + 1] = iv
    BY AppendProperties
  <1> HIDE DEF t
  <1>4. \A k \in 1..Len(t) : k \in 1..Len(s) \/ k = Len(s) + 1
    BY <1>1, <1>3
  <1>5. 1..Len(s) \subseteq 1..Len(t) /\ Len(s) + 1 \in 1..Len(t)
    BY <1>1, <1>3
  <1>6. Separate(t)
    <2>1. ASSUME NEW k \in 1..Len(t) PROVE t[k][1] < t[k][2]
      BY <1>3, <1>4 DEF Separate
    <2>2. ASSUME NEW j \in 1..Len(t), NEW k \in 1..Len(t), j < k PROVE t[j][2] < t[k][1]
      <3>1. j \in 1..Len(s)
        BY <1>1, <1>4, <1>3, <2>2
      <3>2. CASE k \in 1..Len(s)
        BY <1>3, <2>2, <3>1, <3>2 DEF Separate
      <3>3. CASE k = Len(s) + 1
        BY <1>3, <3>1, <3>3 DEF EndsBefore
      <3> QED BY <1>4, <3>2, <3>3
    <2> QED BY <2>1, <2>2 DEF Separate
  <1>7. \A b \in Int : In(t, b) <=> In(s, b) \/ (iv[1] <= b /\ b < iv[2])
    BY <1>3, <1>4, <1>5 DEF In
  <1>8. \A x \in Int : EndsBefore(s, x) /\ iv[2] < x => EndsBefore(t, x)
    BY <1>3, <1>4 DEF EndsBefore
  <1> QED BY <1>3, <1>6, <1>7, <1>8 DEF t

Merging == [start : Int, end : Int, placed : BOOLEAN, merged : Seq(Interval)]

(* The loop of MergeInterval after n intervals of s: what it has put down  *)
(* and what it still holds are the bytes of those and of lo..hi - 1, and   *)
(* lie before the rest of s.                                               *)
Placing(s, lo, hi, n, a) ==
  /\ a \in Merging
  /\ a.start < a.end /\ Separate(a.merged)
  /\ \A k \in (n + 1)..Len(s) : EndsBefore(a.merged, s[k][1])
  /\ IF a.placed THEN \A k \in (n + 1)..Len(s) : a.end < s[k][1]
                 ELSE EndsBefore(a.merged, a.start)
  /\ \A b \in Int : In(a.merged, b) \/ (~a.placed /\ a.start <= b /\ b < a.end)
                    <=> \/ \E k \in 1..n : s[k][1] <= b /\ b < s[k][2]
                        \/ lo <= b /\ b < hi

\* One round of the loop keeps it so.
LEMMA AbsorbPlaces ==
  ASSUME NEW s \in Seq(Interval), Separate(s), NEW lo \in Int, NEW hi \in Int,
         NEW n \in 1..Len(s), NEW a, Placing(s, lo, hi, n - 1, a)
  PROVE  Placing(s, lo, hi, n, Absorb(a, s[n]))
  <1> DEFINE iv == s[n]
             here == n..Len(s)
             rest == (n + 1)..Len(s)
             z == Absorb(a, iv)
  <1>1. Len(s) \in Nat /\ \A k \in 1..Len(s) : s[k] \in Interval /\ s[k][1] \in Int /\ s[k][2] \in Int
    BY IntervalEnds
  <1>2. iv \in Interval /\ iv[1] \in Int /\ iv[2] \in Int /\ iv[1] < iv[2]
    BY <1>1 DEF Separate
  <1>3. \A k \in rest : k \in 1..Len(s) /\ k \in here /\ s[k][1] \in Int /\ iv[2] < s[k][1]
    BY <1>1 DEF Separate
  <1>4. n \in here /\ (n - 1) + 1 = n
    BY <1>1
  <1>5. /\ a \in Merging /\ a.start \in Int /\ a.end \in Int /\ a.placed \in BOOLEAN
        /\ a.merged \in Seq(Interval)
        /\ a.start < a.end /\ Separate(a.merged)
        /\ \A k \in here : EndsBefore(a.merged, s[k][1])
        /\ a.placed => \A k \in here : a.end < s[k][1]
        /\ ~a.placed => EndsBefore(a.merged, a.start)
    BY <1>4 DEF Placing, Merging
  <1> DEFINE Old(b) == (\E k \in 1..(n - 1) : s[k][1] <= b /\ b < s[k][2]) \/ (lo <= b /\ b < hi)
             New(b) == (\E k \in 1..n : s[k][1] <= b /\ b < s[k][2]) \/ (lo <= b /\ b < hi)
  <1>6. \A b \in Int : In(a.merged, b) \/ (~a.placed /\ a.start <= b /\ b < a.end) <=> Old(b)
    BY DEF Placing
  <1>7. \A b \in Int : New(b) <=> Old(b) \/ (iv[1] <= b /\ b < iv[2])
    <2>1. 1..n = 1..(n - 1) \cup {n}
      BY <1>1
    <2> QED BY <2>1
  <1> HIDE DEF Old, New, iv, here, rest
  <1>8. SUFFICES /\ z \in Merging
                 /\ z.start < z.end /\ Separate(z.merged)
                 /\ \A k \in rest : EndsBefore(z.merged, s[k][1])
                 /\ IF z.placed THEN \A k \in rest : z.end < s[k][1]
                                ELSE EndsBefore(z.merged, z.start)
                 /\ \A b \in Int : In(z.merged, b) \/ (~z.placed /\ z.start <= b /\ b < z.end)
                                   <=> Old(b) \/ (iv[1] <= b /\ b < iv[2])
    <2> HIDE DEF z
    <2> QED BY <1>7 DEF Placing, New, rest, z, iv
  <1>9. EndsBefore(a.merged, iv[1])
    BY <1>4, <1>5 DEF iv
  <1> DEFINE m == Append(a.merged, iv)
  <1>10. /\ m \in Seq(Interval) /\ Separate(m)
         /\ \A b \in Int : In(m, b) <=> In(a.merged, b) \/ (iv[1] <= b /\ b < iv[2])
         /\ \A x \in Int : EndsBefore(a.merged, x) /\ iv[2] < x => EndsBefore(m, x)
    BY <1>2, <1>5, <1>9, AddLast
  <1>11. \A k \in rest : EndsBefore(m, s[k][1])
    BY <1>3, <1>5, <1>10
  <1> HIDE DEF m
  <1>12. CASE iv[2] < a.start
    <2>1. ~a.placed
      BY <1>2, <1>4, <1>5, <1>12 DEF iv
    <2>2. z = [a EXCEPT !.merged = m]
      BY <1>2, <1>5, <1>12 DEF Absorb, m
    <2>3. /\ z \in Merging /\ z.start = a.start /\ z.end = a.end /\ z.placed = a.placed
          /\ z.merged = m
      BY <1>5, <1>10, <2>2 DEF Merging
    <2> HIDE DEF z
    <2>4. EndsBefore(m, a.start)
      BY <1>5, <1>10, <1>12, <2>1
    <2> QED BY <1>5, <1>6, <1>10, <1>11, <2>1, <2>3, <2>4
  <1>13. CASE iv[2] >= a.start /\ iv[1] > a.end /\ a.placed
    <2>1. z = [a EXCEPT !.merged = m, !.placed = TRUE]
      BY <1>2, <1>5, <1>13 DEF Absorb, m
    <2>2. /\ z \in Merging /\ z.start = a.start /\ z.end = a.end /\ z.placed = TRUE
          /\ z.merged = m
      BY <1>5, <1>10, <2>1 DEF Merging
    <2> HIDE DEF z
    <2> QED BY <1>3, <1>5, <1>6, <1>10, <1>11, <1>13, <2>2
  <1>14. CASE iv[2] >= a.start /\ iv[1] > a.end /\ ~a.placed
    <2> DEFINE own == <<a.start, a.end>>
               p == Append(a.merged, own)
               q == Append(p, iv)
    <2>1. own \in Interval /\ own[1] = a.start /\ own[2] = a.end
      BY <1>5 DEF Interval
    <2>2. /\ p \in Seq(Interval) /\ Separate(p)
          /\ \A b \in Int : In(p, b) <=> In(a.merged, b) \/ (a.start <= b /\ b < a.end)
          /\ \A x \in Int : EndsBefore(a.merged, x) /\ a.end < x => EndsBefore(p, x)
      <3> HIDE DEF own
      <3> QED BY <1>5, <1>14, <2>1, AddLast
    <2>3. z = [a EXCEPT !.merged = q, !.placed = TRUE]
      BY <1>2, <1>5, <1>14 DEF Absorb, Place
    <2> HIDE DEF p
    <2>4. EndsBefore(p, iv[1]) /\ \A k \in rest : EndsBefore(p, s[k][1])
      <3>1. EndsBefore(p, iv[1])
        BY <1>2, <1>5, <1>9, <1>14, <2>2
      <3>2. ASSUME NEW k \in rest PROVE EndsBefore(p, s[k][1])
        <4>1. k \in here /\ s[k][1] \in Int /\ iv[2] < s[k][1]
          BY <1>3
        <4>2. EndsBefore(a.merged, s[k][1])
          BY <1>5, <4>1
        <4>3. a.end < s[k][1]
          BY <1>2, <1>5, <1>14, <4>1
        <4> QED BY <2>2, <4>1, <4>2, <4>3
      <3> QED BY <3>1, <3>2
    <2>5. /\ q \in Seq(Interval) /\ Separate(q)
          /\ \A b \in Int : In(q, b) <=> In(p, b) \/ (iv[1] <= b /\ b < iv[2])
          /\ \A x \in Int : EndsBefore(p, x) /\ iv[2] < x => EndsBefore(q, x)
      BY <1>2, <2>2, <2>4, AddLast
    <2>6. \A k \in rest : EndsBefore(q, s[k][1])
      BY <1>3, <2>4, <2>5
    <2> HIDE DEF q
    <2>7. /\ z \in Merging /\ z.start = a.start /\ z.end = a.end /\ z.placed = TRUE
          /\ z.merged = q
      BY <1>5, <2>3, <2>5 DEF Merging
    <2> HIDE DEF z
    <2>8. \A k \in rest : a.end < s[k][1]
      BY <1>2, <1>3, <1>5, <1>14
    <2> QED BY <1>5, <1>6, <1>14, <2>2, <2>5, <2>6, <2>7, <2>8
  <1>15. CASE iv[2] >= a.start /\ iv[1] <= a.end
    <2>1. ~a.placed
      BY <1>2, <1>4, <1>5, <1>15 DEF iv
    <2> DEFINE lower == IF a.start <= iv[1] THEN a.start ELSE iv[1]
               upper == IF a.end >= iv[2] THEN a.end ELSE iv[2]
    <2>2. z = [a EXCEPT !.start = Min({a.start, iv[1]}), !.end = Max({a.end, iv[2]})]
      BY <1>2, <1>5, <1>15 DEF Absorb
    <2>3. Min({a.start, iv[1]}) = lower /\ Max({a.end, iv[2]}) = upper
      BY <1>2, <1>5, Extremes
    <2>4. z = [a EXCEPT !.start = lower, !.end = upper]
      BY <2>2, <2>3
    <2>5. lower \in Int /\ upper \in Int
      BY <1>2, <1>5
    <2>6. /\ z \in Merging /\ z.start = lower /\ z.end = upper /\ z.placed = a.placed
          /\ z.merged = a.merged
      <3> HIDE DEF lower, upper
      <3> QED BY <1>5, <2>4, <2>5 DEF Merging
    <2> HIDE DEF z
    <2>7. lower < upper
          /\ \A b \in Int : lower <= b /\ b < upper
                            <=> (a.start <= b /\ b < a.end) \/ (iv[1] <= b /\ b < iv[2])
      <3>1. /\ a.start \in Int /\ a.end \in Int /\ iv[1] \in Int /\ iv[2] \in Int
            /\ a.start < a.end /\ iv[1] < iv[2] /\ iv[1] <= a.end /\ iv[2] >= a.start
        BY <1>2, <1>5, <1>15
      <3> QED BY ONLY <3>1
    <2>8. EndsBefore(a.merged, lower)
      BY <1>5, <1>9, <2>1
    <2>9. \A k \in rest : EndsBefore(a.merged, s[k][1])
      BY <1>3, <1>5
    <2> HIDE DEF lower, upper
    <2> QED BY <1>5, <1>6, <2>1, <2>6, <2>7, <2>8, <2>9
  <1> QED BY <1>2, <1>5, <1>12, <1>13, <1>14, <1>15

\* MergeInterval keeps a list in order and apart, and adds the bytes it is given.
LEMMA MergeAdds ==
  ASSUME NEW s, s \in Seq(Interval), Separate(s),
         NEW lo, lo \in Int, NEW hi, hi \in Int, lo < hi
  PROVE  /\ MergeInterval(s, lo, hi) \in Seq(Interval) /\ Separate(MergeInterval(s, lo, hi))
         /\ \A b \in Int : In(MergeInterval(s, lo, hi), b) <=> In(s, b) \/ (lo <= b /\ b < hi)
  <1> DEFINE N == Len(s)
             zero == [start |-> lo, end |-> hi, placed |-> FALSE, merged |-> <<>>]
             P(f) == f = [n \in 0..N |-> IF n = 0
                                         THEN [start |-> lo, end |-> hi, placed |-> FALSE, merged |-> <<>>]
                                         ELSE Absorb(f[n - 1], s[n])]
             acc == CHOOSE f : P(f)
             done == acc[N]
             F == [n \in 1..N |-> [a \in Merging |->
                     IF Placing(s, lo, hi, n - 1, a) THEN Absorb(a, s[n]) ELSE a]]
             f == Iterated(N, Merging, zero, F)
  <1>1. N \in Nat
    BY IntervalEnds
  <1>2. MergeInterval(s, lo, hi) = IF done.placed THEN done.merged ELSE Place(done)
    BY DEF MergeInterval
  <1>3. zero \in Merging
    BY DEF Merging, Interval
  <1>4. Placing(s, lo, hi, 0, zero)
    <2>1. zero.start = lo /\ zero.end = hi /\ zero.placed = FALSE /\ zero.merged = <<>>
      OBVIOUS
    <2>2. Len(<<>>) = 0
      OBVIOUS
    <2> HIDE DEF zero
    <2>3. Separate(zero.merged) /\ (\A x : EndsBefore(zero.merged, x)) /\ \A b : ~ In(zero.merged, b)
      BY <2>1, <2>2 DEF Separate, EndsBefore, In
    <2> QED BY <1>3, <2>1, <2>3 DEF Placing
  <1> HIDE DEF acc, N
  <1>5. ASSUME NEW n \in 1..N, NEW a, Placing(s, lo, hi, n - 1, a)
        PROVE  Placing(s, lo, hi, n, Absorb(a, s[n]))
    BY <1>5, AbsorbPlaces DEF N
  <1>6. F \in [1..N -> [Merging -> Merging]]
    <2> SUFFICES ASSUME NEW n \in 1..N, NEW a \in Merging
                 PROVE  (IF Placing(s, lo, hi, n - 1, a) THEN Absorb(a, s[n]) ELSE a) \in Merging
      OBVIOUS
    <2>1. Placing(s, lo, hi, n - 1, a) => Absorb(a, s[n]) \in Merging
      BY <1>5 DEF Placing
    <2> QED BY <2>1
  <1>7. f \in [0..N -> Merging] /\ f[0] = zero /\ \A n \in 1..N : f[n] = F[n][f[n - 1]]
    <2> DEFINE S == Merging
    <2>1. N \in Nat /\ zero \in S /\ F \in [1..N -> [S -> S]]
      BY <1>1, <1>3, <1>6
    <2> HIDE DEF F, S, zero
    <2>2. Iterated(N, S, zero, F) \in [0..N -> S] /\ Iterated(N, S, zero, F)[0] = zero
      BY ONLY <2>1, Recursion
    <2>3. \A n \in 1..N : Iterated(N, S, zero, F)[n] = F[n][Iterated(N, S, zero, F)[n - 1]]
      BY ONLY <2>1, Recursion
    <2> QED BY <2>2, <2>3 DEF S
  <1> HIDE DEF f
  <1>8. ASSUME NEW n \in 1..N, Placing(s, lo, hi, n - 1, f[n - 1])
        PROVE  f[n] = Absorb(f[n - 1], s[n]) /\ Placing(s, lo, hi, n, f[n])
    <2>1. n - 1 \in 0..N /\ f[n - 1] \in Merging
      BY <1>1, <1>7
    <2>2. f[n] = F[n][f[n - 1]]
      BY <1>7
    <2>3. f[n] = Absorb(f[n - 1], s[n])
      BY <1>8, <2>1, <2>2
    <2> QED BY <1>5, <1>8, <2>3
  <1> HIDE DEF F, zero
  <1>9. \A n \in 0..N : Placing(s, lo, hi, n, f[n])
    <2> DEFINE Bad == {n \in 0..N : ~ Placing(s, lo, hi, n, f[n])}
    <2> SUFFICES ASSUME Bad # {} PROVE FALSE
      OBVIOUS
    <2>1. PICK n \in Bad : \A k \in Bad : n <= k
      <3>1. Bad \subseteq Nat
        BY <1>1
      <3> HIDE DEF Bad
      <3> QED BY <3>1, LeastNatural
    <2>2. Placing(s, lo, hi, 0, f[0])
      BY <1>4, <1>7
    <2>3. n \in 1..N /\ ~ Placing(s, lo, hi, n, f[n]) /\ n - 1 \in 0..N /\ ~ (n <= n - 1)
      BY <1>1, <2>1, <2>2
    <2>4. Placing(s, lo, hi, n - 1, f[n - 1])
      BY <2>1, <2>3
    <2> QED BY <1>8, <2>3, <2>4
  <1>10. P(f)
    <2>1. \A n \in 0..N : n # 0 => n \in 1..N /\ n - 1 \in 0..N
      BY <1>1
    <2>2. \A n \in 0..N : f[n] = IF n = 0 THEN zero ELSE Absorb(f[n - 1], s[n])
      BY <1>7, <1>8, <1>9, <2>1
    <2>3. f = [n \in 0..N |-> IF n = 0 THEN zero ELSE Absorb(f[n - 1], s[n])]
      BY <1>7, <2>2
    <2> QED BY <2>3 DEF zero
  <1>11. P(acc)
    BY <1>10 DEF acc
  <1>12. acc[0] = zero /\ \A n \in 1..N : acc[n] = Absorb(acc[n - 1], s[n])
    <2>1. acc = [n \in 0..N |-> IF n = 0 THEN zero ELSE Absorb(acc[n - 1], s[n])]
      BY <1>11 DEF zero
    <2>2. 0 \in 0..N /\ \A n \in 1..N : n \in 0..N /\ n # 0
      BY <1>1
    <2> QED BY <2>1, <2>2
  <1>13. \A n \in 0..N : Placing(s, lo, hi, n, acc[n])
    <2> DEFINE Bad == {n \in 0..N : ~ Placing(s, lo, hi, n, acc[n])}
    <2> SUFFICES ASSUME Bad # {} PROVE FALSE
      OBVIOUS
    <2>1. PICK n \in Bad : \A k \in Bad : n <= k
      <3>1. Bad \subseteq Nat
        BY <1>1
      <3> HIDE DEF Bad
      <3> QED BY <3>1, LeastNatural
    <2>2. Placing(s, lo, hi, 0, acc[0])
      BY <1>4, <1>12
    <2>3. n \in 1..N /\ ~ Placing(s, lo, hi, n, acc[n]) /\ n - 1 \in 0..N /\ ~ (n <= n - 1)
      BY <1>1, <2>1, <2>2
    <2>4. Placing(s, lo, hi, n - 1, acc[n - 1])
      BY <2>1, <2>3
    <2> QED BY <1>5, <1>12, <2>3, <2>4
  <1>14. Placing(s, lo, hi, N, done)
    BY <1>1, <1>13
  <1> HIDE DEF done
  <1>15. /\ done \in Merging /\ done.start \in Int /\ done.end \in Int /\ done.placed \in BOOLEAN
         /\ done.merged \in Seq(Interval)
         /\ done.start < done.end /\ Separate(done.merged)
         /\ ~done.placed => EndsBefore(done.merged, done.start)
         /\ \A b \in Int : In(done.merged, b) \/ (~done.placed /\ done.start <= b /\ b < done.end)
                           <=> In(s, b) \/ (lo <= b /\ b < hi)
    BY <1>14 DEF Placing, Merging, In, N
  <1>16. CASE done.placed
    BY <1>2, <1>15, <1>16
  <1>17. CASE ~done.placed
    <2> DEFINE own == <<done.start, done.end>>
               p == Append(done.merged, own)
    <2>1. own \in Interval /\ own[1] = done.start /\ own[2] = done.end
      BY <1>15 DEF Interval
    <2>2. p \in Seq(Interval) /\ Separate(p)
          /\ \A b \in Int : In(p, b) <=> In(done.merged, b) \/ (done.start <= b /\ b < done.end)
      <3> HIDE DEF own
      <3> QED BY <1>15, <1>17, <2>1, AddLast
    <2>3. MergeInterval(s, lo, hi) = p
      BY <1>2, <1>17 DEF Place
    <2> HIDE DEF p
    <2> QED BY <1>15, <1>17, <2>2, <2>3
  <1> QED BY <1>15, <1>16, <1>17

-----------------------------------------------------------------------------
(* The accumulators *)

SeqNo == 0..(SeqSpace - 1)
Counter == {"retransmission", "outOfOrder", "spurious", "zeroWindow", "reset"}
Syn == [dir : Direction, seq : SeqNo, at : Int]

TcpShape ==
  /\ segments \in Seq(TcpSegment)
  /\ pendingSyns \subseteq Syn
  /\ rttSamples \in Seq(Nat)
  /\ baseSeq \in [Direction -> SeqNo \cup {None}]
  /\ peerAck \in [Direction -> SeqNo \cup {None}]
  /\ covered \in [Direction -> Seq(Interval)]
  /\ count \in [Counter -> Nat]

(* The base of a direction is the number of its first segment.             *)
First(d, i) ==
  /\ i \in 1..Len(segments) /\ segments[i].dir = d
  /\ \A j \in 1..Len(segments) : segments[j].dir = d => i <= j

Based(d) ==
  \/ baseSeq[d] = None /\ \A i \in 1..Len(segments) : segments[i].dir # d
  \/ \E i \in Nat : First(d, i) /\ baseSeq[d] = segments[i].seq

(* The intervals of a direction are apart and hold the bytes its segments  *)
(* have brought.                                                           *)
Brought(i, d, b) ==
  LET start == Relative(segments[i].seq, baseSeq[d])
  IN  segments[i].dir = d /\ start <= b /\ b < start + segments[i].payload

Coverage(d) ==
  /\ Separate(covered[d])
  /\ \A b \in Int : In(covered[d], b) <=> \E i \in 1..Len(segments) : Brought(i, d, b)

TcpIInv == TcpShape /\ \A d \in Direction : Based(d) /\ Coverage(d)

\* A relative number is one of the sequence space.
LEMMA RelativeIs ==
  ASSUME NEW a \in SeqNo, NEW b \in SeqNo
  PROVE  Relative(a, b) \in SeqNo /\ Relative(a, b) \in Int
  <1>1. SeqSpace \in Nat \ {0}
    BY SeqSpaceAssumption
  <1> QED BY <1>1 DEF Relative, SeqNo

\* What Observe makes of the history.
LEMMA OneMore ==
  ASSUME TcpShape, NEW s \in TcpSegment, segments' = Append(segments, s)
  PROVE  /\ segments' \in Seq(TcpSegment) /\ Len(segments) \in Nat
         /\ Len(segments') = Len(segments) + 1
         /\ segments'[Len(segments) + 1] = s
         /\ \A i \in 1..Len(segments) : segments'[i] = segments[i] /\ segments[i] \in TcpSegment
         /\ \A i \in 1..Len(segments') : i \in 1..Len(segments) \/ i = Len(segments) + 1
         /\ \A i \in 1..Len(segments) : i \in 1..Len(segments')
  <1>1. segments \in Seq(TcpSegment)
    BY DEF TcpShape
  <1>2. Len(segments) \in Nat /\ \A i \in 1..Len(segments) : segments[i] \in TcpSegment
    BY <1>1, LenProperties
  <1>3. /\ segments' \in Seq(TcpSegment) /\ Len(segments') = Len(segments) + 1
        /\ segments'[Len(segments) + 1] = s
        /\ \A i \in 1..Len(segments) : segments'[i] = segments[i]
    BY <1>1, AppendProperties
  <1> QED BY <1>2, <1>3

\* The counters only grow.
LEMMA CountsStay ==
  ASSUME count \in [Counter -> Nat], NEW s,
         BumpFlagsOnly(s) \/ \E field \in Counter : Bump(field, s)
  PROVE  count' \in [Counter -> Nat]
  <1> DEFINE m == IF s.rst THEN 1 ELSE 0
             n == IF s.window = 0 /\ ~s.syn /\ ~s.rst THEN 1 ELSE 0
             a == [count EXCEPT !.reset = @ + m]
             c == [a EXCEPT !.zeroWindow = @ + n]
  <1>1. m \in Nat /\ n \in Nat /\ Flagged(s) = c
    BY DEF Flagged
  <1> HIDE DEF m, n
  <1>2. a \in [Counter -> Nat]
    <2>1. count["reset"] \in Nat
      BY DEF Counter
    <2> QED BY <1>1, <2>1
  <1>3. c \in [Counter -> Nat]
    <2> HIDE DEF a
    <2>1. a["zeroWindow"] \in Nat
      BY <1>2 DEF Counter
    <2> QED BY <1>1, <1>2, <2>1
  <1>4. Flagged(s) \in [Counter -> Nat]
    BY <1>1, <1>3
  <1> QED BY <1>4 DEF BumpFlagsOnly, Bump

\* Observing a segment keeps the types.
LEMMA ObserveTypes ==
  ASSUME TcpShape, \A d \in Direction : Coverage(d),
         NEW s \in TcpSegment, Observe(s)
  PROVE  TcpShape'
  <1>1. s.dir \in Direction /\ Reply(s.dir) \in Direction /\ s.seq \in SeqNo /\ s.ack \in SeqNo
        /\ s.at \in Int /\ s.payload \in Nat
    BY DEF TcpSegment, Direction, Reply, SeqNo
  <1>2. segments' \in Seq(TcpSegment)
    BY OneMore DEF Observe
  <1>3. pendingSyns' \subseteq Syn /\ rttSamples' \in Seq(Nat)
    <2>1. pendingSyns \subseteq Syn /\ rttSamples \in Seq(Nat)
      BY DEF TcpShape
    <2>2. CASE Remember(s)
      <3>1. [dir |-> s.dir, seq |-> s.seq, at |-> s.at] \in Syn
        BY <1>1 DEF Syn
      <3> QED BY <2>1, <2>2, <3>1 DEF Remember
    <2>3. CASE Answer(s)
      <3>1. CASE UNCHANGED <<pendingSyns, rttSamples>>
        BY <2>1, <3>1
      <3>2. ASSUME NEW p \in pendingSyns, pendingSyns' = pendingSyns \ {p},
                   rttSamples' = IF s.at >= p.at THEN Append(rttSamples, s.at - p.at) ELSE rttSamples
            PROVE  pendingSyns' \subseteq Syn /\ rttSamples' \in Seq(Nat)
        <4>1. p.at \in Int
          BY <2>1 DEF Syn
        <4>2. s.at >= p.at => s.at - p.at \in Nat
          BY <1>1, <4>1
        <4> DEFINE e == s.at - p.at
        <4>3. s.at >= p.at => Append(rttSamples, e) \in Seq(Nat)
          <5> HIDE DEF e
          <5>1. s.at >= p.at => e \in Nat
            BY <4>2 DEF e
          <5> QED BY <2>1, <5>1
        <4> QED BY <2>1, <3>2, <4>3
      <3> QED BY <2>3, <3>1, <3>2 DEF Answer
    <2> QED BY <2>1, <2>2, <2>3 DEF Observe, ObserveHandshake
  <1>4. peerAck' \in [Direction -> SeqNo \cup {None}]
    BY <1>1 DEF Observe, NotePeerAck, TcpShape
  <1> DEFINE base == IF baseSeq[s.dir] = None THEN s.seq ELSE baseSeq[s.dir]
             start == Relative(s.seq, base)
             end == start + s.payload
  <1>5. base \in SeqNo
    BY <1>1 DEF TcpShape
  <1>6. start \in Int /\ end \in Int
    <2> HIDE DEF base
    <2>1. start \in Int
      BY <1>1, <1>5, RelativeIs
    <2> QED BY <1>1, <2>1
  <1>7. baseSeq' = [baseSeq EXCEPT ![s.dir] = base]
    BY DEF Observe, ObserveRetransmission
  <1>8. baseSeq' \in [Direction -> SeqNo \cup {None}]
    <2> HIDE DEF base
    <2> QED BY <1>1, <1>5, <1>7 DEF TcpShape
  <1>9. /\ BumpFlagsOnly(s) \/ \E field \in Counter : Bump(field, s)
        /\ \/ UNCHANGED covered
           \/ /\ s.payload > 0
              /\ covered' = [covered EXCEPT ![s.dir] = MergeInterval(covered[s.dir], start, end)]
    BY DEF Observe, ObserveRetransmission, ResendCovered, CoverNew, ObserveControl, Counter
  <1> HIDE DEF base, start, end
  <1>10. count' \in [Counter -> Nat]
    <2>1. count \in [Counter -> Nat]
      BY DEF TcpShape
    <2>2. CASE BumpFlagsOnly(s)
      BY <2>1, <2>2, CountsStay
    <2>3. CASE \E field \in Counter : Bump(field, s)
      BY <2>1, <2>3, CountsStay
    <2> QED BY <1>9, <2>2, <2>3
  <1>11. covered' \in [Direction -> Seq(Interval)]
    <2> SUFFICES ASSUME s.payload > 0,
                        covered' = [covered EXCEPT ![s.dir] = MergeInterval(covered[s.dir], start, end)]
                 PROVE  MergeInterval(covered[s.dir], start, end) \in Seq(Interval)
      BY <1>1, <1>9 DEF TcpShape
    <2>1. covered[s.dir] \in Seq(Interval) /\ Separate(covered[s.dir]) /\ start < end
      BY <1>1, <1>6 DEF TcpShape, Coverage, end
    <2> QED BY <1>6, <2>1, MergeAdds
  <1> QED BY <1>2, <1>3, <1>4, <1>8, <1>10, <1>11 DEF TcpShape

\* Observing a segment adds its bytes to the intervals of its direction.
LEMMA ObserveCovers ==
  ASSUME TcpIInv, NEW s \in TcpSegment, Observe(s), NEW d \in Direction
  PROVE  Based(d)' /\ Coverage(d)'
  <1> DEFINE base == IF baseSeq[s.dir] = None THEN s.seq ELSE baseSeq[s.dir]
             start == Relative(s.seq, base)
             end == start + s.payload
  <1>1. TcpShape /\ Based(d) /\ Coverage(d)
    BY DEF TcpIInv
  <1>n. PICK n \in Nat : n = Len(segments)
    BY <1>1, OneMore DEF Observe
  <1>2. /\ s.dir \in Direction /\ s.seq \in SeqNo /\ s.payload \in Nat
        /\ baseSeq \in [Direction -> SeqNo \cup {None}] /\ covered \in [Direction -> Seq(Interval)]
        /\ None \notin SeqNo
    BY <1>1 DEF TcpSegment, TcpShape, SeqNo, None
  <1>3. /\ Len(segments) = n /\ Len(segments') = n + 1 /\ segments'[n + 1] = s
        /\ \A i \in 1..n : segments'[i] = segments[i] /\ segments[i] \in TcpSegment
        /\ \A i \in 1..(n + 1) : i \in 1..n \/ i = n + 1
        /\ \A i \in 1..n : i \in 1..(n + 1)
    BY <1>1, <1>n, OneMore DEF Observe
  <1>4. base \in SeqNo
    BY <1>2
  <1>5. start \in Int /\ end \in Int
    <2> HIDE DEF base
    <2>1. start \in Int
      BY <1>2, <1>4, RelativeIs
    <2> QED BY <1>2, <2>1
  <1>6. baseSeq' = [baseSeq EXCEPT ![s.dir] = base]
    BY DEF Observe, ObserveRetransmission
  <1>7. baseSeq'[s.dir] = base /\ \A e \in Direction : e # s.dir => baseSeq'[e] = baseSeq[e]
    <2> HIDE DEF base
    <2> QED BY <1>2, <1>6
  <1>8. \/ /\ s.payload > 0 /\ FullyCovered(covered[s.dir], start, end)
           /\ UNCHANGED covered
        \/ /\ s.payload > 0
           /\ covered' = [covered EXCEPT ![s.dir] = MergeInterval(covered[s.dir], start, end)]
        \/ s.payload = 0 /\ UNCHANGED covered
    BY DEF Observe, ObserveRetransmission, ResendCovered, CoverNew, ObserveControl
  <1>9. CASE d # s.dir
    <2>1. covered'[d] = covered[d]
      <3> HIDE DEF start, end
      <3> QED BY <1>2, <1>8, <1>9
    <2>2. baseSeq'[d] = baseSeq[d]
      BY <1>7, <1>9
    <2>3. Based(d)'
      BY <1>1, <1>3, <1>9, <2>2 DEF Based, First
    <2>4. \A b : (\E i \in 1..(n + 1) : Brought(i, d, b)') <=> \E i \in 1..n : Brought(i, d, b)
      BY <1>3, <1>9, <2>2 DEF Brought
    <2> QED BY <1>1, <1>3, <2>1, <2>3, <2>4 DEF Coverage
  <1>10. CASE d = s.dir
    <2> HIDE DEF base
    <2>1. \A i \in 1..n : segments[i].dir = d => base = baseSeq[d]
      <3>1. \A i \in 1..n : segments[i].seq \in SeqNo
        BY <1>3 DEF TcpSegment, SeqNo
      <3>2. (\A i \in 1..n : segments[i].dir # d) \/ \E i \in 1..n : baseSeq[d] = segments[i].seq
        BY <1>1, <1>3 DEF Based, First
      <3>3. (\A i \in 1..n : segments[i].dir # d) \/ baseSeq[d] # None
        BY <1>2, <3>1, <3>2
      <3> QED BY <1>10, <3>3 DEF base
    <2>2. Based(d)'
      <3>1. CASE baseSeq[d] = None /\ \A i \in 1..n : segments[i].dir # d
        <4>1. First(d, n + 1)'
          BY <1>3, <1>10, <3>1 DEF First
        <4>2. base = s.seq
          BY <1>10, <3>1 DEF base
        <4>3. n + 1 \in Nat /\ baseSeq'[d] = segments'[n + 1].seq
          BY <1>3, <1>7, <1>10, <4>2
        <4> QED BY <4>1, <4>3 DEF Based
      <3>2. ASSUME NEW i \in Nat, First(d, i), baseSeq[d] = segments[i].seq
            PROVE  Based(d)'
        <4>1. i \in 1..n /\ segments[i].dir = d
          BY <1>3, <3>2 DEF First
        <4>2. First(d, i)'
          BY <1>3, <3>2, <4>1 DEF First
        <4>3. baseSeq'[d] = segments'[i].seq
          BY <1>3, <1>7, <1>10, <2>1, <3>2, <4>1
        <4> QED BY <4>2, <4>3 DEF Based
      <3> QED BY <1>1, <1>3, <3>1, <3>2 DEF Based
    <2>3. \A b \in Int : (\E i \in 1..(n + 1) : Brought(i, d, b)')
                          <=> (\E i \in 1..n : Brought(i, d, b)) \/ (start <= b /\ b < end)
      <3>1. \A i \in 1..n, b \in Int : Brought(i, d, b)' <=> Brought(i, d, b)
        BY <1>3, <1>7, <1>10, <2>1 DEF Brought
      <3>2. \A b \in Int : Brought(n + 1, d, b)' <=> start <= b /\ b < end
        BY <1>3, <1>7, <1>10 DEF Brought
      <3> HIDE DEF start, end
      <3>3. n + 1 \in 1..(n + 1)
        BY <1>3
      <3> QED BY <1>3, <3>1, <3>2, <3>3
    <2>4. covered[d] \in Seq(Interval) /\ Separate(covered[d])
      BY <1>1, <1>2, <1>10 DEF Coverage
    <2> HIDE DEF start
    <2>5. Separate(covered'[d])
          /\ \A b \in Int : In(covered'[d], b) <=> In(covered[d], b) \/ (start <= b /\ b < end)
      <3>1. CASE s.payload > 0 /\ FullyCovered(covered[d], start, end) /\ UNCHANGED covered
        <4>1. \A b \in Int : start <= b /\ b < end => In(covered[d], b)
          <5>1. Reach(covered[d], start) >= end /\ Reach(covered[d], start) \in Int
            BY <1>5, <2>4, <3>1, ReachCovers DEF FullyCovered
          <5>2. \A b \in Int : start <= b /\ b < Reach(covered[d], start) => In(covered[d], b)
            BY <1>5, <2>4, ReachCovers
          <5> HIDE DEF end
          <5>3. \A b \in Int : b < end => b < Reach(covered[d], start)
            BY <1>5, <5>1
          <5> QED BY <5>2, <5>3
        <4> QED BY <2>4, <3>1, <4>1
      <3>2. CASE s.payload > 0 /\ covered' = [covered EXCEPT ![d] = MergeInterval(covered[d], start, end)]
        <4>1. start < end
          BY <1>2, <1>5, <3>2
        <4> HIDE DEF end
        <4>2. covered'[d] = MergeInterval(covered[d], start, end)
          BY <1>2, <3>2
        <4>3. covered[d] \in Seq(Interval) /\ Separate(covered[d]) /\ start \in Int /\ end \in Int /\ start < end
          BY <1>5, <2>4, <4>1
        <4>4. Separate(MergeInterval(covered[d], start, end))
          BY <4>3, MergeAdds
        <4>5. \A b \in Int : In(MergeInterval(covered[d], start, end), b)
                             <=> In(covered[d], b) \/ (start <= b /\ b < end)
          BY <4>3, MergeAdds
        <4> QED BY <4>2, <4>4, <4>5
      <3>3. CASE s.payload = 0 /\ UNCHANGED covered
        BY <1>2, <1>5, <2>4, <3>3
      <3> QED BY <1>8, <1>10, <3>1, <3>2, <3>3
    <2> HIDE DEF end
    <2>6. \A b \in Int : In(covered'[d], b) <=> \E i \in 1..(n + 1) : Brought(i, d, b)'
      BY <1>1, <1>3, <2>3, <2>5 DEF Coverage
    <2> QED BY <1>3, <2>2, <2>5, <2>6 DEF Coverage
  <1> QED BY <1>9, <1>10

-----------------------------------------------------------------------------
(* Handshakes *)

(* j is a SYN that nothing has answered yet, and the first of its          *)
(* transmissions of which this is so.                                      *)
Open(j) ==
  /\ j \in 1..Len(segments) /\ segments[j].syn /\ ~segments[j].ackFlag
  /\ \A k \in (j + 1)..Len(segments) : ~Answers(k, j)

SameSyn(i, j) == segments[i].dir = segments[j].dir /\ segments[i].seq = segments[j].seq

Oldest(j) == Open(j) /\ \A i \in 1..Len(segments) : Open(i) /\ SameSyn(i, j) => j <= i

(* The pending SYNs are the oldest of those.                               *)
Pending ==
  /\ \A p \in pendingSyns : \E j \in 1..Len(segments) :
       /\ Oldest(j)
       /\ p.dir = segments[j].dir /\ p.seq = segments[j].seq /\ p.at = segments[j].at
  /\ \A j \in 1..Len(segments) : Open(j) =>
       \E p \in pendingSyns : p.dir = segments[j].dir /\ p.seq = segments[j].seq

\* A pending SYN is known by its direction and number.
LEMMA PendingOnce ==
  ASSUME TcpShape, Pending, NEW p \in pendingSyns, NEW q \in pendingSyns,
         p.dir = q.dir, p.seq = q.seq
  PROVE  p = q
  <1>1. p \in Syn /\ q \in Syn
    BY DEF TcpShape
  <1>2. PICK i \in 1..Len(segments) : Oldest(i) /\ p.dir = segments[i].dir
                                      /\ p.seq = segments[i].seq /\ p.at = segments[i].at
    BY DEF Pending
  <1>3. PICK j \in 1..Len(segments) : Oldest(j) /\ q.dir = segments[j].dir
                                      /\ q.seq = segments[j].seq /\ q.at = segments[j].at
    BY DEF Pending
  <1>4. i <= j /\ j <= i
    BY <1>2, <1>3 DEF Oldest, SameSyn
  <1>5. p.at = q.at
    BY <1>2, <1>3, <1>4
  <1> QED BY <1>1, <1>5 DEF Syn

\* What was answered, asked and measured before stays so.
LEMMA PastStays ==
  ASSUME TcpShape, NEW s \in TcpSegment, segments' = Append(segments, s)
  PROVE  /\ \A k, j \in 1..Len(segments) : Answers(k, j)' <=> Answers(k, j)
         /\ \A i \in 1..Len(segments) : Elapsed(i)' = Elapsed(i)
  <1>n. PICK n \in Nat : n = Len(segments)
    BY OneMore
  <1>1. \A i \in 1..n : segments'[i] = segments[i]
    BY <1>n, OneMore
  <1>2. \A k, j \in 1..n : Answers(k, j)' <=> Answers(k, j)
    BY <1>1 DEF Answers
  <1>3. ASSUME NEW i \in 1..n PROVE Asked(i)' = Asked(i) /\ Asked(i) \subseteq 1..n
    <2>1. \A j \in 1..(i - 1) : j \in 1..n /\ \A k \in (j + 1)..(i - 1) : k \in 1..n
      BY <1>3
    <2> QED BY <1>1, <1>2, <2>1 DEF Asked
  <1>4. ASSUME NEW i \in 1..n PROVE Elapsed(i)' = Elapsed(i)
    <2>1. Asked(i)' = Asked(i) /\ Asked(i) \subseteq 1..n /\ \A j \in Asked(i) : j \in Int
      BY <1>3
    <2>2. Asked(i) # {} => Min(Asked(i)) \in Asked(i)
      <3>1. ASSUME Asked(i) # {} PROVE \E x \in Asked(i) : \A y \in Asked(i) : x <= y
        <4> DEFINE A == Asked(i)
        <4>1. A \subseteq Nat /\ A # {}
          BY <2>1, <3>1
        <4> HIDE DEF A
        <4>2. \E x \in A : \A y \in A : x <= y
          BY <4>1, LeastNatural
        <4> QED BY <4>2 DEF A
      <3> QED BY <3>1 DEF Min
    <2>3. CASE Asked(i) = {}
      BY <2>1, <2>3 DEF Elapsed
    <2>4. CASE Asked(i) # {}
      <3> DEFINE m == Min(Asked(i))
      <3>1. m \in 1..n /\ Min(Asked(i)') = m
        BY <2>1, <2>2, <2>4
      <3>2. Elapsed(i)' = segments'[i].at - segments'[m].at /\ Elapsed(i) = segments[i].at - segments[m].at
        <4>1. Elapsed(i)' = segments'[i].at - segments'[Min(Asked(i)')].at
          BY <2>1, <2>4 DEF Elapsed
        <4>2. Elapsed(i) = segments[i].at - segments[Min(Asked(i))].at
          BY <2>4 DEF Elapsed
        <4> QED BY <3>1, <4>1, <4>2
      <3> QED BY <1>1, <3>1, <3>2
    <2> QED BY <2>3, <2>4
  <1> QED BY <1>n, <1>2, <1>4


\* The entries of a table that a list names, in its order.
Values(e, list) == [k \in DOMAIN list |-> e[list[k]]]

Kept(n, e) == {i \in 1..n : e[i] >= 0}

\* Adding one last entry to a table adds its value, when it is kept, to the end
\* of the list of the values kept.
LEMMA OneMoreValue ==
  ASSUME NEW n, n \in Nat, NEW e, e \in [1..(n + 1) -> Int]
  PROVE  /\ ~(e[n + 1] >= 0) => Kept(n + 1, e) = Kept(n, e)
         /\ e[n + 1] >= 0 =>
              Values(e, Ascending(Kept(n + 1, e))) = Append(Values(e, Ascending(Kept(n, e))), e[n + 1])
         /\ \A k \in DOMAIN Ascending(Kept(n, e)) : Ascending(Kept(n, e))[k] \in 1..n
         /\ \A k \in DOMAIN Ascending(Kept(n + 1, e)) : Ascending(Kept(n + 1, e))[k] \in 1..(n + 1)
  <1> DEFINE old == Kept(n, e)
             new == Kept(n + 1, e)
             was == Ascending(old)
             is == Ascending(new)
             m == Cardinality(old)
  <1>1. /\ old \in SUBSET Int /\ IsFiniteSet(old) /\ old \subseteq 1..n
        /\ new \in SUBSET Int /\ IsFiniteSet(new) /\ new \subseteq 1..(n + 1)
    <2>1. IsFiniteSet(1..n) /\ IsFiniteSet(1..(n + 1))
      BY FS_Interval
    <2>2. old \subseteq 1..n /\ new \subseteq 1..(n + 1)
      BY DEF Kept
    <2> HIDE DEF old, new
    <2>3. IsFiniteSet(old) /\ IsFiniteSet(new)
      BY <2>1, <2>2, FS_Subset
    <2> QED BY <2>2, <2>3
  <1>2. \A i : i \in 1..(n + 1) <=> i \in 1..n \/ i = n + 1
    OBVIOUS
  <1>3. new = IF e[n + 1] >= 0 THEN old \cup {n + 1} ELSE old
    BY <1>2 DEF Kept
  <1> HIDE DEF old, new
  <1>4. /\ was \in [1..m -> old] /\ m \in Nat
        /\ is \in [1..Cardinality(new) -> new] /\ Cardinality(new) \in Nat
    BY <1>1, AscendingLists
  <1>5. ASSUME e[n + 1] >= 0
        PROVE  Values(e, is) = Append(Values(e, was), e[n + 1])
    <2>1. is = Append(was, n + 1)
      <3>1. \A i \in old : i < n + 1
        BY <1>1
      <3> QED BY <1>1, <1>3, <1>5, <3>1, AscendingAppend
    <2> HIDE DEF was, is, m
    <2>2. was \in [1..m -> Int] /\ \A k \in 1..m : was[k] \in 1..n
      BY <1>1, <1>4
    <2>3. was \in Seq(Int) /\ Len(was) = m /\ DOMAIN was = 1..m
      <3>1. was \in Seq(Int)
        BY <1>4, <2>2
      <3> QED BY <1>4, <2>2, <3>1
    <2>4. /\ is \in Seq(Int) /\ Len(is) = m + 1 /\ is[m + 1] = n + 1
          /\ \A k \in 1..m : is[k] = was[k]
      BY <2>1, <2>3, AppendProperties
    <2>5. DOMAIN is = 1..(m + 1)
      BY <2>4, LenProperties
    <2> DEFINE before == [k \in 1..m |-> e[was[k]]]
               after == [k \in 1..(m + 1) |-> e[is[k]]]
    <2>6. before \in [1..m -> Int]
      BY <2>2
    <2>7. before \in Seq(Int) /\ Len(before) = m /\ e[n + 1] \in Int
      <3> HIDE DEF before
      <3>1. before \in Seq(Int)
        BY <1>4, <2>6
      <3> QED BY <1>4, <2>6, <3>1
    <2>8. /\ Append(before, e[n + 1]) \in Seq(Int)
          /\ Len(Append(before, e[n + 1])) = m + 1
          /\ Append(before, e[n + 1])[m + 1] = e[n + 1]
          /\ \A k \in 1..m : Append(before, e[n + 1])[k] = before[k]
      <3> HIDE DEF before
      <3> QED BY <2>7, AppendProperties
    <2>9. \A k \in 1..(m + 1) : Append(before, e[n + 1])[k] = e[is[k]]
      <3>1. \A k \in 1..(m + 1) : k \in 1..m \/ k = m + 1
        BY <1>4
      <3>2. \A k \in 1..m : before[k] = e[was[k]]
        OBVIOUS
      <3> HIDE DEF before
      <3> QED BY <2>4, <2>8, <3>1, <3>2
    <2>10. DOMAIN Append(before, e[n + 1]) = 1..(m + 1)
      <3> HIDE DEF before
      <3> QED BY <2>8, LenProperties
    <2>11. Append(before, e[n + 1]) = after
      <3>1. Append(before, e[n + 1])
              = [k \in 1..(m + 1) |-> Append(before, e[n + 1])[k]]
        <4> HIDE DEF before
        <4> QED BY <2>8, <2>10
      <3> HIDE DEF before
      <3> QED BY <2>9, <3>1
    <2> QED BY <2>3, <2>5, <2>11 DEF Values
  <1>6. /\ \A k \in DOMAIN was : was[k] \in 1..n
        /\ \A k \in DOMAIN is : is[k] \in 1..(n + 1)
    <2> HIDE DEF was, is, m
    <2> QED BY <1>1, <1>4
  <1> QED BY <1>3, <1>5, <1>6 DEF old, new

\* What was measured stays, and the last segment adds at most its own time.
LEMMA MeasuredGrows ==
  ASSUME TcpShape, HandshakesAgree, NEW s \in TcpSegment, segments' = Append(segments, s),
         NEW n \in Nat, n = Len(segments),
         \A i \in 1..n : Elapsed(i) \in Int,
         \/ Elapsed(n + 1)' \in Int /\ ~(Elapsed(n + 1)' >= 0) /\ rttSamples' = rttSamples
         \/ Elapsed(n + 1)' \in Nat /\ rttSamples' = Append(rttSamples, Elapsed(n + 1)')
  PROVE  HandshakesAgree'
  <1>1. DOMAIN segments = 1..n /\ DOMAIN segments' = 1..(n + 1)
    <2>1. segments \in Seq(TcpSegment) /\ segments' \in Seq(TcpSegment) /\ Len(segments') = n + 1
      BY OneMore DEF TcpShape
    <2> QED BY <2>1, LenProperties
  <1>2. PICK e \in [1..(n + 1) -> Int] : /\ \A i \in 1..(n + 1) : Elapsed(i)' = e[i]
                                         /\ \A i \in 1..n : Elapsed(i) = e[i]
    <2>1. \A i \in 1..n : Elapsed(i)' = Elapsed(i)
      BY PastStays
    <2>2. \A i \in 1..(n + 1) : i \in 1..n \/ i = n + 1
      OBVIOUS
    <2> DEFINE f == [i \in 1..(n + 1) |-> IF i = n + 1 THEN Elapsed(n + 1)' ELSE Elapsed(i)]
    <2>3. \A i \in 1..n : i \in 1..(n + 1) /\ i # n + 1
      OBVIOUS
    <2>4. f \in [1..(n + 1) -> Int]
      BY <2>2
    <2>5. \A i \in 1..(n + 1) : Elapsed(i)' = f[i]
      BY <2>1, <2>2, <2>3
    <2>6. \A i \in 1..n : Elapsed(i) = f[i]
      BY <2>3
    <2> HIDE DEF f
    <2> QED BY <2>4, <2>5, <2>6
  <1>3. PICK old : old = Kept(n, e)
    OBVIOUS
  <1>4. PICK new : new = Kept(n + 1, e)
    OBVIOUS
  <1>5. /\ {i \in DOMAIN segments : Elapsed(i) >= 0} = old
        /\ {i \in DOMAIN segments' : Elapsed(i)' >= 0} = new
    BY <1>1, <1>2, <1>3, <1>4 DEF Kept
  <1>6. PICK was : was = Ascending(old)
    OBVIOUS
  <1>7. PICK is : is = Ascending(new)
    OBVIOUS
  <1>8. /\ ~(e[n + 1] >= 0) => is = was
        /\ e[n + 1] >= 0 => Values(e, is) = Append(Values(e, was), e[n + 1])
        /\ \A k \in DOMAIN was : was[k] \in 1..n
        /\ \A k \in DOMAIN is : is[k] \in 1..(n + 1)
    <2>1. /\ ~(e[n + 1] >= 0) => Kept(n + 1, e) = Kept(n, e)
          /\ e[n + 1] >= 0 =>
               Values(e, Ascending(Kept(n + 1, e))) = Append(Values(e, Ascending(Kept(n, e))), e[n + 1])
          /\ \A k \in DOMAIN Ascending(Kept(n, e)) : Ascending(Kept(n, e))[k] \in 1..n
          /\ \A k \in DOMAIN Ascending(Kept(n + 1, e)) : Ascending(Kept(n + 1, e))[k] \in 1..(n + 1)
      BY ONLY n \in Nat, e \in [1..(n + 1) -> Int], OneMoreValue
    <2> QED BY <1>3, <1>4, <1>6, <1>7, <2>1
  <1>9. rttSamples = Values(e, was)
    <2>1. rttSamples = [k \in DOMAIN was |-> Elapsed(was[k])]
      BY <1>5, <1>6 DEF HandshakesAgree
    <2> QED BY <1>2, <1>8, <2>1 DEF Values
  <1>10. e[n + 1] = Elapsed(n + 1)'
    BY <1>2
  <1>11. rttSamples' = Values(e, is)
    <2>1. CASE e[n + 1] >= 0
      <3>1. rttSamples' = Append(rttSamples, e[n + 1])
        BY <1>10, <2>1
      <3> QED BY <1>8, <1>9, <2>1, <3>1
    <2>2. CASE ~(e[n + 1] >= 0)
      <3>1. rttSamples' = rttSamples
        BY <1>10, <2>2
      <3> QED BY <1>8, <1>9, <2>2, <3>1
    <2> QED BY <2>1, <2>2
  <1>12. rttSamples' = [k \in DOMAIN is |-> Elapsed(is[k])']
    BY <1>2, <1>8, <1>11 DEF Values
  <1> QED BY <1>5, <1>7, <1>12 DEF HandshakesAgree

\* Reply is its own inverse.
LEMMA ReplyBack ==
  ASSUME NEW d \in Direction
  PROVE  Reply(d) \in Direction /\ \A e \in Direction : e = Reply(d) <=> d = Reply(e)
  BY DEF Direction, Reply

\* The first of the unanswered SYNs is one of them.
LEMMA FirstAsked ==
  ASSUME NEW A \in SUBSET Nat, NEW j \in A, \A i \in A : j <= i
  PROVE  Min(A) = j
  <1>1. A \subseteq Nat /\ j \in Nat
    OBVIOUS
  <1>2. Min(A) \in A /\ \A y \in A : Min(A) <= y
    <2>1. \E x \in A : \A y \in A : x <= y
      OBVIOUS
    <2> QED BY <2>1 DEF Min
  <1>3. Min(A) <= j /\ j <= Min(A) /\ Min(A) \in Nat
    BY <1>1, <1>2
  <1> QED BY <1>3

\* A time elapsed is a number, whether or not anything was asked.
LEMMA ElapsedIsTime ==
  ASSUME TcpShape, NEW i \in 1..Len(segments)
  PROVE  Elapsed(i) \in Int
  <1>1. PICK n \in Nat : n = Len(segments)
    BY DEF TcpShape
  <1>2. Asked(i) \subseteq 1..n
    <2>1. \A j \in 1..(i - 1) : j \in 1..n
      BY <1>1
    <2> QED BY <2>1 DEF Asked
  <1>3. \A j \in 1..n : segments[j].at \in Int
    <2>1. \A j \in 1..n : segments[j] \in TcpSegment
      BY <1>1 DEF TcpShape
    <2> QED BY <2>1 DEF TcpSegment
  <1>4. CASE Asked(i) = {}
    BY <1>4 DEF Elapsed
  <1>5. CASE Asked(i) # {}
    <2> DEFINE A == Asked(i)
    <2>1. A \subseteq Nat /\ A # {}
      BY <1>2, <1>5
    <2> HIDE DEF A
    <2>2. \E x \in A : \A y \in A : x <= y
      BY <2>1, LeastNatural
    <2>3. Min(A) \in A
      BY <2>2 DEF Min
    <2>4. Min(Asked(i)) \in 1..n
      BY <1>2, <2>3 DEF A
    <2> QED BY <1>1, <1>3, <1>5, <2>4 DEF Elapsed
  <1> QED BY <1>4, <1>5

\* What the new segment answers, and what it leaves open.
LEMMA NewAnswers ==
  ASSUME TcpShape, NEW s \in TcpSegment, segments' = Append(segments, s),
         NEW n \in Nat, n = Len(segments)
  PROVE  /\ \A j \in 1..n : Answers(n + 1, j)' <=>
              /\ s.syn /\ s.ackFlag
              /\ segments[j].dir = Reply(s.dir) /\ segments[j].seq = (s.ack - 1) % SeqSpace
         /\ Asked(n + 1)' = {j \in 1..n : Open(j) /\ Answers(n + 1, j)'}
         /\ \A j \in 1..n : Open(j)' <=> Open(j) /\ ~Answers(n + 1, j)'
         /\ Open(n + 1)' <=> s.syn /\ ~s.ackFlag
         /\ \A i, j \in 1..n : SameSyn(i, j)' <=> SameSyn(i, j)
         /\ \A i \in 1..n : SameSyn(i, n + 1)' <=>
              segments[i].dir = s.dir /\ segments[i].seq = s.seq
         /\ \A j \in 1..n : Oldest(j) /\ ~Answers(n + 1, j)' => Oldest(j)'
  <1>1. /\ Len(segments') = n + 1 /\ segments'[n + 1] = s
        /\ \A i \in 1..n : segments'[i] = segments[i]
    BY OneMore
  <1>2. /\ s.dir \in Direction /\ s.syn \in BOOLEAN /\ s.ackFlag \in BOOLEAN
        /\ \A i \in 1..n : segments[i].dir \in Direction
    <2>1. \A i \in 1..n : segments[i] \in TcpSegment
      BY DEF TcpShape
    <2> QED BY <2>1 DEF TcpSegment
  <1>3. \A k, j \in 1..n : Answers(k, j)' <=> Answers(k, j)
    BY PastStays
  <1>4. \A j \in 1..n : Answers(n + 1, j)' <=>
              /\ s.syn /\ s.ackFlag
              /\ segments[j].dir = Reply(s.dir) /\ segments[j].seq = (s.ack - 1) % SeqSpace
    <2>1. \A j \in 1..n : s.dir = Reply(segments[j].dir) <=> segments[j].dir = Reply(s.dir)
      BY <1>2, ReplyBack
    <2> QED BY <1>1, <2>1 DEF Answers
  <1>5. \A j \in 1..n : \A k : k \in (j + 1)..n => k \in 1..n
    OBVIOUS
  <1>6. Asked(n + 1)' = {j \in 1..n : Open(j) /\ Answers(n + 1, j)'}
    <2>1. (n + 1) - 1 = n
      OBVIOUS
    <2>2. Asked(n + 1)' = {j \in 1..n : /\ segments'[j].syn /\ ~segments'[j].ackFlag
                                        /\ Answers(n + 1, j)'
                                        /\ ~\E k \in (j + 1)..n : Answers(k, j)'}
      BY <2>1 DEF Asked
    <2>3. \A j \in 1..n : Open(j) <=> /\ segments'[j].syn /\ ~segments'[j].ackFlag
                                      /\ ~\E k \in (j + 1)..n : Answers(k, j)'
      BY <1>1, <1>3, <1>5 DEF Open
    <2> QED BY <2>2, <2>3
  <1>7. \A j \in 1..n : Open(j)' <=> Open(j) /\ ~Answers(n + 1, j)'
    <2>1. ASSUME NEW j \in 1..n
          PROVE  /\ j \in 1..(n + 1)
                 /\ \A k : k \in (j + 1)..(n + 1) <=> k \in (j + 1)..n \/ k = n + 1
      OBVIOUS
    <2>2. ASSUME NEW j \in 1..n PROVE Open(j)' <=> Open(j) /\ ~Answers(n + 1, j)'
      <3>1. Open(j)' <=> /\ segments'[j].syn /\ ~segments'[j].ackFlag
                         /\ \A k \in (j + 1)..(n + 1) : ~Answers(k, j)'
        BY <1>1, <2>1 DEF Open
      <3>2. Open(j) <=> /\ segments[j].syn /\ ~segments[j].ackFlag
                        /\ \A k \in (j + 1)..n : ~Answers(k, j)
        BY DEF Open
      <3> QED BY <1>1, <1>3, <1>5, <2>1, <3>1, <3>2
    <2> QED BY <2>2
  <1>8. Open(n + 1)' <=> s.syn /\ ~s.ackFlag
    <2>1. n + 1 \in 1..(n + 1) /\ ((n + 1) + 1)..(n + 1) = {}
      OBVIOUS
    <2> QED BY <1>1, <2>1 DEF Open
  <1>9. \A i, j \in 1..n : SameSyn(i, j)' <=> SameSyn(i, j)
    BY <1>1 DEF SameSyn
  <1>10. \A i \in 1..n : SameSyn(i, n + 1)' <=>
              segments[i].dir = s.dir /\ segments[i].seq = s.seq
    BY <1>1 DEF SameSyn
  <1>11. ASSUME NEW j \in 1..n, Oldest(j), ~Answers(n + 1, j)' PROVE Oldest(j)'
    <2>1. Open(j)'
      BY <1>7, <1>11 DEF Oldest
    <2>2. ASSUME NEW i \in 1..(n + 1), Open(i)', SameSyn(i, j)' PROVE j <= i
      <3>1. CASE i \in 1..n
        BY <1>7, <1>9, <1>11, <2>2, <3>1 DEF Oldest
      <3>2. CASE i = n + 1
        BY <3>2
      <3> QED BY <3>1, <3>2
    <2> QED BY <1>1, <2>1, <2>2 DEF Oldest
  <1> QED BY <1>4, <1>6, <1>7, <1>8, <1>9, <1>10, <1>11

\* A segment that answers nothing leaves every pending SYN the oldest of its kind.
LEMMA PendingStays ==
  ASSUME TcpShape, Pending, NEW s \in TcpSegment, segments' = Append(segments, s),
         NEW n \in Nat, n = Len(segments),
         \A j \in 1..n : Open(j) => ~Answers(n + 1, j)'
  PROVE  /\ \A p \in pendingSyns : \E j \in 1..(n + 1) :
              /\ Oldest(j)' /\ p.dir = segments'[j].dir /\ p.seq = segments'[j].seq
              /\ p.at = segments'[j].at
         /\ \A j \in 1..n : Open(j)' =>
              \E p \in pendingSyns : p.dir = segments'[j].dir /\ p.seq = segments'[j].seq
         /\ Asked(n + 1)' = {}
         /\ Elapsed(n + 1)' = -1
  <1>1. \A i \in 1..n : segments'[i] = segments[i] /\ i \in 1..(n + 1)
    BY OneMore
  <1>2. ASSUME NEW p \in pendingSyns
        PROVE  \E j \in 1..(n + 1) :
              /\ Oldest(j)' /\ p.dir = segments'[j].dir /\ p.seq = segments'[j].seq
              /\ p.at = segments'[j].at
    <2>1. PICK j \in 1..n : Oldest(j) /\ p.dir = segments[j].dir
                            /\ p.seq = segments[j].seq /\ p.at = segments[j].at
      BY DEF Pending
    <2>2. Open(j)
      BY <2>1 DEF Oldest
    <2>3. Oldest(j)'
      BY <2>1, <2>2, NewAnswers
    <2> QED BY <1>1, <2>1, <2>3
  <1>3. ASSUME NEW j \in 1..n, Open(j)'
        PROVE  \E p \in pendingSyns : p.dir = segments'[j].dir /\ p.seq = segments'[j].seq
    <2>1. Open(j)
      BY <1>3, NewAnswers
    <2> QED BY <1>1, <2>1 DEF Pending
  <1>4. Asked(n + 1)' = {}
    <2>1. Asked(n + 1)' = {j \in 1..n : Open(j) /\ Answers(n + 1, j)'}
      BY NewAnswers
    <2> QED BY <2>1
  <1>5. Elapsed(n + 1)' = -1
    BY <1>4 DEF Elapsed
  <1> QED BY <1>2, <1>3, <1>4, <1>5

\* A SYN-ACK that finds a pending SYN answers the oldest of the open ones.
LEMMA SynTaken ==
  ASSUME TcpShape, Pending, NEW s \in TcpSegment, segments' = Append(segments, s),
         NEW n \in Nat, n = Len(segments), s.syn, s.ackFlag,
         NEW p \in pendingSyns, p.dir = Reply(s.dir), p.seq = (s.ack - 1) % SeqSpace,
         pendingSyns' = pendingSyns \ {p}
  PROVE  Pending' /\ Elapsed(n + 1)' = s.at - p.at
  <1>1. /\ \A i \in 1..n : segments'[i] = segments[i] /\ i \in 1..(n + 1)
        /\ Len(segments') = n + 1 /\ segments'[n + 1] = s
    BY OneMore
  <1>2. PICK j \in 1..n : Oldest(j) /\ p.dir = segments[j].dir
                          /\ p.seq = segments[j].seq /\ p.at = segments[j].at
    BY DEF Pending
  <1>3. \A i \in 1..n : Answers(n + 1, i)' <=> segments[i].dir = p.dir /\ segments[i].seq = p.seq
    <2>1. \A i \in 1..n : Answers(n + 1, i)' <=>
            /\ s.syn /\ s.ackFlag
            /\ segments[i].dir = Reply(s.dir) /\ segments[i].seq = (s.ack - 1) % SeqSpace
      BY NewAnswers
    <2> QED BY <2>1
  <1>4. Elapsed(n + 1)' = s.at - p.at
    <2> DEFINE A == {i \in 1..n : Open(i) /\ Answers(n + 1, i)'}
    <2>1. A \in SUBSET Nat /\ j \in A
      BY <1>2, <1>3 DEF Oldest
    <2>2. \A i \in A : j <= i
      BY <1>2, <1>3 DEF Oldest, SameSyn
    <2>3. Asked(n + 1)' = A
      BY NewAnswers
    <2> HIDE DEF A
    <2>4. Min(A) = j
      BY <2>1, <2>2, FirstAsked
    <2>5. Min(Asked(n + 1)') = j /\ ~(Asked(n + 1)' = {})
      BY <2>1, <2>3, <2>4
    <2>6. Elapsed(n + 1)' = segments'[n + 1].at - segments'[Min(Asked(n + 1)')].at
      BY <2>5 DEF Elapsed
    <2> QED BY <1>1, <1>2, <2>5, <2>6
  <1>5. ASSUME NEW q \in pendingSyns'
        PROVE  \E i \in 1..(n + 1) :
              /\ Oldest(i)' /\ q.dir = segments'[i].dir /\ q.seq = segments'[i].seq
              /\ q.at = segments'[i].at
    <2>1. q \in pendingSyns /\ q # p
      BY <1>5
    <2>2. ~(q.dir = p.dir /\ q.seq = p.seq)
      BY <2>1, PendingOnce
    <2>3. PICK i \in 1..n : Oldest(i) /\ q.dir = segments[i].dir
                            /\ q.seq = segments[i].seq /\ q.at = segments[i].at
      BY <2>1 DEF Pending
    <2>4. ~Answers(n + 1, i)'
      BY <1>3, <2>2, <2>3
    <2>5. Oldest(i)'
      BY <2>3, <2>4, NewAnswers
    <2> QED BY <1>1, <2>3, <2>5
  <1>6. ASSUME NEW i \in 1..(n + 1), Open(i)'
        PROVE  \E q \in pendingSyns' : q.dir = segments'[i].dir /\ q.seq = segments'[i].seq
    <2>1. i # n + 1
      BY <1>6, NewAnswers
    <2>2. i \in 1..n
      BY <2>1
    <2>3. Open(i) /\ ~Answers(n + 1, i)'
      BY <1>6, <2>2, NewAnswers
    <2>4. PICK q \in pendingSyns : q.dir = segments[i].dir /\ q.seq = segments[i].seq
      BY <2>2, <2>3 DEF Pending
    <2>5. q # p
      BY <1>3, <2>2, <2>3, <2>4
    <2> QED BY <1>1, <2>2, <2>4, <2>5
  <1>7. Pending'
    <2>1. \A q \in pendingSyns' : \E i \in 1..(n + 1) :
              /\ Oldest(i)' /\ q.dir = segments'[i].dir /\ q.seq = segments'[i].seq
              /\ q.at = segments'[i].at
      BY <1>5
    <2>2. \A i \in 1..(n + 1) : Open(i)' =>
            \E q \in pendingSyns' : q.dir = segments'[i].dir /\ q.seq = segments'[i].seq
      BY <1>6
    <2>3. Len(segments') = n + 1
      BY <1>1
    <2> QED BY ONLY <2>1, <2>2, <2>3 DEF Pending
  <1> QED BY <1>4, <1>7

\* The pending SYNs and the samples follow every segment observed.
LEMMA ObserveMeasures ==
  ASSUME TcpShape, Pending, HandshakesAgree, NEW s \in TcpSegment,
         segments' = Append(segments, s), ObserveHandshake(s)
  PROVE  Pending' /\ HandshakesAgree'
  <1>1. PICK n \in Nat : n = Len(segments)
    BY DEF TcpShape
  <1>2. /\ \A i \in 1..n : segments'[i] = segments[i] /\ i \in 1..(n + 1)
        /\ Len(segments') = n + 1 /\ segments'[n + 1] = s
        /\ \A i : i \in 1..(n + 1) <=> i \in 1..n \/ i = n + 1
    BY <1>1, OneMore
  <1>3. \A i \in 1..n : Elapsed(i) \in Int
    BY <1>1, ElapsedIsTime
  <1>4. ASSUME \A j \in 1..n : Open(j) => ~Answers(n + 1, j)', UNCHANGED rttSamples
        PROVE  HandshakesAgree'
    <2>1. Elapsed(n + 1)' = -1
      BY <1>1, <1>4, PendingStays
    <2>2. Elapsed(n + 1)' \in Int /\ ~(Elapsed(n + 1)' >= 0) /\ rttSamples' = rttSamples
      BY <1>4, <2>1
    <2> QED BY <1>1, <1>3, <2>2, MeasuredGrows
  <1>5. ASSUME \A j \in 1..n : Open(j) => ~Answers(n + 1, j)',
               UNCHANGED pendingSyns,
               Open(n + 1)' => \E p \in pendingSyns : p.dir = s.dir /\ p.seq = s.seq
        PROVE  Pending'
    <2>1. /\ \A p \in pendingSyns : \E j \in 1..(n + 1) :
              /\ Oldest(j)' /\ p.dir = segments'[j].dir /\ p.seq = segments'[j].seq
              /\ p.at = segments'[j].at
          /\ \A j \in 1..n : Open(j)' =>
              \E p \in pendingSyns : p.dir = segments'[j].dir /\ p.seq = segments'[j].seq
      BY <1>1, <1>5, PendingStays
    <2> QED BY <1>2, <1>5, <2>1 DEF Pending
  <1>6. CASE ~s.syn /\ UNCHANGED <<pendingSyns, rttSamples>>
    <2>1. (\A j \in 1..n : ~Answers(n + 1, j)') /\ ~Open(n + 1)'
      BY <1>1, <1>6, NewAnswers
    <2> QED BY <1>4, <1>5, <1>6, <2>1
  <1>7. CASE s.syn /\ ~s.ackFlag /\ Remember(s)
    <2>1. (\A j \in 1..n : ~Answers(n + 1, j)') /\ UNCHANGED rttSamples
      BY <1>1, <1>7, NewAnswers DEF Remember
    <2>2. CASE \E p \in pendingSyns : p.dir = s.dir /\ p.seq = s.seq
      <3>1. UNCHANGED pendingSyns
        BY <1>7, <2>2 DEF Remember
      <3> QED BY <1>4, <1>5, <2>1, <2>2, <3>1
    <2>3. CASE ~\E p \in pendingSyns : p.dir = s.dir /\ p.seq = s.seq
      <3> DEFINE r == [dir |-> s.dir, seq |-> s.seq, at |-> s.at]
      <3>1. pendingSyns' = pendingSyns \cup {r}
        BY <1>7, <2>3 DEF Remember
      <3>2. r.dir = s.dir /\ r.seq = s.seq /\ r.at = s.at
        OBVIOUS
      <3> HIDE DEF r
      <3>3. /\ \A p \in pendingSyns : \E j \in 1..(n + 1) :
                 /\ Oldest(j)' /\ p.dir = segments'[j].dir /\ p.seq = segments'[j].seq
                 /\ p.at = segments'[j].at
            /\ \A j \in 1..n : Open(j)' =>
                 \E p \in pendingSyns : p.dir = segments'[j].dir /\ p.seq = segments'[j].seq
        BY <1>1, <2>1, PendingStays
      <3>4. Oldest(n + 1)'
        <4>1. Open(n + 1)' /\ n + 1 \in 1..(n + 1)
          BY <1>1, <1>7, NewAnswers
        <4>2. ASSUME NEW i \in 1..n, Open(i)', SameSyn(i, n + 1)' PROVE FALSE
          <5>1. segments[i].dir = s.dir /\ segments[i].seq = s.seq
            BY <1>1, <4>2, NewAnswers
          <5>2. PICK p \in pendingSyns : p.dir = segments'[i].dir /\ p.seq = segments'[i].seq
            BY <3>3, <4>2
          <5> QED BY <1>2, <2>3, <5>1, <5>2
        <4>3. \A i \in 1..(n + 1) : Open(i)' /\ SameSyn(i, n + 1)' => n + 1 <= i
          BY <1>2, <4>2
        <4> QED BY <1>2, <4>1, <4>3 DEF Oldest
      <3>5. Pending'
        <4>1. n + 1 \in 1..(n + 1)
          OBVIOUS
        <4> QED BY <1>2, <3>1, <3>2, <3>3, <3>4, <4>1 DEF Pending
      <3> QED BY <1>4, <2>1, <3>5
    <2> QED BY <2>2, <2>3
  <1>8. CASE s.syn /\ s.ackFlag /\ Answer(s)
    <2> DEFINE asked == {p \in pendingSyns : p.dir = Reply(s.dir)
                                              /\ p.seq = (s.ack - 1) % SeqSpace}
    <2>1. CASE asked = {} /\ UNCHANGED <<pendingSyns, rttSamples>>
      <3>1. \A j \in 1..n : Open(j) => ~Answers(n + 1, j)'
        <4>1. ASSUME NEW j \in 1..n, Open(j), Answers(n + 1, j)' PROVE FALSE
          <5>1. segments[j].dir = Reply(s.dir) /\ segments[j].seq = (s.ack - 1) % SeqSpace
            BY <1>1, <4>1, NewAnswers
          <5>2. PICK p \in pendingSyns : p.dir = segments[j].dir /\ p.seq = segments[j].seq
            BY <1>1, <4>1 DEF Pending
          <5> QED BY <2>1, <5>1, <5>2
        <4> QED BY <4>1
      <3>2. ~Open(n + 1)'
        BY <1>1, <1>8, NewAnswers
      <3> QED BY <1>4, <1>5, <2>1, <3>1, <3>2
    <2>2. CASE \E p \in asked :
                 /\ pendingSyns' = pendingSyns \ {p}
                 /\ rttSamples' = IF s.at >= p.at THEN Append(rttSamples, s.at - p.at)
                                                  ELSE rttSamples
      <3>1. PICK p \in asked :
                 /\ pendingSyns' = pendingSyns \ {p}
                 /\ rttSamples' = IF s.at >= p.at THEN Append(rttSamples, s.at - p.at)
                                                  ELSE rttSamples
        BY <2>2
      <3>2. p \in pendingSyns /\ p.dir = Reply(s.dir) /\ p.seq = (s.ack - 1) % SeqSpace
        OBVIOUS
      <3>3. Pending' /\ Elapsed(n + 1)' = s.at - p.at
        BY <1>1, <1>8, <3>1, <3>2, SynTaken
      <3>4. p.at \in Int /\ s.at \in Int
        BY <3>2 DEF TcpShape, Syn, TcpSegment
      <3>5. \/ Elapsed(n + 1)' \in Int /\ ~(Elapsed(n + 1)' >= 0) /\ rttSamples' = rttSamples
            \/ Elapsed(n + 1)' \in Nat /\ rttSamples' = Append(rttSamples, Elapsed(n + 1)')
        BY <3>1, <3>3, <3>4
      <3>6. HandshakesAgree'
        BY <1>1, <1>3, <3>5, MeasuredGrows
      <3> QED BY <3>3, <3>6
    <2> QED BY <1>8, <2>1, <2>2 DEF Answer
  <1> QED BY <1>6, <1>7, <1>8 DEF ObserveHandshake
-----------------------------------------------------------------------------
(* Classes *)

\* What the analyzer asks of the intervals is what it means to ask of the bytes.
LEMMA BytesAsked ==
  ASSUME NEW s, s \in Seq(Interval), Separate(s),
         NEW start, start \in Int, NEW end, end \in Int, start < end
  PROVE  /\ FullyCovered(s, start, end) <=> \A b \in start..(end - 1) : In(s, b)
         /\ Overlaps(s, start, end) <=> \E b \in start..(end - 1) : In(s, b)
  <1>1. /\ Reach(s, start) \in Int /\ Reach(s, start) >= start /\ ~In(s, Reach(s, start))
        /\ \A b \in Int : start <= b /\ b < Reach(s, start) => In(s, b)
    BY ReachCovers
  <1>2. ASSUME Reach(s, start) >= end, NEW b \in start..(end - 1) PROVE In(s, b)
    <2>1. start <= b /\ b < Reach(s, start)
      BY <1>1, <1>2
    <2> QED BY <1>1, <2>1
  <1>3. Reach(s, start) < end => Reach(s, start) \in start..(end - 1)
    BY <1>1
  <1>4. FullyCovered(s, start, end) <=> \A b \in start..(end - 1) : In(s, b)
    BY <1>1, <1>2, <1>3 DEF FullyCovered
  <1>5. /\ Len(s) \in Nat /\ DOMAIN s = 1..Len(s)
        /\ \A k \in 1..Len(s) : s[k][1] \in Int /\ s[k][2] \in Int /\ s[k][1] < s[k][2]
    BY IntervalEnds DEF Separate
  <1>6. ASSUME NEW k \in 1..Len(s), s[k][2] > start, s[k][1] < end
        PROVE  \E b \in start..(end - 1) : In(s, b)
    <2>1. CASE s[k][1] >= start
      <3>1. s[k][1] \in Int /\ s[k][1] <= s[k][1] /\ s[k][1] < s[k][2]
        BY <1>5
      <3>2. s[k][1] \in start..(end - 1)
        BY <1>6, <2>1, <3>1
      <3>3. In(s, s[k][1])
        BY <3>1 DEF In
      <3> QED BY <3>2, <3>3
    <2>2. CASE s[k][1] < start
      <3>1. start \in start..(end - 1)
        OBVIOUS
      <3>2. s[k][1] <= start /\ start < s[k][2]
        BY <1>5, <1>6, <2>2
      <3>3. In(s, start)
        BY <3>2 DEF In
      <3> QED BY <3>1, <3>3
    <2> QED BY <1>5, <2>1, <2>2
  <1>7. ASSUME NEW b \in start..(end - 1), In(s, b)
        PROVE  \E k \in 1..Len(s) : s[k][2] > start /\ s[k][1] < end
    <2>1. PICK k \in 1..Len(s) : s[k][1] <= b /\ b < s[k][2]
      BY <1>7 DEF In
    <2>2. s[k][2] > start /\ s[k][1] < end
      BY <1>5, <2>1
    <2> QED BY <2>2
  <1> QED BY <1>4, <1>5, <1>6, <1>7 DEF Overlaps

\* There is one first byte missing.
LEMMA FirstMissingIs ==
  ASSUME NEW first, first \in Int, NEW ends, \A e \in ends : e \in Int, NEW bytes,
         NEW m \in {first} \cup ends,
         m >= first, m \notin bytes, first..(m - 1) \subseteq bytes
  PROVE  FirstMissing(first, ends, bytes) = m
  <1> DEFINE Q(x) == x >= first /\ x \notin bytes /\ first..(x - 1) \subseteq bytes
             c == CHOOSE x \in {first} \cup ends : Q(x)
  <1>1. c \in {first} \cup ends /\ Q(c)
    BY Q(m)
  <1>2. FirstMissing(first, ends, bytes) = c
    BY DEF FirstMissing
  <1> HIDE DEF c
  <1>3. c \in Int /\ m \in Int
    BY <1>1
  <1>4. ~(m < c)
    <2>1. m < c => m \in first..(c - 1)
      BY <1>3
    <2> QED BY <1>1, <2>1
  <1>5. ~(c < m)
    <2>1. c < m => c \in first..(m - 1)
      BY <1>1, <1>3
    <2> QED BY <1>1, <2>1
  <1> QED BY <1>2, <1>3, <1>4, <1>5

\* Counting to the next number adds one or nothing.
LEMMA OneMoreCounted ==
  ASSUME NEW n, n \in Nat, NEW A, A \subseteq 1..n, NEW B, B \subseteq 1..(n + 1),
         \A i \in 1..n : i \in A <=> i \in B
  PROVE  /\ Cardinality(A) \in Nat
         /\ Cardinality(B) = Cardinality(A) + (IF n + 1 \in B THEN 1 ELSE 0)
  <1>1. IsFiniteSet(A)
    <2>1. IsFiniteSet(1..n)
      BY FS_Interval
    <2> QED BY <2>1, FS_Subset
  <1>2. n + 1 \notin A /\ \A i : i \in 1..(n + 1) <=> i \in 1..n \/ i = n + 1
    OBVIOUS
  <1>3. Cardinality(A) \in Nat
    BY <1>1, FS_CardinalityType
  <1>4. Cardinality(A \cup {n + 1}) = Cardinality(A) + 1
    BY <1>1, <1>2, FS_AddElement
  <1>5. CASE n + 1 \notin B
    <2>1. B = A
      BY <1>2, <1>5
    <2> QED BY <1>3, <1>5, <2>1
  <1>6. CASE n + 1 \in B
    <2>1. B = A \cup {n + 1}
      BY <1>2, <1>6
    <2> QED BY <1>3, <1>4, <1>6, <2>1
  <1> QED BY <1>5, <1>6

\* A segment's place is the one it has relative to the base of its direction.
LEMMA StartIs ==
  ASSUME TcpShape, NEW i \in 1..Len(segments), Based(segments[i].dir)
  PROVE  /\ Start(i) = Relative(segments[i].seq, baseSeq[segments[i].dir])
         /\ Start(i) \in SeqNo /\ Start(i) \in Int /\ End(i) \in Int /\ segments[i].payload \in Nat
         /\ FirstSeq(segments[i].dir) = baseSeq[segments[i].dir]
         /\ baseSeq[segments[i].dir] \in SeqNo
  <1> DEFINE d == segments[i].dir
  <1>1. PICK n \in Nat : n = Len(segments)
    BY DEF TcpShape
  <1>2. /\ DOMAIN segments = 1..n
        /\ \A j \in 1..n : segments[j].seq \in SeqNo /\ segments[j].payload \in Nat
    <2>1. DOMAIN segments = 1..n /\ \A j \in 1..n : segments[j] \in TcpSegment
      BY <1>1 DEF TcpShape
    <2> QED BY <2>1 DEF TcpSegment, SeqNo
  <1>3. PICK f \in 1..n : segments[f].dir = d /\ baseSeq[d] = segments[f].seq
                          /\ \A j \in 1..n : segments[j].dir = d => f <= j
    BY <1>1 DEF Based, First
  <1>4. FirstSeq(d) = segments[f].seq
    <2> DEFINE own == {j \in DOMAIN segments : segments[j].dir = d}
    <2>1. own \in SUBSET Nat /\ f \in own /\ \A j \in own : f <= j
      BY <1>2, <1>3
    <2> HIDE DEF own
    <2>2. Min(own) = f
      BY <2>1, FirstAsked
    <2> QED BY <2>2 DEF FirstSeq, own
  <1>5. segments[i].seq \in SeqNo /\ baseSeq[d] \in SeqNo /\ segments[i].payload \in Nat
    BY <1>1, <1>2, <1>3
  <1>6. Start(i) = Relative(segments[i].seq, baseSeq[d])
    BY <1>3, <1>4 DEF Start
  <1>7. Start(i) \in SeqNo /\ Start(i) \in Int
    BY <1>5, <1>6, RelativeIs
  <1> QED BY <1>3, <1>4, <1>5, <1>6, <1>7 DEF End

\* What was observed keeps its place and its class.
LEMMA PastKept ==
  ASSUME TcpIInv, NEW s \in TcpSegment, segments' = Append(segments, s),
         NEW n \in Nat, n = Len(segments)
  PROVE  /\ \A d \in Direction : (\E i \in 1..n : segments[i].dir = d) => FirstSeq(d)' = FirstSeq(d)
         /\ \A i \in 1..n : /\ Start(i)' = Start(i) /\ End(i)' = End(i)
                            /\ Class(i)' = Class(i)
                            /\ RepeatsControl(i)' <=> RepeatsControl(i)
  <1>1. TcpShape /\ \A d \in Direction : Based(d)
    BY DEF TcpIInv
  <1>2. /\ DOMAIN segments = 1..n /\ DOMAIN segments' = 1..(n + 1)
        /\ \A i \in 1..n : /\ segments'[i] = segments[i] /\ i \in 1..(n + 1)
                           /\ segments[i].dir \in Direction
        /\ \A i : i \in 1..(n + 1) <=> i \in 1..n \/ i = n + 1
    <2>1. segments \in Seq(TcpSegment) /\ segments' \in Seq(TcpSegment) /\ Len(segments') = n + 1
      BY <1>1, OneMore DEF TcpShape
    <2>2. DOMAIN segments = 1..n /\ DOMAIN segments' = 1..(n + 1)
      BY <2>1, LenProperties
    <2>3. \A i \in 1..n : segments'[i] = segments[i] /\ segments[i] \in TcpSegment
      BY <1>1, OneMore
    <2> QED BY <2>2, <2>3 DEF TcpSegment
  <1>3. ASSUME NEW d \in Direction, NEW i \in 1..n, segments[i].dir = d
        PROVE  FirstSeq(d)' = FirstSeq(d)
    <2>1. PICK f \in 1..n : segments[f].dir = d /\ \A j \in 1..n : segments[j].dir = d => f <= j
      BY <1>1, <1>3 DEF Based, First
    <2>2. Min({j \in DOMAIN segments : segments[j].dir = d}) = f
      <3> DEFINE own == {j \in DOMAIN segments : segments[j].dir = d}
      <3>1. own \in SUBSET Nat /\ f \in own /\ \A j \in own : f <= j
        BY <1>2, <2>1
      <3> HIDE DEF own
      <3>2. Min(own) = f
        BY <3>1, FirstAsked
      <3> QED BY <3>2 DEF own
    <2>3. Min({j \in DOMAIN segments' : segments'[j].dir = d}) = f
      <3> DEFINE own == {j \in DOMAIN segments' : segments'[j].dir = d}
      <3>1. own \in SUBSET Nat /\ f \in own /\ \A j \in own : f <= j
        BY <1>2, <2>1
      <3> HIDE DEF own
      <3>2. Min(own) = f
        BY <3>1, FirstAsked
      <3> QED BY <3>2 DEF own
    <2> QED BY <1>2, <2>1, <2>2, <2>3 DEF FirstSeq
  <1>4. ASSUME NEW i \in 1..n
        PROVE  FirstSeq(segments[i].dir)' = FirstSeq(segments[i].dir)
    BY <1>2, <1>3
  <1>5. \A i \in 1..n : Start(i)' = Start(i) /\ End(i)' = End(i)
    BY <1>2, <1>4 DEF Start, End
  <1>6. ASSUME NEW i \in 1..n
        PROVE  Class(i)' = Class(i) /\ (RepeatsControl(i)' <=> RepeatsControl(i))
    <2>1. \A j \in 1..(i - 1) : j \in 1..n
      OBVIOUS
    <2>2. EarlierData(i)' = EarlierData(i) /\ \A j \in EarlierData(i) : j \in 1..n
      BY <1>2, <2>1 DEF EarlierData
    <2>3. BytesBefore(i)' = BytesBefore(i)
      BY <1>5, <2>2 DEF BytesBefore
    <2>4. FrontierBefore(i)' = FrontierBefore(i)
      <3>1. {End(j) : j \in EarlierData(i)}' = {End(j) : j \in EarlierData(i)}
        BY <1>5, <2>2
      <3>2. CASE EarlierData(i) = {}
        BY <1>5, <2>2, <2>3, <3>1, <3>2 DEF FrontierBefore
      <3>3. CASE EarlierData(i) # {}
        <4>1. PICK e : e = EarlierData(i)
          OBVIOUS
        <4>2. e \subseteq Nat /\ e # {} /\ \A j \in e : j \in 1..n
          BY <2>2, <3>3, <4>1
        <4>3. \E x \in e : \A y \in e : x <= y
          BY <4>2, LeastNatural
        <4>4. PICK m \in 1..n : m = Min(e)
          BY <4>2, <4>3 DEF Min
        <4>5. Start(m)' = Start(m)
          BY <1>5
        <4>6. FrontierBefore(i) = FirstMissing(Start(m), {End(j) : j \in EarlierData(i)}, BytesBefore(i))
          BY <3>3, <4>1, <4>4 DEF FrontierBefore
        <4>7. EarlierData(i)' = e /\ e # {} /\ Min(e) = m
          BY <2>2, <4>1, <4>2, <4>4
        <4>8. FrontierBefore(i)' = FirstMissing(Start(m)', {End(j) : j \in EarlierData(i)}', BytesBefore(i)')
          BY <4>7 DEF FrontierBefore
        <4> QED BY <2>3, <3>1, <4>5, <4>6, <4>8
      <3> QED BY <3>2, <3>3
    <2>5. \A e : AcknowledgedBefore(i, e)' <=> AcknowledgedBefore(i, e)
      BY <1>2, <1>4, <2>1 DEF AcknowledgedBefore
    <2>6. Class(i)' = Class(i)
      BY <1>5, <2>3, <2>4, <2>5 DEF Class
    <2>7. RepeatsControl(i)' <=> RepeatsControl(i)
      BY <1>2, <1>5, <2>1 DEF RepeatsControl, IsControl
    <2> QED BY <2>6, <2>7
  <1> QED BY <1>3, <1>5, <1>6

\* The data observed in a direction, and the byte expected next: the first that
\* is missing after the start of the first data.
DataOf(d) == {i \in 1..Len(segments) : segments[i].dir = d /\ segments[i].payload > 0}

Frontier(d) ==
  \/ nextExpected[d] = None /\ DataOf(d) = {}
  \/ \E f \in DataOf(d) :
       /\ \A j \in DataOf(d) : f <= j
       /\ nextExpected[d] >= Start(f) /\ ~In(covered[d], nextExpected[d])
       /\ \A b \in Int : Start(f) <= b /\ b < nextExpected[d] => In(covered[d], b)

Frontiers == nextExpected \in [Direction -> Int] /\ \A d \in Direction : Frontier(d)

\* A byte is covered exactly when data of its direction has brought it.
LEMMA CoveredIs ==
  ASSUME TcpIInv, NEW d \in Direction, NEW b \in Int
  PROVE  In(covered[d], b) <=> \E i \in DataOf(d) : b \in Start(i)..(End(i) - 1)
  <1>1. TcpShape /\ Based(d) /\ Coverage(d)
    BY DEF TcpIInv
  <1>2. ASSUME NEW i \in 1..Len(segments), segments[i].dir = d
        PROVE  /\ Start(i) = Relative(segments[i].seq, baseSeq[d]) /\ Start(i) \in Int
               /\ End(i) = Start(i) + segments[i].payload /\ segments[i].payload \in Nat
    BY <1>1, <1>2, StartIs DEF End
  <1>3. ASSUME NEW i \in 1..Len(segments)
        PROVE  Brought(i, d, b) <=> i \in DataOf(d) /\ b \in Start(i)..(End(i) - 1)
    <2>1. CASE segments[i].dir = d
      <3>1. Brought(i, d, b) <=> Start(i) <= b /\ b < Start(i) + segments[i].payload
        BY <1>2, <2>1 DEF Brought
      <3>2. i \in DataOf(d) <=> segments[i].payload > 0
        BY <2>1 DEF DataOf
      <3> QED BY <1>2, <2>1, <3>1, <3>2
    <2>2. CASE segments[i].dir # d
      BY <2>2 DEF Brought, DataOf
    <2> QED BY <2>1, <2>2
  <1>4. \A i \in DataOf(d) : i \in 1..Len(segments)
    BY DEF DataOf
  <1> QED BY <1>1, <1>3, <1>4 DEF Coverage

\* The place of the segment observed last, and the bytes seen before it.
LEMMA NewPlace ==
  ASSUME TcpIInv, NEW s \in TcpSegment, Observe(s), NEW n \in Nat, n = Len(segments),
         NEW base, base = IF baseSeq[s.dir] = None THEN s.seq ELSE baseSeq[s.dir]
  PROVE  /\ Start(n + 1)' = Relative(s.seq, base) /\ base \in SeqNo
         /\ Start(n + 1)' \in SeqNo /\ s.payload \in Nat
         /\ End(n + 1)' = Start(n + 1)' + s.payload
         /\ FirstSeq(s.dir)' = base
         /\ EarlierData(n + 1)' = DataOf(s.dir)
         /\ \A j \in DataOf(s.dir) : j \in 1..n /\ Start(j)' = Start(j) /\ End(j)' = End(j)
         /\ BytesBefore(n + 1)' = {b \in Int : In(covered[s.dir], b)}
  <1>1. TcpShape /\ Based(s.dir) /\ segments' = Append(segments, s)
        /\ s.dir \in Direction /\ s.seq \in SeqNo /\ s.payload \in Nat
    BY DEF TcpIInv, Observe, TcpSegment, SeqNo
  <1>2. /\ Len(segments') = n + 1 /\ segments'[n + 1] = s
        /\ \A i \in 1..n : segments'[i] = segments[i]
        /\ DOMAIN segments' = 1..(n + 1)
        /\ \A i : i \in 1..(n + 1) <=> i \in 1..n \/ i = n + 1
    <2>1. segments' \in Seq(TcpSegment)
      BY <1>1, OneMore
    <2> QED BY <1>1, <2>1, OneMore, LenProperties
  <1>3. FirstSeq(s.dir)' = base /\ base \in SeqNo
    <2>1. CASE \E i \in 1..n : segments[i].dir = s.dir
      <3>1. PICK i \in 1..n : segments[i].dir = s.dir
        BY <2>1
      <3>2. FirstSeq(s.dir)' = FirstSeq(s.dir)
        BY <1>1, <2>1, PastKept
      <3>3. FirstSeq(s.dir) = baseSeq[s.dir] /\ baseSeq[s.dir] \in SeqNo
        BY <1>1, <3>1, StartIs
      <3>4. baseSeq[s.dir] # None
        BY <3>3 DEF SeqNo, None
      <3> QED BY <3>2, <3>3, <3>4
    <2>2. CASE \A i \in 1..n : segments[i].dir # s.dir
      <3>1. base = s.seq
        BY <1>1, <2>2 DEF Based, First
      <3>2. {i \in DOMAIN segments' : segments'[i].dir = s.dir} = {n + 1}
        BY <1>2, <2>2
      <3>3. Min({n + 1}) = n + 1
        <4>1. {n + 1} \in SUBSET Nat /\ \A i \in {n + 1} : n + 1 <= i
          OBVIOUS
        <4> QED BY <4>1, FirstAsked
      <3> QED BY <1>1, <1>2, <3>1, <3>2, <3>3 DEF FirstSeq
    <2> QED BY <2>1, <2>2
  <1>4. Start(n + 1)' = Relative(s.seq, base)
    BY <1>2, <1>3 DEF Start
  <1>5. Start(n + 1)' \in SeqNo
    BY <1>1, <1>3, <1>4, RelativeIs
  <1>6. End(n + 1)' = Start(n + 1)' + s.payload
    BY <1>2 DEF End
  <1>7. EarlierData(n + 1)' = DataOf(s.dir)
    <2>1. (n + 1) - 1 = n
      OBVIOUS
    <2> QED BY <1>2, <2>1 DEF EarlierData, DataOf
  <1>8. ASSUME NEW j \in DataOf(s.dir)
        PROVE  j \in 1..n /\ Start(j)' = Start(j) /\ End(j)' = End(j)
    <2>1. j \in 1..n
      BY DEF DataOf
    <2> QED BY <1>1, <2>1, PastKept
  <1>9. BytesBefore(n + 1)' = {b \in Int : In(covered[s.dir], b)}
    <2>1. BytesBefore(n + 1)' = UNION {Start(j)..(End(j) - 1) : j \in DataOf(s.dir)}
      BY <1>7, <1>8 DEF BytesBefore
    <2>2. \A b : b \in UNION {Start(j)..(End(j) - 1) : j \in DataOf(s.dir)}
                 <=> b \in Int /\ \E j \in DataOf(s.dir) : b \in Start(j)..(End(j) - 1)
      OBVIOUS
    <2> QED BY <1>1, <2>1, <2>2, CoveredIs
  <1> QED BY <1>1, <1>3, <1>4, <1>5, <1>6, <1>7, <1>8, <1>9

\* The byte expected next is the first that is missing.
LEMMA NewFrontier ==
  ASSUME TcpIInv, Frontiers, NEW s \in TcpSegment, Observe(s), NEW n \in Nat, n = Len(segments)
  PROVE  FrontierBefore(n + 1)' = IF nextExpected[s.dir] = None THEN Start(n + 1)'
                                                                 ELSE nextExpected[s.dir]
  <1>1. /\ EarlierData(n + 1)' = DataOf(s.dir) /\ Start(n + 1)' \in SeqNo
        /\ \A j \in DataOf(s.dir) : j \in 1..n /\ Start(j)' = Start(j) /\ End(j)' = End(j)
        /\ BytesBefore(n + 1)' = {b \in Int : In(covered[s.dir], b)}
    BY NewPlace
  <1>2. /\ s.dir \in Direction /\ Frontier(s.dir) /\ nextExpected[s.dir] \in Int
        /\ TcpShape /\ Based(s.dir)
    BY DEF Frontiers, TcpIInv, TcpSegment
  <1>3. \A j \in DataOf(s.dir) : Start(j) \in SeqNo /\ Start(j) \in Int /\ End(j) \in Int
    <2>1. \A j \in DataOf(s.dir) : j \in 1..Len(segments) /\ segments[j].dir = s.dir
      BY DEF DataOf
    <2> QED BY <1>2, <2>1, StartIs
  <1>4. CASE DataOf(s.dir) = {}
    <2>1. nextExpected[s.dir] = None
      BY <1>2, <1>4 DEF Frontier
    <2>2. PICK first : first = Start(n + 1)'
      OBVIOUS
    <2>3. BytesBefore(n + 1)' = {}
      BY <1>1, <1>2, <1>4, CoveredIs
    <2>4. FirstMissing(first, {}, {}) = first
      <3>1. first \in Int /\ first \in {first} \cup {} /\ first >= first /\ first..(first - 1) = {}
        BY <1>1, <2>2 DEF SeqNo
      <3>2. first \notin {} /\ {} \subseteq {}
        OBVIOUS
      <3> QED BY <3>1, <3>2, FirstMissingIs
    <2>5. {End(j) : j \in EarlierData(n + 1)}' = {}
      BY <1>1, <1>4
    <2> QED BY <1>1, <1>4, <2>1, <2>2, <2>3, <2>4, <2>5 DEF FrontierBefore
  <1>5. CASE DataOf(s.dir) # {}
    <2>1. PICK f \in DataOf(s.dir) :
             /\ \A j \in DataOf(s.dir) : f <= j
             /\ nextExpected[s.dir] >= Start(f) /\ ~In(covered[s.dir], nextExpected[s.dir])
             /\ \A b \in Int : Start(f) <= b /\ b < nextExpected[s.dir] => In(covered[s.dir], b)
      BY <1>2, <1>5 DEF Frontier
    <2>2. PICK data : data = DataOf(s.dir)
      OBVIOUS
    <2>3. PICK first : first = Start(f)
      OBVIOUS
    <2>4. PICK ends : ends = {End(j) : j \in DataOf(s.dir)}
      OBVIOUS
    <2>5. PICK bytes : bytes = {b \in Int : In(covered[s.dir], b)}
      OBVIOUS
    <2>6. PICK m : m = nextExpected[s.dir]
      OBVIOUS
    <2>7. /\ first \in Int /\ m \in Int /\ m >= first /\ m \notin bytes
          /\ \A e \in ends : e \in Int
          /\ first..(m - 1) \subseteq bytes
      BY <1>2, <1>3, <2>1, <2>3, <2>4, <2>5, <2>6
    <2>8. m \in {first} \cup ends
      <3>1. CASE m = first
        BY <3>1
      <3>2. CASE m # first
        <4>1. m - 1 \in Int /\ In(covered[s.dir], m - 1)
          BY <2>1, <2>3, <2>6, <2>7, <3>2
        <4>2. PICK j \in DataOf(s.dir) : m - 1 \in Start(j)..(End(j) - 1)
          BY <1>2, <4>1, CoveredIs
        <4>3. m \notin Start(j)..(End(j) - 1)
          BY <1>2, <2>1, <2>6, CoveredIs
        <4>4. m = End(j)
          BY <1>3, <2>7, <4>2, <4>3
        <4> QED BY <2>4, <4>4
      <3> QED BY <3>1, <3>2
    <2>9. FirstMissing(first, ends, bytes) = m
      BY <2>7, <2>8, FirstMissingIs
    <2>10. Min(data) = f
      <3>1. data \in SUBSET Nat /\ f \in data /\ \A j \in data : f <= j
        BY <1>1, <2>1, <2>2
      <3> QED BY <3>1, FirstAsked
    <2>11. {End(j) : j \in EarlierData(n + 1)}' = ends
      BY <1>1, <2>4
    <2>12. EarlierData(n + 1)' = data /\ data # {} /\ Start(f)' = first /\ BytesBefore(n + 1)' = bytes
      BY <1>1, <1>5, <2>2, <2>3, <2>5
    <2>13. FrontierBefore(n + 1)' = FirstMissing(first, ends, bytes)
      BY <2>10, <2>11, <2>12 DEF FrontierBefore
    <2>14. nextExpected[s.dir] # None
      BY <1>2, <1>3, <2>1 DEF SeqNo, None
    <2> QED BY <2>6, <2>9, <2>13, <2>14
  <1> QED BY <1>4, <1>5

\* The class of the segment observed last, in the words of the analyzer.
LEMMA NewClass ==
  ASSUME TcpIInv, Frontiers, NEW s \in TcpSegment, Observe(s), NEW n \in Nat, n = Len(segments),
         NEW start, start = Start(n + 1)', NEW end, end = start + s.payload,
         NEW expected, expected = IF nextExpected[s.dir] = None THEN start ELSE nextExpected[s.dir]
  PROVE  /\ s.payload = 0 => Class(n + 1)' = "none"
         /\ s.payload > 0 => Class(n + 1)' =
              IF FullyCovered(covered[s.dir], start, end)
              THEN IF AcknowledgedBefore(n + 1, End(n + 1))' THEN "spurious" ELSE "retransmission"
              ELSE IF Overlaps(covered[s.dir], start, end) THEN "retransmission"
              ELSE IF start > expected THEN "outOfOrder" ELSE "new"
  <1>1. /\ start \in Int /\ s.payload \in Nat /\ end \in Int /\ End(n + 1)' = end
        /\ BytesBefore(n + 1)' = {b \in Int : In(covered[s.dir], b)}
        /\ FrontierBefore(n + 1)' = expected
    BY NewPlace, NewFrontier DEF SeqNo
  <1>2. covered[s.dir] \in Seq(Interval) /\ Separate(covered[s.dir])
    BY DEF TcpIInv, TcpShape, Coverage, TcpSegment
  <1>3. PICK own : own = start..(end - 1)
    OBVIOUS
  <1>4. PICK seen : seen = {b \in Int : In(covered[s.dir], b)}
    OBVIOUS
  <1>5. Class(n + 1)' = CASE own = {} -> "none"
        [] own # {} /\ own \subseteq seen ->
             IF AcknowledgedBefore(n + 1, End(n + 1))' THEN "spurious" ELSE "retransmission"
        [] own # {} /\ ~(own \subseteq seen) ->
             IF own \cap seen # {} THEN "retransmission"
             ELSE IF start > expected THEN "outOfOrder" ELSE "new"
    BY <1>1, <1>3, <1>4 DEF Class
  <1>6. CASE s.payload = 0
    <2>1. own = {}
      BY <1>1, <1>3, <1>6
    <2> QED BY <1>1, <1>5, <1>6, <2>1
  <1>7. CASE s.payload > 0
    <2>1. start < end /\ start \in own /\ own # {}
      BY <1>1, <1>3, <1>7
    <2>2. \A b \in own : b \in Int
      BY <1>3
    <2>3. (own \subseteq seen <=> FullyCovered(covered[s.dir], start, end))
          /\ (own \cap seen # {} <=> Overlaps(covered[s.dir], start, end))
      <3>1. /\ FullyCovered(covered[s.dir], start, end) <=> \A b \in own : In(covered[s.dir], b)
            /\ Overlaps(covered[s.dir], start, end) <=> \E b \in own : In(covered[s.dir], b)
        BY <1>1, <1>2, <1>3, <2>1, BytesAsked
      <3> QED BY <1>4, <2>2, <3>1
    <2> QED BY <1>5, <1>7, <2>1, <2>3
  <1> QED BY <1>1, <1>6, <1>7

\* A segment moves the byte expected next to the first that is then missing.
LEMMA FrontierStep ==
  ASSUME TcpIInv, Frontiers, NEW s \in TcpSegment, Observe(s)
  PROVE  Frontiers'
  <1>1. PICK n \in Nat : n = Len(segments)
    BY DEF TcpIInv, TcpShape
  <1>2. PICK base : base = IF baseSeq[s.dir] = None THEN s.seq ELSE baseSeq[s.dir]
    OBVIOUS
  <1>3. PICK start : start = Relative(s.seq, base)
    OBVIOUS
  <1>4. PICK end : end = start + s.payload
    OBVIOUS
  <1>5. PICK expected : expected = IF nextExpected[s.dir] = None THEN start ELSE nextExpected[s.dir]
    OBVIOUS
  <1>6. /\ Start(n + 1)' = start /\ start \in SeqNo /\ start \in Int /\ s.payload \in Nat /\ end \in Int
        /\ s.payload > 0 => start < end
    BY <1>1, <1>2, <1>3, <1>4, NewPlace DEF SeqNo
  <1>7. /\ TcpShape /\ segments' = Append(segments, s) /\ s.dir \in Direction
        /\ nextExpected \in [Direction -> Int] /\ covered \in [Direction -> Seq(Interval)]
        /\ \A d \in Direction : Frontier(d) /\ Based(d) /\ Coverage(d)
    BY DEF TcpIInv, TcpShape, Frontiers, Observe, TcpSegment
  <1>8. /\ Len(segments') = n + 1 /\ segments'[n + 1] = s /\ n + 1 \in 1..(n + 1)
        /\ \A i \in 1..n : segments'[i] = segments[i] /\ Start(i)' = Start(i) /\ n + 1 > i
        /\ \A i : i \in 1..(n + 1) <=> i \in 1..n \/ i = n + 1
    <2>1. /\ Len(segments') = n + 1 /\ segments'[n + 1] = s
          /\ \A i \in 1..n : segments'[i] = segments[i]
      BY <1>1, <1>7, OneMore
    <2>2. \A i \in 1..n : Start(i)' = Start(i)
      BY <1>1, <1>7, PastKept
    <2>3. /\ n + 1 \in 1..(n + 1) /\ \A i \in 1..n : n + 1 > i
          /\ \A i : i \in 1..(n + 1) <=> i \in 1..n \/ i = n + 1
      OBVIOUS
    <2> QED BY <2>1, <2>2, <2>3
  <1>9. \A d : /\ \A j \in DataOf(d) : j \in 1..n /\ Start(j)' = Start(j) /\ n + 1 > j
               /\ DataOf(d)' = IF d = s.dir /\ s.payload > 0 THEN DataOf(d) \cup {n + 1} ELSE DataOf(d)
    <2>1. \A d : \A j \in DataOf(d) : j \in 1..n /\ Start(j)' = Start(j) /\ n + 1 > j
      BY <1>1, <1>8 DEF DataOf
    <2>2. \A d : DataOf(d)' = {i \in 1..(n + 1) : segments'[i].dir = d /\ segments'[i].payload > 0}
      BY <1>8 DEF DataOf
    <2>3. \A d : DataOf(d) = {i \in 1..n : segments[i].dir = d /\ segments[i].payload > 0}
      BY <1>1 DEF DataOf
    <2>4. \A d : DataOf(d)' = IF d = s.dir /\ s.payload > 0 THEN DataOf(d) \cup {n + 1} ELSE DataOf(d)
      BY <1>8, <2>2, <2>3
    <2> QED BY <2>1, <2>4
  <1>10. \A d \in Direction : \A j \in DataOf(d) : Start(j) \in SeqNo /\ Start(j) \in Int
    <2>1. \A d : \A j \in DataOf(d) : j \in 1..Len(segments) /\ segments[j].dir = d
      BY DEF DataOf
    <2> QED BY <1>7, <2>1, StartIs
  <1>11. \/ s.payload = 0 /\ UNCHANGED <<covered, nextExpected>>
         \/ /\ s.payload > 0 /\ FullyCovered(covered[s.dir], start, end)
            /\ UNCHANGED <<covered, nextExpected>>
         \/ /\ s.payload > 0 /\ ~FullyCovered(covered[s.dir], start, end)
            /\ covered' = [covered EXCEPT ![s.dir] = MergeInterval(covered[s.dir], start, end)]
            /\ nextExpected' = [nextExpected EXCEPT ![s.dir] =
                                  Reach(MergeInterval(covered[s.dir], start, end), expected)]
    BY <1>2, <1>3, <1>4, <1>5
       DEF Observe, ObserveRetransmission, ResendCovered, CoverNew, ObserveControl
  <1>12. covered[s.dir] \in Seq(Interval) /\ Separate(covered[s.dir])
    BY <1>7 DEF Coverage
  <1>13. expected \in Int
    BY <1>5, <1>6, <1>7
  <1>14. PICK merged : merged = MergeInterval(covered[s.dir], start, end)
    OBVIOUS
  <1>15. s.payload > 0 =>
           /\ merged \in Seq(Interval) /\ Separate(merged)
           /\ \A b \in Int : In(covered[s.dir], b) => In(merged, b)
    BY <1>6, <1>12, <1>14, MergeAdds
  <1>16. PICK frontier : frontier = Reach(merged, expected)
    OBVIOUS
  <1>17. s.payload > 0 =>
           /\ frontier \in Int /\ frontier >= expected /\ ~In(merged, frontier)
           /\ \A b \in Int : expected <= b /\ b < frontier => In(merged, b)
    BY <1>13, <1>15, <1>16, ReachCovers
  <1>f. ASSUME NEW d, NEW f \in DataOf(d)', \A j \in DataOf(d)' : f <= j,
              NEW first, first = Start(f)', NEW c, c = covered'[d], NEW x, x = nextExpected'[d],
              x >= first, ~In(c, x), \A b \in Int : first <= b /\ b < x => In(c, b)
       PROVE  Frontier(d)'
    BY <1>f DEF Frontier
  <1>18. nextExpected' \in [Direction -> Int]
    BY <1>7, <1>11, <1>14, <1>16, <1>17
  <1>19. ASSUME NEW d \in Direction, nextExpected'[d] = nextExpected[d], covered'[d] = covered[d],
                DataOf(d)' = DataOf(d) \/ (DataOf(d)' = DataOf(d) \cup {n + 1} /\ DataOf(d) # {})
         PROVE  Frontier(d)'
    <2>1. CASE DataOf(d) = {}
      BY <1>7, <1>19, <2>1 DEF Frontier
    <2>2. CASE DataOf(d) # {}
      <3>1. PICK f \in DataOf(d) :
               /\ \A j \in DataOf(d) : f <= j
               /\ nextExpected[d] >= Start(f) /\ ~In(covered[d], nextExpected[d])
               /\ \A b \in Int : Start(f) <= b /\ b < nextExpected[d] => In(covered[d], b)
        BY <1>7, <2>2 DEF Frontier
      <3>2. f \in DataOf(d)' /\ Start(f)' = Start(f) /\ \A j \in DataOf(d)' : f <= j
        BY <1>9, <1>19, <3>1
      <3> QED BY <1>f, <1>19, <3>1, <3>2
    <2> QED BY <2>1, <2>2
  <1>20. ASSUME NEW d \in Direction, d # s.dir PROVE Frontier(d)'
    <2>1. nextExpected'[d] = nextExpected[d] /\ covered'[d] = covered[d]
      BY <1>7, <1>11, <1>20
    <2>2. DataOf(d)' = DataOf(d)
      BY <1>9, <1>20
    <2> QED BY <1>19, <2>1, <2>2
  <1>21. ASSUME s.payload = 0 /\ UNCHANGED <<covered, nextExpected>> PROVE Frontier(s.dir)'
    <2>1. nextExpected'[s.dir] = nextExpected[s.dir] /\ covered'[s.dir] = covered[s.dir]
      BY <1>21
    <2>2. DataOf(s.dir)' = DataOf(s.dir)
      BY <1>9, <1>21
    <2> QED BY <1>7, <1>19, <2>1, <2>2
  <1>22. ASSUME s.payload > 0, FullyCovered(covered[s.dir], start, end),
                UNCHANGED <<covered, nextExpected>>
         PROVE  Frontier(s.dir)'
    <2>1. In(covered[s.dir], start)
      <3>1. start \in start..(end - 1)
        BY <1>6, <1>22
      <3> QED BY <1>6, <1>12, <1>22, <3>1, BytesAsked
    <2>2. DataOf(s.dir) # {}
      BY <1>6, <1>7, <2>1, CoveredIs
    <2>3. nextExpected'[s.dir] = nextExpected[s.dir] /\ covered'[s.dir] = covered[s.dir]
      BY <1>22
    <2>4. DataOf(s.dir)' = DataOf(s.dir) \cup {n + 1}
      BY <1>9, <1>22
    <2> QED BY <1>7, <1>19, <2>2, <2>3, <2>4
  <1>23. ASSUME s.payload > 0,
                covered' = [covered EXCEPT ![s.dir] = MergeInterval(covered[s.dir], start, end)],
                nextExpected' = [nextExpected EXCEPT ![s.dir] =
                                   Reach(MergeInterval(covered[s.dir], start, end), expected)]
         PROVE  Frontier(s.dir)'
    <2>1. covered'[s.dir] = merged /\ nextExpected'[s.dir] = frontier
      BY <1>7, <1>14, <1>16, <1>23
    <2>2. DataOf(s.dir)' = DataOf(s.dir) \cup {n + 1}
      BY <1>9, <1>23
    <2>3. CASE DataOf(s.dir) = {}
      <3>1. expected = start
        BY <1>5, <1>7, <2>3 DEF Frontier
      <3>2. n + 1 \in DataOf(s.dir)' /\ \A j \in DataOf(s.dir)' : n + 1 <= j
        BY <2>2, <2>3
      <3>3. frontier >= start /\ \A b \in Int : start <= b /\ b < frontier => In(merged, b)
        BY <1>17, <1>23, <3>1
      <3> QED BY <1>f, <1>6, <1>17, <1>23, <2>1, <3>2, <3>3
    <2>4. CASE DataOf(s.dir) # {}
      <3>1. PICK f \in DataOf(s.dir) :
               /\ \A j \in DataOf(s.dir) : f <= j
               /\ nextExpected[s.dir] >= Start(f) /\ ~In(covered[s.dir], nextExpected[s.dir])
               /\ \A b \in Int : Start(f) <= b /\ b < nextExpected[s.dir] => In(covered[s.dir], b)
        BY <1>7, <2>4 DEF Frontier
      <3>2. f \in DataOf(s.dir)' /\ Start(f)' = Start(f) /\ \A j \in DataOf(s.dir)' : f <= j
        BY <1>9, <2>2, <3>1
      <3>3. Start(f) \in SeqNo /\ Start(f) \in Int /\ nextExpected[s.dir] \in Int
        BY <1>7, <1>10
      <3>4. expected = nextExpected[s.dir]
        BY <1>5, <3>1, <3>3 DEF SeqNo, None
      <3>5. frontier >= Start(f) /\ ~In(merged, frontier)
        BY <1>13, <1>17, <1>23, <3>1, <3>3, <3>4
      <3>6. \A b \in Int : Start(f) <= b /\ b < frontier => In(merged, b)
        BY <1>13, <1>15, <1>17, <1>23, <3>1, <3>4
      <3> QED BY <1>f, <2>1, <3>2, <3>5, <3>6
    <2> QED BY <2>3, <2>4
  <1>24. Frontier(s.dir)'
    <2>1. CASE s.payload = 0
      BY <1>11, <1>21, <2>1
    <2>2. CASE s.payload # 0
      BY <1>11, <1>22, <1>23, <2>2
    <2> QED BY <2>1, <2>2
  <1> QED BY <1>18, <1>20, <1>24 DEF Frontiers

(* The control segments seen, and what each marks.                         *)
ControlsSeen == {i \in 1..Len(segments) : IsControl(i)}
Marker(i) == <<segments[i].dir, Start(i), IF segments[i].syn THEN "SYN" ELSE "FIN">>
Controls == seenControl = {Marker(i) : i \in ControlsSeen}

\* A control segment repeats another when its marker is known, and adds it if not.
LEMMA ControlStep ==
  ASSUME TcpIInv, Controls, NEW s \in TcpSegment, Observe(s), NEW n \in Nat, n = Len(segments),
         NEW start, start = Start(n + 1)',
         NEW marker, marker = <<s.dir, start, IF s.syn THEN "SYN" ELSE "FIN">>
  PROVE  /\ Controls'
         /\ RepeatsControl(n + 1)' <=>
              s.payload = 0 /\ (s.syn \/ s.fin) /\ marker \in seenControl
  <1>1. /\ TcpShape /\ segments' = Append(segments, s) /\ s.payload \in Nat /\ s.syn \in BOOLEAN
    BY DEF TcpIInv, Observe, TcpSegment
  <1>2. /\ Len(segments') = n + 1 /\ segments'[n + 1] = s
        /\ \A i \in 1..n : segments'[i] = segments[i] /\ segments[i].syn \in BOOLEAN
    <2>1. \A i \in 1..n : segments[i] \in TcpSegment
      BY <1>1, OneMore
    <2> QED BY <1>1, <2>1, OneMore DEF TcpSegment
  <1>3. \A i : i \in 1..(n + 1) <=> i \in 1..n \/ i = n + 1
    OBVIOUS
  <1>4. \A i \in 1..n : Start(i)' = Start(i)
    BY <1>1, PastKept
  <1>5. /\ \A i \in 1..n : (IsControl(i)' <=> IsControl(i)) /\ Marker(i)' = Marker(i)
        /\ IsControl(n + 1)' <=> s.payload = 0 /\ (s.syn \/ s.fin)
        /\ Marker(n + 1)' = marker
    BY <1>2, <1>4 DEF IsControl, Marker
  <1>6. /\ \A i \in ControlsSeen : i \in 1..n
        /\ ControlsSeen' = IF IsControl(n + 1)' THEN ControlsSeen \cup {n + 1} ELSE ControlsSeen
    <2>1. ControlsSeen = {i \in 1..n : IsControl(i)}
      BY DEF ControlsSeen
    <2>2. ControlsSeen' = {i \in 1..(n + 1) : IsControl(i)'}
      BY <1>2 DEF ControlsSeen
    <2> QED BY <1>3, <1>5, <2>1, <2>2
  <1>7. {Marker(i) : i \in ControlsSeen}' =
          IF IsControl(n + 1)' THEN {Marker(i) : i \in ControlsSeen} \cup {marker}
                               ELSE {Marker(i) : i \in ControlsSeen}
    <2>1. {Marker(i) : i \in ControlsSeen}' = {Marker(i)' : i \in ControlsSeen'}
      OBVIOUS
    <2>2. CASE IsControl(n + 1)'
      <3>1. ControlsSeen' = ControlsSeen \cup {n + 1}
        BY <1>6, <2>2
      <3>2. \A x : x \in {Marker(i) : i \in ControlsSeen}'
                   <=> x \in {Marker(i) : i \in ControlsSeen} \/ x = marker
        BY <1>5, <1>6, <3>1
      <3> QED BY <2>2, <3>2
    <2>3. CASE ~IsControl(n + 1)'
      BY <1>5, <1>6, <2>3
    <2> QED BY <2>2, <2>3
  <1>8. seenControl' = IF IsControl(n + 1)' THEN seenControl \cup {marker} ELSE seenControl
    <2>1. start = Relative(s.seq, IF baseSeq[s.dir] = None THEN s.seq ELSE baseSeq[s.dir])
      BY NewPlace
    <2>2. \/ s.payload > 0 /\ UNCHANGED seenControl
          \/ s.payload = 0 /\ (s.syn \/ s.fin) /\ ObserveControl(s, start)
          \/ s.payload = 0 /\ ~s.syn /\ ~s.fin /\ UNCHANGED seenControl
      BY <2>1 DEF Observe, ObserveRetransmission
    <2>3. ObserveControl(s, start) => seenControl' = seenControl \cup {marker}
      BY DEF ObserveControl
    <2>4. CASE s.payload > 0
      BY <1>5, <2>2, <2>4
    <2>5. CASE s.payload = 0
      BY <1>5, <2>2, <2>3, <2>5
    <2> QED BY <1>1, <2>4, <2>5
  <1>9. Controls'
    BY <1>7, <1>8 DEF Controls
  <1>10. (\E j \in 1..n : /\ IsControl(j) /\ segments[j].dir = s.dir
                          /\ Start(j) = start /\ segments[j].syn = s.syn)
         <=> marker \in seenControl
    <2>1. ASSUME NEW j \in 1..n
          PROVE  Marker(j) = marker <=> /\ segments[j].dir = s.dir
                                        /\ Start(j) = start /\ segments[j].syn = s.syn
      <3>1. segments[j].syn \in BOOLEAN
        BY <1>2
      <3> QED BY <1>1, <3>1 DEF Marker
    <2>2. marker \in seenControl <=> \E j \in 1..n : IsControl(j) /\ Marker(j) = marker
      BY DEF Controls, ControlsSeen
    <2> QED BY <2>1, <2>2
  <1>11. RepeatsControl(n + 1)' <=>
           IsControl(n + 1)' /\ \E j \in 1..n : /\ IsControl(j) /\ segments[j].dir = s.dir
                                                /\ Start(j) = start /\ segments[j].syn = s.syn
    <2>1. (n + 1) - 1 = n
      OBVIOUS
    <2>2. RepeatsControl(n + 1)' <=>
            IsControl(n + 1)' /\ \E j \in 1..n :
               /\ IsControl(j)' /\ segments'[j].dir = segments'[n + 1].dir
               /\ Start(j)' = Start(n + 1)' /\ segments'[j].syn = segments'[n + 1].syn
      BY <2>1 DEF RepeatsControl
    <2> QED BY <1>2, <1>4, <1>5, <2>2
  <1> QED BY <1>5, <1>9, <1>10, <1>11

\* The flags count whatever else the segment is.
LEMMA FlagsBumped ==
  ASSUME count \in [Counter -> Nat], NEW s
  PROVE  /\ Flagged(s) \in [Counter -> Nat]
         /\ Flagged(s).reset = count.reset + (IF s.rst THEN 1 ELSE 0)
         /\ Flagged(s).zeroWindow
              = count.zeroWindow + (IF s.window = 0 /\ ~s.syn /\ ~s.rst THEN 1 ELSE 0)
         /\ \A g \in {"retransmission", "outOfOrder", "spurious"} : Flagged(s)[g] = count[g]
  <1> DEFINE m == IF s.rst THEN 1 ELSE 0
             n == IF s.window = 0 /\ ~s.syn /\ ~s.rst THEN 1 ELSE 0
             a == [count EXCEPT !.reset = @ + m]
             c == [a EXCEPT !.zeroWindow = @ + n]
  <1>1. m \in Nat /\ n \in Nat /\ Flagged(s) = c
    BY DEF Flagged
  <1> HIDE DEF m, n
  <1>2. /\ a \in [Counter -> Nat] /\ a["reset"] = count["reset"] + m
        /\ \A g \in Counter \ {"reset"} : a[g] = count[g]
    <2>1. count["reset"] \in Nat
      BY DEF Counter
    <2> QED BY <1>1, <2>1 DEF Counter
  <1>3. /\ c \in [Counter -> Nat] /\ c["zeroWindow"] = a["zeroWindow"] + n
        /\ \A g \in Counter \ {"zeroWindow"} : c[g] = a[g]
    <2> HIDE DEF a
    <2>1. a["zeroWindow"] \in Nat
      BY <1>2 DEF Counter
    <2> QED BY <1>1, <1>2, <2>1 DEF Counter
  <1> HIDE DEF a, c
  <1> QED BY <1>1, <1>2, <1>3 DEF Counter, m, n

\* And one class at most is counted with them.
LEMMA ClassBumped ==
  ASSUME count \in [Counter -> Nat], NEW s,
         NEW field \in {"retransmission", "outOfOrder", "spurious"}, Bump(field, s)
  PROVE  \A g \in Counter : count'[g] = Flagged(s)[g] + (IF g = field THEN 1 ELSE 0)
  <1>1. Flagged(s) \in [Counter -> Nat] /\ field \in Counter
    BY FlagsBumped DEF Counter
  <1>2. count' = [Flagged(s) EXCEPT ![field] = @ + 1]
    BY DEF Bump
  <1>3. \A g \in Counter : Flagged(s)[g] \in Nat
    BY <1>1
  <1> QED BY <1>1, <1>2, <1>3

(* What each counter should have counted.                                  *)
Resent == {i \in 1..Len(segments) : Class(i) \in {"retransmission", "spurious"}}
Wasted == {i \in 1..Len(segments) : Class(i) = "spurious"}
Late == {i \in 1..Len(segments) : Class(i) = "outOfOrder"}
Repeated == {i \in 1..Len(segments) : RepeatsControl(i)}
Resets == {i \in 1..Len(segments) : segments[i].rst}
Full == {i \in 1..Len(segments) :
           segments[i].window = 0 /\ ~segments[i].syn /\ ~segments[i].rst}

Counts ==
  /\ count.retransmission + count.spurious = Cardinality(Resent) + Cardinality(Repeated)
  /\ count.outOfOrder = Cardinality(Late)
  /\ count.reset = Cardinality(Resets)
  /\ count.zeroWindow = Cardinality(Full)

\* What was counted stays so, and the last segment adds itself to each set or not.
LEMMA SetsGrow ==
  ASSUME TcpIInv, NEW s \in TcpSegment, segments' = Append(segments, s),
         NEW n \in Nat, n = Len(segments)
  PROVE  /\ \A A \in {Resent, Wasted, Late, Repeated, Resets, Full} : Cardinality(A) \in Nat
         /\ Cardinality(Resent)' = Cardinality(Resent)
              + (IF Class(n + 1)' \in {"retransmission", "spurious"} THEN 1 ELSE 0)
         /\ Cardinality(Wasted)' = Cardinality(Wasted)
              + (IF Class(n + 1)' = "spurious" THEN 1 ELSE 0)
         /\ Cardinality(Late)' = Cardinality(Late)
              + (IF Class(n + 1)' = "outOfOrder" THEN 1 ELSE 0)
         /\ Cardinality(Repeated)' = Cardinality(Repeated)
              + (IF RepeatsControl(n + 1)' THEN 1 ELSE 0)
         /\ Cardinality(Resets)' = Cardinality(Resets) + (IF s.rst THEN 1 ELSE 0)
         /\ Cardinality(Full)' = Cardinality(Full)
              + (IF s.window = 0 /\ ~s.syn /\ ~s.rst THEN 1 ELSE 0)
  <1>1. /\ Len(segments') = n + 1 /\ segments'[n + 1] = s
        /\ \A i \in 1..n : segments'[i] = segments[i]
    BY OneMore DEF TcpIInv
  <1>2. \A i \in 1..n : Class(i)' = Class(i) /\ (RepeatsControl(i)' <=> RepeatsControl(i))
    BY PastKept
  <1>3. n + 1 \in 1..(n + 1) /\ \A i \in 1..n : i \in 1..(n + 1)
    OBVIOUS
  <1>4. ASSUME NEW A, A \subseteq 1..n, NEW B, B \subseteq 1..(n + 1),
               \A i \in 1..n : i \in A <=> i \in B
        PROVE  /\ Cardinality(A) \in Nat
               /\ Cardinality(B) = Cardinality(A) + (IF n + 1 \in B THEN 1 ELSE 0)
    BY <1>4, OneMoreCounted
  <1>5. /\ Resent \subseteq 1..n /\ Resent' \subseteq 1..(n + 1)
        /\ (\A i \in 1..n : i \in Resent <=> i \in Resent')
        /\ n + 1 \in Resent' <=> Class(n + 1)' \in {"retransmission", "spurious"}
    BY <1>1, <1>2, <1>3 DEF Resent
  <1>6. /\ Wasted \subseteq 1..n /\ Wasted' \subseteq 1..(n + 1)
        /\ (\A i \in 1..n : i \in Wasted <=> i \in Wasted')
        /\ n + 1 \in Wasted' <=> Class(n + 1)' = "spurious"
    BY <1>1, <1>2, <1>3 DEF Wasted
  <1>7. /\ Late \subseteq 1..n /\ Late' \subseteq 1..(n + 1)
        /\ (\A i \in 1..n : i \in Late <=> i \in Late')
        /\ n + 1 \in Late' <=> Class(n + 1)' = "outOfOrder"
    BY <1>1, <1>2, <1>3 DEF Late
  <1>8. /\ Repeated \subseteq 1..n /\ Repeated' \subseteq 1..(n + 1)
        /\ (\A i \in 1..n : i \in Repeated <=> i \in Repeated')
        /\ n + 1 \in Repeated' <=> RepeatsControl(n + 1)'
    BY <1>1, <1>2, <1>3 DEF Repeated
  <1>9. /\ Resets \subseteq 1..n /\ Resets' \subseteq 1..(n + 1)
        /\ (\A i \in 1..n : i \in Resets <=> i \in Resets')
        /\ n + 1 \in Resets' <=> s.rst
    BY <1>1, <1>3 DEF Resets
  <1>10. /\ Full \subseteq 1..n /\ Full' \subseteq 1..(n + 1)
         /\ (\A i \in 1..n : i \in Full <=> i \in Full')
         /\ n + 1 \in Full' <=> s.window = 0 /\ ~s.syn /\ ~s.rst
    BY <1>1, <1>3 DEF Full
  <1>11. /\ Cardinality(Resent) \in Nat
         /\ Cardinality(Resent)' = Cardinality(Resent)
              + (IF Class(n + 1)' \in {"retransmission", "spurious"} THEN 1 ELSE 0)
    BY <1>4, <1>5
  <1>12. /\ Cardinality(Wasted) \in Nat
         /\ Cardinality(Wasted)' = Cardinality(Wasted)
              + (IF Class(n + 1)' = "spurious" THEN 1 ELSE 0)
    BY <1>4, <1>6
  <1>13. /\ Cardinality(Late) \in Nat
         /\ Cardinality(Late)' = Cardinality(Late)
              + (IF Class(n + 1)' = "outOfOrder" THEN 1 ELSE 0)
    BY <1>4, <1>7
  <1>14. /\ Cardinality(Repeated) \in Nat
         /\ Cardinality(Repeated)' = Cardinality(Repeated)
              + (IF RepeatsControl(n + 1)' THEN 1 ELSE 0)
    BY <1>4, <1>8
  <1>15. /\ Cardinality(Resets) \in Nat
         /\ Cardinality(Resets)' = Cardinality(Resets) + (IF s.rst THEN 1 ELSE 0)
    BY <1>4, <1>9
  <1>16. /\ Cardinality(Full) \in Nat
         /\ Cardinality(Full)' = Cardinality(Full)
              + (IF s.window = 0 /\ ~s.syn /\ ~s.rst THEN 1 ELSE 0)
    BY <1>4, <1>10
  <1> QED BY <1>11, <1>12, <1>13, <1>14, <1>15, <1>16

\* What one segment adds to the counters.
LEMMA CountedOnce ==
  ASSUME TcpIInv, Frontiers, Controls, NEW s \in TcpSegment, Observe(s),
         NEW n \in Nat, n = Len(segments),
         NEW base, base = IF baseSeq[s.dir] = None THEN s.seq ELSE baseSeq[s.dir],
         NEW end, end = End(n + 1)'
  PROVE  /\ count \in [Counter -> Nat] /\ count' \in [Counter -> Nat]
         /\ count'.retransmission + count'.spurious = count.retransmission + count.spurious
              + (IF Class(n + 1)' \in {"retransmission", "spurious"} THEN 1 ELSE 0)
              + (IF RepeatsControl(n + 1)' THEN 1 ELSE 0)
         /\ count'.outOfOrder = count.outOfOrder
              + (IF Class(n + 1)' = "outOfOrder" THEN 1 ELSE 0)
         /\ count'.reset = count.reset + (IF s.rst THEN 1 ELSE 0)
         /\ count'.zeroWindow = count.zeroWindow
              + (IF s.window = 0 /\ ~s.syn /\ ~s.rst THEN 1 ELSE 0)
         /\ count'.spurious = count.spurious
              + (IF /\ Class(n + 1)' \in {"retransmission", "spurious"}
                    /\ FullyCovered(covered[s.dir], Start(n + 1)', end)
                    /\ PeerHasAckedThrough(s.dir, base, end) THEN 1 ELSE 0)
         /\ Class(n + 1)' = "spurious" =>
              FullyCovered(covered[s.dir], Start(n + 1)', end) /\ AcknowledgedBefore(n + 1, End(n + 1))'
         /\ Class(n + 1)' = "retransmission" /\ FullyCovered(covered[s.dir], Start(n + 1)', end) =>
              ~AcknowledgedBefore(n + 1, End(n + 1))'
         /\ Class(n + 1)' \in {"retransmission", "spurious"} => s.payload > 0
  <1>1. PICK start : start = Start(n + 1)'
    OBVIOUS
  <1>2. /\ start = Relative(s.seq, base) /\ end = start + s.payload
        /\ s.payload \in Nat /\ start \in Int /\ end \in Int
    BY <1>1, NewPlace DEF SeqNo
  <1>3. PICK expected : expected = IF nextExpected[s.dir] = None THEN start ELSE nextExpected[s.dir]
    OBVIOUS
  <1>4. PICK marker : marker = <<s.dir, start, IF s.syn THEN "SYN" ELSE "FIN">>
    OBVIOUS
  <1>5. PICK whole \in BOOLEAN : whole <=> FullyCovered(covered[s.dir], start, end)
    OBVIOUS
  <1>6. PICK overlaps \in BOOLEAN : overlaps <=> Overlaps(covered[s.dir], start, end)
    OBVIOUS
  <1>7. PICK acked \in BOOLEAN : acked <=> PeerHasAckedThrough(s.dir, base, end)
    OBVIOUS
  <1>8. PICK really \in BOOLEAN : really <=> AcknowledgedBefore(n + 1, End(n + 1))'
    OBVIOUS
  <1>9. PICK class : class = Class(n + 1)'
    OBVIOUS
  <1>10. PICK repeats \in BOOLEAN : repeats <=> RepeatsControl(n + 1)'
    OBVIOUS
  <1>11. /\ s.payload = 0 => class = "none"
         /\ s.payload > 0 => class =
              IF whole THEN IF really THEN "spurious" ELSE "retransmission"
              ELSE IF overlaps THEN "retransmission"
              ELSE IF start > expected THEN "outOfOrder" ELSE "new"
    BY <1>1, <1>2, <1>3, <1>5, <1>6, <1>8, <1>9, NewClass
  <1>12. repeats <=> s.payload = 0 /\ (s.syn \/ s.fin) /\ marker \in seenControl
    BY <1>1, <1>4, <1>10, ControlStep
  <1>13. \/ /\ s.payload > 0 /\ whole
            /\ Bump(IF acked THEN "spurious" ELSE "retransmission", s)
         \/ /\ s.payload > 0 /\ ~whole
            /\ IF overlaps THEN Bump("retransmission", s)
               ELSE IF start > expected THEN Bump("outOfOrder", s)
               ELSE BumpFlagsOnly(s)
         \/ /\ s.payload = 0 /\ (s.syn \/ s.fin)
            /\ IF marker \in seenControl THEN Bump("retransmission", s) ELSE BumpFlagsOnly(s)
         \/ s.payload = 0 /\ ~s.syn /\ ~s.fin /\ BumpFlagsOnly(s)
    BY <1>2, <1>3, <1>4, <1>5, <1>6, <1>7
       DEF Observe, ObserveRetransmission, ResendCovered, CoverNew, ObserveControl
  <1>14. /\ count \in [Counter -> Nat] /\ count' \in [Counter -> Nat]
    BY ObserveTypes DEF TcpIInv, TcpShape
  <1> DEFINE r == IF s.rst THEN 1 ELSE 0
             z == IF s.window = 0 /\ ~s.syn /\ ~s.rst THEN 1 ELSE 0
             more(g) == IF \/ g = "spurious" /\ s.payload > 0 /\ whole /\ acked
                           \/ /\ g = "retransmission"
                              /\ \/ s.payload > 0 /\ whole /\ ~acked
                                 \/ s.payload > 0 /\ ~whole /\ overlaps
                                 \/ repeats
                           \/ g = "outOfOrder" /\ s.payload > 0 /\ ~whole /\ ~overlaps /\ start > expected
                        THEN 1 ELSE 0
  <1>15. \A g \in Counter : count'[g] = Flagged(s)[g] + more(g)
    <2>1. \A g \in Counter : Flagged(s)[g] \in Nat
      BY <1>14, FlagsBumped
    <2>2. ASSUME NEW field \in {"retransmission", "outOfOrder", "spurious"}, Bump(field, s)
          PROVE  \A g \in Counter : count'[g] = Flagged(s)[g] + (IF g = field THEN 1 ELSE 0)
      BY <1>14, <2>2, ClassBumped
    <2>3. ASSUME BumpFlagsOnly(s)
          PROVE  \A g \in Counter : count'[g] = Flagged(s)[g] + 0
      BY <2>1, <2>3 DEF BumpFlagsOnly
    <2>4. CASE s.payload > 0 /\ whole /\ acked
      <3>1. Bump("spurious", s) /\ ~repeats
        BY <1>12, <1>13, <2>4
      <3> QED BY <2>2, <2>4, <3>1
    <2>5. CASE s.payload > 0 /\ whole /\ ~acked
      <3>1. Bump("retransmission", s) /\ ~repeats
        BY <1>12, <1>13, <2>5
      <3> QED BY <2>2, <2>5, <3>1
    <2>6. CASE s.payload > 0 /\ ~whole /\ overlaps
      <3>1. Bump("retransmission", s) /\ ~repeats
        BY <1>12, <1>13, <2>6
      <3> QED BY <2>2, <2>6, <3>1
    <2>7. CASE s.payload > 0 /\ ~whole /\ ~overlaps /\ start > expected
      <3>1. Bump("outOfOrder", s) /\ ~repeats
        BY <1>12, <1>13, <2>7
      <3> QED BY <2>2, <2>7, <3>1
    <2>8. CASE s.payload > 0 /\ ~whole /\ ~overlaps /\ ~(start > expected)
      <3>1. BumpFlagsOnly(s) /\ ~repeats
        BY <1>12, <1>13, <2>8
      <3> QED BY <2>3, <2>8, <3>1
    <2>9. CASE s.payload = 0 /\ repeats
      <3>1. Bump("retransmission", s)
        BY <1>12, <1>13, <2>9
      <3> QED BY <2>2, <2>9, <3>1
    <2>10. CASE s.payload = 0 /\ ~repeats
      <3>1. BumpFlagsOnly(s)
        BY <1>12, <1>13, <2>10
      <3> QED BY <2>3, <2>10, <3>1
    <2> QED BY <1>2, <2>4, <2>5, <2>6, <2>7, <2>8, <2>9, <2>10
  <1>16. /\ Flagged(s).reset = count.reset + r /\ Flagged(s).zeroWindow = count.zeroWindow + z
         /\ \A g \in {"retransmission", "outOfOrder", "spurious"} : Flagged(s)[g] = count[g]
    BY <1>14, FlagsBumped
  <1>17. \A g \in Counter : count[g] \in Nat
    BY <1>14
  <1>18. /\ count'.reset = count.reset + r /\ count'.zeroWindow = count.zeroWindow + z
         /\ count'.spurious = count.spurious + more("spurious")
         /\ count'.outOfOrder = count.outOfOrder + more("outOfOrder")
         /\ count'.retransmission = count.retransmission + more("retransmission")
    <2>1. /\ count.reset \in Nat /\ count.zeroWindow \in Nat
          /\ more("reset") = 0 /\ more("zeroWindow") = 0 /\ r \in Nat /\ z \in Nat
      BY <1>17 DEF Counter
    <2> HIDE DEF more, r, z
    <2> QED BY <1>15, <1>16, <2>1 DEF Counter
  <1>19. count.retransmission \in Nat /\ count.spurious \in Nat /\ count.outOfOrder \in Nat
    BY <1>17 DEF Counter
  <1>20. /\ more("outOfOrder") = IF class = "outOfOrder" THEN 1 ELSE 0
         /\ more("spurious") = IF class \in {"retransmission", "spurious"} /\ whole /\ acked THEN 1 ELSE 0
         /\ more("spurious") + more("retransmission") =
              (IF class \in {"retransmission", "spurious"} THEN 1 ELSE 0) + (IF repeats THEN 1 ELSE 0)
    <2>1. CASE s.payload = 0
      BY <1>11, <1>12, <2>1
    <2>2. CASE s.payload > 0
      BY <1>11, <1>12, <2>2
    <2> QED BY <1>2, <2>1, <2>2
  <1>21. count'.retransmission + count'.spurious = count.retransmission + count.spurious
              + (IF class \in {"retransmission", "spurious"} THEN 1 ELSE 0)
              + (IF repeats THEN 1 ELSE 0)
    <2> DEFINE a == more("spurious")
               b == more("retransmission")
               x == IF class \in {"retransmission", "spurious"} THEN 1 ELSE 0
               y == IF repeats THEN 1 ELSE 0
    <2>1. a \in Nat /\ b \in Nat /\ x \in Nat /\ y \in Nat
      OBVIOUS
    <2>2. a + b = x + y
      BY <1>20
    <2>3. count'.retransmission = count.retransmission + b /\ count'.spurious = count.spurious + a
      BY <1>18
    <2> HIDE DEF a, b, x, y
    <2>4. count'.retransmission + count'.spurious = count.retransmission + count.spurious + x + y
      <3>1. PICK p \in Nat : p = count.retransmission
        BY <1>19
      <3>2. PICK q \in Nat : q = count.spurious
        BY <1>19
      <3>3. (p + b) + (q + a) = p + q + x + y
        BY ONLY <2>1, <2>2, p \in Nat, q \in Nat
      <3> QED BY <2>3, <3>1, <3>2, <3>3
    <2> QED BY <2>4 DEF x, y
  <1>22. /\ class = "spurious" => whole /\ really
         /\ class = "retransmission" /\ whole => ~really
         /\ class \in {"retransmission", "spurious"} => s.payload > 0
    <2>1. CASE s.payload = 0
      BY <1>11, <2>1
    <2>2. CASE s.payload > 0
      BY <1>11, <2>2
    <2> QED BY <1>2, <2>1, <2>2
  <1> HIDE DEF more
  <1>23. whole <=> FullyCovered(covered[s.dir], Start(n + 1)', end)
    BY <1>1, <1>5
  <1>24. count'.outOfOrder = count.outOfOrder + (IF class = "outOfOrder" THEN 1 ELSE 0)
    BY <1>18, <1>20
  <1>25. count'.spurious = count.spurious
           + (IF class \in {"retransmission", "spurious"} /\ whole /\ acked THEN 1 ELSE 0)
    BY <1>18, <1>20
  <1> QED BY <1>7, <1>8, <1>9, <1>10, <1>14, <1>18, <1>21, <1>22, <1>23, <1>24, <1>25

\* So the counters go on counting what they name.
LEMMA CountStep ==
  ASSUME TcpIInv, Frontiers, Controls, Counts, NEW s \in TcpSegment, Observe(s)
  PROVE  Counts' /\ count' \in [Counter -> Nat]
  <1>1. PICK n \in Nat : n = Len(segments)
    BY DEF TcpIInv, TcpShape
  <1>2. segments' = Append(segments, s)
    BY DEF Observe
  <1>3. PICK base : base = IF baseSeq[s.dir] = None THEN s.seq ELSE baseSeq[s.dir]
    OBVIOUS
  <1>4. PICK end : end = End(n + 1)'
    OBVIOUS
  <1>5. PICK x \in Nat : x = IF Class(n + 1)' \in {"retransmission", "spurious"} THEN 1 ELSE 0
    OBVIOUS
  <1>6. PICK y \in Nat : y = IF RepeatsControl(n + 1)' THEN 1 ELSE 0
    OBVIOUS
  <1>7. /\ count \in [Counter -> Nat] /\ count' \in [Counter -> Nat]
        /\ count'.retransmission + count'.spurious = count.retransmission + count.spurious + x + y
        /\ count'.outOfOrder = count.outOfOrder + (IF Class(n + 1)' = "outOfOrder" THEN 1 ELSE 0)
        /\ count'.reset = count.reset + (IF s.rst THEN 1 ELSE 0)
        /\ count'.zeroWindow = count.zeroWindow
              + (IF s.window = 0 /\ ~s.syn /\ ~s.rst THEN 1 ELSE 0)
    BY <1>1, <1>3, <1>4, <1>5, <1>6, CountedOnce
  <1>8. /\ Cardinality(Resent) \in Nat /\ Cardinality(Repeated) \in Nat
        /\ Cardinality(Resent)' = Cardinality(Resent) + x
        /\ Cardinality(Repeated)' = Cardinality(Repeated) + y
        /\ Cardinality(Late)' = Cardinality(Late)
              + (IF Class(n + 1)' = "outOfOrder" THEN 1 ELSE 0)
        /\ Cardinality(Resets)' = Cardinality(Resets) + (IF s.rst THEN 1 ELSE 0)
        /\ Cardinality(Full)' = Cardinality(Full)
              + (IF s.window = 0 /\ ~s.syn /\ ~s.rst THEN 1 ELSE 0)
    BY <1>1, <1>2, <1>5, <1>6, SetsGrow
  <1>9. count.retransmission \in Nat /\ count.spurious \in Nat
    BY <1>7 DEF Counter
  <1>10. count.retransmission + count.spurious = Cardinality(Resent) + Cardinality(Repeated)
    BY DEF Counts
  <1>11. count'.retransmission + count'.spurious = Cardinality(Resent)' + Cardinality(Repeated)'
    BY <1>7, <1>8, <1>9, <1>10
  <1>12. /\ count'.outOfOrder = Cardinality(Late)'
         /\ count'.reset = Cardinality(Resets)' /\ count'.zeroWindow = Cardinality(Full)'
    BY <1>7, <1>8 DEF Counts
  <1> QED BY <1>7, <1>11, <1>12 DEF Counts

(* In a short connection, captured from its start, the acknowledgement kept *)
(* for a direction is the one that acknowledges most of it.                 *)
AcksOf(d) == {i \in 1..Len(segments) : segments[i].dir = Reply(d) /\ segments[i].ackFlag}

Furthest(d, isn) ==
  \/ AcksOf(d) = {} /\ peerAck[d] = None
  \/ \E k \in AcksOf(d) :
       /\ peerAck[d] = segments[k].ack
       /\ \A j \in AcksOf(d) : Relative(segments[j].ack, isn[d]) <= Relative(segments[k].ack, isn[d])

Connection(isn) ==
  /\ \A d \in Direction : baseSeq[d] \in {None, isn[d]} /\ Furthest(d, isn)
  /\ \A i \in 1..Len(segments) : Near(segments[i], isn)

\* Remainders of numbers near zero.
LEMMA Remainders ==
  ASSUME NEW x \in Int
  PROVE  /\ 0 <= x /\ x < SeqSpace => x % SeqSpace = x
         /\ -SeqSpace <= x /\ x < 0 => x % SeqSpace = x + SeqSpace
         /\ -(2 * SeqSpace) <= x /\ x < -SeqSpace => x % SeqSpace = x + 2 * SeqSpace
         /\ SeqSpace \div 2 \in Nat /\ 2 * (SeqSpace \div 2) <= SeqSpace /\ SeqSpace \in Nat
  <1>1. 0 <= x /\ x < SeqSpace => x % SeqSpace = x
    BY SeqSpaceAssumption
  <1>2. -SeqSpace <= x /\ x < 0 => x % SeqSpace = x + SeqSpace
    BY SeqSpaceAssumption
  <1>3. -(2 * SeqSpace) <= x /\ x < -SeqSpace => x % SeqSpace = x + 2 * SeqSpace
    BY SeqSpaceAssumption
  <1>4. SeqSpace \div 2 \in Nat /\ 2 * (SeqSpace \div 2) <= SeqSpace /\ SeqSpace \in Nat
    BY SeqSpaceAssumption
  <1> QED BY <1>1, <1>2, <1>3, <1>4

\* Within half of the space, to compare modulo is to compare what is relative.
LEMMA HalfCompares ==
  ASSUME NEW a \in SeqNo, NEW base \in SeqNo, NEW end \in Int,
         0 < end, end <= SeqSpace \div 2, Relative(a, base) <= SeqSpace \div 2
  PROVE  (a - (base + end)) % SeqSpace < SeqSpace \div 2 <=> Relative(a, base) >= end
  <1> DEFINE half == SeqSpace \div 2
             r == Relative(a, base)
             x == a - (base + end)
  <1>1. SeqSpace \in Nat \ {0} /\ half \in Nat /\ 2 * half <= SeqSpace /\ 0 < end /\ end <= half
    BY SeqSpaceAssumption, Remainders
  <1>2. a \in 0..(SeqSpace - 1) /\ base \in 0..(SeqSpace - 1)
    BY DEF SeqNo
  <1>3. /\ a >= base => r = a - base
        /\ a < base => r = a - base + SeqSpace
    <2>1. a - base \in Int
      BY <1>1, <1>2
    <2>2. a >= base => 0 <= a - base /\ a - base < SeqSpace
      BY <1>1, <1>2
    <2>3. a < base => -SeqSpace <= a - base /\ a - base < 0
      BY <1>1, <1>2
    <2> QED BY <2>1, <2>2, <2>3, Remainders DEF Relative
  <1>4. r \in Int /\ 0 <= r /\ r <= half /\ x \in Int
    BY <1>1, <1>2, <1>3
  <1>5. /\ a >= base => x = r - end
        /\ a < base => x = r - end - SeqSpace
    BY <1>1, <1>2, <1>3, <1>4
  <1>6. /\ 0 <= x /\ x < SeqSpace => x % SeqSpace = x
        /\ -SeqSpace <= x /\ x < 0 => x % SeqSpace = x + SeqSpace
        /\ -(2 * SeqSpace) <= x /\ x < -SeqSpace => x % SeqSpace = x + 2 * SeqSpace
    BY <1>4, Remainders
  <1> HIDE DEF half, r, x
  <1>7. r >= end => x % SeqSpace = r - end
    <2>1. CASE a >= base
      BY <1>1, <1>4, <1>5, <1>6, <2>1
    <2>2. CASE a < base
      BY <1>1, <1>4, <1>5, <1>6, <2>2
    <2> QED BY <1>2, <2>1, <2>2
  <1>8. r < end => x % SeqSpace = r - end + SeqSpace
    <2>1. CASE a >= base
      BY <1>1, <1>4, <1>5, <1>6, <2>1
    <2>2. CASE a < base
      BY <1>1, <1>4, <1>5, <1>6, <2>2
    <2> QED BY <1>2, <2>1, <2>2
  <1>9. x % SeqSpace < half <=> r >= end
    BY <1>1, <1>4, <1>7, <1>8
  <1> QED BY <1>9 DEF half, r, x

\* A segment keeps the connection's numbers near, and its furthest acknowledgements.
LEMMA ConnectionStep ==
  ASSUME TcpShape, NEW isn \in [Direction -> SeqNo], Connection(isn),
         NEW s \in TcpSegment, Observe(s), Near(s, isn),
         s.syn \/ baseSeq[s.dir] # None, s.ackFlag => baseSeq[Reply(s.dir)] # None
  PROVE  Connection(isn)'
  <1>1. PICK n \in Nat : n = Len(segments)
    BY DEF TcpShape
  <1>2. /\ Len(segments') = n + 1 /\ segments'[n + 1] = s
        /\ \A i \in 1..n : /\ segments'[i] = segments[i] /\ segments[i].ack \in SeqNo
                           /\ segments[i].ackFlag \in BOOLEAN
    <2>1. \A i \in 1..n : segments[i] \in TcpSegment
      BY <1>1, OneMore DEF Observe
    <2> QED BY <1>1, <2>1, OneMore DEF Observe, TcpSegment, SeqNo
  <1>3. \A i : i \in 1..(n + 1) <=> i \in 1..n \/ i = n + 1
    OBVIOUS
  <1>4. /\ s.dir \in Direction /\ Reply(s.dir) \in Direction /\ s.seq \in SeqNo /\ s.ack \in SeqNo
        /\ s.ackFlag \in BOOLEAN
        /\ \A d \in Direction : s.dir = Reply(d) <=> d = Reply(s.dir)
    BY ReplyBack DEF TcpSegment, SeqNo
  <1>5. \A i \in 1..(n + 1) : Near(segments'[i], isn)
    BY <1>1, <1>2, <1>3 DEF Connection
  <1>6. \A d \in Direction : baseSeq'[d] \in {None, isn[d]}
    <2>1. baseSeq' = [baseSeq EXCEPT ![s.dir] = IF baseSeq[s.dir] = None THEN s.seq ELSE baseSeq[s.dir]]
      BY DEF Observe, ObserveRetransmission
    <2>2. baseSeq[s.dir] = None => s.seq = isn[s.dir]
      BY DEF Near
    <2>3. baseSeq \in [Direction -> SeqNo \cup {None}]
      BY DEF TcpShape
    <2> QED BY <1>4, <2>1, <2>2, <2>3 DEF Connection
  <1>7. /\ peerAck' = IF s.ackFlag /\ Advances(s.ack, Reply(s.dir))
                      THEN [peerAck EXCEPT ![Reply(s.dir)] = s.ack] ELSE peerAck
        /\ peerAck \in [Direction -> SeqNo \cup {None}]
    BY DEF Observe, NotePeerAck, TcpShape
  <1>8. \A d \in Direction :
          AcksOf(d)' = IF d = Reply(s.dir) /\ s.ackFlag THEN AcksOf(d) \cup {n + 1} ELSE AcksOf(d)
    <2>1. \A d : AcksOf(d) = {i \in 1..n : segments[i].dir = Reply(d) /\ segments[i].ackFlag}
      BY <1>1 DEF AcksOf
    <2>2. \A d : AcksOf(d)' = {i \in 1..(n + 1) : segments'[i].dir = Reply(d) /\ segments'[i].ackFlag}
      BY <1>2 DEF AcksOf
    <2>3. ASSUME NEW d \in Direction
          PROVE  AcksOf(d)' = IF d = Reply(s.dir) /\ s.ackFlag THEN AcksOf(d) \cup {n + 1} ELSE AcksOf(d)
      <3>1. s.dir = Reply(d) <=> d = Reply(s.dir)
        BY <1>4
      <3>2. \A i : i \in AcksOf(d)' <=> i \in AcksOf(d) \/ (i = n + 1 /\ d = Reply(s.dir) /\ s.ackFlag)
        <4>1. \A i \in 1..n : i \in AcksOf(d)' <=> i \in AcksOf(d)
          BY <1>2, <1>3, <2>1, <2>2
        <4>2. n + 1 \in AcksOf(d)' <=> d = Reply(s.dir) /\ s.ackFlag
          BY <1>2, <1>3, <2>2, <3>1
        <4>3. n + 1 \notin AcksOf(d) /\ \A i : i \in AcksOf(d) \/ i \in AcksOf(d)' => i \in 1..(n + 1)
          BY <1>3, <2>1, <2>2
        <4> QED BY <1>3, <4>1, <4>2, <4>3
      <3>3. CASE d = Reply(s.dir) /\ s.ackFlag
        BY <3>2, <3>3
      <3>4. CASE ~(d = Reply(s.dir) /\ s.ackFlag)
        BY <3>2, <3>4
      <3> QED BY <3>3, <3>4
    <2> QED BY <2>3
  <1>9. \A d \in Direction : \A j \in AcksOf(d) : j \in 1..n /\ segments'[j] = segments[j]
    BY <1>1, <1>2 DEF AcksOf
  <1>10. ASSUME NEW d \in Direction, d # Reply(s.dir) \/ ~s.ackFlag PROVE Furthest(d, isn)'
    <2>1. AcksOf(d)' = AcksOf(d)
      BY <1>8, <1>10
    <2>2. peerAck'[d] = peerAck[d]
      BY <1>4, <1>7, <1>10
    <2>3. Furthest(d, isn)
      BY DEF Connection
    <2> QED BY <1>9, <2>1, <2>2, <2>3 DEF Furthest
  <1>11. ASSUME s.ackFlag, NEW d \in Direction, d = Reply(s.dir) PROVE Furthest(d, isn)'
    <2>1. AcksOf(d)' = AcksOf(d) \cup {n + 1} /\ Furthest(d, isn) /\ n + 1 \in AcksOf(d)'
      BY <1>8, <1>11 DEF Connection
    <2>2. baseSeq[d] = isn[d] /\ baseSeq[d] # None
      BY <1>11 DEF Connection
    <2>3. \A j \in AcksOf(d) : Relative(segments[j].ack, isn[d]) \in Int
      BY <1>2, <1>9, RelativeIs
    <2>4. Relative(s.ack, isn[d]) \in Int
      BY <1>4, RelativeIs
    <2>5. CASE AcksOf(d) = {} /\ peerAck[d] = None
      <3>1. peerAck'[d] = s.ack
        BY <1>4, <1>7, <1>11, <2>5 DEF Advances
      <3>2. AcksOf(d)' = {n + 1}
        BY <2>1, <2>5
      <3> QED BY <1>2, <2>4, <3>1, <3>2 DEF Furthest
    <2>6. ASSUME NEW k \in AcksOf(d), peerAck[d] = segments[k].ack,
                 \A j \in AcksOf(d) : Relative(segments[j].ack, isn[d]) <= Relative(segments[k].ack, isn[d])
          PROVE  Furthest(d, isn)'
      <3>1. peerAck[d] # None
        BY <1>2, <1>9, <2>6 DEF SeqNo, None
      <3>2. Advances(s.ack, d) <=> Relative(s.ack, isn[d]) > Relative(segments[k].ack, isn[d])
        BY <2>2, <2>6, <3>1 DEF Advances
      <3>3. CASE Relative(s.ack, isn[d]) > Relative(segments[k].ack, isn[d])
        <4>1. peerAck'[d] = s.ack
          BY <1>4, <1>7, <1>11, <3>2, <3>3
        <4>2. \A j \in AcksOf(d) : Relative(segments[j].ack, isn[d]) <= Relative(s.ack, isn[d])
          BY <2>3, <2>4, <2>6, <3>3
        <4>3. \A j \in AcksOf(d)' : Relative(segments'[j].ack, isn[d]) <= Relative(segments'[n + 1].ack, isn[d])
          BY <1>2, <1>9, <2>1, <2>4, <4>2
        <4> QED BY <1>2, <2>1, <4>1, <4>3 DEF Furthest
      <3>4. CASE ~(Relative(s.ack, isn[d]) > Relative(segments[k].ack, isn[d]))
        <4>1. peerAck'[d] = segments[k].ack
          BY <1>7, <1>11, <2>6, <3>2, <3>4
        <4>2. Relative(s.ack, isn[d]) <= Relative(segments[k].ack, isn[d])
          BY <2>3, <2>4, <3>4
        <4>3. \A j \in AcksOf(d)' : Relative(segments'[j].ack, isn[d]) <= Relative(segments'[k].ack, isn[d])
          BY <1>2, <1>9, <2>1, <2>6, <4>2
        <4>4. k \in AcksOf(d)' /\ peerAck'[d] = segments'[k].ack
          BY <1>9, <2>1, <4>1
        <4> QED BY <4>3, <4>4 DEF Furthest
      <3> QED BY <3>3, <3>4
    <2> QED BY <2>1, <2>5, <2>6 DEF Furthest
  <1>12. \A d \in Direction : Furthest(d, isn)'
    BY <1>10, <1>11
  <1> QED BY <1>2, <1>5, <1>6, <1>12 DEF Connection

\* The analyzer's test of what was acknowledged says what acknowledgements said.
LEMMA AckedIs ==
  ASSUME TcpIInv, NEW isn \in [Direction -> SeqNo], Connection(isn),
         NEW s \in TcpSegment, Observe(s), Near(s, isn), s.payload > 0,
         s.syn \/ baseSeq[s.dir] # None,
         NEW n \in Nat, n = Len(segments),
         NEW base, base = IF baseSeq[s.dir] = None THEN s.seq ELSE baseSeq[s.dir],
         NEW end, end = End(n + 1)'
  PROVE  PeerHasAckedThrough(s.dir, base, end) <=> AcknowledgedBefore(n + 1, End(n + 1))'
  <1>1. /\ TcpShape /\ s.dir \in Direction /\ Reply(s.dir) \in Direction
        /\ Furthest(s.dir, isn) /\ baseSeq[s.dir] \in {None, isn[s.dir]}
    BY ReplyBack DEF TcpIInv, TcpSegment, Connection
  <1>2. base = isn[s.dir] /\ base \in SeqNo
    BY <1>1 DEF Near
  <1>3. /\ FirstSeq(s.dir)' = base /\ Start(n + 1)' = Relative(s.seq, base)
        /\ Start(n + 1)' \in SeqNo /\ s.payload \in Nat /\ end = Start(n + 1)' + s.payload
    BY NewPlace
  <1>4. end \in Int /\ 0 < end /\ end <= SeqSpace \div 2
    <2>1. Relative(s.seq, base) \in Int /\ 0 <= Relative(s.seq, base)
      BY <1>3 DEF SeqNo
    <2>2. Relative(s.seq, base) + s.payload <= SeqSpace \div 2
      BY <1>2 DEF Near
    <2>3. end = Relative(s.seq, base) + s.payload
      BY <1>3
    <2> QED BY <1>3, <2>1, <2>2, <2>3
  <1>5. /\ Len(segments') = n + 1 /\ segments'[n + 1] = s
        /\ \A i \in 1..n : segments'[i] = segments[i] /\ segments[i] \in TcpSegment
    BY <1>1, OneMore DEF Observe
  <1>6. \A j \in AcksOf(s.dir) : /\ j \in 1..n /\ segments[j].ack \in SeqNo
                                 /\ Relative(segments[j].ack, base) \in Int
                                 /\ Relative(segments[j].ack, base) <= SeqSpace \div 2
    <2>1. ASSUME NEW j \in AcksOf(s.dir)
          PROVE  /\ j \in 1..n /\ segments[j].ack \in SeqNo
                 /\ Relative(segments[j].ack, base) \in Int
                 /\ Relative(segments[j].ack, base) <= SeqSpace \div 2
      <3>1. j \in 1..n /\ segments[j].dir = Reply(s.dir) /\ segments[j].ackFlag
        BY DEF AcksOf
      <3>2. segments[j].ack \in SeqNo
        BY <1>5, <3>1 DEF TcpSegment, SeqNo
      <3>3. Reply(segments[j].dir) = s.dir
        BY <1>1, <3>1 DEF Reply, Direction
      <3>4. Near(segments[j], isn)
        BY <3>1 DEF Connection
      <3>5. Relative(segments[j].ack, base) <= SeqSpace \div 2
        BY <1>2, <3>1, <3>3, <3>4 DEF Near
      <3> QED BY <1>2, <3>1, <3>2, <3>5, RelativeIs
    <2> QED BY <2>1
  <1>7. AcknowledgedBefore(n + 1, End(n + 1))' <=>
          \E j \in AcksOf(s.dir) : Relative(segments[j].ack, base) >= end
    <2>1. (n + 1) - 1 = n
      OBVIOUS
    <2>2. AcknowledgedBefore(n + 1, End(n + 1))' <=>
            \E j \in 1..n : /\ segments'[j].dir = Reply(s.dir) /\ segments'[j].ackFlag
                            /\ (segments'[j].ack - (base + end)) % SeqSpace < SeqSpace \div 2
      BY <1>3, <1>5, <2>1 DEF AcknowledgedBefore
    <2>3. AcknowledgedBefore(n + 1, End(n + 1))' <=>
            \E j \in AcksOf(s.dir) :
               (segments[j].ack - (base + end)) % SeqSpace < SeqSpace \div 2
      BY <1>5, <2>2 DEF AcksOf
    <2>4. \A j \in AcksOf(s.dir) :
            (segments[j].ack - (base + end)) % SeqSpace < SeqSpace \div 2
              <=> Relative(segments[j].ack, base) >= end
      BY <1>2, <1>4, <1>6, HalfCompares
    <2> QED BY <2>3, <2>4
  <1>8. CASE AcksOf(s.dir) = {} /\ peerAck[s.dir] = None
    BY <1>7, <1>8 DEF PeerHasAckedThrough
  <1>9. ASSUME NEW k \in AcksOf(s.dir), peerAck[s.dir] = segments[k].ack,
               \A j \in AcksOf(s.dir) : Relative(segments[j].ack, isn[s.dir])
                                          <= Relative(segments[k].ack, isn[s.dir])
        PROVE  PeerHasAckedThrough(s.dir, base, end) <=> AcknowledgedBefore(n + 1, End(n + 1))'
    <2>1. peerAck[s.dir] # None
      BY <1>6, <1>9 DEF SeqNo, None
    <2>2. PeerHasAckedThrough(s.dir, base, end) <=> Relative(segments[k].ack, base) >= end
      BY <1>9, <2>1 DEF PeerHasAckedThrough
    <2>3. (\E j \in AcksOf(s.dir) : Relative(segments[j].ack, base) >= end)
          <=> Relative(segments[k].ack, base) >= end
      BY <1>2, <1>4, <1>6, <1>9
    <2> QED BY <1>7, <2>2, <2>3
  <1> QED BY <1>1, <1>8, <1>9 DEF Furthest

\* So what is counted as spurious was acknowledged.
LEMMA SpuriousStep ==
  ASSUME TcpIInv, Frontiers, Controls, count.spurious = Cardinality(Wasted),
         NEW isn \in [Direction -> SeqNo], Connection(isn),
         NEW s \in TcpSegment, Observe(s), Near(s, isn),
         s.syn \/ baseSeq[s.dir] # None
  PROVE  count'.spurious = Cardinality(Wasted)'
  <1>1. PICK n \in Nat : n = Len(segments)
    BY DEF TcpIInv, TcpShape
  <1>2. segments' = Append(segments, s)
    BY DEF Observe
  <1>3. PICK base : base = IF baseSeq[s.dir] = None THEN s.seq ELSE baseSeq[s.dir]
    OBVIOUS
  <1>4. PICK end : end = End(n + 1)'
    OBVIOUS
  <1>5. PICK class : class = Class(n + 1)'
    OBVIOUS
  <1>6. PICK whole \in BOOLEAN : whole <=> FullyCovered(covered[s.dir], Start(n + 1)', end)
    OBVIOUS
  <1>7. PICK acked \in BOOLEAN : acked <=> PeerHasAckedThrough(s.dir, base, end)
    OBVIOUS
  <1>8. PICK really \in BOOLEAN : really <=> AcknowledgedBefore(n + 1, End(n + 1))'
    OBVIOUS
  <1>9. /\ count'.spurious = count.spurious
              + (IF class \in {"retransmission", "spurious"} /\ whole /\ acked THEN 1 ELSE 0)
        /\ class = "spurious" => whole /\ really
        /\ class = "retransmission" /\ whole => ~really
        /\ class \in {"retransmission", "spurious"} => s.payload > 0
    <2>1. /\ count'.spurious = count.spurious
              + (IF /\ Class(n + 1)' \in {"retransmission", "spurious"}
                    /\ FullyCovered(covered[s.dir], Start(n + 1)', end)
                    /\ PeerHasAckedThrough(s.dir, base, end) THEN 1 ELSE 0)
          /\ Class(n + 1)' = "spurious" =>
              FullyCovered(covered[s.dir], Start(n + 1)', end) /\ AcknowledgedBefore(n + 1, End(n + 1))'
          /\ Class(n + 1)' = "retransmission" /\ FullyCovered(covered[s.dir], Start(n + 1)', end) =>
              ~AcknowledgedBefore(n + 1, End(n + 1))'
          /\ Class(n + 1)' \in {"retransmission", "spurious"} => s.payload > 0
      BY <1>1, <1>3, <1>4, CountedOnce
    <2> QED BY <1>5, <1>6, <1>7, <1>8, <2>1
  <1>10. s.payload > 0 => (acked <=> really)
    BY <1>1, <1>3, <1>4, <1>7, <1>8, AckedIs
  <1>11. (class \in {"retransmission", "spurious"} /\ whole /\ acked) <=> class = "spurious"
    BY <1>9, <1>10
  <1>12. Cardinality(Wasted)' = Cardinality(Wasted) + (IF class = "spurious" THEN 1 ELSE 0)
    BY <1>1, <1>2, <1>5, SetsGrow
  <1> QED BY <1>9, <1>11, <1>12

\* Nothing changes when nothing is observed.
LEMMA SetsStay ==
  ASSUME UNCHANGED segments
  PROVE  /\ Resent' = Resent /\ Wasted' = Wasted /\ Late' = Late
         /\ Repeated' = Repeated /\ Resets' = Resets /\ Full' = Full
  <1>1. \A d : FirstSeq(d)' = FirstSeq(d)
    BY DEF FirstSeq
  <1>2. \A i : Start(i)' = Start(i) /\ End(i)' = End(i)
    BY <1>1 DEF Start, End
  <1>3. \A i : EarlierData(i)' = EarlierData(i)
    BY DEF EarlierData
  <1>4. \A i : BytesBefore(i)' = BytesBefore(i)
    BY <1>2, <1>3 DEF BytesBefore
  <1>5. \A i : FrontierBefore(i)' = FrontierBefore(i)
    <2> SUFFICES ASSUME NEW i PROVE FrontierBefore(i)' = FrontierBefore(i)
      OBVIOUS
    <2>1. PICK m : m = Min(EarlierData(i))
      OBVIOUS
    <2>2. Start(m)' = Start(m) /\ {End(j) : j \in EarlierData(i)}' = {End(j) : j \in EarlierData(i)}
      BY <1>2, <1>3
    <2>3. FrontierBefore(i) = FirstMissing(IF EarlierData(i) = {} THEN Start(i) ELSE Start(m),
                                           {End(j) : j \in EarlierData(i)}, BytesBefore(i))
      BY <2>1 DEF FrontierBefore
    <2>4. Min(EarlierData(i)') = m
      BY <1>3, <2>1
    <2>5. FrontierBefore(i)' =
            FirstMissing(IF EarlierData(i)' = {} THEN Start(i)' ELSE Start(m)',
                         {End(j) : j \in EarlierData(i)}', BytesBefore(i)')
      BY <2>4 DEF FrontierBefore
    <2> QED BY <1>2, <1>3, <1>4, <2>2, <2>3, <2>5
  <1>6. \A i : \A e : AcknowledgedBefore(i, e)' <=> AcknowledgedBefore(i, e)
    BY <1>1 DEF AcknowledgedBefore
  <1>7. \A i : Class(i)' = Class(i)
    BY <1>2, <1>4, <1>5, <1>6 DEF Class
  <1>8. \A i : RepeatsControl(i)' <=> RepeatsControl(i)
    BY <1>2 DEF RepeatsControl, IsControl
  <1>9. Resent' = Resent /\ Wasted' = Wasted /\ Late' = Late
    BY <1>7 DEF Resent, Wasted, Late
  <1>10. Repeated' = Repeated /\ Resets' = Resets /\ Full' = Full
    BY <1>8 DEF Repeated, Resets, Full
  <1> QED BY <1>9, <1>10

\* The markers follow every segment observed.
LEMMA ControlStepped ==
  ASSUME TcpIInv, Controls, NEW s \in TcpSegment, Observe(s)
  PROVE  Controls'
  <1>1. PICK n \in Nat : n = Len(segments)
    BY DEF TcpIInv, TcpShape
  <1>2. PICK start : start = Start(n + 1)'
    OBVIOUS
  <1>3. PICK marker : marker = <<s.dir, start, IF s.syn THEN "SYN" ELSE "FIN">>
    OBVIOUS
  <1> QED BY <1>1, <1>2, <1>3, ControlStep
-----------------------------------------------------------------------------
(* The capture *)

\* What VolumeAnalyzer sums up, against the records read and the segments observed.
Volumes ==
  /\ outcome \in {"reading", "metrics", "unreadable"}
  /\ records \in 0..MaxRecords /\ malformed \in 0..records
  /\ volume \in [packets : Nat, total : Nat, payload : Nat]
  /\ volume.payload <= volume.total
  /\ Len(segments) <= volume.packets /\ volume.packets + malformed <= records

Accumulated == Pending /\ HandshakesAgree /\ Frontiers /\ Controls /\ Counts

CaptureIInv == TcpIInv /\ Accumulated /\ Volumes

\* Whatever its header declares, the payload of a packet is a part of it.
LEMMA PayloadIsPart ==
  ASSUME NEW p \in Packets
  PROVE  IpBytes(p) \in Nat /\ PayloadBytes(p) \in Nat /\ PayloadBytes(p) <= IpBytes(p)
  <1>1. /\ p.declared \in Nat /\ p.captured \in Nat /\ p.fixed \in Nat
        /\ p.header \in Nat /\ p.offset \in Nat /\ p.length \in Nat
        /\ TcpUnit \in Nat /\ UdpHeader \in Nat
    BY CaptureAssumption, SizesAssumption
  <1> DEFINE x == p.offset * TcpUnit
  <1>2. x \in Nat
    BY <1>1
  <1> HIDE DEF x
  <1>3. IpBytes(p) \in Nat /\ IpPayload(p) \in Nat /\ IpPayload(p) <= IpBytes(p)
    BY <1>1 DEF IpPayload, IpBytes, Larger
  <1>4. CASE p.transport = "tcp"
    <2>1. PayloadBytes(p) = Larger(0, IpPayload(p) - x)
      BY <1>4 DEF PayloadBytes, x
    <2> QED BY <1>2, <1>3, <2>1 DEF Larger
  <1>5. CASE p.transport = "udp"
    <2>1. PayloadBytes(p) = Smaller(Larger(0, p.length - UdpHeader), IpPayload(p))
      BY <1>5 DEF PayloadBytes
    <2> QED BY <1>1, <1>3, <2>1 DEF Larger, Smaller
  <1>6. CASE p.transport \notin {"tcp", "udp"}
    <2>1. PayloadBytes(p) = 0
      BY <1>6 DEF PayloadBytes
    <2> QED BY <1>3, <2>1
  <1> QED BY <1>4, <1>5, <1>6

\* The segment of a packet is one.
LEMMA SegmentIs ==
  ASSUME NEW p \in Packets, p.transport = "tcp"
  PROVE  Segment(p) \in TcpSegment
  <1>1. p.tcp \in TcpSegment /\ PayloadBytes(p) \in Nat
    BY CaptureAssumption, PayloadIsPart
  <1> QED BY <1>1 DEF Segment, TcpSegment

\* The invariant holds before the first record.
LEMMA CaptureInitially == CaptureInit => CaptureIInv
  <1> SUFFICES ASSUME CaptureInit PROVE CaptureIInv
    OBVIOUS
  <1>1. MaxRecords \in Nat /\ Len(<<>>) = 0
    BY CaptureAssumption
  <1>2. count \in [Counter -> Nat]
    <2>1. count = [retransmission |-> 0, outOfOrder |-> 0, spurious |-> 0,
                   zeroWindow |-> 0, reset |-> 0]
      BY DEF CaptureInit, TcpInit
    <2> QED BY <2>1 DEF Counter
  <1>3. TcpShape
    BY <1>2 DEF CaptureInit, TcpInit, TcpShape
  <1>4. ASSUME NEW d \in Direction PROVE Based(d) /\ Coverage(d)
    BY <1>1 DEF CaptureInit, TcpInit, Based, Coverage, Separate, In
  <1>5. Volumes
    BY <1>1 DEF CaptureInit, TcpInit, Volumes
  <1>6. Pending /\ HandshakesAgree
    <2>1. segments = <<>> /\ pendingSyns = {} /\ rttSamples = <<>> /\ DOMAIN segments = {}
      BY DEF CaptureInit, TcpInit
    <2>2. Pending
      BY <1>1, <2>1 DEF Pending
    <2>3. HandshakesAgree
      <3>1. {i \in DOMAIN segments : Elapsed(i) >= 0} = {}
        BY <2>1
      <3>2. DOMAIN Ascending({}) = {}
        BY FS_EmptySet, AscendingLists
      <3> QED BY <2>1, <3>1, <3>2 DEF HandshakesAgree
    <2> QED BY <2>2, <2>3
  <1>7. Frontiers
    <2>1. nextExpected = [d \in Direction |-> None] /\ None \in Int /\ segments = <<>>
      BY DEF CaptureInit, TcpInit, None
    <2>2. \A d : DataOf(d) = {}
      BY <1>1, <2>1 DEF DataOf
    <2> QED BY <2>1, <2>2 DEF Frontiers, Frontier
  <1>8. Controls
    <2>1. ControlsSeen = {} /\ seenControl = {}
      BY <1>1 DEF CaptureInit, TcpInit, ControlsSeen
    <2> QED BY <2>1 DEF Controls
  <1>9. Counts
    <2>1. Resent = {} /\ Repeated = {} /\ Late = {} /\ Resets = {} /\ Full = {}
      BY <1>1 DEF CaptureInit, TcpInit, Resent, Repeated, Late, Resets, Full
    <2>2. /\ count.retransmission = 0 /\ count.spurious = 0 /\ count.outOfOrder = 0
          /\ count.reset = 0 /\ count.zeroWindow = 0
      BY DEF CaptureInit, TcpInit
    <2> QED BY <2>1, <2>2, FS_EmptySet DEF Counts
  <1> QED BY <1>3, <1>4, <1>5, <1>6, <1>7, <1>8, <1>9 DEF CaptureIInv, TcpIInv, Accumulated

\* Nothing of the accumulator changes without a segment.
LEMMA TcpStays ==
  ASSUME TcpIInv, UNCHANGED tcpVars
  PROVE  TcpIInv' /\ Len(segments') = Len(segments)
  <1>1. TcpShape'
    BY DEF tcpVars, TcpIInv, TcpShape
  <1>2. \A d \in Direction : Based(d)'
    BY DEF tcpVars, TcpIInv, Based, First
  <1>3. \A d \in Direction : Coverage(d)'
    BY DEF tcpVars, TcpIInv, Coverage, Brought
  <1>4. Len(segments') = Len(segments)
    BY DEF tcpVars
  <1> QED BY <1>1, <1>2, <1>3, <1>4 DEF TcpIInv

\* Every record, and the end of the file, keeps the invariant.
LEMMA CaptureStep == CaptureIInv /\ [CaptureNext]_captureVars => CaptureIInv'
  <1> SUFFICES ASSUME CaptureIInv, [CaptureNext]_captureVars PROVE CaptureIInv'
    OBVIOUS
  <1>1. TcpIInv /\ Accumulated /\ Volumes /\ MaxRecords \in Nat
    BY CaptureAssumption DEF CaptureIInv
  <1>2. UNCHANGED tcpVars => TcpIInv' /\ Accumulated' /\ Len(segments') = Len(segments)
    <2> SUFFICES ASSUME UNCHANGED tcpVars
                 PROVE  TcpIInv' /\ Accumulated' /\ Len(segments') = Len(segments)
      OBVIOUS
    <2>1. TcpIInv' /\ Len(segments') = Len(segments)
      BY <1>1, TcpStays
    <2>2. Pending'
      BY <1>1 DEF tcpVars, Accumulated, Pending, Oldest, Open, SameSyn, Answers
    <2>3. HandshakesAgree'
      <3>1. \A i : Asked(i)' = Asked(i)
        BY DEF tcpVars, Asked, Answers
      <3>2. \A i : Elapsed(i)' = Elapsed(i)
        BY <3>1 DEF tcpVars, Elapsed
      <3>3. {i \in DOMAIN segments' : Elapsed(i)' >= 0} = {i \in DOMAIN segments : Elapsed(i) >= 0}
        BY <3>2 DEF tcpVars
      <3>4. rttSamples' = rttSamples
        BY DEF tcpVars
      <3> QED BY <1>1, <3>2, <3>3, <3>4 DEF Accumulated, HandshakesAgree
    <2>4. /\ \A d : FirstSeq(d)' = FirstSeq(d)
          /\ \A i : Start(i)' = Start(i) /\ End(i)' = End(i)
      BY DEF tcpVars, FirstSeq, Start, End
    <2>5. Frontiers' /\ Controls'
      BY <1>1, <2>4 DEF tcpVars, Accumulated, Frontiers, Frontier, DataOf, Controls, ControlsSeen, Marker, IsControl
    <2>6. Counts'
      BY <1>1, SetsStay DEF Accumulated, Counts, tcpVars
    <2> QED BY <2>1, <2>2, <2>3, <2>5, <2>6 DEF Accumulated
  <1>3. CASE UNCHANGED captureVars \/ Finished
    BY <1>1, <1>2, <1>3 DEF captureVars, Finished, Volumes, CaptureIInv
  <1>4. CASE UnreadableFile \/ SkipRecord
    <2>1. Volumes'
      BY <1>1, <1>2, <1>4 DEF UnreadableFile, SkipRecord, Volumes
    <2> QED BY <1>2, <1>4, <2>1 DEF UnreadableFile, SkipRecord, CaptureIInv
  <1>5. CASE EndOfCapture
    <2>1. volume.payload <= volume.total /\ \A i \in DOMAIN rttSamples : rttSamples[i] >= 0
      BY <1>1 DEF Volumes, TcpIInv, TcpShape
    <2>2. outcome' = "metrics"
      BY <1>5, <2>1 DEF EndOfCapture
    <2> QED BY <1>1, <1>2, <1>5, <2>2 DEF EndOfCapture, Volumes, CaptureIInv
  <1>6. ASSUME NEW p \in Packets, ReadPacket(p) PROVE CaptureIInv'
    <2>1. /\ TcpIInv' /\ Accumulated'
          /\ Len(segments') <= Len(segments) + 1 /\ Len(segments) \in Nat /\ Len(segments') \in Nat
      <3>0. Len(segments) \in Nat
        BY <1>1 DEF TcpIInv, TcpShape
      <3>1. CASE p.transport = "tcp"
        <4>1. Segment(p) \in TcpSegment /\ Observe(Segment(p))
          BY <1>6, <3>1, SegmentIs DEF ReadPacket
        <4>2. TcpShape'
          BY <1>1, <4>1, ObserveTypes DEF TcpIInv
        <4>3. \A d \in Direction : Based(d)' /\ Coverage(d)'
          BY <1>1, <4>1, ObserveCovers
        <4>4. Len(segments') = Len(segments) + 1
          BY <1>1, <4>1, OneMore DEF Observe, TcpIInv
        <4>5. Accumulated'
          BY <1>1, <4>1, ObserveMeasures, FrontierStep, ControlStepped, CountStep
             DEF TcpIInv, Observe, Accumulated
        <4> QED BY <3>0, <4>2, <4>3, <4>4, <4>5 DEF TcpIInv
      <3>2. CASE p.transport # "tcp"
        <4>1. UNCHANGED tcpVars
          BY <1>6, <3>2 DEF ReadPacket
        <4> QED BY <1>2, <3>0, <4>1
      <3> QED BY <3>1, <3>2
    <2> DEFINE t == IpBytes(p)
               b == PayloadBytes(p)
    <2>2. t \in Nat /\ b \in Nat /\ b <= t
      BY PayloadIsPart
    <2>3. volume' = [packets |-> volume.packets + 1, total |-> volume.total + t,
                     payload |-> volume.payload + b]
      BY <1>6 DEF ReadPacket, ObserveVolume
    <2> HIDE DEF t, b
    <2>4. /\ volume.packets \in Nat /\ volume.total \in Nat /\ volume.payload \in Nat
          /\ records \in Nat /\ malformed \in Nat
      BY <1>1 DEF Volumes
    <2>5. Volumes'
      <3>1. /\ volume'.packets = volume.packets + 1 /\ volume'.total = volume.total + t
            /\ volume'.payload = volume.payload + b
            /\ volume' \in [packets : Nat, total : Nat, payload : Nat]
        BY <2>2, <2>3, <2>4
      <3>2. /\ records' = records + 1 /\ records < MaxRecords
            /\ UNCHANGED <<outcome, malformed>>
        BY <1>6 DEF ReadPacket
      <3>3. /\ records \in 0..MaxRecords /\ malformed \in 0..records
            /\ volume.payload <= volume.total /\ outcome \in {"reading", "metrics", "unreadable"}
            /\ Len(segments) <= volume.packets /\ volume.packets + malformed <= records
        BY <1>1 DEF Volumes
      <3>4. volume'.payload <= volume'.total
        <4>1. /\ volume'.payload = volume.payload + b /\ volume'.total = volume.total + t
              /\ volume.payload <= volume.total
          BY <3>1, <3>3
        <4>2. volume.payload \in Nat /\ volume.total \in Nat
          BY <2>4
        <4> QED BY ONLY <2>2, <4>1, <4>2
      <3>5. Len(segments') <= volume'.packets
        BY <2>1, <2>4, <3>1, <3>3
      <3>6. volume'.packets + malformed' <= records'
        BY <2>4, <3>1, <3>2, <3>3
      <3>7. records' \in 0..MaxRecords /\ malformed' \in 0..records'
        BY <1>1, <2>4, <3>2, <3>3
      <3> QED BY <3>1, <3>2, <3>3, <3>4, <3>5, <3>6, <3>7 DEF Volumes
    <2> QED BY <2>1, <2>5 DEF CaptureIInv
  <1> QED BY <1>3, <1>4, <1>5, <1>6 DEF CaptureNext

\* The analysis of a capture keeps CaptureIInv: of every direction, the base is
\* the number of its first segment, the merged intervals hold the bytes its
\* segments have brought and the frontier is the first that is missing; the
\* pending SYNs are the oldest of those unanswered, the markers are the SYNs and
\* FINs seen, and the counters count the segments of their class.
THEOREM CaptureInvariance == CaptureSpec => []CaptureIInv
  BY CaptureInitially, CaptureStep, PTL DEF CaptureSpec

\* The accumulators have their types, and together account for the records read
\* (packet_reader.read_packets, TcpAnalyzer.observe, VolumeAnalyzer.observe).
THEOREM CaptureTypeCorrect == CaptureSpec => []CaptureTypeOK
  <1>1. CaptureIInv => CaptureTypeOK
    BY DEF CaptureIInv, Volumes, TcpIInv, TcpShape, CaptureTypeOK, SeqNo, Counter
  <1> QED BY <1>1, CaptureInvariance, PTL

\* NetworkMetrics.__post_init__ never raises on what the accumulators give it,
\* whatever lengths the headers of the packets declare.
THEOREM NeverRejected == CaptureSpec => []ReadableGivesMetrics
  <1>1. CaptureIInv => ReadableGivesMetrics
    BY DEF CaptureIInv, Volumes, ReadableGivesMetrics
  <1> QED BY <1>1, CaptureInvariance, PTL

\* _observe_handshake takes one sample of each run of SYNs with one number that is
\* answered, from the oldest of the run to its first answer, for any segments in any
\* order; a SYN repeated after its answer is a run of its own.
THEOREM HandshakesTrue == CaptureSpec => []HandshakesAgree
  <1>1. CaptureIInv => HandshakesAgree
    BY DEF CaptureIInv, Accumulated
  <1> QED BY <1>1, CaptureInvariance, PTL

\* _merge_interval keeps the intervals of a direction sorted, apart, and equal to
\* the bytes seen, for any segments in any order and any number of wraps.
THEOREM CoverageTrue == CaptureSpec => []CoverageIsBytesSeen
  <1>1. CaptureIInv => CoverageIsBytesSeen
    <2> SUFFICES ASSUME CaptureIInv, NEW d \in Direction
                 PROVE  LET ivs == covered[d]
                            data == {i \in DOMAIN segments : segments[i].dir = d /\ segments[i].payload > 0}
                        IN  /\ \A k \in DOMAIN ivs : ivs[k][1] < ivs[k][2]
                            /\ \A k \in 2..Len(ivs) : ivs[k - 1][2] < ivs[k][1]
                            /\ UNION {iv[1]..(iv[2] - 1) : iv \in Range(ivs)}
                                 = UNION {Start(i)..(End(i) - 1) : i \in data}
      BY DEF CoverageIsBytesSeen
    <2> DEFINE ivs == covered[d]
               data == {i \in DOMAIN segments : segments[i].dir = d /\ segments[i].payload > 0}
    <2>1. TcpShape /\ Based(d) /\ Coverage(d) /\ ivs \in Seq(Interval)
      BY DEF CaptureIInv, TcpIInv, TcpShape
    <2>2. /\ Len(ivs) \in Nat /\ DOMAIN ivs = 1..Len(ivs)
          /\ \A k \in 1..Len(ivs) : ivs[k][1] \in Int /\ ivs[k][2] \in Int
      BY <2>1, IntervalEnds
    <2>3. /\ Len(segments) \in Nat /\ DOMAIN segments = 1..Len(segments)
          /\ \A i \in 1..Len(segments) : segments[i].seq \in SeqNo /\ segments[i].payload \in Nat
      <3>1. segments \in Seq(TcpSegment)
        BY <2>1 DEF TcpShape
      <3>2. Len(segments) \in Nat /\ DOMAIN segments = 1..Len(segments)
            /\ \A i \in 1..Len(segments) : segments[i] \in TcpSegment
        BY <3>1
      <3> QED BY <3>2 DEF TcpSegment, SeqNo
    <2>4. ASSUME NEW i \in 1..Len(segments), segments[i].dir = d
          PROVE  Start(i) = Relative(segments[i].seq, baseSeq[d]) /\ Start(i) \in Int
      <3>1. PICK f \in Nat : First(d, f) /\ baseSeq[d] = segments[f].seq
        BY <2>1, <2>3, <2>4 DEF Based
      <3> DEFINE own == {j \in DOMAIN segments : segments[j].dir = d}
      <3>2. f \in own /\ (\A j \in own : f <= j) /\ \A j \in own : j \in Int
        BY <2>3, <3>1 DEF First
      <3> HIDE DEF own
      <3>3. Min(own) = f
        <4> DEFINE m == CHOOSE x \in own : \A y \in own : x <= y
        <4>1. m \in own /\ \A y \in own : m <= y
          BY <3>2
        <4>2. m = Min(own)
          BY DEF Min
        <4> HIDE DEF m
        <4>3. m \in Int /\ f \in Int /\ m <= f /\ f <= m
          BY <3>2, <4>1
        <4> QED BY <4>2, <4>3
      <3>4. FirstSeq(d) = baseSeq[d]
        BY <3>1, <3>3 DEF FirstSeq, own
      <3>5. baseSeq[d] \in SeqNo
        BY <2>3, <3>1 DEF First
      <3> QED BY <2>3, <2>4, <3>4, <3>5, RelativeIs DEF Start
    <2>5. \A k \in DOMAIN ivs : ivs[k][1] < ivs[k][2]
      BY <2>1, <2>2 DEF Coverage, Separate
    <2>6. \A k \in 2..Len(ivs) : ivs[k - 1][2] < ivs[k][1]
      <3> SUFFICES ASSUME NEW k \in 2..Len(ivs) PROVE ivs[k - 1][2] < ivs[k][1]
        OBVIOUS
      <3>1. k - 1 \in 1..Len(ivs) /\ k \in 1..Len(ivs) /\ k - 1 < k
        BY <2>2
      <3> QED BY <2>1, <3>1 DEF Coverage, Separate
    <2>7. ASSUME NEW b \in Int
          PROVE  In(ivs, b) <=> \E i \in data : b \in Start(i)..(End(i) - 1)
      <3>1. ASSUME NEW i \in data
            PROVE  Brought(i, d, b) <=> b \in Start(i)..(End(i) - 1)
        <4>1. i \in 1..Len(segments) /\ segments[i].payload \in Nat /\ segments[i].dir = d
          BY <2>3
        <4>2. Start(i) = Relative(segments[i].seq, baseSeq[d]) /\ Start(i) \in Int
          BY <2>4, <4>1
        <4> QED BY <4>1, <4>2 DEF Brought, End
      <3>2. ASSUME NEW i \in 1..Len(segments), Brought(i, d, b) PROVE i \in data
        <4>0. Relative(segments[i].seq, baseSeq[d]) \in Int /\ segments[i].payload \in Nat
          BY <2>3, <2>4, <3>2 DEF Brought
        <4>1. segments[i].payload > 0
          BY <3>2, <4>0 DEF Brought
        <4> QED BY <2>3, <3>2, <4>1 DEF Brought
      <3>3. In(ivs, b) <=> \E i \in 1..Len(segments) : Brought(i, d, b)
        BY <2>1 DEF Coverage
      <3>4. \A i \in data : i \in 1..Len(segments)
        BY <2>3
      <3> HIDE DEF data
      <3> QED BY <3>1, <3>2, <3>3, <3>4
    <2>8. \A b : b \in UNION {iv[1]..(iv[2] - 1) : iv \in Range(ivs)} <=> b \in Int /\ In(ivs, b)
      <3>1. ASSUME NEW b, b \in UNION {iv[1]..(iv[2] - 1) : iv \in Range(ivs)}
            PROVE  b \in Int /\ In(ivs, b)
        <4>1. PICK k \in 1..Len(ivs) : b \in ivs[k][1]..(ivs[k][2] - 1)
          BY <2>2, <3>1 DEF Range
        <4>2. ivs[k][1] \in Int /\ ivs[k][2] \in Int
          BY <2>2
        <4> HIDE DEF ivs
        <4>3. b \in Int /\ ivs[k][1] <= b /\ b < ivs[k][2]
          BY <4>1, <4>2
        <4> QED BY <4>3 DEF In
      <3>2. ASSUME NEW b \in Int, In(ivs, b)
            PROVE  b \in UNION {iv[1]..(iv[2] - 1) : iv \in Range(ivs)}
        <4>1. PICK k \in 1..Len(ivs) : ivs[k][1] <= b /\ b < ivs[k][2]
          BY <3>2 DEF In
        <4>2. ivs[k] \in Range(ivs) /\ b \in ivs[k][1]..(ivs[k][2] - 1)
          <5>1. ivs[k][1] \in Int /\ ivs[k][2] \in Int /\ k \in DOMAIN ivs
            BY <2>2
          <5>2. b \in ivs[k][1]..(ivs[k][2] - 1)
            BY <4>1, <5>1
          <5> HIDE DEF ivs
          <5>3. ivs[k] \in Range(ivs)
            BY <5>1 DEF Range
          <5> QED BY <5>2, <5>3
        <4> QED BY <4>2
      <3> QED BY <3>1, <3>2
    <2>9. \A b : b \in UNION {Start(i)..(End(i) - 1) : i \in data}
                 <=> b \in Int /\ \E i \in data : b \in Start(i)..(End(i) - 1)
      <3> HIDE DEF data
      <3> QED OBVIOUS
    <2> HIDE DEF ivs, data
    <2>10. UNION {iv[1]..(iv[2] - 1) : iv \in Range(ivs)} = UNION {Start(i)..(End(i) - 1) : i \in data}
      BY <2>7, <2>8, <2>9
    <2> QED BY <2>5, <2>6, <2>10 DEF ivs, data
  <1> QED BY <1>1, CaptureInvariance, PTL

\* What is counted, by what every segment is: one that only resends is counted
\* once, as a retransmission or as a spurious one.
SegmentsCounted ==
  /\ count.retransmission + count.spurious =
       Number(LAMBDA i : Class(i) \in {"retransmission", "spurious"}) + Number(RepeatsControl)
  /\ count.outOfOrder = Number(LAMBDA i : Class(i) = "outOfOrder")
  /\ count.reset = Number(LAMBDA i : segments[i].rst)
  /\ count.zeroWindow = Number(LAMBDA i : segments[i].window = 0
                                           /\ ~segments[i].syn /\ ~segments[i].rst)

\* The sets counted are sets of segments.
LEMMA CountedSets ==
  ASSUME TcpIInv
  PROVE  /\ Number(LAMBDA i : Class(i) \in {"retransmission", "spurious"}) = Cardinality(Resent)
         /\ Number(LAMBDA i : Class(i) = "retransmission") = Cardinality(Resent) - Cardinality(Wasted)
         /\ Number(LAMBDA i : Class(i) = "spurious") = Cardinality(Wasted)
         /\ Number(LAMBDA i : Class(i) = "outOfOrder") = Cardinality(Late)
         /\ Number(RepeatsControl) = Cardinality(Repeated)
         /\ Number(LAMBDA i : segments[i].rst) = Cardinality(Resets)
         /\ Number(LAMBDA i : segments[i].window = 0 /\ ~segments[i].syn /\ ~segments[i].rst)
              = Cardinality(Full)
  <1>1. Len(segments) \in Nat /\ DOMAIN segments = 1..Len(segments)
    BY DEF TcpIInv, TcpShape
  <1> DEFINE again == {i \in DOMAIN segments : Class(i) = "retransmission"}
  <1>2. Number(LAMBDA i : Class(i) \in {"retransmission", "spurious"}) = Cardinality(Resent)
    BY <1>1 DEF Number, Resent
  <1>3. Number(LAMBDA i : Class(i) = "spurious") = Cardinality(Wasted)
    BY <1>1 DEF Number, Wasted
  <1>4. Number(LAMBDA i : Class(i) = "outOfOrder") = Cardinality(Late)
    BY <1>1 DEF Number, Late
  <1>5. Number(RepeatsControl) = Cardinality(Repeated)
    BY <1>1 DEF Number, Repeated
  <1>6. Number(LAMBDA i : segments[i].rst) = Cardinality(Resets)
    BY <1>1 DEF Number, Resets
  <1>7. Number(LAMBDA i : segments[i].window = 0 /\ ~segments[i].syn /\ ~segments[i].rst)
          = Cardinality(Full)
    BY <1>1 DEF Number, Full
  <1>8. Number(LAMBDA i : Class(i) = "retransmission") = Cardinality(again)
    BY DEF Number
  <1>9. again \cup Wasted = Resent /\ again \cap Wasted = {}
    BY <1>1 DEF Resent, Wasted
  <1>10. IsFiniteSet(again) /\ IsFiniteSet(Wasted)
    <2>1. again \subseteq 1..Len(segments) /\ Wasted \subseteq 1..Len(segments)
      BY <1>1 DEF Wasted
    <2>2. IsFiniteSet(1..Len(segments))
      BY <1>1, FS_Interval
    <2> HIDE DEF again
    <2> QED BY <2>1, <2>2, FS_Subset
  <1> HIDE DEF again
  <1>11. Cardinality(Resent) = Cardinality(again) + Cardinality(Wasted)
    <2>1. Cardinality(again \cup Wasted)
            = Cardinality(again) + Cardinality(Wasted) - Cardinality(again \cap Wasted)
      BY <1>10, FS_Union
    <2>2. Cardinality(again) \in Nat /\ Cardinality(Wasted) \in Nat
      BY <1>10, FS_CardinalityType
    <2>3. Cardinality(again \cap Wasted) = 0
      BY <1>9, FS_EmptySet
    <2> QED BY <1>9, <2>1, <2>2, <2>3
  <1>12. Cardinality(again) = Cardinality(Resent) - Cardinality(Wasted)
    <2>1. Cardinality(again) \in Nat /\ Cardinality(Wasted) \in Nat
      BY <1>10, FS_CardinalityType
    <2> QED BY <1>11, <2>1
  <1>13. Number(LAMBDA i : Class(i) = "retransmission") = Cardinality(Resent) - Cardinality(Wasted)
    BY <1>8, <1>12
  <1> QED BY <1>2, <1>3, <1>4, <1>5, <1>6, <1>7, <1>13

\* Whatever segments a capture holds, in any order and with any numbers, each is
\* counted as what it is: resent bytes once, out-of-order data, resets, zero windows.
THEOREM ClassesCounted == CaptureSpec => []SegmentsCounted
  <1>1. CaptureIInv => SegmentsCounted
    <2> SUFFICES ASSUME CaptureIInv PROVE SegmentsCounted
      OBVIOUS
    <2>1. TcpIInv /\ Counts
      BY DEF CaptureIInv, Accumulated
    <2> QED BY <2>1, CountedSets DEF Counts, SegmentsCounted
  <1> QED BY <1>1, CaptureInvariance, PTL

-----------------------------------------------------------------------------
(* The capture of a short connection *)

SpuriousTrue == count.spurious = Cardinality(Wasted)

\* What is acknowledged is known as long as the numbers of the connection are near.
ShortIInv(isn) == CaptureIInv /\ Connection(isn) /\ SpuriousTrue

\* Nothing of the connection changes without a segment.
LEMMA ConnectionStays ==
  ASSUME NEW isn, Connection(isn), SpuriousTrue, UNCHANGED tcpVars
  PROVE  Connection(isn)' /\ SpuriousTrue'
  <1>1. Connection(isn)'
    BY DEF tcpVars, Connection, Furthest, AcksOf, Near
  <1>2. SpuriousTrue'
    BY SetsStay DEF tcpVars, SpuriousTrue
  <1> QED BY <1>1, <1>2

\* Nothing is known of a connection before its first segment.
LEMMA ShortInitially ==
  ASSUME NEW isn, CaptureInit
  PROVE  ShortIInv(isn)
  <1>1. CaptureIInv
    BY CaptureInitially
  <1>2. segments = <<>> /\ Len(segments) = 0 /\ 1..Len(segments) = {}
    BY DEF CaptureInit, TcpInit
  <1>3. ASSUME NEW d \in Direction PROVE baseSeq[d] \in {None, isn[d]} /\ Furthest(d, isn)
    <2>1. baseSeq[d] = None /\ peerAck[d] = None
      BY DEF CaptureInit, TcpInit
    <2>2. AcksOf(d) = {}
      BY <1>2 DEF AcksOf
    <2> QED BY <2>1, <2>2 DEF Furthest
  <1>4. Connection(isn)
    BY <1>2, <1>3 DEF Connection
  <1>5. SpuriousTrue
    <2>1. Wasted = {} /\ count.spurious = 0
      BY <1>2 DEF Wasted, CaptureInit, TcpInit
    <2> QED BY <2>1, FS_EmptySet DEF SpuriousTrue
  <1> QED BY <1>1, <1>4, <1>5 DEF ShortIInv

\* Every segment of the connection keeps it.
LEMMA ShortStep ==
  ASSUME FromStart, NEW isn \in [Direction -> SeqNo],
         \A p \in Packets : p.transport = "tcp" => Near(Segment(p), isn),
         ShortIInv(isn), [CaptureNext]_captureVars
  PROVE  ShortIInv(isn)'
  <1>1. CaptureIInv /\ Connection(isn) /\ SpuriousTrue
    BY DEF ShortIInv
  <1>2. CaptureIInv'
    BY <1>1, CaptureStep
  <1>3. UNCHANGED tcpVars => ShortIInv(isn)'
    BY <1>1, <1>2, ConnectionStays DEF ShortIInv
  <1>4. ASSUME NEW p \in Packets, ReadPacket(p) PROVE ShortIInv(isn)'
    <2>1. CASE p.transport # "tcp"
      BY <1>3, <1>4, <2>1 DEF ReadPacket
    <2>2. CASE p.transport = "tcp"
      <3> DEFINE s == Segment(p)
      <3>1. s \in TcpSegment /\ Near(s, isn)
        BY <2>2, SegmentIs
      <3>2. Observe(s) /\ Recorded(s)
        BY <1>4, <2>2 DEF ReadPacket
      <3> HIDE DEF s
      <3>3. (s.syn \/ baseSeq[s.dir] # None) /\ (s.ackFlag => baseSeq[Reply(s.dir)] # None)
        BY <3>2 DEF Recorded
      <3>4. TcpIInv /\ TcpShape /\ Frontiers /\ Controls
        BY <1>1 DEF CaptureIInv, Accumulated, TcpIInv
      <3>5. Connection(isn)'
        BY <1>1, <3>1, <3>2, <3>3, <3>4, ConnectionStep
      <3>6. SpuriousTrue'
        BY <1>1, <3>1, <3>2, <3>3, <3>4, SpuriousStep DEF SpuriousTrue
      <3> QED BY <1>2, <3>5, <3>6 DEF ShortIInv
    <2> QED BY <2>1, <2>2
  <1>5. CASE UNCHANGED captureVars \/ Finished
    BY <1>3, <1>5 DEF captureVars, Finished
  <1>6. CASE UnreadableFile \/ SkipRecord \/ EndOfCapture
    BY <1>3, <1>6 DEF UnreadableFile, SkipRecord, EndOfCapture
  <1> QED BY <1>4, <1>5, <1>6 DEF CaptureNext

\* In a capture that holds the start of a connection, and as long as its numbers
\* are near enough to tell which of two comes first, every counter is the number of
\* segments that the bytes seen put in its class: _peer_has_acked_through tells a
\* spurious retransmission, and a partial overlap counts whatever was acknowledged.
THEOREM CountersTrue == FromStart /\ ShortConnection => (CaptureSpec => []CountersAgree)
  <1> SUFFICES ASSUME FromStart, ShortConnection
               PROVE  CaptureSpec => []CountersAgree
    OBVIOUS
  <1>1. PICK isn \in [Direction -> SeqNo] :
           \A p \in Packets : p.transport = "tcp" => Near(Segment(p), isn)
    BY DEF ShortConnection, SeqNo
  <1>2. CaptureInit => ShortIInv(isn)
    BY ShortInitially
  <1>3. ShortIInv(isn) /\ [CaptureNext]_captureVars => ShortIInv(isn)'
    BY <1>1, ShortStep
  <1>4. ShortIInv(isn) => CountersAgree
    <2> SUFFICES ASSUME ShortIInv(isn) PROVE CountersAgree
      OBVIOUS
    <2>1. TcpIInv /\ Counts /\ SpuriousTrue /\ count \in [Counter -> Nat]
      BY DEF ShortIInv, CaptureIInv, Accumulated, TcpIInv, TcpShape
    <2>2. count.retransmission \in Nat /\ count.spurious \in Nat
      BY <2>1 DEF Counter
    <2>3. count.retransmission = (Cardinality(Resent) - Cardinality(Wasted)) + Cardinality(Repeated)
      <3>1. IsFiniteSet(Resent) /\ IsFiniteSet(Wasted) /\ IsFiniteSet(Repeated)
        <4>1. Len(segments) \in Nat
          BY <2>1 DEF TcpIInv, TcpShape
        <4>2. IsFiniteSet(1..Len(segments))
          BY <4>1, FS_Interval
        <4>3. Resent \subseteq 1..Len(segments) /\ Wasted \subseteq 1..Len(segments)
              /\ Repeated \subseteq 1..Len(segments)
          BY DEF Resent, Wasted, Repeated
        <4> QED BY <4>2, <4>3, FS_Subset
      <3>2. /\ Cardinality(Resent) \in Nat /\ Cardinality(Wasted) \in Nat
            /\ Cardinality(Repeated) \in Nat
        BY <3>1, FS_CardinalityType
      <3>3. /\ count.retransmission + count.spurious = Cardinality(Resent) + Cardinality(Repeated)
            /\ count.spurious = Cardinality(Wasted)
        BY <2>1 DEF Counts, SpuriousTrue
      <3> QED BY <2>2, <3>2, <3>3
    <2> QED BY <2>1, <2>3, CountedSets DEF Counts, SpuriousTrue, CountersAgree
  <1> QED BY <1>2, <1>3, <1>4, PTL DEF CaptureSpec

-----------------------------------------------------------------------------
(* CaptureBatch *)

USE BatchAssumption
    DEF vars, stores, history, OK, ERROR, INPUT_REJECTED, CAPTURE_UNREADABLE, TRANSPORT_FAILURE

Status == {OK, ERROR, INPUT_REJECTED, CAPTURE_UNREADABLE, TRANSPORT_FAILURE}
Busy == {"check", "analyze", "publish", "close", "route"}
Judged == {"close", "route"}

(* What a run is working on is one of what it listed, and it is alone in   *)
(* its list.                                                               *)
Bookkeeping ==
  \A r \in Runs :
    /\ todo[r] \subseteq listed[r] /\ current[r] \notin todo[r]
    /\ IF stage[r] \in Busy THEN current[r] \in listed[r] ELSE current[r] = NoCapture
    /\ stage[r] = "idle" => listed[r] = {}
    /\ stage[r] = "ended" => todo[r] = {}

(* The exit code of an analyzer tells the truth about the capture, however *)
(* long the script takes to act upon it.                                   *)
VerdictHolds ==
  \A r \in Runs : stage[r] \in Judged =>
    /\ status[r] = OK => opts[r].dry \/ Published(current[r])
    /\ status[r] \notin {OK, TRANSPORT_FAILURE}
         => current[r] \in blamed \/ where[current[r]] # "inbox"

(* A run in which all is well has dealt with what it no longer has to do.  *)
DealtWith ==
  \A r \in Runs :
    /\ allWell[r] /\ ~opts[r].dry
         => \A c \in listed[r] \ todo[r] : c = current[r] \/ Published(c)
    /\ stage[r] = "ended" /\ status[r] = OK => allWell[r]

(* An undisturbed capture has one run that works on it, has no metric      *)
(* before that run's send, and is out of the inbox once the run is done.   *)
Alone ==
  \A c \in Captures \ disturbed :
    /\ \A r, q \in Runs : current[r] = c /\ current[q] = c => r = q
    /\ \A m \in topic : m.capture = c =>
         where[c] # "inbox" \/ (current[m.run] = c /\ stage[m.run] \in Judged)
    /\ \A r \in Runs :
         /\ current[r] = c /\ stage[r] = "publish" => ~Published(c)
         /\ current[r] = c /\ stage[r] = "close" /\ unresolved[r] => ~Published(c)
    /\ \A m, n \in topic : m.capture = c /\ n.capture = c => m = n

Unconfirmed ==
  \A r \in Runs : unresolved[r] =>
    /\ stage[r] \in {"publish", "close"}
    /\ stage[r] = "publish" => current[r] \in disturbed

IInv == TypeOK /\ Bookkeeping /\ VerdictHolds /\ DealtWith /\ Unconfirmed /\ Alone

-----------------------------------------------------------------------------
LEMMA InitIInv == Init => IInv
  BY DEF Init, IInv, TypeOK, Stages, Bookkeeping, VerdictHolds, DealtWith, Unconfirmed,
         Alone, Busy, Judged, Published

\* What an exit of the analyzer does, by itself and after the last retry.
LEMMA ExitIs ==
  ASSUME TypeOK, NEW r \in Runs, NEW code \in Status, Exit(r, code)
  PROVE  /\ stage' \in [Runs -> Stages] /\ status' \in [Runs -> Status]
         /\ attempt' \in [Runs -> 0..MaxRetries]
         /\ stage'[r] = "close" /\ status'[r] = code
         /\ \A q \in Runs \ {r} : stage'[q] = stage[q] /\ status'[q] = status[q]
  BY DEF TypeOK, Stages, Status, Exit

LEMMA TryAgainIs ==
  ASSUME TypeOK, NEW r \in Runs, TryAgain(r)
  PROVE  /\ stage' \in [Runs -> Stages] /\ status' \in [Runs -> Status]
         /\ attempt' \in [Runs -> 0..MaxRetries]
         /\ \/ UNCHANGED <<stage, status>>
            \/ stage'[r] = "close" /\ status'[r] = TRANSPORT_FAILURE
         /\ \A q \in Runs \ {r} : stage'[q] = stage[q] /\ status'[q] = status[q]
  <1>1. CASE attempt[r] < MaxRetries
    BY <1>1 DEF TypeOK, Stages, Status, TryAgain
  <1>2. CASE attempt[r] >= MaxRetries
    <2>1. TRANSPORT_FAILURE \in Status /\ Exit(r, TRANSPORT_FAILURE)
      BY <1>2 DEF TypeOK, TryAgain, Status
    <2> QED BY <2>1, ExitIs
  <1> QED BY <1>1, <1>2 DEF TypeOK

\* Types: a run at work has a capture, which what it publishes names.
LEMMA TypeStep ==
  ASSUME IInv, [Next]_vars
  PROVE  TypeOK'
  <1> USE DEF IInv, TypeOK, Stages, Bookkeeping, Busy
  <1>1. CASE UNCHANGED vars
    BY <1>1
  <1>2. ASSUME NEW c \in Volatile, RegistryChanges(c) PROVE TypeOK'
    BY <1>2 DEF RegistryChanges
  <1>3. ASSUME NEW r \in Runs, RunNext(r) \/ Killed(r) PROVE TypeOK'
    <2>1. CASE ListInbox(r)
      BY <2>1 DEF ListInbox, Inbox
    <2>2. ASSUME NEW c \in Captures, Launch(r, c) PROVE TypeOK'
      <3>1. CASE c \in BadName
        BY <2>2, <3>1, ExitIs DEF Launch, Status
      <3>2. CASE c \notin BadName
        BY <2>2, <3>2, SMTT(30) DEF Launch
      <3> QED BY <3>1, <3>2
    <2>3. CASE Finish(r)
      BY <2>3 DEF Finish
    <2>4. CASE RegistryAnswers(r)
      <3>1. CASE current[r] \in eligible
        BY <2>4, <3>1, SMTT(30) DEF RegistryAnswers
      <3>2. CASE current[r] \notin eligible
        BY <2>4, <3>2, ExitIs DEF RegistryAnswers, Status
      <3> QED BY <3>1, <3>2
    <2>5. CASE RegistryUnreachable(r)
      BY <2>5, TryAgainIs DEF RegistryUnreachable, Status
    <2>6. CASE Analyze(r)
      <3>1. CASE where[current[r]] # "inbox" \/ current[r] \in Unreadable
        BY <2>6, <3>1, ExitIs DEF Analyze, Status
      <3>2. CASE ~(where[current[r]] # "inbox" \/ current[r] \in Unreadable)
        <4>1. CASE opts[r].dry
          BY <2>6, <3>2, <4>1, ExitIs DEF Analyze, Status
        <4>2. CASE ~opts[r].dry
          <5>1. /\ stage' = [stage EXCEPT ![r] = "publish"]
                /\ UNCHANGED <<stores, opts, todo, current, unresolved, allWell, listed,
                               disturbed, status, attempt, blamed>>
            BY <2>6, <3>2, <4>2 DEF Analyze
          <5> HIDE DEF Bookkeeping, Busy
          <5> QED BY <5>1
        <4> QED BY <4>1, <4>2
      <3> QED BY <3>1, <3>2
    <2>7. CASE Publish(r)
      BY <2>7 DEF Publish, Exit, Message
    <2>8. CASE PublishUnconfirmed(r)
      <3>1. stage[r] = "publish" /\ current[r] \in Captures
        BY <2>8 DEF PublishUnconfirmed
      <3>2. Message(r) \in [capture : Captures, run : Runs]
        BY <3>1 DEF Message
      <3> QED BY <2>8, <3>1, <3>2, TryAgainIs DEF PublishUnconfirmed, Status
    <2>9. CASE Fail(r)
      BY <2>9 DEF Fail, Exit
    <2>10. CASE Close(r)
      BY <2>10 DEF Close, Message
    <2>11. CASE Route(r)
      <3>1. stage[r] = "route" /\ current[r] \in Captures
        BY <2>11 DEF Route
      <3>2. where' \in [Captures -> {"inbox", "processed", "failed"}]
        <4>1. CASE UNCHANGED where
          BY <4>1
        <4>2. CASE where' = [where EXCEPT ![current[r]] = Destination(status[r])]
          BY <3>1, <4>2 DEF Destination
        <4> QED BY <2>11, <4>1, <4>2 DEF Route, MoveTo
      <3>3. disturbed' \subseteq Captures \cup {NoCapture}
        BY <2>11, <3>1 DEF Route, MoveTo
      <3> QED BY <2>11, <3>2, <3>3 DEF Route
    <2>12. CASE Killed(r)
      BY <2>12 DEF Killed
    <2> QED BY <1>3, <2>1, <2>2, <2>3, <2>4, <2>5, <2>6, <2>7, <2>8,
                 <2>9, <2>10, <2>11, <2>12 DEF RunNext
  <1> QED BY <1>1, <1>2, <1>3 DEF Next

\* A run lists once, takes captures from its list, and forgets the one it is done with.
LEMMA BookkeepingStep ==
  ASSUME IInv, [Next]_vars
  PROVE  Bookkeeping'
  <1> USE DEF IInv, TypeOK, Stages, Bookkeeping, Busy
  <1>1. CASE UNCHANGED vars
    BY <1>1
  <1>2. ASSUME NEW c \in Volatile, RegistryChanges(c) PROVE Bookkeeping'
    BY <1>2 DEF RegistryChanges
  <1>3. ASSUME NEW r \in Runs, RunNext(r) \/ Killed(r) PROVE Bookkeeping'
    <2>1. CASE ListInbox(r)
      BY <2>1 DEF ListInbox, Inbox
    <2>2. ASSUME NEW c \in Captures, Launch(r, c) PROVE Bookkeeping'
      BY <2>2 DEF Launch, Exit
    <2>3. CASE Finish(r)
      BY <2>3 DEF Finish
    <2>4. CASE RegistryAnswers(r)
      <3>1. CASE current[r] \in eligible
        BY <2>4, <3>1 DEF RegistryAnswers
      <3>2. CASE current[r] \notin eligible
        BY <2>4, <3>2, ExitIs DEF RegistryAnswers, Status
      <3> QED BY <3>1, <3>2
    <2>5. CASE RegistryUnreachable(r)
      BY <2>5 DEF RegistryUnreachable, TryAgain, Exit
    <2>6. CASE Analyze(r)
      BY <2>6, SMTT(30) DEF Analyze, Exit
    <2>7. CASE Publish(r)
      BY <2>7 DEF Publish, Exit, Message
    <2>8. CASE PublishUnconfirmed(r)
      BY <2>8 DEF PublishUnconfirmed, TryAgain, Exit, Message
    <2>9. CASE Fail(r)
      BY <2>9 DEF Fail, Exit
    <2>10. CASE Close(r)
      BY <2>10 DEF Close, Message
    <2>11. CASE Route(r)
      BY <2>11 DEF Route, MoveTo, Destination
    <2>12. CASE Killed(r)
      BY <2>12 DEF Killed
    <2> QED BY <1>3, <2>1, <2>2, <2>3, <2>4, <2>5, <2>6, <2>7, <2>8,
                 <2>9, <2>10, <2>11, <2>12 DEF RunNext
  <1> QED BY <1>1, <1>2, <1>3 DEF Next

\* Only a dry run or a send exits with 0, and other codes blame the capture, unless it
\* is no longer there.  Neither is undone: metrics stay, and so does a moved file.
LEMMA VerdictStep ==
  ASSUME IInv, [Next]_vars
  PROVE  VerdictHolds'
  <1> USE DEF IInv, TypeOK, Stages, Bookkeeping, Busy, VerdictHolds, Judged, Published
  <1>1. CASE UNCHANGED vars
    BY <1>1
  <1>2. ASSUME NEW c \in Volatile, RegistryChanges(c) PROVE VerdictHolds'
    BY <1>2 DEF RegistryChanges
  <1>3. ASSUME NEW r \in Runs, RunNext(r) \/ Killed(r) PROVE VerdictHolds'
    <2>1. CASE ListInbox(r)
      BY <2>1 DEF ListInbox, Inbox
    <2>2. ASSUME NEW c \in Captures, Launch(r, c) PROVE VerdictHolds'
      BY <2>2 DEF Launch, Exit
    <2>3. CASE Finish(r)
      BY <2>3 DEF Finish
    <2>4. CASE RegistryAnswers(r)
      BY <2>4 DEF RegistryAnswers, Exit
    <2>5. CASE RegistryUnreachable(r)
      BY <2>5 DEF RegistryUnreachable, TryAgain, Exit
    <2>6. CASE Analyze(r)
      BY <2>6 DEF Analyze, Exit
    <2>7. CASE Publish(r)
      <3>1. /\ topic' = topic \cup {Message(r)} /\ Message(r).capture = current[r]
            /\ stage'[r] = "close" /\ status'[r] = OK
            /\ \A q \in Runs \ {r} : stage'[q] = stage[q] /\ status'[q] = status[q]
            /\ UNCHANGED <<where, opts, current, blamed>>
        BY <2>7, ExitIs DEF Publish, Status, Message
      <3> QED BY <3>1
    <2>8. CASE PublishUnconfirmed(r)
      BY <2>8 DEF PublishUnconfirmed, TryAgain, Exit, Message
    <2>9. CASE Fail(r)
      BY <2>9 DEF Fail, Exit
    <2>10. CASE Close(r)
      BY <2>10 DEF Close, Message
    <2>11. CASE Route(r)
      BY <2>11 DEF Route, MoveTo, Destination
    <2>12. CASE Killed(r)
      BY <2>12 DEF Killed
    <2> QED BY <1>3, <2>1, <2>2, <2>3, <2>4, <2>5, <2>6, <2>7, <2>8,
                 <2>9, <2>10, <2>11, <2>12 DEF RunNext
  <1> QED BY <1>1, <1>2, <1>3 DEF Next

\* A capture is dealt with when it is routed with exit code 0, which is a published one.
LEMMA DealtStep ==
  ASSUME IInv, [Next]_vars
  PROVE  DealtWith'
  <1> USE DEF IInv, TypeOK, Stages, Bookkeeping, Busy, VerdictHolds, Judged, Published, DealtWith
  <1>1. CASE UNCHANGED vars
    BY <1>1
  <1>2. ASSUME NEW c \in Volatile, RegistryChanges(c) PROVE DealtWith'
    BY <1>2 DEF RegistryChanges
  <1>3. ASSUME NEW r \in Runs, RunNext(r) \/ Killed(r) PROVE DealtWith'
    <2>1. CASE ListInbox(r)
      BY <2>1 DEF ListInbox, Inbox
    <2>2. ASSUME NEW c \in Captures, Launch(r, c) PROVE DealtWith'
      <3>1. /\ c \in todo[r] /\ stage[r] = "list" /\ current[r] = NoCapture
            /\ todo' = [todo EXCEPT ![r] = @ \ {c}]
            /\ current' = [current EXCEPT ![r] = c]
            /\ UNCHANGED <<topic, opts, allWell, listed>>
        BY <2>2 DEF Launch
      <3>2. stage'[r] # "ended"
            /\ \A q \in Runs \ {r} : stage'[q] = stage[q] /\ status'[q] = status[q]
        BY <2>2 DEF Launch, Exit
      <3> QED BY <3>1, <3>2
    <2>3. CASE Finish(r)
      BY <2>3 DEF Finish
    <2>4. CASE RegistryAnswers(r)
      BY <2>4 DEF RegistryAnswers, Exit
    <2>5. CASE RegistryUnreachable(r)
      BY <2>5 DEF RegistryUnreachable, TryAgain, Exit
    <2>6. CASE Analyze(r)
      BY <2>6 DEF Analyze, Exit
    <2>7. CASE Publish(r)
      BY <2>7 DEF Publish, Exit, Message
    <2>8. CASE PublishUnconfirmed(r)
      BY <2>8 DEF PublishUnconfirmed, TryAgain, Exit, Message
    <2>9. CASE Fail(r)
      BY <2>9 DEF Fail, Exit
    <2>10. CASE Close(r)
      BY <2>10 DEF Close, Message
    <2>11. CASE Route(r)
      BY <2>11 DEF Route, MoveTo, Destination
    <2>12. CASE Killed(r)
      BY <2>12 DEF Killed
    <2> QED BY <1>3, <2>1, <2>2, <2>3, <2>4, <2>5, <2>6, <2>7, <2>8,
                 <2>9, <2>10, <2>11, <2>12 DEF RunNext
  <1> QED BY <1>1, <1>2, <1>3 DEF Next

\* A send without an answer disturbs its capture; it is forgotten when the producer closes.
LEMMA UnconfirmedStep ==
  ASSUME IInv, [Next]_vars
  PROVE  Unconfirmed'
  <1> USE DEF IInv, TypeOK, Stages, Bookkeeping, Busy, Unconfirmed
  <1>1. CASE UNCHANGED vars
    BY <1>1
  <1>2. ASSUME NEW c \in Volatile, RegistryChanges(c) PROVE Unconfirmed'
    BY <1>2 DEF RegistryChanges
  <1>3. ASSUME NEW r \in Runs, RunNext(r) \/ Killed(r) PROVE Unconfirmed'
    <2>1. CASE ListInbox(r)
      BY <2>1 DEF ListInbox, Inbox
    <2>2. ASSUME NEW c \in Captures, Launch(r, c) PROVE Unconfirmed'
      BY <2>2 DEF Launch, Exit
    <2>3. CASE Finish(r)
      BY <2>3 DEF Finish
    <2>4. CASE RegistryAnswers(r)
      BY <2>4 DEF RegistryAnswers, Exit
    <2>5. CASE RegistryUnreachable(r)
      BY <2>5 DEF RegistryUnreachable, TryAgain, Exit
    <2>6. CASE Analyze(r)
      BY <2>6 DEF Analyze, Exit
    <2>7. CASE Publish(r)
      BY <2>7 DEF Publish, Exit, Message
    <2>8. CASE PublishUnconfirmed(r)
      BY <2>8 DEF PublishUnconfirmed, TryAgain, Exit, Message
    <2>9. CASE Fail(r)
      BY <2>9 DEF Fail, Exit
    <2>10. CASE Close(r)
      BY <2>10 DEF Close, Message
    <2>11. CASE Route(r)
      BY <2>11 DEF Route, MoveTo, Destination
    <2>12. CASE Killed(r)
      BY <2>12 DEF Killed
    <2> QED BY <1>3, <2>1, <2>2, <2>3, <2>4, <2>5, <2>6, <2>7, <2>8,
                 <2>9, <2>10, <2>11, <2>12 DEF RunNext
  <1> QED BY <1>1, <1>2, <1>3 DEF Next

LEMMA PublishAlone ==
  ASSUME IInv, NEW r \in Runs, Publish(r)
  PROVE  Alone'
  <1>1. TypeOK /\ Alone /\ stage[r] = "publish"
    BY DEF IInv, Publish
  <1>2. /\ stage'[r] = "close"
        /\ \A q \in Runs \ {r} : stage'[q] = stage[q]
        /\ topic' = topic \cup {Message(r)}
        /\ Message(r).capture = current[r] /\ Message(r).run = r
        /\ UNCHANGED <<where, current, unresolved, disturbed>>
    BY <1>1, ExitIs DEF Publish, Status, Message
  <1>3. unresolved[r] => current[r] \in disturbed
    BY <1>1 DEF IInv, Unconfirmed
  <1> SUFFICES ASSUME NEW c \in Captures \ disturbed
               PROVE  /\ \A p, q \in Runs : current[p] = c /\ current[q] = c => p = q
                      /\ \A m \in topic' : m.capture = c =>
                           \/ where[c] # "inbox"
                           \/ current[m.run] = c /\ stage'[m.run] \in Judged
                      /\ \A q \in Runs :
                           /\ current[q] = c /\ stage'[q] = "publish" => ~Published(c)'
                           /\ current[q] = c /\ stage'[q] = "close" /\ unresolved[q]
                                => ~Published(c)'
                      /\ \A m, n \in topic' : m.capture = c /\ n.capture = c => m = n
    BY <1>2 DEF Alone
  <1>4. \A p, q \in Runs : current[p] = c /\ current[q] = c => p = q
    BY <1>1 DEF Alone
  <1>5. CASE current[r] = c
    <2>1. \A m \in topic : m.capture # c
      BY <1>1, <1>5 DEF Alone, Published
    <2>2. \A q \in Runs : current[q] = c => q = r /\ ~unresolved[q]
      BY <1>3, <1>4, <1>5
    <2> QED BY <1>2, <1>4, <1>5, <2>1, <2>2 DEF Judged
  <1>6. CASE current[r] # c
    <2>1. Published(c)' <=> Published(c)
      BY <1>2, <1>6 DEF Published
    <2>2. \A q \in Runs : current[q] = c => stage'[q] = stage[q]
      BY <1>2, <1>6
    <2>3. \A m \in topic : m.run \in Runs /\ (m.capture = c => m \in topic')
      BY <1>1, <1>2 DEF TypeOK
    <2>4. \A m \in topic' : m.capture = c => m \in topic
      BY <1>2, <1>6
    <2> QED BY <1>1, <2>1, <2>2, <2>3, <2>4 DEF Alone
  <1> QED BY <1>5, <1>6

LEMMA FailAlone ==
  ASSUME IInv, NEW r \in Runs, Fail(r)
  PROVE  Alone'
  <1>1. TypeOK /\ Alone /\ stage[r] \in {"check", "analyze", "publish"}
    BY DEF IInv, Fail
  <1>2. /\ stage'[r] = "close"
        /\ \A q \in Runs \ {r} : stage'[q] = stage[q] /\ unresolved'[q] = unresolved[q]
        /\ unresolved'[r] => stage[r] = "publish"
        /\ UNCHANGED <<where, topic, current, disturbed>>
    BY <1>1, ExitIs DEF Fail, Status, TypeOK
  <1> SUFFICES ASSUME NEW c \in Captures \ disturbed
               PROVE  /\ \A m \in topic : m.capture = c =>
                           \/ where[c] # "inbox"
                           \/ current[m.run] = c /\ stage'[m.run] \in Judged
                      /\ \A q \in Runs :
                           /\ current[q] = c /\ stage'[q] = "publish" => ~Published(c)
                           /\ current[q] = c /\ stage'[q] = "close" /\ unresolved'[q]
                                => ~Published(c)
    BY <1>1, <1>2 DEF Alone, Published
  <1>3. \A m \in topic : m.capture = c =>
          where[c] # "inbox" \/ (current[m.run] = c /\ stage'[m.run] \in Judged)
    BY <1>1, <1>2, SMTT(30) DEF Alone, TypeOK, Judged
  <1>4. ASSUME NEW q \in Runs, current[q] = c, stage'[q] = "publish"
        PROVE  ~Published(c)
    BY <1>1, <1>2, <1>4 DEF Alone
  <1>5. ASSUME NEW q \in Runs, current[q] = c, stage'[q] = "close", unresolved'[q]
        PROVE  ~Published(c)
    <2>1. CASE q = r
      BY <1>1, <1>2, <1>5, <2>1 DEF Alone
    <2>2. CASE q # r
      BY <1>1, <1>2, <1>5, <2>2 DEF Alone
    <2> QED BY <2>1, <2>2
  <1> QED BY <1>3, <1>4, <1>5

\* A run that takes an undisturbed capture is the only one that has it; it sends at most
\* once before it files the capture, after which none can read it.
LEMMA AloneStep ==
  ASSUME IInv, [Next]_vars
  PROVE  Alone'
  <1> USE DEF IInv, TypeOK, Stages, Bookkeeping, Busy, Judged, Unconfirmed, Alone, Published
  <1>1. CASE UNCHANGED vars
    BY <1>1
  <1>2. ASSUME NEW c \in Volatile, RegistryChanges(c) PROVE Alone'
    BY <1>2 DEF RegistryChanges
  <1>3. ASSUME NEW r \in Runs, RunNext(r) \/ Killed(r) PROVE Alone'
    <2>1. CASE ListInbox(r)
      BY <2>1 DEF ListInbox, Inbox
    <2>2. ASSUME NEW c \in Captures, Launch(r, c) PROVE Alone'
      BY <2>2, SMTT(30) DEF Launch, Exit
    <2>3. CASE Finish(r)
      BY <2>3 DEF Finish
    <2>4. CASE RegistryAnswers(r)
      <3>1. /\ stage[r] = "check" /\ stage'[r] \in {"analyze", "close"} /\ ~unresolved[r]
            /\ \A q \in Runs \ {r} : stage'[q] = stage[q]
            /\ UNCHANGED <<where, topic, current, unresolved, disturbed>>
        BY <2>4 DEF RegistryAnswers, Exit
      <3> QED BY <3>1
    <2>5. CASE RegistryUnreachable(r)
      <3>1. stage[r] = "check" /\ ~unresolved[r]
            /\ UNCHANGED <<where, topic, current, unresolved, disturbed>>
        BY <2>5 DEF RegistryUnreachable
      <3> QED BY <2>5, <3>1, TryAgainIs, SMTT(30) DEF RegistryUnreachable
    <2>6. CASE Analyze(r)
      <3>1. /\ stage[r] = "analyze" /\ stage'[r] \in {"publish", "close"} /\ ~unresolved[r]
            /\ stage'[r] = "publish" => where[current[r]] = "inbox"
            /\ \A q \in Runs \ {r} : stage'[q] = stage[q]
            /\ UNCHANGED <<where, topic, current, unresolved, disturbed>>
        BY <2>6 DEF Analyze, Exit
      <3> QED BY <3>1, SMTT(30)
    <2>7. CASE Publish(r)
      BY <2>7, PublishAlone
    <2>8. CASE PublishUnconfirmed(r)
      BY <2>8 DEF PublishUnconfirmed, TryAgain, Exit, Message
    <2>9. CASE Fail(r)
      BY <2>9, FailAlone
    <2>10. CASE Close(r)
      BY <2>10 DEF Close, Message
    <2>11. CASE Route(r)
      BY <2>11 DEF Route, MoveTo, Destination
    <2>12. CASE Killed(r)
      BY <2>12 DEF Killed
    <2> QED BY <1>3, <2>1, <2>2, <2>3, <2>4, <2>5, <2>6, <2>7, <2>8,
                 <2>9, <2>10, <2>11, <2>12 DEF RunNext
  <1> QED BY <1>1, <1>2, <1>3 DEF Next

\* The inductive invariant: where each capture is, what was said of it, and which run has
\* dealt with it, for any number of captures and of runs at once.
THEOREM Invariance == Spec => []IInv
  <1>1. IInv /\ [Next]_vars => IInv'
    BY TypeStep, BookkeepingStep, VerdictStep, DealtStep, UnconfirmedStep, AloneStep DEF IInv
  <1> QED BY InitIInv, <1>1, PTL DEF Spec

\* The state is of the declared types, for any captures and runs.
THEOREM TypeCorrect == Spec => []TypeOK
  BY Invariance, PTL DEF IInv

\* Only Route files a capture, and what the runs listed, published and blamed stays so.
LEMMA RecordsStay ==
  ASSUME IInv, [Next]_vars
  PROVE  /\ topic \subseteq topic' /\ blamed \subseteq blamed' /\ UNCHANGED opts
         /\ \A r \in Runs : listed'[r] = listed[r] \/ listed[r] = {}
         /\ UNCHANGED where \/ \E r \in Runs : Route(r)
  <1> USE DEF IInv, TypeOK, Bookkeeping
  <1>1. CASE UNCHANGED vars
    BY <1>1
  <1>2. ASSUME NEW c \in Volatile, RegistryChanges(c)
        PROVE  UNCHANGED <<topic, blamed, opts, listed, where>>
    BY <1>2 DEF RegistryChanges
  <1>3. ASSUME NEW r \in Runs, ListInbox(r)
        PROVE  /\ UNCHANGED <<topic, blamed, opts, where>>
               /\ \A q \in Runs : listed'[q] = listed[q] \/ listed[q] = {}
    BY <1>3 DEF ListInbox
  <1>4. ASSUME NEW r \in Runs, NEW c \in Captures, Launch(r, c)
        PROVE  blamed \subseteq blamed' /\ UNCHANGED <<topic, opts, listed, where>>
    BY <1>4 DEF Launch
  <1>5. ASSUME NEW r \in Runs, RunNext(r) \/ Killed(r), ~ListInbox(r), ~Route(r),
               ~ \E c \in Captures : Launch(r, c)
        PROVE  topic \subseteq topic' /\ blamed \subseteq blamed' /\ UNCHANGED <<opts, listed, where>>
    <2>1. CASE Finish(r) \/ Killed(r) \/ RegistryUnreachable(r) \/ RegistryAnswers(r)
      BY <2>1 DEF Finish, Killed, RegistryUnreachable, RegistryAnswers
    <2>2. CASE Analyze(r) \/ Publish(r) \/ PublishUnconfirmed(r)
      BY <2>2 DEF Analyze, Publish, PublishUnconfirmed
    <2>3. CASE Fail(r) \/ Close(r)
      BY <2>3 DEF Fail, Close
    <2> QED BY <1>5, <2>1, <2>2, <2>3 DEF RunNext
  <1>6. ASSUME NEW r \in Runs, Route(r)
        PROVE  UNCHANGED <<topic, blamed, opts, listed>>
    BY <1>6 DEF Route
  <1> QED BY <1>1, <1>2, <1>3, <1>4, <1>5, <1>6 DEF Next, RunNext

\* Where Route puts a capture, if anywhere.
LEMMA RouteFiles ==
  ASSUME IInv, NEW r \in Runs, Route(r), NEW c \in Captures, where'[c] # where[c]
  PROVE  /\ c = current[r] /\ where[c] = "inbox" /\ c \in listed[r] /\ stage[r] \in Judged
         /\ where'[c] = "processed" => status[r] = OK
         /\ where'[c] = "failed" => status[r] \notin {OK, TRANSPORT_FAILURE}
  <1>1. /\ stage[r] = "route" /\ status[r] # TRANSPORT_FAILURE
        /\ where[current[r]] = "inbox"
        /\ where' = [where EXCEPT ![current[r]] = Destination(status[r])]
    BY DEF Route, MoveTo
  <1>2. current[r] \in listed[r] /\ where \in [Captures -> {"inbox", "processed", "failed"}]
    BY <1>1 DEF IInv, TypeOK, Bookkeeping, Busy
  <1>3. c = current[r] /\ where'[c] = Destination(status[r])
    BY <1>1, <1>2
  <1> QED BY <1>1, <1>2, <1>3 DEF Judged, Destination

\* For any runs at work at once: a capture in processed/ has been published, or a dry
\* run filed it there (analyze_pcaps.sh:286).
THEOREM FiledOnlyIfPublished == Spec => []ProcessedIsPublished
  <1>1. Init => ProcessedIsPublished
    BY DEF Init, ProcessedIsPublished
  <1>2. IInv /\ ProcessedIsPublished /\ [Next]_vars => ProcessedIsPublished'
    <2> SUFFICES ASSUME IInv, ProcessedIsPublished, [Next]_vars,
                        NEW c \in Captures, where'[c] = "processed"
                 PROVE  Published(c)' \/ \E r \in DryRuns' : c \in listed'[r]
      BY DEF ProcessedIsPublished
    <2>1. DryRuns' = DryRuns /\ (Published(c) => Published(c)')
      BY RecordsStay DEF DryRuns, Published
    <2>2. \A r \in Runs : c \in listed[r] => c \in listed'[r]
      BY RecordsStay
    <2>3. Published(c) \/ \E r \in DryRuns : c \in listed[r]
      <3>1. CASE where[c] = "processed"
        BY <3>1 DEF ProcessedIsPublished
      <3>2. CASE where[c] # "processed"
        <4>1. PICK r \in Runs : Route(r)
          BY <3>2, RecordsStay
        <4>2. /\ c = current[r] /\ c \in listed[r]
              /\ stage[r] \in Judged /\ status[r] = OK
          BY <3>2, <4>1, RouteFiles
        <4>3. opts[r].dry \/ Published(current[r])
          BY <4>2 DEF IInv, VerdictHolds
        <4> QED BY <4>2, <4>3 DEF DryRuns
      <3> QED BY <3>1, <3>2
    <2> QED BY <2>1, <2>2, <2>3 DEF DryRuns
  <1> QED BY <1>1, <1>2, Invariance, PTL DEF Spec

\* For any outage and any runs at work at once: what is in failed/ was rejected for a
\* reason of its own (analyze_pcaps.sh:266-270).
THEOREM OnlyBlamedQuarantined == Spec => []GoodNotQuarantined
  <1>1. Init => GoodNotQuarantined
    BY DEF Init, GoodNotQuarantined
  <1>2. IInv /\ GoodNotQuarantined /\ [Next]_vars => GoodNotQuarantined'
    <2> SUFFICES ASSUME IInv, GoodNotQuarantined, [Next]_vars,
                        NEW c \in Captures, where'[c] = "failed"
                 PROVE  c \in blamed
      BY RecordsStay DEF GoodNotQuarantined
    <2>1. CASE where[c] = "failed"
      BY <2>1 DEF GoodNotQuarantined
    <2>2. CASE where[c] # "failed"
      <3>1. PICK r \in Runs : Route(r)
        BY <2>2, RecordsStay
      <3> QED BY <2>2, <3>1, RouteFiles DEF IInv, VerdictHolds
    <2> QED BY <2>1, <2>2
  <1> QED BY <1>1, <1>2, Invariance, PTL DEF Spec

\* A run of any number of captures that ends with 0 has left a metric for each it listed.
THEOREM ZeroMeansPublished == Spec => []CleanExit
  <1>1. IInv => CleanExit
    <2> SUFFICES ASSUME IInv, NEW r \in Runs, stage[r] = "ended", status[r] = OK, ~opts[r].dry,
                        NEW c \in listed[r]
                 PROVE  Published(c)
      BY DEF CleanExit
    <2>1. allWell[r] /\ todo[r] = {} /\ current[r] = NoCapture /\ c # NoCapture
      BY DEF IInv, TypeOK, DealtWith, Bookkeeping, Busy
    <2> QED BY <2>1 DEF IInv, DealtWith
  <1> QED BY <1>1, Invariance, PTL

\* For any runs, at once or after another: a capture that nothing disturbed has at most
\* one metric.
THEOREM UndisturbedOnce == Spec => []AnalyzedOnceIfUndisturbed
  <1>1. IInv => AnalyzedOnceIfUndisturbed
    <2> SUFFICES ASSUME IInv, NEW c \in Captures \ disturbed
                 PROVE  Cardinality({m \in topic : m.capture = c}) <= 1
      BY DEF AnalyzedOnceIfUndisturbed
    <2> DEFINE Metrics == {m \in topic : m.capture = c}
    <2>1. \A m, n \in Metrics : m = n
      BY DEF IInv, Alone
    <2>2. Metrics = {} \/ \E m : Metrics = {m}
      BY <2>1
    <2> HIDE DEF Metrics
    <2>3. Cardinality(Metrics) \in {0, 1}
      BY <2>2, FS_EmptySet, FS_Singleton
    <2> QED BY <2>3 DEF Metrics
  <1> QED BY <1>1, Invariance, PTL
=============================================================================
