--------------------------- MODULE NagPlanProofs ---------------------------
(***************************************************************************)
(* Facts about the operators of NagPlan for every task, cap, budget and    *)
(* time: what a walk fires and when, what a task wishes for, and what of   *)
(* it the plan holds.  The fires of a walk and the concatenation of all    *)
(* wishes are recursive, so the module begins with induction.              *)
(***************************************************************************)
EXTENDS NagPlan, FiniteSetTheorems, WellFoundedInduction, TLAPS

-----------------------------------------------------------------------------
(* Induction, as facts about sets of numbers.                              *)

LEMMA LeastNatural ==
  ASSUME NEW S, S \subseteq Nat, S # {}
  PROVE  \E n \in S : \A m \in S : n <= m
<1>1. IsWellFoundedOn(OpToRel(<, Nat), Nat)
  BY NatLessThanWellFounded
<1>2. OpToRel(<, Nat) = {ss \in Nat \X Nat : ss[1] < ss[2]}
  BY DEF OpToRel
<1> DEFINE R == {ss \in Nat \X Nat : ss[1] < ss[2]}
<1>3. IsWellFoundedOn(R, Nat)
  BY <1>1, <1>2
<1> HIDE DEF R
<1>4. PICK x \in S : \A y \in S : ~ (<<y, x>> \in R)
  BY <1>3, WFMin
<1>5. \A y \in S : ~ (y < x)
  <2> SUFFICES ASSUME NEW y \in S, y < x PROVE <<y, x>> \in R
    BY <1>4
  <2>1. <<y, x>>[1] = y /\ <<y, x>>[2] = x /\ <<y, x>> \in Nat \X Nat
    OBVIOUS
  <2>2. QED
    BY <2>1 DEF R
<1>6. QED
  BY <1>5

\* A set that holds 0 and with each number the next one holds them all.
LEMMA InductionOnNat ==
  ASSUME NEW S, 0 \in S, \A n \in Nat : n \in S => n + 1 \in S
  PROVE  Nat \subseteq S
<1> SUFFICES ASSUME Nat \ S # {} PROVE FALSE
  OBVIOUS
<1>1. PICK n \in Nat \ S : \A m \in Nat \ S : n <= m
  BY LeastNatural
<1>2. n - 1 \in Nat /\ ~ (n <= n - 1)
  BY <1>1
<1>3. QED
  BY <1>1, <1>2

\* g begins with c, and each value comes by G from the one before.
Iterates(g, c, G) == g[0] = c /\ \A n \in Nat : g[n + 1] = G[<<g[n], n + 1>>]

\* A function may be defined from its value before.
LEMMA Recursion ==
  ASSUME NEW S, NEW c \in S, NEW G \in [S \X Nat -> S]
  PROVE  \E g \in [Nat -> S] : Iterates(g, c, G)
<1> DEFINE Starts(h, n) == /\ h \in [0 .. n -> S] /\ h[0] = c
                           /\ \A i \in 1 .. n : h[i] = G[<<h[i - 1], i>>]
           T == {n \in Nat : \E h : Starts(h, n)}
           U == {i \in Nat : \A n, m \in Nat : \A h, k :
                   Starts(h, n) /\ Starts(k, m) /\ i <= n /\ i <= m => h[i] = k[i]}
<1>1. Nat \subseteq T
  <2>1. 0 \in T
    <3>1. Starts([i \in 0 .. 0 |-> c], 0)
      OBVIOUS
    <3>2. QED
      BY <3>1
  <2>2. ASSUME NEW n \in Nat, n \in T PROVE n + 1 \in T
    <3>1. PICK h : Starts(h, n)
      BY <2>2
    <3> DEFINE k == [i \in 0 .. n + 1 |-> IF i = n + 1 THEN G[<<h[n], n + 1>>]
                                                       ELSE h[i]]
    <3>2. k \in [0 .. n + 1 -> S] /\ k[0] = c
      <4>1. G[<<h[n], n + 1>>] \in S
        BY <3>1
      <4>2. QED
        BY <3>1, <4>1
    <3>3. ASSUME NEW i \in 1 .. n + 1 PROVE k[i] = G[<<k[i - 1], i>>]
      <4>1. k[i - 1] = h[i - 1]
        OBVIOUS
      <4>2. CASE i = n + 1
        BY <4>1, <4>2
      <4>3. CASE i # n + 1
        BY <3>1, <4>1, <4>3
      <4>4. QED
        BY <4>2, <4>3
    <3>4. Starts(k, n + 1)
      BY <3>2, <3>3
    <3> HIDE DEF k
    <3>5. QED
      BY <3>4
  <2> HIDE DEF T
  <2>3. QED
    BY <2>1, <2>2, InductionOnNat
<1>2. Nat \subseteq U
  <2>1. 0 \in U
    OBVIOUS
  <2>2. ASSUME NEW i \in Nat, i \in U PROVE i + 1 \in U
    <3> SUFFICES ASSUME NEW n \in Nat, NEW m \in Nat, NEW h, NEW k,
                        Starts(h, n), Starts(k, m), i + 1 <= n, i + 1 <= m
                 PROVE  h[i + 1] = k[i + 1]
      OBVIOUS
    <3>1. h[i] = k[i]
      <4> HIDE DEF Starts
      <4>1. i <= n /\ i <= m
        OBVIOUS
      <4>2. QED
        BY <2>2, <4>1
    <3>2. h[i + 1] = G[<<h[i], i + 1>>] /\ k[i + 1] = G[<<k[i], i + 1>>]
      <4>1. i + 1 \in 1 .. n /\ i + 1 \in 1 .. m /\ (i + 1) - 1 = i
        OBVIOUS
      <4>2. QED
        BY <4>1, Zenon
    <3>3. QED
      BY <3>1, <3>2
  <2> HIDE DEF U
  <2>3. QED
    BY <2>1, <2>2, InductionOnNat
<1> DEFINE H(n) == CHOOSE h : Starts(h, n)
           g == [n \in Nat |-> H(n)[n]]
<1>3. \A n \in Nat : Starts(H(n), n)
  BY <1>1
<1> HIDE DEF H
<1>4. g \in [Nat -> S] /\ g[0] = c
  BY <1>3
<1>5. ASSUME NEW n \in Nat PROVE g[n + 1] = G[<<g[n], n + 1>>]
  <2>1. H(n + 1)[n + 1] = G[<<H(n + 1)[n], n + 1>>]
    BY <1>3
  <2>2. H(n + 1)[n] = H(n)[n]
    <3> HIDE DEF Starts
    <3>1. Starts(H(n + 1), n + 1) /\ Starts(H(n), n)
      BY <1>3
    <3>2. QED
      BY <1>2, <3>1
  <2>3. QED
    BY <2>1, <2>2
<1>6. Iterates(g, c, G)
  BY <1>4, <1>5 DEF Iterates
<1> HIDE DEF g
<1>7. QED
  BY <1>4, <1>6

-----------------------------------------------------------------------------
(* The fires of a walk.                                                    *)

LEMMA ShrunkType ==
  ASSUME NEW i \in Nat \ {0}
  PROVE  Shrunk(i) \in Nat \ {0}
BY FloorAssumption DEF Shrunk, Larger

LEMMA IntervalDef ==
  ASSUME NEW w \in Walk
  PROVE  /\ IntervalOf(w) \in [Nat -> Nat \ {0}]
         /\ IntervalOf(w)[0] = w.interval
         /\ \A n \in Nat : IntervalOf(w)[n + 1] =
              IF w.shrink THEN Shrunk(IntervalOf(w)[n]) ELSE IntervalOf(w)[n]
<1> DEFINE S == Nat \ {0}
           Nxt(i) == IF w.shrink THEN Shrunk(i) ELSE i
           G == [x \in S \X Nat |-> Nxt(x[1])]
           Eq(f) == f = [n \in Nat |-> IF n = 0 THEN w.interval
                          ELSE IF w.shrink THEN Shrunk(f[n - 1]) ELSE f[n - 1]]
<1>1. w.interval \in S
  BY DEF Walk
<1>2. G \in [S \X Nat -> S]
  BY ShrunkType
<1>3. PICK g \in [Nat -> S] : Iterates(g, w.interval, G)
  <2> HIDE DEF G, S
  <2>1. QED
    BY <1>1, <1>2, Recursion
<1>4. ASSUME NEW n \in Nat PROVE g[n + 1] = Nxt(g[n])
  <2>1. <<g[n], n + 1>> \in S \X Nat /\ <<g[n], n + 1>>[1] = g[n]
    OBVIOUS
  <2>2. g[n + 1] = G[<<g[n], n + 1>>]
    BY <1>3 DEF Iterates
  <2>3. QED
    BY <2>1, <2>2
<1>5. Eq(g)
  <2>1. ASSUME NEW n \in Nat, n # 0 PROVE g[n] = Nxt(g[n - 1])
    <3>1. n - 1 \in Nat /\ (n - 1) + 1 = n
      BY <2>1
    <3> HIDE DEF Nxt
    <3>2. g[(n - 1) + 1] = Nxt(g[n - 1])
      BY <1>4, <3>1
    <3>3. QED
      BY <3>1, <3>2
  <2>2. g = [n \in Nat |-> g[n]]
    OBVIOUS
  <2>3. g[0] = w.interval
    BY <1>3 DEF Iterates
  <2>4. QED
    BY <2>1, <2>2, <2>3
<1>6. IntervalOf(w) = CHOOSE f : Eq(f)
  BY DEF IntervalOf
<1> DEFINE f == IntervalOf(w)
<1>7. Eq(f)
  <2> HIDE DEF Eq
  <2>1. QED
    BY <1>5, <1>6
<1> HIDE DEF f
<1>8. f[0] = w.interval
  BY <1>7
<1>9. ASSUME NEW n \in Nat PROVE f[n + 1] = Nxt(f[n])
  <2>1. n + 1 \in Nat /\ n + 1 # 0 /\ (n + 1) - 1 = n
    OBVIOUS
  <2>2. QED
    BY <1>7, <2>1, Zenon
<1>10. f \in [Nat -> S]
  <2> DEFINE T == {n \in Nat : f[n] \in S}
  <2>1. 0 \in T
    BY <1>1, <1>8
  <2>2. \A n \in Nat : n \in T => n + 1 \in T
    BY <1>9, ShrunkType
  <2>3. Nat \subseteq T
    <3> HIDE DEF T
    <3>1. QED
      BY <2>1, <2>2, InductionOnNat
  <2>4. f = [n \in Nat |-> f[n]]
    BY <1>7
  <2>5. QED
    BY <2>3, <2>4
<1>11. QED
  BY <1>8, <1>9, <1>10 DEF f

LEMMA FireTimesDef ==
  ASSUME NEW w \in Walk
  PROVE  /\ FireTimes(w) \in [Nat -> Nat]
         /\ FireTimes(w)[0] = w.start
         /\ \A n \in Nat : FireTimes(w)[n + 1] = FireTimes(w)[n] + IntervalOf(w)[n + 1]
<1> DEFINE gap == IntervalOf(w)
           G == [x \in Nat \X Nat |-> x[1] + gap[x[2]]]
           Eq(f) == f = [n \in Nat |-> IF n = 0 THEN w.start ELSE f[n - 1] + gap[n]]
<1>1. w.start \in Nat
  BY DEF Walk
<1>2. gap \in [Nat -> Nat \ {0}]
  BY IntervalDef
<1>3. FireTimes(w) = CHOOSE f : Eq(f)
  BY DEF FireTimes
<1> HIDE DEF gap
<1>4. G \in [Nat \X Nat -> Nat]
  BY <1>2
<1>5. PICK g \in [Nat -> Nat] : Iterates(g, w.start, G)
  <2> HIDE DEF G
  <2>1. QED
    BY <1>1, <1>4, Recursion
<1>6. ASSUME NEW n \in Nat PROVE g[n + 1] = g[n] + gap[n + 1]
  <2>1. /\ <<g[n], n + 1>> \in Nat \X Nat
        /\ <<g[n], n + 1>>[1] = g[n] /\ <<g[n], n + 1>>[2] = n + 1
    OBVIOUS
  <2>2. g[n + 1] = G[<<g[n], n + 1>>]
    BY <1>5 DEF Iterates
  <2>3. QED
    BY <2>1, <2>2
<1>7. Eq(g)
  <2>1. ASSUME NEW n \in Nat, n # 0 PROVE g[n] = g[n - 1] + gap[n]
    <3>1. n - 1 \in Nat /\ (n - 1) + 1 = n
      BY <2>1
    <3>2. g[(n - 1) + 1] = g[n - 1] + gap[(n - 1) + 1]
      BY <1>6, <3>1
    <3>3. QED
      BY <3>1, <3>2
  <2>2. g = [n \in Nat |-> g[n]]
    OBVIOUS
  <2>3. g[0] = w.start
    BY <1>5 DEF Iterates
  <2>4. QED
    BY <2>1, <2>2, <2>3
<1> DEFINE f == FireTimes(w)
<1>8. Eq(f)
  <2> HIDE DEF Eq
  <2>1. QED
    BY <1>3, <1>7
<1> HIDE DEF f
<1>9. f[0] = w.start
  BY <1>8
<1>10. ASSUME NEW n \in Nat PROVE f[n + 1] = f[n] + gap[n + 1]
  <2>1. n + 1 \in Nat /\ n + 1 # 0 /\ (n + 1) - 1 = n
    OBVIOUS
  <2>2. f[n + 1] = f[(n + 1) - 1] + gap[n + 1]
    BY <1>8, <2>1, Zenon
  <2>3. QED
    BY <2>1, <2>2
<1>11. f \in [Nat -> Nat]
  <2> DEFINE T == {n \in Nat : f[n] \in Nat}
  <2>1. 0 \in T
    BY <1>1, <1>9
  <2>2. \A n \in Nat : n \in T => n + 1 \in T
    BY <1>2, <1>10
  <2>3. Nat \subseteq T
    <3> HIDE DEF T
    <3>1. QED
      BY <2>1, <2>2, InductionOnNat
  <2>4. f = [n \in Nat |-> f[n]]
    BY <1>8
  <2>5. QED
    BY <2>3, <2>4
<1>12. QED
  BY <1>9, <1>10, <1>11 DEF f, gap

\* The fires of a walk come one after another, at least a tick apart.
LEMMA FireTimesIncrease ==
  ASSUME NEW w \in Walk
  PROVE  /\ \A n \in Nat : FireTimes(w)[n] >= w.start + n
         /\ \A m, n \in Nat : m < n => FireTimes(w)[m] < FireTimes(w)[n]
<1> DEFINE f == FireTimes(w)
<1>1. /\ f \in [Nat -> Nat] /\ f[0] = w.start /\ w.start \in Nat
      /\ \A n \in Nat : f[n + 1] > f[n]
  <2>1. \A n \in Nat : IntervalOf(w)[n + 1] \in Nat \ {0}
    BY IntervalDef
  <2>2. w.start \in Nat
    BY DEF Walk
  <2>3. ASSUME NEW n \in Nat PROVE f[n + 1] > f[n]
    <3>1. f[n + 1] = f[n] + IntervalOf(w)[n + 1] /\ f[n] \in Nat
      BY FireTimesDef
    <3>2. IntervalOf(w)[n + 1] \in Nat \ {0}
      BY <2>1
    <3>3. QED
      BY <3>1, <3>2
  <2>4. QED
    BY <2>2, <2>3, FireTimesDef
<1> HIDE DEF f
<1>2. \A n \in Nat : f[n] >= w.start + n
  <2> DEFINE T == {n \in Nat : f[n] >= w.start + n}
  <2>1. 0 \in T
    BY <1>1
  <2>2. \A n \in Nat : n \in T => n + 1 \in T
    BY <1>1
  <2>3. Nat \subseteq T
    <3> HIDE DEF T
    <3>1. QED
      BY <2>1, <2>2, InductionOnNat
  <2>4. QED
    BY <2>3
<1>3. ASSUME NEW m \in Nat PROVE \A n \in Nat : m < n => f[m] < f[n]
  <2> DEFINE T == {n \in Nat : m < n => f[m] < f[n]}
  <2>1. 0 \in T
    OBVIOUS
  <2>2. ASSUME NEW n \in Nat, n \in T PROVE n + 1 \in T
    <3>1. f[n] \in Nat /\ f[n + 1] \in Nat /\ f[n + 1] > f[n] /\ f[m] \in Nat
      BY <1>1
    <3>2. QED
      BY <2>2, <3>1
  <2>3. Nat \subseteq T
    <3> HIDE DEF T
    <3>1. QED
      BY <2>1, <2>2, InductionOnNat
  <2>4. QED
    BY <2>3
<1>4. QED
  BY <1>2, <1>3 DEF f

LEMMA FirstDueDef ==
  ASSUME NEW w \in Walk, NEW now \in Nat
  PROVE  /\ FirstDue(w, now) \in Nat
         /\ \A m \in Nat : FireTimes(w)[m] >= now <=> m >= FirstDue(w, now)
<1> DEFINE at == FireTimes(w)
           far == Larger(0, now - w.start)
           First(m) == at[m] >= now /\ (m > 0 => at[m - 1] < now)
<1>1. /\ at \in [Nat -> Nat] /\ w.start \in Nat /\ far \in Nat
      /\ \A m, n \in Nat : m < n => at[m] < at[n]
  <2>1. w.start \in Nat
    BY DEF Walk
  <2>2. far \in Nat
    BY <2>1 DEF Larger
  <2>3. QED
    BY <2>1, <2>2, FireTimesDef, FireTimesIncrease
<1>2. at[far] >= now
  <2>1. at[far] >= w.start + far
    BY <1>1, FireTimesIncrease
  <2>2. w.start + far >= now
    BY <1>1 DEF Larger
  <2>3. at[far] \in Nat
    BY <1>1
  <2> HIDE DEF far, at
  <2>4. QED
    BY <1>1, <2>1, <2>2, <2>3
<1>3. FirstDue(w, now) = CHOOSE m \in 0 .. far : First(m)
  BY DEF FirstDue
<1> HIDE DEF at, far
<1>4. \E m \in 0 .. far : First(m)
  <2> DEFINE S == {m \in Nat : at[m] >= now}
  <2>1. PICK m \in S : \A n \in S : m <= n
    <3>1. S # {} /\ S \subseteq Nat
      BY <1>1, <1>2
    <3> HIDE DEF S
    <3>2. QED
      BY <3>1, LeastNatural
  <2>2. m \in 0 .. far
    BY <1>1, <1>2, <2>1
  <2>3. ASSUME m > 0 PROVE at[m - 1] < now
    <3>1. m - 1 \in Nat /\ ~ (m <= m - 1)
      BY <2>1, <2>3
    <3>2. ~ (at[m - 1] >= now) /\ at[m - 1] \in Nat
      BY <1>1, <2>1, <3>1
    <3>3. QED
      BY <3>2
  <2>4. QED
    BY <2>1, <2>2, <2>3
<1> DEFINE first == FirstDue(w, now)
<1>5. first \in 0 .. far /\ First(first)
  <2> HIDE DEF First
  <2>1. QED
    BY <1>3, <1>4
<1> HIDE DEF first
<1>6. first \in Nat
  BY <1>1, <1>5
<1>7. ASSUME NEW m \in Nat PROVE at[m] >= now <=> m >= first
  <2>1. CASE m >= first
    <3>1. at[m] >= at[first] /\ at[m] \in Nat /\ at[first] \in Nat
      BY <1>1, <1>6, <2>1
    <3>2. QED
      BY <1>5, <2>1, <3>1
  <2>2. CASE m < first
    <3>1. first - 1 \in Nat /\ m <= first - 1 /\ first > 0
      BY <1>6, <2>2
    <3>2. at[m] <= at[first - 1] /\ at[m] \in Nat /\ at[first - 1] \in Nat
      BY <1>1, <3>1
    <3>3. QED
      BY <1>5, <1>6, <2>2, <3>1, <3>2
  <2>3. QED
    BY <1>6, <2>1, <2>2
<1>8. QED
  BY <1>6, <1>7 DEF at, first

\* A burst begins with the first fire that is due; its fires follow each other
\* on the walk, are allowed, and stop at the cap or before one that is not.
LEMMA BurstDef ==
  ASSUME NEW w \in Walk, NEW cap \in Nat, NEW now \in Nat
  PROVE  LET first == FirstDue(w, now)
             at == FireTimes(w)
             burst == Burst(w, cap, now)
         IN /\ burst \in Seq(Nat) /\ Len(burst) \in Nat /\ Len(burst) <= cap
            /\ \A i \in 1 .. Len(burst) :
                 /\ burst[i] = at[first + i - 1]
                 /\ Allowed(w, w.prior + first + i - 1, at[first + i - 1])
            /\ Len(burst) < cap =>
                 ~Allowed(w, w.prior + first + Len(burst), at[first + Len(burst)])
<1> DEFINE first == FirstDue(w, now)
           at == FireTimes(w)
           burst == Burst(w, cap, now)
           MayFire(n) == Allowed(w, w.prior + first + n, at[first + n])
           Stops(n) == /\ \A i \in 0 .. n - 1 : MayFire(i)
                       /\ n < cap => ~MayFire(n)
           count == CHOOSE n \in 0 .. cap : Stops(n)
<1>1. first \in Nat /\ at \in [Nat -> Nat] /\ w.prior \in Nat
  BY FirstDueDef, FireTimesDef DEF Walk
<1>2. burst = [i \in 1 .. count |-> at[first + i - 1]]
  BY DEF Burst
<1> HIDE DEF first, at, burst
<1>3. \E n \in 0 .. cap : Stops(n)
  <2> DEFINE S == {n \in Nat : n >= cap \/ ~MayFire(n)}
  <2>1. PICK n \in S : \A m \in S : n <= m
    <3>1. cap \in S /\ S \subseteq Nat
      OBVIOUS
    <3> HIDE DEF S
    <3>2. QED
      BY <3>1, LeastNatural
  <2> HIDE DEF MayFire
  <2>2. n \in 0 .. cap
    <3>1. cap \in S
      OBVIOUS
    <3>2. QED
      BY <2>1, <3>1
  <2>3. ASSUME NEW i \in 0 .. n - 1 PROVE MayFire(i)
    <3>1. i \in Nat /\ ~ (n <= i)
      BY <2>2
    <3>2. i \notin S
      BY <2>1, <3>1
    <3>3. QED
      BY <3>1, <3>2
  <2>4. QED
    BY <2>1, <2>2, <2>3
<1>4. count \in 0 .. cap /\ Stops(count)
  <2> HIDE DEF Stops
  <2>1. QED
    BY <1>3
<1> HIDE DEF count
<1>5. /\ burst \in Seq(Nat) /\ Len(burst) = count
      /\ \A i \in 1 .. count : burst[i] = at[first + i - 1]
  <2>1. \A i \in 1 .. count : at[first + i - 1] \in Nat
    BY <1>1
  <2>2. count \in Nat
    BY <1>4
  <2>3. QED
    BY <1>2, <2>1, <2>2
<1>6. ASSUME NEW i \in 1 .. count
      PROVE  Allowed(w, w.prior + first + i - 1, at[first + i - 1])
  <2>1. /\ i - 1 \in 0 .. count - 1 /\ first + (i - 1) = first + i - 1
        /\ w.prior + first + (i - 1) = w.prior + first + i - 1
    BY <1>1, <1>4
  <2>2. MayFire(i - 1)
    <3> HIDE DEF MayFire
    <3>1. QED
      BY <1>4, <2>1
  <2>3. QED
    BY <2>1, <2>2
<1>7. QED
  BY <1>4, <1>5, <1>6 DEF first, at, burst

-----------------------------------------------------------------------------
(* Sequences put one after the other.                                      *)

\* f[i] is what the first i sequences of ss make, and FlattenSeq all of them.
Gathers(f, ss) ==
  /\ f[0] = <<>>
  /\ \A i \in 1 .. Len(ss) : f[i] = f[i - 1] \o ss[i]
  /\ FlattenSeq(ss) = f[Len(ss)]

LEMMA EmptyBefore ==
  ASSUME NEW E, NEW s \in Seq(E)
  PROVE  <<>> \o s = s
OBVIOUS

LEMMA FlattenDef ==
  ASSUME NEW E, NEW ss \in Seq(Seq(E))
  PROVE  \E f \in [0 .. Len(ss) -> Seq(E)] : Gathers(f, ss)
<1> DEFINE n == Len(ss)
           G == [x \in Seq(E) \X Nat |-> IF x[2] \in 1 .. n THEN x[1] \o ss[x[2]]
                                                           ELSE x[1]]
           Eq(h) == h = [i \in 1 .. n |-> IF i = 1 THEN ss[i] ELSE h[i - 1] \o ss[i]]
<1>1. n \in Nat /\ \A i \in 1 .. n : ss[i] \in Seq(E)
  OBVIOUS
<1>2. CASE n = 0
  <2>1. ss = <<>> /\ FlattenSeq(ss) = <<>>
    BY <1>2 DEF FlattenSeq
  <2>2. Gathers([i \in 0 .. 0 |-> <<>>], ss)
    BY <1>2, <2>1 DEF Gathers
  <2>3. [i \in 0 .. 0 |-> <<>>] \in [0 .. Len(ss) -> Seq(E)]
    BY <1>2
  <2>4. QED
    BY <2>2, <2>3
<1>3. CASE n > 0
  <2>1. G \in [Seq(E) \X Nat -> Seq(E)]
    BY <1>1
  <2>2. PICK g \in [Nat -> Seq(E)] : Iterates(g, <<>>, G)
    <3>1. <<>> \in Seq(E)
      OBVIOUS
    <3> HIDE DEF G
    <3>2. QED
      BY <2>1, <3>1, Recursion
  <2>3. ASSUME NEW i \in 1 .. n PROVE g[i] = g[i - 1] \o ss[i]
    <3>1. i - 1 \in Nat /\ (i - 1) + 1 = i /\ i \in Nat
      OBVIOUS
    <3>2. g[i] = G[<<g[i - 1], i>>]
      BY <2>2, <3>1 DEF Iterates
    <3>3. /\ <<g[i - 1], i>> \in Seq(E) \X Nat
          /\ <<g[i - 1], i>>[1] = g[i - 1] /\ <<g[i - 1], i>>[2] = i
      BY <3>1
    <3>4. QED
      BY <3>2, <3>3
  <2>4. g[0] = <<>>
    BY <2>2 DEF Iterates
  <2> DEFINE h == [i \in 1 .. n |-> g[i]]
  <2>5. Eq(h)
    <3>1. ASSUME NEW i \in 1 .. n
          PROVE  h[i] = IF i = 1 THEN ss[i] ELSE h[i - 1] \o ss[i]
      <4>1. CASE i = 1
        <5>1. g[1] = ss[1]
          <6>1. g[1] = g[0] \o ss[1]
            <7>1. 1 - 1 = 0 /\ 1 \in 1 .. n
              BY <4>1
            <7>2. g[1] = g[1 - 1] \o ss[1]
              BY <2>3, <7>1
            <7>3. QED
              BY <7>1, <7>2
          <6>2. <<>> \o ss[1] = ss[1]
            BY <1>1, <4>1, EmptyBefore
          <6>3. QED
            BY <2>4, <6>1, <6>2
        <5>2. QED
          BY <4>1, <5>1
      <4>2. CASE i # 1
        <5>1. i - 1 \in 1 .. n
          BY <4>2
        <5>2. QED
          BY <2>3, <4>2, <5>1
      <4>3. QED
        BY <4>1, <4>2
    <3>2. h = [i \in 1 .. n |-> h[i]]
      OBVIOUS
    <3> HIDE DEF h
    <3>3. QED
      BY <3>1, <3>2
  <2> DEFINE flat == CHOOSE k : Eq(k)
  <2>6. Eq(flat)
    <3> HIDE DEF Eq
    <3>1. QED
      BY <2>5
  <2>7. FlattenSeq(ss) = flat[n]
    BY <1>3 DEF FlattenSeq
  <2> HIDE DEF flat, h
  <2>8. \A i \in 1 .. n : flat[i] = g[i]
    <3> DEFINE T == {i \in Nat : i + 1 \in 1 .. n => flat[i + 1] = g[i + 1]}
    <3>1. \A i \in 1 .. n : flat[i] = IF i = 1 THEN ss[i] ELSE flat[i - 1] \o ss[i]
      BY <2>6, Zenon
    <3>2. 0 \in T
      <4>1. 1 \in 1 .. n
        BY <1>1, <1>3
      <4>2. flat[1] = ss[1]
        BY <3>1, <4>1
      <4>3. g[1] = g[0] \o ss[1]
        <5>1. 1 - 1 = 0
          OBVIOUS
        <5>2. g[1] = g[1 - 1] \o ss[1]
          BY <2>3, <4>1
        <5>3. QED
          BY <5>1, <5>2
      <4>4. g[1] = ss[1]
        BY <1>1, <2>4, <4>1, <4>3, EmptyBefore
      <4>5. QED
        BY <4>2, <4>4
    <3>3. ASSUME NEW i \in Nat, i \in T PROVE i + 1 \in T
      <4> SUFFICES ASSUME (i + 1) + 1 \in 1 .. n
                   PROVE  flat[(i + 1) + 1] = g[(i + 1) + 1]
        OBVIOUS
      <4>1. i + 1 \in 1 .. n /\ ((i + 1) + 1) - 1 = i + 1 /\ (i + 1) + 1 # 1
        BY <1>1
      <4>2. flat[i + 1] = g[i + 1]
        BY <3>3, <4>1
      <4>3. flat[(i + 1) + 1] = flat[i + 1] \o ss[(i + 1) + 1]
        BY <3>1, <4>1
      <4>4. g[(i + 1) + 1] = g[i + 1] \o ss[(i + 1) + 1]
        BY <2>3, <4>1
      <4>5. QED
        BY <4>2, <4>3, <4>4
    <3>4. Nat \subseteq T
      <4> HIDE DEF T
      <4>1. QED
        BY <3>2, <3>3, InductionOnNat
    <3>5. QED
      <4> SUFFICES ASSUME NEW i \in 1 .. n PROVE flat[i] = g[i]
        OBVIOUS
      <4>1. i - 1 \in Nat /\ (i - 1) + 1 = i
        OBVIOUS
      <4>2. i - 1 \in T
        BY <3>4, <4>1
      <4>3. QED
        BY <4>1, <4>2
  <2> DEFINE f == [i \in 0 .. n |-> g[i]]
  <2>9. Gathers(f, ss)
    <3>1. f[0] = <<>>
      BY <1>1, <2>4
    <3>2. ASSUME NEW i \in 1 .. n PROVE f[i] = f[i - 1] \o ss[i]
      <4>1. i \in 0 .. n /\ i - 1 \in 0 .. n
        BY <1>1
      <4>2. f[i] = g[i] /\ f[i - 1] = g[i - 1]
        BY <4>1
      <4>3. QED
        BY <2>3, <4>2
    <3>3. f[n] = flat[n]
      <4>1. n \in 1 .. n /\ n \in 0 .. n
        BY <1>1, <1>3
      <4>2. f[n] = g[n]
        BY <4>1
      <4>3. QED
        BY <2>8, <4>1, <4>2
    <3>4. QED
      BY <2>7, <3>1, <3>2, <3>3 DEF Gathers
  <2>10. f \in [0 .. n -> Seq(E)]
    OBVIOUS
  <2> HIDE DEF f
  <2>11. QED
    BY <2>9, <2>10
<1>4. QED
  BY <1>1, <1>2, <1>3


-----------------------------------------------------------------------------
(* What a plan holds.                                                      *)

\* The entry is a fire of the walk, numbered from the first that is due.
IsFire(w, now, e) ==
  LET n == FirstDue(w, now) + e.index
  IN e.at = FireTimes(w)[n] /\ Allowed(w, w.prior + n, e.at)

\* All a plan of these tasks may hold at this time: its identifier says which
\* notification of its task an entry is, and for when.
Possible(tasks, now) ==
  {e \in [job : DOMAIN tasks, kind : {"nag", "round", "prealarm"},
          index : Nat, at : Nat] :
     LET t == tasks[e.job]
     IN /\ e.at >= now
        /\ e.kind = "nag" => IsFire(NagWalk(t), now, e)
        /\ e.kind = "round" => t.rounds # Null /\ IsFire(RoundsWalk(t), now, e)
        /\ e.kind = "prealarm" => e.index = 0 /\ e.at = t.fireAt - t.lead}

LEMMA WalkTypes ==
  ASSUME NEW t \in Task
  PROVE  /\ NagWalk(t) \in Walk
         /\ t.rounds # Null => RoundsWalk(t) \in Walk
<1>1. /\ t.fireAt \in Nat /\ t.interval \in Nat \ {0} /\ t.maxCount \in Opt(Nat)
      /\ t.until \in Opt(Int) /\ t.shrink \in BOOLEAN /\ t.snoozed \in Nat
      /\ t.rounds \in Opt(Nat \ {0}) /\ t.roundsMax \in Opt(Nat)
      /\ t.roundsFor \in Opt(Nat)
  BY DEF Task
<1>2. NagWalk(t) \in Walk
  BY <1>1 DEF NagWalk, Walk
<1>3. t.rounds # Null => RoundsWalk(t) \in Walk
  <2>1. (IF t.roundsFor = Null THEN Null ELSE t.fireAt + t.roundsFor) \in Opt(Int)
    BY <1>1 DEF Opt
  <2>2. t.rounds # Null => t.rounds \in Nat \ {0}
    BY <1>1 DEF Opt
  <2>3. QED
    BY <1>1, <2>1, <2>2 DEF RoundsWalk, Walk
<1>4. QED
  BY <1>2, <1>3

LEMMA WishesPossible ==
  ASSUME NEW tasks, NEW job \in DOMAIN tasks, tasks[job] \in Task,
         NEW cap \in Nat, NEW now \in Nat
  PROVE  Wishes(job, tasks[job], cap, now) \in Seq(Possible(tasks, now))
<1> DEFINE t == tasks[job]
           P == Possible(tasks, now)
<1>1. ASSUME NEW w \in Walk, NEW kind \in {"nag", "round"},
             kind = "nag" => w = NagWalk(t),
             kind = "round" => t.rounds # Null /\ w = RoundsWalk(t)
      PROVE  Entries(job, kind, Burst(w, cap, now)) \in Seq(P)
  <2> DEFINE burst == Burst(w, cap, now)
             first == FirstDue(w, now)
             at == FireTimes(w)
  <2>1. /\ burst \in Seq(Nat)
        /\ \A i \in 1 .. Len(burst) :
             /\ burst[i] = at[first + i - 1]
             /\ Allowed(w, w.prior + first + i - 1, at[first + i - 1])
    BY BurstDef
  <2>2. first \in Nat /\ w.prior \in Nat /\ \A m \in Nat : at[m] >= now <=> m >= first
    BY FirstDueDef DEF Walk
  <2>3. ASSUME NEW i \in 1 .. Len(burst)
        PROVE  Entry(job, kind, i - 1, burst[i]) \in P
    <3> DEFINE e == Entry(job, kind, i - 1, burst[i])
    <3>1. /\ e.job = job /\ e.kind = kind /\ e.index = i - 1 /\ e.at = burst[i]
          /\ e \in [job : DOMAIN tasks, kind : {"nag", "round", "prealarm"},
                    index : Nat, at : Nat]
      <4>1. i - 1 \in Nat /\ burst[i] \in Nat
        BY <2>1
      <4>2. QED
        BY <4>1 DEF Entry
    <3>2. first + i - 1 \in Nat /\ first + i - 1 >= first
      BY <2>2
    <3>3. e.at >= now
      BY <2>1, <2>2, <3>1, <3>2
    <3>4. IsFire(w, now, e)
      <4>1. first + e.index = first + i - 1
        BY <2>2, <3>1
      <4>2. w.prior + (first + i - 1) = w.prior + first + i - 1
        BY <2>2
      <4>3. QED
        BY <2>1, <3>1, <4>1, <4>2 DEF IsFire
    <3> HIDE DEF e
    <3>5. QED
      BY <1>1, <3>1, <3>3, <3>4 DEF Possible, e
  <2> HIDE DEF burst, P
  <2>4. Len(burst) \in Nat
    BY <2>1
  <2>5. [i \in 1 .. Len(burst) |-> Entry(job, kind, i - 1, burst[i])] \in Seq(P)
    BY <2>3, <2>4
  <2>6. QED
    BY <2>5 DEF Entries, burst
<1>2. Entries(job, "nag", Burst(NagWalk(t), cap, now)) \in Seq(P)
  BY <1>1, WalkTypes
<1>3. t.rounds # Null => Entries(job, "round", Burst(RoundsWalk(t), cap, now)) \in Seq(P)
  BY <1>1, WalkTypes
<1>4. PreAlarm(job, t, now) \in Seq(P)
  <2>1. CASE t.lead > 0 /\ t.fireAt - t.lead >= now
    <3> DEFINE e == Entry(job, "prealarm", 0, t.fireAt - t.lead)
    <3>1. t.fireAt \in Nat /\ t.lead \in Nat
      BY DEF Task
    <3>2. e \in P
      BY <2>1, <3>1 DEF Possible, Entry
    <3>3. QED
      BY <2>1, <3>2 DEF PreAlarm
  <2>2. CASE ~ (t.lead > 0 /\ t.fireAt - t.lead >= now)
    BY <2>2 DEF PreAlarm
  <2>3. QED
    BY <2>1, <2>2
<1> DEFINE rounds == IF t.rounds = Null THEN <<>>
                     ELSE Entries(job, "round", Burst(RoundsWalk(t), cap, now))
           nags == Entries(job, "nag", Burst(NagWalk(t), cap, now))
<1>5. rounds \in Seq(P)
  BY <1>3
<1>6. Wishes(job, t, cap, now) = nags \o rounds \o PreAlarm(job, t, now)
  BY DEF Wishes
<1> HIDE DEF P, rounds, nags
<1>7. QED
  BY <1>2, <1>4, <1>5, <1>6 DEF nags, P

LEMMA AllWishesPossible ==
  ASSUME NEW J, NEW tasks \in [J -> Task], NEW order \in Seq(J),
         NEW cap \in Nat, NEW now \in Nat
  PROVE  AllWishes(tasks, order, cap, now) \in Seq(Possible(tasks, now))
<1> DEFINE P == Possible(tasks, now)
           ss == [i \in DOMAIN order |-> Wishes(order[i], tasks[order[i]], cap, now)]
<1>1. \A i \in DOMAIN order : Wishes(order[i], tasks[order[i]], cap, now) \in Seq(P)
  BY WishesPossible
<1>2. ss \in Seq(Seq(P)) /\ Len(ss) \in Nat
  BY <1>1
<1> HIDE DEF P, ss
<1>3. PICK f \in [0 .. Len(ss) -> Seq(P)] : Gathers(f, ss)
  BY <1>2, FlattenDef
<1>4. FlattenSeq(ss) \in Seq(P)
  <2>1. FlattenSeq(ss) = f[Len(ss)]
    BY <1>3 DEF Gathers
  <2>2. Len(ss) \in 0 .. Len(ss)
    BY <1>2
  <2>3. QED
    BY <1>3, <2>1, <2>2
<1>5. QED
  BY <1>4 DEF AllWishes, ss, P

\* Only what may be planned at this time is planned.
LEMMA BestPlanPossible ==
  ASSUME NEW J, NEW tasks \in [J -> Task], NEW order \in Seq(J),
         NEW cap \in Nat, NEW budget \in Nat, NEW now \in Nat
  PROVE  BestPlan(tasks, order, cap, budget, now) \in Seq(Possible(tasks, now))
<1> DEFINE P == Possible(tasks, now)
           wishes == AllWishes(tasks, order, cap, now)
<1>1. wishes \in Seq(P)
  BY AllWishesPossible
<1> HIDE DEF P, wishes
<1>2. Smaller(budget, Len(wishes)) \in Nat /\ Smaller(budget, Len(wishes)) <= Len(wishes)
  BY <1>1 DEF Smaller
<1>3. SubSeq(wishes, 1, Smaller(budget, Len(wishes))) \in Seq(P)
  BY <1>1, <1>2
<1>4. QED
  BY <1>3 DEF BestPlan, wishes, P


-----------------------------------------------------------------------------
(* How a plan changes as time passes and nothing else happens.             *)

\* The same notification, whatever its number has become.
SameFire(a, b) == a.job = b.job /\ a.kind = b.kind /\ a.at = b.at

\* From s to t nothing that is for `from` or later is lost or moves back.
KeepsLater(s, t, from) ==
  /\ Len(t) <= Len(s)
  /\ \A q \in 1 .. Len(s) : s[q].at >= from =>
       \E p \in 1 .. q : p <= Len(t) /\ SameFire(t[p], s[q])

LEMMA KeepsLaterConcat ==
  ASSUME NEW E, NEW from,
         NEW s1 \in Seq(E), NEW s2 \in Seq(E), NEW t1 \in Seq(E), NEW t2 \in Seq(E),
         KeepsLater(s1, t1, from), KeepsLater(s2, t2, from)
  PROVE  KeepsLater(s1 \o s2, t1 \o t2, from)
<1> DEFINE s == s1 \o s2
           t == t1 \o t2
<1>1. /\ Len(s1) \in Nat /\ Len(s2) \in Nat /\ Len(t1) \in Nat /\ Len(t2) \in Nat
      /\ Len(s) = Len(s1) + Len(s2) /\ Len(t) = Len(t1) + Len(t2)
  OBVIOUS
<1>2. Len(t1) <= Len(s1) /\ Len(t2) <= Len(s2)
  BY DEF KeepsLater
<1>3. ASSUME NEW q \in 1 .. Len(s), s[q].at >= from
      PROVE  \E p \in 1 .. q : p <= Len(t) /\ SameFire(t[p], s[q])
  <2>1. CASE q <= Len(s1)
    <3>1. q \in 1 .. Len(s1) /\ s[q] = s1[q]
      BY <1>1, <2>1
    <3>2. s1[q].at >= from
      BY <1>3, <3>1
    <3>3. PICK p \in 1 .. q : p <= Len(t1) /\ SameFire(t1[p], s1[q])
      BY <3>1, <3>2 DEF KeepsLater
    <3>4. t[p] = t1[p] /\ p <= Len(t)
      BY <1>1, <3>3
    <3>5. QED
      BY <3>1, <3>3, <3>4
  <2>2. CASE q > Len(s1)
    <3> DEFINE r == q - Len(s1)
    <3>1. r \in 1 .. Len(s2) /\ s[q] = s2[r]
      BY <1>1, <2>2
    <3>2. s2[r].at >= from
      BY <1>3, <3>1
    <3> HIDE DEF r
    <3>3. PICK p \in 1 .. r : p <= Len(t2) /\ SameFire(t2[p], s2[r])
      BY <3>1, <3>2 DEF KeepsLater
    <3> DEFINE k == p + Len(t1)
    <3>4. k \in 1 .. q /\ k <= Len(t)
      BY <1>1, <1>2, <3>1, <3>3 DEF r
    <3>5. t[k] = t2[p]
      BY <1>1, <3>1, <3>3
    <3> HIDE DEF k
    <3>6. QED
      BY <3>1, <3>3, <3>4, <3>5
  <2>3. QED
    BY <1>1, <2>1, <2>2
<1>4. Len(t) <= Len(s)
  BY <1>1, <1>2
<1> HIDE DEF s, t
<1>5. KeepsLater(s, t, from)
  BY <1>3, <1>4 DEF KeepsLater
<1>6. QED
  BY <1>5 DEF s, t

LEMMA KeepsLaterFlatten ==
  ASSUME NEW E, NEW from, NEW ss \in Seq(Seq(E)), NEW tt \in Seq(Seq(E)),
         Len(ss) = Len(tt),
         \A i \in 1 .. Len(ss) : KeepsLater(ss[i], tt[i], from)
  PROVE  KeepsLater(FlattenSeq(ss), FlattenSeq(tt), from)
<1> DEFINE n == Len(ss)
<1>1. /\ n \in Nat /\ n = Len(tt)
      /\ \A i \in 1 .. n : ss[i] \in Seq(E) /\ tt[i] \in Seq(E)
  OBVIOUS
<1>2. PICK f \in [0 .. n -> Seq(E)] : Gathers(f, ss)
  BY FlattenDef
<1>3. PICK g \in [0 .. n -> Seq(E)] : Gathers(g, tt)
  BY <1>1, FlattenDef
<1> HIDE DEF n
<1> DEFINE T == {i \in Nat : i <= n => KeepsLater(f[i], g[i], from)}
<1>4. 0 \in T
  <2>1. f[0] = <<>> /\ g[0] = <<>>
    BY <1>2, <1>3 DEF Gathers
  <2>2. KeepsLater(<<>>, <<>>, from)
    BY DEF KeepsLater
  <2>3. QED
    BY <2>1, <2>2
<1>5. ASSUME NEW i \in Nat, i \in T PROVE i + 1 \in T
  <2> SUFFICES ASSUME i + 1 <= n PROVE KeepsLater(f[i + 1], g[i + 1], from)
    OBVIOUS
  <2>1. i + 1 \in 1 .. n /\ i \in 0 .. n /\ (i + 1) - 1 = i
    BY <1>1
  <2>2. f[i + 1] = f[i] \o ss[i + 1] /\ g[i + 1] = g[i] \o tt[i + 1]
    BY <1>1, <1>2, <1>3, <2>1 DEF Gathers, n
  <2>3. KeepsLater(f[i], g[i], from)
    BY <1>5, <2>1
  <2>4. KeepsLater(ss[i + 1], tt[i + 1], from)
    BY <2>1 DEF n
  <2>5. f[i] \in Seq(E) /\ g[i] \in Seq(E) /\ ss[i + 1] \in Seq(E) /\ tt[i + 1] \in Seq(E)
    BY <1>1, <1>2, <1>3, <2>1
  <2>6. QED
    BY <2>2, <2>3, <2>4, <2>5, KeepsLaterConcat
<1>6. Nat \subseteq T
  <2> HIDE DEF T
  <2>1. QED
    BY <1>4, <1>5, InductionOnNat
<1>7. KeepsLater(f[n], g[n], from)
  BY <1>1, <1>6
<1>8. FlattenSeq(ss) = f[n] /\ FlattenSeq(tt) = g[n]
  BY <1>1, <1>2, <1>3 DEF Gathers, n
<1>9. QED
  BY <1>7, <1>8

\* What is left of an allowance that runs out does not come back.
LEMMA AllowedOnce ==
  ASSUME NEW w \in Walk, NEW k \in Nat, NEW m \in Nat, k <= m,
         Allowed(w, w.prior + m, FireTimes(w)[m])
  PROVE  Allowed(w, w.prior + k, FireTimes(w)[k])
<1>1. w.prior \in Nat /\ w.maxCount \in Opt(Nat) /\ w.until \in Opt(Int)
  BY DEF Walk
<1>2. FireTimes(w)[k] \in Nat /\ FireTimes(w)[m] \in Nat
  BY FireTimesDef
<1>3. FireTimes(w)[k] <= FireTimes(w)[m]
  BY <1>2, FireTimesIncrease
<1>4. QED
  BY <1>1, <1>2, <1>3 DEF Allowed, Opt

\* A tick later the first due fire is the same or the next.
LEMMA FirstDueMoves ==
  ASSUME NEW w \in Walk, NEW now \in Nat
  PROVE  LET first == FirstDue(w, now)
             later == FirstDue(w, now + 1)
         IN /\ later \in {first, first + 1}
            /\ later = first + 1 => FireTimes(w)[first] < now + 1
<1> DEFINE first == FirstDue(w, now)
           later == FirstDue(w, now + 1)
           at == FireTimes(w)
<1>1. /\ first \in Nat /\ \A m \in Nat : at[m] >= now <=> m >= first
      /\ later \in Nat /\ \A m \in Nat : at[m] >= now + 1 <=> m >= later
  BY FirstDueDef
<1>2. at \in [Nat -> Nat] /\ \A m, n \in Nat : m < n => at[m] < at[n]
  BY FireTimesDef, FireTimesIncrease
<1> HIDE DEF first, later, at
<1>3. later <= first + 1
  <2>1. at[first] < at[first + 1] /\ at[first] >= now
    BY <1>1, <1>2
  <2>2. at[first + 1] >= now + 1
    BY <1>1, <1>2, <2>1
  <2>3. QED
    BY <1>1, <2>2
<1>4. later >= first
  <2>1. at[later] >= now + 1 /\ at[later] \in Nat
    BY <1>1, <1>2
  <2>2. QED
    BY <1>1, <2>1
<1>5. later = first + 1 => at[first] < now + 1
  <2>1. at[first] \in Nat
    BY <1>1, <1>2
  <2>2. QED
    BY <1>1, <2>1
<1>6. QED
  BY <1>1, <1>3, <1>4, <1>5 DEF first, later, at

\* The burst a tick later has the fires that are still to come, none further
\* back in it, and is no longer than before.
LEMMA BurstKeeps ==
  ASSUME NEW w \in Walk, NEW cap \in Nat, NEW now \in Nat, NEW job, NEW kind
  PROVE  KeepsLater(Entries(job, kind, Burst(w, cap, now)),
                    Entries(job, kind, Burst(w, cap, now + 1)), now + 1)
<1> DEFINE first == FirstDue(w, now)
           later == FirstDue(w, now + 1)
           at == FireTimes(w)
           b == Burst(w, cap, now)
           c == Burst(w, cap, now + 1)
           MayFire(n) == Allowed(w, w.prior + n, at[n])
<1>1. /\ first \in Nat /\ later \in Nat /\ at \in [Nat -> Nat]
      /\ w.prior \in Nat
      /\ later \in {first, first + 1}
      /\ later = first + 1 => at[first] < now + 1
  <2>1. first \in Nat /\ later \in Nat
    BY FirstDueDef
  <2>2. w.prior \in Nat
    BY DEF Walk
  <2>3. later \in {first, first + 1} /\ (later = first + 1 => at[first] < now + 1)
    BY FirstDueMoves
  <2>4. QED
    BY <2>1, <2>2, <2>3, FireTimesDef
<1>2. /\ Len(b) \in Nat /\ Len(b) <= cap /\ b \in Seq(Nat)
      /\ \A i \in 1 .. Len(b) :
           /\ b[i] = at[first + i - 1]
           /\ Allowed(w, w.prior + first + i - 1, at[first + i - 1])
      /\ Len(b) < cap => ~Allowed(w, w.prior + first + Len(b), at[first + Len(b)])
  BY BurstDef
<1>3. /\ Len(c) \in Nat /\ Len(c) <= cap /\ c \in Seq(Nat)
      /\ \A i \in 1 .. Len(c) :
           /\ c[i] = at[later + i - 1]
           /\ Allowed(w, w.prior + later + i - 1, at[later + i - 1])
      /\ Len(c) < cap => ~Allowed(w, w.prior + later + Len(c), at[later + Len(c)])
  BY BurstDef
<1>4. \A k, m \in Nat : k <= m /\ MayFire(m) => MayFire(k)
  BY AllowedOnce
<1> HIDE DEF first, later, at, b, c
<1>5. /\ \A i \in 1 .. Len(b) : first + i - 1 \in Nat /\ MayFire(first + i - 1)
      /\ Len(b) < cap => ~MayFire(first + Len(b))
  <2> DEFINE prior == w.prior
             n == Len(b)
  <2>1. prior \in Nat /\ first \in Nat /\ n \in Nat
    BY <1>1, <1>2
  <2> HIDE DEF prior, n
  <2>2. \A i \in 1 .. n : first + i - 1 \in Nat /\ prior + first + i - 1 = prior + (first + i - 1)
    BY <2>1
  <2>3. prior + first + n = prior + (first + n)
    BY <2>1
  <2>4. QED
    BY <1>2, <2>2, <2>3 DEF prior, n
<1>6. /\ \A i \in 1 .. Len(c) : later + i - 1 \in Nat /\ MayFire(later + i - 1)
      /\ Len(c) < cap => ~MayFire(later + Len(c))
  <2> DEFINE prior == w.prior
             n == Len(c)
  <2>1. prior \in Nat /\ later \in Nat /\ n \in Nat
    BY <1>1, <1>3
  <2> HIDE DEF prior, n
  <2>2. \A i \in 1 .. n : later + i - 1 \in Nat /\ prior + later + i - 1 = prior + (later + i - 1)
    BY <2>1
  <2>3. prior + later + n = prior + (later + n)
    BY <2>1
  <2>4. QED
    BY <1>3, <2>2, <2>3 DEF prior, n
<1> HIDE DEF MayFire
<1>7. Len(c) <= Len(b)
  <2> SUFFICES ASSUME Len(b) < Len(c) PROVE FALSE
    BY <1>2, <1>3
  <2>1. Len(c) \in 1 .. Len(c) /\ Len(b) < cap
    BY <1>2, <1>3
  <2>2. MayFire(later + Len(c) - 1) /\ ~MayFire(first + Len(b))
    BY <1>5, <1>6, <2>1
  <2>3. /\ first + Len(b) \in Nat /\ later + Len(c) - 1 \in Nat
        /\ first + Len(b) <= later + Len(c) - 1
    <3> DEFINE x == Len(b)
               y == Len(c)
    <3>1. x \in Nat /\ y \in Nat /\ x < y
      BY <1>2, <1>3
    <3> HIDE DEF x, y
    <3>2. first + x \in Nat /\ later + y - 1 \in Nat /\ first + x <= later + y - 1
      BY <1>1, <3>1
    <3>3. QED
      BY <3>2 DEF x, y
  <2>4. QED
    BY <1>4, <2>2, <2>3
<1>8. Len(b) <= Len(c) + 1 /\ (later = first => Len(b) = Len(c))
  <2>1. CASE Len(c) = cap
    BY <1>2, <1>7, <2>1
  <2>2. CASE Len(c) < cap
    <3> DEFINE x == Len(b)
               y == Len(c)
               i == y + (later - first) + 1
    <3>1. x \in Nat /\ y \in Nat /\ y <= x
      BY <1>2, <1>3, <1>7
    <3>2. ~ (x > y + (later - first))
      <4> SUFFICES ASSUME x > y + (later - first) PROVE FALSE
        OBVIOUS
      <4>1. i \in 1 .. x /\ first + i - 1 = later + y
        <5> HIDE DEF x, y
        <5>1. QED
          BY <1>1, <3>1
      <4>2. MayFire(later + y)
        BY <1>5, <4>1
      <4>3. QED
        BY <1>6, <2>2, <4>2
    <3> HIDE DEF x, y
    <3>3. x <= y + 1 /\ (later = first => x = y)
      BY <1>1, <3>1, <3>2
    <3>4. QED
      BY <3>3 DEF x, y
  <2>3. QED
    BY <1>3, <2>1, <2>2
<1> DEFINE s == Entries(job, kind, b)
           t == Entries(job, kind, c)
<1>9. /\ Len(s) = Len(b) /\ Len(t) = Len(c)
      /\ \A q \in 1 .. Len(b) : s[q] = Entry(job, kind, q - 1, b[q])
      /\ \A p \in 1 .. Len(c) : t[p] = Entry(job, kind, p - 1, c[p])
  BY <1>2, <1>3 DEF Entries
<1> HIDE DEF s, t
<1>10. ASSUME NEW q \in 1 .. Len(b), b[q] >= now + 1
       PROVE  \E p \in 1 .. q : p <= Len(c) /\ c[p] = b[q]
  <2>1. b[q] = at[first + q - 1]
    BY <1>2
  <2>2. CASE later = first
    <3>1. q <= Len(c) /\ q \in 1 .. Len(c)
      BY <1>2, <1>3, <1>8, <2>2
    <3>2. c[q] = at[first + q - 1]
      BY <1>3, <2>2, <3>1
    <3>3. QED
      BY <2>1, <3>1, <3>2
  <2>3. CASE later = first + 1
    <3>1. q # 1
      <4>1. SUFFICES ASSUME q = 1 PROVE FALSE
        OBVIOUS
      <4>2. first + q - 1 = first
        BY <1>1, <4>1
      <4>3. b[q] = at[first]
        BY <2>1, <4>2
      <4>4. at[first] \in Nat
        BY <1>1
      <4>5. QED
        BY <1>1, <1>10, <2>3, <4>3, <4>4
    <3>2. q - 1 \in 1 .. q /\ q - 1 <= Len(c) /\ q - 1 \in 1 .. Len(c)
      BY <1>2, <1>3, <1>8, <3>1
    <3>3. c[q - 1] = at[later + (q - 1) - 1]
      BY <1>3, <3>2
    <3>4. later + (q - 1) - 1 = first + q - 1
      BY <1>1, <2>3
    <3>5. QED
      BY <2>1, <3>2, <3>3, <3>4
  <2>4. QED
    BY <1>1, <2>2, <2>3
<1>11. ASSUME NEW q \in 1 .. Len(s), s[q].at >= now + 1
       PROVE  \E p \in 1 .. q : p <= Len(t) /\ SameFire(t[p], s[q])
  <2>1. q \in 1 .. Len(b) /\ s[q] = Entry(job, kind, q - 1, b[q])
    BY <1>9
  <2>2. s[q].at = b[q] /\ s[q].job = job /\ s[q].kind = kind
    BY <2>1 DEF Entry
  <2>3. PICK p \in 1 .. q : p <= Len(c) /\ c[p] = b[q]
    BY <1>10, <1>11, <2>1, <2>2
  <2>4. p \in 1 .. Len(c)
    BY <1>3, <2>3
  <2>5. t[p].at = c[p] /\ t[p].job = job /\ t[p].kind = kind
    <3>1. t[p] = Entry(job, kind, p - 1, c[p])
      BY <1>9, <2>4
    <3>2. QED
      BY <3>1 DEF Entry
  <2>6. QED
    BY <1>9, <2>2, <2>3, <2>5 DEF SameFire
<1>12. QED
  BY <1>7, <1>9, <1>11 DEF KeepsLater, s, t, b, c


LEMMA WishesKeep ==
  ASSUME NEW t \in Task, NEW job, NEW cap \in Nat, NEW now \in Nat
  PROVE  KeepsLater(Wishes(job, t, cap, now), Wishes(job, t, cap, now + 1), now + 1)
<1> DEFINE Nags(n) == Entries(job, "nag", Burst(NagWalk(t), cap, n))
           Rounds(n) == IF t.rounds = Null THEN <<>>
                        ELSE Entries(job, "round", Burst(RoundsWalk(t), cap, n))
           Early(n) == PreAlarm(job, t, n)
           E == [job : {job}, kind : {"nag", "round", "prealarm"}, index : Nat, at : Nat]
<1>1. ASSUME NEW n \in Nat
      PROVE  /\ Nags(n) \in Seq(E) /\ Rounds(n) \in Seq(E) /\ Early(n) \in Seq(E)
             /\ Wishes(job, t, cap, n) = (Nags(n) \o Rounds(n)) \o Early(n)
  <2>1. ASSUME NEW w \in Walk, NEW kind \in {"nag", "round"}
        PROVE  Entries(job, kind, Burst(w, cap, n)) \in Seq(E)
    <3> DEFINE burst == Burst(w, cap, n)
    <3>1. burst \in Seq(Nat)
      BY BurstDef
    <3> HIDE DEF burst
    <3>2. \A i \in 1 .. Len(burst) : Entry(job, kind, i - 1, burst[i]) \in E
      BY <3>1 DEF Entry
    <3> HIDE DEF E
    <3>3. [i \in 1 .. Len(burst) |-> Entry(job, kind, i - 1, burst[i])] \in Seq(E)
      BY <3>1, <3>2
    <3>4. QED
      BY <3>3 DEF Entries, burst
  <2>2. Nags(n) \in Seq(E)
    BY <2>1, WalkTypes
  <2>3. Rounds(n) \in Seq(E)
    <3>1. t.rounds # Null => Entries(job, "round", Burst(RoundsWalk(t), cap, n)) \in Seq(E)
      BY <2>1, WalkTypes
    <3>2. <<>> \in Seq(E)
      OBVIOUS
    <3> HIDE DEF E
    <3>3. QED
      BY <3>1, <3>2
  <2>4. Early(n) \in Seq(E)
    <3>1. t.fireAt \in Nat /\ t.lead \in Nat
      BY DEF Task
    <3>2. t.fireAt - t.lead >= n => Entry(job, "prealarm", 0, t.fireAt - t.lead) \in E
      BY <3>1 DEF Entry
    <3> HIDE DEF E
    <3>3. QED
      BY <3>2 DEF PreAlarm
  <2>5. QED
    BY <2>2, <2>3, <2>4 DEF Wishes
<1>2. KeepsLater(Nags(now), Nags(now + 1), now + 1)
  BY BurstKeeps, WalkTypes
<1>3. KeepsLater(Rounds(now), Rounds(now + 1), now + 1)
  <2>1. CASE t.rounds = Null
    BY <2>1 DEF KeepsLater
  <2>2. CASE t.rounds # Null
    BY <2>2, BurstKeeps, WalkTypes
  <2>3. QED
    BY <2>1, <2>2
<1>4. KeepsLater(Early(now), Early(now + 1), now + 1)
  <2> DEFINE at == t.fireAt - t.lead
  <2>1. at \in Int
    BY DEF Task
  <2>2. CASE t.lead > 0 /\ at >= now + 1
    <3>1. /\ Early(now) = <<Entry(job, "prealarm", 0, at)>>
          /\ Early(now + 1) = <<Entry(job, "prealarm", 0, at)>>
      BY <2>1, <2>2 DEF PreAlarm
    <3> DEFINE one == <<Entry(job, "prealarm", 0, at)>>
    <3>2. Len(one) = 1
      OBVIOUS
    <3> HIDE DEF one, Early
    <3>3. KeepsLater(one, one, now + 1)
      BY <3>2 DEF KeepsLater, SameFire
    <3>4. QED
      BY <3>1, <3>3 DEF one
  <2>3. CASE t.lead > 0 /\ at >= now /\ ~ (at >= now + 1)
    <3>1. /\ Early(now) = <<Entry(job, "prealarm", 0, at)>>
          /\ Early(now + 1) = <<>>
      BY <2>1, <2>3 DEF PreAlarm
    <3>2. \A q \in 1 .. 1 : ~ (Early(now)[q].at >= now + 1)
      BY <2>3, <3>1 DEF Entry
    <3>3. Len(Early(now)) = 1 /\ Len(Early(now + 1)) = 0
      BY <3>1
    <3> HIDE DEF Early
    <3>4. QED
      BY <3>2, <3>3 DEF KeepsLater
  <2>4. CASE ~ (t.lead > 0 /\ at >= now)
    <3>1. Early(now) = <<>> /\ Early(now + 1) = <<>>
      BY <2>1, <2>4 DEF PreAlarm
    <3>2. QED
      BY <3>1 DEF KeepsLater
  <2>5. QED
    BY <2>1, <2>2, <2>3, <2>4
<1> HIDE DEF E, Nags, Rounds, Early
<1> DEFINE n == now + 1
<1>5. n \in Nat
  OBVIOUS
<1> HIDE DEF n
<1>6. /\ Nags(now) \in Seq(E) /\ Rounds(now) \in Seq(E) /\ Early(now) \in Seq(E)
      /\ Nags(n) \in Seq(E) /\ Rounds(n) \in Seq(E) /\ Early(n) \in Seq(E)
  BY <1>1, <1>5
<1>7. KeepsLater(Nags(now) \o Rounds(now), Nags(n) \o Rounds(n), n)
  BY <1>2, <1>3, <1>6, KeepsLaterConcat DEF n
<1>8. Nags(now) \o Rounds(now) \in Seq(E) /\ Nags(n) \o Rounds(n) \in Seq(E)
  BY <1>6
<1>9. KeepsLater((Nags(now) \o Rounds(now)) \o Early(now),
                 (Nags(n) \o Rounds(n)) \o Early(n), n)
  <2>1. KeepsLater(Early(now), Early(n), n)
    BY <1>4 DEF n
  <2>2. QED
    BY <1>7, <1>8, <1>6, <2>1, KeepsLaterConcat
<1>10. KeepsLater(Wishes(job, t, cap, now), Wishes(job, t, cap, n), n)
  BY <1>1, <1>9, <1>5
<1>11. QED
  BY <1>10 DEF n

\* As the clock moves on by a tick, the plan for the same tasks keeps every
\* notification that is still to come: none is pushed off it by another.
LEMMA BestPlanKeeps ==
  ASSUME NEW J, NEW tasks \in [J -> Task], NEW order \in Seq(J),
         NEW cap \in Nat, NEW budget \in Nat, NEW now \in Nat
  PROVE  KeepsLater(BestPlan(tasks, order, cap, budget, now),
                    BestPlan(tasks, order, cap, budget, now + 1), now + 1)
<1> DEFINE E == Possible(tasks, now) \union Possible(tasks, now + 1)
           Each(n) == [i \in DOMAIN order |-> Wishes(order[i], tasks[order[i]], cap, n)]
           s == AllWishes(tasks, order, cap, now)
           t == AllWishes(tasks, order, cap, now + 1)
<1>1. /\ Each(now) \in Seq(Seq(E)) /\ Each(now + 1) \in Seq(Seq(E))
      /\ Len(Each(now)) = Len(order) /\ Len(Each(now + 1)) = Len(order)
  <2>1. ASSUME NEW n \in Nat, Possible(tasks, n) \subseteq E
        PROVE  Each(n) \in Seq(Seq(E)) /\ Len(Each(n)) = Len(order)
    <3>1. ASSUME NEW i \in DOMAIN order
          PROVE  Wishes(order[i], tasks[order[i]], cap, n) \in Seq(E)
      <4>1. order[i] \in DOMAIN tasks /\ tasks[order[i]] \in Task
        OBVIOUS
      <4>2. Wishes(order[i], tasks[order[i]], cap, n) \in Seq(Possible(tasks, n))
        BY <4>1, WishesPossible
      <4> HIDE DEF E
      <4>3. QED
        BY <2>1, <4>2
    <3> HIDE DEF E
    <3>2. QED
      BY <3>1
  <2>2. now + 1 \in Nat /\ Possible(tasks, now) \subseteq E
                        /\ Possible(tasks, now + 1) \subseteq E
    OBVIOUS
  <2> HIDE DEF E, Each
  <2>3. QED
    BY <2>1, <2>2
<1>2. ASSUME NEW i \in 1 .. Len(order)
      PROVE  KeepsLater(Each(now)[i], Each(now + 1)[i], now + 1)
  BY WishesKeep
<1>3. s = FlattenSeq(Each(now)) /\ t = FlattenSeq(Each(now + 1))
  BY DEF AllWishes
<1> HIDE DEF E, Each
<1>4. KeepsLater(s, t, now + 1)
  BY <1>1, <1>2, <1>3, KeepsLaterFlatten
<1>5. s \in Seq(Possible(tasks, now)) /\ t \in Seq(Possible(tasks, now + 1))
  <2>1. now + 1 \in Nat
    OBVIOUS
  <2>2. QED
    BY <2>1, AllWishesPossible
<1> DEFINE m == Smaller(budget, Len(s))
           n == Smaller(budget, Len(t))
           p == SubSeq(s, 1, m)
           r == SubSeq(t, 1, n)
<1> HIDE DEF s, t
<1>6. m \in Nat /\ n \in Nat /\ m <= Len(s) /\ n <= Len(t) /\ n <= m /\ m <= budget
  <2>1. Len(s) \in Nat /\ Len(t) \in Nat /\ Len(t) <= Len(s)
    BY <1>4, <1>5 DEF KeepsLater
  <2>2. QED
    BY <2>1 DEF Smaller
<1>7. /\ Len(p) = m /\ Len(r) = n
      /\ \A i \in 1 .. m : p[i] = s[i]
      /\ \A i \in 1 .. n : r[i] = t[i]
  BY <1>5, <1>6
<1>8. ASSUME NEW q \in 1 .. Len(p), p[q].at >= now + 1
      PROVE  \E k \in 1 .. q : k <= Len(r) /\ SameFire(r[k], p[q])
  <2>1. q \in 1 .. Len(s) /\ p[q] = s[q] /\ q <= budget
    BY <1>5, <1>6, <1>7
  <2>2. PICK k \in 1 .. q : k <= Len(t) /\ SameFire(t[k], s[q])
    BY <1>4, <1>8, <2>1 DEF KeepsLater
  <2>3. k <= n /\ k \in 1 .. n
    BY <1>5, <2>1, <2>2 DEF Smaller
  <2>4. r[k] = t[k]
    BY <1>7, <2>3
  <2>5. QED
    BY <1>7, <2>1, <2>2, <2>3, <2>4
<1> HIDE DEF p, r
<1>9. KeepsLater(p, r, now + 1)
  BY <1>6, <1>7, <1>8 DEF KeepsLater
<1>10. QED
  BY <1>9 DEF BestPlan, p, r, m, n, s, t


-----------------------------------------------------------------------------
(* The order of the tasks.                                                 *)

LEMMA BeforeTotal ==
  ASSUME NEW a \in Task, NEW b \in Task, NEW c \in Task
  PROVE  /\ Before(a, b) \/ Before(b, a)
         /\ Before(a, b) /\ Before(b, c) => Before(a, c)
<1>1. /\ a.priority \in Int /\ b.priority \in Int /\ c.priority \in Int
      /\ a.fireAt \in Nat /\ b.fireAt \in Nat /\ c.fireAt \in Nat
  BY DEF Task
<1>2. QED
  BY <1>1 DEF Before

\* Among some tasks there is one that comes after all others.
LEMMA LastExists ==
  ASSUME NEW J, NEW tasks \in [J -> Task],
         NEW S \in SUBSET J, IsFiniteSet(S), S # {}
  PROVE  \E x \in S : \A y \in S : Before(tasks[y], tasks[x])
<1> DEFINE HasLast(s) == \E x \in s : \A y \in s : Before(tasks[y], tasks[x])
           T == {n \in Nat : \A s \in SUBSET J :
                   IsFiniteSet(s) /\ Cardinality(s) = n + 1 => HasLast(s)}
<1>1. 0 \in T
  <2> SUFFICES ASSUME NEW s \in SUBSET J, IsFiniteSet(s), Cardinality(s) = 1
               PROVE  HasLast(s)
    OBVIOUS
  <2>1. PICK x : s = {x}
    BY FS_Singleton
  <2>2. Before(tasks[x], tasks[x])
    BY <2>1, BeforeTotal
  <2>3. QED
    BY <2>1, <2>2
<1>2. ASSUME NEW n \in Nat, n \in T PROVE n + 1 \in T
  <2> SUFFICES ASSUME NEW s \in SUBSET J, IsFiniteSet(s), Cardinality(s) = (n + 1) + 1
               PROVE  HasLast(s)
    OBVIOUS
  <2>1. PICK x : x \in s
    BY FS_EmptySet
  <2> DEFINE r == s \ {x}
  <2>2. IsFiniteSet(r) /\ Cardinality(r) = n + 1 /\ r \in SUBSET J
    BY <2>1, FS_RemoveElement
  <2>3. HasLast(r)
    BY <1>2, <2>2
  <2>4. PICK m \in r : \A y \in r : Before(tasks[y], tasks[m])
    BY <2>3
  <2>5. \A y \in s : tasks[y] \in Task
    OBVIOUS
  <2>6. CASE Before(tasks[m], tasks[x])
    <3>1. \A y \in s : Before(tasks[y], tasks[x])
      BY <2>1, <2>4, <2>5, <2>6, BeforeTotal
    <3>2. QED
      BY <2>1, <3>1
  <2>7. CASE ~Before(tasks[m], tasks[x])
    <3>1. Before(tasks[x], tasks[m])
      BY <2>1, <2>5, <2>7, BeforeTotal
    <3>2. \A y \in s : Before(tasks[y], tasks[m])
      BY <2>4, <3>1
    <3>3. QED
      BY <3>2
  <2>8. QED
    BY <2>6, <2>7
<1>3. Nat \subseteq T
  <2> HIDE DEF T
  <2>1. QED
    BY <1>1, <1>2, InductionOnNat
<1>4. Cardinality(S) \in Nat /\ Cardinality(S) # 0
  BY FS_CardinalityType, FS_EmptySet
<1>5. Cardinality(S) - 1 \in T /\ (Cardinality(S) - 1) + 1 = Cardinality(S)
  BY <1>3, <1>4
<1>6. QED
  BY <1>5

\* However the tasks are, sort() has an order to leave them in.
LEMMA OrderExists ==
  ASSUME NEW J, IsFiniteSet(J), NEW tasks \in [J -> Task]
  PROVE  Orders(tasks) # {}
<1> DEFINE Sorts(o, s) ==
             /\ o \in [1 .. Cardinality(s) -> s]
             /\ \A i, j \in 1 .. Cardinality(s) : i # j => o[i] # o[j]
             /\ \A i, j \in 1 .. Cardinality(s) :
                  i < j => Before(tasks[o[i]], tasks[o[j]])
           T == {n \in Nat : \A s \in SUBSET J :
                   IsFiniteSet(s) /\ Cardinality(s) = n => \E o : Sorts(o, s)}
<1>1. 0 \in T
  <2> SUFFICES ASSUME NEW s \in SUBSET J, IsFiniteSet(s), Cardinality(s) = 0
               PROVE  \E o : Sorts(o, s)
    OBVIOUS
  <2>1. Sorts([i \in 1 .. 0 |-> i], s)
    OBVIOUS
  <2> HIDE DEF Sorts
  <2>2. QED
    BY <2>1
<1>2. ASSUME NEW n \in Nat, n \in T PROVE n + 1 \in T
  <2> SUFFICES ASSUME NEW s \in SUBSET J, IsFiniteSet(s), Cardinality(s) = n + 1
               PROVE  \E o : Sorts(o, s)
    OBVIOUS
  <2>1. PICK x \in s : \A y \in s : Before(tasks[y], tasks[x])
    BY LastExists, FS_EmptySet
  <2> DEFINE r == s \ {x}
  <2>2. IsFiniteSet(r) /\ Cardinality(r) = n /\ r \in SUBSET J
    <3>1. IsFiniteSet(r) /\ Cardinality(r) = (n + 1) - 1
      BY <2>1, FS_RemoveElement
    <3>2. (n + 1) - 1 = n
      OBVIOUS
    <3>3. QED
      BY <3>1, <3>2
  <2>3. PICK o : Sorts(o, r)
    BY <1>2, <2>2
  <2>4. /\ \A i, j \in 1 .. n : i # j => o[i] # o[j]
        /\ \A i, j \in 1 .. n : i < j => Before(tasks[o[i]], tasks[o[j]])
    BY <2>2, <2>3
  <2> DEFINE k == [i \in 1 .. n + 1 |-> IF i = n + 1 THEN x ELSE o[i]]
  <2>5. \A i \in 1 .. n : o[i] \in s /\ o[i] # x
    BY <2>2, <2>3
  <2>6. k \in [1 .. n + 1 -> s]
    BY <2>1, <2>5
  <2>7. ASSUME NEW i \in 1 .. n + 1, NEW j \in 1 .. n + 1, i # j
        PROVE  k[i] # k[j]
    <3>1. CASE i = n + 1 \/ j = n + 1
      BY <2>5, <2>7, <3>1
    <3>2. CASE i # n + 1 /\ j # n + 1
      <4>1. i \in 1 .. n /\ j \in 1 .. n /\ k[i] = o[i] /\ k[j] = o[j]
        BY <3>2
      <4> HIDE DEF k
      <4>2. QED
        BY <2>7, <2>4, <4>1
    <3>3. QED
      BY <3>1, <3>2
  <2>8. ASSUME NEW i \in 1 .. n + 1, NEW j \in 1 .. n + 1, i < j
        PROVE  Before(tasks[k[i]], tasks[k[j]])
    <3>1. i \in 1 .. n /\ k[i] = o[i]
      BY <2>8
    <3>2. CASE j = n + 1
      BY <2>1, <2>5, <3>1, <3>2
    <3>3. CASE j # n + 1
      <4>1. j \in 1 .. n /\ k[j] = o[j]
        BY <3>3
      <4> HIDE DEF k
      <4>2. QED
        BY <2>8, <2>4, <3>1, <4>1
    <3>4. QED
      BY <3>2, <3>3
  <2>9. Sorts(k, s)
    BY <2>6, <2>7, <2>8
  <2> HIDE DEF Sorts, k
  <2>10. QED
    BY <2>9
<1>3. Nat \subseteq T
  <2> HIDE DEF T
  <2>1. QED
    BY <1>1, <1>2, InductionOnNat
<1>4. Cardinality(J) \in Nat
  BY FS_CardinalityType
<1>5. PICK o : Sorts(o, J)
  BY <1>3, <1>4
<1>6. o \in Orders(tasks)
  <2>1. DOMAIN tasks = J
    OBVIOUS
  <2>2. o \in SetToSeqs(J)
    BY <1>5 DEF SetToSeqs
  <2>3. DOMAIN o = 1 .. Cardinality(J)
    BY <1>5
  <2>4. QED
    BY <1>5, <2>1, <2>2, <2>3 DEF Orders
<1>7. QED
  BY <1>6

\* An order lists every task once.
LEMMA OrdersType ==
  ASSUME NEW J, IsFiniteSet(J), NEW tasks \in [J -> Task], NEW o \in Orders(tasks)
  PROVE  /\ o \in Seq(J) /\ Len(o) = Cardinality(J)
         /\ \A i, j \in 1 .. Len(o) : i # j => o[i] # o[j]
<1>1. o \in SetToSeqs(J)
  BY DEF Orders
<1>2. o \in [1 .. Cardinality(J) -> J] /\ Cardinality(J) \in Nat
  BY <1>1, FS_CardinalityType DEF SetToSeqs
<1>3. o \in Seq(J) /\ Len(o) = Cardinality(J)
  BY <1>2
<1>4. QED
  BY <1>1, <1>3 DEF SetToSeqs


-----------------------------------------------------------------------------
(* Where in the list of all wishes those of a task stand.                  *)

\* L[i] is the number of wishes of the first i tasks.
Places(L, tasks, order, cap, now) ==
  LET all == AllWishes(tasks, order, cap, now)
      Of(i) == Wishes(order[i], tasks[order[i]], cap, now)
  IN /\ L[0] = 0 /\ L[Len(order)] = Len(all)
     /\ \A i \in 1 .. Len(order) :
          /\ L[i] = L[i - 1] + Len(Of(i)) /\ L[i] <= Len(all)
          /\ \A q \in 1 .. Len(Of(i)) : all[L[i - 1] + q] = Of(i)[q]

GathersIn(E, f, ss) ==
  ss \in Seq(Seq(E)) /\ f \in [0 .. Len(ss) -> Seq(E)] /\ Gathers(f, ss)

Placed(f, ss, i) ==
  /\ Len(f[i]) = Len(f[i - 1]) + Len(ss[i])
  /\ Len(f[i]) <= Len(f[Len(ss)])
  /\ \A q \in 1 .. Len(ss[i]) : f[Len(ss)][Len(f[i - 1]) + q] = ss[i][q]

\* Each sequence stands in the concatenation after those before it.
LEMMA FlattenPlaces ==
  ASSUME NEW E, NEW ss, NEW f, GathersIn(E, f, ss), NEW i \in 1 .. Len(ss)
  PROVE  Placed(f, ss, i)
<1> DEFINE n == Len(ss)
           s == f[i]
           T == {m \in Nat : i + m <= n =>
                   /\ Len(s) <= Len(f[i + m])
                   /\ \A p \in 1 .. Len(s) : f[i + m][p] = s[p]}
<1>1. n \in Nat /\ i \in Nat /\ i \in 0 .. n /\ i - 1 \in 0 .. n /\ ss[i] \in Seq(E)
  BY DEF GathersIn
<1>2. \A m \in 0 .. n : f[m] \in Seq(E) /\ Len(f[m]) \in Nat
  BY DEF GathersIn
<1>3. 0 \in T
  <2>1. i + 0 = i
    BY <1>1
  <2>2. QED
    BY <1>1, <1>2, <2>1
<1>4. ASSUME NEW m \in Nat, m \in T PROVE m + 1 \in T
  <2> SUFFICES ASSUME i + (m + 1) <= n
               PROVE  /\ Len(s) <= Len(f[i + (m + 1)])
                      /\ \A p \in 1 .. Len(s) : f[i + (m + 1)][p] = s[p]
    OBVIOUS
  <2> DEFINE k == i + (m + 1)
  <2>1. /\ k \in 1 .. n /\ k \in 0 .. n /\ k - 1 = i + m /\ i + m \in 0 .. n
        /\ i + m <= n
    BY <1>1
  <2>2. f[k] = f[i + m] \o ss[k]
    BY <2>1 DEF GathersIn, Gathers
  <2>3. Len(s) <= Len(f[i + m]) /\ \A p \in 1 .. Len(s) : f[i + m][p] = s[p]
    BY <1>4, <2>1
  <2>4. ss[k] \in Seq(E) /\ f[i + m] \in Seq(E)
    BY <1>2, <2>1 DEF GathersIn
  <2> HIDE DEF k
  <2> DEFINE g == f[i + m]
             t == ss[k]
  <2>5. g \in Seq(E) /\ t \in Seq(E) /\ Len(s) \in Nat
    BY <1>1, <1>2, <2>4
  <2>6. Len(s) <= Len(g) /\ \A p \in 1 .. Len(s) : g[p] = s[p]
    BY <2>3
  <2> HIDE DEF g, t, s
  <2>7. Len(s) <= Len(g \o t) /\ \A p \in 1 .. Len(s) : (g \o t)[p] = s[p]
    BY <2>5, <2>6
  <2>8. f[k] = g \o t
    BY <2>2 DEF g, t
  <2>9. QED
    BY <2>7, <2>8 DEF k
<1>5. Nat \subseteq T
  <2> HIDE DEF T
  <2>1. QED
    BY <1>3, <1>4, InductionOnNat
<1>6. n - i \in Nat /\ i + (n - i) = n /\ i + (n - i) <= n
  <2> HIDE DEF n, T
  <2>1. i \in 1 .. n
    BY DEF n
  <2>2. QED
    BY <1>1, <2>1
<1>7. Len(s) <= Len(f[n]) /\ \A p \in 1 .. Len(s) : f[n][p] = s[p]
  <2>1. n - i \in T
    BY <1>5, <1>6
  <2>2. /\ Len(s) <= Len(f[i + (n - i)])
        /\ \A p \in 1 .. Len(s) : f[i + (n - i)][p] = s[p]
    BY <1>6, <2>1
  <2>3. QED
    BY <1>6, <2>2
<1>8. s = f[i - 1] \o ss[i]
  BY DEF GathersIn, Gathers
<1>9. f[i - 1] \in Seq(E)
  BY <1>1, <1>2
<1> DEFINE before == f[i - 1]
           mine == ss[i]
<1>10. before \in Seq(E) /\ mine \in Seq(E) /\ s = before \o mine
  BY <1>1, <1>8, <1>9
<1> HIDE DEF n, s, before, mine
<1>11. /\ Len(s) = Len(before) + Len(mine)
       /\ \A q \in 1 .. Len(mine) : /\ s[Len(before) + q] = mine[q]
                                    /\ Len(before) + q \in 1 .. Len(s)
  BY <1>10
<1>12. QED
  BY <1>7, <1>11 DEF n, s, before, mine, Placed

LEMMA PlacesExist ==
  ASSUME NEW J, NEW tasks \in [J -> Task], NEW order \in Seq(J),
         NEW cap \in Nat, NEW now \in Nat
  PROVE  \E L \in [0 .. Len(order) -> Nat] : Places(L, tasks, order, cap, now)
<1> DEFINE E == Possible(tasks, now)
           ss == [i \in DOMAIN order |-> Wishes(order[i], tasks[order[i]], cap, now)]
           n == Len(order)
<1>1. ASSUME NEW i \in DOMAIN order
      PROVE  Wishes(order[i], tasks[order[i]], cap, now) \in Seq(E)
  BY WishesPossible
<1>2. /\ ss \in Seq(Seq(E)) /\ Len(ss) = n /\ n \in Nat
      /\ \A i \in 1 .. n : ss[i] = Wishes(order[i], tasks[order[i]], cap, now)
  <2> HIDE DEF E
  <2>1. QED
    BY <1>1
<1>3. AllWishes(tasks, order, cap, now) = FlattenSeq(ss)
  BY DEF AllWishes
<1> HIDE DEF E, ss, n
<1>4. PICK f : GathersIn(E, f, ss)
  <2>1. PICK f \in [0 .. Len(ss) -> Seq(E)] : Gathers(f, ss)
    BY <1>2, FlattenDef
  <2>2. GathersIn(E, f, ss)
    BY <1>2, <2>1 DEF GathersIn
  <2>3. QED
    BY <2>2
<1> DEFINE L == [i \in 0 .. n |-> Len(f[i])]
<1>5. /\ L \in [0 .. n -> Nat] /\ L[0] = 0 /\ L[n] = Len(FlattenSeq(ss))
  <2>1. L \in [0 .. n -> Nat]
    BY <1>2, <1>4 DEF GathersIn
  <2>2. f[0] = <<>> /\ FlattenSeq(ss) = f[n]
    BY <1>2, <1>4 DEF Gathers, GathersIn
  <2>3. QED
    BY <1>2, <2>1, <2>2
<1>6. ASSUME NEW i \in 1 .. n
      PROVE  /\ L[i] = L[i - 1] + Len(ss[i]) /\ L[i] <= Len(FlattenSeq(ss))
             /\ \A q \in 1 .. Len(ss[i]) : FlattenSeq(ss)[L[i - 1] + q] = ss[i][q]
  <2>1. FlattenSeq(ss) = f[Len(ss)]
    BY <1>4 DEF Gathers, GathersIn
  <2>2. L[i] = Len(f[i]) /\ L[i - 1] = Len(f[i - 1])
    BY <1>2
  <2> HIDE DEF L
  <2>3. i \in 1 .. Len(ss)
    BY <1>2
  <2>4. /\ Len(f[i]) = Len(f[i - 1]) + Len(ss[i])
        /\ Len(f[i]) <= Len(f[Len(ss)])
        /\ \A q \in 1 .. Len(ss[i]) : f[Len(ss)][Len(f[i - 1]) + q] = ss[i][q]
    <3>1. Placed(f, ss, i)
      BY <1>4, <2>3, FlattenPlaces
    <3>2. QED
      BY <3>1 DEF Placed
  <2>5. QED
    BY <2>1, <2>2, <2>4
<1>7. Places(L, tasks, order, cap, now)
  BY <1>2, <1>3, <1>5, <1>6 DEF Places, n
<1> HIDE DEF L
<1>8. QED
  BY <1>5, <1>7 DEF n

\* A task's wishes: its nags, its rounds if it has them, its heads-up.
LEMMA WishesDef ==
  ASSUME NEW t \in Task, NEW job, NEW cap \in Nat, NEW now \in Nat
  PROVE  LET nags == Burst(NagWalk(t), cap, now)
             rounds == IF t.rounds = Null THEN <<>> ELSE Burst(RoundsWalk(t), cap, now)
             early == IF t.lead > 0 /\ t.fireAt - t.lead >= now THEN 1 ELSE 0
             wishes == Wishes(job, t, cap, now)
         IN /\ Len(nags) \in Nat /\ Len(rounds) \in Nat
            /\ Len(wishes) = Len(nags) + Len(rounds) + early
            /\ \A q \in 1 .. Len(nags) : wishes[q] = Entry(job, "nag", q - 1, nags[q])
            /\ \A q \in 1 .. Len(rounds) :
                 wishes[Len(nags) + q] = Entry(job, "round", q - 1, rounds[q])
            /\ early = 1 => wishes[Len(nags) + Len(rounds) + 1] =
                              Entry(job, "prealarm", 0, t.fireAt - t.lead)
<1> DEFINE nags == Burst(NagWalk(t), cap, now)
           rounds == IF t.rounds = Null THEN <<>> ELSE Burst(RoundsWalk(t), cap, now)
           early == IF t.lead > 0 /\ t.fireAt - t.lead >= now THEN 1 ELSE 0
           a == Entries(job, "nag", nags)
           b == Entries(job, "round", rounds)
           c == PreAlarm(job, t, now)
           E == [job : {job}, kind : {"nag", "round", "prealarm"}, index : Nat, at : Int]
<1>1. nags \in Seq(Nat) /\ rounds \in Seq(Nat)
  <2>1. nags \in Seq(Nat)
    BY BurstDef, WalkTypes
  <2>2. t.rounds # Null => Burst(RoundsWalk(t), cap, now) \in Seq(Nat)
    BY BurstDef, WalkTypes
  <2>3. QED
    BY <2>1, <2>2
<1>2. Wishes(job, t, cap, now) = (a \o b) \o c
  <2>1. CASE t.rounds = Null
    <3>1. b = <<>>
      BY <2>1 DEF Entries
    <3>2. QED
      BY <2>1, <3>1 DEF Wishes
  <2>2. CASE t.rounds # Null
    BY <2>2 DEF Wishes
  <2>3. QED
    BY <2>1, <2>2
<1> HIDE DEF nags, rounds
<1>3. /\ a \in Seq(E) /\ Len(a) = Len(nags)
      /\ \A q \in 1 .. Len(nags) : a[q] = Entry(job, "nag", q - 1, nags[q])
  <2>1. \A q \in 1 .. Len(nags) : Entry(job, "nag", q - 1, nags[q]) \in E
    BY <1>1 DEF Entry
  <2> HIDE DEF E
  <2>2. QED
    BY <1>1, <2>1 DEF Entries
<1>4. /\ b \in Seq(E) /\ Len(b) = Len(rounds)
      /\ \A q \in 1 .. Len(rounds) : b[q] = Entry(job, "round", q - 1, rounds[q])
  <2>1. \A q \in 1 .. Len(rounds) : Entry(job, "round", q - 1, rounds[q]) \in E
    BY <1>1 DEF Entry
  <2> HIDE DEF E
  <2>2. QED
    BY <1>1, <2>1 DEF Entries
<1>5. /\ c \in Seq(E) /\ Len(c) = early
      /\ early = 1 => c[1] = Entry(job, "prealarm", 0, t.fireAt - t.lead)
  <2>1. Entry(job, "prealarm", 0, t.fireAt - t.lead) \in E
    BY DEF Task, Entry
  <2> HIDE DEF E
  <2>2. QED
    BY <2>1 DEF PreAlarm
<1> HIDE DEF a, b, c, E, early
<1>6. /\ Len((a \o b) \o c) = Len(a) + Len(b) + Len(c)
      /\ \A q \in 1 .. Len(a) : ((a \o b) \o c)[q] = a[q]
      /\ \A q \in 1 .. Len(b) : ((a \o b) \o c)[Len(a) + q] = b[q]
      /\ \A q \in 1 .. Len(c) : ((a \o b) \o c)[Len(a) + Len(b) + q] = c[q]
  <2> DEFINE ab == a \o b
  <2>1. /\ ab \in Seq(E) /\ Len(ab) = Len(a) + Len(b)
        /\ Len(a) \in Nat /\ Len(b) \in Nat /\ Len(c) \in Nat
        /\ \A q \in 1 .. Len(a) : ab[q] = a[q]
        /\ \A q \in 1 .. Len(b) : ab[Len(a) + q] = b[q]
    <3>1. a \in Seq(E) /\ b \in Seq(E) /\ c \in Seq(E)
      BY <1>3, <1>4, <1>5
    <3>2. QED
      BY <3>1
  <2> HIDE DEF ab
  <2>2. /\ Len(ab \o c) = Len(ab) + Len(c)
        /\ \A q \in 1 .. Len(ab) : (ab \o c)[q] = ab[q]
        /\ \A q \in 1 .. Len(c) : (ab \o c)[Len(ab) + q] = c[q]
    BY <1>5, <2>1
  <2>3. \A q \in 1 .. Len(a) : q \in 1 .. Len(ab)
    BY <2>1
  <2>4. \A q \in 1 .. Len(b) : Len(a) + q \in 1 .. Len(ab)
    BY <2>1
  <2>5. QED
    BY <2>1, <2>2, <2>3, <2>4 DEF ab
<1>7. Len(nags) \in Nat /\ Len(rounds) \in Nat
  BY <1>1
<1>8. early = 1 => ((a \o b) \o c)[Len(a) + Len(b) + 1] = c[1]
  BY <1>5, <1>6
<1>9. QED
  BY <1>2, <1>3, <1>4, <1>5, <1>6, <1>7, <1>8 DEF nags, rounds, early
=============================================================================
