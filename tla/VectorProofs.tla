---------------------------- MODULE VectorProofs ----------------------------
(***************************************************************************)
(* The computations of the vector unit, for every value of its constants:  *)
(*                                                                         *)
(*   BuildsAgree        the scalar and the SSE4.1 half of an instruction   *)
(*                      leave the same lane, for every width               *)
(*   OperandsAtOnce     every lane reads the registers as they were before *)
(*                      the instruction                                    *)
(*   QuantizationIsOdd  VMULQ and VMACQ, for all levels and weights        *)
(*   ArithmeticExact    the sequences that compute with numbers of two     *)
(*                      elements are exact, for every width                *)
(*   SelectionsExact    and so are those that compare and clip them        *)
(*   ReadsRefine        CFC2 reads the numbers whose bits are the flags    *)
(*   DivisionAccurate   division and root are accurate to eight bits, in   *)
(*                      every order of their instructions                  *)
(*                                                                         *)
(* The first needs most of the module: bitwise operators are recursive     *)
(* functions over the bits, so that their laws are proved by induction     *)
(* over the width, and each instruction then has a lemma of its own.       *)
(***************************************************************************)
EXTENDS VectorUnit, WellFoundedInduction, TLAPS

-----------------------------------------------------------------------------
(* Induction over the numbers, for a set of them, and functions that are   *)
(* defined by recursion over the numbers.                                  *)

(* Induction over the natural numbers, for a set of them.                  *)
LEMMA LeastNumber ==
    ASSUME NEW T, T \subseteq Nat, T # {}
    PROVE  \E m \in T : \A n \in T : m <= n
<1>1. PICK m \in T : \A n \in T : ~ (<<n, m>> \in OpToRel(<, Nat))
  BY NatLessThanWellFounded, WFMin
<1>2. \A n \in T : n < m => <<n, m>> \in OpToRel(<, Nat)
  BY DEF OpToRel
<1>3. \A n \in T : ~(n < m)
  BY <1>1, <1>2, Zenon
<1>4. \A n \in T : m <= n
  BY <1>3
<1>. QED BY <1>4

(* A set of numbers that holds 0 and every successor holds them all.       *)
LEMMA SetInduction ==
    ASSUME NEW T, 0 \in T, \A n \in Nat : n \in T => n + 1 \in T
    PROVE  \A n \in Nat : n \in T
<1>. SUFFICES ASSUME NEW k \in Nat, k \notin T
              PROVE  FALSE
  OBVIOUS
<1>1. PICK m \in Nat \ T : \A n \in Nat \ T : m <= n
  <2>1. Nat \ T \subseteq Nat /\ Nat \ T # {}
      OBVIOUS
  <2>. QED BY <2>1, LeastNumber, Zenon
<1>2. m # 0 /\ m - 1 \in Nat /\ m = (m - 1) + 1
  BY <1>1
<1>3. m - 1 \in T
  BY <1>1, <1>2
<1>. QED BY <1>1, <1>2, <1>3

(* A function that is given at 0 and, step by step, after it exists.       *)
Steps(V) == [Nat \X V -> V]
Follows(f, V, start, step) ==
    /\ f \in [Nat -> V]
    /\ f[0] = start
    /\ \A n \in Nat : f[n + 1] = step[<<n, f[n]>>]

(* Such a function exists: its initial segments do, and they agree.        *)
LEMMA RecursionExists ==
    ASSUME NEW V, NEW start \in V, NEW step \in Steps(V)
    PROVE  \E f : Follows(f, V, start, step)
<1>. USE DEF Steps
<1>. DEFINE Upto(n, g) == /\ g \in [0 .. n -> V] /\ g[0] = start
                          /\ \A k \in 0 .. n - 1 : g[k + 1] = step[<<k, g[k]>>]
            Reached == {n \in Nat : \E g : Upto(n, g)}
            Agreed == {k \in Nat : \A n, m \in Nat : \A g, h :
                          k <= n /\ k <= m /\ Upto(n, g) /\ Upto(m, h) => g[k] = h[k]}
<1>1. \A n \in Nat : n \in Reached
  <2>1. 0 \in Reached
    <3>1. Upto(0, [k \in 0 .. 0 |-> start])
        OBVIOUS
    <3>. QED BY <3>1
  <2>2. ASSUME NEW n \in Nat, n \in Reached
        PROVE  n + 1 \in Reached
    <3>1. PICK g : Upto(n, g)
        BY <2>2
    <3>. DEFINE h == [k \in 0 .. n + 1 |-> IF k <= n THEN g[k] ELSE step[<<n, g[n]>>]]
    <3>2. h \in [0 .. n + 1 -> V] /\ h[0] = start
        BY <3>1
    <3>3. \A k \in 0 .. n : h[k + 1] = step[<<k, h[k]>>]
        BY <3>1
    <3>. HIDE DEF h
    <3>4. Upto(n + 1, h)
        BY <3>2, <3>3
    <3>. QED BY <3>4
  <2>. HIDE DEF Reached
  <2>. QED BY <2>1, <2>2, SetInduction
<1>2. \A k \in Nat : k \in Agreed
  <2>1. 0 \in Agreed
      OBVIOUS
  <2>2. ASSUME NEW k \in Nat, k \in Agreed
        PROVE  k + 1 \in Agreed
    <3>1. ASSUME NEW n \in Nat, NEW m \in Nat, NEW g, NEW h,
                 k + 1 <= n, k + 1 <= m, Upto(n, g), Upto(m, h)
          PROVE  g[k + 1] = h[k + 1]
      <4>1. k <= n /\ k <= m /\ k \in 0 .. n - 1 /\ k \in 0 .. m - 1
          BY <3>1
      <4>2. g[k] = h[k]
          BY <2>2, <3>1, <4>1
      <4>3. g[k + 1] = step[<<k, g[k]>>] /\ h[k + 1] = step[<<k, h[k]>>]
          BY <3>1, <4>1
      <4>. QED BY <4>2, <4>3
    <3>. QED BY <3>1
  <2>. HIDE DEF Agreed
  <2>. QED BY <2>1, <2>2, SetInduction
<1>. DEFINE segment(n) == CHOOSE g : Upto(n, g)
            f == [n \in Nat |-> segment(n)[n]]
<1>3. \A n \in Nat : Upto(n, segment(n))
  BY <1>1
<1>. HIDE DEF segment
<1>4. \A n \in Nat : f[n] \in V
  BY <1>3
<1>5. f[0] = start
  BY <1>3
<1>6. ASSUME NEW n \in Nat
      PROVE  f[n + 1] = step[<<n, f[n]>>]
  <2>1. segment(n + 1)[n + 1] = step[<<n, segment(n + 1)[n]>>]
      BY <1>3
  <2>2. segment(n + 1)[n] = segment(n)[n]
      BY <1>2, <1>3
  <2>. QED BY <2>1, <2>2
<1>7. f \in [Nat -> V]
  BY <1>4
<1>. QED BY <1>5, <1>6, <1>7 DEF Follows

-----------------------------------------------------------------------------
(* The width of an element: two to the power of its bits.                  *)

(* Power is the function that its recursion asks for.                      *)
LEMMA PowerRecursion ==
    ASSUME NEW n \in Nat
    PROVE  Power[n] = IF n = 0 THEN 1 ELSE 2 * Power[n - 1]
<1>. DEFINE step == [m \in Nat \X Nat |-> 2 * m[2]]
            Recursive(f) == f = [m \in Nat |-> IF m = 0 THEN 1 ELSE 2 * f[m - 1]]
<1>1. step \in Steps(Nat)
  BY DEF Steps
<1>2. \A m, k \in Nat : step[<<m, k>>] = 2 * k
  OBVIOUS
<1>. HIDE DEF step
<1>3. PICK f : Follows(f, Nat, 1, step)
  <2>1. 1 \in Nat
      OBVIOUS
  <2>. QED BY <1>1, <2>1, RecursionExists, Zenon
<1>4. ASSUME NEW m \in Nat, m # 0
      PROVE  f[m] = 2 * f[m - 1]
  <2>1. m - 1 \in Nat /\ (m - 1) + 1 = m
      BY <1>4
  <2>2. f[(m - 1) + 1] = step[<<m - 1, f[m - 1]>>] /\ f[m - 1] \in Nat
      BY <1>3, <2>1 DEF Follows
  <2>. QED BY <1>2, <2>1, <2>2
<1>5. \A m \in Nat : f[m] = IF m = 0 THEN 1 ELSE 2 * f[m - 1]
  BY <1>3, <1>4 DEF Follows
<1>6. Recursive(f)
  BY <1>3, <1>5 DEF Follows
<1>7. Recursive(CHOOSE g : Recursive(g))
  BY <1>6, Zenon
<1>8. Recursive(Power)
  BY <1>7 DEF Power
<1>. QED BY <1>8

(* Powers of two are positive and each is twice the one before.            *)
LEMMA PowerFacts ==
    /\ Power[0] = 1
    /\ \A n \in Nat : Power[n] \in Nat /\ Power[n] >= 1 /\ Power[n + 1] = 2 * Power[n]
<1>1. Power[0] = 1
  BY PowerRecursion
<1>2. \A n \in Nat : Power[n + 1] = 2 * Power[n]
  <2>1. ASSUME NEW n \in Nat
        PROVE  n + 1 \in Nat /\ n + 1 # 0 /\ (n + 1) - 1 = n
      OBVIOUS
  <2>. QED BY <2>1, PowerRecursion
<1>. DEFINE T == {n \in Nat : Power[n] \in Nat /\ Power[n] >= 1}
<1>3. 0 \in T /\ \A n \in Nat : n \in T => n + 1 \in T
  BY <1>1, <1>2
<1>4. \A n \in Nat : n \in T
  <2>. HIDE DEF T
  <2>. QED BY <1>3, SetInduction
<1>. QED BY <1>1, <1>2, <1>4

(* There are twice as many numbers as signed ones that are positive.       *)
LEMMA WidthFacts ==
    /\ Lowest \in Nat /\ Lowest >= 2
    /\ W \in Nat /\ W = 2 * Lowest
<1>1. Bits \in Nat /\ Bits - 1 \in Nat /\ Bits - 2 \in Nat
      /\ (Bits - 1) + 1 = Bits /\ (Bits - 2) + 1 = Bits - 1
  BY BitsAssumption
<1>2. Power[Bits - 2] \in Nat /\ Power[Bits - 2] >= 1 /\ Power[Bits - 1] = 2 * Power[Bits - 2]
  BY <1>1, PowerFacts
<1>3. Power[Bits] = 2 * Power[Bits - 1]
  BY <1>1, PowerFacts
<1>. QED BY <1>2, <1>3 DEF W, Lowest

-----------------------------------------------------------------------------
(* Bitwise operators, by the table of two bits; a symmetric one commutes,  *)
(* and all bits of a mask are one bit.                                     *)

(* What a bitwise operator does to two bits, and the function that does so *)
(* to every bit, from the lowest.                                          *)
Tables == [{0, 1} -> [{0, 1} -> {0, 1}]]

Bitwise(g, table) ==
    /\ g \in [Nat -> [Nat -> [Nat -> Nat]]]
    /\ \A p, q \in Nat : g[0][p][q] = 0
    /\ \A n, p, q \in Nat :
           g[n + 1][p][q] = Power[n] * table[Top(p, n)][Top(q, n)]
                            + g[n][Rest(p, n)][Rest(q, n)]

(* A number is taken apart into a bit and what is left.                    *)
LEMMA TopAndRest ==
    ASSUME NEW n \in Nat, NEW p \in Nat
    PROVE  Top(p, n) \in {0, 1} /\ Rest(p, n) \in Nat
BY PowerFacts DEF Top, Rest

(* A bit at a place weighs nothing or the power of that place.             *)
LEMMA BitWeight ==
    ASSUME NEW n \in Nat, NEW b \in {0, 1}
    PROVE  Power[n] * b = (IF b = 0 THEN 0 ELSE Power[n]) /\ Power[n] * b \in Nat
<1>1. Power[n] \in Nat
  BY PowerFacts
<1>2. CASE b = 0
  BY <1>1, <1>2
<1>3. CASE b = 1
  BY <1>1, <1>3
<1>. QED BY <1>2, <1>3

(* A bitwise operator is the value at Bits of a function with the recursion*)
(* of EachBit.                                                             *)
LEMMA EachBitFacts ==
    ASSUME NEW table \in Tables
    PROVE  \E g : Bitwise(g, table) /\ EachBit(table) = g[Bits]
<1>. DEFINE V == [Nat -> [Nat -> Nat]]
            Entry(n, v, p, q) == Power[n] * table[Top(p, n)][Top(q, n)]
                                     + v[Rest(p, n)][Rest(q, n)]
            Level(n, v) == [p \in Nat |-> [q \in Nat |-> Entry(n, v, p, q)]]
            start == [p \in Nat |-> [q \in Nat |-> 0]]
            step == [x \in Nat \X V |-> Level(x[1], x[2])]
            Body(f, n) == [p \in Nat |-> [q \in Nat |->
                IF n = 0 THEN 0
                ELSE Power[n - 1] * table[Top(p, n - 1)][Top(q, n - 1)]
                         + f[n - 1][Rest(p, n - 1)][Rest(q, n - 1)]]]
            Recursive(f) == f = [n \in Nat |-> Body(f, n)]
<1>1. ASSUME NEW n \in Nat, NEW v \in V
      PROVE  Level(n, v) \in V
  <2>1. \A p, q \in Nat : Power[n] * table[Top(p, n)][Top(q, n)] \in Nat
      <3>1. \A p, q \in Nat : table[Top(p, n)][Top(q, n)] \in {0, 1}
          BY TopAndRest DEF Tables
      <3>. QED BY <3>1, BitWeight, Zenon
  <2>2. \A p, q \in Nat : v[Rest(p, n)][Rest(q, n)] \in Nat
      BY TopAndRest
  <2>3. \A p, q \in Nat : Entry(n, v, p, q) \in Nat
      <3>1. \A i, j \in Nat : i + j \in Nat
          OBVIOUS
      <3>. QED BY <2>1, <2>2, <3>1, Zenon
  <2>. DEFINE Row(p) == [q \in Nat |-> Entry(n, v, p, q)]
  <2>4. \A p \in Nat : Row(p) \in [Nat -> Nat]
      <3>. HIDE DEF Entry
      <3>. QED BY <2>3
  <2>5. Level(n, v) = [p \in Nat |-> Row(p)]
      BY Zenon
  <2>. HIDE DEF Row, Level
  <2>. QED BY <2>4, <2>5
<1>2. step \in Steps(V) /\ start \in V
  <2>1. start \in V
      OBVIOUS
  <2>2. \A x \in Nat \X V : Level(x[1], x[2]) \in V
      <3>. HIDE DEF Level, V
      <3>. QED BY <1>1
  <2>. HIDE DEF Level
  <2>. QED BY <2>1, <2>2 DEF Steps
<1>3. \A n \in Nat : \A v \in V : step[<<n, v>>] = Level(n, v)
  OBVIOUS
<1>4. start \in V /\ \A p, q \in Nat : start[p][q] = 0
  OBVIOUS
<1>5. PICK f : Follows(f, V, start, step)
  <2>. HIDE DEF step, start, V
  <2>. QED BY <1>2, RecursionExists, Zenon
<1>6. f \in [Nat -> V] /\ f[0] = start
  <2>. HIDE DEF step, start
  <2>. QED BY <1>5 DEF Follows
<1>7. \A n \in Nat : f[n + 1] = Level(n, f[n])
  <2>. HIDE DEF step, start, Level
  <2>. QED BY <1>3, <1>5 DEF Follows
<1>8. \A n \in Nat : f[n] = Body(f, n)
  <2>. SUFFICES ASSUME NEW n \in Nat
                PROVE  f[n] = Body(f, n)
      OBVIOUS
  <2>1. CASE n = 0
      BY <2>1, <1>6
  <2>2. CASE n # 0
      <3>1. n - 1 \in Nat /\ (n - 1) + 1 = n
          BY <2>2
      <3>2. f[n] = Level(n - 1, f[n - 1])
          BY <1>7, <3>1
      <3>. QED BY <2>2, <3>2
  <2>. QED BY <2>1, <2>2
<1>9. Recursive(f)
  <2>1. f = [n \in Nat |-> f[n]]
      BY <1>6
  <2>. HIDE DEF Body
  <2>. QED BY <1>8, <2>1
<1>. DEFINE below == CHOOSE h : Recursive(h)
<1>10. Recursive(below)
  BY <1>9, Zenon
<1>11. EachBit(table) = below[Bits]
  BY DEF EachBit
<1>. HIDE DEF below
<1>12. \A n \in Nat : below[n] = Body(below, n)
  <2>. HIDE DEF Body
  <2>. QED BY <1>10
<1>. DEFINE Same == {n \in Nat : below[n] = f[n]}
<1>13. \A n \in Nat : n \in Same
  <2>1. 0 \in Same
      BY <1>12, <1>8
  <2>2. ASSUME NEW n \in Nat, n \in Same
        PROVE  n + 1 \in Same
      <3>1. n + 1 \in Nat /\ n + 1 # 0 /\ (n + 1) - 1 = n /\ below[n] = f[n]
          BY <2>2
      <3>2. below[n + 1] = Body(below, n + 1) /\ f[n + 1] = Body(f, n + 1)
          <4>. HIDE DEF Body
          <4>. QED BY <1>12, <1>8
      <3>3. Body(below, n + 1) = Body(f, n + 1)
          BY <3>1
      <3>. QED BY <3>2, <3>3
  <2>. HIDE DEF Same
  <2>. QED BY <2>1, <2>2, SetInduction
<1>14. below[Bits] = f[Bits]
  BY <1>13, BitsAssumption
<1>15. Bitwise(f, table)
  <2>1. \A p, q \in Nat : f[0][p][q] = 0
      BY <1>6
  <2>2. \A n, p, q \in Nat :
           f[n + 1][p][q] = Power[n] * table[Top(p, n)][Top(q, n)]
                            + f[n][Rest(p, n)][Rest(q, n)]
      <3>1. \A n, p, q \in Nat : f[n + 1][p][q] = Entry(n, f[n], p, q)
          <4>1. \A n, p, q \in Nat : Level(n, f[n])[p][q] = Entry(n, f[n], p, q)
              <5>. HIDE DEF Entry
              <5>. QED BY Zenon
          <4>. HIDE DEF Entry, Level
          <4>. QED BY <1>7, <4>1
      <3>. QED BY <3>1, Zenon
  <2>3. f \in [Nat -> [Nat -> [Nat -> Nat]]]
      BY <1>6
  <2>. QED BY <2>1, <2>2, <2>3, Zenon DEF Bitwise
<1>. QED BY <1>11, <1>14, <1>15

(* The numbers of n bits; a bit, and all the bits, before n others.        *)
Below(n) == 0 .. Power[n] - 1
Weight(b, n) == IF b = 0 THEN 0 ELSE Power[n]
All(c, n) == IF c = 0 THEN 0 ELSE Power[n] - 1

(* A number of n + 1 bits is its top bit and a number of n bits.           *)
LEMMA Split ==
    ASSUME NEW n \in Nat, NEW p \in Below(n + 1)
    PROVE  /\ p \in Nat
           /\ Top(p, n) \in {0, 1}
           /\ Rest(p, n) \in Below(n) /\ Rest(p, n) \in Nat
           /\ p = Rest(p, n) + (IF Top(p, n) = 0 THEN 0 ELSE Power[n])
BY PowerFacts DEF Below, Top, Rest

(* A mask of n + 1 bits is one bit and the mask of n bits.                 *)
LEMMA SplitAll ==
    ASSUME NEW n \in Nat, NEW c \in {0, 1}
    PROVE  /\ All(c, n + 1) \in Below(n + 1)
           /\ Top(All(c, n + 1), n) = c
           /\ Rest(All(c, n + 1), n) = All(c, n)
BY PowerFacts DEF Below, All, Top, Rest

(* One more bit of a bitwise operator, with sums for products.             *)
LEMMA BitwiseStep ==
    ASSUME NEW table \in Tables, NEW g, Bitwise(g, table), NEW n \in Nat,
           NEW p \in Below(n + 1), NEW q \in Below(n + 1)
    PROVE  /\ table[Top(p, n)][Top(q, n)] \in {0, 1}
           /\ g[n][Rest(p, n)][Rest(q, n)] \in Nat
           /\ g[n + 1][p][q] = Weight(table[Top(p, n)][Top(q, n)], n)
                               + g[n][Rest(p, n)][Rest(q, n)]
<1>1. p \in Nat /\ q \in Nat
  BY Split
<1>2. table[Top(p, n)][Top(q, n)] \in {0, 1}
  BY Split DEF Tables
<1>3. g[n + 1][p][q] = Power[n] * table[Top(p, n)][Top(q, n)]
                       + g[n][Rest(p, n)][Rest(q, n)]
  BY <1>1, Zenon DEF Bitwise
<1>4. Power[n] * table[Top(p, n)][Top(q, n)] = Weight(table[Top(p, n)][Top(q, n)], n)
  BY <1>2, BitWeight, Zenon DEF Weight
<1>5. g \in [Nat -> [Nat -> [Nat -> Nat]]]
  BY DEF Bitwise
<1>6. g[n][Rest(p, n)][Rest(q, n)] \in Nat
  <2>1. Rest(p, n) \in Nat /\ Rest(q, n) \in Nat
      BY Split
  <2>2. g[n] \in [Nat -> [Nat -> Nat]]
      BY <1>5
  <2>3. g[n][Rest(p, n)] \in [Nat -> Nat]
      BY <2>1, <2>2
  <2>. QED BY <2>1, <2>3
<1>. QED BY <1>2, <1>3, <1>4, <1>6

(* A bitwise operator stays in its width.                                  *)
LEMMA BitwiseRange ==
    ASSUME NEW table \in Tables, NEW g, Bitwise(g, table), NEW n \in Nat
    PROVE  \A p, q \in Below(n) : g[n][p][q] \in Below(n)
<1>. DEFINE T == {m \in Nat : \A p, q \in Below(m) : g[m][p][q] \in Below(m)}
<1>1. 0 \in T
  <2>1. \A p \in Below(0) : p = 0
      BY PowerFacts DEF Below
  <2>2. g[0][0][0] = 0 /\ 0 \in Below(0)
      BY PowerFacts DEF Below, Bitwise
  <2>. QED BY <2>1, <2>2
<1>2. ASSUME NEW m \in Nat, m \in T
      PROVE  m + 1 \in T
  <2>1. ASSUME NEW p \in Below(m + 1), NEW q \in Below(m + 1)
        PROVE  g[m + 1][p][q] \in Below(m + 1)
      <3>1. g[m][Rest(p, m)][Rest(q, m)] \in Below(m)
          BY <1>2, Split
      <3>2. g[m + 1][p][q] = Weight(table[Top(p, m)][Top(q, m)], m)
                             + g[m][Rest(p, m)][Rest(q, m)]
          BY BitwiseStep, Zenon
      <3>. QED BY <3>1, <3>2, PowerFacts DEF Below, Weight
  <2>2. m + 1 \in Nat
      OBVIOUS
  <2>. QED BY <2>1, <2>2, Zenon
<1>3. n \in T
  <2>. HIDE DEF T
  <2>. QED BY <1>1, <1>2, SetInduction
<1>. QED BY <1>3

(* What an operator makes of a number and of a mask depends on the two     *)
(* results that the mask's digit leaves.                                   *)
LEMMA BitwiseMask ==
    ASSUME NEW table \in Tables, NEW g, Bitwise(g, table), NEW n \in Nat, NEW c \in {0, 1}
    PROVE  \A p \in Below(n) :
              g[n][p][All(c, n)]
                  = IF table[0][c] = 0
                    THEN IF table[1][c] = 0 THEN 0 ELSE p
                    ELSE IF table[1][c] = 0 THEN Power[n] - 1 - p ELSE Power[n] - 1
<1>. DEFINE result(m, p) == IF table[0][c] = 0
                            THEN IF table[1][c] = 0 THEN 0 ELSE p
                            ELSE IF table[1][c] = 0 THEN Power[m] - 1 - p ELSE Power[m] - 1
            T == {m \in Nat : \A p \in Below(m) : g[m][p][All(c, m)] = result(m, p)}
<1>0. table[0][c] \in {0, 1} /\ table[1][c] \in {0, 1}
  BY DEF Tables
<1>1. 0 \in T
  <2>1. \A p \in Below(0) : p = 0
      BY PowerFacts DEF Below
  <2>2. g[0][0][0] = 0 /\ All(c, 0) = 0
      BY PowerFacts DEF All, Bitwise
  <2>3. result(0, 0) = 0
      BY PowerFacts
  <2>. HIDE DEF result
  <2>. QED BY <2>1, <2>2, <2>3
<1>2. ASSUME NEW m \in Nat, m \in T
      PROVE  m + 1 \in T
  <2>1. ASSUME NEW p \in Below(m + 1)
        PROVE  g[m + 1][p][All(c, m + 1)] = result(m + 1, p)
      <3>1. g[m][Rest(p, m)][All(c, m)] = result(m, Rest(p, m))
          BY <1>2, Split
      <3>2. g[m + 1][p][All(c, m + 1)] = Weight(table[Top(p, m)][c], m)
                                         + g[m][Rest(p, m)][All(c, m)]
          <4>1. All(c, m + 1) \in Below(m + 1) /\ Top(All(c, m + 1), m) = c
                /\ Rest(All(c, m + 1), m) = All(c, m)
              BY SplitAll
          <4>2. g[m + 1][p][All(c, m + 1)]
                    = Weight(table[Top(p, m)][Top(All(c, m + 1), m)], m)
                      + g[m][Rest(p, m)][Rest(All(c, m + 1), m)]
              BY <4>1, BitwiseStep, Zenon
          <4>. QED BY <4>1, <4>2
      <3>3. g[m + 1][p][All(c, m + 1)] = Weight(table[Top(p, m)][c], m)
                                         + result(m, Rest(p, m))
          BY <3>1, <3>2
      <3>4. /\ Rest(p, m) \in Nat /\ Rest(p, m) <= Power[m] - 1
            /\ p = Rest(p, m) + (IF Top(p, m) = 0 THEN 0 ELSE Power[m])
            /\ Power[m] \in Nat /\ Power[m + 1] = 2 * Power[m]
          BY Split, PowerFacts DEF Below
      <3>5. CASE Top(p, m) = 0
          BY <1>0, <3>3, <3>4, <3>5 DEF Weight
      <3>6. CASE Top(p, m) = 1
          BY <1>0, <3>3, <3>4, <3>6 DEF Weight
      <3>. QED BY <3>5, <3>6, Split
  <2>2. m + 1 \in Nat
      OBVIOUS
  <2>. QED BY <2>1, <2>2, Zenon
<1>3. n \in T
  <2>. HIDE DEF T
  <2>. QED BY <1>1, <1>2, SetInduction
<1>. QED BY <1>3

(* The table does not tell its two bits apart.                             *)
Symmetric(table) == \A i, j \in {0, 1} : table[i][j] = table[j][i]

(* A symmetric table makes a commutative operator.                         *)
LEMMA BitwiseSwapped ==
    ASSUME NEW table \in Tables, NEW g, Bitwise(g, table), NEW n \in Nat,
           Symmetric(table)
    PROVE  \A p, q \in Below(n) : g[n][p][q] = g[n][q][p]
<1>. DEFINE T == {m \in Nat : \A p, q \in Below(m) : g[m][p][q] = g[m][q][p]}
<1>1. 0 \in T
  <2>1. \A p \in Below(0) : p = 0
      BY PowerFacts DEF Below, Weight
  <2>. QED BY <2>1
<1>2. ASSUME NEW m \in Nat, m \in T
      PROVE  m + 1 \in T
  <2>1. ASSUME NEW p \in Below(m + 1), NEW q \in Below(m + 1)
        PROVE  g[m + 1][p][q] = g[m + 1][q][p]
      <3>1. g[m][Rest(p, m)][Rest(q, m)] = g[m][Rest(q, m)][Rest(p, m)]
          BY <1>2, Split
      <3>2. table[Top(p, m)][Top(q, m)] = table[Top(q, m)][Top(p, m)]
          BY Split DEF Symmetric
      <3>3. g[m + 1][p][q] = Weight(table[Top(p, m)][Top(q, m)], m)
                             + g[m][Rest(p, m)][Rest(q, m)]
          BY BitwiseStep, Zenon
      <3>4. g[m + 1][q][p] = Weight(table[Top(q, m)][Top(p, m)], m)
                             + g[m][Rest(q, m)][Rest(p, m)]
          BY BitwiseStep, Zenon
      <3>. QED BY <3>1, <3>2, <3>3, <3>4
  <2>. QED BY <2>1
<1>3. n \in T
  <2>. HIDE DEF T
  <2>. QED BY <1>1, <1>2, SetInduction
<1>. QED BY <1>3

(* The tables of And, Or and Xor.                                          *)
Products == [i \in {0, 1} |-> [j \in {0, 1} |-> i * j]]
Joins == [i \in {0, 1} |-> [j \in {0, 1} |-> i + j - i * j]]
Sums == [i \in {0, 1} |-> [j \in {0, 1} |-> (i + j) % 2]]

(* The tables of AND, OR and XOR, entry by entry.                          *)
LEMMA TableFacts ==
    /\ Products \in Tables /\ Joins \in Tables /\ Sums \in Tables
    /\ Products[0][0] = 0 /\ Products[0][1] = 0 /\ Products[1][0] = 0 /\ Products[1][1] = 1
    /\ Joins[0][0] = 0 /\ Joins[0][1] = 1 /\ Joins[1][0] = 1 /\ Joins[1][1] = 1
    /\ Sums[0][0] = 0 /\ Sums[0][1] = 1 /\ Sums[1][0] = 1 /\ Sums[1][1] = 0
<1>1. \A i, j \in {0, 1} : /\ i * j \in {0, 1} /\ i + j - i * j \in {0, 1}
                           /\ (i + j) % 2 \in {0, 1}
  OBVIOUS
<1>2. Products \in Tables /\ Joins \in Tables /\ Sums \in Tables
  BY <1>1 DEF Products, Joins, Sums, Tables
<1>3. /\ Products[0][0] = 0 * 0 /\ Products[0][1] = 0 * 1
      /\ Products[1][0] = 1 * 0 /\ Products[1][1] = 1 * 1
  BY DEF Products
<1>4. /\ Joins[0][0] = 0 + 0 - 0 * 0 /\ Joins[0][1] = 0 + 1 - 0 * 1
      /\ Joins[1][0] = 1 + 0 - 1 * 0 /\ Joins[1][1] = 1 + 1 - 1 * 1
  BY DEF Joins
<1>5. /\ Sums[0][0] = (0 + 0) % 2 /\ Sums[0][1] = (0 + 1) % 2
      /\ Sums[1][0] = (1 + 0) % 2 /\ Sums[1][1] = (1 + 1) % 2
  BY DEF Sums
<1>. QED BY <1>2, <1>3, <1>4, <1>5

(* The three operators of Width have the recursion of EachBit.             *)
LEMMA Operators ==
    /\ \E g : Bitwise(g, Products) /\ Both = g[Bits]
    /\ \E g : Bitwise(g, Joins) /\ Either = g[Bits]
    /\ \E g : Bitwise(g, Sums) /\ Different = g[Bits]
<1>1. Both = EachBit(Products) /\ Either = EachBit(Joins) /\ Different = EachBit(Sums)
  BY Zenon DEF Both, Either, Different, Products, Joins, Sums
<1>. QED BY <1>1, TableFacts, EachBitFacts, Zenon

(* The numbers of Bits bits, and their masks.                              *)
LEMMA Frame ==
    /\ Bits \in Nat /\ Number = Below(Bits)
    /\ All(0, Bits) = 0 /\ All(1, Bits) = Ones
    /\ Power[Bits] = W
    /\ 0 \in Number /\ Ones \in Number
BY BitsAssumption, WidthFacts DEF Number, Below, All, Ones, W

(* What a bitwise operator makes of a number and a mask, in either order.  *)
LEMMA AndFacts ==
    /\ \A p, q \in Number : And(p, q) \in Number /\ And(p, q) = And(q, p)
    /\ \A p \in Number : /\ And(p, 0) = 0 /\ And(0, p) = 0
                         /\ And(p, Ones) = p /\ And(Ones, p) = p
<1>1. PICK g : Bitwise(g, Products) /\ Both = g[Bits]
  BY Operators
<1>2. \A p, q \in Number : g[Bits][p][q] \in Number
  BY <1>1, Frame, TableFacts, BitwiseRange, Zenon
<1>3. \A p, q \in Number : g[Bits][p][q] = g[Bits][q][p]
  <2>1. Symmetric(Products) /\ Products \in Tables
      BY TableFacts DEF Symmetric
  <2>2. \A p, q \in Below(Bits) : g[Bits][p][q] = g[Bits][q][p]
      BY <1>1, <2>1, Frame, BitwiseSwapped
  <2>. QED BY <2>2, Frame
<1>4. \A p \in Number : g[Bits][p][0] = 0
  BY <1>1, Frame, TableFacts, BitwiseMask
<1>5. \A p \in Number : g[Bits][p][Ones] = p
  BY <1>1, Frame, TableFacts, BitwiseMask
<1>6. \A p, q : And(p, q) = g[Bits][p][q]
  BY <1>1 DEF And
<1>7. \A p, q \in Number : g[Bits][p][q] \in Number /\ g[Bits][p][q] = g[Bits][q][p]
  BY <1>2, <1>3
<1>8. \A p \in Number : g[Bits][0][p] = g[Bits][p][0] /\ g[Bits][Ones][p] = g[Bits][p][Ones]
  BY <1>3, Frame, Zenon
<1>. QED BY <1>4, <1>5, <1>6, <1>7, <1>8, Zenon

(* OR, as AndFacts says of AND.                                            *)
LEMMA OrFacts ==
    /\ \A p, q \in Number : Or(p, q) \in Number /\ Or(p, q) = Or(q, p)
    /\ \A p \in Number : /\ Or(p, 0) = p /\ Or(0, p) = p
                         /\ Or(p, Ones) = Ones /\ Or(Ones, p) = Ones
<1>1. PICK g : Bitwise(g, Joins) /\ Either = g[Bits]
  BY Operators
<1>2. \A p, q \in Number : g[Bits][p][q] \in Number
  BY <1>1, Frame, TableFacts, BitwiseRange, Zenon
<1>3. \A p, q \in Number : g[Bits][p][q] = g[Bits][q][p]
  <2>1. Symmetric(Joins) /\ Joins \in Tables
      BY TableFacts DEF Symmetric
  <2>2. \A p, q \in Below(Bits) : g[Bits][p][q] = g[Bits][q][p]
      BY <1>1, <2>1, Frame, BitwiseSwapped
  <2>. QED BY <2>2, Frame
<1>4. \A p \in Number : g[Bits][p][0] = p
  BY <1>1, Frame, TableFacts, BitwiseMask
<1>5. \A p \in Number : g[Bits][p][Ones] = Ones
  BY <1>1, Frame, TableFacts, BitwiseMask DEF Ones
<1>6. \A p, q : Or(p, q) = g[Bits][p][q]
  BY <1>1 DEF Or
<1>7. \A p, q \in Number : g[Bits][p][q] \in Number /\ g[Bits][p][q] = g[Bits][q][p]
  BY <1>2, <1>3
<1>8. \A p \in Number : g[Bits][0][p] = g[Bits][p][0] /\ g[Bits][Ones][p] = g[Bits][p][Ones]
  BY <1>3, Frame, Zenon
<1>. QED BY <1>4, <1>5, <1>6, <1>7, <1>8, Zenon

(* XOR, as AndFacts says of AND.                                           *)
LEMMA XorFacts ==
    /\ \A p, q \in Number : Xor(p, q) \in Number /\ Xor(p, q) = Xor(q, p)
    /\ \A p \in Number : /\ Xor(p, 0) = p /\ Xor(0, p) = p
                         /\ Xor(p, Ones) = Invert(p) /\ Xor(Ones, p) = Invert(p)
<1>1. PICK g : Bitwise(g, Sums) /\ Different = g[Bits]
  BY Operators
<1>2. \A p, q \in Number : g[Bits][p][q] \in Number
  BY <1>1, Frame, TableFacts, BitwiseRange, Zenon
<1>3. \A p, q \in Number : g[Bits][p][q] = g[Bits][q][p]
  <2>1. Symmetric(Sums) /\ Sums \in Tables
      BY TableFacts DEF Symmetric
  <2>2. \A p, q \in Below(Bits) : g[Bits][p][q] = g[Bits][q][p]
      BY <1>1, <2>1, Frame, BitwiseSwapped
  <2>. QED BY <2>2, Frame
<1>4. \A p \in Number : g[Bits][p][0] = p
  BY <1>1, Frame, TableFacts, BitwiseMask
<1>5. \A p \in Number : g[Bits][p][Ones] = Invert(p)
  BY <1>1, Frame, TableFacts, BitwiseMask DEF Ones, Invert
<1>6. \A p, q : Xor(p, q) = g[Bits][p][q]
  BY <1>1 DEF Xor
<1>7. \A p, q \in Number : g[Bits][p][q] \in Number /\ g[Bits][p][q] = g[Bits][q][p]
  BY <1>2, <1>3
<1>8. \A p \in Number : g[Bits][0][p] = g[Bits][p][0] /\ g[Bits][Ones][p] = g[Bits][p][Ones]
  BY <1>3, Frame, Zenon
<1>. QED BY <1>4, <1>5, <1>6, <1>7, <1>8, Zenon

(* The sign of an exclusive or tells whether the signs differ.             *)
LEMMA XorSign ==
    ASSUME NEW p \in Number, NEW q \in Number
    PROVE  Xor(p, q) >= Lowest <=> ((p >= Lowest) # (q >= Lowest))
<1>1. PICK g : Bitwise(g, Sums) /\ Different = g[Bits]
  BY Operators
<1>. DEFINE k == Bits - 1
<1>2. k \in Nat /\ k + 1 = Bits /\ Power[k] = Lowest
  BY BitsAssumption DEF Lowest
<1>3. p \in Below(k + 1) /\ q \in Below(k + 1)
  BY <1>2, Frame
<1>. HIDE DEF k
<1>4. /\ g[k + 1][p][q] = Weight(Sums[Top(p, k)][Top(q, k)], k)
                          + g[k][Rest(p, k)][Rest(q, k)]
      /\ Sums[Top(p, k)][Top(q, k)] \in {0, 1}
  BY <1>1, <1>2, <1>3, TableFacts, BitwiseStep, Zenon
<1>5. g[k][Rest(p, k)][Rest(q, k)] \in Below(k)
  BY <1>1, <1>2, <1>3, TableFacts, BitwiseRange, Split, Zenon
<1>6. Xor(p, q) = g[k + 1][p][q]
  BY <1>1, <1>2 DEF Xor
<1>7. Xor(p, q) >= Lowest <=> Sums[Top(p, k)][Top(q, k)] = 1
  BY <1>2, <1>4, <1>5, <1>6, WidthFacts DEF Below, Weight
<1>8. Top(p, k) = (IF p >= Lowest THEN 1 ELSE 0) /\ Top(q, k) = (IF q >= Lowest THEN 1 ELSE 0)
  BY <1>2, WidthFacts DEF Top, Number
<1>. QED BY <1>7, <1>8, TableFacts

(* Joining a lowest digit to an even number adds it.                       *)
LEMMA OrLowest ==
    ASSUME NEW a \in Nat, NEW b \in {0, 1}, 2 * a \in Number
    PROVE  Or(2 * a, b) = 2 * a + b
<1>1. PICK g : Bitwise(g, Joins) /\ Either = g[Bits]
  BY Operators
<1>. DEFINE T == {m \in Nat : \A c \in Nat : 2 * c \in Below(m + 1) => g[m + 1][2 * c][b] = 2 * c + b}
<1>2. \A n \in Nat : \A p, q \in Below(n + 1) :
          g[n + 1][p][q] = Weight(Joins[Top(p, n)][Top(q, n)], n) + g[n][Rest(p, n)][Rest(q, n)]
  <2>1. Joins \in Tables
      BY TableFacts
  <2>. QED BY <1>1, <2>1, BitwiseStep
<1>3. 0 \in T
  <2>1. \A c \in Nat : 2 * c \in Below(0 + 1) => 2 * c = 0
      BY PowerFacts DEF Below
  <2>2. g[0 + 1][0][b] = b
      <3>1. 0 \in Below(0 + 1) /\ b \in Below(0 + 1) /\ 0 \in Nat
          BY PowerFacts DEF Below
      <3>2. Top(0, 0) = 0 /\ Rest(0, 0) = 0 /\ Top(b, 0) = b /\ Rest(b, 0) = 0
          BY PowerFacts DEF Top, Rest
      <3>3. g[0 + 1][0][b] = Weight(Joins[Top(0, 0)][Top(b, 0)], 0) + g[0][Rest(0, 0)][Rest(b, 0)]
          BY <1>2, <3>1
      <3>4. g[0][0][0] = 0
          BY <1>1 DEF Bitwise
      <3>5. Joins[0][b] = b
          BY TableFacts
      <3>. QED BY <3>2, <3>3, <3>4, <3>5, PowerFacts DEF Weight
  <2>. QED BY <2>1, <2>2
<1>4. ASSUME NEW m \in Nat, m \in T
      PROVE  m + 1 \in T
  <2>1. ASSUME NEW c \in Nat, 2 * c \in Below((m + 1) + 1)
        PROVE  g[(m + 1) + 1][2 * c][b] = 2 * c + b
      <3>. DEFINE n == m + 1
      <3>1. n \in Nat /\ Power[n] \in Nat /\ Power[m] \in Nat /\ Power[n] = 2 * Power[m]
            /\ Power[n] >= 2 /\ Power[n + 1] = 2 * Power[n]
          <4>1. n \in Nat
              OBVIOUS
          <4>2. Power[n] = 2 * Power[m] /\ Power[m] \in Nat /\ Power[m] >= 1
              BY PowerFacts
          <4>. HIDE DEF n
          <4>. QED BY <4>1, <4>2, PowerFacts
      <3>2. 2 * c \in Below(n + 1)
          BY <2>1
      <3>3. \A d \in Nat : 2 * d \in Below(n) => g[n][2 * d][b] = 2 * d + b
          BY <1>4
      <3>. HIDE DEF n
      <3>4. b \in Below(n + 1) /\ Top(b, n) = 0 /\ Rest(b, n) = b
          BY <3>1 DEF Below, Top, Rest
      <3>5. g[n + 1][2 * c][b] = Weight(Joins[Top(2 * c, n)][Top(b, n)], n)
                                 + g[n][Rest(2 * c, n)][Rest(b, n)]
          BY <1>2, <3>1, <3>2, <3>4
      <3>6. PICK d \in Nat : Rest(2 * c, n) = 2 * d
          <4>1. CASE 2 * c < Power[n]
              BY <4>1 DEF Rest
          <4>2. CASE ~(2 * c < Power[n])
              <5>1. c - Power[m] \in Nat /\ Rest(2 * c, n) = 2 * (c - Power[m])
                  BY <3>1, <4>2 DEF Rest
              <5>. QED BY <5>1
          <4>. QED BY <4>1, <4>2
      <3>7. g[n][2 * d][b] = 2 * d + b
          BY <3>1, <3>2, <3>3, <3>6, Split
      <3>8. Joins[Top(2 * c, n)][0] = Top(2 * c, n)
          BY <3>1, <3>2, Split, TableFacts
      <3>9. 2 * c = 2 * d + (IF Top(2 * c, n) = 0 THEN 0 ELSE Power[n])
          BY <3>1, <3>2, <3>6, Split
      <3>10. g[n + 1][2 * c][b] = 2 * c + b
          <4>1. g[n + 1][2 * c][b] = Weight(Top(2 * c, n), n) + (2 * d + b)
              BY <3>4, <3>5, <3>6, <3>7, <3>8
          <4>. QED BY <3>1, <3>9, <4>1 DEF Weight
      <3>. QED BY <3>10 DEF n
  <2>2. m + 1 \in Nat
      OBVIOUS
  <2>. QED BY <2>1, <2>2, Zenon
<1>5. Bits - 1 \in Nat /\ (Bits - 1) + 1 = Bits
  BY BitsAssumption
<1>6. Bits - 1 \in T
  <2>. HIDE DEF T
  <2>. QED BY <1>3, <1>4, <1>5, SetInduction
<1>7. g[Bits][2 * a][b] = 2 * a + b
  BY <1>5, <1>6, Frame
<1>. QED BY <1>1, <1>7 DEF Or

-----------------------------------------------------------------------------
(* Division by the width.                                                  *)

(* What \div and % are.                                                    *)
LEMMA DivMod ==
    ASSUME NEW n \in Int, NEW d \in Nat, d >= 1
    PROVE  /\ n \div d \in Int /\ n % d \in 0 .. d - 1
           /\ n = (n \div d) * d + (n % d)
OBVIOUS

(* A multiple is as far from zero as its unit, or zero.                    *)
LEMMA Multiples ==
    ASSUME NEW a \in Int, NEW d \in Nat, d >= 1
    PROVE  /\ a * d \in Int
           /\ a >= 1 => a * d >= d
           /\ a <= -1 => a * d <= -d
           /\ a = 0 => a * d = 0
OBVIOUS

(* A quotient and a remainder in range are what \div and % give.           *)
LEMMA DivModUnique ==
    ASSUME NEW n \in Int, NEW d \in Nat, d >= 1, NEW q \in Int, NEW r \in 0 .. d - 1,
           n = q * d + r
    PROVE  n \div d = q /\ n % d = r
<1>. DEFINE p == n \div d
            m == n % d
<1>1. p \in Int /\ m \in 0 .. d - 1 /\ n = p * d + m
  BY DivMod
<1>. HIDE DEF p, m
<1>2. (p - q) * d = p * d - q * d
  BY <1>1
<1>3. p - q \in Int /\ (p - q) * d = r - m
  BY <1>1, <1>2
<1>4. p - q = 0
  BY <1>1, <1>3, Multiples
<1>5. p = q /\ m = r
  BY <1>1, <1>3, <1>4
<1>. QED BY <1>5 DEF p, m

-----------------------------------------------------------------------------
(* Elements as unsigned and signed numbers, and lanes.                     *)

(* What is left of a number that is at most one width too small or too     *)
(* large, and of one that differs by a multiple of the width.              *)
LEMMA UFacts ==
    ASSUME NEW n \in Int
    PROVE  /\ U(n) \in Number
           /\ n \in Number => U(n) = n
           /\ n + W \in Number => U(n) = n + W
           /\ n - W \in Number => U(n) = n - W
<1>1. W \in Nat /\ W >= 1
  BY WidthFacts
<1>2. n % W \in 0 .. W - 1
  BY <1>1, DivMod
<1>3. n \in 0 .. W - 1 => n % W = n
  BY <1>1, DivModUnique
<1>4. n + W \in 0 .. W - 1 => n % W = n + W
  <2>1. n = (-1) * W + (n + W)
      BY <1>1
  <2>. QED BY <1>1, <2>1, DivModUnique
<1>5. n - W \in 0 .. W - 1 => n % W = n - W
  <2>1. n = 1 * W + (n - W)
      BY <1>1
  <2>. QED BY <1>1, <2>1, DivModUnique
<1>. QED BY <1>2, <1>3, <1>4, <1>5 DEF U, Number

(* U does not see multiples of W.                                          *)
LEMMA UShift ==
    ASSUME NEW n \in Int, NEW k \in Int
    PROVE  U(n + k * W) = U(n) /\ U(k * W + n) = U(n)
<1>1. W \in Nat /\ W >= 1
  BY WidthFacts
<1>. DEFINE q == n \div W
            r == n % W
<1>2. q \in Int /\ r \in 0 .. W - 1 /\ n = q * W + r
  BY <1>1, DivMod
<1>. HIDE DEF q, r
<1>3. n + k * W = (q + k) * W + r /\ q + k \in Int /\ n + k * W \in Int
  BY <1>1, <1>2
<1>4. (n + k * W) % W = r
  BY <1>1, <1>2, <1>3, DivModUnique
<1>5. n + k * W = k * W + n
  BY <1>1
<1>. QED BY <1>4, <1>5 DEF U, r

(* The signed reading of a number.                                         *)
LEMMA SFacts ==
    ASSUME NEW n \in Number
    PROVE  /\ n \in Nat /\ n < W
           /\ S(n) \in Int /\ -Lowest <= S(n) /\ S(n) < Lowest
           /\ S(n) = IF n < Lowest THEN n ELSE n - W
           /\ U(S(n)) = n /\ U(n) = n
<1>1. S(n) \in Int /\ n \in Nat /\ n < W /\ n \in Int
  BY WidthFacts DEF S, Number
<1>2. U(S(n)) = n
  BY <1>1, WidthFacts, UFacts DEF S
<1>. QED BY <1>1, <1>2, WidthFacts, UFacts DEF S, Number

(* A signed number that is stored and read again.                          *)
LEMMA USigned ==
    ASSUME NEW n \in Int, -Lowest <= n, n < Lowest
    PROVE  S(U(n)) = n /\ U(n) = (IF n < 0 THEN n + W ELSE n) /\ U(n) \in Number
<1>1. n >= 0 => U(n) = n
  BY WidthFacts, UFacts DEF Number
<1>2. n < 0 => U(n) = n + W
  BY WidthFacts, UFacts DEF Number
<1>. QED BY <1>1, <1>2, WidthFacts DEF S, Number

(* An element that is a mask holds one bit, in all of its bits.            *)
Mask == {0, Ones}

(* What every operator makes of a mask.                                    *)
LEMMA MaskFacts ==
    ASSUME NEW a \in Mask
    PROVE  /\ a \in Number /\ Invert(a) \in Mask
           /\ Invert(a) = (IF a = 0 THEN Ones ELSE 0)
           /\ S(a) = (IF a = 0 THEN 0 ELSE -1)
           /\ \A p, q : blendv(p, q, a) = IF a = 0 THEN p ELSE q
           /\ \A q \in Number : And(a, q) = (IF a = 0 THEN 0 ELSE q) /\ And(q, a) = And(a, q)
           /\ \A q \in Number : Or(a, q) = (IF a = 0 THEN q ELSE Ones) /\ Or(q, a) = Or(a, q)
           /\ \A q \in Number : Xor(a, q) = (IF a = 0 THEN q ELSE Invert(q)) /\ Xor(q, a) = Xor(a, q)
           /\ \A q \in Number : andnot(a, q) = IF a = 0 THEN q ELSE 0
<1>1. Ones \in Nat /\ Ones > 0 /\ Ones = W - 1 /\ Ones \in Number
  BY WidthFacts DEF Ones, Number
<1>2. a \in Number /\ Invert(a) \in Mask /\ Invert(a) = (IF a = 0 THEN Ones ELSE 0)
  BY <1>1, WidthFacts DEF Number, Mask, Invert
<1>3. S(a) = (IF a = 0 THEN 0 ELSE -1)
  BY <1>1, WidthFacts DEF Mask, S
<1>4. \A p, q : blendv(p, q, a) = IF a = 0 THEN p ELSE q
  BY <1>3 DEF blendv
<1>5. \A q \in Number : And(a, q) = (IF a = 0 THEN 0 ELSE q) /\ And(q, a) = And(a, q)
  BY <1>2, AndFacts DEF Mask
<1>6. \A q \in Number : Or(a, q) = (IF a = 0 THEN q ELSE Ones) /\ Or(q, a) = Or(a, q)
  BY <1>2, OrFacts DEF Mask
<1>7. \A q \in Number : Xor(a, q) = (IF a = 0 THEN q ELSE Invert(q)) /\ Xor(q, a) = Xor(a, q)
  BY <1>2, XorFacts DEF Mask
<1>8. \A q \in Number : andnot(a, q) = IF a = 0 THEN q ELSE 0
  BY <1>1, <1>2, AndFacts DEF Mask, andnot
<1>. QED BY <1>2, <1>3, <1>4, <1>5, <1>6, <1>7, <1>8

(* r128::set makes masks.                                                  *)
LEMMA SetFacts ==
    /\ \A v : set(v) \in Mask /\ (set(v) = 0 <=> ~v)
    /\ 0 \in Mask /\ Ones \in Mask /\ Ones # 0
    /\ 0 \in Number /\ Ones \in Number
<1>1. Ones \in Nat /\ Ones > 0 /\ Ones \in Number /\ 0 \in Number
  BY WidthFacts DEF Ones, Number
<1>2. ASSUME NEW v
      PROVE  set(v) \in Mask /\ (set(v) = 0 <=> ~v)
  BY <1>1 DEF Mask, set
<1>3. 0 \in Mask /\ Ones \in Mask /\ Ones # 0
  BY <1>1 DEF Mask
<1>. QED BY <1>1, <1>2, <1>3, Zenon

(* The elements of a lane.                                                 *)
LEMMA LaneFacts ==
    ASSUME NEW x \in Lane
    PROVE  /\ x.h \in Number /\ x.m \in Number /\ x.l \in Number /\ x.vd \in Number
           /\ x.vcol \in Mask /\ x.vcoh \in Mask /\ x.vccl \in Mask /\ x.vcch \in Mask
           /\ x.vce \in Mask
BY DEF Lane, Mask

(* A result that is copied to ACCL and vd leaves a lane.                   *)
LEMMA CopiedFacts ==
    ASSUME NEW x \in Lane, NEW v \in Number
    PROVE  Copied(x, v) \in Lane /\ Uncarried(x) \in Lane /\ Clipped(x) \in Lane
BY SetFacts DEF Lane, Copied, Uncarried, Clipped, Mask

-----------------------------------------------------------------------------
(* Comparisons, sums and differences.                                      *)

(* VEQ, VNE, VGE, VLT and VMRG: the same choice in masks and in words.     *)
LEMMA ComparisonsAgree ==
    ASSUME NEW x \in Lane, NEW s \in Number, NEW t \in Number
    PROVE  /\ simdVEQ(x, s, t) = VEQ(x, s, t)
           /\ simdVNE(x, s, t) = VNE(x, s, t)
           /\ simdVGE(x, s, t) = VGE(x, s, t)
           /\ simdVLT(x, s, t) = VLT(x, s, t)
           /\ simdVMRG(x, s, t) = VMRG(x, s, t)
<1>. DEFINE eq == cmpeq(s, t)
            gt == cmpgt(s, t)
            lt == cmpgt(t, s)
<1>1. /\ eq \in Mask /\ (eq = 0 <=> s # t)
      /\ gt \in Mask /\ (gt = 0 <=> ~(S(s) > S(t)))
      /\ lt \in Mask /\ (lt = 0 <=> ~(S(s) < S(t)))
  BY SetFacts, SFacts DEF cmpeq, cmpgt
<1>2. ASSUME NEW chosen, NEW vccl \in Mask, vccl = set(chosen)
      PROVE  Compared(x, s, t, vccl) = Select(x, chosen, s, t)
  <2>1. blendv(t, s, vccl) = IF chosen THEN s ELSE t
      BY <1>2, MaskFacts, SetFacts
  <2>. QED BY <1>2, <2>1 DEF Compared, Select
<1>. HIDE DEF eq, gt, lt
<1>3. simdVEQ(x, s, t) = VEQ(x, s, t)
  <2>1. andnot(x.vcoh, eq) = set(~get(x.vcoh) /\ s = t) /\ andnot(x.vcoh, eq) \in Mask
      <3>1. andnot(x.vcoh, eq) = IF x.vcoh = 0 THEN eq ELSE 0
          BY <1>1, LaneFacts, MaskFacts, SetFacts
      <3>. QED BY <1>1, <3>1, SetFacts, LaneFacts DEF get, set, Mask
  <2>. QED BY <1>2, <2>1 DEF simdVEQ, VEQ, eq
<1>4. simdVNE(x, s, t) = VNE(x, s, t)
  <2>1. Or(And(x.vcoh, eq), Invert(eq)) = set(s # t \/ get(x.vcoh))
        /\ Or(And(x.vcoh, eq), Invert(eq)) \in Mask
      <3>1. And(x.vcoh, eq) \in Mask /\ And(x.vcoh, eq) = IF x.vcoh = 0 THEN 0 ELSE eq
          BY <1>1, LaneFacts, MaskFacts, SetFacts
      <3>2. Or(And(x.vcoh, eq), Invert(eq))
                = IF And(x.vcoh, eq) = 0 THEN Invert(eq) ELSE Ones
          BY <1>1, <3>1, MaskFacts
      <3>. QED BY <1>1, <3>1, <3>2, MaskFacts, SetFacts, LaneFacts DEF get, set, Mask
  <2>. QED BY <1>2, <2>1 DEF simdVNE, VNE, eq
<1>5. simdVGE(x, s, t) = VGE(x, s, t)
  <2>1. Or(gt, andnot(And(x.vcoh, x.vcol), eq))
            = set(S(s) > S(t) \/ (s = t /\ (~get(x.vcol) \/ ~get(x.vcoh))))
        /\ Or(gt, andnot(And(x.vcoh, x.vcol), eq)) \in Mask
      <3>1. And(x.vcoh, x.vcol) \in Mask
            /\ And(x.vcoh, x.vcol) = IF x.vcoh = 0 THEN 0 ELSE x.vcol
          <4>1. x.vcoh \in Mask /\ x.vcol \in Mask /\ x.vcol \in Number
              BY LaneFacts, MaskFacts
          <4>. QED BY <4>1, MaskFacts, SetFacts
      <3>2. andnot(And(x.vcoh, x.vcol), eq) \in Mask
            /\ andnot(And(x.vcoh, x.vcol), eq) = IF And(x.vcoh, x.vcol) = 0 THEN eq ELSE 0
          BY <1>1, <3>1, MaskFacts, SetFacts
      <3>3. Or(gt, andnot(And(x.vcoh, x.vcol), eq))
                = IF gt = 0 THEN andnot(And(x.vcoh, x.vcol), eq) ELSE Ones
          BY <1>1, <3>2, MaskFacts
      <3>. QED BY <1>1, <3>1, <3>2, <3>3, SetFacts, LaneFacts DEF get, set, Mask
  <2>. QED BY <1>2, <2>1 DEF simdVGE, VGE, eq, gt
<1>6. simdVLT(x, s, t) = VLT(x, s, t)
  <2>1. Or(lt, And(x.vcol, And(x.vcoh, eq)))
            = set(S(s) < S(t) \/ (s = t /\ get(x.vcol) /\ get(x.vcoh)))
        /\ Or(lt, And(x.vcol, And(x.vcoh, eq))) \in Mask
      <3>1. And(x.vcoh, eq) \in Mask /\ And(x.vcoh, eq) = IF x.vcoh = 0 THEN 0 ELSE eq
          BY <1>1, LaneFacts, MaskFacts, SetFacts
      <3>2. And(x.vcol, And(x.vcoh, eq)) \in Mask
            /\ And(x.vcol, And(x.vcoh, eq)) = IF x.vcol = 0 THEN 0 ELSE And(x.vcoh, eq)
          BY <3>1, LaneFacts, MaskFacts, SetFacts
      <3>3. Or(lt, And(x.vcol, And(x.vcoh, eq)))
                = IF lt = 0 THEN And(x.vcol, And(x.vcoh, eq)) ELSE Ones
          BY <1>1, <3>2, MaskFacts
      <3>. QED BY <1>1, <3>1, <3>2, <3>3, SetFacts, LaneFacts DEF get, set, Mask
  <2>. QED BY <1>2, <2>1 DEF simdVLT, VLT, eq, lt
<1>7. simdVMRG(x, s, t) = VMRG(x, s, t)
  <2>1. blendv(t, s, x.vccl) = IF get(x.vccl) THEN s ELSE t
      <3>1. x.vccl \in Mask
          BY LaneFacts
      <3>2. blendv(t, s, x.vccl) = IF x.vccl = 0 THEN t ELSE s
          BY <3>1, MaskFacts
      <3>. QED BY <3>2 DEF get
  <2>. QED BY <2>1 DEF simdVMRG, VMRG
<1>. QED BY <1>3, <1>4, <1>5, <1>6, <1>7

(* U next to the numbers, by cases.                                        *)
LEMMA UCases ==
    ASSUME NEW n \in Int, -W <= n, n < 2 * W
    PROVE  /\ U(n) = IF n < 0 THEN n + W ELSE IF n < W THEN n ELSE n - W
           /\ U(n) \in Number
BY UFacts, WidthFacts DEF Number

(* sclamp gives a signed number.                                           *)
LEMMA ClampFacts ==
    ASSUME NEW n \in Int
    PROVE  /\ sclamp(n) \in Int /\ -Lowest <= sclamp(n) /\ sclamp(n) < Lowest
           /\ S(U(sclamp(n))) = sclamp(n) /\ U(sclamp(n)) \in Number
<1>1. sclamp(n) \in Int /\ -Lowest <= sclamp(n) /\ sclamp(n) < Lowest
  BY WidthFacts DEF sclamp, Highest
<1>. QED BY <1>1, USigned

(* adds and subs saturate the exact sum and difference.                    *)
LEMMA SaturatedFacts ==
    ASSUME NEW p \in Number, NEW q \in Number
    PROVE  /\ adds(p, q) \in Number /\ S(adds(p, q)) = sclamp(S(p) + S(q))
           /\ subs(p, q) \in Number /\ S(subs(p, q)) = sclamp(S(p) - S(q))
<1>1. S(p) + S(q) \in Int /\ S(p) - S(q) \in Int
  BY SFacts
<1>. QED BY <1>1, ClampFacts DEF adds, subs

(* add and sub wrap around.                                                *)
LEMMA WrappedFacts ==
    ASSUME NEW p \in Number, NEW q \in Number
    PROVE  /\ add(p, q) = (IF p + q < W THEN p + q ELSE p + q - W) /\ add(p, q) \in Number
           /\ sub(p, q) = (IF p < q THEN p - q + W ELSE p - q) /\ sub(p, q) \in Number
<1>1. p \in Nat /\ q \in Nat /\ p < W /\ q < W
  BY SFacts
<1>2. p + q \in Int /\ -W <= p + q /\ p + q < 2 * W /\ p - q \in Int /\ -W <= p - q /\ p - q < 2 * W
  BY <1>1, WidthFacts
<1>. QED BY <1>1, <1>2, UCases, WidthFacts DEF add, sub

(* Two numbers are the same when their signed readings are.                *)
LEMMA SignedEqual ==
    ASSUME NEW p \in Number, NEW q \in Number, S(p) = S(q)
    PROVE  p = q
BY SFacts

(* A flag is a mask and a bit.                                             *)
LEMMA BitFacts ==
    ASSUME NEW a \in Mask
    PROVE  /\ Bit(a) = (IF a = 0 THEN 0 ELSE 1) /\ S(a) = -Bit(a)
           /\ a \in Number /\ a = (IF Bit(a) = 0 THEN 0 ELSE W - 1)
<1>1. Ones = W - 1 /\ Ones > 0
  BY WidthFacts DEF Ones
<1>2. Bit(a) = IF a = 0 THEN 0 ELSE 1
  BY DEF Bit, get
<1>. QED BY <1>1, <1>2, MaskFacts DEF Mask

(* VADD: min and max keep the intermediate sum from saturating twice.      *)
LEMMA VADDAgrees ==
    ASSUME NEW x \in Lane, NEW s \in Number, NEW t \in Number
    PROVE  /\ simdVADD(x, s, t) = VADD(x, s, t)
           /\ VADD(x, s, t) \in Lane
<1>. DEFINE b == Bit(x.vcol)
            result == S(s) + S(t) + b
<1>1. /\ x.vcol \in Mask /\ x.vcol \in Number /\ b \in {0, 1} /\ S(x.vcol) = -b
      /\ x.vcol = (IF b = 0 THEN 0 ELSE W - 1)
  BY LaneFacts, BitFacts
<1>. HIDE DEF b
<1>2. result \in Int /\ -W <= result /\ result < 2 * W
  BY <1>1, SFacts, WidthFacts
<1>3. sub(add(s, t), x.vcol) = U(result)
  <2>1. U(result) = IF result < 0 THEN result + W ELSE IF result < W THEN result ELSE result - W
      BY <1>2, UCases
  <2>2. add(s, t) \in Number /\ add(s, t) = (IF s + t < W THEN s + t ELSE s + t - W)
      BY WrappedFacts
  <2>3. sub(add(s, t), x.vcol) = (IF add(s, t) < x.vcol THEN add(s, t) - x.vcol + W
                                                         ELSE add(s, t) - x.vcol)
      BY <1>1, <2>2, WrappedFacts
  <2>4. CASE b = 0
      BY <1>1, <2>1, <2>2, <2>3, <2>4, SFacts, WidthFacts
  <2>5. CASE b = 1
      BY <1>1, <2>1, <2>2, <2>3, <2>5, SFacts, WidthFacts
  <2>. QED BY <1>1, <2>4, <2>5
<1>4. adds(subs(min(s, t), x.vcol), max(s, t)) = U(sclamp(result))
  <2>1. min(s, t) \in Number /\ max(s, t) \in Number
      BY DEF min, max
  <2>2. subs(min(s, t), x.vcol) \in Number /\ S(subs(min(s, t), x.vcol)) = sclamp(S(min(s, t)) + b)
      <3>1. S(min(s, t)) - (-b) = S(min(s, t)) + b
          BY <1>1, <2>1, SFacts
      <3>. QED BY <1>1, <2>1, <3>1, SaturatedFacts
  <2>3. /\ adds(subs(min(s, t), x.vcol), max(s, t)) \in Number
        /\ S(adds(subs(min(s, t), x.vcol), max(s, t)))
               = sclamp(sclamp(S(min(s, t)) + b) + S(max(s, t)))
      BY <2>1, <2>2, SaturatedFacts
  <2>4. sclamp(sclamp(S(min(s, t)) + b) + S(max(s, t))) = sclamp(result)
      BY <1>1, SFacts, WidthFacts DEF min, max, sclamp, Highest
  <2>. QED BY <1>2, <2>3, <2>4, ClampFacts, SignedEqual
<1>5. U(result) \in Number /\ U(sclamp(result)) \in Number
  BY <1>2, UFacts, ClampFacts
<1>6. VADD(x, s, t) = Sum(x, result)
  BY DEF VADD, b
<1>. HIDE DEF result
<1>7. VADD(x, s, t) \in Lane
  BY <1>5, <1>6, SetFacts DEF Sum, Uncarried, Lane, Mask
<1>. QED BY <1>3, <1>4, <1>6, <1>7 DEF simdVADD, Sum

(* VSUB: the comparison of the two differences restores what t + carry     *)
(* lost.                                                                   *)
LEMMA VSUBAgrees ==
    ASSUME NEW x \in Lane, NEW s \in Number, NEW t \in Number
    PROVE  /\ simdVSUB(x, s, t) = VSUB(x, s, t)
           /\ VSUB(x, s, t) \in Lane
<1>. DEFINE b == Bit(x.vcol)
            result == S(s) - S(t) - b
            udiff == sub(t, x.vcol)
            sdiff == subs(t, x.vcol)
<1>1. /\ x.vcol \in Mask /\ x.vcol \in Number /\ b \in {0, 1} /\ S(x.vcol) = -b
      /\ x.vcol = (IF b = 0 THEN 0 ELSE W - 1)
  BY LaneFacts, BitFacts
<1>. HIDE DEF b
<1>2. result \in Int /\ -W <= result /\ result < 2 * W
  BY <1>1, SFacts, WidthFacts
<1>3. udiff \in Number /\ udiff = (IF t + b = W THEN 0 ELSE t + b)
  <2>1. udiff = (IF t < x.vcol THEN t - x.vcol + W ELSE t - x.vcol) /\ udiff \in Number
      BY <1>1, WrappedFacts
  <2>. QED BY <1>1, <2>1, SFacts, WidthFacts
<1>4. sdiff \in Number /\ S(sdiff) = (IF S(t) + b = Lowest THEN S(t) ELSE S(t) + b)
  <2>1. S(t) - (-b) = S(t) + b
      BY <1>1, SFacts
  <2>2. sdiff \in Number /\ S(sdiff) = sclamp(S(t) + b)
      BY <1>1, <2>1, SaturatedFacts
  <2>. QED BY <1>1, <2>2, SFacts, WidthFacts DEF sclamp, Highest
<1>. HIDE DEF udiff, sdiff
<1>5. sub(s, udiff) = U(result)
  <2>1. U(result) = IF result < 0 THEN result + W ELSE IF result < W THEN result ELSE result - W
      BY <1>2, UCases
  <2>2. sub(s, udiff) = IF s < udiff THEN s - udiff + W ELSE s - udiff
      BY <1>3, WrappedFacts
  <2>. QED BY <1>1, <1>3, <2>1, <2>2, SFacts, WidthFacts
<1>6. cmpgt(sdiff, udiff) \in Mask
      /\ S(cmpgt(sdiff, udiff)) = (IF S(t) + b = Lowest THEN -1 ELSE 0)
  <2>1. S(sdiff) > S(udiff) <=> S(t) + b = Lowest
      BY <1>1, <1>3, <1>4, SFacts, WidthFacts
  <2>. QED BY <2>1, SetFacts, MaskFacts DEF cmpgt
<1>7. adds(subs(s, sdiff), cmpgt(sdiff, udiff)) = U(sclamp(result))
  <2>1. subs(s, sdiff) \in Number /\ S(subs(s, sdiff)) = sclamp(S(s) - S(sdiff))
      BY <1>4, SaturatedFacts
  <2>2. /\ adds(subs(s, sdiff), cmpgt(sdiff, udiff)) \in Number
        /\ S(adds(subs(s, sdiff), cmpgt(sdiff, udiff)))
               = sclamp(sclamp(S(s) - S(sdiff)) + S(cmpgt(sdiff, udiff)))
      BY <1>6, <2>1, MaskFacts, SaturatedFacts
  <2>3. sclamp(sclamp(S(s) - S(sdiff)) + S(cmpgt(sdiff, udiff))) = sclamp(result)
      BY <1>1, <1>4, <1>6, SFacts, WidthFacts DEF sclamp, Highest
  <2>. QED BY <1>2, <2>2, <2>3, ClampFacts, SignedEqual
<1>8. U(result) \in Number /\ U(sclamp(result)) \in Number
  BY <1>2, UFacts, ClampFacts
<1>9. VSUB(x, s, t) = Sum(x, result)
  BY DEF VSUB, b
<1>. HIDE DEF result
<1>10. VSUB(x, s, t) \in Lane
  BY <1>8, <1>9, SetFacts DEF Sum, Uncarried, Lane, Mask
<1>. QED BY <1>5, <1>7, <1>9, <1>10 DEF simdVSUB, Sum, udiff, sdiff

(* Lanes are equal when their elements are.                                *)
LEMMA LaneEqual ==
    ASSUME NEW y \in Lane, NEW z \in Lane,
           y.h = z.h, y.m = z.m, y.l = z.l, y.vd = z.vd, y.vcol = z.vcol, y.vcoh = z.vcoh,
           y.vccl = z.vccl, y.vcch = z.vcch, y.vce = z.vce
    PROVE  y = z
BY DEF Lane

(* carried is the mask of a carry.                                         *)
LEMMA CarryFacts ==
    ASSUME NEW p \in Number, NEW q \in Number
    PROVE  /\ addsu(p, q) = add(p, q) <=> p + q < W
           /\ carried(p, q) \in Mask
           /\ carried(p, q) = 0 <=> p + q < W
           /\ carried(p, q) = set(p + q >= W)
<1>1. add(p, q) = (IF p + q < W THEN p + q ELSE p + q - W)
  BY WrappedFacts
<1>2. addsu(p, q) = add(p, q) <=> p + q < W
  BY <1>1, SFacts, WidthFacts DEF addsu, Ones
<1>3. cmpeq(add(p, q), addsu(p, q)) \in Mask
      /\ (cmpeq(add(p, q), addsu(p, q)) = 0 <=> ~(p + q < W))
  BY <1>2, SetFacts DEF cmpeq
<1>4. carried(p, q) \in Mask /\ (carried(p, q) = 0 <=> p + q < W)
  BY <1>3, MaskFacts, SetFacts DEF carried
<1>5. carried(p, q) = set(p + q >= W)
  BY <1>4, SFacts, WidthFacts, SetFacts DEF set, Mask
<1>. QED BY <1>2, <1>4, <1>5

(* VADDC: the carry.                                                       *)
LEMMA VADDCAgrees ==
    ASSUME NEW x \in Lane, NEW s \in Number, NEW t \in Number
    PROVE  /\ simdVADDC(x, s, t) = VADDC(x, s, t)
           /\ VADDC(x, s, t) \in Lane
<1>1. add(s, t) = U(s + t) /\ U(s + t) \in Number
  BY WrappedFacts DEF add
<1>2. carried(s, t) = set(s + t >= W)
  BY CarryFacts
<1>3. VADDC(x, s, t) \in Lane
  BY <1>1, SetFacts DEF VADDC, Copied, Lane, Mask
<1>. QED BY <1>1, <1>2, <1>3 DEF simdVADDC, VADDC

(* VSUBC: the borrow and the inequality.                                   *)
LEMMA VSUBCAgrees ==
    ASSUME NEW x \in Lane, NEW s \in Number, NEW t \in Number
    PROVE  /\ simdVSUBC(x, s, t) = VSUBC(x, s, t)
           /\ VSUBC(x, s, t) \in Lane
<1>1. sub(s, t) = U(s - t) /\ U(s - t) \in Number
  BY WrappedFacts DEF sub
<1>2. cmpeq(s, t) \in Mask /\ (cmpeq(s, t) = 0 <=> s # t)
  BY SetFacts DEF cmpeq
<1>3. Invert(cmpeq(s, t)) = set(s # t)
  BY <1>2, MaskFacts, SetFacts DEF set, Mask
<1>4. cmpeq(subsu(s, t), 0) \in Mask /\ (cmpeq(subsu(s, t), 0) = 0 <=> s > t)
  <2>1. subsu(s, t) = 0 <=> ~(s > t)
      BY SFacts DEF subsu
  <2>. QED BY <2>1, SetFacts DEF cmpeq
<1>5. andnot(cmpeq(s, t), cmpeq(subsu(s, t), 0)) = set(s < t)
  <2>1. andnot(cmpeq(s, t), cmpeq(subsu(s, t), 0))
            = IF cmpeq(s, t) = 0 THEN cmpeq(subsu(s, t), 0) ELSE 0
      BY <1>2, <1>4, MaskFacts
  <2>2. s < t <=> s # t /\ ~(s > t)
      BY SFacts
  <2>. QED BY <1>2, <1>4, <2>1, <2>2, SetFacts DEF set, Mask
<1>6. VSUBC(x, s, t) \in Lane
  BY <1>1, SetFacts DEF VSUBC, Copied, Lane, Mask
<1>7. VSUBC(x, s, t) = [Copied(x, U(s - t)) EXCEPT !.vcoh = set(s # t), !.vcol = set(s < t)]
  <2>1. [Copied(x, U(s - t)) EXCEPT !.vcoh = set(s # t), !.vcol = set(s < t)] \in Lane
      BY <1>1, SetFacts DEF Copied, Lane, Mask
  <2>. QED BY <1>6, <2>1, LaneEqual DEF VSUBC, Copied, Lane
<1>. QED BY <1>1, <1>3, <1>5, <1>6, <1>7 DEF simdVSUBC

(* Taken away from a mask of ones, the complement is the opposite.         *)
LEMMA InvertFacts ==
    ASSUME NEW t \in Number
    PROVE  /\ Invert(t) \in Number /\ S(Invert(t)) = -S(t) - 1
           /\ sub(Invert(t), Ones) = U(-t) /\ sub(Invert(t), Ones) = U(-S(t))
           /\ U(-t) = (IF t = 0 THEN 0 ELSE W - t) /\ U(-t) \in Number
           /\ sub(t, 0) = t
           /\ subs(Invert(t), Ones) = U(sclamp(-S(t)))
           /\ subs(t, 0) = t
<1>1. Invert(t) \in Number /\ Invert(t) = W - 1 - t
  BY SFacts, WidthFacts DEF Invert, Ones, Number
<1>2. S(Invert(t)) = -S(t) - 1
  BY <1>1, SFacts, WidthFacts
<1>3. Ones \in Number /\ 0 \in Number /\ S(Ones) = -1 /\ S(0) = 0 /\ Ones = W - 1
  BY SetFacts, MaskFacts DEF Ones
<1>4. U(-t) = (IF t = 0 THEN 0 ELSE W - t) /\ U(-t) \in Number
  <2>1. -t \in Int /\ -W <= -t /\ -t < 2 * W
      BY SFacts, WidthFacts
  <2>2. U(-t) = (IF -t < 0 THEN -t + W ELSE IF -t < W THEN -t ELSE -t - W) /\ U(-t) \in Number
      BY <2>1, UCases
  <2>. QED BY <2>2, SFacts, WidthFacts
<1>5. U(-S(t)) = U(-t)
  <2>1. -S(t) \in Int /\ -W <= -S(t) /\ -S(t) < 2 * W
      BY SFacts, WidthFacts
  <2>2. U(-S(t)) = IF -S(t) < 0 THEN -S(t) + W ELSE IF -S(t) < W THEN -S(t) ELSE -S(t) - W
      BY <2>1, UCases
  <2>. QED BY <1>4, <2>2, SFacts, WidthFacts
<1>6. sub(Invert(t), Ones) = U(-t)
  <2>1. sub(Invert(t), Ones) = IF Invert(t) < Ones THEN Invert(t) - Ones + W ELSE Invert(t) - Ones
      BY <1>1, <1>3, WrappedFacts
  <2>. QED BY <1>1, <1>3, <1>4, <2>1, SFacts, WidthFacts
<1>7. sub(t, 0) = t
  BY <1>3, WrappedFacts, SFacts
<1>8. subs(Invert(t), Ones) = U(sclamp(-S(t)))
  <2>1. S(Invert(t)) - S(Ones) = -S(t)
      BY <1>2, <1>3, SFacts
  <2>. QED BY <2>1 DEF subs
<1>9. subs(t, 0) = t
  <2>1. S(t) - S(0) = S(t) /\ sclamp(S(t)) = S(t)
      BY <1>3, SFacts, WidthFacts DEF sclamp, Highest
  <2>. QED BY <2>1, SFacts DEF subs
<1>. QED BY <1>1, <1>2, <1>4, <1>5, <1>6, <1>7, <1>8, <1>9

(* srai15 is the mask of the sign.                                         *)
LEMMA SignMask ==
    ASSUME NEW p \in Number
    PROVE  srai15(p) \in Mask /\ (srai15(p) = 0 <=> S(p) >= 0)
<1>1. S(p) < 0 <=> ~(S(p) >= 0)
  BY SFacts
<1>. QED BY <1>1, SetFacts DEF srai15

(* VABS: a negation that saturates in vd and wraps in ACCL.                *)
LEMMA VABSAgrees ==
    ASSUME NEW x \in Lane, NEW s \in Number, NEW t \in Number
    PROVE  /\ simdVABS(x, s, t) = VABS(x, s, t)
           /\ VABS(x, s, t) \in Lane
<1>. DEFINE slt == srai15(s)
            eq == cmpeq(s, 0)
            v == Xor(andnot(eq, t), slt)
<1>1. slt \in Mask /\ (slt = 0 <=> S(s) >= 0)
  BY SignMask
<1>2. eq \in Mask /\ (eq = 0 <=> s # 0)
  BY SetFacts DEF cmpeq
<1>. HIDE DEF slt, eq
<1>3. /\ simdVABS(x, s, t) = [x EXCEPT !.l = sub(v, slt), !.vd = subs(v, slt)]
      /\ andnot(eq, t) = (IF eq = 0 THEN t ELSE 0)
  BY <1>2, MaskFacts DEF simdVABS, slt, eq
<1>4. 0 \in Number /\ S(0) = 0 /\ Ones # 0 /\ Ones \in Number
  BY SetFacts, MaskFacts
<1>5. CASE S(s) < 0
  <2>1. s # 0 /\ slt = Ones
      BY <1>1, <1>4, <1>5, SFacts DEF Mask
  <2>2. v = Invert(t)
      BY <1>2, <1>3, <2>1, XorFacts
  <2>3. VABS(x, s, t) = [x EXCEPT !.l = U(-S(t)), !.vd = U(sclamp(-S(t)))]
      <3>1. ~(S(s) > 0) /\ S(s) # 0
          BY <1>5, SFacts
      <3>. QED BY <1>5, <3>1, Zenon DEF VABS
  <2>4. U(-S(t)) \in Number /\ U(sclamp(-S(t))) \in Number
      BY ClampFacts, InvertFacts, SFacts
  <2>. QED BY <1>3, <2>1, <2>2, <2>3, <2>4, InvertFacts DEF Lane
<1>6. CASE S(s) > 0
  <2>1. s # 0 /\ slt = 0
      BY <1>1, <1>4, <1>6, SFacts DEF Mask
  <2>2. v = t
      BY <1>2, <1>3, <2>1, XorFacts
  <2>3. VABS(x, s, t) = Copied(x, t)
      <3>1. ~(S(s) < 0) /\ S(s) # 0
          BY <1>6, SFacts
      <3>. QED BY <1>6, <3>1, Zenon DEF VABS
  <2>4. sub(v, slt) = t /\ subs(v, slt) = t
      BY <2>1, <2>2, InvertFacts
  <2>. HIDE DEF v
  <2>. QED BY <1>3, <2>3, <2>4, CopiedFacts DEF Copied
<1>7. CASE S(s) = 0
  <2>1. s = 0 /\ slt = 0
      BY <1>1, <1>4, <1>7, SFacts, SignedEqual DEF Mask
  <2>2. v = 0
      BY <1>2, <1>3, <1>4, <2>1, XorFacts
  <2>3. VABS(x, s, t) = Copied(x, 0)
      <3>1. ~(S(s) < 0) /\ ~(S(s) > 0)
          BY <1>7, SFacts
      <3>. QED BY <1>7, <3>1, Zenon DEF VABS
  <2>4. sub(v, slt) = 0 /\ subs(v, slt) = 0
      BY <1>4, <2>1, <2>2, InvertFacts
  <2>. HIDE DEF v
  <2>. QED BY <1>3, <1>4, <2>3, <2>4, CopiedFacts DEF Copied
<1>. QED BY <1>5, <1>6, <1>7, SFacts

(* The sign of an exclusive or says whether signs differ.                  *)
LEMMA XorMask ==
    ASSUME NEW s \in Number, NEW t \in Number
    PROVE  /\ Xor(s, t) \in Number
           /\ S(Xor(s, t)) < 0 <=> SignsDiffer(s, t)
<1>1. Xor(s, t) \in Number
  BY XorFacts
<1>2. \A n \in Number : S(n) < 0 <=> n >= Lowest
  BY SFacts, WidthFacts
<1>. QED BY <1>1, <1>2, XorSign DEF SignsDiffer

(* Negated negates under a mask of ones.                                   *)
LEMMA NegatedFacts ==
    ASSUME NEW t \in Number, NEW a \in Mask
    PROVE  Negated(t, a) = IF a = 0 THEN t ELSE U(-t)
<1>1. CASE a = 0
  BY <1>1, InvertFacts, XorFacts DEF Negated
<1>2. CASE a = Ones
  BY <1>2, InvertFacts, XorFacts, SetFacts DEF Negated
<1>. QED BY <1>1, <1>2 DEF Mask

-----------------------------------------------------------------------------
(* Clipping: VCH, VCL and VCR.                                             *)

(* The sum of a number and of the opposite, and the signed sum, wrapped.   *)
LEMMA DifferenceFacts ==
    ASSUME NEW s \in Number, NEW t \in Number
    PROVE  /\ sub(s, U(-t)) = U(s + t) /\ U(S(s) + S(t)) = U(s + t)
           /\ sub(s, t) = U(S(s) - S(t))
           /\ U(s + t) \in Number /\ U(s + t) = IF s + t < W THEN s + t ELSE s + t - W
<1>1. U(s + t) \in Number /\ U(s + t) = IF s + t < W THEN s + t ELSE s + t - W
  BY WrappedFacts DEF add
<1>2. sub(s, U(-t)) = U(s + t)
  <2>1. U(-t) \in Number /\ U(-t) = (IF t = 0 THEN 0 ELSE W - t)
      BY InvertFacts
  <2>2. sub(s, U(-t)) = IF s < U(-t) THEN s - U(-t) + W ELSE s - U(-t)
      BY <2>1, WrappedFacts
  <2>. QED BY <1>1, <2>1, <2>2, SFacts, WidthFacts
<1>3. U(S(s) + S(t)) = U(s + t)
  <2>. DEFINE r == S(s) + S(t)
  <2>1. r \in Int /\ -W <= r /\ r < 2 * W /\ r = S(s) + S(t)
      BY SFacts, WidthFacts
  <2>. HIDE DEF r
  <2>2. U(r) = IF r < 0 THEN r + W ELSE IF r < W THEN r ELSE r - W
      BY <2>1, UCases
  <2>3. U(r) = U(s + t)
      BY <1>1, <2>1, <2>2, SFacts, WidthFacts
  <2>. QED BY <2>1, <2>3
<1>4. sub(s, t) = U(S(s) - S(t))
  <2>1. S(s) - S(t) \in Int /\ -W <= S(s) - S(t) /\ S(s) - S(t) < 2 * W
      BY SFacts, WidthFacts
  <2>2. U(S(s) - S(t)) = IF S(s) - S(t) < 0 THEN S(s) - S(t) + W
                         ELSE IF S(s) - S(t) < W THEN S(s) - S(t) ELSE S(s) - S(t) - W
      BY <2>1, UCases
  <2>3. sub(s, t) = IF s < t THEN s - t + W ELSE s - t
      BY WrappedFacts
  <2>. QED BY <2>2, <2>3, SFacts, WidthFacts
<1>. QED BY <1>1, <1>2, <1>3, <1>4

(* VCH: its five control registers and the clipped element.                *)
LEMMA VCHAgrees ==
    ASSUME NEW x \in Lane, NEW s \in Number, NEW t \in Number
    PROVE  /\ simdVCH(x, s, t) = VCH(x, s, t)
           /\ VCH(x, s, t) \in Lane
<1>. DEFINE vcol == cmpgt(0, Xor(s, t))
            nvt == Negated(t, vcol)
            diff == sub(s, nvt)
            diff0 == cmpeq(diff, 0)
            vtn == cmpgt(0, t)
            dlez == Invert(cmpgt(diff, 0))
            dgez == Or(cmpgt(diff, 0), diff0)
            vcch == blendv(dgez, vtn, vcol)
            vccl == blendv(vtn, dlez, vcol)
            vce == And(cmpeq(diff, vcol), vcol)
            chosen == blendv(s, nvt, blendv(vcch, vccl, vcol))
            vcoh == Invert(Or(diff0, vce))
            clip(v, cl, ch, col, e, oh) ==
                [Copied(x, v) EXCEPT !.vccl = cl, !.vcch = ch, !.vcol = col, !.vce = e, !.vcoh = oh]
<1>1. /\ 0 \in Number /\ S(0) = 0 /\ Ones \in Number /\ S(Ones) = -1 /\ Ones # 0
      /\ 0 \in Mask /\ Ones \in Mask
  BY SetFacts, MaskFacts
<1>2. vcol \in Mask /\ (vcol = 0 <=> ~SignsDiffer(s, t))
  <2>1. 0 > S(Xor(s, t)) <=> SignsDiffer(s, t)
      BY XorMask, SFacts
  <2>. QED BY <1>1, <2>1, SetFacts DEF cmpgt
<1>3. vtn = set(S(t) < 0) /\ vtn \in Mask
  <2>1. 0 > S(t) <=> S(t) < 0
      BY SFacts
  <2>. QED BY <1>1, <2>1, SetFacts DEF cmpgt, set
<1>. HIDE DEF vcol, vtn
<1>4. nvt = (IF vcol = 0 THEN t ELSE U(-t)) /\ nvt \in Number
  BY <1>2, NegatedFacts, InvertFacts
<1>. HIDE DEF nvt
<1>5. diff \in Number /\ diff = IF vcol = 0 THEN U(S(s) - S(t)) ELSE U(S(s) + S(t))
  <2>1. CASE vcol = 0
      BY <1>4, <2>1, DifferenceFacts, WrappedFacts
  <2>2. CASE vcol # 0
      BY <1>4, <2>2, DifferenceFacts, WrappedFacts
  <2>. QED BY <2>1, <2>2
<1>. HIDE DEF diff
<1>6. /\ diff0 \in Mask /\ (diff0 = 0 <=> S(diff) # 0)
      /\ cmpgt(diff, 0) \in Mask /\ (cmpgt(diff, 0) = 0 <=> S(diff) <= 0)
      /\ cmpeq(diff, vcol) \in Mask /\ (cmpeq(diff, vcol) = 0 <=> diff # vcol)
  <2>1. diff = 0 <=> S(diff) = 0
      BY <1>1, <1>5, SignedEqual
  <2>2. S(diff) > S(0) <=> ~(S(diff) <= 0)
      BY <1>1, <1>5, SFacts
  <2>. QED BY <2>1, <2>2, SetFacts DEF cmpeq, cmpgt
<1>7. dlez = set(S(diff) <= 0) /\ dlez \in Mask
  BY <1>6, MaskFacts, SetFacts DEF set, Mask
<1>8. dgez = set(S(diff) >= 0) /\ dgez \in Mask
  <2>1. dgez = IF cmpgt(diff, 0) = 0 THEN diff0 ELSE Ones
      BY <1>6, MaskFacts
  <2>2. S(diff) >= 0 <=> ~(S(diff) <= 0) \/ S(diff) = 0
      BY <1>5, SFacts
  <2>. QED BY <1>6, <2>1, <2>2, SetFacts DEF set, Mask
<1>9. vce = (IF vcol = 0 THEN 0 ELSE set(S(diff) = -1)) /\ vce \in Mask
  <2>1. vce = IF vcol = 0 THEN 0 ELSE cmpeq(diff, vcol)
      BY <1>2, <1>6, MaskFacts
  <2>2. vcol # 0 => (diff = vcol <=> S(diff) = -1)
      BY <1>1, <1>2, <1>5, SignedEqual DEF Mask
  <2>. QED BY <1>1, <1>6, <2>1, <2>2, SetFacts DEF set, Mask
<1>. HIDE DEF diff0, dlez, dgez, vce
<1>10. vcoh = set(S(diff) # 0 /\ s # Invert(t)) /\ vcoh \in Mask
  <2>1. Or(diff0, vce) = (IF diff0 = 0 THEN vce ELSE Ones) /\ Or(diff0, vce) \in Mask
      BY <1>1, <1>6, <1>9, MaskFacts
  <2>2. vcoh \in Mask /\ (vcoh = 0 <=> S(diff) = 0 \/ vce # 0)
      BY <1>1, <1>6, <2>1, MaskFacts
  <2>3. S(diff) # 0 => (vce # 0 <=> s = Invert(t))
      <3>1. Invert(t) = W - 1 - t
          BY DEF Invert, Ones
      <3>2. CASE vcol = 0
          BY <1>2, <1>9, <3>1, <3>2, SFacts, WidthFacts DEF SignsDiffer
      <3>3. CASE vcol # 0
          <4>1. vce # 0 <=> S(diff) = -1
              BY <1>9, <3>3, SetFacts
          <4>2. diff = U(s + t) /\ U(s + t) = IF s + t < W THEN s + t ELSE s + t - W
              BY <1>5, <3>3, DifferenceFacts
          <4>3. S(diff) = -1 <=> diff = W - 1
              BY <1>5, SFacts, WidthFacts
          <4>. QED BY <3>1, <4>1, <4>2, <4>3, SFacts, WidthFacts
      <3>. QED BY <3>2, <3>3
  <2>. QED BY <2>2, <2>3, SetFacts DEF set, Mask
<1>11. vccl \in Mask /\ vcch \in Mask
       /\ vccl = (IF vcol = 0 THEN vtn ELSE dlez) /\ vcch = (IF vcol = 0 THEN dgez ELSE vtn)
  BY <1>2, <1>3, <1>7, <1>8, MaskFacts
<1>. HIDE DEF vccl, vcch
<1>12. chosen = IF vcol = 0 THEN (IF S(diff) >= 0 THEN t ELSE s)
                ELSE (IF S(diff) <= 0 THEN U(-S(t)) ELSE s)
  <2>1. blendv(vcch, vccl, vcol) = IF vcol = 0 THEN vcch ELSE vccl
      BY <1>2, MaskFacts
  <2>2. chosen = IF vcol = 0 THEN (IF vcch = 0 THEN s ELSE nvt) ELSE (IF vccl = 0 THEN s ELSE nvt)
      BY <1>11, <2>1, MaskFacts
  <2>3. (dgez = 0 <=> ~(S(diff) >= 0)) /\ (dlez = 0 <=> ~(S(diff) <= 0))
      BY <1>7, <1>8, SetFacts
  <2>. QED BY <1>4, <1>11, <2>2, <2>3, InvertFacts
<1>13. chosen \in Number
  BY <1>12, InvertFacts
<1>. HIDE DEF chosen, vcoh
<1>14. simdVCH(x, s, t) = clip(chosen, vccl, vcch, vcol, vce, vcoh)
  <2>1. clip(chosen, vccl, vcch, vcol, vce, vcoh) \in Lane
      BY <1>2, <1>9, <1>10, <1>11, <1>13 DEF Copied, Lane, Mask
  <2>2. simdVCH(x, s, t) = [Copied(x, chosen) EXCEPT !.vcol = vcol, !.vcch = vcch, !.vccl = vccl,
                                                     !.vce = vce, !.vcoh = vcoh]
      BY Zenon DEF simdVCH, chosen, vccl, vcch, vce, vcoh, vcol, diff, nvt, dgez, dlez, diff0, vtn
  <2>3. simdVCH(x, s, t) \in Lane
      BY <1>2, <1>9, <1>10, <1>11, <1>13, <2>2 DEF Copied, Lane, Mask
  <2>. QED BY <2>1, <2>2, <2>3, LaneEqual DEF Copied, Lane
<1>15. CASE SignsDiffer(s, t)
  <2>1. vcol = Ones /\ vcol # 0
      BY <1>1, <1>2, <1>15 DEF Mask
  <2>2. VCH(x, s, t) = clip(IF S(diff) <= 0 THEN U(-S(t)) ELSE s, set(S(diff) <= 0),
                            set(S(t) < 0), Ones, set(S(diff) = -1),
                            set(S(diff) # 0 /\ s # Invert(t)))
      <3>1. [Copied(x, IF S(diff) <= 0 THEN U(-S(t)) ELSE s)
                EXCEPT !.vccl = set(S(diff) <= 0), !.vcch = set(S(t) < 0),
                       !.vcol = Ones, !.vce = set(S(diff) = -1),
                       !.vcoh = set(S(diff) # 0 /\ s # Invert(t))] = VCH(x, s, t)
          BY <1>5, <1>15, <2>1 DEF VCH
      <3>. QED BY <3>1
  <2>3. clip(chosen, vccl, vcch, vcol, vce, vcoh) = VCH(x, s, t)
      BY <1>3, <1>7, <1>9, <1>10, <1>11, <1>12, <2>1, <2>2
  <2>4. clip(chosen, vccl, vcch, vcol, vce, vcoh) \in Lane
      BY <1>2, <1>9, <1>10, <1>11, <1>13 DEF Copied, Lane, Mask
  <2>. QED BY <1>14, <2>3, <2>4
<1>16. CASE ~SignsDiffer(s, t)
  <2>1. vcol = 0
      BY <1>2, <1>16
  <2>2. VCH(x, s, t) = clip(IF S(diff) >= 0 THEN t ELSE s, set(S(t) < 0), set(S(diff) >= 0), 0, 0,
                            set(S(diff) # 0 /\ s # Invert(t)))
      BY <1>5, <1>16, <2>1 DEF VCH
  <2>3. clip(chosen, vccl, vcch, vcol, vce, vcoh) = VCH(x, s, t)
      BY <1>3, <1>8, <1>9, <1>10, <1>11, <1>12, <2>1, <2>2
  <2>4. clip(chosen, vccl, vcch, vcol, vce, vcoh) \in Lane
      BY <1>2, <1>9, <1>10, <1>11, <1>13 DEF Copied, Lane, Mask
  <2>. QED BY <1>14, <2>3, <2>4
<1>. QED BY <1>15, <1>16

(* VCL: the choice by VCO and VCE.                                         *)
LEMMA VCLAgrees ==
    ASSUME NEW x \in Lane, NEW s \in Number, NEW t \in Number
    PROVE  /\ simdVCL(x, s, t) = VCL(x, s, t)
           /\ VCL(x, s, t) \in Lane
<1>. DEFINE nvt == Negated(t, x.vcol)
            diff == sub(s, nvt)
            ncarry == cmpeq(diff, addsu(s, t))
            diff0 == cmpeq(diff, 0)
            both == And(Invert(x.vce), And(diff0, ncarry))
            any == And(x.vce, Or(diff0, ncarry))
            leeq == Or(both, any)
            geeq == cmpeq(subsu(t, s), 0)
            le == blendv(x.vccl, leeq, andnot(x.vcoh, x.vcol))
            ge == blendv(geeq, x.vcch, Or(x.vcol, x.vcoh))
            chosen == blendv(s, nvt, blendv(ge, le, x.vcol))
            le1 == IF get(x.vcoh) THEN x.vccl ELSE set(BelowMinus(x, s, t))
            ge1 == IF get(x.vcoh) THEN x.vcch ELSE set(s >= t)
            clip(v, cl, ch) == [Clipped(Copied(x, v)) EXCEPT !.vcch = ch, !.vccl = cl]
<1>1. /\ x.vcol \in Mask /\ x.vcoh \in Mask /\ x.vce \in Mask /\ x.vccl \in Mask /\ x.vcch \in Mask
      /\ x.vcol \in Number /\ x.vcoh \in Number
      /\ 0 \in Number /\ Ones \in Number /\ 0 \in Mask /\ Ones \in Mask /\ Ones # 0
  BY LaneFacts, MaskFacts, SetFacts
<1>2. nvt = (IF x.vcol = 0 THEN t ELSE U(-t)) /\ nvt \in Number
  BY <1>1, NegatedFacts, InvertFacts
<1>. HIDE DEF nvt
<1>3. diff \in Number /\ (x.vcol # 0 => diff = U(s + t) /\ diff = add(s, t))
  BY <1>2, DifferenceFacts, WrappedFacts DEF add
<1>. HIDE DEF diff
<1>4. /\ ncarry \in Mask /\ (x.vcol # 0 => (ncarry = 0 <=> ~(s + t < W)))
      /\ diff0 \in Mask /\ (diff0 = 0 <=> diff # 0)
  BY <1>3, CarryFacts, SetFacts DEF cmpeq
<1>5. geeq = set(s >= t) /\ geeq \in Mask /\ (geeq = 0 <=> ~(s >= t))
  <2>1. subsu(t, s) = 0 <=> s >= t
      BY SFacts DEF subsu
  <2>. QED BY <2>1, SetFacts DEF cmpeq, set
<1>. HIDE DEF ncarry, diff0, geeq
<1>6. both \in Mask /\ (both # 0 <=> x.vce = 0 /\ diff0 # 0 /\ ncarry # 0)
  <2>1. And(diff0, ncarry) \in Mask /\ And(diff0, ncarry) \in Number
        /\ (And(diff0, ncarry) # 0 <=> diff0 # 0 /\ ncarry # 0)
      BY <1>1, <1>4, MaskFacts
  <2>2. Invert(x.vce) \in Mask /\ (Invert(x.vce) # 0 <=> x.vce = 0)
      BY <1>1, MaskFacts
  <2>3. both = IF Invert(x.vce) = 0 THEN 0 ELSE And(diff0, ncarry)
      BY <2>1, <2>2, MaskFacts
  <2>. QED BY <1>1, <2>1, <2>2, <2>3
<1>7. any \in Mask /\ (any # 0 <=> x.vce # 0 /\ (diff0 # 0 \/ ncarry # 0))
  <2>1. Or(diff0, ncarry) \in Mask /\ Or(diff0, ncarry) \in Number
        /\ (Or(diff0, ncarry) # 0 <=> diff0 # 0 \/ ncarry # 0)
      BY <1>1, <1>4, MaskFacts
  <2>2. any = IF x.vce = 0 THEN 0 ELSE Or(diff0, ncarry)
      BY <1>1, <2>1, MaskFacts
  <2>. QED BY <1>1, <2>1, <2>2
<1>. HIDE DEF both, any
<1>8. leeq \in Mask /\ (leeq # 0 <=> both # 0 \/ any # 0)
  <2>1. leeq = IF both = 0 THEN any ELSE Ones
      BY <1>6, <1>7, MaskFacts
  <2>. QED BY <1>1, <1>6, <1>7, <2>1
<1>9. x.vcol # 0 => leeq = set(BelowMinus(x, s, t))
  <2>1. SUFFICES ASSUME x.vcol # 0
                 PROVE  leeq = set(BelowMinus(x, s, t))
      OBVIOUS
  <2>2. diff0 # 0 <=> U(s + t) = 0
      BY <1>3, <1>4, <2>1
  <2>3. ncarry # 0 <=> s + t < W
      BY <1>4, <2>1
  <2>4. leeq # 0 <=> BelowMinus(x, s, t)
      BY <1>6, <1>7, <1>8, <2>2, <2>3 DEF BelowMinus, get
  <2>. QED BY <1>8, <2>4, SetFacts DEF set, Mask
<1>. HIDE DEF leeq
<1>10. le = (IF x.vcoh = 0 /\ x.vcol # 0 THEN leeq ELSE x.vccl) /\ le \in Mask
  <2>1. andnot(x.vcoh, x.vcol) \in Mask
        /\ (andnot(x.vcoh, x.vcol) # 0 <=> x.vcoh = 0 /\ x.vcol # 0)
      BY <1>1, MaskFacts
  <2>. QED BY <1>1, <1>8, <2>1, MaskFacts
<1>11. ge = (IF x.vcoh = 0 /\ x.vcol = 0 THEN geeq ELSE x.vcch) /\ ge \in Mask
  <2>1. Or(x.vcol, x.vcoh) \in Mask
        /\ (Or(x.vcol, x.vcoh) = 0 <=> x.vcoh = 0 /\ x.vcol = 0)
      BY <1>1, MaskFacts
  <2>. QED BY <1>1, <1>5, <2>1, MaskFacts
<1>. HIDE DEF le, ge
<1>12. chosen = (IF x.vcol = 0 THEN (IF ge = 0 THEN s ELSE t) ELSE (IF le = 0 THEN s ELSE U(-t)))
       /\ chosen \in Number
  <2>1. blendv(ge, le, x.vcol) = IF x.vcol = 0 THEN ge ELSE le
      BY <1>1, MaskFacts
  <2>2. chosen = IF (IF x.vcol = 0 THEN ge ELSE le) = 0 THEN s ELSE nvt
      BY <1>10, <1>11, <2>1, MaskFacts
  <2>3. chosen = (IF x.vcol = 0 THEN (IF ge = 0 THEN s ELSE t) ELSE (IF le = 0 THEN s ELSE U(-t)))
      BY <1>2, <2>2
  <2>. QED BY <2>3, InvertFacts
<1>. HIDE DEF chosen
<1>13. simdVCL(x, s, t) = clip(chosen, le, ge)
  BY Zenon DEF simdVCL, chosen, le, ge, leeq, geeq, both, any, diff0, ncarry, diff, nvt
<1>14. clip(chosen, le, ge) \in Lane
  BY <1>1, <1>10, <1>11, <1>12 DEF Copied, Clipped, Uncarried, Lane, Mask
<1>15. le1 \in Mask /\ ge1 \in Mask /\ (get(le1) <=> le1 # 0) /\ (get(ge1) <=> ge1 # 0)
       /\ (get(x.vcol) <=> x.vcol # 0) /\ (get(x.vcoh) <=> x.vcoh # 0)
  BY <1>1, SetFacts DEF get
<1>16. CASE x.vcol # 0
  <2>1. le = le1 /\ ge = x.vcch
      BY <1>9, <1>10, <1>11, <1>16 DEF get
  <2>. DEFINE v == IF get(le1) THEN U(-t) ELSE s
              y == [Clipped(Copied(x, v)) EXCEPT !.vccl = le1]
  <2>2. VCL(x, s, t) = y
      BY <1>15, <1>16, Zenon DEF VCL
  <2>3. v = chosen
      BY <1>12, <1>15, <1>16, <2>1
  <2>. HIDE DEF le1, v
  <2>4. y \in Lane
      BY <1>12, <1>15, <2>3 DEF Copied, Clipped, Uncarried, Lane, Mask
  <2>5. clip(chosen, le, ge) = y
      BY <1>14, <2>1, <2>3, <2>4, LaneEqual DEF Copied, Clipped, Uncarried, Lane
  <2>. QED BY <1>13, <2>2, <2>4, <2>5
<1>17. CASE x.vcol = 0
  <2>1. ge = ge1 /\ le = x.vccl
      BY <1>5, <1>10, <1>11, <1>17 DEF get
  <2>. DEFINE v == IF get(ge1) THEN t ELSE s
              y == [Clipped(Copied(x, v)) EXCEPT !.vcch = ge1]
  <2>2. VCL(x, s, t) = y
      BY <1>15, <1>17, Zenon DEF VCL
  <2>3. v = chosen
      BY <1>12, <1>15, <1>17, <2>1
  <2>. HIDE DEF ge1, v
  <2>4. y \in Lane
      BY <1>12, <1>15, <2>3 DEF Copied, Clipped, Uncarried, Lane, Mask
  <2>5. clip(chosen, le, ge) = y
      BY <1>14, <2>1, <2>3, <2>4, LaneEqual DEF Copied, Clipped, Uncarried, Lane
  <2>. QED BY <1>13, <2>2, <2>4, <2>5
<1>. QED BY <1>16, <1>17

(* VCR.                                                                    *)
LEMMA VCRAgrees ==
    ASSUME NEW x \in Lane, NEW s \in Number, NEW t \in Number
    PROVE  /\ simdVCR(x, s, t) = VCR(x, s, t)
           /\ VCR(x, s, t) \in Lane
<1>. DEFINE sign == srai15(Xor(s, t))
            vccl == srai15(add(And(s, sign), t))
            vcch == cmpeq(min(Or(s, sign), t), t)
            chosen == blendv(s, Xor(t, sign), blendv(vcch, vccl, sign))
            clip(v, cl, ch) == [Clipped(Copied(x, v)) EXCEPT !.vccl = cl, !.vcch = ch]
<1>1. /\ 0 \in Number /\ S(0) = 0 /\ Ones \in Number /\ S(Ones) = -1 /\ Ones # 0
      /\ 0 \in Mask /\ Ones \in Mask /\ Ones = W - 1
  BY SetFacts, MaskFacts DEF Ones
<1>2. sign \in Mask /\ (sign # 0 <=> SignsDiffer(s, t))
  <2>1. S(Xor(s, t)) >= 0 <=> ~SignsDiffer(s, t)
      BY XorMask, SFacts
  <2>. QED BY <2>1, XorMask, SignMask
<1>. HIDE DEF sign
<1>3. vccl \in Mask /\ vcch \in Mask
  <2>1. And(s, sign) \in Number
      BY <1>2, AndFacts, MaskFacts
  <2>. QED BY <2>1, WrappedFacts, SignMask, SetFacts DEF cmpeq
<1>4. chosen = (IF (IF sign = 0 THEN vcch ELSE vccl) = 0 THEN s
                ELSE IF sign = 0 THEN t ELSE Invert(t)) /\ chosen \in Number
  <2>. HIDE DEF vcch, vccl
  <2>1. Xor(t, sign) = (IF sign = 0 THEN t ELSE Invert(t))
      BY <1>2, MaskFacts
  <2>2. blendv(vcch, vccl, sign) = IF sign = 0 THEN vcch ELSE vccl
      BY <1>2, MaskFacts
  <2>3. chosen = (IF (IF sign = 0 THEN vcch ELSE vccl) = 0 THEN s
                  ELSE IF sign = 0 THEN t ELSE Invert(t))
      BY <1>3, <2>1, <2>2, MaskFacts
  <2>. QED BY <2>3, InvertFacts
<1>5. simdVCR(x, s, t) = clip(chosen, vccl, vcch)
  BY Zenon DEF simdVCR, sign
<1>6. CASE SignsDiffer(s, t)
  <2>. DEFINE le == S(s) + S(t) + 1 <= 0
  <2>1. sign = Ones /\ sign # 0
      BY <1>1, <1>2, <1>6 DEF Mask
  <2>2. vccl = set(le) /\ (vccl = 0 <=> ~le)
      <3>1. And(s, sign) = s
          BY <2>1, AndFacts
      <3>2. S(add(s, t)) < 0 <=> le
          <4>1. add(s, t) \in Number /\ add(s, t) = IF s + t < W THEN s + t ELSE s + t - W
              BY WrappedFacts
          <4>. QED BY <1>6, <4>1, SFacts, WidthFacts DEF SignsDiffer
      <3>. QED BY <3>1, <3>2, SetFacts DEF srai15, set
  <2>3. vcch = set(S(t) < 0)
      <3>1. Or(s, sign) = Ones
          BY <2>1, OrFacts
      <3>2. min(Ones, t) = t <=> S(t) < 0
          BY <1>1, SFacts, WidthFacts DEF min
      <3>. QED BY <3>1, <3>2 DEF cmpeq, set
  <2>4. VCR(x, s, t) = [Clipped(Copied(x, IF le THEN Invert(t) ELSE s))
                           EXCEPT !.vcch = set(S(t) < 0), !.vccl = set(le)]
      BY <1>6 DEF VCR
  <2>. HIDE DEF vccl, vcch, le
  <2>5. chosen = IF le THEN Invert(t) ELSE s
      BY <1>4, <2>1, <2>2
  <2>. HIDE DEF chosen
  <2>6. VCR(x, s, t) = [Clipped(Copied(x, chosen)) EXCEPT !.vcch = vcch, !.vccl = vccl]
      BY <2>2, <2>3, <2>4, <2>5
  <2>7. VCR(x, s, t) \in Lane /\ clip(chosen, vccl, vcch) \in Lane
      BY <1>1, <1>3, <1>4, <2>6 DEF Copied, Clipped, Uncarried, Lane, Mask
  <2>8. VCR(x, s, t) = clip(chosen, vccl, vcch)
      BY <2>6, <2>7, LaneEqual DEF Copied, Clipped, Uncarried, Lane
  <2>. QED BY <1>5, <2>7, <2>8
<1>7. CASE ~SignsDiffer(s, t)
  <2>. DEFINE ge == S(s) - S(t) >= 0
  <2>1. sign = 0
      BY <1>2, <1>7
  <2>2. vccl = set(S(t) < 0)
      <3>1. And(s, sign) = 0
          BY <2>1, AndFacts
      <3>2. add(0, t) = t
          BY <1>1, WrappedFacts, SFacts
      <3>. QED BY <3>1, <3>2 DEF srai15
  <2>3. vcch = set(ge) /\ (vcch = 0 <=> ~ge)
      <3>1. Or(s, sign) = s
          BY <2>1, OrFacts
      <3>2. min(s, t) = t <=> ge
          BY SFacts, SignedEqual DEF min
      <3>. QED BY <3>1, <3>2, SetFacts DEF cmpeq, set
  <2>4. VCR(x, s, t) = [Clipped(Copied(x, IF ge THEN t ELSE s))
                           EXCEPT !.vccl = set(S(t) < 0), !.vcch = set(ge)]
      BY <1>7 DEF VCR
  <2>. HIDE DEF vccl, vcch, ge
  <2>5. chosen = IF ge THEN t ELSE s
      BY <1>4, <2>1, <2>3
  <2>. HIDE DEF chosen
  <2>6. VCR(x, s, t) = clip(chosen, vccl, vcch)
      BY <2>2, <2>3, <2>4, <2>5
  <2>7. VCR(x, s, t) \in Lane
      BY <1>1, <1>3, <1>4, <2>6 DEF Copied, Clipped, Uncarried, Lane, Mask
  <2>. QED BY <1>5, <2>6, <2>7
<1>. QED BY <1>6, <1>7

-----------------------------------------------------------------------------
(* Bitwise instructions, and VZERO.                                        *)

(* VNAND, VNOR and VNXOR: complement and exclusive or with ones.           *)
LEMMA BitwiseAgrees ==
    ASSUME NEW x \in Lane, NEW s \in Number, NEW t \in Number
    PROVE  /\ simdVNAND(x, s, t) = VNAND(x, s, t) /\ VNAND(x, s, t) \in Lane
           /\ simdVNOR(x, s, t) = VNOR(x, s, t) /\ VNOR(x, s, t) \in Lane
           /\ simdVNXOR(x, s, t) = VNXOR(x, s, t) /\ VNXOR(x, s, t) \in Lane
<1>1. And(s, t) \in Number /\ Or(s, t) \in Number /\ Xor(s, t) \in Number
  BY AndFacts, OrFacts, XorFacts
<1>2. \A n \in Number : Xor(n, Ones) = Invert(n) /\ Copied(x, Invert(n)) \in Lane
  BY XorFacts, InvertFacts, CopiedFacts
<1>. QED BY <1>1, <1>2 DEF simdVNAND, VNAND, simdVNOR, VNOR, simdVNXOR, VNXOR

(* VZERO.                                                                  *)
LEMMA VZEROAgrees ==
    ASSUME NEW x \in Lane, NEW s \in Number, NEW t \in Number
    PROVE  simdVZERO(x, s, t) = VZERO(x, s, t) /\ VZERO(x, s, t) \in Lane
<1>1. add(s, t) = U(S(s) + S(t)) /\ add(s, t) \in Number
  BY DifferenceFacts, WrappedFacts DEF add
<1>2. VZERO(x, s, t) \in Lane
  BY <1>1, SetFacts DEF VZERO, Lane
<1>. QED BY <1>1, <1>2 DEF simdVZERO, VZERO

-----------------------------------------------------------------------------
(* Products of signed and unsigned elements.                               *)

(* Products of smaller numbers are smaller.                                *)
LEMMA ProductMonotonic ==
    ASSUME NEW m \in Nat, NEW n \in Nat, NEW p \in 0 .. m, NEW q \in 0 .. n
    PROVE  p * q \in Nat /\ m * n \in Nat /\ p * q <= m * n
<1>1. \A i, j \in Nat : i * j \in Nat
  OBVIOUS
<1>2. p \in Nat /\ q \in Nat /\ m - p \in Nat /\ n - q \in Nat
  OBVIOUS
<1>3. (m - p) * n \in Nat /\ p * (n - q) \in Nat /\ p * q \in Nat /\ m * n \in Nat
  BY <1>1, <1>2
<1>4. m * n = (m - p) * n + p * (n - q) + p * q
  BY <1>2
<1>. QED BY <1>3, <1>4

(* The range of a product of signed numbers; only the square of the lowest *)
(* reaches its end.                                                        *)
LEMMA SignedProducts ==
    ASSUME NEW a \in Int, NEW b \in Int, -Lowest <= a, a < Lowest, -Lowest <= b, b < Lowest
    PROVE  /\ a * b \in Int
           /\ a * b <= Lowest * Lowest /\ a * b >= Lowest - Lowest * Lowest
           /\ a # b => a * b <= Lowest * Lowest - Lowest
           /\ a = b => a * b >= 0
<1>. DEFINE L == Lowest
            K == Lowest - 1
<1>1. L \in Nat /\ K \in Nat /\ L = K + 1
  BY WidthFacts
<1>. HIDE DEF L, K
<1>2. L * L = K * L + L /\ L * K = K * L /\ K * K = K * L - K /\ K * L \in Nat /\ L * L \in Nat
  BY <1>1
<1>3. -L <= a /\ a <= K /\ -L <= b /\ b <= K
  BY <1>1 DEF L
<1>. SUFFICES /\ a * b \in Int /\ a * b <= L * L /\ a * b >= L - L * L
              /\ a # b => a * b <= L * L - L
              /\ a = b => a * b >= 0
  BY DEF L
<1>4. CASE a >= 0 /\ b >= 0
  <2>1. a \in 0 .. K /\ b \in 0 .. K
      BY <1>1, <1>3, <1>4
  <2>2. a * b \in Nat /\ a * b <= K * K
      BY <1>1, <2>1, ProductMonotonic
  <2>. QED BY <1>1, <1>2, <2>2
<1>5. CASE a >= 0 /\ b < 0
  <2>1. a \in 0 .. K /\ -b \in 0 .. L
      BY <1>1, <1>3, <1>5
  <2>2. a * (-b) \in Nat /\ a * (-b) <= K * L
      BY <1>1, <2>1, ProductMonotonic
  <2>3. a * (-b) = -(a * b)
      OBVIOUS
  <2>. QED BY <1>1, <1>2, <1>5, <2>2, <2>3
<1>6. CASE a < 0 /\ b >= 0
  <2>1. -a \in 0 .. L /\ b \in 0 .. K
      BY <1>1, <1>3, <1>6
  <2>2. (-a) * b \in Nat /\ (-a) * b <= L * K
      BY <1>1, <2>1, ProductMonotonic
  <2>3. (-a) * b = -(a * b)
      OBVIOUS
  <2>. QED BY <1>1, <1>2, <1>6, <2>2, <2>3
<1>7. CASE a < 0 /\ b < 0
  <2>1. -a \in 0 .. L /\ -b \in 0 .. L
      BY <1>1, <1>3, <1>7
  <2>2. (-a) * (-b) = a * b
      OBVIOUS
  <2>3. a * b \in Nat /\ a * b <= L * L
      BY <1>1, <2>1, <2>2, ProductMonotonic
  <2>4. ASSUME a # b
        PROVE  a * b <= L * L - L
      <3>1. CASE -a <= K
          <4>1. -a \in 0 .. K
              BY <2>1, <3>1
          <4>. QED BY <1>1, <1>2, <2>1, <2>2, <4>1, ProductMonotonic
      <3>2. CASE ~(-a <= K)
          <4>1. -b \in 0 .. K
              BY <1>1, <1>3, <1>7, <2>4, <3>2
          <4>2. (-a) * (-b) <= L * K
              BY <1>1, <2>1, <4>1, ProductMonotonic
          <4>. QED BY <1>1, <1>2, <2>2, <4>2
      <3>. QED BY <3>1, <3>2
  <2>5. a * b >= L - L * L /\ a * b >= 0
      BY <1>1, <1>2, <2>3
  <2>. QED BY <2>3, <2>4, <2>5
<1>. QED BY <1>4, <1>5, <1>6, <1>7

(* The range of a product of a signed and an unsigned number.              *)
LEMMA MixedProducts ==
    ASSUME NEW a \in Int, NEW b \in Number, -Lowest <= a, a < Lowest
    PROVE  /\ a * b \in Int
           /\ a * b <= (Lowest - 1) * (W - 1) /\ a * b >= -(Lowest * (W - 1))
<1>. DEFINE L == Lowest
            K == Lowest - 1
            M == W - 1
<1>1. L \in Nat /\ K \in Nat /\ L = K + 1 /\ M \in Nat /\ b \in 0 .. M
  BY WidthFacts DEF Number
<1>. HIDE DEF L, K, M
<1>2. -L <= a /\ a <= K
  BY <1>1 DEF L
<1>. SUFFICES a * b \in Int /\ a * b <= K * M /\ a * b >= -(L * M)
  BY Zenon DEF L, K, M
<1>3. K * M \in Nat /\ L * M \in Nat
  BY <1>1
<1>4. CASE a >= 0
  <2>1. a \in 0 .. K
      BY <1>1, <1>2, <1>4
  <2>2. a * b \in Nat /\ a * b <= K * M
      BY <1>1, <2>1, ProductMonotonic
  <2>. QED BY <1>3, <2>2
<1>5. CASE a < 0
  <2>1. -a \in 0 .. L
      BY <1>1, <1>2, <1>5
  <2>2. (-a) * b \in Nat /\ (-a) * b <= L * M
      BY <1>1, <2>1, ProductMonotonic
  <2>3. (-a) * b = -(a * b)
      BY <1>1
  <2>. QED BY <1>1, <1>3, <2>2, <2>3
<1>. QED BY <1>4, <1>5

(* Between two multiples of the width the quotient lies between the two.   *)
LEMMA QuotientBounds ==
    ASSUME NEW n \in Int, NEW i \in Int, NEW j \in Int, i * W <= n, n < j * W
    PROVE  n \div W \in Int /\ i <= n \div W /\ n \div W < j
<1>. DEFINE q == n \div W
            r == n % W
<1>1. W \in Nat /\ W >= 1
  BY WidthFacts
<1>2. q \in Int /\ r \in 0 .. W - 1 /\ n = q * W + r
  BY <1>1, DivMod
<1>. HIDE DEF q, r
<1>3. (q - i) * W = q * W - i * W /\ (j - q) * W = j * W - q * W
  BY <1>1, <1>2
<1>4. ~(q - i <= -1)
  BY <1>1, <1>2, <1>3, Multiples
<1>5. ~(j - q <= -1) /\ j - q # 0
  BY <1>1, <1>2, <1>3, Multiples
<1>6. i <= q /\ q < j
  BY <1>2, <1>4, <1>5
<1>. QED BY <1>2, <1>6 DEF q

(* A number of three elements, written to the accumulator.                 *)
Composed(h, m, l) == (h * W + m) * W + l

-----------------------------------------------------------------------------
(* The three elements of the accumulator, and what is read from them.      *)

(* accumulatorSet takes a number apart into its elements.                  *)
LEMMA AccumulatorElements ==
    ASSUME NEW x \in Lane, NEW a \in Int, NEW b \in Number, NEW c \in Number
    PROVE  /\ accumulatorSet(x, Composed(a, b, c)) = Acc(x, U(a), b, c)
           /\ Acc(x, U(a), b, c) \in Lane
<1>. DEFINE v == (a * W + b) * W + c
<1>1. W \in Nat /\ W >= 1 /\ W * W \in Nat /\ W * W >= 1 /\ b \in 0 .. W - 1 /\ c \in 0 .. W - 1
  BY WidthFacts, Multiples DEF Number
<1>2. v \in Int /\ a * W + b \in Int /\ v = a * (W * W) + (b * W + c)
  BY <1>1
<1>3. b * W + c \in 0 .. W * W - 1
  <2>1. (W - 1 - b) * W = W * W - W - b * W
      BY <1>1
  <2>2. W - 1 - b \in Nat /\ b \in Nat
      BY <1>1
  <2>3. (W - 1 - b) * W \in Nat /\ b * W \in Nat
      BY <1>1, <2>2
  <2>. QED BY <1>1, <2>1, <2>3
<1>4. v \div W = a * W + b /\ v % W = c
  BY <1>1, <1>2, DivModUnique
<1>5. v \div (W * W) = a
  BY <1>1, <1>2, <1>3, DivModUnique
<1>6. U(v) = c /\ U(v \div W) = b /\ U(v \div (W * W)) = U(a)
  <2>1. U(a * W + b) = U(b)
      <3>1. b \in Int
          BY <1>1
      <3>. QED BY <3>1, UShift, Zenon
  <2>2. U(b) = b
      BY SFacts
  <2>. QED BY <1>4, <1>5, <2>1, <2>2 DEF U
<1>7. U(a) \in Number
  BY UFacts
<1>. HIDE DEF v
<1>8. accumulatorSet(x, v) = Acc(x, U(a), b, c)
  BY <1>6 DEF accumulatorSet, Acc
<1>9. Acc(x, U(a), b, c) \in Lane
  BY <1>7 DEF Acc, Lane
<1>. QED BY <1>8, <1>9 DEF v, Composed

(* Saturation.                                                             *)
LEMMA SaturatedMiddle ==
    ASSUME NEW h \in Number, NEW m \in Number
    PROVE  U(sclamp(S(h) * W + m))
               = IF S(h) < 0 /\ (h # Ones \/ S(m) >= 0) THEN Lowest
                 ELSE IF S(h) >= 0 /\ (h # 0 \/ S(m) < 0) THEN Highest ELSE m
<1>. DEFINE v == S(h) * W + m
<1>1. /\ Lowest \in Nat /\ Lowest >= 2 /\ W = 2 * Lowest /\ Highest = Lowest - 1 /\ Ones = W - 1
      /\ h \in Nat /\ h < W /\ S(h) = (IF h < Lowest THEN h ELSE h - W) /\ S(h) \in Int
      /\ m \in Nat /\ m < W /\ S(m) = (IF m < Lowest THEN m ELSE m - W) /\ S(m) \in Int
      /\ W \in Nat /\ W >= 1
  BY SFacts, WidthFacts DEF Highest, Ones
<1>2. U(-Lowest) = Lowest /\ U(Highest) = Highest /\ U(S(m)) = m /\ U(m) = m
  <2>1. -Lowest \in Int /\ Highest \in Int /\ -Lowest <= Highest /\ Highest < Lowest
        /\ -Lowest <= -Lowest /\ -Lowest < Lowest /\ ~(Highest < 0) /\ -Lowest < 0
        /\ -Lowest + W = Lowest
      BY <1>1
  <2>2. U(Highest) = Highest
      BY <2>1, USigned
  <2>3. U(-Lowest) = Lowest
      BY <2>1, USigned
  <2>. QED BY <2>2, <2>3, SFacts
<1>3. S(h) * W \in Int /\ v \in Int /\ v = S(h) * W + m
  BY <1>1
<1>. HIDE DEF v
<1>4. CASE S(h) <= -2
  <2>1. (S(h) + 1) * W <= -W
      BY <1>1, <1>4, Multiples
  <2>2. (S(h) + 1) * W = S(h) * W + W
      BY <1>1
  <2>3. v < -Lowest
      BY <1>1, <1>3, <2>1, <2>2
  <2>4. sclamp(v) = -Lowest
      BY <1>1, <1>3, <2>3 DEF sclamp
  <2>5. S(h) < 0 /\ h # Ones
      BY <1>1, <1>4
  <2>. QED BY <1>2, <2>4, <2>5, Zenon DEF v
<1>5. CASE S(h) = -1
  <2>1. S(h) * W = -W
      BY <1>1, <1>5
  <2>2. v = m - W /\ S(h) < 0 /\ h = Ones /\ ~(S(h) >= 0)
      BY <1>1, <1>3, <1>5, <2>1
  <2>3. CASE m < Lowest
      <3>1. sclamp(v) = -Lowest /\ S(m) >= 0
          BY <1>1, <2>2, <2>3 DEF sclamp
      <3>. QED BY <1>2, <2>2, <3>1, Zenon DEF v
  <2>4. CASE ~(m < Lowest)
      <3>1. sclamp(v) = S(m) /\ ~(S(m) >= 0)
          BY <1>1, <2>2, <2>4 DEF sclamp
      <3>. QED BY <1>2, <2>2, <3>1, Zenon DEF v
  <2>. QED BY <2>3, <2>4
<1>6. CASE S(h) = 0
  <2>1. S(h) * W = 0
      BY <1>1, <1>6
  <2>2. v = m /\ S(h) >= 0 /\ h = 0 /\ ~(S(h) < 0)
      BY <1>1, <1>3, <1>6, <2>1
  <2>3. CASE m < Lowest
      <3>1. sclamp(v) = m /\ ~(S(m) < 0)
          BY <1>1, <2>2, <2>3 DEF sclamp
      <3>. QED BY <1>2, <2>2, <3>1, Zenon DEF v
  <2>4. CASE ~(m < Lowest)
      <3>1. sclamp(v) = Highest /\ S(m) < 0
          BY <1>1, <2>2, <2>4 DEF sclamp
      <3>. QED BY <1>2, <2>2, <3>1, Zenon DEF v
  <2>. QED BY <2>3, <2>4
<1>7. CASE S(h) >= 1
  <2>1. S(h) * W >= W
      BY <1>1, <1>7, Multiples
  <2>2. sclamp(v) = Highest /\ S(h) >= 0 /\ ~(S(h) < 0) /\ h # 0
      BY <1>1, <1>3, <1>7, <2>1 DEF sclamp
  <2>. QED BY <1>2, <2>2, Zenon DEF v
<1>. QED BY <1>1, <1>4, <1>5, <1>6, <1>7

(* The signed result that both halves take from the accumulator.           *)
LEMMA MiddleAgrees ==
    ASSUME NEW x \in Lane
    PROVE  Middle(x) = SignedMiddle(x) /\ SignedMiddle(x) \in Lane
<1>1. x.h \in Number /\ x.m \in Number
  BY LaneFacts
<1>2. U(sclamp(S(x.h) * W + x.m)) = accumulatorSaturate(x, TRUE, Lowest, Highest)
  BY <1>1, SaturatedMiddle DEF accumulatorSaturate
<1>3. Lowest \in Number /\ Highest \in Number
  BY WidthFacts DEF Number, Highest
<1>4. accumulatorSaturate(x, TRUE, Lowest, Highest) \in Number
  BY <1>1, <1>3 DEF accumulatorSaturate
<1>5. SignedMiddle(x) \in Lane
  BY <1>4 DEF SignedMiddle, Lane
<1>6. Middle(x) = SignedMiddle(x)
  BY <1>2, Zenon DEF Middle, SignedMiddle, packs
<1>. QED BY <1>5, <1>6

(* The unsigned one.                                                       *)
LEMMA LowAgrees ==
    ASSUME NEW x \in Lane
    PROVE  Low(x) = UnsignedLow(x) /\ UnsignedLow(x) \in Lane
<1>. DEFINE nhi == srai15(x.h)
            nmd == srai15(x.m)
            cmask == And(cmpeq(nhi, nmd), cmpeq(nhi, x.h))
            result == blendv(cmpeq(nhi, 0), x.l, cmask)
<1>1. x.h \in Number /\ x.m \in Number /\ x.l \in Number
  BY LaneFacts
<1>2. /\ 0 \in Number /\ Ones \in Number /\ 0 \in Mask /\ Ones \in Mask /\ Ones # 0
      /\ S(0) = 0 /\ S(Ones) = -1
  BY SetFacts, MaskFacts
<1>3. /\ nhi \in Mask /\ (nhi = 0 <=> S(x.h) >= 0)
      /\ nmd \in Mask /\ (nmd = 0 <=> S(x.m) >= 0)
  BY <1>1, SignMask
<1>. HIDE DEF nhi, nmd
<1>4. /\ cmpeq(nhi, nmd) \in Mask /\ (cmpeq(nhi, nmd) = 0 <=> nhi # nmd)
      /\ cmpeq(nhi, x.h) \in Mask /\ (cmpeq(nhi, x.h) = 0 <=> nhi # x.h)
      /\ cmpeq(nhi, x.h) \in Number
      /\ cmpeq(nhi, 0) = IF nhi = 0 THEN Ones ELSE 0
  BY MaskFacts, SetFacts DEF cmpeq, set
<1>5. cmask \in Mask /\ (cmask # 0 <=> nhi = nmd /\ nhi = x.h)
  <2>1. cmask = IF cmpeq(nhi, nmd) = 0 THEN 0 ELSE cmpeq(nhi, x.h)
      BY <1>4, MaskFacts
  <2>. QED BY <1>2, <1>4, <2>1
<1>6. result = IF cmask = 0 THEN (IF nhi = 0 THEN Ones ELSE 0) ELSE x.l
  BY <1>4, <1>5, MaskFacts
<1>. HIDE DEF cmask
<1>7. result = accumulatorSaturate(x, FALSE, 0, Ones)
  <2>. HIDE DEF result
  <2>1. S(x.h) \in Int /\ S(x.m) \in Int
      BY <1>1, SFacts
  <2>2. CASE S(x.h) < 0
      BY <1>2, <1>3, <1>5, <1>6, <2>1, <2>2 DEF accumulatorSaturate, Mask
  <2>3. CASE S(x.h) >= 0
      BY <1>2, <1>3, <1>5, <1>6, <2>1, <2>3 DEF accumulatorSaturate, Mask
  <2>4. S(x.h) < 0 \/ S(x.h) >= 0
      BY <2>1
  <2>. QED BY <2>2, <2>3, <2>4
<1>8. accumulatorSaturate(x, FALSE, 0, Ones) \in Number
  BY <1>1, <1>2 DEF accumulatorSaturate
<1>9. UnsignedLow(x) \in Lane
  BY <1>8 DEF UnsignedLow, Lane
<1>10. Low(x) = [x EXCEPT !.vd = result]
  BY Zenon DEF Low, cmask, nhi, nmd
<1>. QED BY <1>7, <1>9, <1>10, Zenon DEF UnsignedLow

(* Reduced at the end or on the way, a sum is the same.                    *)
LEMMA USum ==
    ASSUME NEW p \in Int, NEW q \in Int
    PROVE  U(p + U(q)) = U(p + q) /\ U(U(p) + q) = U(p + q) /\ U(U(p) - U(q)) = U(p - q)
<1>1. W \in Nat /\ W >= 1
  BY WidthFacts
<1>2. PICK i \in Int : p = i * W + U(p)
  BY <1>1, DivMod DEF U
<1>3. PICK j \in Int : q = j * W + U(q)
  BY <1>1, DivMod DEF U
<1>4. U(p) \in Int /\ U(q) \in Int
  <2>1. U(p) \in Number /\ U(q) \in Number
      BY UFacts
  <2>. QED BY <2>1, SFacts
<1>5. p + q = (p + U(q)) + j * W /\ p + U(q) \in Int
  BY <1>1, <1>3, <1>4
<1>6. p + q = (U(p) + q) + i * W /\ U(p) + q \in Int
  BY <1>1, <1>2, <1>4
<1>7. p - q = (U(p) - U(q)) + (i - j) * W /\ U(p) - U(q) \in Int /\ i - j \in Int
  <2>1. (i - j) * W = i * W - j * W
      BY <1>1
  <2>. DEFINE u == U(p)
              v == U(q)
  <2>2. u \in Int /\ v \in Int /\ p = i * W + u /\ q = j * W + v
      BY <1>2, <1>3, <1>4
  <2>. HIDE DEF u, v
  <2>3. p - q = (u - v) + (i - j) * W /\ u - v \in Int /\ i - j \in Int
      BY <1>1, <2>1, <2>2
  <2>. QED BY <2>3 DEF u, v
<1>8. U(p + q) = U(p + U(q))
  BY <1>5, UShift
<1>9. U(p + q) = U(U(p) + q)
  BY <1>6, UShift
<1>10. U(p - q) = U(U(p) - U(q))
  BY <1>7, UShift
<1>. QED BY <1>8, <1>9, <1>10

(* A mask is added as its opposite bit and subtracted as its bit.          *)
LEMMA Opposite ==
    ASSUME NEW h \in Int, NEW e \in {0, 1}, NEW c \in {0, 1}
    PROVE  U((h + e * (W - 1)) - c * (W - 1)) = U(h - e + c)
<1>1. W \in Nat
  BY WidthFacts
<1>2. (h + e * (W - 1)) - c * (W - 1) = (h - e + c) + (e - c) * W
  BY <1>1
<1>3. h - e + c \in Int /\ e - c \in Int
  OBVIOUS
<1>4. U((h - e + c) + (e - c) * W) = U(h - e + c)
  BY <1>3, UShift, Zenon
<1>. QED BY <1>2, <1>4

(* A sum of two numbers is a carry and a number.                           *)
LEMMA Carry ==
    ASSUME NEW p \in Number, NEW q \in Number
    PROVE  LET k == IF p + q < W THEN 0 ELSE 1
           IN  k \in {0, 1} /\ p + q = k * W + add(p, q)
<1>1. W \in Nat /\ p \in Nat /\ q \in Nat /\ add(p, q) = (IF p + q < W THEN p + q ELSE p + q - W)
  BY WidthFacts, SFacts, WrappedFacts
<1>2. CASE p + q < W
  BY <1>1, <1>2
<1>3. CASE ~(p + q < W)
  BY <1>1, <1>3
<1>. QED BY <1>2, <1>3

(* The elements of a sum with three elements, carry by carry.              *)
CarryOf(l, r) == IF l + r < W THEN 0 ELSE 1
Total(h, m, l, d, r) == Composed(h, m, l) + ((d - CarryOf(l, r)) * W + r)

(* Carries go from element to element as in one long number.               *)
LEMMA AddElements ==
    ASSUME NEW h \in Number, NEW m \in Number, NEW l \in Number,
           NEW r \in Number, NEW d \in Int, -W <= d, d < W,
           NEW hi, hi = (IF d < 0 THEN Ones ELSE 0)
    PROVE  \E a \in Int : /\ Total(h, m, l, d, r) = Composed(a, add(m, U(d)), add(l, r))
                          /\ U(a) = sub(add(h, hi), carried(m, U(d)))
<1>. DEFINE carry == IF l + r < W THEN 0 ELSE 1
            e == IF d < 0 THEN 1 ELSE 0
            c == IF m + U(d) < W THEN 0 ELSE 1
            k == carried(m, U(d))
<1>1. h \in Int /\ m \in Int /\ l \in Int /\ r \in Int /\ W \in Nat /\ W >= 1 /\ Ones = W - 1
  BY SFacts, WidthFacts DEF Ones
<1>2. e \in {0, 1} /\ U(d) \in Number /\ d + e * W = U(d)
  <2>1. W \in Int /\ d < 2 * W
      BY <1>1
  <2>2. U(d) \in Number /\ U(d) = (IF d < 0 THEN d + W ELSE IF d < W THEN d ELSE d - W)
      BY <2>1, UCases
  <2>3. CASE d < 0
      BY <1>1, <2>2, <2>3
  <2>4. CASE ~(d < 0)
      BY <1>1, <2>2, <2>4
  <2>. QED BY <2>3, <2>4
<1>3. carry \in {0, 1} /\ l + r = carry * W + add(l, r) /\ add(l, r) \in Int
  BY Carry, WrappedFacts, SFacts
<1>4. c \in {0, 1} /\ m + U(d) = c * W + add(m, U(d)) /\ add(m, U(d)) \in Int
  BY <1>2, Carry, WrappedFacts, SFacts
<1>5. k \in Number /\ k \in Int /\ k = c * (W - 1)
  <2>1. k \in Mask /\ (k = 0 <=> m + U(d) < W)
      BY <1>2, CarryFacts
  <2>2. CASE m + U(d) < W
      BY <1>1, <2>1, <2>2, SetFacts
  <2>3. CASE ~(m + U(d) < W)
      <3>1. k = Ones /\ c = 1
          BY <2>1, <2>3 DEF Mask
      <3>2. k = W - 1 /\ c * (W - 1) = W - 1
          BY <1>1, <3>1
      <3>. HIDE DEF k, c
      <3>. QED BY <1>1, <3>1, <3>2, SetFacts
  <2>. QED BY <2>2, <2>3
<1>6. hi \in Number /\ hi \in Int /\ hi = e * (W - 1)
  <2>1. CASE d < 0
      BY <1>1, <2>1, SetFacts
  <2>2. CASE ~(d < 0)
      BY <1>1, <2>2, SetFacts
  <2>. QED BY <2>1, <2>2
<1>. HIDE DEF carry, e, c, k
<1>7. sub(add(h, hi), k) = U(h - e + c)
  <2>1. U(h + hi) = add(h, hi) /\ U(k) = k /\ h + hi \in Int
      BY <1>1, <1>5, <1>6, SFacts DEF add
  <2>2. sub(add(h, hi), k) = U((h + hi) - k)
      BY <1>5, <2>1, USum DEF sub
  <2>3. U((h + e * (W - 1)) - c * (W - 1)) = U(h - e + c)
      BY <1>1, <1>2, <1>4, Opposite
  <2>. QED BY <1>5, <1>6, <2>2, <2>3
<1>8. ((h * W + m) * W + l) + ((d - carry) * W + r)
          = ((h - e + c) * W + add(m, U(d))) * W + add(l, r)
  <2>. DEFINE m1 == add(m, U(d))
              l1 == add(l, r)
  <2>1. e \in Int /\ c \in Int /\ carry \in Int /\ m1 \in Int /\ l1 \in Int
      BY <1>2, <1>3, <1>4
  <2>2. m + (d + e * W) = c * W + m1 /\ l + r = carry * W + l1
      BY <1>2, <1>3, <1>4
  <2>. HIDE DEF m1, l1
  <2>3. ((h * W + m) * W + l) + ((d - carry) * W + r)
            = (h * W + (m + d)) * W + ((l + r) - carry * W)
      BY <1>1, <2>1
  <2>4. h * W + (m + d) = (h - e + c) * W + m1
      <3>1. m + d = c * W + m1 - e * W
          BY <1>1, <2>1, <2>2
      <3>2. (h - e + c) * W = h * W - e * W + c * W
          BY <1>1, <2>1
      <3>. QED BY <1>1, <2>1, <3>1, <3>2
  <2>5. (h * W + (m + d)) * W = ((h - e + c) * W + m1) * W
      BY <2>4
  <2>6. (l + r) - carry * W = l1
      BY <1>1, <2>1, <2>2
  <2>7. ((h * W + m) * W + l) + ((d - carry) * W + r) = ((h - e + c) * W + m1) * W + l1
      BY <2>3, <2>5, <2>6
  <2>. QED BY <2>7 DEF m1, l1
<1>9. h - e + c \in Int
  BY <1>1, <1>2, <1>4
<1>10. Total(h, m, l, d, r) = Composed(h - e + c, add(m, U(d)), add(l, r))
  BY <1>8, Zenon DEF Total, Composed, CarryOf, carry
<1>. QED BY <1>7, <1>9, <1>10 DEF k

(* Elements with their carries add the whole number to the accumulator.    *)
LEMMA AddAgrees ==
    ASSUME NEW x \in Lane, NEW r \in Number, NEW d \in Int, -W <= d, d < W,
           NEW hi, hi = (IF d < 0 THEN Ones ELSE 0)
    PROVE  LET carry == IF x.l + r < W THEN 0 ELSE 1
               y == AddHigh(AddMiddle(AddLow(x, r), U(d)), hi, carried(x.m, U(d)))
           IN  Accumulate(x, (d - carry) * W + r) = y /\ y \in Lane
<1>. DEFINE carry == IF x.l + r < W THEN 0 ELSE 1
            y == AddHigh(AddMiddle(AddLow(x, r), U(d)), hi, carried(x.m, U(d)))
            l == add(x.l, r)
            m == add(x.m, U(d))
            h == sub(add(x.h, hi), carried(x.m, U(d)))
<1>1. x.h \in Number /\ x.m \in Number /\ x.l \in Number
  BY LaneFacts
<1>2. PICK a \in Int : Total(x.h, x.m, x.l, d, r) = Composed(a, m, l) /\ U(a) = h
  <2>1. \A h1, m1, l1 \in Number : \E a \in Int :
            /\ Total(h1, m1, l1, d, r) = Composed(a, add(m1, U(d)), add(l1, r))
            /\ U(a) = sub(add(h1, hi), carried(m1, U(d)))
      BY AddElements
  <2>. QED BY <1>1, <2>1, Zenon
<1>3. l \in Number /\ m \in Number
  BY <1>1, UFacts, WrappedFacts
<1>. HIDE DEF l, m, h
<1>4. Accumulate(x, (d - carry) * W + r) = accumulatorSet(x, Total(x.h, x.m, x.l, d, r))
  BY Zenon DEF Accumulate, accumulatorGet, Total, Composed, CarryOf
<1>. HIDE DEF carry
<1>5. Accumulate(x, (d - carry) * W + r) = Acc(x, h, m, l) /\ Acc(x, h, m, l) \in Lane
  <2>1. accumulatorSet(x, Composed(a, m, l)) = Acc(x, U(a), m, l) /\ Acc(x, U(a), m, l) \in Lane
      BY <1>3, AccumulatorElements
  <2>. QED BY <1>2, <1>4, <2>1
<1>6. h \in Number
  BY <1>2, UFacts
<1>7. y = Acc(x, h, m, l)
  <2>1. y \in Lane /\ y.h = h /\ y.m = m /\ y.l = l /\ y.vd = x.vd /\ y.vcol = x.vcol
        /\ y.vcoh = x.vcoh /\ y.vccl = x.vccl /\ y.vcch = x.vcch /\ y.vce = x.vce
      BY <1>3, <1>6 DEF AddHigh, AddMiddle, AddLow, Lane, h, m, l
  <2>. HIDE DEF y
  <2>. QED BY <1>5, <2>1, LaneEqual DEF Acc, Lane
<1>. HIDE DEF y
<1>8. Accumulate(x, (d - carry) * W + r) = y /\ y \in Lane
  BY <1>5, <1>7
<1>. QED BY <1>8 DEF carry, y

-----------------------------------------------------------------------------
(* Multiplications that take halves of a wide number: VMUD and VMAD.       *)

(* mulhiu and mullo are the elements of an unsigned product.               *)
LEMMA UnsignedProduct ==
    ASSUME NEW s \in Number, NEW t \in Number
    PROVE  /\ s * t \in Nat
           /\ mulhiu(s, t) \in Number /\ mullo(s, t) \in Number
           /\ s * t = mulhiu(s, t) * W + mullo(s, t)
<1>1. W \in Nat /\ W >= 1 /\ s \in 0 .. W - 1 /\ t \in 0 .. W - 1 /\ W - 1 \in Nat
  BY WidthFacts DEF Number
<1>2. s * t \in Nat /\ s * t <= (W - 1) * (W - 1)
  BY <1>1, ProductMonotonic
<1>3. (W - 1) * (W - 1) = W * W - 2 * W + 1
  BY <1>1
<1>. DEFINE p == s * t
<1>4. p \in Int /\ 0 * W <= p /\ p < W * W
  BY <1>1, <1>2, <1>3
<1>. HIDE DEF p
<1>5. p \div W \in Int /\ 0 <= p \div W /\ p \div W < W
  BY <1>1, <1>4, QuotientBounds
<1>6. p = (p \div W) * W + (p % W) /\ p % W \in 0 .. W - 1
  BY <1>1, <1>4, DivMod
<1>7. mulhiu(s, t) = p \div W /\ mullo(s, t) = p % W
  BY DEF mulhiu, mullo, U, p
<1>8. p \div W \in Number /\ p % W \in Number
  BY <1>1, <1>5, <1>6 DEF Number
<1>. QED BY <1>2, <1>6, <1>7, <1>8 DEF p

(* A signed reading is a number less W under the mask of its sign.         *)
LEMMA SignedParts ==
    ASSUME NEW n \in Number
    PROVE  \E a \in {0, 1} : /\ S(n) = n - a * W
                             /\ srai15(n) = (IF a = 0 THEN 0 ELSE Ones)
<1>1. n \in Nat /\ S(n) = (IF n < Lowest THEN n ELSE n - W) /\ W \in Nat /\ (S(n) < 0 <=> ~(n < Lowest))
  BY SFacts, WidthFacts
<1>2. CASE n < Lowest
  <2>1. S(n) = n - 0 * W /\ ~(S(n) < 0)
      BY <1>1, <1>2
  <2>2. srai15(n) = 0
      BY <2>1 DEF srai15, set
  <2>. QED BY <2>1, <2>2
<1>3. CASE ~(n < Lowest)
  <2>1. S(n) = n - 1 * W /\ S(n) < 0
      BY <1>1, <1>3
  <2>2. srai15(n) = Ones
      BY <2>1 DEF srai15, set
  <2>. QED BY <2>1, <2>2
<1>. QED BY <1>2, <1>3

(* The product of a signed and of an unsigned number.                      *)
LEMMA MixedProduct ==
    ASSUME NEW s \in Number, NEW t \in Number
    PROVE  \E q \in Int : /\ S(s) * t = q * W + mullo(s, t)
                          /\ -Lowest <= q /\ q < Lowest - 1
                          /\ sub(mulhiu(s, t), And(t, srai15(s))) = U(q)
<1>1. W \in Nat /\ W >= 1 /\ t \in Int /\ s \in Int /\ t \in Nat /\ Lowest \in Nat /\ Lowest >= 2
      /\ W = 2 * Lowest
  BY SFacts, WidthFacts
<1>2. PICK a \in {0, 1} : S(s) = s - a * W /\ srai15(s) = (IF a = 0 THEN 0 ELSE Ones)
  BY SignedParts
<1>. DEFINE u == mulhiu(s, t)
            r == mullo(s, t)
            q == u - a * t
            p == S(s) * t
<1>3. u \in Int /\ r \in Int /\ s * t = u * W + r /\ u \in Number /\ r \in Number
  <2>1. u \in Number /\ r \in Number /\ s * t = u * W + r
      BY UnsignedProduct
  <2>. QED BY <2>1, SFacts
<1>4. r \in 0 .. W - 1
  BY <1>3 DEF Number
<1>. HIDE DEF u, r
<1>5. q \in Int
  BY <1>1, <1>2, <1>3
<1>6. p = q * W + r /\ p \in Int
  <2>1. S(s) \in Int
      BY SFacts
  <2>2. p = (s - a * W) * t
      BY <1>2
  <2>3. (s - a * W) * t = s * t - (a * t) * W
      BY <1>1, <1>2
  <2>4. q * W = u * W - (a * t) * W
      BY <1>1, <1>2, <1>3
  <2>. QED BY <1>1, <1>2, <1>3, <2>1, <2>2, <2>3, <2>4
<1>7. p <= (Lowest - 1) * (W - 1) /\ p >= -(Lowest * (W - 1))
  BY SFacts, MixedProducts
<1>8. And(t, srai15(s)) = a * t /\ And(t, srai15(s)) \in Number
  <2>1. CASE a = 0
      <3>1. a * t = 0
          BY <1>1, <2>1
      <3>2. srai15(s) = 0
          BY <1>2, <2>1
      <3>. QED BY <3>1, <3>2, AndFacts, SetFacts
  <2>2. CASE a = 1
      <3>1. a * t = t
          BY <1>1, <2>2
      <3>2. srai15(s) = Ones
          BY <1>2, <2>2
      <3>. QED BY <3>1, <3>2, AndFacts
  <2>. QED BY <2>1, <2>2
<1>9. sub(u, And(t, srai15(s))) = U(q)
  BY <1>8 DEF sub
<1>. HIDE DEF q, p
<1>10. q = p \div W
  BY <1>1, <1>4, <1>5, <1>6, DivModUnique
<1>11. (-Lowest) * W <= p /\ p < (Lowest - 1) * W
  <2>1. (Lowest - 1) * (W - 1) = (Lowest - 1) * W - (Lowest - 1)
        /\ Lowest * (W - 1) = Lowest * W - Lowest /\ (-Lowest) * W = -(Lowest * W)
        /\ Lowest * W \in Int /\ (Lowest - 1) * W \in Int
      BY <1>1
  <2>. QED BY <1>1, <1>6, <1>7, <2>1
<1>12. -Lowest <= q /\ q < Lowest - 1
  <2>1. -Lowest \in Int /\ Lowest - 1 \in Int
      BY <1>1
  <2>. QED BY <1>6, <1>10, <1>11, <2>1, QuotientBounds
<1>13. p = q * W + r /\ q \in Int /\ sub(u, And(t, srai15(s))) = U(q)
  BY <1>5, <1>6, <1>9
<1>. QED BY <1>12, <1>13 DEF u, r, p

(* The product of two signed numbers.                                      *)
LEMMA SignedProduct ==
    ASSUME NEW s \in Number, NEW t \in Number
    PROVE  \E q \in Int : /\ S(s) * S(t) = q * W + mullo(s, t)
                          /\ -Lowest <= 2 * q /\ 2 * q <= Lowest
                          /\ mulhi(s, t) = U(q)
<1>1. W \in Nat /\ W >= 1 /\ t \in Int /\ s \in Int /\ Lowest \in Nat /\ Lowest >= 2
      /\ W = 2 * Lowest /\ S(s) \in Int /\ S(t) \in Int
  BY SFacts, WidthFacts
<1>. DEFINE r == mullo(s, t)
            p == S(s) * S(t)
            q == p \div W
<1>2. p \in Int /\ p <= Lowest * Lowest /\ p >= Lowest - Lowest * Lowest
  BY SFacts, SignedProducts
<1>3. U(p) = r /\ r \in Number
  <2>1. PICK a \in {0, 1} : S(s) = s - a * W
      BY SignedParts
  <2>2. PICK b \in {0, 1} : S(t) = t - b * W
      BY SignedParts
  <2>3. p = (s - a * W) * (t - b * W)
      BY <2>1, <2>2
  <2>4. (s - a * W) * (t - b * W) = s * t + (a * b * W - a * t - b * s) * W
      BY <1>1, <2>1, <2>2
  <2>5. s * t \in Int /\ a * b * W - a * t - b * s \in Int
      BY <1>1, <2>1, <2>2
  <2>6. U(s * t + (a * b * W - a * t - b * s) * W) = U(s * t)
      BY <2>5, UShift, Zenon
  <2>7. U(p) = U(s * t)
      BY <2>3, <2>4, <2>6
  <2>. QED BY <2>7, UnsignedProduct DEF mullo
<1>4. mulhi(s, t) = U(q)
  BY DEF mulhi
<1>. HIDE DEF p, r
<1>5. q \in Int /\ p = q * W + (p % W) /\ p % W = r /\ r \in 0 .. W - 1
  BY <1>1, <1>2, <1>3, DivMod DEF U, Number
<1>. HIDE DEF q
<1>6. 2 * q <= Lowest
  <2>1. (Lowest - 2 * q) * W = Lowest * W - 2 * (q * W) /\ Lowest * W = 2 * (Lowest * Lowest)
      BY <1>1, <1>5
  <2>2. (Lowest - 2 * q) * W >= 0
      BY <1>1, <1>2, <1>5, <2>1
  <2>3. ~(Lowest - 2 * q <= -1)
      BY <1>1, <1>5, <2>2, Multiples
  <2>. QED BY <1>1, <1>5, <2>3
<1>7. -Lowest <= 2 * q
  <2>1. (2 * q + Lowest) * W = 2 * (q * W) + Lowest * W /\ Lowest * W = 2 * (Lowest * Lowest)
      BY <1>1, <1>5
  <2>2. (2 * q + Lowest) * W > -W
      BY <1>1, <1>2, <1>5, <2>1
  <2>3. ~(2 * q + Lowest <= -1)
      BY <1>1, <1>5, <2>2, Multiples
  <2>. QED BY <1>1, <1>5, <2>3
<1>8. p = q * W + r
  BY <1>5
<1>. QED BY <1>4, <1>5, <1>6, <1>7, <1>8 DEF p, r

(* VMUDL: the high half of an unsigned product.                            *)
LEMMA VMUDLAgrees ==
    ASSUME NEW x \in Lane, NEW s \in Number, NEW t \in Number
    PROVE  simdVMUDL(x, s, t) = VMUDL(x, s, t) /\ VMUDL(x, s, t) \in Lane
<1>. DEFINE u == mulhiu(s, t)
            y == accumulatorSet(x, (s * t) \div W)
<1>1. u \in Number /\ u \in Int /\ W \in Int /\ U(0) = 0 /\ 0 \in Number
  BY UnsignedProduct, SFacts, SetFacts, WidthFacts
<1>. HIDE DEF u
<1>2. Composed(0, 0, u) = u
  BY <1>1 DEF Composed
<1>3. y = Acc(x, 0, 0, u) /\ y \in Lane
  <2>1. accumulatorSet(x, Composed(0, 0, u)) = Acc(x, U(0), 0, u) /\ Acc(x, U(0), 0, u) \in Lane
      BY <1>1, AccumulatorElements
  <2>2. y = accumulatorSet(x, u)
      BY DEF mulhiu, u
  <2>. QED BY <1>1, <1>2, <2>1, <2>2
<1>4. VMUDL(x, s, t) = [y EXCEPT !.vd = y.l]
  BY DEF VMUDL
<1>. HIDE DEF y
<1>5. VMUDL(x, s, t) \in Lane
  BY <1>3, <1>4, LaneFacts DEF Lane
<1>. QED BY <1>3, <1>4, <1>5 DEF simdVMUDL, u

(* A product of two elements, written to the accumulator.                  *)
LEMMA TwoElements ==
    ASSUME NEW x \in Lane, NEW q \in Int, -Lowest <= q, q < Lowest, NEW r \in Number
    PROVE  /\ accumulatorSet(x, q * W + r) = Acc(x, srai15(U(q)), U(q), r)
           /\ accumulatorSet(x, q * W + r) \in Lane
<1>1. W \in Int /\ U(q) \in Number /\ U(q) = (IF q < 0 THEN q + W ELSE q) /\ S(U(q)) = q
      /\ r \in Int
  BY USigned, SFacts, WidthFacts
<1>2. U(-1) = Ones /\ U(0) = 0
  <2>1. U(-1) = -1 + W
      BY USigned, WidthFacts
  <2>2. U(0) = 0
      BY SetFacts, SFacts
  <2>. QED BY <1>1, <2>1, <2>2 DEF Ones
<1>3. CASE q < 0
  <2>1. q * W + r = Composed(-1, U(q), r)
      BY <1>1, <1>3 DEF Composed
  <2>2. srai15(U(q)) = Ones
      BY <1>1, <1>3 DEF srai15, set
  <2>. QED BY <1>1, <1>2, <2>1, <2>2, AccumulatorElements
<1>4. CASE ~(q < 0)
  <2>1. q * W + r = Composed(0, U(q), r)
      BY <1>1, <1>4 DEF Composed
  <2>2. srai15(U(q)) = 0
      BY <1>1, <1>4 DEF srai15, set
  <2>. QED BY <1>1, <1>2, <2>1, <2>2, AccumulatorElements
<1>. QED BY <1>3, <1>4

(* VMUDM: a mixed product in the accumulator.                              *)
LEMMA VMUDMAgrees ==
    ASSUME NEW x \in Lane, NEW s \in Number, NEW t \in Number
    PROVE  simdVMUDM(x, s, t) = VMUDM(x, s, t) /\ VMUDM(x, s, t) \in Lane
<1>. DEFINE m == sub(mulhiu(s, t), And(t, srai15(s)))
            y == accumulatorSet(x, S(s) * t)
<1>1. PICK q \in Int : /\ S(s) * t = q * W + mullo(s, t)
                       /\ -Lowest <= q /\ q < Lowest - 1 /\ m = U(q)
  BY MixedProduct
<1>2. y = Acc(x, srai15(m), m, mullo(s, t)) /\ y \in Lane
  <2>1. q < Lowest
      BY <1>1, WidthFacts
  <2>. QED BY <1>1, <2>1, UnsignedProduct, TwoElements
<1>3. VMUDM(x, s, t) = [y EXCEPT !.vd = y.m]
  BY DEF VMUDM
<1>4. m \in Number
  BY <1>1, UFacts
<1>5. simdVMUDM(x, s, t) = [Acc(x, srai15(m), m, mullo(s, t)) EXCEPT !.vd = m]
  BY DEF simdVMUDM
<1>. HIDE DEF y, m
<1>6. y.m = m /\ VMUDM(x, s, t) \in Lane
  BY <1>2, <1>3, <1>4 DEF Acc, Lane
<1>. QED BY <1>2, <1>3, <1>5, <1>6

(* VMUDN: the same with the factors swapped.                               *)
LEMMA VMUDNAgrees ==
    ASSUME NEW x \in Lane, NEW s \in Number, NEW t \in Number
    PROVE  simdVMUDN(x, s, t) = VMUDN(x, s, t) /\ VMUDN(x, s, t) \in Lane
<1>. DEFINE m == sub(mulhiu(s, t), And(s, srai15(t)))
            y == accumulatorSet(x, s * S(t))
            r == mullo(s, t)
<1>1. /\ mulhiu(s, t) = mulhiu(t, s) /\ r = mullo(t, s) /\ s * S(t) = S(t) * s
      /\ r \in Number
  BY SFacts, UnsignedProduct DEF mulhiu, mullo
<1>2. PICK q \in Int : /\ S(t) * s = q * W + mullo(t, s)
                       /\ -Lowest <= q /\ q < Lowest - 1
                       /\ sub(mulhiu(t, s), And(s, srai15(t))) = U(q)
  BY MixedProduct
<1>3. m = U(q) /\ s * S(t) = q * W + r
  BY <1>1, <1>2
<1>4. y = Acc(x, srai15(m), m, r) /\ y \in Lane
  <2>1. q < Lowest
      BY <1>2, WidthFacts
  <2>. QED BY <1>1, <1>2, <1>3, <2>1, TwoElements
<1>5. VMUDN(x, s, t) = [y EXCEPT !.vd = y.l]
  BY DEF VMUDN
<1>6. simdVMUDN(x, s, t) = [Acc(x, srai15(m), m, r) EXCEPT !.vd = r]
  BY DEF simdVMUDN
<1>. HIDE DEF y, m, r
<1>7. y.l = r /\ VMUDN(x, s, t) \in Lane
  BY <1>1, <1>4, <1>5 DEF Acc, Lane
<1>. QED BY <1>4, <1>5, <1>6, <1>7

(* VMUDH: a signed product in the two upper elements.                      *)
LEMMA VMUDHAgrees ==
    ASSUME NEW x \in Lane, NEW s \in Number, NEW t \in Number
    PROVE  simdVMUDH(x, s, t) = VMUDH(x, s, t) /\ VMUDH(x, s, t) \in Lane
<1>. DEFINE r == mullo(s, t)
            p == S(s) * S(t)
<1>1. PICK q \in Int : p = q * W + r /\ mulhi(s, t) = U(q)
  BY SignedProduct
<1>2. r \in Number /\ 0 \in Number /\ W \in Int /\ r \in Int
  BY UnsignedProduct, SetFacts, WidthFacts, SFacts
<1>. HIDE DEF p, r
<1>3. p * W = Composed(q, r, 0)
  BY <1>1, <1>2 DEF Composed
<1>4. accumulatorSet(x, p * W) = Acc(x, mulhi(s, t), r, 0) /\ Acc(x, mulhi(s, t), r, 0) \in Lane
  BY <1>1, <1>2, <1>3, AccumulatorElements
<1>5. VMUDH(x, s, t) = SignedMiddle(accumulatorSet(x, p * W))
  BY DEF VMUDH, p
<1>6. simdVMUDH(x, s, t) = Middle(Acc(x, mulhi(s, t), r, 0))
  BY DEF simdVMUDH, r
<1>. QED BY <1>4, <1>5, <1>6, MiddleAgrees

(* A carry is taken from its mask by subtraction.                          *)
LEMMA SubCarry ==
    ASSUME NEW q \in Int, NEW l \in Number, NEW r \in Number
    PROVE  sub(U(q), carried(l, r)) = U(q + CarryOf(l, r))
<1>. DEFINE k == carried(l, r)
            c == CarryOf(l, r)
<1>1. W \in Nat /\ Ones = W - 1
  BY WidthFacts DEF Ones
<1>2. k \in Mask /\ (k = 0 <=> l + r < W)
  BY CarryFacts
<1>3. c \in {0, 1} /\ (c = 0 <=> l + r < W)
  BY DEF CarryOf
<1>. HIDE DEF k, c
<1>4. k \in Number /\ k \in Int /\ U(k) = k
  BY <1>2, MaskFacts, SFacts
<1>5. sub(U(q), k) = U(q - k)
  BY <1>4, USum DEF sub
<1>6. q - k = (q + c) + (-c) * W /\ q + c \in Int /\ -c \in Int
  <2>1. CASE c = 0
      BY <1>1, <1>2, <1>3, <2>1
  <2>2. CASE c = 1
      <3>1. k = W - 1
          BY <1>1, <1>2, <1>3, <2>2 DEF Mask
      <3>. QED BY <1>1, <2>2, <3>1
  <2>. QED BY <1>3, <2>1, <2>2
<1>7. U((q + c) + (-c) * W) = U(q + c)
  BY <1>6, UShift, Zenon
<1>8. sub(U(q), k) = U(q + c)
  BY <1>5, <1>6, <1>7
<1>. QED BY <1>8 DEF k, c

(* A signed number of two elements is added to the accumulator.            *)
LEMMA AddMixedAgrees ==
    ASSUME NEW x \in Lane, NEW q \in Int, NEW r \in Number, -Lowest <= q, q < Lowest - 1
    PROVE  /\ AddMixed(x, r, U(q)) = Accumulate(x, q * W + r)
           /\ Accumulate(x, q * W + r) \in Lane
<1>. DEFINE c == CarryOf(x.l, r)
            d == q + c
            hi == srai15(U(d))
            y == AddHigh(AddMiddle(AddLow(x, r), U(d)), hi, carried(x.m, U(d)))
<1>1. x.l \in Number
  BY LaneFacts
<1>2. c \in {0, 1}
  BY DEF CarryOf
<1>3. sub(U(q), carried(x.l, r)) = U(d)
  BY <1>1, SubCarry
<1>4. AddMixed(x, r, U(q)) = y
  BY <1>3, Zenon DEF AddMixed
<1>. HIDE DEF c
<1>5. d \in Int /\ -Lowest <= d /\ d < Lowest /\ -W <= d /\ d < W /\ d - c = q
  BY <1>2, WidthFacts
<1>. HIDE DEF d
<1>6. hi = (IF d < 0 THEN Ones ELSE 0)
  BY <1>5, USigned DEF srai15, set
<1>. HIDE DEF hi
<1>7. Accumulate(x, (d - (IF x.l + r < W THEN 0 ELSE 1)) * W + r) = y /\ y \in Lane
  BY <1>5, <1>6, AddAgrees
<1>8. Accumulate(x, (d - c) * W + r) = y
  BY <1>7, Zenon DEF c, CarryOf
<1>. HIDE DEF y
<1>. QED BY <1>4, <1>5, <1>7, <1>8

(* VMADL.                                                                  *)
LEMMA VMADLAgrees ==
    ASSUME NEW x \in Lane, NEW s \in Number, NEW t \in Number
    PROVE  simdVMADL(x, s, t) = VMADL(x, s, t) /\ VMADL(x, s, t) \in Lane
<1>. DEFINE r == mulhiu(s, t)
            c == CarryOf(x.l, r)
            y == AddHigh(AddMiddle(AddLow(x, r), U(c)), 0, carried(x.m, U(c)))
<1>1. x.l \in Number /\ r \in Number /\ r \in Int /\ U(0) = 0 /\ W \in Int /\ W >= 2
  BY LaneFacts, UnsignedProduct, SetFacts, SFacts, WidthFacts
<1>. HIDE DEF r
<1>2. c \in {0, 1}
  BY DEF CarryOf
<1>3. sub(0, carried(x.l, r)) = U(c)
  <2>1. sub(U(0), carried(x.l, r)) = U(0 + c)
    <3>1. 0 \in Int
        OBVIOUS
    <3>. QED BY <1>1, <3>1, SubCarry, Zenon
  <2>. HIDE DEF c
  <2>2. 0 + c = c
      BY <1>2
  <2>. QED BY <1>1, <2>1, <2>2
<1>4. simdVMADL(x, s, t) = Low(y)
  BY <1>3, Zenon DEF simdVMADL, r
<1>. HIDE DEF c
<1>5. c \in Int /\ -W <= c /\ c < W /\ ~(c < 0) /\ (c - c) * W + r = r
  BY <1>1, <1>2
<1>6. Accumulate(x, (c - (IF x.l + r < W THEN 0 ELSE 1)) * W + r) = y /\ y \in Lane
  BY <1>1, <1>5, AddAgrees
<1>7. Accumulate(x, (c - c) * W + r) = y
  BY <1>6, Zenon DEF c, CarryOf
<1>8. Accumulate(x, r) = y
  BY <1>5, <1>7
<1>. HIDE DEF y
<1>9. VMADL(x, s, t) = UnsignedLow(y)
  BY <1>8 DEF VMADL, r, mulhiu
<1>. QED BY <1>4, <1>6, <1>9, LowAgrees

(* VMADM.                                                                  *)
LEMMA VMADMAgrees ==
    ASSUME NEW x \in Lane, NEW s \in Number, NEW t \in Number
    PROVE  simdVMADM(x, s, t) = VMADM(x, s, t) /\ VMADM(x, s, t) \in Lane
<1>1. PICK q \in Int : /\ S(s) * t = q * W + mullo(s, t)
                       /\ -Lowest <= q /\ q < Lowest - 1
                       /\ sub(mulhiu(s, t), And(t, srai15(s))) = U(q)
  BY MixedProduct
<1>. DEFINE y == Accumulate(x, S(s) * t)
<1>2. y = AddMixed(x, mullo(s, t), U(q)) /\ y \in Lane
  BY <1>1, UnsignedProduct, AddMixedAgrees
<1>3. VMADM(x, s, t) = SignedMiddle(y)
  BY DEF VMADM
<1>4. simdVMADM(x, s, t) = Middle(y)
  BY <1>1, <1>2 DEF simdVMADM
<1>. QED BY <1>2, <1>3, <1>4, MiddleAgrees

(* VMADN.                                                                  *)
LEMMA VMADNAgrees ==
    ASSUME NEW x \in Lane, NEW s \in Number, NEW t \in Number
    PROVE  simdVMADN(x, s, t) = VMADN(x, s, t) /\ VMADN(x, s, t) \in Lane
<1>1. /\ mulhiu(s, t) = mulhiu(t, s) /\ mullo(s, t) = mullo(t, s) /\ s * S(t) = S(t) * s
      /\ mullo(s, t) \in Number
  BY SFacts, UnsignedProduct DEF mulhiu, mullo
<1>2. PICK q \in Int : /\ S(t) * s = q * W + mullo(t, s)
                       /\ -Lowest <= q /\ q < Lowest - 1
                       /\ sub(mulhiu(t, s), And(s, srai15(t))) = U(q)
  BY MixedProduct
<1>. DEFINE y == Accumulate(x, s * S(t))
<1>3. s * S(t) = q * W + mullo(s, t) /\ sub(mulhiu(s, t), And(s, srai15(t))) = U(q)
  BY <1>1, <1>2
<1>4. y = AddMixed(x, mullo(s, t), U(q)) /\ y \in Lane
  BY <1>1, <1>2, <1>3, AddMixedAgrees
<1>5. VMADN(x, s, t) = UnsignedLow(y)
  BY DEF VMADN
<1>6. simdVMADN(x, s, t) = Low(y)
  BY <1>3, <1>4 DEF simdVMADN
<1>. QED BY <1>4, <1>5, <1>6, LowAgrees

(* The sum of VMADH without its lowest element, and the highest element    *)
(* that the SSE4.1 half makes of it.                                       *)
Upper(h, m, l, q, r) == ((h * W + m) * W + l) \div W + (q * W + r)
UpperSimd(h, m, q, r) == sub(add(h, sub(U(q), carried(m, r))), 0)

(* What VMADH makes of the two upper elements of the accumulator, in the   *)
(* scalar half and of its upper one in the other.                          *)
LEMMA UpperElements ==
    ASSUME NEW h \in Number, NEW m \in Number, NEW l \in Number,
           NEW r \in Number, NEW q \in Int
    PROVE  /\ U(Upper(h, m, l, q, r)) = add(m, r)
           /\ U(Upper(h, m, l, q, r) \div W) = UpperSimd(h, m, q, r)
           /\ UpperSimd(h, m, q, r) \in Number
<1>. DEFINE g == h * W + m
            result == (g * W + l) \div W + (q * W + r)
            c == CarryOf(m, r)
            n == add(m, r)
            upper == sub(add(h, sub(U(q), carried(m, r))), 0)
<1>1. /\ h \in Int /\ m \in Int /\ l \in Int /\ r \in Int /\ W \in Nat /\ W >= 1
      /\ l \in 0 .. W - 1
  BY WidthFacts DEF Number
<1>2. (g * W + l) \div W = g
  <2>1. g \in Int
      BY <1>1
  <2>. HIDE DEF g
  <2>2. g * W + l \in Int
      BY <1>1, <2>1
  <2>. QED BY <1>1, <2>1, <2>2, DivModUnique
<1>3. n \in Number
  BY WrappedFacts
<1>4. c \in {0, 1} /\ m + r = c * W + n
  BY Carry DEF CarryOf
<1>. HIDE DEF n, c
<1>5. result = (h + q + c) * W + n
  <2>1. result = h * W + m + (q * W + r)
      BY <1>2
  <2>2. (h + q + c) * W = h * W + q * W + c * W
      BY <1>1, <1>4
  <2>3. n \in Int /\ h * W \in Int /\ q * W \in Int /\ c * W \in Int
      BY <1>1, <1>3, <1>4 DEF Number
  <2>. HIDE DEF result
  <2>. QED BY <1>1, <1>4, <2>1, <2>2, <2>3
<1>. HIDE DEF result
<1>6. U(result) = n /\ U(result \div W) = U(h + q + c)
  <2>1. h + q + c \in Int /\ n \in 0 .. W - 1 /\ result \in Int
      BY <1>1, <1>3, <1>4, <1>5 DEF Number
  <2>. QED BY <1>1, <1>5, <2>1, DivModUnique DEF U
<1>7. upper = U(h + q + c) /\ upper \in Number
  <2>1. sub(U(q), carried(m, r)) = U(q + c)
      BY SubCarry DEF c
  <2>2. q + c \in Int /\ h + (q + c) = h + q + c
      BY <1>1, <1>4
  <2>3. add(h, U(q + c)) = U(h + (q + c))
      BY <1>1, <2>2, USum DEF add
  <2>4. U(h + q + c) \in Number
      BY <1>1, <2>2, UFacts
  <2>. QED BY <2>1, <2>2, <2>3, <2>4, InvertFacts
<1>8. U(result \div W) = upper
  BY <1>6, <1>7
<1>9. U(result) = add(m, r)
  BY <1>3, <1>6 DEF n
<1>. HIDE DEF upper
<1>10. U(result) = add(m, r) /\ U(result \div W) = upper /\ upper \in Number
  BY <1>7, <1>8, <1>9
<1>. QED BY <1>10, Zenon DEF result, upper, g, Upper, UpperSimd

(* VMADH.                                                                  *)
LEMMA VMADHAgrees ==
    ASSUME NEW x \in Lane, NEW s \in Number, NEW t \in Number
    PROVE  simdVMADH(x, s, t) = VMADH(x, s, t) /\ VMADH(x, s, t) \in Lane
<1>. DEFINE r == mullo(s, t)
            product == S(s) * S(t)
            result == accumulatorGet(x) \div W + product
            hi == sub(mulhi(s, t), carried(x.m, r))
            m == add(x.m, r)
            h == sub(add(x.h, hi), 0)
            y == AddHigh(AddMiddle(x, r), hi, 0)
            z == [x EXCEPT !.h = U(result \div W), !.m = U(result)]
<1>1. PICK q \in Int : product = q * W + r /\ mulhi(s, t) = U(q)
  BY SignedProduct
<1>2. x.h \in Number /\ x.m \in Number /\ x.l \in Number
  BY LaneFacts
<1>3. r \in Number
  BY UnsignedProduct
<1>. HIDE DEF r
<1>4. /\ U(Upper(x.h, x.m, x.l, q, r)) = m
      /\ U(Upper(x.h, x.m, x.l, q, r) \div W) = UpperSimd(x.h, x.m, q, r)
      /\ UpperSimd(x.h, x.m, q, r) \in Number
  <2>1. \A h1, m1, l1 \in Number :
            /\ U(Upper(h1, m1, l1, q, r)) = add(m1, r)
            /\ U(Upper(h1, m1, l1, q, r) \div W) = UpperSimd(h1, m1, q, r)
            /\ UpperSimd(h1, m1, q, r) \in Number
      BY <1>3, UpperElements
  <2>. QED BY <1>2, <2>1, Zenon
<1>5. m \in Number
  BY <1>2, <1>3, WrappedFacts
<1>. HIDE DEF product
<1>7. result = Upper(x.h, x.m, x.l, q, r)
  BY <1>1, Zenon DEF accumulatorGet, Upper
<1>. HIDE DEF result
<1>8. U(result) = m /\ U(result \div W) = h /\ h \in Number /\ m \in Number
  BY <1>1, <1>4, <1>5, <1>7, Zenon DEF UpperSimd
<1>9. VMADH(x, s, t) = SignedMiddle(z)
  BY Zenon DEF VMADH, result, product
<1>10. simdVMADH(x, s, t) = Middle(y)
  BY Zenon DEF simdVMADH, r
<1>11. y = [x EXCEPT !.m = m, !.h = h]
  BY <1>2 DEF AddHigh, AddMiddle, Lane
<1>. HIDE DEF m, h
<1>12. z = [x EXCEPT !.h = h, !.m = m]
  BY <1>8
<1>. HIDE DEF y, z
<1>13. z \in Lane /\ y = z
  BY <1>8, <1>11, <1>12 DEF Lane
<1>. QED BY <1>9, <1>10, <1>13, MiddleAgrees

-----------------------------------------------------------------------------
(* Multiplications of fractions: VMULF, VMULU, VMACF and VMACU.            *)

(* Shifts by one and by all bits but one double a number and tell whether  *)
(* the double carried out of it.                                           *)
LEMMA DoubledNumber ==
    ASSUME NEW r \in Number
    PROVE  /\ slli1(r) = add(r, r) /\ srli15(r) = CarryOf(r, r)
           /\ srli15(r) = (IF r >= Lowest THEN 1 ELSE 0)
           /\ 2 * r = CarryOf(r, r) * W + add(r, r) /\ add(r, r) \in Number
<1>1. Lowest \in Nat /\ Lowest >= 2 /\ W \in Nat /\ W = 2 * Lowest /\ r \in Nat /\ r < W
  BY WidthFacts DEF Number
<1>2. slli1(r) = add(r, r)
  <2>1. 2 * r = r + r
      BY <1>1
  <2>. QED BY <2>1 DEF slli1, add
<1>3. srli15(r) = (IF r >= Lowest THEN 1 ELSE 0)
  <2>1. CASE r >= Lowest
      <3>1. r = 1 * Lowest + (r - Lowest) /\ r - Lowest \in 0 .. Lowest - 1 /\ 1 \in Int
          BY <1>1, <2>1
      <3>2. r \div Lowest = 1
          <4>. DEFINE b == r - Lowest
          <4>1. r = 1 * Lowest + b /\ b \in 0 .. Lowest - 1
              BY <3>1
          <4>. HIDE DEF b
          <4>. QED BY <1>1, <3>1, <4>1, DivModUnique
      <3>. QED BY <2>1, <3>2 DEF srli15
  <2>2. CASE ~(r >= Lowest)
      <3>1. r = 0 * Lowest + r /\ r \in 0 .. Lowest - 1 /\ 0 \in Int /\ r \in Int
          BY <1>1, <2>2
      <3>2. r \div Lowest = 0
          BY <1>1, <3>1, DivModUnique
      <3>. QED BY <2>2, <3>2 DEF srli15
  <2>. QED BY <2>1, <2>2
<1>4. CarryOf(r, r) = (IF r >= Lowest THEN 1 ELSE 0)
  BY <1>1 DEF CarryOf
<1>5. r + r = CarryOf(r, r) * W + add(r, r) /\ add(r, r) \in Number
  BY Carry, WrappedFacts DEF CarryOf
<1>. QED BY <1>1, <1>2, <1>3, <1>4, <1>5

(* The double of a signed product, as both halves take it apart.           *)
LEMMA DoubledProduct ==
    ASSUME NEW s \in Number, NEW t \in Number
    PROVE  \E q \in Int :
              LET r == mullo(s, t)
                  c == CarryOf(r, r)
              IN  /\ 2 * S(s) * S(t) = (2 * q + c) * W + add(r, r)
                  /\ -Lowest <= 2 * q /\ 2 * q + c <= Lowest
                  /\ mulhi(s, t) = U(q)
                  /\ slli1(mulhi(s, t)) = U(2 * q)
                  /\ Or(slli1(mulhi(s, t)), srli15(r)) = U(2 * q + c)
<1>. DEFINE r == mullo(s, t)
            c == CarryOf(r, r)
            product == S(s) * S(t)
<1>1. PICK q \in Int : /\ product = q * W + r
                       /\ -Lowest <= 2 * q /\ 2 * q <= Lowest
                       /\ mulhi(s, t) = U(q)
  BY SignedProduct
<1>2. Lowest \in Nat /\ Lowest >= 2 /\ W \in Nat /\ W = 2 * Lowest
  BY WidthFacts
<1>3. r \in Number
  BY UnsignedProduct
<1>4. S(s) \in Int /\ S(t) \in Int /\ product \in Int /\ product <= Lowest * Lowest
  BY SFacts, SignedProducts
<1>5. 2 * S(s) * S(t) = 2 * product
  BY <1>4
<1>. HIDE DEF r, product
<1>6. c \in {0, 1} /\ srli15(r) = c /\ 2 * r = c * W + add(r, r) /\ add(r, r) \in Number
  BY <1>3, DoubledNumber DEF CarryOf
<1>7. r \in Nat /\ r < W /\ add(r, r) \in Nat
  BY <1>2, <1>3, <1>6 DEF Number
<1>8. c = 1 => r >= Lowest
  BY <1>2, <1>7 DEF CarryOf
<1>. HIDE DEF c
<1>9. 2 * product = (2 * q + c) * W + add(r, r)
  <2>1. 2 * product = 2 * (q * W) + 2 * r
      BY <1>1, <1>2, <1>7
  <2>2. (2 * q + c) * W = 2 * (q * W) + c * W
      BY <1>2, <1>6
  <2>. QED BY <1>2, <1>6, <1>7, <2>1, <2>2
<1>10. 2 * q + c <= Lowest
  <2>1. CASE c = 0
      BY <1>1, <1>2, <2>1
  <2>2. CASE c = 1
      <3>1. q * W + r <= Lowest * Lowest /\ r >= Lowest
          BY <1>1, <1>4, <1>8, <2>2
      <3>2. q * W = (2 * q) * Lowest
          BY <1>2
      <3>3. 2 * q # Lowest
          <4>1. SUFFICES ASSUME 2 * q = Lowest PROVE FALSE
              OBVIOUS
          <4>2. q * W = Lowest * Lowest /\ Lowest * Lowest \in Int
              BY <1>2, <3>2, <4>1
          <4>. DEFINE a == q * W
                      b == Lowest * Lowest
          <4>3. a = b /\ b \in Int /\ a + r <= b /\ r >= Lowest
              BY <3>1, <4>2
          <4>. HIDE DEF a, b
          <4>. QED BY <1>2, <1>7, <4>3
      <3>. QED BY <1>1, <1>2, <2>2, <3>3
  <2>. QED BY <1>6, <2>1, <2>2
<1>11. slli1(mulhi(s, t)) = U(2 * q)
  <2>1. U(q) \in Int
      BY UFacts, <1>2 DEF Number
  <2>2. 2 * U(q) = U(q) + U(q) /\ q + U(q) \in Int /\ q + q = 2 * q /\ q + q \in Int
      BY <2>1
  <2>3. U(U(q) + U(q)) = U(q + U(q)) /\ U(q + U(q)) = U(q + q)
      BY <2>1, USum
  <2>. QED BY <1>1, <2>2, <2>3 DEF slli1
<1>12. \E a \in Nat : U(2 * q) = 2 * a /\ 2 * a \in Number /\ U(2 * q + c) = 2 * a + c
  <2>1. CASE q >= 0
      <3>1. 2 * q \in Number /\ 2 * q + c \in Number /\ q \in Nat
                /\ 2 * q \in Int /\ 2 * q + c \in Int
          BY <1>2, <1>6, <1>10, <2>1 DEF Number
      <3>2. U(2 * q) = 2 * q /\ U(2 * q + c) = 2 * q + c
          BY <3>1, UFacts
      <3>. QED BY <3>1, <3>2
  <2>2. CASE q < 0
      <3>1. 2 * q + W \in Number /\ (2 * q + c) + W \in Number /\ q + Lowest \in Nat
                /\ 2 * q \in Int /\ 2 * q + c \in Int
          BY <1>1, <1>2, <1>6, <2>2 DEF Number
      <3>2. U(2 * q) = 2 * q + W /\ U(2 * q + c) = (2 * q + c) + W
          BY <3>1, UFacts
      <3>3. 2 * (q + Lowest) = 2 * q + W /\ (2 * q + c) + W = 2 * (q + Lowest) + c
          BY <1>2, <1>6
      <3>. QED BY <3>1, <3>2, <3>3
  <2>. QED BY <2>1, <2>2
<1>13. Or(U(2 * q), c) = U(2 * q + c)
  BY <1>6, <1>12, OrLowest
<1>14. /\ 2 * S(s) * S(t) = (2 * q + c) * W + add(r, r)
       /\ -Lowest <= 2 * q /\ 2 * q + c <= Lowest
       /\ mulhi(s, t) = U(q)
       /\ slli1(mulhi(s, t)) = U(2 * q)
       /\ Or(slli1(mulhi(s, t)), srli15(r)) = U(2 * q + c)
  BY <1>1, <1>5, <1>6, <1>9, <1>10, <1>11, <1>13
<1>. QED BY <1>14, Zenon DEF r, c

(* What is added to the high element where the middle one takes a carry.   *)
LEMMA FractionSign ==
    ASSUME NEW q \in Int, -Lowest <= 2 * q, NEW c \in {0, 1}, 2 * q + c <= Lowest,
           NEW l \in Number, NEW r \in Number
    PROVE  LET d == 2 * q + c + CarryOf(l, r)
               md == sub(U(2 * q + c), carried(l, r))
           IN  /\ md = U(d) /\ d \in Int /\ -W <= d /\ d < W
               /\ sub(srai15(U(q)), And(cmpeq(md, 0), carried(l, r)))
                      = (IF d < 0 THEN Ones ELSE 0)
<1>. DEFINE e == CarryOf(l, r)
            k == carried(l, r)
            d == 2 * q + c + e
            md == sub(U(2 * q + c), k)
            hi == sub(srai15(U(q)), And(cmpeq(md, 0), k))
<1>1. Lowest \in Nat /\ Lowest >= 2 /\ W \in Nat /\ W = 2 * Lowest /\ Ones = W - 1
  BY WidthFacts DEF Ones
<1>2. e \in {0, 1} /\ k \in Mask /\ (k = 0 <=> e = 0)
  BY CarryFacts DEF CarryOf
<1>3. md = U(d)
  <2>1. 2 * q + c \in Int
      BY <1>1
  <2>. DEFINE n == 2 * q + c
  <2>2. n \in Int
      BY <2>1
  <2>3. d = n + e
      OBVIOUS
  <2>. HIDE DEF n, d
  <2>4. sub(U(n), k) = U(n + e)
      BY <2>2, SubCarry
  <2>. QED BY <2>3, <2>4 DEF n
<1>. HIDE DEF e, k
<1>4. d \in Int /\ -Lowest <= d /\ -W <= d /\ d < W /\ -Lowest <= q /\ q < Lowest
  BY <1>1, <1>2
<1>5. srai15(U(q)) = (IF q < 0 THEN Ones ELSE 0)
  BY <1>4, USigned DEF srai15, set
<1>6. cmpeq(md, 0) \in Mask /\ (cmpeq(md, 0) = 0 <=> md # 0)
  BY SetFacts DEF cmpeq
<1>7. And(cmpeq(md, 0), k) = (IF md = 0 THEN k ELSE 0)
  BY <1>2, <1>6, MaskFacts
<1>8. md = 0 <=> d = 0
  <2>1. CASE d < 0
      <3>1. d + W \in Number /\ d + W # 0
          BY <1>1, <1>4, <2>1 DEF Number
      <3>. HIDE DEF d, md
      <3>. QED BY <1>3, <1>4, <2>1, <3>1, UFacts
  <2>2. CASE d >= 0
      <3>1. d \in Number
          BY <1>1, <1>4, <2>2 DEF Number
      <3>2. U(d) = d
          BY <3>1, <1>4, UFacts
      <3>. HIDE DEF d, md
      <3>. QED BY <1>3, <3>2
  <2>. QED BY <1>4, <2>1, <2>2
<1>9. k \in Number /\ k \in Int /\ 0 \in Number /\ (k = 0 \/ k = Ones) /\ Ones \in Number
  BY <1>1, <1>2, MaskFacts, SetFacts, SFacts DEF Mask
<1>10. hi = (IF d < 0 THEN Ones ELSE 0)
  <2>. HIDE DEF md
  <2>1. CASE q >= 0
      <3>1. d >= 0 /\ (d = 0 => e = 0)
          BY <1>1, <1>2, <2>1
      <3>2. And(cmpeq(md, 0), k) = 0
          BY <1>2, <1>7, <1>8, <3>1
      <3>3. hi = sub(0, 0)
          BY <1>5, <2>1, <3>2
      <3>. QED BY <1>4, <1>9, <3>1, <3>3, InvertFacts
  <2>2. CASE q < 0
      <3>1. d <= 0 /\ (d = 0 => e = 1)
          BY <1>1, <1>2, <2>2
      <3>2. CASE d = 0
          <4>1. And(cmpeq(md, 0), k) = Ones
              BY <1>2, <1>7, <1>8, <1>9, <3>1, <3>2
          <4>2. hi = sub(Ones, Ones)
              BY <1>5, <2>2, <4>1
          <4>3. sub(Ones, Ones) = 0
              BY <1>1, <1>9, WrappedFacts
          <4>. QED BY <3>2, <4>2, <4>3
      <3>3. CASE d < 0
          <4>1. And(cmpeq(md, 0), k) = 0
              BY <1>7, <1>8, <3>3
          <4>2. hi = sub(Ones, 0)
              BY <1>5, <2>2, <4>1
          <4>. QED BY <1>9, <3>3, <4>2, InvertFacts
      <3>. QED BY <1>4, <3>1, <3>2, <3>3
  <2>. QED BY <2>1, <2>2
<1>. HIDE DEF d, md, hi
<1>11. md = U(d) /\ d \in Int /\ -W <= d /\ d < W /\ hi = (IF d < 0 THEN Ones ELSE 0)
  BY <1>3, <1>4, <1>10
<1>. QED BY <1>11, Zenon DEF d, md, hi, e, k

(* A signed product is doubled and added to the accumulator.               *)
LEMMA AddFractionAgrees ==
    ASSUME NEW x \in Lane, NEW s \in Number, NEW t \in Number
    PROVE  /\ AddFraction(x, s, t) = AccumulateFraction(x, s, t)
           /\ AccumulateFraction(x, s, t) \in Lane
<1>. DEFINE r == mullo(s, t)
            c == CarryOf(r, r)
            lo == add(r, r)
            product == 2 * S(s) * S(t)
<1>1. PICK q \in Int :
            /\ product = (2 * q + c) * W + lo
            /\ -Lowest <= 2 * q /\ 2 * q + c <= Lowest
            /\ mulhi(s, t) = U(q)
            /\ Or(slli1(mulhi(s, t)), srli15(r)) = U(2 * q + c)
  BY DoubledProduct
<1>. DEFINE n == 2 * q + c
            k == carried(x.l, lo)
            d == n + CarryOf(x.l, lo)
            md == sub(U(n), k)
            hi == sub(srai15(U(q)), And(cmpeq(md, 0), k))
            y == AddHigh(AddMiddle(AddLow(x, lo), U(d)), hi, carried(x.m, U(d)))
<1>2. r \in Number
  BY UnsignedProduct
<1>. HIDE DEF r
<1>3. slli1(r) = lo /\ lo \in Number /\ c \in {0, 1}
  BY <1>2, DoubledNumber DEF CarryOf
<1>4. AddFraction(x, s, t)
          = AddHigh(AddMiddle(AddLow(x, lo), md), hi, carried(x.m, md))
  BY <1>1, <1>3, Zenon DEF AddFraction, r
<1>5. x.l \in Number
  BY LaneFacts
<1>. HIDE DEF c, lo, product
<1>6. md = U(d) /\ d \in Int /\ -W <= d /\ d < W /\ hi = (IF d < 0 THEN Ones ELSE 0)
  <2>1. LET e == 2 * q + c + CarryOf(x.l, lo)
            f == sub(U(2 * q + c), carried(x.l, lo))
        IN  /\ f = U(e) /\ e \in Int /\ -W <= e /\ e < W
            /\ sub(srai15(U(q)), And(cmpeq(f, 0), carried(x.l, lo)))
                   = (IF e < 0 THEN Ones ELSE 0)
      BY <1>1, <1>3, <1>5, FractionSign
  <2>. QED BY <2>1, Zenon
<1>7. n \in Int
  BY <1>1, <1>3
<1>8. CarryOf(x.l, lo) \in {0, 1}
  BY DEF CarryOf
<1>9. d - CarryOf(x.l, lo) = n
  BY <1>7, <1>8
<1>. HIDE DEF n, d, hi, md
<1>10. Accumulate(x, (d - (IF x.l + lo < W THEN 0 ELSE 1)) * W + lo) = y /\ y \in Lane
  BY <1>3, <1>6, AddAgrees
<1>11. Accumulate(x, (d - CarryOf(x.l, lo)) * W + lo) = y
  BY <1>10, Zenon DEF CarryOf
<1>12. Accumulate(x, n * W + lo) = y
  BY <1>9, <1>11
<1>13. product = n * W + lo
  BY <1>1 DEF n
<1>14. AccumulateFraction(x, s, t) = y
  BY <1>12, <1>13 DEF AccumulateFraction, product
<1>15. AddFraction(x, s, t) = y
  BY <1>4, <1>6
<1>. HIDE DEF y
<1>. QED BY <1>10, <1>14, <1>15

(* VMACF.                                                                  *)
LEMMA VMACFAgrees ==
    ASSUME NEW x \in Lane, NEW s \in Number, NEW t \in Number
    PROVE  simdVMACF(x, s, t) = VMACF(x, s, t) /\ VMACF(x, s, t) \in Lane
BY AddFractionAgrees, MiddleAgrees DEF simdVMACF, VMACF

(* VMACU: clamped to unsigned numbers by masks of two signs.               *)
LEMMA VMACUAgrees ==
    ASSUME NEW x \in Lane, NEW s \in Number, NEW t \in Number
    PROVE  simdVMACU(x, s, t) = VMACU(x, s, t) /\ VMACU(x, s, t) \in Lane
<1>. DEFINE y == AccumulateFraction(x, s, t)
            md == andnot(srai15(y.h), Or(srai15(y.m), y.m))
            v == IF S(y.h) < 0 THEN 0
                 ELSE IF S(y.h) # 0 \/ S(y.m) < 0 THEN Ones ELSE y.m
<1>1. y \in Lane /\ AddFraction(x, s, t) = y
  BY AddFractionAgrees
<1>. HIDE DEF y
<1>2. simdVMACU(x, s, t) = [y EXCEPT !.vd = Or(cmpgt(y.h, 0), md)]
  BY <1>1, Zenon DEF simdVMACU
<1>3. VMACU(x, s, t) = [y EXCEPT !.vd = v]
  BY Zenon DEF VMACU, y
<1>4. y.h \in Number /\ y.m \in Number
  BY <1>1, LaneFacts
<1>5. /\ srai15(y.h) \in Mask /\ (srai15(y.h) = 0 <=> S(y.h) >= 0)
      /\ srai15(y.m) \in Mask /\ (srai15(y.m) = 0 <=> S(y.m) >= 0)
  BY <1>4, SignMask
<1>6. cmpgt(y.h, 0) \in Mask /\ (cmpgt(y.h, 0) = 0 <=> ~(S(y.h) > S(0)))
  BY SetFacts DEF cmpgt
<1>7. S(0) = 0 /\ 0 \in Number /\ Ones \in Number /\ S(y.h) \in Int /\ S(y.m) \in Int
  BY <1>4, SetFacts, SFacts, MaskFacts
<1>8. Or(srai15(y.m), y.m) = (IF S(y.m) >= 0 THEN y.m ELSE Ones)
  BY <1>4, <1>5, MaskFacts
<1>9. md = (IF S(y.h) >= 0 THEN (IF S(y.m) >= 0 THEN y.m ELSE Ones) ELSE 0) /\ md \in Number
  BY <1>4, <1>5, <1>7, <1>8, MaskFacts
<1>10. Or(cmpgt(y.h, 0), md) = (IF S(y.h) > 0 THEN Ones ELSE md)
  BY <1>6, <1>7, <1>9, MaskFacts
<1>. HIDE DEF md
<1>11. Or(cmpgt(y.h, 0), md) = v
  BY <1>7, <1>9, <1>10
<1>12. v \in Number
  BY <1>4, <1>7
<1>13. [y EXCEPT !.vd = v] \in Lane
  BY <1>1, <1>12 DEF Lane
<1>. QED BY <1>2, <1>3, <1>11, <1>13

(* A signed product is doubled and rounded: the three elements.            *)
LEMMA FractionElements ==
    ASSUME NEW x \in Lane, NEW s \in Number, NEW t \in Number
    PROVE  \E d \in Int : \E l \in Number :
              /\ IF s = t THEN 0 <= d /\ d <= Lowest ELSE -Lowest <= d /\ d < Lowest
              /\ 2 * S(s) * S(t) + Lowest = d * W + l
              /\ FractionSimd(x, s, t)
                     = Acc(x, IF s = t THEN 0 ELSE srai15(U(d)), U(d), l)
<1>. DEFINE r == mullo(s, t)
            c == CarryOf(r, r)
            lo == add(r, r)
            b == srli15(lo)
            l == add(Lowest, lo)
            product == 2 * S(s) * S(t)
<1>1. PICK q \in Int :
            /\ product = (2 * q + c) * W + lo
            /\ -Lowest <= 2 * q /\ 2 * q + c <= Lowest
            /\ slli1(mulhi(s, t)) = U(2 * q)
  BY DoubledProduct
<1>. DEFINE d == 2 * q + c + b
            V == product + Lowest
<1>2. Lowest \in Nat /\ Lowest >= 2 /\ W \in Nat /\ W = 2 * Lowest /\ Lowest \in Number
  BY WidthFacts DEF Number
<1>3. r \in Number
  BY UnsignedProduct
<1>. HIDE DEF r
<1>4. srli15(r) = c /\ c \in {0, 1} /\ lo \in Number
  BY <1>3, DoubledNumber DEF CarryOf
<1>5. b = (IF lo >= Lowest THEN 1 ELSE 0)
  BY <1>4, DoubledNumber
<1>6. l \in Number /\ Lowest + lo = CarryOf(Lowest, lo) * W + l
  BY <1>2, <1>4, Carry, WrappedFacts DEF CarryOf
<1>7. CarryOf(Lowest, lo) = b /\ b \in {0, 1}
  <2>. HIDE DEF lo, b
  <2>1. lo \in Nat
      BY <1>2, <1>4 DEF Number
  <2>. QED BY <1>2, <1>5, <2>1 DEF CarryOf
<1>8. /\ S(s) \in Int /\ S(t) \in Int /\ S(s) * S(t) \in Int
      /\ S(s) * S(t) <= Lowest * Lowest
      /\ s # t => S(s) * S(t) <= Lowest * Lowest - Lowest
      /\ s = t => S(s) * S(t) >= 0
  <2>1. S(s) = S(t) <=> s = t
      BY SignedEqual
  <2>2. /\ S(s) \in Int /\ -Lowest <= S(s) /\ S(s) < Lowest
        /\ S(t) \in Int /\ -Lowest <= S(t) /\ S(t) < Lowest
      BY SFacts
  <2>. QED BY <2>1, <2>2, SignedProducts
<1>9. product = 2 * (S(s) * S(t))
  BY <1>8
<1>10. FractionSimd(x, s, t) = Acc(x, IF s = t THEN 0 ELSE srai15(U(d)), U(d), l)
  <2>. DEFINE m == add(slli1(mulhi(s, t)), add(srli15(r), srli15(lo)))
  <2>1. FractionSimd(x, s, t) = Acc(x, andnot(cmpeq(s, t), srai15(m)), m, l)
      BY Zenon DEF FractionSimd, r
  <2>. HIDE DEF lo, b, c, l
  <2>2. m = add(U(2 * q), add(c, b))
      BY <1>1, <1>4 DEF b
  <2>3. add(c, b) = U(c + b) /\ c + b \in Int /\ 2 * q \in Int /\ U(2 * q) \in Int
      <3>1. 2 * q \in Int
          OBVIOUS
      <3>. QED BY <1>2, <1>4, <1>7, <3>1, UFacts DEF add, Number
  <2>4. U(U(2 * q) + U(c + b)) = U(U(2 * q) + (c + b))
      <3>. DEFINE u == U(2 * q)
                  v == c + b
      <3>1. u \in Int /\ v \in Int
          BY <2>3
      <3>. HIDE DEF u, v
      <3>2. U(u + U(v)) = U(u + v)
          BY <3>1, USum
      <3>. QED BY <3>2 DEF u, v
  <2>5. U(U(2 * q) + (c + b)) = U(2 * q + (c + b))
      <3>. DEFINE u == 2 * q
                  v == c + b
      <3>1. u \in Int /\ v \in Int
          BY <2>3
      <3>. HIDE DEF u, v
      <3>2. U(U(u) + v) = U(u + v)
          BY <3>1, USum
      <3>. QED BY <3>2 DEF u, v
  <2>6. 2 * q + (c + b) = d
      BY <1>4, <1>7
  <2>7. m = U(d)
      BY <2>2, <2>3, <2>4, <2>5, <2>6 DEF add
  <2>8. d \in Int
      BY <1>4, <1>7
  <2>. HIDE DEF m, d
  <2>9. srai15(m) \in Mask /\ srai15(m) \in Number
      BY <2>7, <2>8, UFacts, SignMask, MaskFacts
  <2>10. cmpeq(s, t) \in Mask /\ (cmpeq(s, t) = 0 <=> s # t)
      BY SetFacts DEF cmpeq
  <2>11. andnot(cmpeq(s, t), srai15(m)) = (IF s = t THEN 0 ELSE srai15(m))
      BY <2>9, <2>10, MaskFacts
  <2>. QED BY <2>1, <2>7, <2>11
<1>. HIDE DEF lo, b, c, product
<1>11. d \in Int /\ l \in Nat /\ l < W /\ l \in Int /\ lo \in Int
  BY <1>2, <1>4, <1>6, <1>7 DEF Number
<1>12. V = d * W + l
  <2>1. d * W = (2 * q + c) * W + b * W
      BY <1>2, <1>4, <1>7
  <2>2. (2 * q + c) * W \in Int /\ b * W \in Int
      BY <1>2, <1>4, <1>7
  <2>. HIDE DEF d, l
  <2>. QED BY <1>1, <1>2, <1>6, <1>7, <1>11, <2>1, <2>2
<1>13. V \div W = d /\ V \in Int
  <2>1. l \in 0 .. W - 1 /\ V \in Int
      BY <1>2, <1>8, <1>9, <1>11
  <2>. HIDE DEF V, d, l
  <2>. QED BY <1>2, <1>11, <1>12, <2>1, DivModUnique
<1>14. IF s = t THEN 0 <= d /\ d <= Lowest ELSE -Lowest <= d /\ d < Lowest
  <2>1. Lowest * W = 2 * (Lowest * Lowest) /\ (Lowest + 1) * W = 2 * (Lowest * Lowest) + W
        /\ Lowest * Lowest \in Int
      BY <1>2
  <2>2. CASE s = t
      <3>1. 0 * W <= V /\ V < (Lowest + 1) * W
          BY <1>2, <1>8, <1>9, <2>1, <2>2
      <3>. HIDE DEF V, d
      <3>2. 0 <= V \div W /\ V \div W < Lowest + 1
          BY <1>2, <1>13, <3>1, QuotientBounds
      <3>. QED BY <1>2, <1>11, <1>13, <2>2, <3>2
  <2>3. CASE s # t
      <3>1. V < Lowest * W
          BY <1>2, <1>8, <1>9, <2>1, <2>3
      <3>2. -Lowest <= d
          BY <1>1, <1>2, <1>4, <1>7
      <3>. HIDE DEF d
      <3>3. d * W <= V
          BY <1>2, <1>11, <1>12
      <3>. HIDE DEF V
      <3>4. V \div W < Lowest
          BY <1>2, <1>11, <1>13, <3>1, <3>3, QuotientBounds
      <3>. QED BY <1>13, <2>3, <3>2, <3>4
  <2>. QED BY <2>2, <2>3
<1>. HIDE DEF d, l
<1>. QED BY <1>6, <1>10, <1>11, <1>12, <1>14, Zenon DEF V, product

(* The rounded fraction, and what its middle element's sign means.         *)
LEMMA FractionAgrees ==
    ASSUME NEW x \in Lane, NEW s \in Number, NEW t \in Number
    PROVE  LET y == Fraction(x, s, t)
           IN  /\ FractionSimd(x, s, t) = y /\ y \in Lane
               /\ IF s = t THEN y.h = 0 /\ y.m <= Lowest ELSE y.h = srai15(y.m)
<1>. DEFINE h(d) == IF s = t THEN 0 ELSE srai15(U(d))
            y == Fraction(x, s, t)
<1>1. PICK d \in Int : \E l \in Number :
              /\ IF s = t THEN 0 <= d /\ d <= Lowest ELSE -Lowest <= d /\ d < Lowest
              /\ 2 * S(s) * S(t) + Lowest = d * W + l
              /\ FractionSimd(x, s, t) = Acc(x, h(d), U(d), l)
  BY FractionElements
<1>2. PICK l \in Number :
              /\ IF s = t THEN 0 <= d /\ d <= Lowest ELSE -Lowest <= d /\ d < Lowest
              /\ 2 * S(s) * S(t) + Lowest = d * W + l
              /\ FractionSimd(x, s, t) = Acc(x, h(d), U(d), l)
  BY <1>1, Zenon
<1>3. y = accumulatorSet(x, d * W + l)
  BY <1>2, Zenon DEF Fraction
<1>. HIDE DEF y
<1>4. Lowest \in Nat /\ Lowest >= 2 /\ W \in Nat /\ W = 2 * Lowest
  BY WidthFacts
<1>5. y = Acc(x, h(d), U(d), l) /\ y \in Lane
  <2>1. CASE s = t
      <3>1. d \in Number /\ U(0) = 0 /\ U(d) = d
          BY <1>2, <1>4, <2>1, UFacts, SetFacts, SFacts DEF Number
      <3>2. Composed(0, d, l) = d * W + l
          BY <1>4 DEF Composed
      <3>3. y = Acc(x, U(0), d, l) /\ y \in Lane
          BY <1>3, <3>1, <3>2, AccumulatorElements
      <3>. QED BY <2>1, <3>1, <3>3
  <2>2. CASE s # t
      BY <1>2, <1>3, <2>2, TwoElements
  <2>. QED BY <2>1, <2>2
<1>6. y.h = h(d) /\ y.m = U(d)
  BY <1>5 DEF Acc, Lane
<1>7. IF s = t THEN y.h = 0 /\ y.m <= Lowest ELSE y.h = srai15(y.m)
  <2>1. CASE s = t
      <3>1. d \in Number /\ U(d) = d
          BY <1>2, <1>4, <2>1, UFacts DEF Number
      <3>. QED BY <1>2, <1>6, <2>1, <3>1
  <2>2. CASE s # t
      BY <1>6, <2>2
  <2>. QED BY <2>1, <2>2
<1>8. FractionSimd(x, s, t) = y
  BY <1>2, <1>5
<1>. QED BY <1>5, <1>7, <1>8, Zenon DEF y

(* VMULF: only the square of the lowest number saturates.                  *)
LEMMA VMULFAgrees ==
    ASSUME NEW x \in Lane, NEW s \in Number, NEW t \in Number
    PROVE  simdVMULF(x, s, t) = VMULF(x, s, t) /\ VMULF(x, s, t) \in Lane
<1>. DEFINE y == Fraction(x, s, t)
            v == add(y.m, And(cmpeq(s, t), srai15(y.m)))
<1>1. FractionSimd(x, s, t) = y /\ y \in Lane
  BY FractionAgrees
<1>2. IF s = t THEN y.h = 0 /\ y.m <= Lowest ELSE y.h = srai15(y.m)
  BY FractionAgrees
<1>. HIDE DEF y
<1>3. simdVMULF(x, s, t) = [y EXCEPT !.vd = v]
  BY <1>1, Zenon DEF simdVMULF
<1>4. VMULF(x, s, t) = SignedMiddle(y)
  BY Zenon DEF VMULF, y
<1>5. SignedMiddle(y) = [y EXCEPT !.vd = accumulatorSaturate(y, TRUE, Lowest, Highest)]
        /\ SignedMiddle(y) \in Lane
  BY <1>1, MiddleAgrees DEF SignedMiddle
<1>6. y.h \in Number /\ y.m \in Number
  BY <1>1, LaneFacts
<1>7. srai15(y.m) \in Mask /\ (srai15(y.m) = 0 <=> S(y.m) >= 0) /\ srai15(y.m) \in Number
  BY <1>6, SignMask, MaskFacts
<1>8. cmpeq(s, t) \in Mask /\ (cmpeq(s, t) = 0 <=> s # t)
  BY SetFacts DEF cmpeq
<1>9. And(cmpeq(s, t), srai15(y.m)) = (IF s = t THEN srai15(y.m) ELSE 0)
  BY <1>7, <1>8, MaskFacts
<1>10. Lowest \in Nat /\ Lowest >= 2 /\ W \in Nat /\ W = 2 * Lowest /\ Ones = W - 1
         /\ Highest = Lowest - 1 /\ 0 \in Number /\ Ones \in Number
  BY WidthFacts, SetFacts DEF Ones, Highest
<1>11. y.m \in Int /\ S(y.m) \in Int /\ (S(y.m) >= 0 <=> y.m < Lowest) /\ add(y.m, 0) = y.m
  <2>1. /\ y.m \in Nat /\ y.m < W /\ S(y.m) \in Int
        /\ S(y.m) = (IF y.m < Lowest THEN y.m ELSE y.m - W)
      BY <1>6, SFacts
  <2>2. add(y.m, 0) = (IF y.m + 0 < W THEN y.m + 0 ELSE y.m + 0 - W)
      BY <1>6, <1>10, WrappedFacts
  <2>. QED BY <1>10, <2>1, <2>2
<1>12. accumulatorSaturate(y, TRUE, Lowest, Highest) = v
  <2>1. CASE s # t
      <3>1. v = y.m
          BY <1>9, <1>11, <2>1
      <3>2. S(y.h) = (IF S(y.m) >= 0 THEN 0 ELSE -1) /\ y.h = (IF S(y.m) >= 0 THEN 0 ELSE Ones)
          BY <1>2, <1>7, <2>1, MaskFacts DEF Mask
      <3>. HIDE DEF v
      <3>. QED BY <1>10, <1>11, <3>1, <3>2 DEF accumulatorSaturate
  <2>2. CASE s = t
      <3>1. y.h = 0 /\ S(y.h) = 0 /\ y.m <= Lowest
          BY <1>2, <1>10, <2>2, SetFacts, MaskFacts
      <3>2. CASE S(y.m) >= 0
          <4>1. v = y.m
              BY <1>7, <1>9, <1>11, <2>2, <3>2
          <4>. HIDE DEF v
          <4>. QED BY <1>11, <3>1, <3>2, <4>1 DEF accumulatorSaturate
      <3>3. CASE ~(S(y.m) >= 0)
          <4>1. y.m = Lowest
              BY <1>10, <1>11, <3>1, <3>3
          <4>2. v = add(Lowest, Ones) /\ Lowest \in Number
              BY <1>6, <1>7, <1>9, <2>2, <3>3, <4>1 DEF Mask
          <4>3. add(Lowest, Ones) = Highest
              BY <1>10, <4>2, WrappedFacts
          <4>4. v = Highest
              BY <4>2, <4>3
          <4>. HIDE DEF v
          <4>. QED BY <1>11, <3>1, <3>3, <4>4 DEF accumulatorSaturate
      <3>. QED BY <3>2, <3>3
  <2>. QED BY <2>1, <2>2
<1>. HIDE DEF v
<1>. QED BY <1>3, <1>4, <1>5, <1>12

(* VMULU.                                                                  *)
LEMMA VMULUAgrees ==
    ASSUME NEW x \in Lane, NEW s \in Number, NEW t \in Number
    PROVE  simdVMULU(x, s, t) = VMULU(x, s, t) /\ VMULU(x, s, t) \in Lane
<1>. DEFINE y == Fraction(x, s, t)
            v == andnot(y.h, Or(y.m, srai15(y.m)))
            w == IF S(y.h) < 0 THEN 0
                 ELSE IF (S(y.h) < 0) # (S(y.m) < 0) THEN Ones ELSE y.m
<1>1. FractionSimd(x, s, t) = y /\ y \in Lane
  BY FractionAgrees
<1>2. IF s = t THEN y.h = 0 /\ y.m <= Lowest ELSE y.h = srai15(y.m)
  BY FractionAgrees
<1>. HIDE DEF y
<1>3. simdVMULU(x, s, t) = [y EXCEPT !.vd = v]
  BY <1>1, Zenon DEF simdVMULU
<1>4. VMULU(x, s, t) = [y EXCEPT !.vd = w]
  BY Zenon DEF VMULU, y
<1>5. y.h \in Number /\ y.m \in Number /\ S(y.m) \in Int /\ 0 \in Number /\ Ones \in Number
  BY <1>1, LaneFacts, SFacts, SetFacts
<1>6. srai15(y.m) \in Mask /\ (srai15(y.m) = 0 <=> S(y.m) >= 0) /\ srai15(y.m) \in Number
  BY <1>5, SignMask, MaskFacts
<1>7. Or(y.m, srai15(y.m)) = (IF S(y.m) >= 0 THEN y.m ELSE Ones)
  BY <1>5, <1>6, MaskFacts
<1>8. y.h \in Mask
  BY <1>2, <1>6, SetFacts
<1>9. S(y.h) = (IF y.h = 0 THEN 0 ELSE -1)
  BY <1>8, MaskFacts
<1>10. v = (IF y.h = 0 THEN (IF S(y.m) >= 0 THEN y.m ELSE Ones) ELSE 0)
  BY <1>5, <1>7, <1>8, MaskFacts
<1>. HIDE DEF v
<1>11. v = w
  BY <1>5, <1>9, <1>10
<1>12. w \in Number
  BY <1>5
<1>. HIDE DEF w
<1>13. [y EXCEPT !.vd = w] \in Lane
  BY <1>1, <1>12 DEF Lane
<1>. QED BY <1>3, <1>4, <1>11, <1>13

-----------------------------------------------------------------------------
(* Both builds, instruction by instruction.                                *)

(* A selection leaves a lane.                                              *)
LEMMA ComparisonsInLane ==
    ASSUME NEW x \in Lane, NEW s \in Number, NEW t \in Number
    PROVE  /\ VEQ(x, s, t) \in Lane /\ VNE(x, s, t) \in Lane
           /\ VGE(x, s, t) \in Lane /\ VLT(x, s, t) \in Lane /\ VMRG(x, s, t) \in Lane
<1>1. ASSUME NEW chosen PROVE Select(x, chosen, s, t) \in Lane
  <2>. DEFINE y == Uncarried(Copied(x, IF chosen THEN s ELSE t))
  <2>1. y \in Lane
      BY CopiedFacts
  <2>2. set(chosen) \in {0, Ones} /\ 0 \in {0, Ones}
      BY DEF set
  <2>3. Select(x, chosen, s, t) = [y EXCEPT !.vccl = set(chosen), !.vcch = 0]
      BY Zenon DEF Select
  <2>. HIDE DEF y
  <2>. QED BY <2>1, <2>2, <2>3 DEF Lane
<1>2. VMRG(x, s, t) \in Lane
  BY CopiedFacts DEF VMRG
<1>. QED BY <1>1, <1>2, Zenon DEF VEQ, VNE, VGE, VLT

(* The instructions that the two halves write in their own ways.           *)
Written == Instructions \ {"VAND", "VOR", "VXOR"}

(* Every instruction that the two halves write in their own ways makes one *)
(* lane of one lane and two operands.                                      *)
LEMMA InstructionsAgree ==
    ASSUME NEW op \in Written, NEW x \in Lane, NEW s \in Number, NEW t \in Number
    PROVE  /\ interpreterVU(op, x, s, t) = Simd(op, x, s, t)
           /\ interpreterVU(op, x, s, t) \in Lane
<1>1. /\ simdVMULF(x, s, t) = VMULF(x, s, t) /\ VMULF(x, s, t) \in Lane
      /\ simdVMULU(x, s, t) = VMULU(x, s, t) /\ VMULU(x, s, t) \in Lane
      /\ simdVMACF(x, s, t) = VMACF(x, s, t) /\ VMACF(x, s, t) \in Lane
      /\ simdVMACU(x, s, t) = VMACU(x, s, t) /\ VMACU(x, s, t) \in Lane
  BY VMULFAgrees, VMULUAgrees, VMACFAgrees, VMACUAgrees
<1>2. /\ simdVMUDL(x, s, t) = VMUDL(x, s, t) /\ VMUDL(x, s, t) \in Lane
      /\ simdVMUDM(x, s, t) = VMUDM(x, s, t) /\ VMUDM(x, s, t) \in Lane
      /\ simdVMUDN(x, s, t) = VMUDN(x, s, t) /\ VMUDN(x, s, t) \in Lane
      /\ simdVMUDH(x, s, t) = VMUDH(x, s, t) /\ VMUDH(x, s, t) \in Lane
  BY VMUDLAgrees, VMUDMAgrees, VMUDNAgrees, VMUDHAgrees
<1>3. /\ simdVMADL(x, s, t) = VMADL(x, s, t) /\ VMADL(x, s, t) \in Lane
      /\ simdVMADM(x, s, t) = VMADM(x, s, t) /\ VMADM(x, s, t) \in Lane
      /\ simdVMADN(x, s, t) = VMADN(x, s, t) /\ VMADN(x, s, t) \in Lane
      /\ simdVMADH(x, s, t) = VMADH(x, s, t) /\ VMADH(x, s, t) \in Lane
  BY VMADLAgrees, VMADMAgrees, VMADNAgrees, VMADHAgrees
<1>4. /\ simdVADD(x, s, t) = VADD(x, s, t) /\ VADD(x, s, t) \in Lane
      /\ simdVSUB(x, s, t) = VSUB(x, s, t) /\ VSUB(x, s, t) \in Lane
      /\ simdVADDC(x, s, t) = VADDC(x, s, t) /\ VADDC(x, s, t) \in Lane
      /\ simdVSUBC(x, s, t) = VSUBC(x, s, t) /\ VSUBC(x, s, t) \in Lane
      /\ simdVABS(x, s, t) = VABS(x, s, t) /\ VABS(x, s, t) \in Lane
      /\ simdVZERO(x, s, t) = VZERO(x, s, t) /\ VZERO(x, s, t) \in Lane
  BY VADDAgrees, VSUBAgrees, VADDCAgrees, VSUBCAgrees, VABSAgrees, VZEROAgrees
<1>5. /\ simdVEQ(x, s, t) = VEQ(x, s, t) /\ VEQ(x, s, t) \in Lane
      /\ simdVNE(x, s, t) = VNE(x, s, t) /\ VNE(x, s, t) \in Lane
      /\ simdVGE(x, s, t) = VGE(x, s, t) /\ VGE(x, s, t) \in Lane
      /\ simdVLT(x, s, t) = VLT(x, s, t) /\ VLT(x, s, t) \in Lane
      /\ simdVMRG(x, s, t) = VMRG(x, s, t) /\ VMRG(x, s, t) \in Lane
  BY ComparisonsAgree, ComparisonsInLane
<1>6. /\ simdVCH(x, s, t) = VCH(x, s, t) /\ VCH(x, s, t) \in Lane
      /\ simdVCL(x, s, t) = VCL(x, s, t) /\ VCL(x, s, t) \in Lane
      /\ simdVCR(x, s, t) = VCR(x, s, t) /\ VCR(x, s, t) \in Lane
  BY VCHAgrees, VCLAgrees, VCRAgrees
<1>7. /\ simdVNAND(x, s, t) = VNAND(x, s, t) /\ VNAND(x, s, t) \in Lane
      /\ simdVNOR(x, s, t) = VNOR(x, s, t) /\ VNOR(x, s, t) \in Lane
      /\ simdVNXOR(x, s, t) = VNXOR(x, s, t) /\ VNXOR(x, s, t) \in Lane
  BY BitwiseAgrees
<1>8. \/ op \in {"VMULF", "VMULU", "VMACF", "VMACU"}
      \/ op \in {"VMUDL", "VMUDM", "VMUDN", "VMUDH"}
      \/ op \in {"VMADL", "VMADM", "VMADN", "VMADH"}
      \/ op \in {"VADD", "VSUB", "VADDC", "VSUBC", "VABS", "VZERO"}
      \/ op \in {"VEQ", "VNE", "VGE", "VLT", "VMRG"}
      \/ op \in {"VCH", "VCL", "VCR"}
      \/ op \in {"VNAND", "VNOR", "VNXOR"}
  BY DEF Written, Instructions
<1>9. CASE op \in {"VMULF", "VMULU", "VMACF", "VMACU"}
  BY <1>1, <1>9 DEF interpreterVU, Simd
<1>10. CASE op \in {"VMUDL", "VMUDM", "VMUDN", "VMUDH"}
  BY <1>2, <1>10 DEF interpreterVU, Simd
<1>11. CASE op \in {"VMADL", "VMADM", "VMADN", "VMADH"}
  BY <1>3, <1>11 DEF interpreterVU, Simd
<1>12. CASE op \in {"VADD", "VSUB", "VADDC", "VSUBC", "VABS", "VZERO"}
  BY <1>4, <1>12 DEF interpreterVU, Simd
<1>13. CASE op \in {"VEQ", "VNE", "VGE", "VLT", "VMRG"}
  BY <1>5, <1>13 DEF interpreterVU, Simd
<1>14. CASE op \in {"VCH", "VCL", "VCR"}
  BY <1>6, <1>14 DEF interpreterVU, Simd
<1>15. CASE op \in {"VNAND", "VNOR", "VNXOR"}
  BY <1>7, <1>15 DEF interpreterVU, Simd
<1>. QED BY <1>8, <1>9, <1>10, <1>11, <1>12, <1>13, <1>14, <1>15

(* The inductive invariant: the halves agree on a lane of elements.        *)
LaneInv == scalar \in Lane /\ HalvesAgree

(* One instruction, in both builds.                                        *)
LEMMA ExecuteKeeps ==
    ASSUME LaneInv, NEW op \in Written, NEW s \in Number, NEW t \in Number, Execute(op, s, t)
    PROVE  LaneInv'
<1>1. /\ interpreterVU(op, scalar, s, t) = Simd(op, scalar, s, t)
      /\ interpreterVU(op, scalar, s, t) \in Lane
    BY InstructionsAgree DEF LaneInv
<1> QED
    BY <1>1, Zenon DEF Execute, LaneInv, HalvesAgree

(* The lane after rsp_init.                                                *)
LEMMA LaneInit == Init => LaneInv
BY SetFacts DEF Init, Cleared, LaneInv, HalvesAgree, Lane

(* Whatever instructions run, on whatever operands and for every width of  *)
(* the elements, the scalar half of interpreter-vpu.cpp leaves the same    *)
(* accumulator, control registers and destination as its SSE4.1 half       *)
(* (the two branches of if constexpr in every instruction).                *)
THEOREM BuildsAgree == Spec => []HalvesAgree
<1>1. LaneInv /\ [Next]_vars => LaneInv'
  <2>1. ASSUME LaneInv, UNCHANGED vars PROVE LaneInv'
      BY <2>1 DEF LaneInv, HalvesAgree, vars
  <2> QED
      BY <2>1, ExecuteKeeps DEF Next, Run, Written
<1>2. LaneInv => HalvesAgree
    BY DEF LaneInv
<1> QED
    BY <1>1, <1>2, LaneInit, PTL DEF Spec

-----------------------------------------------------------------------------
(* Registers: a lane and its operand.                                      *)

(* The operands of a lane, and the file that no instruction has touched.   *)
Given(j) == [vs |-> Operands!Original(vs, j), vt |-> Operands!Original(vt, Operands!Chosen(field, j))]
Fresh == [k \in VectorRegisters |-> [j \in Operands!Lanes |-> Operands!Original(k, j)]]

(* The file with the elements of vd that satisfy done already computed.    *)
Partial(done, element) ==
    [Fresh EXCEPT ![vd] =
        [j \in Operands!Lanes |-> IF j \in done THEN element[j] ELSE Operands!Original(vd, j)]]

Computed == IF lane = 8 THEN Operands!Lanes ELSE IF kind = "looped" THEN 0 .. lane - 1 ELSE {}

Fields ==
    /\ kind \in Operands!Kinds
    /\ field \in Operands!Elements
    /\ vd \in VectorRegisters /\ vs \in VectorRegisters /\ vt \in VectorRegisters

(* The inductive invariant: before the loop the file is fresh; during it,  *)
(* vte is the copy of the operand, the accumulator holds the lanes done,   *)
(* and so does vd when the loop writes it directly.                        *)
OperandsInv ==
    /\ Fields
    /\ lane \in -1 .. 8
    /\ lane = -1 => file = Fresh /\ accl = [j \in Operands!Lanes |-> "old"]
    /\ lane # -1 /\ kind \in Operands!Whole =>
         /\ vte = [j \in Operands!Lanes |-> Operands!Original(vt, Operands!Chosen(field, j))]
         /\ accl = [j \in Operands!Lanes |-> IF j < lane THEN Given(j) ELSE "old"]
         /\ file = Partial(Computed, [j \in Operands!Lanes |-> Given(j)])
    /\ lane # -1 /\ kind \notin Operands!Whole =>
         /\ lane = 8
         /\ file = Partial({Operands!de}, [j \in Operands!Lanes |->
                    Operands!Original(vt, IF kind = "single" THEN Operands!Chosen(field, j) ELSE field % 8)])

(* The table of r128::operator() is the meaning of the element field.      *)
LEMMA SourceIsChosen ==
    ASSUME NEW i \in Operands!Elements, NEW j \in Operands!Lanes
    PROVE  Operands!Source(i, j) = Operands!Chosen(i, j) /\ Operands!Source(i, j) \in Operands!Lanes
<1>0. j \in 0 .. 7 /\ i \in 0 .. 15
    BY DEF Operands!Lanes, Operands!Elements
<1>1. CASE i \in {0, 1}
  <2>1. Operands!Source(i, j) = j
      BY <1>0, <1>1 DEF Operands!Source, Operands!Table
  <2> QED
      BY <1>0, <1>1, <2>1 DEF Operands!Chosen, Operands!Lanes
<1>2. CASE i \in {2, 3}
    BY <1>0, <1>2 DEF Operands!Source, Operands!Table, Operands!Chosen, Operands!Lanes
<1>3. CASE i \in {4, 5, 6, 7}
    BY <1>0, <1>3 DEF Operands!Source, Operands!Table, Operands!Chosen, Operands!Lanes
<1>4. CASE i >= 8
  <2>1. Operands!Source(i, j) = i - 8
      BY <1>0, <1>4 DEF Operands!Source, Operands!Table
  <2> QED
      BY <1>0, <1>4, <2>1 DEF Operands!Chosen, Operands!Lanes
<1> QED
    BY <1>0, <1>1, <1>2, <1>3, <1>4

(* The copy of a fresh register is the operand of every lane.              *)
LEMMA BroadcastIsOperand ==
    ASSUME NEW k \in VectorRegisters, NEW i \in Operands!Elements
    PROVE  Operands!Broadcast(Fresh[k], i) = [j \in Operands!Lanes |-> Operands!Original(k, Operands!Chosen(i, j))]
BY SourceIsChosen DEF Operands!Broadcast, Fresh

(* Before the loop the file is fresh.                                      *)
LEMMA OperandsInit == Operands!Init => OperandsInv
BY DEF Operands!Init, OperandsInv, Fields, Fresh

(* The copy that the loop reads is the operand.                            *)
LEMMA BeginKeeps == OperandsInv /\ Operands!Begin => OperandsInv'
<1> SUFFICES ASSUME OperandsInv, Operands!Begin
             PROVE  OperandsInv'
    OBVIOUS
<1>1. /\ kind' = kind /\ field' = field /\ vd' = vd /\ vs' = vs /\ vt' = vt
      /\ file' = Fresh /\ accl' = [j \in Operands!Lanes |-> "old"] /\ lane' = 0 /\ kind \in Operands!Whole
      /\ vte' = [j \in Operands!Lanes |-> Operands!Original(vt, Operands!Chosen(field, j))]
    BY BroadcastIsOperand DEF OperandsInv, Operands!Begin, Fields, Operands!fields
<1>2. Computed' = {}
    BY <1>1 DEF Computed
<1>3. Partial({}, [j \in Operands!Lanes |-> Given(j)])' = Fresh
    BY <1>1 DEF Partial, Fresh, OperandsInv, Fields
<1>4. accl' = [j \in Operands!Lanes |-> IF j < 0 THEN Given(j)' ELSE "old"]
    BY <1>1 DEF Operands!Lanes
<1> QED
    BY <1>1, <1>2, <1>3, <1>4 DEF OperandsInv, Fields, Given, Partial

(* One lane: nothing it reads has been written by the lanes before it.     *)
LEMMA IterateKeeps == OperandsInv /\ Operands!Iterate => OperandsInv'
<1> SUFFICES ASSUME OperandsInv, Operands!Iterate
             PROVE  OperandsInv'
    OBVIOUS
<1>1. /\ kind' = kind /\ field' = field /\ vd' = vd /\ vs' = vs /\ vt' = vt /\ vte' = vte
      /\ lane \in Operands!Lanes /\ lane' = lane + 1 /\ lane' \in 1 .. 8 /\ kind \in Operands!Whole
      /\ vd \in VectorRegisters /\ vs \in VectorRegisters
    BY DEF OperandsInv, Operands!Iterate, Fields, Operands!fields, Operands!Lanes
<1>2. /\ accl = [j \in Operands!Lanes |-> IF j < lane THEN Given(j) ELSE "old"]
      /\ file = Partial(Computed, [j \in Operands!Lanes |-> Given(j)])
      /\ vte = [j \in Operands!Lanes |-> Operands!Original(vt, Operands!Chosen(field, j))]
    BY <1>1 DEF OperandsInv, Operands!Lanes
<1>3. lane \notin Computed
    BY <1>1 DEF Computed, Operands!Lanes
<1>4. file[vs][lane] = Operands!Original(vs, lane)
    BY <1>1, <1>2, <1>3 DEF Partial, Fresh
<1>5. [vs |-> file[vs][lane], vt |-> Operands!Operand] = Given(lane)
    BY <1>1, <1>2, <1>4 DEF Given, Operands!Operand
<1>6. accl' = [j \in Operands!Lanes |-> IF j < lane' THEN Given(j) ELSE "old"]
  <2>1. accl' = [accl EXCEPT ![lane] = Given(lane)]
      BY <1>5 DEF Operands!Iterate
  <2>2. \A j \in Operands!Lanes : j < lane' <=> j < lane \/ j = lane
      BY <1>1 DEF Operands!Lanes
  <2> QED
      BY <1>1, <1>2, <2>1, <2>2
<1>7. file' = Partial(Computed', [j \in Operands!Lanes |-> Given(j)])
  <2>1. CASE kind = "looped"
    <3>1. file' = [file EXCEPT ![vd][lane] = Given(lane)]
        BY <1>5, <2>1 DEF Operands!Iterate
    <3>2. \A j \in Operands!Lanes : j \in Computed' <=> j \in Computed \/ j = lane
        BY <1>1, <2>1 DEF Computed, Operands!Lanes
    <3> QED
        BY <1>1, <1>2, <3>1, <3>2 DEF Partial, Fresh
  <2>2. CASE kind = "copied" /\ lane = 7
    <3>1. file' = [file EXCEPT ![vd] = accl']
        BY <1>1, <2>2 DEF Operands!Iterate
    <3>2. Computed' = Operands!Lanes /\ accl' = [j \in Operands!Lanes |-> Given(j)]
        BY <1>1, <1>6, <2>2 DEF Computed, Operands!Lanes
    <3> QED
        BY <1>1, <1>2, <3>1, <3>2 DEF Partial, Fresh
  <2>3. CASE kind = "copied" /\ lane # 7
    <3>1. file' = file
        BY <1>1, <2>3 DEF Operands!Iterate
    <3>2. Computed' = {} /\ Computed = {}
        BY <1>1, <2>3 DEF Computed, Operands!Lanes
    <3> QED
        BY <1>2, <3>1, <3>2
  <2> QED
      BY <1>1, <2>1, <2>2, <2>3 DEF Operands!Whole
<1> QED
    BY <1>1, <1>2, <1>6, <1>7 DEF OperandsInv, Fields, Given, Partial

(* Instructions without a loop write one element.                          *)
LEMMA SingleKeeps == OperandsInv /\ Operands!Single => OperandsInv'
<1> SUFFICES ASSUME OperandsInv, Operands!Single
             PROVE  OperandsInv'
    OBVIOUS
<1>0. VectorRegisters \subseteq Nat
    BY RegistersAssumption
<1>1. /\ kind' = kind /\ field' = field /\ vd' = vd /\ vs' = vs /\ vt' = vt
      /\ file = Fresh /\ lane' = 8 /\ kind \in {"single", "divide"}
      /\ vd \in VectorRegisters /\ vt \in VectorRegisters /\ vs \in Nat /\ field \in 0 .. 15
      /\ vte' = [j \in Operands!Lanes |-> Operands!Original(vt, Operands!Chosen(field, j))]
    BY <1>0, BroadcastIsOperand DEF OperandsInv, Operands!Single, Fields, Operands!fields, Operands!Whole, Operands!Kinds, Operands!Elements
<1>2. Operands!de \in Operands!Lanes /\ field % 8 \in Operands!Lanes /\ Operands!de' = Operands!de
    BY <1>1 DEF Operands!de, Operands!Lanes
<1> DEFINE result == Operands!Original(vt, IF kind = "single" THEN Operands!Chosen(field, Operands!de) ELSE field % 8)
<1>3. file' = [Fresh EXCEPT ![vd][Operands!de] = result]
    BY <1>1, <1>2 DEF Operands!Single, Fresh
<1>4. file' = Partial({Operands!de}, [j \in Operands!Lanes |->
               Operands!Original(vt, IF kind = "single" THEN Operands!Chosen(field, j) ELSE field % 8)])
    BY <1>1, <1>2, <1>3 DEF Partial, Fresh
<1> QED
    BY <1>1, <1>2, <1>4 DEF OperandsInv, Fields, Partial, Operands!Whole

(* The invariant says of a finished instruction what AtOnce says of it.    *)
LEMMA InvImpliesAtOnce == OperandsInv => Operands!AtOnce
<1> SUFFICES ASSUME OperandsInv
             PROVE  Operands!AtOnce
    OBVIOUS
<1>0. VectorRegisters \subseteq Nat
    BY RegistersAssumption
<1>1. /\ vd \in VectorRegisters /\ vs \in Nat /\ lane \in -1 .. 8
      /\ Operands!de \in Operands!Lanes
    BY <1>0 DEF OperandsInv, Fields, Operands!de, Operands!Lanes
<1>2. file = Fresh \/ \E done, element : file = Partial(done, element)
    BY <1>1 DEF OperandsInv
<1>3. \A k \in VectorRegisters \ {vd}, j \in Operands!Lanes : file[k][j] = Operands!Original(k, j)
  <2>1. CASE file = Fresh
      BY <2>1 DEF Fresh
  <2>2. ASSUME NEW done, NEW element, file = Partial(done, element)
        PROVE  \A k \in VectorRegisters \ {vd}, j \in Operands!Lanes : file[k][j] = Operands!Original(k, j)
    <3>1. \A k \in VectorRegisters \ {vd} : file[k] = Fresh[k]
        BY <2>2 DEF Partial, Fresh
    <3> QED
        BY <3>1 DEF Fresh
  <2> QED
      BY <1>2, <2>1, <2>2
<1>4. ASSUME lane = 8, kind \in Operands!Whole
      PROVE  file[vd] = accl /\ \A j \in Operands!Lanes : file[vd][j] = Given(j)
  <2>1. file = Partial(Operands!Lanes, [j \in Operands!Lanes |-> Given(j)])
      BY <1>4 DEF OperandsInv, Computed
  <2>2. file[vd] = [j \in Operands!Lanes |-> Given(j)]
      BY <1>1, <2>1 DEF Partial, Fresh
  <2>3. accl = [j \in Operands!Lanes |-> Given(j)]
      BY <1>4 DEF OperandsInv, Operands!Lanes
  <2> QED
      BY <2>2, <2>3
<1>5. ASSUME lane = 8, kind \notin Operands!Whole
      PROVE  /\ file[vd][Operands!de] =
                    Operands!Original(vt, IF kind = "single" THEN Operands!Chosen(field, Operands!de) ELSE field % 8)
             /\ \A j \in Operands!Lanes \ {Operands!de} : file[vd][j] = Operands!Original(vd, j)
  <2>1. file = Partial({Operands!de}, [j \in Operands!Lanes |->
               Operands!Original(vt, IF kind = "single" THEN Operands!Chosen(field, j) ELSE field % 8)])
      BY <1>5 DEF OperandsInv
  <2> QED
      BY <1>1, <2>1 DEF Partial, Fresh
<1> QED
    BY <1>3, <1>4, <1>5 DEF Operands!AtOnce, Operands!OperandsAreOld, Operands!OnlyDestination, Given

(* The part that runs takes the steps of its module, the others stutter.   *)
LEMMA OperandsStep == OperandsInv /\ [VectorNext]_vectorVars => OperandsInv'
<1> SUFFICES ASSUME OperandsInv, [VectorNext]_vectorVars
             PROVE  OperandsInv'
    OBVIOUS
<1>1. ASSUME UNCHANGED operandVars PROVE OperandsInv'
    BY <1>1 DEF OperandsInv, operandVars, Fields, Given, Partial, Computed, Operands!de
<1>2. ASSUME Operands!Next PROVE OperandsInv'
    BY <1>2, BeginKeeps, IterateKeeps, SingleKeeps DEF Operands!Next
<1>3. Operands!Next \/ UNCHANGED operandVars
    BY Zenon DEF VectorNext, vectorVars
<1> QED
    BY <1>1, <1>2, <1>3

(* Every finished instruction computed from what the registers held before *)
(* it and wrote vd alone, whichever of vd, vs and vt are the same register *)
(* (r128::operator() and the loops over lanes of interpreter-vpu.cpp).     *)
THEOREM OperandsAtOnce == VectorSpec => []AtOnce
<1>1. VectorInit => OperandsInv
    BY OperandsInit DEF VectorInit
<1>2. OperandsInv => AtOnce
    BY InvImpliesAtOnce DEF AtOnce
<1> QED
    BY <1>1, <1>2, OperandsStep, PTL DEF VectorSpec

-----------------------------------------------------------------------------
(* The instructions of either part are among those the halves agree on.    *)
LEMMA HalvesStep == LaneInv /\ [VectorNext]_vectorVars => LaneInv'
<1> SUFFICES ASSUME LaneInv, [VectorNext]_vectorVars
             PROVE  LaneInv'
    OBVIOUS
<1>1. Run(Multiplications) \/ Run(Others) \/ UNCHANGED halfVars
    BY Zenon DEF VectorNext, vectorVars
<1>2. Multiplications \subseteq Written /\ Others \subseteq Written
    BY DEF Multiplications, Others, Written, Instructions
<1>3. ASSUME UNCHANGED halfVars PROVE LaneInv'
    BY <1>3 DEF LaneInv, HalvesAgree, halfVars, vars
<1> QED
    BY <1>1, <1>2, <1>3, ExecuteKeeps DEF Run

(* The builds agree in the vector unit, too, beside its other parts        *)
(* (interpreter-vpu.cpp).                                                  *)
THEOREM UnitBuildsAgree == VectorSpec => []HalvesAgree
<1>1. VectorInit => LaneInv
    BY LaneInit DEF VectorInit
<1>2. LaneInv => HalvesAgree
    BY DEF LaneInv
<1> QED
    BY <1>1, <1>2, HalvesStep, PTL DEF VectorSpec

-----------------------------------------------------------------------------
(* Quantization.                                                           *)

(* The numbers that two elements keep: those of 32 bits.                   *)
Kept == {p \in Int : -32768 <= p \div 65536 /\ p \div 65536 <= 32767}

(* What VMULQ keeps of a product, and the element made of what is kept.    *)
Truncated(product) == IF product < 0 THEN product + 31 ELSE product
Level(product) == Quantizer!U16(16 * (Quantizer!sclamp(product \div 2) \div 16))

(* The inductive invariant: ACCH and ACCM hold the exact product, rounded  *)
(* by VMULQ and corrected by every VMACQ since, without loss, and vd is    *)
(* the element made of it.                                                 *)
QuantizerInv ==
    /\ executed \in {"none", "VMULQ", "VMACQ"}
    /\ exact \in Int /\ Truncated(exact) \in Kept
    /\ Quantizer!Product = IF executed = "VMACQ" THEN Quantizer!Corrected(Truncated(exact)) ELSE Truncated(exact)
    /\ level = Level(Quantizer!Product)

(* The product of two numbers is no larger than the product of bounds.     *)
LEMMA Magnitude ==
    ASSUME NEW n \in Nat, NEW a \in Int, NEW b \in Int, -n <= a, a <= n, -n <= b, b <= n
    PROVE  -(n * n) <= a * b /\ a * b <= n * n
<1>1. ASSUME NEW c \in Int, NEW d \in Int, 0 <= c, c <= n, 0 <= d, d <= n
      PROVE  0 <= c * d /\ c * d <= n * n
  <2>1. 0 <= c * d /\ c * d <= c * n
      BY <1>1
  <2>2. c * n <= n * n
      BY <1>1
  <2> QED
      BY <1>1, <2>1, <2>2
<1>2. CASE a >= 0 /\ b >= 0
    BY <1>1, <1>2
<1>3. CASE a < 0 /\ b >= 0
  <2>1. 0 <= (0 - a) * b /\ (0 - a) * b <= n * n
      BY <1>1, <1>3
  <2> QED
      BY <2>1
<1>4. CASE a >= 0 /\ b < 0
  <2>1. 0 <= a * (0 - b) /\ a * (0 - b) <= n * n
      BY <1>1, <1>4
  <2> QED
      BY <2>1
<1>5. CASE a < 0 /\ b < 0
  <2>1. 0 <= (0 - a) * (0 - b) /\ (0 - a) * (0 - b) <= n * n
      BY <1>1, <1>5
  <2> QED
      BY <2>1
<1> QED
    BY <1>2, <1>3, <1>4, <1>5

(* A number is kept when it is not below or above those of 32 bits.        *)
LEMMA KeptFacts ==
    ASSUME NEW p \in Int
    PROVE  /\ p \in Kept <=> p \div 65536 >= -32768 /\ p \div 65536 <= 32767
           /\ p \div 65536 \in Int
           /\ p = (p \div 65536) * 65536 + (p % 65536)
           /\ p % 65536 >= 0 /\ p % 65536 < 65536
BY DEF Kept

(* The product of two signed elements, rounded, is kept.                   *)
LEMMA ProductIsKept ==
    ASSUME NEW a \in Factors, NEW b \in Factors
    PROVE  a * b \in Int /\ Truncated(a * b) \in Kept
<1>1. a \in Int /\ -32768 <= a /\ a <= 32768
    BY FactorsAssumption
<1>2. b \in Int /\ -32768 <= b /\ b <= 32768
    BY FactorsAssumption
<1>3. a * b \in Int /\ -(32768 * 32768) <= a * b /\ a * b <= 32768 * 32768
    BY <1>1, <1>2, Magnitude
<1> DEFINE p == a * b
<1> HIDE DEF p
<1>4. /\ p \div 65536 >= -32768 /\ p \div 65536 <= 32767
      /\ p < 0 => (p + 31) \div 65536 >= -32768 /\ (p + 31) \div 65536 <= 32767
    BY <1>3 DEF p
<1>5. p \in Int /\ p + 31 \in Int
    BY <1>3 DEF p
<1>6. Truncated(p) \in Kept
    BY <1>4, <1>5, KeptFacts DEF Truncated
<1> QED
    BY <1>5, <1>6, Zenon DEF p

(* The halves that are kept of a 32-bit product give it back.              *)
LEMMA HalvesGiveBack ==
    ASSUME NEW p \in Kept
    PROVE  Quantizer!S16(Quantizer!U16(p \div 65536)) * 65536 + Quantizer!U16(p) = p
<1>0. p \in Int
    BY DEF Kept
<1> DEFINE q == p \div 65536
<1>1. q \in Int /\ q >= -32768 /\ q <= 32767 /\ p = q * 65536 + (p % 65536)
    BY <1>0, KeptFacts
<1> HIDE DEF q
<1>2. Quantizer!S16(q % 65536) = q
    BY <1>1 DEF Quantizer!S16
<1> QED
    BY <1>1, <1>2 DEF Quantizer!U16, q

(* Correcting moves a product by at most a step, towards zero, and a       *)
(* corrected product stays.                                                *)
LEMMA CorrectedFacts ==
    ASSUME NEW p \in Int
    PROVE  /\ Quantizer!Corrected(p) \in Int
           /\ ~Quantizer!Even(Quantizer!Corrected(p)) \/ Quantizer!Corrected(p) \in 0 .. 31
           /\ Quantizer!Corrected(Quantizer!Corrected(p)) = Quantizer!Corrected(p)
           /\ p < 0 => Quantizer!Corrected(p) \in p .. p + 32
           /\ p >= 0 => Quantizer!Corrected(p) \in p - 32 .. p /\ Quantizer!Corrected(p) >= 0
<1>1. (p + 32) \div 32 = (p \div 32) + 1 /\ (p - 32) \div 32 = (p \div 32) - 1
      /\ p \div 32 \in Int
    OBVIOUS
<1>2. (p < 0 <=> p \div 32 < 0) /\ (p >= 32 <=> p \div 32 >= 1)
    OBVIOUS
<1>3. ASSUME Quantizer!Even(p)
      PROVE  ~Quantizer!Even(p + 32) /\ ~Quantizer!Even(p - 32)
    BY <1>1, <1>3 DEF Quantizer!Even
<1>4. CASE p < 0 /\ Quantizer!Even(p)
  <2>1. Quantizer!Corrected(p) = p + 32
      BY <1>4 DEF Quantizer!Corrected
  <2> QED
      BY <1>3, <1>4, <2>1 DEF Quantizer!Corrected
<1>5. CASE p >= 32 /\ Quantizer!Even(p)
  <2>1. Quantizer!Corrected(p) = p - 32
      BY <1>5 DEF Quantizer!Corrected
  <2> QED
      BY <1>3, <1>5, <2>1 DEF Quantizer!Corrected
<1>6. CASE ~Quantizer!Even(p) \/ p \in 0 .. 31
  <2>1. Quantizer!Corrected(p) = p
      BY <1>6 DEF Quantizer!Corrected
  <2> QED
      BY <1>6, <2>1
<1> QED
    BY <1>4, <1>5, <1>6

(* The element of a corrected product that is not clamped is zero or an    *)
(* odd number of sixteens.                                                 *)
LEMMA LevelIsOdd ==
    ASSUME NEW p \in Int, Quantizer!sclamp(p \div 2) = p \div 2, ~Quantizer!Even(p) \/ p \in 0 .. 31
    PROVE  Quantizer!S16(Level(p)) = 0 \/ (Quantizer!S16(Level(p)) \div 16) % 2 = 1
<1> DEFINE q == (p \div 2) \div 16
<1>1. q = p \div 32 /\ q \in Int /\ -2048 <= q /\ q <= 2047
    BY DEF Quantizer!sclamp
<1>2. Level(p) = (16 * q) % 65536
    BY <1>1 DEF Level, Quantizer!sclamp, Quantizer!U16
<1>3. q % 2 = 1 \/ q = 0
    BY <1>1 DEF Quantizer!Even
<1> HIDE DEF q
<1>4. Quantizer!S16((16 * q) % 65536) = 16 * q
    BY <1>1 DEF Quantizer!S16
<1>5. (16 * q) \div 16 = q
    BY <1>1
<1> QED
    BY <1>1, <1>2, <1>3, <1>4, <1>5

(* Whatever 32-bit product is kept is the product afterwards, and vd is    *)
(* the element made of it.                                                 *)
LEMMA KeepFacts ==
    ASSUME NEW p \in Kept, Quantizer!Keep(p)
    PROVE  Quantizer!Product' = p /\ level' = Level(p)
BY HalvesGiveBack DEF Quantizer!Keep, Quantizer!Product, Level

(* Before the first instruction the product is 0.                          *)
LEMMA QuantizerInit == Quantizer!Init => QuantizerInv
<1> SUFFICES ASSUME Quantizer!Init
             PROVE  QuantizerInv
    OBVIOUS
<1>1. Quantizer!Product = 0 /\ level = 0 /\ exact = 0 /\ executed = "none"
    BY DEF Quantizer!Init, Quantizer!Product, Quantizer!S16
<1>2. Level(0) = 0 /\ Truncated(0) = 0 /\ 0 \in Kept
    BY DEF Level, Truncated, Quantizer!U16, Quantizer!sclamp, Kept
<1> QED
    BY <1>1, <1>2 DEF QuantizerInv

(* VMULQ keeps the rounded product.                                        *)
LEMMA VmulqKeeps ==
    ASSUME QuantizerInv, NEW a \in Factors, NEW b \in Factors, Quantizer!VMULQ(a, b)
    PROVE  QuantizerInv'
<1>1. a * b \in Int /\ Truncated(a * b) \in Kept
    BY ProductIsKept
<1>2. Quantizer!Keep(Truncated(a * b)) /\ exact' = a * b /\ executed' = "VMULQ"
    BY DEF Quantizer!VMULQ, Truncated
<1>3. Quantizer!Product' = Truncated(a * b) /\ level' = Level(Truncated(a * b))
    BY <1>1, <1>2, KeepFacts
<1> QED
    BY <1>1, <1>2, <1>3, Zenon DEF QuantizerInv, Level, Truncated

(* A correction never leaves the numbers that are kept.                    *)
LEMMA CorrectedIsKept ==
    ASSUME NEW p \in Kept
    PROVE  Quantizer!Corrected(p) \in Kept
<1>0. p \in Int
    BY DEF Kept
<1>1. p \div 65536 >= -32768 /\ p \div 65536 <= 32767
    BY <1>0, KeptFacts
<1>2. /\ p < 0 => (p + 32) \div 65536 >= -32768 /\ (p + 32) \div 65536 <= 32767
      /\ p >= 32 => (p - 32) \div 65536 >= -32768 /\ (p - 32) \div 65536 <= 32767
    BY <1>0, <1>1
<1>3. p + 32 \in Int /\ p - 32 \in Int
    BY <1>0
<1>4. (p < 0 => p + 32 \in Kept) /\ (p >= 32 => p - 32 \in Kept)
    BY <1>2, <1>3, KeptFacts
<1> QED
    BY <1>0, <1>4 DEF Quantizer!Corrected

(* VMACQ corrects the product once, and then leaves it.                    *)
LEMMA VmacqKeeps == QuantizerInv /\ Quantizer!VMACQ => QuantizerInv'
<1> SUFFICES ASSUME QuantizerInv, Quantizer!VMACQ
             PROVE  QuantizerInv'
    OBVIOUS
<1>1. exact \in Int /\ exact' = exact /\ executed' = "VMACQ" /\ Truncated(exact) \in Kept
    BY DEF QuantizerInv, Quantizer!VMACQ
<1>2. Truncated(exact) \in Int
    BY <1>1 DEF Kept
<1>3. Quantizer!Corrected(Quantizer!Product) = Quantizer!Corrected(Truncated(exact))
    BY <1>2, CorrectedFacts DEF QuantizerInv
<1>4. Quantizer!Corrected(Truncated(exact)) \in Kept
    BY <1>1, CorrectedIsKept
<1>5. Quantizer!Keep(Quantizer!Corrected(Truncated(exact)))
    BY <1>3 DEF Quantizer!VMACQ
<1>6. /\ Quantizer!Product' = Quantizer!Corrected(Truncated(exact))
      /\ level' = Level(Quantizer!Corrected(Truncated(exact)))
    BY <1>4, <1>5, KeepFacts
<1> QED
    BY <1>1, <1>6, Zenon DEF QuantizerInv, Level, Truncated

(* The part that runs takes the steps of its module, the others stutter.   *)
LEMMA QuantizerStep == QuantizerInv /\ [VectorNext]_vectorVars => QuantizerInv'
<1> SUFFICES ASSUME QuantizerInv, [VectorNext]_vectorVars
             PROVE  QuantizerInv'
    OBVIOUS
<1>1. Quantizer!Next \/ UNCHANGED levelVars
    BY Zenon DEF VectorNext, vectorVars
<1>2. ASSUME UNCHANGED levelVars PROVE QuantizerInv'
    BY <1>2 DEF QuantizerInv, levelVars, Quantizer!Product, Level, Truncated
<1> QED
    BY <1>1, <1>2, VmulqKeeps, VmacqKeeps DEF Quantizer!Next

(* The invariant says what QuantizedIsOdd says after VMACQ.                *)
LEMMA InvImpliesOdd == QuantizerInv => Quantizer!QuantizedIsOdd
<1> SUFFICES ASSUME QuantizerInv, executed = "VMACQ"
             PROVE  Quantizer!QuantizedIsOdd
    BY DEF Quantizer!QuantizedIsOdd
<1> DEFINE p == Quantizer!Product
<1>1. exact \in Int /\ Truncated(exact) \in Int /\ p = Quantizer!Corrected(Truncated(exact)) /\ level = Level(p)
    BY DEF QuantizerInv, Truncated
<1>2. p \in Int /\ (~Quantizer!Even(p) \/ p \in 0 .. 31) /\ Quantizer!Corrected(p) = p
    BY <1>1, CorrectedFacts
<1>3. IF exact < 0 THEN p \in exact .. exact + 63 ELSE p \in exact - 32 .. exact
  <2> DEFINE r == Truncated(exact)
  <2>1. (r < 0 => p \in r .. r + 32) /\ (r >= 0 => p \in r - 32 .. r /\ p >= 0)
      BY <1>1, CorrectedFacts
  <2>2. CASE exact < 0
    <3>1. r = exact + 31
        BY <2>2 DEF Truncated
    <3> QED
        BY <1>1, <2>1, <2>2, <3>1
  <2>3. CASE exact >= 0
    <3>1. r = exact
        BY <1>1, <2>3 DEF Truncated
    <3> QED
        BY <1>1, <2>1, <2>3, <3>1
  <2> QED
      BY <1>1, <2>2, <2>3
<1>4. Quantizer!sclamp(p \div 2) = p \div 2 => Quantizer!S16(level) = 0 \/ (Quantizer!S16(level) \div 16) % 2 = 1
    BY <1>1, <1>2, LevelIsOdd
<1> QED
    BY <1>2, <1>3, <1>4 DEF Quantizer!QuantizedIsOdd

(* After VMULQ and any number of VMACQ the product is an odd number of     *)
(* steps of 32, or in the dead zone, near the exact one and settled, for   *)
(* every level and weight of sixteen bits (VMULQ and VMACQ of              *)
(* interpreter-vpu.cpp).                                                   *)
THEOREM QuantizationIsOdd == VectorSpec => []QuantizedIsOdd
<1>1. VectorInit => QuantizerInv
    BY QuantizerInit DEF VectorInit
<1>2. QuantizerInv => QuantizedIsOdd
    BY InvImpliesOdd DEF QuantizedIsOdd
<1> QED
    BY <1>1, <1>2, QuantizerStep, PTL DEF VectorSpec
-----------------------------------------------------------------------------
(* The sequences of VectorIdioms, whose arithmetic and selections are      *)
(* exact. First: the accumulator of a lane as a signed number.             *)

(* The accumulator of a lane as a signed number, its upper two elements,   *)
(* and the limit of the numbers that it holds.                             *)
Signed(x) == Composed(S(x.h), x.m, x.l)
UpperPart(x) == S(x.h) * W + x.m
Limit == Lowest * (W * W)

(* The number, its part above the lowest element, and the element above    *)
(* that.                                                                   *)
LEMMA SignedFacts ==
    ASSUME NEW x \in Lane
    PROVE  /\ UpperPart(x) \in Int /\ Signed(x) \in Int
           /\ Signed(x) = UpperPart(x) * W + x.l
           /\ Signed(x) \div W = UpperPart(x) /\ UpperPart(x) \div W = S(x.h)
<1>1. /\ W \in Nat /\ W >= 1 /\ S(x.h) \in Int /\ x.m \in 0 .. W - 1 /\ x.l \in 0 .. W - 1
      /\ Signed(x) = (S(x.h) * W + x.m) * W + x.l
  BY WidthFacts, LaneFacts, SFacts DEF Number, Signed, Composed
<1>2. UpperPart(x) \in Int /\ UpperPart(x) = S(x.h) * W + x.m
  BY <1>1 DEF UpperPart
<1>3. UpperPart(x) \div W = S(x.h)
  BY <1>1, <1>2, DivModUnique
<1>4. Signed(x) = UpperPart(x) * W + x.l /\ Signed(x) \in Int
  BY <1>1, <1>2
<1>5. Signed(x) \div W = UpperPart(x)
  BY <1>1, <1>2, <1>4, DivModUnique
<1>. QED BY <1>2, <1>3, <1>4, <1>5

(* A number in range is read back as it was written.                       *)
LEMMA SetAccumulator ==
    ASSUME NEW x \in Lane, NEW v \in Int, -Limit <= v, v < Limit
    PROVE  accumulatorSet(x, v) \in Lane /\ Signed(accumulatorSet(x, v)) = v
<1>. DEFINE w == v \div W
            a == w \div W
            b == w % W
            c == v % W
<1>1. W \in Nat /\ W >= 1 /\ Lowest \in Nat /\ W * W \in Nat
  BY WidthFacts
<1>2. w \in Int /\ c \in 0 .. W - 1 /\ v = w * W + c
  BY <1>1, DivMod
<1>. HIDE DEF w, c
<1>3. a \in Int /\ b \in 0 .. W - 1 /\ w = a * W + b
  BY <1>1, <1>2, DivMod
<1>. HIDE DEF a, b
<1>4. -Lowest <= a /\ a < Lowest
  <2>1. (-(Lowest * W)) * W <= v /\ v < (Lowest * W) * W /\ Lowest * W \in Int /\ -(Lowest * W) \in Int
      BY <1>1 DEF Limit
  <2>2. -(Lowest * W) <= w /\ w < Lowest * W
      BY <2>1, QuotientBounds DEF w
  <2>3. (-Lowest) * W <= w /\ -Lowest \in Int
      BY <2>2, <1>1
  <2>. QED BY <2>2, <2>3, <1>1, <1>2, QuotientBounds DEF a
<1>5. accumulatorSet(x, v) = Acc(x, U(a), b, c) /\ Acc(x, U(a), b, c) \in Lane
  <2>1. v = Composed(a, b, c)
      BY <1>2, <1>3 DEF Composed
  <2>2. b \in Number /\ c \in Number
      BY <1>2, <1>3 DEF Number
  <2>. QED BY <2>1, <2>2, <1>3, AccumulatorElements
<1>6. S(U(a)) = a
  BY <1>3, <1>4, USigned
<1>7. Signed(Acc(x, U(a), b, c)) = Composed(a, b, c)
  <2>1. /\ Acc(x, U(a), b, c).h = U(a) /\ Acc(x, U(a), b, c).m = b /\ Acc(x, U(a), b, c).l = c
      BY DEF Acc, Lane
  <2>. QED BY <2>1, <1>6, Zenon DEF Signed
<1>. QED BY <1>2, <1>3, <1>5, <1>7 DEF Composed

(* The accumulator is read unsigned; what is written is the same number.   *)
LEMMA AddAccumulator ==
    ASSUME NEW x \in Lane, NEW p \in Int
    PROVE  Accumulate(x, p) = accumulatorSet(x, Signed(x) + p)
<1>1. PICK e \in {0, 1} : S(x.h) = x.h - e * W
  BY LaneFacts, SignedParts
<1>2. /\ W \in Nat /\ W >= 1 /\ W * W \in Nat /\ W * W >= 1 /\ e * W \in Int /\ e \in Int
      /\ x.h \in Int /\ x.m \in Int /\ x.l \in Int
  BY WidthFacts, LaneFacts, SFacts, Multiples
<1>. DEFINE n == Signed(x) + p
<1>3. n \in Int
  BY SignedFacts
<1>4. accumulatorGet(x) + p = n + (e * W) * (W * W)
  <2>1. Signed(x) = ((x.h - e * W) * W + x.m) * W + x.l
      BY <1>1 DEF Signed, Composed
  <2>2. accumulatorGet(x) = (x.h * W + x.m) * W + x.l
      BY DEF accumulatorGet
  <2>3. ((x.h - e * W) * W + x.m) * W + x.l + (e * W) * (W * W) = (x.h * W + x.m) * W + x.l
      BY <1>2
  <2>4. (e * W) * (W * W) \in Int /\ (x.h * W + x.m) * W + x.l \in Int
      BY <1>2
  <2>. QED BY <2>1, <2>2, <2>3, <2>4, SignedFacts
<1>. HIDE DEF n
<1>5. ASSUME NEW z \in Int PROVE accumulatorSet(x, n + z * (W * W) * W) = accumulatorSet(x, n)
  <2>. DEFINE big == n + z * (W * W) * W
              b == n \div W
              c == n \div (W * W)
  <2>1. b \in Int /\ n % W \in 0 .. W - 1 /\ n = b * W + (n % W)
      BY <1>2, <1>3, DivMod
  <2>2. c \in Int /\ n % (W * W) \in 0 .. W * W - 1 /\ n = c * (W * W) + (n % (W * W))
      BY <1>2, <1>3, DivMod
  <2>. HIDE DEF b, c
  <2>3. big \in Int /\ big = n + (z * (W * W)) * W /\ big = (b + (z * W) * W) * W + (n % W)
        /\ z * (W * W) \in Int /\ z * W \in Int /\ (z * W) * W \in Int
      BY <2>1, <1>2
  <2>4. big = (c + z * W) * (W * W) + (n % (W * W)) /\ c + z * W \in Int
      BY <2>2, <2>3, <1>2
  <2>. HIDE DEF big
  <2>5. U(big) = U(n)
      BY <2>3, <1>3, UShift
  <2>6. big \div W = b + (z * W) * W
      BY <2>3, <2>1, <1>2, DivModUnique
  <2>7. big \div (W * W) = c + z * W
      BY <2>3, <2>4, <2>2, <1>2, DivModUnique
  <2>8. U(big \div W) = U(n \div W)
      BY <2>6, <2>1, <2>3, UShift DEF b
  <2>9. U(big \div (W * W)) = U(n \div (W * W))
      <3>1. U(c + z * W) = U(c)
          BY <2>2, UShift
      <3>. QED BY <2>7, <3>1, Zenon DEF c
  <2>. QED BY <2>5, <2>8, <2>9, Zenon DEF accumulatorSet, big
<1>6. (e * W) * (W * W) = e * (W * W) * W
  BY <1>2
<1>7. Accumulate(x, p) = accumulatorSet(x, n + e * (W * W) * W)
  BY <1>4, <1>6, Zenon DEF Accumulate
<1>. QED BY <1>2, <1>5, <1>7 DEF n

(* VMADH adds to the upper two elements.                                   *)
Above(x, p) ==
    LET result == accumulatorGet(x) \div W + p
    IN  [x EXCEPT !.h = U(result \div W), !.m = U(result)]

(* It adds its product, shifted by an element, as long as the upper        *)
(* elements can hold the sum.                                              *)
LEMMA AddAbove ==
    ASSUME NEW x \in Lane, NEW p \in Int,
           -(Lowest * W) <= UpperPart(x) + p, UpperPart(x) + p < Lowest * W
    PROVE  Above(x, p) \in Lane /\ Signed(Above(x, p)) = Signed(x) + p * W
<1>1. PICK e \in {0, 1} : S(x.h) = x.h - e * W
  BY LaneFacts, SignedParts
<1>2. /\ W \in Nat /\ W >= 1 /\ e * W \in Int /\ e \in Int /\ Lowest \in Int
      /\ x.h \in Int /\ x.m \in Int /\ x.l \in 0 .. W - 1
  BY WidthFacts, LaneFacts, SFacts, Multiples DEF Number
<1>. DEFINE w == UpperPart(x) + p
            a == w \div W
            b == w % W
            y == Above(x, p)
<1>3. UpperPart(x) \in Int /\ w \in Int
  BY SignedFacts
<1>4. accumulatorGet(x) \div W + p = w + (e * W) * W
  <2>1. accumulatorGet(x) = (x.h * W + x.m) * W + x.l
      BY DEF accumulatorGet
  <2>2. accumulatorGet(x) \in Int /\ x.h * W + x.m \in Int
      BY <1>2, <2>1
  <2>3. accumulatorGet(x) \div W = x.h * W + x.m
      BY <1>2, <2>1, <2>2, DivModUnique
  <2>4. UpperPart(x) = (x.h - e * W) * W + x.m
      BY <1>1 DEF UpperPart
  <2>5. (x.h - e * W) * W + x.m + (e * W) * W = x.h * W + x.m
      BY <1>2
  <2>6. (e * W) * W \in Int
      BY <1>2
  <2>. QED BY <2>2, <2>3, <2>4, <2>5, <2>6, <1>3
<1>5. (-Lowest) * W <= w /\ w < Lowest * W /\ -Lowest \in Int
  BY <1>2, <1>3
<1>. HIDE DEF w
<1>6. a \in Int /\ b \in 0 .. W - 1 /\ w = a * W + b
  BY <1>2, <1>3, DivMod
<1>7. -Lowest <= a /\ a < Lowest
  BY <1>2, <1>3, <1>5, QuotientBounds
<1>. HIDE DEF a, b
<1>8. U(w + (e * W) * W) = b /\ U((w + (e * W) * W) \div W) = U(a)
  <2>1. w + (e * W) * W = (a + e * W) * W + b /\ a + e * W \in Int /\ w + (e * W) * W \in Int
      BY <1>2, <1>6
  <2>2. (w + (e * W) * W) \div W = a + e * W /\ (w + (e * W) * W) % W = b
      BY <1>2, <1>6, <2>1, DivModUnique
  <2>3. U(a + e * W) = U(a)
      BY <1>2, <1>6, UShift
  <2>. QED BY <2>2, <2>3 DEF U
<1>9. y = [x EXCEPT !.h = U(a), !.m = b]
  BY <1>4, <1>8, Zenon DEF Above
<1>. HIDE DEF y
<1>10. S(U(a)) = a /\ U(a) \in Number /\ b \in Number
  BY <1>6, <1>7, USigned DEF Number
<1>11. y \in Lane /\ y.h = U(a) /\ y.m = b /\ y.l = x.l
  BY <1>9, <1>10 DEF Lane
<1>12. Signed(y) = w * W + x.l
  <2>1. Signed(y) = (a * W + b) * W + x.l
      BY <1>10, <1>11, Zenon DEF Signed, Composed
  <2>. QED BY <2>1, <1>6, <1>2
<1>13. Signed(x) = UpperPart(x) * W + x.l
  BY SignedFacts
<1>14. w * W + x.l = (UpperPart(x) * W + x.l) + p * W
  BY <1>2, <1>3 DEF w
<1>. QED BY <1>11, <1>12, <1>13, <1>14 DEF y

(* What the two saturations make of the accumulator.                       *)
LEMMA Saturations ==
    ASSUME NEW x \in Lane
    PROVE  /\ accumulatorSaturate(x, TRUE, Lowest, Highest) = U(sclamp(UpperPart(x)))
           /\ accumulatorSaturate(x, FALSE, 0, Ones)
                  = IF UpperPart(x) < -Lowest THEN 0 ELSE IF UpperPart(x) >= Lowest THEN Ones ELSE x.l
           /\ S(x.h) < 0 <=> UpperPart(x) < 0
           /\ UpperPart(x) >= 0 => ((S(x.h) # 0 \/ S(x.m) < 0) <=> UpperPart(x) >= Lowest)
           /\ UpperPart(x) >= 0 /\ UpperPart(x) < Lowest => x.m = UpperPart(x)
<1>1. /\ Lowest \in Nat /\ Lowest >= 2 /\ W = 2 * Lowest /\ Ones = W - 1
      /\ x.h \in Nat /\ x.h < W /\ S(x.h) = (IF x.h < Lowest THEN x.h ELSE x.h - W) /\ S(x.h) \in Int
      /\ x.m \in Nat /\ x.m < W /\ S(x.m) = (IF x.m < Lowest THEN x.m ELSE x.m - W) /\ S(x.m) \in Int
      /\ W \in Nat /\ W >= 1
  BY SFacts, WidthFacts, LaneFacts DEF Ones
<1>2. UpperPart(x) = S(x.h) * W + x.m
  BY DEF UpperPart
<1>3. accumulatorSaturate(x, TRUE, Lowest, Highest) = U(sclamp(UpperPart(x)))
  BY LaneFacts, SaturatedMiddle, <1>2 DEF accumulatorSaturate
<1>4. \/ S(x.h) <= -2 /\ S(x.h) * W <= -(2 * W)
      \/ S(x.h) = -1 /\ S(x.h) * W = -W /\ x.h = Ones
      \/ S(x.h) = 0 /\ S(x.h) * W = 0 /\ x.h = 0
      \/ S(x.h) >= 1 /\ S(x.h) * W >= W
  <2>1. CASE S(x.h) <= -2
      <3>1. (S(x.h) + 1) * W <= -W
          BY <1>1, <2>1, Multiples
      <3>. QED BY <3>1, <2>1, <1>1
  <2>2. CASE S(x.h) = -1
      BY <2>2, <1>1
  <2>3. CASE S(x.h) = 0
      BY <2>3, <1>1
  <2>4. CASE S(x.h) >= 1
      BY <2>4, <1>1, Multiples
  <2>. QED BY <2>1, <2>2, <2>3, <2>4, <1>1
<1>5. S(x.h) * W \in Int
  BY <1>1
<1>. DEFINE k == S(x.h) * W
<1>6. k \in Int /\ UpperPart(x) = k + x.m
      /\ \/ S(x.h) <= -2 /\ k <= -(2 * W)
         \/ S(x.h) = -1 /\ k = -W /\ x.h = Ones
         \/ S(x.h) = 0 /\ k = 0 /\ x.h = 0
         \/ S(x.h) >= 1 /\ k >= W
  BY <1>2, <1>4, <1>5
<1>. HIDE DEF k
<1>7. accumulatorSaturate(x, FALSE, 0, Ones)
          = IF UpperPart(x) < -Lowest THEN 0 ELSE IF UpperPart(x) >= Lowest THEN Ones ELSE x.l
  BY <1>1, <1>6 DEF accumulatorSaturate
<1>8. /\ S(x.h) < 0 <=> UpperPart(x) < 0
      /\ UpperPart(x) >= 0 => ((S(x.h) # 0 \/ S(x.m) < 0) <=> UpperPart(x) >= Lowest)
      /\ UpperPart(x) >= 0 /\ UpperPart(x) < Lowest => x.m = UpperPart(x)
  BY <1>1, <1>6
<1>. QED BY <1>3, <1>7, <1>8

(* An instruction may change vd without changing the accumulator.          *)
LEMMA VdFacts ==
    ASSUME NEW y \in Lane, NEW v \in Number, NEW z, z = [y EXCEPT !.vd = v]
    PROVE  /\ z \in Lane /\ z.vd = v /\ Signed(z) = Signed(y) /\ UpperPart(z) = UpperPart(y)
           /\ z.h = y.h /\ z.m = y.m /\ z.l = y.l
<1>1. z \in Lane /\ z.vd = v /\ z.h = y.h /\ z.m = y.m /\ z.l = y.l
  BY DEF Lane
<1>. QED BY <1>1, Zenon DEF Signed, UpperPart

(* The two saturations.                                                    *)
LowSaturated(n, l) == IF n < -Lowest THEN 0 ELSE IF n >= Lowest THEN Ones ELSE l

(* The signed saturation gives the clamped upper part.                     *)
LEMMA SignedMiddleFacts ==
    ASSUME NEW y \in Lane
    PROVE  /\ SignedMiddle(y) \in Lane /\ Signed(SignedMiddle(y)) = Signed(y)
           /\ SignedMiddle(y).vd \in Number
           /\ S(SignedMiddle(y).vd) = sclamp(Signed(y) \div W)
<1>1. UpperPart(y) \in Int /\ Signed(y) \div W = UpperPart(y)
  BY SignedFacts
<1>2. /\ accumulatorSaturate(y, TRUE, Lowest, Highest) = U(sclamp(UpperPart(y)))
      /\ U(sclamp(UpperPart(y))) \in Number
      /\ S(U(sclamp(UpperPart(y)))) = sclamp(UpperPart(y))
  BY Saturations, ClampFacts, <1>1
<1>3. SignedMiddle(y) = [y EXCEPT !.vd = U(sclamp(UpperPart(y)))]
  BY <1>2, Zenon DEF SignedMiddle
<1>. QED BY <1>1, <1>2, <1>3, VdFacts

(* The unsigned one gives the low element, or an end when the number does  *)
(* not fit.                                                                *)
LEMMA UnsignedLowFacts ==
    ASSUME NEW y \in Lane
    PROVE  /\ UnsignedLow(y) \in Lane /\ Signed(UnsignedLow(y)) = Signed(y)
           /\ UnsignedLow(y).vd = LowSaturated(Signed(y) \div W, Signed(y) % W)
           /\ UnsignedLow(y).vd \in Number
<1>1. UpperPart(y) \in Int /\ Signed(y) \in Int /\ Signed(y) \div W = UpperPart(y)
      /\ Signed(y) = UpperPart(y) * W + y.l
  BY SignedFacts
<1>2. W \in Nat /\ W >= 1 /\ y.l \in 0 .. W - 1 /\ y.l \in Number /\ Ones \in Number /\ 0 \in Number
  BY WidthFacts, LaneFacts, SetFacts DEF Number
<1>3. Signed(y) % W = y.l
  BY <1>1, <1>2, DivModUnique
<1>4. /\ accumulatorSaturate(y, FALSE, 0, Ones) = LowSaturated(UpperPart(y), y.l)
      /\ LowSaturated(UpperPart(y), y.l) \in Number
  BY Saturations, <1>2 DEF LowSaturated
<1>5. UnsignedLow(y) = [y EXCEPT !.vd = LowSaturated(UpperPart(y), y.l)]
  BY <1>4, Zenon DEF UnsignedLow
<1>. QED BY <1>1, <1>3, <1>4, <1>5, VdFacts

(* The operands of a multiplication of wide numbers.                       *)
LEMMA TwoByTwo ==
    ASSUME NEW a \in Int, NEW b \in Int, NEW l \in Int, NEW k \in Int, NEW w \in Int
    PROVE  (a * w + l) * (b * w + k) = (a * k + l * b + a * b * w) * w + l * k
OBVIOUS

(* The partial sums of the four products fit in the accumulator, and the   *)
(* last is the product of the wide numbers without its lowest element.     *)
LEMMA ProductTerms ==
    ASSUME NEW h \in Number, NEW l \in Number, NEW g \in Number, NEW k \in Number
    PROVE  LET small == (l * k) \div W
               one == small + S(h) * k
               two == one + l * S(g)
               three == two + S(h) * S(g) * W
           IN  /\ small \in Int /\ -Limit <= small /\ small < Limit
               /\ one \in Int /\ -Limit <= one /\ one < Limit
               /\ two \in Int /\ -Limit <= two /\ two < Limit
               /\ three \in Int /\ -Limit <= three /\ three < Limit
               /\ ((S(h) * W + l) * (S(g) * W + k)) \div W = three
<1>. DEFINE a == S(h)
            b == S(g)
            small == (l * k) \div W
            p == a * k
            q == l * b
            r == a * b
            rest == (l * k) % W
<1>1. /\ Lowest \in Nat /\ Lowest >= 2 /\ W \in Nat /\ W = 2 * Lowest /\ W >= 1
      /\ a \in Int /\ -Lowest <= a /\ a < Lowest /\ b \in Int /\ -Lowest <= b /\ b < Lowest
      /\ l \in 0 .. W - 1 /\ k \in 0 .. W - 1
  BY WidthFacts, SFacts DEF Number
<1>. HIDE DEF a, b
<1>2. l * k \in Nat /\ l * k <= (W - 1) * (W - 1) /\ (W - 1) * (W - 1) < (W - 1) * W
  <2>1. (W - 1) * W = (W - 1) * (W - 1) + (W - 1) /\ W - 1 \in Nat
      BY <1>1
  <2>. QED BY <1>1, <2>1, ProductMonotonic
<1>3. small \in Int /\ 0 <= small /\ small <= W - 2 /\ rest \in 0 .. W - 1 /\ l * k = small * W + rest
  <2>0. l * k \in Int
      BY <1>2
  <2>1. small \in Int /\ rest \in 0 .. W - 1 /\ l * k = small * W + rest
      BY <1>1, <2>0, DivMod, Zenon
  <2>2. 0 * W <= l * k /\ l * k < (W - 1) * W /\ W - 1 \in Int /\ l * k \in Int
      BY <1>1, <1>2
  <2>3. 0 <= small /\ small < W - 1
      BY <2>2, QuotientBounds
  <2>. QED BY <2>1, <2>3, <1>1
<1>4. /\ p \in Int /\ p <= (Lowest - 1) * (W - 1) /\ -(Lowest * (W - 1)) <= p
      /\ b * l \in Int /\ b * l <= (Lowest - 1) * (W - 1) /\ -(Lowest * (W - 1)) <= b * l
  BY <1>1, MixedProducts DEF Number
<1>5. r \in Int /\ r <= Lowest * Lowest /\ Lowest - Lowest * Lowest <= r
  BY <1>1, SignedProducts
<1>6. q = b * l
  BY <1>1
<1>7. ((a * W + l) * (b * W + k)) \div W = small + p + q + r * W
  <2>1. (a * W + l) * (b * W + k) = (p + q + r * W) * W + l * k
      BY <1>1, TwoByTwo
  <2>. HIDE DEF p, q, r, small, rest
  <2>2. p \in Int /\ q \in Int /\ r * W \in Int /\ p + q + r * W \in Int
      BY <1>1, <1>4, <1>5, <1>6
  <2>. DEFINE z == p + q + r * W
  <2>3. z \in Int /\ (a * W + l) * (b * W + k) = z * W + l * k
      BY <2>1, <2>2
  <2>. HIDE DEF z
  <2>4. (small + z) * W = small * W + z * W /\ z * W \in Int /\ small * W \in Int
      BY <2>3, <1>1, <1>3
  <2>5. (a * W + l) * (b * W + k) = (small + z) * W + rest
      BY <2>3, <2>4, <1>3
  <2>6. (a * W + l) * (b * W + k) \in Int /\ small + z \in Int
      BY <2>3, <1>1, <1>3
  <2>7. ((a * W + l) * (b * W + k)) \div W = small + z
      BY <2>5, <2>6, <1>1, <1>3, DivModUnique
  <2>. QED BY <2>2, <2>7, <1>3 DEF z
<1>. DEFINE sq == Lowest * Lowest
<1>8. /\ sq \in Nat /\ sq >= 2 * Lowest
      /\ Lowest * (W - 1) = 2 * sq - Lowest /\ (Lowest - 1) * (W - 1) = 2 * sq - 3 * Lowest + 1
  <2>1. sq = 2 * Lowest + Lowest * (Lowest - 2) /\ Lowest * (Lowest - 2) \in Nat
      BY <1>1
  <2>2. Lowest * (W - 1) = 2 * sq - Lowest
      BY <1>1
  <2>3. (Lowest - 1) * (W - 1) = 2 * sq - 3 * Lowest + 1
      BY <1>1
  <2>. QED BY <2>1, <2>2, <2>3, <1>1
<1>9. /\ r * W \in Int /\ r * W <= sq * W /\ (Lowest - sq) * W <= r * W
      /\ sq * W \in Nat /\ sq * W >= 4 * sq /\ Limit = 2 * (sq * W) /\ (Lowest - sq) * W = 2 * sq - sq * W
  <2>1. (sq - r) * W = sq * W - r * W /\ sq - r \in Nat /\ (sq - r) * W \in Nat /\ r * W \in Int /\ sq * W \in Int
      BY <1>1, <1>5, <1>8
  <2>2. (r - (Lowest - sq)) * W = r * W - (Lowest - sq) * W /\ r - (Lowest - sq) \in Nat
        /\ (r - (Lowest - sq)) * W \in Nat /\ (Lowest - sq) * W \in Int
      BY <1>1, <1>5, <1>8
  <2>3. sq * W = 4 * sq + sq * (W - 4) /\ sq * (W - 4) \in Nat
      <3>1. W - 4 \in Nat /\ sq \in Nat
          BY <1>1, <1>8
      <3>2. sq * (W - 4) \in Nat
          BY <3>1
      <3>3. sq * (W - 4) = sq * W - 4 * sq
          BY <3>1, <1>1
      <3>. QED BY <3>1, <3>2, <3>3, <2>1
  <2>4. Limit = 2 * (sq * W)
      <3>1. Lowest * (W * W) = 2 * ((Lowest * Lowest) * W)
          BY <1>1
      <3>. QED BY <3>1 DEF Limit
  <2>5. (Lowest - sq) * W = 2 * sq - sq * W
      <3>1. (Lowest - Lowest * Lowest) * W = 2 * (Lowest * Lowest) - (Lowest * Lowest) * W
          BY <1>1
      <3>. QED BY <3>1
  <2>. HIDE DEF sq, r
  <2>. QED BY <2>1, <2>2, <2>3, <2>4, <2>5, <1>8, <1>1
<1>. HIDE DEF p, q, r, small, rest, sq
<1>. DEFINE big == sq * W
            rw == r * W
<1>10. /\ big \in Int /\ rw \in Int /\ sq \in Int /\ Limit = 2 * big /\ big >= 4 * sq /\ sq >= 2 * Lowest
       /\ rw <= big /\ 2 * sq - big <= rw /\ p \in Int /\ q \in Int
       /\ p <= 2 * sq - 3 * Lowest + 1 /\ -(2 * sq - Lowest) <= p
       /\ q <= 2 * sq - 3 * Lowest + 1 /\ -(2 * sq - Lowest) <= q
       /\ small \in Int /\ 0 <= small /\ small <= 2 * Lowest - 2
  BY <1>1, <1>3, <1>4, <1>6, <1>8, <1>9
<1>. HIDE DEF big, rw
<1>11. /\ small \in Int /\ -Limit <= small /\ small < Limit
       /\ small + p \in Int /\ -Limit <= small + p /\ small + p < Limit
       /\ small + p + q \in Int /\ -Limit <= small + p + q /\ small + p + q < Limit
       /\ small + p + q + rw \in Int /\ -Limit <= small + p + q + rw /\ small + p + q + rw < Limit
  BY <1>1, <1>10
<1>. QED BY <1>7, <1>11, Zenon DEF rw, p, q, r, small, a, b

(* The elements that VMADH and VMADN keep of the accumulator are its       *)
(* number, clamped to two elements.                                        *)
LEMMA ClampedPair ==
    ASSUME NEW v \in Int
    PROVE  sclamp(v \div W) * W + LowSaturated(v \div W, v % W) = Clip(Least, v, Greatest)
<1>. DEFINE u == v \div W
            c == v % W
<1>1. Lowest \in Nat /\ Lowest >= 2 /\ W \in Nat /\ W = 2 * Lowest /\ W >= 1
      /\ Ones = W - 1 /\ Highest = Lowest - 1
  BY WidthFacts DEF Ones, Highest
<1>2. u \in Int /\ c \in 0 .. W - 1 /\ v = u * W + c
  BY <1>1, DivMod
<1>3. (W * W) \div 2 = Lowest * W
  <2>1. W * W = (Lowest * W) * 2 + 0 /\ W * W \in Int /\ Lowest * W \in Int /\ 0 \in 0 .. 2 - 1
      BY <1>1
  <2>. QED BY <2>1, DivModUnique
<1>4. Least = -(Lowest * W) /\ Greatest = Lowest * W - 1 /\ Lowest * W \in Int
  BY <1>1, <1>3 DEF Least, Greatest
<1>. HIDE DEF u, c
<1>5. CASE u < -Lowest
  <2>1. (u + Lowest) * W <= -W /\ (u + Lowest) * W = u * W + Lowest * W
      BY <1>1, <1>2, <1>5, Multiples
  <2>2. v < Least
      BY <2>1, <1>1, <1>2, <1>4
  <2>3. sclamp(u) = -Lowest /\ LowSaturated(u, c) = 0
      BY <1>5, <1>1, <1>2 DEF sclamp, LowSaturated
  <2>4. (-Lowest) * W + 0 = -(Lowest * W)
      BY <1>1
  <2>. QED BY <2>2, <2>3, <2>4, <1>4 DEF Clip, u, c
<1>6. CASE u >= Lowest
  <2>1. (u - Lowest) * W \in Nat /\ (u - Lowest) * W = u * W - Lowest * W /\ u * W \in Int
      BY <1>1, <1>2, <1>6
  <2>2. v > Greatest /\ ~(v < Least)
      BY <2>1, <1>1, <1>2, <1>4
  <2>3. sclamp(u) = Highest /\ LowSaturated(u, c) = Ones
      BY <1>6, <1>1, <1>2 DEF sclamp, LowSaturated
  <2>4. Highest * W + Ones = Lowest * W - 1
      BY <1>1
  <2>. QED BY <2>2, <2>3, <2>4, <1>4 DEF Clip, u, c
<1>7. CASE -Lowest <= u /\ u < Lowest
  <2>1. /\ (Lowest - 1 - u) * W \in Nat /\ (Lowest - 1 - u) * W = Lowest * W - W - u * W /\ u * W \in Int
        /\ (u + Lowest) * W \in Nat /\ (u + Lowest) * W = u * W + Lowest * W
      <3>1. Lowest - 1 - u \in Nat /\ u + Lowest \in Nat
          BY <1>1, <1>2, <1>7
      <3>2. (Lowest - 1 - u) * W \in Nat /\ (u + Lowest) * W \in Nat
          BY <3>1, <1>1
      <3>3. (Lowest - 1 - u) * W = Lowest * W - W - u * W /\ (u + Lowest) * W = u * W + Lowest * W
          BY <1>1, <1>2
      <3>. QED BY <3>2, <3>3, <1>1, <1>2
  <2>2. ~(v > Greatest) /\ ~(v < Least)
      BY <2>1, <1>1, <1>2, <1>4
  <2>3. sclamp(u) = u /\ LowSaturated(u, c) = c
      BY <1>7, <1>1, <1>2 DEF sclamp, LowSaturated
  <2>. QED BY <2>2, <2>3, <1>2 DEF Clip, u, c
<1>. QED BY <1>1, <1>2, <1>5, <1>6, <1>7

-----------------------------------------------------------------------------
(* The steps of a sequence: which instruction runs at which one, and that  *)
(* what it leaves is a lane again.                                         *)

(* One instruction of a sequence.                                          *)
Executes(op, s, t, to) ==
    /\ slice' = interpreterVU(op, slice, s, t)
    /\ results' = [r \in DOMAIN results |-> IF r = to THEN slice'.vd ELSE results[r]]
    /\ steps' = steps + 1
    /\ idiom' = idiom /\ first' = first /\ second' = second

(* The operands are elements, and IdiomTypeOK.                             *)
IdiomTypes ==
    /\ idiom \in Idioms
    /\ first \in [hi : Number, lo : Number] /\ second \in [hi : Number, lo : Number]
    /\ IdiomTypeOK

(* A step executes the instruction that is next.                           *)
LEMMA StepExecutes ==
    ASSUME Step
    PROVE  /\ steps < Len(Program)
           /\ Executes(Program[steps + 1].op, Program[steps + 1].s, Program[steps + 1].t,
                       Program[steps + 1].to)
BY Zenon DEF Step, Executes

(* What the types say, for citing.                                         *)
LEMMA OperandFacts ==
    ASSUME IdiomTypes
    PROVE  /\ first.hi \in Number /\ first.lo \in Number
           /\ second.hi \in Number /\ second.lo \in Number
           /\ slice \in Lane /\ results.hi \in Number /\ results.lo \in Number
           /\ steps \in Nat /\ 0 \in Number
BY SetFacts DEF IdiomTypes, IdiomTypeOK

(* An instruction that leaves a lane keeps the types and stores vd where   *)
(* it was asked to.                                                        *)
LEMMA ExecutesKeeps ==
    ASSUME IdiomTypes, NEW op, NEW s, NEW t, NEW to, Executes(op, s, t, to), steps < 5,
           interpreterVU(op, slice, s, t) \in Lane
    PROVE  /\ IdiomTypes'
           /\ results'.hi = (IF to = "hi" THEN slice'.vd ELSE results.hi)
           /\ results'.lo = (IF to = "lo" THEN slice'.vd ELSE results.lo)
<1>1. slice' \in Lane /\ slice'.vd \in Number
  BY LaneFacts DEF Executes
<1>2. results \in [hi : Number, lo : Number] /\ steps \in 0 .. 5
  BY DEF IdiomTypes, IdiomTypeOK
<1>3. results' = [r \in {"hi", "lo"} |-> IF r = to THEN slice'.vd ELSE results[r]]
  BY <1>2 DEF Executes
<1>4. /\ results'.hi = (IF to = "hi" THEN slice'.vd ELSE results.hi)
      /\ results'.lo = (IF to = "lo" THEN slice'.vd ELSE results.lo)
  BY <1>3
<1>5. results' \in [hi : Number, lo : Number]
  BY <1>1, <1>2, <1>3
<1>6. steps' \in 0 .. 5
  BY <1>2 DEF Executes
<1>. QED BY <1>1, <1>4, <1>5, <1>6 DEF IdiomTypes, IdiomTypeOK, Executes

(* The instruction of each step, sequence by sequence.                     *)
LEMMA SumProgram ==
    ASSUME IdiomTypes, idiom = "sum", Step
    PROVE  \/ steps = 0 /\ Executes("VADDC", first.lo, second.lo, "lo")
           \/ steps = 1 /\ Executes("VADD", first.hi, second.hi, "hi")
<1>1. Program = <<I("VADDC", first.lo, second.lo, "lo"), I("VADD", first.hi, second.hi, "hi")>>
  BY DEF Program
<1>2. steps \in Nat
  BY OperandFacts
<1>. QED BY <1>1, <1>2, StepExecutes DEF I

(* The same for a difference.                                              *)
LEMMA DifferenceProgram ==
    ASSUME IdiomTypes, idiom = "difference", Step
    PROVE  \/ steps = 0 /\ Executes("VSUBC", first.lo, second.lo, "lo")
           \/ steps = 1 /\ Executes("VSUB", first.hi, second.hi, "hi")
<1>1. Program = <<I("VSUBC", first.lo, second.lo, "lo"), I("VSUB", first.hi, second.hi, "hi")>>
  BY DEF Program
<1>2. steps \in Nat
  BY OperandFacts
<1>. QED BY <1>1, <1>2, StepExecutes DEF I

(* For a product.                                                          *)
LEMMA ProductProgram ==
    ASSUME IdiomTypes, idiom = "product", Step
    PROVE  \/ steps = 0 /\ Executes("VMUDL", first.lo, second.lo, "none")
           \/ steps = 1 /\ Executes("VMADM", first.hi, second.lo, "none")
           \/ steps = 2 /\ Executes("VMADN", first.lo, second.hi, "none")
           \/ steps = 3 /\ Executes("VMADH", first.hi, second.hi, "hi")
           \/ steps = 4 /\ Executes("VMADN", 0, 0, "lo")
<1>1. Program = <<I("VMUDL", first.lo, second.lo, "none"), I("VMADM", first.hi, second.lo, "none"),
             I("VMADN", first.lo, second.hi, "none"), I("VMADH", first.hi, second.hi, "hi"),
             I("VMADN", 0, 0, "lo")>>
  BY DEF Program
<1>2. steps \in Nat
  BY OperandFacts
<1>. QED BY <1>1, <1>2, StepExecutes DEF I

(* For the comparisons, which differ in one instruction.                   *)
LEMMA ComparisonProgram ==
    ASSUME IdiomTypes, idiom \in {"less", "greater", "equal", "unequal"}, Step
    PROVE  \/ steps = 0 /\ Executes("VSUBC", first.lo, second.lo, "none")
           \/ steps = 1 /\ idiom = "less" /\ Executes("VLT", first.hi, second.hi, "hi")
           \/ steps = 1 /\ idiom = "greater" /\ Executes("VGE", first.hi, second.hi, "hi")
           \/ steps = 1 /\ idiom = "equal" /\ Executes("VEQ", first.hi, second.hi, "hi")
           \/ steps = 1 /\ idiom = "unequal" /\ Executes("VNE", first.hi, second.hi, "hi")
           \/ steps = 2 /\ Executes("VMRG", first.lo, second.lo, "lo")
<1>. DEFINE op == IF idiom = "less" THEN "VLT" ELSE IF idiom = "greater" THEN "VGE"
                  ELSE IF idiom = "equal" THEN "VEQ" ELSE "VNE"
<1>1. Program = <<I("VSUBC", first.lo, second.lo, "none"), I(op, first.hi, second.hi, "hi"),
                  I("VMRG", first.lo, second.lo, "lo")>>
  BY DEF Program, Compare
<1>. HIDE DEF op
<1>2. steps \in Nat
  BY OperandFacts
<1>3. \/ steps = 0 /\ Executes("VSUBC", first.lo, second.lo, "none")
      \/ steps = 1 /\ Executes(op, first.hi, second.hi, "hi")
      \/ steps = 2 /\ Executes("VMRG", first.lo, second.lo, "lo")
  BY <1>1, <1>2, StepExecutes DEF I
<1>. QED BY <1>3 DEF op

(* For VCH and VCL.                                                        *)
LEMMA ClipProgram ==
    ASSUME IdiomTypes, idiom = "clip", Step
    PROVE  \/ steps = 0 /\ Executes("VCH", first.hi, second.hi, "hi")
           \/ steps = 1 /\ Executes("VCL", first.lo, second.lo, "lo")
<1>1. Program = <<I("VCH", first.hi, second.hi, "hi"), I("VCL", first.lo, second.lo, "lo")>>
  BY DEF Program
<1>2. steps \in Nat
  BY OperandFacts
<1>. QED BY <1>1, <1>2, StepExecutes DEF I

(* For VCR.                                                                *)
LEMMA BoundProgram ==
    ASSUME IdiomTypes, idiom = "bound", Step
    PROVE  steps = 0 /\ Executes("VCR", first.hi, second.hi, "hi")
<1>1. Program = <<I("VCR", first.hi, second.hi, "hi")>>
  BY DEF Program
<1>2. steps \in Nat
  BY OperandFacts
<1>. QED BY <1>1, <1>2, StepExecutes DEF I

(* For a dot product.                                                      *)
LEMMA DotProgram ==
    ASSUME IdiomTypes, idiom = "dot", Step
    PROVE  \/ steps = 0 /\ Executes("VMULF", first.hi, second.hi, "none")
           \/ steps = 1 /\ Executes("VMACF", first.lo, second.lo, "lo")
           \/ steps = 2 /\ Executes("VSAR", 8, 0, "hi")
<1>1. Program = <<I("VMULF", first.hi, second.hi, "none"), I("VMACF", first.lo, second.lo, "lo"),
                  I("VSAR", 8, 0, "hi")>>
  BY DEF Program
<1>2. steps \in Nat
  BY OperandFacts
<1>. QED BY <1>1, <1>2, StepExecutes DEF I

(* For an unsigned one.                                                    *)
LEMMA UnsignedDotProgram ==
    ASSUME IdiomTypes, idiom = "unsigned", Step
    PROVE  \/ steps = 0 /\ Executes("VMULU", first.hi, second.hi, "none")
           \/ steps = 1 /\ Executes("VMACU", first.lo, second.lo, "lo")
<1>1. Program = <<I("VMULU", first.hi, second.hi, "none"), I("VMACU", first.lo, second.lo, "lo")>>
  BY DEF Program
<1>2. steps \in Nat
  BY OperandFacts
<1>. QED BY <1>1, <1>2, StepExecutes DEF I

(* For a rounding.                                                         *)
LEMMA RoundProgram ==
    ASSUME IdiomTypes, idiom = "round", Step
    PROVE  \/ steps = 0 /\ Executes("VMULF", first.hi, second.hi, "none")
           \/ steps = 1 /\ Executes("VRNDP", 0, first.lo, "none")
           \/ steps = 2 /\ Executes("VRNDN", 0, second.lo, "lo")
<1>1. Program = <<I("VMULF", first.hi, second.hi, "none"), I("VRNDP", 0, first.lo, "none"),
                  I("VRNDN", 0, second.lo, "lo")>>
  BY DEF Program
<1>2. steps \in Nat
  BY OperandFacts
<1>. QED BY <1>1, <1>2, StepExecutes DEF I

-----------------------------------------------------------------------------
(* Sums and differences.                                                   *)

(* Two elements are added with a carry, or subtracted with a borrow.       *)
LEMMA ElementSums ==
    ASSUME NEW a \in Int, NEW l \in Number, NEW b \in Int, NEW k \in Number
    PROVE  /\ ((a * W + l) + (b * W + k)) \div W = a + b + (IF l + k >= W THEN 1 ELSE 0)
           /\ U((a * W + l) + (b * W + k)) = U(l + k)
           /\ ((a * W + l) - (b * W + k)) \div W = a - b - (IF l < k THEN 1 ELSE 0)
           /\ U((a * W + l) - (b * W + k)) = U(l - k)
<1>1. W \in Nat /\ W >= 1 /\ l \in 0 .. W - 1 /\ k \in 0 .. W - 1
  BY WidthFacts DEF Number
<1>. DEFINE c == IF l + k >= W THEN 1 ELSE 0
            d == IF l < k THEN 1 ELSE 0
            e == IF l + k >= W THEN l + k - W ELSE l + k
            f == IF l < k THEN l - k + W ELSE l - k
            v == (a * W + l) + (b * W + k)
            w == (a * W + l) - (b * W + k)
<1>2. v \in Int /\ w \in Int /\ v = (l + k) + (a + b) * W /\ w = (l - k) + (a - b) * W
  BY <1>1
<1>3. /\ c \in Int /\ d \in Int /\ e \in 0 .. W - 1 /\ f \in 0 .. W - 1
      /\ l + k = c * W + e /\ l - k = (-d) * W + f
  BY <1>1
<1>. HIDE DEF c, d, e, f, v, w
<1>4. v = (a + b + c) * W + e /\ w = (a - b - d) * W + f
  BY <1>1, <1>2, <1>3
<1>5. a + b + c \in Int /\ a - b - d \in Int
  BY <1>3
<1>6. v \div W = a + b + c
  BY <1>1, <1>2, <1>3, <1>4, <1>5, DivModUnique
<1>7. w \div W = a - b - d
  BY <1>1, <1>2, <1>3, <1>4, <1>5, DivModUnique
<1>8. U(v) = U(l + k) /\ U(w) = U(l - k)
  <2>1. l + k \in Int /\ l - k \in Int /\ a + b \in Int /\ a - b \in Int
      BY <1>1
  <2>2. U((l + k) + (a + b) * W) = U(l + k) /\ U((l - k) + (a - b) * W) = U(l - k)
      BY <2>1, UShift
  <2>. QED BY <1>2, <2>2
<1>. QED BY <1>6, <1>7, <1>8 DEF v, w, c, d

(* The number that a sum or a difference computes, its low element before  *)
(* it is cut to its width, and whether it carries.                         *)
Exact == IF idiom = "sum" THEN Value(first) + Value(second) ELSE Value(first) - Value(second)
LowExact == IF idiom = "sum" THEN first.lo + second.lo ELSE first.lo - second.lo
Carried == IF idiom = "sum" THEN set(first.lo + second.lo >= W) ELSE set(first.lo < second.lo)

(* After the first instruction the low element and the carry are those of  *)
(* the exact number; after the second, the high one too.                   *)
SumInv ==
    idiom \in {"sum", "difference"} =>
        /\ steps <= 2
        /\ steps >= 1 => results.lo = U(LowExact)
        /\ steps = 1 => slice.vcol = Carried
        /\ steps = 2 => /\ S(results.hi) = sclamp(Exact \div W)
                        /\ slice.vcol = 0 /\ slice.vcoh = 0

(* What the instructions leave.                                            *)
LEMMA CarryEffects ==
    ASSUME NEW x \in Lane, NEW s \in Number, NEW t \in Number
    PROVE  /\ VADDC(x, s, t).vd = U(s + t) /\ VADDC(x, s, t).vcol = set(s + t >= W)
           /\ VSUBC(x, s, t).vd = U(s - t) /\ VSUBC(x, s, t).vcol = set(s < t)
           /\ VSUBC(x, s, t).vcoh = set(s # t)
BY SetFacts DEF VADDC, VSUBC, Copied, Lane

(* A flag as a number.                                                     *)
LEMMA BitOfSet == \A v : Bit(set(v)) = (IF v THEN 1 ELSE 0)
BY SetFacts DEF Bit, get

(* The second adds the flag that it finds, and clears it.                  *)
LEMMA SumEffects ==
    ASSUME NEW x \in Lane, NEW s \in Number, NEW t \in Number
    PROVE  /\ S(VADD(x, s, t).vd) = sclamp(S(s) + S(t) + Bit(x.vcol))
           /\ S(VSUB(x, s, t).vd) = sclamp(S(s) - S(t) - Bit(x.vcol))
           /\ VADD(x, s, t).vcol = 0 /\ VADD(x, s, t).vcoh = 0
           /\ VSUB(x, s, t).vcol = 0 /\ VSUB(x, s, t).vcoh = 0
<1>1. S(s) + S(t) + Bit(x.vcol) \in Int /\ S(s) - S(t) - Bit(x.vcol) \in Int
  BY SFacts DEF Bit
<1>2. ASSUME NEW n \in Int
      PROVE  S(Sum(x, n).vd) = sclamp(n) /\ Sum(x, n).vcol = 0 /\ Sum(x, n).vcoh = 0
  <2>1. /\ Sum(x, n).vd = U(sclamp(n)) /\ Sum(x, n).vcol = 0 /\ Sum(x, n).vcoh = 0
      BY DEF Sum, Uncarried, Lane
  <2>. QED BY <2>1, ClampFacts
<1>. QED BY <1>1, <1>2, Zenon DEF VADD, VSUB

(* Every instruction that both halves implement leaves a lane.             *)
LEMMA WrittenKeeps ==
    ASSUME IdiomTypes, steps < 5,
           NEW op \in Written, NEW s \in Number, NEW t \in Number, NEW to, Executes(op, s, t, to)
    PROVE  /\ slice' = interpreterVU(op, slice, s, t) /\ slice' \in Lane /\ IdiomTypes'
           /\ results'.hi = (IF to = "hi" THEN slice'.vd ELSE results.hi)
           /\ results'.lo = (IF to = "lo" THEN slice'.vd ELSE results.lo)
<1>1. slice' = interpreterVU(op, slice, s, t)
  BY DEF Executes
<1>2. interpreterVU(op, slice, s, t) \in Lane
  BY OperandFacts, InstructionsAgree
<1>. QED BY <1>1, <1>2, ExecutesKeeps

(* The sequences use these of them.                                        *)
LEMMA WrittenFacts ==
    {"VADDC", "VSUBC", "VADD", "VSUB", "VLT", "VGE", "VEQ", "VNE", "VMRG", "VCH", "VCL", "VCR",
     "VMUDL", "VMADM", "VMADN", "VMADH", "VMULF", "VMACF", "VMULU", "VMACU"} \subseteq Written
BY DEF Written, Instructions

(* Each step of a sum or a difference keeps its clause.                    *)
LEMMA SumStep ==
    ASSUME IdiomTypes, SumInv, idiom \in {"sum", "difference"}, Step
    PROVE  IdiomTypes' /\ SumInv'
<1>1. /\ first.hi \in Number /\ first.lo \in Number /\ second.hi \in Number /\ second.lo \in Number
      /\ slice \in Lane /\ steps \in Nat
  BY OperandFacts
<1>2. first' = first /\ second' = second /\ idiom' = idiom /\ steps' = steps + 1
  BY SumProgram, DifferenceProgram DEF Executes
<1>3. LowExact' = LowExact /\ Carried' = Carried /\ Exact' = Exact
  BY <1>2, Zenon DEF LowExact, Carried, Exact, Value
<1>4. ASSUME steps = 0, IdiomTypes', results'.lo = slice'.vd,
             slice'.vd = U(LowExact), slice'.vcol = Carried
      PROVE  IdiomTypes' /\ SumInv'
  BY <1>1, <1>2, <1>3, <1>4 DEF SumInv
<1>5. CASE idiom = "sum" /\ steps = 0 /\ Executes("VADDC", first.lo, second.lo, "lo")
  <2>1. /\ slice' = interpreterVU("VADDC", slice, first.lo, second.lo)
        /\ IdiomTypes' /\ results'.lo = slice'.vd
      BY <1>1, <1>5, WrittenKeeps, WrittenFacts
  <2>2. slice' = VADDC(slice, first.lo, second.lo)
      BY <2>1 DEF interpreterVU
  <2>3. slice'.vd = U(LowExact) /\ slice'.vcol = Carried
      BY <1>1, <1>5, <2>2, CarryEffects DEF LowExact, Carried
  <2>. QED BY <1>4, <1>5, <2>1, <2>3
<1>6. CASE idiom = "difference" /\ steps = 0 /\ Executes("VSUBC", first.lo, second.lo, "lo")
  <2>1. /\ slice' = interpreterVU("VSUBC", slice, first.lo, second.lo)
        /\ IdiomTypes' /\ results'.lo = slice'.vd
      BY <1>1, <1>6, WrittenKeeps, WrittenFacts
  <2>2. slice' = VSUBC(slice, first.lo, second.lo)
      BY <2>1 DEF interpreterVU
  <2>3. slice'.vd = U(LowExact) /\ slice'.vcol = Carried
      BY <1>1, <1>6, <2>2, CarryEffects DEF LowExact, Carried
  <2>. QED BY <1>4, <1>6, <2>1, <2>3
<1>7. ASSUME steps = 1, IdiomTypes', results'.hi = slice'.vd, results'.lo = results.lo,
             S(slice'.vd) = sclamp(Exact \div W), slice'.vcol = 0, slice'.vcoh = 0
      PROVE  IdiomTypes' /\ SumInv'
  BY <1>1, <1>2, <1>3, <1>7 DEF SumInv
<1>8. ASSUME steps = 1 PROVE slice.vcol = Carried
  BY <1>8, <1>1 DEF SumInv
<1>9. S(first.hi) \in Int /\ S(second.hi) \in Int
  BY <1>1, SFacts
<1>10. CASE idiom = "sum" /\ steps = 1 /\ Executes("VADD", first.hi, second.hi, "hi")
  <2>1. /\ slice' = interpreterVU("VADD", slice, first.hi, second.hi)
        /\ IdiomTypes' /\ results'.hi = slice'.vd /\ results'.lo = results.lo
      BY <1>1, <1>10, WrittenKeeps, WrittenFacts
  <2>2. slice' = VADD(slice, first.hi, second.hi)
      BY <2>1 DEF interpreterVU
  <2>3. Exact \div W = S(first.hi) + S(second.hi) + Bit(Carried)
    <3>1. idiom = "sum"
        BY <1>10
    <3>2. Bit(Carried) = IF first.lo + second.lo >= W THEN 1 ELSE 0
        BY <3>1, BitOfSet, Zenon DEF Carried
    <3>3. Exact = (S(first.hi) * W + first.lo) + (S(second.hi) * W + second.lo)
        BY <3>1, Zenon DEF Exact, Value
    <3>4. ((S(first.hi) * W + first.lo) + (S(second.hi) * W + second.lo)) \div W
              = S(first.hi) + S(second.hi) + (IF first.lo + second.lo >= W THEN 1 ELSE 0)
        BY <1>1, <1>9, ElementSums
    <3>. QED BY <3>2, <3>3, <3>4, Zenon
  <2>4. S(slice'.vd) = sclamp(S(first.hi) + S(second.hi) + Bit(Carried))
        /\ slice'.vcol = 0 /\ slice'.vcoh = 0
      BY <1>1, <1>8, <1>10, <2>2, SumEffects
  <2>. QED BY <1>7, <1>10, <2>1, <2>3, <2>4
<1>11. CASE idiom = "difference" /\ steps = 1 /\ Executes("VSUB", first.hi, second.hi, "hi")
  <2>1. /\ slice' = interpreterVU("VSUB", slice, first.hi, second.hi)
        /\ IdiomTypes' /\ results'.hi = slice'.vd /\ results'.lo = results.lo
      BY <1>1, <1>11, WrittenKeeps, WrittenFacts
  <2>2. slice' = VSUB(slice, first.hi, second.hi)
      BY <2>1 DEF interpreterVU
  <2>3. Exact \div W = S(first.hi) - S(second.hi) - Bit(Carried)
    <3>1. idiom # "sum"
        BY <1>11
    <3>2. Bit(Carried) = IF first.lo < second.lo THEN 1 ELSE 0
        BY <3>1, BitOfSet, Zenon DEF Carried
    <3>3. Exact = (S(first.hi) * W + first.lo) - (S(second.hi) * W + second.lo)
        BY <3>1, Zenon DEF Exact, Value
    <3>4. ((S(first.hi) * W + first.lo) - (S(second.hi) * W + second.lo)) \div W
              = S(first.hi) - S(second.hi) - (IF first.lo < second.lo THEN 1 ELSE 0)
        BY <1>1, <1>9, ElementSums
    <3>. QED BY <3>2, <3>3, <3>4, Zenon
  <2>4. S(slice'.vd) = sclamp(S(first.hi) - S(second.hi) - Bit(Carried))
        /\ slice'.vcol = 0 /\ slice'.vcoh = 0
      BY <1>1, <1>8, <1>11, <2>2, SumEffects
  <2>. QED BY <1>7, <1>11, <2>1, <2>3, <2>4
<1>. QED BY <1>5, <1>6, <1>10, <1>11, SumProgram, DifferenceProgram

(* At its end the clause is what was promised.                             *)
LEMMA SumDone ==
    ASSUME IdiomTypes, SumInv
    PROVE  SumsAreExact
<1>1. /\ first.hi \in Number /\ first.lo \in Number /\ second.hi \in Number /\ second.lo \in Number
  BY OperandFacts
<1>2. U(Exact) = U(LowExact)
  <2>1. S(first.hi) \in Int /\ S(second.hi) \in Int
      BY <1>1, SFacts
  <2>. QED BY <1>1, <2>1, ElementSums, Zenon DEF Exact, LowExact, Value
<1>3. ASSUME idiom \in {"sum", "difference"}, steps = Len(Program)
      PROVE  results.lo = U(Exact) /\ S(results.hi) = sclamp(Exact \div W)
  <2>1. Len(Program) = 2
      BY <1>3 DEF Program
  <2>. QED BY <1>2, <1>3, <2>1 DEF SumInv
<1>. QED BY <1>3, Zenon DEF SumsAreExact, Done, Exact

-----------------------------------------------------------------------------
(* Comparisons.                                                            *)

(* Two-element numbers compare by their high elements, then by the low.    *)
LEMMA WideOrder ==
    ASSUME NEW h \in Number, NEW l \in Number, NEW g \in Number, NEW k \in Number
    PROVE  /\ S(h) * W + l < S(g) * W + k <=> S(h) < S(g) \/ (h = g /\ l < k)
           /\ S(h) * W + l >= S(g) * W + k <=> S(h) > S(g) \/ (h = g /\ l >= k)
<1>. DEFINE a == S(h)
            b == S(g)
            d == (a - b) * W
<1>1. /\ a \in Int /\ b \in Int /\ (a = b <=> h = g)
      /\ W \in Nat /\ W >= 1 /\ l \in 0 .. W - 1 /\ k \in 0 .. W - 1
  BY WidthFacts, SFacts, SignedEqual DEF Number
<1>. HIDE DEF a, b
<1>2. d \in Int /\ d = a * W - b * W /\ a * W \in Int /\ b * W \in Int
      /\ (a - b >= 1 => d >= W) /\ (a - b <= -1 => d <= -W) /\ (a = b => d = 0)
  BY <1>1, Multiples
<1>. HIDE DEF d
<1>. DEFINE u == a * W
            v == b * W
<1>3. u \in Int /\ v \in Int /\ d = u - v
  BY <1>2
<1>. HIDE DEF u, v
<1>4. /\ u + l < v + k <=> a < b \/ (h = g /\ l < k)
      /\ u + l >= v + k <=> a > b \/ (h = g /\ l >= k)
  BY <1>1, <1>2, <1>3
<1>. QED BY <1>4 DEF u, v, a, b

(* A selection by a comparison, its flag, and the carries cleared.         *)
LEMMA SelectFacts ==
    ASSUME NEW x \in Lane, NEW s \in Number, NEW t \in Number, NEW chosen
    PROVE  /\ Select(x, chosen, s, t).vd = (IF chosen THEN s ELSE t)
           /\ Select(x, chosen, s, t).vccl = set(chosen)
           /\ Select(x, chosen, s, t).vcol = 0 /\ Select(x, chosen, s, t).vcoh = 0
BY DEF Select, Uncarried, Copied, Lane

(* A flag is read as it was written.                                       *)
LEMMA GetOfSet == \A c : get(set(c)) <=> c
BY SetFacts DEF get

(* The answer of a comparison, as a flag.                                  *)
Answer ==
    CASE idiom = "less" -> set(Value(first) < Value(second))
      [] idiom = "greater" -> set(Value(first) >= Value(second))
      [] idiom = "equal" -> set(first = second)
      [] idiom = "unequal" -> set(first # second)
Comparisons == {"less", "greater", "equal", "unequal"}

(* VSUBC leaves the order of the low elements in the carries; the          *)
(* comparison turns it into the whole answer, and VMRG obeys it.           *)
ComparisonInv ==
    idiom \in Comparisons =>
        /\ steps <= 3
        /\ steps = 1 => /\ slice.vcol = set(first.lo < second.lo)
                        /\ slice.vcoh = set(first.lo # second.lo)
        /\ steps >= 2 => /\ slice.vccl = Answer
                         /\ results.hi = IF get(Answer) THEN first.hi ELSE second.hi
                         /\ slice.vcol = 0 /\ slice.vcoh = 0
        /\ steps = 3 => results.lo = IF get(Answer) THEN first.lo ELSE second.lo

(* What the three instructions leave.                                      *)
LEMMA CompareEffects ==
    ASSUME NEW x \in Lane, NEW h \in Number, NEW l \in Number, NEW g \in Number, NEW k \in Number,
           x.vcol = set(l < k), x.vcoh = set(l # k)
    PROVE  /\ VLT(x, h, g) = Select(x, S(h) * W + l < S(g) * W + k, h, g)
           /\ VGE(x, h, g) = Select(x, S(h) * W + l >= S(g) * W + k, h, g)
           /\ VEQ(x, h, g) = Select(x, h = g /\ l = k, h, g)
           /\ VNE(x, h, g) = Select(x, ~(h = g /\ l = k), h, g)
<1>1. (get(x.vcol) <=> l < k) /\ (get(x.vcoh) <=> l # k)
  BY SetFacts DEF get
<1>2. l \in Int /\ k \in Int /\ S(h) \in Int /\ S(g) \in Int
  BY SFacts
<1>3. /\ (S(h) < S(g) \/ (h = g /\ get(x.vcol) /\ get(x.vcoh)))
             = (S(h) * W + l < S(g) * W + k)
      /\ (S(h) > S(g) \/ (h = g /\ (~get(x.vcol) \/ ~get(x.vcoh))))
             = (S(h) * W + l >= S(g) * W + k)
      /\ (~get(x.vcoh) /\ h = g) = (h = g /\ l = k)
      /\ (h # g \/ get(x.vcoh)) = (~(h = g /\ l = k))
  BY <1>1, <1>2, WideOrder DEF get
<1>. QED BY <1>3, Zenon DEF VLT, VGE, VEQ, VNE

(* VMRG selects by the flag and leaves it.                                 *)
LEMMA MergeEffects ==
    ASSUME NEW x \in Lane, NEW s \in Number, NEW t \in Number
    PROVE  /\ VMRG(x, s, t).vd = (IF get(x.vccl) THEN s ELSE t)
           /\ VMRG(x, s, t).vccl = x.vccl
           /\ VMRG(x, s, t).vcol = 0 /\ VMRG(x, s, t).vcoh = 0
BY DEF VMRG, Uncarried, Copied, Lane

(* Each step of a comparison keeps its clause.                             *)
LEMMA ComparisonStep ==
    ASSUME IdiomTypes, ComparisonInv, idiom \in Comparisons, Step
    PROVE  IdiomTypes' /\ ComparisonInv'
<1>1. /\ first.hi \in Number /\ first.lo \in Number /\ second.hi \in Number /\ second.lo \in Number
      /\ slice \in Lane /\ steps \in Nat
  BY OperandFacts
<1>2. first' = first /\ second' = second /\ idiom' = idiom /\ steps' = steps + 1
  BY ComparisonProgram DEF Executes, Comparisons
<1>3. Answer' = Answer
  BY <1>2, Zenon DEF Answer, Value
<1>4. CASE steps = 0
  <2>1. Executes("VSUBC", first.lo, second.lo, "none")
      BY <1>4, ComparisonProgram DEF Comparisons
  <2>2. IdiomTypes' /\ slice' = interpreterVU("VSUBC", slice, first.lo, second.lo)
      BY <1>1, <1>4, <2>1, WrittenKeeps, WrittenFacts
  <2>3. slice' = VSUBC(slice, first.lo, second.lo)
      BY <2>2 DEF interpreterVU
  <2>4. slice'.vcol = set(first.lo < second.lo) /\ slice'.vcoh = set(first.lo # second.lo)
      BY <1>1, <2>3, CarryEffects
  <2>5. steps' = 1
      BY <1>2, <1>4
  <2>6. (slice.vcol = set(first.lo < second.lo) /\ slice.vcoh = set(first.lo # second.lo))'
      BY <1>2, <2>4, Zenon
  <2>. QED BY <2>2, <2>5, <2>6 DEF ComparisonInv
<1>. DEFINE Chosen(c) == Select(slice, c, first.hi, second.hi)
<1>5. ASSUME steps = 1, NEW op \in {"VLT", "VGE", "VEQ", "VNE"},
             Executes(op, first.hi, second.hi, "hi"),
             NEW c \in BOOLEAN, Answer = set(c),
             interpreterVU(op, slice, first.hi, second.hi) = Chosen(c)
      PROVE  IdiomTypes' /\ ComparisonInv'
  <2>1. /\ IdiomTypes' /\ slice' = interpreterVU(op, slice, first.hi, second.hi)
        /\ results'.hi = slice'.vd
      BY <1>1, <1>5, WrittenKeeps, WrittenFacts
  <2>2. /\ slice'.vd = (IF c THEN first.hi ELSE second.hi) /\ slice'.vccl = Answer
        /\ slice'.vcol = 0 /\ slice'.vcoh = 0
      BY <1>1, <1>5, <2>1, SelectFacts
  <2>3. get(Answer) <=> c
      BY <1>5, SetFacts DEF get
  <2>4. steps' = 2
      BY <1>2, <1>5
  <2>. QED BY <1>2, <1>3, <2>1, <2>2, <2>3, <2>4 DEF ComparisonInv, get
<1>6. ASSUME steps = 1
      PROVE  /\ VLT(slice, first.hi, second.hi) = Chosen(Value(first) < Value(second))
             /\ VGE(slice, first.hi, second.hi) = Chosen(Value(first) >= Value(second))
             /\ VEQ(slice, first.hi, second.hi) = Chosen(first = second)
             /\ VNE(slice, first.hi, second.hi) = Chosen(first # second)
  <2>1. slice.vcol = set(first.lo < second.lo) /\ slice.vcoh = set(first.lo # second.lo)
      BY <1>6, <1>1 DEF ComparisonInv
  <2>2. (first.hi = second.hi /\ first.lo = second.lo) = (first = second)
      BY DEF IdiomTypes
  <2>3. (~(first.hi = second.hi /\ first.lo = second.lo)) = (first # second)
      BY <2>2
  <2>4. /\ VLT(slice, first.hi, second.hi) = Chosen(Value(first) < Value(second))
        /\ VGE(slice, first.hi, second.hi) = Chosen(Value(first) >= Value(second))
        /\ VEQ(slice, first.hi, second.hi) = Chosen(first.hi = second.hi /\ first.lo = second.lo)
        /\ VNE(slice, first.hi, second.hi) = Chosen(~(first.hi = second.hi /\ first.lo = second.lo))
      BY <1>1, <2>1, CompareEffects DEF Value
  <2>. QED BY <2>2, <2>3, <2>4, Zenon
<1>. HIDE DEF Chosen
<1>7. CASE steps = 1 /\ idiom = "less" /\ Executes("VLT", first.hi, second.hi, "hi")
  <2>1. Answer = set(Value(first) < Value(second)) /\ (Value(first) < Value(second)) \in BOOLEAN
      BY <1>7 DEF Answer
  <2>2. interpreterVU("VLT", slice, first.hi, second.hi) = VLT(slice, first.hi, second.hi)
      BY DEF interpreterVU
  <2>. QED BY <1>5, <1>6, <1>7, <2>1, <2>2
<1>8. CASE steps = 1 /\ idiom = "greater" /\ Executes("VGE", first.hi, second.hi, "hi")
  <2>1. Answer = set(Value(first) >= Value(second)) /\ (Value(first) >= Value(second)) \in BOOLEAN
      BY <1>8 DEF Answer
  <2>2. interpreterVU("VGE", slice, first.hi, second.hi) = VGE(slice, first.hi, second.hi)
      BY DEF interpreterVU
  <2>. QED BY <1>5, <1>6, <1>8, <2>1, <2>2
<1>9. CASE steps = 1 /\ idiom = "equal" /\ Executes("VEQ", first.hi, second.hi, "hi")
  <2>1. Answer = set(first = second) /\ (first = second) \in BOOLEAN
      BY <1>9 DEF Answer
  <2>2. interpreterVU("VEQ", slice, first.hi, second.hi) = VEQ(slice, first.hi, second.hi)
      BY DEF interpreterVU
  <2>. QED BY <1>5, <1>6, <1>9, <2>1, <2>2
<1>10. CASE steps = 1 /\ idiom = "unequal" /\ Executes("VNE", first.hi, second.hi, "hi")
  <2>1. Answer = set(first # second) /\ (first # second) \in BOOLEAN
      BY <1>10 DEF Answer
  <2>2. interpreterVU("VNE", slice, first.hi, second.hi) = VNE(slice, first.hi, second.hi)
      BY DEF interpreterVU
  <2>. QED BY <1>5, <1>6, <1>10, <2>1, <2>2
<1>11. CASE steps = 2 /\ Executes("VMRG", first.lo, second.lo, "lo")
  <2>1. /\ IdiomTypes' /\ slice' = interpreterVU("VMRG", slice, first.lo, second.lo)
        /\ results'.lo = slice'.vd /\ results'.hi = results.hi
      BY <1>1, <1>11, WrittenKeeps, WrittenFacts
  <2>2. slice' = VMRG(slice, first.lo, second.lo)
      BY <2>1 DEF interpreterVU
  <2>3. slice.vccl = Answer /\ results.hi = IF get(Answer) THEN first.hi ELSE second.hi
      BY <1>1, <1>11 DEF ComparisonInv
  <2>4. /\ slice'.vd = (IF get(Answer) THEN first.lo ELSE second.lo) /\ slice'.vccl = Answer
        /\ slice'.vcol = 0 /\ slice'.vcoh = 0
      BY <1>1, <2>2, <2>3, MergeEffects
  <2>5. steps' = 3
      BY <1>2, <1>11
  <2>. QED BY <1>2, <1>3, <2>1, <2>3, <2>4, <2>5 DEF ComparisonInv, get
<1>12. \/ steps = 0
       \/ steps = 1 /\ idiom = "less" /\ Executes("VLT", first.hi, second.hi, "hi")
       \/ steps = 1 /\ idiom = "greater" /\ Executes("VGE", first.hi, second.hi, "hi")
       \/ steps = 1 /\ idiom = "equal" /\ Executes("VEQ", first.hi, second.hi, "hi")
       \/ steps = 1 /\ idiom = "unequal" /\ Executes("VNE", first.hi, second.hi, "hi")
       \/ steps = 2 /\ Executes("VMRG", first.lo, second.lo, "lo")
  BY ComparisonProgram DEF Comparisons
<1>. QED BY <1>4, <1>7, <1>8, <1>9, <1>10, <1>11, <1>12, Zenon

(* At its end the clause is what was promised.                             *)
LEMMA ComparisonDone ==
    ASSUME IdiomTypes, ComparisonInv
    PROVE  ComparisonsAreWide
<1>1. first \in [hi : Number, lo : Number] /\ second \in [hi : Number, lo : Number]
      /\ results \in [hi : Number, lo : Number]
  BY DEF IdiomTypes, IdiomTypeOK
<1>2. ASSUME idiom \in Comparisons, steps = Len(Program)
      PROVE  slice.vccl = Answer /\ results = IF get(Answer) THEN first ELSE second
  <2>1. Len(Program) = 3
      BY <1>2 DEF Program, Compare, Comparisons
  <2>2. /\ slice.vccl = Answer
        /\ results.hi = IF get(Answer) THEN first.hi ELSE second.hi
        /\ results.lo = IF get(Answer) THEN first.lo ELSE second.lo
      BY <1>2, <2>1 DEF ComparisonInv
  <2>. QED BY <1>1, <2>2 DEF get
<1>4. ASSUME Done("less")
      PROVE  /\ get(slice.vccl) = (Value(first) < Value(second))
             /\ results = IF Value(first) < Value(second) THEN first ELSE second
  <2>. DEFINE c == Value(first) < Value(second)
  <2>1. Answer = set(c) /\ c \in BOOLEAN /\ idiom \in Comparisons /\ steps = Len(Program)
      BY <1>4 DEF Answer, Done, Comparisons
  <2>. HIDE DEF c
  <2>2. get(slice.vccl) = c /\ results = IF c THEN first ELSE second
      BY <1>2, GetOfSet, <2>1 DEF get
  <2>. QED BY <2>2, Zenon DEF c
<1>5. ASSUME Done("greater")
      PROVE  /\ get(slice.vccl) = (Value(first) >= Value(second))
             /\ results = IF Value(first) >= Value(second) THEN first ELSE second
  <2>. DEFINE c == Value(first) >= Value(second)
  <2>1. Answer = set(c) /\ c \in BOOLEAN /\ idiom \in Comparisons /\ steps = Len(Program)
      BY <1>5 DEF Answer, Done, Comparisons
  <2>. HIDE DEF c
  <2>2. get(slice.vccl) = c /\ results = IF c THEN first ELSE second
      BY <1>2, GetOfSet, <2>1 DEF get
  <2>. QED BY <2>2, Zenon DEF c
<1>6. ASSUME Done("equal")
      PROVE  get(slice.vccl) = (first = second) /\ results = second
  <2>1. Answer = set(first = second) /\ idiom \in Comparisons /\ steps = Len(Program)
      BY <1>6 DEF Answer, Done, Comparisons
  <2>. QED BY <1>2, GetOfSet, <2>1 DEF get
<1>7. ASSUME Done("unequal")
      PROVE  get(slice.vccl) = (first # second) /\ results = first
  <2>1. Answer = set(first # second) /\ idiom \in Comparisons /\ steps = Len(Program)
      BY <1>7 DEF Answer, Done, Comparisons
  <2>. QED BY <1>2, GetOfSet, <2>1 DEF get
<1>. QED BY <1>4, <1>5, <1>6, <1>7 DEF ComparisonsAreWide

-----------------------------------------------------------------------------
(* Clipping: VCH, VCL and VCR.                                             *)

(* What VCH leaves behind for VCL, when the bound is not negative.         *)
HighClipped(y, hi, h, g) ==
    IF S(h) < 0
    THEN /\ y.vcol = Ones /\ y.vcch = 0
         /\ y.vccl = set(S(h) + S(g) <= 0) /\ y.vce = set(S(h) + S(g) = -1)
         /\ y.vcoh = set(S(h) + S(g) # 0 /\ S(h) + S(g) # -1)
         /\ hi = IF S(h) + S(g) <= 0 THEN U(-S(g)) ELSE h
    ELSE /\ y.vcol = 0 /\ y.vccl = 0 /\ y.vce = 0
         /\ y.vcch = set(S(h) >= S(g)) /\ y.vcoh = set(S(h) # S(g))
         /\ hi = IF S(h) >= S(g) THEN g ELSE h

(* VCH leaves that.                                                        *)
LEMMA HighClips ==
    ASSUME NEW x \in Lane, NEW h \in Number, NEW g \in Number, S(g) >= 0
    PROVE  HighClipped(VCH(x, h, g), VCH(x, h, g).vd, h, g)
<1>. DEFINE y == VCH(x, h, g)
<1>1. /\ Lowest \in Nat /\ S(h) \in Int /\ S(g) \in Int
      /\ -Lowest <= S(h) /\ S(h) < Lowest /\ S(g) < Lowest
  BY WidthFacts, SFacts
<1>2. h # Invert(g) <=> S(h) # -S(g) - 1
  BY InvertFacts, SignedEqual
<1>3. CASE S(h) < 0
  <2>1. S(U(S(h) + S(g))) = S(h) + S(g)
      BY <1>1, <1>3, USigned
  <2>2. SignsDiffer(h, g)
      BY <1>1, <1>3 DEF SignsDiffer
  <2>. DEFINE v == IF S(h) + S(g) <= 0 THEN U(-S(g)) ELSE h
              c == S(h) + S(g) # 0 /\ h # Invert(g)
  <2>3. y = [Copied(x, v) EXCEPT !.vccl = set(S(h) + S(g) <= 0), !.vcch = set(S(g) < 0),
                                 !.vcol = Ones, !.vce = set(S(h) + S(g) = -1), !.vcoh = set(c)]
      BY <2>1, <2>2, Zenon DEF VCH
  <2>4. set(S(g) < 0) = 0
      BY <1>1 DEF set
  <2>5. set(c) = set(S(h) + S(g) # 0 /\ S(h) + S(g) # -1)
    <3>1. c = (S(h) + S(g) # 0 /\ S(h) + S(g) # -1)
        BY <1>1, <1>2
    <3>. QED BY <3>1, Zenon
  <2>. HIDE DEF y, v, c
  <2>6. /\ y.vcol = Ones /\ y.vcch = 0
        /\ y.vccl = set(S(h) + S(g) <= 0) /\ y.vce = set(S(h) + S(g) = -1)
        /\ y.vcoh = set(c) /\ y.vd = v
      BY <2>3, <2>4 DEF Copied, Lane
  <2>. QED BY <1>3, <2>5, <2>6, Zenon DEF HighClipped, v, y
<1>4. CASE ~(S(h) < 0)
  <2>1. S(U(S(h) - S(g))) = S(h) - S(g)
      BY <1>1, <1>4, USigned
  <2>2. ~SignsDiffer(h, g)
      BY <1>1, <1>4 DEF SignsDiffer
  <2>. DEFINE v == IF S(h) - S(g) >= 0 THEN g ELSE h
              c == S(h) - S(g) # 0 /\ h # Invert(g)
              a == S(h) - S(g) >= 0
  <2>3. y = [Copied(x, v) EXCEPT !.vccl = set(S(g) < 0), !.vcch = set(a),
                                 !.vcol = 0, !.vce = 0, !.vcoh = set(c)]
      BY <2>1, <2>2, Zenon DEF VCH
  <2>4. set(S(g) < 0) = 0
      BY <1>1 DEF set
  <2>5. set(c) = set(S(h) # S(g)) /\ set(a) = set(S(h) >= S(g))
    <3>1. c = (S(h) # S(g)) /\ a = (S(h) >= S(g))
        BY <1>1, <1>2, <1>4
    <3>. QED BY <3>1, Zenon
  <2>6. v = IF S(h) >= S(g) THEN g ELSE h
      BY <1>1
  <2>. HIDE DEF y, v, c, a
  <2>7. /\ y.vcol = 0 /\ y.vccl = 0 /\ y.vce = 0
        /\ y.vcch = set(a) /\ y.vcoh = set(c) /\ y.vd = v
      BY <2>3, <2>4 DEF Copied, Lane
  <2>. QED BY <1>4, <2>5, <2>6, <2>7, Zenon DEF HighClipped, y
<1>. QED BY <1>3, <1>4

(* What VCL does, under either sign.                                       *)
LEMMA LowClips ==
    ASSUME NEW y \in Lane, NEW l \in Number, NEW k \in Number
    PROVE  LET z == VCL(y, l, k)
               le == IF get(y.vcoh) THEN y.vccl ELSE set(BelowMinus(y, l, k))
               ge == IF get(y.vcoh) THEN y.vcch ELSE set(l >= k)
           IN  /\ z.vcol = 0 /\ z.vcoh = 0
               /\ get(y.vcol) => /\ z.vccl = le /\ z.vcch = y.vcch
                                 /\ z.vd = IF get(le) THEN U(-k) ELSE l
               /\ ~get(y.vcol) => /\ z.vcch = ge /\ z.vccl = y.vccl
                                  /\ z.vd = IF get(ge) THEN k ELSE l
<1>. DEFINE le == IF get(y.vcoh) THEN y.vccl ELSE set(BelowMinus(y, l, k))
            ge == IF get(y.vcoh) THEN y.vcch ELSE set(l >= k)
            z == VCL(y, l, k)
            p == IF get(le) THEN U(-k) ELSE l
            q == IF get(ge) THEN k ELSE l
<1>1. z = IF get(y.vcol) THEN [Clipped(Copied(y, p)) EXCEPT !.vccl = le]
                         ELSE [Clipped(Copied(y, q)) EXCEPT !.vcch = ge]
  BY Zenon DEF VCL
<1>. HIDE DEF z, le, ge, p, q
<1>2. CASE get(y.vcol)
  <2>1. z = [Clipped(Copied(y, p)) EXCEPT !.vccl = le]
      BY <1>1, <1>2, Zenon
  <2>2. z.vcol = 0 /\ z.vcoh = 0 /\ z.vccl = le /\ z.vcch = y.vcch /\ z.vd = p
      BY <2>1 DEF Clipped, Uncarried, Copied, Lane
  <2>. QED BY <1>2, <2>2, Zenon DEF z, le, p
<1>3. CASE ~get(y.vcol)
  <2>1. z = [Clipped(Copied(y, q)) EXCEPT !.vcch = ge]
      BY <1>1, <1>3, Zenon
  <2>2. z.vcol = 0 /\ z.vcoh = 0 /\ z.vcch = ge /\ z.vccl = y.vccl /\ z.vd = q
      BY <2>1 DEF Clipped, Uncarried, Copied, Lane
  <2>. QED BY <1>3, <2>2, Zenon DEF z, ge, q
<1>. QED BY <1>2, <1>3, Zenon

(* Where a number of two elements lies between another and its negation,   *)
(* told by the elements.                                                   *)
LEMMA BetweenElements ==
    ASSUME NEW a \in Int, NEW l \in Number, NEW b \in Int, NEW k \in Number, a < 0, b >= 0
    PROVE  LET v == a * W + l
               c == b * W + k
           IN  /\ v < 0 /\ c >= 0
               /\ v <= -c <=> a + b <= -2 \/ (a + b = -1 /\ l + k <= W) \/ (a + b = 0 /\ l + k = 0)
<1>. DEFINE u == a * W
            w == b * W
            d == (a + b) * W
<1>1. W \in Nat /\ W >= 1 /\ l \in 0 .. W - 1 /\ k \in 0 .. W - 1
  BY WidthFacts DEF Number
<1>2. /\ u \in Int /\ w \in Int /\ d \in Int /\ d = u + w /\ u <= -W /\ w >= 0
  BY <1>1, Multiples
<1>3. /\ a + b >= 1 => d >= W
      /\ a + b = 0 => d = 0
      /\ a + b = -1 => d = -W
      /\ a + b <= -2 => d <= -(2 * W)
  <2>1. /\ a + b >= 1 => d >= W
        /\ a + b = 0 => d = 0
        /\ a + b = -1 => d = -W
      BY <1>1, Multiples
  <2>2. ASSUME a + b <= -2 PROVE d <= -(2 * W)
    <3>1. (a + b + 1) * W <= -W /\ (a + b + 1) * W = (a + b) * W + W
        BY <1>1, <2>2, Multiples
    <3>. QED BY <3>1, <1>1, <1>2
  <2>. QED BY <2>1, <2>2
<1>. HIDE DEF u, w, d
<1>4. /\ u + l < 0 /\ w + k >= 0
      /\ u + l <= -(w + k) <=>
             a + b <= -2 \/ (a + b = -1 /\ l + k <= W) \/ (a + b = 0 /\ l + k = 0)
  BY <1>1, <1>2, <1>3
<1>. QED BY <1>4 DEF u, w

(* When the sum of two low elements is zero or does not carry.             *)
LEMMA LowSum ==
    ASSUME NEW l \in Number, NEW k \in Number
    PROVE  /\ (U(l + k) = 0 \/ l + k < W) <=> l + k <= W
           /\ (U(l + k) = 0 /\ l + k < W) <=> l + k = 0
<1>1. W \in Nat /\ W >= 1 /\ l \in 0 .. W - 1 /\ k \in 0 .. W - 1
  BY WidthFacts DEF Number
<1>2. U(l + k) = IF l + k < W THEN l + k ELSE l + k - W
  BY DifferenceFacts
<1>. QED BY <1>1, <1>2

(* VCL after VCH: a negative number.                                       *)
LEMMA ClipsBelow ==
    ASSUME NEW y \in Lane, NEW hi \in Number,
           NEW h \in Number, NEW l \in Number, NEW g \in Number, NEW k \in Number,
           HighClipped(y, hi, h, g), S(g) >= 0, S(h) < 0
    PROVE  LET z == VCL(y, l, k)
               v == S(h) * W + l
               b == S(g) * W + k
           IN  /\ v < 0 /\ b >= 0
               /\ z.vccl = set(v <= -b) /\ z.vcch = 0
               /\ k = 0 => S(hi) * W + z.vd = IF v <= -b THEN -b ELSE v
<1>. DEFINE z == VCL(y, l, k)
            v == S(h) * W + l
            b == S(g) * W + k
            a == S(h)
            c == S(g)
            below == a + c <= -2 \/ (a + c = -1 /\ l + k <= W) \/ (a + c = 0 /\ l + k = 0)
<1>1. /\ a \in Int /\ c \in Int /\ -Lowest <= c /\ c < Lowest /\ -Lowest <= a /\ a < Lowest
      /\ Lowest \in Nat /\ W \in Nat /\ W >= 1 /\ l \in 0 .. W - 1 /\ k \in 0 .. W - 1
  BY SFacts, WidthFacts DEF Number
<1>2. v < 0 /\ b >= 0 /\ (v <= -b <=> below)
  BY <1>1, BetweenElements
<1>3. /\ y.vcol = Ones /\ y.vcch = 0 /\ y.vccl = set(a + c <= 0) /\ y.vce = set(a + c = -1)
      /\ y.vcoh = set(a + c # 0 /\ a + c # -1)
      /\ hi = IF a + c <= 0 THEN U(-c) ELSE h
  BY Zenon DEF HighClipped
<1>4. get(y.vcol) /\ (get(y.vcoh) <=> a + c # 0 /\ a + c # -1) /\ (get(y.vce) <=> a + c = -1)
  BY <1>3, SetFacts DEF get
<1>. DEFINE le == IF get(y.vcoh) THEN y.vccl ELSE set(BelowMinus(y, l, k))
<1>5. z.vccl = le /\ z.vcch = 0 /\ z.vd = IF get(le) THEN U(-k) ELSE l
  BY <1>3, <1>4, LowClips
<1>6. le = set(below)
  <2>1. CASE a + c # 0 /\ a + c # -1
    <3>1. le = y.vccl /\ (below <=> a + c <= 0)
        BY <1>1, <1>4, <2>1
    <3>. QED BY <3>1, <1>3 DEF set
  <2>2. CASE a + c = -1
    <3>1. ~get(y.vcoh) /\ get(y.vce)
        BY <1>4, <2>2
    <3>2. le = set(U(l + k) = 0 \/ l + k < W)
        BY <3>1, Zenon DEF BelowMinus
    <3>3. below <=> l + k <= W
        BY <1>1, <2>2
    <3>. QED BY <3>2, <3>3, LowSum DEF set
  <2>3. CASE a + c = 0
    <3>1. ~get(y.vcoh) /\ ~get(y.vce)
        BY <1>1, <1>4, <2>3
    <3>2. le = set(U(l + k) = 0 /\ l + k < W)
        BY <3>1, Zenon DEF BelowMinus
    <3>3. below <=> l + k = 0
        BY <2>3, <1>1
    <3>. QED BY <3>2, <3>3, LowSum DEF set
  <2>. QED BY <1>1, <2>1, <2>2, <2>3
<1>. HIDE DEF le
<1>7. z.vccl = set(v <= -b)
  BY <1>2, <1>5, <1>6 DEF set
<1>8. ASSUME k = 0 PROVE S(hi) * W + z.vd = IF v <= -b THEN -b ELSE v
  <2>1. get(le) <=> below
    <3>1. below \in BOOLEAN
        BY <1>1
    <3>. HIDE DEF below
    <3>. QED BY <1>6, <3>1, GetOfSet
  <2>2. U(-k) = 0
      BY <1>8, InvertFacts
  <2>3. S(U(-c)) = -c
      BY <1>1, USigned
  <2>4. CASE below
    <3>1. a + c <= 0 /\ z.vd = 0
        BY <1>1, <1>5, <2>1, <2>2, <2>4
    <3>2. S(hi) = -c
        BY <1>3, <2>3, <3>1
    <3>3. (-c) * W + 0 = -(c * W + 0)
        BY <1>1
    <3>. QED BY <1>2, <1>8, <2>4, <3>1, <3>2, <3>3
  <2>5. CASE ~below
    <3>1. (a + c = 0 \/ a + c >= 1) /\ z.vd = l
        BY <1>1, <1>5, <1>8, <2>1, <2>5
    <3>2. S(hi) = a
      <4>1. CASE a + c = 0
          BY <1>1, <1>3, <2>3, <4>1
      <4>2. CASE a + c >= 1
          BY <1>1, <1>3, <4>2
      <4>. QED BY <3>1, <4>1, <4>2
    <3>. QED BY <1>2, <2>5, <3>1, <3>2
  <2>. QED BY <2>4, <2>5
<1>. QED BY <1>2, <1>5, <1>7, <1>8

(* A number that is not negative.                                          *)
LEMMA ClipsAbove ==
    ASSUME NEW y \in Lane, NEW hi \in Number,
           NEW h \in Number, NEW l \in Number, NEW g \in Number, NEW k \in Number,
           HighClipped(y, hi, h, g), S(g) >= 0, S(h) >= 0
    PROVE  LET z == VCL(y, l, k)
               v == S(h) * W + l
               b == S(g) * W + k
           IN  /\ v >= 0 /\ b >= 0
               /\ z.vcch = set(v >= b) /\ z.vccl = 0
               /\ k = 0 => S(hi) * W + z.vd = IF v >= b THEN b ELSE v
<1>. DEFINE z == VCL(y, l, k)
            v == S(h) * W + l
            b == S(g) * W + k
            a == S(h)
            c == S(g)
            above == a > c \/ (h = g /\ l >= k)
<1>1. /\ a \in Int /\ c \in Int /\ W \in Nat /\ W >= 1 /\ l \in 0 .. W - 1 /\ k \in 0 .. W - 1
      /\ (h = g <=> a = c)
  BY SFacts, WidthFacts, SignedEqual DEF Number
<1>2. v \in Int /\ b \in Int /\ v >= 0 /\ b >= 0 /\ (v >= b <=> above)
  <2>1. a * W \in Nat /\ c * W \in Nat
      BY <1>1
  <2>2. v >= b <=> above
      BY WideOrder
  <2>. QED BY <1>1, <2>1, <2>2
<1>3. /\ y.vcol = 0 /\ y.vccl = 0 /\ y.vcch = set(a >= c) /\ y.vcoh = set(a # c)
      /\ hi = IF a >= c THEN g ELSE h
  <2>1. ~(a < 0)
      BY <1>1
  <2>. QED BY <2>1, Zenon DEF HighClipped
<1>4. ~get(y.vcol) /\ (get(y.vcoh) <=> a # c)
  BY <1>3, SetFacts DEF get
<1>. DEFINE ge == IF get(y.vcoh) THEN y.vcch ELSE set(l >= k)
<1>5. z.vcch = ge /\ z.vccl = 0 /\ z.vd = IF get(ge) THEN k ELSE l
  BY <1>3, <1>4, LowClips
<1>6. ge = set(above)
  <2>1. CASE a # c
      BY <1>1, <1>3, <1>4, <2>1 DEF set
  <2>2. CASE a = c
      BY <1>1, <1>4, <2>2 DEF set
  <2>. QED BY <2>1, <2>2
<1>. HIDE DEF ge
<1>7. z.vcch = set(v >= b)
  BY <1>2, <1>5, <1>6 DEF set
<1>8. ASSUME k = 0 PROVE S(hi) * W + z.vd = IF v >= b THEN b ELSE v
  <2>1. get(ge) <=> above
    <3>1. above \in BOOLEAN
        BY <1>1
    <3>. HIDE DEF above
    <3>. QED BY <1>6, <3>1, GetOfSet
  <2>2. CASE above
      BY <1>1, <1>2, <1>3, <1>5, <2>1, <2>2
  <2>3. CASE ~above
      BY <1>1, <1>2, <1>3, <1>5, <1>8, <2>1, <2>3
  <2>. QED BY <2>2, <2>3
<1>. QED BY <1>2, <1>5, <1>7, <1>8

(* Between the two: what VCH leaves; after them: the flags and the value   *)
(* of the whole numbers.                                                   *)
ClipInv ==
    idiom = "clip" =>
        /\ steps <= 2
        /\ steps = 1 /\ Value(second) >= 0 => HighClipped(slice, results.hi, first.hi, second.hi)
        /\ steps = 2 => slice.vcol = 0 /\ slice.vcoh = 0
        /\ steps = 2 /\ Value(second) >= 0 =>
             /\ slice.vccl = set(Value(first) < 0 /\ Value(first) <= -Value(second))
             /\ slice.vcch = set(Value(first) >= Value(second))
             /\ second.lo = 0 => Value(results) = Clip(-Value(second), Value(first), Value(second))

(* A wide number has the sign of its high element.                         *)
LEMMA ValueFacts ==
    ASSUME NEW n \in [hi : Number, lo : Number]
    PROVE  Value(n) \in Int /\ (Value(n) >= 0 <=> S(n.hi) >= 0)
<1>1. W \in Nat /\ W >= 1 /\ n.lo \in 0 .. W - 1 /\ S(n.hi) \in Int
  BY WidthFacts, SFacts DEF Number
<1>2. S(n.hi) * W \in Int /\ (S(n.hi) >= 0 => S(n.hi) * W >= 0) /\ (S(n.hi) <= -1 => S(n.hi) * W <= -W)
  BY <1>1, Multiples
<1>. QED BY <1>1, <1>2 DEF Value

(* Each step of a clipping keeps its clause.                               *)
LEMMA ClipStep ==
    ASSUME IdiomTypes, ClipInv, idiom = "clip", Step
    PROVE  IdiomTypes' /\ ClipInv'
<1>1. /\ first.hi \in Number /\ first.lo \in Number /\ second.hi \in Number /\ second.lo \in Number
      /\ slice \in Lane /\ steps \in Nat /\ results.hi \in Number
  BY OperandFacts
<1>2. first' = first /\ second' = second /\ idiom' = idiom /\ steps' = steps + 1
  BY ClipProgram DEF Executes
<1>3. Value(first)' = Value(first) /\ Value(second)' = Value(second)
  BY <1>2, Zenon DEF Value
<1>4. /\ Value(first) \in Int /\ Value(second) \in Int /\ S(first.hi) \in Int
      /\ (Value(second) >= 0 => S(second.hi) >= 0)
  BY <1>1, ValueFacts, SFacts DEF IdiomTypes
<1>5. CASE steps = 0 /\ Executes("VCH", first.hi, second.hi, "hi")
  <2>1. /\ IdiomTypes' /\ slice' = interpreterVU("VCH", slice, first.hi, second.hi)
        /\ results'.hi = slice'.vd
      BY <1>1, <1>5, WrittenKeeps, WrittenFacts
  <2>2. slice' = VCH(slice, first.hi, second.hi)
      BY <2>1 DEF interpreterVU
  <2>3. Value(second) >= 0 => HighClipped(slice', results'.hi, first.hi, second.hi)
      BY <1>1, <1>4, <2>1, <2>2, HighClips
  <2>4. (Value(second) >= 0 => HighClipped(slice, results.hi, first.hi, second.hi))'
      BY <1>2, <1>3, <2>3, Zenon
  <2>5. steps' = 1
      BY <1>2, <1>5
  <2>. QED BY <2>1, <2>4, <2>5 DEF ClipInv
<1>6. CASE steps = 1 /\ Executes("VCL", first.lo, second.lo, "lo")
  <2>1. /\ IdiomTypes' /\ slice' = interpreterVU("VCL", slice, first.lo, second.lo)
        /\ results'.lo = slice'.vd /\ results'.hi = results.hi
      BY <1>1, <1>6, WrittenKeeps, WrittenFacts
  <2>2. slice' = VCL(slice, first.lo, second.lo)
      BY <2>1 DEF interpreterVU
  <2>3. slice'.vcol = 0 /\ slice'.vcoh = 0
      BY <1>1, <2>2, LowClips
  <2>4. ASSUME Value(second) >= 0
        PROVE  /\ slice'.vccl = set(Value(first) < 0 /\ Value(first) <= -Value(second))
               /\ slice'.vcch = set(Value(first) >= Value(second))
               /\ second.lo = 0 => Value(results)' = Clip(-Value(second), Value(first), Value(second))
    <3>1. HighClipped(slice, results.hi, first.hi, second.hi) /\ S(second.hi) >= 0
        BY <1>4, <1>6, <2>4 DEF ClipInv
    <3>. DEFINE v == Value(first)
                b == Value(second)
                r == Value(results)'
    <3>2. r = S(results.hi) * W + slice'.vd
        BY <2>1, Zenon DEF Value
    <3>3. CASE S(first.hi) < 0
      <4>1. /\ v < 0 /\ b >= 0 /\ slice'.vccl = set(v <= -b) /\ slice'.vcch = 0
            /\ second.lo = 0 => r = IF v <= -b THEN -b ELSE v
        <5>1. /\ v = S(first.hi) * W + first.lo /\ b = S(second.hi) * W + second.lo
              /\ slice' = VCL(slice, first.lo, second.lo)
            BY <2>2 DEF Value
        <5>. HIDE DEF v, b, r
        <5>. QED BY <1>1, <5>1, <3>1, <3>2, <3>3, ClipsBelow
      <4>. HIDE DEF v, b, r
      <4>2. v \in Int /\ b \in Int
          BY <1>4 DEF v, b
      <4>3. /\ slice'.vccl = set(v < 0 /\ v <= -b) /\ slice'.vcch = set(v >= b)
            /\ second.lo = 0 => r = Clip(-b, v, b)
          BY <4>1, <4>2 DEF set, Clip
      <4>. QED BY <4>3, Zenon DEF v, b, r
    <3>4. CASE S(first.hi) >= 0
      <4>1. /\ v >= 0 /\ b >= 0 /\ slice'.vcch = set(v >= b) /\ slice'.vccl = 0
            /\ second.lo = 0 => r = IF v >= b THEN b ELSE v
        <5>1. /\ v = S(first.hi) * W + first.lo /\ b = S(second.hi) * W + second.lo
              /\ slice' = VCL(slice, first.lo, second.lo)
            BY <2>2 DEF Value
        <5>. HIDE DEF v, b, r
        <5>. QED BY <1>1, <5>1, <3>1, <3>2, <3>4, ClipsAbove
      <4>. HIDE DEF v, b, r
      <4>2. v \in Int /\ b \in Int
          BY <1>4 DEF v, b
      <4>3. /\ slice'.vccl = set(v < 0 /\ v <= -b) /\ slice'.vcch = set(v >= b)
            /\ second.lo = 0 => r = Clip(-b, v, b)
          BY <4>1, <4>2 DEF set, Clip
      <4>. QED BY <4>3, Zenon DEF v, b, r
    <3>. QED BY <1>4, <3>3, <3>4
  <2>5. (Value(second) >= 0 =>
             /\ slice.vccl = set(Value(first) < 0 /\ Value(first) <= -Value(second))
             /\ slice.vcch = set(Value(first) >= Value(second))
             /\ second.lo = 0 => Value(results) = Clip(-Value(second), Value(first), Value(second)))'
      BY <1>2, <1>3, <2>4, Zenon
  <2>6. steps' = 2
      BY <1>2, <1>6
  <2>. QED BY <2>1, <2>3, <2>5, <2>6 DEF ClipInv
<1>. QED BY <1>5, <1>6, ClipProgram

(* At its end the clause is what was promised.                             *)
LEMMA ClipDone ==
    ASSUME IdiomTypes, ClipInv
    PROVE  ClipIsWide
<1>1. ASSUME Done("clip"), Value(second) >= 0
      PROVE  /\ get(slice.vccl) = (Value(first) < 0 /\ Value(first) <= -Value(second))
             /\ get(slice.vcch) = (Value(first) >= Value(second))
             /\ second.lo = 0 => Value(results) = Clip(-Value(second), Value(first), Value(second))
  <2>1. idiom = "clip" /\ steps = 2
      BY <1>1 DEF Done, Program
  <2>2. /\ slice.vccl = set(Value(first) < 0 /\ Value(first) <= -Value(second))
        /\ slice.vcch = set(Value(first) >= Value(second))
        /\ second.lo = 0 => Value(results) = Clip(-Value(second), Value(first), Value(second))
      BY <1>1, <2>1 DEF ClipInv
  <2>3. Value(first) \in Int /\ Value(second) \in Int
      BY ValueFacts DEF IdiomTypes
  <2>. DEFINE p == Value(first) < 0 /\ Value(first) <= -Value(second)
              q == Value(first) >= Value(second)
  <2>4. p \in BOOLEAN /\ q \in BOOLEAN
      BY <2>3
  <2>. HIDE DEF p, q
  <2>5. get(slice.vccl) = p /\ get(slice.vcch) = q
      BY <2>2, <2>4, GetOfSet DEF get, p, q
  <2>. QED BY <2>2, <2>5, Zenon DEF p, q
<1>. QED BY <1>1, Zenon DEF ClipIsWide

(* VCR does it in one instruction.                                         *)
BoundInv ==
    idiom = "bound" =>
        /\ steps <= 1
        /\ steps = 1 => slice.vcol = 0 /\ slice.vcoh = 0
        /\ steps = 1 /\ S(second.hi) >= 0 =>
             /\ S(results.hi) = Clip(-S(second.hi) - 1, S(first.hi), S(second.hi))
             /\ slice.vccl = set(S(first.hi) <= -S(second.hi) - 1)
             /\ slice.vcch = set(S(first.hi) >= S(second.hi))

(* VCR clips between the complement of the bound and the bound.            *)
LEMMA BoundEffects ==
    ASSUME NEW x \in Lane, NEW s \in Number, NEW t \in Number
    PROVE  /\ VCR(x, s, t).vcol = 0 /\ VCR(x, s, t).vcoh = 0
           /\ S(t) >= 0 => /\ S(VCR(x, s, t).vd) = Clip(-S(t) - 1, S(s), S(t))
                           /\ VCR(x, s, t).vccl = set(S(s) <= -S(t) - 1)
                           /\ VCR(x, s, t).vcch = set(S(s) >= S(t))
<1>. DEFINE y == VCR(x, s, t)
            a == S(s)
            c == S(t)
            le == a + c + 1 <= 0
            ge == a - c >= 0
            p == IF le THEN Invert(t) ELSE s
            q == IF ge THEN t ELSE s
<1>1. a \in Int /\ c \in Int
  BY SFacts
<1>2. y = IF SignsDiffer(s, t)
          THEN [Clipped(Copied(x, p)) EXCEPT !.vcch = set(c < 0), !.vccl = set(le)]
          ELSE [Clipped(Copied(x, q)) EXCEPT !.vccl = set(c < 0), !.vcch = set(ge)]
  BY Zenon DEF VCR
<1>3. /\ S(p) = IF le THEN -c - 1 ELSE a
      /\ S(q) = IF ge THEN c ELSE a
  BY InvertFacts
<1>. HIDE DEF y, p, q, le, ge
<1>4. y.vcol = 0 /\ y.vcoh = 0
  BY <1>2 DEF Clipped, Uncarried, Copied, Lane
<1>5. ASSUME c >= 0
      PROVE  S(y.vd) = Clip(-c - 1, a, c) /\ y.vccl = set(a <= -c - 1) /\ y.vcch = set(a >= c)
  <2>1. set(c < 0) = 0
      BY <1>1, <1>5 DEF set
  <2>2. CASE a < 0
    <3>1. SignsDiffer(s, t)
        BY <1>1, <1>5, <2>2 DEF SignsDiffer
    <3>2. y.vd = p /\ y.vccl = set(le) /\ y.vcch = 0
        BY <1>2, <2>1, <3>1 DEF Clipped, Uncarried, Copied, Lane
    <3>3. (le <=> a <= -c - 1) /\ ~(a >= c)
        BY <1>1, <1>5, <2>2 DEF le
    <3>4. S(p) = Clip(-c - 1, a, c)
        BY <1>1, <1>3, <3>3 DEF Clip
    <3>5. set(le) = set(a <= -c - 1) /\ set(a >= c) = 0
        BY <1>1, <1>5, <2>2 DEF le, set
    <3>. QED BY <3>2, <3>3, <3>4, <3>5, Zenon
  <2>3. CASE a >= 0
    <3>1. ~SignsDiffer(s, t)
        BY <1>1, <1>5, <2>3 DEF SignsDiffer
    <3>2. y.vd = q /\ y.vcch = set(ge) /\ y.vccl = 0
        BY <1>2, <2>1, <3>1 DEF Clipped, Uncarried, Copied, Lane
    <3>3. (ge <=> a >= c) /\ ~(a <= -c - 1)
        BY <1>1, <1>5, <2>3 DEF ge
    <3>4. S(q) = Clip(-c - 1, a, c)
        BY <1>1, <1>3, <3>3 DEF Clip
    <3>5. set(ge) = set(a >= c) /\ set(a <= -c - 1) = 0
        BY <1>1, <1>5, <2>3 DEF ge, set
    <3>. QED BY <3>2, <3>3, <3>4, <3>5, Zenon
  <2>. QED BY <1>1, <2>2, <2>3
<1>. QED BY <1>4, <1>5 DEF y

(* Its one step establishes its clause.                                    *)
LEMMA BoundStep ==
    ASSUME IdiomTypes, BoundInv, idiom = "bound", Step
    PROVE  IdiomTypes' /\ BoundInv'
<1>1. first.hi \in Number /\ second.hi \in Number /\ slice \in Lane
  BY OperandFacts
<1>2. steps = 0 /\ Executes("VCR", first.hi, second.hi, "hi")
  BY BoundProgram
<1>3. first' = first /\ second' = second /\ idiom' = idiom /\ steps' = 1
  BY <1>2 DEF Executes
<1>4. /\ IdiomTypes' /\ slice' = interpreterVU("VCR", slice, first.hi, second.hi)
      /\ results'.hi = slice'.vd
  BY <1>1, <1>2, WrittenKeeps, WrittenFacts
<1>5. slice' = VCR(slice, first.hi, second.hi)
  BY <1>4 DEF interpreterVU
<1>6. /\ slice'.vcol = 0 /\ slice'.vcoh = 0
      /\ S(second.hi) >= 0 => /\ S(results'.hi) = Clip(-S(second.hi) - 1, S(first.hi), S(second.hi))
                              /\ slice'.vccl = set(S(first.hi) <= -S(second.hi) - 1)
                              /\ slice'.vcch = set(S(first.hi) >= S(second.hi))
  BY <1>1, <1>4, <1>5, BoundEffects
<1>7. (/\ slice.vcol = 0 /\ slice.vcoh = 0
       /\ S(second.hi) >= 0 => /\ S(results.hi) = Clip(-S(second.hi) - 1, S(first.hi), S(second.hi))
                               /\ slice.vccl = set(S(first.hi) <= -S(second.hi) - 1)
                               /\ slice.vcch = set(S(first.hi) >= S(second.hi)))'
  BY <1>3, <1>6, Zenon
<1>. QED BY <1>3, <1>4, <1>7 DEF BoundInv

(* The clause is what was promised.                                        *)
LEMMA BoundDone ==
    ASSUME IdiomTypes, BoundInv
    PROVE  BoundIsClip
<1>1. ASSUME Done("bound"), S(second.hi) >= 0
      PROVE  /\ S(results.hi) = Clip(-S(second.hi) - 1, S(first.hi), S(second.hi))
             /\ get(slice.vccl) = (S(first.hi) <= -S(second.hi) - 1)
             /\ get(slice.vcch) = (S(first.hi) >= S(second.hi))
  <2>1. idiom = "bound" /\ steps = 1
      BY <1>1 DEF Done, Program
  <2>. DEFINE p == S(first.hi) <= -S(second.hi) - 1
              q == S(first.hi) >= S(second.hi)
  <2>2. S(results.hi) = Clip(-S(second.hi) - 1, S(first.hi), S(second.hi))
        /\ slice.vccl = set(p) /\ slice.vcch = set(q)
      BY <1>1, <2>1 DEF BoundInv
  <2>3. p \in BOOLEAN /\ q \in BOOLEAN
      BY OperandFacts, SFacts
  <2>. HIDE DEF p, q
  <2>4. get(slice.vccl) = p /\ get(slice.vcch) = q
      BY <2>2, <2>3, GetOfSet DEF get
  <2>. QED BY <2>2, <2>4, Zenon DEF p, q
<1>. QED BY <1>1, Zenon DEF BoundIsClip

-----------------------------------------------------------------------------
(* Products.                                                               *)

(* The numbers that the accumulator holds.                                 *)
InReach(v) == v \in Int /\ -Limit <= v /\ v < Limit

(* VMUDL sets the accumulator.                                             *)
LEMMA SetEffects ==
    ASSUME NEW x \in Lane, NEW v, InReach(v),
           NEW z, z = [accumulatorSet(x, v) EXCEPT !.vd = accumulatorSet(x, v).l]
    PROVE  Signed(z) = v
<1>1. accumulatorSet(x, v) \in Lane /\ Signed(accumulatorSet(x, v)) = v
  BY SetAccumulator DEF InReach
<1>2. accumulatorSet(x, v).l \in Number
  BY <1>1, LaneFacts
<1>. QED BY <1>1, <1>2, VdFacts

(* VMADM, VMADN and VMACF add to it and saturate.                          *)
LEMMA AddEffects ==
    ASSUME NEW x \in Lane, NEW p \in Int, InReach(Signed(x) + p)
    PROVE  LET y == Accumulate(x, p)
               v == Signed(x) + p
           IN  /\ y \in Lane /\ Signed(y) = v
               /\ Signed(SignedMiddle(y)) = v /\ Signed(UnsignedLow(y)) = v
               /\ S(SignedMiddle(y).vd) = sclamp(v \div W)
               /\ UnsignedLow(y).vd = LowSaturated(v \div W, v % W)
<1>. DEFINE y == Accumulate(x, p)
            v == Signed(x) + p
<1>1. y = accumulatorSet(x, v)
  BY AddAccumulator
<1>2. y \in Lane /\ Signed(y) = v
  BY <1>1, SetAccumulator DEF InReach
<1>. HIDE DEF y, v
<1>3. /\ Signed(SignedMiddle(y)) = v /\ Signed(UnsignedLow(y)) = v
      /\ S(SignedMiddle(y).vd) = sclamp(v \div W)
      /\ UnsignedLow(y).vd = LowSaturated(v \div W, v % W)
  BY <1>2, SignedMiddleFacts, UnsignedLowFacts
<1>. QED BY <1>2, <1>3 DEF y, v

(* VMADH adds to its upper elements.                                       *)
LEMMA AboveEffects ==
    ASSUME NEW x \in Lane, NEW p \in Int, InReach(Signed(x) + p * W)
    PROVE  LET y == Above(x, p)
               v == Signed(x) + p * W
           IN  Signed(SignedMiddle(y)) = v /\ S(SignedMiddle(y).vd) = sclamp(v \div W)
<1>. DEFINE y == Above(x, p)
            v == Signed(x) + p * W
            n == UpperPart(x) + p
            l == x.l
<1>1. /\ W \in Nat /\ W >= 1 /\ Lowest \in Nat /\ l \in 0 .. W - 1
      /\ UpperPart(x) \in Int /\ Signed(x) = UpperPart(x) * W + l /\ n \in Int
  BY WidthFacts, LaneFacts, SignedFacts DEF Number
<1>2. v = n * W + l
  <2>1. (UpperPart(x) + p) * W = UpperPart(x) * W + p * W /\ p * W \in Int /\ UpperPart(x) * W \in Int
      BY <1>1
  <2>. QED BY <1>1, <2>1
<1>. HIDE DEF v, n, l
<1>3. v \in Int /\ (-(Lowest * W)) * W <= v /\ v < (Lowest * W) * W /\ Lowest * W \in Int /\ -(Lowest * W) \in Int
  BY <1>1 DEF InReach, Limit, v
<1>4. v \div W = n
  BY <1>1, <1>2, <1>3, DivModUnique
<1>5. -(Lowest * W) <= n /\ n < Lowest * W
  BY <1>3, <1>4, QuotientBounds
<1>6. y \in Lane /\ Signed(y) = v
  BY <1>5, AddAbove DEF n, v
<1>. HIDE DEF y
<1>7. Signed(SignedMiddle(y)) = v /\ S(SignedMiddle(y).vd) = sclamp(v \div W)
  BY <1>6, SignedMiddleFacts
<1>. QED BY <1>7 DEF y, v

(* The accumulator after each instruction of a product.                    *)
Part1 == (first.lo * second.lo) \div W
Part2 == Part1 + S(first.hi) * second.lo
Part3 == Part2 + first.lo * S(second.hi)
Part4 == Part3 + S(first.hi) * S(second.hi) * W

(* The accumulator holds the partial sums, and the results are its         *)
(* saturated elements.                                                     *)
ProductInv ==
    idiom = "product" =>
        /\ steps <= 5
        /\ steps = 1 => Signed(slice) = Part1
        /\ steps = 2 => Signed(slice) = Part2
        /\ steps = 3 => Signed(slice) = Part3
        /\ steps >= 4 => Signed(slice) = Part4 /\ S(results.hi) = sclamp(Part4 \div W)
        /\ steps = 5 => results.lo = LowSaturated(Part4 \div W, Part4 % W)

(* None of them overflows, and the last is the product.                    *)
LEMMA PartFacts ==
    ASSUME IdiomTypes
    PROVE  /\ InReach(Part1) /\ InReach(Part2) /\ InReach(Part3) /\ InReach(Part4)
           /\ (Value(first) * Value(second)) \div W = Part4
<1>1. /\ first.hi \in Number /\ first.lo \in Number /\ second.hi \in Number /\ second.lo \in Number
  BY OperandFacts
<1>. QED BY <1>1, ProductTerms, Zenon DEF Part1, Part2, Part3, Part4, InReach, Value

(* Each step of a product keeps its clause.                                *)
LEMMA ProductStep ==
    ASSUME IdiomTypes, ProductInv, idiom = "product", Step
    PROVE  IdiomTypes' /\ ProductInv'
<1>1. /\ first.hi \in Number /\ first.lo \in Number /\ second.hi \in Number /\ second.lo \in Number
      /\ slice \in Lane /\ steps \in Nat /\ 0 \in Number
  BY OperandFacts
<1>2. first' = first /\ second' = second /\ idiom' = idiom /\ steps' = steps + 1
  BY ProductProgram DEF Executes
<1>3. Part1' = Part1 /\ Part2' = Part2 /\ Part3' = Part3 /\ Part4' = Part4
  BY <1>2, Zenon DEF Part1, Part2, Part3, Part4
<1>4. /\ S(first.hi) \in Int /\ S(second.hi) \in Int /\ first.lo \in Int /\ second.lo \in Int
      /\ S(first.hi) * second.lo \in Int /\ first.lo * S(second.hi) \in Int
      /\ S(first.hi) * S(second.hi) \in Int
      /\ S(0) = 0
  BY <1>1, SFacts, MaskFacts DEF Mask
<1>5. InReach(Part1) /\ InReach(Part2) /\ InReach(Part3) /\ InReach(Part4)
  BY PartFacts
<1>6. ASSUME steps \in 0 .. 2, IdiomTypes',
             steps = 0 => Signed(slice') = Part1,
             steps = 1 => Signed(slice') = Part2,
             steps = 2 => Signed(slice') = Part3
      PROVE  IdiomTypes' /\ ProductInv'
  <2>1. Signed(slice)' = Signed(slice')
      BY Zenon DEF Signed
  <2>. QED BY <1>1, <1>2, <1>3, <1>6, <2>1 DEF ProductInv
<1>7. CASE steps = 0 /\ Executes("VMUDL", first.lo, second.lo, "none")
  <2>1. IdiomTypes' /\ slice' = interpreterVU("VMUDL", slice, first.lo, second.lo)
      BY <1>1, <1>7, WrittenKeeps, WrittenFacts
  <2>2. slice' = VMUDL(slice, first.lo, second.lo)
      BY <2>1 DEF interpreterVU
  <2>3. slice' = [accumulatorSet(slice, Part1) EXCEPT !.vd = accumulatorSet(slice, Part1).l]
      BY <2>2, Zenon DEF VMUDL, Part1
  <2>4. Signed(slice') = Part1
      BY <1>1, <1>5, <2>3, SetEffects
  <2>. QED BY <1>6, <1>7, <2>1, <2>4
<1>8. CASE steps = 1 /\ Executes("VMADM", first.hi, second.lo, "none")
  <2>1. IdiomTypes' /\ slice' = interpreterVU("VMADM", slice, first.hi, second.lo)
      BY <1>1, <1>8, WrittenKeeps, WrittenFacts
  <2>2. slice' = VMADM(slice, first.hi, second.lo)
      BY <2>1 DEF interpreterVU
  <2>3. slice' = SignedMiddle(Accumulate(slice, S(first.hi) * second.lo))
      BY <2>2, Zenon DEF VMADM
  <2>4. Part2 = Signed(slice) + S(first.hi) * second.lo
      BY <1>1, <1>8 DEF ProductInv, Part2
  <2>5. Signed(slice') = Part2
      BY <1>1, <1>4, <1>5, <2>3, <2>4, AddEffects
  <2>. QED BY <1>6, <1>8, <2>1, <2>5
<1>9. CASE steps = 2 /\ Executes("VMADN", first.lo, second.hi, "none")
  <2>1. IdiomTypes' /\ slice' = interpreterVU("VMADN", slice, first.lo, second.hi)
      BY <1>1, <1>9, WrittenKeeps, WrittenFacts
  <2>2. slice' = VMADN(slice, first.lo, second.hi)
      BY <2>1 DEF interpreterVU
  <2>3. slice' = UnsignedLow(Accumulate(slice, first.lo * S(second.hi)))
      BY <2>2, Zenon DEF VMADN
  <2>4. Part3 = Signed(slice) + first.lo * S(second.hi)
      BY <1>1, <1>9 DEF ProductInv, Part3
  <2>5. Signed(slice') = Part3
      BY <1>1, <1>4, <1>5, <2>3, <2>4, AddEffects
  <2>. QED BY <1>6, <1>9, <2>1, <2>5
<1>10. CASE steps = 3 /\ Executes("VMADH", first.hi, second.hi, "hi")
  <2>1. /\ IdiomTypes' /\ slice' = interpreterVU("VMADH", slice, first.hi, second.hi)
        /\ results'.hi = slice'.vd
      BY <1>1, <1>10, WrittenKeeps, WrittenFacts
  <2>2. slice' = VMADH(slice, first.hi, second.hi)
      BY <2>1 DEF interpreterVU
  <2>3. slice' = SignedMiddle(Above(slice, S(first.hi) * S(second.hi)))
      BY <2>2, Zenon DEF VMADH, Above
  <2>4. Part4 = Signed(slice) + S(first.hi) * S(second.hi) * W
      BY <1>1, <1>10 DEF ProductInv, Part4
  <2>5. Signed(slice') = Part4 /\ S(slice'.vd) = sclamp(Part4 \div W)
      BY <1>1, <1>4, <1>5, <2>3, <2>4, AboveEffects
  <2>6. Signed(slice)' = Part4
      BY <2>5, Zenon DEF Signed
  <2>7. steps' = 4
      BY <1>2, <1>10
  <2>. QED BY <1>2, <1>3, <2>1, <2>5, <2>6, <2>7 DEF ProductInv
<1>11. CASE steps = 4 /\ Executes("VMADN", 0, 0, "lo")
  <2>1. /\ IdiomTypes' /\ slice' = interpreterVU("VMADN", slice, 0, 0)
        /\ results'.hi = results.hi /\ results'.lo = slice'.vd
      BY <1>1, <1>11, WrittenKeeps, WrittenFacts
  <2>2. slice' = VMADN(slice, 0, 0)
      BY <2>1 DEF interpreterVU
  <2>3. slice' = UnsignedLow(Accumulate(slice, 0 * S(0)))
      BY <2>2, Zenon DEF VMADN
  <2>4. Part4 = Signed(slice) /\ S(results.hi) = sclamp(Part4 \div W)
      BY <1>1, <1>11 DEF ProductInv
  <2>5. Part4 \in Int /\ 0 * S(0) = 0 /\ Part4 = Signed(slice) + 0 /\ 0 \in Int
      BY <1>4, <1>5, <2>4 DEF InReach
  <2>6. Signed(slice') = Part4 /\ slice'.vd = LowSaturated(Part4 \div W, Part4 % W)
      BY <1>1, <1>5, <2>3, <2>5, AddEffects
  <2>7. Signed(slice)' = Part4
      BY <2>6, Zenon DEF Signed
  <2>8. steps' = 5
      BY <1>2, <1>11
  <2>. QED BY <1>2, <1>3, <2>1, <2>4, <2>6, <2>7, <2>8 DEF ProductInv
<1>. QED BY <1>7, <1>8, <1>9, <1>10, <1>11, ProductProgram

(* At its end the clause is what was promised.                             *)
LEMMA ProductDone ==
    ASSUME IdiomTypes, ProductInv
    PROVE  ProductIsExact
<1>1. ASSUME Done("product")
      PROVE  Value(results) = Clip(Least, (Value(first) * Value(second)) \div W, Greatest)
  <2>1. idiom = "product" /\ steps = 5
      BY <1>1 DEF Done, Program
  <2>2. S(results.hi) = sclamp(Part4 \div W) /\ results.lo = LowSaturated(Part4 \div W, Part4 % W)
      BY <2>1 DEF ProductInv
  <2>3. Part4 \in Int /\ (Value(first) * Value(second)) \div W = Part4
      BY PartFacts DEF InReach
  <2>4. Value(results) = Clip(Least, Part4, Greatest)
      BY <2>2, <2>3, ClampedPair DEF Value
  <2>. QED BY <2>3, <2>4, Zenon
<1>. QED BY <1>1, Zenon DEF ProductIsExact

-----------------------------------------------------------------------------
(* Dot products and rounding.                                              *)

(* The numbers that the accumulator holds in a dot product and in a        *)
(* rounding.                                                               *)
Start == Product(first.hi, second.hi) + Lowest
Dotted == Start + Product(first.lo, second.lo)
Final == IF Rounded(Start) < 0 THEN Rounded(Start) + S(second.lo) ELSE Rounded(Start)
(* The element that VMACU makes of the upper part.                         *)
UnsignedMiddle(n) == IF n < 0 THEN 0 ELSE IF n > Highest THEN Ones ELSE n

(* The accumulator can hold all of them.                                   *)
LEMMA DotTerms ==
    ASSUME IdiomTypes
    PROVE  InReach(Start) /\ InReach(Dotted) /\ InReach(Rounded(Start)) /\ InReach(Final)
<1>. DEFINE a == S(first.hi) * S(second.hi)
            b == S(first.lo) * S(second.lo)
            c == S(first.lo)
            d == S(second.lo)
            sq == Lowest * Lowest
            r == c * W
<1>1. /\ first.hi \in Number /\ first.lo \in Number /\ second.hi \in Number /\ second.lo \in Number
      /\ Lowest \in Nat /\ Lowest >= 2 /\ W \in Nat /\ W = 2 * Lowest
  BY OperandFacts, WidthFacts
<1>2. /\ c \in Int /\ -Lowest <= c /\ c < Lowest /\ d \in Int /\ -Lowest <= d /\ d < Lowest
      /\ S(first.hi) \in Int /\ S(second.hi) \in Int
  BY <1>1, SFacts
<1>3. /\ a \in Int /\ a <= sq /\ -sq <= a
      /\ b \in Int /\ b <= sq /\ -sq <= b /\ sq \in Nat
  <2>1. /\ a \in Int /\ a <= sq /\ Lowest - sq <= a /\ b \in Int /\ b <= sq /\ Lowest - sq <= b
      BY <1>1, SFacts, SignedProducts
  <2>2. sq \in Nat
      BY <1>1
  <2>. QED BY <1>1, <2>1, <2>2
<1>4. Limit \in Nat /\ Limit >= 8 * sq /\ sq >= 2 * Lowest
  <2>1. sq * (Lowest - 2) \in Nat /\ sq * (Lowest - 2) = sq * Lowest - 2 * sq
        /\ sq * Lowest \in Nat /\ Limit = 4 * (sq * Lowest)
    <3>1. Lowest - 2 \in Nat /\ sq \in Nat
        BY <1>1
    <3>2. sq * (Lowest - 2) \in Nat /\ sq * Lowest \in Nat
        BY <1>1, <3>1
    <3>3. Limit = 4 * (sq * Lowest)
        BY <1>1 DEF Limit
    <3>4. sq * (Lowest - 2) = sq * Lowest - 2 * sq
        BY <1>1
    <3>. QED BY <3>2, <3>3, <3>4
  <2>2. Lowest * (Lowest - 2) \in Nat /\ Lowest * (Lowest - 2) = sq - 2 * Lowest
      BY <1>1
  <2>. HIDE DEF sq
  <2>. QED BY <1>1, <1>3, <2>1, <2>2
<1>5. r \in Int /\ -(2 * sq) <= r /\ r <= 2 * sq
  <2>1. (c + Lowest) * W \in Nat /\ (Lowest - c) * W \in Nat
    <3>1. c + Lowest \in Nat /\ Lowest - c \in Nat
        BY <1>1, <1>2
    <3>. QED BY <1>1, <3>1
  <2>2. (c + Lowest) * W = c * W + 2 * (Lowest * Lowest) /\ (Lowest - c) * W = 2 * (Lowest * Lowest) - c * W
      BY <1>1, <1>2
  <2>3. c * W \in Int
      BY <1>1, <1>2
  <2>. QED BY <1>3, <2>1, <2>2, <2>3
<1>6. Product(first.hi, second.hi) = 2 * a /\ Product(first.lo, second.lo) = 2 * b
  <2>1. ASSUME NEW p \in Int, NEW q \in Int PROVE 2 * p * q = 2 * (p * q)
      OBVIOUS
  <2>. QED BY <1>2, <2>1 DEF Product
<1>. HIDE DEF a, b, c, sq, r
<1>7. /\ Start = 2 * a + Lowest /\ Start \in Int /\ -(2 * sq) <= Start /\ Start <= 2 * sq + Lowest
      /\ Dotted = Start + 2 * b
  BY <1>1, <1>3, <1>6 DEF Start, Dotted
<1>8. Rounded(Start) = (IF Start >= 0 THEN Start + r ELSE Start)
  BY Zenon DEF Rounded, r, c
<1>9. /\ Rounded(Start) \in Int
      /\ -(4 * sq) <= Rounded(Start) /\ Rounded(Start) <= 4 * sq + Lowest
  BY <1>1, <1>3, <1>5, <1>7, <1>8
<1>10. Final \in Int /\ -(4 * sq) - Lowest <= Final /\ Final <= 4 * sq + 2 * Lowest
  BY <1>1, <1>2, <1>3, <1>9 DEF Final
<1>11. Dotted \in Int /\ -(4 * sq) <= Dotted /\ Dotted <= 4 * sq + Lowest
  BY <1>1, <1>3, <1>7
<1>12. ASSUME NEW n \in Int, -(4 * sq) - Lowest <= n, n <= 4 * sq + 2 * Lowest
       PROVE  InReach(n)
  <2>1. -Limit <= n
      BY <1>1, <1>3, <1>4, <1>12
  <2>2. n < Limit
      BY <1>1, <1>3, <1>4, <1>12
  <2>. QED BY <2>1, <2>2 DEF InReach
<1>13. InReach(Start)
  BY <1>1, <1>3, <1>7, <1>12
<1>14. InReach(Dotted)
  BY <1>1, <1>3, <1>11, <1>12
<1>15. InReach(Rounded(Start))
  BY <1>1, <1>3, <1>9, <1>12
<1>16. InReach(Final)
  BY <1>10, <1>12
<1>. QED BY <1>13, <1>14, <1>15, <1>16

(* VMULF sets it to a rounded product.                                     *)
LEMMA FractionEffects ==
    ASSUME NEW x \in Lane, NEW s \in Number, NEW t \in Number, InReach(Product(s, t) + Lowest)
    PROVE  Signed(VMULF(x, s, t)) = Product(s, t) + Lowest
<1>. DEFINE v == Product(s, t) + Lowest
<1>1. accumulatorSet(x, v) \in Lane /\ Signed(accumulatorSet(x, v)) = v
  BY SetAccumulator DEF InReach
<1>2. VMULF(x, s, t) = SignedMiddle(accumulatorSet(x, v))
  BY Zenon DEF VMULF, Fraction, Product
<1>. QED BY <1>1, <1>2, SignedMiddleFacts

(* So does VMULU, and VMACU adds the next; only the saturation differs.    *)
LEMMA UnsignedEffects ==
    ASSUME NEW x \in Lane, NEW s \in Number, NEW t \in Number
    PROVE  /\ InReach(Product(s, t) + Lowest) => Signed(VMULU(x, s, t)) = Product(s, t) + Lowest
           /\ InReach(Signed(x) + Product(s, t)) =>
                  LET v == Signed(x) + Product(s, t)
                  IN  /\ Signed(VMACU(x, s, t)) = v
                      /\ VMACU(x, s, t).vd = UnsignedMiddle(v \div W)
<1>1. ASSUME InReach(Product(s, t) + Lowest)
      PROVE  Signed(VMULU(x, s, t)) = Product(s, t) + Lowest
  <2>. DEFINE v == Product(s, t) + Lowest
              y == accumulatorSet(x, v)
              e == IF S(y.h) < 0 THEN 0
                   ELSE IF (S(y.h) < 0) # (S(y.m) < 0) THEN Ones ELSE y.m
  <2>1. y \in Lane /\ Signed(y) = v
      BY <1>1, SetAccumulator DEF InReach
  <2>2. VMULU(x, s, t) = [y EXCEPT !.vd = e]
      BY Zenon DEF VMULU, Fraction, Product
  <2>. HIDE DEF v, y
  <2>3. e \in Number
      BY <2>1, LaneFacts, SetFacts
  <2>. HIDE DEF e
  <2>4. Signed(VMULU(x, s, t)) = v
      BY <2>1, <2>2, <2>3, VdFacts
  <2>. QED BY <2>4 DEF v
<1>2. ASSUME InReach(Signed(x) + Product(s, t))
      PROVE  LET v == Signed(x) + Product(s, t)
             IN  /\ Signed(VMACU(x, s, t)) = v
                 /\ VMACU(x, s, t).vd = UnsignedMiddle(v \div W)
  <2>. DEFINE v == Signed(x) + Product(s, t)
              y == Accumulate(x, Product(s, t))
              e == IF S(y.h) < 0 THEN 0 ELSE IF S(y.h) # 0 \/ S(y.m) < 0 THEN Ones ELSE y.m
  <2>1. Product(s, t) \in Int
      BY SFacts DEF Product
  <2>2. y \in Lane /\ Signed(y) = v
      BY <1>2, <2>1, AddEffects
  <2>3. VMACU(x, s, t) = [y EXCEPT !.vd = e]
      BY Zenon DEF VMACU, AccumulateFraction, Product
  <2>. HIDE DEF v, y
  <2>4. UpperPart(y) \in Int /\ v \div W = UpperPart(y)
      BY <2>2, SignedFacts
  <2>5. Highest = Lowest - 1 /\ Lowest \in Nat
      BY WidthFacts DEF Highest
  <2>6. e = UnsignedMiddle(v \div W) /\ e \in Number
    <3>1. y.h \in Number /\ y.m \in Number /\ S(y.h) \in Int /\ S(y.m) \in Int /\ Ones \in Number /\ 0 \in Number
        BY <2>2, LaneFacts, SFacts, SetFacts
    <3>2. e \in Number
        BY <3>1
    <3>3. e = UnsignedMiddle(UpperPart(y))
      <4>1. /\ S(y.h) < 0 <=> UpperPart(y) < 0
            /\ UpperPart(y) >= 0 => ((S(y.h) # 0 \/ S(y.m) < 0) <=> UpperPart(y) >= Lowest)
            /\ UpperPart(y) >= 0 /\ UpperPart(y) < Lowest => y.m = UpperPart(y)
          BY <2>2, Saturations, Zenon
      <4>. QED BY <2>4, <2>5, <3>1, <4>1 DEF UnsignedMiddle
    <3>4. e = UnsignedMiddle(v \div W)
        BY <2>4, <3>3, Zenon
    <3>. QED BY <3>2, <3>4
  <2>. HIDE DEF e
  <2>7. Signed(VMACU(x, s, t)) = v /\ VMACU(x, s, t).vd = UnsignedMiddle(v \div W)
      BY <2>2, <2>3, <2>6, VdFacts
  <2>. QED BY <2>7 DEF v
<1>. QED BY <1>1, <1>2

(* VRNDP and VRNDN add to a sum of the sign that they ask for.             *)
LEMMA RoundEffects ==
    ASSUME NEW x \in Lane, NEW positive \in BOOLEAN, NEW shifted \in BOOLEAN, NEW t \in Number
    PROVE  LET p == IF shifted THEN S(t) * W ELSE S(t)
               v == IF positive = (Signed(x) >= 0) THEN Signed(x) + p ELSE Signed(x)
               z == VRND(x, positive, shifted, t)
           IN  InReach(v) => /\ z \in Lane /\ Signed(z) = v /\ S(z.vd) = sclamp(v \div W)
<1>. DEFINE p == IF shifted THEN S(t) * W ELSE S(t)
            v == IF positive = (Signed(x) >= 0) THEN Signed(x) + p ELSE Signed(x)
            z == VRND(x, positive, shifted, t)
            y == accumulatorSet(x, v)
            e == U(sclamp(S(y.h) * W + y.m))
<1>1. S(x.h) * W * W + x.m * W + x.l = Signed(x)
  <2>1. S(x.h) \in Int /\ W \in Int /\ x.m \in Int /\ x.l \in Int
      BY LaneFacts, SFacts, WidthFacts
  <2>2. S(x.h) * W * W + x.m * W + x.l = (S(x.h) * W + x.m) * W + x.l
    <3>. DEFINE h == S(x.h)
                m == x.m
                l == x.l
    <3>1. h \in Int /\ m \in Int /\ l \in Int /\ W \in Int
        BY <2>1
    <3>. HIDE DEF h, m, l
    <3>2. h * W * W + m * W + l = (h * W + m) * W + l
        BY <3>1
    <3>. QED BY <3>2 DEF h, m, l
  <2>. QED BY <2>2, Zenon DEF Signed, Composed
<1>2. z = [y EXCEPT !.vd = e]
  BY <1>1, Zenon DEF VRND
<1>. HIDE DEF z, v
<1>3. ASSUME InReach(v)
      PROVE  z \in Lane /\ Signed(z) = v /\ S(z.vd) = sclamp(v \div W)
  <2>1. y \in Lane /\ Signed(y) = v
      BY <1>3, SetAccumulator DEF InReach
  <2>. HIDE DEF y
  <2>2. UpperPart(y) \in Int /\ v \div W = UpperPart(y) /\ e = U(sclamp(UpperPart(y)))
      BY <2>1, SignedFacts DEF UpperPart
  <2>. HIDE DEF e
  <2>3. e \in Number /\ S(e) = sclamp(v \div W)
      BY <2>2, ClampFacts
  <2>. QED BY <1>2, <2>1, <2>3, VdFacts
<1>. QED BY <1>3 DEF z, v

(* VSAR reads the highest element.                                         *)
LEMMA ReadEffects ==
    ASSUME NEW x \in Lane
    PROVE  /\ VSAR(x, 8) \in Lane /\ Signed(VSAR(x, 8)) = Signed(x)
           /\ S(VSAR(x, 8).vd) = (Signed(x) \div W) \div W
<1>1. VSAR(x, 8) = [x EXCEPT !.vd = x.h]
  BY DEF VSAR
<1>2. x.h \in Number
  BY LaneFacts
<1>. QED BY <1>1, <1>2, VdFacts, SignedFacts

(* The sum after each instruction of a dot product, and the elements made  *)
(* of it.                                                                  *)
DotInv ==
    idiom = "dot" =>
        /\ steps <= 3
        /\ steps = 1 => Signed(slice) = Start
        /\ steps >= 2 => Signed(slice) = Dotted /\ S(results.lo) = sclamp(Dotted \div W)
        /\ steps = 3 => S(results.hi) = (Dotted \div W) \div W

(* The same with unsigned saturation.                                      *)
UnsignedInv ==
    idiom = "unsigned" =>
        /\ steps <= 2
        /\ steps = 1 => Signed(slice) = Start
        /\ steps = 2 => Signed(slice) = Dotted /\ results.lo = UnsignedMiddle(Dotted \div W)

(* The sum after each rounding.                                            *)
RoundInv ==
    idiom = "round" =>
        /\ steps <= 3
        /\ steps = 1 => Signed(slice) = Start
        /\ steps = 2 => Signed(slice) = Rounded(Start)
        /\ steps = 3 => Signed(slice) = Final /\ S(results.lo) = sclamp(Final \div W)

(* The numbers depend on the operands alone.                               *)
LEMMA NumbersStay ==
    ASSUME first' = first, second' = second
    PROVE  Start' = Start /\ Dotted' = Dotted /\ Rounded(Start)' = Rounded(Start) /\ Final' = Final
<1>1. Start' = Start
  BY Zenon DEF Start
<1>2. Rounded(Start)' = Rounded(Start)
  BY <1>1, Zenon DEF Rounded
<1>. QED BY <1>1, <1>2, Zenon DEF Dotted, Final

(* Each step of a dot product keeps its clause.                            *)
LEMMA DotStep ==
    ASSUME IdiomTypes, DotInv, idiom = "dot", Step
    PROVE  IdiomTypes' /\ DotInv'
<1>1. /\ first.hi \in Number /\ first.lo \in Number /\ second.hi \in Number /\ second.lo \in Number
      /\ slice \in Lane /\ steps \in Nat /\ Signed(slice)' = Signed(slice')
  BY OperandFacts, Zenon DEF Signed
<1>2. first' = first /\ second' = second /\ idiom' = idiom /\ steps' = steps + 1
  BY DotProgram DEF Executes
<1>3. Start' = Start /\ Dotted' = Dotted
  BY <1>2, NumbersStay
<1>4. InReach(Start) /\ InReach(Dotted)
  BY DotTerms
<1>5. CASE steps = 0 /\ Executes("VMULF", first.hi, second.hi, "none")
  <2>1. IdiomTypes' /\ slice' = interpreterVU("VMULF", slice, first.hi, second.hi)
      BY <1>1, <1>5, WrittenKeeps, WrittenFacts
  <2>2. slice' = VMULF(slice, first.hi, second.hi)
      BY <2>1 DEF interpreterVU
  <2>3. Signed(slice') = Start
      BY <1>1, <1>4, <2>2, FractionEffects DEF Start
  <2>4. steps' = 1
      BY <1>2, <1>5
  <2>. QED BY <1>1, <1>3, <2>1, <2>3, <2>4 DEF DotInv
<1>6. CASE steps = 1 /\ Executes("VMACF", first.lo, second.lo, "lo")
  <2>1. /\ IdiomTypes' /\ slice' = interpreterVU("VMACF", slice, first.lo, second.lo)
        /\ results'.lo = slice'.vd
      BY <1>1, <1>6, WrittenKeeps, WrittenFacts
  <2>2. slice' = VMACF(slice, first.lo, second.lo)
      BY <2>1 DEF interpreterVU
  <2>3. slice' = SignedMiddle(Accumulate(slice, Product(first.lo, second.lo)))
      BY <2>2, Zenon DEF VMACF, AccumulateFraction, Product
  <2>4. Dotted = Signed(slice) + Product(first.lo, second.lo)
      BY <1>1, <1>6 DEF DotInv, Dotted
  <2>5. Product(first.lo, second.lo) \in Int
      BY <1>1, SFacts DEF Product
  <2>6. Signed(slice') = Dotted /\ S(slice'.vd) = sclamp(Dotted \div W)
      BY <1>1, <1>4, <2>3, <2>4, <2>5, AddEffects
  <2>7. steps' = 2
      BY <1>2, <1>6
  <2>. QED BY <1>1, <1>3, <2>1, <2>6, <2>7 DEF DotInv
<1>7. CASE steps = 2 /\ Executes("VSAR", 8, 0, "hi")
  <2>1. slice' = interpreterVU("VSAR", slice, 8, 0)
      BY <1>7 DEF Executes
  <2>2. interpreterVU("VSAR", slice, 8, 0) = VSAR(slice, 8)
      BY DEF interpreterVU
  <2>3. /\ VSAR(slice, 8) \in Lane /\ Signed(VSAR(slice, 8)) = Signed(slice)
        /\ S(VSAR(slice, 8).vd) = (Signed(slice) \div W) \div W
      BY <1>1, ReadEffects
  <2>4. IdiomTypes' /\ results'.hi = slice'.vd /\ results'.lo = results.lo
      BY <1>1, <1>7, <2>2, <2>3, ExecutesKeeps
  <2>5. Signed(slice) = Dotted /\ S(results.lo) = sclamp(Dotted \div W)
      BY <1>1, <1>7 DEF DotInv
  <2>6. Signed(slice') = Dotted /\ S(results'.hi) = (Dotted \div W) \div W
        /\ S(results'.lo) = sclamp(Dotted \div W)
      BY <2>1, <2>2, <2>3, <2>4, <2>5, Zenon
  <2>7. steps' = 3
      BY <1>2, <1>7
  <2>. QED BY <1>1, <1>3, <2>4, <2>6, <2>7 DEF DotInv
<1>. QED BY <1>5, <1>6, <1>7, DotProgram

(* Of an unsigned one.                                                     *)
LEMMA UnsignedStep ==
    ASSUME IdiomTypes, UnsignedInv, idiom = "unsigned", Step
    PROVE  IdiomTypes' /\ UnsignedInv'
<1>1. /\ first.hi \in Number /\ first.lo \in Number /\ second.hi \in Number /\ second.lo \in Number
      /\ slice \in Lane /\ steps \in Nat /\ Signed(slice)' = Signed(slice')
  BY OperandFacts, Zenon DEF Signed
<1>2. first' = first /\ second' = second /\ idiom' = idiom /\ steps' = steps + 1
  BY UnsignedDotProgram DEF Executes
<1>3. Start' = Start /\ Dotted' = Dotted
  BY <1>2, NumbersStay
<1>4. InReach(Start) /\ InReach(Dotted)
  BY DotTerms
<1>5. CASE steps = 0 /\ Executes("VMULU", first.hi, second.hi, "none")
  <2>1. IdiomTypes' /\ slice' = interpreterVU("VMULU", slice, first.hi, second.hi)
      BY <1>1, <1>5, WrittenKeeps, WrittenFacts
  <2>2. slice' = VMULU(slice, first.hi, second.hi)
      BY <2>1 DEF interpreterVU
  <2>3. Signed(slice') = Start
      BY <1>1, <1>4, <2>2, UnsignedEffects DEF Start
  <2>4. steps' = 1
      BY <1>2, <1>5
  <2>. QED BY <1>1, <1>3, <2>1, <2>3, <2>4 DEF UnsignedInv
<1>6. CASE steps = 1 /\ Executes("VMACU", first.lo, second.lo, "lo")
  <2>1. /\ IdiomTypes' /\ slice' = interpreterVU("VMACU", slice, first.lo, second.lo)
        /\ results'.lo = slice'.vd
      BY <1>1, <1>6, WrittenKeeps, WrittenFacts
  <2>2. slice' = VMACU(slice, first.lo, second.lo)
      BY <2>1 DEF interpreterVU
  <2>3. Dotted = Signed(slice) + Product(first.lo, second.lo)
      BY <1>1, <1>6 DEF UnsignedInv, Dotted
  <2>4. Signed(slice') = Dotted /\ slice'.vd = UnsignedMiddle(Dotted \div W)
      BY <1>1, <1>4, <2>2, <2>3, UnsignedEffects
  <2>5. results'.lo = UnsignedMiddle(Dotted \div W)
        /\ UnsignedMiddle(Dotted \div W)' = UnsignedMiddle(Dotted \div W)
      BY <1>3, <2>1, <2>4, Zenon DEF UnsignedMiddle
  <2>6. steps' = 2
      BY <1>2, <1>6
  <2>. QED BY <1>1, <1>3, <2>1, <2>4, <2>5, <2>6 DEF UnsignedInv
<1>. QED BY <1>5, <1>6, UnsignedDotProgram

(* Of a rounding.                                                          *)
LEMMA RoundStep ==
    ASSUME IdiomTypes, RoundInv, idiom = "round", Step
    PROVE  IdiomTypes' /\ RoundInv'
<1>1. /\ first.hi \in Number /\ first.lo \in Number /\ second.hi \in Number /\ second.lo \in Number
      /\ slice \in Lane /\ steps \in Nat /\ Signed(slice)' = Signed(slice')
  BY OperandFacts, Zenon DEF Signed
<1>2. first' = first /\ second' = second /\ idiom' = idiom /\ steps' = steps + 1
  BY RoundProgram DEF Executes
<1>3. Start' = Start /\ Rounded(Start)' = Rounded(Start) /\ Final' = Final
  BY <1>2, NumbersStay
<1>4. InReach(Start) /\ InReach(Rounded(Start)) /\ InReach(Final)
  BY DotTerms
<1>5. CASE steps = 0 /\ Executes("VMULF", first.hi, second.hi, "none")
  <2>1. IdiomTypes' /\ slice' = interpreterVU("VMULF", slice, first.hi, second.hi)
      BY <1>1, <1>5, WrittenKeeps, WrittenFacts
  <2>2. slice' = VMULF(slice, first.hi, second.hi)
      BY <2>1 DEF interpreterVU
  <2>3. Signed(slice') = Start
      BY <1>1, <1>4, <2>2, FractionEffects DEF Start
  <2>4. steps' = 1
      BY <1>2, <1>5
  <2>. QED BY <1>1, <1>3, <2>1, <2>3, <2>4 DEF RoundInv
<1>6. CASE steps = 1 /\ Executes("VRNDP", 0, first.lo, "none")
  <2>1. slice' = interpreterVU("VRNDP", slice, 0, first.lo)
      BY <1>6 DEF Executes
  <2>2. interpreterVU("VRNDP", slice, 0, first.lo) = VRND(slice, TRUE, TRUE, first.lo)
      BY DEF interpreterVU
  <2>3. Signed(slice) = Start /\ Start \in Int
      BY <1>1, <1>4, <1>6 DEF RoundInv, InReach
  <2>4. (IF TRUE = (Signed(slice) >= 0) THEN Signed(slice) + (IF TRUE THEN S(first.lo) * W ELSE S(first.lo))
         ELSE Signed(slice)) = Rounded(Start)
      BY <2>3 DEF Rounded
  <2>5. /\ VRND(slice, TRUE, TRUE, first.lo) \in Lane
        /\ Signed(VRND(slice, TRUE, TRUE, first.lo)) = Rounded(Start)
      BY <1>1, <1>4, <2>4, RoundEffects
  <2>6. IdiomTypes'
    <3>1. interpreterVU("VRNDP", slice, 0, first.lo) \in Lane
        BY <2>2, <2>5, Zenon
    <3>. QED BY <1>1, <1>6, <3>1, ExecutesKeeps
  <2>7. Signed(slice') = Rounded(Start)
      BY <2>1, <2>2, <2>5, Zenon
  <2>8. steps' = 2
      BY <1>2, <1>6
  <2>. QED BY <1>1, <1>3, <2>6, <2>7, <2>8 DEF RoundInv
<1>7. CASE steps = 2 /\ Executes("VRNDN", 0, second.lo, "lo")
  <2>1. slice' = interpreterVU("VRNDN", slice, 0, second.lo)
      BY <1>7 DEF Executes
  <2>2. interpreterVU("VRNDN", slice, 0, second.lo) = VRND(slice, FALSE, FALSE, second.lo)
      BY DEF interpreterVU
  <2>3. Signed(slice) = Rounded(Start) /\ Rounded(Start) \in Int
      BY <1>1, <1>4, <1>7 DEF RoundInv, InReach
  <2>4. (IF FALSE = (Signed(slice) >= 0) THEN Signed(slice) + (IF FALSE THEN S(second.lo) * W ELSE S(second.lo))
         ELSE Signed(slice)) = Final
      BY <2>3 DEF Final
  <2>5. /\ VRND(slice, FALSE, FALSE, second.lo) \in Lane
        /\ Signed(VRND(slice, FALSE, FALSE, second.lo)) = Final
        /\ S(VRND(slice, FALSE, FALSE, second.lo).vd) = sclamp(Final \div W)
      BY <1>1, <1>4, <2>4, RoundEffects
  <2>6. IdiomTypes' /\ results'.lo = slice'.vd
    <3>1. interpreterVU("VRNDN", slice, 0, second.lo) \in Lane
        BY <2>2, <2>5, Zenon
    <3>. QED BY <1>1, <1>7, <3>1, ExecutesKeeps
  <2>7. Signed(slice') = Final /\ S(results'.lo) = sclamp(Final \div W)
      BY <2>1, <2>2, <2>5, <2>6, Zenon
  <2>8. steps' = 3
      BY <1>2, <1>7
  <2>. QED BY <1>1, <1>3, <2>6, <2>7, <2>8 DEF RoundInv
<1>. QED BY <1>5, <1>6, <1>7, RoundProgram

(* At their ends the clauses are what was promised.                        *)
LEMMA AccumulatorDone ==
    ASSUME IdiomTypes, DotInv, UnsignedInv, RoundInv
    PROVE  AccumulatorIsExact
<1>1. Accumulator = Signed(slice) /\ Start = Product(first.hi, second.hi) + Lowest
      /\ Dotted = Start + Product(first.lo, second.lo)
  BY Zenon DEF Accumulator, Signed, Composed, Start, Dotted
<1>2. ASSUME Done("dot")
      PROVE  Accumulator = Dotted /\ S(results.lo) = sclamp(Accumulator \div W)
             /\ S(results.hi) = (Accumulator \div W) \div W
  <2>1. idiom = "dot" /\ steps = 3
      BY <1>2 DEF Done, Program
  <2>2. Signed(slice) = Dotted /\ S(results.lo) = sclamp(Dotted \div W) /\ S(results.hi) = (Dotted \div W) \div W
      BY <2>1 DEF DotInv
  <2>. QED BY <1>1, <2>2, Zenon
<1>3. ASSUME Done("unsigned")
      PROVE  Accumulator = Dotted /\ results.lo = UnsignedMiddle(Accumulator \div W)
  <2>1. idiom = "unsigned" /\ steps = 2
      BY <1>3 DEF Done, Program
  <2>2. Signed(slice) = Dotted /\ results.lo = UnsignedMiddle(Dotted \div W)
      BY <2>1 DEF UnsignedInv
  <2>. QED BY <1>1, <2>2, Zenon
<1>4. ASSUME Done("round")
      PROVE  Accumulator = Final /\ S(results.lo) = sclamp(Accumulator \div W)
  <2>1. idiom = "round" /\ steps = 3
      BY <1>4 DEF Done, Program
  <2>2. Signed(slice) = Final /\ S(results.lo) = sclamp(Final \div W)
      BY <2>1 DEF RoundInv
  <2>. QED BY <1>1, <2>2, Zenon
<1>. QED BY <1>1, <1>2, <1>3, <1>4, Zenon DEF AccumulatorIsExact, UnsignedMiddle, Final

-----------------------------------------------------------------------------
(* The inductive invariant of the sequences: one clause for each, true of  *)
(* any other.                                                              *)

(* The types, and what each sequence has computed so far.                  *)
IdiomInv ==
    /\ IdiomTypes
    /\ ProductInv
    /\ SumInv
    /\ ComparisonInv
    /\ ClipInv
    /\ BoundInv
    /\ DotInv
    /\ UnsignedInv
    /\ RoundInv

(* Nothing has been computed when a sequence starts.                       *)
LEMMA IdiomStarts == IdiomInit => IdiomInv
<1> SUFFICES ASSUME IdiomInit
             PROVE  IdiomInv
  OBVIOUS
<1>1. steps = 0 /\ 0 \in Number
  BY SetFacts DEF IdiomInit
<1>2. IdiomTypes
  BY <1>1, OperandsAssumption DEF IdiomInit, IdiomTypes, IdiomTypeOK, Wide
<1>3. ProductInv /\ SumInv /\ ComparisonInv /\ ClipInv /\ BoundInv /\ DotInv /\ UnsignedInv /\ RoundInv
  BY <1>1 DEF ProductInv, SumInv, ComparisonInv, ClipInv, BoundInv, DotInv, UnsignedInv, RoundInv
<1> QED
  BY <1>2, <1>3 DEF IdiomInv

(* A step keeps the clause of its own sequence; the others are void.       *)
LEMMA IdiomKeeps == IdiomInv /\ Step => IdiomInv'
<1> SUFFICES ASSUME IdiomInv, Step
             PROVE  IdiomInv'
  OBVIOUS
<1>1. idiom' = idiom
  BY DEF Step
<1>2. IdiomTypes
  BY DEF IdiomInv
<1>3. /\ idiom # "product" => ProductInv'
      /\ idiom \notin {"sum", "difference"} => SumInv'
      /\ idiom \notin Comparisons => ComparisonInv'
      /\ idiom # "clip" => ClipInv'
      /\ idiom # "bound" => BoundInv'
      /\ idiom # "dot" => DotInv'
      /\ idiom # "unsigned" => UnsignedInv'
      /\ idiom # "round" => RoundInv'
  BY <1>1 DEF ProductInv, SumInv, ComparisonInv, Comparisons, ClipInv, BoundInv, DotInv,
              UnsignedInv, RoundInv
<1>4. CASE idiom = "product"
  <2>1. IdiomTypes' /\ ProductInv'
      BY <1>2, <1>4, ProductStep DEF IdiomInv
  <2> QED
      BY <1>3, <1>4, <2>1 DEF IdiomInv, Comparisons
<1>5. CASE idiom \in {"sum", "difference"}
  <2>1. IdiomTypes' /\ SumInv'
      BY <1>2, <1>5, SumStep DEF IdiomInv
  <2> QED
      BY <1>3, <1>5, <2>1 DEF IdiomInv, Comparisons
<1>6. CASE idiom \in Comparisons
  <2>1. IdiomTypes' /\ ComparisonInv'
      BY <1>2, <1>6, ComparisonStep DEF IdiomInv
  <2> QED
      BY <1>3, <1>6, <2>1 DEF IdiomInv, Comparisons
<1>7. CASE idiom = "clip"
  <2>1. IdiomTypes' /\ ClipInv'
      BY <1>2, <1>7, ClipStep DEF IdiomInv
  <2> QED
      BY <1>3, <1>7, <2>1 DEF IdiomInv, Comparisons
<1>8. CASE idiom = "bound"
  <2>1. IdiomTypes' /\ BoundInv'
      BY <1>2, <1>8, BoundStep DEF IdiomInv
  <2> QED
      BY <1>3, <1>8, <2>1 DEF IdiomInv, Comparisons
<1>9. CASE idiom = "dot"
  <2>1. IdiomTypes' /\ DotInv'
      BY <1>2, <1>9, DotStep DEF IdiomInv
  <2> QED
      BY <1>3, <1>9, <2>1 DEF IdiomInv, Comparisons
<1>10. CASE idiom = "unsigned"
  <2>1. IdiomTypes' /\ UnsignedInv'
      BY <1>2, <1>10, UnsignedStep DEF IdiomInv
  <2> QED
      BY <1>3, <1>10, <2>1 DEF IdiomInv, Comparisons
<1>11. CASE idiom = "round"
  <2>1. IdiomTypes' /\ RoundInv'
      BY <1>2, <1>11, RoundStep DEF IdiomInv
  <2> QED
      BY <1>3, <1>11, <2>1 DEF IdiomInv, Comparisons
<1>12. idiom \in {"product", "sum", "difference", "less", "greater", "equal", "unequal",
                  "clip", "bound", "dot", "unsigned", "round"}
  BY <1>2, IdiomsAssumption DEF IdiomTypes
<1> QED
  BY <1>4, <1>5, <1>6, <1>7, <1>8, <1>9, <1>10, <1>11, <1>12 DEF Comparisons

(* A step of another part of the unit changes nothing of it.               *)
LEMMA IdiomStep == IdiomInv /\ [VectorNext]_vectorVars => IdiomInv'
<1> SUFFICES ASSUME IdiomInv, [VectorNext]_vectorVars
             PROVE  IdiomInv'
  OBVIOUS
<1>1. Step \/ UNCHANGED idiomVars
  BY Zenon DEF VectorNext, vectorVars
<1>2. ASSUME UNCHANGED idiomVars PROVE IdiomInv'
  <2>1. /\ idiom' = idiom /\ first' = first /\ second' = second
        /\ slice' = slice /\ steps' = steps /\ results' = results
      BY <1>2 DEF idiomVars
  <2>2. IdiomTypes' /\ ProductInv' /\ SumInv' /\ ComparisonInv'
      BY <2>1 DEF IdiomInv, IdiomTypes, IdiomTypeOK, ProductInv, SumInv, ComparisonInv,
                  Part1, Part2, Part3, Part4, Signed, Composed, Exact, LowExact, Carried, Value, Answer, LowSaturated
  <2>3. ClipInv' /\ BoundInv'
      BY <2>1 DEF IdiomInv, ClipInv, BoundInv, HighClipped, Value
  <2>4. DotInv' /\ UnsignedInv' /\ RoundInv'
      BY <2>1 DEF IdiomInv, DotInv, UnsignedInv, RoundInv, Signed, Composed, Start, Dotted, Final,
                  Rounded, UnsignedMiddle
  <2> QED
      BY <2>2, <2>3, <2>4 DEF IdiomInv
<1> QED
  BY <1>1, <1>2, IdiomKeeps

(* Every sequence that sets a carry ends with an instruction that clears   *)
(* both.                                                                   *)
LEMMA CarriesDone == IdiomInv => CarriesConsumed
<1> SUFFICES ASSUME IdiomInv,
                    idiom \in {"sum", "difference", "less", "greater", "equal", "unequal", "clip", "bound"},
                    steps = Len(Program)
             PROVE  slice.vcol = 0 /\ slice.vcoh = 0
  BY Zenon DEF CarriesConsumed
<1>1. CASE idiom \in {"sum", "difference"}
  <2>1. Len(Program) = 2
      BY <1>1 DEF Program
  <2> QED
      BY <1>1, <2>1 DEF IdiomInv, SumInv
<1>2. CASE idiom \in Comparisons
  <2>1. Len(Program) = 3
      BY <1>2 DEF Program, Compare, Comparisons
  <2> QED
      BY <1>2, <2>1 DEF IdiomInv, ComparisonInv
<1>3. CASE idiom = "clip"
  <2>1. Len(Program) = 2
      BY <1>3 DEF Program
  <2> QED
      BY <1>3, <2>1 DEF IdiomInv, ClipInv
<1>4. CASE idiom = "bound"
  <2>1. Len(Program) = 1
      BY <1>4 DEF Program
  <2> QED
      BY <1>4, <2>1 DEF IdiomInv, BoundInv
<1> QED
  BY <1>1, <1>2, <1>3, <1>4 DEF Comparisons

(* Arithmetic on numbers of two elements is exact for every width,         *)
(* whatever operands and whatever an earlier sequence left in the lane:    *)
(* the partial sums never overflow the accumulator, the carry is consumed, *)
(* and saturation happens only at the end (interpreter-vpu.cpp, VMUDL ..   *)
(* VSAR).                                                                  *)
THEOREM ArithmeticExact == VectorSpec => []ArithmeticIsWide
<1>1. VectorInit => IdiomInv
  BY IdiomStarts DEF VectorInit
<1>2. IdiomInv => ArithmeticIsWide
  <2> SUFFICES ASSUME IdiomInv
               PROVE  ArithmeticIsWide
    OBVIOUS
  <2>1. IdiomTypeOK
    BY DEF IdiomInv, IdiomTypes
  <2> QED
    BY <2>1, ProductDone, SumDone, AccumulatorDone, CarriesDone DEF IdiomInv, ArithmeticIsWide
<1> QED
  BY <1>1, <1>2, IdiomStep, PTL DEF VectorSpec

(* Comparing, selecting and clipping numbers of two elements, too, for     *)
(* every width: the flags that the first instruction leaves are what the   *)
(* second needs to decide about the whole number (interpreter-vpu.cpp, VCH *)
(* .. VMRG).                                                               *)
THEOREM SelectionsExact == VectorSpec => []SelectionsAreWide
<1>1. VectorInit => IdiomInv
  BY IdiomStarts DEF VectorInit
<1>2. IdiomInv => SelectionsAreWide
  BY ComparisonDone, ClipDone, BoundDone DEF IdiomInv, SelectionsAreWide
<1> QED
  BY <1>1, <1>2, IdiomStep, PTL DEF VectorSpec

-----------------------------------------------------------------------------
(* The control registers: what their flags are as numbers, and that CFC2   *)
(* reads those.                                                            *)

(* The weights of the sixteen bits of a number.                            *)
LEMMA WeightValues ==
    /\ Control!Weight(0) = 1 /\ Control!Weight(1) = 2 /\ Control!Weight(2) = 4
    /\ Control!Weight(3) = 8 /\ Control!Weight(4) = 16 /\ Control!Weight(5) = 32
    /\ Control!Weight(6) = 64 /\ Control!Weight(7) = 128 /\ Control!Weight(8) = 256
    /\ Control!Weight(9) = 512 /\ Control!Weight(10) = 1024 /\ Control!Weight(11) = 2048
    /\ Control!Weight(12) = 4096 /\ Control!Weight(13) = 8192 /\ Control!Weight(14) = 16384
    /\ Control!Weight(15) = 32768
BY DEF Control!Weight

(* A flag register of eight lanes gathers a byte, whatever it holds.       *)
LEMMA GatheredIsByte ==
    ASSUME NEW f
    PROVE  /\ Control!Gathered(f) \in Int
           /\ 0 <= Control!Gathered(f) /\ Control!Gathered(f) <= 255
<1>. DEFINE bit(n) == IF f[n] # 0 THEN Control!Weight(n) ELSE 0
<1>1. /\ bit(0) \in Int /\ bit(0) >= 0 /\ bit(0) <= 1
      /\ bit(1) \in Int /\ bit(1) >= 0 /\ bit(1) <= 2
      /\ bit(2) \in Int /\ bit(2) >= 0 /\ bit(2) <= 4
      /\ bit(3) \in Int /\ bit(3) >= 0 /\ bit(3) <= 8
      /\ bit(4) \in Int /\ bit(4) >= 0 /\ bit(4) <= 16
      /\ bit(5) \in Int /\ bit(5) >= 0 /\ bit(5) <= 32
      /\ bit(6) \in Int /\ bit(6) >= 0 /\ bit(6) <= 64
      /\ bit(7) \in Int /\ bit(7) >= 0 /\ bit(7) <= 128
  BY WeightValues
<1>2. Control!Gathered(f) = bit(0) + bit(1) + bit(2) + bit(3) + bit(4) + bit(5) + bit(6) + bit(7)
  BY Zenon DEF Control!Gathered
<1>. HIDE DEF bit
<1>. QED BY <1>1, <1>2

(* Eight successive bits of a number are the number modulo 256.            *)
LEMMA EightBits ==
    ASSUME NEW q \in Nat
    PROVE  LET b(d) == (q \div d) % 2
           IN  b(1) + 2 * b(2) + 4 * b(4) + 8 * b(8)
               + 16 * b(16) + 32 * b(32) + 64 * b(64) + 128 * b(128)
                   = q % 256
<1>1. /\ (q \div 1) % 2 = q - 2 * (q \div 2)
      /\ (q \div 2) % 2 = (q \div 2) - 2 * (q \div 4)
      /\ (q \div 4) % 2 = (q \div 4) - 2 * (q \div 8)
      /\ (q \div 8) % 2 = (q \div 8) - 2 * (q \div 16)
  OBVIOUS
<1>2. /\ (q \div 16) % 2 = (q \div 16) - 2 * (q \div 32)
      /\ (q \div 32) % 2 = (q \div 32) - 2 * (q \div 64)
      /\ (q \div 64) % 2 = (q \div 64) - 2 * (q \div 128)
      /\ (q \div 128) % 2 = (q \div 128) - 2 * (q \div 256)
  OBVIOUS
<1>3. q % 256 = q - 256 * (q \div 256)
  OBVIOUS
<1>. QED BY <1>1, <1>2, <1>3

(* Two registers that are set to the bits of a number gather its lower and *)
(* its upper byte.                                                         *)
LEMMA GatheredBits ==
    ASSUME NEW q \in Nat,
           NEW f, f = [n \in Control!Lanes |-> 65535 * Control!BitOf(q, n)],
           NEW g, g = [n \in Control!Lanes |-> 65535 * Control!BitOf(q, 8 + n)]
    PROVE  Control!Gathered(f) = q % 256 /\ Control!Gathered(g) = (q \div 256) % 256
<1>. DEFINE r == q \div 256
            b(d) == (q \div d) % 2
            c(d) == (r \div d) % 2
<1>1. r \in Nat
  OBVIOUS
<1>2. /\ b(256) = c(1) /\ b(512) = c(2) /\ b(1024) = c(4) /\ b(2048) = c(8)
      /\ b(4096) = c(16) /\ b(8192) = c(32) /\ b(16384) = c(64) /\ b(32768) = c(128)
  <2>1. r \div 1 = q \div 256 /\ r \div 2 = q \div 512 /\ r \div 4 = q \div 1024
    OBVIOUS
  <2>2. r \div 8 = q \div 2048 /\ r \div 16 = q \div 4096 /\ r \div 32 = q \div 8192
    OBVIOUS
  <2>3. r \div 64 = q \div 16384 /\ r \div 128 = q \div 32768
    OBVIOUS
  <2>. HIDE DEF r
  <2>. QED BY <2>1, <2>2, <2>3
<1>3. ASSUME NEW d \in {1, 2, 4, 8, 16, 32, 64, 128, 256, 512, 1024, 2048,
                        4096, 8192, 16384, 32768}
      PROVE  b(d) \in {0, 1}
  OBVIOUS
<1>4. /\ f[0] = 65535 * b(1) /\ f[1] = 65535 * b(2)
      /\ f[2] = 65535 * b(4) /\ f[3] = 65535 * b(8)
      /\ f[4] = 65535 * b(16) /\ f[5] = 65535 * b(32)
      /\ f[6] = 65535 * b(64) /\ f[7] = 65535 * b(128)
  BY WeightValues DEF Control!Lanes, Control!BitOf
<1>5. /\ g[0] = 65535 * b(256) /\ g[1] = 65535 * b(512)
      /\ g[2] = 65535 * b(1024) /\ g[3] = 65535 * b(2048)
      /\ g[4] = 65535 * b(4096) /\ g[5] = 65535 * b(8192)
      /\ g[6] = 65535 * b(16384) /\ g[7] = 65535 * b(32768)
  BY WeightValues DEF Control!Lanes, Control!BitOf
<1>. HIDE DEF b
<1>6. Control!Gathered(f) = b(1) + 2 * b(2) + 4 * b(4) + 8 * b(8)
                            + 16 * b(16) + 32 * b(32) + 64 * b(64) + 128 * b(128)
  BY <1>3, <1>4, WeightValues DEF Control!Gathered
<1>7. Control!Gathered(g) = b(256) + 2 * b(512) + 4 * b(1024) + 8 * b(2048)
                            + 16 * b(4096) + 32 * b(8192) + 64 * b(16384) + 128 * b(32768)
  BY <1>3, <1>5, WeightValues DEF Control!Gathered
<1>8. Control!Gathered(f) = q % 256
  BY <1>6, EightBits DEF b
<1>9. Control!Gathered(g) = r % 256
  <2>. HIDE DEF r
  <2>1. c(1) + 2 * c(2) + 4 * c(4) + 8 * c(8)
        + 16 * c(16) + 32 * c(32) + 64 * c(64) + 128 * c(128) = r % 256
    BY <1>1, EightBits
  <2>. HIDE DEF c
  <2>. QED BY <2>1, <1>2, <1>7
<1>. QED BY <1>8, <1>9

(* The number of a register, of its flags.                                 *)
LEMMA NumberOf ==
    /\ Control!Numbers[0] = Control!Gathered(vc["vcol"]) + 256 * Control!Gathered(vc["vcoh"])
    /\ Control!Numbers[1] = Control!Gathered(vc["vccl"]) + 256 * Control!Gathered(vc["vcch"])
    /\ Control!Numbers[2] = Control!Gathered(vc["vce"])
    /\ Control!Numbers = [d \in {0, 1, 2} |-> Control!Numbers[d]]
<1>1. Control!Gathered(vc["vce"]) \in Int
  BY GatheredIsByte
<1>. HIDE DEF Control!Gathered
<1>. QED BY <1>1 DEF Control!Numbers, Control!Lower, Control!Upper

(* Assigning one of the pairs changes one number.                          *)
LEMMA AssignedNumber ==
    ASSUME NEW d \in {0, 1, 2, 3}, NEW f, NEW g, Control!Assign(d, f, g)
    PROVE  LET reg == Control!Readable!Register(d)
               value == IF reg = 2 THEN Control!Gathered(f)
                        ELSE Control!Gathered(f) + 256 * Control!Gathered(g)
           IN  Control!Numbers' = [Control!Numbers EXCEPT ![reg] = value]
<1>1. /\ vc'["vcol"] = IF d = 0 THEN f ELSE vc["vcol"]
      /\ vc'["vcoh"] = IF d = 0 THEN g ELSE vc["vcoh"]
      /\ vc'["vccl"] = IF d = 1 THEN f ELSE vc["vccl"]
      /\ vc'["vcch"] = IF d = 1 THEN g ELSE vc["vcch"]
      /\ vc'["vce"] = IF d \in {2, 3} THEN f ELSE vc["vce"]
  BY DEF Control!Assign, Control!Registers, Control!Lower, Control!Upper
<1>2. /\ Control!Numbers'[0] = Control!Gathered(vc'["vcol"]) + 256 * Control!Gathered(vc'["vcoh"])
      /\ Control!Numbers'[1] = Control!Gathered(vc'["vccl"]) + 256 * Control!Gathered(vc'["vcch"])
      /\ Control!Numbers'[2] = Control!Gathered(vc'["vce"])
      /\ Control!Numbers' = [e \in {0, 1, 2} |-> Control!Numbers'[e]]
  <2>1. Control!Gathered(vc'["vce"]) \in Int
    BY GatheredIsByte
  <2>. QED BY <2>1 DEF Control!Numbers, Control!Lower, Control!Upper
<1>. QED BY <1>1, <1>2, NumberOf DEF Control!Readable!Register

(* The registers are zero, and so are their numbers.                       *)
LEMMA ControlStarts == Control!Init => Control!Readable!Init
<1> SUFFICES ASSUME Control!Init
             PROVE  Control!Readable!Init
  OBVIOUS
<1>1. \A v \in Control!Registers : vc[v] = Control!zero
  BY DEF Control!Init
<1>2. Control!Gathered(Control!zero) = 0
  BY DEF Control!Gathered, Control!zero, Control!Lanes
<1>3. Control!Numbers[0] = 0 /\ Control!Numbers[1] = 0 /\ Control!Numbers[2] = 0
  BY <1>1, <1>2, NumberOf DEF Control!Registers
<1>4. Control!Numbers = [d \in {0, 1, 2} |-> 0]
  BY <1>3, NumberOf
<1> QED
  BY <1>4 DEF Control!Readable!Init, Control!Init

(* CFC2, CTC2 and a comparison do to the registers what their              *)
(* specification does to the numbers.                                      *)
LEMMA ControlComputes == Control!Next => Control!Readable!Next
<1> SUFFICES ASSUME Control!Next
             PROVE  Control!Readable!Next
  OBVIOUS
<1>1. ASSUME NEW d \in {0, 1, 2}, NEW flags \in Flags, Control!Compare(d, flags)
      PROVE  Control!Readable!Compare(d, flags)
  <2>. DEFINE f == [n \in Control!Lanes |-> 65535 * Control!BitOf(flags, n)]
              g == [n \in Control!Lanes |-> 65535 * Control!BitOf(flags, 8 + n)]
  <2>1. Control!Assign(d, f, g) /\ number' = number
    BY <1>1 DEF Control!Compare
  <2>2. flags \in Nat /\ flags <= 65535
    BY FlagsAssumption
  <2>3. Control!Gathered(f) = flags % 256 /\ Control!Gathered(g) = (flags \div 256) % 256
    BY <2>2, GatheredBits
  <2>. HIDE DEF f, g
  <2>4. (flags % 256) + 256 * ((flags \div 256) % 256) = flags % 65536
    BY <2>2
  <2>5. Control!Readable!Register(d) = d /\ (d = 2 \/ d # 2)
    BY DEF Control!Readable!Register
  <2>6. Control!Numbers' = [Control!Numbers EXCEPT ![d] = flags % Control!Readable!Size(d)]
    BY <2>1, <2>3, <2>4, <2>5, AssignedNumber DEF Control!Readable!Size
  <2>. QED BY <2>1, <2>6 DEF Control!Readable!Compare
<1>2. ASSUME NEW d \in 0 .. 3, Control!CFC2(d)
      PROVE  Control!Readable!CFC2(d)
  <2>1. d \in {0, 1, 2, 3}
    OBVIOUS
  <2>2. Control!Numbers' = Control!Numbers
    <3>1. vc' = vc
      BY <1>2 DEF Control!CFC2
    <3> QED
      BY <3>1, Zenon DEF Control!Numbers
  <2>3. number' = Control!Readable!Signed16(Control!Numbers[Control!Readable!Register(d)])
    <3>. DEFINE lo == Control!Gathered(vc[Control!Lower(d)])
                hi == IF Control!Upper(d) = "none" THEN 0 ELSE Control!Gathered(vc[Control!Upper(d)])
    <3>1. number' = 256 * hi + lo - (IF hi >= 128 THEN 65536 ELSE 0)
      BY <1>2 DEF Control!CFC2
    <3>2. lo \in Int /\ 0 <= lo /\ lo <= 255 /\ hi \in Int /\ 0 <= hi /\ hi <= 255
      BY GatheredIsByte
    <3>3. Control!Numbers[Control!Readable!Register(d)] = 256 * hi + lo
      <4>1. CASE d = 0
        BY <4>1, <3>2, NumberOf DEF Control!Lower, Control!Upper, Control!Readable!Register
      <4>2. CASE d = 1
        BY <4>2, <3>2, NumberOf DEF Control!Lower, Control!Upper, Control!Readable!Register
      <4>3. CASE d \in {2, 3}
        BY <4>3, <3>2, NumberOf DEF Control!Lower, Control!Upper, Control!Readable!Register
      <4> QED
        BY <2>1, <4>1, <4>2, <4>3
    <3>. HIDE DEF lo, hi
    <3> QED
      BY <3>1, <3>2, <3>3 DEF Control!Readable!Signed16
  <2>. QED BY <2>2, <2>3 DEF Control!Readable!CFC2
<1>3. ASSUME NEW d \in 0 .. 3, Control!CTC2(d)
      PROVE  Control!Readable!CTC2(d)
  <2>1. d \in {0, 1, 2, 3}
    OBVIOUS
  <2>2. Control!Assign(d, Control!LastIteration(7), Control!LastIteration(15)) /\ number' = number
    BY <1>3 DEF Control!CTC2
  <2>3. PICK value : Control!Numbers' = [Control!Numbers EXCEPT ![Control!Readable!Register(d)] = value]
    <3>. DEFINE reg == Control!Readable!Register(d)
                f == Control!LastIteration(7)
                g == Control!LastIteration(15)
                sum == IF reg = 2 THEN Control!Gathered(f)
                       ELSE Control!Gathered(f) + 256 * Control!Gathered(g)
    <3>1. Control!Numbers' = [Control!Numbers EXCEPT ![reg] = sum]
      BY <2>1, <2>2, AssignedNumber
    <3>. HIDE DEF sum
    <3> QED
      BY <3>1
  <2>4. Control!Numbers = [e \in {0, 1, 2} |-> Control!Numbers[e]]
    BY NumberOf, Zenon
  <2>. QED BY <2>2, <2>3, <2>4 DEF Control!Readable!CTC2
<1>4. ASSUME NEW value \in Values, Control!Load(value)
      PROVE  Control!Readable!Load(value)
  BY <1>4, Zenon DEF Control!Load, Control!Readable!Load, Control!Numbers
<1> QED
  BY <1>1, <1>2, <1>3, <1>4, Zenon DEF Control!Next, Control!Readable!Next

(* CFC2 reads the numbers whose bits are the flags that comparisons and    *)
(* CTC2 left (interpreter-vpu.cpp, CFC2 and CTC2; r128::get and set,       *)
(* rsp.hpp): ControlRegisters implements ControlNumbers, for every set of  *)
(* values and of flags.                                                    *)
THEOREM ReadsRefine == VectorSpec => ReadsAreNumbers
<1>1. VectorInit => Control!Readable!Init
  BY ControlStarts DEF VectorInit
<1>2. [VectorNext]_vectorVars => [Control!Readable!Next]_Control!Readable!vars
  <2> SUFFICES ASSUME [VectorNext]_vectorVars
               PROVE  [Control!Readable!Next]_Control!Readable!vars
    OBVIOUS
  <2>1. Control!Next \/ UNCHANGED controlVars
    BY Zenon DEF VectorNext, vectorVars
  <2>2. ASSUME UNCHANGED controlVars PROVE UNCHANGED Control!Readable!vars
    <3>1. vc' = vc /\ number' = number
      BY <2>2 DEF controlVars
    <3>2. Control!Numbers' = Control!Numbers
      BY <3>1, Zenon DEF Control!Numbers
    <3> QED
      BY <3>1, <3>2 DEF Control!Readable!vars
  <2> QED
    BY <2>1, <2>2, ControlComputes
<1> QED
  BY <1>1, <1>2, PTL DEF VectorSpec, ReadsAreNumbers, Control!ReadsAreNumbers, Control!Readable!Spec

-----------------------------------------------------------------------------
(* The divider: its tables, which hold 2^26 / a and the root of 2^42 / a,  *)
(* the error that their ten leading bits and the shift leave, and the      *)
(* order of its instructions.                                              *)

(* The powers that the divider shifts by are those of the other units.     *)
LEMMA DividerPower == Divider!Power = Power
  BY SMT DEF Divider!Power, Power

(* The powers that it names.                                               *)
LEMMA PowerValues ==
    /\ Power[8] = 256 /\ Power[9] = 512 /\ Power[14] = 16384
    /\ Power[15] = 32768 /\ Power[16] = 65536 /\ Power[17] = 131072 /\ Power[26] = 67108864 /\ Power[30] = 1073741824
    /\ Power[31] = 2147483648
<1>1. /\ Power[1] = 2 * Power[0] /\ Power[2] = 2 * Power[1] /\ Power[3] = 2 * Power[2]
      /\ Power[4] = 2 * Power[3] /\ Power[5] = 2 * Power[4] /\ Power[6] = 2 * Power[5]
      /\ Power[7] = 2 * Power[6] /\ Power[8] = 2 * Power[7] /\ Power[9] = 2 * Power[8]
      /\ Power[10] = 2 * Power[9] /\ Power[11] = 2 * Power[10] /\ Power[12] = 2 * Power[11]
      /\ Power[13] = 2 * Power[12] /\ Power[14] = 2 * Power[13] /\ Power[15] = 2 * Power[14]
      /\ Power[16] = 2 * Power[15]
  BY SMT, PowerRecursion
<1>2. /\ Power[17] = 2 * Power[16] /\ Power[18] = 2 * Power[17] /\ Power[19] = 2 * Power[18]
      /\ Power[20] = 2 * Power[19] /\ Power[21] = 2 * Power[20] /\ Power[22] = 2 * Power[21]
      /\ Power[23] = 2 * Power[22] /\ Power[24] = 2 * Power[23] /\ Power[25] = 2 * Power[24]
      /\ Power[26] = 2 * Power[25] /\ Power[27] = 2 * Power[26] /\ Power[28] = 2 * Power[27]
      /\ Power[29] = 2 * Power[28] /\ Power[30] = 2 * Power[29] /\ Power[31] = 2 * Power[30]
  BY SMT, PowerRecursion
<1>3. Power[0] = 1
  BY SMT, PowerFacts
<1>. QED BY SMT, <1>1, <1>2, <1>3

(* Powers multiply as their exponents add.                                 *)
LEMMA PowerSum ==
    ASSUME NEW m \in Nat, NEW n \in Nat
    PROVE  Power[m + n] = Power[m] * Power[n]
<1>. DEFINE T == {k \in Nat : Power[m + k] = Power[m] * Power[k]}
<1>1. 0 \in T
  BY SMT, PowerFacts
<1>2. ASSUME NEW k \in Nat, k \in T
      PROVE  k + 1 \in T
  <2>1. Power[m + (k + 1)] = 2 * Power[m + k]
    <3>1. m + k \in Nat /\ m + (k + 1) = (m + k) + 1
        BY SMT
    <3>. QED BY SMT, <3>1, PowerFacts
  <2>2. Power[k + 1] = 2 * Power[k] /\ Power[k] \in Nat /\ Power[m] \in Nat
      BY SMT, PowerFacts
  <2>3. Power[m] * (2 * Power[k]) = 2 * (Power[m] * Power[k])
      BY SMT, <2>2
  <2>. QED BY SMT, <1>2, <2>1, <2>2, <2>3
<1>. HIDE DEF T
<1>3. n \in T
  BY SMT, <1>1, <1>2, SetInduction
<1>. QED BY SMT, <1>3 DEF T

(* A quotient by its bounds.                                               *)
LEMMA QuotientIs ==
    ASSUME NEW n \in Int, NEW d \in Nat, d >= 1, NEW q \in Int, q * d <= n, n < (q + 1) * d
    PROVE  n \div d = q
<1>1. (q + 1) * d = q * d + d /\ n - q * d \in 0 .. d - 1
  BY SMT
<1>. QED BY SMT, <1>1, DivModUnique

(* The bounds of a quotient.                                               *)
LEMMA QuotientIn ==
    ASSUME NEW n \in Int, NEW d \in Nat, d >= 1
    PROVE  /\ n \div d \in Int /\ (n \div d) * d <= n /\ n < (n \div d + 1) * d
           /\ n >= 0 => n \div d >= 0
<1>. DEFINE q == n \div d
<1>1. q \in Int /\ n % d \in 0 .. d - 1 /\ n = q * d + (n % d)
  BY SMT, DivMod
<1>. HIDE DEF q
<1>2. (q + 1) * d = q * d + d
  BY SMT, <1>1
<1>3. n >= 0 => q >= 0
  BY SMT, <1>1, Multiples
<1>. QED BY SMT, <1>1, <1>2, <1>3 DEF q

(* Of two numbers the smaller one has the smaller quotient.                *)
LEMMA QuotientMonotone ==
    ASSUME NEW m \in Int, NEW n \in Int, m <= n, NEW d \in Nat, d >= 1
    PROVE  m \div d <= n \div d
<1>. DEFINE p == m \div d
            q == n \div d
<1>1. /\ p \in Int /\ p * d <= m
      /\ q \in Int /\ n < (q + 1) * d
  BY SMT, QuotientIn
<1>. HIDE DEF p, q
<1>2. p * d < (q + 1) * d
  BY SMT, <1>1
<1>3. (q + 1 - p) * d = (q + 1) * d - p * d /\ q + 1 - p \in Int
  BY SMT, <1>1
<1>4. q + 1 - p >= 1
  BY SMT, <1>1, <1>2, <1>3, Multiples
<1>. QED BY SMT, <1>1, <1>4 DEF p, q

(* A number of up to 31 bits has one length, and twice the power below it  *)
(* is more than the number.                                                *)
LEMMA LengthFacts ==
    ASSUME NEW x \in Nat, x >= 1, x < Power[31]
    PROVE  /\ Divider!Length(x) \in 1 .. 31
           /\ Power[Divider!Length(x) - 1] <= x
           /\ x < 2 * Power[Divider!Length(x) - 1]
<1>. DEFINE T == {n \in Nat : x < Power[n]}
            IsLength(k) == x \div Power[k - 1] = 1
<1>1. 31 \in T
  BY SMT, PowerValues
<1>2. PICK n \in T : \A m \in T : n <= m
  <2>. HIDE DEF T
  <2>1. T \subseteq Nat /\ T # {}
      BY SMT, <1>1 DEF T
  <2>. QED BY <2>1, LeastNumber
<1>3. n \in 1 .. 31 /\ n - 1 \in Nat /\ n - 1 \notin T
  <2>1. n # 0
      BY SMT, <1>2, PowerFacts
  <2>. QED BY SMT, <1>1, <1>2, <2>1
<1>4. Power[n - 1] \in Nat /\ Power[n - 1] >= 1 /\ Power[n - 1] <= x
  BY SMT, <1>3, PowerFacts
<1>5. x < 2 * Power[n - 1]
  <2>1. (n - 1) + 1 = n
      BY SMT, <1>3
  <2>. QED BY SMT, <1>2, <1>3, <2>1, PowerFacts
<1>6. IsLength(n)
  BY SMT, <1>4, <1>5, QuotientIs
<1>. DEFINE length == CHOOSE k \in 1 .. 31 : IsLength(k)
<1>7. length \in 1 .. 31 /\ IsLength(length)
  <2>. HIDE DEF IsLength
  <2>. QED BY SMT, <1>3, <1>6
<1>8. Divider!Length(x) = length
  BY SMT, DividerPower DEF Divider!Length
<1>. HIDE DEF length
<1>9. Power[length - 1] \in Nat /\ Power[length - 1] >= 1
  BY SMT, <1>7, PowerFacts
<1>10. Power[length - 1] <= x /\ x < 2 * Power[length - 1]
  <2>. DEFINE u == Power[length - 1]
  <2>1. u \in Nat /\ u >= 1
      BY SMT, <1>9
  <2>2. x \div u = 1
      BY <1>7
  <2>. HIDE DEF u
  <2>3. (x \div u) * u <= x /\ x < (x \div u + 1) * u
      BY SMT, <2>1, QuotientIn
  <2>4. u <= x /\ x < 2 * u
      BY SMT, <2>1, <2>2, <2>3
  <2>. QED BY SMT, <2>4 DEF u
<1>. QED BY SMT, <1>7, <1>8, <1>10

(* The power of two at or below a number, the number's first ten bits, and *)
(* the mantissa that the table of reciprocals holds for them.              *)
Unit(x) == Power[Divider!Length(x) - 1]
Leading(x) == Divider!Index(x) + 512
Mantissa(a) == 65536 + Divider!reciprocals[a - 512]

(* The unit is a power of two of at most 30 bits.                          *)
LEMMA UnitFacts ==
    ASSUME NEW x \in Nat, x >= 1, x < Power[31]
    PROVE  /\ Unit(x) \in Nat /\ Unit(x) >= 1 /\ Unit(x) <= Power[30]
           /\ Unit(x) <= x /\ x < 2 * Unit(x)
<1>1. /\ Divider!Length(x) - 1 \in Nat
      /\ Unit(x) <= x /\ x < 2 * Unit(x)
  BY SMT, LengthFacts DEF Unit
<1>2. Unit(x) \in Nat /\ Unit(x) >= 1
  BY SMT, <1>1, PowerFacts DEF Unit
<1>. DEFINE k == Divider!Length(x) - 1
            j == 30 - k
<1>3. k \in Nat /\ j \in Nat /\ k + j = 30
  BY SMT, LengthFacts
<1>. HIDE DEF k, j
<1>4. Power[k] * Power[j] = Power[30] /\ Power[j] \in Nat /\ Power[j] >= 1 /\ Power[k] \in Nat
  <2>1. Power[k + j] = Power[k] * Power[j]
      BY <1>3, PowerSum
  <2>. QED BY SMT, <1>3, <2>1, PowerFacts
<1>5. Power[k] <= Power[k] * Power[j]
  BY SMT, <1>4
<1>6. Power[k] <= Power[30]
  BY SMT, <1>4, <1>5
<1>. QED BY SMT, <1>1, <1>2, <1>6 DEF Unit, k

(* The first ten bits are those above the unit's 512th part.               *)
LEMMA LeadingFacts ==
    ASSUME NEW x \in Nat, x >= 1, x < Power[31]
    PROVE  /\ Leading(x) \in 512 .. 1023 /\ Divider!Index(x) = Leading(x) - 512
           /\ Leading(x) * Unit(x) <= 512 * x
           /\ 512 * x < (Leading(x) + 1) * Unit(x)
<1>. DEFINE g == Unit(x)
            a == Leading(x)
            length == Divider!Length(x)
<1>1. length \in 1 .. 31 /\ g = Power[length - 1] /\ g \in Nat /\ g >= 1 /\ g <= x /\ x < 2 * g
  BY SMT, LengthFacts, UnitFacts DEF Unit
<1>2. /\ a = IF length > 10 THEN x \div Power[length - 10] ELSE x * Power[10 - length]
      /\ Divider!Index(x) = a - 512
  <2>1. Divider!Index(x) = (IF length > 10 THEN x \div Power[length - 10]
                                              ELSE x * Power[10 - length]) - 512
      BY DividerPower, Zenon DEF Divider!Index
  <2>2. (IF length > 10 THEN x \div Power[length - 10] ELSE x * Power[10 - length]) \in Int
    <3>1. length > 10 => length - 10 \in Nat
        BY SMT, <1>1
    <3>2. ~(length > 10) => 10 - length \in Nat
        BY SMT, <1>1
    <3>. HIDE DEF length
    <3>3. CASE length > 10
      <4>1. Power[length - 10] \in Nat /\ Power[length - 10] >= 1
          BY SMT, <3>1, <3>3, PowerFacts
      <4>2. x \div Power[length - 10] \in Int
        <5>. DEFINE p == Power[length - 10]
        <5>1. p \in Nat /\ p >= 1
            BY SMT, <4>1
        <5>. HIDE DEF p
        <5>2. x \div p \in Int
            BY SMT, <5>1, QuotientIn
        <5>. QED BY <5>2 DEF p
      <4>. QED BY SMT, <3>3, <4>2
    <3>4. CASE ~(length > 10)
      <4>1. Power[10 - length] \in Nat
          BY SMT, <3>2, <3>4, PowerFacts
      <4>. QED BY SMT, <3>4, <4>1
    <3>. QED BY SMT, <3>3, <3>4
  <2>. HIDE DEF length
  <2>. QED BY SMT, <2>1, <2>2 DEF Leading
<1>. HIDE DEF g, a, length
<1>3. CASE length > 10
  <2>. DEFINE p == Power[length - 10]
  <2>1. length - 10 \in Nat /\ length - 1 = 9 + (length - 10)
      BY SMT, <1>1, <1>3
  <2>2. p \in Nat /\ p >= 1 /\ g = 512 * p
    <3>1. PICK m \in Nat : m = length - 10
        BY SMT, <2>1
    <3>2. Power[9 + m] = Power[9] * Power[m]
        BY SMT, PowerSum
    <3>3. length - 1 = 9 + m /\ Power[9] = 512 /\ Power[m] \in Nat /\ Power[m] >= 1
        BY SMT, <2>1, <3>1, PowerFacts, PowerValues
    <3>. QED BY SMT, <1>1, <3>1, <3>2, <3>3
  <2>3. a = x \div p
      BY SMT, <1>2, <1>3
  <2>. HIDE DEF p
  <2>4. a \in Int /\ a * p <= x /\ x < (a + 1) * p
      BY SMT, <2>2, <2>3, QuotientIn
  <2>5. a * g = 512 * (a * p) /\ (a + 1) * g = 512 * ((a + 1) * p)
      BY SMT, <2>2, <2>4
  <2>6. a >= 512
    <3>1. (a + 1 - 512) * p = (a + 1) * p - 512 * p /\ a + 1 - 512 \in Int
        BY SMT, <2>2, <2>4
    <3>2. (a + 1 - 512) * p >= 1
        BY SMT, <1>1, <2>2, <2>4, <3>1
    <3>3. ~(a + 1 - 512 <= -1) /\ a + 1 - 512 # 0
        BY SMT, <2>2, <3>1, <3>2, Multiples
    <3>. QED BY SMT, <2>4, <3>3
  <2>7. a <= 1023
    <3>1. (1024 - a) * p = 1024 * p - a * p /\ 1024 - a \in Int
        BY SMT, <2>2, <2>4
    <3>2. (1024 - a) * p >= 1
        BY SMT, <1>1, <2>2, <2>4, <3>1
    <3>3. ~(1024 - a <= -1) /\ 1024 - a # 0
        BY SMT, <2>2, <3>1, <3>2, Multiples
    <3>. QED BY SMT, <2>4, <3>3
  <2>8. a * g <= 512 * x /\ 512 * x < (a + 1) * g
    <3>1. a * p \in Int /\ (a + 1) * p \in Int
        BY SMT, <2>2, <2>4
    <3>. QED BY SMT, <2>4, <2>5, <3>1
  <2>. QED BY SMT, <1>2, <2>4, <2>6, <2>7, <2>8 DEF a, g
<1>4. CASE ~(length > 10)
  <2>. DEFINE q == Power[10 - length]
  <2>1. 10 - length \in Nat /\ length - 1 \in Nat /\ (10 - length) + (length - 1) = 9
      BY SMT, <1>1, <1>4
  <2>2. q \in Nat /\ q >= 1 /\ q * g = 512
    <3>1. PICK m \in Nat : m = 10 - length
        BY SMT, <2>1
    <3>2. PICK n \in Nat : n = length - 1
        BY SMT, <2>1
    <3>3. Power[m + n] = Power[m] * Power[n]
        BY SMT, PowerSum
    <3>4. m + n = 9 /\ Power[9] = 512 /\ Power[m] \in Nat /\ Power[m] >= 1
        BY SMT, <2>1, <3>1, <3>2, PowerFacts, PowerValues
    <3>. QED BY SMT, <1>1, <3>1, <3>2, <3>3, <3>4
  <2>3. a = x * q
      BY SMT, <1>2, <1>4
  <2>. HIDE DEF q
  <2>4. a * g = x * (q * g) /\ a \in Nat
      BY SMT, <1>1, <2>2, <2>3
  <2>5. a * g = 512 * x /\ (a + 1) * g = 512 * x + g
      BY SMT, <1>1, <2>2, <2>4
  <2>6. q * g <= q * x /\ q * x < q * (2 * g)
      BY SMT, <1>1, <2>2
  <2>7. q * (2 * g) = 1024 /\ q * x = a
      BY SMT, <1>1, <2>2, <2>3
  <2>. QED BY SMT, <1>1, <1>2, <2>2, <2>4, <2>5, <2>6, <2>7 DEF a, g
<1>. QED BY SMT, <1>3, <1>4

(* The quotient of 2^34 that power() puts together from two.               *)
Quotient34(a) == 16 * (1073741824 \div a) + (16 * (1073741824 % a)) \div a

(* It is the quotient of the whole.                                        *)
LEMMA Quotient34Facts ==
    ASSUME NEW a \in 1 .. 1023
    PROVE  /\ Quotient34(a) \in Int
           /\ Quotient34(a) * a <= 17179869184
           /\ 17179869184 < (Quotient34(a) + 1) * a
<1>. DEFINE q == 1073741824 \div a
            r == 1073741824 % a
            s == (16 * r) \div a
<1>1. q \in Int /\ r \in 0 .. a - 1 /\ 1073741824 = q * a + r
  BY SMT, DivMod
<1>. HIDE DEF q, r
<1>2. s \in Int /\ s * a <= 16 * r /\ 16 * r < (s + 1) * a
  BY SMT, <1>1, QuotientIn
<1>3. Quotient34(a) = 16 * q + s
  BY SMT DEF Quotient34, q, r
<1>. HIDE DEF s
<1>4. (16 * q + s) * a = 16 * (q * a) + s * a /\ (16 * q + s + 1) * a = 16 * (q * a) + (s + 1) * a
  BY SMT, <1>1, <1>2
<1>. QED BY SMT, <1>1, <1>2, <1>3, <1>4

(* The table: 2^26 / a, rounded.                                           *)
LEMMA MantissaFacts ==
    ASSUME Powered = TRUE, NEW a \in 512 .. 1023
    PROVE  /\ Mantissa(a) \in Nat /\ Mantissa(a) >= 65536 /\ Mantissa(a) <= 131071
           /\ Mantissa(a) * a <= 67108864 + 3
           /\ Mantissa(a) * a >= 67108864 - a
           /\ a > 512 => Mantissa(a) = (Quotient34(a) + 1) \div 256
           /\ a = 512 => Mantissa(a) = 131071
<1>. DEFINE i == a - 512
<1>1. i \in 0 .. 511 /\ (i = 0 <=> a = 512) /\ i + 512 = a
  BY SMT
<1>2. Mantissa(a) = 65536 + (IF i = 0 THEN 65535 ELSE ((Quotient34(a) + 1) \div 256) % 65536)
  <2>1. Divider!reciprocals[i] =
            IF ~Powered THEN 0 ELSE IF i = 0 THEN 65535
            ELSE ((16 * (Power[30] \div (i + 512)) + (16 * (Power[30] % (i + 512))) \div (i + 512) + 1)
                     \div 256) % 65536
    <3>. HIDE DEF i
    <3>. QED BY SMT, <1>1, DividerPower DEF Divider!reciprocals
  <2>2. Divider!reciprocals[i] =
            IF i = 0 THEN 65535
            ELSE ((16 * (1073741824 \div a) + (16 * (1073741824 % a)) \div a + 1) \div 256) % 65536
    <3>1. Power[30] = 1073741824
        BY SMT, PowerValues
    <3>. HIDE DEF i
    <3>. QED BY SMT, <1>1, <2>1, <3>1
  <2>. HIDE DEF i
  <2>. QED BY SMT, <2>2 DEF Mantissa, Quotient34, i
<1>3. CASE a = 512
  BY SMT, <1>1, <1>2, <1>3
<1>4. CASE a > 512
  <2>. DEFINE b == Quotient34(a)
              m == (b + 1) \div 256
  <2>1. b \in Int /\ b * a <= 17179869184 /\ 17179869184 < (b + 1) * a
      BY SMT, Quotient34Facts
  <2>. HIDE DEF b
  <2>2. m \in Int /\ 256 * m <= b + 1 /\ b + 1 < 256 * m + 256
      BY SMT, <2>1
  <2>. HIDE DEF m
  <2>3. b < 33554431
    <3>1. (b - 33554431) * a = b * a - 33554431 * a /\ b - 33554431 \in Int
        BY SMT, <2>1
    <3>2. (b - 33554431) * a <= 17179869184 - 33554431 * 513
        BY SMT, <1>4, <2>1, <3>1
    <3>3. ~(b - 33554431 >= 1) /\ b - 33554431 # 0
        BY SMT, <3>1, <3>2, Multiples
    <3>. QED BY SMT, <2>1, <3>3
  <2>4. b >= 16777216
    <3>1. (b + 1 - 16777216) * a = (b + 1) * a - 16777216 * a /\ b + 1 - 16777216 \in Int
        BY SMT, <2>1
    <3>2. (b + 1 - 16777216) * a > 17179869184 - 16777216 * 1024
        BY SMT, <2>1, <3>1
    <3>3. ~(b + 1 - 16777216 <= -1) /\ b + 1 - 16777216 # 0
        BY SMT, <3>1, <3>2, Multiples
    <3>. QED BY SMT, <2>1, <3>3
  <2>5. m \in Nat /\ m >= 65536 /\ m <= 131071
      BY SMT, <2>1, <2>2, <2>3, <2>4
  <2>6. Mantissa(a) = m
      BY SMT, <1>1, <1>2, <1>4, <2>5 DEF m, b
  <2>7. m * a <= 67108864 + 3
    <3>1. (256 * m) * a <= (b + 1) * a
        BY SMT, <2>1, <2>2
    <3>2. (b + 1) * a = b * a + a /\ (256 * m) * a = 256 * (m * a)
        BY SMT, <2>1, <2>2
    <3>3. m * a \in Int
        BY SMT, <2>2
    <3>. QED BY SMT, <2>1, <3>1, <3>2, <3>3
  <2>8. m * a >= 67108864 - a
    <3>1. (b + 1) * a <= (256 * m + 256) * a
        BY SMT, <2>1, <2>2
    <3>2. (256 * m + 256) * a = 256 * (m * a) + 256 * a
        BY SMT, <2>2
    <3>3. m * a \in Int
        BY SMT, <2>2
    <3>. QED BY SMT, <2>1, <3>1, <3>2, <3>3
  <2>. QED BY SMT, <1>4, <2>5, <2>6, <2>7, <2>8 DEF m, b
<1>. QED BY SMT, <1>3, <1>4

(* A larger number has a smaller mantissa.                                 *)
LEMMA MantissaFalls ==
    ASSUME Powered = TRUE, NEW a \in 512 .. 1023, NEW c \in 512 .. 1023, a <= c
    PROVE  Mantissa(c) <= Mantissa(a)
<1>1. CASE a = 512
  BY SMT, <1>1, MantissaFacts
<1>2. CASE a > 512
  <2>. DEFINE p == Quotient34(a)
              q == Quotient34(c)
  <2>1. /\ p \in Int /\ 17179869184 < (p + 1) * a
        /\ q \in Int /\ q * c <= 17179869184
      BY SMT, Quotient34Facts
  <2>. HIDE DEF p, q
  <2>2. q >= 0 => q * a <= q * c
      BY SMT, <2>1
  <2>3. q <= p
    <3>1. CASE q < 0
      <4>1. ~(p + 1 <= -1) /\ p + 1 # 0
          BY SMT, <2>1, Multiples
      <4>. QED BY SMT, <2>1, <3>1, <4>1
    <3>2. CASE q >= 0
      <4>1. (p + 1 - q) * a = (p + 1) * a - q * a /\ p + 1 - q \in Int
          BY SMT, <2>1
      <4>2. ~(p + 1 - q <= -1) /\ p + 1 - q # 0
        <5>1. q * a <= 17179869184
          <6>1. q * a \in Int /\ q * c \in Int
              BY SMT, <2>1
          <6>2. q * a <= q * c
              BY SMT, <2>2, <3>2
          <6>3. q * c <= 17179869184
              BY <2>1
          <6>. DEFINE qa == q * a
                      qc == q * c
          <6>4. qa \in Int /\ qc \in Int /\ qa <= qc /\ qc <= 17179869184
              BY <6>1, <6>2, <6>3
          <6>. HIDE DEF qa, qc
          <6>5. qa <= 17179869184
              BY SMT, <6>4
          <6>. QED BY <6>5 DEF qa
        <5>2. (p + 1 - q) * a >= 1
            BY SMT, <2>1, <4>1, <5>1
        <5>. QED BY SMT, <4>1, <5>2, Multiples
      <4>. QED BY SMT, <2>1, <4>2
    <3>. QED BY SMT, <2>1, <3>1, <3>2
  <2>4. (q + 1) \div 256 <= (p + 1) \div 256
      BY SMT, <2>1, <2>3
  <2>. QED BY SMT, <1>2, <2>4, MantissaFacts DEF p, q
<1>. QED BY SMT, <1>1, <1>2

(* One bit of the search for a root: it is taken if the square stays small.*)
Closer(a, b, k) == IF Divider!Below44(a, b + Power[k]) THEN b + Power[k] ELSE b

(* The search takes a bit after another, from the 17th down.               *)
LEMMA RootRecursion ==
    ASSUME NEW a \in Nat
    PROVE  \E guess : /\ Divider!Root(a) = guess[17] /\ guess[0] = Power[17]
                      /\ \A n \in 0 .. 16 : guess[n + 1] = Closer(a, guess[n], 16 - n)
<1>. DEFINE Body(g, n) == IF n = 0 THEN Power[17]
                          ELSE IF Divider!Below44(a, g[n - 1] + Power[17 - n])
                               THEN g[n - 1] + Power[17 - n] ELSE g[n - 1]
            Recursive(g) == g = [n \in 0 .. 17 |-> Body(g, n)]
            Next1(n, b) == IF n <= 16 THEN Closer(a, b, 16 - n) ELSE b
            step == [x \in Nat \X Nat |-> Next1(x[1], x[2])]
<1>1. \A n, b \in Nat : Next1(n, b) \in Nat
  <2>1. ASSUME NEW n \in Nat, NEW b \in Nat
        PROVE  Next1(n, b) \in Nat
    <3>1. CASE n <= 16
      <4>1. 16 - n \in Nat
          BY SMT, <3>1
      <4>2. b + Power[16 - n] \in Nat
          BY SMT, <4>1, PowerFacts
      <4>3. Closer(a, b, 16 - n) \in Nat
          BY <4>2, Zenon DEF Closer
      <4>. QED BY <3>1, <4>3
    <3>2. CASE ~(n <= 16)
        BY <3>2
    <3>. QED BY <3>1, <3>2
  <2>. HIDE DEF Next1
  <2>. QED BY <2>1
<1>2. step \in Steps(Nat) /\ Power[17] \in Nat
  <2>1. \A x \in Nat \X Nat : Next1(x[1], x[2]) \in Nat
    <3>. HIDE DEF Next1
    <3>. QED BY SMT, <1>1
  <2>2. Power[17] \in Nat
      BY SMT, PowerFacts
  <2>. HIDE DEF Next1
  <2>. QED BY <2>1, <2>2 DEF Steps
<1>3. \A n, b \in Nat : step[<<n, b>>] = Next1(n, b)
  <2>. HIDE DEF Next1
  <2>. QED BY SMT
<1>4. PICK f : Follows(f, Nat, Power[17], step)
  <2>. HIDE DEF step
  <2>. QED BY <1>2, RecursionExists, Zenon
<1>5. f \in [Nat -> Nat] /\ f[0] = Power[17] /\ \A n \in Nat : f[n + 1] = Next1(n, f[n])
  <2>. HIDE DEF step, Next1
  <2>. QED BY <1>3, <1>4 DEF Follows
<1>. DEFINE g == [n \in 0 .. 17 |-> f[n]]
<1>6. \A n \in 0 .. 17 : g[n] = Body(g, n)
  <2>. SUFFICES ASSUME NEW n \in 0 .. 17
                PROVE  g[n] = Body(g, n)
      OBVIOUS
  <2>1. g[n] = f[n]
      OBVIOUS
  <2>2. CASE n = 0
      BY <1>5, <2>1, <2>2
  <2>3. CASE n # 0
    <3>1. n - 1 \in 0 .. 16 /\ n - 1 \in Nat /\ (n - 1) + 1 = n /\ 16 - (n - 1) = 17 - n
        BY SMT, <2>3
    <3>2. f[n] = Next1(n - 1, f[n - 1]) /\ g[n - 1] = f[n - 1]
      <4>. HIDE DEF Next1
      <4>. QED BY SMT, <1>5, <3>1
    <3>3. f[n] = Closer(a, g[n - 1], 17 - n)
        BY SMT, <3>1, <3>2
    <3>. HIDE DEF g
    <3>. QED BY Zenon, <2>1, <2>3, <3>3 DEF Closer
  <2>. QED BY <2>2, <2>3
<1>7. Recursive(g)
  <2>1. g = [n \in 0 .. 17 |-> g[n]]
      BY Zenon
  <2>. HIDE DEF Body, g
  <2>. QED BY <1>6, <2>1
<1>. DEFINE guess == CHOOSE h : Recursive(h)
<1>8. Recursive(guess)
  <2>. HIDE DEF Recursive
  <2>. QED BY <1>7, Zenon
<1>9. Divider!Root(a) = guess[17]
  BY DividerPower, Zenon DEF Divider!Root
<1>. HIDE DEF guess, g
<1>10. \A n \in 0 .. 17 : guess[n] = Body(guess, n)
  <2>. HIDE DEF Body
  <2>. QED BY <1>8
<1>11. guess[0] = Power[17]
  BY <1>10
<1>12. ASSUME NEW n \in 0 .. 16
       PROVE  guess[n + 1] = Closer(a, guess[n], 16 - n)
  <2>1. n + 1 \in 0 .. 17 /\ n + 1 # 0 /\ (n + 1) - 1 = n /\ 17 - (n + 1) = 16 - n
      BY SMT
  <2>2. guess[n + 1] = Body(guess, n + 1)
    <3>. HIDE DEF Body
    <3>. QED BY <1>10, <2>1
  <2>. QED BY <2>1, <2>2 DEF Closer
<1>. QED BY <1>9, <1>11, <1>12

(* The comparison in parts is the comparison with 2^44.                    *)
LEMMA Below44Facts ==
    ASSUME NEW a \in Nat, NEW b \in Nat
    PROVE  Divider!Below44(a, b) <=> a * (b * b) < 17592186044416
<1>. DEFINE p == b \div 512
            q == b % 512
            A == a * p * p
            B == 2 * a * p * q
            C == a * q * q
<1>1. p \in Nat /\ q \in Nat /\ b = 512 * p + q
  BY SMT
<1>2. Divider!Below44(a, b) <=> A + (B + C \div 512) \div 512 < Power[26]
  <2>1. Divider!Below44(a, b) <=> A + (B + C \div 512) \div 512 < Divider!Power[26]
      BY Zenon DEF Divider!Below44
  <2>2. Divider!Power[26] = Power[26]
      BY DividerPower, Zenon
  <2>. HIDE DEF A, B, C
  <2>. QED BY Zenon, <2>1, <2>2
<1>3. Power[26] = 67108864
  BY SMT, PowerValues
<1>. HIDE DEF p, q
<1>4. A \in Nat /\ B \in Nat /\ C \in Nat
  BY SMT, <1>1
<1>5. a * (b * b) = 262144 * A + 512 * B + C
  <2>1. b * b = 262144 * (p * p) + 1024 * (p * q) + q * q
      BY SMT, <1>1
  <2>2. p * p \in Nat /\ p * q \in Nat /\ q * q \in Nat
      BY SMT, <1>1
  <2>. DEFINE pp == p * p
              pq == p * q
              qq == q * q
  <2>3. A = a * pp /\ B = 2 * (a * pq) /\ C = a * qq
      BY SMT, <1>1
  <2>4. pp \in Nat /\ pq \in Nat /\ qq \in Nat /\ b * b = 262144 * pp + 1024 * pq + qq
      BY <2>1, <2>2
  <2>. HIDE DEF pp, pq, qq, A, B, C
  <2>5. a * (262144 * pp + 1024 * pq + qq) = 262144 * (a * pp) + 1024 * (a * pq) + a * qq
      BY SMT, <2>4
  <2>6. a * pp \in Nat /\ a * pq \in Nat /\ a * qq \in Nat
      BY SMT, <2>4
  <2>. QED BY SMT, <2>3, <2>4, <2>5, <2>6
<1>. HIDE DEF A, B, C
<1>6. A + (B + C \div 512) \div 512 < 67108864 <=> 262144 * A + 512 * B + C < 17592186044416
  BY SMT, <1>4
<1>. QED BY SMT, <1>2, <1>3, <1>5, <1>6

(* A root of 2^44 / a.                                                     *)
IsRoot(a, b) ==
    /\ b \in Nat /\ b >= 131072 /\ b <= 262143
    /\ a * (b * b) < 17592186044416
    /\ a * ((b + 1) * (b + 1)) >= 17592186044416

(* The search ends at the root.                                            *)
LEMMA RootFacts ==
    ASSUME NEW a \in 256 .. 1022
    PROVE  IsRoot(a, Divider!Root(a))
<1>1. PICK guess : /\ Divider!Root(a) = guess[17] /\ guess[0] = Power[17]
                   /\ \A n \in 0 .. 16 : guess[n + 1] = Closer(a, guess[n], 16 - n)
  BY SMT, RootRecursion
<1>. DEFINE Near(b, u) ==
                /\ b \in Nat /\ b >= 131072 /\ b + u <= 262144
                /\ a * (b * b) < 17592186044416
                /\ a * ((b + u) * (b + u)) >= 17592186044416
            T == {n \in Nat : n <= 17 => Near(guess[n], Power[17 - n])}
<1>2. 0 \in T
  <2>1. guess[0] = 131072 /\ Power[17 - 0] = 131072
      BY SMT, <1>1, PowerValues
  <2>2. Near(131072, 131072)
      BY SMT
  <2>. HIDE DEF Near
  <2>. QED BY SMT, <2>1, <2>2
<1>3. ASSUME NEW n \in Nat, n \in T
      PROVE  n + 1 \in T
  <2>. SUFFICES ASSUME n + 1 <= 17
                PROVE  Near(guess[n + 1], Power[17 - (n + 1)])
      <3>. HIDE DEF Near
      <3>. QED BY SMT
  <2>1. n \in 0 .. 16 /\ 16 - n \in Nat /\ (16 - n) + 1 = 17 - n /\ 17 - (n + 1) = 16 - n
      BY SMT
  <2>. DEFINE b == guess[n]
              u == Power[16 - n]
              c == b + u
  <2>2. u \in Nat /\ u >= 1 /\ Power[17 - n] = 2 * u
      BY SMT, <2>1, PowerFacts
  <2>3. Near(b, 2 * u)
    <3>1. Near(guess[n], Power[17 - n])
      <4>. HIDE DEF Near
      <4>. QED BY SMT, <1>3, <2>1
    <3>. HIDE DEF Near
    <3>. QED BY SMT, <2>2, <3>1
  <2>4. guess[n + 1] = IF Divider!Below44(a, c) THEN c ELSE b
      BY <1>1, <2>1 DEF Closer
  <2>. HIDE DEF b, u
  <2>5. c \in Nat /\ c + u = b + 2 * u
      BY SMT, <2>2, <2>3
  <2>6. Divider!Below44(a, c) <=> a * (c * c) < 17592186044416
      BY SMT, <2>5, Below44Facts
  <2>7. a * (c * c) \in Int
      BY SMT, <2>5
  <2>8. Near(guess[n + 1], u)
    <3>. HIDE DEF c
    <3>1. CASE Divider!Below44(a, c)
      <4>1. guess[n + 1] = c /\ a * (c * c) < 17592186044416
          BY <2>4, <2>6, <3>1
      <4>2. a * ((c + u) * (c + u)) >= 17592186044416
          BY <2>3, <2>5
      <4>3. c >= 131072 /\ c + u <= 262144
          BY SMT, <2>2, <2>3, <2>5
      <4>. QED BY <2>5, <4>1, <4>2, <4>3
    <3>2. CASE ~Divider!Below44(a, c)
      <4>1. guess[n + 1] = b /\ ~(a * (c * c) < 17592186044416)
          BY <2>4, <2>6, <3>2
      <4>2. a * (c * c) >= 17592186044416
          BY SMT, <2>7, <4>1
      <4>3. b + u <= 262144
          BY SMT, <2>2, <2>3
      <4>. QED BY <2>3, <4>1, <4>2, <4>3 DEF c
    <3>. QED BY <3>1, <3>2
  <2>. QED BY <2>1, <2>8 DEF u
<1>4. 17 \in T
  <2>1. \A n \in Nat : n \in T
    <3>. HIDE DEF T
    <3>. QED BY SMT, <1>2, <1>3, SetInduction
  <2>. HIDE DEF T
  <2>. QED BY SMT, <2>1
<1>5. Near(guess[17], 1)
  <2>1. Near(guess[17], Power[17 - 17])
    <3>. HIDE DEF Near
    <3>. QED BY SMT, <1>4
  <2>2. Power[17 - 17] = 1
    <3>1. 17 - 17 = 0
        BY SMT
    <3>. QED BY <3>1, PowerFacts
  <2>. HIDE DEF Near
  <2>. QED BY SMT, <2>1, <2>2
<1>. DEFINE r == guess[17]
<1>6. r + 1 <= 262144 => r <= 262143
  <2>1. r \in Nat
      BY <1>5
  <2>. HIDE DEF r
  <2>. QED BY SMT, <2>1
<1>. HIDE DEF r
<1>7. IsRoot(a, r)
  BY <1>5, <1>6 DEF IsRoot, r
<1>. QED BY <1>1, <1>7 DEF r

(* Of two powers of two the greater one is at least twice the other.       *)
LEMMA PowersApart ==
    ASSUME NEW m \in Nat, NEW n \in Nat, Power[m] < Power[n]
    PROVE  2 * Power[m] <= Power[n]
<1>1. m < n
  <2>. SUFFICES ASSUME n <= m
                PROVE  FALSE
      BY SMT
  <2>1. PICK j \in Nat : m = n + j
    <3>1. m - n \in Nat /\ m = n + (m - n)
        BY SMT
    <3>. QED BY SMT, <3>1
  <2>2. Power[n + j] = Power[n] * Power[j]
      BY PowerSum
  <2>3. Power[n] \in Nat /\ Power[j] \in Nat /\ Power[j] >= 1
      BY SMT, PowerFacts
  <2>4. Power[n] * Power[j] >= Power[n]
      BY SMT, <2>3
  <2>. QED BY SMT, <2>1, <2>2, <2>3, <2>4
<1>2. PICK j \in Nat : n = (m + 1) + j
  <2>1. n - (m + 1) \in Nat /\ n = (m + 1) + (n - (m + 1))
      BY SMT, <1>1
  <2>. QED BY SMT, <2>1
<1>. DEFINE k == m + 1
<1>3. k \in Nat /\ Power[k] = 2 * Power[m] /\ Power[m] \in Nat
  BY SMT, PowerFacts
<1>4. n = k + j
  BY SMT, <1>2
<1>. HIDE DEF k
<1>5. Power[k + j] = Power[k] * Power[j]
  BY <1>3, PowerSum
<1>6. Power[k] \in Nat /\ Power[j] \in Nat /\ Power[j] >= 1
  BY SMT, <1>3, PowerFacts
<1>7. Power[k] * Power[j] >= Power[k]
  BY SMT, <1>6
<1>. QED BY SMT, <1>3, <1>4, <1>5, <1>6, <1>7

(* The number that a division returns for a positive operand.              *)
Inverse(x) == (Mantissa(Leading(x)) * 16384) \div Unit(x)

(* It is 2^31 / x to eight bits.                                           *)
LEMMA InverseFacts ==
    ASSUME Powered = TRUE, NEW x \in Nat, x >= 1, x < Power[31],
           NEW e \in Nat, e * x <= 1073741824, 1073741824 < (e + 1) * x
    PROVE  /\ Inverse(x) \in Nat /\ Inverse(x) <= 2147483647
           /\ Inverse(x) <= 2 * e + (2 * e) \div 256 + 2
           /\ Inverse(x) >= 2 * e - (2 * e) \div 256 - 2
<1>. DEFINE g == Unit(x)
            a == Leading(x)
            m == Mantissa(Leading(x))
            r == Inverse(x)
            K == (2 * e) \div 256
<1>1. g \in Nat /\ g >= 1 /\ g <= 1073741824
  BY SMT, UnitFacts, PowerValues
<1>2. a \in 512 .. 1023 /\ a * g <= 512 * x /\ 512 * x < (a + 1) * g
  BY SMT, LeadingFacts
<1>3. m \in Nat /\ m >= 65536 /\ m <= 131071 /\ m * a <= 67108867 /\ m * a >= 67108864 - a
  <2>. HIDE DEF a
  <2>1. /\ Mantissa(a) \in Nat /\ Mantissa(a) >= 65536 /\ Mantissa(a) <= 131071
        /\ Mantissa(a) * a <= 67108864 + 3
        /\ Mantissa(a) * a >= 67108864 - a
      BY SMT, <1>2, MantissaFacts
  <2>2. m = Mantissa(a)
      BY DEF a
  <2>. HIDE DEF m
  <2>. QED BY SMT, <2>1, <2>2
<1>4. r \in Int /\ r * g <= m * 16384 /\ m * 16384 < (r + 1) * g /\ r >= 0
  <2>1. r = (m * 16384) \div g
      BY DEF Inverse
  <2>2. m * 16384 \in Int /\ m * 16384 >= 0
    <3>. HIDE DEF m
    <3>. QED BY SMT, <1>3
  <2>. HIDE DEF m, g
  <2>. DEFINE p == m * 16384
              q == p \div g
  <2>3. p \in Int /\ p >= 0 /\ r = q
      BY <2>1, <2>2
  <2>. HIDE DEF p, r
  <2>4. q \in Int /\ q * g <= p /\ p < (q + 1) * g /\ q >= 0
      BY SMT, <1>1, <2>3, QuotientIn
  <2>. HIDE DEF q
  <2>. QED BY <2>3, <2>4 DEF p
<1>5. K \in Nat /\ 256 * K <= 2 * e /\ 2 * e < 256 * K + 256
  BY SMT
<1>. HIDE DEF g, a, m, r, K
<1>6. r \in Nat /\ r <= 2147467264
  <2>1. r * g \in Int /\ r <= r * g
      BY SMT, <1>1, <1>4
  <2>2. m * 16384 <= 2147467264
      BY SMT, <1>3
  <2>. DEFINE rg == r * g
              n == m * 16384
  <2>3. rg \in Int /\ n \in Int /\ r <= rg /\ rg <= n /\ n <= 2147467264
    <3>1. n \in Int
        BY SMT, <1>3
    <3>. QED BY <1>4, <2>1, <2>2, <3>1
  <2>. HIDE DEF rg, n
  <2>. QED BY SMT, <1>4, <2>3
\* The products that the bounds are about.
<1>. DEFINE P == a * g
            rP == r * P
            eP == e * P
            KP == K * P
            eg == e * g
            Kg == K * g
            M == m * a
<1>7. /\ P \in Nat /\ rP \in Nat /\ eP \in Nat /\ KP \in Nat /\ eg \in Nat /\ Kg \in Nat /\ M \in Nat
  <2>1. P \in Nat
      BY SMT, <1>1, <1>2
  <2>. HIDE DEF P
  <2>. QED BY SMT, <1>1, <1>2, <1>3, <1>5, <1>6, <2>1
<1>8. M <= 67108867 /\ M >= 67108864 - a
  BY <1>3
<1>9. rP <= 16384 * M /\ 16384 * M < rP + P
  <2>1. a * (r * g) = rP /\ a * ((r + 1) * g) = rP + P /\ a * (m * 16384) = 16384 * M
      BY SMT, <1>1, <1>2, <1>3, <1>6
  <2>2. a * (r * g) <= a * (m * 16384)
      BY SMT, <1>1, <1>2, <1>3, <1>4, <1>6
  <2>3. a * (m * 16384) < a * ((r + 1) * g)
    <3>. DEFINE u == m * 16384
                v == (r + 1) * g
    <3>1. u \in Int /\ v \in Int /\ u < v
        BY SMT, <1>1, <1>3, <1>4, <1>6
    <3>. HIDE DEF u, v
    <3>2. a * u < a * v
        BY SMT, <1>2, <3>1
    <3>. QED BY <3>2 DEF u, v
  <2>. HIDE DEF rP, M, P
  <2>. QED BY <2>1, <2>2, <2>3
<1>10. (a + 1) * g = P + g /\ P + g <= 1024 * g /\ P >= 512 * g
  BY SMT, <1>1, <1>2
<1>11. eP + eg + P + g > 549755813888
  <2>. DEFINE ex == (e + 1) * x
  <2>1. ex \in Int /\ ex > 1073741824 /\ 512 * x < P + g
      BY SMT, <1>2, <1>10
  <2>2. (e + 1) * (512 * x) = 512 * ex
      BY SMT
  <2>3. (e + 1) * (P + g) = eP + eg + P + g
    <3>. HIDE DEF P
    <3>. QED BY SMT, <1>1, <1>7
  <2>4. (e + 1) * (512 * x) < (e + 1) * (P + g)
    <3>. DEFINE u == 512 * x
                v == P + g
    <3>1. u \in Int /\ v \in Int /\ u < v
      <4>. HIDE DEF P
      <4>. QED BY SMT, <1>1, <1>7, <2>1
    <3>. HIDE DEF u, v
    <3>2. (e + 1) * u < (e + 1) * v
        BY SMT, <3>1
    <3>. QED BY <3>2 DEF u, v
  <2>. HIDE DEF ex, P, eP, eg
  <2>. QED BY SMT, <1>1, <1>7, <2>1, <2>2, <2>3, <2>4
<1>12. eg + g > 536870912
  <2>1. e * (P + g) <= e * (1024 * g)
    <3>. DEFINE u == 1024 * g
                v == P + g
    <3>1. u \in Int /\ v \in Int /\ v <= u
      <4>. HIDE DEF P
      <4>. QED BY SMT, <1>1, <1>7, <1>10
    <3>. HIDE DEF u, v
    <3>2. e * v <= e * u
        BY SMT, <3>1
    <3>. QED BY <3>2 DEF u, v
  <2>2. e * (P + g) = eP + eg /\ e * (1024 * g) = 1024 * eg
    <3>. HIDE DEF P
    <3>. QED BY SMT, <1>1, <1>7
  <2>. HIDE DEF P, eP, eg
  <2>. QED BY SMT, <1>1, <1>7, <1>10, <1>11, <2>1, <2>2
<1>13. 256 * Kg <= 2 * eg /\ 2 * eg + 2 * g <= 256 * Kg + 256 * g + g
  <2>1. (256 * K) * g <= (2 * e) * g
      BY SMT, <1>1, <1>5
  <2>2. (2 * e + 1) * g <= (256 * K + 256) * g
      BY SMT, <1>1, <1>5
  <2>3. (256 * K) * g = 256 * Kg /\ (2 * e) * g = 2 * eg /\ (2 * e + 1) * g = 2 * eg + g
        /\ (256 * K + 256) * g = 256 * Kg + 256 * g
      BY SMT, <1>1, <1>5
  <2>. HIDE DEF Kg, eg
  <2>. QED BY SMT, <1>1, <1>7, <2>1, <2>2, <2>3
<1>14. KP >= 512 * Kg
  <2>1. K * P >= K * (512 * g)
    <3>. HIDE DEF P
    <3>. DEFINE u == 512 * g
    <3>1. u \in Nat /\ P >= u
        BY SMT, <1>1, <1>10
    <3>. HIDE DEF u
    <3>2. K * P >= K * u
        BY SMT, <1>5, <1>7, <3>1
    <3>. QED BY <3>2 DEF u
  <2>2. K * (512 * g) = 512 * Kg
      BY SMT, <1>1, <1>5
  <2>. HIDE DEF P
  <2>. QED BY SMT, <2>1, <2>2
<1>15. e = 0 => eg = 0 /\ Kg = 0 /\ KP = 0
  <2>1. e = 0 => K = 0
      BY SMT, <1>5
  <2>. HIDE DEF P
  <2>. QED BY SMT, <1>1, <1>5, <1>7, <2>1
<1>16. e # 0 => eg >= g
  BY SMT, <1>1
<1>17. r <= 2 * e + K + 2
  <2>. SUFFICES ASSUME r >= 2 * e + K + 3
                PROVE  FALSE
      BY SMT, <1>5, <1>6
  <2>1. (2 * e + K + 3) * P <= r * P
    <3>. DEFINE u == 2 * e + K + 3
    <3>1. u \in Nat /\ u <= r
        BY SMT, <1>5
    <3>. HIDE DEF u, P
    <3>2. u * P <= r * P
        BY SMT, <1>6, <1>7, <3>1
    <3>. QED BY <3>2 DEF u
  <2>2. (2 * e + K + 3) * P = 2 * eP + KP + 3 * P
    <3>. HIDE DEF P
    <3>. QED BY SMT, <1>5, <1>7
  <2>3. r * P = rP
      OBVIOUS
  <2>. HIDE DEF P, rP, eP, KP, eg, Kg, M
  <2>4. 2 * eP + KP + 3 * P <= 1099511627776 + 49152
      BY SMT, <1>7, <1>8, <1>9, <2>1, <2>2, <2>3
  <2>5. KP + P - 2 * eg - 2 * g < 49152
      BY SMT, <1>1, <1>7, <1>11, <2>4
  <2>6. 2 * eg < 49152
      BY SMT, <1>1, <1>7, <1>10, <1>13, <1>14, <2>5
  <2>7. CASE e # 0
      BY SMT, <1>1, <1>7, <1>12, <1>16, <2>6, <2>7
  <2>8. CASE e = 0
      BY SMT, <1>1, <1>7, <1>10, <1>12, <1>15, <2>5, <2>8
  <2>. QED BY <2>7, <2>8
<1>18. r >= 2 * e - K - 2
  <2>. SUFFICES ASSUME r + 1 <= 2 * e - K - 2
                PROVE  FALSE
      BY SMT, <1>5, <1>6
  <2>1. (r + 1) * P <= (2 * e - K - 2) * P
    <3>. DEFINE u == 2 * e - K - 2
    <3>1. u \in Int /\ r + 1 <= u
        BY SMT, <1>5
    <3>. HIDE DEF u, P
    <3>2. (r + 1) * P <= u * P
        BY SMT, <1>6, <1>7, <3>1
    <3>. QED BY <3>2 DEF u
  <2>2. (2 * e - K - 2) * P = 2 * eP - KP - 2 * P /\ (r + 1) * P = rP + P
    <3>. HIDE DEF P
    <3>. QED BY SMT, <1>5, <1>6, <1>7
  <2>3. eP <= 549755813888
    <3>1. e * P <= e * (512 * x)
      <4>. DEFINE u == 512 * x
      <4>1. u \in Nat /\ P <= u
          BY SMT, <1>2
      <4>. HIDE DEF u, P
      <4>2. e * P <= e * u
          BY SMT, <1>7, <4>1
      <4>. QED BY <4>2 DEF u
    <3>2. e * (512 * x) = 512 * (e * x) /\ e * x \in Int
        BY SMT
    <3>. HIDE DEF P
    <3>. DEFINE ex == e * x
    <3>3. ex \in Int /\ ex <= 1073741824 /\ eP <= 512 * ex
        BY <3>1, <3>2
    <3>. HIDE DEF ex, eP
    <3>. QED BY SMT, <1>7, <3>3
  <2>. HIDE DEF P, rP, eP, KP, eg, Kg, M
  <2>4. 1099511627776 - 16384 * a < 2 * eP - KP - 2 * P
      BY SMT, <1>2, <1>7, <1>8, <1>9, <2>1, <2>2
  <2>5. KP + 2 * P < 16384 * a
      BY SMT, <1>2, <1>7, <2>3, <2>4
  <2>6. (Kg + 2 * g) * a = KP + 2 * P
    <3>1. KP = Kg * a /\ P = g * a
      <4>. USE DEF KP, P, Kg
      <4>. QED BY SMT, <1>1, <1>2, <1>5
    <3>. QED BY SMT, <1>1, <1>2, <1>7, <3>1
  <2>7. Kg + 2 * g < 16384
    <3>. DEFINE u == 16384 - (Kg + 2 * g)
    <3>1. u \in Int
        BY SMT, <1>1, <1>7
    <3>2. u * a = 16384 * a - (KP + 2 * P)
      <4>1. u * a = 16384 * a - (Kg + 2 * g) * a
          BY SMT, <1>1, <1>2, <1>7
      <4>. HIDE DEF u
      <4>. QED BY SMT, <1>1, <1>2, <1>7, <2>6, <4>1
    <3>3. a \in Nat /\ a >= 1
        BY SMT, <1>2
    <3>. HIDE DEF u
    <3>4. u * a >= 1
        BY SMT, <1>2, <1>7, <2>5, <3>2
    <3>5. ~(u <= -1) /\ u # 0
        BY SMT, <3>1, <3>3, <3>4, Multiples
    <3>6. u >= 1
        BY SMT, <3>1, <3>5
    <3>. QED BY SMT, <1>1, <1>7, <3>6 DEF u
  <2>. QED BY SMT, <1>1, <1>7, <1>12, <1>13, <2>7
<1>. QED BY SMT, <1>5, <1>6, <1>17, <1>18 DEF r, K

(* A larger operand has no larger reciprocal.                              *)
LEMMA InverseFalls ==
    ASSUME Powered = TRUE, NEW x \in Nat, x >= 1, x <= Power[30]
    PROVE  Inverse(x + 1) <= Inverse(x)
<1>. DEFINE y == x + 1
            g == Unit(x)
            h == Unit(y)
            a == Leading(x)
            c == Leading(y)
            m == Mantissa(a)
            n == Mantissa(c)
<1>1. y \in Nat /\ y >= 1 /\ y < Power[31] /\ x < Power[31]
  BY SMT, PowerValues
<1>. HIDE DEF y
<1>2. /\ g \in Nat /\ g >= 1 /\ g <= x /\ x < 2 * g
      /\ h \in Nat /\ h >= 1 /\ h <= y /\ y < 2 * h
  BY SMT, <1>1, UnitFacts
<1>3. /\ a \in 512 .. 1023 /\ a * g <= 512 * x
      /\ c \in 512 .. 1023 /\ 512 * y < (c + 1) * h
  BY SMT, <1>1, LeadingFacts
<1>. HIDE DEF a, c
<1>4. m \in Nat /\ m >= 65536 /\ n \in Nat /\ n <= 131071
  BY SMT, <1>3, MantissaFacts
<1>5. Inverse(x) = (m * 16384) \div g /\ Inverse(y) = (n * 16384) \div h
  BY DEF Inverse, a, c
<1>6. g < h => 2 * g <= h
  <2>1. PICK i \in Nat : g = Power[i]
    <3>1. Divider!Length(x) - 1 \in Nat
        BY SMT, <1>1, LengthFacts
    <3>. QED BY <3>1 DEF Unit
  <2>2. PICK j \in Nat : h = Power[j]
    <3>1. Divider!Length(y) - 1 \in Nat
        BY SMT, <1>1, LengthFacts
    <3>. QED BY <3>1 DEF Unit
  <2>3. Power[i] < Power[j] => 2 * Power[i] <= Power[j]
      BY PowersApart
  <2>. QED BY <2>1, <2>2, <2>3
<1>7. h < g => 2 * h <= g
  <2>1. PICK i \in Nat : g = Power[i]
    <3>1. Divider!Length(x) - 1 \in Nat
        BY SMT, <1>1, LengthFacts
    <3>. QED BY <3>1 DEF Unit
  <2>2. PICK j \in Nat : h = Power[j]
    <3>1. Divider!Length(y) - 1 \in Nat
        BY SMT, <1>1, LengthFacts
    <3>. QED BY <3>1 DEF Unit
  <2>3. Power[j] < Power[i] => 2 * Power[j] <= Power[i]
      BY PowersApart
  <2>. QED BY <2>1, <2>2, <2>3
<1>. HIDE DEF g, h
<1>8. h >= g
  BY SMT, <1>2, <1>7 DEF y
<1>9. CASE h = g
  <2>1. a <= c
    <3>1. (c + 1 - a) * g = (c + 1) * g - a * g /\ c + 1 - a \in Int
        BY SMT, <1>2, <1>3
    <3>2. (c + 1 - a) * g >= 1
      <4>. DEFINE u == (c + 1) * g
                  v == a * g
      <4>1. u \in Int /\ v \in Int /\ v <= 512 * x /\ 512 * y < u
          BY SMT, <1>2, <1>3, <1>9
      <4>2. (c + 1 - a) * g = u - v
          BY <3>1
      <4>. HIDE DEF u, v
      <4>. QED BY SMT, <4>1, <4>2 DEF y
    <3>3. ~(c + 1 - a <= -1) /\ c + 1 - a # 0
        BY SMT, <1>2, <3>1, <3>2, Multiples
    <3>. QED BY SMT, <1>3, <3>1, <3>3
  <2>2. n <= m
    <3>1. Mantissa(c) <= Mantissa(a)
        BY <1>3, <2>1, MantissaFalls
    <3>. QED BY <3>1
  <2>. HIDE DEF m, n
  <2>3. n * 16384 \in Int /\ m * 16384 \in Int /\ n * 16384 <= m * 16384
      BY SMT, <1>4, <2>2
  <2>4. (n * 16384) \div g <= (m * 16384) \div g
      BY SMT, <1>2, <2>3, QuotientMonotone
  <2>. QED BY SMT, <1>5, <1>9, <2>4 DEF y
<1>10. CASE h > g
  <2>. HIDE DEF m, n
  <2>. DEFINE p == (m * 16384) \div g
              q == (n * 16384) \div h
  <2>1. m * 16384 \in Int /\ n * 16384 \in Int /\ n * 16384 >= 0
      BY SMT, <1>4
  <2>2. p \in Int /\ m * 16384 < (p + 1) * g
      BY SMT, <1>2, <2>1, QuotientIn
  <2>3. q \in Int /\ q >= 0 /\ q * h <= n * 16384
      BY SMT, <1>2, <2>1, QuotientIn
  <2>. HIDE DEF p, q
  <2>4. q * (2 * g) <= q * h /\ q * (2 * g) = 2 * (q * g) /\ q * g \in Int /\ q * h \in Int
      BY SMT, <1>2, <1>6, <1>10, <2>3
  <2>5. q * g < (p + 1) * g
    <3>. DEFINE qg == q * g
                qh == q * h
                pg == (p + 1) * g
    <3>1. qg \in Int /\ qh \in Int /\ pg \in Int
        BY SMT, <1>2, <2>2, <2>4
    <3>2. 2 * qg <= qh /\ qh <= n * 16384 /\ m * 16384 < pg
        BY SMT, <2>2, <2>3, <2>4
    <3>. HIDE DEF qg, qh, pg
    <3>3. qg < pg
        BY SMT, <1>4, <3>1, <3>2
    <3>. QED BY <3>3 DEF qg, pg
  <2>6. (p + 1 - q) * g = (p + 1) * g - q * g /\ p + 1 - q \in Int
      BY SMT, <1>2, <2>2, <2>3
  <2>7. (p + 1 - q) * g >= 1
      BY SMT, <1>2, <2>2, <2>3, <2>5, <2>6
  <2>8. ~(p + 1 - q <= -1) /\ p + 1 - q # 0
      BY SMT, <1>2, <2>6, <2>7, Multiples
  <2>9. q <= p
      BY SMT, <2>2, <2>3, <2>8
  <2>. QED BY <1>5, <2>9 DEF p, q, y
<1>. QED BY SMT, <1>2, <1>8, <1>9, <1>10

(* The number whose root the table holds for an operand, and the mantissa  *)
(* that it gives.                                                          *)
Radicand(x) ==
    LET half == Divider!Index(x) \div 2
    IN  IF Divider!Length(x) % 2 = 1 THEN 256 + half ELSE 512 + 2 * half
RootMantissa(x) == Divider!Root(Radicand(x)) \div 2

(* The entry that the divider takes is the one for that number.            *)
LEMMA RootEntry ==
    ASSUME Powered = TRUE, NEW x \in Nat, x >= 1, x < Power[31]
    PROVE  /\ Radicand(x) \in 256 .. 1022
           /\ 65536 + Divider!inverseSquareRoots[Divider!RootIndex(x)] = RootMantissa(x)
           /\ RootMantissa(x) \in Nat
           /\ RootMantissa(x) >= 65536 /\ RootMantissa(x) <= 131071
<1>. DEFINE length == Divider!Length(x)
            half == Divider!Index(x) \div 2
            i == Divider!RootIndex(x)
            a == Radicand(x)
            b == Divider!Root(a)
<1>1. length \in 1 .. 31 /\ half \in 0 .. 255
  <2>1. Divider!Index(x) \in 0 .. 511
    <3>1. Leading(x) \in 512 .. 1023 /\ Divider!Index(x) = Leading(x) - 512
        BY SMT, LeadingFacts
    <3>. QED BY SMT, <3>1
  <2>. QED BY SMT, <2>1, LengthFacts
<1>2. i = 2 * half + ((32 - length) % 2)
  BY Zenon DEF Divider!RootIndex
<1>3. a = IF length % 2 = 1 THEN 256 + half ELSE 512 + 2 * half
  BY Zenon DEF Radicand
<1>. HIDE DEF length, half, i, a
<1>4. i \in 0 .. 511 /\ a \in 256 .. 1022 /\ (i + 512) \div (1 + (i % 2)) = a
  <2>1. CASE length % 2 = 1
    <3>1. i = 2 * half + 1 /\ i % 2 = 1 /\ a = 256 + half
        BY SMT, <1>1, <1>2, <1>3, <2>1
    <3>2. (i + 512) \div 2 = a /\ 1 + (i % 2) = 2
        BY SMT, <1>1, <3>1
    <3>. QED BY SMT, <1>1, <3>1, <3>2
  <2>2. CASE length % 2 # 1
    <3>1. i = 2 * half /\ i % 2 = 0 /\ a = 512 + 2 * half
        BY SMT, <1>1, <1>2, <1>3, <2>2
    <3>2. (i + 512) \div 1 = a /\ 1 + (i % 2) = 1
        BY SMT, <1>1, <3>1
    <3>. QED BY SMT, <1>1, <3>1, <3>2
  <2>. QED BY <2>1, <2>2
<1>5. Divider!inverseSquareRoots[i] = (Divider!Root((i + 512) \div (1 + (i % 2))) \div 2) % 65536
  BY SMT, <1>4 DEF Divider!inverseSquareRoots
<1>6. Divider!inverseSquareRoots[i] = (b \div 2) % 65536
  BY SMT, <1>4, <1>5
<1>7. b \in Nat /\ b >= 131072 /\ b <= 262143
  BY SMT, <1>4, RootFacts DEF IsRoot
<1>. HIDE DEF b
<1>8. b \div 2 \in Nat /\ b \div 2 >= 65536 /\ b \div 2 <= 131071
      /\ 65536 + ((b \div 2) % 65536) = b \div 2
  BY SMT, <1>7
<1>. QED BY SMT, <1>4, <1>6, <1>8 DEF RootMantissa, a, b, i

(* Squared and multiplied it is 2^42.                                      *)
LEMMA RootMantissaSquared ==
    ASSUME Powered = TRUE, NEW x \in Nat, x >= 1, x < Power[31],
           NEW m \in Nat, m = RootMantissa(x)
    PROVE  /\ Radicand(x) * (m * m) < 4398046511104
           /\ Radicand(x) * ((m + 1) * (m + 1)) >= 4398046511104
<1>. DEFINE a == Radicand(x)
            b == Divider!Root(a)
<1>1. a \in 256 .. 1022 /\ m = b \div 2
  BY RootEntry DEF RootMantissa
<1>2. b \in Nat /\ a * (b * b) < 17592186044416
      /\ a * ((b + 1) * (b + 1)) >= 17592186044416
  BY SMT, <1>1, RootFacts DEF IsRoot
<1>. HIDE DEF a, b
<1>. DEFINE n == 2 * m
            k == m + 1
<1>3. n \in Nat /\ n <= b /\ b + 1 <= n + 2 /\ k \in Nat /\ n + 2 = 2 * k
  BY SMT, <1>1, <1>2
<1>4. n * n = 4 * (m * m) /\ (n + 2) * (n + 2) = 4 * (k * k)
  <2>1. (2 * k) * (2 * k) = 4 * (k * k)
      BY SMT, <1>3
  <2>. QED BY SMT, <1>3, <2>1
<1>5. n * n <= b * b
  <2>. HIDE DEF n
  <2>. QED BY SMT, <1>2, <1>3
<1>6. (b + 1) * (b + 1) <= (n + 2) * (n + 2)
  <2>. DEFINE u == b + 1
              v == n + 2
  <2>1. u \in Nat /\ v \in Nat /\ u <= v
      BY SMT, <1>2, <1>3
  <2>. HIDE DEF u, v
  <2>2. u * u <= v * v
      BY SMT, <2>1
  <2>. QED BY <2>2 DEF u, v
<1>. HIDE DEF n, k
<1>. DEFINE mm == m * m
            kk == k * k
            bb == b * b
            cc == (b + 1) * (b + 1)
<1>7. mm \in Nat /\ kk \in Nat /\ bb \in Nat /\ cc \in Nat
  BY SMT, <1>2, <1>3
<1>8. 4 * mm <= bb /\ cc <= 4 * kk
  BY <1>4, <1>5, <1>6
<1>9. a * bb < 17592186044416 /\ a * cc >= 17592186044416
  BY <1>2
<1>. HIDE DEF mm, kk, bb, cc
<1>10. a * (4 * mm) <= a * bb /\ a * cc <= a * (4 * kk)
  BY SMT, <1>1, <1>7, <1>8
<1>11. a * (4 * mm) = 4 * (a * mm) /\ a * (4 * kk) = 4 * (a * kk)
       /\ a * mm \in Nat /\ a * kk \in Nat /\ a * bb \in Nat /\ a * cc \in Nat
  BY SMT, <1>1, <1>7
<1>12. a * mm < 4398046511104 /\ a * kk >= 4398046511104
  BY SMT, <1>9, <1>10, <1>11
<1>. QED BY <1>12 DEF a, mm, kk, k

(* The power that a root is shifted by, squared, and the number.           *)
RootUnit(x) == Power[(Divider!Length(x) - 1) \div 2]

LEMMA RootUnitFacts ==
    ASSUME Powered = TRUE, NEW x \in Nat, x >= 1, x < Power[31],
           NEW h \in Nat, h = RootUnit(x)
    PROVE  /\ h >= 1
           /\ Radicand(x) * (h * h) <= 256 * x
           /\ 65536 * x < 257 * (Radicand(x) * (h * h))
<1>. DEFINE length == Divider!Length(x)
            index == Divider!Index(x)
            a == Leading(x)
            b == Radicand(x)
            g == Unit(x)
            H == h * h
<1>1. length \in 1 .. 31 /\ g = Power[length - 1] /\ h = Power[(length - 1) \div 2]
  BY SMT, LengthFacts DEF Unit, RootUnit
<1>2. /\ a \in 512 .. 1023 /\ index = a - 512
      /\ a * g <= 512 * x /\ 512 * x < (a + 1) * g
  BY SMT, LeadingFacts
<1>3. b = IF length % 2 = 1 THEN 256 + index \div 2 ELSE 512 + 2 * (index \div 2)
  BY Zenon DEF Radicand
<1>4. b \in 256 .. 1022
  BY RootEntry
<1>. HIDE DEF length, index, a, b, g
<1>5. PICK k \in Nat : k = (length - 1) \div 2
  BY SMT, <1>1
<1>6. h = Power[k] /\ h \in Nat /\ h >= 1
  BY SMT, <1>1, <1>5, PowerFacts
<1>7. Power[k + k] = H
  BY <1>6, PowerSum
<1>8. H \in Nat
  BY SMT
<1>. HIDE DEF H
<1>9. CASE length % 2 = 1
  <2>1. length - 1 = k + k /\ 2 * b <= a /\ a <= 2 * b + 1
      BY SMT, <1>1, <1>2, <1>3, <1>4, <1>5, <1>9
  <2>2. g = H
      BY <1>1, <1>7, <2>1
  <2>3. (2 * b) * H <= a * H /\ (a + 1) * H <= (2 * b + 2) * H
      BY SMT, <1>2, <1>4, <1>8, <2>1
  <2>4. (2 * b) * H = 2 * (b * H) /\ (2 * b + 2) * H = 2 * (b * H) + 2 * H /\ b * H >= 256 * H
        /\ b * H \in Nat /\ a * H \in Nat /\ (a + 1) * H \in Nat
      BY SMT, <1>2, <1>4, <1>8
  <2>5. a * H <= 512 * x /\ 512 * x < (a + 1) * H
      BY <1>2, <2>2
  <2>. DEFINE bH == b * H
              aH == a * H
              cH == (a + 1) * H
  <2>6. /\ bH \in Nat /\ aH \in Nat /\ cH \in Nat /\ bH >= 256 * H
        /\ 2 * bH <= aH /\ cH <= 2 * bH + 2 * H /\ aH <= 512 * x /\ 512 * x < cH
      BY <2>3, <2>4, <2>5
  <2>. HIDE DEF aH, bH, cH
  <2>7. bH <= 256 * x /\ 65536 * x < 257 * bH
      BY SMT, <1>8, <2>6
  <2>. QED BY <1>6, <2>7 DEF bH, H, b
<1>10. CASE length % 2 # 1
  <2>1. length - 1 = (k + k) + 1 /\ b <= a /\ a <= b + 1 /\ b >= 512
      BY SMT, <1>1, <1>2, <1>3, <1>4, <1>5, <1>10
  <2>2. g = 2 * H
    <3>1. k + k \in Nat
        BY SMT
    <3>2. Power[(k + k) + 1] = 2 * Power[k + k]
        BY <3>1, PowerFacts
    <3>. QED BY <1>1, <1>7, <2>1, <3>2
  <2>3. b * H <= a * H /\ (a + 1) * H <= (b + 2) * H
      BY SMT, <1>2, <1>4, <1>8, <2>1
  <2>4. (b + 2) * H = b * H + 2 * H /\ b * H >= 512 * H
        /\ b * H \in Nat /\ a * H \in Nat /\ (a + 1) * H \in Nat
      BY SMT, <1>2, <1>4, <1>8, <2>1
  <2>5. 2 * (a * H) <= 512 * x /\ 512 * x < 2 * ((a + 1) * H)
    <3>1. a * (2 * H) = 2 * (a * H) /\ (a + 1) * (2 * H) = 2 * ((a + 1) * H)
        BY SMT, <1>2, <1>8
    <3>. QED BY <1>2, <2>2, <3>1
  <2>. DEFINE bH == b * H
              aH == a * H
              cH == (a + 1) * H
  <2>6. /\ bH \in Nat /\ aH \in Nat /\ cH \in Nat /\ bH >= 512 * H
        /\ bH <= aH /\ cH <= bH + 2 * H /\ 2 * aH <= 512 * x /\ 512 * x < 2 * cH
      BY <2>3, <2>4, <2>5
  <2>. HIDE DEF aH, bH, cH
  <2>7. bH <= 256 * x /\ 65536 * x < 257 * bH
      BY SMT, <1>8, <2>6
  <2>. QED BY <1>6, <2>7 DEF bH, H, b
<1>. QED BY <1>9, <1>10

(* The number that a root returns for a positive operand.                  *)
InverseRoot(x) == (RootMantissa(x) * 16384) \div RootUnit(x)

(* Its upper half is 2^15 / sqrt(x) to eight bits.                         *)
LEMMA InverseRootFacts ==
    ASSUME Powered = TRUE, NEW x \in Nat, x >= 1, x < Power[31],
           NEW e \in Nat, e * x <= 1073741824, 1073741824 < (e + 1) * x,
           NEW u \in Int, u = InverseRoot(x) \div 65536
    PROVE  /\ InverseRoot(x) \in Nat /\ InverseRoot(x) <= 2147483647
           /\ u * u <= e + e \div 256 + 1
           /\ (u + 1) * (u + 1) >= e
<1>. DEFINE m == RootMantissa(x)
            h == RootUnit(x)
            b == Radicand(x)
            r == InverseRoot(x)
            p == m * 16384
<1>1. m \in Nat /\ m >= 65536 /\ m <= 131071 /\ b \in 256 .. 1022
  BY RootEntry
<1>2. h \in Nat /\ h >= 1
  <2>1. (Divider!Length(x) - 1) \div 2 \in Nat
      BY SMT, LengthFacts
  <2>2. h \in Nat
      BY SMT, <2>1, PowerFacts DEF RootUnit
  <2>. QED BY SMT, <2>2, RootUnitFacts
<1>3. b * (h * h) <= 256 * x /\ 65536 * x < 257 * (b * (h * h))
  BY <1>2, RootUnitFacts
<1>4. b * (m * m) < 4398046511104 /\ b * ((m + 1) * (m + 1)) >= 4398046511104
  BY <1>1, RootMantissaSquared
<1>5. r = p \div h
  BY DEF InverseRoot
<1>. HIDE DEF m, h, b, r
<1>6. p \in Nat /\ p <= 2147467264
  BY SMT, <1>1
<1>. HIDE DEF p
<1>7. r \in Nat /\ r * h <= p /\ p < (r + 1) * h
  BY SMT, <1>2, <1>5, <1>6, QuotientIn
<1>8. r <= 2147483647
  <2>1. r <= r * h /\ r * h \in Nat
      BY SMT, <1>2, <1>7
  <2>. DEFINE rh == r * h
  <2>2. rh \in Nat /\ r <= rh /\ rh <= p
      BY <1>7, <2>1
  <2>. HIDE DEF rh
  <2>. QED BY SMT, <1>6, <1>7, <2>2
<1>9. u \in Nat /\ 65536 * u <= r /\ r + 1 <= 65536 * u + 65536
  <2>1. u = r \div 65536
      BY DEF r
  <2>. QED BY SMT, <1>7, <2>1
\* The mantissa between two multiples of the unit.
<1>. DEFINE v == 4 * (u * h)
            k == u + 1
            w == 4 * (k * h)
<1>10. k \in Nat /\ v \in Nat /\ w \in Nat
  <2>1. k \in Nat
      BY SMT, <1>9
  <2>. HIDE DEF k
  <2>. QED BY SMT, <1>2, <1>9, <2>1
<1>11. v <= m
  <2>1. (65536 * u) * h <= r * h /\ (65536 * u) * h = 65536 * (u * h) /\ u * h \in Nat /\ r * h \in Nat
      BY SMT, <1>2, <1>7, <1>9
  <2>. DEFINE uh == u * h
              rh == r * h
  <2>2. uh \in Nat /\ rh \in Nat /\ 65536 * uh <= rh /\ rh <= m * 16384
      BY <1>7, <2>1 DEF p
  <2>3. v = 4 * uh
      OBVIOUS
  <2>. HIDE DEF uh, rh, v
  <2>. QED BY SMT, <1>1, <2>2, <2>3
<1>12. m + 1 <= w
  <2>. HIDE DEF k
  <2>1. r + 1 <= 65536 * k
      BY SMT, <1>9 DEF k
  <2>2. (r + 1) * h <= (65536 * k) * h /\ (65536 * k) * h = 65536 * (k * h) /\ k * h \in Nat
        /\ (r + 1) * h \in Nat
    <3>. DEFINE q == r + 1
    <3>1. q \in Nat /\ q <= 65536 * k
        BY SMT, <1>7, <2>1
    <3>. HIDE DEF q
    <3>2. q * h <= (65536 * k) * h /\ (65536 * k) * h = 65536 * (k * h) /\ k * h \in Nat /\ q * h \in Nat
        BY SMT, <1>2, <1>10, <3>1
    <3>. QED BY <3>2 DEF q
  <2>. DEFINE kh == k * h
              rh == (r + 1) * h
  <2>3. kh \in Nat /\ rh \in Nat /\ rh <= 65536 * kh /\ m * 16384 < rh
      BY <1>7, <2>2 DEF p
  <2>4. w = 4 * kh
      OBVIOUS
  <2>. HIDE DEF kh, rh, w
  <2>. QED BY SMT, <1>1, <2>3, <2>4
\* The products that the bounds are about.
<1>. DEFINE H == h * h
            A == b * H
            UU == u * u
            V == k * k
            UA == UU * A
            VA == V * A
            Ux == UU * x
            Vx == V * x
            ex == e * x
<1>13. H \in Nat /\ UU \in Nat /\ V \in Nat
  <2>. HIDE DEF k
  <2>. QED BY SMT, <1>2, <1>9, <1>10
<1>14. A \in Nat
  <2>. HIDE DEF H
  <2>. QED BY SMT, <1>1, <1>13
<1>15. A <= 256 * x /\ 65536 * x < 257 * A
  BY <1>3
<1>16. UA \in Nat /\ VA \in Nat /\ Ux \in Nat /\ Vx \in Nat /\ ex \in Nat
  <2>. HIDE DEF A, UU, V
  <2>. QED BY SMT, <1>13, <1>14
<1>17. 16 * UA < 4398046511104
  <2>. HIDE DEF v
  <2>1. v * v <= m * m /\ v * v \in Nat /\ m * m \in Nat
      BY SMT, <1>1, <1>10, <1>11
  <2>2. b * (v * v) <= b * (m * m) /\ b * (v * v) \in Nat /\ b * (m * m) \in Nat
    <3>. DEFINE vv == v * v
                mm == m * m
    <3>1. vv \in Nat /\ mm \in Nat /\ vv <= mm
        BY <2>1
    <3>. HIDE DEF vv, mm
    <3>2. b * vv <= b * mm /\ b * vv \in Nat /\ b * mm \in Nat
        BY SMT, <1>1, <3>1
    <3>. QED BY <3>2 DEF vv, mm
  <2>3. v * v = 16 * (UU * H)
    <3>. DEFINE uh == u * h
    <3>1. uh \in Nat /\ uh * uh = UU * H
        BY SMT, <1>2, <1>9
    <3>2. v = 4 * uh
        BY DEF v
    <3>. HIDE DEF uh, UU, H
    <3>3. (4 * uh) * (4 * uh) = 16 * (uh * uh)
        BY SMT, <3>1
    <3>. QED BY <3>1, <3>2, <3>3
  <2>4. b * (16 * (UU * H)) = 16 * UA
    <3>. HIDE DEF UU, H
    <3>. QED BY SMT, <1>1, <1>13
  <2>. DEFINE bv == b * (v * v)
              bm == b * (m * m)
  <2>5. bv \in Nat /\ bm \in Nat /\ bv <= bm /\ bm < 4398046511104 /\ bv = 16 * UA
      BY <1>4, <2>2, <2>3, <2>4
  <2>. HIDE DEF bv, bm, UA
  <2>. QED BY SMT, <1>16, <2>5
<1>18. 16 * VA >= 4398046511104
  <2>. HIDE DEF w
  <2>1. (m + 1) * (m + 1) <= w * w /\ w * w \in Nat /\ (m + 1) * (m + 1) \in Nat
    <3>. DEFINE q == m + 1
    <3>1. q \in Nat /\ q <= w
        BY SMT, <1>1, <1>12
    <3>. HIDE DEF q
    <3>2. q * q <= w * w /\ w * w \in Nat /\ q * q \in Nat
        BY SMT, <1>10, <3>1
    <3>. QED BY <3>2 DEF q
  <2>2. b * ((m + 1) * (m + 1)) <= b * (w * w) /\ b * (w * w) \in Nat /\ b * ((m + 1) * (m + 1)) \in Nat
    <3>. DEFINE ww == w * w
                mm == (m + 1) * (m + 1)
    <3>1. ww \in Nat /\ mm \in Nat /\ mm <= ww
        BY <2>1
    <3>. HIDE DEF ww, mm
    <3>2. b * mm <= b * ww /\ b * ww \in Nat /\ b * mm \in Nat
        BY SMT, <1>1, <3>1
    <3>. QED BY <3>2 DEF ww, mm
  <2>3. w * w = 16 * (V * H)
    <3>. HIDE DEF k
    <3>. DEFINE kh == k * h
    <3>1. kh \in Nat /\ kh * kh = V * H
        BY SMT, <1>2, <1>10
    <3>2. w = 4 * kh
        BY DEF w
    <3>. HIDE DEF kh, V, H
    <3>3. (4 * kh) * (4 * kh) = 16 * (kh * kh)
        BY SMT, <3>1
    <3>. QED BY <3>1, <3>2, <3>3
  <2>4. b * (16 * (V * H)) = 16 * VA
    <3>. HIDE DEF V, H
    <3>. QED BY SMT, <1>1, <1>13
  <2>. DEFINE bw == b * (w * w)
              bm == b * ((m + 1) * (m + 1))
  <2>5. bw \in Nat /\ bm \in Nat /\ bm <= bw /\ bm >= 4398046511104 /\ bw = 16 * VA
      BY <1>4, <2>2, <2>3, <2>4
  <2>. HIDE DEF bw, bm, VA
  <2>. QED BY SMT, <1>16, <2>5
<1>. HIDE DEF v, w, H, A, UU, V
<1>19. 65536 * Ux <= 257 * UA /\ VA <= 256 * Vx
  <2>1. UU * (65536 * x) <= UU * (257 * A)
      BY SMT, <1>13, <1>14, <1>15
  <2>2. V * A <= V * (256 * x)
      BY SMT, <1>13, <1>14, <1>15
  <2>3. UU * (65536 * x) = 65536 * Ux /\ UU * (257 * A) = 257 * UA /\ V * (256 * x) = 256 * Vx
      BY SMT, <1>13, <1>14
  <2>. QED BY <2>1, <2>2, <2>3
<1>20. ex <= 1073741824 /\ 1073741824 < ex + x
  <2>1. (e + 1) * x = ex + x
      BY SMT
  <2>. QED BY <2>1
<1>21. UU <= e + e \div 256 + 1
  <2>. DEFINE K == e \div 256
              Kx == K * x
  <2>1. K \in Nat /\ e + 1 <= 256 * (K + 1)
      BY SMT
  <2>. HIDE DEF K
  <2>. SUFFICES ASSUME UU >= e + K + 2
                PROVE  FALSE
      BY SMT, <1>13, <2>1 DEF K
  <2>2. (e + K + 2) * x <= Ux
    <3>. DEFINE q == e + K + 2
    <3>1. q \in Nat /\ q <= UU
        BY SMT, <2>1
    <3>. HIDE DEF q
    <3>2. q * x <= UU * x
        BY SMT, <1>13, <3>1
    <3>. QED BY <3>2 DEF q
  <2>3. (e + K + 2) * x = ex + Kx + 2 * x
      BY SMT, <2>1
  <2>4. ex + x <= 256 * Kx + 256 * x
    <3>1. (e + 1) * x <= (256 * (K + 1)) * x
        BY SMT, <2>1
    <3>2. (e + 1) * x = ex + x /\ (256 * (K + 1)) * x = 256 * Kx + 256 * x
        BY SMT, <2>1
    <3>. QED BY <3>1, <3>2
  <2>5. Kx \in Nat
      BY SMT, <2>1
  <2>. HIDE DEF UA, Ux, ex, Kx
  <2>. QED BY SMT, <1>16, <1>17, <1>19, <1>20, <2>2, <2>3, <2>4, <2>5
<1>22. V >= e
  <2>. SUFFICES ASSUME V + 1 <= e
                PROVE  FALSE
      BY SMT, <1>13
  <2>1. (V + 1) * x <= ex
    <3>. DEFINE q == V + 1
    <3>1. q \in Nat /\ q <= e
        BY SMT, <1>13
    <3>. HIDE DEF q
    <3>2. q * x <= e * x
        BY SMT, <3>1
    <3>. QED BY <3>2 DEF q
  <2>2. (V + 1) * x = Vx + x
      BY SMT, <1>13
  <2>. HIDE DEF VA, Vx, ex
  <2>. QED BY SMT, <1>16, <1>18, <1>19, <1>20, <2>1, <2>2
<1>. QED BY <1>7, <1>8, <1>21, <1>22 DEF r, UU, V, k

(* The numbers of 32 bits.                                                 *)
Word(x) == x \in Int /\ -2147483648 <= x /\ x <= 2147483647
Positively(x, r) == IF x < 0 THEN -(r + 1) ELSE r

(* The magnitude of an operand has at most 31 bits.                        *)
LEMMA MagnitudeFacts ==
    ASSUME NEW x, Word(x)
    PROVE  /\ Divider!Magnitude(x) \in Nat
           /\ x # 0 => Divider!Magnitude(x) >= 1 /\ Divider!Magnitude(x) < Power[31]
           /\ x = 0 => Divider!Magnitude(x) = 0
           /\ x > 0 => Divider!Magnitude(x) = x
<1>1. Power[31] = 2147483648
  BY SMT, PowerValues
<1>. QED BY SMT, <1>1 DEF Word, Divider!Magnitude

(* What a division returns, for operands of both signs.                    *)
LEMMA ReciprocalResult ==
    ASSUME Powered = TRUE, NEW x, Word(x)
    PROVE  /\ Word(Divider!ReciprocalOf(x))
           /\ x # 0 /\ x # -32768 =>
                  Divider!ReciprocalOf(x) = Positively(x, Inverse(Divider!Magnitude(x)))
<1>. DEFINE d == Divider!Magnitude(x)
            r == ((65536 + Divider!reciprocals[Divider!Index(d)]) * Divider!Power[14])
                     \div Divider!Power[Divider!Length(d) - 1]
<1>1. Divider!ReciprocalOf(x) = IF d = 0 THEN 2147483647
                                ELSE IF x = -32768 THEN -65536
                                ELSE IF x < 0 THEN -(r + 1) ELSE r
  BY SMT DEF Divider!ReciprocalOf, Divider!Shifted
<1>2. d \in Nat /\ (x # 0 => d >= 1 /\ d < Power[31]) /\ (x = 0 => d = 0)
  BY MagnitudeFacts
<1>. HIDE DEF d
<1>3. ASSUME x # 0
      PROVE  r = Inverse(d) /\ r \in Nat /\ r <= 2147483647
  <2>1. Divider!Power[14] = 16384 /\ Divider!Power[Divider!Length(d) - 1] = Unit(d)
    <3>1. Power[14] = 16384
        BY SMT, PowerValues
    <3>2. Divider!Power[14] = Power[14]
          /\ Divider!Power[Divider!Length(d) - 1] = Power[Divider!Length(d) - 1]
        BY DividerPower
    <3>. QED BY <3>1, <3>2 DEF Unit
  <2>2. 65536 + Divider!reciprocals[Divider!Index(d)] = Mantissa(Leading(d))
    <3>1. Divider!Index(d) = Leading(d) - 512
        BY <1>2, <1>3, LeadingFacts
    <3>. QED BY <3>1 DEF Mantissa
  <2>3. r = Inverse(d)
      BY <2>1, <2>2 DEF Inverse
  <2>. HIDE DEF r
  <2>4. Inverse(d) \in Nat /\ Inverse(d) <= 2147483647
    <3>. DEFINE e == 1073741824 \div d
    <3>1. e \in Int /\ e >= 0 /\ e * d <= 1073741824 /\ 1073741824 < (e + 1) * d
        BY SMT, <1>2, <1>3, QuotientIn
    <3>. HIDE DEF e
    <3>2. e \in Nat
        BY SMT, <3>1
    <3>. QED BY <1>2, <1>3, <3>1, <3>2, InverseFacts
  <2>. QED BY <2>3, <2>4
<1>. HIDE DEF r
<1>4. CASE x = 0
  <2>1. Divider!ReciprocalOf(x) = 2147483647
      BY <1>1, <1>2, <1>4
  <2>. QED BY SMT, <1>4, <2>1 DEF Word
<1>5. CASE x # 0
  <2>1. d # 0
      BY SMT, <1>2, <1>5
  <2>2. Divider!ReciprocalOf(x) = IF x = -32768 THEN -65536 ELSE Positively(x, Inverse(d))
      BY SMT, <1>1, <1>3, <1>5, <2>1 DEF Positively
  <2>3. Word(Positively(x, Inverse(d)))
      BY SMT, <1>3, <1>5 DEF Positively, Word
  <2>4. Word(-65536)
      BY SMT DEF Word
  <2>. QED BY SMT, <2>2, <2>3, <2>4 DEF d
<1>. QED BY <1>4, <1>5

(* A root's number is an integer.                                          *)
LEMMA InverseRootIn ==
    ASSUME Powered = TRUE, NEW x \in Nat, x >= 1, x < Power[31]
    PROVE  InverseRoot(x) \in Int
<1>. DEFINE p == RootMantissa(x) * 16384
<1>1. RootUnit(x) \in Nat /\ RootUnit(x) >= 1
  <2>1. (Divider!Length(x) - 1) \div 2 \in Nat
      BY SMT, LengthFacts
  <2>2. RootUnit(x) \in Nat
      BY SMT, <2>1, PowerFacts DEF RootUnit
  <2>3. RootUnit(x) >= 1
      BY SMT, <2>1, PowerFacts DEF RootUnit
  <2>. QED BY <2>2, <2>3
<1>2. p \in Int
  <2>1. RootMantissa(x) \in Nat
      BY RootEntry
  <2>. QED BY SMT, <2>1
<1>3. InverseRoot(x) = p \div RootUnit(x)
  BY DEF InverseRoot
<1>. HIDE DEF p
<1>. QED BY SMT, <1>1, <1>2, <1>3, QuotientIn

(* The same of a root.                                                     *)
LEMMA RootResult ==
    ASSUME Powered = TRUE, NEW x, Word(x)
    PROVE  /\ Word(Divider!InverseRootOf(x))
           /\ x # 0 /\ x # -32768 =>
                  Divider!InverseRootOf(x) = Positively(x, InverseRoot(Divider!Magnitude(x)))
<1>. DEFINE d == Divider!Magnitude(x)
            r == ((65536 + Divider!inverseSquareRoots[Divider!RootIndex(d)]) * Divider!Power[14])
                     \div Divider!Power[(Divider!Length(d) - 1) \div 2]
<1>1. Divider!InverseRootOf(x) = IF d = 0 THEN 2147483647
                                 ELSE IF x = -32768 THEN -65536
                                 ELSE IF x < 0 THEN -(r + 1) ELSE r
  BY SMT DEF Divider!InverseRootOf, Divider!Shifted
<1>2. d \in Nat /\ (x # 0 => d >= 1 /\ d < Power[31]) /\ (x = 0 => d = 0)
  BY MagnitudeFacts
<1>. HIDE DEF d
<1>3. ASSUME x # 0
      PROVE  r = InverseRoot(d) /\ r \in Nat /\ r <= 2147483647
  <2>1. Divider!Power[14] = 16384 /\ Divider!Power[(Divider!Length(d) - 1) \div 2] = RootUnit(d)
    <3>1. Power[14] = 16384
        BY SMT, PowerValues
    <3>2. Divider!Power[14] = Power[14]
          /\ Divider!Power[(Divider!Length(d) - 1) \div 2] = Power[(Divider!Length(d) - 1) \div 2]
        BY DividerPower
    <3>. QED BY <3>1, <3>2 DEF RootUnit
  <2>2. 65536 + Divider!inverseSquareRoots[Divider!RootIndex(d)] = RootMantissa(d)
      BY <1>2, <1>3, RootEntry
  <2>3. r = InverseRoot(d)
      BY <2>1, <2>2 DEF InverseRoot
  <2>. HIDE DEF r
  <2>4. InverseRoot(d) \in Nat /\ InverseRoot(d) <= 2147483647
    <3>. DEFINE e == 1073741824 \div d
    <3>1. e \in Int /\ e >= 0 /\ e * d <= 1073741824 /\ 1073741824 < (e + 1) * d
        BY SMT, <1>2, <1>3, QuotientIn
    <3>. HIDE DEF e
    <3>2. e \in Nat
        BY SMT, <3>1
    <3>3. InverseRoot(d) \in Int
        BY <1>2, <1>3, InverseRootIn
    <3>4. PICK v \in Int : v = InverseRoot(d) \div 65536
        BY SMT, <3>3
    <3>. QED BY <1>2, <1>3, <3>1, <3>2, <3>4, InverseRootFacts
  <2>. QED BY <2>3, <2>4
<1>. HIDE DEF r
<1>4. CASE x = 0
  <2>1. Divider!InverseRootOf(x) = 2147483647
      BY <1>1, <1>2, <1>4
  <2>. QED BY SMT, <1>4, <2>1 DEF Word
<1>5. CASE x # 0
  <2>1. d # 0
      BY SMT, <1>2, <1>5
  <2>2. Divider!InverseRootOf(x) = IF x = -32768 THEN -65536 ELSE Positively(x, InverseRoot(d))
      BY SMT, <1>1, <1>3, <1>5, <2>1 DEF Positively
  <2>3. Word(Positively(x, InverseRoot(d)))
      BY SMT, <1>3, <1>5 DEF Positively, Word
  <2>4. Word(-65536)
      BY SMT DEF Word
  <2>. QED BY SMT, <2>2, <2>3, <2>4 DEF d
<1>. QED BY <1>4, <1>5

Halves(op) == op \in {"VRCPH", "VRSQH"}
Reciprocals(op) == op \in {"VRCP", "VRCPL"}
Roots(op) == op \in {"VRSQ", "VRSQL"}

(* The upper half waits in the divider exactly between the instruction     *)
(* that hands it over and the next one, and the result is that for the     *)
(* number the program asked for.                                           *)
DividerInv ==
    /\ divin \in Int /\ -32768 <= divin /\ divin <= 32767
    /\ divout \in Int /\ -32768 <= divout /\ divout <= 32767
    /\ quotient \in Int /\ 0 <= quotient /\ quotient <= 65535
    /\ last.t \in Nat /\ last.t <= 65535
    /\ divdp \in BOOLEAN
    /\ divdp <=> Halves(last.op)
    /\ divdp => divin = Divider!S16(last.t)
    /\ Word(asked)
    /\ asked # 0 /\ Reciprocals(last.op) =>
           divout * 65536 + quotient = Divider!ReciprocalOf(asked)
    /\ asked # 0 /\ Roots(last.op) =>
           divout * 65536 + quotient = Divider!InverseRootOf(asked)

(* The divider starts so.                                                  *)
LEMMA DividerStarts == VectorInit => DividerInv
<1>. SUFFICES ASSUME Divider!Init
              PROVE  DividerInv
  BY DEF VectorInit
<1>1. /\ divin = 0 /\ divout = 0 /\ divdp = FALSE /\ quotient = 0
      /\ last = [op |-> "VRCP", t |-> 0] /\ asked = 0
  BY DEF Divider!Init
<1>2. last.op = "VRCP" /\ last.t = 0
  BY <1>1
<1>3. divdp \in BOOLEAN /\ ~divdp /\ ~Halves(last.op) /\ ~Roots(last.op)
  BY <1>1, <1>2 DEF Halves, Roots
<1>4. Word(asked)
  BY SMT, <1>1 DEF Word
<1>5. /\ divin \in Int /\ -32768 <= divin /\ divin <= 32767
      /\ divout \in Int /\ -32768 <= divout /\ divout <= 32767
      /\ quotient \in Int /\ 0 <= quotient /\ quotient <= 65535
      /\ last.t \in Nat /\ last.t <= 65535 /\ asked = 0
  BY SMT, <1>1, <1>2
<1>. QED BY SMT, <1>3, <1>4, <1>5 DEF DividerInv

(* VRCPH and VRSQH hand the upper half over.                               *)
LEMMA DividerFetches ==
    ASSUME DividerInv, NEW t \in Dividends, NEW op \in {"VRCPH", "VRSQH"}, Divider!Fetch(op, t)
    PROVE  DividerInv'
<1>1. t \in Nat /\ t <= 65535
  BY DividendsAssumption
<1>2. /\ divdp' = TRUE /\ divin' = Divider!S16(t)
      /\ quotient' = divout % 65536 /\ divout' = divout
      /\ last' = [op |-> op, t |-> t] /\ asked' = Divider!Meant(op, t)
  BY DEF Divider!Fetch, Divider!Remember
<1>3. last'.op = op /\ last'.t = t
  BY <1>2
<1>4. Halves(op) /\ ~Reciprocals(op) /\ ~Roots(op)
  BY DEF Halves, Reciprocals, Roots
<1>5. asked' = Divider!S16(t)
  BY <1>2 DEF Divider!Meant, Divider!Long
<1>6. Divider!S16(t) \in Int /\ -32768 <= Divider!S16(t) /\ Divider!S16(t) <= 32767
  BY SMT, <1>1 DEF Divider!S16
<1>7. Word(asked')
  BY SMT, <1>5, <1>6 DEF Word
<1>8. divout \in Int /\ -32768 <= divout /\ divout <= 32767
  BY DEF DividerInv
<1>9. quotient' \in Int /\ 0 <= quotient' /\ quotient' <= 65535
  BY SMT, <1>2, <1>8
<1>. QED BY SMT, <1>1, <1>2, <1>3, <1>4, <1>6, <1>7, <1>8, <1>9 DEF DividerInv

(* The others consume it.                                                  *)
LEMMA DividerDivides ==
    ASSUME Powered = TRUE, DividerInv, NEW t \in Dividends,
           NEW op \in {"VRCP", "VRCPL", "VRSQ", "VRSQL"}, Divider!Divide(op, t)
    PROVE  DividerInv'
<1>. DEFINE input == IF Divider!Long(op) /\ divdp THEN divin * 65536 + t ELSE Divider!S16(t)
            result == IF Reciprocals(op) THEN Divider!ReciprocalOf(input)
                                         ELSE Divider!InverseRootOf(input)
<1>1. t \in Nat /\ t <= 65535
  BY DividendsAssumption
<1>2. /\ divdp' = FALSE /\ divin' = divin
      /\ divout' = result \div 65536 /\ quotient' = result % 65536
      /\ last' = [op |-> op, t |-> t] /\ asked' = Divider!Meant(op, t)
  BY SMT DEF Divider!Divide, Divider!Remember, Reciprocals
<1>3. last'.op = op /\ last'.t = t
  BY <1>2
<1>4. ~Halves(op) /\ (Reciprocals(op) <=> ~Roots(op))
  BY DEF Halves, Reciprocals, Roots
<1>5. asked' = input
  <2>1. Divider!High(last.op) <=> divdp
      BY DEF DividerInv, Halves, Divider!High
  <2>2. divdp => divin = Divider!S16(last.t)
      BY DEF DividerInv
  <2>. QED BY <1>2, <2>1, <2>2 DEF Divider!Meant
<1>6. Word(input)
  <2>1. Divider!S16(t) \in Int /\ -32768 <= Divider!S16(t) /\ Divider!S16(t) <= 32767
      BY SMT, <1>1 DEF Divider!S16
  <2>2. divin \in Int /\ -32768 <= divin /\ divin <= 32767
      BY DEF DividerInv
  <2>. QED BY SMT, <1>1, <2>1, <2>2 DEF Word
<1>. HIDE DEF input
<1>7. Word(Divider!ReciprocalOf(input)) /\ Word(Divider!InverseRootOf(input))
  BY <1>6, ReciprocalResult, RootResult
<1>8. Word(result)
  BY <1>7
<1>9. /\ Reciprocals(op) => result = Divider!ReciprocalOf(input)
      /\ Roots(op) => result = Divider!InverseRootOf(input)
  BY <1>4
<1>. HIDE DEF result
<1>10. /\ divout' \in Int /\ -32768 <= divout' /\ divout' <= 32767
       /\ quotient' \in Int /\ 0 <= quotient' /\ quotient' <= 65535
       /\ divout' * 65536 + quotient' = result
  BY SMT, <1>2, <1>8 DEF Word
<1>11. divin' \in Int /\ -32768 <= divin' /\ divin' <= 32767
  BY <1>2 DEF DividerInv
<1>12. Word(asked')
  BY <1>5, <1>6
<1>13. /\ asked' # 0 /\ Reciprocals(last'.op) =>
              divout' * 65536 + quotient' = Divider!ReciprocalOf(asked')
       /\ asked' # 0 /\ Roots(last'.op) =>
              divout' * 65536 + quotient' = Divider!InverseRootOf(asked')
  BY <1>3, <1>5, <1>9, <1>10
<1>14. last'.t \in Nat /\ last'.t <= 65535
  BY <1>1, <1>3
<1>15. divdp' = FALSE
  BY <1>2
<1>16. divdp' \in BOOLEAN /\ ~divdp'
  BY <1>15
<1>17. divdp' <=> Halves(last'.op)
  BY <1>3, <1>4, <1>16
<1>. QED BY <1>10, <1>11, <1>12, <1>13, <1>14, <1>16, <1>17 DEF DividerInv

(* No other part of the unit touches the divider.                          *)
LEMMA DividerStep == Powered = TRUE => (DividerInv /\ [VectorNext]_vectorVars => DividerInv')
<1>. SUFFICES ASSUME Powered = TRUE, DividerInv, [VectorNext]_vectorVars
              PROVE  DividerInv'
  OBVIOUS
<1>1. \/ Divider!Next
      \/ UNCHANGED dividerVars
  BY Zenon DEF VectorNext, vectorVars
<1>2. CASE Divider!Next
  <2>1. PICK t \in Dividends :
            \/ \E op \in {"VRCPH", "VRSQH"} : Divider!Fetch(op, t)
            \/ \E op \in {"VRCP", "VRCPL", "VRSQ", "VRSQL"} : Divider!Divide(op, t)
      BY <1>2 DEF Divider!Next
  <2>. QED BY <2>1, DividerFetches, DividerDivides
<1>3. CASE UNCHANGED dividerVars
  <2>1. /\ divin' = divin /\ divout' = divout /\ divdp' = divdp /\ quotient' = quotient
        /\ last' = last /\ asked' = asked
      BY <1>3 DEF dividerVars
  <2>. QED BY <2>1 DEF DividerInv
<1>. QED BY <1>1, <1>2, <1>3

(* The invariant is enough for the accuracy of division and root.          *)
LEMMA DividerAccurate ==
    ASSUME Powered = TRUE, DividerInv
    PROVE  Divider!DivisionIsAccurate
<1>. DEFINE d == Divider!Magnitude(asked)
            e == Divider!Power[30] \div d
            positive == Divider!Positive
            result == divout * 65536 + quotient
<1>1. Word(asked)
  BY DEF DividerInv
<1>2. Divider!Power[30] = 1073741824 /\ Power[30] = 1073741824
  <2>1. Power[30] = 1073741824
      BY SMT, PowerValues
  <2>2. Divider!Power[30] = Power[30]
      BY DividerPower
  <2>. QED BY <2>1, <2>2
<1>3. d \in Nat /\ (asked # 0 => d >= 1 /\ d < Power[31]) /\ (asked = 0 => d = 0)
  BY <1>1, MagnitudeFacts
<1>4. Divider!TypeOK
  <2>1. /\ divin \in Int /\ -32768 <= divin /\ divin <= 32767
        /\ divout \in Int /\ -32768 <= divout /\ divout <= 32767
        /\ quotient \in Int /\ 0 <= quotient /\ quotient <= 65535
      BY DEF DividerInv
  <2>2. Power[15] = 32768 /\ Power[16] = 65536
      BY SMT, PowerValues
  <2>4. Divider!Power[15] = 32768 /\ Divider!Power[16] = 65536
      BY DividerPower, <2>2
  <2>3. divdp \in BOOLEAN
      BY DEF DividerInv
  <2>5. Divider!Power[15] \in Int /\ Divider!Power[16] \in Int
      BY SMT, <2>4
  <2>6. /\ -Divider!Power[15] <= divin /\ divin <= Divider!Power[15] - 1
        /\ -Divider!Power[15] <= divout /\ divout <= Divider!Power[15] - 1
        /\ quotient <= Divider!Power[16] - 1
      BY SMT, <2>1, <2>4
  <2>7. divin \in Int /\ divout \in Int /\ quotient \in Int /\ 0 <= quotient
      BY <2>1
  <2>. QED BY SMT, <2>3, <2>5, <2>6, <2>7 DEF Divider!TypeOK
<1>5. positive = Positively(asked, result)
  BY SMT DEF Divider!Positive, Divider!Result, Divider!Negative, Positively
<1>. HIDE DEF d
<1>6. asked # 0 => e \in Nat /\ e * d <= 1073741824 /\ 1073741824 < (e + 1) * d
  <2>. SUFFICES ASSUME asked # 0
                PROVE  e \in Nat /\ e * d <= 1073741824 /\ 1073741824 < (e + 1) * d
      OBVIOUS
  <2>. DEFINE q == 1073741824 \div d
  <2>1. q \in Int /\ q >= 0 /\ q * d <= 1073741824 /\ 1073741824 < (q + 1) * d
      BY SMT, <1>3, QuotientIn
  <2>2. e = q
      BY <1>2
  <2>. HIDE DEF q, e
  <2>. QED BY SMT, <2>1, <2>2
<1>7. Divider!ReciprocalIsAccurate
  <2>. SUFFICES ASSUME Reciprocals(last.op), d > 1, asked # -32768
                PROVE  positive \in 2 * e - (2 * e) \div 256 - 2 .. 2 * e + (2 * e) \div 256 + 2
      BY SMT DEF Divider!ReciprocalIsAccurate, Reciprocals, d
  <2>. HIDE DEF e, positive
  <2>1. asked # 0
      BY SMT, <1>3
  <2>2. result = Positively(asked, Inverse(d))
      BY <1>1, <2>1, ReciprocalResult DEF DividerInv, d
  <2>3. /\ Inverse(d) \in Nat
        /\ Inverse(d) <= 2 * e + (2 * e) \div 256 + 2
        /\ Inverse(d) >= 2 * e - (2 * e) \div 256 - 2
      BY <1>3, <1>6, <2>1, InverseFacts
  <2>. HIDE DEF result
  <2>4. positive = Inverse(d)
      BY SMT, <1>1, <1>5, <2>2, <2>3 DEF Positively, Word
  <2>. QED BY SMT, <1>6, <2>1, <2>3, <2>4
<1>8. Divider!RootIsAccurate
  <2>. DEFINE u == positive \div 65536
  <2>. SUFFICES ASSUME Roots(last.op), d > 1, asked # -32768
                PROVE  u * u <= e + e \div 256 + 1 /\ (u + 1) * (u + 1) >= e
      BY SMT DEF Divider!RootIsAccurate, Roots, d
  <2>. HIDE DEF e, positive
  <2>1. asked # 0
      BY SMT, <1>3
  <2>2. result = Positively(asked, InverseRoot(d))
      BY <1>1, <2>1, RootResult DEF DividerInv, d
  <2>3. result \in Int
      BY SMT DEF DividerInv
  <2>. HIDE DEF result
  <2>4. positive \in Int
      BY SMT, <1>1, <1>5, <2>3 DEF Positively, Word
  <2>5. u \in Int
      BY SMT, <2>4
  <2>6. InverseRoot(d) \in Int
      BY <1>3, <2>1, InverseRootIn
  <2>7. positive = InverseRoot(d)
      BY SMT, <1>1, <1>5, <2>2, <2>6 DEF Positively, Word
  <2>8. u = InverseRoot(d) \div 65536
      BY <2>7
  <2>. HIDE DEF u
  <2>9. d \in Nat /\ d >= 1 /\ d < Power[31] /\ e \in Nat /\ e * d <= 1073741824 /\ 1073741824 < (e + 1) * d
      BY <1>3, <1>6, <2>1
  <2>. QED BY SMT, <2>5, <2>8, <2>9, InverseRootFacts
<1>10. Divider!Power[30] \in Int
  BY SMT, <1>2
<1>9. Divider!ReciprocalDecreases
  <2>. SUFFICES ASSUME Reciprocals(last.op), asked \in Int, asked >= 1, asked <= Divider!Power[30]
                PROVE  Divider!ReciprocalOf(asked + 1) <= result
      BY SMT, <1>10 DEF Divider!ReciprocalDecreases, Reciprocals, Divider!Result
  <2>1. asked \in Nat /\ asked >= 1 /\ asked <= Power[30] /\ Word(asked + 1) /\ asked # 0
        /\ asked # -32768 /\ asked + 1 # 0 /\ asked + 1 # -32768 /\ asked > 0 /\ asked + 1 > 0
      BY SMT, <1>2 DEF Word
  <2>2. Divider!ReciprocalOf(asked) = Inverse(asked)
    <3>1. Divider!Magnitude(asked) = asked
        BY <1>1, <2>1, MagnitudeFacts
    <3>2. Divider!ReciprocalOf(asked) = Positively(asked, Inverse(asked))
        BY <1>1, <2>1, <3>1, ReciprocalResult
    <3>. QED BY SMT, <2>1, <3>2 DEF Positively
  <2>3. Divider!ReciprocalOf(asked + 1) = Inverse(asked + 1)
    <3>1. Divider!Magnitude(asked + 1) = asked + 1
        BY <2>1, MagnitudeFacts
    <3>2. Divider!ReciprocalOf(asked + 1) = Positively(asked + 1, Inverse(asked + 1))
        BY <2>1, <3>1, ReciprocalResult
    <3>. QED BY SMT, <2>1, <3>2 DEF Positively
  <2>4. Inverse(asked + 1) <= Inverse(asked)
      BY <2>1, InverseFalls
  <2>5. result = Divider!ReciprocalOf(asked)
      BY <2>1 DEF DividerInv
  <2>. QED BY <2>2, <2>3, <2>4, <2>5
<1>. QED BY <1>4, <1>7, <1>8, <1>9 DEF Divider!DivisionIsAccurate

(* With its tables filled, the divider is accurate to eight bits for every *)
(* operand of 16 and of 32 bits, in whatever order the six instructions    *)
(* come: a lower half joins the upper half that the instruction before it  *)
(* handed over and no older one, and a larger operand never gets a larger  *)
(* reciprocal (interpreter-vpu.cpp, VRCP .. VRSQH, and RSP::power).        *)
THEOREM DivisionAccurate ==
    ASSUME Powered = TRUE
    PROVE  VectorSpec => []DivisionIsAccurate
<1>1. VectorInit => DividerInv
  BY DividerStarts
<1>2. DividerInv /\ [VectorNext]_vectorVars => DividerInv'
  BY DividerStep
<1>3. DividerInv => DivisionIsAccurate
  BY DividerAccurate DEF DivisionIsAccurate
<1>. QED BY <1>1, <1>2, <1>3, PTL DEF VectorSpec
=============================================================================
