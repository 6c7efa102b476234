-------------------------- MODULE AllocatorProofs --------------------------
(***************************************************************************)
(* What the operators of BlockAllocator preserve and return, for every     *)
(* pool size and block size.  free() is a loop; its effect is proved by    *)
(* induction over its turns, in the form of a least counterexample.        *)
(***************************************************************************)
EXTENDS BlockAllocator, FiniteSetTheorems, TLAPS

-----------------------------------------------------------------------------
(* Loops *)

\* A set of natural numbers that is not empty has a least element.
LEMMA LeastNat ==
  ASSUME NEW S, S \subseteq Nat, S # {}
  PROVE  \E m \in S : \A k \in S : m <= k
<1> DEFINE R == {ss \in Nat \X Nat : ss[1] < ss[2]}
<1>1. IsWellFoundedOn(R, Nat)
  BY NatLessThanWellFounded DEF OpToRel
<1>2. PICK m \in S : \A k \in S : ~ (<<k, m>> \in R)
  <2> HIDE DEF R
  <2> QED  BY <1>1, WFMin
<1>3. ASSUME NEW k \in S, ~ (m <= k) PROVE FALSE
  <2>1. k \in Nat /\ m \in Nat /\ k < m
    BY <1>3
  <2>2. <<k, m>> \in Nat \X Nat /\ <<k, m>>[1] < <<k, m>>[2]
    BY <2>1
  <2> QED  BY <1>2, <2>2, Zenon
<1> QED  BY <1>3

\* g[i] is the state after i turns of a loop that starts in x0, whose turn i is h[i].
IsRun(g, X, x0, n, h) ==
  g \in [0 .. n -> X] /\ g[0] = x0 /\ \A i \in 1 .. n : g[i] = h[i][g[i - 1]]

\* A loop of n turns that starts in a state of X and keeps it in X has a run: the state
\* after each turn (used for the loop of BlockAllocator.free).
LEMMA LoopRuns ==
  ASSUME NEW X, NEW x0 \in X, NEW n \in Nat, NEW h \in [1 .. n -> [X -> X]]
  PROVE  \E g : IsRun(g, X, x0, n, h)
<1> DEFINE Run(g, m) == g[0] = x0 /\ \A i \in 1 .. m : g[i] = h[i][g[i - 1]]
           Bad == {m \in 0 .. n : ~ \E g \in [0 .. m -> X] : Run(g, m)}
<1>1. ASSUME Bad # {} PROVE FALSE
  <2>1. PICK m \in Bad : \A k \in Bad : m <= k
    BY <1>1, LeastNat, Bad \subseteq Nat
  <2>2. m # 0
    <3>1. [i \in 0 .. 0 |-> x0] \in [0 .. 0 -> X] /\ Run([i \in 0 .. 0 |-> x0], 0)
      OBVIOUS
    <3>2. \E g \in [0 .. 0 -> X] : Run(g, 0)
      BY <3>1
    <3>3. 0 \notin Bad
      BY <3>2
    <3> QED  BY <2>1, <3>3
  <2>3. m - 1 \in 0 .. n /\ m - 1 \notin Bad
    <3>1. m \in 0 .. n
      BY <2>1
    <3> HIDE DEF Bad
    <3>2. m - 1 \in 0 .. n /\ ~ (m <= m - 1)
      BY <2>2, <3>1
    <3> QED  BY <2>1, <3>2
  <2>4. PICK g \in [0 .. m - 1 -> X] : Run(g, m - 1)
    BY <2>3
  <2> DEFINE f == [i \in 0 .. m |-> IF i = m THEN h[m][g[m - 1]] ELSE g[i]]
  <2>5. m \in 1 .. n /\ h[m] \in [X -> X] /\ g[m - 1] \in X
    BY <2>1, <2>2
  <2>6. f \in [0 .. m -> X]
    BY <2>5
  <2>7. Run(f, m)
    <3>1. f[0] = x0
      BY <2>4, <2>5
    <3>2. ASSUME NEW i \in 1 .. m PROVE f[i] = h[i][f[i - 1]]
      BY <2>4, <2>5
    <3> QED  BY <3>1, <3>2
  <2> QED  BY <2>1, <2>6, <2>7
<1>2. n \notin Bad
  BY <1>1
<1> QED  BY <1>2 DEF IsRun

-----------------------------------------------------------------------------
(* free() *)

\* One turn of the loop of free() keeps the pool well typed.
LEMMA DropHolderType ==
  ASSUME NEW p \in Pools, NEW b \in Blocks
  PROVE  DropHolder(p, b) \in Pools
BY DEF DropHolder, Pools

\* The loop of free(): the pool before it, and each turn from the one before.
LEMMA DropsTurns ==
  ASSUME NEW p \in Pools, NEW s \in Seq(Blocks)
  PROVE  /\ Drops(p, s) \in [0 .. Len(s) -> Pools]
         /\ Drops(p, s)[0] = p
         /\ \A i \in 1 .. Len(s) : Drops(p, s)[i] = DropHolder(Drops(p, s)[i - 1], s[i])
<1> DEFINE n == Len(s)
           Turns(f) == [i \in 0 .. n |-> IF i = 0 THEN p ELSE DropHolder(f[i - 1], s[i])]
           h == [i \in 1 .. n |-> [q \in Pools |-> DropHolder(q, s[i])]]
<1>1. n \in Nat /\ h \in [1 .. n -> [Pools -> Pools]]
  BY DropHolderType
<1>2. PICK g : IsRun(g, Pools, p, n, h)
  <2> HIDE DEF n, h
  <2> QED  BY <1>1, LoopRuns, Zenon
<1>3. \A i \in 1 .. n : g[i] = DropHolder(g[i - 1], s[i])
  <2> SUFFICES ASSUME NEW i \in 1 .. n PROVE g[i] = DropHolder(g[i - 1], s[i])
    OBVIOUS
  <2>1. g[i - 1] \in Pools
    BY <1>1, <1>2 DEF IsRun
  <2> QED  BY <1>2, <2>1 DEF IsRun
<1>4. g = Turns(g)
  <2>1. \A i \in 0 .. n : g[i] = Turns(g)[i]
    BY <1>1, <1>2, <1>3 DEF IsRun
  <2> HIDE DEF n
  <2> QED  BY <2>1, <1>2 DEF IsRun
<1>5. Drops(p, s) = CHOOSE f : f = Turns(f)
  BY DEF Drops
<1>6. Drops(p, s) = Turns(Drops(p, s))
  <2> HIDE DEF Turns
  <2> QED  BY <1>4, <1>5
<1> DEFINE d == Drops(p, s)
<1>7. d[0] = p /\ \A i \in 1 .. n : d[i] = DropHolder(d[i - 1], s[i])
  BY <1>1, <1>6
<1>8. \A i \in 0 .. n : d[i] \in Pools
  <2> DEFINE Bad == {i \in 0 .. n : d[i] \notin Pools}
  <2> HIDE DEF d, n
  <2>1. ASSUME Bad # {} PROVE FALSE
    <3>1. PICK m \in Bad : \A k \in Bad : m <= k
      BY <1>1, <2>1, LeastNat, Bad \subseteq Nat
    <3>2. m \in 1 .. n /\ m - 1 \in 0 .. n /\ m - 1 \notin Bad
      BY <1>1, <1>7, <3>1
    <3>3. s[m] \in Blocks
      BY <3>2 DEF n
    <3> QED  BY <1>7, <3>1, <3>2, <3>3, DropHolderType
  <2> QED  BY <2>1
<1>9. d \in [0 .. n -> Pools]
  BY <1>1, <1>6, <1>8
<1> QED  BY <1>7, <1>9

\* One turn of the loop of free() keeps the stack and the counts in agreement: the block
\* whose last holder goes is pushed, and it was not on the stack.
LEMMA DropHolderConsistent ==
  ASSUME NEW p \in Pools, PoolConsistent(p), NEW b \in Blocks, p.ref[b] >= 1
  PROVE  PoolConsistent(DropHolder(p, b))
<1> DEFINE q == DropHolder(p, b)
<1>1. /\ p.free \in Seq(Blocks) /\ p.ref \in [Blocks -> Int]
      /\ q.ref = [p.ref EXCEPT ![b] = @ - 1]
  BY DEF DropHolder, Pools
<1>2. b \notin Range(p.free)
  BY DEF PoolConsistent
<1>3. \A c \in Blocks : q.ref[c] >= 0
  BY <1>1 DEF PoolConsistent
<1>4. CASE p.ref[b] = 1
  <2>1. q.free = Append(p.free, b)
    BY <1>4 DEF DropHolder
  <2>2. IsInjective(q.free)
    BY <1>1, <1>2, <2>1 DEF PoolConsistent, IsInjective, Range
  <2>3. Range(q.free) = Range(p.free) \cup {b}
    <3>1. /\ DOMAIN q.free = 1 .. Len(p.free) + 1 /\ q.free[Len(p.free) + 1] = b
          /\ DOMAIN p.free = 1 .. Len(p.free) /\ Len(p.free) \in Nat
          /\ \A i \in 1 .. Len(p.free) : q.free[i] = p.free[i]
      BY <1>1, <2>1
    <3> HIDE DEF q
    <3> QED  BY <3>1 DEF Range
  <2>4. {c \in Blocks : q.ref[c] = 0} = {c \in Blocks : p.ref[c] = 0} \cup {b}
    BY <1>1, <1>4
  <2>5. Range(p.free) = {c \in Blocks : p.ref[c] = 0}
    BY DEF PoolConsistent
  <2> HIDE DEF q
  <2>6. Range(q.free) = {c \in Blocks : q.ref[c] = 0}
    BY <2>3, <2>4, <2>5
  <2> QED  BY <1>3, <2>2, <2>6 DEF PoolConsistent, q
<1>5. CASE p.ref[b] # 1
  <2>1. q.free = p.free
    BY <1>5 DEF DropHolder
  <2>2. {c \in Blocks : q.ref[c] = 0} = {c \in Blocks : p.ref[c] = 0}
    BY <1>1, <1>5
  <2>3. IsInjective(p.free) /\ Range(p.free) = {c \in Blocks : p.ref[c] = 0}
    BY DEF PoolConsistent
  <2> QED  BY <1>3, <2>1, <2>2, <2>3 DEF PoolConsistent
<1> QED  BY <1>4, <1>5

\* A list without duplicates names each of its blocks once.
LEMMA InjectiveOccurrences ==
  ASSUME NEW s \in Seq(Blocks), IsInjective(s), NEW b
  PROVE  Occurrences(b, s) = IF b \in Range(s) THEN 1 ELSE 0
<1> DEFINE at == {i \in DOMAIN s : s[i] = b}
<1>1. CASE b \in Range(s)
  <2>1. PICK i \in DOMAIN s : s[i] = b
    BY <1>1 DEF Range
  <2>2. at = {i}
    BY <2>1 DEF IsInjective
  <2> QED  BY <1>1, <2>2, FS_Singleton DEF Occurrences
<1>2. CASE b \notin Range(s)
  <2>1. at = {}
    BY <1>2 DEF Range
  <2> QED  BY <1>2, <2>1, FS_EmptySet DEF Occurrences
<1> QED  BY <1>1, <1>2

\* free() of a list without duplicates, each block having a holder: one holder fewer for
\* each, and the stack again agrees with the counts.
LEMMA FreeEffect ==
  ASSUME NEW p \in Pools, PoolConsistent(p), NEW s \in Seq(Blocks), IsInjective(s),
         CanFree(p, s)
  PROVE  /\ Free(p, s) \in Pools
         /\ PoolConsistent(Free(p, s))
         /\ \A b \in Blocks : Free(p, s).ref[b] = IF b \in Range(s) THEN p.ref[b] - 1 ELSE p.ref[b]
<1> DEFINE n == Len(s)
           d == Drops(p, s)
           Given(b, i) == \E j \in 1 .. i : s[j] = b
           Good(i) == /\ PoolConsistent(d[i])
                      /\ \A b \in Blocks :
                           d[i].ref[b] = IF Given(b, i) THEN p.ref[b] - 1 ELSE p.ref[b]
           Bad == {i \in 0 .. n : ~ Good(i)}
<1>1. n \in Nat /\ DOMAIN s = 1 .. n
  OBVIOUS
<1>2. \A i \in 1 .. n : s[i] \in Blocks /\ p.ref[s[i]] >= 1
  BY InjectiveOccurrences DEF CanFree, Range
<1>3. d \in [0 .. n -> Pools] /\ d[0] = p /\ \A i \in 1 .. n : d[i] = DropHolder(d[i - 1], s[i])
  BY DropsTurns
<1> HIDE DEF d, n
<1>4. Good(0)
  BY <1>3
<1>5. ASSUME NEW i \in 1 .. n, Good(i - 1) PROVE Good(i)
  <2>1. i - 1 \in 0 .. n /\ d[i - 1] \in Pools /\ s[i] \in Blocks
    BY <1>1, <1>2, <1>3
  <2>2. ~ Given(s[i], i - 1)
    BY <1>1 DEF IsInjective
  <2>3. d[i - 1].ref[s[i]] = p.ref[s[i]]
    BY <1>5, <2>1, <2>2
  <2>4. PoolConsistent(d[i])
    BY <1>2, <1>3, <1>5, <2>1, <2>3, DropHolderConsistent
  <2>5. d[i].ref = [d[i - 1].ref EXCEPT ![s[i]] = @ - 1]
    <3>1. d[i] = DropHolder(d[i - 1], s[i])
      BY <1>3
    <3> HIDE DEF Good
    <3> QED  BY <3>1 DEF DropHolder
  <2>6. ASSUME NEW b \in Blocks
        PROVE  d[i].ref[b] = IF Given(b, i) THEN p.ref[b] - 1 ELSE p.ref[b]
    <3>1. Given(b, i) <=> Given(b, i - 1) \/ b = s[i]
      BY <1>1
    <3>2. d[i - 1].ref \in [Blocks -> Int]
      BY <2>1 DEF Pools
    <3>3. CASE b = s[i]
      BY <2>1, <2>3, <2>5, <3>1, <3>2, <3>3
    <3>4. CASE b # s[i]
      <4>1. d[i].ref[b] = d[i - 1].ref[b]
        BY <2>5, <3>2, <3>4
      <4> QED  BY <1>5, <3>1, <3>4, <4>1
    <3> QED  BY <3>3, <3>4
  <2> QED  BY <2>4, <2>6
<1>6. ASSUME Bad # {} PROVE FALSE
  <2> HIDE DEF Good
  <2>1. PICK m \in Bad : \A k \in Bad : m <= k
    BY <1>1, <1>6, LeastNat, Bad \subseteq Nat
  <2>2. m \in 1 .. n /\ m - 1 \in 0 .. n /\ m - 1 \notin Bad
    BY <1>1, <1>4, <2>1
  <2> QED  BY <1>5, <2>1, <2>2
<1>7. Good(n) /\ d[n] \in Pools
  <2> HIDE DEF Good
  <2> QED  BY <1>1, <1>3, <1>6
<1>8. \A b : Given(b, n) <=> b \in Range(s)
  BY <1>1 DEF Range
<1>9. Free(p, s) = d[n]
  BY DEF Free, d, n
<1> QED  BY <1>7, <1>8, <1>9

-----------------------------------------------------------------------------
(* allocate() and incref() *)

\* allocate(n): the blocks returned were free, are distinct and have one holder each; every
\* other count stays, and the stack again agrees with the counts.
LEMMA AllocateEffect ==
  ASSUME NEW p \in Pools, PoolConsistent(p), NEW n \in Nat, CanAllocate(p, n)
  PROVE  /\ Allocate(p, n) \in Pools
         /\ PoolConsistent(Allocate(p, n))
         /\ Popped(p, n) \in Seq(Blocks) /\ Len(Popped(p, n)) = n /\ IsInjective(Popped(p, n))
         /\ \A b \in Range(Popped(p, n)) : p.ref[b] = 0
         /\ \A b \in Blocks :
              Allocate(p, n).ref[b] = IF b \in Range(Popped(p, n)) THEN 1 ELSE p.ref[b]
<1> DEFINE f == p.free
           m == Len(f)
           new == Popped(p, n)
           q == Allocate(p, n)
<1>1. /\ f \in Seq(Blocks) /\ p.ref \in [Blocks -> Int] /\ m \in Nat /\ n <= m
      /\ DOMAIN f = 1 .. m /\ \A i \in 1 .. m : f[i] \in Blocks
  BY DEF Pools, CanAllocate, NumFree
<1>2. \A i \in 1 .. n : m + 1 - i \in 1 .. m /\ new[i] = f[m + 1 - i]
  BY <1>1 DEF Popped
<1>3. new \in Seq(Blocks) /\ Len(new) = n /\ DOMAIN new = 1 .. n
  BY <1>1, <1>2 DEF Popped
<1>4. IsInjective(f) /\ Range(f) = {b \in Blocks : p.ref[b] = 0}
  BY DEF PoolConsistent
<1>8. /\ q.ref = [b \in Blocks |-> IF b \in Range(new) THEN 1 ELSE p.ref[b]]
      /\ q.free = SubSeq(f, 1, m - n)
      /\ q = [free |-> q.free, ref |-> q.ref]
  BY DEF Allocate
<1>9. /\ q.free \in Seq(Blocks) /\ DOMAIN q.free = 1 .. m - n
      /\ \A i \in 1 .. m - n : q.free[i] = f[i]
  BY <1>1, <1>8
<1> HIDE DEF f, m, new, q
<1>0. \A i, j \in 1 .. m : f[i] = f[j] => i = j
  BY <1>1, <1>4 DEF IsInjective
<1>5. IsInjective(new)
  <2> SUFFICES ASSUME NEW i \in 1 .. n, NEW j \in 1 .. n, new[i] = new[j] PROVE i = j
    BY <1>3 DEF IsInjective
  <2>1. m + 1 - i = m + 1 - j
    BY <1>0, <1>2
  <2> QED  BY <1>1, <2>1
<1>6. \A b \in Range(new) : b \in Range(f)
  BY <1>1, <1>2, <1>3 DEF Range
<1>7. \A b \in Range(new) : p.ref[b] = 0
  BY <1>4, <1>6
<1>10. q \in Pools
  <2>1. q.ref \in [Blocks -> Int]
    BY <1>1, <1>8
  <2>2. [free |-> q.free, ref |-> q.ref] \in Pools
    BY <1>9, <2>1 DEF Pools
  <2> QED  BY <1>8, <2>2
<1>11. IsInjective(q.free)
  <2> SUFFICES ASSUME NEW i \in 1 .. m - n, NEW j \in 1 .. m - n, q.free[i] = q.free[j] PROVE i = j
    BY <1>9 DEF IsInjective
  <2>1. i \in 1 .. m /\ j \in 1 .. m
    BY <1>1
  <2>2. f[i] = f[j]
    BY <1>9
  <2> QED  BY <1>0, <2>1, <2>2
<1>12. Range(q.free) = Range(f) \ Range(new)
  <2>1. ASSUME NEW b \in Range(q.free) PROVE b \in Range(f) \ Range(new)
    <3>1. PICK i \in 1 .. m - n : f[i] = b
      BY <1>9 DEF Range
    <3>2. b \notin Range(new)
      <4>1. ASSUME NEW j \in 1 .. n, new[j] = b PROVE FALSE
        <5>1. m + 1 - j = i
          BY <1>0, <1>1, <1>2, <3>1, <4>1
        <5> QED  BY <1>1, <5>1
      <4> QED  BY <1>3, <4>1 DEF Range
    <3>3. i \in 1 .. m
      BY <1>1
    <3> QED  BY <1>1, <3>1, <3>2, <3>3 DEF Range
  <2>2. ASSUME NEW b \in Range(f) \ Range(new) PROVE b \in Range(q.free)
    <3>1. PICK i \in 1 .. m : f[i] = b
      BY <1>1 DEF Range
    <3>2. i \in 1 .. m - n
      <4>1. ASSUME i > m - n PROVE FALSE
        <5>1. m + 1 - i \in 1 .. n /\ new[m + 1 - i] = b
          BY <1>1, <1>2, <3>1, <4>1
        <5> QED  BY <1>3, <5>1 DEF Range
      <4> QED  BY <1>1, <4>1
    <3> QED  BY <1>9, <3>1, <3>2 DEF Range
  <2> QED  BY <2>1, <2>2
<1>13. Range(q.free) = {b \in Blocks : q.ref[b] = 0}
  BY <1>4, <1>8, <1>12
<1>14. \A b \in Blocks : q.ref[b] >= 0
  BY <1>8 DEF PoolConsistent
<1>15. PoolConsistent(q) /\ \A b \in Blocks : q.ref[b] = IF b \in Range(new) THEN 1 ELSE p.ref[b]
  BY <1>8, <1>11, <1>13, <1>14 DEF PoolConsistent
<1> QED  BY <1>3, <1>5, <1>7, <1>10, <1>15 DEF new, q

\* incref() of a list without duplicates: one more holder for each block, and the stack
\* still agrees with the counts, since only blocks with a holder were named.
LEMMA IncrefEffect ==
  ASSUME NEW p \in Pools, PoolConsistent(p), NEW s \in Seq(Blocks), IsInjective(s),
         CanIncref(p, s)
  PROVE  /\ Incref(p, s) \in Pools
         /\ PoolConsistent(Incref(p, s))
         /\ \A b \in Blocks : Incref(p, s).ref[b] = IF b \in Range(s) THEN p.ref[b] + 1 ELSE p.ref[b]
<1> DEFINE q == Incref(p, s)
<1>1. p.ref \in [Blocks -> Int] /\ p.free \in Seq(Blocks)
  BY DEF Pools
<1>2. /\ q.free = p.free
      /\ q.ref = [b \in Blocks |-> IF b \in Range(s) THEN p.ref[b] + 1 ELSE p.ref[b]]
  BY InjectiveOccurrences DEF Incref, Pools
<1>3. q \in Pools
  <2>1. q = [free |-> q.free, ref |-> q.ref]
    BY DEF Incref, Pools
  <2>2. q.free \in Seq(Blocks) /\ q.ref \in [Blocks -> Int]
    <3> HIDE DEF q
    <3> QED  BY <1>1, <1>2
  <2> HIDE DEF q
  <2>3. [free |-> q.free, ref |-> q.ref] \in Pools
    BY <2>2 DEF Pools
  <2> QED  BY <2>1, <2>3
<1>4. \A b \in Blocks : /\ p.ref[b] >= 0 /\ p.ref[b] \in Int
                        /\ b \in Range(s) => p.ref[b] # 0
  BY <1>1 DEF CanIncref, PoolConsistent
<1>5. \A b \in Blocks : q.ref[b] >= 0 /\ (q.ref[b] = 0 <=> p.ref[b] = 0)
  BY <1>1, <1>2, <1>4
<1> QED  BY <1>2, <1>3, <1>5 DEF PoolConsistent

\* A fresh allocator: no holders, every block on the stack.
LEMMA NewPoolConsistent ==
  NewPool \in Pools /\ PoolConsistent(NewPool)
<1>1. NumBlocks \in Nat
  BY PoolAssumption
<1>2. NewPool.free \in Seq(Blocks) /\ NewPool.ref = [b \in Blocks |-> 0]
  BY <1>1 DEF NewPool, Blocks
<1>3. DOMAIN NewPool.free = 1 .. NumBlocks /\ \A i \in 1 .. NumBlocks : NewPool.free[i] = NumBlocks - i
  BY <1>1 DEF NewPool
<1>4. IsInjective(NewPool.free)
  BY <1>1, <1>3 DEF IsInjective
<1>5. Range(NewPool.free) = Blocks
  <2>1. ASSUME NEW b \in Blocks PROVE b \in Range(NewPool.free)
    <3>1. NumBlocks - b \in 1 .. NumBlocks /\ NumBlocks - (NumBlocks - b) = b
      BY <1>1 DEF Blocks
    <3> QED  BY <1>3, <3>1 DEF Range
  <2>2. Range(NewPool.free) \subseteq Blocks
    BY <1>1, <1>3 DEF Range, Blocks
  <2> QED  BY <2>1, <2>2
<1>6. NewPool = [free |-> NewPool.free, ref |-> NewPool.ref]
  BY DEF NewPool
<1>7. NewPool \in Pools
  BY <1>2, <1>6 DEF Pools
<1>8. PoolConsistent(NewPool)
  BY <1>2, <1>4, <1>5 DEF PoolConsistent
<1> QED  BY <1>7, <1>8
=============================================================================
