-------------------------- MODULE BlockPoolProofs --------------------------
(***************************************************************************)
(* The invariants of BlockPool, for every pool, block size and finite set  *)
(* of holders.  None of them is inductive alone: that a block has exactly  *)
(* its counted holders needs the stack to agree with the counts (a popped  *)
(* block had no holder), and that an open block has one holder needs       *)
(* tables without duplicates (a block behind a shared prefix is not in it).*)
(***************************************************************************)
EXTENDS BlockPool, AllocatorProofs

IInv == /\ TypeOK
        /\ TablesSound
        /\ FreeMatchesRefs
        /\ RefsCountHolders
        /\ AppendsExclusive

-----------------------------------------------------------------------------

\* BlocksFor(n) blocks have room for n tokens (blocks_needed rounds up).
LEMMA BlocksForCovers ==
  ASSUME NEW n \in Nat
  PROVE  BlocksFor(n) \in Nat /\ n <= BlocksFor(n) * BlockSize
<1>1. BlockSize \in Nat \ {0}
  BY PoolAssumption
<1> DEFINE a == n + BlockSize - 1
           d == a \div BlockSize
<1>2. a \in Nat
  BY <1>1
<1> HIDE DEF a
<1>3. d \in Nat /\ a = BlockSize * d + (a % BlockSize) /\ a % BlockSize \in 0 .. BlockSize - 1
  BY <1>1, <1>2
<1>4. BlockSize * d = d * BlockSize
  BY <1>1, <1>3
<1> HIDE DEF d
<1>5. a <= d * BlockSize + (BlockSize - 1)
  BY <1>1, <1>2, <1>3, <1>4
<1> QED  BY <1>1, <1>3, <1>5 DEF BlocksFor, a, d

\* More blocks have more room.
LEMMA RoomGrows ==
  ASSUME NEW i \in Int, NEW j \in Int
  PROVE  i * BlockSize \in Int /\ (i <= j <=> i * BlockSize <= j * BlockSize)
BY PoolAssumption

\* A table with at least the blocks a length asks for has room for that length.
LEMMA RoomEnough ==
  ASSUME NEW t \in Nat, NEW k \in Nat, BlocksFor(t) <= k
  PROVE  t <= k * BlockSize
<1>1. BlocksFor(t) \in Nat /\ t <= BlocksFor(t) * BlockSize
  BY BlocksForCovers
<1> DEFINE u == BlocksFor(t) * BlockSize
           v == k * BlockSize
<1>2. u \in Int /\ v \in Int /\ u <= v
  BY <1>1, RoomGrows
<1>3. t <= u
  BY <1>1
<1> HIDE DEF u, v
<1>4. t <= v
  BY <1>2, <1>3
<1> QED  BY <1>4 DEF v

\* The holders of a block are finitely many; there is none iff the count is zero.
LEMMA HoldersFinite ==
  ASSUME NEW b
  PROVE  /\ IsFiniteSet(HoldersOf(b)) /\ Cardinality(HoldersOf(b)) \in Nat
         /\ Cardinality(HoldersOf(b)) = 0 <=> HoldersOf(b) = {}
<1>1. IsFiniteSet(HoldersOf(b))
  BY HoldersAssumption, FS_Subset DEF HoldersOf, HoldersIn, BlocksOf
<1> QED  BY <1>1, FS_CardinalityType, FS_EmptySet

\* A fresh pool and empty tables satisfy the invariant.
LEMMA InitIInv == Init => IInv
<1> SUFFICES ASSUME Init PROVE IInv
  OBVIOUS
<1>1. TypeOK /\ FreeMatchesRefs
  BY NewPoolConsistent DEF Init, TypeOK, FreeMatchesRefs, EmptyTable, Tables
<1>2. \A h \in Holders : tables[h].blocks = <<>> /\ tables[h].num_tokens = 0
  BY DEF Init, EmptyTable
<1>3. TablesSound
  BY <1>2, PoolAssumption DEF TablesSound, IsInjective
<1>4. \A b : HoldersOf(b) = {}
  BY <1>2 DEF HoldersOf, HoldersIn, BlocksOf, Range
<1>5. RefsCountHolders
  BY <1>4, FS_EmptySet DEF RefsCountHolders, Init, NewPool
<1>6. AppendsExclusive
  BY <1>2 DEF AppendsExclusive
<1> QED  BY <1>1, <1>3, <1>5, <1>6 DEF IInv

\* What the invariant says of one table: the facts the action lemmas use.
LEMMA TableFacts ==
  ASSUME IInv, NEW h \in Holders
  PROVE  /\ tables[h] \in Tables
         /\ tables[h].blocks \in Seq(Blocks) /\ tables[h].num_tokens \in Nat
         /\ IsInjective(tables[h].blocks)
         /\ tables[h].num_tokens <= Len(tables[h].blocks) * BlockSize
         /\ BlocksOf(h) \subseteq Blocks
         /\ \A b \in BlocksOf(h) : h \in HoldersOf(b) /\ pool.ref[b] >= 1
<1>1. tables[h] \in Tables /\ pool \in Pools
  BY DEF IInv, TypeOK
<1>2. tables[h].blocks \in Seq(Blocks) /\ tables[h].num_tokens \in Nat
  BY <1>1 DEF Tables
<1>3. BlocksOf(h) \subseteq Blocks
  BY <1>2 DEF BlocksOf, Range
<1>4. ASSUME NEW b \in BlocksOf(h) PROVE h \in HoldersOf(b) /\ pool.ref[b] >= 1
  <2>1. h \in HoldersOf(b)
    BY <1>4 DEF HoldersOf, HoldersIn, BlocksOf
  <2>2. pool.ref[b] = Cardinality(HoldersOf(b))
    BY <1>3 DEF IInv, RefsCountHolders
  <2>3. pool.ref[b] \in Nat /\ pool.ref[b] # 0
    BY <2>1, <2>2, HoldersFinite
  <2> QED  BY <2>1, <2>3
<1> QED  BY <1>1, <1>2, <1>3, <1>4 DEF IInv, TablesSound

\* A live table can always be released: every block it names has a holder to drop.
LEMMA CanFreeTable ==
  ASSUME IInv, NEW h \in Holders
  PROVE  CanFree(pool, tables[h].blocks)
<1>1. /\ tables[h].blocks \in Seq(Blocks) /\ IsInjective(tables[h].blocks)
      /\ BlocksOf(h) \subseteq Blocks /\ \A b \in BlocksOf(h) : pool.ref[b] >= 1
  BY TableFacts
<1>2. \A b \in Range(tables[h].blocks) : Occurrences(b, tables[h].blocks) = 1
  BY <1>1, InjectiveOccurrences
<1> QED  BY <1>1, <1>2 DEF CanFree, BlocksOf

-----------------------------------------------------------------------------

\* new_table(prefix) preserves the invariant.  The open blocks of the others stay exclusive:
\* those of g lie behind the shared prefix, those of anybody else are not g's.
LEMMA ShareIInv ==
  ASSUME IInv, NEW h \in Holders, NEW g \in Holders, NEW k \in 1 .. Len(tables[g].blocks),
         Share(h, g, k)
  PROVE  IInv'
<1> DEFINE prefix == SubSeq(tables[g].blocks, 1, k)
           gb == tables[g].blocks
<1>1. /\ gb \in Seq(Blocks) /\ IsInjective(gb) /\ tables[g].num_tokens \in Nat
      /\ BlocksOf(g) \subseteq Blocks
  BY TableFacts
<1>2. /\ prefix \in Seq(Blocks) /\ Len(prefix) = k /\ DOMAIN prefix = 1 .. k
      /\ \A i \in 1 .. k : prefix[i] = gb[i] /\ i \in DOMAIN gb
  BY <1>1
<1>3. /\ h # g /\ tables[h] = EmptyTable /\ k * BlockSize <= tables[g].num_tokens
      /\ CanIncref(pool, prefix) /\ IsInjective(prefix)
      /\ pool' = Incref(pool, prefix)
      /\ tables' = [tables EXCEPT ![h] = TableOver(prefix)]
  BY DEF Share, CanShare
<1>4. tables \in [Holders -> Tables] /\ pool \in Pools /\ PoolConsistent(pool)
  BY DEF IInv, TypeOK, FreeMatchesRefs
<1> HIDE DEF prefix, gb
<1>5. /\ pool' \in Pools /\ PoolConsistent(pool')
      /\ \A b \in Blocks : pool'.ref[b] = IF b \in Range(prefix) THEN pool.ref[b] + 1 ELSE pool.ref[b]
  BY <1>2, <1>3, <1>4, IncrefEffect
<1>6. /\ tables'[h].blocks = prefix /\ tables'[h].num_tokens = k * BlockSize
      /\ tables'[h] \in Tables
      /\ \A x \in Holders \ {h} : tables'[x] = tables[x]
  BY <1>2, <1>3, <1>4, PoolAssumption DEF TableOver, Tables
<1>7. Range(prefix) \subseteq BlocksOf(g)
  BY <1>2 DEF Range, BlocksOf, gb
<1>8. BlocksOf(h) = {} /\ BlocksOf(h)' = Range(prefix)
  BY <1>3, <1>6 DEF BlocksOf, Range, EmptyTable
<1>9. \A b : HoldersIn(tables', b) = IF b \in Range(prefix) THEN HoldersOf(b) \cup {h} ELSE HoldersOf(b)
  BY <1>6, <1>8 DEF HoldersOf, HoldersIn, BlocksOf
<1>10. TypeOK'
  BY <1>3, <1>4, <1>5, <1>6 DEF TypeOK
<1>11. TablesSound'
  <2>1. tables'[h].num_tokens <= Len(tables'[h].blocks) * BlockSize /\ IsInjective(tables'[h].blocks)
    BY <1>2, <1>3, <1>6, PoolAssumption
  <2> QED  BY <1>6, <2>1 DEF TablesSound, IInv
<1>12. RefsCountHolders'
  <2> SUFFICES ASSUME NEW b \in Blocks PROVE pool'.ref[b] = Cardinality(HoldersIn(tables', b))
    BY DEF RefsCountHolders, HoldersOf, HoldersIn
  <2>1. pool.ref[b] = Cardinality(HoldersOf(b)) /\ h \notin HoldersOf(b)
    BY <1>8 DEF IInv, RefsCountHolders, HoldersOf, HoldersIn, BlocksOf
  <2>2. IsFiniteSet(HoldersOf(b))
    BY HoldersFinite
  <2>3. Cardinality(HoldersOf(b) \cup {h}) = Cardinality(HoldersOf(b)) + 1
    BY <2>1, <2>2, FS_AddElement
  <2> QED  BY <1>5, <1>9, <2>1, <2>3
<1>13. AppendsExclusive'
  <2> SUFFICES ASSUME NEW x \in Holders, NEW i \in DOMAIN tables'[x].blocks,
                      i * BlockSize > tables'[x].num_tokens
               PROVE  HoldersIn(tables', tables'[x].blocks[i]) = {x}
    BY DEF AppendsExclusive, HoldersOf, HoldersIn
  <2>1. x # h
    <3>1. ASSUME x = h PROVE FALSE
      <4>1. i \in 1 .. k /\ i * BlockSize > k * BlockSize
        BY <1>2, <1>6, <3>1
      <4> QED  BY <4>1, PoolAssumption
    <3> QED  BY <3>1
  <2>2. tables'[x] = tables[x]
    BY <1>6, <2>1
  <2> DEFINE b == tables[x].blocks[i]
  <2>3. HoldersOf(b) = {x}
    BY <2>2 DEF IInv, AppendsExclusive
  <2>4. b \notin Range(prefix)
    <3>1. ASSUME b \in Range(prefix) PROVE FALSE
      <4>1. g \in HoldersOf(b)
        BY <1>7, <3>1 DEF HoldersOf, HoldersIn, BlocksOf
      <4>2. x = g
        BY <2>3, <4>1
      <4>3. PICK j \in 1 .. k : gb[j] = b /\ j \in DOMAIN gb
        BY <1>2, <3>1 DEF Range
      <4>4. i = j
        BY <1>1, <2>2, <4>2, <4>3 DEF IsInjective, gb
      <4>5. i * BlockSize <= k * BlockSize
        BY <4>3, <4>4, PoolAssumption
      <4>6. i * BlockSize > tables[g].num_tokens
        BY <2>2, <4>2
      <4> QED  BY <1>1, <1>3, <4>3, <4>4, <4>5, <4>6, PoolAssumption
    <3> QED  BY <3>1
  <2> QED  BY <1>9, <2>2, <2>3, <2>4
<1> QED  BY <1>5, <1>10, <1>11, <1>12, <1>13 DEF IInv, FreeMatchesRefs

\* append_tokens(n) preserves the invariant.  The blocks popped had no holder, so they
\* are new to the table and nobody else has them.
LEMMA ExtendIInv ==
  ASSUME IInv, NEW h \in Holders, NEW n \in Nat, Extend(h, n)
  PROVE  IInv'
<1> DEFINE more == BlocksNeeded(tables[h], n)
           new == Popped(pool, more)
           hb == tables[h].blocks
           nt == tables[h].num_tokens
<1>1. /\ hb \in Seq(Blocks) /\ IsInjective(hb) /\ nt \in Nat /\ nt <= Len(hb) * BlockSize
      /\ BlocksOf(h) \subseteq Blocks /\ \A b \in BlocksOf(h) : pool.ref[b] >= 1
  BY TableFacts
<1>2. /\ CanAllocate(pool, more) /\ pool' = Allocate(pool, more)
      /\ tables' = [tables EXCEPT ![h] = AppendTokens(tables[h], new, n)]
  BY DEF Extend
<1>3. BlocksFor(nt + n) \in Nat /\ nt + n <= BlocksFor(nt + n) * BlockSize
  <2>1. nt + n \in Nat
    BY <1>1
  <2> HIDE DEF nt
  <2> QED  BY <2>1, BlocksForCovers
<1>4. /\ more \in Nat /\ BlocksFor(nt + n) <= Len(hb) + more
  BY <1>1, <1>3 DEF BlocksNeeded
<1>5. tables \in [Holders -> Tables] /\ pool \in Pools /\ PoolConsistent(pool)
  BY DEF IInv, TypeOK, FreeMatchesRefs
<1> HIDE DEF more, new, hb, nt
<1>6. /\ pool' \in Pools /\ PoolConsistent(pool')
      /\ new \in Seq(Blocks) /\ Len(new) = more /\ IsInjective(new)
      /\ \A b \in Range(new) : pool.ref[b] = 0
      /\ \A b \in Blocks : pool'.ref[b] = IF b \in Range(new) THEN 1 ELSE pool.ref[b]
  BY <1>2, <1>4, <1>5, AllocateEffect DEF new
<1>7. /\ tables'[h].blocks = hb \o new /\ tables'[h].num_tokens = nt + n
      /\ \A x \in Holders \ {h} : tables'[x] = tables[x]
  BY <1>2, <1>5 DEF AppendTokens, hb, nt
<1>8. tables'[h] \in Tables
  BY <1>1, <1>2, <1>5, <1>6 DEF AppendTokens, Tables, hb, nt
<1>9. /\ Len(hb) \in Nat /\ more \in Nat
      /\ DOMAIN hb = 1 .. Len(hb) /\ DOMAIN new = 1 .. more
      /\ DOMAIN (hb \o new) = 1 .. Len(hb) + more
      /\ \A i \in 1 .. Len(hb) : (hb \o new)[i] = hb[i]
      /\ \A i \in Len(hb) + 1 .. Len(hb) + more : (hb \o new)[i] = new[i - Len(hb)] /\ i - Len(hb) \in 1 .. more
  BY <1>1, <1>4, <1>6
<1>10. Range(hb) \cap Range(new) = {}
  BY <1>1, <1>6 DEF BlocksOf, hb
<1>11. Range(hb \o new) = Range(hb) \cup Range(new)
  <2>1. \A b \in Range(hb \o new) : b \in Range(hb) \cup Range(new)
    BY <1>9 DEF Range
  <2>2. \A b \in Range(hb) : b \in Range(hb \o new)
    BY <1>9 DEF Range
  <2>3. ASSUME NEW b \in Range(new) PROVE b \in Range(hb \o new)
    <3>1. PICK j \in 1 .. more : new[j] = b
      BY <1>9 DEF Range
    <3>2. j + Len(hb) \in 1 .. Len(hb) + more /\ (hb \o new)[j + Len(hb)] = b
      BY <1>9, <3>1
    <3> QED  BY <1>9, <3>2 DEF Range
  <2> QED  BY <2>1, <2>2, <2>3
<1>12. BlocksOf(h)' = BlocksOf(h) \cup Range(new)
  BY <1>7, <1>11 DEF BlocksOf, hb
<1>13. \A b \in Range(new) : HoldersOf(b) = {}
  <2> SUFFICES ASSUME NEW b \in Range(new) PROVE HoldersOf(b) = {}
    OBVIOUS
  <2>1. b \in Blocks
    BY <1>6 DEF Range
  <2>2. Cardinality(HoldersOf(b)) = 0
    BY <1>6, <2>1 DEF IInv, RefsCountHolders
  <2> QED  BY <2>2, HoldersFinite
<1>14. \A b : HoldersIn(tables', b) = IF b \in Range(new) THEN {h} ELSE HoldersOf(b)
  <2> SUFFICES ASSUME NEW b PROVE HoldersIn(tables', b) = IF b \in Range(new) THEN {h} ELSE HoldersOf(b)
    OBVIOUS
  <2>1. \A x \in Holders : b \in BlocksOf(x)' <=> b \in BlocksOf(x) \/ (x = h /\ b \in Range(new))
    BY <1>7, <1>12 DEF BlocksOf
  <2>2. CASE b \in Range(new)
    BY <1>13, <2>1, <2>2 DEF HoldersOf, HoldersIn, BlocksOf
  <2>3. CASE b \notin Range(new)
    BY <2>1, <2>3 DEF HoldersOf, HoldersIn, BlocksOf
  <2> QED  BY <2>2, <2>3
<1>15. TypeOK'
  BY <1>2, <1>5, <1>6, <1>7, <1>8 DEF TypeOK
<1>16. TablesSound'
  <2>1. IsInjective(hb \o new)
    <3> SUFFICES ASSUME NEW i \in 1 .. Len(hb) + more, NEW j \in 1 .. Len(hb) + more,
                        (hb \o new)[i] = (hb \o new)[j]
                 PROVE  i = j
      BY <1>9 DEF IsInjective
    <3>1. CASE i <= Len(hb) /\ j <= Len(hb)
      BY <1>1, <1>9, <3>1 DEF IsInjective
    <3>2. CASE i > Len(hb) /\ j > Len(hb)
      <4>0. /\ i - Len(hb) \in DOMAIN new /\ (hb \o new)[i] = new[i - Len(hb)]
            /\ j - Len(hb) \in DOMAIN new /\ (hb \o new)[j] = new[j - Len(hb)]
        <5>1. \A l \in 1 .. Len(hb) + more : l > Len(hb) => l \in Len(hb) + 1 .. Len(hb) + more
          BY <1>9
        <5> QED  BY <1>9, <3>2, <5>1
      <4>1. i - Len(hb) = j - Len(hb)
        BY <1>6, <4>0 DEF IsInjective
      <4> QED  BY <1>9, <4>1
    <3>3. \A l \in 1 .. Len(hb) : (hb \o new)[l] \in Range(hb)
      BY <1>9 DEF Range
    <3>4. \A l \in Len(hb) + 1 .. Len(hb) + more : (hb \o new)[l] \in Range(new)
      BY <1>9 DEF Range
    <3>5. i <= Len(hb) <=> j <= Len(hb)
      BY <1>9, <1>10, <3>3, <3>4
    <3> QED  BY <1>9, <3>1, <3>2, <3>5
  <2>2. nt + n <= Len(hb \o new) * BlockSize
    <3>1. Len(hb \o new) = Len(hb) + more
      BY <1>1, <1>6
    <3>2. nt + n \in Nat /\ Len(hb) + more \in Nat /\ BlocksFor(nt + n) <= Len(hb) + more
      BY <1>1, <1>4, <1>9
    <3>3. nt + n <= (Len(hb) + more) * BlockSize
      BY <3>2, RoomEnough
    <3> QED  BY <3>1, <3>3
  <2> QED  BY <1>7, <2>1, <2>2 DEF TablesSound, IInv
<1>17. RefsCountHolders'
  <2> SUFFICES ASSUME NEW b \in Blocks PROVE pool'.ref[b] = Cardinality(HoldersIn(tables', b))
    BY DEF RefsCountHolders, HoldersOf, HoldersIn
  <2> QED  BY <1>6, <1>14, FS_Singleton DEF IInv, RefsCountHolders
<1>18. AppendsExclusive'
  <2> SUFFICES ASSUME NEW x \in Holders, NEW i \in DOMAIN tables'[x].blocks,
                      i * BlockSize > tables'[x].num_tokens
               PROVE  HoldersIn(tables', tables'[x].blocks[i]) = {x}
    BY DEF AppendsExclusive, HoldersOf, HoldersIn
  <2> DEFINE b == tables'[x].blocks[i]
  <2>1. CASE b \in Range(new)
    <3>1. b \in BlocksOf(x)'
      BY DEF BlocksOf, Range
    <3>2. x \in HoldersIn(tables', b)
      BY <3>1 DEF HoldersOf, HoldersIn, BlocksOf
    <3> QED  BY <1>14, <2>1, <3>2
  <2>2. CASE b \notin Range(new)
    <3>1. CASE x = h
      <4>0. i \in 1 .. Len(hb) + more /\ b = (hb \o new)[i]
        BY <1>7, <1>9, <3>1
      <4>1. i \in 1 .. Len(hb) /\ b = hb[i]
        <5>1. ASSUME i > Len(hb) PROVE FALSE
          <6>1. i - Len(hb) \in DOMAIN new /\ b = new[i - Len(hb)]
            BY <1>9, <4>0, <5>1
          <6> QED  BY <2>2, <6>1 DEF Range
        <5> QED  BY <1>9, <4>0, <5>1
      <4>2. i * BlockSize > nt
        BY <1>1, <1>7, <1>9, <3>1, <4>1, PoolAssumption
      <4>3. HoldersOf(b) = {h}
        BY <1>9, <4>1, <4>2 DEF IInv, AppendsExclusive, hb, nt
      <4> QED  BY <1>14, <2>2, <3>1, <4>3
    <3>2. CASE x # h
      <4>1. HoldersOf(b) = {x}
        BY <1>7, <3>2 DEF IInv, AppendsExclusive
      <4> QED  BY <1>14, <2>2, <4>1
    <3> QED  BY <3>1, <3>2
  <2> QED  BY <2>1, <2>2
<1> QED  BY <1>6, <1>15, <1>16, <1>17, <1>18 DEF IInv, FreeMatchesRefs

\* rewind(n) preserves the invariant: it moves no block, and reopens only exclusive ones.
LEMMA RewindIInv ==
  ASSUME IInv, NEW h \in Holders, NEW n \in Nat, Rewind(h, n)
  PROVE  IInv'
<1>1. /\ tables[h] \in Tables /\ tables[h].num_tokens \in Nat
      /\ tables[h].num_tokens <= Len(tables[h].blocks) * BlockSize
      /\ tables[h].blocks \in Seq(Blocks)
  BY TableFacts
<1>0. n <= tables[h].num_tokens
  BY <1>1 DEF Rewind, CanRewind
<1>2. /\ pool' = pool
      /\ tables' = [tables EXCEPT ![h] = Rewound(tables[h], n)]
      /\ \A i \in DOMAIN tables[h].blocks :
           i * BlockSize > tables[h].num_tokens - n => HoldersOf(tables[h].blocks[i]) = {h}
  BY DEF Rewind
<1>3. tables \in [Holders -> Tables] /\ pool \in Pools
  BY DEF IInv, TypeOK
<1>4. /\ tables'[h].blocks = tables[h].blocks
      /\ tables'[h].num_tokens = tables[h].num_tokens - n /\ tables'[h].num_tokens \in Nat
      /\ \A x \in Holders \ {h} : tables'[x] = tables[x]
      /\ tables' \in [Holders -> Tables]
  <2>1. tables'[h] = Rewound(tables[h], n) /\ \A x \in Holders \ {h} : tables'[x] = tables[x]
    BY <1>2, <1>3
  <2>2. /\ Rewound(tables[h], n).blocks = tables[h].blocks
        /\ Rewound(tables[h], n).num_tokens = tables[h].num_tokens - n
        /\ Rewound(tables[h], n) \in Tables
    BY <1>0, <1>1 DEF Rewound, Tables
  <2>3. tables[h].num_tokens - n \in Nat
    BY <1>0, <1>1
  <2> QED  BY <1>2, <1>3, <2>1, <2>2, <2>3
<1>5. \A x \in Holders : tables'[x].blocks = tables[x].blocks
  BY <1>4
<1>6. \A b : HoldersIn(tables', b) = HoldersOf(b)
  BY <1>5 DEF HoldersOf, HoldersIn, BlocksOf
<1>7. TypeOK' /\ FreeMatchesRefs' /\ RefsCountHolders'
  BY <1>2, <1>3, <1>4, <1>6 DEF IInv, TypeOK, FreeMatchesRefs, RefsCountHolders, HoldersOf
<1>8. TablesSound'
  <2>1. tables'[h].num_tokens <= Len(tables[h].blocks) * BlockSize
    BY <1>1, <1>4, PoolAssumption
  <2> QED  BY <1>4, <1>5, <2>1 DEF IInv, TablesSound
<1>9. AppendsExclusive'
  <2> SUFFICES ASSUME NEW x \in Holders, NEW i \in DOMAIN tables'[x].blocks,
                      i * BlockSize > tables'[x].num_tokens
               PROVE  HoldersIn(tables', tables'[x].blocks[i]) = {x}
    BY DEF AppendsExclusive, HoldersOf, HoldersIn
  <2>1. HoldersOf(tables[x].blocks[i]) = {x}
    <3>1. CASE x = h
      BY <1>2, <1>4, <3>1
    <3>2. CASE x # h
      BY <1>4, <3>2 DEF IInv, AppendsExclusive
    <3> QED  BY <3>1, <3>2
  <2> QED  BY <1>5, <1>6, <2>1
<1> QED  BY <1>7, <1>8, <1>9 DEF IInv

\* release() preserves the invariant: the table's blocks have one holder fewer each.
LEMMA ReleaseIInv ==
  ASSUME IInv, NEW h \in Holders, Release(h)
  PROVE  IInv'
<1> DEFINE hb == tables[h].blocks
<1>1. /\ hb \in Seq(Blocks) /\ IsInjective(hb) /\ BlocksOf(h) = Range(hb)
      /\ \A b \in BlocksOf(h) : h \in HoldersOf(b)
  BY TableFacts DEF BlocksOf
<1>2. /\ CanFree(pool, hb) /\ pool' = Free(pool, hb)
      /\ tables' = [tables EXCEPT ![h] = EmptyTable]
  BY DEF Release
<1>3. tables \in [Holders -> Tables] /\ pool \in Pools /\ PoolConsistent(pool)
  BY DEF IInv, TypeOK, FreeMatchesRefs
<1> HIDE DEF hb
<1>4. /\ pool' \in Pools /\ PoolConsistent(pool')
      /\ \A b \in Blocks : pool'.ref[b] = IF b \in Range(hb) THEN pool.ref[b] - 1 ELSE pool.ref[b]
  BY <1>1, <1>2, <1>3, FreeEffect
<1>5. /\ tables'[h].blocks = <<>> /\ tables'[h].num_tokens = 0 /\ tables'[h] \in Tables
      /\ \A x \in Holders \ {h} : tables'[x] = tables[x]
  BY <1>2, <1>3 DEF EmptyTable, Tables
<1>6. \A b : HoldersIn(tables', b) = IF b \in Range(hb) THEN HoldersOf(b) \ {h} ELSE HoldersOf(b)
  <2>1. BlocksOf(h)' = {}
    BY <1>5 DEF BlocksOf, Range
  <2>2. \A x \in Holders \ {h} : BlocksOf(x)' = BlocksOf(x)
    BY <1>5 DEF BlocksOf
  <2> QED  BY <1>1, <2>1, <2>2 DEF HoldersOf, HoldersIn, BlocksOf
<1>7. TypeOK'
  BY <1>2, <1>3, <1>4, <1>5 DEF TypeOK
<1>8. TablesSound'
  <2>1. IsInjective(tables'[h].blocks) /\ tables'[h].num_tokens <= Len(tables'[h].blocks) * BlockSize
    BY <1>5, PoolAssumption DEF IsInjective
  <2> QED  BY <1>5, <2>1 DEF IInv, TablesSound
<1>9. RefsCountHolders'
  <2> SUFFICES ASSUME NEW b \in Blocks PROVE pool'.ref[b] = Cardinality(HoldersIn(tables', b))
    BY DEF RefsCountHolders, HoldersOf, HoldersIn
  <2>1. pool.ref[b] = Cardinality(HoldersOf(b))
    BY DEF IInv, RefsCountHolders
  <2>2. CASE b \in Range(hb)
    <3>1. Cardinality(HoldersOf(b) \ {h}) = Cardinality(HoldersOf(b)) - 1
      <4>1. IsFiniteSet(HoldersOf(b))
        BY HoldersFinite
      <4>2. h \in HoldersOf(b)
        BY <1>1, <2>2
      <4> QED  BY <4>1, <4>2, FS_RemoveElement
    <3>2. pool'.ref[b] = pool.ref[b] - 1
      BY <1>4, <2>2
    <3>3. HoldersIn(tables', b) = HoldersOf(b) \ {h}
      BY <1>6, <2>2
    <3> QED  BY <2>1, <3>1, <3>2, <3>3
  <2>3. CASE b \notin Range(hb)
    BY <1>4, <1>6, <2>1, <2>3
  <2> QED  BY <2>2, <2>3
<1>10. AppendsExclusive'
  <2> SUFFICES ASSUME NEW x \in Holders, NEW i \in DOMAIN tables'[x].blocks,
                      i * BlockSize > tables'[x].num_tokens
               PROVE  HoldersIn(tables', tables'[x].blocks[i]) = {x}
    BY DEF AppendsExclusive, HoldersOf, HoldersIn
  <2>1. x # h
    BY <1>5
  <2>2. HoldersOf(tables'[x].blocks[i]) = {x}
    BY <1>5, <2>1 DEF IInv, AppendsExclusive
  <2>3. tables'[x].blocks[i] \notin Range(hb)
    BY <1>1, <2>1, <2>2
  <2> QED  BY <1>6, <2>2, <2>3
<1> QED  BY <1>4, <1>7, <1>8, <1>9, <1>10 DEF IInv, FreeMatchesRefs

-----------------------------------------------------------------------------

\* Every call of a holder preserves the invariant.
LEMMA NextIInv == IInv /\ [Next]_vars => IInv'
<1> SUFFICES ASSUME IInv, [Next]_vars PROVE IInv'
  OBVIOUS
<1>1. CASE Next
  <2>1. PICK h \in Holders :
          \/ \E g \in Holders : \E k \in 1 .. Len(tables[g].blocks) : Share(h, g, k)
          \/ \E n \in 1 .. MaxAppend : Extend(h, n)
          \/ \E n \in 1 .. MaxAppend : Rewind(h, n)
          \/ Release(h)
    BY <1>1 DEF Next
  <2>2. \A n \in 1 .. MaxAppend : n \in Nat
    BY HoldersAssumption
  <2> QED  BY <2>1, <2>2, ShareIInv, ExtendIInv, RewindIInv, ReleaseIInv
<1>2. CASE UNCHANGED vars
  <2>1. pool' = pool /\ tables' = tables
    BY <1>2 DEF vars
  <2>3. TypeOK' /\ TablesSound' /\ FreeMatchesRefs'
    BY <2>1 DEF IInv, TypeOK, TablesSound, FreeMatchesRefs
  <2>4. RefsCountHolders' /\ AppendsExclusive'
    BY <2>1 DEF IInv, RefsCountHolders, AppendsExclusive, HoldersOf, HoldersIn
  <2> QED  BY <2>3, <2>4 DEF IInv
<1> QED  BY <1>1, <1>2

\* Whatever sequence of calls the holders make: the state is well typed, ...
THEOREM PoolTypeCorrect == Spec => []TypeOK
<1>1. IInv => TypeOK
  BY DEF IInv
<1> QED  BY InitIInv, NextIInv, <1>1, PTL DEF Spec

\* ... the free stack and the reference counts agree and every count is the number of
\* tables that hold the block (no leak, no early reuse, no double free), ...
THEOREM PoolRefsCorrect == Spec => []BlocksConserved
<1>1. IInv => BlocksConserved
  BY DEF IInv, BlocksConserved
<1> QED  BY InitIInv, NextIInv, <1>1, PTL DEF Spec

\* ... a table always covers its tokens and never names a block twice, ...
THEOREM PoolTablesSound == Spec => []TablesSound
<1>1. IInv => TablesSound
  BY DEF IInv
<1> QED  BY InitIInv, NextIInv, <1>1, PTL DEF Spec

\* ... no token is ever appended into a block that somebody else holds, ...
THEOREM PoolAppendsExclusive == Spec => []AppendsExclusive
<1>1. IInv => AppendsExclusive
  BY DEF IInv
<1> QED  BY InitIInv, NextIInv, <1>1, PTL DEF Spec

\* ... and a release is never refused.
THEOREM PoolReleasePossible == Spec => []ReleaseAlwaysPossible
<1>1. IInv => ReleaseAlwaysPossible
  BY CanFreeTable DEF ReleaseAlwaysPossible
<1> QED  BY InitIInv, NextIInv, <1>1, PTL DEF Spec
=============================================================================
