------------------------------ MODULE CorePool ------------------------------
(***************************************************************************)
(* The allocator and the block table of the C++ backend                    *)
(* (minicore/src/block_allocator.cpp, block_table.cpp), call by call: what *)
(* a call returns, leaves behind or throws in a given state.  The state is *)
(* that of a pool with drops, the scratch counters of free(), which must   *)
(* be zero between calls.                                                  *)
(*                                                                         *)
(* BlockPool walks through the states of the reference; in each of them    *)
(* every call, refused ones included, must have the reference's outcome.   *)
(***************************************************************************)
EXTENDS BlockPool, SequencesExt

CONSTANT MaxBlockArgs   \* most block ids in one call

\* The arguments of incref and free: ids just outside of the pool, and repeated ones, too.
BlockArgs == BoundedSeq(-1 .. NumBlocks, MaxBlockArgs)

Zeros == [b \in Blocks |-> 0]
CoreOf(p) == [free |-> p.free, ref |-> p.ref, drops |-> Zeros]

Threw(core, error) == [core |-> core, out |-> <<>>, error |-> error]
Returns(core, out) == [core |-> core, out |-> out, error |-> "none"]

-----------------------------------------------------------------------------
(* The C++ allocator *)

\* allocate_into: pop the stack n times.
PopInto(r, i) ==
  LET b == Last(r.core.free)
  IN  Returns([r.core EXCEPT !.free = Front(@), !.ref[b] = 1], Append(r.out, b))

CoreAllocate(core, n) ==
  IF n < 0 THEN Threw(core, "ValueError") ELSE
  IF n > Len(core.free) THEN Threw(core, "OutOfBlocks") ELSE
  FoldLeft(PopInto, Returns(core, <<>>), [i \in 1 .. n |-> i])

\* check_id, for each of the blocks.
BadIds(blocks) == {i \in DOMAIN blocks : blocks[i] \notin Blocks}

AddHolder(core, b) == [core EXCEPT !.ref[b] = @ + 1]

\* incref: each id is checked, then its count, in the order of the call.
CoreIncref(core, blocks) ==
  LET unheld == {i \in DOMAIN blocks \ BadIds(blocks) : core.ref[blocks[i]] = 0}
      first  == SetToSortSeq(BadIds(blocks) \cup unheld, LAMBDA i, j : i < j)
  IN  IF first # <<>>
      THEN Threw(core, IF first[1] \in unheld THEN "ValueError" ELSE "IndexError")
      ELSE Returns(FoldLeft(AddHolder, core, blocks), <<>>)

CountDrop(core, b) == [core EXCEPT !.drops[b] = @ + 1]

ForgetDrop(core, b) == [core EXCEPT !.drops[b] = 0]

\* Faulty variant: a refused call leaves its counts behind.
CheckedDropsEarly(core, blocks) ==
  LET counted  == FoldLeft(CountDrop, core, blocks)
      offender == \E b \in Range(blocks) : counted.ref[b] < counted.drops[b]
  IN  IF offender THEN Threw(counted, "ValueError")
      ELSE Returns(FoldLeft(ForgetDrop, counted, blocks), <<>>)

\* The releases of a call are counted per block, compared with the holders and forgotten,
\* whatever the outcome.
CheckedDrops(core, blocks) ==
  LET counted  == FoldLeft(CountDrop, core, blocks)
      offender == \E b \in Range(blocks) : counted.ref[b] < counted.drops[b]
      reset    == FoldLeft(ForgetDrop, counted, blocks)
  IN  IF offender THEN Threw(reset, "ValueError") ELSE Returns(reset, <<>>)

DropRef(core, b) ==
  [core EXCEPT !.ref[b] = @ - 1, !.free = IF core.ref[b] = 1 THEN Append(@, b) ELSE @]

CoreFree(core, blocks) ==
  LET checked == CheckedDrops(core, blocks)
  IN  IF BadIds(blocks) # {} THEN Threw(core, "IndexError") ELSE
      IF checked.error # "none" THEN checked
      ELSE Returns(FoldLeft(DropRef, checked.core, blocks), <<>>)

-----------------------------------------------------------------------------
(* The C++ table *)

\* The integer division of C++ truncates; its operands are not negative here.
CoreBlocksNeeded(table, n) ==
  LET need == (table.num_tokens + n + BlockSize - 1) \div BlockSize - Len(table.blocks)
  IN  IF need > 0 THEN need ELSE 0

\* append_tokens: the blocks go straight into the table; nothing is touched if short.
CoreAppend(core, table, n) ==
  LET r == CoreAllocate(core, CoreBlocksNeeded(table, n))
  IN  [core |-> r.core, error |-> r.error,
       table |-> IF r.error # "none" THEN table
                 ELSE [blocks |-> table.blocks \o r.out, num_tokens |-> table.num_tokens + n]]

\* The constructor: a prefix that names a block twice is refused before anything is counted.
CoreTable(core, prefix) ==
  IF IsInjective(prefix) THEN CoreIncref(core, prefix) ELSE Threw(core, "ValueError")

\* tail_slots: one slot per position, pushed in order.
CoreTailSlots(table, n) ==
  LET push(out, pos) == Append(out, table.blocks[pos \div BlockSize + 1] * BlockSize + (pos % BlockSize))
  IN  IF n \notin 0 .. table.num_tokens THEN <<"IndexError">>
      ELSE FoldLeft(push, <<>>, [i \in 1 .. n |-> table.num_tokens - n + i - 1])

\* release: the blocks go back in the table's order, and the table is empty.
CoreRelease(core, table) ==
  LET r == CoreFree(core, table.blocks)
  IN  [core |-> r.core, error |-> r.error, table |-> IF r.error = "none" THEN EmptyTable ELSE table]

-----------------------------------------------------------------------------
(* A batch of tables in FlashInfer's layout: page ids, the offset of each row, and how full
   the last page of each row is.  Padding rows are the single page PadBlock.                *)

PadBlock == NumBlocks

\* pack_block_tables of block_table.py: three lists, each built as a whole.
PackedTables(ts, pads, padLast) ==
  LET lens  == [i \in 1 .. Len(ts) + pads |-> IF i <= Len(ts) THEN Len(ts[i].blocks) ELSE 1]
      start == [i \in 1 .. Len(lens) + 1 |-> FoldLeft(LAMBDA a, n : a + n, 0, SubSeq(lens, 1, i - 1))]
  IN  [indices |-> FlattenSeq([i \in DOMAIN ts |-> ts[i].blocks]) \o [i \in 1 .. pads |-> PadBlock],
       indptr  |-> start,
       last    |-> [i \in DOMAIN lens |-> IF i <= Len(ts) THEN LastBlockLen(ts[i]) ELSE padLast]]

\* packing.cpp: one row after the other.
PackRow(out, row) ==
  [indices |-> out.indices \o row.blocks,
   indptr  |-> Append(out.indptr, Len(out.indices) + Len(row.blocks)),
   last    |-> Append(out.last, row.last)]

CorePack(ts, pads, padLast) ==
  LET rows == [i \in 1 .. Len(ts) + pads |->
                 IF i <= Len(ts) THEN [blocks |-> ts[i].blocks, last |-> LastBlockLen(ts[i])]
                 ELSE [blocks |-> <<PadBlock>>, last |-> padLast]]
  IN  FoldLeft(PackRow, [indices |-> <<>>, indptr |-> <<0>>, last |-> <<>>], rows)

-----------------------------------------------------------------------------
(* What the reference does with the same call *)

Outcome(can, p, out, error) ==
  IF can THEN Returns(CoreOf(p), out) ELSE Threw(CoreOf(pool), error)

\* "The same call sequence must give the same block ids and raise the same kind of error"
\* (block_allocator.hpp), and "drops_ is all zeros on entry and on exit, including when this
\* throws" (block_allocator.cpp): in every state the holders can reach, the calls of the two
\* backends, from allocate to the packing of a batch, return the same, leave the same pool,
\* or refuse with the same error and change nothing; tables that a rewind left with spare
\* blocks included.
CoreMatchesReference ==
  LET core == CoreOf(pool) IN
  /\ \A n \in 0 .. NumBlocks + 1 :
       CoreAllocate(core, n) = Outcome(CanAllocate(pool, n), Allocate(pool, n),
                                       Popped(pool, n), "OutOfBlocks")
  /\ \A blocks \in BlockArgs :
       /\ LET first == {i \in DOMAIN blocks : ~ CanIncref(pool, SubSeq(blocks, 1, i))}
          IN  CoreIncref(core, blocks)
                = Outcome(CanIncref(pool, blocks), Incref(pool, blocks), <<>>,
                          IF \E i \in first : blocks[i] \notin Blocks /\ \A j \in first : i <= j
                          THEN "IndexError" ELSE "ValueError")
       /\ CoreFree(core, blocks)
            = Outcome(CanFree(pool, blocks), Free(pool, blocks), <<>>,
                      IF Range(blocks) \subseteq Blocks THEN "ValueError" ELSE "IndexError")
  /\ \A h \in Holders : \A n \in 0 .. MaxAppend :
       LET a == CoreAppend(core, tables[h], n)
           m == BlocksNeeded(tables[h], n)
       IN  IF CanAllocate(pool, m)
           THEN /\ a.core = CoreOf(Allocate(pool, m))
                /\ a.table = AppendTokens(tables[h], Popped(pool, m), n)
           ELSE a.core = core /\ a.table = tables[h] /\ a.error = "OutOfBlocks"
  /\ \A prefix \in BlockArgs :
       (Range(prefix) \subseteq Blocks) =>
         CoreTable(core, prefix)
           = Outcome(CanShare(pool, prefix), Incref(pool, prefix), <<>>, "ValueError")
  /\ \A h \in Holders :
       /\ \A n \in 0 .. tables[h].num_tokens + 1 :
            CoreTailSlots(tables[h], n)
              = IF CanRewind(tables[h], n) THEN TailSlots(tables[h], n) ELSE <<"IndexError">>
       /\ CoreRelease(core, tables[h])
            = [core |-> CoreOf(Free(pool, tables[h].blocks)), error |-> "none", table |-> EmptyTable]
       /\ \A g \in Holders \ {h} : \A pads \in 0 .. 2 :
            CorePack(<<tables[h], tables[g]>>, pads, 1) = PackedTables(<<tables[h], tables[g]>>, pads, 1)
=============================================================================
