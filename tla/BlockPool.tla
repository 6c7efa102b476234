------------------------------ MODULE BlockPool ------------------------------
(***************************************************************************)
(* Block tables that share one allocator: the holders whose calls drive    *)
(* BlockAllocator.  A holder is a request's block table; the radix tree,   *)
(* which also holds whole blocks, behaves here as a table of full blocks   *)
(* (PrefixCache.tla has the real tree).                                    *)
(*                                                                         *)
(* A released table is the empty table, as BlockTable.release leaves it,   *)
(* so a holder that has no table is one whose table is empty.              *)
(***************************************************************************)
EXTENDS BlockAllocator

CONSTANTS Holders,      \* who may have a table
          MaxAppend     \* most tokens one step appends to a table

ASSUME HoldersAssumption == IsFiniteSet(Holders) /\ MaxAppend \in Nat

VARIABLES pool,         \* BlockAllocator: _free and _ref
          tables        \* BlockTable of each holder

vars == <<pool, tables>>

BlocksOf(h) == Range(tables[h].blocks)

\* The holders of a block, in a given assignment of tables and in the current one.
HoldersIn(tabs, b) == {h \in Holders : b \in Range(tabs[h].blocks)}
HoldersOf(b) == HoldersIn(tables, b)

-----------------------------------------------------------------------------

Init == /\ pool = NewPool
        /\ tables = [h \in Holders |-> EmptyTable]

\* Faulty variant: shares a block that is still being filled.
ShareOpenBlock(h, g, k) ==
  LET prefix == SubSeq(tables[g].blocks, 1, k) IN
  /\ h # g /\ tables[h] = EmptyTable /\ CanShare(pool, prefix)
  /\ pool' = Incref(pool, prefix)
  /\ tables' = [tables EXCEPT ![h] = TableOver(prefix)]

\* new_table(prefix): h starts with the first k blocks of g.  Only full blocks are ever
\* passed (RadixTree.match returns whole blocks).
Share(h, g, k) ==
  LET prefix == SubSeq(tables[g].blocks, 1, k) IN
  /\ h # g
  /\ tables[h] = EmptyTable
  /\ k * BlockSize <= tables[g].num_tokens
  /\ CanShare(pool, prefix)
  /\ pool' = Incref(pool, prefix)
  /\ tables' = [tables EXCEPT ![h] = TableOver(prefix)]

\* append_tokens(n); refused as a whole when the pool has too few free blocks.
Extend(h, n) ==
  LET more == BlocksNeeded(tables[h], n) IN
  /\ CanAllocate(pool, more)
  /\ pool' = Allocate(pool, more)
  /\ tables' = [tables EXCEPT ![h] = AppendTokens(@, Popped(pool, more), n)]

\* rewind(n).  Its callers (spec/engine.py, spec/draft.py) take back only tokens that they
\* appended themselves in the same round, so no block that others share is reopened.
Rewind(h, n) ==
  /\ CanRewind(tables[h], n)
  /\ \A i \in DOMAIN tables[h].blocks :
        i * BlockSize > tables[h].num_tokens - n => HoldersOf(tables[h].blocks[i]) = {h}
  /\ tables' = [tables EXCEPT ![h] = Rewound(@, n)]
  /\ UNCHANGED pool

\* release()
Release(h) ==
  /\ CanFree(pool, tables[h].blocks)
  /\ pool' = Free(pool, tables[h].blocks)
  /\ tables' = [tables EXCEPT ![h] = EmptyTable]

Next == \E h \in Holders :
          \/ \E g \in Holders : \E k \in 1 .. Len(tables[g].blocks) : Share(h, g, k)
          \/ \E n \in 1 .. MaxAppend : Extend(h, n)
          \/ \E n \in 1 .. MaxAppend : Rewind(h, n)
          \/ Release(h)

Spec == Init /\ [][Next]_vars

-----------------------------------------------------------------------------

\* The types of the pool and the tables.
TypeOK == /\ pool \in Pools
          /\ tables \in [Holders -> Tables]

\* A table covers its tokens and names no block twice.
TablesSound ==
  \A h \in Holders : /\ tables[h].num_tokens <= Len(tables[h].blocks) * BlockSize
                     /\ IsInjective(tables[h].blocks)

\* The free stack and the reference counts describe the same set of blocks, whatever
\* the holders did before (BlockAllocator.check_invariants).
FreeMatchesRefs == PoolConsistent(pool)

\* The reference count of a block is the number of tables that hold it: no block leaks
\* when its holders release it, and none returns to the pool while somebody holds it.
RefsCountHolders == \A b \in Blocks : pool.ref[b] = Cardinality(HoldersOf(b))

\* Blocks are conserved under every sequence of calls: free stack, reference counts and the
\* tables of all holders tell the same story (no leak, no early reuse, no double free).
BlocksConserved == FreeMatchesRefs /\ RefsCountHolders

\* "Every token appended afterwards goes into a block this table holds exclusively and no
\* copy-on-write is needed" (block_table.py): a block with room for more tokens of a table,
\* spare blocks that a rewind left behind included, has that table as its only holder.
AppendsExclusive ==
  \A h \in Holders : \A i \in DOMAIN tables[h].blocks :
     i * BlockSize > tables[h].num_tokens => HoldersOf(tables[h].blocks[i]) = {h}

\* release() of a live table is never refused: its counts cover what the table gives back.
ReleaseAlwaysPossible == \A h \in Holders : CanFree(pool, tables[h].blocks)
=============================================================================
