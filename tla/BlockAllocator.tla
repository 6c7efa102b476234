--------------------------- MODULE BlockAllocator ---------------------------
(***************************************************************************)
(* The fixed-size KV block allocator (miniserve/cache/block_allocator.py)  *)
(* and the per-request block table (miniserve/cache/block_table.py), as    *)
(* operators over the values of their state.                               *)
(*                                                                         *)
(* A pool is [free, ref]: the stack of free block ids, whose last element  *)
(* is handed out first, and the number of holders of each block.  A table  *)
(* is [blocks, num_tokens]: token pos (from 0) of its request lives in     *)
(* blocks[pos \div BlockSize + 1] at offset pos % BlockSize.               *)
(*                                                                         *)
(* A call that raises changes nothing: its condition is an operator of its *)
(* own (CanAllocate, CanIncref, CanFree, CanRewind), and what follows a    *)
(* refused call is up to the module that uses this one.                    *)
(***************************************************************************)
EXTENDS Integers, Sequences, FiniteSets, Functions

CONSTANTS NumBlocks,    \* blocks in the KV pool
          BlockSize     \* tokens per block

\* BlockAllocator.__init__ refuses anything else.
ASSUME PoolAssumption == NumBlocks \in Nat \ {0} /\ BlockSize \in Nat \ {0}

Blocks == 0 .. NumBlocks - 1

Pools == [free : Seq(Blocks), ref : [Blocks -> Int]]
Tables == [blocks : Seq(Blocks), num_tokens : Nat]

-----------------------------------------------------------------------------
(* The allocator *)

NewPool == [free |-> [i \in 1 .. NumBlocks |-> NumBlocks - i],
            ref  |-> [b \in Blocks |-> 0]]

NumFree(pool) == Len(pool.free)

CanAllocate(pool, n) == n \in 0 .. NumFree(pool)

\* The blocks that allocate(n) pops, in the order in which it returns them.
Popped(pool, n) == [i \in 1 .. n |-> pool.free[Len(pool.free) + 1 - i]]

Allocate(pool, n) ==
  [free |-> SubSeq(pool.free, 1, Len(pool.free) - n),
   ref  |-> [b \in Blocks |-> IF b \in Range(Popped(pool, n)) THEN 1 ELSE pool.ref[b]]]

Occurrences(b, blocks) == Cardinality({i \in DOMAIN blocks : blocks[i] = b})

CanIncref(pool, blocks) == \A b \in Range(blocks) : b \in Blocks /\ pool.ref[b] # 0

\* Faulty variant: a shared block keeps its count.
IncrefNothing(pool, blocks) == pool

Incref(pool, blocks) ==
  [pool EXCEPT !.ref = [b \in Blocks |-> pool.ref[b] + Occurrences(b, blocks)]]

\* A block may be given back as often as it has holders, in one call or in several.
CanFree(pool, blocks) ==
  \A b \in Range(blocks) : b \in Blocks /\ pool.ref[b] >= Occurrences(b, blocks)

\* One turn of the loop of free(): the block's last holder pushes it on the stack.
DropHolder(pool, b) ==
  [free |-> IF pool.ref[b] = 1 THEN Append(pool.free, b) ELSE pool.free,
   ref  |-> [pool.ref EXCEPT ![b] = @ - 1]]

\* The pool before the loop and after each of its turns.
Drops(pool, blocks) ==
  LET after[i \in 0 .. Len(blocks)] ==
        IF i = 0 THEN pool ELSE DropHolder(after[i - 1], blocks[i])
  IN  after

Free(pool, blocks) == Drops(pool, blocks)[Len(blocks)]

\* BlockAllocator.check_invariants: the stack and the counts describe one set.
PoolConsistent(pool) ==
  /\ IsInjective(pool.free)
  /\ Range(pool.free) = {b \in Blocks : pool.ref[b] = 0}
  /\ \A b \in Blocks : pool.ref[b] >= 0

-----------------------------------------------------------------------------
(* The block table *)

EmptyTable == [blocks |-> <<>>, num_tokens |-> 0]

\* The constructor refuses a prefix that names a block twice.
CanShare(pool, prefix) == IsInjective(prefix) /\ CanIncref(pool, prefix)

TableOver(prefix) == [blocks |-> prefix, num_tokens |-> Len(prefix) * BlockSize]

\* Blocks that hold n tokens: -(-n // block_size).
BlocksFor(n) == (n + BlockSize - 1) \div BlockSize

\* Blocks the table must add to append n tokens; a rewound table may hold spare ones.
BlocksNeeded(table, n) ==
  LET more == BlocksFor(table.num_tokens + n) - Len(table.blocks)
  IN  IF more > 0 THEN more ELSE 0

AppendTokens(table, new, n) ==
  [blocks |-> table.blocks \o new, num_tokens |-> table.num_tokens + n]

CanRewind(table, n) == n \in 0 .. table.num_tokens

Rewound(table, n) == [table EXCEPT !.num_tokens = @ - n]

\* Where token pos of the request lives in the pool.
Slot(table, pos) == table.blocks[pos \div BlockSize + 1] * BlockSize + (pos % BlockSize)

\* The slots of the last n tokens, in order.
TailSlots(table, n) == [i \in 1 .. n |-> Slot(table, table.num_tokens - n + i - 1)]

\* Tokens in the last block; not positive when a rewind emptied it.
LastBlockLen(table) ==
  IF table.num_tokens = 0 THEN 0 ELSE table.num_tokens - (Len(table.blocks) - 1) * BlockSize
=============================================================================
