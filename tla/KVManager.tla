----------------------------- MODULE KVManager -----------------------------
(***************************************************************************)
(* KVCacheManager (miniserve/cache/kv_cache.py): what a request does to    *)
(* the block pool and the prefix cache, as operators over a store          *)
(* [pool, tree, radix, err] and the request's hold [cache, node].          *)
(*                                                                         *)
(* cache is the request's block table and node the path it has locked in   *)
(* the tree.  Without the prefix cache (radix = FALSE) the tree is empty   *)
(* and every request locks the root, whose lineage has no node: locking is *)
(* then no operation, as in the code, where the node is None.              *)
(*                                                                         *)
(* The manager is the same code over either tree (cache/backend.py), so    *)
(* the tree's operations are parameters: KVCache has the Python tree and   *)
(* MiniCore the C++ one.                                                   *)
(***************************************************************************)
EXTENDS Integers, Sequences

CONSTANTS NumBlocks, BlockSize,
          NoTree,               \* an empty tree
          TreeMatch(_, _),      \* match: [tree, path]
          TreePrefix(_, _),     \* prefix_len, as a path
          TreeBlocks(_, _),     \* the blocks along a path
          TreeInsert(_, _, _),  \* insert, on a store
          TreeLock(_, _), TreeCanUnlock(_, _), TreeUnlock(_, _),
          TreeEvict(_, _),      \* evict, on a store
          Fail(_, _)            \* an exception, on a store

LOCAL INSTANCE BlockAllocator

NoHold == [cache |-> EmptyTable, node |-> <<>>]

NewStore(radix) == [pool |-> NewPool, tree |-> NoTree, radix |-> radix, err |-> "none"]

\* Blocks that can be handed out: free ones and those only the prefix cache holds.
NumAvailable(store) == NumFree(store.pool) + store.tree.num_evictable

\* Blocks not held by any request: free plus cached.
NumIdle(store) == NumFree(store.pool) + store.tree.num_cached

\* What acquire looks up: all of the sequence but its last token, whose logits are needed.
CachedPrefix(store, tokens) ==
  IF store.radix THEN TreePrefix(store.tree, SubSeq(tokens, 1, Len(tokens) - 1)) ELSE <<>>

\* acquire: a table over the longest cached prefix, whose path is locked.
Acquire(store, tokens) ==
  LET m      == IF store.radix THEN TreeMatch(store.tree, SubSeq(tokens, 1, Len(tokens) - 1))
                               ELSE [tree |-> store.tree, path |-> <<>>]
      prefix == TreeBlocks(m.tree, m.path)
  IN  IF ~ CanShare(store.pool, prefix)
      THEN [store |-> Fail(store, "share"), hold |-> NoHold]
      ELSE [store |-> [store EXCEPT !.tree = TreeLock(m.tree, m.path), !.pool = Incref(@, prefix)],
            hold  |-> [cache |-> TableOver(prefix), node |-> m.path]]

\* Drop the lock on a path.
Unlocked(store, path) ==
  IF TreeCanUnlock(store.tree, path) THEN [store EXCEPT !.tree = TreeUnlock(@, path)]
                                 ELSE Fail(store, "unlock")

\* Drop the table's references.
Returned(store, table) ==
  IF CanFree(store.pool, table.blocks) THEN [store EXCEPT !.pool = Free(@, table.blocks)]
                                       ELSE Fail(store, "free")

\* abandon: undo acquire; nothing was computed, nothing is inserted.
Abandon(store, hold) == Returned(Unlocked(store, hold.node), hold.cache)

\* Faulty variant: the lock on the path covered so far is not dropped.
CommitKeepsLock(store, hold, tokens) ==
  LET n        == hold.cache.num_tokens \div BlockSize
      path     == SubSeq(tokens, 1, n * BlockSize)
      inserted == TreeInsert(store, path, SubSeq(hold.cache.blocks, 1, n))
  IN  IF ~ store.radix THEN [store |-> store, hold |-> hold]
      ELSE [store |-> [inserted EXCEPT !.tree = TreeLock(@, path)], hold |-> [hold EXCEPT !.node = path]]

\* commit: insert the full blocks computed so far and move the lock down to cover them.
\* The new path is locked before the old one is unlocked.
LockMoved(inserted, hold, path) ==
  IF inserted.err # "none" THEN [store |-> inserted, hold |-> hold] ELSE
  [store |-> Unlocked([inserted EXCEPT !.tree = TreeLock(@, path)], hold.node),
   hold  |-> [hold EXCEPT !.node = path]]

Commit(store, hold, tokens) ==
  LET n    == hold.cache.num_tokens \div BlockSize
      path == SubSeq(tokens, 1, n * BlockSize)
  IN  IF ~ store.radix THEN [store |-> store, hold |-> hold]
      ELSE LockMoved(TreeInsert(store, path, SubSeq(hold.cache.blocks, 1, n)), hold, path)

\* release: commit, unlock and give the table's blocks back; full ones stay in the tree.
GivenUp(c) == Returned(Unlocked(c.store, c.hold.node), c.hold.cache)

Release(store, hold, tokens) == GivenUp(Commit(store, hold, tokens))

\* reserve: make n blocks free, evicting what is short.
Reserve(store, n) ==
  LET short == n - NumFree(store.pool)
      s     == IF short > 0 THEN TreeEvict(store, short) ELSE store
  IN  IF n > NumFree(s.pool) THEN Fail(s, "OutOfBlocks") ELSE s

\* set_radix: clear the tree (refused while a node is locked) and switch it on or off.
CanSetRadix(store) == store.tree.num_evictable = store.tree.num_cached

SetRadix(store, enabled) ==
  [TreeEvict(store, store.tree.num_cached) EXCEPT !.tree = NoTree, !.radix = enabled]

\* The second half of ModelRunner.reserve: append n tokens to a table, whose blocks the
\* pool now has free.
Appended(store, table, n) ==
  LET more == BlocksNeeded(table, n)
  IN  IF ~ CanAllocate(store.pool, more)
      THEN [store |-> Fail(store, "OutOfBlocks"), table |-> table]
      ELSE [store |-> [store EXCEPT !.pool = Allocate(@, more)],
            table |-> AppendTokens(table, Popped(store.pool, more), n)]
=============================================================================
