----------------------------- MODULE RadixTree -----------------------------
(***************************************************************************)
(* The prefix cache (miniserve/cache/radix_tree.py): a radix tree over     *)
(* whole KV blocks, as operators over its state.                           *)
(*                                                                         *)
(* A node is named by its path: the tokens from the root to its end.  This *)
(* is its identity in the code too, because a split gives the new object   *)
(* the shorter path and leaves the lower part, which other code may hold,  *)
(* under the path it had.  The root is <<>> and is not in the function:    *)
(* it holds no blocks and is never locked, counted or evicted.             *)
(*                                                                         *)
(* A tree is [node, num_cached, num_evictable], where node maps each path  *)
(* to [blocks, lock, last_access] and blocks are the node's own, those     *)
(* behind its parent's.  last_access orders the nodes by their last use    *)
(* and nothing else is done with it, so a walk renumbers it from 0 instead *)
(* of counting up forever.  Two nodes share a value only if one walk       *)
(* touched both, so no two leaves do, and the code's tie-break by uid      *)
(* never decides.                                                          *)
(*                                                                         *)
(* Operators that also change the allocator work on a store, a record with *)
(* at least the fields pool, tree and err.  An exception is recorded in    *)
(* err; whoever drives the store stops there.                              *)
(***************************************************************************)
EXTENDS BlockAllocator, FiniteSetsExt, SequencesExt

EmptyTree == [node |-> << >>, num_cached |-> 0, num_evictable |-> 0]

Paths(tree) == DOMAIN tree.node

\* The first exception is the one that surfaces.
Raise(store, e) == [store EXCEPT !.err = IF @ = "none" THEN e ELSE @]

-----------------------------------------------------------------------------
(* Structure *)

\* The node at path and its ancestors: what a walk up to the root visits.
Lineage(tree, path) == {q \in Paths(tree) : IsPrefix(q, path)}

\* A node's path without its own tokens: the path of its parent.
ParentLen(tree, q) == Len(q) - Len(tree.node[q].blocks) * BlockSize

\* Block i of a path is held by the first node of the lineage that reaches it.
PathBlocks(tree, path) ==
  [i \in 1 .. Len(path) \div BlockSize |->
     LET q == CHOOSE q \in Lineage(tree, path) :
                /\ Len(q) >= i * BlockSize
                /\ \A r \in Lineage(tree, path) : Len(r) >= i * BlockSize => Len(q) <= Len(r)
     IN  tree.node[q].blocks[i - ParentLen(tree, q) \div BlockSize]]

BlocksIn(tree, nodes) == MapThenSumSet(LAMBDA q : Len(tree.node[q].blocks), nodes)

-----------------------------------------------------------------------------
(* Lookup *)

\* The longest prefix of tokens, in whole blocks, that the tree spells.  The code descends
\* from the root by first blocks; where siblings differ in their first block (TrieShape)
\* that descent ends exactly here.  prefix_len is the length of this.
LongestCached(tree, tokens) ==
  LET cached == {k \in 1 .. Len(tokens) \div BlockSize :
                   \E q \in Paths(tree) : IsPrefix(SubSeq(tokens, 1, k * BlockSize), q)}
  IN  SubSeq(tokens, 1, Max({0} \cup cached) * BlockSize)

\* _split: cut the node that runs through path; the upper part is a new node with the lock
\* and the access time of the old one, which keeps its path and the rest of its blocks.
Split(tree, path) ==
  IF path = <<>> \/ path \in Paths(tree) THEN tree ELSE
  LET lower == CHOOSE q \in Paths(tree) :
                 /\ IsPrefix(path, q)
                 /\ \A r \in Paths(tree) : IsPrefix(path, r) => Len(q) <= Len(r)
      old   == tree.node[lower]
      m     == (Len(path) - ParentLen(tree, lower)) \div BlockSize
  IN  [tree EXCEPT !.node =
         (path :> [old EXCEPT !.blocks = SubSeq(old.blocks, 1, m)])
           @@ [@ EXCEPT ![lower].blocks = SubSeq(old.blocks, m + 1, Len(old.blocks))]]

\* Move the lineage of path to the front of the recency order.
Touch(tree, path) ==
  LET line  == Lineage(tree, path)
      times == {tree.node[q].last_access : q \in Paths(tree) \ line}
  IN  [tree EXCEPT !.node =
         [q \in Paths(tree) |->
            [tree.node[q] EXCEPT !.last_access =
               IF q \in line THEN Cardinality(times)
               ELSE Cardinality({t \in times : t < @})]]]

\* _walk: the longest cached prefix becomes a node of its own, and its path is touched.
Walk(tree, tokens) ==
  LET path == LongestCached(tree, tokens) IN Touch(Split(tree, path), path)

\* match: the path found and the tree that has it as a node.
Match(tree, tokens) == [tree |-> Walk(tree, tokens), path |-> LongestCached(tree, tokens)]

-----------------------------------------------------------------------------
(* Insertion *)

Insert(store, tokens, blocks) ==
  LET path   == LongestCached(store.tree, tokens)
      walked == Walk(store.tree, tokens)
      new    == SubSeq(blocks, Len(path) \div BlockSize + 1, Len(blocks))
      now    == Cardinality({walked.node[q].last_access : q \in Paths(walked) \ Lineage(walked, path)})
  IN  IF Len(tokens) # Len(blocks) * BlockSize THEN Raise(store, "insert") ELSE
      IF path = tokens THEN [store EXCEPT !.tree = walked] ELSE
      IF ~ CanIncref(store.pool, new) THEN Raise(store, "incref") ELSE
      [store EXCEPT
         !.pool = Incref(@, new),
         !.tree = [node          |-> (tokens :> [blocks |-> new, lock |-> 0, last_access |-> now])
                                       @@ walked.node,
                   num_cached    |-> @.num_cached + Len(new),
                   num_evictable |-> @.num_evictable + Len(new)]]

-----------------------------------------------------------------------------
(* Locking *)

\* Faulty variant: locks the node but not its ancestors.
LockNodeOnly(tree, path) ==
  [tree EXCEPT
     !.node = [q \in Paths(tree) |-> IF q = path THEN [@[q] EXCEPT !.lock = @ + 1] ELSE @[q]],
     !.num_evictable = @ - BlocksIn(tree, {q \in Paths(tree) : q = path /\ tree.node[q].lock = 0})]

Lock(tree, path) ==
  [tree EXCEPT
     !.node = [q \in Paths(tree) |-> IF q \in Lineage(tree, path)
                                     THEN [@[q] EXCEPT !.lock = @ + 1] ELSE @[q]],
     !.num_evictable = @ - BlocksIn(tree, {q \in Lineage(tree, path) : tree.node[q].lock = 0})]

CanUnlock(tree, path) == \A q \in Lineage(tree, path) : tree.node[q].lock > 0

\* Faulty variant: blocks that become evictable again are not counted.
UnlockUncounted(tree, path) ==
  [tree EXCEPT
     !.node = [q \in Paths(tree) |-> IF q \in Lineage(tree, path)
                                     THEN [@[q] EXCEPT !.lock = @ - 1] ELSE @[q]]]

Unlock(tree, path) ==
  [tree EXCEPT
     !.node = [q \in Paths(tree) |-> IF q \in Lineage(tree, path)
                                     THEN [@[q] EXCEPT !.lock = @ - 1] ELSE @[q]],
     !.num_evictable = @ + BlocksIn(tree, {q \in Lineage(tree, path) : tree.node[q].lock = 1})]

-----------------------------------------------------------------------------
(* Eviction *)

\* Unlocked leaves.  A parent joins them when its last child goes.
Candidates(tree) ==
  {q \in Paths(tree) : /\ tree.node[q].lock = 0
                       /\ \A r \in Paths(tree) : ~ IsStrictPrefix(q, r)}

LeastRecent(tree) ==
  CHOOSE q \in Candidates(tree) :
    \A r \in Candidates(tree) : tree.node[q].last_access <= tree.node[r].last_access

\* One turn of the loop of evict(): the least recently used candidate, as a whole.
EvictLeaf(store) ==
  LET leaf   == LeastRecent(store.tree)
      blocks == store.tree.node[leaf].blocks
  IN  IF ~ CanFree(store.pool, blocks) THEN Raise(store, "free") ELSE
      [store EXCEPT
         !.pool = Free(@, blocks),
         !.tree = [node          |-> [q \in Paths(@) \ {leaf} |-> @.node[q]],
                   num_cached    |-> @.num_cached - Len(blocks),
                   num_evictable |-> @.num_evictable - Len(blocks)]]

\* evict(n): until n blocks have been freed or no candidate is left; one node per turn.
Evict(store, n) ==
  LET freed(s) == store.tree.num_cached - s.tree.num_cached
      turn[i \in 0 .. Cardinality(Paths(store.tree))] ==
        IF i = 0 THEN store ELSE
        LET s == turn[i - 1]
        IN  IF freed(s) < n /\ Candidates(s.tree) # {} /\ s.err = "none" THEN EvictLeaf(s) ELSE s
  IN  turn[Cardinality(Paths(store.tree))]

-----------------------------------------------------------------------------
(* RadixTree.check_invariants, in its parts *)

\* Nodes are whole blocks; siblings differ in their first block, so that what two paths
\* have in common, in whole blocks, is a node (or the root).
TrieShape(tree) ==
  /\ \A q \in Paths(tree) : LET up == ParentLen(tree, q) IN
       /\ tree.node[q].blocks # <<>> /\ up >= 0 /\ Len(q) % BlockSize = 0
       /\ SubSeq(q, 1, up) \in Paths(tree) \cup {<<>>}
       /\ \A r \in Lineage(tree, q) \ {q} : Len(r) <= up
  /\ \A q, r \in Paths(tree) :
       LET common == {k \in 1 .. Len(q) \div BlockSize : IsPrefix(SubSeq(q, 1, k * BlockSize), r)}
       IN  SubSeq(q, 1, Max({0} \cup common) * BlockSize) \in Paths(tree) \cup {<<>>}

\* num_cached_blocks and num_evictable are what a full walk would count.
CountsUpToDate(tree) ==
  /\ tree.num_cached = BlocksIn(tree, Paths(tree))
  /\ tree.num_evictable = BlocksIn(tree, {q \in Paths(tree) : tree.node[q].lock = 0})

\* A child is not locked more often than its parent, no lock is negative.
LocksNested(tree) ==
  \A q \in Paths(tree) : /\ tree.node[q].lock >= 0
                         /\ \A r \in Lineage(tree, q) : tree.node[q].lock <= tree.node[r].lock

\* The blocks of one node have the same holders; those of an unlocked node only the tree.
RefsAgreeWithLocks(tree, pool) ==
  \A q \in Paths(tree) :
    LET refs == {pool.ref[b] : b \in Range(tree.node[q].blocks)}
    IN  /\ Cardinality(refs) = 1
        /\ tree.node[q].lock = 0 => refs = {1}
=============================================================================
