------------------------------ MODULE CoreTree ------------------------------
(***************************************************************************)
(* The prefix cache of the C++ backend (minicore/src/radix_tree.cpp): the  *)
(* same tree as RadixTree, which it must imitate call for call, with an    *)
(* ordered index of the leaves that can be evicted.  The index is kept up  *)
(* to date wherever a node's leafness, lock or access time changes, so an  *)
(* operator that forgets one of those places leaves it stale.              *)
(*                                                                         *)
(* A core tree is a tree of RadixTree with clock, next_uid and index, a    *)
(* set of keys <<last_access, uid, path>>; a node also has uid and         *)
(* indexed, its flag "is in the index".  Unlike RadixTree, access times    *)
(* count up with the clock, and lookups descend node by node.              *)
(***************************************************************************)
EXTENDS RadixTree

EmptyCore == [node |-> << >>, num_cached |-> 0, num_evictable |-> 0,
              clock |-> 0, next_uid |-> 1, index |-> {}]

-----------------------------------------------------------------------------
(* The eviction index *)

KeyOf(tree, q) == <<tree.node[q].last_access, tree.node[q].uid, q>>

Evictable(tree, q) == /\ q # <<>> /\ tree.node[q].lock = 0
                      /\ \A r \in Paths(tree) : ~ IsStrictPrefix(q, r)

\* unindex: before a node's key or state changes.
Unindex(tree, q) ==
  IF q = <<>> \/ ~ tree.node[q].indexed THEN tree
  ELSE [tree EXCEPT !.index = @ \ {KeyOf(tree, q)}, !.node[q].indexed = FALSE]

\* reindex: after the change.  The root is never evictable and never indexed.
Reindex(tree, q) ==
  IF q = <<>> \/ tree.node[q].indexed = Evictable(tree, q) THEN tree
  ELSE IF tree.node[q].indexed THEN Unindex(tree, q)
  ELSE [tree EXCEPT !.index = @ \cup {KeyOf(tree, q)}, !.node[q].indexed = TRUE]

\* Faulty variant: the key in the index keeps the old access time.
TouchUnindexed(tree, q, t) == [tree EXCEPT !.node[q].last_access = t]

TouchNode(tree, q, t) ==
  IF tree.node[q].last_access = t THEN tree
  ELSE Reindex([Unindex(tree, q) EXCEPT !.node[q].last_access = t], q)

-----------------------------------------------------------------------------
(* Lookup *)

\* The child of the node at path whose first block comes next in tokens: a set of at most
\* one, as children are kept under that block.
ChildrenAt(tree, path, tokens) ==
  {q \in Paths(tree) : /\ ParentLen(tree, q) = Len(path)
                       /\ Len(path) + BlockSize <= Len(tokens)
                       /\ IsPrefix(SubSeq(tokens, 1, Len(path) + BlockSize), q)}

\* matched_blocks: how much of the child the tokens spell, in whole blocks, as a path.
MatchedPath(child, path, tokens) ==
  LET m == {k \in 1 .. (Len(child) - Len(path)) \div BlockSize :
              /\ Len(path) + k * BlockSize <= Len(tokens)
              /\ IsPrefix(SubSeq(tokens, 1, Len(path) + k * BlockSize), child)}
  IN  SubSeq(tokens, 1, Len(path) + Max(m) * BlockSize)

\* prefix_len: one turn of its loop descends into a child, as far as it matches.
PrefixTurn(tree, path, tokens) ==
  LET found == ChildrenAt(tree, path, tokens)
  IN  IF found = {} THEN path ELSE MatchedPath(CHOOSE q \in found : TRUE, path, tokens)

CorePrefix(tree, tokens) ==
  LET turn[i \in 0 .. Len(tokens)] == IF i = 0 THEN <<>> ELSE PrefixTurn(tree, turn[i - 1], tokens)
  IN  turn[Len(tokens)]

\* new_node: a node is numbered by the order of creation.
NewNode(tree, path, blocks, lock, time) ==
  [tree EXCEPT !.node = (path :> [blocks |-> blocks, lock |-> lock, last_access |-> time,
                                  uid |-> tree.next_uid, indexed |-> FALSE]) @@ @,
               !.next_uid = @ + 1]

\* split: the lower half keeps leafness, lock, access time and its place in the index.
CoreSplit(tree, lower, path) ==
  IF path = lower THEN tree ELSE
  LET old == tree.node[lower]
      m   == (Len(path) - ParentLen(tree, lower)) \div BlockSize
  IN  [NewNode(tree, path, SubSeq(old.blocks, 1, m), old.lock, old.last_access)
         EXCEPT !.node[lower].blocks = SubSeq(@, m + 1, Len(@))]

\* One turn of the loop of walk: descend, split where the match ends inside the child, touch.
WalkTurn(w, tokens) ==
  LET found == ChildrenAt(w.tree, w.path, tokens)
      child == CHOOSE q \in found : TRUE
      path  == MatchedPath(child, w.path, tokens)
  IN  IF found = {} THEN w
      ELSE [tree |-> TouchNode(CoreSplit(w.tree, child, path), path, w.tree.clock), path |-> path]

CoreWalk(tree, tokens) ==
  LET turn[i \in 0 .. Len(tokens)] ==
        IF i = 0 THEN [tree |-> [tree EXCEPT !.clock = @ + 1], path |-> <<>>]
        ELSE WalkTurn(turn[i - 1], tokens)
  IN  turn[Len(tokens)]

-----------------------------------------------------------------------------
(* Insertion *)

\* The new leaf; the node above it stops being a leaf.
HangLeaf(tree, up, path, blocks) ==
  Reindex(Reindex(NewNode(Unindex(tree, up), path, blocks, 0, tree.clock), up), path)

CoreInsert(store, tokens, blocks) ==
  LET w     == CoreWalk(store.tree, tokens)
      fresh == SubSeq(blocks, Len(w.path) \div BlockSize + 1, Len(blocks))
  IN  IF Len(tokens) # Len(blocks) * BlockSize THEN Raise(store, "insert") ELSE
      IF w.path = tokens THEN [store EXCEPT !.tree = w.tree] ELSE
      IF ~ CanIncref(store.pool, fresh) THEN Raise(store, "incref") ELSE
      [store EXCEPT
         !.pool = Incref(@, fresh),
         !.tree = [HangLeaf(w.tree, w.path, tokens, fresh) EXCEPT
                     !.num_cached = @ + Len(fresh), !.num_evictable = @ + Len(fresh)]]

-----------------------------------------------------------------------------
(* Locking: one turn per node from the deepest up to the root *)

Upwards(tree, path) == SetToSortSeq(Lineage(tree, path), LAMBDA q, r : Len(q) > Len(r))

LockNode(tree, q) ==
  Reindex([tree EXCEPT !.num_evictable = @ - IF tree.node[q].lock = 0
                                             THEN Len(tree.node[q].blocks) ELSE 0,
                       !.node[q].lock = @ + 1], q)

CoreLock(tree, path) == FoldLeft(LockNode, tree, Upwards(tree, path))

\* Faulty variant: a leaf that nobody locks any more is not indexed again.
UnlockNodeOnly(tree, q) ==
  [tree EXCEPT !.num_evictable = @ + IF tree.node[q].lock = 1
                                     THEN Len(tree.node[q].blocks) ELSE 0,
               !.node[q].lock = @ - 1]

UnlockNode(tree, q) ==
  Reindex([tree EXCEPT !.num_evictable = @ + IF tree.node[q].lock = 1
                                             THEN Len(tree.node[q].blocks) ELSE 0,
                       !.node[q].lock = @ - 1], q)

CoreUnlock(tree, path) == FoldLeft(UnlockNode, tree, Upwards(tree, path))

-----------------------------------------------------------------------------
(* Eviction *)

\* The first key of the index: least recently used, then first created.
FirstKey(index) ==
  CHOOSE k \in index : \A j \in index : k[1] < j[1] \/ (k[1] = j[1] /\ k[2] <= j[2])

Detached(tree, leaf) ==
  LET n  == Len(tree.node[leaf].blocks)
      up == SubSeq(leaf, 1, ParentLen(tree, leaf))
  IN  Reindex([Unindex(tree, leaf) EXCEPT !.node = [q \in Paths(tree) \ {leaf} |-> @[q]],
                                          !.num_cached = @ - n, !.num_evictable = @ - n], up)

\* remove_leaf: its blocks go back, and the parent may become a leaf that can be evicted.
RemoveLeaf(store, leaf) ==
  LET blocks == store.tree.node[leaf].blocks
  IN  IF ~ CanFree(store.pool, blocks) THEN Raise(store, "free")
      ELSE [store EXCEPT !.pool = Free(@, blocks), !.tree = Detached(@, leaf)]

\* evict(n), with the index.
CoreEvict(store, n) ==
  LET freed(s) == store.tree.num_cached - s.tree.num_cached
      turn[i \in 0 .. Cardinality(Paths(store.tree))] ==
        IF i = 0 THEN store ELSE
        LET s == turn[i - 1]
        IN  IF freed(s) < n /\ s.tree.index # {} /\ s.err = "none"
            THEN RemoveLeaf(s, FirstKey(s.tree.index)[3]) ELSE s
  IN  turn[Cardinality(Paths(store.tree))]
=============================================================================
