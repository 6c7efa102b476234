---------------------------- MODULE PrefixCache ----------------------------
(***************************************************************************)
(* Requests that share the block pool and the prefix cache, with any       *)
(* interleaving of the calls the scheduler and the model runner make for   *)
(* them: the envelope of every schedule.  Engine.tla has the schedules the *)
(* code really produces.                                                   *)
(*                                                                         *)
(* mem is what the KV pool on the device holds: the KV of a token depends  *)
(* on the tokens before it, so a block is described by the token prefix    *)
(* that ends in it.  A free block counts as erased (<<>>): whoever still   *)
(* read it would be seen to read nothing.                                  *)
(***************************************************************************)
EXTENDS KVCache

CONSTANTS Requests,     \* requests
          Prompts,      \* the prompts they may come with
          Tokens,       \* tokens they may sample
          MaxLen        \* longest sequence

ASSUME CacheAssumption == /\ \A p \in Prompts : Len(p) \in 1 .. MaxLen
                          /\ MaxLen \in Nat

VARIABLES store,        \* KVCacheManager
          seq,          \* prompt and output of each request; <<>> when there is none
          hold,         \* its block table and locked node
          holding,      \* requests that have a block table
          mem           \* device: what each block holds

vars == <<store, seq, hold, holding, mem>>

Init == /\ store \in {NewStore(r) : r \in BOOLEAN}
        /\ seq = [r \in Requests |-> <<>>]
        /\ hold = [r \in Requests |-> NoHold]
        /\ holding = {}
        /\ mem = [b \in Blocks |-> <<>>]

-----------------------------------------------------------------------------

Running == store.err = "none"

\* What is left of the device memory once the pool has its new free blocks.
Kept(m) == [b \in Blocks |-> IF store'.pool.ref[b] = 0 THEN <<>> ELSE m[b]]

\* A request arrives.
Submit(r, prompt) ==
  /\ Running /\ seq[r] = <<>>
  /\ seq' = [seq EXCEPT ![r] = prompt]
  /\ UNCHANGED <<store, hold, holding, mem>>

\* KVCacheManager.acquire, at admission.
AcquireFor(r) ==
  LET a == Acquire(store, seq[r]) IN
  /\ Running /\ r \notin holding /\ seq[r] # <<>>
  /\ store' = a.store
  /\ hold' = [hold EXCEPT ![r] = a.hold]
  /\ holding' = holding \cup {r}
  /\ UNCHANGED <<seq, mem>>

\* KVCacheManager.abandon: only for a request that has computed nothing since.
AbandonFor(r) ==
  /\ Running /\ r \in holding
  /\ hold[r].cache.num_tokens = Len(hold[r].node)
  /\ store' = Abandon(store, hold[r])
  /\ hold' = [hold EXCEPT ![r] = NoHold]
  /\ holding' = holding \ {r}
  /\ mem' = Kept(mem)
  /\ UNCHANGED seq

\* The pass writes the KV of the new tokens into the slots of the table.
Written(table, tokens, from) ==
  [b \in Blocks |->
     LET at == {i \in DOMAIN table.blocks : table.blocks[i] = b /\ i * BlockSize > from}
     IN  IF at = {} THEN mem[b]
         ELSE SubSeq(tokens, 1, Min({Max(at) * BlockSize, table.num_tokens}))]

\* ModelRunner.forward for n more tokens of r.  Its caller has made sure that the blocks
\* are available (the scheduler's budget).
Compute(r, n) ==
  LET table == hold[r].cache
      need  == BlocksNeeded(table, n)
      a     == Appended(Reserve(store, need), table, n) IN
  /\ Running /\ r \in holding
  /\ n <= Len(seq[r]) - table.num_tokens
  /\ need <= NumAvailable(store)
  /\ store' = a.store
  /\ hold' = [hold EXCEPT ![r].cache = a.table]
  /\ mem' = Kept(Written(a.table, seq[r], table.num_tokens))
  /\ UNCHANGED <<seq, holding>>

\* KVCacheManager.commit, after a prefill or a chunk of one.
CommitFor(r) ==
  LET c == Commit(store, hold[r], seq[r]) IN
  /\ Running /\ r \in holding
  /\ store' = c.store
  /\ hold' = [hold EXCEPT ![r] = c.hold]
  /\ UNCHANGED <<seq, holding, mem>>

\* The last position's logits give the next token.
Sample(r, tok) ==
  /\ Running /\ r \in holding
  /\ hold[r].cache.num_tokens = Len(seq[r]) /\ Len(seq[r]) < MaxLen
  /\ seq' = [seq EXCEPT ![r] = Append(@, tok)]
  /\ UNCHANGED <<store, hold, holding, mem>>

\* KVCacheManager.release: preemption, after which the request goes on with what it has,
\* or its end, after which there is room for another.
ReleaseFor(r) ==
  /\ Running /\ r \in holding
  /\ store' = Release(store, hold[r], seq[r])
  /\ hold' = [hold EXCEPT ![r] = NoHold]
  /\ holding' = holding \ {r}
  /\ mem' = Kept(mem)
  /\ seq' \in {seq, [seq EXCEPT ![r] = <<>>]}

\* KVCacheManager.set_radix, "only while no request holds KV".
SwitchRadix(enabled) ==
  /\ Running /\ holding = {}
  /\ store' = IF CanSetRadix(store) THEN SetRadix(store, enabled) ELSE Raise(store, "clear")
  /\ mem' = Kept(mem)
  /\ UNCHANGED <<seq, hold, holding>>

Next == \/ \E r \in Requests :
             \/ \E p \in Prompts : Submit(r, p)
             \/ AcquireFor(r)
             \/ AbandonFor(r)
             \/ \E n \in 1 .. MaxLen : Compute(r, n)
             \/ CommitFor(r)
             \/ \E t \in Tokens : Sample(r, t)
             \/ ReleaseFor(r)
        \/ \E on \in BOOLEAN : SwitchRadix(on)

Spec == Init /\ [][Next]_vars

-----------------------------------------------------------------------------

\* No call ever raises: not an unlock of an unlocked node, not a free or an incref without
\* holders, not an insert of the wrong length, and not OutOfBlocks as long as the caller
\* asks for no more than num_available.  In particular every block that counts as
\* evictable can be evicted leaf first.
NothingRaises == store.err = "none"

\* RadixTree.check_invariants: the tree is a trie of whole blocks, its counters are what a
\* full walk would count, and the two counts that protect blocks, locks and references, agree.
TreeConsistent == /\ TrieShape(store.tree) /\ CountsUpToDate(store.tree)
                  /\ LocksNested(store.tree) /\ RefsAgreeWithLocks(store.tree, store.pool)

\* A locked node stays in the tree, and the lock on a node counts the requests whose path
\* runs through it.
LocksCountRequests ==
  /\ \A r \in holding : hold[r].node = <<>> \/ hold[r].node \in Paths(store.tree)
  /\ \A q \in Paths(store.tree) :
       store.tree.node[q].lock = Cardinality({r \in holding : IsPrefix(q, hold[r].node)})

\* A block's reference count is the number of its holders, the tree being one of them.
RefsCountHolders ==
  \A b \in Blocks :
    store.pool.ref[b] =
      Cardinality({r \in holding : b \in Range(hold[r].cache.blocks)})
        + Cardinality({q \in Paths(store.tree) : b \in Range(store.tree.node[q].blocks)})

\* The two protections of cached blocks are exact at every call: each lock and each
\* reference is somebody's, so nothing is evicted under a reader and nothing stays pinned.
HoldersCounted == LocksCountRequests /\ RefsCountHolders

\* Reusing cached blocks is sound: what a request reads at its i-th block, cached or its
\* own, is the KV of exactly its own tokens, and what the tree offers under a path is the
\* KV of that path.  Nobody overwrites a block that somebody may still read.
KVMatchesTokens ==
  /\ \A r \in holding : LET t == hold[r].cache IN
       \A i \in DOMAIN t.blocks :
         mem[t.blocks[i]] = SubSeq(seq[r], 1, Min({i * BlockSize, t.num_tokens}))
  /\ \A q \in Paths(store.tree) : LET bs == PathBlocks(store.tree, q) IN
       \A i \in DOMAIN bs : mem[bs[i]] = SubSeq(q, 1, i * BlockSize)
=============================================================================
