------------------------------ MODULE MiniCore ------------------------------
(***************************************************************************)
(* The KV cache manager over the C++ backend, driven in lockstep with the  *)
(* one over the Python reference: every call of PrefixCache is made on     *)
(* both.  "The same call sequence splits the same nodes, advances the same *)
(* integer clock, and evicts the same blocks in the same order"            *)
(* (radix_tree.hpp) is then an invariant of one state machine.             *)
(***************************************************************************)
EXTENDS PrefixCache, CoreTree

Core == INSTANCE KVManager WITH
  NoTree        <- EmptyCore,
  TreeMatch     <- CoreWalk,
  TreePrefix    <- CorePrefix,
  TreeBlocks    <- PathBlocks,
  TreeInsert    <- CoreInsert,
  TreeLock      <- CoreLock,
  TreeCanUnlock <- CanUnlock,
  TreeUnlock    <- CoreUnlock,
  TreeEvict     <- CoreEvict,
  Fail          <- Raise

VARIABLES core,         \* KVCacheManager over the C++ allocator and tree
          core_hold     \* the tables and nodes it gave the requests

both == <<vars, core, core_hold>>

InitBoth == /\ Init
            /\ core = Core!NewStore(store.radix)
            /\ core_hold = [r \in Requests |-> Core!NoHold]

-----------------------------------------------------------------------------

\* Clock and uids only order nodes: after each call both are renumbered, which keeps the
\* order and the number of states finite.
Rank(x, xs) == Cardinality({y \in xs : y < x})

Renumbered(s) ==
  LET times == {s.tree.node[q].last_access : q \in Paths(s.tree)} \cup {k[1] : k \in s.tree.index}
      uids  == {s.tree.node[q].uid : q \in Paths(s.tree)} \cup {k[2] : k \in s.tree.index}
  IN  [s EXCEPT
         !.tree.node  = [q \in DOMAIN @ |-> [@[q] EXCEPT !.last_access = Rank(@, times),
                                                         !.uid = Rank(@, uids)]],
         !.tree.index = {<<Rank(k[1], times), Rank(k[2], uids), k[3]>> : k \in @},
         !.tree.clock = Cardinality(times),
         !.tree.next_uid = Cardinality(uids)]

CoreGives(s, r, h) == /\ core' = Renumbered(s)
                      /\ core_hold' = [core_hold EXCEPT ![r] = h]

CoreAcquire(r) == LET a == Core!Acquire(core, seq[r]) IN CoreGives(a.store, r, a.hold)

CoreAbandon(r) == CoreGives(Core!Abandon(core, core_hold[r]), r, Core!NoHold)

CoreCompute(r, n) ==
  LET table == core_hold[r].cache
      a     == Core!Appended(Core!Reserve(core, BlocksNeeded(table, n)), table, n)
  IN  CoreGives(a.store, r, [core_hold[r] EXCEPT !.cache = a.table])

CoreCommit(r) == LET c == Core!Commit(core, core_hold[r], seq[r]) IN CoreGives(c.store, r, c.hold)

CoreRelease(r) == CoreGives(Core!Release(core, core_hold[r], seq[r]), r, Core!NoHold)

CoreSwitch(enabled) ==
  /\ core' = IF Core!CanSetRadix(core) THEN Core!SetRadix(core, enabled) ELSE Raise(core, "clear")
  /\ UNCHANGED core_hold

NextBoth ==
  \/ \E r \in Requests :
       \/ (\E p \in Prompts : Submit(r, p)) /\ UNCHANGED <<core, core_hold>>
       \/ AcquireFor(r) /\ CoreAcquire(r)
       \/ AbandonFor(r) /\ CoreAbandon(r)
       \/ \E n \in 1 .. MaxLen : Compute(r, n) /\ CoreCompute(r, n)
       \/ CommitFor(r) /\ CoreCommit(r)
       \/ (\E t \in Tokens : Sample(r, t)) /\ UNCHANGED <<core, core_hold>>
       \/ ReleaseFor(r) /\ CoreRelease(r)
  \/ \E on \in BOOLEAN : SwitchRadix(on) /\ CoreSwitch(on)

SpecBoth == InitBoth /\ [][NextBoth]_both

-----------------------------------------------------------------------------

\* The contract of the two backends (backend.py: "They must hand out the same block ids for
\* the same call sequence and raise the same exceptions"; radix_tree.hpp): after any calls
\* the pools, the tables and the nodes are the same, the trees hold the same nodes with the
\* same blocks and locks, count the same, and order them alike by last access, so that they
\* go on evicting alike.
SameAsReference ==
  /\ core.pool = store.pool /\ core.radix = store.radix /\ core.err = store.err
  /\ core_hold = hold
  /\ core.tree.num_cached = store.tree.num_cached
  /\ core.tree.num_evictable = store.tree.num_evictable
  /\ Paths(core.tree) = Paths(store.tree)
  /\ \A q \in Paths(store.tree) : LET c == core.tree.node[q] n == store.tree.node[q] IN
       /\ c.blocks = n.blocks /\ c.lock = n.lock
       /\ \A r \in Paths(store.tree) :
            (c.last_access < core.tree.node[r].last_access)
              = (n.last_access < store.tree.node[r].last_access)

\* RadixTree::check_invariants: the index is exactly the unlocked leaves, under their
\* current keys, and every node's flag says whether it is in it.  Nothing that is locked or
\* has children can be evicted, and nothing evictable is missed.
IndexExact ==
  LET want == {q \in Paths(core.tree) : Evictable(core.tree, q)}
  IN  /\ core.tree.index = {KeyOf(core.tree, q) : q \in want}
      /\ \A q \in Paths(core.tree) : core.tree.node[q].indexed = (q \in want)
=============================================================================
