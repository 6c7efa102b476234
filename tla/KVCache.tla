------------------------------ MODULE KVCache ------------------------------
(* The KV cache manager over the Python prefix cache (RadixTree). *)
EXTENDS RadixTree

INSTANCE KVManager WITH
  NoTree        <- EmptyTree,
  TreeMatch     <- Match,
  TreePrefix    <- LongestCached,
  TreeBlocks    <- PathBlocks,
  TreeInsert    <- Insert,
  TreeLock      <- Lock,
  TreeCanUnlock <- CanUnlock,
  TreeUnlock    <- Unlock,
  TreeEvict     <- Evict,
  Fail          <- Raise
=============================================================================
