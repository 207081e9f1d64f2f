------------------------------ MODULE CacheSpec ------------------------------
(***************************************************************************)
(* What a cache is to its server: the calls of lru_cache.h on the record   *)
(* of LruCache, with what each of them answers.                            *)
(***************************************************************************)
EXTENDS LruCache

CONSTANT Capacity   \* the capacity of the cache

VARIABLES
  cache,   (* the cache                                                    *)
  last     (* the last call, what it answered, and the key it evicted      *)

Call(o, d, v, a, e) ==
  [op |-> o, key |-> d, value |-> v, answer |-> a, evicted |-> e]

Init ==
  /\ cache = EmptyCache(Capacity)
  /\ last = Call("init", None, None, FALSE, None)

Get(d) ==
  /\ cache' = CacheGet(cache, d)
  /\ last' = Call("get", d, cache.val[d], Cached(cache, d), None)

(* The answer of lru_cache_put is the opposite of what lru_cache.h:43-44   *)
(* says: it is true if the key was there already.                          *)
Put(d, v) ==
  /\ cache' = CachePut(cache, d, v)
  /\ last' = Call("put", d, v, Cached(cache, d),
                  IF Cached(cache, d) \/ ~CacheFull(cache)
                    THEN None ELSE Last(cache.order))

Drop(d) ==
  /\ cache' = CacheRemove(cache, d)
  /\ last' = Call("remove", d, None, Cached(cache, d), None)

Free ==
  /\ cache' = EmptyCache(Capacity)
  /\ last' = Call("free", None, None, FALSE, None)

Next ==
  \/ \E d \in Docs : Get(d) \/ Drop(d) \/ \E v \in Contents : Put(d, v)
  \/ Free

Spec == Init /\ [][Next]_<<cache, last>>
=============================================================================
