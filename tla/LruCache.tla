------------------------------ MODULE LruCache ------------------------------
(***************************************************************************)
(* The LRU cache of one server (lru_cache.c), as operators on a record:    *)
(*   order  the keys on the doubly linked list, dll->head first, so the    *)
(*          most recently used key is order[1] and the victim is the last; *)
(*   val    for every document the cached content, or None when the key is *)
(*          in neither the map nor the list (the two always agree: every   *)
(*          function below touches both);                                  *)
(*   cap    the capacity given by ADD_SERVER.                              *)
(* The nodes, pointers and hash buckets behind it are abstracted.          *)
(***************************************************************************)
EXTENDS Naturals, SequencesExt

CONSTANTS
  Docs,       (* document names, the keys of every map                     *)
  Contents,   (* document contents                                         *)
  None        (* "no such key": a NULL returned by hm_get or lru_cache_get *)

ASSUME NoneAssumption == None \notin Contents /\ None \notin Docs

MaybeContent == Contents \union {None}

(* The values a cache record may take. *)
CacheType == [order : Seq(Docs), val : [Docs -> MaybeContent], cap : Nat]

(* No document at all: the content of a fresh hash map. *)
NoDocs == [d \in Docs |-> None]

-----------------------------------------------------------------------------

(* init_lru_cache(n) *)
EmptyCache(n) == [order |-> << >>, val |-> NoDocs, cap |-> n]

(* The key is in the cache's map. *)
Cached(c, d) == c.val[d] # None

(* dll_remove_node: the list without the node of key d. *)
Unlink(c, d) ==
  RemoveAt(c.order, CHOOSE i \in DOMAIN c.order : c.order[i] = d)

(* dll_remove_node followed by dll_insert_nth at 0: d becomes the head. *)
Promote(c, d) == [c EXCEPT !.order = <<d>> \o Unlink(c, d)]

(* The cache after lru_cache_get: a hit moves the node to the head, a miss *)
(* changes nothing.                                                        *)
CacheGet(c, d) == IF Cached(c, d) THEN Promote(c, d) ELSE c

(* The cache after lru_cache_remove; a key that is not there is ignored. *)
CacheRemove(c, d) ==
  IF Cached(c, d)
    THEN [c EXCEPT !.order = Unlink(c, d), !.val[d] = None]
    ELSE c

(* Variant of CacheFull that notices one key too late. *)
CacheFullLate(c) == Len(c.order) > c.cap

(* lru_cache_is_full *)
CacheFull(c) == Len(c.order) = c.cap

(* lru_cache_put of a new key into a full cache dereferences dll->tail,    *)
(* which is NULL when the capacity is 0.                                   *)
PutCrashes(c, d) == ~Cached(c, d) /\ CacheFull(c) /\ c.order = << >>

(* The cache once lru_cache_put has evicted the tail, if it had to. *)
MakeRoom(c) == IF CacheFull(c) THEN CacheRemove(c, Last(c.order)) ELSE c

(* The cache after lru_cache_put, which moves a known key to the head and  *)
(* replaces its value, and inserts an unknown one at the head.             *)
CachePut(c, d, v) ==
  IF Cached(c, d)
    THEN [Promote(c, d) EXCEPT !.val[d] = v]
    ELSE LET r == MakeRoom(c)
         IN  [r EXCEPT !.order = <<d>> \o r.order, !.val[d] = v]

-----------------------------------------------------------------------------

(* The list and the map hold the same keys, each once, within capacity. *)
CacheShape(c) ==
  /\ \A i, j \in DOMAIN c.order : c.order[i] = c.order[j] => i = j
  /\ \A d \in Docs : Cached(c, d) <=> \E i \in DOMAIN c.order : c.order[i] = d
  /\ Len(c.order) <= c.cap
=============================================================================
