------------------------------- MODULE HashMap -------------------------------
(***************************************************************************)
(* The chained hash map (hashmap.c), as operators on a record: the buckets,*)
(* each a linked list of key and value, and the size field. The keys and   *)
(* values that a map copies into its own memory are values here.           *)
(***************************************************************************)
EXTENDS LinkedList

CONSTANTS
  Keys,         (* what the keys may be                                    *)
  Vals,         (* what the values may be                                  *)
  KeyHash,      (* hash_function_key of every key                          *)
  HMax,         (* the number of buckets, HASHMAP_SIZE in the program      *)
  SizeModulus,  (* 2^32, the range of the unsigned size field              *)
  Missing       (* the NULL answered for a key that is not in the map      *)

ASSUME MapAssumption ==
  /\ HMax \in Nat \ {0}
  /\ SizeModulus \in Nat \ {0}
  /\ KeyHash \in [Keys -> Nat]
  /\ Data = [key : Keys, val : Vals]
  /\ Missing \notin Vals

Buckets == 0 .. HMax - 1

MapType ==
  [buckets : [Buckets -> ListType], size : 0 .. SizeModulus - 1]

(* hm_init *)
EmptyMap == [buckets |-> [b \in Buckets |-> EmptyList], size |-> 0]

BucketOf(k) == KeyHash[k] % HMax

Entry(k, v) == [key |-> k, val |-> v]

(* The positions in a walk w along bucket l of the nodes whose key compares*)
(* equal to k.                                                             *)
Hits(l, w, k) == {i \in DOMAIN w : l.data[w[i]].key = k}

(* The first of these nodes, at which the walks of hm_get, hm_set and      *)
(* hm_remove stop, or Null.                                                *)
Hit(l, k) ==
  LET w == Visited(l)
      hits == Hits(l, w, k)
  IN  IF hits = {} THEN Null ELSE w[Min(hits)]

HasKey(m, k) == Hit(m.buckets[BucketOf(k)], k) # Null

(* hm_get *)
HmGet(m, k) ==
  LET l == m.buckets[BucketOf(k)]
      node == Hit(l, k)
  IN  IF node = Null THEN Missing ELSE l.data[node].val

(* Variant of HmSet that never looks for the key. *)
HmSetAppending(m, k, v, new) ==
  [m EXCEPT !.buckets[BucketOf(k)] = InsertNth(@, @.size, Entry(k, v), new)]

(* hm_set: the value of a known key is replaced in place, a new key is     *)
(* appended to its bucket. The size field is left as it is.                *)
HmSet(m, k, v, new) ==
  [m EXCEPT !.buckets[BucketOf(k)] =
     IF HasKey(m, k) THEN [@ EXCEPT !.data[Hit(@, k)] = Entry(k, v)]
                     ELSE InsertNth(@, @.size, Entry(k, v), new)]

(* hm_remove, and the free of the pair it answers. *)
HmRemove(m, k) ==
  LET l == m.buckets[BucketOf(k)]
      index == Min(Hits(l, Visited(l), k)) - 1
  IN  IF HasKey(m, k)
        THEN [buckets |-> [m.buckets EXCEPT ![BucketOf(k)] =
                             Dispose(RemoveNth(l, index), Hit(l, k))],
              size |-> (m.size - 1) % SizeModulus]
        ELSE m

(* hm_free, and hm_init of a new map in what is left of the heap. *)
HmFree(m) ==
  [EmptyMap EXCEPT !.buckets =
     [b \in Buckets |-> [EmptyList EXCEPT !.data = FreeAll(m.buckets[b]).data]]]

-----------------------------------------------------------------------------

(* Every bucket is a well-formed list of keys that belong to it, each once,*)
(* so that no older value hides behind a newer one.                        *)
MapShape(m) ==
  \A b \in Buckets :
    /\ ListShape(m.buckets[b])
    /\ \A k \in Keys :
         LET hits == Hits(m.buckets[b], Visited(m.buckets[b]), k)
         IN  Cardinality(hits) <= 1 /\ (hits # {} => b = BucketOf(k))
=============================================================================
