------------------------------- MODULE LruHeap -------------------------------
(***************************************************************************)
(* The cache of one server as it lies in memory (lru_cache.c): a doubly    *)
(* linked list of pairs, a map from key strings to the nodes of that list, *)
(* and the key strings, which the map and the list share. Only the list    *)
(* frees a string; the map compares through its own pointer to it. What a  *)
(* pair's value points at has one owner and is a plain value here, and the *)
(* map is the set of its entries.                                          *)
(***************************************************************************)
EXTENDS DoublyLinkedList

CONSTANTS
  Docs,      (* document names: the texts of the key strings               *)
  Contents,  (* document contents                                          *)
  None,      (* no key, no content; the text of a string that is freed     *)
  Strings,   (* the addresses malloc may answer for a key string           *)
  Capacity   (* cap, at least 1: with 0 the first put has no tail to evict *)

ASSUME HeapAssumption ==
  /\ Capacity \in Nat \ {0}
  /\ None \notin Docs \union Contents
  /\ Data = [str : Strings, val : Contents]

VARIABLES
  dll,    (* cache->dll                                                    *)
  map,    (* cache->map: the string and the node of every entry            *)
  text,   (* text[p]: what the key string at p says, or None if it is freed*)
  last    (* the last call, what it answered, and the key it evicted       *)

vars == <<dll, map, text, last>>

MaybeContent == Contents \union {None}

EntryType == [str : Strings, node : Nodes]

CallType ==
  [op : {"init", "put", "get", "remove", "free"}, key : Docs \union {None},
   value : MaybeContent, answer : BOOLEAN, evicted : Docs \union {None}]

TypeOK ==
  /\ dll \in DllType
  /\ map \in SUBSET EntryType
  /\ text \in [Strings -> Docs \union {None}]
  /\ last \in CallType

Call(o, d, v, a, e) ==
  [op |-> o, key |-> d, value |-> v, answer |-> a, evicted |-> e]

(* The entries of a map whose string compares equal to d. *)
Entries(m, d) == {e \in m : text[e.str] = d}

Known(d) == Entries(map, d) # {}

Live == {p \in Strings : text[p] # None}

(* lru_cache_is_full *)
Full == dll.size = Capacity

-----------------------------------------------------------------------------

(* init_lru_cache *)
Init ==
  /\ dll = EmptyDll
  /\ map = {}
  /\ text = [p \in Strings |-> None]
  /\ last = Call("init", None, None, FALSE, None)

(* lru_cache_get: a hit takes the node out and puts it first. *)
GetHit(d) ==
  \E e \in Entries(map, d) :
    /\ dll' = DllInsertNth(RemoveNode(dll, e.node), 0, e.node)
    /\ last' = Call("get", d, dll.data[e.node].val, TRUE, None)
    /\ UNCHANGED <<map, text>>

GetMiss(d) ==
  /\ ~Known(d)
  /\ last' = Call("get", d, None, FALSE, None)
  /\ UNCHANGED <<dll, map, text>>

(* Variants of PutKnown: one frees the key string the cache already has,   *)
(* and one keeps the duplicate.                                            *)
PutKnownFreeingOld(d, v) ==
  \E e \in Entries(map, d), p \in Strings \ Live :
    /\ dll' = DllInsertNth([RemoveNode(dll, e.node) EXCEPT !.data[e.node].val = v],
                        0, e.node)
    /\ text' = [text EXCEPT ![p] = d, ![e.str] = None]
    /\ last' = Call("put", d, v, TRUE, None)
    /\ UNCHANGED map

PutKnownInPlace(d, v) ==
  \E e \in Entries(map, d) :
    /\ dll' = [dll EXCEPT !.data[e.node].val = v]
    /\ last' = Call("put", d, v, TRUE, None)
    /\ UNCHANGED <<map, text>>

(* lru_cache_put of a key the map has: the caller's duplicate of the key,  *)
(* at an address that was free, is freed again; the pair takes the new     *)
(* value and goes first.                                                   *)
PutKnown(d, v) ==
  /\ Live # Strings
  /\ \E e \in Entries(map, d) :
       dll' = DllInsertNth([RemoveNode(dll, e.node) EXCEPT !.data[e.node].val = v],
                        0, e.node)
  /\ last' = Call("put", d, v, TRUE, None)
  /\ UNCHANGED <<map, text>>

(* lru_cache_put of a new key while there is room: the pair goes first and *)
(* takes the caller's string, which the map points at too.                 *)
PutNew(d, v) ==
  /\ ~Known(d)
  /\ ~Full
  /\ \E p \in Strings \ Live, n \in Nodes \ Allocated(dll) :
       /\ dll' = DllInsertNthNode(dll, 0, [str |-> p, val |-> v], n)
       /\ map' = map \union {[str |-> p, node |-> n]}
       /\ text' = [text EXCEPT ![p] = d]
  /\ last' = Call("put", d, v, FALSE, None)

(* What lru_cache_remove does with the entry hm_remove answered: the node  *)
(* leaves the list and is freed with its string, then the entry is.        *)
ListWithout(e) == FreeNode(RemoveNode(dll, e.node), e.node)

StringsWithout(e) == [text EXCEPT ![dll.data[e.node].str] = None]

(* lru_cache_put of a new key into a full cache: the key of the tail is    *)
(* copied for the caller and removed, through the map, before the new pair *)
(* is made. The new node may get the address of the one just freed.        *)
PutEvicting(d, v) ==
  /\ ~Known(d)
  /\ Full
  /\ LET victim == text[dll.data[dll.tail].str]
     IN  \E e \in Entries(map, victim), p \in Strings \ Live :
           \E n \in (Nodes \ Allocated(dll)) \union {e.node} :
             /\ dll' = DllInsertNthNode(ListWithout(e), 0, [str |-> p, val |-> v], n)
             /\ map' = (map \ {e}) \union {[str |-> p, node |-> n]}
             /\ text' = [StringsWithout(e) EXCEPT ![p] = d]
             /\ last' = Call("put", d, v, FALSE, victim)

(* lru_cache_remove *)
RemoveKnown(d) ==
  \E e \in Entries(map, d) :
    /\ map' = map \ {e}
    /\ dll' = ListWithout(e)
    /\ text' = StringsWithout(e)
    /\ last' = Call("remove", d, None, TRUE, None)

RemoveUnknown(d) ==
  /\ ~Known(d)
  /\ last' = Call("remove", d, None, FALSE, None)
  /\ UNCHANGED <<dll, map, text>>

(* free_lru_cache, and a new cache in what is left of the heap: hm_free    *)
(* frees the entries, dll_free every pair it meets and its string.         *)
Free ==
  /\ map' = {}
  /\ dll' = [EmptyDll EXCEPT !.data = DllFree(dll).data]
  /\ text' = LET freed == {dll.data[n].str : n \in Met(dll)}
             IN  [p \in Strings |-> IF p \in freed THEN None ELSE text[p]]
  /\ last' = Call("free", None, None, FALSE, None)

Next ==
  \/ \E d \in Docs :
       \/ GetHit(d) \/ GetMiss(d) \/ RemoveKnown(d) \/ RemoveUnknown(d)
       \/ \E v \in Contents : PutKnown(d, v) \/ PutNew(d, v) \/ PutEvicting(d, v)
  \/ Free

Spec == Init /\ [][Next]_vars

-----------------------------------------------------------------------------
(* Properties.                                                             *)

(* Every string the map compares with is allocated, and belongs to the one *)
(* node its entry names: no entry outlives its node, no key is in the map  *)
(* twice, and no string is left that neither owns. The destructor of the   *)
(* map does not free the strings, so the list has to.                      *)
Owned ==
  /\ \A n \in Allocated(dll) : [str |-> dll.data[n].str, node |-> n] \in map
  /\ \A e \in map : e.node \in Allocated(dll) /\ dll.data[e.node].str = e.str
  /\ \A e, f \in map : text[e.str] = text[f.str] => e = f
  /\ {e.str : e \in map} = Live

(* The list is linked both ways through its nodes and within capacity, so  *)
(* that the tail lru_cache_put evicts is the last node and is never NULL.  *)
ListWhole == Linked(dll) /\ dll.size <= Capacity

HeapSound == TypeOK /\ ListWhole /\ Owned

(* The keys from the head of the list on, and what the map leads to. *)
Order == LET w == Walk(dll.next, dll.head)
         IN  [i \in DOMAIN w |-> text[dll.data[w[i]].str]]

Mapped(d) == IF Known(d)
               THEN {dll.data[e.node].val : e \in Entries(map, d)}
               ELSE {None}

Abstract == INSTANCE CacheSpec WITH
  cache <- [order |-> Order,
            val |-> [d \in Docs |-> CHOOSE v \in Mapped(d) : TRUE],
            cap |-> Capacity]

(* The list, the map and the shared strings implement the cache that the   *)
(* servers are modelled with: each call evicts the key, promotes the key   *)
(* and answers the content that it does there.                             *)
IsTheCache == Abstract!Spec
=============================================================================
