# Verification of the hash-ring load balancer

The program under `src/skel` is a load balancer over a ring of document servers. It reads requests
from a file (`ADD_SERVER`, `REMOVE_SERVER`, `EDIT`, `GET`) and executes them one after the other.
This directory holds its TLA+ model: what every request does to the servers, which properties make
the cluster correct, TLC runs that check them on small instances, and TLAPS proofs for every
instance.

## 1. The system

| Component | Source | State | Operations |
|---|---|---|---|
| Load balancer | `load_balancer.c` | the array of servers, `has_vnodes` | `loader_add_server`, `loader_remove_server`, `loader_forward_request`, `free_load_balancer` |
| Sorted array | `arraylist.c` | elements sorted by hash, size, capacity | `al_get`, `al_get_ordered`, `al_find_by`, `al_insert_ordered`, `al_erase` |
| Server | `server.c` | database, cache, task queue | `server_handle_request`, `solve_queue`, `transfer_files` and its two variants for virtual nodes |
| LRU cache | `lru_cache.c` | a list of keys by recency, a map from keys to list nodes, a capacity | `lru_cache_get`, `lru_cache_put`, `lru_cache_remove` |
| Task queue | `queue.c` | a linked list of at most `TASK_QUEUE_SIZE` edits | `q_push`, `q_pop` |
| Hash map | `hashmap.c` | buckets of linked lists, a size | `hm_get`, `hm_set`, `hm_remove`, `hm_free` |
| Linked lists | `linked_list.c`, `doubly_linked_list.c` | nodes, head, tail, size | insert and remove at a position or a node, free all |
| Hashes | `utils.c` | none | `hash_uint` of ids, `hash_string` of names |
| Reader | `main.c` | the input file | `read_request_arguments`, `apply_requests` |

How they interact. `apply_requests` calls the load balancer; the load balancer looks servers up in
the array by hash (a document goes to the first server whose hash is not below its own) or by id; a
server answers from its cache over its database. There is one thread, no callback and no
persistence, so the hard behaviours are in *sequences of requests* and in *the middle of a request*:

- `EDIT` is acknowledged at once and only queued. It is applied when a later request happens to
  execute that server's queue: a `GET` at the same server, or a transfer away from it. Whether a
  `GET` sees it depends on where it waits and on what the ring did meanwhile.
- `ADD_SERVER` and `REMOVE_SERVER` move documents between databases, one at a time, and keep (or do
  not keep) the two caches in step with them.
- The position of a server decides, through two comparisons in two files, where documents are looked
  for and which ones move. The array's end wraps around to its beginning.
- A transfer removes nodes from the chain it is walking along. A cache's list and map share their key
  strings, and only one of them frees them.
- Nothing checks that an id is new, or that it is below 100000, the step between the labels of one
  server.
- A request of the input may span several lines, and is read in chunks of a fixed length.
- Limits: the queue's, the cache's capacity, the reader's buffer, an empty ring, a ring of one server.

What makes each component correct:

- *ring and array*: the three searches answer what the sorted set says, for every size and hash;
- *servers*: an edit waits where a `GET` will execute it; applying it changes one document;
- *caches*: list and map agree, within the capacity; a cached content is the stored one;
- *maps and lists*: a list is a sequence, a map a function, under every order of calls; every node and
  string has one owner;
- *reader*: the requests executed are the ones that were written, in order;
- *load balancer*: between requests each document is at its owner and nowhere else, so that the
  cluster is one document store; a request always ends.

`PROJECT.json` lists every component, and under `hazards` each place in the code where one of these
could go wrong.

## 2. The modules

| Module | Models |
|---|---|
| `LruCache` | one cache as a record `[order, val, cap]` and the cache's functions as operators on it |
| `Server` | `db`, `cache` and `queue` of every server, and what each function of `server.c` does to them |
| `HashRing` | who owns a document (`IsOwner`), who is next on the ring (`IsNext`), what a join moves (`ShouldMove`) |
| `LoadBalancer` | the requests, as a state machine over `Server` and `HashRing`; the properties |
| `DocStore` | the abstract specification: one map from names to contents, and the answers clients get |
| `LoadBalancerInvariant`, `VnodeInvariant` | the inductive invariants `IInv` of `LoadBalancer` and `VnodeBalancer` |
| `VnodeRing` | three labels per server, `pick_src` and `pick_dest` among them |
| `VnodeBalancer` | the requests when virtual nodes are enabled, over `Server` and `VnodeRing`; the properties |
| `SortedArray` | the loop of the binary searches, and the three searches of the sorted array as instances of it |
| `ArrayList` | the array: elements, size and capacity, and its operations |
| `Ring` | the set of labels that the array implements |
| `DuplicateIds` | the array of servers when ids are added twice, or are equal modulo 100000 |
| `NodeHeap` | the addresses of a list's nodes, what is allocated, and a walk along pointers |
| `LinkedList` | nodes, `next` pointers, head, tail and size of a singly linked list, and its functions |
| `HashMap` | buckets of `LinkedList`s, the keys' hashes modulo `hmax`, and `hm_get`, `hm_set`, `hm_remove`, `hm_free` |
| `DoublyLinkedList` | nodes with `next` and `prev`, which can be taken out and put back |
| `ListMachine` | a caller of the functions of both lists, at any index and in any order |
| `ValueSequence` | the abstract specification of a list: a sequence of values |
| `DbTransfer` | two databases as `HashMap`s, the edits written to them, and the loop of `transfer_files` over their buckets and chains |
| `DocMoves` | its abstract specification: databases are functions, and documents move one by one, the chosen ones and no others |
| `LruHeap` | a cache as its list, its map and the key strings they share |
| `CacheSpec` | its abstract specification, the calls of `lru_cache.h` over `LruCache` |
| `Reader` | requests of the input, written as characters and read back in chunks |
| `Hashes` | `hash_uint` on words of a given width, and the assumption, evaluated by TLC, that it is a bijection |
| `MC...` | values of the constants for TLC |
| `ClusterProofs`, `ListProofs` | theorems and proofs about the operators: the ring, the labels, caches and servers; the two linked lists |
| `LoadBalancerProofs`, `VnodeBalancerProofs`, `ArrayListProofs`, `LruHeapProofs`, `ListMachineProofs`, `DbTransferProofs` | theorems and proofs about the state machine each is named after |

`LoadBalancer` extends `Server` (which extends `LruCache`) and `HashRing`; `VnodeBalancer` extends
`Server` and `VnodeRing` (which extends `HashRing`). Both are shown to implement `DocStore`.
`ArrayList` is shown to implement `Ring`, whose two actions change the set of labels in the way
`AddServer` and `RemoveServer` do.

Below them, each data structure is modelled down to its pointers and shown to implement the
structure the servers' modules use: each list of `ListMachine` implements `ValueSequence` (the doubly
linked one read from either end), `LruHeap` implements `CacheSpec`, and `DbTransfer`, two hash maps and
a loop, implements `DocMoves`, where maps are functions and whose steps are the `MoveOne` of the load
balancer. Both lists extend `NodeHeap`; `HashMap` extends `LinkedList`, `LruHeap` extends
`DoublyLinkedList`, and `ListMachine` extends both.

### State and actions of `LoadBalancer`

`db[s]` is `s->local_db` as a function from documents to a content or `None`; `cache[s]` is
`s->cache`; `queue[s]` is `s->task_queue`; `ring` is the set of ids in the array. `op` is the request
being executed: the program is sequential, but its two loops are what can be half done, so each
iteration is a step, and `op` holds the loop (`stage`) and the servers it works on. `reply` is what
the last `EDIT` or `GET` printed.

| Action | Code |
|---|---|
| `Edit`, `EditOverflows`, `Refuse` | `loader_forward_request` with an `EDIT` (`q_push` exits when the queue is full; no server: nothing happens) |
| `Get`, `SolveTask`*, `Answer` | `loader_forward_request` with a `GET`: `solve_queue`, then `server_get_document` |
| `AddServer`, `SolveTask`*, `StartMoving`, `MoveOne`*, `FinishAdd` | `internal_loader_add_server` and `transfer_files(src, dest, false)` |
| `RemoveServer`, `SolveTask`*, `StartMoving`, `MoveOne`*, `FinishRemove` | `internal_loader_remove_server` and `transfer_files(src, dest, true)`; an unknown id becomes the last server |
| `RemoveFromNone`, `Crash` | the modulus by a ring of size 0, and the `NULL` tail of a cache of capacity 0: the program stops |
| `Shutdown`, `Stopped` | the end of the input; a stopped program stays stopped, so a deadlock TLC finds is a real one |

### State and actions of `VnodeBalancer`

With virtual nodes the array holds labels: `ring` is a set of pairs `<<s, i>>`, where `i` is 0, 1 or 2
for the ids `s`, `s + 100000` and `s + 200000`. The three `server` structures of a server point to one
database, cache and queue, so `db`, `cache` and `queue` stay indexed by servers.

| Action | Code |
|---|---|
| `Edit`, `EditOverflows`, `Refuse`, `Get`, `SolveTask`*, `Answer` | as above, at the server of the owning label |
| `AddServer`, then three times `JoinLabel`, `SolveTask`*, `StartMoving`, `MoveOne`*, `FinishJoin` | `loader_add_server`: one `internal_loader_add_server_with_vnodes` per label, each with `transfer_files_multiple_srcs`; a label next to one of its own server transfers nothing |
| `RemoveServer`, `SolveTask`*, `StartMoving`, `MoveOne`*, `FinishRemove` | `internal_loader_remove_server_with_vnodes` and `transfer_files_multiple_dests` |
| `NoDestination` | the `exit(-1)` of `pick_dest` when every destination is a label of the source |

An unknown id is looked up three times and stands for the last label each time. The documents of that
label's server go to the first label, and three labels are erased. If these are the labels of one
server the program goes on as after a removal of that server. If not, one of the servers may be freed
while labels of it stay in the array; the model reaches `Halted("torn ring")` and follows the program
no further.

### State and actions of the data structures

A list is a record with the fields of `ll_t` or `dll_t` and the heap of its nodes: `next`, `prev` and
`data` are functions on the addresses that `malloc` may answer, and a node whose `data` is `Garbage` is
not allocated. An allocation chooses any free address (one of them in `DbTransfer`, where the chains
that are walked on allocate nothing). The functions of `linked_list.c`, `hashmap.c` and
`doubly_linked_list.c` are operators on these records.

| Module | Actions | Code |
|---|---|---|
| `ListMachine` | `Put`, `Take`, `Move`, `Get`, `Clear` | the same call on both lists: `ll_insert_nth` and `dll_insert_nth_node`; `ll_remove_nth_node` and `dll_remove_node`; a removal and an insertion of the same node (`dll_insert_nth`); `ll_get_nth_node` and `dll_get_nth_node`; `ll_free` and `dll_free`. The queue of a server is `Put` at the size and `Take` at 0 |
| `DbTransfer` | `Write`, `Replace`; `Begin`, `MoveNode`, `PassNode`, `EndOfChain` | `hm_set` of an edit, `hm_free` of a server that leaves; one iteration each of the loops at `server.c:216-262`, with the cursor `node` and the `next` read before |
| `LruHeap` | `GetHit`, `GetMiss`, `PutKnown`, `PutNew`, `PutEvicting`, `RemoveKnown`, `RemoveUnknown`, `Free` | the paths through `lru_cache_get`, `lru_cache_put`, `lru_cache_remove`, `free_lru_cache` |

In `LruHeap` the map is the set of its entries (a key string's address and a node), which `DbTransfer`
justifies; `text[p]` is what the string at `p` says. The caller's duplicate of a key needs an address
too: `lru_cache_put` keeps it for a new key and frees it for a known one.

### State and actions of `DuplicateIds` and `Reader`

`DuplicateIds` has one variable, the array: a sequence of elements `[id, db, queue]`. Its searches are
the operators of `SortedArray`, so the element found among several with one id is the one the code
finds. A request is one step; caches, which belong to one element each, are left out.

`Reader` begins with any sequence of requests and the characters they are written with, perhaps cut
after a line. `ReadShort` and `ReadEdit` are the first `fgets` of `read_request_arguments`, `ReadMore`
each further one of a content; `OutOfRequests`, `UnknownType` and `NeverQuoted` are its three exits.
A request type, a name, an id and the blank are one character each: only quotes, newlines and lengths
decide what the reader does.

Each module marks *variants* of some definitions: plausible mistakes (a dropped guard, a comparison
off by one, a copy not removed). They are used by no action; `PROJECT.json` names for every property
the variant under which TLC finds it violated.

### Abstractions

- A document's hash and a server's hash are arbitrary constants. Distinct ids have distinct hashes
  (`HashAssumption`): `hash_uint` composes xor-shifts with multiplications by an odd constant, each a
  bijection on 32-bit words (`Hashes` has the whole on 14). Document names may collide with each
  other and with servers.
- The order in which a transfer walks the buckets is abstracted to any order (`MoveOne(d)` for any
  `d` still to be moved): documents that should not move are passed over and change nothing. That the
  walk over the chains does visit each document once is what `DbTransfer` shows.
- One step of a transfer moves one document: `hm_set`, `hm_remove` and `lru_cache_remove` at once
  (`MoveDocument`), as there is no second thread and no stop that could fall between them.
- In the servers' modules lists and maps are sequences and functions, which the data structures'
  modules show them to be. The list and the map of a cache are kept apart (`order` and `val`), since
  they could disagree.
- In `LoadBalancer` and `VnodeBalancer`, `ADD_SERVER` is given ids below 100000 that are not in the
  ring (`arraylist.h:52`: ids should be unique). `DuplicateIds` is about the others.
- Of a hash map's keys and values, their copies and frees are abstracted, as they have one owner each;
  the key strings of a cache, which have two, are not.
- The database, cache and queue of a server outside the ring hold the values of a freed server.
- Log and response texts are left out, except the content a `GET` prints.

## 3. The runs

| Run | Question | Instance |
|---|---|---|
| `placement` | Is everything where requests will look for it, at every step? | 3 servers, 4 documents, 1 content, queues of 1, caches of 2 |
| `store` | Can clients tell the cluster from one map, and does every request end? | 2 servers, 2 documents, 2 contents, queues of 2, caches of 0, 1 and 2 |
| `array` | Do the searches over the array agree with the ring? | 7 labels, 15 hashes below, on, between and above them |
| `vnode_placement` | The same as `placement`, with virtual nodes | 3 servers with 9 labels, 4 documents, 1 content, queues and caches of 1 |
| `vnode_store` | The same as `store`, with virtual nodes | 2 servers with 6 labels, 2 documents, 2 contents, queues of 2, caches of 0 and 1 |
| `duplicate_ids` | What happens to documents when ids are added twice, or are equal modulo the step? | 3 ids, two of them equal modulo the step, arrays of 6 elements, 2 documents, 2 contents, queues of 1 |
| `lists` | Are the two linked lists sequences? | 4 nodes, 2 values, indices 0 to 4 |
| `transfer` | Does the walk over the chains move the chosen documents, and end? | 2 databases of 2 buckets, 3 documents in one of them, 2 contents, 3 nodes in all |
| `lru_heap` | Do list, map and shared strings implement the cache? | capacity 3, 4 documents, 4 nodes, 4 strings |
| `reader` | Which requests are read as they were written? | up to 3 requests, contents of up to 4 characters, buffers of 4 and 12 |
| `tie`, `vnode_unknown_id` | Does the code do what its headers say? | as `placement` and `vnode_placement`, smaller |

**placement** checks `TypeOK`, `Placement` (a stored document is on the server a `GET` asks),
`QueuedAtOwner` (a waiting edit is in the queue a `GET` drains), `SingleCopy` (never two copies, not
even in the middle of a transfer), `CacheCoherent` (a cached content is the stored one),
`CachesShaped` (list, map and capacity of every cache), `ExecutesTasksOfRemoved` (a server that is removed has
executed its waiting edits before its documents move, unless it is the only one) and `IInv`, from which they
follow. The servers are at 2, 4 and 6, the documents at 1, 3, 4 and 7: below every server, between two, on one,
and above all, so that each of the three cases of `should_move` and both wraps occur, in every order
of joins and removals. Three servers are enough for a transfer to have a bystander; two cached keys
and four documents make recency matter; queues of 1 make the limit reachable.

A document is *clear* when its hash is no server's. `Placement`, `SingleCopy` and `CacheCoherent` are
stated for clear documents: for the others the code is wrong, and the run `tie` shows how.
`QueuedAtOwner` holds for all. The run includes a document that is not clear, so the others are
checked beside it.

**store** checks that the load balancer implements `DocStore`. The mapping takes for the content of
`d` the newest edit waiting for it anywhere, or else the stored copy; a step of a loop maps to
nothing, `Answer` to a `Read`. Two contents and queues of two make two edits of one document wait
together, which is where "the last edit" could be got wrong. Both documents are clear.

Its liveness property `RequestsEnd` is checked under `WF_vars(Progress)`: one thread runs
straight-line code and loops that never wait, so an enabled step of a request is taken. Requests
themselves are not fair: the input may end. Caches of size 0 are included, so that a request may also
end by stopping the program.

**vnode_placement** checks, for `VnodeBalancer`, `TypeOK`, `Placement`, `QueuedAtOwner`, `SingleCopy`
and `CacheCoherent` with "the owner" meaning the server of the owning label, and
`NoDestinationOnlyAlone`: removing a server that is on the ring ends the program in `pick_dest` only
if it is the only one. `IInv` is its inductive invariant, checked here and proved in general. The
labels of the three servers alternate so that, in the different orders of
joins, a label joins between two labels of another server, next to a label of its own, and at both
ends of the array; the documents are below all labels, in the middle, above all, and tied with one.
The third case of the comparison in `pick_src` and `pick_dest` needs a document above all labels of a
server: a variant without it is found.

**vnode_store** is `store` for `VnodeBalancer`. Two servers are enough for labels that alternate; their
queues of two hold two edits of one document.

**array** checks that `al_get_ordered` answers the owner (`FindsOwner`: the first element that is not below the
document, as the code compares; where no server has that hash it is also the one above, which the
header promises), that `al_find_by` finds every id (`FindsById`) although its binary search turns the wrong way and only the scan from index 0
makes up for it, that `(index + 1) % size` is the next label (`NextIsAdjacent`), that size stays
within capacity and capacity above 0 (`TypeOK`), and that the array implements `Ring`, each
operation with the id it was asked for (`IsTheRing`). `ArraySound` adds to `TypeOK` that the elements are in
order: what the searches rely on and the insertions have to establish. Seven labels are every subset of seven, and a
capacity that doubles three times and halves again. A binary search depends on the order of the
hashes only. The labels are placed by `hash_uint` on words of 14 bits; before the run, TLC evaluates
the assumption `Reversible` of `Hashes`: every word can be computed back from its hash. The steps are
the same at every even width: a fold by half the width, which is its own inverse, and a product with
an odd number.

**duplicate_ids** confines the damage that ids can do. An array is *sound* while the second of two
elements with one id is inert (`SecondsAreEmpty`) and documents and edits are at the element a `GET` of
them is forwarded to (`AtTheOwner`). `StaysSound`: only a server that joins before one whose id differs
from its by a multiple of the step ends that; adding an id twice does not. `OnlyCongruentLose`: a join or
removal changes what a `GET` answers only where `transfer_files` takes the two servers for one, because
their ids are equal modulo the step or the same, or there is only one. The step is 2 here, so that of the
ids 1, 2 and 3 two are congruent. `al_find_by` stops in the middle of equal hashes only in arrays of four
or more, hence six elements.

**lists** checks the abstract specification of either list (`IsASequence`, `ReadsBothWays`: every call
has the effect and the answer it has on a sequence, which the doubly linked list is along `next` from
the head and along `prev` from the tail) and the pointers (`WellFormed`, `WellLinked`: the chain is the
allocated nodes, the tail its last, so that nothing leaks). Lists of four have a first, a last and
two inner nodes.

**transfer** checks that the loop of `transfer_files` never stands on a node it has given back
(`CursorIsLive`), that the maps stay well-formed under it, every key once and in its bucket
(`MapsWellFormed`), that it implements `DocMoves` (`MovesTheChosen`: the maps are functions, and the
chosen documents move, whole), and that it ends (`TransferEnds`, under weak fairness of the loop, which
waits for nothing). The chosen documents are any subset, so that neighbours on a chain move in a row,
first, inner and last. `MaxStored` bounds the nodes of the two databases together: all three may be in
one chain, or two in the source's and one, of the same document even, in the destination's.

**lru_heap** checks `HeapSound`: every node of the list has its entry in the map, under the string it
owns; every entry leads to a node; no key is there twice; every allocated string is some entry's. And
`IsTheCache`: each call answers, promotes and evicts what `LruCache`, the model of the cache in the
servers, does. A capacity of 3 has a head, an inner node and a tail to promote and remove; a fourth
document evicts; one address more than needed of each kind lets `malloc` choose.

**reader** says exactly which contents are read. A content is *comfortable* when, being one line, it is at
least three characters shorter than `DOC_CONTENT_LENGTH`, or, being several, its last line with the
closing quote does not fill the buffer. `ReadAsWritten`: as long as all were, the requests read are the
ones written. `StandsAtARequest`: between two requests the reader stands at the next one if and only if
all were, and until then it exits only where the file was cut or a type is unknown. The two lengths are
scaled down together; contents have every length up to the limit, with newlines anywhere.

The two runs that are expected to find a violation compare the code with a sentence of its own headers:

- `tie`: a document whose hash equals a joining server's is routed to it (`>=`, `arraylist.c:50`) but
  not transferred to it (`<`, `server.c:231-239`): `GET` answers `(null)`, against `load_balancer.h:63`.
- `vnode_unknown_id`: with virtual nodes, removing an id that is not there erases the last three labels,
  which may be of several servers, against `load_balancer.h:45-46` ("the server (and its replicas)").

### Noted while modelling

Other places where the code and its comments or messages disagree. The models do what the code does, and
the property named is the one that holds nevertheless.

- `al_get_ordered` stops at the first element that is equal to the target or above it (`arraylist.c:50`),
  against `arraylist.h:39` ("the first element "greater" than some target"); `arraylist.h:83` has the same word
  for `al_insert_ordered`, and there the code keeps it. They differ for a document with the hash of a
  server. `FindsOwner` says what the search answers for every document ("owner" in all modules is what the code
  compares with), and that it is what the header promises for the documents with no server's hash. A
  search as the header has it would not close the gap of `tie` but move it: a document with the hash of the
  only server would belong to whichever server joins first on the ring, and `should_move`, whose comparisons
  with the source's hash are strict too (`server.c:231-239`), would leave it behind.
- Removing the only server returns from `transfer_files` before `solve_queue` and drops the queue, against
  `load_balancer.h:49-50` (`RemoveServer` goes to `free` at once). `ExecutesTasksOfRemoved` says that this is the
  only way in which edits are dropped; `ActsAsOneStore` allows for it, as its store closes with the last server.
- Removing an id that is not there removes the last server, against `load_balancer.h:43`. Its documents
  are moved as in any removal (`Placement`, `IsTheRing`).
- A cache of size 0 passes a check that says "cache size must be positive" (`main.c:104`), and the first
  document it caches stops the program (`Crash`; `RequestsEnd`).
- `hm_remove` decrements `size` and `hm_set` never increments it, against `hashmap.h:22`. Nothing reads it.
- `lru_cache_put` answers `false` when it added a key and `true` when it had it, against
  `lru_cache.h:43-44`. Its callers ignore the answer; `IsTheCache` says what it is.
- With an id twice on the ring, removing it may free its documents, against `load_balancer.h:46-47`; a
  server whose id differs by 100000 from its successor's gets none of its documents, against
  `load_balancer.h:33-34` (`OnlyCongruentLose`, `StaysSound`: these are the only such cases).
- A one-line content of 4094 to 4096 characters is refused as "not properly quoted" (`main.c:77`) or runs on
  into the next lines, and one whose last line fills the buffer up to its quote leaves a newline that is
  refused as an "unknown request type" (`utils.c:61`): the contents that are not comfortable.

## 4. The proofs

Assumptions: `None` is no content and no document; `TASK_QUEUE_SIZE` is positive; cache sizes are
natural numbers, in `LruHeap` positive; `NULL` is no address, freed memory carries no data, and there are
finitely many addresses for the nodes of a list (`NodesAssumption`, for the walks along it); the hashes of
labels are natural numbers, different for different labels; a map has at least one bucket, its keys' hashes are
natural numbers, and `NULL` is no value (`MapAssumption`); indices of list nodes are natural numbers
(`IndicesAssumption`: they are `unsigned` in the code). Nothing is assumed of the number of servers,
documents, contents, buckets or nodes, of collisions among documents or keys, or of the sizes. The two
refinements of `DocStore` have one hypothesis more: that every document is clear. It is needed, as `tie`
shows, and it is about the constants only.

| What is proved of | Theorems |
|---|---|
| `LoadBalancer` | `Invariance`, all invariants of `placement`, `Refinement` (`ActsAsOneStore`) |
| `VnodeBalancer` | `Invariance`, all invariants of `vnode_placement` and `NoDestinationOnlyAlone`, `Refinement` (`ActsAsOneStore`) |
| `ArrayList` | `Invariance`, all invariants of `array`, `Refinement` (`IsTheRing`) |
| `LruHeap` | `HeapStaysSound`, `Refinement` (`IsTheCache`) |
| `ListMachine` | all invariants of `lists`, `SequenceRefinement` (`IsASequence`), `BothWaysRefinement` (`ReadsBothWays`) |
| `DbTransfer` | all invariants of `transfer`, `MovesRefinement` (`MovesTheChosen`) |
| the choices among labels | `PickSrcIsOwner`, `PickDestIsOwner`, `DestinationInherits` |
| the linked lists | `RemoveNodeRepresents`, `MetAreRepresented` |

*Why `IInv`.* `Placement` and `QueuedAtOwner` speak of states in which nothing is on its way, and are
not inductive: a transfer leaves those states and has to come back. `IInv` says for each server for
which ring its documents are placed (`Home`). While a server joins, its successor still holds what
the new server will take, so the successor's home is the ring without the new server and everyone
else's is the ring with it; while a server leaves, everyone but itself is placed for the ring without
it. The rest of `IInv` is what the transfer relies on: its two servers are neighbours in the right
order, the source's queue is empty once documents move, and servers outside the ring are empty.
`SingleHolder` is stronger than `SingleCopy`: an edit that waits and a copy that is stored are on one
server as well, or else an edit would be overtaken by an older copy that arrives.

*The argument.* `ClusterProofs` begins with the geometry: a document has an owner in every ring that is not empty
(`OwnerExists`), and one only; removing a label takes nothing from the others; a leaving label's documents
belong to the next one (`NextInherits`); a joining label takes from its successor only
(`JoinSparesOthers`), and takes exactly what `should_move` picks unless there is a tie
(`ShouldMoveIsRight`). Then it has what an operation on a cache or on a server preserves and
changes: get, put and remove keep the list and the map in step and change no other key's value, except by
eviction; `q_push` and one iteration of `solve_queue` leave the rest of the queue as it was.
`LoadBalancerProofs` has one lemma per action. An edit is applied at the owner of its document, and
`OwnerUnique` excludes a copy elsewhere; a moved document arrives at its new owner, where by
`SingleHolder` and `CacheCoherent` no stale cache entry can wait for it.

*One document store.* The mapping takes for the content of `d` the newest edit waiting for it, or else
the stored copy (`Latest`). By `SingleHolder` one server at most has either, so that `Latest` is what that
server would answer (`LatestIs`), and each step is followed on one server: `EnqueueShows`, `SolveShows`,
`MoveShows` and `ResetShows` say how an operation changes an answer, or that it does not. `EDIT` then is a
`Write` and `Answer` a `Read` of the abstract store, and every step of a loop leaves the store alone
(`StepIsStoreStep`). It uses `IInv` in the state before the step and in the one after.

*Virtual nodes.* `PickSrcIsOwner` and `PickDestIsOwner` say of the two folds that they answer the owner of
the document: among a server's three labels, and among those destinations that are of other servers. One
iteration extends the owner among the labels seen so far (`TakeSrcIsOwner`). Three labels leave at once,
and a destination was looked up when all three were there: the label after one of them may be another of
the three, or that label's own successor. `DestinationInherits` shows that `pick_dest` is right
nevertheless. Going up the ring from the document's hash, of the labels of the server that come before
the new owner the last one has it as its successor (`LastBefore`), so it is among the destinations
and none of another server comes sooner. `DestinationExists` gives the same for the exit of `pick_dest`.

The invariant of `VnodeInvariant` has the same parts as the one above. It adds how many of a server's
labels are on the ring (`ServersWhole`), and it also holds in the middle of the removal of an unknown id:
when the last three labels are those of one server (`Clean`) they leave like any server, and all three
destinations are the first label, which inherits everything (`FirstInherits`); when they are not, nothing
is claimed of the documents once they move, and the program is `Halted` at the end of it.

*The array.* The three searches are one loop, `BinarySearch`, which differs in where it turns left, in
what it takes for an answer and in the answer it begins with. `Outcome` is a recursive function over the
variables of the loop. That it exists (`OutcomeIs`) and what it returns are shown without an induction
rule: of the widths of the intervals on which it would go wrong, the least leads to a contradiction
(`LeastElement`). A search that turns left exactly from index `k` on, and answers where it does, ends at
`k` (`SearchFinds`); one that turns anywhere ends at a hit or at its first answer (`SearchHits`), which is
all that `al_find_by` needs, because its scan goes on from there and the only hit is the element it looks
for. In an array that is in order, the set of indices at which a search turns left begins at one index
(`Threshold`), and `InsertAtSorts` and `RemoveAtSorts` give the order back. The order is strict, so
the proofs say nothing about arrays that hold an id twice.

*The cache in memory.* `HeapStaysSound` (`Spec => []HeapSound` for `LruHeap`) holds for every capacity
and every number of addresses. `HeapSound` is inductive as it stands. `ListProofs` has the
pointers: if a list *represents* a sequence of nodes, inserting a node first represents the
sequence with that node in front (`InsertFirstRepresents`), removing its i-th node the sequence
without it (`RemoveNodeRepresents`), and `dll_free` meets the nodes of the sequence and no others
(`MetAreRepresented`). `Met` is the smallest set that holds the head and is closed under `next`; that
it reaches every node is shown from the first one it would not reach, since a non-empty set of natural
numbers has a least element (`LeastElement`): an induction without an induction rule.
`LruHeapProofs` adds the ownership: `Whole` is `HeapSound` for any list, map and strings, because
`lru_cache_put` goes through the state that its eviction leaves; `RemovedIsWhole` and `AddedIsWhole` say
that an entry goes and comes with its node and its string.

*The cache it is.* `IsTheCache` is proved from `HeapSound` before and after each step. A walk along
`next` finds the sequence the list represents (`WalkForward`), also without an induction rule: the walk
is a recursive function on the numbers up to that of the addresses, of which there is only one (where two
first differ, the least such number contradicts), and the sequence, with `NULL` behind it, is one. A
cache is *read* from that sequence (`Reads`) when its order is what the nodes' strings say, its contents
are the nodes' and it has no others; a sound heap reads as the cache it stands for (`CacheIsRead`) and as
no other (`CacheReadOnce`), which uses that no two nodes carry the same key (`KeysDiffer`). What is left
is one lemma per thing done to a list: a pair is taken out (`RemovedIsRead`), put in front
(`AddedIsRead`), or both (`PromotedIsRead`). The evicted key is the last of the order because the list's
tail is the last node (`FullIsRead`). The load balancer's theorems are about servers with the abstract
cache; this one says that the one in memory does the same.

*The two lists.* One invariant serves both (`IInv` of `ListMachineProofs`): the doubly linked list is
`Linked`, the two are `InStep` (the same head, tail, size, `next` pointers and data), and their last
answers were the same. `Linked` alone is not enough for
`WellFormed`, and `WellFormed` says nothing of `prev`; with `InStep`, a singly linked list is a doubly
linked one without its `prev` pointers (`OneWay`), and everything is proved once, about `Represents`.
Each function of the one list is shown to be the function of the other: `ll_remove_nth_node`, which looks
for the node before the one it removes, and `dll_remove_node`, which is given it, leave the same pointers.
`ListProofs` has what insertion at any index does to the represented sequence, beside the lemmas of the
cache. From there the refinements are about sequences: the chain read along `next` from the head, or along
`prev` from the tail and reversed, is the represented sequence with the nodes' data, and each call is
followed by the one step of `ValueSequence` with the same index and answer. The moves of a node that is
not freed are a removal and an insertion, and need that the pointers left in it are overwritten.

*The walk of a transfer.* The loop removes nodes from the chain it walks on, so that its invariant
has to say where on the chain the cursor is and what it has left behind (`Cursor`). The chain is a
sequence of nodes and the cursor is at a position of it or past its end (`StandsAt`); no document before
the cursor on this chain, and none in a bucket before this one (`Swept`), is to be moved. The first part gives
`CursorIsLive`: the `next` pointer read before `hm_remove` frees the node is the cursor's next
position in the shorter chain. The second gives `MovesTheChosen`: when the loop passes the last bucket
nothing chosen is left, which is what `DocMoves` asks of its `Finish`, and which `CursorIsLive` could
hold without. `Sound` is the strengthening of `MapShape` for one map: each bucket is some sequence of
nodes (`ChainOf`, a singly linked list is `OneWay` of a doubly linked one) with no key twice and no key of another
bucket. `SetSound` and `RemoveSound` preserve it and say what the map answers afterwards: the new value for
that key, the old one for every other. `HitIs` says that the walk of `hm_get` stops at the only node with the key.
No fairness is used; that the loop ends remains to TLC.

*Which properties are silent about a stop.* `RequestsEnd` takes a stop of the program for an end of the request,
so it admits a removal from an empty ring, a full queue and a cache of size 0. These are actions of the
model (`RemoveFromNone`, `EditOverflows`, `Crash`). `IsTheRing` admits the removal
of the last label for an unknown id, which `Ring` has built in, and `IsTheCache` the answer of `lru_cache_put`.

*Model-checked only.*

- `RequestsEnd` and `TransferEnds`: liveness under fairness, which the provers do not handle.
- The properties of the runs that expect a violation, which do not hold.
- `Reader`: `ReadAsWritten` and `StandsAtARequest` compare the reader's position with a file that is the
  concatenation of any number of requests. What a concatenation of n sequences holds at a place is defined
  by recursion over n, and the step from one chunk to the next needs facts about it by induction over data.
- `DuplicateIds`: an array there has several elements with one hash, `SearchFinds` does not apply, and
  where a search stops depends on where its midpoints fall, so that `StaysSound` and `OnlyCongruentLose` are
  about each length of an array by itself.
- `Hashes` uses bitwise operators, which no prover here knows: that `hash_uint` has no collisions is an
  assumption of the theorems (`HashAssumption`, `LabelsAssumption`), which TLC evaluates for 14 bits.

## 5. Not modelled, and why

- What the program does with virtual nodes after a removal of an unknown id has torn a server, and
  `VnodeBalancer` with ids in use or above 99999: from there on it reads memory that was freed, and
  every outcome would be allowed.
- The lengths of names, contents and responses outside the reader, and what happens once a text does not
  fit in its buffer: the reader's behaviours end there.
- Allocation failures. Where `malloc` is checked at all, the program ends.
- `hash_string`: any function will do, so it is a constant. `atoi`, the line with the number of
  requests, and negative cache sizes, which `main.c` refuses.
- `al_free`, `free_load_balancer`, `print_servers` and the texts of logs: they come at the end of the
  program or change no state.

## 6. State of the work

Modelled and checked: the ring, the array with and without duplicate ids, the data structures down to
their pointers, the caches, the servers, the reader and the load balancer, without and with virtual nodes.

Proved, for every value of the constants: the lists are sequences, the maps functions, the loop over their
chains moves the documents that are to move, the cache in memory is the servers' cache, the array is the ring,
and the load balancer, in both forms, is one document store. Between two of these results stands an
abstract specification (`DocMoves`, `CacheSpec`, `Ring`, `ValueSequence`) whose steps are those that the
modules above take by definition; that the two say the same is read, not proved.

What could be taken further: `Reader` with requests of a fixed number of chunks, where no induction is needed;
and `StaysSound` of `DuplicateIds` for arrays whose equal hashes are searched linearly.
