------------------------------- MODULE Server -------------------------------
(***************************************************************************)
(* The servers (server.c): each one has a database of documents, a cache   *)
(* over it and a queue of edits that were acknowledged but not applied.    *)
(* The operators are the functions the load balancer calls on a server;    *)
(* each says what happens to the three variables. A server outside the     *)
(* ring is a freed one: it keeps the values FreeServer gives it.           *)
(***************************************************************************)
EXTENDS LruCache

CONSTANTS
  Servers,       (* server ids, 0..99999 in the program                    *)
  TaskQueueSize  (* TASK_QUEUE_SIZE, 1000 in the program                   *)

ASSUME QueueAssumption == TaskQueueSize \in Nat \ {0}

VARIABLES
  db,      (* db[s][d]: content of d in s->local_db, or None               *)
  cache,   (* cache[s]: s->cache                                           *)
  queue    (* queue[s]: s->task_queue, oldest edit first                   *)

serverVars == <<db, cache, queue>>

EditRequest == [doc : Docs, content : Contents]

ServerTypeOK ==
  /\ db \in [Servers -> [Docs -> MaybeContent]]
  /\ cache \in [Servers -> CacheType]
  /\ queue \in [Servers -> Seq(EditRequest)]
  /\ \A s \in Servers : Len(queue[s]) <= TaskQueueSize

-----------------------------------------------------------------------------

(* init_server(n); with n = 0, the values of a server that does not exist. *)
ResetServer(s, n) ==
  /\ db' = [db EXCEPT ![s] = NoDocs]
  /\ cache' = [cache EXCEPT ![s] = EmptyCache(n)]
  /\ queue' = [queue EXCEPT ![s] = << >>]

(* free_server: the queue is dropped without being executed. *)
FreeServer(s) == ResetServer(s, 0)

(* Variant of Enqueue with a comparison that is off by one. *)
EnqueueOneMore(s, d, c) ==
  /\ Len(queue[s]) <= TaskQueueSize
  /\ queue' = [queue EXCEPT ![s] = Append(@, [doc |-> d, content |-> c])]
  /\ UNCHANGED <<db, cache>>

(* server_handle_request on an EDIT: q_push, when the queue has room. *)
Enqueue(s, d, c) ==
  /\ Len(queue[s]) < TaskQueueSize
  /\ queue' = [queue EXCEPT ![s] = Append(@, [doc |-> d, content |-> c])]
  /\ UNCHANGED <<db, cache>>

(* q_push on a full queue: the program exits. *)
QueueIsFull(s) == Len(queue[s]) = TaskQueueSize

(* server_edit_document: the lookup promotes a cached key, the database is *)
(* written, then the cache.                                                *)
EditDocument(s, d, c) ==
  /\ ~PutCrashes(cache[s], d)
  /\ db' = [db EXCEPT ![s][d] = c]
  /\ cache' = [cache EXCEPT ![s] = CachePut(CacheGet(@, d), d, c)]

(* Variant of SolveOne that reads the task without popping it. *)
SolveOneKeepingIt(s) ==
  /\ queue[s] # << >>
  /\ EditDocument(s, Head(queue[s]).doc, Head(queue[s]).content)
  /\ UNCHANGED queue

(* One iteration of solve_queue: the oldest edit is applied. *)
SolveOne(s) ==
  /\ queue[s] # << >>
  /\ EditDocument(s, Head(queue[s]).doc, Head(queue[s]).content)
  /\ queue' = [queue EXCEPT ![s] = Tail(@)]

(* The same iteration when lru_cache_put has no tail to evict. *)
SolveCrashes(s) ==
  /\ queue[s] # << >>
  /\ PutCrashes(cache[s], Head(queue[s]).doc)

(* What server_get_document answers: the cached content first, then the    *)
(* database's, then "(null)".                                              *)
Content(s, d) == IF Cached(cache[s], d) THEN cache[s].val[d] ELSE db[s][d]

(* server_get_document: a hit promotes the key, a miss on a document the   *)
(* database has caches it, and an unknown document changes nothing.        *)
GetDocument(s, d) ==
  /\ \/ /\ Cached(cache[s], d)
        /\ cache' = [cache EXCEPT ![s] = CacheGet(@, d)]
     \/ /\ ~Cached(cache[s], d)
        /\ db[s][d] # None
        /\ ~PutCrashes(cache[s], d)
        /\ cache' = [cache EXCEPT ![s] = CachePut(@, d, db[s][d])]
     \/ /\ ~Cached(cache[s], d)
        /\ db[s][d] = None
        /\ UNCHANGED cache
  /\ UNCHANGED <<db, queue>>

(* server_get_document when lru_cache_put has no tail to evict. *)
GetCrashes(s, d) ==
  /\ ~Cached(cache[s], d)
  /\ db[s][d] # None
  /\ PutCrashes(cache[s], d)

(* Variants of MoveDocument: one leaves the source's copy, the other the   *)
(* source's cache entry.                                                   *)
CopyDocument(src, dest, d) ==
  /\ db' = [db EXCEPT ![dest][d] = db[src][d]]
  /\ cache' = [cache EXCEPT ![src] = CacheRemove(@, d)]
  /\ UNCHANGED queue

MoveButLeaveCached(src, dest, d) ==
  /\ db' = [db EXCEPT ![dest][d] = db[src][d], ![src][d] = None]
  /\ UNCHANGED <<cache, queue>>

(* One document of src->local_db moved by a transfer: written to the       *)
(* destination's database, removed from the source's, and dropped from the *)
(* source's cache. The destination's cache is not touched.                 *)
MoveDocument(src, dest, d) ==
  /\ db' = [db EXCEPT ![dest][d] = db[src][d], ![src][d] = None]
  /\ cache' = [cache EXCEPT ![src] = CacheRemove(@, d)]
  /\ UNCHANGED queue

-----------------------------------------------------------------------------
(* What the clients of a cluster see of it.                                *)

(* What the last EDIT or GET printed. *)
Reply(k, d, c) == [kind |-> k, doc |-> d, content |-> c]
NoReply == Reply("none", None, None)

ReplyType == [kind : {"none", "queued", "refused", "content"},
              doc : Docs \union {None}, content : MaybeContent]

(* The content a GET of d would print: the newest edit waiting for d, or   *)
(* else what is stored.                                                    *)
Waiting(s, d) == {i \in DOMAIN queue[s] : queue[s][i].doc = d}

Newest(s, d) == queue[s][Max(Waiting(s, d))].content

(* Server s stores document d or has an edit waiting for it. *)
Holds(s, d) == db[s][d] # None \/ Waiting(s, d) # {}

Latest(d) ==
  IF \E s \in Servers : Waiting(s, d) # {}
    THEN Newest(CHOOSE s \in Servers : Waiting(s, d) # {}, d)
  ELSE IF \E s \in Servers : db[s][d] # None
    THEN db[CHOOSE s \in Servers : db[s][d] # None][d]
    ELSE None
=============================================================================
