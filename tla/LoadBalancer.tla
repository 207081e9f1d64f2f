---------------------------- MODULE LoadBalancer ----------------------------
(***************************************************************************)
(* The load balancer without virtual nodes (load_balancer.c), over the     *)
(* servers of module Server. The program is sequential: it takes a request *)
(* from the input when it is idle and finishes it before the next. What a  *)
(* request does at once is one action; the two loops it may run, draining  *)
(* a task queue (solve_queue) and moving documents (transfer_files), take  *)
(* one step per iteration, and op says which loop is running.              *)
(***************************************************************************)
EXTENDS Server, HashRing

CONSTANT CacheSizes   \* the cache sizes ADD_SERVER is given

ASSUME CacheSizesAssumption == CacheSizes \subseteq Nat

\* hash_uint maps distinct ids to distinct hashes: it composes xor-shifts
\* and multiplications by an odd number, each a bijection of 32-bit words.
ASSUME HashAssumption ==
  /\ LabelHash \in [Servers -> Nat]
  /\ \A s, t \in Servers : LabelHash[s] = LabelHash[t] => s = t
  /\ DocHash \in [Docs -> Nat]

VARIABLES
  ring,    (* the ids in the servers array                                 *)
  op,      (* the request being executed, or why the program stopped       *)
  reply    (* what the last EDIT or GET printed for its client             *)

vars == <<serverVars, ring, op, reply>>

-----------------------------------------------------------------------------

Idle == [kind |-> "idle"]
Halted(why) == [kind |-> "halted", why |-> why]
Getting(s, d) == [kind |-> "get", src |-> s, doc |-> d]
Transfer(k, st, src, dest) ==
  [kind |-> k, stage |-> st, src |-> src, dest |-> dest]

(* Why a program ends: the input is over, q_push met a full queue, an      *)
(* eviction found no tail, or a modulus by a ring of size 0.               *)
Reasons == {"end of input", "queue full", "no tail", "empty ring"}

OpType ==
  {Idle} \union {Halted(w) : w \in Reasons}
    \union [kind : {"get"}, src : Servers, doc : Docs]
    \union [kind : {"add", "remove"}, stage : {"solve", "move", "free"},
            src : Servers, dest : Servers]

TypeOK ==
  /\ ServerTypeOK
  /\ ring \subseteq Servers
  /\ op \in OpType
  /\ reply \in ReplyType

Init ==
  /\ db = [s \in Servers |-> NoDocs]
  /\ cache = [s \in Servers |-> EmptyCache(0)]
  /\ queue = [s \in Servers |-> << >>]
  /\ ring = {}
  /\ op = Idle
  /\ reply = NoReply

-----------------------------------------------------------------------------
(* Requests, taken when the previous one is done.                          *)

(* EDIT: forwarded to the owner, which only queues it. *)
Edit(d, c) ==
  /\ op = Idle
  /\ \E s \in ring : IsOwner(ring, s, d) /\ Enqueue(s, d, c)
  /\ reply' = Reply("queued", d, c)
  /\ UNCHANGED <<ring, op>>

(* EDIT when the owner's queue is full: exit(-1). *)
EditOverflows(d) ==
  /\ op = Idle
  /\ \E s \in ring : IsOwner(ring, s, d) /\ QueueIsFull(s)
  /\ op' = Halted("queue full")
  /\ UNCHANGED <<serverVars, ring, reply>>

(* GET: forwarded to the owner, which executes its queue before answering. *)
Get(d) ==
  /\ op = Idle
  /\ \E s \in ring : IsOwner(ring, s, d) /\ op' = Getting(s, d)
  /\ UNCHANGED <<serverVars, ring, reply>>

(* EDIT or GET when there is no server. *)
Refuse(d) ==
  /\ op = Idle
  /\ ring = {}
  /\ reply' = Reply("refused", d, None)
  /\ UNCHANGED <<serverVars, ring, op>>

(* ADD_SERVER of an id that is not in use: the server enters the array and *)
(* the one after it hands over documents, unless it is alone.              *)
AddServer(s, n) ==
  /\ op = Idle
  /\ s \notin ring
  /\ ResetServer(s, n)
  /\ ring' = ring \union {s}
  /\ \E src \in ring' :
       /\ IsNext(ring', s, src)
       /\ op' = IF src = s THEN Idle ELSE Transfer("add", "solve", src, s)
  /\ UNCHANGED reply

(* REMOVE_SERVER: the documents go to the server after it. An id that is   *)
(* not in the ring is looked up at index -1, which al_get reads as the     *)
(* last element. The only server has nobody after it: transfer_files       *)
(* returns at once.                                                        *)
RemoveServer(id) ==
  /\ op = Idle
  /\ \E src, dest \in ring :
       /\ IF id \in ring THEN src = id ELSE IsLast(ring, src)
       /\ IsNext(ring, src, dest)
       /\ op' = Transfer("remove", IF src = dest THEN "free" ELSE "solve",
                         src, dest)
  /\ UNCHANGED <<serverVars, ring, reply>>

(* REMOVE_SERVER when there is no server: (index + 1) % 0. *)
RemoveFromNone ==
  /\ op = Idle
  /\ ring = {}
  /\ op' = Halted("empty ring")
  /\ UNCHANGED <<serverVars, ring, reply>>

(* The end of the input: free_load_balancer frees every server. *)
Shutdown ==
  /\ op = Idle
  /\ op' = Halted("end of input")
  /\ ring' = {}
  /\ db' = [s \in Servers |-> NoDocs]
  /\ cache' = [s \in Servers |-> EmptyCache(0)]
  /\ queue' = [s \in Servers |-> << >>]
  /\ UNCHANGED reply

-----------------------------------------------------------------------------
(* Steps of the request in progress.                                       *)

(* The server whose queue the request is executing. *)
Solving ==
  \/ op.kind = "get"
  \/ op.kind \in {"add", "remove"} /\ op.stage = "solve"

SolveTask ==
  /\ Solving
  /\ SolveOne(op.src)
  /\ UNCHANGED <<ring, op, reply>>

(* Variant of Answer that answers before the queue is executed. *)
AnswerEarly ==
  /\ op.kind = "get"
  /\ GetDocument(op.src, op.doc)
  /\ reply' = Reply("content", op.doc, Content(op.src, op.doc))
  /\ op' = Idle
  /\ UNCHANGED ring

(* GET once the queue is empty: the answer is printed. *)
Answer ==
  /\ op.kind = "get"
  /\ queue[op.src] = << >>
  /\ GetDocument(op.src, op.doc)
  /\ reply' = Reply("content", op.doc, Content(op.src, op.doc))
  /\ op' = Idle
  /\ UNCHANGED ring

(* A document put into a cache of capacity 0: a NULL dereference. *)
Crash ==
  /\ \/ Solving /\ SolveCrashes(op.src)
     \/ /\ op.kind = "get"
        /\ queue[op.src] = << >>
        /\ GetCrashes(op.src, op.doc)
  /\ op' = Halted("no tail")
  /\ UNCHANGED <<serverVars, ring, reply>>

(* Variant of StartMoving that leaves the queue for later. *)
StartMovingAtOnce ==
  /\ op.kind \in {"add", "remove"}
  /\ op.stage = "solve"
  /\ op' = [op EXCEPT !.stage = "move"]
  /\ UNCHANGED <<serverVars, ring, reply>>

(* transfer_files is done with the source's queue. *)
StartMoving ==
  /\ op.kind \in {"add", "remove"}
  /\ op.stage = "solve"
  /\ queue[op.src] = << >>
  /\ op' = [op EXCEPT !.stage = "move"]
  /\ UNCHANGED <<serverVars, ring, reply>>

(* The documents still to be moved: on a removal all of them (force_move). *)
ToMove ==
  {d \in Docs : /\ db[op.src][d] # None
                /\ op.kind = "remove" \/ ShouldMove(op.src, op.dest, d)}

MoveOne(d) ==
  /\ op.kind \in {"add", "remove"}
  /\ op.stage = "move"
  /\ d \in ToMove
  /\ MoveDocument(op.src, op.dest, d)
  /\ UNCHANGED <<ring, op, reply>>

FinishAdd ==
  /\ op.kind = "add"
  /\ op.stage = "move"
  /\ ToMove = {}
  /\ op' = Idle
  /\ UNCHANGED <<serverVars, ring, reply>>

(* al_erase and free_server, after transfer_files. *)
FinishRemove ==
  /\ op.kind = "remove"
  /\ \/ op.stage = "free"
     \/ op.stage = "move" /\ ToMove = {}
  /\ ring' = ring \ {op.src}
  /\ FreeServer(op.src)
  /\ op' = Idle
  /\ UNCHANGED reply

(* The program has exited. *)
Stopped == op.kind = "halted" /\ UNCHANGED vars

Request ==
  \/ \E d \in Docs, c \in Contents : Edit(d, c)
  \/ \E d \in Docs : EditOverflows(d) \/ Get(d) \/ Refuse(d)
  \/ \E s \in Servers, n \in CacheSizes : AddServer(s, n)
  \/ \E s \in Servers : RemoveServer(s)
  \/ RemoveFromNone
  \/ Shutdown

Progress ==
  \/ SolveTask \/ Answer \/ Crash \/ StartMoving
  \/ \E d \in Docs : MoveOne(d)
  \/ FinishAdd \/ FinishRemove

Next == Request \/ Progress \/ Stopped

(* A request in progress is one thread of straight-line code and finite    *)
(* loops: it is never blocked. Nothing makes another request arrive.       *)
Spec == Init /\ [][Next]_vars /\ WF_vars(Progress)

-----------------------------------------------------------------------------
(* Properties.                                                             *)

(* The hash of d is no server's hash: see Untied. *)
Clear(d) == Untied(Servers, d)

(* No transfer has moved anything since the request was taken. *)
AtRest ==
  \/ op.kind \in {"idle", "get"}
  \/ op.kind \in {"add", "remove"} /\ op.stage # "move"

(* The ring documents are placed for: a server that is joining answers for *)
(* nothing until the transfer to it starts.                                *)
Members ==
  IF op.kind = "add" /\ op.stage = "solve" THEN ring \ {op.dest} ELSE ring

(* Every stored document is on the server to which GET forwards it, both   *)
(* when edits are applied late by solve_queue and after any sequence of    *)
(* joins and removals (transfer_files). Without Clear this is false: see   *)
(* FindsTheDocument.                                                       *)
Placement ==
  AtRest => \A s \in Servers, d \in Docs :
              Clear(d) /\ db[s][d] # None => IsOwner(Members, s, d)

(* Every edit that waits in a queue waits at the server to which a GET of  *)
(* the document is forwarded: server_handle_request drains that queue      *)
(* only, so an edit waiting anywhere else would be overtaken by the GET.   *)
QueuedAtOwner ==
  AtRest => \A s \in Servers : \A i \in DOMAIN queue[s] :
              IsOwner(Members, s, queue[s][i].doc)

(* No document is stored on two servers, not even half way through a       *)
(* transfer: the copy left behind would come back with the next one.       *)
SingleCopy ==
  \A s, t \in Servers, d \in Docs :
    Clear(d) /\ db[s][d] # None /\ db[t][d] # None => s = t

(* A cached content is the database's content of the same server:          *)
(* server_get_document answers from the cache without looking at local_db, *)
(* and a transfer writes the destination's local_db only.                  *)
CacheCoherent ==
  \A s \in Servers, d \in Docs :
    Clear(d) /\ Cached(cache[s], d) => cache[s].val[d] = db[s][d]

(* Every cache keeps its list and map in step and within its capacity,     *)
(* through every promotion, eviction and removal a transfer makes.         *)
CachesShaped == \A s \in Servers : CacheShape(cache[s])

(* A server that is removed has executed all the tasks in its queue before *)
(* its documents move and it is freed (load_balancer.h:49-50), except one: *)
(* transfer_files returns before solve_queue when the only server is its   *)
(* own destination. Edits that clients saw acknowledged are dropped, but   *)
(* never while a server remains that would answer for their documents.     *)
ExecutesTasksOfRemoved ==
  op.kind = "remove" /\ op.stage \in {"move", "free"} =>
    queue[op.src] = << >> \/ ring = {op.src}

Store == INSTANCE DocStore WITH
  store <- [d \in Docs |-> Latest(d)],
  serving <- ring # {}

(* The cluster behaves as one document store: a GET prints the content of  *)
(* the last EDIT of the document, however the edits were queued, cached    *)
(* and moved; documents are lost only when the last server is removed.     *)
ActsAsOneStore == Store!Spec

(* A request in progress ends: its loops over a queue and over the buckets *)
(* of the source's database run out, unless the program stops.             *)
RequestsEnd == (op.kind # "idle") ~> (op.kind \in {"idle", "halted"})

-----------------------------------------------------------------------------
(* What a header of the program says, and the code does not do.            *)

(* load_balancer.h:63, on a request: the load balancer finds the server    *)
(* which should handle it. A GET of a stored document is forwarded to the  *)
(* server that has it. A document whose hash is the one of a server that   *)
(* joins is routed to it and not transferred to it.                        *)
FindsTheDocument ==
  op.kind = "get" => \A s \in Servers : db[s][op.doc] # None => s = op.src
=============================================================================
