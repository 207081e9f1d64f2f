--------------------------- MODULE VnodeBalancer ---------------------------
(***************************************************************************)
(* The load balancer with virtual nodes (ENABLE_VNODES). The three labels  *)
(* of a server share its database, cache and queue: the fields of its      *)
(* three server structures point to the same objects. ADD_SERVER inserts   *)
(* the labels one after the other, each with a transfer of its own;        *)
(* REMOVE_SERVER moves everything at once and erases the three.            *)
(***************************************************************************)
EXTENDS Server, VnodeRing

CONSTANT CacheSizes   \* the cache sizes ADD_SERVER is given

ASSUME CacheSizesAssumption == CacheSizes \subseteq Nat

Labels == Servers \X Replicas

\* hash_uint maps distinct labels to distinct hashes, as for ids.
ASSUME HashAssumption ==
  /\ LabelHash \in [Labels -> Nat]
  /\ \A x, y \in Labels : LabelHash[x] = LabelHash[y] => x = y
  /\ DocHash \in [Docs -> Nat]

VARIABLES
  ring,    (* the labels in the servers array                              *)
  op,      (* the request being executed, or why the program stopped       *)
  reply    (* what the last EDIT or GET printed for its client             *)

vars == <<serverVars, ring, op, reply>>

-----------------------------------------------------------------------------

Idle == [kind |-> "idle"]
Halted(why) == [kind |-> "halted", why |-> why]
Getting(x, d) == [kind |-> "get", src |-> x, doc |-> d]
Joining(x) == [kind |-> "join", dest |-> x]
Adding(st, src, dest) ==
  [kind |-> "add", stage |-> st, src |-> src, dest |-> dest]
Removing(st, src, dests, id) ==
  [kind |-> "remove", stage |-> st, src |-> src, dests |-> dests, asked |-> id]

(* Why the program ends, or is followed no further: the input is over,     *)
(* q_push met a full queue, an eviction found no tail, the ring is empty,  *)
(* pick_dest found no other server, or a removal left a server in pieces.  *)
Reasons == {"end of input", "queue full", "no tail", "empty ring",
            "no destination", "torn ring"}

OpType ==
  {Idle} \union {Halted(w) : w \in Reasons}
    \union [kind : {"get"}, src : Labels, doc : Docs]
    \union [kind : {"join"}, dest : Labels]
    \union [kind : {"add"}, stage : {"solve", "move"},
            src : Labels, dest : Labels]
    \union [kind : {"remove"}, stage : {"solve", "move"},
            src : Labels, dests : [Replicas -> Labels], asked : Servers]

TypeOK ==
  /\ ServerTypeOK
  /\ ring \subseteq Labels
  /\ op \in OpType
  /\ reply \in ReplyType

Init ==
  /\ db = [s \in Servers |-> NoDocs]
  /\ cache = [s \in Servers |-> EmptyCache(0)]
  /\ queue = [s \in Servers |-> << >>]
  /\ ring = {}
  /\ op = Idle
  /\ reply = NoReply

-----------------------------------------------------------------------------
(* Requests, taken when the previous one is done.                          *)

(* EDIT: forwarded to the label that owns the document. *)
Edit(d, c) ==
  /\ op = Idle
  /\ \E x \in ring : IsOwner(ring, x, d) /\ Enqueue(ServerOf(x), d, c)
  /\ reply' = Reply("queued", d, c)
  /\ UNCHANGED <<ring, op>>

EditOverflows(d) ==
  /\ op = Idle
  /\ \E x \in ring : IsOwner(ring, x, d) /\ QueueIsFull(ServerOf(x))
  /\ op' = Halted("queue full")
  /\ UNCHANGED <<serverVars, ring, reply>>

Get(d) ==
  /\ op = Idle
  /\ \E x \in ring : IsOwner(ring, x, d) /\ op' = Getting(x, d)
  /\ UNCHANGED <<serverVars, ring, reply>>

(* EDIT or GET when there is no server. *)
Refuse(d) ==
  /\ op = Idle
  /\ ring = {}
  /\ reply' = Reply("refused", d, None)
  /\ UNCHANGED <<serverVars, ring, op>>

(* ADD_SERVER of an id that is not in use: init_server, for label 0. *)
AddServer(s, n) ==
  /\ op = Idle
  /\ LabelsOf(s) \intersect ring = {}
  /\ ResetServer(s, n)
  /\ op' = Joining(<<s, 0>>)
  /\ UNCHANGED <<ring, reply>>

(* Where the documents of label i of server s may go when s is removed. *)
IsDestination(s, i, y) == y \in ring /\ IsNext(ring, Found(ring, <<s, i>>), y)

(* REMOVE_SERVER: there are three destinations, the labels after those of  *)
(* the server. An unknown id stands for the last label three times.        *)
RemoveServer(id) ==
  /\ op = Idle
  /\ ring # {}
  /\ \E dests \in [Replicas -> {y \in ring : \E i \in Replicas : IsDestination(id, i, y)}] :
       /\ \A i \in Replicas : IsDestination(id, i, dests[i])
       /\ op' = Removing("solve", Found(ring, <<id, 0>>), dests, id)
  /\ UNCHANGED <<serverVars, ring, reply>>

(* REMOVE_SERVER when there is no server: al_get reads before the array,   *)
(* and (index + 1) % 0 follows.                                            *)
RemoveFromNone ==
  /\ op = Idle
  /\ ring = {}
  /\ op' = Halted("empty ring")
  /\ UNCHANGED <<serverVars, ring, reply>>

(* The end of the input: every label is freed, label 0 with what it shares.*)
Shutdown ==
  /\ op = Idle
  /\ op' = Halted("end of input")
  /\ ring' = {}
  /\ db' = [s \in Servers |-> NoDocs]
  /\ cache' = [s \in Servers |-> EmptyCache(0)]
  /\ queue' = [s \in Servers |-> << >>]
  /\ UNCHANGED reply

-----------------------------------------------------------------------------
(* Steps of the request in progress.                                       *)

(* Variant of Joined that starts the same join again. *)
JoinedAgain(x) == Joining(x)

(* What follows when a label has joined and has its documents. *)
Joined(x) == IF x[2] = 2 THEN Idle ELSE Joining(<<ServerOf(x), x[2] + 1>>)

(* al_insert_ordered: the label enters the array. The label after it hands *)
(* over documents, unless it is one of the same server.                    *)
JoinLabel ==
  /\ op.kind = "join"
  /\ ring' = ring \union {op.dest}
  /\ \E src \in ring' :
       /\ IsNext(ring', op.dest, src)
       /\ op' = IF ServerOf(src) = ServerOf(op.dest)
                  THEN Joined(op.dest)
                  ELSE Adding("solve", src, op.dest)
  /\ UNCHANGED <<serverVars, reply>>

Transferring(st) == op.kind \in {"add", "remove"} /\ op.stage = st

(* The request executes the queue of its source's server. *)
Solving == op.kind = "get" \/ Transferring("solve")

SolveTask ==
  /\ Solving
  /\ SolveOne(ServerOf(op.src))
  /\ UNCHANGED <<ring, op, reply>>

Answer ==
  /\ op.kind = "get"
  /\ queue[ServerOf(op.src)] = << >>
  /\ GetDocument(ServerOf(op.src), op.doc)
  /\ reply' = Reply("content", op.doc, Content(ServerOf(op.src), op.doc))
  /\ op' = Idle
  /\ UNCHANGED ring

(* A document put into a cache of capacity 0: a NULL dereference. *)
Crash ==
  /\ \/ Solving /\ SolveCrashes(ServerOf(op.src))
     \/ /\ op.kind = "get"
        /\ queue[ServerOf(op.src)] = << >>
        /\ GetCrashes(ServerOf(op.src), op.doc)
  /\ op' = Halted("no tail")
  /\ UNCHANGED <<serverVars, ring, reply>>

(* Variant of StartMoving that leaves the queue for later. *)
StartMovingAtOnce ==
  /\ Transferring("solve")
  /\ op' = [op EXCEPT !.stage = "move"]
  /\ UNCHANGED <<serverVars, ring, reply>>

(* solve_queue is done. *)
StartMoving ==
  /\ Transferring("solve")
  /\ queue[ServerOf(op.src)] = << >>
  /\ op' = [op EXCEPT !.stage = "move"]
  /\ UNCHANGED <<serverVars, ring, reply>>

Stored(s) == {d \in Docs : db[s][d] # None}

(* Variant of Leaves that does not ask which label has the document, as    *)
(* transfer_files does.                                                    *)
LeavesFromAny(src, dest, d) == ShouldMove(src, dest, d)

(* transfer_files_multiple_srcs moves document d to the label that joins:  *)
(* should_move says so and the source is the label that has d.             *)
Leaves(src, dest, d) ==
  /\ ShouldMove(src, dest, d)
  /\ PickSrc(d, [i \in Replicas |-> Found(ring, <<ServerOf(src), i>>)]) = src

(* The label a document of the source goes to, if it goes. *)
Goes(d, dest) ==
  \/ /\ op.kind = "add"
     /\ Leaves(op.src, op.dest, d)
     /\ dest = op.dest
  \/ /\ op.kind = "remove"
     /\ dest = PickDest(d, ServerOf(op.src), op.dests)

ToMove == {d \in Stored(ServerOf(op.src)) : \E x \in ring \union {Null} : Goes(d, x)}

(* One document of the walk over the source's buckets. *)
MoveOne(d) ==
  /\ Transferring("move")
  /\ d \in ToMove
  /\ \E x \in ring :
       /\ Goes(d, x)
       /\ MoveDocument(ServerOf(op.src), ServerOf(x), d)
  /\ UNCHANGED <<ring, op, reply>>

(* pick_dest without a destination: exit(-1). *)
NoDestination ==
  /\ Transferring("move")
  /\ \E d \in ToMove : Goes(d, Null)
  /\ op' = Halted("no destination")
  /\ UNCHANGED <<serverVars, ring, reply>>

FinishJoin ==
  /\ op.kind = "add"
  /\ Transferring("move")
  /\ ToMove = {}
  /\ op' = Joined(op.dest)
  /\ UNCHANGED <<serverVars, ring, reply>>

(* The three labels that go: each is looked up in what is left of the      *)
(* array. For an id that is on the ring they are the server's.             *)
Erased(id) ==
  LET x == Found(ring, <<id, 0>>)
      y == Found(ring \ {x}, <<id, 1>>)
      z == Found(ring \ {x, y}, <<id, 2>>)
  IN  {x, y, z}

(* al_erase, three times, and free_server: no label points to the shared   *)
(* objects any more. With an unknown id the three may be of several        *)
(* servers, of which one may be freed while its other labels stay in the   *)
(* array: the model follows the program to there and no further.           *)
FinishRemove ==
  /\ op.kind = "remove"
  /\ Transferring("move")
  /\ ToMove = {}
  /\ ring' = ring \ Erased(op.asked)
  /\ \/ /\ Whole(ring')
        /\ FreeServer(ServerOf(op.src))
        /\ op' = Idle
     \/ /\ ~Whole(ring')
        /\ op' = Halted("torn ring")
        /\ UNCHANGED serverVars
  /\ UNCHANGED reply

(* The program has exited. *)
Stopped == op.kind = "halted" /\ UNCHANGED vars

Request ==
  \/ \E d \in Docs, c \in Contents : Edit(d, c)
  \/ \E d \in Docs : EditOverflows(d) \/ Get(d) \/ Refuse(d)
  \/ \E s \in Servers, n \in CacheSizes : AddServer(s, n)
  \/ \E s \in Servers : RemoveServer(s)
  \/ RemoveFromNone
  \/ Shutdown

Progress ==
  \/ JoinLabel \/ SolveTask \/ Answer \/ Crash \/ StartMoving
  \/ \E d \in Docs : MoveOne(d)
  \/ NoDestination \/ FinishJoin \/ FinishRemove

Next == Request \/ Progress \/ Stopped

(* One thread of straight-line code and finite loops: see LoadBalancer. *)
Spec == Init /\ [][Next]_vars /\ WF_vars(Progress)

-----------------------------------------------------------------------------
(* Properties.                                                             *)

(* The hash of d is the hash of no label: see Untied. *)
Clear(d) == Untied(Labels, d)

(* No transfer has moved anything since the last label joined. *)
AtRest == op.kind \in {"idle", "get", "join"} \/ Transferring("solve")

(* The ring documents are placed for: a label that is joining answers for  *)
(* nothing until the transfer to it starts.                                *)
Members ==
  IF op.kind = "add" /\ op.stage = "solve" THEN ring \ {op.dest} ELSE ring

(* Every stored document is on the server one of whose labels owns it,     *)
(* also between the three joins of an ADD_SERVER, and after the removal    *)
(* has spread a server's documents over up to three others.                *)
Placement ==
  AtRest => \A s \in Servers, d \in Docs :
              Clear(d) /\ db[s][d] # None => Serves(Members, s, d)

(* Every waiting edit waits at a server one of whose labels owns the       *)
(* document: the labels share one queue, so a GET through any of them      *)
(* drains it.                                                              *)
QueuedAtOwner ==
  AtRest => \A s \in Servers : \A i \in DOMAIN queue[s] :
              Serves(Members, s, queue[s][i].doc)

(* No document is stored on two servers, at any step of any transfer. *)
SingleCopy ==
  \A s, t \in Servers, d \in Docs :
    Clear(d) /\ db[s][d] # None /\ db[t][d] # None => s = t

(* A cached content is the stored content of the same server. *)
CacheCoherent ==
  \A s \in Servers, d \in Docs :
    Clear(d) /\ Cached(cache[s], d) => cache[s].val[d] = db[s][d]

(* The exit of pick_dest, in the middle of a removal, happens to the only  *)
(* server alone: between the three destinations of a server on the ring    *)
(* there is one of another server whenever there is another server.        *)
NoDestinationOnlyAlone ==
  [][op.kind = "remove" /\ op' = Halted("no destination")
       /\ LabelsOf(op.asked) \subseteq ring
         => \A x \in ring : ServerOf(x) = op.asked]_vars

Store == INSTANCE DocStore WITH
  store <- [d \in Docs |-> Latest(d)],
  serving <- ring # {}

(* With virtual nodes too, the cluster behaves as one document store. *)
ActsAsOneStore == Store!Spec

(* A request in progress ends, with its three joins and their transfers.  *)
RequestsEnd == (op.kind # "idle") ~> (op.kind \in {"idle", "halted"})

(* load_balancer.h:46, on a removal: the load balancer removes the server  *)
(* (and its replicas). With an unknown id it removes three labels that     *)
(* need not be of one server. Violated.                                    *)
RemovesServerAndReplicas ==
  op.kind \in {"idle", "halted"} => Whole(ring)
=============================================================================
