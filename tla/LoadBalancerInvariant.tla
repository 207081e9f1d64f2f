------------------------ MODULE LoadBalancerInvariant ------------------------
(***************************************************************************)
(* The inductive invariant behind Placement, QueuedAtOwner, SingleCopy and *)
(* CacheCoherent. Those speak of the states in which no document is on its *)
(* way; the invariant says where every document is at every step of every  *)
(* request, and what the request being executed knows of the ring.         *)
(***************************************************************************)
EXTENDS LoadBalancer

(* The ring for which the documents of server s are placed. While dest     *)
(* joins, the server after it still has what dest will take, and while src *)
(* leaves, the others may already have what was src's.                     *)
Home(s) ==
  IF op.kind = "add" /\ (op.stage = "solve" \/ s = op.src)
    THEN ring \ {op.dest}
  ELSE IF op.kind = "remove" /\ op.stage = "move" /\ s # op.src
    THEN ring \ {op.src}
  ELSE ring

(* The ring for which edits were queued: no EDIT is taken during a join or *)
(* a removal.                                                              *)
QueueHome == IF op.kind = "add" THEN ring \ {op.dest} ELSE ring

Running == op.kind # "halted"

(* The servers of a request are in the ring, in the order the transfer     *)
(* relies on, and documents move when the source's queue is empty.         *)
OpFitsRing ==
  /\ op.kind = "get" => IsOwner(ring, op.src, op.doc)
  /\ op.kind = "add" =>
       /\ op.stage \in {"solve", "move"}
       /\ op.src # op.dest
       /\ IsNext(ring, op.dest, op.src)
  /\ op.kind = "remove" =>
       /\ op.stage = "free" <=> op.src = op.dest
       /\ IsNext(ring, op.src, op.dest)
  /\ op.kind \in {"add", "remove"} =>
       /\ op.src \in ring
       /\ op.dest \in ring
       /\ op.stage = "move" => queue[op.src] = << >>

(* A server that is not in the ring has nothing. *)
OffRingEmpty ==
  \A s \in Servers \ ring : db[s] = NoDocs /\ queue[s] = << >>

DocsAtHome ==
  \A s \in Servers, d \in Docs :
    Clear(d) /\ db[s][d] # None => IsOwner(Home(s), s, d)

QueuedAtHome ==
  \A s \in Servers : \A i \in DOMAIN queue[s] :
    IsOwner(QueueHome, s, queue[s][i].doc)

(* A document and the edits waiting for it are on one server. An edit that *)
(* waited at the destination of a transfer, say, would be newer than the   *)
(* copy that arrives, or older.                                            *)
SingleHolder ==
  \A d \in Docs : Clear(d) =>
    \A s, t \in Servers : Holds(s, d) /\ Holds(t, d) => s = t

(* Every step keeps this, whatever the number of servers, documents and    *)
(* contents and whatever the hashes, the queue size and the cache sizes:   *)
(* between two requests and at each iteration of solve_queue and of        *)
(* transfer_files, a document is at the one server that answers for it and *)
(* in no other cache.                                                      *)
IInv ==
  /\ TypeOK
  /\ IsFiniteSet(ring)
  /\ CachesShaped
  /\ Running => OpFitsRing /\ OffRingEmpty /\ DocsAtHome /\ QueuedAtHome
  /\ SingleHolder
  /\ CacheCoherent
=============================================================================
