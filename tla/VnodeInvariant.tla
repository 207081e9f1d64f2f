--------------------------- MODULE VnodeInvariant ---------------------------
(***************************************************************************)
(* The inductive invariant of the load balancer with virtual nodes. It     *)
(* follows the one of LoadBalancerInvariant, with a server's three labels  *)
(* in place of the server: while they join, one by one, the server is part *)
(* of the ring with those that have; they leave together.                  *)
(***************************************************************************)
EXTENDS VnodeBalancer

Running == op.kind # "halted"

(* The labels of the servers that are joining; the others have all three.  *)
(* Label i is the next to join, or the last that joined.                   *)
Arriving == op.kind \in {"join", "add"}

Complete(s) == LabelsOf(s) \subseteq ring

Absent(s) == LabelsOf(s) \intersect ring = {}

ServersWhole ==
  \A s \in Servers :
    IF Arriving /\ s = ServerOf(op.dest)
      THEN LabelsOf(s) \intersect ring =
             {<<s, i>> : i \in {j \in Replicas : \/ j < op.dest[2]
                                                 \/ j = op.dest[2] /\ op.kind = "add"}}
      ELSE Complete(s) \/ Absent(s)

(* What the request in progress knows of the ring.                         *)
OpFitsRing ==
  /\ op.kind = "get" => IsOwner(ring, op.src, op.doc)
  /\ op.kind = "add" => /\ IsNext(ring, op.dest, op.src)
                        /\ ServerOf(op.src) # ServerOf(op.dest)
  /\ op.kind = "remove" =>
       /\ ring # {}
       /\ op.src = Found(ring, <<op.asked, 0>>)
       /\ \A i \in Replicas : IsDestination(op.asked, i, op.dests[i])
  /\ Transferring("move") => queue[ServerOf(op.src)] = << >>

(* A removal takes the labels of one server: of the one that was asked for,*)
(* or, for an unknown id, of the one that has the last three.              *)
Clean == op.kind = "remove" => Whole(ring \ Erased(op.asked))

(* The ring for which the documents of server s are placed, while they are *)
(* placed at all: a removal that leaves a server in pieces ends in a halt. *)
Home(s) ==
  IF op.kind = "add" /\ (op.stage = "solve" \/ s = ServerOf(op.src))
    THEN ring \ {op.dest}
  ELSE IF op.kind = "remove" /\ op.stage = "move" /\ s # ServerOf(op.src)
    THEN ring \ LabelsOf(ServerOf(op.src))
  ELSE ring

(* The ring for which edits were queued. *)
QueueHome == IF op.kind = "add" THEN ring \ {op.dest} ELSE ring

DocsAtHome ==
  \A s \in Servers, d \in Docs :
    Clear(d) /\ db[s][d] # None => Serves(Home(s), s, d)

QueuedAtHome ==
  \A s \in Servers : \A i \in DOMAIN queue[s] :
    Serves(QueueHome, s, queue[s][i].doc)

(* A document and the edits waiting for it are on one server. *)
SingleHolder ==
  \A d \in Docs : Clear(d) =>
    \A s, t \in Servers : Holds(s, d) /\ Holds(t, d) => s = t

(* The list and the map of every cache are in step, within its capacity. *)
CachesShaped == \A s \in Servers : CacheShape(cache[s])

(* Every step keeps this, for every set of servers, documents and contents,*)
(* all hashes and sizes: between the three joins of a server, at each      *)
(* iteration of solve_queue and of the two transfers, and when documents   *)
(* go to up to three servers at once.                                      *)
IInv ==
  /\ TypeOK
  /\ IsFiniteSet(ring)
  /\ CachesShaped
  /\ Running => OpFitsRing /\ ServersWhole /\ QueuedAtHome
  /\ Running /\ (Transferring("move") => Clean) => DocsAtHome
  /\ SingleHolder
  /\ CacheCoherent
=============================================================================
