------------------------ MODULE VnodeBalancerProofs ------------------------
(***************************************************************************)
(* Type correctness of the load balancer with virtual nodes, the inductive *)
(* invariant IInv, and the refinement of the document store, for every set *)
(* of servers, documents and contents, every size and all hashes.          *)
(***************************************************************************)
EXTENDS VnodeInvariant, ClusterProofs

(* Labels and the operations in progress.                                  *)

LEMMA LabelIs ==
  /\ \A x \in Labels : /\ ServerOf(x) \in Servers /\ x[2] \in Replicas
                       /\ x = <<ServerOf(x), x[2]>>
                       /\ x # Null
  /\ \A s \in Servers, i \in Replicas :
       <<s, i>> \in Labels /\ ServerOf(<<s, i>>) = s /\ <<s, i>>[2] = i
BY DEF Labels, ServerOf, Null

LEMMA LabelOfServer ==
  ASSUME NEW s \in Servers
  PROVE  /\ LabelsOf(s) = {x \in Labels : ServerOf(x) = s}
         /\ \A x \in Labels : x \in LabelsOf(s) <=> ServerOf(x) = s
<1>1. \A x \in LabelsOf(s) : x \in Labels /\ ServerOf(x) = s
  BY LabelIs DEF LabelsOf
<1>2. \A x \in Labels : ServerOf(x) = s => x \in LabelsOf(s)
  BY LabelIs DEF LabelsOf
<1> QED BY <1>1, <1>2

LEMMA Idling ==
  /\ Idle \in OpType
  /\ Idle.kind = "idle"
BY DEF Idle, OpType

LEMMA Halting ==
  ASSUME NEW w \in Reasons
  PROVE  /\ Halted(w) \in OpType
         /\ Halted(w).kind = "halted" /\ Halted(w).why = w
BY DEF Halted, OpType

LEMMA GettingType ==
  ASSUME NEW x \in Labels, NEW d \in Docs
  PROVE  /\ Getting(x, d) \in OpType
         /\ Getting(x, d).kind = "get"
         /\ Getting(x, d).src = x
         /\ Getting(x, d).doc = d
BY DEF Getting, OpType

LEMMA JoiningType ==
  ASSUME NEW x \in Labels
  PROVE  /\ Joining(x) \in OpType
         /\ Joining(x).kind = "join"
         /\ Joining(x).dest = x
BY DEF Joining, OpType

LEMMA AddingType ==
  ASSUME NEW st \in {"solve", "move"}, NEW x \in Labels, NEW y \in Labels
  PROVE  LET o == Adding(st, x, y)
         IN  /\ o \in OpType
             /\ o.kind = "add" /\ o.stage = st /\ o.src = x /\ o.dest = y
BY DEF Adding, OpType

LEMMA RemovingType ==
  ASSUME NEW st \in {"solve", "move"}, NEW x \in Labels,
         NEW dests \in [Replicas -> Labels], NEW id \in Servers
  PROVE  LET o == Removing(st, x, dests, id)
         IN  /\ o \in OpType
             /\ o.kind = "remove" /\ o.stage = st /\ o.src = x
             /\ o.dests = dests /\ o.asked = id
BY DEF Removing, OpType

(* What the type of op says of its fields. *)
LEMMA OpCases ==
  ASSUME op \in OpType
  PROVE  /\ op.kind \in {"idle", "get", "join", "add", "remove", "halted"}
         /\ op.kind = "get" => op.src \in Labels /\ op.doc \in Docs
         /\ op.kind = "join" => op.dest \in Labels
         /\ op.kind = "add" =>
              /\ op.stage \in {"solve", "move"}
              /\ op.src \in Labels /\ op.dest \in Labels
         /\ op.kind = "remove" =>
              /\ op.stage \in {"solve", "move"}
              /\ op.src \in Labels /\ op.asked \in Servers
              /\ op.dests \in [Replicas -> Labels]
<1>1. CASE op = Idle
  BY <1>1 DEF Idle
<1>2. CASE \E w \in Reasons : op = Halted(w)
  BY <1>2 DEF Halted
<1>3. CASE op \in [kind : {"get"}, src : Labels, doc : Docs]
  BY <1>3
<1>4. CASE op \in [kind : {"join"}, dest : Labels]
  BY <1>4
<1>5. CASE op \in [kind : {"add"}, stage : {"solve", "move"},
                   src : Labels, dest : Labels]
  BY <1>5
<1>6. CASE op \in [kind : {"remove"}, stage : {"solve", "move"},
                   src : Labels, dests : [Replicas -> Labels], asked : Servers]
  BY <1>6
<1> QED BY <1>1, <1>2, <1>3, <1>4, <1>5, <1>6 DEF OpType

(* The same operation, moving. *)
LEMMA MovingType ==
  ASSUME op \in OpType, op.kind \in {"add", "remove"}
  PROVE  LET m == [op EXCEPT !.stage = "move"]
         IN  /\ m \in OpType
             /\ m.kind = op.kind /\ m.stage = "move" /\ m.src = op.src
             /\ op.kind = "add" => m.dest = op.dest
             /\ op.kind = "remove" => m.dests = op.dests /\ m.asked = op.asked
<1>1. CASE op = Idle
  BY <1>1 DEF Idle
<1>2. CASE \E w \in Reasons : op = Halted(w)
  BY <1>2 DEF Halted
<1>3. CASE op \in [kind : {"get"}, src : Labels, doc : Docs]
  BY <1>3
<1>4. CASE op \in [kind : {"join"}, dest : Labels]
  BY <1>4
<1>5. CASE op \in [kind : {"add"}, stage : {"solve", "move"},
                   src : Labels, dest : Labels]
  <2>1. [op EXCEPT !.stage = "move"]
          \in [kind : {"add"}, stage : {"solve", "move"},
               src : Labels, dest : Labels]
    BY <1>5
  <2> QED BY <1>5, <2>1 DEF OpType
<1>6. CASE op \in [kind : {"remove"}, stage : {"solve", "move"},
                   src : Labels, dests : [Replicas -> Labels], asked : Servers]
  <2>1. [op EXCEPT !.stage = "move"]
          \in [kind : {"remove"}, stage : {"solve", "move"},
               src : Labels, dests : [Replicas -> Labels], asked : Servers]
    BY <1>6
  <2> QED BY <1>6, <2>1 DEF OpType
<1> QED BY <1>1, <1>2, <1>3, <1>4, <1>5, <1>6 DEF OpType

(* What follows the join of a label. *)
LEMMA JoinedType ==
  ASSUME NEW x \in Labels
  PROVE  /\ Joined(x) \in OpType
         /\ Joined(x).kind \in {"idle", "join"}
         /\ Joined(x).kind = "idle" => x[2] = 2
         /\ Joined(x).kind = "join" =>
              /\ x[2] # 2
              /\ Joined(x).dest = <<ServerOf(x), x[2] + 1>>
<1>1. CASE x[2] = 2
  BY <1>1, Idling DEF Joined
<1>2. CASE x[2] # 2
  <2>1. x[2] + 1 \in Replicas
    BY <1>2, LabelIs, ReplicasAre
  <2>2. <<ServerOf(x), x[2] + 1>> \in Labels
    BY <2>1, LabelIs
  <2> QED BY <1>2, <2>2, JoiningType DEF Joined
<1> QED BY <1>1, <1>2

LEMMA ReplyTypes ==
  ASSUME NEW d \in Docs, NEW c \in MaybeContent,
         NEW k \in {"queued", "refused", "content"}
  PROVE  Reply(k, d, c) \in ReplyType
BY DEF Reply, ReplyType, MaybeContent

-----------------------------------------------------------------------------
(* The ring of the model is one of those ClusterProofs is about.           *)

LEMMA RingIsRing ==
  ASSUME NEW R, R \subseteq Labels
  PROVE  IsRing(R) /\ Null \notin R
BY HashAssumption, LabelIs DEF IsRing

LEMMA DocHashType == \A d \in Docs : DocHash[d] \in Nat
BY HashAssumption

LEMMA FoundIsThere ==
  ASSUME NEW R, R \subseteq Labels, IsFiniteSet(R), R # {}, NEW y
  PROVE  /\ Found(R, y) \in R
         /\ y \in R => Found(R, y) = y
         /\ y \notin R => IsLast(R, Found(R, y))
<1>1. \E x \in R : IsLast(R, x)
  BY RingIsRing, LastExists
<1> QED BY <1>1 DEF Found

(* One server answers for a document. *)
LEMMA ServesUnique ==
  ASSUME NEW R, R \subseteq Labels, NEW d \in Docs,
         NEW s, NEW t, Serves(R, s, d), Serves(R, t, d)
  PROVE  s = t
BY RingIsRing, DocHashType, OwnerUnique DEF Serves

(* A label that joins takes documents from the one after it only: another  *)
(* server's are untouched, and so are its own server's.                    *)
LEMMA JoinKeepsServes ==
  ASSUME NEW R, R \subseteq Labels, NEW z \in R, NEW y, IsNext(R, z, y),
         NEW d \in Docs, NEW s, Serves(R \ {z}, s, d),
         s = ServerOf(y) => ServerOf(z) = ServerOf(y)
  PROVE  Serves(R, s, d)
<1>1. IsRing(R) /\ DocHash[d] \in Nat
  BY RingIsRing, DocHashType
<1>2. PICK x \in R \ {z} : ServerOf(x) = s /\ IsOwner(R \ {z}, x, d)
  BY DEF Serves
<1>3. CASE x # y
  BY <1>1, <1>2, <1>3, JoinSparesOthers DEF Serves
<1>4. CASE x = y
  <2>1. IsOwner(R, z, d) \/ IsOwner(R, y, d)
    BY <1>1, <1>2, <1>4, JoinGivesToOne
  <2> QED BY <1>2, <1>4, <2>1 DEF Serves
<1> QED BY <1>3, <1>4

(* Labels of other servers may leave. *)
LEMMA LeaveKeepsServes ==
  ASSUME NEW R, R \subseteq Labels, NEW t \in Servers,
         NEW d \in Docs, NEW s, s # t, Serves(R, s, d)
  PROVE  Serves(R \ LabelsOf(t), s, d)
<1>1. PICK x \in R : ServerOf(x) = s /\ IsOwner(R, x, d)
  BY DEF Serves
<1>2. x \in R \ LabelsOf(t)
  BY <1>1, LabelOfServer
<1>3. IsOwner(R \ LabelsOf(t), x, d)
  BY <1>1, <1>2, OwnerRestricts
<1> QED BY <1>1, <1>2, <1>3 DEF Serves

-----------------------------------------------------------------------------
(* The invariant, in parts.                                                *)

Placed == Running /\ (Transferring("move") => Clean)

(* IInv, with the part about servers as ClusterProofs states it. *)
LEMMA Parts ==
  IInv <=> /\ ServersOK
           /\ ring \subseteq Labels /\ op \in OpType /\ reply \in ReplyType
           /\ IsFiniteSet(ring)
           /\ Running => OpFitsRing /\ ServersWhole /\ QueuedAtHome
           /\ Placed => DocsAtHome
           /\ SingleHolder
           /\ CacheCoherent
BY DEF IInv, TypeOK, ServersOK, CachesShaped, Placed

LEMMA PartsNext ==
  ASSUME ServersOK', (ring \subseteq Labels)', (op \in OpType)',
         (reply \in ReplyType)', IsFiniteSet(ring)',
         (Running => OpFitsRing /\ ServersWhole /\ QueuedAtHome)',
         (Placed => DocsAtHome)', SingleHolder', CacheCoherent'
  PROVE  IInv'
BY DEF IInv, TypeOK, ServersOK, CachesShaped, Placed

(* A removal does not become clean, or cease to be, while it moves. *)
LEMMA SameClean ==
  ASSUME op' = op, ring' = ring
  PROVE  (Clean' <=> Clean) /\ (Placed' <=> Placed)
<1>1. Erased(op.asked)' = Erased(op.asked)
  BY DEF Erased
<1>2. Clean' <=> Clean
  BY <1>1 DEF Clean
<1>3. (Running' <=> Running) /\ (Transferring("move")' <=> Transferring("move"))
  BY DEF Running, Transferring
<1> QED BY <1>2, <1>3 DEF Placed

(* A step that touches no server keeps what is said of the servers alone. *)
LEMMA SameServers ==
  ASSUME IInv, UNCHANGED serverVars
  PROVE  ServersOK' /\ SingleHolder' /\ CacheCoherent'
<1>1. ServersOK /\ SingleHolder /\ CacheCoherent
  BY Parts
<1>2. db' = db /\ cache' = cache /\ queue' = queue
  BY DEF serverVars
<1> QED BY <1>1, <1>2 DEF ServersOK, ServerTypeOK, SingleHolder, Holds, Waiting,
                       CacheCoherent

(* The program has stopped, or stops. *)
LEMMA HaltKeeps ==
  ASSUME IInv, UNCHANGED <<serverVars, reply>>, ring' \subseteq ring,
         NEW w \in Reasons, op' = Halted(w)
  PROVE  IInv'
<1>1. ServersOK' /\ SingleHolder' /\ CacheCoherent'
  BY SameServers
<1>2. (ring \subseteq Labels)' /\ (reply \in ReplyType)' /\ IsFiniteSet(ring)'
  BY Parts, FS_Subset
<1>3. (op \in OpType)' /\ ~Running'
  BY Halting DEF Running
<1> QED BY <1>1, <1>2, <1>3, PartsNext DEF Placed

(* What waits in a queue is an edit of a document. *)
LEMMA QueuedDocs ==
  ASSUME IInv, NEW x \in Servers, NEW i \in DOMAIN queue[x]
  PROVE  queue[x][i].doc \in Docs
<1>1. queue[x] \in Seq(EditRequest)
  BY Parts DEF ServersOK, ServerTypeOK
<1>2. queue[x][i] \in EditRequest
  BY <1>1, LenProperties, ElementOfSeq
<1> QED BY <1>2 DEF EditRequest

(* Between two transfers a document that is held is held by the server     *)
(* that answers for it.                                                    *)
LEMMA HolderServes ==
  ASSUME IInv, op.kind \in {"idle", "get", "join"},
         NEW d \in Docs, Clear(d), NEW s \in Servers, Holds(s, d)
  PROVE  Serves(ring, s, d)
<1>1. DocsAtHome /\ QueuedAtHome /\ Home(s) = ring /\ QueueHome = ring
  BY Parts DEF Placed, Transferring, Running, Home, QueueHome
<1>2. CASE db[s][d] # None
  BY <1>1, <1>2 DEF DocsAtHome
<1>3. CASE Waiting(s, d) # {}
  BY <1>1, <1>3 DEF QueuedAtHome, Waiting
<1> QED BY <1>2, <1>3 DEF Holds

(* A server is on the ring with all its labels, or with none, unless it is *)
(* joining.                                                                *)
LEMMA WholeOrAbsent ==
  ASSUME IInv, Running, NEW s \in Servers,
         Arriving => s # ServerOf(op.dest)
  PROVE  Complete(s) \/ Absent(s)
BY Parts DEF ServersWhole

LEMMA ServerIsComplete ==
  ASSUME IInv, Running, NEW x \in ring, Arriving => ServerOf(x) # ServerOf(op.dest)
  PROVE  Complete(ServerOf(x))
<1>1. x \in Labels /\ ServerOf(x) \in Servers
  BY Parts, LabelIs
<1>2. x \in LabelsOf(ServerOf(x))
  BY <1>1, LabelOfServer
<1> QED BY <1>1, <1>2, WholeOrAbsent DEF Absent

(* What is known during the transfer to a label that has joined.           *)
LEMMA DuringAdd ==
  ASSUME IInv, op.kind = "add"
  PROVE  /\ op.dest \in ring /\ op.src \in ring /\ op.src # op.dest
         /\ ServerOf(op.src) # ServerOf(op.dest)
         /\ ServerOf(op.src) \in Servers /\ ServerOf(op.dest) \in Servers
         /\ IsNext(ring, op.dest, op.src)
         /\ LabelsOf(ServerOf(op.src)) \subseteq ring \ {op.dest}
<1>1. OpFitsRing /\ ServersWhole /\ op.dest \in Labels /\ op.src \in Labels
  BY Parts, OpCases DEF Running
<1>2. /\ IsNext(ring, op.dest, op.src) /\ op.src \in ring
      /\ ServerOf(op.src) # ServerOf(op.dest)
  BY <1>1 DEF OpFitsRing, IsNext
<1>3. /\ ServerOf(op.dest) \in Servers /\ ServerOf(op.src) \in Servers
      /\ op.dest[2] \in Replicas /\ op.dest = <<ServerOf(op.dest), op.dest[2]>>
  BY <1>1, LabelIs
<1>4. LabelsOf(ServerOf(op.dest)) \intersect ring =
        {<<ServerOf(op.dest), i>> :
           i \in {j \in Replicas : \/ j < op.dest[2]
                                   \/ j = op.dest[2] /\ op.kind = "add"}}
  BY <1>1, <1>3 DEF ServersWhole, Arriving
<1>5. op.dest \in ring
  BY <1>3, <1>4
<1>6. Complete(ServerOf(op.src))
  BY <1>2, ServerIsComplete DEF Running
<1>7. op.dest \notin LabelsOf(ServerOf(op.src))
  BY <1>1, <1>2, <1>3, LabelOfServer
<1> QED BY <1>2, <1>3, <1>5, <1>6, <1>7 DEF Complete

(* What is known during a removal: of the server that was asked for, or of *)
(* the one that has the last label.                                        *)
Known ==
  /\ op.asked = ServerOf(op.src)
  /\ \A i \in Replicas : IsNext(ring, <<op.asked, i>>, op.dests[i])
  /\ Erased(op.asked) = LabelsOf(op.asked)

Unknown ==
  /\ Absent(op.asked)
  /\ IsLast(ring, op.src)
  /\ \A i \in Replicas : IsNext(ring, op.src, op.dests[i])

LEMMA DuringRemove ==
  ASSUME IInv, op.kind = "remove"
  PROVE  /\ op.src \in ring /\ ServerOf(op.src) \in Servers
         /\ LabelsOf(ServerOf(op.src)) \subseteq ring
         /\ \A i \in Replicas : op.dests[i] \in ring
         /\ Whole(ring)
         /\ Known \/ Unknown
<1>1. /\ ring \subseteq Labels /\ IsFiniteSet(ring)
      /\ OpFitsRing /\ op.asked \in Servers
  BY Parts, OpCases DEF Running
<1>2. /\ ring # {}
      /\ op.src = Found(ring, <<op.asked, 0>>)
      /\ \A i \in Replicas : IsDestination(op.asked, i, op.dests[i])
  BY <1>1 DEF OpFitsRing
<1>3. op.src \in ring /\ ServerOf(op.src) \in Servers
  BY <1>1, <1>2, FoundIsThere, LabelIs
<1>4. Whole(ring)
  BY <1>1, ServerIsComplete, LabelIs DEF Whole, Complete, Arriving, Running
<1>5. LabelsOf(ServerOf(op.src)) \subseteq ring
  BY <1>3, <1>4 DEF Whole
<1>6. \A i \in Replicas :
        /\ op.dests[i] \in ring
        /\ IsNext(ring, Found(ring, <<op.asked, i>>), op.dests[i])
  BY <1>2 DEF IsDestination
<1>7. Complete(op.asked) \/ Absent(op.asked)
  BY <1>1, WholeOrAbsent DEF Arriving, Running
<1>8. \A i \in Replicas : <<op.asked, i>> \in LabelsOf(op.asked)
  BY DEF LabelsOf
<1>9. ASSUME Complete(op.asked)
      PROVE  Known
  <2>1. \A i \in Replicas : <<op.asked, i>> \in ring
    BY <1>8, <1>9 DEF Complete
  <2>2. \A i \in Replicas : Found(ring, <<op.asked, i>>) = <<op.asked, i>>
    BY <2>1 DEF Found
  <2>3. op.src = <<op.asked, 0>> /\ ServerOf(op.src) = op.asked
    BY <1>1, <1>2, <2>2, LabelIs, ReplicasAre
  <2>4. Erased(op.asked) = {<<op.asked, 0>>, <<op.asked, 1>>, <<op.asked, 2>>}
    <3>1. /\ <<op.asked, 0>> # <<op.asked, 1>>
          /\ <<op.asked, 0>> # <<op.asked, 2>>
          /\ <<op.asked, 1>> # <<op.asked, 2>>
      OBVIOUS
    <3>2. /\ <<op.asked, 0>> \in ring /\ <<op.asked, 1>> \in ring
          /\ <<op.asked, 2>> \in ring
      BY <2>1, ReplicasAre
    <3> QED BY <3>1, <3>2 DEF Erased, Found
  <2> QED BY <1>6, <2>2, <2>3, <2>4, ThreeLabels DEF Known
<1>10. ASSUME Absent(op.asked)
       PROVE  Unknown
  <2>1. \A i \in Replicas : <<op.asked, i>> \notin ring
    BY <1>8, <1>10 DEF Absent
  <2>2. \A i \in Replicas : Found(ring, <<op.asked, i>>) = CHOOSE y \in ring : IsLast(ring, y)
    BY <2>1 DEF Found
  <2>3. \A i \in Replicas : Found(ring, <<op.asked, i>>) = op.src
    BY <1>2, <2>2, ReplicasAre
  <2>4. IsLast(ring, op.src)
    BY <1>1, <1>2, <2>1, ReplicasAre, FoundIsThere
  <2> QED BY <1>6, <1>10, <2>3, <2>4 DEF Unknown
<1> QED BY <1>3, <1>4, <1>5, <1>6, <1>7, <1>9, <1>10

(* A removal that leaves no server in pieces takes the labels of one: with *)
(* an unknown id the last three are of the server that has the last one.   *)
LEMMA CleanErases ==
  ASSUME IInv, op.kind = "remove", Clean
  PROVE  /\ Erased(op.asked) = LabelsOf(ServerOf(op.src))
         /\ Unknown =>
              \A v \in ring \ LabelsOf(ServerOf(op.src)),
                 l \in LabelsOf(ServerOf(op.src)) : LabelHash[v] < LabelHash[l]
<1> DEFINE L == LabelsOf(ServerOf(op.src))
<1>1. /\ op.src \in ring /\ ServerOf(op.src) \in Servers
      /\ L \subseteq ring
      /\ Known \/ Unknown
  BY DuringRemove
<1>2. ring \subseteq Labels /\ IsFiniteSet(ring) /\ IsRing(ring)
  BY Parts, RingIsRing
<1>3. ASSUME Unknown
      PROVE  /\ Erased(op.asked) = L
             /\ \A v \in ring \ L, l \in L : LabelHash[v] < LabelHash[l]
  <2> DEFINE a(i) == <<op.asked, i>>
             x == Found(ring, a(0))
             y == Found(ring \ {x}, a(1))
             z == Found(ring \ {x, y}, a(2))
  <2>1. \A i \in Replicas : a(i) \notin ring
    BY <1>3 DEF Unknown, Absent, LabelsOf
  <2>2. L = {<<ServerOf(op.src), 0>>, <<ServerOf(op.src), 1>>,
             <<ServerOf(op.src), 2>>}
    BY ThreeLabels
  <2>3. /\ <<ServerOf(op.src), 0>> # <<ServerOf(op.src), 1>>
        /\ <<ServerOf(op.src), 0>> # <<ServerOf(op.src), 2>>
        /\ <<ServerOf(op.src), 1>> # <<ServerOf(op.src), 2>>
    OBVIOUS
  <2>4. Erased(op.asked) = {x, y, z}
    BY DEF Erased
  <2> HIDE DEF L, a
  <2>5. x \in ring /\ IsLast(ring, x)
    BY <1>1, <1>2, <2>1, ReplicasAre, FoundIsThere
  <2>6. x = op.src
    BY <1>2, <1>3, <2>5 DEF Unknown, IsLast, IsRing
  <2> HIDE DEF x
  <2>7. y \in ring \ {x} /\ IsLast(ring \ {x}, y)
    <3>1. ring \ {x} # {} /\ ring \ {x} \subseteq Labels /\ IsFiniteSet(ring \ {x})
      BY <1>1, <1>2, <2>2, <2>3, FS_Subset
    <3>2. a(1) \notin ring \ {x}
      BY <2>1, ReplicasAre
    <3> QED BY <3>1, <3>2, FoundIsThere
  <2> HIDE DEF y
  <2>8. z \in ring \ {x, y} /\ IsLast(ring \ {x, y}, z)
    <3>1. ring \ {x, y} # {} /\ ring \ {x, y} \subseteq Labels
      BY <1>1, <1>2, <2>2, <2>3
    <3>2. IsFiniteSet(ring \ {x, y})
      BY <1>2, FS_Subset
    <3>3. a(2) \notin ring \ {x, y}
      BY <2>1, ReplicasAre
    <3> QED BY <3>1, <3>2, <3>3, FoundIsThere
  <2> HIDE DEF z
  <2>9. L \subseteq {x, y, z}
    <3>1. SUFFICES ASSUME NEW l \in L, l \notin {x, y, z}
                   PROVE  FALSE
      OBVIOUS
    <3>2. l \in ring \ Erased(op.asked)
      BY <1>1, <2>4, <3>1
    <3>3. LabelsOf(ServerOf(l)) \subseteq ring \ Erased(op.asked)
      BY <3>2 DEF Clean, Whole
    <3>4. l \in Labels /\ ServerOf(l) = ServerOf(op.src)
      BY <1>1, <1>2, <3>1, LabelOfServer DEF L
    <3>5. op.src \in L
      BY <1>1, <1>2, LabelOfServer DEF L
    <3> QED BY <2>4, <2>6, <3>3, <3>4, <3>5 DEF L
  <2>10. L = {x, y, z}
    BY <2>2, <2>3, <2>9
  <2>11. \A v \in ring \ L, l \in L : LabelHash[v] < LabelHash[l]
    <3>1. \A v \in ring \ {x, y, z} : /\ LabelHash[v] < LabelHash[x]
                                     /\ LabelHash[v] < LabelHash[y]
                                     /\ LabelHash[v] < LabelHash[z]
      BY <1>2, <2>5, <2>7, <2>8 DEF IsLast, IsRing
    <3> QED BY <2>10, <3>1
  <2> QED BY <2>4, <2>10, <2>11
<1>4. CASE Unknown
  BY <1>3, <1>4
<1>5. CASE Known /\ ~Unknown
  BY <1>5 DEF Known
<1> QED BY <1>1, <1>4, <1>5

(* A document that leaves in a clean removal goes to its owner among the   *)
(* labels that stay.                                                       *)
LEMMA RemovedInherits ==
  ASSUME IInv, op.kind = "remove", Clean,
         NEW d \in Docs, Clear(d), Serves(ring, ServerOf(op.src), d),
         NEW w, w = PickDest(d, ServerOf(op.src), op.dests), w # Null
  PROVE  IsOwner(ring \ LabelsOf(ServerOf(op.src)), w, d)
<1> DEFINE s == ServerOf(op.src)
           L == LabelsOf(s)
<1>1. /\ op.src \in ring /\ s \in Servers /\ L \subseteq ring
      /\ \A i \in Replicas : op.dests[i] \in ring
      /\ Known \/ Unknown
  BY DuringRemove
<1>2. /\ ring \subseteq Labels /\ IsRing(ring) /\ Null \notin ring
      /\ DocHash[d] \in Nat
  BY Parts, RingIsRing, DocHashType
<1>3. PICK x \in ring : ServerOf(x) = s /\ IsOwner(ring, x, d)
  BY DEF Serves
<1>4. L = {<<s, 0>>, <<s, 1>>, <<s, 2>>} /\ L = {v \in ring : ServerOf(v) = s}
  BY <1>1, <1>2, ThreeLabels, LabelOfServer
<1>5. CASE Known
  <2> DEFINE r == [i \in Replicas |-> <<s, i>>]
  <2>1. /\ r[0] = <<s, 0>> /\ r[1] = <<s, 1>> /\ r[2] = <<s, 2>>
        /\ \A i \in Replicas : r[i] = <<s, i>>
    BY ReplicasAre
  <2>2. \A i \in Replicas : IsNext(ring, r[i], op.dests[i])
    BY <1>5, <2>1 DEF Known
  <2>3. L = {r[0], r[1], r[2]} /\ {v \in ring : ServerOf(v) = s} = {r[0], r[1], r[2]}
    BY <1>4, <2>1
  <2>4. Untied(ring, d)
    BY <1>2 DEF Clear, Untied
  <2> HIDE DEF r, s, L
  <2>5. IsOwner(ring \ {r[0], r[1], r[2]}, PickDest(d, s, op.dests), d)
    BY <1>2, <1>3, <2>2, <2>3, <2>4, DestinationInherits DEF s
  <2> QED BY <2>3, <2>5 DEF s, L
<1>6. CASE Unknown
  <2>1. Null \notin {op.dests[0], op.dests[1], op.dests[2]}
    BY <1>1, <1>2, ReplicasAre
  <2>2. w \in {op.dests[0], op.dests[1], op.dests[2]} /\ ServerOf(w) # s
    BY <2>1, PickDestChooses
  <2>3. w \in ring /\ IsNext(ring, op.src, w) /\ IsLast(ring, op.src)
    BY <1>1, <1>6, <2>2, ReplicasAre DEF Unknown
  <2>4. \A v \in ring : LabelHash[w] <= LabelHash[v]
    BY <1>2, <2>3 DEF IsNext, IsLast, IsRing
  <2>5. w \in ring \ L /\ x \in L
    BY <1>3, <1>4, <2>2, <2>3
  <2>6. \A v \in ring \ L, l \in L : LabelHash[v] < LabelHash[l]
    BY <1>6, CleanErases
  <2> HIDE DEF L, s
  <2> QED BY <1>1, <1>2, <1>3, <2>4, <2>5, <2>6, FirstInherits DEF L, s
<1> QED BY <1>1, <1>5, <1>6

(* Of the labels of the source, pick_src picks the one that had the        *)
(* document before the join.                                               *)
LEMMA LeavesFromOwner ==
  ASSUME IInv, op.kind = "add", NEW d \in Docs, Clear(d),
         NEW y, ServerOf(y) = ServerOf(op.src), IsOwner(ring \ {op.dest}, y, d)
  PROVE  Leaves(op.src, op.dest, d) <=> ShouldMove(op.src, op.dest, d) /\ y = op.src
<1> DEFINE s == ServerOf(op.src)
           r == [i \in Replicas |-> Found(ring, <<s, i>>)]
           L == {r[0], r[1], r[2]}
<1>1. /\ op.src \in ring /\ s \in Servers
      /\ LabelsOf(s) \subseteq ring \ {op.dest}
  BY DuringAdd
<1>2. \A i \in Replicas : r[i] = <<s, i>>
  BY <1>1 DEF LabelsOf, Found
<1>3. L = LabelsOf(s)
  BY <1>2, ReplicasAre, ThreeLabels
<1>4. ring \subseteq Labels /\ IsRing(ring) /\ DocHash[d] \in Nat
  BY Parts, RingIsRing, DocHashType
<1> HIDE DEF r
<1>5. L \subseteq Labels /\ y \in L
  BY <1>1, <1>3, <1>4, LabelOfServer DEF IsOwner
<1>6. IsRing(L) /\ Untied(L, d)
  BY <1>5, RingIsRing DEF Clear, Untied
<1>7. IsOwner(L, y, d)
  BY <1>1, <1>3, <1>5, OwnerRestricts
<1>8. IsOwner(L, PickSrc(d, r), d)
  BY <1>4, <1>6, PickSrcIsOwner
<1>9. PickSrc(d, r) = y
  BY <1>4, <1>6, <1>7, <1>8, OwnerUnique
<1> QED BY <1>9 DEF Leaves, r

-----------------------------------------------------------------------------
(* Requests.                                                               *)

(* An edit waits at a server that answers for its document. *)
LEMMA EditKeeps ==
  ASSUME IInv, NEW d \in Docs, NEW c \in Contents, Edit(d, c)
  PROVE  IInv'
<1>1. PICK y \in ring : IsOwner(ring, y, d) /\ Enqueue(ServerOf(y), d, c)
  BY DEF Edit
<1> DEFINE s == ServerOf(y)
<1>2. op = Idle /\ ring' = ring /\ op' = op /\ reply' = Reply("queued", d, c)
  BY DEF Edit
<1>3. /\ ServersOK /\ ring \subseteq Labels /\ IsFiniteSet(ring)
      /\ OpFitsRing /\ ServersWhole /\ DocsAtHome /\ QueuedAtHome
      /\ SingleHolder /\ CacheCoherent
  BY <1>2, Parts, Idling DEF Running, Placed, Transferring
<1>4. s \in Servers /\ Serves(ring, s, d)
  BY <1>1, <1>3, LabelIs DEF Serves
<1> HIDE DEF s
<1>5. /\ ServersOK'
      /\ db' = db /\ cache' = cache
      /\ \A x \in Servers : \A i \in DOMAIN queue'[x] :
           \/ i \in DOMAIN queue[x] /\ queue'[x][i] = queue[x][i]
           \/ x = s /\ queue'[x][i].doc = d
  BY <1>1, <1>3, <1>4, EnqueueKeeps DEF s
<1>6. /\ \A x \in Servers : Home(x) = ring /\ Home(x)' = ring
      /\ QueueHome = ring /\ QueueHome' = ring
  BY <1>2, Idling DEF Home, QueueHome
<1>7. OpFitsRing' /\ ServersWhole'
  BY <1>2, <1>3, Idling DEF OpFitsRing, Transferring, ServersWhole, Arriving,
                            Complete, Absent
<1>8. DocsAtHome'
  BY <1>3, <1>5, <1>6 DEF DocsAtHome
<1>9. QueuedAtHome'
  BY <1>3, <1>4, <1>5, <1>6 DEF QueuedAtHome
<1>10. SingleHolder'
  <2>1. SUFFICES ASSUME NEW f \in Docs, Clear(f), NEW x \in Servers,
                        NEW z \in Servers, Holds(x, f)', Holds(z, f)'
                 PROVE  x = z
    BY DEF SingleHolder, Clear, Untied
  <2>2. \A t \in Servers : Holds(t, f)' <=> Holds(t, f) \/ (t = s /\ f = d)
    BY <1>1, <1>3, <1>4, EnqueueShows DEF s
  <2>3. CASE f # d
    BY <1>3, <2>1, <2>2, <2>3 DEF SingleHolder
  <2>4. CASE f = d
    <3>1. \A t \in Servers : Holds(t, f) => t = s
      BY <1>2, <1>3, <1>4, <2>1, <2>4, HolderServes, ServesUnique, Idling
    <3> QED BY <2>1, <2>2, <3>1
  <2> QED BY <2>3, <2>4
<1>11. CacheCoherent'
  BY <1>3, <1>5 DEF CacheCoherent
<1>12. Reply("queued", d, c) \in ReplyType
  BY ReplyTypes DEF MaybeContent
<1> QED BY <1>2, <1>3, <1>5, <1>7, <1>8, <1>9, <1>10, <1>11, <1>12, Parts, PartsNext

(* A step that leaves the servers and the ring, from one state in which    *)
(* documents are placed for the whole ring to another.                     *)
LEMMA RestKeeps ==
  ASSUME IInv, UNCHANGED <<serverVars, ring>>,
         Placed,
         \A x \in Servers : Home(x) = ring /\ Home(x)' = ring,
         QueueHome = ring, QueueHome' = ring,
         op' \in OpType, reply' \in ReplyType, OpFitsRing', ServersWhole'
  PROVE  IInv'
<1>1. ServersOK' /\ SingleHolder' /\ CacheCoherent'
  BY SameServers
<1>2. ring \subseteq Labels /\ IsFiniteSet(ring) /\ DocsAtHome /\ QueuedAtHome
  BY Parts DEF Placed
<1>3. DocsAtHome' /\ QueuedAtHome'
  BY <1>2 DEF serverVars, DocsAtHome, QueuedAtHome
<1> QED BY <1>1, <1>2, <1>3, PartsNext

(* A GET is taken: nothing moves yet. *)
LEMMA GetRequestKeeps ==
  ASSUME IInv, NEW d \in Docs, Get(d)
  PROVE  IInv'
<1>1. PICK y \in ring : IsOwner(ring, y, d) /\ op' = Getting(y, d)
  BY DEF Get
<1>2. op = Idle /\ UNCHANGED <<serverVars, ring, reply>>
  BY DEF Get
<1>3. y \in Labels /\ reply \in ReplyType /\ ServersWhole
  BY <1>2, Parts, Idling DEF Running
<1>4. /\ op' \in OpType /\ op'.kind = "get"
      /\ op'.src = y /\ op'.doc = d
  BY <1>1, <1>3, GettingType
<1>5. /\ Placed
      /\ \A x \in Servers : Home(x) = ring /\ Home(x)' = ring
      /\ QueueHome = ring /\ QueueHome' = ring
  BY <1>2, <1>4, Idling DEF Home, QueueHome, Placed, Running, Transferring
<1>6. OpFitsRing'
  BY <1>1, <1>2, <1>4 DEF OpFitsRing, Transferring
<1>7. ServersWhole'
  BY <1>2, <1>3, <1>4, Idling DEF ServersWhole, Arriving, Complete, Absent
<1> QED BY <1>2, <1>3, <1>4, <1>5, <1>6, <1>7, RestKeeps

(* A request without a server changes the reply only. *)
LEMMA RefuseKeeps ==
  ASSUME IInv, NEW d \in Docs, Refuse(d)
  PROVE  IInv'
<1>1. op = Idle /\ op' = op /\ UNCHANGED <<serverVars, ring>>
  BY DEF Refuse
<1>2. reply' \in ReplyType
  BY ReplyTypes DEF Refuse, MaybeContent
<1>3. op \in OpType /\ OpFitsRing /\ ServersWhole
  BY <1>1, Parts, Idling DEF Running
<1>4. /\ Placed
      /\ \A x \in Servers : Home(x) = ring /\ Home(x)' = ring
      /\ QueueHome = ring /\ QueueHome' = ring
  BY <1>1, Idling DEF Home, QueueHome, Placed, Running, Transferring
<1>5. OpFitsRing' /\ ServersWhole'
  BY <1>1, <1>3, Idling DEF OpFitsRing, Transferring, ServersWhole, Arriving,
                            Complete, Absent
<1> QED BY <1>1, <1>2, <1>3, <1>4, <1>5, RestKeeps

(* A server is made with nothing, and none of its labels has joined. *)
LEMMA AddServerKeeps ==
  ASSUME IInv, NEW s \in Servers, NEW n \in CacheSizes, AddServer(s, n)
  PROVE  IInv'
<1>1. /\ op = Idle /\ LabelsOf(s) \intersect ring = {}
      /\ ResetServer(s, n) /\ n \in Nat
      /\ op' = Joining(<<s, 0>>) /\ ring' = ring /\ reply' = reply
  BY CacheSizesAssumption DEF AddServer
<1>2. /\ ServersOK /\ reply \in ReplyType
      /\ ring \subseteq Labels /\ IsFiniteSet(ring)
      /\ ServersWhole /\ DocsAtHome /\ QueuedAtHome
      /\ SingleHolder /\ CacheCoherent
  BY <1>1, Parts, Idling DEF Running, Placed, Transferring
<1>3. /\ ServersOK'
      /\ db'[s] = NoDocs /\ queue'[s] = << >>
      /\ \A d \in Docs : ~Cached(cache'[s], d)
      /\ \A x \in Servers \ {s} : /\ db'[x] = db[x]
                                  /\ queue'[x] = queue[x]
                                  /\ cache'[x] = cache[x]
  BY <1>1, <1>2, ResetKeeps
<1>4. \A d \in Docs : db'[s][d] = None
  BY <1>3 DEF NoDocs
<1>5. <<s, 0>> \in Labels /\ ServerOf(<<s, 0>>) = s /\ <<s, 0>>[2] = 0
  BY LabelIs, ReplicasAre
<1>6. op' \in OpType /\ op'.kind = "join" /\ op'.dest = <<s, 0>>
  BY <1>1, <1>5, JoiningType
<1>7. /\ \A x \in Servers : Home(x) = ring /\ Home(x)' = ring
      /\ QueueHome = ring /\ QueueHome' = ring
  BY <1>1, <1>6, Idling DEF Home, QueueHome
<1>8. OpFitsRing'
  BY <1>6 DEF OpFitsRing, Transferring
<1>9. ServersWhole'
  <2>1. {j \in Replicas : j < 0 \/ (j = 0 /\ op'.kind = "add")} = {}
    BY <1>6, ReplicasAre
  <2>2. \A x \in Servers \ {s} : Complete(x)' \/ Absent(x)'
    BY <1>1, <1>2, Idling DEF ServersWhole, Arriving, Complete, Absent
  <2>3. {<<s, i>> : i \in {j \in Replicas : j < 0 \/ (j = 0 /\ op'.kind = "add")}} = {}
    BY <2>1
  <2> QED BY <1>1, <1>5, <1>6, <2>2, <2>3 DEF ServersWhole, Arriving
<1>10. DocsAtHome'
  BY <1>2, <1>3, <1>4, <1>7 DEF DocsAtHome
<1>11. QueuedAtHome'
  <2>1. SUFFICES ASSUME NEW x \in Servers, NEW i \in DOMAIN queue'[x]
                 PROVE  Serves(ring, x, queue'[x][i].doc)
    BY <1>7 DEF QueuedAtHome
  <2>2. x # s /\ queue'[x] = queue[x]
    BY <1>3, <2>1
  <2> QED BY <1>2, <1>7, <2>1, <2>2 DEF QueuedAtHome
<1>12. SingleHolder'
  <2>1. \A x \in Servers, d \in Docs : Holds(x, d)' => Holds(x, d)
    BY <1>1, <1>2, ResetShows
  <2> QED BY <1>2, <2>1 DEF SingleHolder, Clear, Untied
<1>13. CacheCoherent'
  BY <1>2, <1>3 DEF CacheCoherent, Cached
<1> QED BY <1>1, <1>2, <1>3, <1>6, <1>8, <1>9, <1>10, <1>11, <1>12, <1>13, PartsNext

(* A removal is taken, with its three destinations. *)
LEMMA RemoveServerKeeps ==
  ASSUME IInv, NEW id \in Servers, RemoveServer(id)
  PROVE  IInv'
<1>1. PICK dests \in [Replicas -> ring] :
        /\ \A i \in Replicas : IsDestination(id, i, dests[i])
        /\ op' = Removing("solve", Found(ring, <<id, 0>>), dests, id)
  BY DEF RemoveServer
<1>2. op = Idle /\ ring # {} /\ UNCHANGED <<serverVars, ring, reply>>
  BY DEF RemoveServer
<1>3. /\ reply \in ReplyType /\ ServersWhole
      /\ ring \subseteq Labels /\ IsFiniteSet(ring)
  BY <1>2, Parts, Idling DEF Running
<1>4. Found(ring, <<id, 0>>) \in Labels /\ dests \in [Replicas -> Labels]
  BY <1>2, <1>3, FoundIsThere
<1>5. /\ op' \in OpType /\ op'.kind = "remove" /\ op'.stage = "solve"
      /\ op'.src = Found(ring, <<id, 0>>) /\ op'.dests = dests /\ op'.asked = id
  BY <1>1, <1>4, RemovingType
<1>6. /\ Placed
      /\ \A x \in Servers : Home(x) = ring /\ Home(x)' = ring
      /\ QueueHome = ring /\ QueueHome' = ring
  BY <1>2, <1>5, Idling DEF Home, QueueHome, Placed, Running, Transferring
<1>7. OpFitsRing'
  BY <1>1, <1>2, <1>5 DEF OpFitsRing, Transferring, IsDestination
<1>8. ServersWhole'
  BY <1>2, <1>3, <1>5, Idling DEF ServersWhole, Arriving, Complete, Absent
<1> QED BY <1>2, <1>3, <1>5, <1>6, <1>7, <1>8, RestKeeps

(* The end of the input leaves no server. *)
LEMMA ShutdownKeeps ==
  ASSUME IInv, Shutdown
  PROVE  IInv'
<1>1. /\ op' = Halted("end of input") /\ ring' = {} /\ reply' = reply
      /\ db' = [s \in Servers |-> NoDocs]
      /\ cache' = [s \in Servers |-> EmptyCache(0)]
      /\ queue' = [s \in Servers |-> << >>]
  BY DEF Shutdown
<1>2. op' \in OpType /\ ~Running'
  BY <1>1, Halting DEF Running, Reasons
<1>3. CacheOK(EmptyCache(0)) /\ \A d \in Docs : ~Cached(EmptyCache(0), d)
  BY EmptyCacheOK
<1>4. ServersOK'
  <2>1. << >> \in Seq(EditRequest) /\ Len(<< >>) <= TaskQueueSize
    BY EmptySeq, QueueAssumption
  <2>2. NoDocs \in [Docs -> MaybeContent]
    BY DEF NoDocs, MaybeContent
  <2> HIDE DEF NoDocs
  <2> QED BY <1>1, <1>3, <2>1, <2>2 DEF ServersOK, ServerTypeOK, CacheOK
<1>5. SingleHolder' /\ CacheCoherent'
  <2>1. ASSUME NEW s \in Servers, NEW d \in Docs
        PROVE  ~Holds(s, d)'
    <3>1. db'[s][d] = None /\ queue'[s] = << >>
      BY <1>1 DEF NoDocs
    <3>2. Waiting(s, d)' = {}
      BY <3>1 DEF Waiting
    <3> QED BY <3>1, <3>2 DEF Holds
  <2> QED BY <1>1, <1>3, <2>1 DEF SingleHolder, CacheCoherent
<1>6. IsFiniteSet(ring')
  BY <1>1, FS_EmptySet
<1> QED BY <1>1, <1>2, <1>4, <1>5, <1>6, Parts, PartsNext DEF Placed

-----------------------------------------------------------------------------
(* Steps of the request in progress.                                       *)

(* Once a label has joined and has its documents, the server has the       *)
(* labels up to this one.                                                  *)
LEMMA JoinedWhole ==
  ASSUME NEW x \in Labels, op' = Joined(x),
         LabelsOf(ServerOf(x)) \intersect ring' =
           {<<ServerOf(x), i>> : i \in {j \in Replicas : j <= x[2]}},
         \A t \in Servers \ {ServerOf(x)} :
           LabelsOf(t) \subseteq ring' \/ LabelsOf(t) \intersect ring' = {}
  PROVE  ServersWhole'
<1> DEFINE s == ServerOf(x)
<1>1. s \in Servers /\ x[2] \in {0, 1, 2}
  BY LabelIs, ReplicasAre
<1>2. CASE op'.kind = "idle"
  <2>1. {j \in Replicas : j <= x[2]} = Replicas
    BY <1>2, JoinedType, ReplicasAre
  <2>2. LabelsOf(s) \subseteq ring'
    BY <2>1 DEF LabelsOf
  <2> QED BY <1>2, <2>2 DEF ServersWhole, Arriving, Complete, Absent
<1>3. CASE op'.kind = "join"
  <2>1. op'.dest = <<s, x[2] + 1>> /\ x[2] + 1 \in Replicas
    BY <1>1, <1>3, JoinedType, ReplicasAre
  <2>2. ServerOf(op'.dest) = s /\ op'.dest[2] = x[2] + 1
    BY <1>1, <2>1, LabelIs
  <2>3. {j \in Replicas : j <= x[2]} =
          {j \in Replicas : j < x[2] + 1 \/ (j = x[2] + 1 /\ op'.kind = "add")}
    BY <1>1, <1>3, ReplicasAre
  <2> HIDE DEF s
  <2>4. LabelsOf(s) \intersect ring' =
          {<<s, i>> : i \in {j \in Replicas :
                             j < x[2] + 1 \/ (j = x[2] + 1 /\ op'.kind = "add")}}
    BY <2>3 DEF s
  <2> QED BY <1>3, <2>2, <2>4 DEF ServersWhole, Arriving, Complete, Absent, s
<1> QED BY <1>2, <1>3, JoinedType

(* A label joins. Either nothing is to be moved, because the label after   *)
(* it is of the same server, or the transfer to it is taken.               *)
LEMMA JoinLabelKeeps ==
  ASSUME IInv, JoinLabel
  PROVE  IInv'
<1> DEFINE z == op.dest
           s == ServerOf(z)
<1>1. PICK y \in ring' :
        /\ IsNext(ring', z, y)
        /\ op' = IF ServerOf(y) = s THEN Joined(z) ELSE Adding("solve", y, z)
  BY DEF JoinLabel
<1>2. op.kind = "join" /\ ring' = ring \union {z} /\ UNCHANGED <<serverVars, reply>>
  BY DEF JoinLabel
<1>3. /\ ring \subseteq Labels /\ IsFiniteSet(ring) /\ reply \in ReplyType
      /\ z \in Labels /\ s \in Servers
      /\ ServersWhole /\ DocsAtHome /\ QueuedAtHome
  BY <1>2, Parts, OpCases, LabelIs DEF Running, Placed, Transferring
<1>4. ServersOK' /\ SingleHolder' /\ CacheCoherent'
  BY <1>2, SameServers
<1>5. /\ z = <<s, z[2]>> /\ z[2] \in {0, 1, 2}
      /\ LabelsOf(s) \intersect ring = {<<s, i>> : i \in {j \in Replicas : j < z[2]}}
  <2>1. z = <<s, z[2]>> /\ z[2] \in {0, 1, 2}
    BY <1>3, LabelIs, ReplicasAre
  <2>2. {j \in Replicas : j < z[2]} =
          {j \in Replicas : j < z[2] \/ (j = z[2] /\ op.kind = "add")}
    BY <1>2
  <2> QED BY <1>2, <1>3, <2>1, <2>2 DEF ServersWhole, Arriving
<1>6. z \in LabelsOf(s) /\ z \notin ring
  <2>1. z \in LabelsOf(s)
    BY <1>3, LabelOfServer
  <2>2. z \notin {<<s, i>> : i \in {j \in Replicas : j < z[2]}}
    BY <1>5
  <2> QED BY <1>5, <2>1, <2>2
<1>7. /\ \A t \in Servers \ {s} : LabelsOf(t) \subseteq ring \/ LabelsOf(t) \intersect ring = {}
      /\ \A t \in Servers \ {s} : z \notin LabelsOf(t)
  BY <1>2, <1>3, LabelOfServer DEF ServersWhole, Arriving, Complete, Absent
<1>8. /\ LabelsOf(s) \intersect ring' = {<<s, i>> : i \in {j \in Replicas : j <= z[2]}}
      /\ \A t \in Servers \ {s} :
           LabelsOf(t) \subseteq ring' \/ LabelsOf(t) \intersect ring' = {}
  <2>1. {<<s, i>> : i \in {j \in Replicas : j <= z[2]}} =
          {<<s, i>> : i \in {j \in Replicas : j < z[2]}} \union {<<s, z[2]>>}
    <3>1. {j \in Replicas : j <= z[2]} = {j \in Replicas : j < z[2]} \union {z[2]}
      BY <1>5, ReplicasAre
    <3> HIDE DEF s, z
    <3> QED BY <3>1
  <2>2. LabelsOf(s) \intersect ring' = (LabelsOf(s) \intersect ring) \union {z}
    BY <1>2, <1>6
  <2>3. LabelsOf(s) \intersect ring' = {<<s, i>> : i \in {j \in Replicas : j <= z[2]}}
    BY <1>5, <2>1, <2>2
  <2> QED BY <1>2, <1>7, <2>3
<1>9. ring' \subseteq Labels /\ IsFiniteSet(ring') /\ y \in Labels /\ ring' \ {z} = ring
  BY <1>2, <1>3, <1>6, FS_AddElement
<1>10. QueueHome = ring /\ \A x \in Servers : Home(x) = ring
  BY <1>2 DEF QueueHome, Home
<1>11. CASE ServerOf(y) = s
  <2>1. op' = Joined(z) /\ op' \in OpType /\ op'.kind \in {"idle", "join"}
    BY <1>1, <1>3, <1>11, JoinedType
  <2>2. QueueHome' = ring' /\ \A x \in Servers : Home(x)' = ring'
    BY <2>1 DEF QueueHome, Home
  <2> HIDE DEF z, s
  <2>3. \A x \in Servers, d \in Docs : Serves(ring, x, d) => Serves(ring', x, d)
    BY <1>1, <1>2, <1>9, <1>11, JoinKeepsServes DEF s
  <2>4. OpFitsRing'
    BY <2>1 DEF OpFitsRing, Transferring
  <2>5. ServersWhole'
    BY <1>3, <1>8, <2>1, JoinedWhole DEF s
  <2>6. DocsAtHome'
    BY <1>2, <1>3, <1>10, <2>2, <2>3 DEF serverVars, DocsAtHome
  <2>7. QueuedAtHome'
    BY <1>2, <1>3, <1>10, <2>2, <2>3, QueuedDocs DEF serverVars, QueuedAtHome
  <2> QED BY <1>2, <1>3, <1>4, <1>9, <2>1, <2>4, <2>5, <2>6, <2>7, PartsNext
<1>12. CASE ServerOf(y) # s
  <2>1. /\ op' \in OpType /\ op'.kind = "add" /\ op'.stage = "solve"
        /\ op'.src = y /\ op'.dest = z
    BY <1>1, <1>3, <1>9, <1>12, AddingType
  <2>2. QueueHome' = ring /\ \A x \in Servers : Home(x)' = ring
    BY <1>9, <2>1 DEF QueueHome, Home
  <2>3. OpFitsRing'
    BY <1>1, <1>12, <2>1 DEF OpFitsRing, Transferring
  <2>4. ServersWhole'
    <3>1. {j \in Replicas : j <= z[2]} =
            {j \in Replicas : j < z[2] \/ (j = z[2] /\ op'.kind = "add")}
      BY <1>5, <2>1, ReplicasAre
    <3> HIDE DEF z, s
    <3>2. LabelsOf(s) \intersect ring' =
            {<<s, i>> : i \in {j \in Replicas :
                               j < z[2] \/ (j = z[2] /\ op'.kind = "add")}}
      BY <1>8, <3>1
    <3>3. ServerOf(op'.dest) = s /\ op'.dest = z
      BY <2>1 DEF s
    <3> QED BY <1>8, <2>1, <3>2, <3>3 DEF ServersWhole, Arriving, Complete, Absent
  <2>5. DocsAtHome' /\ QueuedAtHome'
    BY <1>2, <1>3, <1>10, <2>2 DEF serverVars, DocsAtHome, QueuedAtHome
  <2> QED BY <1>2, <1>3, <1>4, <1>9, <2>1, <2>3, <2>4, <2>5, PartsNext
<1> QED BY <1>11, <1>12

(* An edit applied by solve_queue is applied at the server that answers    *)
(* for its document, the only one that may already have the document.      *)
LEMMA SolveTaskKeeps ==
  ASSUME IInv, SolveTask
  PROVE  IInv'
<1> DEFINE s == ServerOf(op.src)
           e == queue[s][1]
<1>1. Solving /\ SolveOne(s) /\ UNCHANGED <<ring, op, reply>>
  BY DEF SolveTask
<1>2. /\ ServersOK /\ ring \subseteq Labels /\ IsFiniteSet(ring)
      /\ op \in OpType /\ reply \in ReplyType
      /\ OpFitsRing /\ ServersWhole /\ DocsAtHome /\ QueuedAtHome
      /\ SingleHolder /\ CacheCoherent
  BY <1>1, Parts DEF Running, Solving, Placed, Transferring
<1>3. s \in Servers
  BY <1>1, <1>2, OpCases, LabelIs DEF Solving, Transferring
<1>4. /\ ServersOK'
      /\ queue[s] # << >> /\ 1 \in DOMAIN queue[s]
      /\ e \in EditRequest
      /\ db' = [db EXCEPT ![s][e.doc] = e.content]
      /\ cache'[s].val[e.doc] = e.content
      /\ \A f \in Docs \ {e.doc} : cache'[s].val[f] \in {cache[s].val[f], None}
      /\ \A x \in Servers \ {s} : queue'[x] = queue[x] /\ cache'[x] = cache[x]
      /\ \A x \in Servers : \A i \in DOMAIN queue'[x] :
           \E j \in DOMAIN queue[x] : queue'[x][i] = queue[x][j]
  BY <1>1, <1>2, <1>3, SolveKeeps
<1>5. /\ \A x \in Servers : Home(x) = QueueHome /\ Home(x)' = QueueHome
      /\ QueueHome' = QueueHome
  BY <1>1 DEF Home, QueueHome, Solving, Transferring
<1>6. Serves(QueueHome, s, e.doc) /\ e.doc \in Docs
  BY <1>2, <1>3, <1>4 DEF QueuedAtHome, EditRequest
<1>7. db \in [Servers -> [Docs -> MaybeContent]]
  BY <1>2 DEF ServersOK, ServerTypeOK
<1>8. \A x \in Servers, d \in Docs :
        db'[x][d] = IF x = s /\ d = e.doc THEN e.content ELSE db[x][d]
  BY <1>3, <1>4, <1>6, <1>7
<1> HIDE DEF s, e
<1>9. OpFitsRing' /\ ServersWhole'
  <2>1. ~Transferring("move")'
    BY <1>1 DEF Solving, Transferring
  <2> QED BY <1>1, <1>2, <2>1 DEF OpFitsRing, ServersWhole, Arriving, Complete,
                                  Absent, IsDestination
<1>10. DocsAtHome'
  BY <1>2, <1>5, <1>6, <1>8 DEF DocsAtHome
<1>11. QueuedAtHome'
  BY <1>2, <1>4, <1>5 DEF QueuedAtHome
<1>12. SingleHolder'
  <2>1. \A x \in Servers, d \in Docs : Holds(x, d)' <=> Holds(x, d)
    BY <1>1, <1>2, <1>3, SolveShows DEF s
  <2> QED BY <1>2, <2>1 DEF SingleHolder, Clear, Untied
<1>13. CacheCoherent'
  <2>1. SUFFICES ASSUME NEW x \in Servers, NEW d \in Docs,
                        Clear(d), Cached(cache[x], d)'
                 PROVE  cache'[x].val[d] = db'[x][d]
    BY DEF CacheCoherent
  <2>2. CASE x = s /\ d = e.doc
    BY <1>4, <1>8, <2>2
  <2>3. CASE x = s /\ d # e.doc
    BY <1>2, <1>4, <1>8, <2>1, <2>3 DEF CacheCoherent, Cached
  <2>4. CASE x # s
    BY <1>2, <1>4, <1>8, <2>1, <2>4 DEF CacheCoherent
  <2> QED BY <2>2, <2>3, <2>4
<1> QED BY <1>1, <1>2, <1>4, <1>9, <1>10, <1>11, <1>12, <1>13, PartsNext

(* The answer to a GET caches only what the server itself stores. *)
LEMMA AnswerKeeps ==
  ASSUME IInv, Answer
  PROVE  IInv'
<1> DEFINE s == ServerOf(op.src)
<1>1. /\ op.kind = "get" /\ GetDocument(s, op.doc)
      /\ reply' = Reply("content", op.doc, Content(s, op.doc))
      /\ op' = Idle /\ ring' = ring
  BY DEF Answer
<1>2. /\ ServersOK /\ ring \subseteq Labels /\ IsFiniteSet(ring)
      /\ ServersWhole /\ DocsAtHome /\ QueuedAtHome
      /\ SingleHolder /\ CacheCoherent
      /\ s \in Servers /\ op.doc \in Docs
  BY <1>1, Parts, OpCases, LabelIs DEF Running, Placed, Transferring
<1> HIDE DEF s
<1>3. /\ ServersOK' /\ db' = db /\ queue' = queue
      /\ \A x \in Servers, f \in Docs :
           \/ cache'[x].val[f] \in {cache[x].val[f], None}
           \/ cache'[x].val[f] = db[x][f]
  BY <1>1, <1>2, GetDocumentKeeps
<1>4. /\ \A x \in Servers : Home(x) = ring /\ Home(x)' = ring
      /\ QueueHome = ring /\ QueueHome' = ring
  BY <1>1, Idling DEF Home, QueueHome
<1>5. /\ op' \in OpType
      /\ OpFitsRing' /\ ServersWhole'
  BY <1>1, <1>2, Idling DEF OpFitsRing, ServersWhole, Arriving, Complete, Absent,
                            Transferring
<1>6. DocsAtHome' /\ QueuedAtHome'
  BY <1>2, <1>3, <1>4 DEF DocsAtHome, QueuedAtHome
<1>7. SingleHolder'
  BY <1>2, <1>3, CachesDoNotShow DEF SingleHolder, Clear, Untied
<1>8. CacheCoherent'
  BY <1>2, <1>3 DEF CacheCoherent, Cached
<1>9. reply' \in ReplyType
  <2>1. CacheOK(cache[s]) /\ db \in [Servers -> [Docs -> MaybeContent]]
    BY <1>2, ServersOKCache DEF ServersOK, ServerTypeOK
  <2>2. Content(s, op.doc) \in MaybeContent
    BY <1>2, <2>1 DEF Content, CacheOK, CacheType
  <2> QED BY <1>1, <1>2, <2>2, ReplyTypes
<1> QED BY <1>1, <1>2, <1>3, <1>5, <1>6, <1>7, <1>8, <1>9, PartsNext

(* The transfer starts with the source's queue empty. From here on what    *)
(* the others store is placed for the ring with the label that joined, or  *)
(* without the labels that leave.                                          *)
LEMMA StartMovingKeeps ==
  ASSUME IInv, StartMoving
  PROVE  IInv'
<1> DEFINE s == ServerOf(op.src)
<1>1. /\ op.kind \in {"add", "remove"} /\ op.stage = "solve"
      /\ queue[s] = << >>
      /\ op' = [op EXCEPT !.stage = "move"]
      /\ UNCHANGED <<serverVars, ring, reply>>
  BY DEF StartMoving, Transferring
<1>2. /\ ring \subseteq Labels /\ op \in OpType /\ reply \in ReplyType
      /\ IsFiniteSet(ring)
      /\ OpFitsRing /\ ServersWhole /\ DocsAtHome /\ QueuedAtHome
  BY <1>1, Parts DEF Running, Placed, Transferring
<1>3. ServersOK' /\ SingleHolder' /\ CacheCoherent'
  BY <1>1, SameServers
<1>4. /\ op' \in OpType /\ op'.kind = op.kind /\ op'.stage = "move"
      /\ op'.src = op.src /\ op.kind = "add" => op'.dest = op.dest
      /\ op.kind = "remove" => op'.dests = op.dests /\ op'.asked = op.asked
  BY <1>1, <1>2, MovingType
<1>5. s \in Servers
  BY <1>1, <1>2, OpCases, LabelIs
<1>6. ASSUME NEW x \in Servers, NEW d \in Docs, Serves(Home(x), x, d)
      PROVE  Serves(Home(x)', x, d)
  <2>1. CASE op.kind = "add"
    <3>1. Serves(ring \ {op.dest}, x, d)
      BY <1>1, <1>6, <2>1 DEF Home
    <3>2. CASE x = s
      BY <1>1, <1>4, <2>1, <3>1, <3>2 DEF Home
    <3>3. CASE x # s
      <4>1. Serves(ring, x, d)
        BY <1>2, <2>1, <3>1, <3>3, DuringAdd, JoinKeepsServes
      <4> QED BY <1>1, <1>4, <2>1, <3>3, <4>1 DEF Home
    <3> QED BY <3>2, <3>3
  <2>2. CASE op.kind = "remove"
    <3>1. Serves(ring, x, d)
      BY <1>6, <1>1, <2>2 DEF Home
    <3>2. CASE x = s
      BY <1>1, <1>4, <2>2, <3>1, <3>2 DEF Home
    <3>3. CASE x # s
      <4>1. Serves(ring \ LabelsOf(s), x, d)
        BY <1>2, <1>5, <3>1, <3>3, LeaveKeepsServes
      <4> QED BY <1>1, <1>4, <2>2, <3>3, <4>1 DEF Home
    <3> QED BY <3>2, <3>3
  <2> QED BY <1>1, <2>1, <2>2
<1>7. OpFitsRing'
  BY <1>1, <1>2, <1>4 DEF OpFitsRing, serverVars, IsDestination
<1>8. ServersWhole'
  BY <1>1, <1>2, <1>4 DEF ServersWhole, Arriving, Complete, Absent
<1>9. DocsAtHome'
  BY <1>1, <1>2, <1>6 DEF DocsAtHome, serverVars
<1>10. QueuedAtHome'
  <2>1. QueueHome' = QueueHome
    BY <1>1, <1>4 DEF QueueHome
  <2> QED BY <1>1, <1>2, <2>1 DEF QueuedAtHome, serverVars
<1> QED BY <1>1, <1>2, <1>3, <1>4, <1>7, <1>8, <1>9, <1>10, PartsNext

(* Where a document that moves goes: to another server's label, which owns *)
(* it afterwards.                                                          *)
LEMMA GoesHome ==
  ASSUME IInv, Transferring("move"), NEW d \in Docs,
         NEW w \in ring, Goes(d, w)
  PROVE  /\ ServerOf(w) \in Servers /\ ServerOf(op.src) \in Servers
         /\ ServerOf(w) # ServerOf(op.src)
         /\ Placed /\ Clear(d) /\ db[ServerOf(op.src)][d] # None
              => Serves(Home(ServerOf(w)), ServerOf(w), d)
<1> DEFINE s == ServerOf(op.src)
           t == ServerOf(w)
<1>1. /\ ring \subseteq Labels /\ op \in OpType /\ OpFitsRing
      /\ op.kind \in {"add", "remove"} /\ op.stage = "move"
      /\ Placed => DocsAtHome
  BY Parts DEF Running, Transferring
<1>2. s \in Servers /\ t \in Servers
  BY <1>1, OpCases, LabelIs
<1>3. IsRing(ring) /\ Null \notin ring /\ DocHash[d] \in Nat
  BY <1>1, RingIsRing, DocHashType
<1>4. CASE op.kind = "add"
  <2>1. w = op.dest /\ Leaves(op.src, op.dest, d)
    BY <1>4 DEF Goes
  <2>2. t # s /\ IsNext(ring, w, op.src) /\ op.src # w
    BY <1>4, <2>1, DuringAdd
  <2>3. ASSUME DocsAtHome, Clear(d), db[s][d] # None
        PROVE  Serves(Home(t), t, d)
    <3>1. Serves(ring \ {w}, s, d)
      BY <1>1, <1>2, <1>4, <2>1, <2>3 DEF DocsAtHome, Home
    <3>2. PICK y \in ring \ {w} : ServerOf(y) = s /\ IsOwner(ring \ {w}, y, d)
      BY <3>1 DEF Serves
    <3>3. ShouldMove(op.src, w, d) /\ y = op.src
      BY <1>4, <2>1, <2>3, <3>2, LeavesFromOwner
    <3>4. LabelHash[w] # DocHash[d]
      BY <1>1, <2>3 DEF Clear, Untied
    <3>5. IsOwner(ring, w, d)
      BY <1>3, <2>2, <3>2, <3>3, <3>4, ShouldMoveIsRight
    <3>6. Home(t) = ring
      BY <1>1, <1>4, <2>2 DEF Home
    <3> QED BY <3>5, <3>6 DEF Serves
  <2> QED BY <1>1, <1>2, <2>2, <2>3
<1>5. CASE op.kind = "remove"
  <2>1. w = PickDest(d, s, op.dests)
    BY <1>5 DEF Goes
  <2>2. Null \notin {op.dests[0], op.dests[1], op.dests[2]} /\ w # Null
    BY <1>3, <1>5, DuringRemove, ReplicasAre
  <2>3. t # s
    BY <2>1, <2>2, PickDestChooses
  <2>4. ASSUME Placed, Clear(d), db[s][d] # None
        PROVE  Serves(Home(t), t, d)
    <3>1. Serves(ring, s, d)
      BY <1>1, <1>2, <1>5, <2>4 DEF DocsAtHome, Home
    <3>2. Clean
      BY <2>4 DEF Placed
    <3>3. IsOwner(ring \ LabelsOf(s), w, d)
      BY <1>5, <2>1, <2>2, <2>4, <3>1, <3>2, RemovedInherits
    <3>4. Home(t) = ring \ LabelsOf(s)
      BY <1>1, <1>5, <2>3 DEF Home
    <3> QED BY <3>3, <3>4 DEF Serves, IsOwner
  <2> QED BY <1>2, <2>3, <2>4
<1> QED BY <1>1, <1>4, <1>5

(* A document that moves arrives alone, and no cache of its destination    *)
(* knows it.                                                               *)
LEMMA MoveOneKeeps ==
  ASSUME IInv, NEW d \in Docs, MoveOne(d)
  PROVE  IInv'
<1>1. PICK w \in ring : /\ Goes(d, w)
                        /\ MoveDocument(ServerOf(op.src), ServerOf(w), d)
  BY DEF MoveOne
<1> DEFINE src == ServerOf(op.src)
           dest == ServerOf(w)
<1>2. /\ Transferring("move") /\ db[src][d] # None
      /\ UNCHANGED <<ring, op, reply>>
  BY DEF MoveOne, ToMove, Stored
<1>3. /\ src \in Servers /\ dest \in Servers /\ src # dest
      /\ Placed /\ Clear(d) => Serves(Home(dest), dest, d)
  BY <1>1, <1>2, GoesHome
<1>4. /\ ServersOK
      /\ ring \subseteq Labels /\ op \in OpType /\ reply \in ReplyType
      /\ IsFiniteSet(ring)
      /\ OpFitsRing /\ ServersWhole /\ QueuedAtHome
      /\ Placed => DocsAtHome
      /\ SingleHolder /\ CacheCoherent
  BY <1>2, Parts DEF Running, Transferring
<1>5. queue[src] = << >>
  BY <1>2, <1>4 DEF OpFitsRing
<1> HIDE DEF src, dest
<1>6. MoveDocument(src, dest, d)
  BY <1>1 DEF src, dest
<1>7. /\ ServersOK'
      /\ queue' = queue
      /\ db'[dest][d] = db[src][d] /\ db'[src][d] = None
      /\ \A x \in Servers, f \in Docs :
           f # d \/ x \notin {src, dest} => db'[x][f] = db[x][f]
      /\ ~Cached(cache'[src], d)
      /\ \A x \in Servers, f \in Docs :
           f # d \/ x # src => cache'[x].val[f] = cache[x].val[f]
  BY <1>3, <1>4, <1>6, MoveKeeps
<1>8. /\ QueueHome' = QueueHome /\ \A x \in Servers : Home(x)' = Home(x)
      /\ Placed' <=> Placed
  BY <1>2, SameClean DEF Home, QueueHome
<1>9. OpFitsRing' /\ ServersWhole'
  BY <1>2, <1>4, <1>7 DEF OpFitsRing, ServersWhole, Arriving, Complete, Absent,
                          IsDestination, Transferring
<1>10. ASSUME Placed
       PROVE  DocsAtHome'
  <2>1. SUFFICES ASSUME NEW x \in Servers, NEW f \in Docs,
                        Clear(f), db'[x][f] # None
                 PROVE  Serves(Home(x), x, f)
    BY <1>8 DEF DocsAtHome
  <2> QED BY <1>3, <1>4, <1>7, <1>10, <2>1 DEF DocsAtHome
<1>11. QueuedAtHome'
  BY <1>4, <1>7, <1>8 DEF QueuedAtHome
<1>12. Clear(d) => \A x \in Servers : Holds(x, d) => x = src
  BY <1>2, <1>3, <1>4 DEF SingleHolder, Holds, src
<1>13. SingleHolder'
  <2>1. SUFFICES ASSUME NEW f \in Docs, Clear(f), NEW x \in Servers,
                        NEW y \in Servers, Holds(x, f)', Holds(y, f)'
                 PROVE  x = y
    BY DEF SingleHolder, Clear, Untied
  <2>2. db[src][d] # None
    BY <1>2 DEF src
  <2>3. /\ \A z \in Servers : z = src => ~Holds(z, d)'
        /\ \A z \in Servers, g \in Docs :
             g # d \/ z \notin {src, dest} => (Holds(z, g)' <=> Holds(z, g))
    BY <1>3, <1>4, <1>5, <1>6, <2>2, MoveShows
  <2>4. CASE f # d
    BY <1>4, <2>1, <2>3, <2>4 DEF SingleHolder
  <2>5. CASE f = d
    <3>1. SUFFICES \A z \in Servers : Holds(z, d)' => z = dest
      BY <2>1, <2>5
    <3>2. ASSUME NEW z \in Servers, Holds(z, d)', z # dest
          PROVE  FALSE
      <4>1. z # src
        BY <2>3, <3>2
      <4>2. Holds(z, d)
        BY <2>3, <3>2, <4>1
      <4> QED BY <1>12, <2>1, <2>5, <4>1, <4>2
    <3> QED BY <3>2
  <2> QED BY <2>4, <2>5
<1>14. CacheCoherent'
  <2>1. SUFFICES ASSUME NEW x \in Servers, NEW f \in Docs,
                        Clear(f), Cached(cache[x], f)'
                 PROVE  cache'[x].val[f] = db'[x][f]
    BY DEF CacheCoherent
  <2>2. f # d \/ x # src
    BY <1>7, <2>1 DEF Cached
  <2>3. Cached(cache[x], f) /\ cache'[x].val[f] = cache[x].val[f]
    BY <1>7, <2>1, <2>2 DEF Cached
  <2>4. cache[x].val[f] = db[x][f] /\ db[x][f] # None
    BY <1>4, <2>1, <2>3 DEF CacheCoherent, Cached
  <2>5. f # d \/ x \notin {src, dest}
    BY <1>3, <1>12, <2>1, <2>2, <2>4 DEF Holds
  <2> QED BY <1>7, <2>3, <2>4, <2>5
<1> QED BY <1>2, <1>4, <1>7, <1>8, <1>9, <1>10, <1>11, <1>13, <1>14, PartsNext

(* When nothing is left to move, what the source kept is its own: of the   *)
(* label before which the other joined, or of another of its labels.       *)
LEMMA FinishJoinKeeps ==
  ASSUME IInv, FinishJoin
  PROVE  IInv'
<1> DEFINE s == ServerOf(op.src)
           z == op.dest
<1>1. /\ op.kind = "add" /\ op.stage = "move" /\ ToMove = {}
      /\ op' = Joined(z)
      /\ UNCHANGED <<serverVars, ring, reply>>
  BY DEF FinishJoin, Transferring
<1>2. /\ ring \subseteq Labels /\ op \in OpType /\ reply \in ReplyType
      /\ IsFiniteSet(ring)
      /\ OpFitsRing /\ ServersWhole /\ DocsAtHome /\ QueuedAtHome
  BY <1>1, Parts DEF Running, Placed, Transferring, Clean
<1>3. ServersOK' /\ SingleHolder' /\ CacheCoherent'
  BY <1>1, SameServers
<1>4. /\ z \in ring /\ op.src \in ring /\ op.src # z
      /\ s # ServerOf(z) /\ s \in Servers /\ ServerOf(z) \in Servers
      /\ IsNext(ring, z, op.src)
  BY <1>1, DuringAdd
<1>5. queue[s] = << >> /\ z \in Labels
  BY <1>1, <1>2, <1>4 DEF OpFitsRing, Transferring
<1>6. op' \in OpType /\ op'.kind \in {"idle", "join"}
  BY <1>1, <1>5, JoinedType
<1>7. /\ QueueHome = ring \ {z} /\ QueueHome' = ring
      /\ \A x \in Servers : /\ Home(x)' = ring
                            /\ x # s => Home(x) = ring
                            /\ x = s => Home(x) = ring \ {z}
  BY <1>1, <1>6 DEF Home, QueueHome
<1>8. OpFitsRing'
  BY <1>6 DEF OpFitsRing, Transferring
<1>9. ServersWhole'
  <2>1. z[2] \in {0, 1, 2}
    BY <1>5, LabelIs, ReplicasAre
  <2>2. {j \in Replicas : j <= z[2]} =
          {j \in Replicas : j < z[2] \/ (j = z[2] /\ op.kind = "add")}
    BY <1>1, <2>1, ReplicasAre
  <2>3. LabelsOf(ServerOf(z)) \intersect ring =
          {<<ServerOf(z), i>> : i \in {j \in Replicas : j <= z[2]}}
    BY <1>1, <1>2, <1>4, <2>2 DEF ServersWhole, Arriving
  <2>4. \A t \in Servers \ {ServerOf(z)} :
          LabelsOf(t) \subseteq ring \/ LabelsOf(t) \intersect ring = {}
    BY <1>1, <1>2 DEF ServersWhole, Arriving, Complete, Absent
  <2> QED BY <1>1, <1>5, <2>3, <2>4, JoinedWhole
<1> HIDE DEF s, z
<1>10. DocsAtHome'
  <2>1. SUFFICES ASSUME NEW x \in Servers, NEW d \in Docs,
                        Clear(d), db[x][d] # None
                 PROVE  Serves(ring, x, d)
    BY <1>1, <1>7 DEF DocsAtHome, serverVars
  <2>2. Serves(Home(x), x, d)
    BY <1>2, <2>1 DEF DocsAtHome
  <2>3. CASE x # s
    BY <1>7, <2>2, <2>3
  <2>4. CASE x = s
    <3>1. PICK y \in ring \ {z} : ServerOf(y) = s /\ IsOwner(ring \ {z}, y, d)
      BY <1>7, <2>2, <2>4 DEF Serves
    <3>2. IsRing(ring) /\ DocHash[d] \in Nat
      BY <1>2, RingIsRing, DocHashType
    <3>3. CASE y # op.src
      <4>1. IsOwner(ring, y, d)
        BY <1>4, <3>1, <3>2, <3>3, JoinSparesOthers
      <4> QED BY <2>4, <3>1, <4>1 DEF Serves
    <3>4. CASE y = op.src
      <4>1. ~Leaves(op.src, z, d)
        <5>1. d \in Stored(ServerOf(op.src))
          BY <2>1, <2>4 DEF Stored, s
        <5>2. ~Goes(d, z)
          BY <1>1, <1>4, <5>1 DEF ToMove
        <5> QED BY <1>1, <5>2 DEF Goes, z
      <4>2. ~ShouldMove(op.src, z, d)
        BY <1>1, <2>1, <3>1, <3>4, <4>1, LeavesFromOwner DEF s, z
      <4>3. LabelHash[z] # DocHash[d]
        BY <1>5, <2>1 DEF Clear, Untied
      <4>4. IsOwner(ring, op.src, d)
        BY <1>4, <3>1, <3>2, <3>4, <4>2, <4>3, ShouldMoveIsRight
      <4> QED BY <2>4, <3>1, <3>4, <4>4 DEF Serves
    <3> QED BY <3>3, <3>4
  <2> QED BY <2>3, <2>4
<1>11. QueuedAtHome'
  <2>1. SUFFICES ASSUME NEW x \in Servers, NEW i \in DOMAIN queue[x]
                 PROVE  Serves(ring, x, queue[x][i].doc)
    BY <1>1, <1>7 DEF QueuedAtHome, serverVars
  <2>2. x # s /\ queue[x][i].doc \in Docs
    BY <1>5, <2>1, QueuedDocs
  <2>3. Serves(ring \ {z}, x, queue[x][i].doc)
    BY <1>2, <1>7 DEF QueuedAtHome
  <2> QED BY <1>2, <1>4, <2>2, <2>3, JoinKeepsServes DEF s
<1> QED BY <1>1, <1>2, <1>3, <1>6, <1>8, <1>9, <1>10, <1>11, PartsNext

(* The server that leaves has nothing any more; a removal that leaves a    *)
(* server in pieces ends the run.                                          *)
LEMMA FinishRemoveKeeps ==
  ASSUME IInv, FinishRemove
  PROVE  IInv'
<1> DEFINE s == ServerOf(op.src)
<1>1. /\ op.kind = "remove" /\ op.stage = "move" /\ ToMove = {}
      /\ ring' = ring \ Erased(op.asked) /\ reply' = reply
  BY DEF FinishRemove, Transferring
<1>2. CASE ~Whole(ring')
  BY <1>1, <1>2, HaltKeeps DEF FinishRemove, Reasons
<1>3. CASE Whole(ring')
  <2>1. Clean
    BY <1>1, <1>3 DEF Clean
  <2>2. op' = Idle /\ ResetServer(s, 0)
    BY <1>3 DEF FinishRemove, FreeServer
  <2>3. /\ ServersOK
        /\ ring \subseteq Labels /\ reply \in ReplyType /\ IsFiniteSet(ring)
        /\ OpFitsRing /\ ServersWhole /\ DocsAtHome /\ QueuedAtHome
        /\ SingleHolder /\ CacheCoherent
    BY <1>1, <2>1, Parts DEF Running, Placed
  <2>4. s \in Servers /\ ring' = ring \ LabelsOf(s)
    BY <1>1, <2>1, DuringRemove, CleanErases
  <2>5. ring' \subseteq Labels /\ IsFiniteSet(ring')
    BY <2>3, <2>4, FS_Subset
  <2> HIDE DEF s
  <2>6. /\ ServersOK'
        /\ db'[s] = NoDocs /\ queue'[s] = << >>
        /\ \A d \in Docs : ~Cached(cache'[s], d)
        /\ \A x \in Servers \ {s} : /\ db'[x] = db[x]
                                    /\ queue'[x] = queue[x]
                                    /\ cache'[x] = cache[x]
    BY <2>2, <2>3, <2>4, ResetKeeps
  <2>7. \A d \in Docs : db'[s][d] = None
    BY <2>6 DEF NoDocs
  <2>8. op' \in OpType /\ op'.kind = "idle"
    BY <2>2, Idling
  <2>9. /\ QueueHome = ring /\ QueueHome' = ring'
        /\ \A x \in Servers : /\ Home(x)' = ring'
                              /\ x # s => Home(x) = ring'
    BY <1>1, <2>4, <2>8 DEF Home, QueueHome, s
  <2>10. OpFitsRing'
    BY <2>8 DEF OpFitsRing, Transferring
  <2>11. ServersWhole'
    <3>1. ASSUME NEW t \in Servers, ~Absent(t)'
          PROVE  Complete(t)'
      <4>1. PICK y \in ring' : y \in LabelsOf(t)
        BY <3>1 DEF Absent
      <4>2. ServerOf(y) = t
        BY <2>5, <4>1, LabelOfServer
      <4> QED BY <1>3, <4>2 DEF Whole, Complete
    <3> QED BY <2>8, <3>1 DEF ServersWhole, Arriving
  <2>12. DocsAtHome'
    <3>1. SUFFICES ASSUME NEW x \in Servers, NEW d \in Docs,
                          Clear(d), db'[x][d] # None
                   PROVE  Serves(ring', x, d)
      BY <2>9 DEF DocsAtHome
    <3>2. x # s /\ db[x][d] # None
      BY <2>6, <2>7, <3>1
    <3> QED BY <2>3, <2>9, <3>1, <3>2 DEF DocsAtHome
  <2>13. QueuedAtHome'
    <3>1. SUFFICES ASSUME NEW x \in Servers, NEW i \in DOMAIN queue'[x]
                   PROVE  Serves(ring', x, queue'[x][i].doc)
      BY <2>9 DEF QueuedAtHome
    <3>2. x # s /\ queue'[x] = queue[x]
      BY <2>6, <3>1
    <3>3. Serves(ring, x, queue[x][i].doc) /\ queue[x][i].doc \in Docs
      BY <2>3, <2>9, <3>1, <3>2, QueuedDocs DEF QueuedAtHome
    <3> QED BY <2>3, <2>4, <3>2, <3>3, LeaveKeepsServes
  <2>14. SingleHolder'
    <3>1. \A x \in Servers, d \in Docs : Holds(x, d)' => Holds(x, d)
      BY <2>2, <2>3, <2>4, ResetShows
    <3> QED BY <2>3, <3>1 DEF SingleHolder, Clear, Untied
  <2>15. CacheCoherent'
    BY <2>3, <2>6 DEF CacheCoherent, Cached
  <2> QED BY <1>1, <2>3, <2>5, <2>6, <2>8, <2>10, <2>11, <2>12, <2>13, <2>14,
             <2>15, PartsNext
<1> QED BY <1>2, <1>3

-----------------------------------------------------------------------------

(* The cluster, before the first request. *)
LEMMA InitHolds ==
  ASSUME Init
  PROVE  IInv
<1>1. CacheOK(EmptyCache(0)) /\ \A d \in Docs : ~Cached(EmptyCache(0), d)
  BY EmptyCacheOK
<1>2. ServersOK
  <2>1. << >> \in Seq(EditRequest) /\ Len(<< >>) <= TaskQueueSize
    BY EmptySeq, QueueAssumption
  <2>2. NoDocs \in [Docs -> MaybeContent]
    BY DEF NoDocs, MaybeContent
  <2> HIDE DEF NoDocs
  <2> QED BY <1>1, <2>1, <2>2 DEF Init, ServersOK, ServerTypeOK, CacheOK
<1>3. op \in OpType /\ op.kind = "idle" /\ ring \subseteq Labels /\ ring = {}
  BY Idling DEF Init
<1>4. reply \in ReplyType
  BY DEF Init, NoReply, Reply, ReplyType, MaybeContent
<1>5. OpFitsRing /\ ServersWhole
  BY <1>3 DEF OpFitsRing, Transferring, ServersWhole, Arriving, Complete, Absent
<1>6. DocsAtHome /\ QueuedAtHome
  BY DEF Init, DocsAtHome, QueuedAtHome, NoDocs
<1>7. SingleHolder /\ CacheCoherent
  BY <1>1 DEF Init, SingleHolder, CacheCoherent, NoDocs, Holds, Waiting
<1>8. IsFiniteSet(ring)
  BY <1>3, FS_EmptySet
<1> QED BY <1>2, <1>3, <1>4, <1>5, <1>6, <1>7, <1>8, Parts

(* A step of nothing. *)
LEMMA StutterKeeps ==
  ASSUME IInv, UNCHANGED vars
  PROVE  IInv'
<1>1. UNCHANGED serverVars /\ ring' = ring /\ op' = op /\ reply' = reply
  BY DEF vars
<1>2. ServersOK' /\ SingleHolder' /\ CacheCoherent'
  BY <1>1, SameServers
<1>3. (Running' <=> Running) /\ (Placed' <=> Placed)
  BY <1>1, SameClean DEF Running
<1>4. OpFitsRing => OpFitsRing'
  BY <1>1 DEF serverVars, OpFitsRing, Transferring, IsDestination
<1>5. ServersWhole => ServersWhole'
  BY <1>1 DEF ServersWhole, Arriving, Complete, Absent
<1>6. QueuedAtHome => QueuedAtHome'
  BY <1>1 DEF serverVars, QueuedAtHome, QueueHome
<1>7. DocsAtHome => DocsAtHome'
  BY <1>1 DEF serverVars, DocsAtHome, Home
<1> QED BY <1>1, <1>2, <1>3, <1>4, <1>5, <1>6, <1>7, Parts, PartsNext

(* Every step of the program, and a step of nothing, keeps IInv. *)
LEMMA NextKeeps ==
  ASSUME IInv, [Next]_vars
  PROVE  IInv'
<1>1. CASE UNCHANGED vars
  BY <1>1, StutterKeeps
<1>2. CASE Request
  <2>1. ASSUME NEW d \in Docs, EditOverflows(d)
        PROVE  IInv'
    BY <2>1, HaltKeeps DEF EditOverflows, Reasons
  <2>2. CASE RemoveFromNone
    BY <2>2, HaltKeeps DEF RemoveFromNone, Reasons
  <2> QED BY <1>2, <2>1, <2>2, EditKeeps, GetRequestKeeps, RefuseKeeps,
             AddServerKeeps, RemoveServerKeeps, ShutdownKeeps DEF Request
<1>3. CASE Progress
  <2>1. CASE Crash
    BY <2>1, HaltKeeps DEF Crash, Reasons
  <2>2. CASE NoDestination
    BY <2>2, HaltKeeps DEF NoDestination, Reasons
  <2> QED BY <1>3, <2>1, <2>2, JoinLabelKeeps, SolveTaskKeeps, AnswerKeeps,
             StartMovingKeeps, MoveOneKeeps, FinishJoinKeeps,
             FinishRemoveKeeps DEF Progress
<1>4. CASE Stopped
  BY <1>1, <1>4 DEF Stopped
<1> QED BY <1>1, <1>2, <1>3, <1>4 DEF Next

(* IInv holds in every state of every run, also in the middle of a removal *)
(* of an unknown id.                                                       *)
THEOREM Invariance == Spec => []IInv
<1>1. Init => IInv
  BY InitHolds
<1>2. IInv /\ [Next]_vars => IInv'
  BY NextKeeps
<1> QED BY <1>1, <1>2, PTL DEF Spec

(* Every variable keeps its type: no step leaves the states the model      *)
(* speaks of, and no queue exceeds TASK_QUEUE_SIZE.                        *)
THEOREM TypeCorrect == Spec => []TypeOK
<1>1. IInv => TypeOK
  BY DEF IInv
<1> QED BY <1>1, Invariance, PTL

(* Between transfers Members is what Home says of every server. *)
LEMMA RestAtHome ==
  ASSUME IInv, AtRest
  PROVE  /\ DocsAtHome /\ QueuedAtHome
         /\ QueueHome = Members
         /\ \A s \in Servers : Home(s) = Members
<1>1. op.kind \in {"idle", "get", "join"} \/ (op.kind \in {"add", "remove"} /\ op.stage = "solve")
  BY DEF AtRest, Transferring
<1>2. Placed
  BY <1>1 DEF Placed, Running, Transferring
<1>3. QueueHome = Members /\ \A s \in Servers : Home(s) = Members
  BY <1>1 DEF Home, QueueHome, Members
<1> QED BY <1>2, <1>3, Parts DEF Placed

(* Every document is stored on the server to which a GET of it is          *)
(* forwarded, also between the three joins of a server.                    *)
THEOREM PlacementHolds == Spec => []Placement
<1>1. IInv => Placement
  BY RestAtHome DEF Placement, DocsAtHome
<1> QED BY <1>1, Invariance, PTL

(* No GET overtakes an edit: every waiting edit is in the queue that a GET *)
(* of its document drains, tied documents included.                        *)
THEOREM QueuedAtOwnerHolds == Spec => []QueuedAtOwner
<1>1. IInv => QueuedAtOwner
  BY RestAtHome DEF QueuedAtOwner, QueuedAtHome
<1> QED BY <1>1, Invariance, PTL

(* No document is ever on two servers, not even while a removal spreads    *)
(* the documents of one over three.                                        *)
THEOREM SingleCopyHolds == Spec => []SingleCopy
<1>1. IInv => SingleCopy
  BY DEF IInv, SingleCopy, SingleHolder, Holds
<1> QED BY <1>1, Invariance, PTL

(* A cache never answers with anything but what its server stores. *)
THEOREM CacheCoherentHolds == Spec => []CacheCoherent
<1>1. IInv => CacheCoherent
  BY DEF IInv
<1> QED BY <1>1, Invariance, PTL

(* pick_dest, given the three labels after those of a server that is on    *)
(* the ring, finds none of another server only if there is none.           *)
LEMMA ExitsAlone ==
  ASSUME IInv, op.kind = "remove", NoDestination,
         LabelsOf(op.asked) \subseteq ring
  PROVE  \A x \in ring : ServerOf(x) = op.asked
<1> DEFINE s == ServerOf(op.src)
           r == [i \in Replicas |-> <<s, i>>]
<1>1. PICK d \in Docs : Null = PickDest(d, s, op.dests)
  BY DEF NoDestination, ToMove, Stored, Goes
<1>2. /\ s \in Servers /\ LabelsOf(s) \subseteq ring
      /\ \A i \in Replicas : op.dests[i] \in ring
      /\ Known \/ Unknown
  BY DuringRemove
<1>3. ring \subseteq Labels /\ IsRing(ring) /\ Null \notin ring
  BY Parts, RingIsRing
<1>4. Known
  <2>1. <<op.asked, 0>> \in LabelsOf(op.asked)
    BY ReplicasAre DEF LabelsOf
  <2> QED BY <1>2, <2>1 DEF Unknown, Absent
<1>5. \A i \in Replicas : ServerOf(op.dests[i]) = s
  <2>1. Null \notin {op.dests[0], op.dests[1], op.dests[2]}
    BY <1>2, <1>3, ReplicasAre
  <2> QED BY <1>1, <2>1, PickDestChooses
<1>6. /\ {y \in ring : ServerOf(y) = s} = {r[0], r[1], r[2]}
      /\ \A i \in Replicas : IsNext(ring, r[i], op.dests[i])
  <2>1. LabelsOf(s) = {y \in ring : ServerOf(y) = s}
    BY <1>2, <1>3, LabelOfServer
  <2>2. r[0] = <<s, 0>> /\ r[1] = <<s, 1>> /\ r[2] = <<s, 2>>
    BY ReplicasAre
  <2>3. \A i \in Replicas : IsNext(ring, r[i], op.dests[i])
    BY <1>4 DEF Known
  <2> QED BY <2>1, <2>2, <2>3, ThreeLabels
<1> HIDE DEF s, r
<1>7. \A x \in ring : ServerOf(x) = s
  BY <1>3, <1>5, <1>6, DestinationExists
<1> QED BY <1>4, <1>7 DEF Known, s

(* In the middle of a removal the program exits only when the server is    *)
(* alone, whatever the hashes of its labels and of the others.             *)
THEOREM NoDestinationHolds == Spec => NoDestinationOnlyAlone
<1> DEFINE Exits == op' = Halted("no destination")
           Alone == op.kind = "remove" /\ Exits /\ LabelsOf(op.asked) \subseteq ring
                      => \A x \in ring : ServerOf(x) = op.asked
<1>1. ASSUME IInv, [Next]_vars
      PROVE  Alone \/ UNCHANGED vars
  <2>1. SUFFICES ASSUME op.kind = "remove", Exits,
                        LabelsOf(op.asked) \subseteq ring,
                        Next, ~NoDestination
                 PROVE  FALSE
    BY <1>1, ExitsAlone
  <2>2. op'.kind = "halted" /\ op'.why = "no destination"
    BY <2>1, Halting DEF Reasons
  <2>3. Progress
    BY <2>1, Idling DEF Next, Stopped, Request, Edit, EditOverflows, Get, Refuse,
                        AddServer, RemoveServer, RemoveFromNone, Shutdown
  <2>4. op' # op
    BY <2>1, <2>2
  <2>5. ~SolveTask /\ ~Answer /\ ~JoinLabel /\ ~FinishJoin
    BY <2>1, <2>4 DEF SolveTask, Answer, JoinLabel, FinishJoin
  <2>6. \A d \in Docs : ~MoveOne(d)
    BY <2>4 DEF MoveOne
  <2>7. ~Crash
    BY <2>2, Halting DEF Crash, Reasons
  <2>8. ~StartMoving
    BY <1>1, <2>1, <2>2, Parts, MovingType DEF StartMoving
  <2>9. ~FinishRemove
    BY <2>2, Halting, Idling DEF FinishRemove, Reasons
  <2> QED BY <2>1, <2>3, <2>5, <2>6, <2>7, <2>8, <2>9 DEF Progress
<1>2. IInv /\ [Next]_vars => [Alone]_vars
  BY <1>1
<1> QED BY <1>2, Invariance, PTL DEF Spec, NoDestinationOnlyAlone

-----------------------------------------------------------------------------
(* The cluster is one document store: every step of the program is a step  *)
(* of DocStore or leaves its variables as they are. A document whose hash  *)
(* is the one of a label is no part of this: see Clear.                    *)

shown == <<[d \in Docs |-> Latest(d)], ring # {}, reply>>

LEMMA OneHolder ==
  ASSUME IInv, NEW d \in Docs, Clear(d)
  PROVE  \A s, t \in Servers : Holds(s, d) /\ Holds(t, d) => s = t
BY Parts DEF SingleHolder

(* Nothing is stored where there is no ring. *)
LEMMA NothingWithoutServers ==
  ASSUME IInv, Running, ring = {}, \A d \in Docs : Clear(d)
  PROVE  \A d \in Docs : Latest(d) = None
<1>1. OpFitsRing /\ QueuedAtHome /\ (Placed => DocsAtHome)
  BY Parts
<1>2. Placed
  BY <1>1 DEF Placed, OpFitsRing, Clean
<1>3. QueueHome = {} /\ \A s \in Servers : Home(s) = {}
  BY DEF QueueHome, Home
<1>4. ASSUME NEW s \in Servers, NEW d \in Docs
      PROVE  ~Holds(s, d)
  BY <1>1, <1>2, <1>3 DEF Holds, Waiting, QueuedAtHome, DocsAtHome, Serves
<1> QED BY <1>4, LatestIsNone

LEMMA ShownStays ==
  ASSUME \A d \in Docs : Latest(d)' = Latest(d),
         ring' = {} <=> ring = {}, reply' = reply
  PROVE  UNCHANGED shown
<1>1. [d \in Docs |-> Latest(d)]' = [d \in Docs |-> Latest(d)]
  OBVIOUS
<1>2. (ring # {})' = (ring # {})
  OBVIOUS
<1> QED BY <1>1, <1>2 DEF shown

(* A step that touches neither databases nor queues. *)
LEMMA SameServersShow ==
  ASSUME db' = db, queue' = queue, ring' = {} <=> ring = {}, reply' = reply
  PROVE  UNCHANGED shown
BY CachesDoNotShow, ShownStays

LEMMA InitIsEmptyStore ==
  ASSUME Init
  PROVE  Store!Init
<1>1. \A s \in Servers, d \in Docs : Waiting(s, d) = {} /\ db[s][d] = None
  BY DEF Init, Waiting, NoDocs
<1>2. \A d \in Docs : Latest(d) = None
  BY <1>1, LatestIsNone DEF Holds
<1>3. [d \in Docs |-> Latest(d)] = Store!Empty
  BY <1>2 DEF Store!Empty
<1> QED BY <1>3 DEF Init, NoReply, Reply, Store!Init

(* An EDIT that is acknowledged is the content of its document from then   *)
(* on, although it only waits in a queue.                                  *)
LEMMA EditWrites ==
  ASSUME IInv, IInv', NEW d \in Docs, NEW c \in Contents, Edit(d, c),
         \A f \in Docs : Clear(f)
  PROVE  Store!Write(d, c)
<1>1. PICK y \in ring : Enqueue(ServerOf(y), d, c)
  BY DEF Edit
<1> DEFINE s == ServerOf(y)
<1>2. reply' = Reply("queued", d, c) /\ ring' = ring
  BY DEF Edit
<1>3. ServersOK /\ s \in Servers
  BY Parts, LabelIs
<1>4. /\ Answers(s, d)' = c
      /\ \A x \in Servers, f \in Docs :
           Holds(x, f)' <=> Holds(x, f) \/ (x = s /\ f = d)
      /\ \A x \in Servers, f \in Docs :
           f # d => Answers(x, f)' = Answers(x, f)
  BY <1>1, <1>3, EnqueueShows
<1> HIDE DEF s
<1>5. Latest(d)' = c
  <2>1. \A x, z \in Servers : Holds(x, d)' /\ Holds(z, d)' => x = z
    BY DEF IInv, SingleHolder, Clear, Untied
  <2>2. \A x \in Servers : Holds(x, d)' => x = s
    BY <1>3, <1>4, <2>1
  <2> QED BY <1>3, <1>4, <2>2, LatestIsNext
<1>6. ASSUME NEW f \in Docs, f # d
      PROVE  Latest(f)' = Latest(f)
  BY <1>4, <1>6, OneHolder, LatestStays
<1>7. [f \in Docs |-> Latest(f)]' = [[f \in Docs |-> Latest(f)] EXCEPT ![d] = c]
  BY <1>5, <1>6
<1> QED BY <1>1, <1>2, <1>7 DEF Store!Write, Store!Answered, Reply

(* A GET prints the content of the last EDIT: the server it was forwarded  *)
(* to has it, in the database or in the cache, and no edit waits.          *)
LEMMA AnswerReads ==
  ASSUME IInv, Answer, \A f \in Docs : Clear(f)
  PROVE  Store!Read(op.doc)
<1> DEFINE s == ServerOf(op.src)
           d == op.doc
<1>1. /\ op.kind = "get" /\ queue[s] = << >>
      /\ GetDocument(s, d)
      /\ reply' = Reply("content", d, Content(s, d))
      /\ ring' = ring
  BY DEF Answer
<1>2. /\ op \in OpType /\ ring \subseteq Labels
      /\ OpFitsRing /\ CacheCoherent
  BY <1>1, Parts DEF Running
<1>3. /\ op.src \in ring /\ s \in Servers /\ d \in Docs
      /\ Serves(ring, s, d) /\ Clear(d)
  BY <1>1, <1>2, OpCases, LabelIs DEF OpFitsRing, IsOwner, Serves
<1> HIDE DEF s, d
<1>4. \A t \in Servers : Holds(t, d) => t = s
  BY <1>1, <1>2, <1>3, HolderServes, ServesUnique
<1>5. Latest(d) = Answers(s, d)
  BY <1>3, <1>4, LatestIs
<1>6. Waiting(s, d) = {}
  BY <1>1 DEF Waiting
<1>7. Latest(d) = Content(s, d)
  BY <1>2, <1>3, <1>5, <1>6 DEF Answers, Content, CacheCoherent
<1>8. \A f \in Docs : Latest(f)' = Latest(f)
  BY <1>1, CachesDoNotShow DEF GetDocument
<1>9. [f \in Docs |-> Latest(f)]' = [f \in Docs |-> Latest(f)]
  BY <1>8
<1>10. [f \in Docs |-> Latest(f)][d] = Latest(d)
  BY <1>3
<1>11. Store!Read(d)
  BY <1>1, <1>3, <1>7, <1>9, <1>10 DEF Store!Read, Store!Answered, Reply
<1> QED BY <1>11 DEF d

(* A server that is made has nothing, and had nothing. *)
LEMMA AddServerStutters ==
  ASSUME IInv, NEW s \in Servers, NEW n \in CacheSizes, AddServer(s, n),
         \A f \in Docs : Clear(f)
  PROVE  UNCHANGED shown
<1>1. /\ op = Idle /\ LabelsOf(s) \intersect ring = {}
      /\ ResetServer(s, n) /\ n \in Nat
      /\ ring' = ring /\ reply' = reply
  BY CacheSizesAssumption DEF AddServer
<1>2. ServersOK /\ ring \subseteq Labels
  BY Parts
<1>3. \A f \in Docs : ~Serves(ring, s, f)
  BY <1>1, <1>2, LabelOfServer DEF Serves
<1>4. \A f \in Docs : ~Holds(s, f)
  BY <1>1, <1>3, HolderServes, Idling
<1>5. ASSUME NEW f \in Docs
      PROVE  Latest(f)' = Latest(f)
  <2>1. \A x \in Servers : Holds(x, f)' <=> Holds(x, f)
    BY <1>1, <1>2, <1>4, ResetShows
  <2>2. \A x \in Servers : Holds(x, f) => Answers(x, f)' = Answers(x, f)
    BY <1>1, <1>2, <1>4, ResetShows
  <2> QED BY <2>1, <2>2, OneHolder, LatestStays
<1> QED BY <1>1, <1>5, ShownStays

(* The first label of the first server makes the cluster one. *)
LEMMA JoinLabelOpens ==
  ASSUME JoinLabel
  PROVE  [Store!Next]_shown
<1>1. /\ ring' = ring \union {op.dest} /\ reply' = reply
      /\ db' = db /\ queue' = queue
  BY DEF JoinLabel, serverVars
<1>2. CASE ring = {}
  <2>1. [f \in Docs |-> Latest(f)]' = [f \in Docs |-> Latest(f)]
    BY <1>1, CachesDoNotShow
  <2>2. Store!Open
    BY <1>1, <1>2, <2>1 DEF Store!Open
  <2> QED BY <2>2 DEF Store!Next
<1>3. CASE ring # {}
  BY <1>1, <1>3, SameServersShow
<1> QED BY <1>2, <1>3

(* When the ring becomes empty, so does the store. *)
LEMMA EmptyRingCloses ==
  ASSUME ring # {}, ring' = {}, reply' = reply,
         \A d \in Docs : Latest(d)' = None
  PROVE  Store!Close
<1>1. [d \in Docs |-> Latest(d)]' = Store!Empty
  BY DEF Store!Empty
<1> QED BY <1>1 DEF Store!Close

(* The end of the input, for a ring of any size. *)
LEMMA ShutdownCloses ==
  ASSUME IInv, Shutdown, \A f \in Docs : Clear(f)
  PROVE  [Store!Next]_shown
<1>1. /\ op = Idle /\ ring' = {} /\ reply' = reply
      /\ db' = [s \in Servers |-> NoDocs]
      /\ queue' = [s \in Servers |-> << >>]
  BY DEF Shutdown
<1>2. ASSUME NEW s \in Servers, NEW d \in Docs
      PROVE  ~Holds(s, d)'
  <2>1. db'[s][d] = None /\ queue'[s] = << >>
    BY <1>1 DEF NoDocs
  <2>2. Waiting(s, d)' = {}
    BY <2>1 DEF Waiting
  <2> QED BY <2>1, <2>2 DEF Holds
<1>3. \A d \in Docs : Latest(d)' = None
  BY <1>2, LatestIsNoneNext
<1>4. CASE ring = {}
  <2>1. \A d \in Docs : Latest(d) = None
    BY <1>1, <1>4, Idling, NothingWithoutServers DEF Running
  <2> QED BY <1>1, <1>3, <1>4, <2>1, ShownStays
<1>5. CASE ring # {}
  BY <1>1, <1>3, <1>5, EmptyRingCloses DEF Store!Next
<1> QED BY <1>4, <1>5

(* No client sees that solve_queue applies an edit. *)
LEMMA SolveTaskStutters ==
  ASSUME IInv, SolveTask, \A f \in Docs : Clear(f)
  PROVE  UNCHANGED shown
<1>1. Solving /\ SolveOne(ServerOf(op.src)) /\ UNCHANGED <<ring, op, reply>>
  BY DEF SolveTask
<1>2. ServersOK /\ ServerOf(op.src) \in Servers
  BY <1>1, Parts, OpCases, LabelIs DEF Solving, Transferring
<1>3. \A x \in Servers, f \in Docs :
        (Holds(x, f)' <=> Holds(x, f)) /\ Answers(x, f)' = Answers(x, f)
  BY <1>1, <1>2, SolveShows
<1>4. \A f \in Docs : Latest(f)' = Latest(f)
  BY <1>3, OneHolder, LatestStays
<1> QED BY <1>1, <1>4, ShownStays

(* No client sees that a document moves: the destination had none of it,   *)
(* and no edit of it waited there.                                         *)
LEMMA MoveOneStutters ==
  ASSUME IInv, NEW d \in Docs, MoveOne(d), \A f \in Docs : Clear(f)
  PROVE  UNCHANGED shown
<1>1. PICK w \in ring : /\ Goes(d, w)
                        /\ MoveDocument(ServerOf(op.src), ServerOf(w), d)
  BY DEF MoveOne
<1> DEFINE a == ServerOf(op.src)
           b == ServerOf(w)
<1>2. /\ Transferring("move") /\ db[a][d] # None
      /\ UNCHANGED <<ring, op, reply>>
  BY DEF MoveOne, ToMove, Stored
<1>3. a \in Servers /\ b \in Servers /\ a # b
  BY <1>1, <1>2, GoesHome
<1>4. ServersOK /\ queue[a] = << >>
  BY <1>2, Parts DEF Running, Transferring, OpFitsRing
<1>5. PICK src \in Servers, dest \in Servers : src = a /\ dest = b
  BY <1>3
<1>6. MoveDocument(src, dest, d) /\ src # dest /\ queue[src] = << >> /\ db[src][d] # None
  BY <1>1, <1>2, <1>3, <1>4, <1>5
<1> HIDE DEF a, b
<1>7. /\ ~Holds(src, d)' /\ Holds(dest, d)'
      /\ Waiting(dest, d) = {} => Answers(dest, d)' = Answers(src, d)
      /\ \A x \in Servers, f \in Docs :
           f # d \/ x \notin {src, dest} =>
             (Holds(x, f)' <=> Holds(x, f)) /\ Answers(x, f)' = Answers(x, f)
  BY <1>4, <1>6, MoveShows
<1>8. \A x \in Servers : Holds(x, d) => x = src
  BY <1>6, OneHolder DEF Holds
<1>9. Latest(d)' = Latest(d)
  <2>1. Waiting(dest, d) = {}
    BY <1>6, <1>8 DEF Holds
  <2>2. ASSUME NEW x \in Servers, Holds(x, d)'
        PROVE  x = dest
    <3>1. x # src
      BY <1>7, <2>2
    <3> QED BY <1>7, <1>8, <2>2, <3>1
  <2>3. Latest(d)' = Answers(dest, d)'
    BY <2>2, LatestIsNext
  <2>4. Latest(d) = Answers(src, d)
    BY <1>8, LatestIs
  <2> QED BY <1>7, <2>1, <2>3, <2>4
<1>10. \A f \in Docs \ {d} : Latest(f)' = Latest(f)
  BY <1>7, OneHolder, LatestStays
<1> QED BY <1>2, <1>9, <1>10, ShownStays

(* When nothing is left to move, the source has nothing: for pick_dest     *)
(* every document goes somewhere, or ends the program.                     *)
LEMMA NothingStays ==
  ASSUME IInv, op.kind = "remove", op.stage = "move", ToMove = {}
  PROVE  \A f \in Docs : ~Holds(ServerOf(op.src), f)
<1> DEFINE s == ServerOf(op.src)
<1>1. queue[s] = << >>
  BY Parts DEF Running, Transferring, OpFitsRing
<1>2. /\ \A i \in Replicas : op.dests[i] \in ring
      /\ ring \subseteq Labels /\ Null \notin ring
  BY DuringRemove, Parts, RingIsRing
<1>3. ASSUME NEW f \in Docs, db[s][f] # None
      PROVE  FALSE
  <2>1. PickDest(f, s, op.dests) \in ring \union {Null}
    <3>1. Null \notin {op.dests[0], op.dests[1], op.dests[2]}
      BY <1>2, ReplicasAre
    <3> QED BY <1>2, <3>1, PickDestChooses, ReplicasAre
  <2>2. Goes(f, PickDest(f, s, op.dests))
    BY DEF Goes
  <2>3. f \in Stored(s)
    BY <1>3 DEF Stored
  <2>4. f \in ToMove
    BY <2>1, <2>2, <2>3 DEF ToMove
  <2> QED BY <2>4
<1> QED BY <1>1, <1>3 DEF Holds, Waiting

(* A server that leaves has nothing left; a server in pieces is not the    *)
(* last one.                                                               *)
LEMMA FinishRemoveCloses ==
  ASSUME IInv, FinishRemove, \A f \in Docs : Clear(f)
  PROVE  [Store!Next]_shown
<1> DEFINE s == ServerOf(op.src)
<1>1. /\ op.kind = "remove" /\ op.stage = "move" /\ ToMove = {}
      /\ ring' = ring \ Erased(op.asked) /\ reply' = reply
  BY DEF FinishRemove, Transferring
<1>2. /\ ring # {} /\ s \in Servers /\ ServersOK
      /\ ring \subseteq Labels /\ QueuedAtHome
  BY <1>1, DuringRemove, Parts DEF Running
<1>3. CASE ~Whole(ring')
  <2>1. ring' # {}
    BY <1>3 DEF Whole
  <2>2. db' = db /\ queue' = queue
    BY <1>3 DEF FinishRemove, serverVars
  <2> QED BY <1>1, <1>2, <2>1, <2>2, SameServersShow
<1>4. CASE Whole(ring')
  <2>1. ResetServer(s, 0)
    BY <1>4 DEF FinishRemove, FreeServer
  <2>2. Clean
    BY <1>1, <1>4 DEF Clean
  <2>3. ring' = ring \ LabelsOf(s)
    BY <1>1, <2>2, CleanErases
  <2>4. \A f \in Docs : ~Holds(s, f)
    BY <1>1, NothingStays
  <2> HIDE DEF s
  <2>5. \A x \in Servers, f \in Docs :
          /\ Holds(x, f)' <=> Holds(x, f)
          /\ Holds(x, f) => Answers(x, f)' = Answers(x, f)
    BY <1>2, <2>1, <2>4, ResetShows
  <2>6. CASE ring' # {}
    <3>1. \A f \in Docs : Latest(f)' = Latest(f)
      BY <2>5, OneHolder, LatestStays
    <3> QED BY <1>1, <1>2, <2>6, <3>1, ShownStays
  <2>7. CASE ring' = {}
    <3>1. ASSUME NEW x \in Servers, NEW f \in Docs, Holds(x, f)
          PROVE  FALSE
      <4>1. x # s
        BY <2>4, <3>1
      <4>2. DocsAtHome
        BY <1>1, <2>2, Parts DEF Placed, Running
      <4>3. Home(x) = {} /\ QueueHome = ring
        BY <1>1, <2>3, <2>7, <4>1 DEF Home, QueueHome, s
      <4>4. CASE db[x][f] # None
        BY <4>2, <4>3, <4>4 DEF DocsAtHome, Serves
      <4>5. CASE Waiting(x, f) # {}
        <5>1. Serves(ring, x, f)
          BY <1>2, <4>3, <4>5 DEF QueuedAtHome, Waiting
        <5>2. PICK y \in ring : ServerOf(y) = x
          BY <5>1 DEF Serves
        <5>3. y \in LabelsOf(s)
          BY <2>3, <2>7
        <5> QED BY <1>2, <4>1, <5>2, <5>3, LabelOfServer
      <4> QED BY <3>1, <4>4, <4>5 DEF Holds
    <3>2. \A f \in Docs : Latest(f)' = None
      BY <2>5, <3>1, LatestIsNoneNext
    <3> QED BY <1>1, <1>2, <2>7, <3>2, EmptyRingCloses DEF Store!Next
  <2> QED BY <2>6, <2>7
<1> QED BY <1>3, <1>4

LEMMA StepIsStoreStep ==
  ASSUME IInv, IInv', [Next]_vars, \A f \in Docs : Clear(f)
  PROVE  [Store!Next]_shown
<1>1. CASE UNCHANGED vars
  BY <1>1, SameServersShow DEF vars, serverVars
<1>2. CASE Request
  <2>1. ASSUME NEW d \in Docs, NEW c \in Contents, Edit(d, c)
        PROVE  Store!Next
    BY <2>1, EditWrites DEF Store!Next
  <2>2. ASSUME NEW d \in Docs, EditOverflows(d) \/ Get(d)
        PROVE  UNCHANGED shown
    BY <2>2, SameServersShow DEF EditOverflows, Get, serverVars
  <2>3. ASSUME NEW d \in Docs, Refuse(d)
        PROVE  Store!Next
    <3>1. /\ ring = {} /\ ring' = ring
          /\ reply' = Reply("refused", d, None)
          /\ db' = db /\ queue' = queue
      BY <2>3 DEF Refuse, serverVars
    <3>2. [f \in Docs |-> Latest(f)]' = [f \in Docs |-> Latest(f)]
      BY <3>1, CachesDoNotShow
    <3>3. Store!Refuse(d)
      BY <3>1, <3>2 DEF Store!Refuse, Store!Answered, Reply
    <3> QED BY <3>3 DEF Store!Next
  <2>4. ASSUME NEW s \in Servers, RemoveServer(s)
        PROVE  UNCHANGED shown
    BY <2>4, SameServersShow DEF RemoveServer, serverVars
  <2>5. CASE RemoveFromNone
    BY <2>5, SameServersShow DEF RemoveFromNone, serverVars
  <2> QED BY <1>2, <2>1, <2>2, <2>3, <2>4, <2>5, AddServerStutters,
             ShutdownCloses DEF Request
<1>3. CASE Progress
  <2>1. CASE Answer
    <3>1. op.doc \in Docs
      BY <2>1, Parts, OpCases DEF Answer
    <3> QED BY <2>1, <3>1, AnswerReads DEF Store!Next
  <2>2. CASE Crash \/ StartMoving \/ NoDestination \/ FinishJoin
    BY <2>2, SameServersShow DEF Crash, StartMoving, NoDestination, FinishJoin,
                                 serverVars
  <2> QED BY <1>3, <2>1, <2>2, JoinLabelOpens, SolveTaskStutters,
             MoveOneStutters, FinishRemoveCloses DEF Progress
<1>4. CASE Stopped
  BY <1>1, <1>4 DEF Stopped
<1> QED BY <1>1, <1>2, <1>3, <1>4 DEF Next

(* Refinement. When no document has the hash of a label, the cluster with  *)
(* virtual nodes too is a single document store: an acknowledged EDIT is   *)
(* never lost or overtaken while servers join label by label and leave     *)
(* with all three, until the last one does.                                *)
THEOREM Refinement ==
  ASSUME \A d \in Docs : Clear(d)
  PROVE  Spec => ActsAsOneStore
<1>1. Init => Store!Init
  BY InitIsEmptyStore
<1>2. IInv /\ IInv' /\ [Next]_vars => [Store!Next]_shown
  BY StepIsStoreStep
<1> QED BY <1>1, <1>2, Invariance, PTL DEF Spec, ActsAsOneStore, Store!Spec, shown
=============================================================================
