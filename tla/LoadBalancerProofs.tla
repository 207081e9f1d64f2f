------------------------- MODULE LoadBalancerProofs -------------------------
(***************************************************************************)
(* Type correctness of the load balancer, the inductive invariant IInv and *)
(* the refinement of the document store, for every set of servers,         *)
(* documents and contents, every size and all hashes.                      *)
(***************************************************************************)
EXTENDS LoadBalancerInvariant, ClusterProofs

LEMMA Idling ==
  /\ Idle \in OpType
  /\ Idle.kind = "idle"
BY DEF Idle, OpType

LEMMA Halting ==
  ASSUME NEW w \in Reasons
  PROVE  Halted(w) \in OpType /\ Halted(w).kind = "halted"
BY DEF Halted, OpType

LEMMA GettingType ==
  ASSUME NEW s \in Servers, NEW d \in Docs
  PROVE  /\ Getting(s, d) \in OpType
         /\ Getting(s, d).kind = "get"
         /\ Getting(s, d).src = s
         /\ Getting(s, d).doc = d
BY DEF Getting, OpType

LEMMA TransferType ==
  ASSUME NEW k \in {"add", "remove"}, NEW st \in {"solve", "move", "free"},
         NEW x \in Servers, NEW y \in Servers
  PROVE  LET o == Transfer(k, st, x, y)
         IN  /\ o \in OpType
             /\ o.kind = k /\ o.stage = st /\ o.src = x /\ o.dest = y
BY DEF Transfer, OpType

(* What the type of op says of its fields. *)
LEMMA OpCases ==
  ASSUME op \in OpType
  PROVE  /\ op.kind \in {"idle", "get", "add", "remove", "halted"}
         /\ op.kind = "get" => op.src \in Servers /\ op.doc \in Docs
         /\ op.kind \in {"add", "remove"} =>
              /\ op.stage \in {"solve", "move", "free"}
              /\ op.src \in Servers /\ op.dest \in Servers
              /\ LET m == [op EXCEPT !.stage = "move"]
                 IN  /\ m \in OpType
                     /\ m.kind = op.kind /\ m.stage = "move"
                     /\ m.src = op.src /\ m.dest = op.dest
<1>1. CASE op = Idle
  BY <1>1 DEF Idle
<1>2. CASE \E w \in Reasons : op = Halted(w)
  BY <1>2 DEF Halted
<1>3. CASE op \in [kind : {"get"}, src : Servers, doc : Docs]
  BY <1>3
<1>4. CASE op \in [kind : {"add", "remove"}, stage : {"solve", "move", "free"},
                   src : Servers, dest : Servers]
  <2>1. [op EXCEPT !.stage = "move"]
          \in [kind : {"add", "remove"}, stage : {"solve", "move", "free"},
               src : Servers, dest : Servers]
    BY <1>4
  <2> QED BY <1>4, <2>1 DEF OpType
<1> QED BY <1>1, <1>2, <1>3, <1>4 DEF OpType

LEMMA ReplyTypes ==
  ASSUME NEW d \in Docs, NEW c \in MaybeContent,
         NEW k \in {"queued", "refused", "content"}
  PROVE  Reply(k, d, c) \in ReplyType
BY DEF Reply, ReplyType, MaybeContent

(* The ring is one: ids have hashes of their own. *)
LEMMA RingIsRing ==
  ASSUME NEW R, R \subseteq Servers
  PROVE  IsRing(R)
BY HashAssumption DEF IsRing

LEMMA DocHashType == \A d \in Docs : DocHash[d] \in Nat
BY HashAssumption

(* IInv, with the part about servers as ClusterProofs states it. *)
LEMMA Parts ==
  IInv <=> /\ ServersOK
           /\ ring \subseteq Servers /\ op \in OpType /\ reply \in ReplyType
           /\ IsFiniteSet(ring)
           /\ Running => OpFitsRing /\ OffRingEmpty /\ DocsAtHome /\ QueuedAtHome
           /\ SingleHolder
           /\ CacheCoherent
BY DEF IInv, TypeOK, ServersOK, CachesShaped

LEMMA PartsNext ==
  ASSUME ServersOK', (ring \subseteq Servers)', (op \in OpType)',
         (reply \in ReplyType)', IsFiniteSet(ring)',
         (Running => OpFitsRing /\ OffRingEmpty /\ DocsAtHome /\ QueuedAtHome)',
         SingleHolder', CacheCoherent'
  PROVE  IInv'
BY DEF IInv, TypeOK, ServersOK, CachesShaped

(* A step that touches no server keeps what is said of the servers alone. *)
LEMMA SameServers ==
  ASSUME IInv, UNCHANGED serverVars
  PROVE  ServersOK' /\ SingleHolder' /\ CacheCoherent'
<1>1. ServersOK /\ SingleHolder /\ CacheCoherent
  BY Parts
<1>2. db' = db /\ cache' = cache /\ queue' = queue
  BY DEF serverVars
<1> QED BY <1>1, <1>2 DEF ServersOK, ServerTypeOK, SingleHolder, Holds, Waiting,
                       CacheCoherent

(* The program has stopped, or stops. *)
LEMMA HaltKeeps ==
  ASSUME IInv, UNCHANGED <<serverVars, ring, reply>>,
         NEW w \in Reasons, op' = Halted(w)
  PROVE  IInv'
<1>1. ServersOK' /\ SingleHolder' /\ CacheCoherent'
  BY SameServers
<1>2. (ring \subseteq Servers)' /\ (reply \in ReplyType)' /\ IsFiniteSet(ring)'
  BY Parts
<1>3. (op \in OpType)' /\ ~Running'
  BY Halting DEF Running
<1> QED BY <1>1, <1>2, <1>3, PartsNext

(* What waits in a queue is an edit of a document. *)
LEMMA QueuedDocs ==
  ASSUME IInv, NEW x \in Servers, NEW i \in DOMAIN queue[x]
  PROVE  queue[x][i].doc \in Docs
<1>1. queue[x] \in Seq(EditRequest)
  BY Parts DEF ServersOK, ServerTypeOK
<1>2. queue[x][i] \in EditRequest
  BY <1>1, LenProperties, ElementOfSeq
<1> QED BY <1>2 DEF EditRequest

(* Between two requests a document that is held is held by its owner. *)
LEMMA HolderOwns ==
  ASSUME IInv, op.kind \in {"idle", "get"},
         NEW d \in Docs, Clear(d), NEW s \in Servers, Holds(s, d)
  PROVE  IsOwner(ring, s, d)
<1>1. DocsAtHome /\ QueuedAtHome /\ Home(s) = ring /\ QueueHome = ring
  BY Parts DEF Running, Home, QueueHome
<1>2. CASE db[s][d] # None
  BY <1>1, <1>2 DEF DocsAtHome
<1>3. CASE Waiting(s, d) # {}
  BY <1>1, <1>3 DEF QueuedAtHome, Waiting
<1> QED BY <1>2, <1>3 DEF Holds

(* An edit waits at the owner of its document. *)
LEMMA EditKeeps ==
  ASSUME IInv, NEW d \in Docs, NEW c \in Contents, Edit(d, c)
  PROVE  IInv'
<1>1. PICK s \in ring : IsOwner(ring, s, d) /\ Enqueue(s, d, c)
  BY DEF Edit
<1>2. op = Idle /\ ring' = ring /\ op' = op /\ reply' = Reply("queued", d, c)
  BY DEF Edit
<1>3. /\ ServersOK /\ ring \subseteq Servers
      /\ OffRingEmpty /\ DocsAtHome /\ QueuedAtHome
      /\ SingleHolder /\ CacheCoherent /\ IsFiniteSet(ring)
  BY <1>2, Parts, Idling DEF Running
<1>4. /\ ServersOK'
      /\ db' = db /\ cache' = cache
      /\ \A x \in Servers : \A i \in DOMAIN queue'[x] :
           \/ i \in DOMAIN queue[x] /\ queue'[x][i] = queue[x][i]
           \/ x = s /\ queue'[x][i].doc = d
      /\ \A x \in Servers \ {s} : queue'[x] = queue[x]
  BY <1>1, <1>3, EnqueueKeeps
<1>5. /\ \A x \in Servers : Home(x) = ring /\ Home(x)' = ring
      /\ QueueHome = ring /\ QueueHome' = ring
  BY <1>2, Idling DEF Home, QueueHome
<1>6. OpFitsRing'
  BY <1>2, Idling DEF OpFitsRing
<1>7. OffRingEmpty'
  BY <1>1, <1>2, <1>3, <1>4 DEF OffRingEmpty
<1>8. DocsAtHome'
  BY <1>3, <1>4, <1>5 DEF DocsAtHome
<1>9. QueuedAtHome'
  BY <1>1, <1>3, <1>4, <1>5 DEF QueuedAtHome
<1>10. SingleHolder'
  <2>1. SUFFICES ASSUME NEW f \in Docs, Clear(f), NEW x \in Servers,
                        NEW y \in Servers, Holds(x, f)', Holds(y, f)'
                 PROVE  x = y
    BY DEF SingleHolder, Clear, Untied
  <2>2. \A z \in Servers : Holds(z, f)' <=> Holds(z, f) \/ (z = s /\ f = d)
    BY <1>1, <1>3, EnqueueShows
  <2>3. CASE f # d
    BY <1>3, <2>1, <2>2, <2>3 DEF SingleHolder
  <2>4. CASE f = d
    <3>1. IsRing(ring) /\ DocHash[d] \in Nat
      BY <1>3, RingIsRing, DocHashType
    <3>2. \A z \in Servers : Holds(z, f) => z = s
      BY <1>1, <1>2, <2>1, <2>4, <3>1, HolderOwns, OwnerUnique, Idling
    <3> QED BY <2>1, <2>2, <3>2
  <2> QED BY <2>3, <2>4
<1>11. CacheCoherent'
  BY <1>3, <1>4 DEF CacheCoherent
<1>12. Reply("queued", d, c) \in ReplyType
  BY ReplyTypes DEF MaybeContent
<1> QED BY <1>2, <1>3, <1>4, <1>6, <1>7, <1>8, <1>9, <1>10, <1>11, <1>12,
           Parts, PartsNext

(* A GET is taken: nothing moves yet. *)
LEMMA GetRequestKeeps ==
  ASSUME IInv, NEW d \in Docs, Get(d)
  PROVE  IInv'
<1>1. PICK s \in ring : IsOwner(ring, s, d) /\ op' = Getting(s, d)
  BY DEF Get
<1>2. op = Idle /\ UNCHANGED <<serverVars, ring, reply>>
  BY DEF Get
<1>3. /\ ServersOK' /\ SingleHolder' /\ CacheCoherent'
      /\ ring \subseteq Servers /\ reply \in ReplyType /\ IsFiniteSet(ring)
      /\ OffRingEmpty /\ DocsAtHome /\ QueuedAtHome
  BY <1>2, SameServers, Parts, Idling DEF Running
<1>4. op' \in OpType /\ op'.kind = "get" /\ op'.src = s /\ op'.doc = d
  BY <1>1, <1>3, GettingType
<1>5. /\ \A x \in Servers : Home(x) = ring /\ Home(x)' = ring
      /\ QueueHome = ring /\ QueueHome' = ring
  BY <1>2, <1>4, Idling DEF Home, QueueHome
<1>6. OpFitsRing'
  BY <1>1, <1>2, <1>4 DEF OpFitsRing
<1>7. OffRingEmpty' /\ DocsAtHome' /\ QueuedAtHome'
  BY <1>2, <1>3, <1>5 DEF serverVars, OffRingEmpty, DocsAtHome, QueuedAtHome
<1> QED BY <1>2, <1>3, <1>4, <1>6, <1>7, PartsNext

(* A request without a server changes the reply only. *)
LEMMA RefuseKeeps ==
  ASSUME IInv, NEW d \in Docs, Refuse(d)
  PROVE  IInv'
<1>1. op' = op /\ ring' = ring /\ UNCHANGED serverVars
  BY DEF Refuse
<1>2. reply' \in ReplyType
  BY ReplyTypes DEF Refuse, MaybeContent
<1>3. ServersOK' /\ SingleHolder' /\ CacheCoherent'
  BY <1>1, SameServers
<1>4. Running => OpFitsRing /\ OffRingEmpty /\ DocsAtHome /\ QueuedAtHome
  BY Parts
<1>5. (Running => OpFitsRing /\ OffRingEmpty /\ DocsAtHome /\ QueuedAtHome)'
  BY <1>1, <1>4 DEF serverVars, Running, OpFitsRing, OffRingEmpty, DocsAtHome,
                    QueuedAtHome, Home, QueueHome
<1> QED BY <1>1, <1>2, <1>3, <1>5, Parts, PartsNext

(* A server joins with nothing; until the transfer starts, everything is   *)
(* where it was.                                                           *)
LEMMA AddServerKeeps ==
  ASSUME IInv, NEW s \in Servers, NEW n \in CacheSizes, AddServer(s, n)
  PROVE  IInv'
<1>1. PICK src \in ring' :
        /\ IsNext(ring', s, src)
        /\ op' = IF src = s THEN Idle ELSE Transfer("add", "solve", src, s)
  BY DEF AddServer
<1>2. /\ op = Idle /\ s \notin ring
      /\ ring' = ring \union {s} /\ reply' = reply
      /\ ResetServer(s, n) /\ n \in Nat
  BY CacheSizesAssumption DEF AddServer
<1>3. /\ ServersOK
      /\ ring \subseteq Servers /\ reply \in ReplyType
      /\ OffRingEmpty /\ DocsAtHome /\ QueuedAtHome
      /\ SingleHolder /\ CacheCoherent /\ IsFiniteSet(ring)
  BY <1>2, Parts, Idling DEF Running
<1>4. /\ ServersOK'
      /\ db'[s] = NoDocs /\ queue'[s] = << >>
      /\ \A d \in Docs : ~Cached(cache'[s], d)
      /\ \A x \in Servers \ {s} : /\ db'[x] = db[x]
                                  /\ queue'[x] = queue[x]
                                  /\ cache'[x] = cache[x]
  BY <1>2, <1>3, ResetKeeps
<1>5. ring' \subseteq Servers /\ IsRing(ring') /\ IsFiniteSet(ring')
  BY <1>2, <1>3, RingIsRing, FS_AddElement
<1>6. \A d \in Docs : db'[s][d] = None
  BY <1>4 DEF NoDocs
<1>7. /\ op' \in OpType
      /\ \/ op'.kind = "idle" /\ src = s
         \/ /\ op'.kind = "add" /\ op'.stage = "solve"
            /\ op'.src = src /\ op'.dest = s /\ src # s
  BY <1>1, <1>5, Idling, TransferType
<1>8. QueueHome = ring /\ \A x \in Servers : Home(x) = ring
  BY <1>2, Idling DEF Home, QueueHome
<1>9. ASSUME NEW x \in Servers, x # s
      PROVE  \/ Home(x)' = ring /\ QueueHome' = ring
             \/ x \notin ring
  <2>1. CASE op'.kind = "idle"
    BY <1>1, <1>5, <1>7, <1>9, <2>1, NextOfLone, <1>2
  <2>2. CASE op'.kind = "add"
    BY <1>2, <1>7, <2>2 DEF Home, QueueHome
  <2> QED BY <1>7, <2>1, <2>2
<1>10. OpFitsRing'
  BY <1>1, <1>2, <1>7 DEF OpFitsRing
<1>11. OffRingEmpty'
  BY <1>2, <1>3, <1>4 DEF OffRingEmpty
<1>12. DocsAtHome'
  <2>1. SUFFICES ASSUME NEW x \in Servers, NEW d \in Docs,
                        Clear(d), db'[x][d] # None
                 PROVE  IsOwner(Home(x)', x, d)
    BY DEF DocsAtHome, Clear, Untied
  <2>2. x # s /\ db'[x] = db[x]
    BY <1>4, <1>6, <2>1
  <2>3. x \in ring
    BY <1>3, <2>1, <2>2 DEF OffRingEmpty, NoDocs
  <2>4. IsOwner(ring, x, d)
    BY <1>3, <1>8, <2>1, <2>2 DEF DocsAtHome
  <2> QED BY <1>9, <2>2, <2>3, <2>4
<1>13. QueuedAtHome'
  <2>1. SUFFICES ASSUME NEW x \in Servers, NEW i \in DOMAIN queue'[x]
                 PROVE  IsOwner(QueueHome', x, queue'[x][i].doc)
    BY DEF QueuedAtHome
  <2>2. x # s /\ queue'[x] = queue[x]
    BY <1>4, <2>1
  <2>3. x \in ring
    BY <1>3, <2>1, <2>2 DEF OffRingEmpty
  <2>4. IsOwner(ring, x, queue[x][i].doc)
    BY <1>3, <1>8, <2>1, <2>2 DEF QueuedAtHome
  <2> QED BY <1>9, <2>2, <2>3, <2>4
<1>14. SingleHolder'
  <2>1. \A x \in Servers, d \in Docs : Holds(x, d)' => Holds(x, d)
    BY <1>2, <1>3, ResetShows
  <2> QED BY <1>3, <2>1 DEF SingleHolder, Clear, Untied
<1>15. CacheCoherent'
  BY <1>3, <1>4 DEF CacheCoherent, Cached
<1> QED BY <1>2, <1>3, <1>4, <1>5, <1>7, <1>10, <1>11, <1>12, <1>13, <1>14,
           <1>15, PartsNext

(* A removal is taken: its destination is the server after its source. *)
LEMMA RemoveServerKeeps ==
  ASSUME IInv, NEW id \in Servers, RemoveServer(id)
  PROVE  IInv'
<1>1. PICK src \in ring, dest \in ring :
        /\ IsNext(ring, src, dest)
        /\ op' = Transfer("remove", IF src = dest THEN "free" ELSE "solve",
                          src, dest)
  BY DEF RemoveServer
<1>2. op = Idle /\ UNCHANGED <<serverVars, ring, reply>>
  BY DEF RemoveServer
<1>3. /\ ServersOK' /\ SingleHolder' /\ CacheCoherent'
      /\ ring \subseteq Servers /\ reply \in ReplyType /\ IsFiniteSet(ring)
      /\ OffRingEmpty /\ DocsAtHome /\ QueuedAtHome
  BY <1>2, SameServers, Parts, Idling DEF Running
<1>4. /\ op' \in OpType /\ op'.kind = "remove"
      /\ op'.stage = IF src = dest THEN "free" ELSE "solve"
      /\ op'.src = src /\ op'.dest = dest
  BY <1>1, <1>3, TransferType
<1>5. /\ \A x \in Servers : Home(x) = ring /\ Home(x)' = ring
      /\ QueueHome = ring /\ QueueHome' = ring
  BY <1>2, <1>4, Idling DEF Home, QueueHome
<1>6. OpFitsRing'
  BY <1>1, <1>2, <1>4 DEF OpFitsRing
<1>7. OffRingEmpty' /\ DocsAtHome' /\ QueuedAtHome'
  BY <1>2, <1>3, <1>5 DEF serverVars, OffRingEmpty, DocsAtHome, QueuedAtHome
<1> QED BY <1>2, <1>3, <1>4, <1>6, <1>7, PartsNext

(* The end of the input leaves no server. *)
LEMMA ShutdownKeeps ==
  ASSUME IInv, Shutdown
  PROVE  IInv'
<1>1. /\ op' = Halted("end of input") /\ ring' = {} /\ reply' = reply
      /\ db' = [s \in Servers |-> NoDocs]
      /\ cache' = [s \in Servers |-> EmptyCache(0)]
      /\ queue' = [s \in Servers |-> << >>]
  BY DEF Shutdown
<1>2. op' \in OpType /\ ~Running'
  BY <1>1, Halting DEF Running, Reasons
<1>3. CacheOK(EmptyCache(0)) /\ \A d \in Docs : ~Cached(EmptyCache(0), d)
  BY EmptyCacheOK
<1>4. ServersOK'
  <2>1. << >> \in Seq(EditRequest) /\ Len(<< >>) <= TaskQueueSize
    BY EmptySeq, QueueAssumption
  <2>2. NoDocs \in [Docs -> MaybeContent]
    BY DEF NoDocs, MaybeContent
  <2> HIDE DEF NoDocs
  <2> QED BY <1>1, <1>3, <2>1, <2>2 DEF ServersOK, ServerTypeOK, CacheOK
<1>5. SingleHolder' /\ CacheCoherent'
  <2>1. ASSUME NEW s \in Servers, NEW d \in Docs
        PROVE  ~Holds(s, d)'
    <3>1. db'[s][d] = None /\ queue'[s] = << >>
      BY <1>1 DEF NoDocs
    <3>2. Waiting(s, d)' = {}
      BY <3>1 DEF Waiting
    <3> QED BY <3>1, <3>2 DEF Holds
  <2> QED BY <1>1, <1>3, <2>1 DEF SingleHolder, CacheCoherent
<1>6. IsFiniteSet(ring')
  BY <1>1, FS_EmptySet
<1> QED BY <1>1, <1>2, <1>4, <1>5, <1>6, Parts, PartsNext

(* An edit applied by solve_queue is applied at the owner of its document, *)
(* the only server that may already have the document.                     *)
LEMMA SolveTaskKeeps ==
  ASSUME IInv, SolveTask
  PROVE  IInv'
<1> DEFINE s == op.src
           e == queue[s][1]
<1>1. Solving /\ SolveOne(s) /\ UNCHANGED <<ring, op, reply>>
  BY DEF SolveTask
<1>2. /\ ServersOK /\ ring \subseteq Servers
      /\ OpFitsRing /\ OffRingEmpty /\ DocsAtHome /\ QueuedAtHome
      /\ SingleHolder /\ CacheCoherent
  BY <1>1, Parts DEF Running, Solving
<1>3. s \in ring /\ s \in Servers
  BY <1>1, <1>2 DEF OpFitsRing, Solving, IsOwner
<1>4. /\ ServersOK'
      /\ queue[s] # << >> /\ 1 \in DOMAIN queue[s]
      /\ e \in EditRequest
      /\ db' = [db EXCEPT ![s][e.doc] = e.content]
      /\ cache'[s].val[e.doc] = e.content
      /\ \A f \in Docs \ {e.doc} : cache'[s].val[f] \in {cache[s].val[f], None}
      /\ \A x \in Servers \ {s} : queue'[x] = queue[x] /\ cache'[x] = cache[x]
      /\ \A x \in Servers : \A i \in DOMAIN queue'[x] :
           \E j \in DOMAIN queue[x] : queue'[x][i] = queue[x][j]
  BY <1>1, <1>2, <1>3, SolveKeeps
<1>5. /\ \A x \in Servers : Home(x) = QueueHome /\ Home(x)' = QueueHome
      /\ QueueHome' = QueueHome
  BY <1>1 DEF Home, QueueHome, Solving
<1>6. IsOwner(QueueHome, s, e.doc) /\ e.doc \in Docs
  BY <1>2, <1>3, <1>4 DEF QueuedAtHome, EditRequest
<1>7. db \in [Servers -> [Docs -> MaybeContent]]
  BY <1>2 DEF ServersOK, ServerTypeOK
<1>8. \A x \in Servers, d \in Docs :
        db'[x][d] = IF x = s /\ d = e.doc THEN e.content ELSE db[x][d]
  BY <1>3, <1>4, <1>6, <1>7
<1>9. \A x \in Servers \ {s} : db'[x] = db[x]
  BY <1>4, <1>7
<1> HIDE DEF s, e
<1>10. (Running => OpFitsRing)'
  <2>1. op'.kind \in {"add", "remove"} => op'.stage = "solve"
    BY <1>1 DEF Solving
  <2> QED BY <1>1, <1>2, <2>1 DEF OpFitsRing
<1>11. OffRingEmpty'
  BY <1>1, <1>2, <1>3, <1>4, <1>9 DEF OffRingEmpty
<1>12. DocsAtHome'
  BY <1>2, <1>5, <1>6, <1>8 DEF DocsAtHome
<1>13. QueuedAtHome'
  BY <1>2, <1>4, <1>5 DEF QueuedAtHome
<1>14. SingleHolder'
  <2>1. \A x \in Servers, d \in Docs : Holds(x, d)' <=> Holds(x, d)
    BY <1>1, <1>2, <1>3, SolveShows DEF s
  <2> QED BY <1>2, <2>1 DEF SingleHolder, Clear, Untied
<1>15. CacheCoherent'
  <2>1. SUFFICES ASSUME NEW x \in Servers, NEW d \in Docs,
                        Clear(d), Cached(cache[x], d)'
                 PROVE  cache'[x].val[d] = db'[x][d]
    BY DEF CacheCoherent
  <2>2. CASE x = s /\ d = e.doc
    BY <1>4, <1>8, <2>2
  <2>3. CASE x = s /\ d # e.doc
    BY <1>2, <1>4, <1>8, <2>1, <2>3 DEF CacheCoherent, Cached
  <2>4. CASE x # s
    BY <1>2, <1>4, <1>8, <2>1, <2>4 DEF CacheCoherent
  <2> QED BY <2>2, <2>3, <2>4
<1> QED BY <1>1, <1>4, <1>10, <1>11, <1>12, <1>13, <1>14, <1>15, Parts, PartsNext

(* The answer to a GET caches only what the server itself stores. *)
LEMMA AnswerKeeps ==
  ASSUME IInv, Answer
  PROVE  IInv'
<1>1. /\ op.kind = "get" /\ GetDocument(op.src, op.doc)
      /\ reply' = Reply("content", op.doc, Content(op.src, op.doc))
      /\ op' = Idle /\ ring' = ring
  BY DEF Answer
<1>2. /\ ServersOK /\ ring \subseteq Servers
      /\ OffRingEmpty /\ DocsAtHome /\ QueuedAtHome
      /\ SingleHolder /\ CacheCoherent
      /\ op.src \in Servers /\ op.doc \in Docs /\ IsFiniteSet(ring)
  BY <1>1, Parts, OpCases DEF Running
<1>3. /\ ServersOK' /\ db' = db /\ queue' = queue
      /\ \A x \in Servers, f \in Docs :
           \/ cache'[x].val[f] \in {cache[x].val[f], None}
           \/ cache'[x].val[f] = db[x][f]
  BY <1>1, <1>2, GetDocumentKeeps
<1>4. /\ \A x \in Servers : Home(x) = ring /\ Home(x)' = ring
      /\ QueueHome = ring /\ QueueHome' = ring
  BY <1>1, Idling DEF Home, QueueHome
<1>5. /\ op' \in OpType
      /\ OpFitsRing' /\ OffRingEmpty' /\ DocsAtHome' /\ QueuedAtHome'
  BY <1>1, <1>2, <1>3, <1>4, Idling
     DEF OpFitsRing, OffRingEmpty, DocsAtHome, QueuedAtHome
<1>6. SingleHolder'
  BY <1>2, <1>3, CachesDoNotShow DEF SingleHolder, Clear, Untied
<1>7. CacheCoherent'
  BY <1>2, <1>3 DEF CacheCoherent, Cached
<1>8. reply' \in ReplyType
  <2>1. CacheOK(cache[op.src]) /\ db \in [Servers -> [Docs -> MaybeContent]]
    BY <1>2, ServersOKCache DEF ServersOK, ServerTypeOK
  <2>2. Content(op.src, op.doc) \in MaybeContent
    BY <1>2, <2>1 DEF Content, CacheOK, CacheType
  <2> QED BY <1>1, <1>2, <2>2, ReplyTypes
<1> QED BY <1>1, <1>2, <1>3, <1>5, <1>6, <1>7, <1>8, PartsNext

(* The transfer starts with the source's queue empty. From here on nothing *)
(* else in the ring belongs to the joining server, or to the leaving one.  *)
LEMMA StartMovingKeeps ==
  ASSUME IInv, StartMoving
  PROVE  IInv'
<1>1. /\ op.kind \in {"add", "remove"} /\ op.stage = "solve"
      /\ queue[op.src] = << >>
      /\ op' = [op EXCEPT !.stage = "move"]
      /\ UNCHANGED <<serverVars, ring, reply>>
  BY DEF StartMoving
<1>2. /\ ring \subseteq Servers /\ op \in OpType /\ reply \in ReplyType
      /\ IsFiniteSet(ring)
      /\ OpFitsRing /\ OffRingEmpty /\ DocsAtHome /\ QueuedAtHome
  BY <1>1, Parts DEF Running
<1>3. ServersOK' /\ SingleHolder' /\ CacheCoherent'
  BY <1>1, SameServers
<1>4. /\ op' \in OpType /\ op'.kind = op.kind /\ op'.stage = "move"
      /\ op'.src = op.src /\ op'.dest = op.dest
      /\ op.src \in Servers /\ op.dest \in Servers
  BY <1>1, <1>2, OpCases
<1>5. /\ op.src \in ring /\ op.dest \in ring /\ op.src # op.dest
      /\ op.kind = "add" => IsNext(ring, op.dest, op.src)
      /\ op.kind = "remove" => IsNext(ring, op.src, op.dest)
  BY <1>1, <1>2 DEF OpFitsRing
<1>6. IsRing(ring) /\ \A d \in Docs : DocHash[d] \in Nat
  BY <1>2, RingIsRing, DocHashType
<1>7. ASSUME NEW x \in Servers, NEW d \in Docs, IsOwner(Home(x), x, d)
      PROVE  IsOwner(Home(x)', x, d)
  <2>1. CASE op.kind = "add"
    <3>1. CASE x = op.src
      BY <1>1, <1>4, <1>7, <2>1, <3>1 DEF Home
    <3>2. CASE x # op.src
      <4>1. IsOwner(ring \ {op.dest}, x, d)
        BY <1>1, <1>7, <2>1 DEF Home
      <4>2. IsOwner(ring, x, d)
        BY <1>5, <1>6, <2>1, <3>2, <4>1, JoinSparesOthers
      <4> QED BY <1>1, <1>4, <2>1, <3>2, <4>2 DEF Home
    <3> QED BY <3>1, <3>2
  <2>2. CASE op.kind = "remove"
    <3>1. IsOwner(ring, x, d)
      BY <1>1, <1>7, <2>2 DEF Home
    <3>2. CASE x = op.src
      BY <1>1, <1>4, <2>2, <3>1, <3>2 DEF Home
    <3>3. CASE x # op.src
      <4>1. IsOwner(ring \ {op.src}, x, d)
        BY <3>1, <3>3, OwnerStays
      <4> QED BY <1>1, <1>4, <2>2, <3>3, <4>1 DEF Home
    <3> QED BY <3>2, <3>3
  <2> QED BY <1>1, <2>1, <2>2
<1>8. OpFitsRing'
  BY <1>1, <1>4, <1>5 DEF OpFitsRing, serverVars
<1>9. OffRingEmpty'
  BY <1>1, <1>2 DEF OffRingEmpty, serverVars
<1>10. DocsAtHome'
  BY <1>1, <1>2, <1>7 DEF DocsAtHome, serverVars
<1>11. QueuedAtHome'
  <2>1. QueueHome' = QueueHome
    BY <1>1, <1>4 DEF QueueHome
  <2> QED BY <1>1, <1>2, <2>1 DEF QueuedAtHome, serverVars
<1> QED BY <1>1, <1>2, <1>3, <1>4, <1>8, <1>9, <1>10, <1>11, PartsNext

(* A document that moves arrives at its owner: the joining server, when    *)
(* should_move picks it, or the server after the leaving one. It arrives   *)
(* alone, and no cache of the destination knows it.                        *)
LEMMA MoveOneKeeps ==
  ASSUME IInv, NEW d \in Docs, MoveOne(d)
  PROVE  IInv'
<1> DEFINE src == op.src
           dest == op.dest
<1>1. /\ op.kind \in {"add", "remove"} /\ op.stage = "move"
      /\ db[src][d] # None
      /\ op.kind = "remove" \/ ShouldMove(src, dest, d)
      /\ MoveDocument(src, dest, d)
      /\ UNCHANGED <<ring, op, reply>>
  BY DEF MoveOne, ToMove
<1>2. /\ ServersOK
      /\ ring \subseteq Servers /\ op \in OpType /\ reply \in ReplyType
      /\ IsFiniteSet(ring)
      /\ OpFitsRing /\ OffRingEmpty /\ DocsAtHome /\ QueuedAtHome
      /\ SingleHolder /\ CacheCoherent
  BY <1>1, Parts DEF Running
<1>3. /\ src \in ring /\ dest \in ring /\ src # dest
      /\ src \in Servers /\ dest \in Servers
      /\ op.kind = "add" => IsNext(ring, dest, src)
      /\ op.kind = "remove" => IsNext(ring, src, dest)
      /\ queue[src] = << >>
  BY <1>1, <1>2 DEF OpFitsRing
<1>4. /\ ServersOK'
      /\ queue' = queue
      /\ db'[dest][d] = db[src][d] /\ db'[src][d] = None
      /\ \A x \in Servers, f \in Docs :
           f # d \/ x \notin {src, dest} => db'[x][f] = db[x][f]
      /\ ~Cached(cache'[src], d)
      /\ \A x \in Servers, f \in Docs :
           f # d \/ x # src => cache'[x].val[f] = cache[x].val[f]
  BY <1>1, <1>2, <1>3, MoveKeeps
<1>5. QueueHome' = QueueHome /\ \A x \in Servers : Home(x)' = Home(x)
  BY <1>1 DEF Home, QueueHome
<1>6. IsRing(ring) /\ DocHash[d] \in Nat
  BY <1>2, RingIsRing, DocHashType
<1>7. Clear(d) => IsOwner(Home(dest), dest, d)
  <2>1. SUFFICES ASSUME Clear(d)
                 PROVE  IsOwner(Home(dest), dest, d)
    OBVIOUS
  <2>2. IsOwner(Home(src), src, d)
    BY <1>1, <1>2, <1>3, <2>1 DEF DocsAtHome
  <2>3. CASE op.kind = "add"
    <3>1. IsOwner(ring \ {dest}, src, d)
      BY <2>2, <2>3 DEF Home
    <3>2. LabelHash[dest] # DocHash[d] /\ ShouldMove(src, dest, d)
      BY <1>1, <1>3, <2>1, <2>3 DEF Clear, Untied
    <3>3. IsOwner(ring, dest, d)
      BY <1>3, <1>6, <2>3, <3>1, <3>2, ShouldMoveIsRight
    <3> QED BY <1>1, <1>3, <2>3, <3>3 DEF Home
  <2>4. CASE op.kind = "remove"
    <3>1. IsOwner(ring, src, d)
      BY <2>2, <2>4 DEF Home
    <3>2. IsOwner(ring \ {src}, dest, d)
      BY <1>3, <1>6, <2>4, <3>1, NextInherits
    <3> QED BY <1>1, <1>3, <2>4, <3>2 DEF Home
  <2> QED BY <1>1, <2>3, <2>4
<1> HIDE DEF src, dest
<1>8. OpFitsRing'
  BY <1>1, <1>2, <1>4 DEF OpFitsRing
<1>9. OffRingEmpty'
  <2>1. SUFFICES ASSUME NEW x \in Servers \ ring
                 PROVE  db'[x] = NoDocs /\ queue'[x] = << >>
    BY <1>1 DEF OffRingEmpty
  <2>2. x \notin {src, dest} /\ db[x] = NoDocs /\ queue[x] = << >>
    BY <1>2, <1>3, <2>1 DEF OffRingEmpty
  <2>3. db'[x] \in [Docs -> MaybeContent] /\ db[x] \in [Docs -> MaybeContent]
    BY <1>2, <1>4 DEF ServersOK, ServerTypeOK
  <2>4. \A f \in Docs : db'[x][f] = db[x][f]
    BY <1>4, <2>2
  <2> QED BY <1>4, <2>2, <2>3, <2>4
<1>10. DocsAtHome'
  <2>1. SUFFICES ASSUME NEW x \in Servers, NEW f \in Docs,
                        Clear(f), db'[x][f] # None
                 PROVE  IsOwner(Home(x), x, f)
    BY <1>5 DEF DocsAtHome
  <2> QED BY <1>2, <1>4, <1>7, <2>1 DEF DocsAtHome
<1>11. QueuedAtHome'
  BY <1>2, <1>4, <1>5 DEF QueuedAtHome
<1>12. Clear(d) => \A x \in Servers : Holds(x, d) => x = src
  BY <1>1, <1>2, <1>3 DEF SingleHolder, Holds, src
<1>13. SingleHolder'
  <2>1. SUFFICES ASSUME NEW f \in Docs, Clear(f), NEW x \in Servers,
                        NEW y \in Servers, Holds(x, f)', Holds(y, f)'
                 PROVE  x = y
    BY DEF SingleHolder, Clear, Untied
  <2>2. /\ \A z \in Servers : z = src => ~Holds(z, d)'
        /\ \A z \in Servers, g \in Docs :
             g # d \/ z \notin {src, dest} => (Holds(z, g)' <=> Holds(z, g))
    BY <1>1, <1>2, <1>3, MoveShows DEF src, dest
  <2>3. CASE f # d
    BY <1>2, <2>1, <2>2, <2>3 DEF SingleHolder
  <2>4. CASE f = d
    <3>1. SUFFICES \A z \in Servers : Holds(z, d)' => z = dest
      BY <2>1, <2>4
    <3>2. ASSUME NEW z \in Servers, Holds(z, d)', z # dest
          PROVE  FALSE
      <4>1. z # src
        BY <2>2, <3>2
      <4>2. Holds(z, d)
        BY <2>2, <3>2, <4>1
      <4> QED BY <1>12, <2>1, <2>4, <4>1, <4>2
    <3> QED BY <3>2
  <2> QED BY <2>3, <2>4
<1>14. CacheCoherent'
  <2>1. SUFFICES ASSUME NEW x \in Servers, NEW f \in Docs,
                        Clear(f), Cached(cache[x], f)'
                 PROVE  cache'[x].val[f] = db'[x][f]
    BY DEF CacheCoherent
  <2>2. f # d \/ x # src
    BY <1>4, <2>1 DEF Cached
  <2>3. Cached(cache[x], f) /\ cache'[x].val[f] = cache[x].val[f]
    BY <1>4, <2>1, <2>2 DEF Cached
  <2>4. cache[x].val[f] = db[x][f] /\ db[x][f] # None
    BY <1>2, <2>1, <2>3 DEF CacheCoherent, Cached
  <2>5. f # d \/ x \notin {src, dest}
    BY <1>3, <1>12, <2>1, <2>2, <2>4 DEF Holds
  <2> QED BY <1>4, <2>3, <2>4, <2>5
<1> QED BY <1>1, <1>2, <1>4, <1>8, <1>9, <1>10, <1>11, <1>13, <1>14, PartsNext

(* When nothing is left to move, what the source kept is its own. *)
LEMMA FinishAddKeeps ==
  ASSUME IInv, FinishAdd
  PROVE  IInv'
<1>1. /\ op.kind = "add" /\ op.stage = "move" /\ ToMove = {}
      /\ op' = Idle
      /\ UNCHANGED <<serverVars, ring, reply>>
  BY DEF FinishAdd
<1>2. /\ ring \subseteq Servers /\ reply \in ReplyType /\ IsFiniteSet(ring)
      /\ OpFitsRing /\ OffRingEmpty /\ DocsAtHome /\ QueuedAtHome
  BY <1>1, Parts DEF Running
<1>3. ServersOK' /\ SingleHolder' /\ CacheCoherent'
  BY <1>1, SameServers
<1>4. /\ op.src \in ring /\ op.dest \in ring /\ op.src # op.dest
      /\ IsNext(ring, op.dest, op.src)
      /\ queue[op.src] = << >>
  BY <1>1, <1>2 DEF OpFitsRing
<1>5. \A x \in Servers : /\ Home(x)' = ring
                         /\ x # op.src => Home(x) = ring
                         /\ x = op.src => Home(x) = ring \ {op.dest}
  BY <1>1, Idling DEF Home
<1>6. DocsAtHome'
  <2>1. SUFFICES ASSUME NEW x \in Servers, NEW d \in Docs,
                        Clear(d), db[x][d] # None
                 PROVE  IsOwner(ring, x, d)
    BY <1>1, <1>5 DEF DocsAtHome, serverVars
  <2>2. IsOwner(Home(x), x, d)
    BY <1>2, <2>1 DEF DocsAtHome
  <2>3. CASE x # op.src
    BY <1>5, <2>2, <2>3
  <2>4. CASE x = op.src
    <3>1. ~ShouldMove(op.src, op.dest, d)
      BY <1>1, <2>1, <2>4 DEF ToMove
    <3>2. LabelHash[op.dest] # DocHash[d]
      BY <1>2, <1>4, <2>1 DEF Clear, Untied
    <3>3. IsRing(ring) /\ DocHash[d] \in Nat
      BY <1>2, RingIsRing, DocHashType
    <3>4. IsOwner(ring \ {op.dest}, op.src, d)
      BY <1>5, <2>2, <2>4
    <3> QED BY <1>4, <2>4, <3>1, <3>2, <3>3, <3>4, ShouldMoveIsRight
  <2> QED BY <2>3, <2>4
<1>7. QueuedAtHome'
  <2>1. SUFFICES ASSUME NEW x \in Servers, NEW i \in DOMAIN queue[x]
                 PROVE  IsOwner(ring, x, queue[x][i].doc)
    BY <1>1, Idling DEF QueuedAtHome, QueueHome, serverVars
  <2>2. x # op.src /\ queue[x][i].doc \in Docs
    BY <1>4, <2>1, QueuedDocs
  <2>3. IsOwner(ring \ {op.dest}, x, queue[x][i].doc)
    BY <1>1, <1>2 DEF QueuedAtHome, QueueHome
  <2>4. IsRing(ring) /\ DocHash[queue[x][i].doc] \in Nat
    BY <1>2, <2>2, RingIsRing, DocHashType
  <2> QED BY <1>4, <2>2, <2>3, <2>4, JoinSparesOthers
<1>8. op' \in OpType /\ OpFitsRing' /\ OffRingEmpty'
  BY <1>1, <1>2, Idling DEF OpFitsRing, OffRingEmpty, serverVars
<1> QED BY <1>1, <1>2, <1>3, <1>6, <1>7, <1>8, PartsNext

(* The server that leaves has nothing any more, or was the last one. *)
LEMMA FinishRemoveKeeps ==
  ASSUME IInv, FinishRemove
  PROVE  IInv'
<1> DEFINE s == op.src
<1>1. /\ op.kind = "remove"
      /\ op.stage = "free" \/ op.stage = "move"
      /\ op' = Idle /\ ring' = ring \ {s} /\ reply' = reply
      /\ ResetServer(s, 0)
  BY DEF FinishRemove, FreeServer
<1>2. /\ ServersOK
      /\ ring \subseteq Servers /\ reply \in ReplyType
      /\ OpFitsRing /\ OffRingEmpty /\ DocsAtHome /\ QueuedAtHome
      /\ SingleHolder /\ CacheCoherent /\ IsFiniteSet(ring)
  BY <1>1, Parts DEF Running
<1>3. s \in ring /\ s \in Servers
  BY <1>1, <1>2 DEF OpFitsRing
<1>4. /\ ServersOK'
      /\ db'[s] = NoDocs /\ queue'[s] = << >>
      /\ \A d \in Docs : ~Cached(cache'[s], d)
      /\ \A x \in Servers \ {s} : /\ db'[x] = db[x]
                                  /\ queue'[x] = queue[x]
                                  /\ cache'[x] = cache[x]
  BY <1>1, <1>2, <1>3, ResetKeeps
<1>5. \A d \in Docs : db'[s][d] = None
  BY <1>4 DEF NoDocs
<1>6. op' \in OpType /\ op'.kind = "idle"
  BY <1>1, Idling
<1>7. QueueHome' = ring' /\ \A x \in Servers : Home(x)' = ring'
  BY <1>6 DEF Home, QueueHome
<1>8. ASSUME NEW x \in ring, x # s
      PROVE  Home(x) = ring'
  <2>1. CASE op.stage = "move"
    BY <1>1, <1>8, <2>1 DEF Home
  <2>2. CASE op.stage = "free"
    <3>1. IsNext(ring, s, s) /\ IsRing(ring)
      BY <1>1, <1>2, <2>2, RingIsRing DEF OpFitsRing
    <3> QED BY <1>3, <1>8, <3>1, NextOfLone
  <2> QED BY <1>1, <2>1, <2>2
<1> HIDE DEF s
<1>9. OpFitsRing'
  BY <1>6 DEF OpFitsRing
<1>10. OffRingEmpty'
  BY <1>1, <1>2, <1>4 DEF OffRingEmpty
<1>11. DocsAtHome'
  <2>1. SUFFICES ASSUME NEW x \in Servers, NEW d \in Docs,
                        Clear(d), db'[x][d] # None
                 PROVE  IsOwner(ring', x, d)
    BY <1>7 DEF DocsAtHome
  <2>2. x # s /\ db[x][d] # None
    BY <1>4, <1>5, <2>1
  <2>3. x \in ring
    BY <1>2, <2>2 DEF OffRingEmpty, NoDocs
  <2> QED BY <1>2, <1>8, <2>1, <2>2, <2>3 DEF DocsAtHome
<1>12. QueuedAtHome'
  <2>1. SUFFICES ASSUME NEW x \in Servers, NEW i \in DOMAIN queue'[x]
                 PROVE  IsOwner(ring', x, queue'[x][i].doc)
    BY <1>7 DEF QueuedAtHome
  <2>2. x # s /\ queue'[x] = queue[x]
    BY <1>4, <2>1
  <2>3. IsOwner(ring, x, queue[x][i].doc)
    BY <1>1, <1>2, <2>1, <2>2 DEF QueuedAtHome, QueueHome
  <2> QED BY <1>1, <2>2, <2>3, OwnerStays
<1>13. SingleHolder'
  <2>1. \A x \in Servers, d \in Docs : Holds(x, d)' => Holds(x, d)
    BY <1>1, <1>2, <1>3, ResetShows
  <2> QED BY <1>2, <2>1 DEF SingleHolder, Clear, Untied
<1>14. CacheCoherent'
  BY <1>2, <1>4 DEF CacheCoherent, Cached
<1>15. IsFiniteSet(ring')
  BY <1>1, <1>2, FS_RemoveElement
<1> QED BY <1>1, <1>2, <1>4, <1>6, <1>9, <1>10, <1>11, <1>12, <1>13, <1>14,
           <1>15, PartsNext

(* The servers, before the first request. *)
LEMMA InitHolds ==
  ASSUME Init
  PROVE  IInv
<1>1. CacheOK(EmptyCache(0)) /\ \A d \in Docs : ~Cached(EmptyCache(0), d)
  BY EmptyCacheOK
<1>2. ServersOK
  <2>1. << >> \in Seq(EditRequest) /\ Len(<< >>) <= TaskQueueSize
    BY EmptySeq, QueueAssumption
  <2>2. NoDocs \in [Docs -> MaybeContent]
    BY DEF NoDocs, MaybeContent
  <2> HIDE DEF NoDocs
  <2> QED BY <1>1, <2>1, <2>2 DEF Init, ServersOK, ServerTypeOK, CacheOK
<1>3. op \in OpType /\ op.kind = "idle" /\ ring \subseteq Servers
  BY Idling DEF Init
<1>4. reply \in ReplyType
  BY DEF Init, NoReply, Reply, ReplyType, MaybeContent
<1>5. OpFitsRing /\ OffRingEmpty
  BY <1>3 DEF Init, OpFitsRing, OffRingEmpty
<1>6. DocsAtHome /\ QueuedAtHome
  BY DEF Init, DocsAtHome, QueuedAtHome, NoDocs
<1>7. SingleHolder /\ CacheCoherent
  BY <1>1 DEF Init, SingleHolder, CacheCoherent, NoDocs, Holds, Waiting
<1>8. IsFiniteSet(ring)
  BY FS_EmptySet DEF Init
<1> QED BY <1>2, <1>3, <1>4, <1>5, <1>6, <1>7, <1>8, Parts

(* Every step of the program, and a step of nothing, keeps IInv. *)
LEMMA NextKeeps ==
  ASSUME IInv, [Next]_vars
  PROVE  IInv'
<1>1. CASE UNCHANGED vars
  BY <1>1, Parts, PartsNext, SameServers
     DEF vars, serverVars, Running, OpFitsRing, OffRingEmpty, DocsAtHome,
         QueuedAtHome, Home, QueueHome
<1>2. CASE Request
  <2>1. ASSUME NEW d \in Docs, EditOverflows(d)
        PROVE  IInv'
    BY <2>1, HaltKeeps DEF EditOverflows, Reasons
  <2>2. CASE RemoveFromNone
    BY <2>2, HaltKeeps DEF RemoveFromNone, Reasons
  <2> QED BY <1>2, <2>1, <2>2, EditKeeps, GetRequestKeeps, RefuseKeeps,
             AddServerKeeps, RemoveServerKeeps, ShutdownKeeps DEF Request
<1>3. CASE Progress
  <2>1. CASE Crash
    BY <2>1, HaltKeeps DEF Crash, Reasons
  <2> QED BY <1>3, <2>1, SolveTaskKeeps, AnswerKeeps, StartMovingKeeps,
             MoveOneKeeps, FinishAddKeeps, FinishRemoveKeeps DEF Progress
<1>4. CASE Stopped
  BY <1>1, <1>4 DEF Stopped
<1> QED BY <1>1, <1>2, <1>3, <1>4 DEF Next

-----------------------------------------------------------------------------

(* IInv holds in every state of every run of the load balancer. *)
THEOREM Invariance == Spec => []IInv
<1>1. Init => IInv
  BY InitHolds
<1>2. IInv /\ [Next]_vars => IInv'
  BY NextKeeps
<1> QED BY <1>1, <1>2, PTL DEF Spec

(* Every variable keeps its type: no step of the program leaves the states *)
(* the model speaks of, and no queue exceeds TASK_QUEUE_SIZE.              *)
THEOREM TypeCorrect == Spec => []TypeOK
<1>1. IInv => TypeOK
  BY DEF IInv
<1> QED BY <1>1, Invariance, PTL

(* Between transfers Members is what Home says of every server. *)
LEMMA RestAtHome ==
  ASSUME IInv, AtRest
  PROVE  /\ DocsAtHome /\ QueuedAtHome
         /\ QueueHome = Members
         /\ \A s \in Servers : Home(s) = Members
BY Parts, OpCases DEF AtRest, Running, OpFitsRing, Home, QueueHome, Members

(* Every document is stored where a GET of it is forwarded, whatever edits,*)
(* joins and removals came before.                                         *)
THEOREM PlacementHolds == Spec => []Placement
<1>1. IInv => Placement
  BY RestAtHome DEF Placement, DocsAtHome
<1> QED BY <1>1, Invariance, PTL

(* No GET overtakes an edit: every waiting edit is in the queue that a GET *)
(* of its document drains, tied documents included.                        *)
THEOREM QueuedAtOwnerHolds == Spec => []QueuedAtOwner
<1>1. IInv => QueuedAtOwner
  BY RestAtHome DEF QueuedAtOwner, QueuedAtHome
<1> QED BY <1>1, Invariance, PTL

(* No document is ever on two servers, not even while it is transferred. *)
THEOREM SingleCopyHolds == Spec => []SingleCopy
<1>1. IInv => SingleCopy
  BY DEF IInv, SingleCopy, SingleHolder, Holds
<1> QED BY <1>1, Invariance, PTL

(* A cache never answers with anything but what its server stores. *)
THEOREM CacheCoherentHolds == Spec => []CacheCoherent
<1>1. IInv => CacheCoherent
  BY DEF IInv
<1> QED BY <1>1, Invariance, PTL

(* A server that is removed has executed its queue, unless it is the only  *)
(* one.                                                                    *)
THEOREM ExecutesTasksHolds == Spec => []ExecutesTasksOfRemoved
<1>1. ASSUME IInv, op.kind = "remove", op.stage \in {"move", "free"}
      PROVE  queue[op.src] = << >> \/ ring = {op.src}
  <2>1. OpFitsRing /\ IsRing(ring)
    BY <1>1, Parts, RingIsRing DEF Running
  <2>2. CASE op.stage = "move"
    BY <1>1, <2>1, <2>2 DEF OpFitsRing
  <2>3. CASE op.stage = "free"
    <3>1. op.src = op.dest /\ op.src \in ring /\ IsNext(ring, op.src, op.dest)
      BY <1>1, <2>1, <2>3 DEF OpFitsRing
    <3> QED BY <2>1, <3>1, NextOfLone
  <2> QED BY <1>1, <2>2, <2>3
<1>2. IInv => ExecutesTasksOfRemoved
  BY <1>1 DEF ExecutesTasksOfRemoved
<1> QED BY <1>2, Invariance, PTL

(* The list and the map of every cache stay in step and within capacity. *)
THEOREM CachesShapedHold == Spec => []CachesShaped
<1>1. IInv => CachesShaped
  BY DEF IInv
<1> QED BY <1>1, Invariance, PTL

-----------------------------------------------------------------------------
(* The cluster is one document store: every step of the program is a step  *)
(* of DocStore or leaves its variables as they are. A document whose hash  *)
(* is the one of a server is no part of this: see FindsTheDocument.        *)

shown == <<[d \in Docs |-> Latest(d)], ring # {}, reply>>

LEMMA OneHolder ==
  ASSUME IInv, NEW d \in Docs, Clear(d)
  PROVE  \A s, t \in Servers : Holds(s, d) /\ Holds(t, d) => s = t
BY Parts DEF SingleHolder

(* Nothing is stored where there is no ring. *)
LEMMA NothingWithoutServers ==
  ASSUME IInv, Running, ring = {}
  PROVE  \A d \in Docs : Latest(d) = None
<1>1. \A s \in Servers : db[s] = NoDocs /\ queue[s] = << >>
  BY Parts DEF OffRingEmpty
<1>2. \A s \in Servers, d \in Docs : Waiting(s, d) = {} /\ db[s][d] = None
  BY <1>1 DEF Waiting, NoDocs
<1> QED BY <1>2, LatestIsNone DEF Holds

LEMMA ShownStays ==
  ASSUME \A d \in Docs : Latest(d)' = Latest(d),
         ring' = {} <=> ring = {}, reply' = reply
  PROVE  UNCHANGED shown
<1>1. [d \in Docs |-> Latest(d)]' = [d \in Docs |-> Latest(d)]
  OBVIOUS
<1>2. (ring # {})' = (ring # {})
  OBVIOUS
<1> QED BY <1>1, <1>2 DEF shown

(* A step that touches neither databases nor queues. *)
LEMMA SameServersShow ==
  ASSUME db' = db, queue' = queue, ring' = {} <=> ring = {}, reply' = reply
  PROVE  UNCHANGED shown
BY CachesDoNotShow, ShownStays

LEMMA InitIsEmptyStore ==
  ASSUME Init
  PROVE  Store!Init
<1>1. \A s \in Servers, d \in Docs : Waiting(s, d) = {} /\ db[s][d] = None
  BY DEF Init, Waiting, NoDocs
<1>2. \A d \in Docs : Latest(d) = None
  BY <1>1, LatestIsNone DEF Holds
<1>3. [d \in Docs |-> Latest(d)] = Store!Empty
  BY <1>2 DEF Store!Empty
<1> QED BY <1>3 DEF Init, NoReply, Reply, Store!Init

(* An EDIT that is acknowledged is the content of its document from then   *)
(* on, although it only waits in a queue.                                  *)
LEMMA EditWrites ==
  ASSUME IInv, IInv', NEW d \in Docs, NEW c \in Contents, Edit(d, c),
         \A f \in Docs : Clear(f)
  PROVE  Store!Write(d, c)
<1>1. PICK s \in ring : Enqueue(s, d, c)
  BY DEF Edit
<1>2. reply' = Reply("queued", d, c) /\ ring' = ring
  BY DEF Edit
<1>3. ServersOK /\ s \in Servers
  BY Parts
<1>4. /\ Answers(s, d)' = c
      /\ \A x \in Servers, f \in Docs :
           Holds(x, f)' <=> Holds(x, f) \/ (x = s /\ f = d)
      /\ \A x \in Servers, f \in Docs :
           f # d => Answers(x, f)' = Answers(x, f)
  BY <1>1, <1>3, EnqueueShows
<1>5. Latest(d)' = c
  <2>1. \A x, y \in Servers : Holds(x, d)' /\ Holds(y, d)' => x = y
    BY DEF IInv, SingleHolder, Clear, Untied
  <2>2. \A x \in Servers : Holds(x, d)' => x = s
    BY <1>3, <1>4, <2>1
  <2> QED BY <1>3, <1>4, <2>2, LatestIsNext
<1>6. ASSUME NEW f \in Docs, f # d
      PROVE  Latest(f)' = Latest(f)
  BY <1>4, <1>6, OneHolder, LatestStays
<1>7. [f \in Docs |-> Latest(f)]' = [[f \in Docs |-> Latest(f)] EXCEPT ![d] = c]
  BY <1>5, <1>6
<1> QED BY <1>2, <1>7 DEF Store!Write, Store!Answered, Reply

(* A GET prints the content of the last EDIT: the server it was forwarded  *)
(* to has it, in the database or in the cache, and no edit waits.          *)
LEMMA AnswerReads ==
  ASSUME IInv, Answer, \A f \in Docs : Clear(f)
  PROVE  Store!Read(op.doc)
<1> DEFINE s == op.src
           d == op.doc
<1>1. /\ op.kind = "get" /\ queue[s] = << >>
      /\ GetDocument(s, d)
      /\ reply' = Reply("content", d, Content(s, d))
      /\ ring' = ring
  BY DEF Answer
<1>2. /\ op \in OpType /\ ring \subseteq Servers
      /\ OpFitsRing /\ CacheCoherent
  BY <1>1, Parts DEF Running
<1>3. s \in ring /\ s \in Servers /\ d \in Docs /\ IsOwner(ring, s, d)
  BY <1>1, <1>2, OpCases DEF OpFitsRing, IsOwner
<1>4. Clear(d) /\ IsRing(ring) /\ DocHash[d] \in Nat
  BY <1>2, <1>3, RingIsRing, DocHashType
<1> HIDE DEF s, d
<1>5. \A t \in Servers : Holds(t, d) => t = s
  BY <1>1, <1>3, <1>4, HolderOwns, OwnerUnique
<1>6. Latest(d) = Answers(s, d)
  BY <1>3, <1>5, LatestIs
<1>7. Waiting(s, d) = {}
  BY <1>1 DEF Waiting
<1>8. Latest(d) = Content(s, d)
  BY <1>2, <1>3, <1>4, <1>6, <1>7 DEF Answers, Content, CacheCoherent
<1>9. \A f \in Docs : Latest(f)' = Latest(f)
  BY <1>1, CachesDoNotShow DEF GetDocument
<1>10. [f \in Docs |-> Latest(f)]' = [f \in Docs |-> Latest(f)]
  BY <1>9
<1>11. [f \in Docs |-> Latest(f)][d] = Latest(d)
  BY <1>3
<1>12. Store!Read(d)
  BY <1>1, <1>3, <1>8, <1>10, <1>11 DEF Store!Read, Store!Answered, Reply
<1> QED BY <1>12 DEF d

(* A server that joins has nothing: the others answer as before. *)
LEMMA AddServerOpens ==
  ASSUME IInv, NEW s \in Servers, NEW n \in CacheSizes, AddServer(s, n),
         \A f \in Docs : Clear(f)
  PROVE  [Store!Next]_shown
<1>1. /\ op = Idle /\ s \notin ring /\ ResetServer(s, n) /\ n \in Nat
      /\ ring' = ring \union {s} /\ reply' = reply
  BY CacheSizesAssumption DEF AddServer
<1>2. ServersOK /\ OffRingEmpty
  BY <1>1, Parts, Idling DEF Running
<1>3. \A f \in Docs : ~Holds(s, f)
  <2>1. db[s] = NoDocs /\ queue[s] = << >>
    BY <1>1, <1>2 DEF OffRingEmpty
  <2> QED BY <2>1 DEF Holds, Waiting, NoDocs
<1>4. ASSUME NEW f \in Docs
      PROVE  Latest(f)' = Latest(f)
  <2>1. \A x \in Servers : Holds(x, f)' <=> Holds(x, f)
    BY <1>1, <1>2, <1>3, ResetShows
  <2>2. \A x \in Servers : Holds(x, f) => Answers(x, f)' = Answers(x, f)
    BY <1>1, <1>2, <1>3, ResetShows
  <2> QED BY <2>1, <2>2, OneHolder, LatestStays
<1>5. CASE ring = {}
  <2>1. [f \in Docs |-> Latest(f)]' = [f \in Docs |-> Latest(f)]
    BY <1>4
  <2>2. Store!Open
    BY <1>1, <1>5, <2>1 DEF Store!Open
  <2> QED BY <2>2 DEF Store!Next
<1>6. CASE ring # {}
  BY <1>1, <1>4, <1>6, ShownStays
<1> QED BY <1>5, <1>6

(* When the ring becomes empty, so does the store. *)
LEMMA EmptyRingCloses ==
  ASSUME ring # {}, ring' = {}, reply' = reply,
         \A d \in Docs : Latest(d)' = None
  PROVE  Store!Close
<1>1. [d \in Docs |-> Latest(d)]' = Store!Empty
  BY DEF Store!Empty
<1> QED BY <1>1 DEF Store!Close

(* The end of the input, for a ring of any size. *)
LEMMA ShutdownCloses ==
  ASSUME IInv, Shutdown
  PROVE  [Store!Next]_shown
<1>1. /\ op = Idle /\ ring' = {} /\ reply' = reply
      /\ db' = [s \in Servers |-> NoDocs]
      /\ queue' = [s \in Servers |-> << >>]
  BY DEF Shutdown
<1>2. ASSUME NEW s \in Servers, NEW d \in Docs
      PROVE  ~Holds(s, d)'
  <2>1. db'[s][d] = None /\ queue'[s] = << >>
    BY <1>1 DEF NoDocs
  <2>2. Waiting(s, d)' = {}
    BY <2>1 DEF Waiting
  <2> QED BY <2>1, <2>2 DEF Holds
<1>3. \A d \in Docs : Latest(d)' = None
  BY <1>2, LatestIsNoneNext
<1>4. CASE ring = {}
  <2>1. \A d \in Docs : Latest(d) = None
    BY <1>1, <1>4, Idling, NothingWithoutServers DEF Running
  <2> QED BY <1>1, <1>3, <1>4, <2>1, ShownStays
<1>5. CASE ring # {}
  BY <1>1, <1>3, <1>5, EmptyRingCloses DEF Store!Next
<1> QED BY <1>4, <1>5

(* No client sees that solve_queue applies an edit. *)
LEMMA SolveTaskStutters ==
  ASSUME IInv, SolveTask, \A f \in Docs : Clear(f)
  PROVE  UNCHANGED shown
<1>1. Solving /\ SolveOne(op.src) /\ UNCHANGED <<ring, op, reply>>
  BY DEF SolveTask
<1>2. ServersOK /\ op.src \in Servers
  BY <1>1, Parts, OpCases DEF Solving
<1>3. \A x \in Servers, f \in Docs :
        (Holds(x, f)' <=> Holds(x, f)) /\ Answers(x, f)' = Answers(x, f)
  BY <1>1, <1>2, SolveShows
<1>4. \A f \in Docs : Latest(f)' = Latest(f)
  BY <1>3, OneHolder, LatestStays
<1> QED BY <1>1, <1>4, ShownStays

(* No client sees that a document moves: the destination had none of it,   *)
(* and no edit of it waited there.                                         *)
LEMMA MoveOneStutters ==
  ASSUME IInv, NEW d \in Docs, MoveOne(d), \A f \in Docs : Clear(f)
  PROVE  UNCHANGED shown
<1>1. /\ op.kind \in {"add", "remove"} /\ op.stage = "move"
      /\ db[op.src][d] # None
      /\ MoveDocument(op.src, op.dest, d)
      /\ UNCHANGED <<ring, op, reply>>
  BY DEF MoveOne, ToMove
<1>2. PICK src \in Servers, dest \in Servers :
        /\ src = op.src /\ dest = op.dest /\ src # dest
        /\ queue[src] = << >>
  BY <1>1, Parts DEF Running, OpFitsRing
<1>3. ServersOK
  BY Parts
<1>4. /\ ~Holds(src, d)' /\ Holds(dest, d)'
      /\ Waiting(dest, d) = {} => Answers(dest, d)' = Answers(src, d)
      /\ \A x \in Servers, f \in Docs :
           f # d \/ x \notin {src, dest} =>
             (Holds(x, f)' <=> Holds(x, f)) /\ Answers(x, f)' = Answers(x, f)
  BY <1>1, <1>2, <1>3, MoveShows
<1>5. \A x \in Servers : Holds(x, d) => x = src
  BY <1>1, <1>2, OneHolder DEF Holds
<1>6. Latest(d)' = Latest(d)
  <2>1. Waiting(dest, d) = {}
    BY <1>2, <1>5 DEF Holds
  <2>2. ASSUME NEW x \in Servers, Holds(x, d)'
        PROVE  x = dest
    <3>1. x # src
      BY <1>4, <2>2
    <3> QED BY <1>4, <1>5, <2>2, <3>1
  <2>3. Latest(d)' = Answers(dest, d)'
    BY <2>2, LatestIsNext
  <2>4. Latest(d) = Answers(src, d)
    BY <1>5, LatestIs
  <2> QED BY <1>4, <2>1, <2>3, <2>4
<1>7. \A f \in Docs \ {d} : Latest(f)' = Latest(f)
  BY <1>4, OneHolder, LatestStays
<1> QED BY <1>1, <1>6, <1>7, ShownStays

(* A server that leaves has nothing left, or takes everything with it. *)
LEMMA FinishRemoveCloses ==
  ASSUME IInv, IInv', FinishRemove, \A f \in Docs : Clear(f)
  PROVE  [Store!Next]_shown
<1>1. /\ op.kind = "remove"
      /\ op.stage = "free" \/ (op.stage = "move" /\ ToMove = {})
      /\ ring' = ring \ {op.src} /\ ResetServer(op.src, 0)
      /\ op' = Idle /\ reply' = reply
  BY DEF FinishRemove, FreeServer
<1>2. PICK s \in Servers : s = op.src /\ s \in ring
  BY <1>1, Parts DEF Running, OpFitsRing
<1>3. ServersOK /\ OpFitsRing /\ ring \subseteq Servers
  BY <1>1, Parts DEF Running
<1>4. CASE op.stage = "free"
  <2>1. ring = {s}
    BY <1>1, <1>2, <1>3, <1>4, RingIsRing, NextOfLone DEF OpFitsRing
  <2>2. ring' = {}
    BY <1>1, <1>2, <2>1
  <2>3. ASSUME NEW t \in Servers, NEW d \in Docs
        PROVE  ~Holds(t, d)'
    <3>1. (db[t] = NoDocs)' /\ (queue[t] = << >>)'
      BY <1>1, <2>2, Idling DEF IInv, Running, OffRingEmpty
    <3>2. Waiting(t, d)' = {} /\ db'[t][d] = None
      BY <3>1 DEF Waiting, NoDocs
    <3> QED BY <3>2 DEF Holds
  <2>4. \A d \in Docs : Latest(d)' = None
    BY <2>3, LatestIsNoneNext
  <2> QED BY <1>1, <2>1, <2>2, <2>4, EmptyRingCloses DEF Store!Next
<1>5. CASE op.stage = "move" /\ ToMove = {}
  <2>1. \A f \in Docs : ~Holds(s, f)
    <3>1. queue[s] = << >> /\ \A f \in Docs : db[s][f] = None
      BY <1>1, <1>2, <1>3, <1>5 DEF OpFitsRing, ToMove
    <3> QED BY <3>1 DEF Holds, Waiting
  <2>2. \A x \in Servers, f \in Docs :
          /\ Holds(x, f)' <=> Holds(x, f)
          /\ Holds(x, f) => Answers(x, f)' = Answers(x, f)
    BY <1>1, <1>2, <1>3, <2>1, ResetShows
  <2>3. \A f \in Docs : Latest(f)' = Latest(f)
    BY <2>2, OneHolder, LatestStays
  <2>4. ring' # {}
    BY <1>1, <1>2, <1>3, <1>5 DEF OpFitsRing
  <2> QED BY <1>1, <1>2, <2>3, <2>4, ShownStays
<1> QED BY <1>1, <1>4, <1>5

LEMMA StepIsStoreStep ==
  ASSUME IInv, IInv', [Next]_vars, \A f \in Docs : Clear(f)
  PROVE  [Store!Next]_shown
<1>1. CASE UNCHANGED vars
  BY <1>1, SameServersShow DEF vars, serverVars
<1>2. CASE Request
  <2>1. ASSUME NEW d \in Docs, NEW c \in Contents, Edit(d, c)
        PROVE  Store!Next
    BY <2>1, EditWrites DEF Store!Next
  <2>2. ASSUME NEW d \in Docs, EditOverflows(d) \/ Get(d)
        PROVE  UNCHANGED shown
    BY <2>2, SameServersShow DEF EditOverflows, Get, serverVars
  <2>3. ASSUME NEW d \in Docs, Refuse(d)
        PROVE  Store!Next
    <3>1. /\ ring = {} /\ ring' = ring
          /\ reply' = Reply("refused", d, None)
          /\ db' = db /\ queue' = queue
      BY <2>3 DEF Refuse, serverVars
    <3>2. [f \in Docs |-> Latest(f)]' = [f \in Docs |-> Latest(f)]
      BY <3>1, CachesDoNotShow
    <3>3. Store!Refuse(d)
      BY <3>1, <3>2 DEF Store!Refuse, Store!Answered, Reply
    <3> QED BY <3>3 DEF Store!Next
  <2>4. ASSUME NEW s \in Servers, RemoveServer(s)
        PROVE  UNCHANGED shown
    BY <2>4, SameServersShow DEF RemoveServer, serverVars
  <2>5. CASE RemoveFromNone
    BY <2>5, SameServersShow DEF RemoveFromNone, serverVars
  <2> QED BY <1>2, <2>1, <2>2, <2>3, <2>4, <2>5, AddServerOpens,
             ShutdownCloses DEF Request
<1>3. CASE Progress
  <2>1. CASE Answer
    <3>1. op.doc \in Docs
      BY <2>1, Parts, OpCases DEF Answer
    <3> QED BY <2>1, <3>1, AnswerReads DEF Store!Next
  <2>2. CASE Crash \/ StartMoving \/ FinishAdd
    BY <2>2, SameServersShow DEF Crash, StartMoving, FinishAdd, serverVars
  <2> QED BY <1>3, <2>1, <2>2, SolveTaskStutters, MoveOneStutters,
             FinishRemoveCloses DEF Progress
<1>4. CASE Stopped
  BY <1>1, <1>4 DEF Stopped
<1> QED BY <1>1, <1>2, <1>3, <1>4 DEF Next

(* Refinement. When no document has the hash of a server, every behaviour  *)
(* of the load balancer is one of a single document store: an acknowledged *)
(* EDIT is never lost or overtaken, whatever servers join and leave, until *)
(* the last one does.                                                      *)
THEOREM Refinement ==
  ASSUME \A d \in Docs : Clear(d)
  PROVE  Spec => ActsAsOneStore
<1>1. Init => Store!Init
  BY InitIsEmptyStore
<1>2. IInv /\ IInv' /\ [Next]_vars => [Store!Next]_shown
  BY StepIsStoreStep
<1> QED BY <1>1, <1>2, Invariance, PTL DEF Spec, ActsAsOneStore, Store!Spec, shown
=============================================================================
