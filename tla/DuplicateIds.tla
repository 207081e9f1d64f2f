---------------------------- MODULE DuplicateIds ----------------------------
(***************************************************************************)
(* The array of servers when an id may be added more than once: nothing in *)
(* loader_add_server looks whether it is there already, and every element  *)
(* of the array is a server of its own. Nor does anything keep ids below   *)
(* the step between the labels of one server, which transfer_files takes   *)
(* for one server also without virtual nodes. An element carries its id,   *)
(* its database and its queue, and a request is one step. Caches are left  *)
(* out: each belongs to one element, and LoadBalancer shows what they      *)
(* answer.                                                                 *)
(***************************************************************************)
EXTENDS SortedArray

CONSTANTS
  Servers,        (* server ids                                            *)
  Docs,           (* document names                                        *)
  Contents,       (* document contents                                     *)
  None,           (* no such document                                      *)
  LabelStep,      (* 100000, by which the ids of virtual nodes differ      *)
  TaskQueueSize,  (* TASK_QUEUE_SIZE                                       *)
  MaxElements     (* bound: elements the array may have                    *)

ASSUME DuplicatesAssumption ==
  /\ None \notin Contents
  /\ Servers \subseteq Nat
  /\ LabelStep \in Nat \ {0}
  /\ \A s, t \in Servers : LabelHash[s] = LabelHash[t] => s = t
  /\ \A s \in Servers, d \in Docs : LabelHash[s] # DocHash[d]

VARIABLE servers   \* the elements, in the order of the array

MaybeContent == Contents \union {None}

Element ==
  [id : Servers, db : [Docs -> MaybeContent],
   queue : Seq([doc : Docs, content : Contents])]

TypeOK ==
  /\ servers \in Seq(Element)
  /\ \A i \in DOMAIN servers : Len(servers[i].queue) <= TaskQueueSize

(* init_server and the id it is given. *)
NewServer(s) == [id |-> s, db |-> [d \in Docs |-> None], queue |-> << >>]

Ids == [i \in DOMAIN servers |-> servers[i].id]

Size == Len(servers)

Init == servers = << >>

-----------------------------------------------------------------------------
(* What a request does to the elements.                                    *)

Waiting(e, d) == {i \in DOMAIN e.queue : e.queue[i].doc = d}

(* The content of d once the queue is executed. *)
Latest(e, d) ==
  IF Waiting(e, d) = {} THEN e.db[d] ELSE e.queue[Max(Waiting(e, d))].content

(* solve_queue *)
Solved(e) == [e EXCEPT !.db = [d \in Docs |-> Latest(e, d)], !.queue = << >>]

(* What transfer_files takes for two labels of one server. *)
SameServer(e, f) == e.id % LabelStep = f.id % LabelStep

(* transfer_files on the elements at positions i and j of the array list,  *)
(* where moving are the documents that should go.                          *)
Transferred(list, i, j, moving) ==
  IF SameServer(list[i], list[j]) THEN list
  ELSE LET src == Solved(list[i])
           goes(d) == src.db[d] # None /\ d \in moving
       IN  [list EXCEPT
              ![i] = [src EXCEPT !.db = [d \in Docs |-> IF goes(d) THEN None ELSE @[d]]],
              ![j].db = [d \in Docs |-> IF goes(d) THEN src.db[d] ELSE @[d]]]

(* The position of the element an EDIT or GET of d is forwarded to. *)
OwnerPosition(d) == OrderedIndex(Ids, DocHash[d]) + 1

(* Variant of Edit with a comparison that is off by one. *)
EditOneMore(d, c) ==
  /\ Size > 0
  /\ Len(servers[OwnerPosition(d)].queue) <= TaskQueueSize
  /\ servers' = [servers EXCEPT ![OwnerPosition(d)].queue =
                   Append(@, [doc |-> d, content |-> c])]

(* EDIT, while the owner's queue has room; without, the program exits. *)
Edit(d, c) ==
  /\ Size > 0
  /\ Len(servers[OwnerPosition(d)].queue) < TaskQueueSize
  /\ servers' = [servers EXCEPT ![OwnerPosition(d)].queue =
                   Append(@, [doc |-> d, content |-> c])]

(* GET: the owner executes its queue and answers. *)
Get(d) ==
  /\ Size > 0
  /\ servers' = [servers EXCEPT ![OwnerPosition(d)] = Solved(@)]

(* The position (i + 1) % n of the next of n elements. *)
After(i, n) == (i % n) + 1

(* ADD_SERVER, of any id: al_insert_ordered puts a second element with one *)
(* id behind the first.                                                    *)
AddServer(s) ==
  /\ Size < MaxElements
  /\ LET at == InsertionIndex(Ids, s) + 1
         list == InsertAt(servers, at, NewServer(s))
         after == After(at, Len(list))
     IN  servers' = Transferred(list, after, at,
                                {d \in Docs : ShouldMove(list[after].id, s, d)})

(* The position REMOVE_SERVER works on: -1, for an id that is not there,   *)
(* means the last.                                                         *)
Found(s) == LET i == FindBy(Ids, s) IN IF i = -1 THEN Size ELSE i + 1

(* Variant of RemoveServer that hands the documents to the element before. *)
RemoveServerToBefore(s) ==
  /\ Size > 0
  /\ LET src == Found(s)
         dest == IF src = 1 THEN Size ELSE src - 1
     IN  servers' = RemoveAt(Transferred(servers, src, dest, Docs), src)

(* REMOVE_SERVER: the element al_find_by answers hands its documents to    *)
(* the one after it, unless that has the same id, and is erased.           *)
RemoveServer(s) ==
  /\ Size > 0
  /\ LET src == Found(s)
         dest == After(src, Size)
     IN  servers' = RemoveAt(Transferred(servers, src, dest, Docs), src)

Next ==
  \/ \E d \in Docs : Get(d) \/ \E c \in Contents : Edit(d, c)
  \/ \E s \in Servers : AddServer(s) \/ RemoveServer(s)

Spec == Init /\ [][Next]_servers

-----------------------------------------------------------------------------
(* Properties.                                                             *)

(* The second of two elements with one id is inert: it holds no document   *)
(* and no edit, since al_get_ordered never stops at it and no transfer     *)
(* leads to it while the first is there. If it held one, GET would not     *)
(* find it.                                                                *)
SecondsAreEmpty ==
  \A i, j \in DOMAIN servers :
    i < j /\ servers[i].id = servers[j].id =>
      servers[j].db = NewServer(servers[j].id).db /\ servers[j].queue = << >>

(* Every document and every waiting edit is at the element to which a GET  *)
(* of it is forwarded, also among elements that share an id.               *)
AtTheOwner ==
  \A i \in DOMAIN servers, d \in Docs :
    servers[i].db[d] # None \/ Waiting(servers[i], d) # {} => i = OwnerPosition(d)

Sound == SecondsAreEmpty /\ AtTheOwner

(* A server of id s joins before an element that transfer_files takes for  *)
(* the same server, or leaves with such an element after it: the two are   *)
(* twins, or their ids are equal modulo the step, or there is only one.    *)
JoinsCongruent(s) ==
  /\ AddServer(s)
  /\ Size > 0 => SameServer(NewServer(s), servers[After(InsertionIndex(Ids, s), Size)])

LeavesCongruent(s) ==
  /\ RemoveServer(s)
  /\ SameServer(servers[Found(s)], servers[After(Found(s), Size)])

(* Adding ids twice puts no document where GET does not look: only a       *)
(* server that joins before another one, whose id differs from its by a    *)
(* multiple of the step, leaves documents behind.                          *)
StaysSound ==
  /\ Sound
  /\ [][Sound => \/ Sound'
                 \/ \E s \in Servers : JoinsCongruent(s) /\ s \notin Range(Ids)]_servers

(* What a GET of d would print. *)
Answer(d) == IF Size = 0 THEN None ELSE Latest(servers[OwnerPosition(d)], d)

(* The ring changes: ADD_SERVER or REMOVE_SERVER. *)
Resized == Len(servers') # Len(servers)

(* A join or a removal changes what a GET answers only where the server    *)
(* that joins or leaves and the one after it are taken for one: with ids   *)
(* of their own below the step, every document outlives its server.        *)
OnlyCongruentLose ==
  [][Sound /\ Resized =>
       \/ \A d \in Docs : Answer(d)' = Answer(d)
       \/ \E s \in Servers : JoinsCongruent(s) \/ LeavesCongruent(s)]_servers
=============================================================================
