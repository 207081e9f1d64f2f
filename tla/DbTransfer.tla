----------------------------- MODULE DbTransfer -----------------------------
(***************************************************************************)
(* The loop of transfer_files (server.c) over the hash maps themselves: it *)
(* visits the buckets of the source's local_db in order, and on a chain it *)
(* removes the node it stands on, going on from a next pointer it read     *)
(* before. Between transfers, edits write to the databases. Which          *)
(* documents a transfer moves (should_move, or all with force_move) is a   *)
(* set chosen when it starts: the hashes it depends on do not change.      *)
(***************************************************************************)
EXTENDS HashMap

CONSTANTS
  Servers,     (* the servers                                              *)
  MaxStored    (* bound: nodes in all the databases                        *)

ASSUME StoredAssumption == MaxStored \in Nat

VARIABLES
  db,     (* db[s]: the map s->local_db                                    *)
  scan    (* where the loop is, or idle                                    *)

vars == <<db, scan>>

Idle == [at |-> "idle"]
Scanning(s, t, chosen, b, n) ==
  [at |-> "scan", src |-> s, dest |-> t, chosen |-> chosen, bucket |-> b,
   node |-> n]

TypeOK ==
  /\ db \in [Servers -> MapType]
  /\ scan \in {Idle} \union
       [at : {"scan"}, src : Servers, dest : Servers, chosen : SUBSET Keys,
        bucket : Buckets, node : Pointer]

Init == db = [s \in Servers |-> EmptyMap] /\ scan = Idle

-----------------------------------------------------------------------------

(* What malloc answers when hm_set puts key k into the database of s; a    *)
(* known key needs no node. Which of the free addresses it is can make no  *)
(* difference: every chain has its own, and none is asked for in the chains*)
(* a transfer walks on.                                                    *)
Fresh(s, k) ==
  LET unused == Unused(db[s].buckets[BucketOf(k)])
  IN  IF HasKey(db[s], k) THEN {Null}
      ELSE {n \in unused : n = CHOOSE m \in unused : TRUE}

Stored == {p \in [server : Servers, bucket : Buckets, node : Nodes] :
             p.node \in Reached(db[p.server].buckets[p.bucket])}

(* hm_set in server_edit_document *)
Write(s, k, v) ==
  /\ scan = Idle
  /\ Cardinality(Stored) < MaxStored \/ HasKey(db[s], k)
  /\ \E new \in Fresh(s, k) : db' = [db EXCEPT ![s] = HmSet(@, k, v, new)]
  /\ UNCHANGED scan

(* A server that left is freed with its database; one that joins has a new *)
(* one.                                                                    *)
Replace(s) ==
  /\ scan = Idle
  /\ db' = [db EXCEPT ![s] = HmFree(@)]
  /\ UNCHANGED scan

Begin(s, t, chosen) ==
  /\ scan = Idle
  /\ s # t
  /\ scan' = Scanning(s, t, chosen, 0, db[s].buckets[0].head)
  /\ UNCHANGED db

Chain == db[scan.src].buckets[scan.bucket]

(* The key of the node the loop stands on. *)
Key == Chain.data[scan.node].key

Present(s, k) == HmGet(db[s], k) # Missing

OnNode == scan.at = "scan" /\ scan.node # Null

(* Variant of MoveNode that reads next after the node is gone. *)
MoveNodeReadingLate ==
  /\ OnNode
  /\ Key \in scan.chosen
  /\ \E new \in Fresh(scan.dest, Key) :
       db' = [db EXCEPT
         ![scan.dest] = HmSet(@, Key, Chain.data[scan.node].val, new),
         ![scan.src] = HmRemove(@, Key)]
  /\ scan' = [scan EXCEPT
       !.node = db'[scan.src].buckets[scan.bucket].next[@]]

(* Variant of MoveNode that does not go on after a removal. *)
MoveNodeKeepingPlace ==
  /\ OnNode
  /\ Key \in scan.chosen
  /\ \E new \in Fresh(scan.dest, Key) :
       db' = [db EXCEPT
         ![scan.dest] = HmSet(@, Key, Chain.data[scan.node].val, new),
         ![scan.src] = HmRemove(@, Key)]
  /\ UNCHANGED scan

(* An iteration on a document that moves: hm_set at the destination,       *)
(* hm_remove at the source, and on to the node read before.                *)
MoveNode ==
  /\ OnNode
  /\ Key \in scan.chosen
  /\ \E new \in Fresh(scan.dest, Key) :
       db' = [db EXCEPT
         ![scan.dest] = HmSet(@, Key, Chain.data[scan.node].val, new),
         ![scan.src] = HmRemove(@, Key)]
  /\ scan' = [scan EXCEPT !.node = Chain.next[@]]

(* Variant of PassNode whose step to the next node is behind the if. *)
PassNodeStaying ==
  /\ OnNode
  /\ Key \notin scan.chosen
  /\ UNCHANGED vars

(* An iteration on a document that stays. *)
PassNode ==
  /\ OnNode
  /\ Key \notin scan.chosen
  /\ scan' = [scan EXCEPT !.node = Chain.next[@]]
  /\ UNCHANGED db

(* The end of a chain: the next bucket, or the end of the transfer. *)
EndOfChain ==
  /\ scan.at = "scan"
  /\ scan.node = Null
  /\ LET bucket == scan.bucket + 1
     IN  scan' = IF bucket = HMax THEN Idle
                 ELSE [scan EXCEPT !.bucket = bucket,
                                   !.node = db[scan.src].buckets[bucket].head]
  /\ UNCHANGED db

Loop == MoveNode \/ PassNode \/ EndOfChain

Next ==
  \/ \E s \in Servers, k \in Keys, v \in Vals : Write(s, k, v)
  \/ \E s \in Servers : Replace(s)
  \/ \E s, t \in Servers :
       \E chosen \in SUBSET {k \in Keys : Present(s, k)} : Begin(s, t, chosen)
  \/ Loop

(* The loop is straight-line code: nothing can block it. *)
Spec == Init /\ [][Next]_vars /\ WF_vars(Loop)

-----------------------------------------------------------------------------
(* Properties.                                                             *)

(* Every chain stays well-formed and every key is in one place, its own    *)
(* bucket: hm_get and hm_remove stop at the first node that compares equal.*)
MapsWellFormed == TypeOK /\ \A s \in Servers : MapShape(db[s])

(* The loop of transfer_files stands on a node that is still on the chain  *)
(* it walks, never on one that hm_remove has given back.                   *)
CursorIsLive == OnNode => scan.node \in Reached(Chain)

Moves == INSTANCE DocMoves WITH
  db <- [s \in Servers |-> [k \in Keys |-> HmGet(db[s], k)]],
  job <- IF scan = Idle THEN << >> ELSE <<scan.src, scan.dest>>,
  toMove <- IF scan = Idle THEN {} ELSE {k \in scan.chosen : Present(scan.src, k)}

(* The walk over the buckets moves each chosen document once, whole, and   *)
(* leaves none of them behind, though every removal relinks the chain under*)
(* it: what is left of the source is what the load balancer's model moves. *)
MovesTheChosen == Moves!Spec

(* Every transfer ends: no chain has a cycle, and each iteration goes on.  *)
TransferEnds == (scan # Idle) ~> (scan = Idle)

=============================================================================
