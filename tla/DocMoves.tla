------------------------------ MODULE DocMoves ------------------------------
(***************************************************************************)
(* A transfer between the databases of two servers as the load balancer's  *)
(* model has it: databases are maps, the documents to be moved are a set,  *)
(* and each step moves one of them until the set is empty.                 *)
(***************************************************************************)
CONSTANTS
  Servers,   (* the servers                                                *)
  Keys,      (* document names                                             *)
  Vals,      (* document contents                                          *)
  Missing    (* "no such document"                                         *)

VARIABLES
  db,        (* db[s][k]: the content of k on server s, or Missing         *)
  job,       (* source and destination of the transfer in progress         *)
  toMove     (* the documents it still has to move                         *)

vars == <<db, job, toMove>>

NoJob == << >>

Init ==
  /\ db = [s \in Servers |-> [k \in Keys |-> Missing]]
  /\ job = NoJob
  /\ toMove = {}

Write(s, k, v) ==
  /\ job = NoJob
  /\ UNCHANGED <<job, toMove>>
  /\ db' = [db EXCEPT ![s][k] = v]

(* A server left, and another one takes its place. *)
Replace(s) ==
  /\ job = NoJob
  /\ UNCHANGED <<job, toMove>>
  /\ db' = [db EXCEPT ![s] = [k \in Keys |-> Missing]]

(* A transfer of the stored documents among those that are chosen. *)
Begin(s, t, chosen) ==
  /\ job = NoJob
  /\ s # t
  /\ job' = <<s, t>>
  /\ toMove' = {k \in chosen : db[s][k] # Missing}
  /\ UNCHANGED db

MoveOne(k) ==
  /\ k \in toMove
  /\ toMove' = toMove \ {k}
  /\ UNCHANGED job
  /\ db' = [db EXCEPT ![job[2]][k] = db[job[1]][k], ![job[1]][k] = Missing]

Finish ==
  /\ job # NoJob
  /\ toMove = {}
  /\ job' = NoJob
  /\ UNCHANGED <<db, toMove>>

Next ==
  \/ \E s \in Servers, k \in Keys, v \in Vals : Write(s, k, v)
  \/ \E s \in Servers : Replace(s)
  \/ \E s, t \in Servers, chosen \in SUBSET Keys : Begin(s, t, chosen)
  \/ \E k \in Keys : MoveOne(k)
  \/ Finish

Spec == Init /\ [][Next]_vars
=============================================================================
