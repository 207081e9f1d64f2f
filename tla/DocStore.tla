------------------------------ MODULE DocStore ------------------------------
(***************************************************************************)
(* What the cluster promises its clients: one map from document names to   *)
(* contents. An EDIT that was acknowledged is visible to every later GET;  *)
(* which servers hold the documents, what is queued and what is cached     *)
(* cannot be told from the answers. Only the last server takes the         *)
(* documents with it when it leaves.                                       *)
(***************************************************************************)
CONSTANTS Docs, Contents, None

VARIABLES
  store,     (* store[d]: the content of d, or None                        *)
  serving,   (* there is at least one server                               *)
  reply      (* what the last request of a client printed                  *)

Answered(k, d, c) == reply' = [kind |-> k, doc |-> d, content |-> c]

Empty == [d \in Docs |-> None]

Init ==
  /\ store = Empty
  /\ serving = FALSE
  /\ reply = [kind |-> "none", doc |-> None, content |-> None]

Write(d, c) ==
  /\ serving
  /\ store' = [store EXCEPT ![d] = c]
  /\ Answered("queued", d, c)
  /\ UNCHANGED serving

Read(d) ==
  /\ serving
  /\ Answered("content", d, store[d])
  /\ UNCHANGED <<store, serving>>

Refuse(d) ==
  /\ ~serving
  /\ Answered("refused", d, None)
  /\ UNCHANGED <<store, serving>>

Open ==
  /\ ~serving
  /\ serving' = TRUE
  /\ UNCHANGED <<store, reply>>

(* The last server leaves, or the program ends. *)
Close ==
  /\ serving
  /\ serving' = FALSE
  /\ store' = Empty
  /\ UNCHANGED reply

Next ==
  \/ \E d \in Docs : Read(d) \/ Refuse(d) \/ \E c \in Contents : Write(d, c)
  \/ Open
  \/ Close

Spec == Init /\ [][Next]_<<store, serving, reply>>
=============================================================================
