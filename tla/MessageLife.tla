---------------------------- MODULE MessageLife -----------------------------
(***************************************************************************)
(* What the client promises about an outbound message, whoever works on    *)
(* it: the row says what happened on the network.  A row is created once   *)
(* and a deleted row stays deleted; 'sent' means that an object of that    *)
(* message went out, 'ackreceived' that one was acknowledged.  Module      *)
(* Delivery is shown to implement this specification.                      *)
(***************************************************************************)
CONSTANT Msgs

VARIABLES
  state,      \* the status of each message's row, "none" before, "deleted" after
  out,        \* messages of which an object was handed to the network
  confirmed   \* messages of which an acknowledgement came back

vars == <<state, out, confirmed>>

Waiting == {"awaiting-pubkey", "sending"}
Rows == Waiting \union {"sent", "ackreceived", "ack-failed"}

Init ==
  /\ state = [m \in Msgs |-> "none"]
  /\ out = {}
  /\ confirmed = {}

Create(m) ==
  /\ state[m] = "none"
  /\ state' = [state EXCEPT ![m] = "awaiting-pubkey"]
  /\ UNCHANGED <<out, confirmed>>

\* An object of m goes out, even when its row was deleted meanwhile.
PublishObject(m) ==
  /\ state[m] # "none"
  /\ out' = out \union {m}
  /\ UNCHANGED <<state, confirmed>>

Confirm(m) ==
  /\ m \in out
  /\ confirmed' = confirmed \union {m}
  /\ UNCHANGED <<state, out>>

\* What a row may claim at this moment.
Evidence(m, s) ==
  /\ s = "sent" => m \in out
  /\ s = "ackreceived" => m \in confirmed

\* Any claim may follow any other as long as it has its evidence: several
\* attempts of one message write its row.
Move(m, s) ==
  /\ state[m] \in Rows
  /\ s \in Rows
  /\ Evidence(m, s)
  /\ state' = [state EXCEPT ![m] = s]
  /\ UNCHANGED <<out, confirmed>>

\* Rows left 'sending' are queued again, all of them in one step.
Requeue(S) ==
  /\ \A m \in S : state[m] = "sending"
  /\ state' = [m \in Msgs |-> IF m \in S THEN "awaiting-pubkey" ELSE state[m]]
  /\ UNCHANGED <<out, confirmed>>

Delete(m) ==
  /\ state[m] \in Rows
  /\ state' = [state EXCEPT ![m] = "deleted"]
  /\ UNCHANGED <<out, confirmed>>

Next ==
  \/ \E m \in Msgs : Create(m) \/ PublishObject(m) \/ Confirm(m) \/ Delete(m)
  \/ \E m \in Msgs, s \in Rows : Move(m, s)
  \/ \E S \in SUBSET Msgs : Requeue(S)

Spec == Init /\ [][Next]_vars
=============================================================================
