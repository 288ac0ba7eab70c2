------------------------------- MODULE Ledger -------------------------------
(***************************************************************************)
(* What the consume journal promises, without ids, tags, pointers, replies *)
(* or power cuts: a record that was accepted is held until the server has  *)
(* received it or orders the journal to be cleared.                        *)
(***************************************************************************)
CONSTANT Txn

VARIABLES
  accepted,  \* every record the journal took
  held,      \* records still kept for the server
  received   \* records the server has

vars == <<accepted, held, received>>

Init == accepted = {} /\ held = {} /\ received = {}

Accept(t) ==
  /\ t \notin accepted
  /\ accepted' = accepted \cup {t}
  /\ held' = held \cup {t}
  /\ UNCHANGED received

\* The server may be sent a record again.
Receive(S) ==
  /\ received' = received \cup S
  /\ UNCHANGED <<accepted, held>>

Release(S) ==
  /\ S \subseteq received
  /\ held' = held \ S
  /\ UNCHANGED <<accepted, received>>

Clear ==
  /\ held' = {}
  /\ UNCHANGED <<accepted, received>>

Next ==
  \/ \E t \in Txn : Accept(t)
  \/ \E S \in SUBSET accepted : Receive(S)
  \/ \E S \in SUBSET held : Release(S)
  \/ Clear

Spec == Init /\ [][Next]_vars
=============================================================================
