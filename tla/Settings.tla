------------------------------ MODULE Settings ------------------------------
(***************************************************************************)
(* What the parameters of the terminal promise: a value the server sets is *)
(* used and kept at once, and a power cut changes neither, unless it falls *)
(* into a rewrite of the file.  Then all that was kept is lost for good:   *)
(* the terminal takes new values, and forgets them with the next cut.      *)
(***************************************************************************)
CONSTANTS Names, Words, Lost

VARIABLES
  kept,  \* what the flash holds, or Lost
  used   \* what the terminal works with

Store == [Names -> Words]

Init == kept \in Store /\ used = kept

SetTo(n, w) ==
  /\ used' = [used EXCEPT ![n] = w]
  /\ kept' = IF kept = Lost THEN Lost ELSE [kept EXCEPT ![n] = w]

Lose == kept' = Lost /\ used' \in Store

Next == Lose \/ \E n \in Names, w \in Words : SetTo(n, w)

Spec == Init /\ [][Next]_<<kept, used>>
=============================================================================
