----------------------------- MODULE MCTerminal -----------------------------
(* An instance of Terminal for TLC: one setting of each kind. *)
EXTENDS Terminal

MCShipped == [k \in Keys |-> "v1"]

MCRdAddr == [op |-> "addr", key |-> "MainCode", value |-> Garbage, seal |-> Garbage]

\* The server may set the transport key to and fro, the others once.
MCBodies ==
  {SetComd("MatchCode", "v2", s) : s \in Values}
  \cup {SetComd("CommEncryptKey", v, Garbage) : v \in Values}
  \cup {SetComd(k, "v2", Garbage) : k \in {MinKey, DayKey}}
  \cup {RdComd(k) : k \in SoundKeys}

MCStrays ==
  {[addr |-> "other", body |-> SetComd("MatchCode", "v2", "v1"), num |-> 0],
   [addr |-> "own", body |-> NoBody, num |-> 0],
   [addr |-> "other", body |-> MCRdAddr, num |-> 0]}
=============================================================================
