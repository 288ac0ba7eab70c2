------------------------------ MODULE Terminal ------------------------------
(***************************************************************************)
(* The terminal as the PosServer sees it: the server link carries the SET  *)
(* and RD commands of the parameters to the main loop, and power cuts take *)
(* away the RAM, the buffer, and with bad luck the parameter file.         *)
(***************************************************************************)
EXTENDS ServerLink, Parameters

CONSTANT MaxCuts  \* bound: power cuts of a behaviour

VARIABLES
  told,  \* history: the value the server last saw confirmed, per key
  cuts   \* power cuts so far

vars == <<linkVars, paramVars, told, cuts>>

SetComd(k, v, seal) == [op |-> "set", key |-> k, value |-> v, seal |-> seal]
RdComd(k) == [op |-> "rd", key |-> k, value |-> Garbage, seal |-> Garbage]
IsSet(body) == body # NoBody /\ body.op = "set"
IsRd(body) == body # NoBody /\ body.op = "rd"

\* The server sets values of its own, and nobody else asks this terminal to set
\* or tell anything.
Commands ==
  {SetComd(k, v, seal) : k \in Keys, v \in Values, seal \in Held}
  \cup {RdComd(k) : k \in Keys}
ASSUME CommandAssumption ==
  /\ Bodies \subseteq Commands
  /\ RdAddr # NoBody /\ RdAddr.op = "addr" /\ NoBody \notin Commands
  /\ \A s \in Strays :
       /\ s \in [addr : Addresses, body : Commands \cup {RdAddr, NoBody}, num : Frames]
       /\ s.addr = "own" => s.body \notin Commands
ASSUME TextAssumption == {Missing, Empty} \cap Held = {}
ASSUME CutAssumption == MaxCuts \in Nat

\* The server encrypts with the transport key it was last told of.
ServerKey == told["CommEncryptKey"]

Init ==
  /\ LinkInit
  /\ ParamInit
  /\ told = file
  /\ cuts = 0

Link == LinkStep /\ UNCHANGED <<paramVars, told, cuts>>

AskSomething ==
  /\ \E body \in Bodies :
       (IsSet(body) /\ body.key \in SealedKeys => body.seal = ServerKey) /\ Ask(body)
  /\ UNCHANGED <<paramVars, told, cuts>>

\* ReceiveSub, by the command in the buffer.
ExecuteSet ==
  /\ IsSet(Command)
  /\ Execute(SetStatus(Command), NoData)
  /\ Set(Command)
  /\ UNCHANGED <<told, cuts>>

ExecuteRd ==
  /\ IsRd(Command)
  /\ Execute("ok", ram[Command.key])
  /\ UNCHANGED <<paramVars, told, cuts>>

ExecuteRdAddr ==
  /\ Command = RdAddr
  /\ Execute("ok", "MainCode")
  /\ UNCHANGED <<paramVars, told, cuts>>

ExecuteUnknown ==
  /\ Command = NoBody
  /\ Execute("ReComd_Error", NoData)
  /\ UNCHANGED <<paramVars, told, cuts>>

\* The server takes note of what a SET or RD of its own confirmed.
Hear ==
  /\ GetAnswer
  /\ told' = IF Answers(answer, request) /\ answer.status = "ok" /\ IsSet(request.body)
             THEN [told EXCEPT ![request.body.key] = request.body.value]
             ELSE told
  /\ UNCHANGED <<paramVars, cuts>>

Cut(stored) ==
  /\ cuts < MaxCuts
  /\ cuts' = cuts + 1
  /\ LinkPowerUp
  /\ ParamPowerUp(stored)
  /\ UNCHANGED told

PowerCut == Cut(file)

PowerCutInSet ==
  /\ loop = "execute" /\ IsSet(Command)
  /\ \E stored \in AfterCut(Command) : Cut(stored)

Next ==
  \/ Link \/ AskSomething \/ Hear
  \/ ExecuteSet \/ ExecuteRd \/ ExecuteRdAddr \/ ExecuteUnknown
  \/ PowerCut \/ PowerCutInSet

Spec == Init /\ [][Next]_vars

\* Both threads run, the server repeats what is not answered, and neither every
\* request nor every answer is lost.
Fairness ==
  /\ WF_vars((Swap \/ Test) /\ UNCHANGED <<paramVars, told, cuts>>)
  /\ WF_vars((Take \/ Address \/ Send \/ Wipe) /\ UNCHANGED <<paramVars, told, cuts>>)
  /\ WF_vars(ExecuteSet \/ ExecuteRd \/ ExecuteRdAddr \/ ExecuteUnknown)
  /\ WF_vars(AskAgain /\ UNCHANGED <<paramVars, told, cuts>>)
  /\ SF_vars(Receive /\ UNCHANGED <<paramVars, told, cuts>>)
  /\ SF_vars(Hear)

FairSpec == Spec /\ Fairness

------------------------------------------------------------------------------
\* Properties.

Datagrams == [addr : Addresses, body : AllBodies, num : Frames]
Data == Held \cup {Empty, NoData, "MainCode"}
Replies == [body : AllBodies, num : Frames, status : Statuses, data : Data]
Buffers == [addr : Addresses, body : AllBodies, num : Frames,
            order : {"net", "host"}, status : Statuses, data : Data]

\* Types.
TypeOK ==
  /\ SerialUnion \in Buffers
  /\ wire \in Datagrams
  /\ answer \in Replies
  /\ request \in Datagrams
  /\ breadDataFronSocket \in BOOLEAN
  /\ receiver \in {"receive", "swap", "test"}
  /\ loop \in {"look", "execute", "address", "send", "wipe"}
  /\ frame \in Frames
  /\ asked \in 0..MaxRequests
  /\ strays \in 0..MaxStrays
  /\ crossed \in BOOLEAN
  /\ ram \in [Keys -> Held]
  /\ file \in [Keys -> Held \cup {Empty, Missing}]
  /\ told \in [Keys -> Held]
  /\ cuts \in 0..MaxCuts

\* Nothing that is addressed to another terminal is executed, although the flag
\* of an earlier request may still be up when such a datagram arrives: it wiped
\* the buffer then, and the main loop executes the command 0.
OnlyMineIsExecuted ==
  loop = "execute" /\ ~crossed => SerialUnion = Blank \/ IsMine(SerialUnion)

\* What the server was told is kept: the file holds, for each sound setting, the
\* last confirmed value or the one being set, whatever was lost, repeated,
\* answered late or cut off.
Asked(k) == IF IsSet(request.body) /\ request.body.key = k
            THEN {request.body.value} ELSE {}
ConfirmedIsKept ==
  ~crossed /\ Intact =>
    \A k \in SoundKeys : file[k] \in {told[k]} \cup Asked(k)

\* An answer the server would accept tells the value it set: no datagram that
\* came while it was made has left its data in it.
AnswerIsTrue ==
  ~crossed /\ Intact /\ Answers(answer, request) /\ IsRd(request.body)
    /\ request.body.key \in SoundKeys =>
      answer.status = "ok" /\ answer.data = told[request.body.key]

\* Every request gets its answer, although losses, strays that wipe a waiting
\* request, steps of the two threads in any order and power cuts come between.
RequestIsAnswered == request # None ~> request = None
=============================================================================
