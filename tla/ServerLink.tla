----------------------------- MODULE ServerLink -----------------------------
(***************************************************************************)
(* How a request of the PosServer gets to the main loop and its answer     *)
(* back: the receive thread (app_ykt_get_serverdata_thread) writes a       *)
(* datagram into SerialUnion and raises a flag; the main loop              *)
(* (app_ykt_main) lowers it, executes what the buffer holds (ReceiveSub)   *)
(* and sends the same buffer back (udpSendSub).                            *)
(*                                                                         *)
(* The mutex is taken by the receive thread only, the main loop's lock is  *)
(* commented out: every step below interleaves with every step of the      *)
(* other thread.  A step is what lies between two accesses of the buffer   *)
(* that the other thread can come between.                                 *)
(*                                                                         *)
(* The server asks one thing at a time, numbers its requests, and repeats  *)
(* a request until an answer with its number and command is back.  Other   *)
(* datagrams on the port (a request for another terminal, a search for     *)
(* addresses, an early repeat) may come at any moment.                     *)
(***************************************************************************)
EXTENDS Integers

CONSTANTS
  Bodies,       \* what the server asks: command and data of a request
  Strays,       \* datagrams that are not the server's request to this terminal
  RdAddr,       \* the body RD_ADDR_COMD, answered whatever the address
  NoBody,       \* a command no handler knows, as 0
  MaxStrays,    \* bound: stray datagrams and early repeats of a behaviour
  MaxRequests   \* bound: requests of a behaviour

NoData == "no data"
ASSUME BodyAssumption == NoBody \notin Bodies
ASSUME RequestAssumption == MaxStrays \in Nat /\ MaxRequests \in Nat

VARIABLES
  SerialUnion,        \* the request and answer buffer
  breadDataFronSocket,\* the flag: a request waits
  receiver,           \* where the receive thread is
  loop,               \* where the main loop is
  wire,               \* the datagram on its way to the terminal
  answer,             \* the datagram on its way to the server
  request,            \* the server's open request
  frame,              \* the number of the server's next request
  asked,              \* requests so far
  strays,             \* stray datagrams so far
  crossed             \* history: the two threads used the buffer at the same time

threads == <<SerialUnion, breadDataFronSocket, receiver, loop, crossed>>
network == <<wire, answer>>
serverSide == <<request, frame, asked, strays>>
linkVars == <<threads, network, serverSide>>

\* UartFrameNum is a byte; an answer is at most one request late.
Frames == 0..1
Addresses == {"own", "other", "zero"}
Statuses == {"ok", "ReDatas_Error", "ReComd_Error"}
AllBodies == Bodies \cup {s.body : s \in Strays} \cup {NoBody}

Datagram(addr, body, num) == [addr |-> addr, body |-> body, num |-> num]
None == [addr |-> "zero", body |-> NoBody, num |-> 0]
NoAnswer == [body |-> NoBody, num |-> 0, status |-> "ok", data |-> NoData]

\* The fields of two bytes are in network or in host order.
Swapped(order) == IF order = "net" THEN "host" ELSE "net"

\* Init_Serial: a buffer of zeros, whose command is 0.
Blank == [addr |-> "zero", body |-> NoBody, num |-> 0, order |-> "host",
          status |-> "ok", data |-> NoData]

LinkInit ==
  /\ SerialUnion = Blank
  /\ breadDataFronSocket = FALSE
  /\ receiver = "receive"
  /\ loop = "look"
  /\ wire = None /\ answer = NoAnswer /\ request = None
  /\ frame = 0 /\ asked = 0 /\ strays = 0
  /\ crossed = FALSE

Handling == loop # "look"

\* A step of the receive thread while a request is being handled.
ReceiverStep(next) ==
  /\ receiver' = next
  /\ crossed' = (crossed \/ Handling)
  /\ UNCHANGED <<loop, answer, serverSide>>

------------------------------------------------------------------------------
\* The receive thread.

\* UdpSocketRecDataFromPosServer: no checksum is looked at.
Receive ==
  /\ receiver = "receive" /\ wire # None
  /\ SerialUnion' = [addr |-> wire.addr, body |-> wire.body, num |-> wire.num,
                     order |-> "net", status |-> "ok", data |-> NoData]
  /\ wire' = None
  /\ ReceiverStep("swap")
  /\ UNCHANGED breadDataFronSocket

Swap ==
  /\ receiver = "swap"
  /\ SerialUnion' = [SerialUnion EXCEPT !.order = Swapped(@)]
  /\ ReceiverStep("test")
  /\ UNCHANGED <<breadDataFronSocket, wire>>

\* No address and no command is its own swap, so neither test holds in
\* network order.
IsMine(datagram) ==
  /\ datagram.order = "host"
  /\ datagram.addr = "own" \/ datagram.body = RdAddr

\* Mutant: what is not mine stays in the buffer.
TestKeep ==
  /\ receiver = "test"
  /\ breadDataFronSocket' = (breadDataFronSocket \/ IsMine(SerialUnion))
  /\ ReceiverStep("receive")
  /\ UNCHANGED <<SerialUnion, wire>>
Test ==
  /\ receiver = "test"
  /\ IF IsMine(SerialUnion)
     THEN breadDataFronSocket' = TRUE /\ UNCHANGED SerialUnion
     ELSE SerialUnion' = Blank /\ UNCHANGED breadDataFronSocket
  /\ ReceiverStep("receive")
  /\ UNCHANGED wire

------------------------------------------------------------------------------
\* The main loop.

Take ==
  /\ loop = "look" /\ breadDataFronSocket
  /\ breadDataFronSocket' = FALSE
  /\ loop' = "execute"
  /\ crossed' = (crossed \/ receiver # "receive")
  /\ UNCHANGED <<SerialUnion, receiver, network, serverSide>>

\* The command ReceiveSub sees: no command read in network order is known.
Command == IF SerialUnion.order = "host" THEN SerialUnion.body ELSE NoBody

\* ReceiveSub, with the status and the data its handler leaves.
Execute(status, data) ==
  /\ loop = "execute"
  /\ SerialUnion' = [SerialUnion EXCEPT !.status = status, !.data = data]
  /\ loop' = "address"
  /\ UNCHANGED <<breadDataFronSocket, receiver, crossed, network, serverSide>>

\* udpSendSub up to the checksum: addresses, no data with an error, swap.
\* Mutant: without the swap back to network order.
AddressNoSwap ==
  /\ loop = "address"
  /\ SerialUnion' = [SerialUnion EXCEPT !.addr = "zero"]
  /\ loop' = "send"
  /\ UNCHANGED <<breadDataFronSocket, receiver, crossed, network, serverSide>>
Address ==
  /\ loop = "address"
  /\ SerialUnion' = [SerialUnion EXCEPT
       !.addr = "zero", !.order = Swapped(@),
       !.data = IF SerialUnion.status = "ok" THEN @ ELSE NoData]
  /\ loop' = "send"
  /\ UNCHANGED <<breadDataFronSocket, receiver, crossed, network, serverSide>>

\* The server takes an answer whose command is in host order for nonsense.
Send ==
  /\ loop = "send"
  /\ answer' = [body |-> IF SerialUnion.order = "net" THEN SerialUnion.body ELSE NoBody,
                num |-> SerialUnion.num, status |-> SerialUnion.status,
                data |-> SerialUnion.data]
  /\ loop' = "wipe"
  /\ UNCHANGED <<SerialUnion, breadDataFronSocket, receiver, crossed, wire, serverSide>>

Wipe ==
  /\ loop = "wipe"
  /\ SerialUnion' = Blank
  /\ loop' = "look"
  /\ UNCHANGED <<breadDataFronSocket, receiver, crossed, network, serverSide>>

\* Power-up: the RAM is blank and both threads begin again.
LinkPowerUp ==
  /\ SerialUnion' = Blank
  /\ breadDataFronSocket' = FALSE
  /\ receiver' = "receive"
  /\ loop' = "look"
  /\ UNCHANGED <<crossed, network, serverSide>>

------------------------------------------------------------------------------
\* The server and the network (external).

Ask(body) ==
  /\ request = None /\ wire = None /\ asked < MaxRequests
  /\ request' = Datagram("own", body, frame)
  /\ wire' = request'
  /\ frame' = 1 - frame
  /\ asked' = asked + 1
  /\ UNCHANGED <<threads, answer, strays>>

\* Time-out: nothing of the request is left anywhere.
AskAgain ==
  /\ request # None /\ wire = None /\ answer = NoAnswer
  /\ receiver = "receive" /\ ~breadDataFronSocket /\ ~Handling
  /\ wire' = request
  /\ UNCHANGED <<threads, answer, serverSide>>

\* The time-out races a late answer, or another sender uses the port.
Stray(datagram) ==
  /\ wire = None /\ strays < MaxStrays
  /\ wire' = datagram
  /\ strays' = strays + 1
  /\ UNCHANGED <<threads, answer, request, frame, asked>>

AskEarly == request # None /\ Stray(request)

Lose ==
  /\ \/ wire # None /\ wire' = None /\ UNCHANGED answer
     \/ answer # NoAnswer /\ answer' = NoAnswer /\ UNCHANGED wire
  /\ UNCHANGED <<threads, serverSide>>

Answers(a, r) == r # None /\ a.body = r.body /\ a.num = r.num

GetAnswer ==
  /\ answer # NoAnswer
  /\ answer' = NoAnswer
  /\ request' = IF Answers(answer, request) THEN None ELSE request
  /\ UNCHANGED <<threads, wire, frame, asked, strays>>

LinkStep ==
  \/ Receive \/ Swap \/ Test
  \/ Take \/ Address \/ Send \/ Wipe
  \/ AskAgain \/ AskEarly \/ Lose
  \/ \E s \in Strays : Stray(s)
=============================================================================
