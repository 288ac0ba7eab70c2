---------------------------- MODULE TerminalProofs ----------------------------
(***************************************************************************)
(* Proofs about the terminal as the PosServer sees it, for any settings,   *)
(* values and requests, any number of losses, repeats, strays and power    *)
(* cuts, and any order of the steps of the two threads.                    *)
(***************************************************************************)
EXTENDS Terminal, TLAPS

USE DEF Frames, Addresses, Statuses

------------------------------------------------------------------------------
\* Commands.

\* What a body is, and that a command is a SET or an RD of a key of the file.
LEMMA BodyKinds ==
  /\ AllBodies \subseteq Commands \cup {RdAddr, NoBody}
  /\ \A b \in Commands :
       /\ b \notin {RdAddr, NoBody}
       /\ b.key \in Keys
       /\ \/ IsSet(b) /\ ~IsRd(b) /\ b.value \in Values
          \/ IsRd(b) /\ ~IsSet(b)
  /\ \A b \in {RdAddr, NoBody} : ~IsSet(b) /\ ~IsRd(b)
<1>1. AllBodies \subseteq Commands \cup {RdAddr, NoBody}
  BY CommandAssumption DEF AllBodies
<1>2. ASSUME NEW b \in Commands
      PROVE  /\ b \notin {RdAddr, NoBody}
             /\ b.key \in Keys
             /\ \/ IsSet(b) /\ ~IsRd(b) /\ b.value \in Values
                \/ IsRd(b) /\ ~IsSet(b)
  <2>1. b # NoBody
    BY CommandAssumption
  <2>2. CASE \E k \in Keys, v \in Values, seal \in Held : b = SetComd(k, v, seal)
    BY <2>1, <2>2, CommandAssumption DEF SetComd, IsSet, IsRd
  <2>3. CASE \E k \in Keys : b = RdComd(k)
    BY <2>1, <2>3, CommandAssumption DEF RdComd, IsSet, IsRd
  <2> QED
    BY <2>2, <2>3 DEF Commands
<1>3. \A b \in {RdAddr, NoBody} : ~IsSet(b) /\ ~IsRd(b)
  BY CommandAssumption DEF IsSet, IsRd
<1> QED
  BY <1>1, <1>2, <1>3

------------------------------------------------------------------------------
\* Types.

\* What is empty is well-formed.
LEMMA EmptyTypes == Blank \in Buffers /\ None \in Datagrams /\ NoAnswer \in Replies
<1>1. NoBody \in AllBodies
  BY DEF AllBodies
<1>2. Blank \in Buffers
  BY <1>1 DEF Blank, Buffers, Data
<1>3. None \in Datagrams
  BY <1>1 DEF None, Datagrams
<1>4. NoAnswer \in Replies
  BY <1>1 DEF NoAnswer, Replies, Data
<1> QED
  BY <1>2, <1>3, <1>4

LEMMA TypeInit == Init => TypeOK
<1> SUFFICES ASSUME Init PROVE TypeOK
  OBVIOUS
<1>1. Shipped \in [Keys -> Held]
  BY ShippedAssumption DEF Held
<1>2. Shipped \in [Keys -> Held \cup {Empty, Missing}]
  BY <1>1
<1>3. /\ ram = Shipped /\ file = Shipped /\ told = Shipped /\ cuts = 0
      /\ LinkInit
  BY DEF Init, ParamInit
<1>4. breadDataFronSocket \in BOOLEAN /\ crossed \in BOOLEAN
  BY <1>3 DEF LinkInit
<1>5. /\ frame \in Frames /\ asked \in 0..MaxRequests
      /\ strays \in 0..MaxStrays /\ cuts \in 0..MaxCuts
  BY <1>3, RequestAssumption, CutAssumption DEF LinkInit
<1> QED
  BY <1>1, <1>2, <1>3, <1>4, <1>5, EmptyTypes DEF LinkInit, TypeOK

\* A field of the buffer at a time.
LEMMA BufferFields ==
  ASSUME NEW b \in Buffers
  PROVE  /\ b.addr \in Addresses /\ b.body \in AllBodies /\ b.num \in Frames
         /\ b.order \in {"net", "host"} /\ b.status \in Statuses
         /\ b.data \in Data
  BY DEF Buffers

\* The steps of the two threads and of the network.
LEMMA TypeLink ==
  ASSUME TypeOK, LinkStep, UNCHANGED <<paramVars, told, cuts>> PROVE TypeOK'
<1> USE DEF TypeOK, paramVars, threads, network, serverSide
<1>2. CASE Receive
  <2>1. SerialUnion' \in Buffers
    BY <1>2 DEF Receive, Buffers, Datagrams, Data
  <2> QED
    BY <1>2, <2>1, EmptyTypes DEF Receive, ReceiverStep
<1>3. CASE Swap
  <2>1. SerialUnion' \in Buffers
    BY <1>3 DEF Swap, Swapped, Buffers
  <2> QED
    BY <1>3, <2>1 DEF Swap, ReceiverStep
<1>4. CASE Test
  BY <1>4, EmptyTypes DEF Test, ReceiverStep
<1>5. CASE Take
  BY <1>5 DEF Take
<1>6. CASE Address
  <2>1. SerialUnion' \in Buffers
    BY <1>6 DEF Address, Swapped, Buffers, Data
  <2> QED
    BY <1>6, <2>1 DEF Address
<1>7. CASE Send
  <2>1. NoBody \in AllBodies
    BY DEF AllBodies
  <2>2. answer' \in Replies
    BY <1>7, <2>1, BufferFields DEF Send, Replies
  <2> QED
    BY <1>7, <2>2 DEF Send
<1>8. CASE Wipe
  BY <1>8, EmptyTypes DEF Wipe
<1>9. CASE AskAgain
  BY <1>9 DEF AskAgain
<1>10. CASE AskEarly
  BY <1>10, RequestAssumption DEF AskEarly, Stray
<1>11. CASE Lose
  BY <1>11, EmptyTypes DEF Lose
<1>12. CASE \E s \in Strays : Stray(s)
  <2>1. PICK s \in Strays : Stray(s)
    BY <1>12
  <2>2. s.body \in AllBodies
    BY DEF AllBodies
  <2>3. s \in Datagrams
    BY <2>2, CommandAssumption DEF Datagrams
  <2> QED
    BY <2>1, <2>3, RequestAssumption DEF Stray
<1> QED
  BY <1>2, <1>3, <1>4, <1>5, <1>6, <1>7, <1>8, <1>9, <1>10, <1>11, <1>12 DEF LinkStep

\* What a SET writes is text, and what it copies is a value or garbage.
LEMMA TypeSet ==
  ASSUME TypeOK, NEW comd \in Commands, IsSet(comd), Set(comd)
  PROVE  /\ ram' \in [Keys -> Held]
         /\ file' \in [Keys -> Held \cup {Empty, Missing}]
<1>1. comd.key \in Keys /\ comd.value \in Held
  BY BodyKinds DEF Held
<1>2. CASE Store(comd)
  BY <1>1, <1>2 DEF TypeOK, Store, NewRam, Written, NewText
<1>3. CASE UNCHANGED paramVars
  BY <1>3 DEF TypeOK, paramVars
<1> QED
  BY <1>2, <1>3 DEF Set

\* What is set to be executed is a command of the server.
LEMMA CommandKinds ==
  ASSUME TypeOK
  PROVE  /\ Command \in AllBodies
         /\ IsSet(Command) \/ IsRd(Command) =>
              Command \in Commands /\ Command = SerialUnion.body
                                   /\ SerialUnion.order = "host"
<1>1. NoBody \in AllBodies /\ SerialUnion.body \in AllBodies
  BY BufferFields DEF AllBodies, TypeOK
<1> QED
  BY <1>1, BodyKinds DEF Command

LEMMA TypeExecute ==
  ASSUME TypeOK, NEW s \in Statuses, NEW d \in Data,
         Execute(s, d)
  PROVE  /\ SerialUnion' \in Buffers
         /\ loop' \in {"look", "execute", "address", "send", "wipe"}
         /\ UNCHANGED <<breadDataFronSocket, receiver, crossed, network, serverSide>>
  BY DEF TypeOK, Execute, Buffers

LEMMA TypeCut ==
  ASSUME TypeOK, NEW stored \in [Keys -> Held \cup {Empty, Missing}], Cut(stored)
  PROVE  TypeOK'
<1>1. ram' \in [Keys -> Held]
  BY DEF Cut, ParamPowerUp, ReadInto
<1>2. cuts' \in 0..MaxCuts
  BY CutAssumption DEF Cut, TypeOK
<1> QED
  BY <1>1, <1>2, EmptyTypes
  DEF Cut, ParamPowerUp, LinkPowerUp, TypeOK, network, serverSide

LEMMA TypeNext ==
  ASSUME TypeOK, [Next]_vars PROVE TypeOK'
<1> USE DEF paramVars, network, serverSide
<1>1. CASE Link
  BY <1>1, TypeLink DEF Link
<1>2. CASE AskSomething
  <2>1. PICK body \in Bodies : Ask(body)
    BY <1>2 DEF AskSomething
  <2>2. body \in AllBodies
    BY DEF AllBodies
  <2>3. request' \in Datagrams
    BY <2>1, <2>2 DEF Ask, Datagram, Datagrams, TypeOK
  <2>4. asked' \in 0..MaxRequests /\ frame' \in Frames
    BY <2>1, RequestAssumption DEF Ask, TypeOK
  <2> QED
    BY <1>2, <2>1, <2>3, <2>4 DEF AskSomething, Ask, TypeOK, threads
<1>3. CASE Hear
  <2>1. told' \in [Keys -> Held]
    <3>1. CASE told' = told
      BY <3>1 DEF TypeOK
    <3>2. CASE IsSet(request.body)
      <4>1. request.body \in AllBodies
        BY DEF TypeOK, Datagrams
      <4>2. request.body.value \in Held
        BY <3>2, <4>1, BodyKinds DEF Held
      <4> QED
        BY <1>3, <4>2 DEF Hear, TypeOK
    <3> QED
      BY <1>3, <3>1, <3>2 DEF Hear
  <2>2. request' \in Datagrams /\ answer' \in Replies
    BY <1>3, EmptyTypes DEF Hear, GetAnswer, TypeOK
  <2> QED
    BY <1>3, <2>1, <2>2 DEF Hear, GetAnswer, TypeOK, threads
<1>4. CASE ExecuteSet
  <2>1. /\ ram' \in [Keys -> Held]
        /\ file' \in [Keys -> Held \cup {Empty, Missing}]
    BY <1>4, CommandKinds, TypeSet DEF ExecuteSet
  <2>2. SetStatus(Command) \in Statuses
    BY DEF SetStatus
  <2> QED
    BY <1>4, <2>1, <2>2, TypeExecute DEF ExecuteSet, TypeOK, Data
<1>5. CASE ExecuteRd
  <2>1. Command.key \in Keys
    BY <1>5, CommandKinds, BodyKinds DEF ExecuteRd
  <2>2. ram[Command.key] \in Held
    BY <2>1 DEF TypeOK
  <2> QED
    BY <1>5, <2>2, TypeExecute DEF ExecuteRd, TypeOK, Data
<1>6. CASE ExecuteRdAddr
  BY <1>6, TypeExecute DEF ExecuteRdAddr, TypeOK, Data
<1>7. CASE ExecuteUnknown
  BY <1>7, TypeExecute DEF ExecuteUnknown, TypeOK, Data
<1>8. CASE PowerCut
  BY <1>8, TypeCut DEF PowerCut, TypeOK
<1>9. CASE PowerCutInSet
  <2>1. PICK stored \in AfterCut(Command) : Cut(stored)
    BY <1>9 DEF PowerCutInSet
  <2>2. Command.key \in Keys /\ Command.value \in Held
    BY <1>9, CommandKinds, BodyKinds DEF PowerCutInSet, Held
  <2>3. stored \in [Keys -> Held \cup {Empty, Missing}]
    BY <2>2 DEF AfterCut, Truncated, Written, NewText, TypeOK
  <2> QED
    BY <2>1, <2>3, TypeCut
<1>10. CASE UNCHANGED vars
  BY <1>10 DEF vars, linkVars, threads, TypeOK
<1> QED
  BY <1>1, <1>2, <1>3, <1>4, <1>5, <1>6, <1>7, <1>8, <1>9, <1>10 DEF Next

\* Every variable of the link and of the parameters keeps its type, whatever is
\* lost, repeated or cut off.
THEOREM TypeCorrect == Spec => []TypeOK
<1>1. TypeOK /\ [Next]_vars => TypeOK'
  BY TypeNext
<1> QED
  BY <1>1, TypeInit, PTL DEF Spec

------------------------------------------------------------------------------
\* The buffer between the two threads.

\* As long as the threads were not at the buffer together, the receive thread is
\* outside it during an execution, and what it left there is mine or blank.
BufferIsMine ==
  ~crossed =>
    /\ receiver # "receive" => loop = "look"
    /\ receiver = "receive" /\ loop \in {"look", "execute"} =>
         SerialUnion = Blank \/ IsMine(SerialUnion)

LEMMA MineInit == Init => BufferIsMine
  BY DEF Init, LinkInit, BufferIsMine

LEMMA MineNext ==
  ASSUME TypeOK, BufferIsMine, [Next]_vars PROVE BufferIsMine'
<1> SUFFICES ASSUME ~crossed' PROVE BufferIsMine'
  BY DEF BufferIsMine
<1> USE DEF Handling
<1>1. CASE Receive
  BY <1>1 DEF Receive, ReceiverStep, BufferIsMine
<1>2. CASE Swap
  BY <1>2 DEF Swap, ReceiverStep, BufferIsMine
<1>3. CASE Test
  BY <1>3 DEF Test, ReceiverStep, BufferIsMine
<1>4. CASE Take
  BY <1>4 DEF Take, BufferIsMine
<1>5. CASE Address
  BY <1>5 DEF Address, BufferIsMine
<1>6. CASE Send
  BY <1>6 DEF Send, BufferIsMine
<1>7. CASE Wipe
  BY <1>7 DEF Wipe, BufferIsMine
<1>8. CASE UNCHANGED threads
  BY <1>8 DEF threads, BufferIsMine
<1>9. CASE LinkStep
  BY <1>1, <1>2, <1>3, <1>4, <1>5, <1>6, <1>7, <1>8, <1>9
  DEF LinkStep, AskAgain, AskEarly, Stray, Lose
<1>10. ASSUME NEW s, NEW d, Execute(s, d) PROVE BufferIsMine'
  BY <1>10 DEF Execute, BufferIsMine
<1>11. CASE ExecuteSet \/ ExecuteRd \/ ExecuteRdAddr \/ ExecuteUnknown
  BY <1>10, <1>11 DEF ExecuteSet, ExecuteRd, ExecuteRdAddr, ExecuteUnknown
<1>12. CASE LinkPowerUp
  BY <1>12 DEF LinkPowerUp, BufferIsMine
<1> QED
  BY <1>8, <1>9, <1>11, <1>12
  DEF Next, Link, AskSomething, Ask, Hear, GetAnswer, PowerCut, PowerCutInSet, Cut,
      vars, linkVars

\* What the main loop executes is addressed to this terminal, is a search for
\* addresses, or is blank, unless the threads were at the buffer together.
THEOREM MineIsExecuted == Spec => []OnlyMineIsExecuted
<1>1. TypeOK /\ BufferIsMine /\ [Next]_vars => BufferIsMine'
  BY MineNext
<1>2. BufferIsMine => OnlyMineIsExecuted
  BY DEF BufferIsMine, OnlyMineIsExecuted
<1> QED
  BY <1>1, <1>2, MineInit, TypeCorrect, PTL DEF Spec

------------------------------------------------------------------------------
\* RAM and file.

\* The file has no text for a sound setting but a value.
SoundText == \A k \in SoundKeys : file[k] \in Held \cup {Missing}

ParamInv == TypeOK /\ RamIsFile /\ SoundText

\* What Store leaves of the sound settings: lost lines stay lost.
SoundStep(comd) ==
  /\ Intact' => Intact
  /\ \A k \in SoundKeys :
       Intact' =>
         file'[k] = IF k = comd.key /\ Accepted(comd) THEN comd.value ELSE file[k]
  /\ SoundText'

LEMMA SoundKeysAreKeys ==
  /\ SoundKeys \subseteq Keys /\ "CommEncryptKey" \in SoundKeys
  /\ MinKey \notin SoundKeys /\ DayKey \notin SoundKeys
  BY KeyAssumption DEF SoundKeys, PlainKeys, SealedKeys, MinKey, DayKey

LEMMA WrittenIsSound ==
  ASSUME ParamInv, NEW comd \in Commands, IsSet(comd), Accepted(comd),
         file' = Written(comd.key, NewText(comd))
  PROVE  SoundStep(comd)
<1>1. comd.key \in Keys /\ comd.value \in Held
  BY BodyKinds DEF Held
<1>2. file \in [Keys -> Held \cup {Empty, Missing}]
  BY DEF ParamInv, TypeOK
<1>3. Missing \notin Held
  BY TextAssumption
<1>4. \A k \in SoundKeys :
        /\ k # comd.key => file'[k] = file[k]
        /\ k = comd.key => file'[k] = IF file[k] = Missing THEN Missing ELSE comd.value
  BY <1>1, <1>2, SoundKeysAreKeys DEF Written, NewText
<1>5. Intact' => Intact
  BY <1>4 DEF Intact
<1>6. SoundText'
  BY <1>1, <1>4 DEF ParamInv, SoundText
<1> QED
  BY <1>4, <1>5, <1>6 DEF SoundStep, Intact

\* A SET that changes nothing in RAM finds its value in the file.
LEMMA UnchangedIsSound ==
  ASSUME ParamInv, NEW comd \in Commands, IsSet(comd), file' = file,
         ~(Accepted(comd) /\ Changes(comd))
  PROVE  SoundStep(comd)
<1>1. Intact' <=> Intact
  BY DEF Intact
<1>2. SoundText'
  BY DEF ParamInv, SoundText
<1>3. ASSUME Accepted(comd), comd.key \in SoundKeys, Intact
      PROVE  file[comd.key] = comd.value
  BY <1>3, SoundKeysAreKeys DEF Changes, ParamInv, RamIsFile
<1> QED
  BY <1>1, <1>2, <1>3 DEF SoundStep

LEMMA SetIsSound ==
  ASSUME ParamInv, NEW comd \in Commands, IsSet(comd), Set(comd)
  PROVE  SoundStep(comd) /\ RamIsFile'
<1>1. comd.key \in Keys
  BY BodyKinds
<1>2. ram \in [Keys -> Held]
  BY DEF ParamInv, TypeOK
<1>3. CASE Accepted(comd) /\ Changes(comd)
  <2>1. SoundStep(comd)
    BY <1>3, WrittenIsSound DEF Set, Store
  <2>2. \A k \in SoundKeys :
          ram'[k] = IF k = comd.key THEN comd.value ELSE ram[k]
    BY <1>1, <1>2, <1>3, SoundKeysAreKeys DEF Set, Store, NewRam
  <2> QED
    BY <1>3, <2>1, <2>2 DEF SoundStep, ParamInv, RamIsFile
<1>4. CASE ~(Accepted(comd) /\ Changes(comd))
  <2>1. UNCHANGED <<ram, file>>
    BY <1>4 DEF Set, paramVars
  <2> QED
    BY <1>4, <2>1, UnchangedIsSound DEF ParamInv, RamIsFile, Intact
<1> QED
  BY <1>3, <1>4

\* What a power cut leaves in the file.
LEMMA CutIsSound ==
  ASSUME ParamInv, NEW comd \in Commands, IsSet(comd), file' \in AfterCut(comd)
  PROVE  \/ SoundStep(comd)
         \/ file' = file
         \/ ~Intact' /\ SoundText'
<1>1. CASE file' = Truncated
  BY <1>1, SoundKeysAreKeys DEF Truncated, Intact, SoundText
<1> QED
  BY <1>1, WrittenIsSound DEF AfterCut

\* Start-up reads the values of the file.
LEMMA PowerUpReads ==
  ASSUME NEW stored, ParamPowerUp(stored), SoundText' PROVE RamIsFile'
<1>1. file' = stored
  BY DEF ParamPowerUp
<1>2. PICK junk \in Held : ram' = ReadInto(stored, junk)
  BY DEF ParamPowerUp
<1> QED
  BY <1>1, <1>2, SoundKeysAreKeys DEF ReadInto, RamIsFile, Intact, SoundText

\* One step of the parameters: a SET, a start-up, or nothing.
LEMMA ParamSteps ==
  ASSUME ParamInv, [Next]_vars
  PROVE  \/ /\ ExecuteSet /\ Command \in Commands /\ IsSet(Command)
            /\ SoundStep(Command) /\ RamIsFile'
         \/ /\ PowerCutInSet /\ Command \in Commands /\ IsSet(Command)
            /\ \/ SoundStep(Command)
               \/ file' = file
               \/ ~Intact' /\ SoundText'
            /\ ParamPowerUp(file')
         \/ PowerCut /\ file' = file /\ ParamPowerUp(file')
         \/ UNCHANGED paramVars
<1>1. CASE ExecuteSet
  <2>1. Command \in Commands /\ IsSet(Command) /\ Set(Command)
    BY <1>1, CommandKinds DEF ExecuteSet, ParamInv
  <2> QED
    BY <1>1, <2>1, SetIsSound
<1>2. CASE PowerCutInSet
  <2>1. PICK stored \in AfterCut(Command) : Cut(stored)
    BY <1>2 DEF PowerCutInSet
  <2>2. file' = stored /\ ParamPowerUp(file')
    BY <2>1 DEF Cut, ParamPowerUp
  <2>3. Command \in Commands /\ IsSet(Command)
    BY <1>2, CommandKinds DEF PowerCutInSet, ParamInv
  <2> QED
    BY <1>2, <2>1, <2>2, <2>3, CutIsSound
<1>3. CASE PowerCut
  BY <1>3 DEF PowerCut, Cut, ParamPowerUp
<1> QED
  BY <1>1, <1>2, <1>3
  DEF Next, Link, AskSomething, Hear, ExecuteRd, ExecuteRdAddr, ExecuteUnknown,
      vars, paramVars

LEMMA ParamInvInit == Init => ParamInv
<1> SUFFICES ASSUME Init PROVE ParamInv
  OBVIOUS
<1>1. TypeOK
  BY TypeInit
<1>2. \A k \in SoundKeys : file[k] \in Held
  BY ShippedAssumption, SoundKeysAreKeys DEF Init, ParamInit, Held
<1> QED
  BY <1>1, <1>2 DEF Init, ParamInit, ParamInv, RamIsFile, SoundText

LEMMA ParamNext ==
  ASSUME ParamInv, [Next]_vars PROVE ParamInv'
<1>1. TypeOK'
  BY TypeNext DEF ParamInv
<1>2. CASE UNCHANGED paramVars
  BY <1>1, <1>2 DEF ParamInv, paramVars, RamIsFile, SoundText, Intact
<1>3. CASE SoundText' /\ (RamIsFile' \/ ParamPowerUp(file'))
  BY <1>1, <1>3, PowerUpReads DEF ParamInv
<1>4. file' = file => SoundText'
  BY DEF ParamInv, SoundText
<1> QED
  BY <1>2, <1>3, <1>4, ParamSteps DEF SoundStep

\* Each sound setting is the same in RAM and in the file, as long as the file was
\* not lost in a rewrite.
THEOREM RamAndFileAgree == Spec => []RamIsFile
<1>1. ParamInv /\ [Next]_vars => ParamInv'
  BY ParamNext
<1>2. ParamInv => RamIsFile
  BY DEF ParamInv
<1> QED
  BY <1>1, <1>2, ParamInvInit, PTL DEF Spec

------------------------------------------------------------------------------
\* The parameters implement Settings.

Kept == IF Intact THEN Sound(file) ELSE Truncated
Used == Sound(ram)

\* Start-up uses what was kept.
LEMMA UsedIsKept ==
  ParamInv => Used \in [SoundKeys -> Held] /\ (Intact => Kept = Used)
  BY SoundKeysAreKeys DEF ParamInv, TypeOK, Kept, Used, Sound, RamIsFile

LEMMA UsedIsKeptNext ==
  ParamInv' => Used' \in [SoundKeys -> Held] /\ (Intact' => Kept' = Used')
  BY SoundKeysAreKeys DEF ParamInv, TypeOK, Kept, Used, Sound, RamIsFile

\* What is kept is never mistaken for what was lost.
LEMMA KeptIsNotLost == Intact => Kept # Truncated
<1> SUFFICES ASSUME Intact, Kept = Truncated PROVE FALSE
  OBVIOUS
<1>1. Sound(file) = Truncated
  BY DEF Kept
<1>2. Sound(file)["CommEncryptKey"] = file["CommEncryptKey"]
  BY SoundKeysAreKeys DEF Sound
<1>3. Truncated["CommEncryptKey"] = Missing
  BY SoundKeysAreKeys DEF Truncated
<1> QED
  BY <1>1, <1>2, <1>3, SoundKeysAreKeys DEF Intact

\* What Settings may do: set a name, or lose what was kept.
LEMMA SettingsSteps ==
  /\ (\/ Kept' = Truncated /\ Used' \in [SoundKeys -> Held]
      \/ \E n \in SoundKeys, w \in Held :
           /\ Used' = [Used EXCEPT ![n] = w]
           /\ Kept' = IF Kept = Truncated THEN Truncated ELSE [Kept EXCEPT ![n] = w]
      \/ Kept' = Kept /\ Used' = Used)
     => [S!Next]_(<<IF Intact THEN Sound(file) ELSE Truncated, Sound(ram)>>)
  BY DEF S!Next, S!Lose, S!SetTo, S!Store, Kept, Used

\* A command stores one setting, or leaves all of them.
LEMMA SetRefines ==
  ASSUME ParamInv, ParamInv', NEW comd \in Commands, IsSet(comd), SoundStep(comd), Intact'
  PROVE  \/ \E n \in SoundKeys, w \in Held :
              Used' = [Used EXCEPT ![n] = w] /\ Kept' = [Kept EXCEPT ![n] = w]
         \/ Kept' = Kept /\ Used' = Used
<1>1. Intact
  BY DEF SoundStep
<1>2. /\ Used \in [SoundKeys -> Held] /\ Kept = Used
      /\ Used' \in [SoundKeys -> Held] /\ Kept' = Used'
  BY <1>1, UsedIsKept, UsedIsKeptNext
<1>3. \A k \in SoundKeys : Kept[k] = file[k] /\ Kept'[k] = file'[k]
  BY <1>1 DEF Kept, Sound
<1>4. \A k \in SoundKeys :
        Kept'[k] = IF k = comd.key /\ Accepted(comd) THEN comd.value ELSE Kept[k]
  BY <1>3 DEF SoundStep
<1>5. comd.value \in Held
  BY BodyKinds DEF Held
<1>6. CASE comd.key \in SoundKeys /\ Accepted(comd)
  <2>1. Kept' = [Kept EXCEPT ![comd.key] = comd.value]
    BY <1>2, <1>4, <1>6
  <2> QED
    BY <1>2, <1>5, <1>6, <2>1
<1>7. CASE ~(comd.key \in SoundKeys /\ Accepted(comd))
  <2>1. Kept' = Kept
    BY <1>2, <1>4, <1>7
  <2> QED
    BY <1>2, <2>1
<1> QED
  BY <1>6, <1>7

LEMMA NextRefines ==
  ASSUME ParamInv, ParamInv', [Next]_vars
  PROVE  [S!Next]_(<<IF Intact THEN Sound(file) ELSE Truncated, Sound(ram)>>)
<1>1. CASE ~Intact'
  BY <1>1, UsedIsKeptNext, SettingsSteps DEF Kept
<1>2. ASSUME NEW comd \in Commands, IsSet(comd), SoundStep(comd), Intact'
      PROVE  [S!Next]_(<<IF Intact THEN Sound(file) ELSE Truncated, Sound(ram)>>)
  <2>1. Kept # Truncated
    BY <1>2, KeptIsNotLost DEF SoundStep
  <2> QED
    BY <1>2, <2>1, SetRefines, SettingsSteps
<1>3. CASE file' = file /\ Intact'
  <2>1. Intact /\ Kept' = Kept
    BY <1>3 DEF Intact, Kept
  <2> QED
    BY <1>3, <2>1, UsedIsKept, UsedIsKeptNext, SettingsSteps
<1> QED
  BY <1>1, <1>2, <1>3, ParamSteps DEF paramVars

\* Commands, restarts and power cuts change the settings as Settings allows: one
\* value at a time, in use and kept together, until a rewrite loses the file.
THEOREM ParametersAreSettings == Spec => SettingsSpec
<1>1. Init => S!Init
  <2> SUFFICES ASSUME Init PROVE S!Init
    OBVIOUS
  <2>1. Shipped \in [Keys -> Held] /\ \A k \in SoundKeys : Shipped[k] # Missing
    BY ShippedAssumption, TextAssumption, SoundKeysAreKeys DEF Held
  <2>2. Intact
    BY <2>1 DEF Init, ParamInit, Intact
  <2> QED
    BY <2>1, <2>2, SoundKeysAreKeys
    DEF Init, ParamInit, Sound, S!Init, S!Store
<1>2. ParamInv /\ ParamInv' /\ [Next]_vars
        => [S!Next]_(<<IF Intact THEN Sound(file) ELSE Truncated, Sound(ram)>>)
  BY NextRefines
<1>3. ParamInv /\ [Next]_vars => ParamInv'
  BY ParamNext
<1> QED
  BY <1>1, <1>2, <1>3, ParamInvInit, PTL DEF Spec, SettingsSpec, S!Spec

------------------------------------------------------------------------------
\* What the server asked and what came of it.

\* An open request is a command under the last number, encrypted with the key the
\* server was told of.
RequestIsOpen ==
  request # None =>
    /\ request.addr = "own"
    /\ request.body \in Bodies
    /\ request.num = 1 - frame
    /\ IsSet(request.body) /\ request.body.key \in SealedKeys =>
         request.body.seal = ServerKey

\* A copy of the request that was closed last, late on its way.
LastNum == IF request = None THEN 1 - frame ELSE frame
IsLate(x) ==
  /\ x.num = LastNum
  /\ IsSet(x.body) /\ x.body.key \in SoundKeys => told[x.body.key] = x.body.value

\* What is true once the open request was executed with this outcome.
Done(status, data) ==
  LET b == request.body IN
  /\ IsSet(b) /\ b.key \in SoundKeys => status = "ok" /\ file[b.key] = b.value
  /\ IsRd(b) /\ b.key \in SoundKeys => status = "ok" /\ data = told[b.key]

FileIsTold == \A k \in SoundKeys : file[k] = told[k]

\* A late copy is on the wire only between two requests, and in the buffer only
\* before the open request was executed: copies do not overtake each other.
WireInOrder ==
  wire.addr = "own" /\ wire.body \in Commands =>
    Answers(wire, request) \/ (request = None /\ IsLate(wire))

BufferInOrder ==
  (SerialUnion.addr = "own" \/ Handling) /\ SerialUnion.body \in Commands =>
    \/ /\ Answers(SerialUnion, request)
       /\ loop \in {"address", "send"} => Done(SerialUnion.status, SerialUnion.data)
    \/ (IsLate(SerialUnion) /\ FileIsTold /\ ~Answers(answer, request))

AnswerInOrder ==
  answer.body \in Commands =>
    \/ Answers(answer, request) /\ Done(answer.status, answer.data)
    \/ answer.num = LastNum

FileInOrder == \A k \in SoundKeys : file[k] \in {told[k]} \cup Asked(k)

InOrder == WireInOrder /\ BufferInOrder /\ AnswerInOrder /\ FileInOrder

IInv ==
  /\ ParamInv /\ BufferIsMine /\ RequestIsOpen
  /\ ~crossed /\ Intact => InOrder

LEMMA IInvInit == Init => IInv
<1> SUFFICES ASSUME Init PROVE IInv
  OBVIOUS
<1>1. /\ request = None /\ wire = None /\ answer = NoAnswer /\ SerialUnion = Blank
      /\ file = told
  BY DEF Init, LinkInit
<1>2. NoBody \notin Commands
  BY CommandAssumption
<1>3. InOrder
  BY <1>1, <1>2
  DEF InOrder, WireInOrder, BufferInOrder, AnswerInOrder, FileInOrder, None, NoAnswer, Blank
<1> QED
  BY <1>1, <1>3, ParamInvInit, MineInit DEF IInv, RequestIsOpen

\* The last number is not the number of the open request.
LEMMA FrameNotLast ==
  ASSUME TypeOK, RequestIsOpen, request # None PROVE LastNum # request.num
  BY DEF TypeOK, RequestIsOpen, LastNum

\* The steps of the two threads and of the network, where the parameters and the
\* server stand still.
LEMMA LinkKeepsOrder ==
  ASSUME IInv, InOrder, ~crossed', LinkStep, UNCHANGED <<paramVars, told, cuts>>
  PROVE  InOrder'
<1> DEFINE Still == UNCHANGED <<request, frame, told, file>>
<1>1. Still
  BY DEF LinkStep, Receive, Swap, Test, Take, Address, Send, Wipe, AskAgain, AskEarly,
     Stray, Lose, ReceiverStep, threads, network, serverSide, paramVars
<1>2. FileInOrder'
  BY <1>1 DEF InOrder, FileInOrder, Asked
<1>3. UNCHANGED wire => WireInOrder'
  BY <1>1 DEF InOrder, WireInOrder, IsLate, LastNum, Answers
<1>4. UNCHANGED answer => AnswerInOrder'
  BY <1>1 DEF InOrder, AnswerInOrder, LastNum, Answers, Done
<1>5. UNCHANGED <<answer, SerialUnion, loop>> => BufferInOrder'
  BY <1>1 DEF InOrder, BufferInOrder, LastNum, IsLate, Answers, Done, FileIsTold, Handling
<1>6. NoBody \notin Commands /\ RdAddr \notin Commands
  BY BodyKinds
<1>7. CASE Receive
  <2>1. ~Handling
    BY <1>7 DEF Receive, ReceiverStep
  <2>2. WireInOrder'
    BY <1>6, <1>7 DEF Receive, WireInOrder, None
  <2>3. BufferInOrder'
    <3>1. SUFFICES ASSUME wire.addr = "own", wire.body \in Commands
                   PROVE  \/ Answers(wire, request)
                          \/ IsLate(wire) /\ FileIsTold /\ ~Answers(answer, request)
      BY <1>1, <1>7, <2>1
      DEF BufferInOrder, Receive, ReceiverStep, Handling, Answers, IsLate, LastNum, FileIsTold
    <3>2. CASE request = None /\ IsLate(wire)
      <4>1. \A k : Asked(k) = {}
        BY <3>2 DEF Asked, IsSet, None
      <4>2. FileIsTold
        BY <4>1 DEF InOrder, FileInOrder, FileIsTold
      <4> QED
        BY <3>2, <4>2 DEF Answers
    <3> QED
      BY <3>1, <3>2 DEF InOrder, WireInOrder
  <2> QED
    BY <1>2, <1>4, <1>7, <2>2, <2>3 DEF InOrder, Receive, ReceiverStep
<1>8. CASE Swap
  <2>1. SerialUnion.body = SerialUnion'.body /\ SerialUnion.addr = SerialUnion'.addr
        /\ SerialUnion.num = SerialUnion'.num
        /\ SerialUnion.status = SerialUnion'.status /\ SerialUnion.data = SerialUnion'.data
    BY <1>8 DEF Swap, IInv, ParamInv, TypeOK, Buffers
  <2>2. BufferInOrder'
    BY <1>1, <1>8, <2>1
    DEF Swap, ReceiverStep, InOrder, BufferInOrder, Handling, Answers, IsLate, LastNum,
        FileIsTold, Done
  <2> QED
    BY <1>2, <1>3, <1>4, <1>8, <2>2 DEF InOrder, Swap, ReceiverStep
<1>9. CASE SerialUnion' = Blank /\ UNCHANGED <<wire, answer>>
  <2>1. BufferInOrder'
    BY <1>6, <1>9 DEF BufferInOrder, Blank
  <2> QED
    BY <1>2, <1>3, <1>4, <1>9, <2>1 DEF InOrder
<1>10. CASE Take
  <2>1. receiver = "receive" /\ loop = "look" /\ ~crossed
    BY <1>10 DEF Take
  <2>2. SerialUnion = Blank \/ IsMine(SerialUnion)
    BY <2>1 DEF IInv, BufferIsMine
  <2>3. SerialUnion.body \in Commands => SerialUnion.addr = "own"
    BY <1>6, <2>2 DEF Blank, IsMine
  <2>4. BufferInOrder'
    BY <1>1, <1>10, <2>3
    DEF Take, network, InOrder, BufferInOrder, Answers, IsLate, LastNum, FileIsTold
  <2> QED
    BY <1>2, <1>3, <1>4, <1>10, <2>4 DEF InOrder, Take, network
<1>11. CASE Address
  <2>1. /\ SerialUnion'.body = SerialUnion.body /\ SerialUnion'.num = SerialUnion.num
        /\ SerialUnion'.status = SerialUnion.status
        /\ SerialUnion.status = "ok" => SerialUnion'.data = SerialUnion.data
    BY <1>11 DEF Address, IInv, ParamInv, TypeOK, Buffers
  <2>2. Handling /\ loop = "address"
    BY <1>11 DEF Address, Handling
  <2>3. BufferInOrder'
    BY <1>1, <1>11, <2>1, <2>2
    DEF Address, network, InOrder, BufferInOrder, Answers, IsLate, LastNum, FileIsTold, Done
  <2> QED
    BY <1>2, <1>3, <1>4, <1>11, <2>3 DEF InOrder, Address, network
<1>12. CASE Send
  <2>1. Handling /\ loop = "send"
    BY <1>12 DEF Send, Handling
  <2>2. /\ answer'.body \in {SerialUnion.body, NoBody} /\ answer'.num = SerialUnion.num
        /\ answer'.status = SerialUnion.status /\ answer'.data = SerialUnion.data
    BY <1>12 DEF Send
  <2>3. ASSUME SerialUnion.body \in Commands PROVE AnswerInOrder' /\ BufferInOrder'
    <3>1. CASE Answers(SerialUnion, request)
      BY <1>1, <1>6, <1>12, <2>1, <2>2, <2>3, <3>1
      DEF Send, InOrder, BufferInOrder, AnswerInOrder, Answers, IsLate, LastNum,
          FileIsTold, Done
    <3>2. CASE IsLate(SerialUnion) /\ FileIsTold
      <4>1. ~Answers(SerialUnion, request)
        BY <3>2, FrameNotLast DEF Answers, IsLate, IInv, ParamInv
      <4>2. request # None => request.body # NoBody
        BY <1>6, CommandAssumption DEF IInv, RequestIsOpen
      <4>3. ~Answers(answer', request)
        BY <2>2, <4>1, <4>2 DEF Answers
      <4>4. answer'.body \in Commands => answer'.num = LastNum
        BY <2>2, <3>2 DEF IsLate
      <4>5. LastNum' = LastNum /\ UNCHANGED <<SerialUnion, request>>
        BY <1>1, <1>12 DEF Send, LastNum
      <4>6. AnswerInOrder'
        BY <4>4, <4>5 DEF AnswerInOrder
      <4>7. IsLate(SerialUnion)' /\ FileIsTold'
        BY <1>1, <3>2, <4>5 DEF IsLate, FileIsTold
      <4> QED
        BY <4>3, <4>5, <4>6, <4>7 DEF BufferInOrder, Answers
    <3> QED
      BY <2>1, <2>3, <3>1, <3>2 DEF InOrder, BufferInOrder
  <2>4. ASSUME SerialUnion.body \notin Commands PROVE AnswerInOrder' /\ BufferInOrder'
    BY <1>6, <1>12, <2>2, <2>4 DEF Send, BufferInOrder, AnswerInOrder
  <2> QED
    BY <1>2, <1>3, <1>12, <2>3, <2>4 DEF InOrder, Send
<1>13. CASE AskAgain \/ AskEarly
  <2>1. wire' = request /\ request # None
    BY <1>13 DEF AskAgain, AskEarly, Stray
  <2>2. UNCHANGED <<answer, SerialUnion, loop>>
    BY <1>13 DEF AskAgain, AskEarly, Stray, threads
  <2>3. WireInOrder'
    BY <1>1, <2>1 DEF WireInOrder, Answers
  <2> QED
    BY <1>2, <1>4, <1>5, <2>2, <2>3 DEF InOrder
<1>14. CASE \E s \in Strays : Stray(s)
  <2>1. PICK s \in Strays : Stray(s)
    BY <1>14
  <2>2. WireInOrder'
    BY <2>1, CommandAssumption DEF Stray, WireInOrder
  <2>3. UNCHANGED <<answer, SerialUnion, loop>>
    BY <2>1 DEF Stray, threads
  <2> QED
    BY <1>2, <1>4, <1>5, <2>2, <2>3 DEF InOrder
<1>15. CASE Lose
  <2>1. UNCHANGED <<SerialUnion, loop>>
    BY <1>15 DEF Lose, threads
  <2>2. CASE wire' = None /\ UNCHANGED answer
    BY <1>2, <1>4, <1>5, <1>6, <2>1, <2>2 DEF InOrder, WireInOrder, None
  <2>3. CASE answer' = NoAnswer /\ UNCHANGED wire
    <3>1. ~Answers(answer', request)
      BY <1>6, <2>3, CommandAssumption DEF NoAnswer, Answers, IInv, RequestIsOpen
    <3>2. AnswerInOrder'
      BY <1>6, <2>3 DEF AnswerInOrder, NoAnswer
    <3>3. BufferInOrder'
      BY <1>1, <2>1, <3>1
      DEF InOrder, BufferInOrder, Answers, IsLate, LastNum, FileIsTold, Done, Handling
    <3> QED
      BY <1>2, <1>3, <2>3, <3>2, <3>3 DEF InOrder
  <2> QED
    BY <1>15, <2>2, <2>3 DEF Lose
<1>16. CASE Test
  <2>1. UNCHANGED SerialUnion => BufferInOrder'
    BY <1>1, <1>16
    DEF Test, ReceiverStep, InOrder, BufferInOrder, Answers, IsLate, LastNum,
        FileIsTold, Done, Handling
  <2>2. UNCHANGED <<wire, answer>>
    BY <1>16 DEF Test, ReceiverStep
  <2> QED
    BY <1>2, <1>3, <1>4, <1>9, <1>16, <2>1, <2>2 DEF InOrder, Test
<1>17. CASE Wipe
  BY <1>9, <1>17 DEF Wipe, network
<1> QED
  BY <1>7, <1>8, <1>10, <1>11, <1>12, <1>13, <1>14, <1>15, <1>16, <1>17 DEF LinkStep

\* A new request turns what was closed last into late copies.
LEMMA AskKeepsOrder ==
  ASSUME IInv, InOrder, AskSomething
  PROVE  InOrder'
<1>1. PICK body \in Bodies :
        /\ IsSet(body) /\ body.key \in SealedKeys => body.seal = ServerKey
        /\ Ask(body)
  BY DEF AskSomething
<1>2. /\ request = None /\ wire = None
      /\ request' = [addr |-> "own", body |-> body, num |-> frame]
      /\ wire' = request' /\ frame' = 1 - frame
      /\ UNCHANGED <<SerialUnion, loop, answer, file, told>>
  BY <1>1 DEF Ask, Datagram, threads, AskSomething, paramVars
<1>3. frame \in 0..1 /\ body \in Commands /\ NoBody \notin Commands
  BY CommandAssumption DEF IInv, ParamInv, TypeOK
<1>4. request' # None
  BY <1>2, <1>3 DEF None
<1>5. LastNum = 1 - frame /\ LastNum' = 1 - frame
  BY <1>2, <1>4 DEF LastNum
<1>7. \A k : Asked(k) = {}
  BY <1>2 DEF Asked, IsSet, None
<1>8. FileIsTold
  BY <1>7 DEF InOrder, FileInOrder, FileIsTold
<1>9. FileInOrder'
  BY <1>2, <1>8 DEF FileInOrder, FileIsTold
<1>10. WireInOrder'
  BY <1>2, <1>4 DEF WireInOrder, Answers
<1>11. \A x : ~Answers(x, request)
  BY <1>2 DEF Answers
<1>12. AnswerInOrder'
  BY <1>2, <1>5, <1>11 DEF InOrder, AnswerInOrder
<1>13. answer.body \in Commands => answer.num # frame
  BY <1>3, <1>5, <1>11 DEF InOrder, AnswerInOrder
<1>14. ~Answers(answer, request)'
  BY <1>2, <1>3, <1>13 DEF Answers
<1>15. BufferInOrder'
  BY <1>2, <1>5, <1>8, <1>11, <1>14
  DEF InOrder, BufferInOrder, IsLate, FileIsTold, Handling
<1> QED
  BY <1>9, <1>10, <1>12, <1>15 DEF InOrder

\* The answer to the open request closes it; every other answer is dropped.
LEMMA HearKeepsOrder ==
  ASSUME IInv, InOrder, Hear
  PROVE  InOrder'
<1>1. /\ answer' = NoAnswer
      /\ UNCHANGED <<SerialUnion, loop, wire, frame, file>>
  BY DEF Hear, GetAnswer, threads, paramVars
<1>2. NoBody \notin Commands
  BY BodyKinds
<1>3. AnswerInOrder'
  BY <1>1, <1>2 DEF AnswerInOrder, NoAnswer
<1>4. CASE ~Answers(answer, request)
  <2>1. UNCHANGED <<request, told>>
    BY <1>4 DEF Hear, GetAnswer
  <2>2. ~Answers(NoAnswer, request)
    BY <1>2, CommandAssumption DEF NoAnswer, Answers, IInv, RequestIsOpen
  <2>3. BufferInOrder'
    BY <1>1, <2>1, <2>2
    DEF InOrder, BufferInOrder, Answers, IsLate, LastNum, FileIsTold, Done, Handling
  <2>4. FileInOrder'
    BY <1>1, <2>1 DEF InOrder, FileInOrder, Asked
  <2>5. WireInOrder'
    BY <1>1, <2>1 DEF InOrder, WireInOrder, Answers, IsLate, LastNum
  <2> QED
    BY <1>3, <2>3, <2>4, <2>5 DEF InOrder
<1>5. CASE Answers(answer, request)
  <2> DEFINE b == request.body
  <2>1. request # None /\ request' = None /\ answer.body = b
    BY <1>5 DEF Hear, GetAnswer, Answers
  <2>2. b \in Commands /\ request.num = 1 - frame
    BY <2>1, CommandAssumption DEF IInv, RequestIsOpen
  <2>3. LastNum # request.num /\ LastNum' = request.num
    BY <1>1, <2>1, <2>2, FrameNotLast DEF IInv, ParamInv, LastNum
  <2>4. Done(answer.status, answer.data)
    BY <1>5, <2>1, <2>2, <2>3 DEF InOrder, AnswerInOrder, Answers
  <2>5. \A k \in SoundKeys : told'[k] = IF IsSet(b) /\ b.key = k THEN b.value ELSE told[k]
    <3>1. told' = IF answer.status = "ok" /\ IsSet(b)
                  THEN [told EXCEPT ![b.key] = b.value] ELSE told
      BY <1>5 DEF Hear
    <3>2. told \in [Keys -> Held] /\ b.key \in Keys
      BY <2>2, BodyKinds DEF IInv, ParamInv, TypeOK
    <3> QED
      BY <2>4, <3>1, <3>2, SoundKeysAreKeys DEF Done
  <2>6. FileIsTold'
    BY <1>1, <2>4, <2>5 DEF FileIsTold, InOrder, FileInOrder, Asked, Done
  <2>7. FileInOrder'
    BY <2>6 DEF FileIsTold, FileInOrder
  <2>8. ASSUME NEW x, Answers(x, request) PROVE IsLate(x)'
    BY <2>3, <2>5, <2>8 DEF IsLate, Answers
  <2>9. WireInOrder'
    BY <1>1, <2>1, <2>8 DEF InOrder, WireInOrder, IsLate
  <2>10. BufferInOrder'
    BY <1>1, <1>5, <2>1, <2>6, <2>8
    DEF InOrder, BufferInOrder, IsLate, Handling, Answers
  <2> QED
    BY <1>3, <2>7, <2>9, <2>10 DEF InOrder
<1> QED
  BY <1>4, <1>5

\* What an execution finds in the buffer, if it is a command.
LEMMA ExecutedInOrder ==
  ASSUME IInv, InOrder, loop = "execute", Command \in Commands
  PROVE  /\ Command = SerialUnion.body
         /\ \/ Answers(SerialUnion, request)
            \/ IsLate(SerialUnion) /\ FileIsTold /\ ~Answers(answer, request)
<1>1. Command = SerialUnion.body
  BY BodyKinds DEF Command
<1> QED
  BY <1>1 DEF InOrder, BufferInOrder, Handling

\* A command of the open request is encrypted with the key in use.
LEMMA OpenIsAccepted ==
  ASSUME IInv, InOrder, Intact, request # None, IsSet(request.body)
  PROVE  Accepted(request.body)
<1> SUFFICES ASSUME request.body.key \in SealedKeys PROVE Accepted(request.body)
  BY DEF Accepted
<1>1. request.body.seal = told["CommEncryptKey"]
  BY DEF IInv, RequestIsOpen, ServerKey
<1>2. Asked("CommEncryptKey") = {}
  BY DEF Asked, SealedKeys
<1>3. ram["CommEncryptKey"] = told["CommEncryptKey"]
  BY <1>2, SoundKeysAreKeys DEF InOrder, FileInOrder, IInv, ParamInv, RamIsFile
<1> QED
  BY <1>1, <1>3 DEF Accepted

\* A SET, whole or cut off after its write, of the open request or of a late copy.
LEMMA WriteKeepsOrder ==
  ASSUME IInv, InOrder, loop = "execute", Command \in Commands, IsSet(Command),
         SoundStep(Command), Intact',
         UNCHANGED <<request, frame, told, answer, wire>>
  PROVE  /\ FileInOrder' /\ AnswerInOrder' /\ WireInOrder'
         /\ IsLate(SerialUnion) /\ FileIsTold => FileIsTold'
<1>1. /\ Command = SerialUnion.body
      /\ \/ Answers(SerialUnion, request)
         \/ IsLate(SerialUnion) /\ FileIsTold /\ ~Answers(answer, request)
  BY ExecutedInOrder
<1>2. \A k \in SoundKeys :
        file'[k] = file[k] \/ (k = Command.key /\ file'[k] = Command.value)
  BY DEF SoundStep
<1>3. WireInOrder'
  BY DEF InOrder, WireInOrder, IsLate, LastNum, Answers
<1>4. CASE IsLate(SerialUnion) /\ FileIsTold
  <2>1. FileIsTold'
    BY <1>1, <1>2, <1>4 DEF IsLate, FileIsTold
  <2>2. \A k \in SoundKeys : file'[k] = file[k]
    BY <1>4, <2>1 DEF FileIsTold
  <2>3. AnswerInOrder'
    BY <2>2 DEF InOrder, AnswerInOrder, LastNum, Answers, Done
  <2> QED
    BY <1>3, <2>1, <2>3 DEF FileInOrder, FileIsTold
<1>5. CASE Answers(SerialUnion, request)
  <2>1. request.body = Command
    BY <1>1, <1>5 DEF Answers
  <2>2. FileInOrder'
    BY <1>2, <2>1 DEF InOrder, FileInOrder, Asked
  <2>3. ~IsRd(request.body)
    BY <2>1, BodyKinds
  <2>4. AnswerInOrder'
    BY <1>2, <2>1, <2>3 DEF InOrder, AnswerInOrder, LastNum, Answers, Done
  <2>5. IsLate(SerialUnion) /\ FileIsTold => FileIsTold'
    BY <1>1, <1>2 DEF IsLate, FileIsTold
  <2> QED
    BY <1>3, <2>2, <2>4, <2>5
<1> QED
  BY <1>1, <1>4, <1>5

LEMMA ExecuteSetKeepsOrder ==
  ASSUME IInv, InOrder, Intact, Intact', ExecuteSet
  PROVE  InOrder'
<1>1. /\ loop = "execute" /\ loop' = "address"
      /\ UNCHANGED <<request, frame, told, answer, wire>>
      /\ Command \in Commands /\ IsSet(Command) /\ Set(Command)
  BY CommandKinds DEF ExecuteSet, Execute, network, serverSide, IInv, ParamInv
<1>2. SoundStep(Command)
  BY <1>1, SetIsSound DEF IInv
<1>3. /\ SerialUnion'.body = SerialUnion.body /\ SerialUnion'.num = SerialUnion.num
      /\ SerialUnion'.status = SetStatus(Command)
  BY DEF ExecuteSet, Execute, IInv, ParamInv, TypeOK, Buffers
<1>4. ASSUME Answers(SerialUnion, request)
      PROVE  Answers(SerialUnion', request') /\ Done(SerialUnion.status, SerialUnion.data)'
  <2>1. request.body = Command /\ request # None
    BY <1>1, <1>4, ExecutedInOrder DEF Answers
  <2>2. Accepted(Command)
    BY <1>1, <2>1, OpenIsAccepted
  <2>3. Command.key \in SoundKeys => file'[Command.key] = Command.value
    BY <1>2, <2>2 DEF SoundStep
  <2>4. ~IsRd(Command) /\ SerialUnion'.status = "ok"
    BY <1>1, <1>3, <2>2, BodyKinds DEF SetStatus
  <2>5. Done(SerialUnion.status, SerialUnion.data)'
    BY <1>1, <2>1, <2>3, <2>4 DEF Done
  <2> QED
    BY <1>1, <1>3, <1>4, <2>5 DEF Answers
<1>5. BufferInOrder'
  <2>1. CASE Answers(SerialUnion, request)
    BY <1>4, <2>1 DEF BufferInOrder
  <2>2. CASE IsLate(SerialUnion) /\ FileIsTold /\ ~Answers(answer, request)
    <3>1. FileIsTold'
      BY <1>1, <1>2, <2>2, WriteKeepsOrder
    <3>2. IsLate(SerialUnion)' /\ ~Answers(answer, request)'
      BY <1>1, <1>3, <2>2 DEF IsLate, LastNum, Answers
    <3> QED
      BY <3>1, <3>2 DEF BufferInOrder
  <2> QED
    BY <1>1, <2>1, <2>2, ExecutedInOrder
<1> QED
  BY <1>1, <1>2, <1>5, WriteKeepsOrder DEF InOrder

LEMMA ExecuteRestKeepsOrder ==
  ASSUME IInv, InOrder, Intact, ~crossed, ExecuteRd \/ ExecuteRdAddr \/ ExecuteUnknown
  PROVE  InOrder'
<1>1. /\ loop = "execute" /\ loop' = "address"
      /\ UNCHANGED <<request, frame, told, answer, wire, file>>
      /\ SerialUnion'.body = SerialUnion.body /\ SerialUnion'.num = SerialUnion.num
  BY DEF ExecuteRd, ExecuteRdAddr, ExecuteUnknown, Execute, network, serverSide, paramVars,
     IInv, ParamInv, TypeOK, Buffers
<1>2. WireInOrder' /\ AnswerInOrder' /\ FileInOrder'
  BY <1>1
  DEF InOrder, WireInOrder, AnswerInOrder, FileInOrder, IsLate, LastNum, Answers, Done, Asked
<1>3. ASSUME SerialUnion.body \in Commands, Answers(SerialUnion, request)
      PROVE  Done(SerialUnion.status, SerialUnion.data)'
  <2>1. SerialUnion.order = "host"
    BY <1>1, <1>3, BodyKinds DEF IInv, BufferIsMine, ParamInv, TypeOK, Blank, IsMine
  <2>2. Command = SerialUnion.body /\ Command = request.body /\ Command \in Commands
    BY <1>3, <2>1 DEF Command, Answers
  <2>3. ExecuteRd
    BY <2>2, BodyKinds DEF ExecuteRdAddr, ExecuteUnknown
  <2>4. ~IsSet(Command) /\ Command.key \in Keys
    BY <2>2, <2>3, BodyKinds DEF ExecuteRd
  <2>5. SerialUnion'.status = "ok" /\ SerialUnion'.data = ram[Command.key]
    BY <2>3 DEF ExecuteRd, Execute, IInv, ParamInv, TypeOK, Buffers
  <2>6. Command.key \in SoundKeys => ram[Command.key] = told[Command.key]
    BY <2>2, <2>4 DEF IInv, ParamInv, RamIsFile, InOrder, FileInOrder, Asked
  <2> QED
    BY <1>1, <2>2, <2>4, <2>5, <2>6 DEF Done
<1>4. BufferInOrder'
  BY <1>1, <1>3
  DEF InOrder, BufferInOrder, IsLate, LastNum, Answers, FileIsTold, Handling
<1> QED
  BY <1>2, <1>4 DEF InOrder

\* A power cut blanks the buffer and leaves both ends of the network alone.
LEMMA CutKeepsOrder ==
  ASSUME IInv, InOrder, Intact', PowerCut \/ PowerCutInSet
  PROVE  InOrder'
<1>1. /\ SerialUnion' = Blank
      /\ UNCHANGED <<request, frame, told, answer, wire>>
  BY DEF PowerCut, PowerCutInSet, Cut, LinkPowerUp, network, serverSide
<1>2. BufferInOrder'
  BY <1>1, BodyKinds DEF BufferInOrder, Blank
<1>3. CASE file' = file
  <2>1. WireInOrder' /\ AnswerInOrder' /\ FileInOrder'
    BY <1>1, <1>3
    DEF InOrder, WireInOrder, AnswerInOrder, FileInOrder, IsLate, LastNum, Answers, Done,
        Asked
  <2> QED
    BY <1>2, <2>1 DEF InOrder
<1>4. CASE PowerCutInSet
  <2>1. loop = "execute" /\ Command \in Commands /\ IsSet(Command)
    BY <1>4, CommandKinds DEF PowerCutInSet, IInv, ParamInv
  <2>2. PICK stored \in AfterCut(Command) : Cut(stored)
    BY <1>4 DEF PowerCutInSet
  <2>3. file' \in AfterCut(Command)
    BY <2>2 DEF Cut, ParamPowerUp
  <2>4. SoundStep(Command) \/ file' = file
    BY <2>1, <2>3, CutIsSound DEF IInv
  <2> QED
    BY <1>1, <1>2, <1>3, <2>1, <2>4, WriteKeepsOrder DEF InOrder
<1> QED
  BY <1>3, <1>4 DEF PowerCut, Cut, ParamPowerUp

LEMMA RequestNext ==
  ASSUME IInv, [Next]_vars PROVE RequestIsOpen'
<1>1. CASE AskSomething
  <2>1. PICK body \in Bodies :
          /\ IsSet(body) /\ body.key \in SealedKeys => body.seal = ServerKey
          /\ Ask(body)
    BY <1>1 DEF AskSomething
  <2>2. frame \in 0..1
    BY DEF IInv, ParamInv, TypeOK
  <2> QED
    BY <1>1, <2>1, <2>2 DEF AskSomething, Ask, Datagram, RequestIsOpen, ServerKey
<1>2. CASE Hear
  BY <1>2 DEF Hear, GetAnswer, IInv, RequestIsOpen, ServerKey
<1>3. CASE UNCHANGED <<request, frame, told>>
  BY <1>3 DEF IInv, RequestIsOpen, ServerKey
<1> QED
  BY <1>1, <1>2, <1>3
  DEF Next, Link, LinkStep, Receive, Swap, Test, Take, Address, Send, Wipe, AskAgain,
     AskEarly, Stray, Lose, ReceiverStep, threads, network, serverSide, ExecuteSet,
     ExecuteRd, ExecuteRdAddr, ExecuteUnknown, Execute, PowerCut, PowerCutInSet, Cut,
     LinkPowerUp, vars, linkVars

LEMMA OrderNext ==
  ASSUME IInv, [Next]_vars, ~crossed', Intact' PROVE InOrder'
<1>1. ~crossed
  BY DEF Next, Link, LinkStep, Receive, Swap, Test, Take, Address, Send, Wipe, AskAgain,
     AskEarly, Stray, Lose, ReceiverStep, AskSomething, Ask, Hear, GetAnswer, threads,
     ExecuteSet, ExecuteRd, ExecuteRdAddr, ExecuteUnknown, Execute, PowerCut,
     PowerCutInSet, Cut, LinkPowerUp, vars, linkVars
<1>2. Intact
  BY ParamSteps DEF IInv, SoundStep, Intact, paramVars
<1>3. InOrder
  BY <1>1, <1>2 DEF IInv
<1>4. CASE Link
  BY <1>3, <1>4, LinkKeepsOrder DEF Link
<1>5. CASE UNCHANGED vars
  BY <1>3, <1>5
  DEF vars, linkVars, threads, network, serverSide, paramVars, InOrder, WireInOrder,
      BufferInOrder, AnswerInOrder, FileInOrder, IsLate, LastNum, Answers, Done, Asked,
      FileIsTold, Handling
<1> QED
  BY <1>1, <1>2, <1>3, <1>4, <1>5, AskKeepsOrder, HearKeepsOrder, ExecuteSetKeepsOrder,
     ExecuteRestKeepsOrder, CutKeepsOrder DEF Next

LEMMA Invariance == Spec => []IInv
<1>1. IInv /\ [Next]_vars => IInv'
  <2> SUFFICES ASSUME IInv, [Next]_vars PROVE IInv'
    OBVIOUS
  <2>1. ParamInv' /\ BufferIsMine'
    BY ParamNext, MineNext DEF IInv, ParamInv
  <2> QED
    BY <2>1, RequestNext, OrderNext DEF IInv
<1> QED
  BY <1>1, IInvInit, PTL DEF Spec

\* The file holds what the server saw confirmed, or what it is asking for: nothing
\* that is lost, repeated, late or cut off makes a confirmed setting disappear.
THEOREM ConfirmedKept == Spec => []ConfirmedIsKept
<1>1. IInv => ConfirmedIsKept
  BY DEF IInv, InOrder, FileInOrder, ConfirmedIsKept
<1> QED
  BY <1>1, Invariance, PTL

\* An answer that the server takes for its RD tells the value it set last.
THEOREM AnswerTrue == Spec => []AnswerIsTrue
<1>1. IInv => AnswerIsTrue
  <2> SUFFICES ASSUME IInv, ~crossed, Intact, Answers(answer, request),
                      IsRd(request.body), request.body.key \in SoundKeys
               PROVE  answer.status = "ok" /\ answer.data = told[request.body.key]
    BY DEF AnswerIsTrue
  <2>1. request # None /\ answer.body \in Commands /\ answer.num = request.num
    BY CommandAssumption DEF Answers, IInv, RequestIsOpen
  <2>2. Done(answer.status, answer.data)
    BY <2>1, FrameNotLast DEF IInv, ParamInv, InOrder, AnswerInOrder
  <2> QED
    BY <2>2 DEF Done
<1> QED
  BY <1>1, Invariance, PTL
===============================================================================
