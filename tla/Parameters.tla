----------------------------- MODULE Parameters -----------------------------
(***************************************************************************)
(* The parameters of the terminal: a copy in RAM that everything reads,    *)
(* and a text file of key=value lines.  The SET commands of ReceiveSub     *)
(* change both, the RD commands answer from RAM, and start-up              *)
(* (readposInformation, app_ykt_init) fills the RAM from the file.         *)
(*                                                                         *)
(* A command is [op, key, value, seal]; the values of a key are abstract,  *)
(* and the encryption of a command is the key it was encrypted with: the   *)
(* checksum is right only if that is the terminal's CommEncryptKey.        *)
(***************************************************************************)
EXTENDS Integers

CONSTANTS
  Keys,     \* the parameters of the file that have a SET command
  Values,   \* the values the server may set
  Garbage,  \* what a buffer that nobody initialised may hold
  Shipped   \* the file the terminal is shipped with

\* Plain settings, and settings that travel encrypted (0x8000 in the command).
PlainKeys == {"CardSector", "CommEncryptKey", "CardBatchEnable", "PurseEnable"}
SealedKeys == {"MatchCode", "CardKeyCode", "CalCardKey"}
SoundKeys == (PlainKeys \cup SealedKeys) \cap Keys

MinKey == "CardMinBalance"
DayKey == "DayLimetMoney"

ASSUME KeyAssumption == "CommEncryptKey" \in Keys
                        /\ Keys \subseteq PlainKeys \cup SealedKeys \cup {MinKey, DayKey}
ASSUME GarbageAssumption == Garbage \notin Values
ASSUME ShippedAssumption == Shipped \in [Keys -> Values]

VARIABLES
  ram,   \* the copies in RAM
  file   \* posInformation.txt; Missing for a key that has no line

paramVars == <<ram, file>>

Held == Values \cup {Garbage}
Empty == "empty text"
Missing == "no line"

ParamInit ==
  /\ file = Shipped
  /\ ram = Shipped

------------------------------------------------------------------------------
\* The commands.

\* Length, encryption and checksum of the command are right.
Accepted(comd) ==
  \/ comd.key \notin SealedKeys
  \/ comd.seal = ram["CommEncryptKey"]

\* write_conf_value: only a line that is there gets a new value.
Written(key, text) ==
  IF file[key] = Missing THEN file ELSE [file EXCEPT ![key] = text]

\* Is there a change to store?  SET_DAYLIMET compares with a comma.
Changes(comd) == comd.key = DayKey \/ ram[comd.key] # comd.value

\* What the copy in RAM becomes: SET_MINMONEY and SET_DAYLIMET copy a buffer
\* that was never filled.
NewRam(comd) == IF comd.key \in {MinKey, DayKey} THEN Held ELSE {comd.value}

\* What goes into the file: SET_MINMONEY converts in the wrong direction and
\* writes the empty text.
NewText(comd) == IF comd.key = MinKey THEN Empty ELSE comd.value

\* Mutants: the file is not written; the RAM is not changed.
StoreInRam(comd) ==
  /\ \E v \in NewRam(comd) : ram' = [ram EXCEPT ![comd.key] = v]
  /\ UNCHANGED file
StoreInFile(comd) ==
  /\ file' = Written(comd.key, NewText(comd))
  /\ UNCHANGED ram
Store(comd) ==
  /\ \E v \in NewRam(comd) : ram' = [ram EXCEPT ![comd.key] = v]
  /\ file' = Written(comd.key, NewText(comd))

SetStatus(comd) == IF Accepted(comd) THEN "ok" ELSE "ReDatas_Error"
Set(comd) ==
  IF Accepted(comd) /\ Changes(comd) THEN Store(comd) ELSE UNCHANGED paramVars

------------------------------------------------------------------------------
\* Start-up and power cuts.

\* One buffer takes the text of every key: a key without a line, or with an
\* empty one, leaves what was there before.  Mutant: the text is taken as it is.
ReadAny(stored, junk) == stored
ReadInto(stored, junk) ==
  [k \in Keys |-> IF stored[k] \in Held THEN stored[k] ELSE junk]

ParamPowerUp(stored) ==
  /\ file' = stored
  /\ \E junk \in Held : ram' = ReadInto(stored, junk)

\* The file was truncated and not yet rewritten.
Truncated == [k \in Keys |-> Missing]

\* The texts a power cut during a command may leave.  The few short lines stay in
\* the buffer of the stream until fclose writes them at once (readTxt.c:176-181),
\* so the file is the old one, empty, or whole.
AfterCut(comd) ==
  IF Accepted(comd) /\ Changes(comd)
  THEN {file, Truncated, Written(comd.key, NewText(comd))}
  ELSE {file}

------------------------------------------------------------------------------
\* Properties.

Intact == \A k \in SoundKeys : file[k] # Missing

\* Each sound setting is the same in RAM and in the file, whatever commands
\* were refused, repeated or cut off, as long as the file was not lost: the
\* comparison of a SET with the RAM alone would otherwise skip a write.
RamIsFile == Intact => \A k \in SoundKeys : ram[k] = file[k]

\* The sound settings keep the promise of Settings.
Sound(f) == [k \in SoundKeys |-> f[k]]
S == INSTANCE Settings
       WITH Names <- SoundKeys, Words <- Held, Lost <- Truncated,
            kept <- IF Intact THEN Sound(file) ELSE Truncated,
            used <- Sound(ram)
SettingsSpec == S!Spec
=============================================================================
