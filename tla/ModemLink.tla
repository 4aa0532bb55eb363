----------------------------- MODULE ModemLink -----------------------------
(* The serial link to the Sigfox modem (HidnSeek.cpp) with initSigFox() on  *)
(* top of it (sigfox.ino): the library writes commands and reads answers    *)
(* from the same line in order; only begin() has a time-out, and nothing    *)
(* ever empties the line.  The modem is external: it answers what it was    *)
(* sent, in order, when it likes; a frame it accepts or refuses.            *)
(*                                                                          *)
(* A byte is one value; only the bytes the library compares, and those the  *)
(* modem's words are made of, are told apart: "x" is any other.             *)
(* Left out: the 64 byte limit of SoftwareSerial's buffer, which the few    *)
(* answers never reach, the red LED that shows a slow modem, and the        *)
(* commands no sketch gives (isReady, getRev, setPower).                    *)
EXTENDS Integers, Sequences, SequencesExt, FiniteSetsExt

CONSTANTS Attempts,     \* how often initSigFox() can call begin() in its 6 s
          MaxFaults,    \* restarts, and windows that close before the answer
          Identifier    \* of the modem: four bytes, a ';' may be among them

Semicolon == ";"        \* it ends every answer
Byte == {"K", "O", Semicolon, "S", "E", "N", "T", "x"}

ASSUME LinkConstants ==
  /\ Attempts \in Nat \ {0} /\ MaxFaults \in Nat
  /\ Identifier \in Seq(Byte) /\ Len(Identifier) = 4

VARIABLES
  at,           \* "begin", "window", "getID", "answer", "sent" or "idle";
                \* "undefined" when getID() has written beside its array
  rx,           \* bytes received and not yet read
  attempt,      \* calls of begin() since the reset
  found,        \* what initSigFox() returned
  result,       \* what the last send() returned, or "none"
  wire, owed,   \* the modem: bytes on their way, commands it has to answer
  onAir,        \*   it has transmitted the frame written last
  faults        \* restarts and late windows so far

libVars   == <<at, rx, attempt, found, result>>
modemVars == <<wire, owed, onAir>>
linkVars  == <<libVars, modemVars, faults>>

KO == <<"K", "O", Semicolon>>
OK == <<"O", "K", Semicolon>>
SENT == <<"S", "E", "N", "T", Semicolon>>
ID == Identifier \o OK

(* What the modem can owe; SENT stands for a frame it still has to transmit.*)
Command == {"NUL", "SFID", "SFM", "SENT", "old SFM", "old SENT"}

LinkInit ==
  /\ at = "begin" /\ rx = <<>> /\ attempt = 0 /\ found = FALSE
  /\ result = "none"
  /\ wire = <<>> /\ owed = <<>> /\ onAir = FALSE
  /\ faults = 0

-----------------------------------------------------------------------------
(* begin(): ends whatever command the modem has half received, and listens  *)
(* for 50 ms.                                                               *)
Begin ==
  /\ at = "begin"
  /\ owed' = Append(owed, "NUL")
  /\ at' = "window" /\ attempt' = attempt + 1
  /\ UNCHANGED <<rx, found, result, wire, onAir, faults>>

(* begin() returned -1: initSigFox() tries again until its 6 s are over.    *)
TryAgain == /\ at' = IF attempt < Attempts THEN "begin" ELSE "idle"
            /\ UNCHANGED <<found, owed>>

(* The window closes, with the fifth byte or after 50 ms.  Only the three   *)
(* bytes of the answer, alone, count; getID() writes its command at once.   *)
WindowClose ==
  /\ at = "window"
  /\ owed \o wire # <<>> => faults < MaxFaults
  /\ faults' = IF owed \o wire = <<>> THEN faults ELSE faults + 1
  /\ rx' = IF Len(rx) > 4 THEN SubSeq(rx, 6, Len(rx)) ELSE <<>>
  /\ IF rx = KO
     THEN at' = "getID" /\ found' = TRUE /\ owed' = Append(owed, "SFID")
     ELSE TryAgain
  /\ UNCHANGED <<attempt, result, wire, onAir>>

(* The ';' that are not among the first least - 1 bytes.                    *)
Ends(least) == {n \in least .. Len(rx) : rx[n] = Semicolon}
DropTo(n) == SubSeq(rx, n + 1, Len(rx))

(* response[8] holds what was read in front of the ';'.  A ninth byte goes  *)
(* beside it: the program may go on as if nothing had happened, or not.     *)
After(end) == IF end > 9 THEN {"idle", "undefined"} ELSE {"idle"}

(* *Mutant*: the identifier ends with the first ';'.                        *)
GetIDFirst ==
  /\ at = "getID" /\ Ends(1) # {}
  /\ rx' = DropTo(Min(Ends(1))) /\ at' = "idle"
  /\ UNCHANGED <<attempt, found, result, modemVars, faults>>

(* getID() reads up to a ';' behind at least six bytes.                     *)
GetID ==
  /\ at = "getID" /\ Ends(7) # {}
  /\ rx' = DropTo(Min(Ends(7))) /\ at' \in After(Min(Ends(7)))
  /\ UNCHANGED <<attempt, found, result, modemVars, faults>>

Astray == at = "undefined" /\ UNCHANGED linkVars

(* The modem has to finish older frames first.                              *)
Older(c) == IF c = "SFM" THEN "old SFM" ELSE IF c = "SENT" THEN "old SENT" ELSE c

(* send(): the command with the frame.  Its result is not known before the  *)
(* answers are read.                                                        *)
SendFrame ==
  /\ at = "idle"
  /\ owed' = Append([k \in DOMAIN owed |-> Older(owed[k])], "SFM")
  /\ onAir' = FALSE /\ at' = "answer" /\ result' = "none"
  /\ UNCHANGED <<rx, attempt, found, wire, faults>>

(* *Mutant*: SENT is waited for after a refusal too.                        *)
NextReturnTwice ==
  /\ at \in {"answer", "sent"} /\ Ends(2) # {}
  /\ rx' = DropTo(Min(Ends(2)))
  /\ IF at = "answer"
     THEN at' = "sent" /\ result' = IF Head(rx) = "O" THEN "true" ELSE "false"
     ELSE at' = "idle" /\ UNCHANGED result
  /\ UNCHANGED <<attempt, found, modemVars, faults>>

(* _nextReturn() takes the first byte, whatever it is, and skips to the     *)
(* next ';'.  Its first call in send() decides whether SENT is waited for.  *)
NextReturn ==
  /\ at \in {"answer", "sent"} /\ Ends(2) # {}
  /\ rx' = DropTo(Min(Ends(2)))
  /\ IF at = "answer" /\ Head(rx) = "O"
     THEN at' = "sent" /\ UNCHANGED result
     ELSE at' = "idle" /\ result' = IF at = "sent" THEN "true" ELSE "false"
  /\ UNCHANGED <<attempt, found, modemVars, faults>>

-----------------------------------------------------------------------------
(* What the modem answers to a command, and what it still owes after that:  *)
(* a frame is refused, or accepted and its transmission reported seconds    *)
(* later.                                                                   *)
Answers(c) ==
  CASE c = "NUL"        -> {<<KO, <<>>>>}
    [] c = "SFID"       -> {<<ID, <<>>>>}
    [] c = "SFM"        -> {<<OK, <<"SENT">>>>, <<KO, <<>>>>}
    [] c = "old SFM"    -> {<<OK, <<"old SENT">>>>, <<KO, <<>>>>}
    [] OTHER            -> {<<SENT, <<>>>>}

Answer ==
  /\ owed # <<>>
  /\ \E a \in Answers(Head(owed)) : wire' = wire \o a[1] /\ owed' = a[2] \o Tail(owed)
  /\ onAir' = (onAir \/ Head(owed) = "SENT")
  /\ UNCHANGED <<libVars, faults>>

(* Bytes arrive one after the other.  A window may close between any two of *)
(* them; everywhere else the library waits for the whole answer.            *)
Arrive ==
  /\ wire # <<>>
  /\ \E n \in 1 .. Len(wire) :
       /\ n < Len(wire) => at = "window"
       /\ rx' = rx \o SubSeq(wire, 1, n)
       /\ wire' = SubSeq(wire, n + 1, Len(wire))
  /\ UNCHANGED <<at, attempt, found, result, owed, onAir, faults>>

(* The reset button restarts the program; the modem goes on.                *)
Restart ==
  /\ faults < MaxFaults /\ faults' = faults + 1
  /\ at' = "begin" /\ rx' = <<>> /\ attempt' = 0 /\ found' = FALSE
  /\ result' = "none"
  /\ UNCHANGED modemVars

Library == Begin \/ WindowClose \/ GetID \/ NextReturn \/ Astray
Line == Answer \/ Arrive

-----------------------------------------------------------------------------
(* How many faults the order of the answers survives.                       *)
PlainIdentifier == \A k \in 1 .. 4 : Identifier[k] # Semicolon
Tolerated == IF PlainIdentifier THEN 2 ELSE 1

LinkTypeOK ==
  /\ at \in {"begin", "window", "getID", "answer", "sent", "idle", "undefined"}
  /\ attempt \in 0 .. Attempts
  /\ result \in {"none", "true", "false"} /\ found \in BOOLEAN
  /\ onAir \in BOOLEAN
  /\ owed \in Seq(Command) /\ (found /\ faults <= Tolerated => Len(owed) <= 2)

(* send() returns true only when the modem has transmitted this very frame: *)
(* answers that arrive after the window of begin(), and those a restart has *)
(* left on the line, do not pass for the answers to a later command.  It    *)
(* takes a modem that was found, and at most one such fault, or two when no *)
(* byte of the identifier is a ';': with two, one old answer may be left    *)
(* before the identifier, and getID() then stops at such a byte and leaves  *)
(* OK to send().                                                            *)
SendTrueMeansSent == result = "true" /\ found /\ faults <= Tolerated => onAir

(* Every call of the library returns, although none but begin() has a       *)
(* time-out, as long as the modem answers what it was asked: answers left   *)
(* over from an earlier call, or from before a restart, never make one wait *)
(* for an answer that does not come.  Once getID() has written beside its   *)
(* array nothing is claimed.                                                *)
CallsReturn == at \notin {"idle", "undefined"} ~> at \in {"idle", "undefined"}
=============================================================================
