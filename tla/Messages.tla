------------------------------ MODULE Messages ------------------------------
(****************************************************************************)
(* The four stations of a message: bytes received are cut into messages     *)
(* (Framing), a message into arguments (Parsing), MODE carries out its      *)
(* arguments (ModeChanges), and what the server answers is sent (Sending).  *)
(* They share no state, and station says which of them is running.          *)
(****************************************************************************)
EXTENDS Framing, Parsing, ModeChanges, Sending

VARIABLE station

Stations == {"framing", "parsing", "modes", "sending"}

\* A station that is not explored has an empty message.
NothingToParse  == received = <<>>
NothingToChange ==
  /\ bAddMode = TRUE /\ modeStr = <<>> /\ arguments = <<>>
  /\ channel = CHOOSE ch \in Channels : ch.Operators = {} /\ ~ch.bInviteOnly

MessagesInit ==
  /\ station \in Stations
  /\ IF station = "parsing" THEN TRUE ELSE NothingToParse
  /\ IF station = "modes" THEN TRUE ELSE NothingToChange
  /\ FramingInit /\ ParsingInit /\ ModesInit /\ SendingInit

MessagesNext ==
  /\ UNCHANGED station
  /\ \/ /\ station = "framing" /\ FramingNext
        /\ UNCHANGED <<parsingVars, modesVars, sendingVars>>
     \/ /\ station = "parsing" /\ ParsingNext
        /\ UNCHANGED <<framingVars, modesVars, sendingVars>>
     \/ /\ station = "modes" /\ ModesNext
        /\ UNCHANGED <<framingVars, parsingVars, sendingVars>>
     \/ /\ station = "sending" /\ SendingNext
        /\ UNCHANGED <<framingVars, parsingVars, modesVars>>

MessagesSpec ==
  /\ MessagesInit
  /\ [][MessagesNext]_<<station, framingVars, parsingVars, modesVars, sendingVars>>

\* Types of the variables of all stations.
MessagesTypeOK == FramingTypeOK /\ ParsingTypeOK /\ ModesTypeOK /\ SendingTypeOK

=============================================================================
