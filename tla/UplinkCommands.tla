--------------------------- MODULE UplinkCommands ---------------------------
(***************************************************************************)
(* The commands of the uplink, uplink/src/command.rs: identifiers, random  *)
(* UUIDs that the code also compares, and the states of the life cycle.    *)
(***************************************************************************)
EXTENDS Naturals

CONSTANTS
  Commands,  \* command identifiers
  IdOrder,   \* the order of the identifiers
  None       \* no command, no window

ASSUME CommandAssumption ==
  /\ IdOrder \in [Commands -> Nat]
  /\ \A c, d \in Commands : IdOrder[c] = IdOrder[d] => c = d
  /\ None \notin Commands

CommandState == {"Queued", "Scheduled", "Transmitting", "AwaitingAck",
                 "Acknowledged", "Failed", "Timeout", "Cancelled"}

=============================================================================
