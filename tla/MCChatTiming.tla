--------------------------- MODULE MCChatTiming ---------------------------
(***************************************************************************)
(* Small instances of ChatTiming: one or two people, WAITs of two lengths. *)
(***************************************************************************)
EXTENDS ChatTiming

CONSTANTS FirstUser   \* messages of one user; all others are of another

MCSender == [m \in Msgs |-> IF m \in FirstUser THEN 1 ELSE 2]
=============================================================================
