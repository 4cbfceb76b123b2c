----------------------------- MODULE MCTurnActor -----------------------------
(***************************************************************************)
(* Small instances of TurnActor.  Each configuration picks the messages    *)
(* and the faults that make its question interesting.                      *)
(***************************************************************************)
EXTENDS TurnActorProps, TLC

CONSTANTS FirstUser,  \* messages of one user; all others are of another
          Direct,     \* messages that address the bot
          Edits,      \* edited messages
          Cmds        \* slash commands

MCInfo ==
    [m \in Msgs |->
        [uid |-> IF m \in FirstUser THEN 1 ELSE 2, ts |-> 1, direct |-> m \in Direct, isEdit |-> m \in Edits,
         cmd |-> m \in Cmds]]

MCGens == Jobs
MCNoGen == NoJob
MCCallers == {"in", "resume"} \X Msgs \cup {"turn"} \X Jobs

ASSUME FirstUser \cup Direct \cup Edits \cup Cmds \subseteq Msgs

JobSymmetry == Permutations(Jobs)
=============================================================================
