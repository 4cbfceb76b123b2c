------------------------------ MODULE ChatLog ------------------------------
(***************************************************************************)
(* What the store promises of its ChatLog: every chat has the messages     *)
(* appended to it, in the order of their arrival, less what trims have     *)
(* forgotten; a restart changes nothing.                                   *)
(***************************************************************************)
EXTENDS Naturals, Sequences, SequencesExt

CONSTANTS Chats, Keeps,
          Shuffles    \* does a restart keep the messages but not their order?

VARIABLES logs, posted, lives

Init ==
    /\ logs = [c \in Chats |-> <<>>]
    /\ posted = 0
    /\ lives = 0

\* Messages are numbered in the order of their arrival.
AppendTo(c) ==
    /\ posted' = posted + 1
    /\ logs' = [logs EXCEPT ![c] = Append(@, posted')]
    /\ UNCHANGED lives

Trim(c, keep) ==
    /\ UNCHANGED <<posted, lives>>
    /\ Len(logs[c]) > keep
    /\ logs' = [logs EXCEPT ![c] = SubSeq(@, Len(@) - keep + 1, Len(@))]

SameMessages(s, t) == Len(s) = Len(t) /\ ToSet(s) = ToSet(t)

Restart ==
    /\ lives' = lives + 1
    /\ IF Shuffles
       THEN \A c \in Chats : SameMessages(logs'[c], logs[c])
       ELSE UNCHANGED logs
    /\ UNCHANGED posted

Next ==
    \/ \E c \in Chats : AppendTo(c) \/ \E keep \in Keeps : Trim(c, keep)
    \/ Restart

Spec == Init /\ [][Next]_<<logs, posted, lives>>
=============================================================================
