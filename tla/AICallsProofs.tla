--------------------------- MODULE AICallsProofs ---------------------------
(***************************************************************************)
(* The properties of AICalls hold for any number of calls, labels and      *)
(* failing Redis commands.                                                 *)
(*                                                                         *)
(* Each call is looked at alone: CallInv says which of its attempts can    *)
(* be in flight at each place, that the labels behind its loop are covered *)
(* and that a label ahead of it is untouched unless it is the hedge.       *)
(***************************************************************************)
EXTENDS AICalls, TLAPS

InFlight(c, l) == att[c][l] \in {"flying", "stopped"}
Covered(c, l) == att[c][l] = "bad" \/ l \in skipped[c]
Begun(c) == Hedged(c) /\ att[c][1] # "none"

\* What is in flight, and where.
Flights(c) ==
    /\ \A l \in Labels : InFlight(c, l) /\ at[c] # "done" =>
          (at[c] = "solo" /\ l = next[c]) \/ (at[c] = "race" /\ l \in {1, 2})
    /\ \A l \in Labels : att[c][l] \in {"beaten", "gone"} => at[c] = "done" /\ result[c] = "ok"

\* The loop: what lies behind it is covered, what lies ahead is untouched.
Walk(c) ==
    /\ at[c] = "done" <=> result[c] # "none"
    /\ at[c] # "done" => \A l \in Labels : l < next[c] => Covered(c, l)
    /\ at[c] = "catch" => next[c] \in Labels /\ att[c][next[c]] = "bad"
    /\ at[c] = "solo" => next[c] \in Labels
    /\ at[c] = "race" => next[c] = 1 /\ Hedged(c) /\ att[c][1] \in {"flying", "stopped", "bad"}
    /\ \A l \in Labels : att[c][l] # "none" /\ (l > next[c] \/ (at[c] = "check" /\ l = next[c])) =>
          l = 2 /\ Begun(c)
    /\ result[c] = "failed" => \A l \in Labels : Covered(c, l)

\* The hedge: once the race is lost it is settled.
HedgeInv(c) ==
    /\ timer[c] # "off" =>
          /\ Hedged(c) /\ att[c][1] # "none" /\ att[c][2] = "none"
          /\ at[c] = "race" \/ (at[c] = "done" /\ result[c] = "ok")
    /\ at[c] = "race" /\ timer[c] = "off" => told[c] \/ att[c][2] # "none" \/ 2 \in skipped[c]
    /\ at[c] = "catch" /\ Begun(c) => told[c] \/ Covered(c, 2)
    /\ at[c] \in {"check", "solo"} /\ Begun(c) => Covered(c, 2)
    /\ N > 1 => att[c][2] = "bad" \/ blame[c][2] = 0

CallInv(c) == Flights(c) /\ Walk(c) /\ HedgeInv(c)

Inv == TypeOK /\ \A c \in Calls : CallInv(c)

-----------------------------------------------------------------------------
LEMMA InitInv == Init => Inv
  <1> SUFFICES ASSUME Init PROVE Inv
    OBVIOUS
  <1> USE CallsAssumption DEF Init, Labels
  <1>1. TypeOK
    BY DEF TypeOK, Attempts
  <1>2. ASSUME NEW c \in Calls PROVE CallInv(c)
    BY <1>2 DEF CallInv, Flights, Walk, HedgeInv, InFlight, Covered, Begun, Hedged
  <1> QED BY <1>1, <1>2 DEF Inv

\* A call whose own fields stay keeps its invariant.
LEMMA Untouched ==
    ASSUME NEW d \in Calls, CallInv(d),
           at'[d] = at[d], next'[d] = next[d], att'[d] = att[d], timer'[d] = timer[d],
           told'[d] = told[d], result'[d] = result[d], skipped'[d] = skipped[d],
           blame'[d] = blame[d]
    PROVE  CallInv(d)'
  BY DEF CallInv, Flights, Walk, HedgeInv, InFlight, Covered, Begun

\* What recording does to the counters and to the ghost.
LEMMA FailureRecorded ==
    ASSUME TypeOK, NEW c \in Calls, NEW l \in Labels, RecordFailure(c, l)
    PROVE  /\ fails' \in [Labels -> 0..Threshold]
           /\ tripped' \in [Labels -> BOOLEAN]
           /\ blame' \in [Calls -> [Labels -> 0..2]]
           /\ \A d \in Calls, k \in Labels : d # c \/ k # l => blame'[d][k] = blame[d][k]
           /\ \A d \in Calls : d # c => blame'[d] = blame[d]
  <1> USE CallsAssumption DEF TypeOK, RecordFailure
  <1>1. fails' \in [Labels -> 0..Threshold]
    OBVIOUS
  <1>2. tripped' \in [Labels -> BOOLEAN]
    OBVIOUS
  <1>3. blame' \in [Calls -> [Labels -> 0..2]]
    OBVIOUS
  <1>4. \A d \in Calls, k \in Labels : d # c \/ k # l => blame'[d][k] = blame[d][k]
    OBVIOUS
  <1>5. \A d \in Calls : d # c => blame'[d] = blame[d]
    OBVIOUS
  <1> QED BY <1>1, <1>2, <1>3, <1>4, <1>5

LEMMA FailureCounted ==
    ASSUME TypeOK, NEW c \in Calls, NEW l \in Labels, CountFailure(c, l)
    PROVE  /\ fails' \in [Labels -> 0..Threshold]
           /\ tripped' \in [Labels -> BOOLEAN]
           /\ blame' \in [Calls -> [Labels -> 0..2]]
           /\ \A d \in Calls, k \in Labels : d # c \/ k # l => blame'[d][k] = blame[d][k]
           /\ \A d \in Calls : d # c => blame'[d] = blame[d]
  <1> USE CallsAssumption DEF TypeOK, CountFailure
  <1>1. fails' \in [Labels -> 0..Threshold]
    OBVIOUS
  <1>2. tripped' \in [Labels -> BOOLEAN]
    OBVIOUS
  <1>3. blame' \in [Calls -> [Labels -> 0..2]]
    OBVIOUS
  <1>4. \A d \in Calls, k \in Labels : d # c \/ k # l => blame'[d][k] = blame[d][k]
    OBVIOUS
  <1>5. \A d \in Calls : d # c => blame'[d] = blame[d]
    OBVIOUS
  <1> QED BY <1>1, <1>2, <1>3, <1>4, <1>5

\* A failing command stays within the bound.
LEMMA BreaksType == ASSUME TypeOK, Breaks PROVE errors' \in 0..MaxErrors
  BY CallsAssumption DEF Breaks, TypeOK

\* Writing one attempt of a call.
LEMMA AttemptSet ==
    ASSUME TypeOK, NEW c \in Calls, NEW l \in Labels, NEW a \in Attempts
    PROVE  [att EXCEPT ![c][l] = a] \in [Calls -> [Labels -> Attempts]]
  BY DEF TypeOK

LEMMA SkipHedgedInv == ASSUME Inv, NEW c \in Calls, SkipHedged(c) PROVE Inv'
  <1> USE CallsAssumption DEF Inv, SkipHedged, models
  <1>1. TypeOK'
    BY DEF TypeOK, Labels
  <1>2. CallInv(c)'
    BY SMTT(30) DEF CallInv, Flights, Walk, HedgeInv, InFlight, Covered, Begun, TypeOK, TriedAsHedge, Labels
  <1>3. ASSUME NEW d \in Calls, d # c PROVE CallInv(d)'
    BY <1>3, Untouched DEF TypeOK
  <1> QED BY <1>1, <1>2, <1>3

LEMMA SkipCoolingInv == ASSUME Inv, NEW c \in Calls, SkipCooling(c) PROVE Inv'
  <1> USE CallsAssumption DEF Inv, SkipCooling, models
  <1>1. TypeOK'
    BY SMTT(30) DEF TypeOK, Labels
  <1>2. Flights(c)'
    BY DEF CallInv, Flights, Walk, InFlight, TypeOK, Labels
  <1>3. Walk(c)'
    BY SMTT(90) DEF CallInv, Flights, Walk, HedgeInv, InFlight, Covered, Begun, TypeOK, TriedAsHedge, Labels
  <1>4. HedgeInv(c)'
    BY DEF CallInv, Flights, Walk, HedgeInv, InFlight, Covered, Begun, TypeOK, TriedAsHedge, Labels
  <1>5. ASSUME NEW d \in Calls, d # c PROVE CallInv(d)'
    BY <1>5, Untouched DEF TypeOK
  <1> QED BY <1>1, <1>2, <1>3, <1>4, <1>5 DEF CallInv

LEMMA LaunchInv == ASSUME Inv, NEW c \in Calls, Launch(c) PROVE Inv'
  <1> USE CallsAssumption DEF Inv, Launch, models, Launched, TriedAsHedge
  <1>1. TypeOK'
    BY ZenonT(30) DEF TypeOK, Labels, Attempts
  <1>2. Flights(c)'
    BY SMTT(30) DEF CallInv, Flights, Walk, HedgeInv, InFlight, TypeOK, Labels
  <1>3. Walk(c)'
    BY SMTT(30) DEF CallInv, Flights, Walk, HedgeInv, InFlight, Covered, Begun, Hedged, TypeOK, Labels
  <1>4. HedgeInv(c)'
    BY SMTT(30) DEF CallInv, Flights, Walk, HedgeInv, InFlight, Covered, Begun, Hedged, TypeOK, Labels
  <1>5. ASSUME NEW d \in Calls, d # c PROVE CallInv(d)'
    BY <1>5, Untouched DEF TypeOK
  <1> QED BY <1>1, <1>2, <1>3, <1>4, <1>5 DEF CallInv

LEMMA GiveUpInv == ASSUME Inv, NEW c \in Calls, GiveUp(c) PROVE Inv'
  <1> USE CallsAssumption DEF Inv, GiveUp, models
  <1>1. TypeOK'
    BY DEF TypeOK, Labels, Attempts
  <1>2. Flights(c)'
    BY DEF CallInv, Flights, Walk, HedgeInv, InFlight, TypeOK, Labels
  <1>3. Walk(c)'
    <2>1. at'[c] = "done" /\ result'[c] = "failed"
      BY DEF TypeOK
    <2>2. ASSUME NEW l \in Labels PROVE Covered(c, l)'
      <3>1. l < next[c] /\ at[c] # "done"
        BY DEF Labels
      <3>2. Covered(c, l)
        BY <3>1 DEF CallInv, Walk
      <3> QED BY <3>2 DEF Covered
    <2> QED BY <2>1, <2>2 DEF CallInv, Walk, Begun, Hedged, TypeOK
  <1>4. HedgeInv(c)'
    BY DEF CallInv, Flights, Walk, HedgeInv, InFlight, Covered, Begun, Hedged, TypeOK, Labels
  <1>5. ASSUME NEW d \in Calls, d # c PROVE CallInv(d)'
    BY <1>5, Untouched DEF TypeOK
  <1> QED BY <1>1, <1>2, <1>3, <1>4, <1>5 DEF CallInv

LEMMA TimerFiresInv == ASSUME Inv, NEW c \in Calls, TimerFires(c) PROVE Inv'
  <1> USE CallsAssumption DEF Inv, TimerFires, models
  <1>1. TypeOK'
    BY DEF TypeOK, Labels, Attempts
  <1>2. Flights(c)'
    BY DEF CallInv, Flights, Walk, HedgeInv, InFlight, TypeOK, Labels
  <1>3. Walk(c)'
    BY DEF CallInv, Flights, Walk, HedgeInv, InFlight, Covered, Begun, Hedged, TypeOK, Labels
  <1>4. HedgeInv(c)'
    BY DEF CallInv, Flights, Walk, HedgeInv, InFlight, Covered, Begun, Hedged, TypeOK, Labels
  <1>5. ASSUME NEW d \in Calls, d # c PROVE CallInv(d)'
    BY <1>5, Untouched DEF TypeOK
  <1> QED BY <1>1, <1>2, <1>3, <1>4, <1>5 DEF CallInv

LEMMA HedgeGoesInv == ASSUME Inv, NEW c \in Calls, HedgeGoes(c) PROVE Inv'
  <1> USE CallsAssumption DEF Inv, HedgeGoes, models, Launched, Cooling
  <1>0. 2 \in Labels
    BY DEF CallInv, HedgeInv, Hedged, Labels, TypeOK
  <1>6. /\ att' \in {att, [att EXCEPT ![c][2] = "stopped"], [att EXCEPT ![c][2] = "flying"]}
        /\ skipped' \in {skipped, [skipped EXCEPT ![c] = @ \cup {2}]}
    OBVIOUS
  <1>1. TypeOK'
    <2>0. "stopped" \in Attempts /\ "flying" \in Attempts
      BY DEF Attempts
    <2>1. att' \in [Calls -> [Labels -> Attempts]]
      <3>1. /\ [att EXCEPT ![c][2] = "stopped"] \in [Calls -> [Labels -> Attempts]]
            /\ [att EXCEPT ![c][2] = "flying"] \in [Calls -> [Labels -> Attempts]]
        BY <1>0, <2>0, AttemptSet
      <3> HIDE DEF HedgeGoes
      <3> QED BY <3>1, <1>6 DEF TypeOK
    <2>2. skipped' \in [Calls -> SUBSET Labels]
      <3>1. [skipped EXCEPT ![c] = @ \cup {2}] \in [Calls -> SUBSET Labels]
        BY <1>0 DEF TypeOK
      <3> HIDE DEF HedgeGoes
      <3> QED BY <3>1, <1>6 DEF TypeOK
    <2> QED BY <2>1, <2>2 DEF TypeOK
  <1>2. Flights(c)'
    <2>1. at[c] = "race" \/ (at[c] = "done" /\ result[c] = "ok")
      BY DEF CallInv, HedgeInv
    <2>2. \A l \in Labels : l # 2 => att'[c][l] = att[c][l]
      BY <1>0 DEF TypeOK
    <2>3. att'[c][2] \in {att[c][2], "flying", "stopped"}
      BY <1>0 DEF TypeOK
    <2> QED
      BY <2>1, <2>2, <2>3 DEF CallInv, Flights, InFlight
  <1>3. Walk(c)'
    BY SMTT(30) DEF CallInv, Flights, Walk, HedgeInv, InFlight, Covered, Begun, Hedged, TypeOK, Labels
  <1>4. HedgeInv(c)'
    BY SMTT(30) DEF CallInv, Flights, Walk, HedgeInv, InFlight, Covered, Begun, Hedged, TypeOK, Labels
  <1>5. ASSUME NEW d \in Calls, d # c PROVE CallInv(d)'
    BY <1>5, Untouched DEF TypeOK
  <1> QED BY <1>1, <1>2, <1>3, <1>4, <1>5 DEF CallInv

LEMMA RaceLostInv == ASSUME Inv, NEW c \in Calls, RaceLost(c) PROVE Inv'
  <1> USE CallsAssumption DEF Inv, RaceLost, models
  <1>1. TypeOK'
    BY DEF TypeOK, Labels, Attempts
  <1>2. Flights(c)'
    <2>1. ASSUME NEW l \in Labels, InFlight(c, l) PROVE FALSE
      BY <2>1 DEF CallInv, Flights, InFlight
    <2> QED BY <2>1 DEF CallInv, Flights, InFlight
  <1>3. Walk(c)'
    BY SMTT(30) DEF CallInv, Flights, Walk, HedgeInv, InFlight, Covered, Begun, Hedged, TypeOK, Labels
  <1>4. HedgeInv(c)'
    BY DEF CallInv, Flights, Walk, HedgeInv, InFlight, Covered, Begun, Hedged, TypeOK, Labels
  <1>5. ASSUME NEW d \in Calls, d # c PROVE CallInv(d)'
    BY <1>5, Untouched DEF TypeOK
  <1> QED BY <1>1, <1>2, <1>3, <1>4, <1>5 DEF CallInv

LEMMA AbortInv == ASSUME Inv, NEW c \in Calls, Abort(c) PROVE Inv'
  <1> USE CallsAssumption DEF Inv, Abort, models
  <1>1. TypeOK'
    BY DEF TypeOK, Labels, Attempts
  <1>2. Flights(c)'
    BY SMTT(30) DEF CallInv, Flights, Walk, HedgeInv, InFlight, TypeOK, Labels
  <1>3. Walk(c)'
    BY SMTT(30) DEF CallInv, Flights, Walk, HedgeInv, InFlight, Covered, Begun, Hedged, TypeOK, Labels
  <1>4. HedgeInv(c)'
    BY DEF CallInv, Flights, Walk, HedgeInv, InFlight, Covered, Begun, Hedged, TypeOK, Labels
  <1>5. ASSUME NEW d \in Calls, d # c PROVE CallInv(d)'
    BY <1>5, Untouched DEF TypeOK
  <1> QED BY <1>1, <1>2, <1>3, <1>4, <1>5 DEF CallInv

LEMMA CatchInv == ASSUME Inv, NEW c \in Calls, Catch(c) PROVE Inv'
  <1> USE CallsAssumption DEF Inv, models
  <1>1. CASE told[c]
    <2> USE <1>1 DEF Catch, NoRecord
    <2>1. TypeOK'
      BY DEF TypeOK, Labels, Attempts
    <2>2. Flights(c)'
      BY DEF CallInv, Flights, Walk, InFlight, TypeOK
    <2>3. Walk(c)'
      BY DEF CallInv, Walk, Covered, Begun, Hedged, TypeOK
    <2>4. HedgeInv(c)'
      BY SMTT(90) DEF CallInv, HedgeInv, Covered, Begun, Hedged, TypeOK
    <2>5. ASSUME NEW d \in Calls, d # c PROVE CallInv(d)'
      BY <2>5, Untouched DEF TypeOK
    <2> QED BY <2>1, <2>2, <2>3, <2>4, <2>5 DEF CallInv
  <1>2. CASE ~told[c]
    <2>1. at[c] = "catch" /\ next[c] \in Labels /\ att[c][next[c]] = "bad"
      BY DEF CallInv, Walk, Catch
    <2>2. RecordFailure(c, next[c]) /\ Limits(next[c])
      BY <1>2 DEF Catch
    <2>3. /\ at' = [at EXCEPT ![c] = "check"] /\ next' = [next EXCEPT ![c] = @ + 1]
          /\ UNCHANGED <<att, timer, told, skipped, result, errors>>
      BY <1>2 DEF Catch
    <2>4. TypeOK'
      <3>1. /\ fails' \in [Labels -> 0..Threshold] /\ tripped' \in [Labels -> BOOLEAN]
            /\ blame' \in [Calls -> [Labels -> 0..2]]
        BY <2>1, <2>2, FailureRecorded
      <3>2. limited' \in [Labels -> BOOLEAN]
        BY <2>1, <2>2 DEF Limits, TypeOK
      <3>3. at' \in [Calls -> {"check", "race", "solo", "catch", "done"}] /\ next' \in [Calls -> 1..(N + 1)]
        BY <2>1, <2>3, SMTT(30) DEF TypeOK, Labels
      <3> QED BY <2>3, <3>1, <3>2, <3>3 DEF TypeOK
    <2>5. N > 1 /\ att[c][2] # "bad" => blame'[c][2] = blame[c][2]
      BY <2>1, <2>2, FailureRecorded, SMTT(30) DEF Labels
    <2>6. Flights(c)'
      BY <2>1, <2>3 DEF CallInv, Flights, InFlight, TypeOK
    <2>7. Walk(c)'
      BY <2>1, <2>3, SMTT(30) DEF CallInv, Walk, Covered, Begun, Hedged, TypeOK, Labels
    <2>8. HedgeInv(c)'
      BY <1>2, <2>1, <2>3, <2>5, ZenonT(30) DEF CallInv, HedgeInv, Covered, Begun, Hedged, TypeOK
    <2>9. ASSUME NEW d \in Calls, d # c PROVE CallInv(d)'
      BY <2>1, <2>2, <2>3, <2>9, FailureRecorded, Untouched DEF TypeOK
    <2> QED BY <2>4, <2>6, <2>7, <2>8, <2>9 DEF CallInv
  <1> QED BY <1>1, <1>2

LEMMA AnswerInv == ASSUME Inv, NEW c \in Calls, NEW l \in Labels, Answer(c, l) PROVE Inv'
  <1> USE CallsAssumption DEF Inv, models
  <1>1. /\ att[c][l] \in {"flying", "stopped", "beaten"}
        /\ fails' \in [Labels -> 0..Threshold]
        /\ errors' \in 0..MaxErrors
        /\ UNCHANGED <<next, told, skipped, limited, tripped, blame>>
    <2>1. errors' \in 0..MaxErrors
      BY BreaksType DEF Answer, TypeOK
    <2> QED BY <2>1, SMTT(90) DEF Answer, RecordSuccess, NoRecord, TypeOK
  <1>2. CASE at[c] = "done"
    <2> USE <1>1, <1>2 DEF Answer
    <2>0. "ok" \in Attempts
      BY DEF Attempts
    <2>1. att' = [att EXCEPT ![c][l] = "ok"] /\ att' \in [Calls -> [Labels -> Attempts]]
      BY <2>0, AttemptSet, SMTT(30)
    <2>2. TypeOK'
      BY <2>1 DEF TypeOK
    <2>3. att'[c][l] = "ok" /\ \A k \in Labels : k # l => att'[c][k] = att[c][k]
      BY <2>1 DEF TypeOK
    <2>4. Flights(c)'
      BY <2>3 DEF CallInv, Flights, InFlight
    <2>5. Walk(c)'
      BY <2>3, SMTT(90) DEF CallInv, Walk, Covered, Begun, Hedged, Labels, TypeOK
    <2>6. HedgeInv(c)'
      BY <2>3, SMTT(90) DEF CallInv, HedgeInv, Covered, Begun, Hedged, Labels, TypeOK
    <2>7. ASSUME NEW d \in Calls, d # c PROVE CallInv(d)'
      BY <2>7, <2>1, Untouched DEF TypeOK
    <2> QED BY <2>2, <2>4, <2>5, <2>6, <2>7 DEF CallInv
  <1>3. CASE at[c] # "done"
    <2>1. /\ att' = [att EXCEPT ![c] = Settled(c, l)]
          /\ timer' = [timer EXCEPT ![c] = IF l = 1 /\ @ = "armed" THEN "off" ELSE @]
          /\ at' = [at EXCEPT ![c] = "done"] /\ result' = [result EXCEPT ![c] = "ok"]
      BY <1>3 DEF Answer
    <2>2. Settled(c, l) \in [Labels -> Attempts]
      BY DEF Settled, TypeOK, Attempts
    <2>3. TypeOK'
      <3>1. timer' \in [Calls -> {"off", "armed", "asked", "hung"}]
        BY <2>1 DEF TypeOK
      <3> QED BY <1>1, <2>1, <2>2, <3>1 DEF TypeOK
    <2>4. \A k \in Labels : att'[c][k] = IF k = l THEN "ok"
                                         ELSE IF att[c][k] = "flying" THEN "beaten" ELSE att[c][k]
      BY <2>1 DEF Settled, TypeOK
    <2>5. at'[c] = "done" /\ result'[c] = "ok"
      BY <2>1 DEF TypeOK
    <2>6. Flights(c)'
      BY <2>4, <2>5 DEF CallInv, Flights
    <2>7. Walk(c)'
      <3>1. \A k \in Labels : att'[c][k] # "none" => att[c][k] # "none"
        BY <1>1, <2>4
      <3>2. Begun(c) => Begun(c)'
        BY <1>1, <2>4 DEF Begun, Hedged, Labels
      <3> QED BY <1>1, <1>3, <2>5, <3>1, <3>2 DEF CallInv, Walk
    <2>8. HedgeInv(c)'
      <3>1. ASSUME timer'[c] # "off"
            PROVE  /\ Hedged(c)' /\ att'[c][1] # "none" /\ att'[c][2] = "none"
                   /\ at'[c] = "done" /\ result'[c] = "ok"
        <4>1. timer[c] # "off"
          BY <3>1, <2>1 DEF TypeOK
        <4>2. Hedged(c) /\ att[c][1] # "none" /\ att[c][2] = "none"
          BY <4>1 DEF CallInv, HedgeInv
        <4> QED BY <1>1, <2>4, <2>5, <4>2, SMTT(90) DEF Hedged, Labels
      <3>2. N > 1 => att'[c][2] = "bad" \/ blame'[c][2] = 0
        <4>1. N > 1 => att[c][2] = "bad" \/ blame[c][2] = 0
          BY DEF CallInv, HedgeInv
        <4> QED BY <4>1, <1>1, <2>4 DEF Labels
      <3> QED BY <2>5, <3>1, <3>2 DEF HedgeInv
    <2>9. ASSUME NEW d \in Calls, d # c PROVE CallInv(d)'
      BY <1>1, <2>1, <2>9, Untouched DEF TypeOK
    <2> QED BY <2>3, <2>6, <2>7, <2>8, <2>9 DEF CallInv
  <1> QED BY <1>2, <1>3

LEMMA RejectInv == ASSUME Inv, NEW c \in Calls, NEW l \in Labels, Reject(c, l) PROVE Inv'
  <1> USE CallsAssumption DEF Inv
  <1>1. /\ att[c][l] \in {"flying", "stopped", "beaten"}
        /\ att' = [att EXCEPT ![c][l] = IF @ = "beaten" THEN "gone" ELSE "bad"]
        /\ at' = [at EXCEPT ![c] = IF @ = "solo" THEN "catch" ELSE @]
        /\ UNCHANGED <<next, timer, told, result, skipped>>
    BY DEF Reject
  <1>2. /\ fails' \in [Labels -> 0..Threshold] /\ tripped' \in [Labels -> BOOLEAN]
        /\ blame' \in [Calls -> [Labels -> 0..2]]
        /\ \A d \in Calls : d # c => blame'[d] = blame[d]
        /\ \A k \in Labels : k # l \/ ~Charged(c, l) => blame'[c][k] = blame[c][k]
    <2>1. CASE Charged(c, l)
      <3>1. RecordFailure(c, l) \/ CountFailure(c, l) \/ NoRecord
        BY <2>1 DEF Reject
      <3>2. CASE NoRecord
        BY <3>2 DEF NoRecord, TypeOK
      <3> QED BY <2>1, <3>1, <3>2, FailureRecorded, FailureCounted
    <2>2. CASE ~Charged(c, l)
      BY <2>2 DEF Reject, NoRecord, TypeOK
    <2> QED BY <2>1, <2>2
  <1>3. limited' \in [Labels -> BOOLEAN] /\ errors' \in 0..MaxErrors
    BY BreaksType DEF Reject, Limits, TypeOK
  <1>4. att' \in [Calls -> [Labels -> Attempts]]
    BY <1>1, AttemptSet DEF TypeOK, Attempts
  <1>5. TypeOK'
    BY <1>1, <1>2, <1>3, <1>4 DEF TypeOK
  <1>6. /\ att'[c][l] = IF att[c][l] = "beaten" THEN "gone" ELSE "bad"
        /\ \A k \in Labels : k # l => att'[c][k] = att[c][k]
        /\ at'[c] = IF at[c] = "solo" THEN "catch" ELSE at[c]
    BY <1>1 DEF TypeOK
  <1>7. at[c] = "solo" => l = next[c]
    BY <1>1 DEF CallInv, Flights, InFlight
  <1>8. Flights(c)'
    BY <1>1, <1>6, <1>7 DEF CallInv, Flights, InFlight
  <1>9. Walk(c)'
    <2>1. \A k \in Labels : Covered(c, k) => Covered(c, k)'
      BY <1>1, <1>6 DEF Covered
    <2>2. \A k \in Labels : att'[c][k] # "none" <=> att[c][k] # "none"
      BY <1>1, <1>6
    <2>3. 1 \in Labels
      BY DEF Labels
    <2>4. Begun(c)' <=> Begun(c)
      BY <2>2, <2>3 DEF Begun, Hedged
    <2>5. at'[c] = "catch" => next'[c] \in Labels /\ att'[c][next'[c]] = "bad"
      BY <1>1, <1>6, <1>7 DEF CallInv, Walk, Flights
    <2>6. at'[c] = "race" => next'[c] = 1 /\ Hedged(c)' /\ att'[c][1] \in {"flying", "stopped", "bad"}
      BY <1>1, <1>6, <2>3 DEF CallInv, Walk, Flights, Hedged
    <2>7. (at'[c] = "check" <=> at[c] = "check") /\ (at'[c] = "done" <=> at[c] = "done")
      BY <1>6
    <2>8. at'[c] = "solo" => next'[c] \in Labels
      BY <1>1, <1>6
    <2> QED BY <1>1, <2>1, <2>2, <2>4, <2>5, <2>6, <2>7, <2>8 DEF CallInv, Walk
  <1>10. HedgeInv(c)'
    BY <1>1, <1>2, <1>6, <1>7, SMTT(90) DEF CallInv, Flights, HedgeInv, Covered, Begun, Hedged, Charged, Labels, TypeOK
  <1>11. ASSUME NEW d \in Calls, d # c PROVE CallInv(d)'
    BY <1>1, <1>2, <1>11, Untouched DEF TypeOK
  <1> QED BY <1>5, <1>8, <1>9, <1>10, <1>11 DEF CallInv

LEMMA CheckBreaksInv == ASSUME Inv, NEW c \in Calls, CheckBreaks(c) PROVE Inv'
  <1> USE CallsAssumption DEF Inv, CheckBreaks
  <1>1. TypeOK'
    BY BreaksType DEF TypeOK
  <1>2. Flights(c)'
    BY DEF CallInv, Flights, InFlight, TypeOK
  <1>3. Walk(c)'
    BY DEF CallInv, Walk, Covered, Begun, Hedged, TypeOK
  <1>4. HedgeInv(c)'
    <2>1. timer[c] = "off" /\ timer'[c] = "off" /\ at'[c] = "done"
      BY DEF CallInv, HedgeInv, TypeOK
    <2>2. (N > 1 => att[c][2] = "bad" \/ blame[c][2] = 0)'
      BY DEF CallInv, HedgeInv
    <2> QED BY <2>1, <2>2 DEF HedgeInv
  <1>5. ASSUME NEW d \in Calls, d # c PROVE CallInv(d)'
    BY <1>5, Untouched DEF TypeOK
  <1> QED BY <1>1, <1>2, <1>3, <1>4, <1>5 DEF CallInv

LEMMA CatchBreaksInv == ASSUME Inv, NEW c \in Calls, CatchBreaks(c) PROVE Inv'
  <1> USE CallsAssumption DEF Inv
  <1>1. at[c] = "catch" /\ next[c] \in Labels /\ att[c][next[c]] = "bad"
    BY DEF CallInv, Walk, CatchBreaks
  <1>2. /\ at' = [at EXCEPT ![c] = "done"] /\ result' = [result EXCEPT ![c] = "broken"]
        /\ UNCHANGED <<next, att, timer, told, skipped>>
    BY DEF CatchBreaks
  <1>3. /\ fails' \in [Labels -> 0..Threshold] /\ tripped' \in [Labels -> BOOLEAN]
        /\ blame' \in [Calls -> [Labels -> 0..2]]
        /\ \A d \in Calls : d # c => blame'[d] = blame[d]
        /\ \A k \in Labels : k # next[c] => blame'[c][k] = blame[c][k]
    <2>1. NoRecord \/ CountFailure(c, next[c]) \/ RecordFailure(c, next[c])
      BY DEF CatchBreaks
    <2>2. CASE NoRecord
      BY <2>2 DEF NoRecord, TypeOK
    <2> QED BY <1>1, <2>1, <2>2, FailureRecorded, FailureCounted
  <1>4. TypeOK'
    <2>1. limited' \in [Labels -> BOOLEAN]
      BY <1>1 DEF CatchBreaks, Limits, TypeOK
    <2>2. errors' \in 0..MaxErrors
      BY BreaksType DEF CatchBreaks
    <2> QED BY <1>2, <1>3, <2>1, <2>2 DEF TypeOK
  <1>5. Flights(c)'
    BY <1>1, <1>2 DEF CallInv, Flights, InFlight, TypeOK
  <1>6. Walk(c)'
    BY <1>1, <1>2 DEF CallInv, Walk, Covered, Begun, Hedged, TypeOK
  <1>7. HedgeInv(c)'
    <2>1. timer[c] = "off" /\ timer'[c] = "off" /\ at'[c] = "done"
      BY <1>1, <1>2 DEF CallInv, HedgeInv, TypeOK
    <2>2. (N > 1 => att[c][2] = "bad" \/ blame[c][2] = 0)'
      <3>1. N > 1 => 2 \in Labels
        BY DEF Labels
      <3>2. N > 1 => att[c][2] = "bad" \/ blame[c][2] = 0
        BY DEF CallInv, HedgeInv
      <3>3. att'[c][2] = att[c][2]
        BY <1>2
      <3>4. 2 \in Labels => att[c][2] = "bad" \/ blame'[c][2] = blame[c][2]
        BY <1>1, <1>3
      <3> QED BY <3>1, <3>2, <3>3, <3>4
    <2> QED BY <2>1, <2>2 DEF HedgeInv
  <1>8. ASSUME NEW d \in Calls, d # c PROVE CallInv(d)'
    BY <1>2, <1>3, <1>8, Untouched DEF TypeOK
  <1> QED BY <1>4, <1>5, <1>6, <1>7, <1>8 DEF CallInv

LEMMA HedgeHangsInv == ASSUME Inv, NEW c \in Calls, HedgeHangs(c) PROVE Inv'
  <1> USE CallsAssumption DEF Inv, HedgeHangs
  <1>1. TypeOK'
    BY BreaksType DEF TypeOK
  <1>2. Flights(c)'
    BY DEF CallInv, Flights, InFlight, TypeOK
  <1>3. Walk(c)'
    BY DEF CallInv, Walk, Covered, Begun, Hedged, TypeOK
  <1>4. HedgeInv(c)'
    BY DEF CallInv, HedgeInv, Covered, Begun, Hedged, TypeOK
  <1>5. ASSUME NEW d \in Calls, d # c PROVE CallInv(d)'
    BY <1>5, Untouched DEF TypeOK
  <1> QED BY <1>1, <1>2, <1>3, <1>4, <1>5 DEF CallInv

LEMMA AnswerBreaksInv == ASSUME Inv, NEW c \in Calls, NEW l \in Labels, AnswerBreaks(c, l) PROVE Inv'
  <1> USE CallsAssumption DEF Inv
  <1>1. /\ at[c] = "solo" /\ att[c][l] \in {"flying", "stopped"}
        /\ att' = [att EXCEPT ![c][l] = "bad"] /\ at' = [at EXCEPT ![c] = "catch"]
        /\ UNCHANGED <<next, timer, told, result, skipped, blame, fails, tripped, limited>>
    BY DEF AnswerBreaks
  <1>2. l = next[c]
    BY <1>1 DEF CallInv, Flights, InFlight
  <1>3. TypeOK'
    <2>1. att' \in [Calls -> [Labels -> Attempts]]
      BY <1>1, AttemptSet DEF TypeOK, Attempts
    <2>2. errors' \in 0..MaxErrors
      BY BreaksType DEF AnswerBreaks
    <2> QED BY <1>1, <2>1, <2>2 DEF TypeOK
  <1>4. /\ att'[c][l] = "bad" /\ at'[c] = "catch"
        /\ \A k \in Labels : k # l => att'[c][k] = att[c][k]
    BY <1>1 DEF TypeOK
  <1>5. Flights(c)'
    BY <1>1, <1>2, <1>4 DEF CallInv, Flights, InFlight
  <1>6. Walk(c)'
    <2>1. 1 \in Labels
      BY DEF Labels
    <2>2. Begun(c)' <=> Begun(c)
      BY <1>1, <1>4, <2>1 DEF Begun, Hedged
    <2>3. \A k \in Labels : (Covered(c, k) => Covered(c, k)') /\ (att'[c][k] # "none" <=> att[c][k] # "none")
      BY <1>1, <1>4 DEF Covered
    <2> QED BY <1>1, <1>2, <1>4, <2>2, <2>3 DEF CallInv, Walk
  <1>7. HedgeInv(c)'
    <2>1. timer[c] = "off" /\ timer'[c] = "off" /\ at'[c] = "catch"
      BY <1>1, <1>4 DEF CallInv, HedgeInv
    <2>2. (N > 1 => att[c][2] = "bad" \/ blame[c][2] = 0)'
      BY <1>1, <1>4 DEF CallInv, HedgeInv, Labels
    <2>3. 1 \in Labels /\ (N > 1 => 2 \in Labels)
      BY DEF Labels
    <2>4. Begun(c)' => Begun(c) /\ 2 \in Labels
      BY <1>1, <1>4, <2>3 DEF Begun, Hedged
    <2>5. Begun(c)' => Covered(c, 2)'
      BY <1>1, <1>4, <2>4 DEF CallInv, HedgeInv, Covered
    <2> QED BY <2>1, <2>2, <2>5 DEF HedgeInv
  <1>8. ASSUME NEW d \in Calls, d # c PROVE CallInv(d)'
    BY <1>1, <1>8, Untouched DEF TypeOK
  <1> QED BY <1>3, <1>5, <1>6, <1>7, <1>8 DEF CallInv

LEMMA ExpireInv == ASSUME Inv, NEW l \in Labels, Expire(l) PROVE Inv'
  <1> USE CallsAssumption DEF Inv, Expire
  <1>1. TypeOK'
    BY DEF TypeOK
  <1>2. ASSUME NEW d \in Calls PROVE CallInv(d)'
    BY <1>2, Untouched DEF TypeOK
  <1> QED BY <1>1, <1>2

-----------------------------------------------------------------------------
LEMMA StepInv == Inv /\ [Next]_vars => Inv'
  <1> SUFFICES ASSUME Inv, [Next]_vars PROVE Inv'
    OBVIOUS
  <1>1. ASSUME NEW c \in Calls, CallStep(c) PROVE Inv'
    BY <1>1, SkipHedgedInv, SkipCoolingInv, LaunchInv, GiveUpInv, CatchInv, TimerFiresInv,
       HedgeGoesInv, RaceLostInv, AnswerInv, RejectInv DEF CallStep
  <1>2. ASSUME NEW c \in Calls, Abort(c) PROVE Inv'
    BY <1>2, AbortInv
  <1>3. ASSUME NEW l \in Labels, Expire(l) PROVE Inv'
    BY <1>3, ExpireInv
  <1>4. ASSUME UNCHANGED vars PROVE Inv'
    <2>1. TypeOK'
      BY <1>4 DEF Inv, TypeOK, vars
    <2>2. ASSUME NEW d \in Calls PROVE CallInv(d)'
      BY <1>4, <2>2, Untouched DEF Inv, vars
    <2> QED BY <2>1, <2>2 DEF Inv
  <1>5. ASSUME NEW c \in Calls, RedisBreaks(c) PROVE Inv'
    BY <1>5, CheckBreaksInv, CatchBreaksInv, HedgeHangsInv, AnswerBreaksInv DEF RedisBreaks
  <1> QED BY <1>1, <1>2, <1>3, <1>4, <1>5 DEF Next

LEMMA Invariant == Spec => []Inv
  BY InitInv, StepInv, PTL DEF Spec

\* The variables hold what the code can put there, however many calls share
\* the breakers (ai/fallback.ts, ai/cooldown.ts).
THEOREM CallsTypeOK == Spec => []TypeOK
  <1>1. Inv => TypeOK
    BY DEF Inv
  <1> QED BY <1>1, Invariant, PTL

\* Unless a failing Redis command breaks it off, a call gives up only over labels
\* it has tried and lost or found cooling down: passing over the label "already
\* tried as hedge" (fallback.ts:66-67) loses no candidate, for chains of any
\* length.
THEOREM CallsTryEverything == Spec => []NothingUntried
  <1>1. Inv => NothingUntried
    BY DEF Inv, CallInv, Walk, Covered, NothingUntried
  <1> QED BY <1>1, Invariant, PTL

\* A hedge aborted because the primary won is never held against its model
\* (fallback.ts:284-288).
THEOREM CallsSpareTheLoser == Spec => []LoserNotBlamed
  <1>1. Inv => LoserNotBlamed
    BY DEF Inv, CallInv, HedgeInv, LoserNotBlamed
  <1> QED BY <1>1, Invariant, PTL

\* When a call returns, what it has started is answered, rejected or aborted
\* (fallback.ts:305-308): whichever step ends the call.
THEOREM CallsLeaveNothingFlying == Spec => NothingLeftFlying
  <1>1. ASSUME Inv, Next, NEW c \in Calls, NEW l \in Labels, at[c] # "done", at'[c] = "done"
        PROVE  att'[c][l] # "flying"
    <2>1. at[c] \in {"check", "catch"} => att[c][l] # "flying"
      BY <1>1 DEF Inv, CallInv, Flights, InFlight
    <2>2. CASE GiveUp(c)
      BY <2>1, <2>2 DEF GiveUp
    <2>3. CASE Catch(c)
      BY <2>1, <2>3 DEF Catch
    <2>4. ASSUME NEW k \in Labels, Answer(c, k) PROVE att'[c][l] # "flying"
      <3>1. att' = [att EXCEPT ![c] = Settled(c, k)]
        BY <1>1, <2>4 DEF Answer
      <3> QED BY <1>1, <3>1 DEF Settled, Inv, TypeOK
    <2>5. ASSUME NEW d \in Calls, d # c, CallStep(d) \/ RedisBreaks(d) \/ Abort(d) PROVE FALSE
      <3>1. at'[c] = at[c]
        BY <1>1, <2>5 DEF CallStep, RedisBreaks, CheckBreaks, CatchBreaks, HedgeHangs,
           AnswerBreaks, Abort, SkipHedged, SkipCooling, Launch, GiveUp, Catch,
           TimerFires, HedgeGoes, RaceLost, Answer, Reject, Inv, TypeOK
      <3> QED BY <1>1, <3>1
    <2>6. ASSUME NEW k \in Labels, Expire(k) PROVE FALSE
      BY <1>1, <2>6 DEF Expire
    <2>7. ASSUME SkipHedged(c) \/ SkipCooling(c) \/ Launch(c) \/ TimerFires(c) \/ HedgeGoes(c)
                 \/ RaceLost(c) \/ Abort(c) \/ HedgeHangs(c)
                 \/ \E k \in Labels : Reject(c, k) \/ AnswerBreaks(c, k)
          PROVE  FALSE
      BY <1>1, <2>7 DEF SkipHedged, SkipCooling, Launch, TimerFires, HedgeGoes, RaceLost, Abort,
         HedgeHangs, AnswerBreaks, Reject, Inv, TypeOK
    <2>8. CASE CheckBreaks(c) \/ CatchBreaks(c)
      BY <2>1, <2>8 DEF CheckBreaks, CatchBreaks
    <2> QED BY <1>1, <2>2, <2>3, <2>4, <2>5, <2>6, <2>7, <2>8 DEF Next, CallStep, RedisBreaks
  <1>2. Inv /\ [Next]_vars =>
          [\A c \in Calls, l \in Labels :
              at[c] # "done" /\ at'[c] = "done" => att'[c][l] # "flying"]_vars
    BY <1>1
  <1> QED BY <1>2, Invariant, PTL DEF Spec, NothingLeftFlying
=============================================================================
