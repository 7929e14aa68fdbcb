----------------------------- MODULE NodeProofs -----------------------------
(***************************************************************************)
(* What a node does around its consensus sessions.                         *)
(*                                                                         *)
(* The epoch transition, for any number of epochs and any terms of office: *)
(* its properties are not inductive, for what a step finds depends on      *)
(* which alarms are set in which state, on what the node took itself for   *)
(* when the transition started, and on what a pending call will find.      *)
(* IInv adds these.                                                        *)
(*                                                                         *)
(* The records of voting power, for any updates.                           *)
(*                                                                         *)
(* The message sink, for any consensus types and number of pushes: it      *)
(* keeps one task outstanding, dispatches every message by its own type,   *)
(* and implements SerialQueue.                                             *)
(***************************************************************************)
EXTENDS EpochTransition, VotingPower, ConsensusMsgSink, FiniteSetTheorems, TLAPS

(* The provers a leaf is tried with, and their time in seconds *)
USE SMTT(30), ZenonT(30)

Connections == {"Transitioning", "WaitingDisconnect", "Current"}

Calls == {"none", "ActivateConsensus", "DeactivateConsensus", "OnUnsleeved", "Overwrite",
          "UpcomingEpochSetUp"}

(* The types of the variables                                              *)
TypeOK ==
    /\ cur_epoch_number \in Nat \ {0}
    /\ transition_state \in {"None", "Connecting", "EpochTransitionStart", "EpochStart"}
    /\ transition_delegate \in {"None", "New", "Persistent", "Retiring"}
    /\ binding_map \in [DOMAIN binding_map -> Connections]
    /\ archiving \in BOOLEAN
    /\ sleeved \in BOOLEAN
    /\ activated \in [Current : BOOLEAN, Next : BOOLEAN]
    /\ schedule \in [start_epoch : Nat, activate : BOOLEAN]
    /\ call \in Calls
    /\ command \in BOOLEAN
    /\ halted \in BOOLEAN

(* The alarm that ends a state is set in that state.                       *)
AlarmsSet ==
    /\ transition_state = "Connecting" => "EpochTransitionStart" \in alarms
    /\ transition_state = "EpochTransitionStart" => "EpochStart" \in alarms
    /\ transition_state = "EpochStart" <=> "EpochTransitionEnd" \in alarms

(* What a node in or out of office is in a transition                      *)
Role ==
    CASE cur_epoch_number \in office /\ next_epoch \in office -> "Persistent"
      [] cur_epoch_number \in office /\ next_epoch \notin office -> "Retiring"
      [] cur_epoch_number \notin office /\ next_epoch \in office -> "New"
      [] OTHER -> "None"

(* What the node takes itself for is what it is; it knows once it is       *)
(* active in either epoch.                                                 *)
RoleKnown ==
    /\ transition_state = "None" => transition_delegate = "None"
    /\ TransitionEventsStarted => transition_delegate \in {"None", Role}
    /\ TransitionEventsStarted /\ call = "none"
          /\ (IsActiveInEpoch("Current") \/ IsActiveInEpoch("Next"))
             => transition_delegate = Role
    /\ transition_state = "EpochStart" /\ transition_delegate \in {"New", "Persistent"}
          => cur_epoch_number \in office
    /\ transition_state = "EpochStart" /\ transition_delegate = "New"
          => cur_epoch_number - 1 \notin DOMAIN binding_map

(* A schedule for the next epoch has been noted.                           *)
ScheduleNoted == schedule.start_epoch = next_epoch => activated.Next = schedule.activate

(* No manager is of an epoch that is neither the current, the next nor one *)
(* that has just ended.                                                    *)
Placed ==
    \A e \in DOMAIN binding_map :
        \/ e = cur_epoch_number /\ binding_map[e] # "WaitingDisconnect"
        \/ e = next_epoch /\ TransitionEventsStarted /\ binding_map[e] # "WaitingDisconnect"
        \/ e = cur_epoch_number - 1 /\ transition_state = "EpochStart"
              /\ binding_map[e] = "WaitingDisconnect"

(* The managers and the archiver are those of an active node...            *)
InStep ==
    /\ cur_epoch_number \in DOMAIN binding_map
          <=> IsActiveInEpoch("Current") /\ InOffice(cur_epoch_number)
    /\ next_epoch \in DOMAIN binding_map
          <=> TransitionEventsStarted /\ IsActiveInEpoch("Next") /\ InOffice(next_epoch)
    /\ archiving <=> IsActiveInEpoch("Current")

(* ...or of one that has none.                                             *)
Bare ==
    /\ DOMAIN binding_map = {}
    /\ transition_delegate = "None"
    /\ ~ archiving

(* What a pending call finds                                               *)
CallsFind ==
    /\ call \in {"none", "OnUnsleeved", "Overwrite"} => InStep
    /\ ~ sleeved => Bare
    /\ call # "none" => sleeved
    /\ call = "ActivateConsensus" =>
          /\ activated.Current
          /\ cur_epoch_number \notin DOMAIN binding_map
          /\ TransitionEventsStarted /\ ~ activated.Next => Bare
          /\ ~ command => transition_state = "None" \/ Bare
    /\ call = "UpcomingEpochSetUp" =>
          /\ ~ activated.Current
          /\ activated.Next
          /\ Bare
    /\ call = "DeactivateConsensus" => ~ activated.Current  /\ ~ activated.Next

(* The inductive invariant; a halted node takes no step.                   *)
IInv ==
    /\ TypeOK
    /\ NeverHalts
    /\ ~ halted => AlarmsSet /\ RoleKnown /\ ScheduleNoted /\ Placed /\ CallsFind


(* Keys are loaded: the node had no managers.                              *)
LEMMA OnSleevedStep ==
    ASSUME IInv, ~ halted, OnSleeved, call = "none", UNCHANGED container, UNCHANGED office
    PROVE  IInv'
<1>1. TypeOK'
  BY ZenonT(30) DEF IInv, TypeOK, Calls, Connections, OnSleeved, OnSleevedCall, container
<1>2. NeverHalts'
  BY Zenon DEF IInv, NeverHalts, OnSleeved, container
<1>3. AlarmsSet'
  BY Zenon DEF IInv, AlarmsSet, OnSleeved, container
<1>4. RoleKnown'
  BY Zenon DEF IInv, RoleKnown, Role, OnSleeved, OnSleevedCall, next_epoch,
         TransitionEventsStarted, IsActiveInEpoch, container
<1>5. ScheduleNoted'
  BY Zenon DEF IInv, ScheduleNoted, OnSleeved, next_epoch, container
<1>6. Placed'
  BY Zenon DEF IInv, Placed, OnSleeved, next_epoch, TransitionEventsStarted, container
<1>7. CallsFind'
  BY Zenon DEF IInv, CallsFind, InStep, Bare, OnSleeved, OnSleevedCall, IsActiveInEpoch,
         container
<1> QED BY <1>1, <1>2, <1>3, <1>4, <1>5, <1>6, <1>7, Zenon DEF IInv

(* Other keys are stored: nothing has changed yet.                         *)
LEMMA OverwriteStep ==
    ASSUME IInv, ~ halted, Overwrite, call = "none", UNCHANGED container, UNCHANGED office
    PROVE  IInv'
<1>1. TypeOK'
  BY ZenonT(30) DEF IInv, TypeOK, Calls, Connections, Overwrite, container
<1>2. NeverHalts'
  BY Zenon DEF IInv, NeverHalts, Overwrite, container
<1>3. AlarmsSet'
  BY Zenon DEF IInv, AlarmsSet, Overwrite, container
<1>4. RoleKnown'
  BY Zenon DEF IInv, RoleKnown, Role, Overwrite, next_epoch, TransitionEventsStarted, container
<1>5. ScheduleNoted'
  BY Zenon DEF IInv, ScheduleNoted, Overwrite, next_epoch, container
<1>6. Placed'
  BY Zenon DEF IInv, Placed, Overwrite, next_epoch, TransitionEventsStarted, container
<1>7. CallsFind'
  BY Zenon DEF IInv, CallsFind, InStep, Overwrite, next_epoch, TransitionEventsStarted,
         IsActiveInEpoch, InOffice, container
<1> QED BY <1>1, <1>2, <1>3, <1>4, <1>5, <1>6, <1>7 DEF IInv

(* Keys are to be removed: nothing has changed yet.                        *)
LEMMA OnUnsleevedStep ==
    ASSUME IInv, ~ halted, OnUnsleeved, call = "none", UNCHANGED container, UNCHANGED office
    PROVE  IInv'
<1>1. TypeOK'
  BY ZenonT(30) DEF IInv, TypeOK, Calls, Connections, OnUnsleeved, container
<1>2. NeverHalts'
  BY Zenon DEF IInv, NeverHalts, OnUnsleeved, container
<1>3. AlarmsSet'
  BY Zenon DEF IInv, AlarmsSet, OnUnsleeved, container
<1>4. RoleKnown'
  BY Zenon DEF IInv, RoleKnown, Role, OnUnsleeved, next_epoch, TransitionEventsStarted, container
<1>5. ScheduleNoted'
  BY Zenon DEF IInv, ScheduleNoted, OnUnsleeved, next_epoch, container
<1>6. Placed'
  BY Zenon DEF IInv, Placed, OnUnsleeved, next_epoch, TransitionEventsStarted, container
<1>7. CallsFind'
  BY Zenon DEF IInv, CallsFind, InStep, OnUnsleeved, next_epoch, TransitionEventsStarted,
         IsActiveInEpoch, InOffice, container
<1> QED BY <1>1, <1>2, <1>3, <1>4, <1>5, <1>6, <1>7 DEF IInv

(* The operator activates or deactivates the node at once.                 *)
LEMMA ChangeActivationStep ==
    ASSUME IInv, ~ halted, NEW activate \in BOOLEAN, ChangeActivation(activate),
           call = "none", UNCHANGED container, UNCHANGED office
    PROVE  IInv'
<1>1. TypeOK'
  BY Zenon DEF IInv, TypeOK, Calls, Connections, ChangeActivation, container
<1>2. NeverHalts'
  BY Zenon DEF IInv, NeverHalts, ChangeActivation, container
<1>3. AlarmsSet'
  BY Zenon DEF IInv, AlarmsSet, ChangeActivation, container
<1>4. RoleKnown'
  BY Zenon DEF IInv, RoleKnown, Role, ChangeActivation, next_epoch, TransitionEventsStarted,
         IsActiveInEpoch, container
<1>5. ScheduleNoted'
  BY DEF IInv, ScheduleNoted, TypeOK, ChangeActivation, next_epoch, container
<1>6. Placed'
  BY Zenon DEF IInv, Placed, ChangeActivation, next_epoch, TransitionEventsStarted, container
<1>7. CallsFind'
  BY Zenon DEF IInv, CallsFind, InStep, Bare, ChangeActivation, IsActiveInEpoch, container
<1> QED BY <1>1, <1>2, <1>3, <1>4, <1>5, <1>6, <1>7, Zenon DEF IInv

(* A change is scheduled, of the next epoch only before its transition.    *)
LEMMA ScheduleActivationStep ==
    ASSUME IInv, ~ halted, NEW activate \in BOOLEAN, NEW epoch \in Epochs,
           ScheduleActivation(activate, epoch), call = "none", UNCHANGED container, UNCHANGED office
    PROVE  IInv'
<1>1. TypeOK'
  BY DEF IInv, TypeOK, ScheduleActivation, Epochs, container
<1>2. NeverHalts'
  BY Zenon DEF IInv, NeverHalts, ScheduleActivation, container
<1>3. AlarmsSet'
  BY Zenon DEF IInv, AlarmsSet, ScheduleActivation, container
<1>4. RoleKnown'
  BY Zenon DEF IInv, RoleKnown, Role, ScheduleActivation, next_epoch, TransitionEventsStarted,
         IsActiveInEpoch, container
<1>5. ScheduleNoted'
  BY DEF IInv, ScheduleNoted, ScheduleActivation, next_epoch, container
<1>6. Placed'
  BY Zenon DEF IInv, Placed, ScheduleActivation, next_epoch, TransitionEventsStarted, container
<1>7. CallsFind'
  BY DEF IInv, CallsFind, InStep, Bare, ScheduleActivation, next_epoch,
         TransitionEventsStarted, IsActiveInEpoch, InOffice, container
<1> QED BY <1>1, <1>2, <1>3, <1>4, <1>5, <1>6, <1>7, Zenon DEF IInv

(* A schedule is dropped.                                                  *)
LEMMA CancelStep ==
    ASSUME IInv, ~ halted, CancelActivationScheduling, call = "none",
           UNCHANGED container, UNCHANGED office
    PROVE  IInv'
<1>1. TypeOK'
  BY ZenonT(30) DEF IInv, TypeOK, CancelActivationScheduling, container
<1>2. NeverHalts'
  BY Zenon DEF IInv, NeverHalts, CancelActivationScheduling, container
<1>3. AlarmsSet'
  BY Zenon DEF IInv, AlarmsSet, CancelActivationScheduling, container
<1>4. RoleKnown'
  BY Zenon DEF IInv, RoleKnown, Role, CancelActivationScheduling, next_epoch,
         TransitionEventsStarted, IsActiveInEpoch, container
<1>5. ScheduleNoted'
  BY DEF IInv, ScheduleNoted, TypeOK, CancelActivationScheduling, next_epoch, container
<1>6. Placed'
  BY Zenon DEF IInv, Placed, CancelActivationScheduling, next_epoch, TransitionEventsStarted,
         container
<1>7. CallsFind'
  BY Zenon DEF IInv, CallsFind, InStep, Bare, CancelActivationScheduling, next_epoch,
         TransitionEventsStarted, IsActiveInEpoch, InOffice, container
<1> QED BY <1>1, <1>2, <1>3, <1>4, <1>5, <1>6, <1>7 DEF IInv

(* The managers of an active node are built.                               *)
LEMMA ActivateStep ==
    ASSUME IInv, ~ halted, ActivateConsensus,
           call' = (IF call = "Overwrite" THEN OnSleevedCall ELSE "none"),
           UNCHANGED <<activated, schedule, command>>, UNCHANGED office
    PROVE  IInv'
<1>1. TypeOK'
  BY ZenonT(30) DEF IInv, TypeOK, Calls, Connections, ActivateConsensus, With, SetTransitionDelegate,
         BuildUpcomingEpochManager
<1>2. NeverHalts'
  BY DEF IInv, NeverHalts, TypeOK, CallsFind, Bare, ActivateConsensus, With,
         BuildUpcomingEpochManager, CanBuild, next_epoch
<1>3. AlarmsSet'
  BY Zenon DEF IInv, AlarmsSet, ActivateConsensus
<1>4. RoleKnown'
  BY DEF IInv, RoleKnown, Role, TypeOK, ActivateConsensus, With, SetTransitionDelegate,
         BuildUpcomingEpochManager, next_epoch, TransitionEventsStarted, IsActiveInEpoch,
         InOffice
<1>5. ScheduleNoted'
  BY Zenon DEF IInv, ScheduleNoted, ActivateConsensus, next_epoch
<1>6. Placed'
  BY ZenonT(30) DEF IInv, Placed, ActivateConsensus, With, BuildUpcomingEpochManager, next_epoch,
         TransitionEventsStarted
<1>7. CallsFind'
  BY DEF IInv, CallsFind, InStep, Bare, TypeOK, RoleKnown, Role, ActivateConsensus, With,
         SetTransitionDelegate, BuildUpcomingEpochManager, next_epoch,
         TransitionEventsStarted, IsActiveInEpoch, InOffice
<1> QED BY <1>1, <1>2, <1>3, <1>4, <1>5, <1>6, <1>7, Zenon DEF IInv

(* All managers go.                                                        *)
LEMMA DeactivateStep ==
    ASSUME IInv, ~ halted, DeactivateConsensus,
           call' = (IF call = "Overwrite" THEN OnSleevedCall ELSE "none"),
           UNCHANGED <<activated, schedule, command>>, UNCHANGED office
    PROVE  IInv'
<1>1. TypeOK'
  <2>1. /\ cur_epoch_number \in Nat \ {0}
        /\ transition_state' \in {"None", "Connecting", "EpochTransitionStart", "EpochStart"}
        /\ sleeved' \in BOOLEAN /\ archiving' \in BOOLEAN /\ halted' \in BOOLEAN
    BY Zenon DEF IInv, TypeOK, DeactivateConsensus
  <2>2. (binding_map \in [DOMAIN binding_map -> Connections])'
    BY DEF DeactivateConsensus
  <2>3. call' \in Calls
    BY Zenon DEF IInv, TypeOK, OnSleevedCall, Calls
  <2> QED BY <2>1, <2>2, <2>3, Zenon DEF IInv, TypeOK, DeactivateConsensus
<1>2. NeverHalts'
  <2> SUFFICES ASSUME NEW e \in DOMAIN binding_map
               PROVE  ~ (e + 1 < cur_epoch_number \/ e > next_epoch)
    BY Zenon DEF NeverHalts, DeactivateConsensus
  <2>1. e \in {cur_epoch_number, next_epoch, cur_epoch_number - 1}
    BY Zenon DEF IInv, Placed
  <2>2. cur_epoch_number \in Nat \ {0}
    BY Zenon DEF IInv, TypeOK
  <2> QED BY <2>1, <2>2 DEF next_epoch
<1>3. AlarmsSet'
  BY Zenon DEF IInv, AlarmsSet, DeactivateConsensus
<1>4. RoleKnown'
  BY Zenon DEF IInv, RoleKnown, CallsFind, DeactivateConsensus, OnSleevedCall, IsActiveInEpoch
<1>5. ScheduleNoted'
  BY Zenon DEF IInv, ScheduleNoted, DeactivateConsensus, next_epoch
<1>6. Placed'
  BY DEF IInv, Placed, DeactivateConsensus
<1>7. CallsFind'
  BY DEF IInv, CallsFind, InStep, Bare, TypeOK, DeactivateConsensus, OnSleevedCall,
         IsActiveInEpoch
<1> QED BY <1>1, <1>2, <1>3, <1>4, <1>5, <1>6, <1>7 DEF IInv

(* The manager of the next epoch is built late.                            *)
LEMMA SetUpStep ==
    ASSUME IInv, ~ halted, UpcomingEpochSetUp,
           call' = (IF call = "Overwrite" THEN OnSleevedCall ELSE "none"),
           UNCHANGED <<activated, schedule, command>>, UNCHANGED office
    PROVE  IInv'
<1>1. TypeOK'
  BY ZenonT(30) DEF IInv, TypeOK, Calls, Connections, UpcomingEpochSetUp, With, SetTransitionDelegate,
         BuildUpcomingEpochManager
<1>2. NeverHalts'
  BY Zenon DEF IInv, NeverHalts, CallsFind, Bare, UpcomingEpochSetUp, BuildUpcomingEpochManager,
         CanBuild
<1>3. AlarmsSet'
  BY Zenon DEF IInv, AlarmsSet, UpcomingEpochSetUp
<1>4. RoleKnown'
  BY Zenon DEF IInv, RoleKnown, Role, UpcomingEpochSetUp, SetTransitionDelegate,
         BuildUpcomingEpochManager, next_epoch, TransitionEventsStarted, IsActiveInEpoch,
         InOffice
<1>5. ScheduleNoted'
  BY Zenon DEF IInv, ScheduleNoted, UpcomingEpochSetUp, next_epoch
<1>6. Placed'
  BY Zenon DEF IInv, Placed, UpcomingEpochSetUp, With, BuildUpcomingEpochManager, next_epoch,
         TransitionEventsStarted
<1>7. CallsFind'
  BY DEF IInv, CallsFind, InStep, Bare, UpcomingEpochSetUp, With, SetTransitionDelegate,
         BuildUpcomingEpochManager, next_epoch, TransitionEventsStarted, IsActiveInEpoch,
         InOffice
<1> QED BY <1>1, <1>2, <1>3, <1>4, <1>5, <1>6, <1>7 DEF IInv

(* A transition starts: the node learns its part in it.                    *)
LEMMA EventsStartStep ==
    ASSUME IInv, ~ halted, EpochTransitionEventsStart, call = "none",
           UNCHANGED <<sleeved, call>>, UNCHANGED office
    PROVE  IInv'
<1>1. TypeOK'
  BY Zenon, Zenon DEF IInv, TypeOK, Calls, Connections, EpochTransitionEventsStart, With,
         SetTransitionDelegate, BuildUpcomingEpochManager
<1>2. NeverHalts'
  BY Zenon DEF IInv, NeverHalts, CallsFind, InStep, AlarmsSet, EpochTransitionEventsStart,
         BuildUpcomingEpochManager, CanBuild, TransitionEventsStarted, IsActiveInEpoch
<1>3. AlarmsSet'
  BY Zenon DEF IInv, AlarmsSet, EpochTransitionEventsStart
<1>4. RoleKnown'
  BY Zenon DEF IInv, RoleKnown, Role, TypeOK, CallsFind, InStep, AlarmsSet,
         EpochTransitionEventsStart, SetTransitionDelegate, BuildUpcomingEpochManager,
         next_epoch, IsActiveInEpoch, InOffice
<1>5. ScheduleNoted'
  BY Zenon DEF IInv, ScheduleNoted, EpochTransitionEventsStart, next_epoch
<1>6. Placed'
  BY ZenonT(30) DEF IInv, Placed, AlarmsSet, EpochTransitionEventsStart, With,
         BuildUpcomingEpochManager, next_epoch, TransitionEventsStarted
<1>7. CallsFind'
  BY DEF IInv, CallsFind, InStep, Bare, TypeOK, EpochTransitionEventsStart, With,
         SetTransitionDelegate, BuildUpcomingEpochManager, next_epoch,
         TransitionEventsStarted, IsActiveInEpoch, InOffice
<1> QED BY <1>1, <1>2, <1>3, <1>4, <1>5, <1>6, <1>7, Zenon DEF IInv

(* The second alarm: the manager of the next epoch is there.               *)
LEMMA TransitionStartStep ==
    ASSUME IInv, ~ halted, EpochTransitionStart, call = "none",
           UNCHANGED <<sleeved, call>>, UNCHANGED office
    PROVE  IInv'
<1>1. TypeOK'
  BY ZenonT(30), ZenonT(30) DEF IInv, TypeOK, EpochTransitionStart
<1>2. NeverHalts'
  BY Zenon DEF IInv, NeverHalts, CallsFind, InStep, Bare, RoleKnown, Role, EpochTransitionStart,
         TransitionEventsStarted, InOffice
<1>3. AlarmsSet'
  <2>1. CASE transition_state # "Connecting"
    BY <2>1, Zenon DEF IInv, AlarmsSet, EpochTransitionStart
  <2>2. CASE transition_state = "Connecting"
    <3>1. transition_state' = "EpochTransitionStart" /\ "EpochTransitionEnd" \notin alarms
      BY <2>2, Zenon DEF IInv, AlarmsSet, EpochTransitionStart
    <3>2. alarms' = (alarms \ {"EpochTransitionStart"}) \cup {"EpochStart"}
      BY <2>2, Zenon DEF EpochTransitionStart
    <3> QED BY <3>1, <3>2, Zenon DEF AlarmsSet
  <2> QED BY <2>1, <2>2, Zenon
<1>4. RoleKnown'
  BY Zenon DEF IInv, RoleKnown, Role, EpochTransitionStart, next_epoch, TransitionEventsStarted,
         IsActiveInEpoch
<1>5. ScheduleNoted'
  BY Zenon DEF IInv, ScheduleNoted, EpochTransitionStart, next_epoch
<1>6. Placed'
  BY Zenon DEF IInv, Placed, EpochTransitionStart, next_epoch, TransitionEventsStarted
<1>7. CallsFind'
  BY ZenonT(30) DEF IInv, CallsFind, InStep, Bare, EpochTransitionStart, next_epoch,
         TransitionEventsStarted, IsActiveInEpoch, InOffice
<1> QED BY <1>1, <1>2, <1>3, <1>4, <1>5, <1>6, <1>7 DEF IInv

(* The epoch starts, by the alarm or by a peer: what was next is current.  *)
LEMMA BeginEpochStep ==
    ASSUME IInv, ~ halted, BeginEpoch, "EpochTransitionEnd" \in alarms', call = "none",
           UNCHANGED <<sleeved, call>>, UNCHANGED office
    PROVE  IInv'
<1>1. TypeOK'
  BY DEF IInv, TypeOK, Calls, Connections, BeginEpoch, TransitionDelegate,
         ApplyActivationSchedule, With, next_epoch, IsActiveInEpoch
<1>2. NeverHalts'
  BY Zenon DEF IInv, NeverHalts, CallsFind, InStep, Bare, RoleKnown, Role, ScheduleNoted,
         BeginEpoch, CanTransition, ScheduleApplied, InOffice
<1>3. AlarmsSet'
  BY Zenon DEF IInv, AlarmsSet, BeginEpoch
<1>4. RoleKnown'
  BY DEF IInv, RoleKnown, Role, TypeOK, CallsFind, InStep, BeginEpoch, TransitionDelegate,
         next_epoch, TransitionEventsStarted, InOffice
<1>5. ScheduleNoted'
  BY DEF IInv, ScheduleNoted, BeginEpoch, ApplyActivationSchedule, next_epoch
<1>6. Placed'
  BY DEF IInv, Placed, CallsFind, InStep, Bare, RoleKnown, Role, BeginEpoch,
         TransitionDelegate, With, next_epoch, TransitionEventsStarted, InOffice
<1>7. CallsFind'
  BY DEF IInv, CallsFind, InStep, Bare, TypeOK, Placed, BeginEpoch, TransitionDelegate,
         ApplyActivationSchedule, With, next_epoch, TransitionEventsStarted,
         IsActiveInEpoch, InOffice
<1> QED BY <1>1, <1>2, <1>3, <1>4, <1>5, <1>6, <1>7, Zenon DEF IInv

(* The transition ends, perhaps before a pending call.                     *)
LEMMA TransitionEndStep ==
    ASSUME IInv, ~ halted, EpochTransitionEnd, UNCHANGED <<sleeved, call>>, UNCHANGED office
    PROVE  IInv'
<1>1. TypeOK'
  BY Zenon DEF IInv, TypeOK, Calls, Connections, EpochTransitionEnd, With, Without
<1>2. NeverHalts'
  BY Zenon DEF IInv, NeverHalts, TypeOK, CallsFind, InStep, Bare, RoleKnown, AlarmsSet, Calls,
         Connections, EpochTransitionEnd, IsActiveInEpoch, InOffice
<1>3. AlarmsSet'
  BY Zenon DEF IInv, AlarmsSet, EpochTransitionEnd
<1>4. RoleKnown'
  BY Zenon DEF IInv, RoleKnown, EpochTransitionEnd, TransitionEventsStarted
<1>5. ScheduleNoted'
  BY Zenon DEF IInv, ScheduleNoted, EpochTransitionEnd, next_epoch
<1>6. Placed'
  BY Zenon DEF IInv, Placed, AlarmsSet, EpochTransitionEnd, With, Without,
         TransitionEventsStarted
<1>7. ~ halted' => CallsFind'
  <2> SUFFICES ASSUME ~ halted' PROVE CallsFind'
    BY Zenon
  <2>1. /\ cur_epoch_number \in Nat \ {0}
        /\ transition_state = "EpochStart"
        /\ transition_state' = "None"
    BY Zenon DEF IInv, TypeOK, AlarmsSet, EpochTransitionEnd
  <2>2. next_epoch \notin DOMAIN binding_map
    BY <2>1 DEF IInv, Placed, next_epoch, TransitionEventsStarted
  <2>3. DOMAIN binding_map' = DOMAIN binding_map \ {cur_epoch_number - 1}
    BY <2>1 DEF EpochTransitionEnd, With, Without, IInv
  <2>4. Bare => Bare'
    BY <2>3, Zenon DEF Bare, EpochTransitionEnd
  <2>5. InStep => InStep'
    BY <2>1, <2>2, <2>3 DEF InStep, EpochTransitionEnd, next_epoch, TransitionEventsStarted,
         IsActiveInEpoch, InOffice
  <2>6. cur_epoch_number \notin DOMAIN binding_map => cur_epoch_number' \notin DOMAIN binding_map'
    BY <2>3, Zenon DEF EpochTransitionEnd
  <2> QED BY <2>1, <2>4, <2>5, <2>6, Zenon DEF IInv, CallsFind, EpochTransitionEnd,
            TransitionEventsStarted
<1> QED BY <1>1, <1>2, <1>3, <1>4, <1>5, <1>6, <1>7, Zenon DEF IInv

(* The alarm of EpochStart goes off after a peer's message has begun the   *)
(* epoch.                                                                  *)
LEMMA LateAlarmStep ==
    ASSUME IInv, ~ halted, ~ TransitionEventsStarted, alarms' = alarms \ {"EpochStart"},
           UNCHANGED <<cur_epoch_number, transition_state, transition_delegate, binding_map,
                       archiving, halted, activated, schedule, command>>,
           UNCHANGED <<sleeved, call>>, UNCHANGED office
    PROVE  IInv'
<1>1. TypeOK' /\ NeverHalts'
  BY DEF IInv, TypeOK, NeverHalts
<1>2. AlarmsSet'
  BY Zenon DEF IInv, AlarmsSet, TransitionEventsStarted
<1>3. RoleKnown'
  BY Zenon DEF IInv, RoleKnown, Role, next_epoch, TransitionEventsStarted, IsActiveInEpoch
<1>4. ScheduleNoted' /\ Placed'
  BY Zenon DEF IInv, ScheduleNoted, Placed, next_epoch, TransitionEventsStarted
<1>5. CallsFind'
  BY Zenon DEF IInv, CallsFind, InStep, Bare, next_epoch, TransitionEventsStarted, IsActiveInEpoch,
         InOffice
<1> QED BY <1>1, <1>2, <1>3, <1>4, <1>5, Zenon DEF IInv

LEMMA Stutter ==
    ASSUME IInv, UNCHANGED vars
    PROVE  IInv'
<1> USE DEF vars, activation, container
<1>1. TypeOK' /\ NeverHalts'
  BY DEF IInv, TypeOK, NeverHalts
<1>2. ~ halted' => AlarmsSet' /\ ScheduleNoted' /\ Placed'
  BY Zenon DEF IInv, AlarmsSet, ScheduleNoted, Placed, next_epoch, TransitionEventsStarted
<1>3. ~ halted' => RoleKnown'
  BY Zenon DEF IInv, RoleKnown, Role, next_epoch, TransitionEventsStarted, IsActiveInEpoch
<1>4. ~ halted' => CallsFind'
  BY Zenon DEF IInv, CallsFind, InStep, Bare, next_epoch, TransitionEventsStarted, IsActiveInEpoch,
         InOffice
<1> QED BY <1>1, <1>2, <1>3, <1>4, Zenon DEF IInv

LEMMA InitIInv == Init => IInv
<1> SUFFICES ASSUME Init PROVE IInv
  BY Zenon
<1> USE EpochAssumption DEF Init
<1>1. DOMAIN binding_map = {}
  OBVIOUS
<1>2. TypeOK /\ NeverHalts
  <2>1. binding_map \in [DOMAIN binding_map -> Connections]
    BY <1>1
  <2>2. activated \in [Current : BOOLEAN, Next : BOOLEAN]
    BY Zenon
  <2>3. schedule \in [start_epoch : Nat, activate : BOOLEAN]
    BY Zenon
  <2> QED BY <2>1, <2>2, <2>3, Zenon DEF TypeOK, Calls, NeverHalts
<1>3. AlarmsSet /\ RoleKnown /\ ScheduleNoted /\ Placed
  BY <1>1, Zenon DEF AlarmsSet, RoleKnown, ScheduleNoted, Placed, next_epoch, TransitionEventsStarted
<1>4. CallsFind
  BY <1>1, Zenon DEF CallsFind, InStep, Bare, IsActiveInEpoch, TransitionEventsStarted
<1> QED BY <1>2, <1>3, <1>4, Zenon DEF IInv

LEMMA NextIInv == IInv /\ [Next]_vars => IInv'
<1> SUFFICES ASSUME IInv, Next PROVE IInv'
  BY Stutter, Zenon
<1>1. ~ halted /\ UNCHANGED office
  BY Zenon DEF Next
<1>2. CASE Command
  <2>1. call = "none" /\ UNCHANGED container
    BY <1>2, Zenon DEF Command
  <2>2. CASE OnSleeved
    BY <1>1, <2>1, <2>2, OnSleevedStep, Zenon
  <2>3. CASE Overwrite
    BY <1>1, <2>1, <2>3, OverwriteStep, Zenon
  <2>4. CASE OnUnsleeved
    BY <1>1, <2>1, <2>4, OnUnsleevedStep
  <2>5. CASE \E activate \in BOOLEAN : ChangeActivation(activate)
    BY <1>1, <2>1, <2>5, ChangeActivationStep, Zenon
  <2>6. CASE \E activate \in BOOLEAN, epoch \in Epochs : ScheduleActivation(activate, epoch)
    BY <1>1, <2>1, <2>6, ScheduleActivationStep, Zenon
  <2>7. CASE CancelActivationScheduling
    BY <1>1, <2>1, <2>7, CancelStep
  <2> QED BY <1>2, <2>2, <2>3, <2>4, <2>5, <2>6, <2>7, Zenon DEF Command
<1>3. CASE Call
  <2>1. /\ call' = (IF call = "Overwrite" THEN OnSleevedCall ELSE "none")
        /\ UNCHANGED <<activated, schedule, command>>
    BY <1>3, Zenon DEF Call
  <2>2. CASE ActivateConsensus
    BY <1>1, <2>1, <2>2, ActivateStep, Zenon
  <2>3. CASE DeactivateConsensus
    BY <1>1, <2>1, <2>3, DeactivateStep, Zenon
  <2>4. CASE UpcomingEpochSetUp
    BY <1>1, <2>1, <2>4, SetUpStep
  <2> QED BY <1>3, <2>2, <2>3, <2>4, Zenon DEF Call
<1>4. CASE Transition
  <2>1. UNCHANGED <<sleeved, call>>
    BY <1>4, Zenon DEF Transition
  <2>2. CASE call = "none" /\ EpochTransitionEventsStart
    BY <1>1, <2>1, <2>2, EventsStartStep, Zenon
  <2>3. CASE call = "none" /\ EpochTransitionStart
    BY <1>1, <2>1, <2>3, TransitionStartStep, Zenon
  <2>4. CASE call = "none" /\ EpochStart
    <3>1. CASE BeginEpoch /\ alarms' = (alarms \ {"EpochStart"}) \cup {"EpochTransitionEnd"}
      BY <1>1, <2>1, <2>4, <3>1, BeginEpochStep, Zenon
    <3>2. CASE /\ ~ TransitionEventsStarted
               /\ alarms' = alarms \ {"EpochStart"}
               /\ UNCHANGED <<cur_epoch_number, transition_state, transition_delegate, binding_map,
                              archiving, halted, activated, schedule, command>>
      BY <1>1, <2>1, <3>2, LateAlarmStep, Zenon
    <3> QED BY <2>4, <3>1, <3>2, Zenon DEF EpochStart
  <2>5. CASE call = "none" /\ OnPostCommit
    BY <1>1, <2>1, <2>5, BeginEpochStep, Zenon DEF OnPostCommit
  <2>6. CASE call = "none" /\ OnPrePrepareRejected
    BY <1>1, <2>1, <2>6, BeginEpochStep, Zenon DEF OnPrePrepareRejected
  <2>7. CASE EpochTransitionEnd
    BY <1>1, <2>1, <2>7, TransitionEndStep, Zenon
  <2> QED BY <1>4, <2>2, <2>3, <2>4, <2>5, <2>6, <2>7, Zenon DEF Transition
<1> QED BY <1>2, <1>3, <1>4, Zenon DEF Next

LEMMA Invariance == Spec => []IInv
<1>1. Init => IInv
  BY InitIInv, Zenon
<1>2. IInv /\ [Next]_vars => IInv'
  BY NextIInv, Zenon
<1> QED BY <1>1, <1>2, PTL DEF Spec

(* No CheckEpochNull and no assertion stops the node, for any number of    *)
(* epochs and any terms of office, unless it was activated by hand during  *)
(* a transition.                                                           *)
THEOREM NeverHaltsTheorem == Spec => []NeverHalts
<1>1. IInv => NeverHalts
  BY Zenon DEF IInv
<1> QED BY <1>1, Invariance, PTL

(* The node has the managers that its keys, its activation and its terms   *)
(* of office call for, before, during and after every transition.          *)
THEOREM ManagersMatchTheorem == Spec => []ManagersMatch
<1>1. IInv => ManagersMatch
  BY Zenon DEF IInv, ManagersMatch, CallsFind, InStep, Placed
<1> QED BY <1>1, Invariance, PTL

(* The archiver runs exactly while the node is active.                     *)
THEOREM ArchiverFollowsTheorem == Spec => []ArchiverFollows
<1>1. IInv => ArchiverFollows
  BY Zenon DEF IInv, ArchiverFollows, CallsFind, InStep
<1> QED BY <1>1, Invariance, PTL

-----------------------------------------------------------------------------
(* Voting power.  Why two snapshots are enough: a record stands for the    *)
(* power of its epoch and of every later epoch, and updates of its epoch,  *)
(* of the epoch before it or of any later one keep it so.  Hence the order *)
(* in which nodes apply the requests of two neighbouring epochs does not   *)
(* matter.                                                                 *)

Snapshot == [Kinds -> Int]

Info == [current : Snapshot, next : Snapshot, epoch_modified : Nat]

\* The record tells the power of its epoch and of all epochs after it, where
\* powers[x] is the power of the representative in epoch x.
Represents(info, powers) ==
    /\ info.current = powers[info.epoch_modified]
    /\ \A x \in Nat : x > info.epoch_modified => powers[x] = info.next

Change(s, kind, delta) == [s EXCEPT ![kind] = @ + delta]

\* What an update of an epoch means: it takes effect in the epoch after it.
Update(powers, kind, delta, epoch) ==
    [x \in Nat |-> IF x > epoch THEN Change(powers[x], kind, delta) ELSE powers[x]]

LEMMA TransitionedType ==
    ASSUME NEW info \in Info, NEW epoch \in Nat
    PROVE  Transitioned(info, epoch) \in Info
BY Zenon DEF Transitioned, Info

\* TransitionIfNecessary loses nothing that later epochs need: the record that
\* has been moved on to an epoch stands for the same powers from there on.
LEMMA TransitionedRepresents ==
    ASSUME NEW info \in Info, NEW epoch \in Nat, NEW powers \in [Nat -> Snapshot],
           Represents(info, powers)
    PROVE  Represents(Transitioned(info, epoch), powers)
<1>1. CASE epoch > info.epoch_modified
  <2>1. Transitioned(info, epoch) = [current |-> info.next, next |-> info.next, epoch_modified |-> epoch]
    BY <1>1, Zenon DEF Transitioned
  <2>2. \A x \in Nat : x >= epoch => powers[x] = info.next
    BY <1>1 DEF Represents, Info
  <2> QED  BY <2>1, <2>2 DEF Represents
<1>2. CASE ~ (epoch > info.epoch_modified)
  BY <1>2, Zenon DEF Transitioned
<1> QED  BY <1>1, <1>2, Zenon

\* The record after Modify, written out for a record t that has been moved on.
Written(t, kind, delta, epoch) ==
    [current |-> IF epoch < t.epoch_modified THEN Change(t.current, kind, delta) ELSE t.current,
     next |-> Change(t.next, kind, delta),
     epoch_modified |-> t.epoch_modified]

LEMMA ModifiedIs ==
    ASSUME NEW info \in Info, NEW kind \in Kinds, NEW delta \in Int, NEW epoch \in Nat
    PROVE  Modified(info, kind, delta, epoch) = Written(Transitioned(info, epoch), kind, delta, epoch)
<1> DEFINE t == Transitioned(info, epoch)
<1>1. t \in Info
  BY TransitionedType, Zenon
<1>2. [t.current EXCEPT ![kind] = t.current[kind]] = t.current
  BY <1>1, Zenon DEF Info, Snapshot
<1>3. Modified(info, kind, delta, epoch) =
          [t EXCEPT !.next[kind] = @ + delta,
                    !.current[kind] = IF epoch < t.epoch_modified THEN @ + delta ELSE @]
  BY Zenon DEF Modified
<1> HIDE DEF t
<1>4. Modified(info, kind, delta, epoch) = Written(t, kind, delta, epoch)
  BY <1>1, <1>2, <1>3, Zenon DEF Info, Snapshot, Change, Written
<1> QED  BY <1>4, Zenon DEF t

\* Modify keeps what the record stands for: an update of its epoch, of a later
\* one, or of the epoch before it that comes late.
THEOREM ModifyKeepsWindow ==
    ASSUME NEW info \in Info, NEW powers \in [Nat -> Snapshot], Represents(info, powers),
           NEW kind \in Kinds, NEW delta \in Int, NEW epoch \in Nat, epoch + 1 >= info.epoch_modified
    PROVE  Represents(Modified(info, kind, delta, epoch), Update(powers, kind, delta, epoch))
<1> DEFINE t == Transitioned(info, epoch)
           m == Modified(info, kind, delta, epoch)
           u == Update(powers, kind, delta, epoch)
<1>1. t \in Info /\ t.epoch_modified \in Nat /\ epoch <= t.epoch_modified /\ t.epoch_modified <= epoch + 1
  <2>1. t \in Info
    BY TransitionedType, Zenon
  <2>2. info.epoch_modified \in Nat
    BY Zenon DEF Info
  <2>3. t.epoch_modified = IF epoch > info.epoch_modified THEN epoch ELSE info.epoch_modified
    BY Zenon DEF Transitioned
  <2> QED  BY <2>1, <2>2, <2>3
<1>2. Represents(t, powers)
  BY TransitionedRepresents, Zenon
<1>3. m = Written(t, kind, delta, epoch)
  BY ModifiedIs, Zenon
<1> HIDE DEF t, m
<1>4. m.current = u[m.epoch_modified]
  BY <1>1, <1>2, <1>3, Zenon DEF Represents, Update, Written
<1>5. \A x \in Nat : x > m.epoch_modified => u[x] = m.next
  BY <1>1, <1>2, <1>3 DEF Represents, Update, Written
<1> QED  BY <1>4, <1>5, Zenon DEF Represents, m

LEMMA ModifiedType ==
    ASSUME NEW info \in Info, NEW kind \in Kinds, NEW delta \in Int, NEW epoch \in Nat
    PROVE  /\ Modified(info, kind, delta, epoch) \in Info
           /\ Modified(info, kind, delta, epoch).epoch_modified =
                  IF epoch > info.epoch_modified THEN epoch ELSE info.epoch_modified
<1> DEFINE t == Transitioned(info, epoch)
<1>1. t \in Info
  BY TransitionedType
<1>2. t.epoch_modified = IF epoch > info.epoch_modified THEN epoch ELSE info.epoch_modified
  BY Zenon DEF Transitioned
<1>3. Modified(info, kind, delta, epoch) = Written(t, kind, delta, epoch)
  BY ModifiedIs, Zenon
<1> HIDE DEF t
<1> QED  BY <1>1, <1>2, <1>3 DEF Info, Snapshot, Change, Written

LEMMA UpdateType ==
    ASSUME NEW powers \in [Nat -> Snapshot], NEW kind \in Kinds, NEW delta \in Int, NEW epoch \in Nat
    PROVE  Update(powers, kind, delta, epoch) \in [Nat -> Snapshot]
BY DEF Update, Snapshot, Change

LEMMA UpdatesCommute ==
    ASSUME NEW powers \in [Nat -> Snapshot], NEW k1 \in Kinds, NEW k2 \in Kinds,
           NEW d1 \in Int, NEW d2 \in Int, NEW e1 \in Nat, NEW e2 \in Nat
    PROVE  Update(Update(powers, k1, d1, e1), k2, d2, e2) = Update(Update(powers, k2, d2, e2), k1, d1, e1)
<1>1. \A s \in Snapshot : Change(Change(s, k1, d1), k2, d2) = Change(Change(s, k2, d2), k1, d1)
  <2> SUFFICES ASSUME NEW s \in Snapshot
               PROVE  Change(Change(s, k1, d1), k2, d2) = Change(Change(s, k2, d2), k1, d1)
    BY Zenon
  <2>1. \A r \in Snapshot, k \in Kinds, d \in Int :
           Change(r, k, d) = [x \in Kinds |-> IF x = k THEN r[x] + d ELSE r[x]]
    BY Zenon DEF Snapshot, Change
  <2>2. \A r \in Snapshot, k \in Kinds, d \in Int : Change(r, k, d) \in Snapshot
    BY DEF Snapshot, Change
  <2>3. \A x \in Kinds : Change(Change(s, k1, d1), k2, d2)[x] = Change(Change(s, k2, d2), k1, d1)[x]
    <3> TAKE x \in Kinds
    <3>1. s[x] \in Int
      BY Zenon DEF Snapshot
    <3>2. \A k \in Kinds, d \in Int : Change(s, k, d)[x] = IF x = k THEN s[x] + d ELSE s[x]
      BY <2>1
    <3>3. \A k, l \in Kinds, d, f \in Int :
             Change(Change(s, k, d), l, f)[x] =
                 IF x = l THEN Change(s, k, d)[x] + f ELSE Change(s, k, d)[x]
      <4> TAKE k, l \in Kinds, d, f \in Int
      <4>1. Change(s, k, d) \in Snapshot
        BY <2>2, Zenon
      <4>2. Change(Change(s, k, d), l, f) =
               [y \in Kinds |-> IF y = l THEN Change(s, k, d)[y] + f ELSE Change(s, k, d)[y]]
        BY <2>1, <4>1, ZenonT(30)
      <4> QED  BY <4>2, Zenon
    <3> QED  BY <3>1, <3>2, <3>3
  <2>4. Change(Change(s, k1, d1), k2, d2) \in Snapshot /\ Change(Change(s, k2, d2), k1, d1) \in Snapshot
    BY <2>2, Zenon
  <2>5. \A r, q \in Snapshot : (\A x \in Kinds : r[x] = q[x]) => r = q
    BY DEF Snapshot
  <2> QED  BY <2>3, <2>4, <2>5, Zenon
<1>2. \A x \in Nat : powers[x] \in Snapshot
  BY Zenon
<1> QED  BY <1>1, <1>2, Zenon DEF Update

\* Delegates that apply the requests of an epoch and of the next one in
\* different orders end up with the same record of every representative.
THEOREM LateUpdatesCommute ==
    ASSUME NEW info \in Info, NEW k1 \in Kinds, NEW k2 \in Kinds, NEW d1 \in Int, NEW d2 \in Int,
           NEW e \in Nat, info.epoch_modified <= e
    PROVE  Modified(Modified(info, k1, d1, e), k2, d2, e + 1)
               = Modified(Modified(info, k2, d2, e + 1), k1, d1, e)
<1> DEFINE powers == [x \in Nat |-> IF x = info.epoch_modified THEN info.current ELSE info.next]
           a == Modified(info, k1, d1, e)
           b == Modified(info, k2, d2, e + 1)
           ab == Modified(a, k2, d2, e + 1)
           ba == Modified(b, k1, d1, e)
           after == Update(Update(powers, k1, d1, e), k2, d2, e + 1)
<1>1. powers \in [Nat -> Snapshot] /\ Represents(info, powers) /\ info.epoch_modified \in Nat
  BY DEF Represents, Info
<1>2. /\ a \in Info /\ a.epoch_modified = e
      /\ b \in Info /\ b.epoch_modified = e + 1
  <2>1. a \in Info /\ a.epoch_modified = IF e > info.epoch_modified THEN e ELSE info.epoch_modified
    BY ModifiedType, Zenon
  <2>2. b \in Info /\ b.epoch_modified = IF e + 1 > info.epoch_modified THEN e + 1 ELSE info.epoch_modified
    BY ModifiedType
  <2> QED  BY <1>1, <2>1, <2>2
<1> HIDE DEF powers, a, b
<1>3. /\ ab \in Info /\ ab.epoch_modified = e + 1
      /\ ba \in Info /\ ba.epoch_modified = e + 1
  <2>1. ab \in Info /\ ab.epoch_modified = IF e + 1 > a.epoch_modified THEN e + 1 ELSE a.epoch_modified
    BY <1>2, ModifiedType
  <2>2. ba \in Info /\ ba.epoch_modified = IF e > b.epoch_modified THEN e ELSE b.epoch_modified
    BY <1>2, ModifiedType
  <2> QED  BY <1>2, <2>1, <2>2
<1>4. Represents(ab, after)
  <2>1. Represents(a, Update(powers, k1, d1, e))
    BY <1>1, ModifyKeepsWindow DEF a
  <2>2. Update(powers, k1, d1, e) \in [Nat -> Snapshot]
    BY <1>1, UpdateType, Zenon
  <2> QED  BY <1>2, <2>1, <2>2, ModifyKeepsWindow
<1>5. Represents(ba, after)
  <2>1. Represents(b, Update(powers, k2, d2, e + 1))
    BY <1>1, ModifyKeepsWindow DEF b
  <2>2. Update(powers, k2, d2, e + 1) \in [Nat -> Snapshot]
    BY <1>1, UpdateType
  <2>3. Represents(ba, Update(Update(powers, k2, d2, e + 1), k1, d1, e))
    BY <1>2, <2>1, <2>2, ModifyKeepsWindow
  <2> QED  BY <1>1, <2>3, UpdatesCommute
<1> HIDE DEF ab, ba, after
<1>6. ab.current = ba.current /\ ab.next = ba.next
  <2>1. after[e + 2] = ab.next /\ after[e + 2] = ba.next
    BY <1>3, <1>4, <1>5 DEF Represents
  <2> QED  BY <1>3, <1>4, <1>5, <2>1, Zenon DEF Represents
<1>7. ab = ba
  BY <1>3, <1>6 DEF Info
<1> QED  BY <1>7, Zenon DEF ab, ba, a, b

-----------------------------------------------------------------------------
(* The message sink                                                        *)

(***************************************************************************)
(* The inductive invariant.  OneTaskOutstanding alone is not inductive: it *)
(* counts the tasks, and Pop needs to know that the one task is the one    *)
(* that runs.                                                              *)
(***************************************************************************)
OneBusy == \E t \in Task : \/ posted = {t} /\ running = {}
                           \/ posted = {} /\ running = {t}

Idle == posted = {} /\ running = {} /\ msg_queue = <<>>

OwnTypes == \A t \in posted \cup running : t.ct = t.msg.ct

Flags == consuming \in BOOLEAN /\ alive \in BOOLEAN

Types ==
    /\ pushes \in Nat
    /\ pushes <= MaxPushes
    /\ msg_queue \in Seq(Message)
    /\ posted \in SUBSET Task
    /\ running \in SUBSET Task
    /\ direct_connect \in Nat

Shape ==
    /\ ~consuming => Idle
    /\ consuming /\ alive => OneBusy
    /\ ~alive => running = {} /\ (posted = {} \/ OneBusy)
    /\ OwnTypes

SInv == Types /\ Shape

SinkInv == Flags /\ SInv

(* The initial state of the sink satisfies the inductive invariant. *)
LEMMA SinkInvInit == SinkInit => SinkInv
<1>1. SinkInit => Flags
  BY Zenon DEF SinkInit, Flags
<1>2. SinkInit => SInv
  BY SinkAssumption DEF SinkInit, SInv, Types, Shape, Idle, OneBusy, OwnTypes
<1> QED
  BY <1>1, <1>2, Zenon DEF SinkInv

(* _consuming and the liveness of the sink stay Boolean. *)
LEMMA SinkFlags == Flags /\ [SinkNext]_sinkVars => Flags'
  BY Zenon DEF Flags, SinkNext, StartSome, PopSome, Push, PushUnparsable, ResetConnectCount,
         StartTask, Pop, Destroy, sinkVars

(* Every operation of the sink preserves the inductive invariant. *)
LEMMA SinkInvNext == SInv /\ [SinkNext]_sinkVars => SInv'
<1> SUFFICES ASSUME SInv, [SinkNext]_sinkVars PROVE SInv'
  BY Zenon
<1> USE SinkAssumption
<1>1. ASSUME NEW ct \in ConsensusTypes, NEW direct \in BOOLEAN, Push(ct, direct)
      PROVE  SInv'
  <2> DEFINE m == [n |-> pushes + 1, ct |-> ct]
             t == [msg |-> m, ct |-> ct]
  <2>1. m \in Message /\ t \in Task
    BY <1>1 DEF Push, SInv, Types, Shape, Message, Task
  <2>2. CASE consuming
    BY <1>1, <2>1, <2>2 DEF Push, Count, SInv, Types, Shape, Idle, OneBusy, OwnTypes
  <2>3. CASE ~consuming
    <3>1. posted' = {t} /\ consuming' /\ running' = {} /\ msg_queue' = <<>>
      BY <1>1, <2>3, Zenon DEF Push, Post, SInv, Shape, Idle
    <3> QED
      BY <1>1, <2>1, <2>3, <3>1 DEF Push, Count, SInv, Types, Shape, Idle, OneBusy, OwnTypes
  <2> QED
    BY <2>2, <2>3, Zenon DEF SInv, Types, Shape
<1>2. ASSUME NEW direct \in BOOLEAN, PushUnparsable(direct) PROVE SInv'
  BY <1>2 DEF PushUnparsable, Count, SInv, Types, Shape, Idle, OneBusy, OwnTypes
<1>3. CASE ResetConnectCount
  BY <1>3, Zenon DEF ResetConnectCount, SInv, Types, Shape, Idle, OneBusy, OwnTypes
<1>4. ASSUME NEW t \in posted, StartTask(t) PROVE SInv'
  <2>1. posted = {t} /\ consuming /\ running = {}
    BY <1>4, Zenon DEF StartTask, SInv, Shape, Idle, OneBusy
  <2>2. posted' = {} /\ running' = IF alive THEN {t} ELSE {}
    BY <1>4, <2>1, Zenon DEF StartTask
  <2> QED
    BY <1>4, <2>1, <2>2, Zenon DEF StartTask, SInv, Types, Shape, Idle, OneBusy, OwnTypes
<1>5. ASSUME NEW t \in running, Pop(t) PROVE SInv'
  <2>1. consuming /\ alive /\ running = {t} /\ posted = {}
    BY <1>5, Zenon DEF Pop, SInv, Types, Shape, Idle, OneBusy
  <2>2. CASE msg_queue = <<>>
    BY <1>5, <2>1, <2>2, ZenonT(30) DEF Pop, SInv, Types, Shape, Idle, OneBusy, OwnTypes
  <2>3. CASE msg_queue # <<>>
    <3> DEFINE h == Head(msg_queue)
    <3>1. h \in Message /\ h.ct \in ConsensusTypes /\ Tail(msg_queue) \in Seq(Message)
      <4>1. msg_queue \in Seq(Message)
        BY Zenon DEF SInv, Types
      <4>2. h \in Message /\ Tail(msg_queue) \in Seq(Message)
        BY <2>3, <4>1
      <4> QED BY <4>2, Zenon DEF Message
    <3>2. posted' = {[msg |-> h, ct |-> h.ct]} /\ [msg |-> h, ct |-> h.ct] \in Task
      BY <1>5, <2>1, <2>3, <3>1, Zenon DEF Pop, Post, Task
    <3> QED
      BY <1>5, <2>1, <2>3, <3>1, <3>2 DEF Pop, SInv, Types, Shape, Idle, OneBusy, OwnTypes
  <2> QED
    BY <2>2, <2>3, Zenon
<1>6. CASE Destroy
  BY <1>6, Zenon DEF Destroy, SInv, Types, Shape, Idle, OneBusy, OwnTypes
<1>7. CASE UNCHANGED sinkVars
  BY <1>7, Zenon DEF sinkVars, SInv, Types, Shape, Idle, OneBusy, OwnTypes
<1> QED
  BY <1>1, <1>2, <1>3, <1>4, <1>5, <1>6, <1>7, Zenon DEF SinkNext, StartSome, PopSome

(* The inductive invariant holds in every reachable state of the sink. *)
LEMMA SinkInvariant == SinkSpec => []SinkInv
<1>1. SinkInv /\ [SinkNext]_sinkVars => SinkInv'
  BY SinkFlags, SinkInvNext, Zenon DEF SinkInv
<1> QED
  BY <1>1, SinkInvInit, PTL DEF SinkSpec

(* Push and Pop keep the members of the sink within their types. *)
THEOREM SinkTypeCorrect == SinkSpec => []SinkTypeOK
<1>1. SinkInv => SinkTypeOK
  BY Zenon DEF SinkInv, Flags, SInv, Types, SinkTypeOK
<1> QED
  BY <1>1, SinkInvariant, PTL

(* Push and Pop keep exactly one task outstanding while _consuming is set,
   and clear _consuming only when no message is queued. *)
THEOREM SinkOneTask == SinkSpec => []OneTaskOutstanding
<1>1. SinkInv => OneTaskOutstanding
  <2> SUFFICES ASSUME SinkInv PROVE OneTaskOutstanding
    BY Zenon
  <2>1. Cardinality({}) = 0 /\ \A t \in Task : Cardinality({t}) = 1
    BY FS_EmptySet, FS_Singleton, Zenon
  <2>2. CASE ~consuming
    <3>1. posted = {} /\ running = {} /\ msg_queue = <<>>
      BY <2>2, Zenon DEF SinkInv, SInv, Shape, Idle
    <3>2. Cardinality(posted) = 0 /\ Cardinality(running) = 0
      BY <2>1, <3>1, Zenon
    <3> QED
      BY <2>2, <3>1, <3>2 DEF OneTaskOutstanding
  <2>3. CASE consuming /\ alive
    <3>1. PICK t \in Task : (posted = {t} /\ running = {}) \/ (posted = {} /\ running = {t})
      BY <2>3, Zenon DEF SinkInv, SInv, Shape, OneBusy
    <3>2. \/ Cardinality(posted) = 1 /\ Cardinality(running) = 0
          \/ Cardinality(posted) = 0 /\ Cardinality(running) = 1
      BY <2>1, <3>1, Zenon
    <3> QED
      BY <2>3, <3>2 DEF OneTaskOutstanding
  <2>4. CASE consuming /\ ~alive
    BY <2>4, Zenon DEF OneTaskOutstanding
  <2> QED
    BY <2>2, <2>3, <2>4, Zenon
<1> QED
  BY <1>1, SinkInvariant, PTL

(* The branch of Push that would pair a queued message with the consensus
   type of another one is never taken. *)
THEOREM SinkOwnType == SinkSpec => []DispatchedByOwnType
<1>1. SinkInv => DispatchedByOwnType
  BY Zenon DEF SinkInv, SInv, Shape, OwnTypes, DispatchedByOwnType
<1> QED
  BY <1>1, SinkInvariant, PTL

-----------------------------------------------------------------------------
(* What the CHOOSE of the refinement mapping yields for a single task. *)
LEMMA TheSingle == \A t : The({t}) = t.msg
  BY Zenon DEF The

LEMMA TheTask == ASSUME NEW m, NEW ct PROVE The({[msg |-> m, ct |-> ct]}) = m
<1> DEFINE t == [msg |-> m, ct |-> ct]
<1>1. t.msg = m
  BY Zenon
<1> HIDE DEF t
<1>2. The({t}) = t.msg
  BY TheSingle, Zenon
<1> QED
  BY <1>1, <1>2, Zenon DEF t

(* Appending behind a head, and splitting a head off a sequence. *)
LEMMA ConsAppend == ASSUME NEW S, NEW s \in Seq(S), NEW x, NEW y \in S
                    PROVE  <<x>> \o Append(s, y) = Append(<<x>> \o s, y)
  OBVIOUS

LEMMA ConsHeadTail == ASSUME NEW S, NEW s \in Seq(S), s # <<>>
                      PROVE  <<Head(s)>> \o Tail(s) = s
  OBVIOUS

(* Every operation of the sink is a step of a single-server queue, or leaves
   the abstract state alone. *)
LEMMA SinkStep == SinkInv /\ SinkInv' /\ [SinkNext]_sinkVars => [Contract!Next]_(Contract!vars)
<1> SUFFICES ASSUME SinkInv, SinkInv', [SinkNext]_sinkVars PROVE [Contract!Next]_(Contract!vars)
  BY Zenon
<1> USE SinkAssumption DEF Contract!Next, Contract!vars
<1>1. ASSUME NEW ct \in ConsensusTypes, NEW direct \in BOOLEAN, Push(ct, direct)
      PROVE  Contract!Arrive
  <2> DEFINE m == [n |-> pushes + 1, ct |-> ct]
  <2>1. m \in Message /\ alive /\ alive' = alive /\ Serving' = Serving
    BY <1>1 DEF Push, SinkInv, SInv, Types, Message, Serving
  <2>2. Waiting' = Append(Waiting, m)
    <3>1. CASE ~consuming
      <4>1. posted = {} /\ msg_queue = <<>> /\ Waiting = <<>>
        BY <3>1, Zenon DEF SinkInv, SInv, Shape, Idle, Waiting
      <4>2. posted' = {[msg |-> m, ct |-> ct]} /\ msg_queue' = <<>>
        BY <1>1, <3>1, <4>1, Zenon DEF Push, Post
      <4>3. The({[msg |-> m, ct |-> ct]}) = m
        BY TheTask, Zenon
      <4>4. The(posted)' = m
        BY <4>2, <4>3, Zenon DEF The
      <4>5. Waiting' = <<m>> \o <<>>
        BY <4>2, <4>4, Zenon DEF Waiting
      <4> QED
        BY <2>1, <4>1, <4>5
    <3>2. CASE consuming
      <4>1. posted' = posted /\ msg_queue' = Append(msg_queue, m) /\ msg_queue \in Seq(Message)
        BY <1>1, <3>2, Zenon DEF Push, SinkInv, SInv, Types
      <4>2. <<The(posted)>> \o Append(msg_queue, m) = Append(<<The(posted)>> \o msg_queue, m)
        BY <2>1, <4>1, ConsAppend
      <4>3. The(posted)' = The(posted)
        BY <4>1, Zenon DEF The
      <4> QED
        BY <4>1, <4>2, <4>3, Zenon DEF Waiting
    <3> QED
      BY <3>1, <3>2, Zenon
  <2> QED
    BY <2>1, <2>2, Zenon DEF Contract!Arrive
<1>2. ASSUME NEW t \in posted, StartTask(t)
      PROVE  Contract!Begin \/ Contract!Drop
  <2>1. posted = {t} /\ running = {} /\ posted' = {} /\ t \in Task
    BY <1>2, Zenon DEF StartTask, SinkInv, SInv, Types, Shape, Idle, OneBusy
  <2>2. Waiting = <<t.msg>> \o msg_queue /\ Waiting' = msg_queue /\ msg_queue \in Seq(Message)
    BY <1>2, <2>1, TheSingle, Zenon DEF StartTask, Waiting, SinkInv, SInv, Types
  <2>3. Waiting # <<>> /\ Head(Waiting) = t.msg /\ Tail(Waiting) = msg_queue
    BY <2>1, <2>2 DEF Task
  <2>4. CASE alive
    <3>1. Serving = NoMessage /\ Serving' = t.msg
      BY <1>2, <2>1, <2>4, TheSingle, Zenon DEF StartTask, Serving, The
    <3> QED
      BY <1>2, <2>2, <2>3, <2>4, <3>1, Zenon DEF StartTask, Contract!Begin
  <2>5. CASE ~alive
    <3>1. Serving' = Serving
      BY <1>2, <2>5, Zenon DEF StartTask, Serving
    <3> QED
      BY <1>2, <2>2, <2>3, <2>5, <3>1, Zenon DEF StartTask, Contract!Drop
  <2> QED
    BY <2>4, <2>5, Zenon
<1>3. ASSUME NEW t \in running, Pop(t) PROVE Contract!End
  <2>1. running = {t} /\ posted = {} /\ t \in Task
    BY <1>3, Zenon DEF Pop, SinkInv, SInv, Types, Shape, Idle, OneBusy
  <2>2. Serving # NoMessage /\ Serving' = NoMessage
    BY <1>3, <2>1, TheSingle, Zenon DEF Pop, Serving, Task
  <2>3. Waiting' = Waiting
    <3>1. CASE msg_queue = <<>>
      BY <1>3, <2>1, <3>1, Zenon DEF Pop, Waiting
    <3>2. CASE msg_queue # <<>>
      <4> DEFINE h == Head(msg_queue)
      <4>1. posted' = {[msg |-> h, ct |-> h.ct]} /\ msg_queue' = Tail(msg_queue)
        BY <1>3, <2>1, <3>2, Zenon DEF Pop, Post
      <4>2. The(posted)' = h
        <5>1. The({[msg |-> h, ct |-> h.ct]}) = h
          BY TheTask, Zenon
        <5> QED
          BY <4>1, <5>1, Zenon DEF The
      <4>3. <<h>> \o Tail(msg_queue) = msg_queue
        BY <3>2, ConsHeadTail, Zenon DEF SinkInv, SInv, Types
      <4> QED
        BY <2>1, <4>1, <4>2, <4>3, Zenon DEF Waiting
    <3> QED
      BY <3>1, <3>2, Zenon
  <2> QED
    BY <1>3, <2>2, <2>3, Zenon DEF Pop, Contract!End
<1>4. CASE Destroy
  <2>1. Waiting' = Waiting /\ Serving' = Serving
    BY <1>4 DEF Destroy, Waiting, Serving, The
  <2> QED
    BY <1>4, <2>1, Zenon DEF Destroy, Contract!Close
<1>5. CASE (\E direct \in BOOLEAN : PushUnparsable(direct)) \/ ResetConnectCount \/ UNCHANGED sinkVars
  <2>1. posted' = posted /\ msg_queue' = msg_queue /\ running' = running /\ alive' = alive
    BY <1>5, Zenon DEF PushUnparsable, ResetConnectCount, sinkVars
  <2> QED
    BY <2>1 DEF Waiting, Serving, The
<1> QED
  BY <1>1, <1>2, <1>3, <1>4, <1>5, Zenon DEF SinkNext, StartSome, PopSome

(* The sink implements a queue with a single server: Push, the posted tasks
   and Pop lose, duplicate and reorder nothing and never overlap two calls of
   OnMessage. *)
THEOREM SinkIsSerialQueue == SinkSpec => IsSerialQueue
<1>1. SinkInit => Contract!Init
  BY Zenon DEF SinkInit, Contract!Init, Waiting, Serving
<1> QED
  BY <1>1, SinkInvariant, SinkStep, PTL DEF SinkSpec, IsSerialQueue, Contract!Spec
=============================================================================
