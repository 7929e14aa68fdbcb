-------------------------- MODULE EpochTransition --------------------------
(***************************************************************************)
(* One node's way from an epoch to the next (ConsensusContainer), with the *)
(* commands that sleeve and activate it (DelegateIdentityManager) and the  *)
(* messages of peers that are ahead of it (EpochManager).                  *)
(*                                                                         *)
(* The transition's events hold _mutex and _activation_mutex, taken here   *)
(* in one step.  A command holds _activation_mutex throughout and _mutex   *)
(* only within the container's functions: these are steps of their own, so *)
(* that EpochTransitionEnd, which takes _mutex alone, may come between.    *)
(*                                                                         *)
(* An EpochManager is its connection state.  The delegate's index and the  *)
(* advertisements, which decide nothing here, are left out.  The block     *)
(* that names the delegates of the next epoch is stored before the         *)
(* transition to it starts.                                                *)
(***************************************************************************)
EXTENDS Naturals

CONSTANTS FirstEpoch, LastEpoch     \* the epochs of a behaviour; bounds

ASSUME EpochAssumption == FirstEpoch \in Nat \ {0} /\ LastEpoch \in Nat

Epochs == FirstEpoch .. LastEpoch + 1

VARIABLES
    office,                 \* the epochs in which the node is a delegate, chosen once
    cur_epoch_number,       \* _cur_epoch_number
    transition_state,       \* _transition_state
    transition_delegate,    \* _transition_delegate
    binding_map,            \* _binding_map: the connection state of each EpochManager
    archiving,              \* the archiver's timer is set: _mb_handle is not CANCELLED
    alarms,                 \* the alarms that have been set and not gone off
    sleeved,                \* IsSleeved: the keys are in memory
    activated,              \* _activated
    schedule,               \* _activation_schedule; start_epoch 0: nothing scheduled
    call,                   \* the container's function a command is about to call
    command,                \* history: a command activated the node during the transition
    halted                  \* trace_and_halt was called or an assertion failed

activation == <<sleeved, activated, schedule, call, command>>
container == <<cur_epoch_number, transition_state, transition_delegate, binding_map, archiving,
               alarms, halted>>
vars == <<office, activation, container>>

Init ==
    /\ office \in SUBSET Epochs
    /\ cur_epoch_number = FirstEpoch
    /\ transition_state = "None"
    /\ transition_delegate = "None"
    /\ binding_map = <<>>
    /\ archiving = FALSE
    /\ alarms = {"EpochTransitionEventsStart"}
    /\ sleeved = FALSE
    /\ activated = [Current |-> FALSE, Next |-> FALSE]
    /\ schedule = [start_epoch |-> 0, activate |-> FALSE]
    /\ call = "none"
    /\ command = FALSE
    /\ halted = FALSE

next_epoch == cur_epoch_number + 1

TransitionEventsStarted == transition_state \in {"Connecting", "EpochTransitionStart"}

IsActiveInEpoch(queried) == sleeved /\ activated[queried]

(* IdentifyDelegates                                                       *)
InOffice(epoch) == sleeved /\ epoch \in office

-----------------------------------------------------------------------------
(* Managers *)

With(bindings, epoch, connection) ==
    [e \in DOMAIN bindings \cup {epoch} |-> IF e = epoch THEN connection ELSE bindings[e]]

Without(bindings, epoch) == [e \in DOMAIN bindings \ {epoch} |-> bindings[e]]

SetTransitionDelegate(in_cur_epoch, in_next_epoch) ==
    CASE in_cur_epoch /\ in_next_epoch -> "Persistent"
      [] in_cur_epoch /\ ~ in_next_epoch -> "Retiring"
      [] ~ in_cur_epoch /\ in_next_epoch -> "New"
      [] OTHER -> transition_delegate

(* A New or Persistent delegate has a manager of the next epoch; the       *)
(* assertion is that it has none yet.                                      *)
BuildUpcomingEpochManager(bindings, delegate) ==
    IF delegate \in {"New", "Persistent"}
    THEN With(bindings, next_epoch, "Transitioning")
    ELSE bindings

CanBuild(bindings, delegate) ==
    delegate \in {"New", "Persistent"} => next_epoch \notin DOMAIN bindings

-----------------------------------------------------------------------------
(* What a command calls *)

ActivateConsensus ==
    LET delegate == IF TransitionEventsStarted
                    THEN SetTransitionDelegate(InOffice(cur_epoch_number), InOffice(next_epoch))
                    ELSE transition_delegate
        current == IF InOffice(cur_epoch_number)
                   THEN With(binding_map, cur_epoch_number, "Current")
                   ELSE binding_map
        upcoming == IsActiveInEpoch("Next") /\ TransitionEventsStarted
    IN  /\ call = "ActivateConsensus"
        /\ transition_delegate' = delegate
        /\ binding_map' = IF upcoming THEN BuildUpcomingEpochManager(current, delegate)
                                      ELSE current
        /\ halted' = (upcoming /\ ~ CanBuild(current, delegate))
        /\ archiving' = TRUE
        /\ UNCHANGED <<cur_epoch_number, transition_state, alarms, sleeved>>

(* A command that removes the keys does so right after the call, before    *)
(* it lets go of _activation_mutex.                                        *)
DeactivateConsensus ==
    /\ call \in {"DeactivateConsensus", "OnUnsleeved", "Overwrite"}
    /\ halted' = \E e \in DOMAIN binding_map : e + 1 < cur_epoch_number \/ e > next_epoch
    /\ binding_map' = <<>>
    /\ transition_delegate' = "None"
    /\ archiving' = FALSE
    /\ sleeved' = (sleeved /\ call # "OnUnsleeved")
    /\ UNCHANGED <<cur_epoch_number, transition_state, alarms>>

UpcomingEpochSetUp ==
    LET delegate == SetTransitionDelegate(InOffice(cur_epoch_number), InOffice(next_epoch))
    IN  /\ call = "UpcomingEpochSetUp"
        /\ transition_delegate' = IF TransitionEventsStarted THEN delegate
                                                             ELSE transition_delegate
        /\ binding_map' = IF TransitionEventsStarted
                          THEN BuildUpcomingEpochManager(binding_map, delegate)
                          ELSE binding_map
        /\ halted' = (TransitionEventsStarted /\ ~ CanBuild(binding_map, delegate))
        /\ UNCHANGED <<cur_epoch_number, transition_state, archiving, alarms, sleeved>>

(* What the keys in memory call for                                        *)
OnSleevedCall ==
    CASE activated.Current -> "ActivateConsensus"
      [] ~ activated.Current /\ activated.Next -> "UpcomingEpochSetUp"
      [] OTHER -> "none"

Call ==
    /\ ActivateConsensus \/ DeactivateConsensus \/ UpcomingEpochSetUp
    /\ call' = IF call = "Overwrite" THEN OnSleevedCall ELSE "none"
    /\ UNCHANGED <<activated, schedule, command>>

-----------------------------------------------------------------------------
(* Commands *)

(* UnlockSleeve, when there are keys, and Sleeve                           *)
OnSleeved ==
    /\ ~ sleeved
    /\ sleeved' = TRUE
    /\ call' = OnSleevedCall
    /\ UNCHANGED <<activated, schedule, command>>

(* Sleeve with other keys                                                  *)
Overwrite ==
    /\ sleeved
    /\ call' = "Overwrite"
    /\ UNCHANGED <<sleeved, activated, schedule, command>>

(* LockSleeve, Unsleeve and ResetSleeve                                    *)
OnUnsleeved ==
    /\ sleeved
    /\ call' = "OnUnsleeved"
    /\ UNCHANGED <<sleeved, activated, schedule, command>>

IsSettingChangeScheduled == schedule.start_epoch > cur_epoch_number

(* ChangeActivation with epoch number 0                                    *)
ChangeActivation(activate) ==
    /\ activate # activated.Current
    /\ activated' = [Current |-> activate, Next |-> activate]
    /\ schedule' = [schedule EXCEPT !.start_epoch = 0]
    /\ call' = CASE ~ sleeved -> "none"
                 [] sleeved /\ activate -> "ActivateConsensus"
                 [] OTHER -> "DeactivateConsensus"
    /\ command' = (command \/ (activate /\ transition_state # "None"))
    /\ UNCHANGED sleeved

(* Mutant of ScheduleActivation: the next epoch may be scheduled while the *)
(* transition to it is under way.                                          *)
ScheduleAtAnyTime(activate, epoch) ==
    /\ activate # activated.Current
    /\ ~ IsSettingChangeScheduled
    /\ epoch > cur_epoch_number
    /\ schedule' = [start_epoch |-> epoch, activate |-> activate]
    /\ activated' = IF epoch = next_epoch THEN [activated EXCEPT !.Next = activate]
                                          ELSE activated
    /\ UNCHANGED <<sleeved, call, command>>

(* ChangeActivation with the number of an epoch to come                    *)
ScheduleActivation(activate, epoch) ==
    /\ activate # activated.Current
    /\ ~ IsSettingChangeScheduled
    /\ epoch > cur_epoch_number
    /\ ~ (sleeved /\ TransitionEventsStarted /\ epoch = next_epoch)
    /\ schedule' = [start_epoch |-> epoch, activate |-> activate]
    /\ activated' = IF epoch = next_epoch THEN [activated EXCEPT !.Next = activate]
                                          ELSE activated
    /\ UNCHANGED <<sleeved, call, command>>

CancelActivationScheduling ==
    /\ IsSettingChangeScheduled
    /\ ~ (schedule.start_epoch = next_epoch /\ sleeved /\ TransitionEventsStarted)
    /\ schedule' = [schedule EXCEPT !.start_epoch = 0]
    /\ UNCHANGED <<sleeved, activated, call, command>>

Command ==
    /\ call = "none"
    /\ \/ OnSleeved \/ Overwrite \/ OnUnsleeved
       \/ \E activate \in BOOLEAN : ChangeActivation(activate)
       \/ \E activate \in BOOLEAN, epoch \in Epochs : ScheduleActivation(activate, epoch)
       \/ CancelActivationScheduling
    /\ UNCHANGED container

-----------------------------------------------------------------------------
(* The transition *)

(* The node decides what it is in the transition if it is active in either *)
(* epoch, and builds the manager of the next epoch if it is active then.   *)
(* The next transition's alarm is set at once; it goes off when the rest   *)
(* of the transition is long over.                                         *)
EpochTransitionEventsStart ==
    LET active_next == IsActiveInEpoch("Next")
        concerned == IsActiveInEpoch("Current") \/ active_next
        bound == cur_epoch_number \in DOMAIN binding_map
        in_cur_epoch == bound \/ InOffice(cur_epoch_number)
        delegate == SetTransitionDelegate(in_cur_epoch, InOffice(next_epoch))
    IN  /\ alarms = {"EpochTransitionEventsStart"}
        /\ cur_epoch_number < LastEpoch
        /\ transition_state' = "Connecting"
        /\ transition_delegate' = IF concerned THEN delegate ELSE transition_delegate
        /\ binding_map' = IF active_next THEN BuildUpcomingEpochManager(binding_map, delegate)
                                         ELSE binding_map
        /\ halted' = (concerned /\ \/ bound /\ ~ activated.Current
                                   \/ ~ bound /\ in_cur_epoch /\ activated.Current
                                   \/ active_next /\ ~ CanBuild(binding_map, delegate))
        /\ alarms' = alarms \cup {"EpochTransitionStart"}
        /\ command' = FALSE
        /\ UNCHANGED <<cur_epoch_number, archiving, activated, schedule>>

EpochTransitionStart ==
    /\ "EpochTransitionStart" \in alarms
    /\ IF transition_state # "Connecting"
       THEN /\ alarms' = alarms \ {"EpochTransitionStart"}
            /\ UNCHANGED <<transition_state, halted>>
       ELSE /\ transition_state' = "EpochTransitionStart"
            /\ halted' = (/\ transition_delegate \in {"New", "Persistent"}
                          /\ IsActiveInEpoch("Next")
                          /\ next_epoch \notin DOMAIN binding_map)
            /\ alarms' = (alarms \ {"EpochTransitionStart"}) \cup {"EpochStart"}
    /\ UNCHANGED <<cur_epoch_number, transition_delegate, binding_map, archiving, activated,
                   schedule, command>>

(* A Retiring or Persistent delegate's manager of the epoch that ends      *)
(* waits to be disconnected.                                               *)
TransitionDelegate ==
    IF transition_delegate \in {"Retiring", "Persistent"}
    THEN With(binding_map, cur_epoch_number, "WaitingDisconnect")
    ELSE binding_map

CanTransition ==
    /\ transition_delegate \in {"Retiring", "Persistent"}
          => cur_epoch_number \in DOMAIN binding_map
    /\ transition_delegate = "Persistent" /\ IsActiveInEpoch("Next")
          => next_epoch \in DOMAIN binding_map

(* Called when the epoch number has been advanced                          *)
ApplyActivationSchedule ==
    /\ activated' = [Current |-> activated.Next,
                     Next |-> IF next_epoch + 1 = schedule.start_epoch THEN schedule.activate
                                                                       ELSE activated.Next]
    /\ schedule' = IF next_epoch = schedule.start_epoch
                   THEN [schedule EXCEPT !.start_epoch = 0]
                   ELSE schedule

ScheduleApplied == next_epoch = schedule.start_epoch => activated.Next = schedule.activate

(* Mutant of BeginEpoch: a node that becomes active does not archive.      *)
BeginEpochIdle ==
    /\ TransitionEventsStarted
    /\ transition_state' = "EpochStart"
    /\ binding_map' = IF IsActiveInEpoch("Current") THEN TransitionDelegate ELSE binding_map
    /\ archiving' = (archiving /\ IsActiveInEpoch("Next"))
    /\ cur_epoch_number' = next_epoch
    /\ ApplyActivationSchedule
    /\ halted' = ((IsActiveInEpoch("Current") /\ ~ CanTransition) \/ ~ ScheduleApplied)
    /\ UNCHANGED <<transition_delegate, command>>

(* Mutant of BeginEpoch: the state no longer keeps the gate.               *)
BeginEpochTwice ==
    /\ transition_state # "None"
    /\ cur_epoch_number < LastEpoch
    /\ transition_state' = "EpochStart"
    /\ binding_map' = IF IsActiveInEpoch("Current") THEN TransitionDelegate ELSE binding_map
    /\ archiving' = (IsActiveInEpoch("Next") /\ (archiving \/ ~ IsActiveInEpoch("Current")))
    /\ cur_epoch_number' = next_epoch
    /\ ApplyActivationSchedule
    /\ halted' = ((IsActiveInEpoch("Current") /\ ~ CanTransition) \/ ~ ScheduleApplied)
    /\ UNCHANGED <<transition_delegate, command>>

(* EpochStart, past its gate                                               *)
BeginEpoch ==
    LET active_cur == IsActiveInEpoch("Current")
    IN  /\ TransitionEventsStarted
        /\ transition_state' = "EpochStart"
        /\ binding_map' = IF active_cur THEN TransitionDelegate ELSE binding_map
        /\ archiving' = IF active_cur THEN archiving /\ activated.Next
                                      ELSE archiving \/ IsActiveInEpoch("Next")
        /\ cur_epoch_number' = next_epoch
        /\ ApplyActivationSchedule
        /\ halted' = ((active_cur /\ ~ CanTransition) \/ ~ ScheduleApplied)
        /\ UNCHANGED <<transition_delegate, command>>

(* The alarm's call does nothing when a peer's message came first.         *)
EpochStart ==
    /\ "EpochStart" \in alarms
    /\ \/ /\ BeginEpoch
          /\ alarms' = (alarms \ {"EpochStart"}) \cup {"EpochTransitionEnd"}
       \/ /\ ~ TransitionEventsStarted
          /\ alarms' = alarms \ {"EpochStart"}
          /\ UNCHANGED <<cur_epoch_number, transition_state, transition_delegate, binding_map,
                         archiving, halted, activated, schedule, command>>

(* A Post_Commit in the next epoch's consensus                             *)
OnPostCommit ==
    /\ transition_delegate = "Persistent"
    /\ transition_state = "EpochTransitionStart"
    /\ DOMAIN binding_map # {}
    /\ BeginEpoch
    /\ alarms' = alarms \cup {"EpochTransitionEnd"}

(* Peers in the next epoch have turned down the Pre_Prepare of a manager.  *)
OnPrePrepareRejected ==
    /\ \E e \in DOMAIN binding_map :
          \/ transition_delegate = "Retiring"
          \/ transition_delegate = "Persistent" /\ binding_map[e] = "Current"
    /\ BeginEpoch
    /\ alarms' = alarms \cup {"EpochTransitionEnd"}

(* The transition's end holds _mutex alone.                                *)
EpochTransitionEnd ==
    LET previous == cur_epoch_number - 1
        kept == Without(binding_map, previous)
        in_charge == transition_delegate \in {"New", "Persistent"} /\ IsActiveInEpoch("Current")
    IN  /\ "EpochTransitionEnd" \in alarms
        /\ transition_state' = "None"
        /\ transition_delegate' = "None"
        /\ binding_map' = IF in_charge THEN With(kept, cur_epoch_number, "Current") ELSE kept
        /\ halted' = \/ previous \in DOMAIN binding_map /\ transition_delegate = "New"
                     \/ in_charge /\ cur_epoch_number \notin DOMAIN binding_map
        /\ alarms' = alarms \ {"EpochTransitionEnd"}
        /\ UNCHANGED <<cur_epoch_number, archiving, activated, schedule, command>>

Transition ==
    /\ \/ /\ call = "none"
          /\ EpochTransitionEventsStart \/ EpochTransitionStart \/ EpochStart \/ OnPostCommit
                \/ OnPrePrepareRejected
       \/ EpochTransitionEnd
    /\ UNCHANGED <<sleeved, call>>

Next ==
    /\ ~ halted
    /\ Command \/ Call \/ Transition
    /\ UNCHANGED office

Spec == Init /\ [][Next]_vars

-----------------------------------------------------------------------------
(* Properties *)

(* CheckEpochNull finds the managers it looks for and no assertion fails,  *)
(* whatever the order of commands, alarms and peers' messages, unless the  *)
(* operator activated the node while a transition was under way: then      *)
(* BuildUpcomingEpochManager may find the manager already built, and       *)
(* EpochTransitionEnd may come before ActivateConsensus has built it.      *)
NeverHalts == halted => command

(* Whenever no command is at work the node has a manager of the current    *)
(* epoch if and only if it is active and in office, one of the next epoch  *)
(* if and only if a transition has started and it will be, and one of the  *)
(* epoch before only to be disconnected, until the transition ends: no     *)
(* delegate is left without a manager, none acts for two epochs at once    *)
(* and no manager outlives its epoch.                                      *)
ManagersMatch ==
    call = "none" /\ ~ halted =>
       /\ cur_epoch_number \in DOMAIN binding_map
             <=> IsActiveInEpoch("Current") /\ InOffice(cur_epoch_number)
       /\ next_epoch \in DOMAIN binding_map
             <=> TransitionEventsStarted /\ IsActiveInEpoch("Next") /\ InOffice(next_epoch)
       /\ \A e \in DOMAIN binding_map :
             \/ e \in {cur_epoch_number, next_epoch} /\ binding_map[e] # "WaitingDisconnect"
             \/ /\ e = cur_epoch_number - 1
                /\ transition_state = "EpochStart"
                /\ binding_map[e] = "WaitingDisconnect"

(* The archiver's timer runs exactly while the node is active, whether a   *)
(* command or a schedule made it so.                                       *)
ArchiverFollows == call = "none" /\ ~ halted => (archiving <=> IsActiveInEpoch("Current"))

=============================================================================
