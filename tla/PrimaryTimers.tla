--------------------------- MODULE PrimaryTimers ---------------------------
(***************************************************************************)
(* The primary's handlers as the threads of the io_service run them: the   *)
(* answer that completes a quorum, the timer's callback, the start-up      *)
(* timer and newly queued requests (PrimaryDelegate, ConsensusManager).    *)
(*                                                                         *)
(* ProceedWithMessage holds _state_mutex while it counts an answer; what   *)
(* follows a quorum runs without it, step by step.  A thread's pc is the   *)
(* step it takes next.  Which answers make the quorum is the subject of    *)
(* DelegateConsensus; here any phase may reach it.  A round is a group of  *)
(* requests at the front of the queue.                                     *)
(***************************************************************************)
EXTENDS Naturals, Sequences, FiniteSets

CONSTANTS Threads,        \* the threads that may run the io_service
          Settings,       \* what the environment does, see Setting
          MaxRounds,      \* bound on the rounds started
          MaxPosted       \* bound on the timer callbacks waiting to run

(* The threads that run the io_service; those on which requests come in;   *)
(* whether the primary's timer may expire; whether a session may begin     *)
(* before the start-up timer has fired                                     *)
Setting == [threads : SUBSET Threads, clients : SUBSET Threads, expires : BOOLEAN,
            fallback : BOOLEAN]

ASSUME SettingsAssumption == Settings \subseteq Setting

VARIABLES
    setting,            \* a member of Settings, chosen once
    pc,                 \* what each thread does next
    state,              \* _state
    state_changing,     \* _state_changing
    ongoing,            \* _ongoing
    batch,              \* the round _current_batch belongs to; 0: none
    popped,             \* rounds removed from the queue
    reached,            \* the batches OnConsensusReached was called for
    init_timer,         \* "pending" until StartConsensus's timer has fired
    timer,              \* the callback _primary_timer waits for, or "none"
    posted,             \* callbacks ready to run: <<callback, aborted>>
    timer_cancelled     \* _timer_cancelled

vars == <<setting, pc, state, state_changing, ongoing, batch, popped, reached, init_timer, timer,
          posted, timer_cancelled>>

Init ==
    /\ setting \in Settings
    /\ pc = [t \in Threads |-> "idle"]
    /\ state = "INITIALIZING"
    /\ state_changing = FALSE
    /\ ongoing = FALSE
    /\ batch = 0
    /\ popped = 0
    /\ reached = <<>>
    /\ init_timer = "pending"
    /\ timer = "none"
    /\ posted = <<>>
    /\ timer_cancelled = FALSE

Goto(t, step) == pc' = [pc EXCEPT ![t] = step]

-----------------------------------------------------------------------------
(* The timer: a boost::asio deadline_timer with one wait at a time         *)

(* Callbacks posted when a pending wait is cancelled                       *)
Aborted == IF timer = "none" THEN posted ELSE Append(posted, <<timer, TRUE>>)

(* The wait runs out and the callback is ready.                            *)
Expire ==
    /\ setting.expires
    /\ timer # "none"
    /\ Len(posted) < MaxPosted
    /\ posted' = Append(posted, <<timer, FALSE>>)
    /\ timer' = "none"
    /\ UNCHANGED <<pc, state, state_changing, ongoing, batch, popped, reached, init_timer,
                   timer_cancelled>>

(* If there is no wait to cancel its callback is on its way, and a flag    *)
(* has it return.                                                          *)
CancelTimer ==
    /\ posted' = Aborted
    /\ timer' = "none"
    /\ timer_cancelled' = (timer_cancelled \/ timer = "none")

StateReadyForConsensus == state \in {"VOID", "POST_COMMIT"}

(* Mutant of CycleTimers: POST_COMMIT does not count as ready.             *)
MutantCycleTimers ==
    /\ Len(posted) < MaxPosted
    /\ posted' = Aborted
    /\ timer' = IF state = "VOID" THEN "PrePrepare" ELSE "PostPrepare"

(* expires_from_now cancels a wait there may be; the callback depends on   *)
(* the state of the moment.                                                *)
CycleTimers ==
    /\ Len(posted) < MaxPosted
    /\ posted' = Aborted
    /\ timer' = IF StateReadyForConsensus THEN "PrePrepare" ELSE "PostPrepare"

AdvanceState(s) ==
    /\ state' = s
    /\ state_changing' = FALSE

-----------------------------------------------------------------------------
(* InitiateConsensus *)

(* Mutant of Initiate: a re-proposal moves on to the next requests.        *)
MutantInitiate(t) ==
    /\ pc[t] \in {"initiate", "repropose"}
    /\ batch' = IF pc[t] = "repropose" THEN batch + 1 ELSE popped + 1
    /\ CycleTimers
    /\ Goto(t, "propose")
    /\ UNCHANGED <<state, state_changing, ongoing, popped, reached, init_timer, timer_cancelled>>

(* PrePrepareGetNext and OnConsensusInitiated: the batch is the current    *)
(* one again or is taken from the front of the queue, and the timer is set *)
(* before the state changes.                                               *)
Initiate(t) ==
    /\ pc[t] \in {"initiate", "repropose"}
    /\ batch' = IF pc[t] = "repropose" THEN batch ELSE popped + 1
    /\ CycleTimers
    /\ Goto(t, "propose")
    /\ UNCHANGED <<state, state_changing, ongoing, popped, reached, init_timer, timer_cancelled>>

Propose(t) ==
    /\ pc[t] = "propose"
    /\ AdvanceState("PRE_PREPARE")
    /\ Goto(t, "idle")
    /\ UNCHANGED <<ongoing, batch, popped, reached, init_timer, timer, posted, timer_cancelled>>

(* The start-up timer's callback *)
StartConsensus(t) ==
    /\ pc[t] = "idle"
    /\ init_timer = "pending"
    /\ init_timer' = "fired"
    /\ state' = "VOID"
    /\ ongoing' = TRUE
    /\ Goto(t, "initiate")
    /\ UNCHANGED <<state_changing, batch, popped, reached, timer, posted, timer_cancelled>>

(* OnMessageQueued with requests waiting: the checks ...  Before start-up  *)
(* clients are refused, but a backup's requests may have timed out.        *)
OnMessageQueued(t) ==
    /\ pc[t] = "idle"
    /\ t \in setting.clients
    /\ ~setting.fallback => init_timer = "fired"
    /\ ~ongoing
    /\ popped < MaxRounds
    /\ Goto(t, "queued")
    /\ UNCHANGED <<state, state_changing, ongoing, batch, popped, reached, init_timer, timer,
                   posted, timer_cancelled>>

(* ... and what follows them.                                              *)
Begin(t) ==
    /\ pc[t] = "queued"
    /\ ongoing' = TRUE
    /\ Goto(t, "initiate")
    /\ UNCHANGED <<state, state_changing, batch, popped, reached, init_timer, timer, posted,
                   timer_cancelled>>

-----------------------------------------------------------------------------
(* Answers *)

(* Mutant of ProceedWithMessage: the flag is not looked at.                *)
MutantProceedWithMessage(expected) ==
    /\ state = expected
    /\ batch # 0

(* An answer completes the quorum of its phase, or leaves no request of    *)
(* the batch open.  No backup answers to the empty block that is left when *)
(* the batch has been removed.                                             *)
ProceedWithMessage(expected) ==
    /\ ~state_changing
    /\ state = expected
    /\ batch # 0

Approve(t, expected, step) ==
    /\ pc[t] = "idle"
    /\ ProceedWithMessage(expected)
    /\ state_changing' = TRUE
    /\ Goto(t, step)
    /\ UNCHANGED <<state, ongoing, batch, popped, reached, init_timer, timer, posted, timer_cancelled>>

OnPrepare(t) == Approve(t, "PRE_PREPARE", "prepare cancel")
OnRejection(t) == Approve(t, "PRE_PREPARE", "rejected cancel")
OnCommit(t) == Approve(t, "POST_PREPARE", "commit cancel")

AfterCancel(step) ==
    CASE step = "prepare cancel"  -> "prepare timer"
      [] step = "rejected cancel" -> "rejected"
      [] step = "commit cancel"   -> "commit advance"

Cancel(t) ==
    /\ pc[t] \in {"prepare cancel", "rejected cancel", "commit cancel"}
    /\ Len(posted) < MaxPosted
    /\ CancelTimer
    /\ Goto(t, AfterCancel(pc[t]))
    /\ UNCHANGED <<state, state_changing, ongoing, batch, popped, reached, init_timer>>

PrepareTimer(t) ==
    /\ pc[t] = "prepare timer"
    /\ CycleTimers
    /\ Goto(t, "prepare advance")
    /\ UNCHANGED <<state, state_changing, ongoing, batch, popped, reached, init_timer, timer_cancelled>>

(* The PostPrepare is sent.                                                *)
PrepareAdvance(t) ==
    /\ pc[t] = "prepare advance"
    /\ AdvanceState("POST_PREPARE")
    /\ Goto(t, "idle")
    /\ UNCHANGED <<ongoing, batch, popped, reached, init_timer, timer, posted, timer_cancelled>>

(* OnPrePrepareRejected: what can be accepted of the batch takes its place *)
(* in the queue and is proposed; in another state the node halts.          *)
PrePrepareRejected(t) ==
    /\ pc[t] = "rejected"
    /\ IF state = "PRE_PREPARE"
       THEN AdvanceState("VOID") /\ Goto(t, "repropose")
       ELSE UNCHANGED <<state, state_changing>> /\ Goto(t, "halted")
    /\ UNCHANGED <<ongoing, batch, popped, reached, init_timer, timer, posted, timer_cancelled>>

(* The PostCommit is sent.                                                 *)
CommitAdvance(t) ==
    /\ pc[t] = "commit advance"
    /\ AdvanceState("POST_COMMIT")
    /\ Goto(t, "reached")
    /\ UNCHANGED <<ongoing, batch, popped, reached, init_timer, timer, posted, timer_cancelled>>

(* OnConsensusReached and BeginNextRound: the block is stored, the batch   *)
(* removed from the queue, and OnMessageQueued starts the next round.      *)
ConsensusReached(t) ==
    /\ pc[t] = "reached"
    /\ reached' = Append(reached, batch)
    /\ popped' = popped + 1
    /\ batch' = 0
    /\ ongoing' = FALSE
    /\ \/ Goto(t, "idle")
       \/ popped + 1 < MaxRounds /\ Goto(t, "queued")
    /\ UNCHANGED <<state, state_changing, init_timer, timer, posted, timer_cancelled>>

-----------------------------------------------------------------------------
(* OnTimeout *)

Expected(callback) == IF callback = "PrePrepare" THEN "PRE_PREPARE" ELSE "POST_PREPARE"

(* Mutant of OnTimeout: the flag is not reset.                             *)
MutantOnTimeout(t) ==
    /\ pc[t] = "idle"
    /\ posted # <<>>
    /\ posted' = Tail(posted)
    /\ Goto(t, IF timer_cancelled \/ Head(posted)[2] THEN "idle" ELSE Head(posted)[1])
    /\ UNCHANGED <<state, state_changing, ongoing, batch, popped, reached, init_timer, timer,
                   timer_cancelled>>

(* A thread takes the first callback that is ready.  The flag, which       *)
(* it resets, or an aborted wait has it return.                            *)
OnTimeout(t) ==
    /\ pc[t] = "idle"
    /\ posted # <<>>
    /\ posted' = Tail(posted)
    /\ timer_cancelled' = FALSE
    /\ Goto(t, IF timer_cancelled \/ Head(posted)[2] THEN "idle" ELSE Head(posted)[1])
    /\ UNCHANGED <<state, state_changing, ongoing, batch, popped, reached, init_timer, timer>>

(* The state has to be the one the timer was set for.                      *)
CheckTimeout(t) ==
    /\ pc[t] \in {"PrePrepare", "PostPrepare"}
    /\ Goto(t, IF state = Expected(pc[t]) THEN "quorum failed" ELSE "idle")
    /\ UNCHANGED <<state, state_changing, ongoing, batch, popped, reached, init_timer, timer,
                   posted, timer_cancelled>>

(* OnQuorumFailed: the batch is proposed again.                            *)
OnQuorumFailed(t) ==
    /\ pc[t] = "quorum failed"
    /\ AdvanceState("VOID")
    /\ Goto(t, "repropose")
    /\ UNCHANGED <<ongoing, batch, popped, reached, init_timer, timer, posted, timer_cancelled>>

ThreadStep(t) ==
    \/ Initiate(t)
    \/ Propose(t)
    \/ StartConsensus(t)
    \/ OnMessageQueued(t)
    \/ Begin(t)
    \/ OnPrepare(t)
    \/ OnRejection(t)
    \/ OnCommit(t)
    \/ Cancel(t)
    \/ PrepareTimer(t)
    \/ PrepareAdvance(t)
    \/ PrePrepareRejected(t)
    \/ CommitAdvance(t)
    \/ ConsensusReached(t)
    \/ OnTimeout(t)
    \/ CheckTimeout(t)
    \/ OnQuorumFailed(t)

Next ==
    /\ \A t \in Threads : pc[t] # "halted"
    /\ Expire \/ \E t \in setting.threads : ThreadStep(t)
    /\ UNCHANGED setting

Spec == Init /\ [][Next]_vars

-----------------------------------------------------------------------------
(* Properties *)

(* OnConsensusReached is called once per round, with that round's batch.   *)
(* BeginNextRound takes no lock because "there should only be one call to  *)
(* OnConsensusReached per consensus round".                                *)
OncePerRound == \A i \in 1..Len(reached) : reached[i] = i

Quiet == posted = <<>> /\ \A t \in Threads : pc[t] = "idle"

(* When no handler is running or ready to run, a session has the timer of  *)
(* its phase, and the flag that would swallow its callback is not set.     *)
SessionHasTimer ==
    Quiet /\ init_timer = "fired" =>
        CASE state = "PRE_PREPARE"  -> timer = "PrePrepare" /\ ~timer_cancelled
          [] state = "POST_PREPARE" -> timer = "PostPrepare" /\ ~timer_cancelled
          [] OTHER -> timer = "none"

(* The flag is set when, and as long as, the callback it is meant for has  *)
(* "been scheduled and is about to be invoked".                            *)
FlagHasCallback == timer_cancelled => \E i \in 1..Len(posted) : ~posted[i][2]

(* One thread at a time carries out what follows a quorum: "only one       *)
(* remote message can trigger state change".                               *)
OneTransition ==
    Cardinality({t \in Threads : pc[t] \in {"prepare cancel", "prepare timer", "prepare advance",
                                            "rejected cancel", "rejected", "commit cancel",
                                            "commit advance"}}) <= 1

(* The state is still PRE_PREPARE when a rejected batch is split up: in an *)
(* "unexpected state" OnPrePrepareRejected halts the node.                 *)
NoHalt == \A t \in Threads : pc[t] # "halted"
=============================================================================
