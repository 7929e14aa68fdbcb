-------------------------- MODULE ConsensusMsgSink --------------------------
(***************************************************************************)
(* The message queue between the network and the consensus objects of one  *)
(* remote delegate (logos/consensus/consensus_msg_sink.cpp).               *)
(*                                                                         *)
(* Messages of that delegate reach the sink from two sides at once: the    *)
(* socket's read callback and the p2p propagation thread.  The sink must   *)
(* hand them to OnMessage one at a time and in order, although the tasks   *)
(* it posts run on a pool of io_service threads.                           *)
(*                                                                         *)
(* A message is a number (its place in the order of the pushes) and the    *)
(* consensus type it was sent for; a task is what Post() captures: the     *)
(* message and the consensus type the task will be dispatched by.          *)
(***************************************************************************)
EXTENDS Naturals, Sequences, FiniteSets

CONSTANTS ConsensusTypes,   \* Request, MicroBlock, Epoch
          MaxPushes,        \* bound on the pushes of one behaviour
          NoMessage         \* "no message is being handled"

VARIABLES
    pushes,       \* messages accepted by Push so far
    msg_queue,    \* _msg_queue
    consuming,    \* _consuming
    posted,       \* tasks in the io_service, not yet picked up by a thread
    running,      \* tasks some thread is executing
    direct_connect, \* _direct_connect: answers that came over the socket
    alive         \* the sink is still owned; a task holds a weak_ptr

sinkVars == <<pushes, msg_queue, consuming, posted, running, direct_connect, alive>>

Message == [n : 1..MaxPushes, ct : ConsensusTypes]

ASSUME SinkAssumption == MaxPushes \in Nat /\ NoMessage \notin Message

Task == [msg : Message, ct : ConsensusTypes]

(* _service.post of one task *)
Post(m, ct) == posted' = posted \cup {[msg |-> m, ct |-> ct]}

(* A direct message addressed to the primary counts as a sign of life.     *)
Count(direct) == direct_connect' = direct_connect + (IF direct THEN 1 ELSE 0)

SinkInit ==
    /\ pushes = 0
    /\ msg_queue = <<>>
    /\ consuming = FALSE
    /\ posted = {}
    /\ running = {}
    /\ direct_connect = 0
    /\ alive = TRUE

(* Mutant of Push: an idle sink posts but forgets to set _consuming. *)
MutantPush(ct, direct) ==
    LET m == [n |-> pushes + 1, ct |-> ct] IN
    /\ alive
    /\ pushes < MaxPushes
    /\ Count(direct)
    /\ pushes' = pushes + 1
    /\ Post(m, ct)
    /\ UNCHANGED <<msg_queue, consuming, running, alive>>

(***************************************************************************)
(* Push.  An idle sink posts at once; if messages were left in the queue   *)
(* the new one goes behind them and the oldest is posted, with the         *)
(* consensus type of the new message (the branch re-reads the message, its *)
(* type and is_p2p from the queue, but not the consensus type).            *)
(***************************************************************************)
Push(ct, direct) ==
    LET m == [n |-> pushes + 1, ct |-> ct] IN
    /\ alive
    /\ pushes < MaxPushes
    /\ Count(direct)
    /\ pushes' = pushes + 1
    /\ IF consuming
       THEN /\ msg_queue' = Append(msg_queue, m)
            /\ UNCHANGED <<consuming, posted>>
       ELSE /\ consuming' = TRUE
            /\ IF msg_queue = <<>>
               THEN Post(m, ct) /\ UNCHANGED msg_queue
               ELSE /\ msg_queue' = Tail(Append(msg_queue, m))
                    /\ Post(Head(msg_queue), ct)
    /\ UNCHANGED <<running, alive>>

(* A message that does not parse is counted, and refused.                  *)
PushUnparsable(direct) ==
    /\ alive
    /\ direct_connect < MaxPushes
    /\ Count(direct)
    /\ UNCHANGED <<pushes, msg_queue, consuming, posted, running, alive>>

ResetConnectCount ==
    /\ direct_connect' = 0
    /\ UNCHANGED <<pushes, msg_queue, consuming, posted, running, alive>>

(* A pool thread takes a posted task; with the sink gone it does nothing.  *)
StartTask(t) ==
    /\ t \in posted
    /\ posted' = posted \ {t}
    /\ running' = IF alive THEN running \cup {t} ELSE running
    /\ UNCHANGED <<pushes, msg_queue, consuming, direct_connect, alive>>

(* Mutant of Pop: _consuming is cleared although another message is posted. *)
MutantPopAlwaysIdle(t) ==
    /\ t \in running
    /\ running' = running \ {t}
    /\ consuming' = FALSE
    /\ IF msg_queue = <<>>
       THEN UNCHANGED <<msg_queue, posted>>
       ELSE /\ msg_queue' = Tail(msg_queue)
            /\ Post(Head(msg_queue), Head(msg_queue).ct)
    /\ UNCHANGED <<pushes, direct_connect, alive>>

(* Mutant of Pop: a queue that is not empty is left to the next Push. *)
MutantPopNoPost(t) ==
    /\ t \in running
    /\ running' = running \ {t}
    /\ consuming' = (msg_queue # <<>>)
    /\ UNCHANGED <<pushes, msg_queue, posted, direct_connect, alive>>

(* OnMessage of a running task has returned: the same task calls Pop.      *)
Pop(t) ==
    /\ t \in running
    /\ running' = running \ {t}
    /\ IF msg_queue = <<>>
       THEN /\ consuming' = FALSE
            /\ UNCHANGED <<msg_queue, posted>>
       ELSE /\ msg_queue' = Tail(msg_queue)
            /\ Post(Head(msg_queue), Head(msg_queue).ct)
            /\ UNCHANGED consuming
    /\ UNCHANGED <<pushes, direct_connect, alive>>

(* The owner drops the sink; a running task holds a strong reference.      *)
Destroy ==
    /\ alive
    /\ running = {}
    /\ alive' = FALSE
    /\ UNCHANGED <<pushes, msg_queue, consuming, posted, running, direct_connect>>

StartSome == \E t \in posted : StartTask(t)
PopSome == \E t \in running : Pop(t)

SinkNext ==
    \/ \E ct \in ConsensusTypes, direct \in BOOLEAN : Push(ct, direct)
    \/ \E direct \in BOOLEAN : PushUnparsable(direct)
    \/ ResetConnectCount
    \/ StartSome
    \/ PopSome
    \/ Destroy

SinkSpec == SinkInit /\ [][SinkNext]_sinkVars

(* The io_service threads keep running tasks, and OnMessage returns.       *)
FairSpec == SinkSpec /\ WF_sinkVars(StartSome) /\ WF_sinkVars(PopSome)

-----------------------------------------------------------------------------
(* The members of the sink keep their types; _direct_connect never falls
   below zero. *)
SinkTypeOK ==
    /\ pushes \in Nat
    /\ msg_queue \in Seq(Message)
    /\ consuming \in BOOLEAN
    /\ posted \in SUBSET Task
    /\ running \in SUBSET Task
    /\ direct_connect \in Nat
    /\ alive \in BOOLEAN

(***************************************************************************)
(* The contract of the sink, as a queue with a single server.  The tasks   *)
(* already posted (one at most) wait in front of the queue.                *)
(***************************************************************************)
The(tasks) == (CHOOSE t \in tasks : TRUE).msg

Waiting == IF posted = {} THEN msg_queue ELSE <<The(posted)>> \o msg_queue

Serving == IF running = {} THEN NoMessage ELSE The(running)

Contract == INSTANCE SerialQueue
    WITH None <- NoMessage, waiting <- Waiting, current <- Serving, open <- alive

(* consensus_msg_sink.cpp:37-58, 102-117: the sink behaves as a queue with
   one server: no message is lost, duplicated, reordered, or handled while
   another one is being handled. *)
IsSerialQueue == Contract!Spec

(* consensus_msg_sink.cpp:107-110: _consuming is cleared only when nothing
   is queued, and while it is set exactly one task is posted or running, so
   that a queued message always has a task that will come back for it. *)
OneTaskOutstanding ==
    /\ ~consuming => msg_queue = <<>>
    /\ alive => Cardinality(posted) + Cardinality(running) = (IF consuming THEN 1 ELSE 0)

(* consensus_msg_sink.cpp:40-52: the branch that posts an old message with
   the consensus type of a new one is never taken: every task dispatches its
   message by the type the message was sent for. *)
DispatchedByOwnType ==
    \A t \in running \cup posted : t.ct = t.msg.ct

(* consensus_msg_sink.cpp:126-134: whatever was accepted is handled: the
   sink drains unless it is destroyed. *)
EventuallyDrained == (msg_queue # <<>>) ~> (msg_queue = <<>> \/ ~alive)
=============================================================================
