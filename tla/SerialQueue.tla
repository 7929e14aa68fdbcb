---------------------------- MODULE SerialQueue ----------------------------
(***************************************************************************)
(* What ConsensusMsgSink promises its users: a first-in first-out queue    *)
(* with one server.  A message that arrived is served after everything     *)
(* that arrived before it, and one service ends before the next begins.    *)
(***************************************************************************)
EXTENDS Naturals, Sequences

CONSTANTS Message, None

VARIABLES waiting,   \* accepted messages, oldest first
          current,   \* the message being served, or None
          open       \* the queue has not been closed

vars == <<waiting, current, open>>

Init == waiting = <<>> /\ current = None /\ open = TRUE

Arrive == /\ open
          /\ \E m \in Message : waiting' = Append(waiting, m)
          /\ UNCHANGED <<current, open>>

Begin == /\ open
         /\ current = None
         /\ waiting # <<>>
         /\ current' = Head(waiting)
         /\ waiting' = Tail(waiting)
         /\ UNCHANGED open

End == /\ current # None
       /\ current' = None
       /\ UNCHANGED <<waiting, open>>

Close == open /\ open' = FALSE /\ UNCHANGED <<waiting, current>>

(* After closing, the messages that still wait are dropped, oldest first.  *)
Drop == /\ ~open
        /\ waiting # <<>>
        /\ waiting' = Tail(waiting)
        /\ UNCHANGED <<current, open>>

Next == Arrive \/ Begin \/ End \/ Close \/ Drop

Spec == Init /\ [][Next]_vars
=============================================================================
