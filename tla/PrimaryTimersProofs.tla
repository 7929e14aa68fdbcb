------------------------ MODULE PrimaryTimersProofs ------------------------
(***************************************************************************)
(* Why the primary's handlers do not get into each other's way where one   *)
(* thread runs the io_service, or where nothing but answers comes in: one  *)
(* thread at a time is inside a handler, whatever it does next fits the    *)
(* state it finds, and every session is waiting for a timer, or for a      *)
(* callback of that timer which no flag will swallow.                      *)
(***************************************************************************)
EXTENDS PrimaryTimers, FiniteSetTheorems, TLAPS

(* The provers a leaf is tried with, and their time in seconds *)
USE SMTT(30), ZenonT(30)

(* Threads that run the io_service cannot overlap: there is one, or        *)
(* neither timers nor clients have them start anything.                    *)
Alone(s) == \A t, u \in s.threads : t = u
Untimed(s) == ~s.expires /\ s.clients = {}
OneAtATime == \A s \in Settings : Alone(s) \/ Untimed(s)

(* No session begins before the start-up timer has fired.                  *)
StartsUpFirst == \A s \in Settings : s.fallback => s.clients = {}

States == {"INITIALIZING", "VOID", "PRE_PREPARE", "POST_PREPARE", "POST_COMMIT"}
PrepareSteps == {"prepare cancel", "prepare timer", "prepare advance", "rejected cancel", "rejected"}
CommitSteps == {"commit cancel", "commit advance"}
TimeoutSteps == {"PrePrepare", "PostPrepare", "quorum failed"}
StartSteps == {"initiate", "repropose", "propose", "queued"}
Steps == PrepareSteps \cup CommitSteps \cup TimeoutSteps \cup StartSteps \cup {"idle", "reached", "halted"}
Callbacks == {"PrePrepare", "PostPrepare"}

TypeOK ==
    /\ setting \in Settings
    /\ pc \in [Threads -> Steps]
    /\ state \in States
    /\ state_changing \in BOOLEAN
    /\ ongoing \in BOOLEAN
    /\ batch \in Nat
    /\ popped \in Nat
    /\ reached \in Seq(Nat)
    /\ init_timer \in {"pending", "fired"}
    /\ timer \in Callbacks \cup {"none"}
    /\ posted \in Seq(Callbacks \X BOOLEAN)
    /\ timer_cancelled \in BOOLEAN

(* The rounds that were reached, in their order                            *)
Rounds == Len(reached) = popped /\ \A i \in 1..Len(reached) : reached[i] = i

(* At most one thread is inside a handler, and it runs the io_service.     *)
OneBusy ==
    /\ \A t \in Threads : pc[t] # "idle" => t \in setting.threads
    /\ \A t, u \in Threads : pc[t] # "idle" /\ pc[u] # "idle" => t = u

(* During a session the batch belongs to the round at the front.           *)
Session ==
    /\ state \in {"PRE_PREPARE", "POST_PREPARE"} => ongoing /\ batch = popped + 1
    /\ ~ongoing => state \in {"INITIALIZING", "POST_COMMIT"}

(* What a thread may rely on when it takes a step                          *)
Relies(step) ==
    /\ step # "halted"
    /\ step \in PrepareSteps => state = "PRE_PREPARE" /\ state_changing
    /\ step \in CommitSteps => state = "POST_PREPARE" /\ state_changing
    /\ step = "reached" => state = "POST_COMMIT" /\ batch = popped + 1
    /\ step \in StartSteps => state \in {"INITIALIZING", "VOID", "POST_COMMIT"}
    /\ step = "queued" => ~ongoing
    /\ step \in {"initiate", "repropose", "propose"} => ongoing
    /\ step \in {"repropose", "propose"} => batch = popped + 1
    /\ step = "repropose" => state = "VOID"
    /\ step = "quorum failed" => state \in {"PRE_PREPARE", "POST_PREPARE"}

(* Without timeouts and clients every callback was aborted, and only the   *)
(* start-up timer begins a first session.                                  *)
NoSurprise ==
    Untimed(setting) =>
        /\ \A i \in 1..Len(posted) : posted[i][2]
        /\ \A t \in Threads : pc[t] \notin TimeoutSteps
        /\ init_timer = "pending" => state = "INITIALIZING" /\ \A t \in Threads : pc[t] = "idle"

Handlers == TypeOK /\ Rounds /\ OneBusy /\ Session /\ (\A t \in Threads : Relies(pc[t])) /\ NoSurprise

(* The callback waits for the timer, or is ready and the flag will be used *)
(* up by an earlier one.                                                   *)
Armed(callback) ==
    \/ timer = callback
    \/ \E i \in 1..Len(posted) : posted[i] = <<callback, FALSE>> /\ (timer_cancelled => i > 1)

(* What the timer is like when a thread takes a step                       *)
TimerAt(step) ==
    /\ step \in {"prepare cancel", "rejected cancel", "propose"} => Armed("PrePrepare")
    /\ step \in {"commit cancel", "prepare advance"} => Armed("PostPrepare")
    /\ step = "commit advance" => timer = "none"

(* Every thread is idle or at one of the given steps.                      *)
Within(S) == \A t \in Threads : pc[t] \in {"idle"} \cup S

(* A session has the timer of its phase until a handler deals with it.     *)
TimerSet ==
    /\ FlagHasCallback
    /\ init_timer = "pending" => /\ state = "INITIALIZING"
                                 /\ timer = "none" /\ posted = <<>>
                                 /\ \A t \in Threads : pc[t] = "idle"
    /\ init_timer = "fired" => state # "INITIALIZING"
    /\ \A t \in Threads : TimerAt(pc[t])
    /\ state = "PRE_PREPARE" /\ Within({"PostPrepare"}) => Armed("PrePrepare")
    /\ state = "POST_PREPARE" /\ Within({"PrePrepare"}) => Armed("PostPrepare")
    /\ state = "POST_COMMIT" /\ (\A t \in Threads : pc[t] # "propose") => timer = "none"
    /\ state = "VOID" => ~Within(Callbacks)

-----------------------------------------------------------------------------
(* How a step of one thread affects the others                             *)

Others(t) == \A u \in Threads : u # t => pc[u] = "idle"

(* A thread inside a handler is the only one.                              *)
LEMMA BusyAlone ==
    ASSUME OneBusy, NEW t \in Threads, pc[t] # "idle"
    PROVE  Others(t)
BY DEF OneBusy, Others

(* Where one thread runs the io_service, the others are idle.              *)
LEMMA AloneOthers ==
    ASSUME OneBusy, Alone(setting), NEW t \in Threads, t \in setting.threads
    PROVE  Others(t)
BY DEF OneBusy, Others, Alone

LEMMA Moved ==
    ASSUME TypeOK, NEW t \in Threads, NEW step, Goto(t, step)
    PROVE  /\ pc'[t] = step
           /\ \A u \in Threads : u # t => pc'[u] = pc[u]
           /\ step \in Steps => pc' \in [Threads -> Steps]
BY DEF TypeOK, Goto

(* What is left to show when the only busy thread takes a step: that what  *)
(* it relies on next holds.                                                *)
LEMMA AloneKeeps ==
    ASSUME TypeOK, TypeOK', NEW t \in Threads, t \in setting.threads, NEW step, Goto(t, step), Others(t),
           setting' = setting, Relies(step)'
    PROVE  OneBusy' /\ (\A u \in Threads : Relies(pc[u])')
<1>1. pc'[t] = step /\ \A u \in Threads : u # t => pc'[u] = "idle"
  BY Moved DEF Others
<1>2. OneBusy'
  BY <1>1, Zenon DEF OneBusy
<1>3. ASSUME NEW u \in Threads, u # t  PROVE Relies(pc[u])'
  BY <1>1, <1>3, Zenon DEF Relies, PrepareSteps, CommitSteps, StartSteps
<1>4. Relies(pc[t])'
  BY <1>1, Zenon DEF Relies
<1> QED  BY <1>2, <1>3, <1>4, Zenon

(* The callbacks after one is posted, or after the first one is taken      *)
LEMMA PostedAppend ==
    ASSUME TypeOK, NEW c \in Callbacks, NEW b \in BOOLEAN
    PROVE  /\ Append(posted, <<c, b>>) \in Seq(Callbacks \X BOOLEAN)
           /\ Len(posted) \in Nat
           /\ Len(Append(posted, <<c, b>>)) = Len(posted) + 1
           /\ \A i \in 1..Len(posted) : Append(posted, <<c, b>>)[i] = posted[i]
           /\ Append(posted, <<c, b>>)[Len(posted) + 1] = <<c, b>>
<1>1. <<c, b>> \in Callbacks \X BOOLEAN
  OBVIOUS
<1> DEFINE x == <<c, b>>
           T == Callbacks \X BOOLEAN
<1>2. x \in T /\ posted \in Seq(T)
  BY <1>1 DEF TypeOK
<1> HIDE DEF x, T
<1>3. /\ Append(posted, x) \in Seq(T)
      /\ Len(posted) \in Nat
      /\ Len(Append(posted, x)) = Len(posted) + 1
      /\ \A i \in 1..Len(posted) : Append(posted, x)[i] = posted[i]
      /\ Append(posted, x)[Len(posted) + 1] = x
  BY <1>2
<1> QED  BY <1>3 DEF x, T

LEMMA PostedTail ==
    ASSUME TypeOK, posted # <<>>
    PROVE  /\ Tail(posted) \in Seq(Callbacks \X BOOLEAN)
           /\ Len(posted) \in Nat \ {0}
           /\ Len(Tail(posted)) = Len(posted) - 1
           /\ \A i \in 1..Len(Tail(posted)) : Tail(posted)[i] = posted[i + 1]
           /\ Head(posted) = posted[1]
           /\ Head(posted) \in Callbacks \X BOOLEAN
<1> DEFINE T == Callbacks \X BOOLEAN
<1>1. posted \in Seq(T)
  BY DEF TypeOK
<1> HIDE DEF T
<1>2. /\ Tail(posted) \in Seq(T)
      /\ Len(posted) \in Nat \ {0}
      /\ Len(Tail(posted)) = Len(posted) - 1
      /\ \A i \in 1..Len(Tail(posted)) : Tail(posted)[i] = posted[i + 1]
      /\ Head(posted) = posted[1]
  BY <1>1
<1>3. posted[1] \in T
  BY <1>1, <1>2
<1> QED  BY <1>2, <1>3 DEF T

(* Cancelling a wait posts its callback as aborted.                        *)
LEMMA AbortedKeeps ==
    ASSUME TypeOK
    PROVE  /\ Aborted \in Seq(Callbacks \X BOOLEAN)
           /\ Len(posted) \in Nat /\ Len(Aborted) \in Nat /\ Len(Aborted) >= Len(posted)
           /\ \A i \in 1..Len(posted) : Aborted[i] = posted[i]
           /\ \A i \in 1..Len(Aborted) : i \in 1..Len(posted) \/ Aborted[i][2]
<1>1. CASE timer = "none"
  BY <1>1 DEF Aborted, TypeOK
<1>2. CASE timer # "none"
  <2>1. timer \in Callbacks /\ TRUE \in BOOLEAN
    BY <1>2 DEF TypeOK
  <2>2. Aborted = Append(posted, <<timer, TRUE>>)
    BY <1>2, Zenon DEF Aborted
  <2>3. /\ Aborted \in Seq(Callbacks \X BOOLEAN)
        /\ Len(posted) \in Nat
        /\ Len(Aborted) = Len(posted) + 1
        /\ \A i \in 1..Len(posted) : Aborted[i] = posted[i]
        /\ Aborted[Len(posted) + 1] = <<timer, TRUE>>
    BY <2>1, <2>2, PostedAppend, Zenon
  <2>4. Aborted[Len(posted) + 1][2]
    BY <2>3
  <2>5. \A n \in Nat : \A i \in 1..(n + 1) : i \in 1..n \/ i = n + 1
    OBVIOUS
  <2>6. \A i \in 1..Len(Aborted) : i \in 1..Len(posted) \/ Aborted[i][2]
    BY <2>3, <2>4, <2>5, Zenon
  <2>7. Len(Aborted) \in Nat /\ Len(Aborted) >= Len(posted)
    BY <2>3
  <2> QED  BY <2>3, <2>6, <2>7
<1> QED  BY <1>1, <1>2

(* The same for all of what one thread at a time relies on                 *)
LEMMA StepKeeps ==
    ASSUME Handlers, TypeOK', NEW t \in Threads, t \in setting.threads, NEW step, Goto(t, step),
           Others(t), setting' = setting, Relies(step)', Session', Rounds',
           Untimed(setting) => /\ \A i \in 1..Len(posted') : posted'[i][2]
                               /\ step \notin TimeoutSteps
                               /\ init_timer' = "fired"
    PROVE  Handlers'
<1>1. TypeOK
  BY DEF Handlers
<1>2. OneBusy' /\ (\A u \in Threads : Relies(pc[u])')
  BY <1>1, AloneKeeps
<1>3. NoSurprise'
  <2> SUFFICES ASSUME Untimed(setting)  PROVE NoSurprise'
    BY DEF NoSurprise
  <2>1. pc'[t] = step /\ \A u \in Threads : u # t => pc'[u] = "idle"
    BY <1>1, Moved DEF Others
  <2>2. \A u \in Threads : pc'[u] \notin TimeoutSteps
    BY <2>1, Zenon DEF TimeoutSteps
  <2> QED  BY <2>2 DEF NoSurprise
<1> QED  BY <1>2, <1>3 DEF Handlers

(* While a thread is inside a handler, an untimed primary has started up   *)
(* and the thread is not handling a timeout.                               *)
LEMMA BusyStarted ==
    ASSUME Handlers, NEW t \in Threads, pc[t] # "idle", Untimed(setting)
    PROVE  init_timer = "fired" /\ pc[t] \notin TimeoutSteps /\ \A i \in 1..Len(posted) : posted[i][2]
BY DEF Handlers, NoSurprise, TypeOK

(* Steps that leave the callbacks and the rounds alone                     *)
LEMMA QuietKeeps ==
    ASSUME Handlers, TypeOK', NEW t \in Threads, t \in setting.threads, NEW step, Goto(t, step),
           Others(t), UNCHANGED <<setting, popped, reached, posted>>, Relies(step)', Session',
           Untimed(setting) => step \notin TimeoutSteps /\ init_timer' = "fired"
    PROVE  Handlers'
<1>1. Rounds'
  BY DEF Handlers, Rounds
<1>2. Untimed(setting) => \A i \in 1..Len(posted') : posted'[i][2]
  BY DEF Handlers, NoSurprise
<1> QED  BY <1>1, <1>2, StepKeeps

-----------------------------------------------------------------------------
(* The handlers, step by step                                              *)

LEMMA ProposeKeeps ==
    ASSUME Handlers, NEW t \in Threads, t \in setting.threads, setting' = setting, Propose(t)
    PROVE  Handlers'
<1>1. pc[t] = "propose" /\ Others(t) /\ TypeOK /\ Relies("propose") /\ Session
  BY BusyAlone DEF Handlers, Propose
<1>2. Goto(t, "idle") /\ "idle" \in Steps
  BY DEF Propose, Steps
<1>3. TypeOK'
  BY <1>1, <1>2, Moved, Zenon DEF TypeOK, Propose, AdvanceState, States
<1>4. Relies("idle")' /\ Session'
  BY <1>1 DEF Relies, Session, Propose, AdvanceState, PrepareSteps, CommitSteps, StartSteps
<1>5. Untimed(setting) => "idle" \notin TimeoutSteps /\ init_timer' = "fired"
  BY <1>1, BusyStarted, Zenon DEF Propose, TimeoutSteps
<1> QED  BY <1>1, <1>2, <1>3, <1>4, <1>5, QuietKeeps DEF Propose

LEMMA BeginKeeps ==
    ASSUME Handlers, NEW t \in Threads, t \in setting.threads, setting' = setting, Begin(t)
    PROVE  Handlers'
<1>1. pc[t] = "queued" /\ Others(t) /\ TypeOK /\ Relies("queued") /\ Session
  BY BusyAlone DEF Handlers, Begin
<1>2. Goto(t, "initiate") /\ "initiate" \in Steps
  BY DEF Begin, Steps, StartSteps
<1>3. TypeOK'
  BY <1>1, <1>2, Moved DEF TypeOK, Begin
<1>4. Relies("initiate")' /\ Session'
  BY <1>1 DEF Relies, Session, Begin, PrepareSteps, CommitSteps, StartSteps
<1>5. Untimed(setting) => "initiate" \notin TimeoutSteps /\ init_timer' = "fired"
  BY <1>1, BusyStarted, Zenon DEF Begin, TimeoutSteps
<1> QED  BY <1>1, <1>2, <1>3, <1>4, <1>5, QuietKeeps DEF Begin

LEMMA PrepareAdvanceKeeps ==
    ASSUME Handlers, NEW t \in Threads, t \in setting.threads, setting' = setting, PrepareAdvance(t)
    PROVE  Handlers'
<1>1. pc[t] = "prepare advance" /\ Others(t) /\ TypeOK /\ Relies("prepare advance") /\ Session
  BY BusyAlone, Zenon DEF Handlers, PrepareAdvance
<1>2. Goto(t, "idle") /\ "idle" \in Steps
  BY Zenon DEF PrepareAdvance, Steps
<1>3. TypeOK'
  BY <1>1, <1>2, Moved, Zenon DEF TypeOK, PrepareAdvance, AdvanceState, States
<1>4. Relies("idle")' /\ Session'
  BY <1>1, Zenon DEF Relies, Session, PrepareAdvance, AdvanceState, PrepareSteps, CommitSteps, StartSteps
<1>5. Untimed(setting) => "idle" \notin TimeoutSteps /\ init_timer' = "fired"
  BY <1>1, BusyStarted, Zenon DEF PrepareAdvance, TimeoutSteps
<1> QED  BY <1>1, <1>2, <1>3, <1>4, <1>5, QuietKeeps, Zenon DEF PrepareAdvance

LEMMA CommitAdvanceKeeps ==
    ASSUME Handlers, NEW t \in Threads, t \in setting.threads, setting' = setting, CommitAdvance(t)
    PROVE  Handlers'
<1>1. pc[t] = "commit advance" /\ Others(t) /\ TypeOK /\ Relies("commit advance") /\ Session
  BY BusyAlone, Zenon DEF Handlers, CommitAdvance
<1>2. Goto(t, "reached") /\ "reached" \in Steps
  BY Zenon DEF CommitAdvance, Steps, StartSteps
<1>3. TypeOK'
  BY <1>1, <1>2, Moved, Zenon DEF TypeOK, CommitAdvance, AdvanceState, States
<1>4. Relies("reached")' /\ Session'
  BY <1>1, Zenon DEF Relies, Session, CommitAdvance, AdvanceState, PrepareSteps, CommitSteps, StartSteps
<1>5. Untimed(setting) => "reached" \notin TimeoutSteps /\ init_timer' = "fired"
  BY <1>1, BusyStarted, Zenon DEF CommitAdvance, TimeoutSteps
<1> QED  BY <1>1, <1>2, <1>3, <1>4, <1>5, QuietKeeps, Zenon DEF CommitAdvance

LEMMA OnQuorumFailedKeeps ==
    ASSUME Handlers, NEW t \in Threads, t \in setting.threads, setting' = setting, OnQuorumFailed(t)
    PROVE  Handlers'
<1>1. pc[t] = "quorum failed" /\ Others(t) /\ TypeOK /\ Relies("quorum failed") /\ Session
  BY BusyAlone, Zenon DEF Handlers, OnQuorumFailed
<1>2. Goto(t, "repropose") /\ "repropose" \in Steps
  BY Zenon DEF OnQuorumFailed, Steps, StartSteps
<1>3. TypeOK'
  BY <1>1, <1>2, Moved, Zenon DEF TypeOK, OnQuorumFailed, AdvanceState, States
<1>4. Relies("repropose")' /\ Session'
  BY <1>1, Zenon DEF Relies, Session, OnQuorumFailed, AdvanceState, PrepareSteps, CommitSteps, StartSteps
<1>5. Untimed(setting) => "repropose" \notin TimeoutSteps /\ init_timer' = "fired"
  BY <1>1, BusyStarted, Zenon DEF OnQuorumFailed, TimeoutSteps
<1> QED  BY <1>1, <1>2, <1>3, <1>4, <1>5, QuietKeeps, Zenon DEF OnQuorumFailed

(* The batch is still being prepared, so the node does not halt.           *)
LEMMA PrePrepareRejectedKeeps ==
    ASSUME Handlers, NEW t \in Threads, t \in setting.threads, setting' = setting, PrePrepareRejected(t)
    PROVE  Handlers'
<1>1. pc[t] = "rejected" /\ Others(t) /\ TypeOK /\ Relies("rejected") /\ Session
  BY BusyAlone DEF Handlers, PrePrepareRejected
<1>2. state = "PRE_PREPARE"
  BY <1>1 DEF Relies, PrepareSteps
<1>3. Goto(t, "repropose") /\ AdvanceState("VOID") /\ "repropose" \in Steps
  BY <1>2 DEF PrePrepareRejected, Steps, StartSteps
<1>4. TypeOK'
  BY <1>1, <1>3, Moved, Zenon DEF TypeOK, PrePrepareRejected, AdvanceState, States
<1>5. Relies("repropose")' /\ Session'
  BY <1>1, <1>2, <1>3 DEF Relies, Session, PrePrepareRejected, AdvanceState, PrepareSteps, CommitSteps, StartSteps
<1>6. Untimed(setting) => "repropose" \notin TimeoutSteps /\ init_timer' = "fired"
  BY <1>1, BusyStarted, Zenon DEF PrePrepareRejected, TimeoutSteps
<1> QED  BY <1>1, <1>3, <1>4, <1>5, <1>6, QuietKeeps DEF PrePrepareRejected

LEMMA CheckTimeoutKeeps ==
    ASSUME Handlers, NEW t \in Threads, t \in setting.threads, setting' = setting, CheckTimeout(t)
    PROVE  Handlers'
<1>0. PICK step : step = IF state = Expected(pc[t]) THEN "quorum failed" ELSE "idle"
  BY Zenon
<1>1. pc[t] \in Callbacks /\ pc[t] # "idle" /\ TypeOK /\ Session
  BY Zenon DEF Handlers, CheckTimeout, Callbacks
<1>2. Others(t)
  BY <1>1, BusyAlone DEF Handlers
<1>3. Goto(t, step) /\ step \in Steps
  BY <1>0, Zenon DEF CheckTimeout, Steps, TimeoutSteps
<1>4. TypeOK'
  BY <1>1, <1>3, Moved, Zenon DEF TypeOK, CheckTimeout
<1>5. Relies(step)' /\ Session'
  BY <1>0, <1>1, Zenon DEF Relies, Session, CheckTimeout, Expected, Callbacks, PrepareSteps, CommitSteps, StartSteps
<1>6. ~Untimed(setting)
  BY <1>1, BusyStarted, Zenon DEF Callbacks, TimeoutSteps
<1>7. UNCHANGED <<setting, popped, reached, posted>>
  BY Zenon DEF CheckTimeout
<1> QED  BY <1>1, <1>2, <1>3, <1>4, <1>5, <1>6, <1>7, QuietKeeps, Zenon

(* Threads that are inside a handler when another one takes an answer:     *)
(* there are none, since they would have set the flag or left the phase.   *)
LEMMA ApproveAlone ==
    ASSUME Handlers, NEW t \in Threads, t \in setting.threads, Alone(setting) \/ Untimed(setting),
           NEW expected \in {"PRE_PREPARE", "POST_PREPARE"}, ProceedWithMessage(expected)
    PROVE  Others(t)
<1>1. CASE Alone(setting)
  BY <1>1, AloneOthers DEF Handlers
<1>2. CASE Untimed(setting)
  <2> SUFFICES ASSUME NEW u \in Threads, pc[u] # "idle"  PROVE FALSE
    BY DEF Others
  <2>1. pc[u] \in Steps /\ Relies(pc[u]) /\ pc[u] \notin TimeoutSteps
    BY <1>2, BusyStarted DEF Handlers, TypeOK
  <2> QED  BY <2>1, Zenon DEF Relies, ProceedWithMessage, Steps, PrepareSteps, CommitSteps, StartSteps, TimeoutSteps
<1> QED  BY <1>1, <1>2

LEMMA ApproveKeeps ==
    ASSUME Handlers, NEW t \in Threads, t \in setting.threads, setting' = setting,
           Alone(setting) \/ Untimed(setting),
           NEW expected \in {"PRE_PREPARE", "POST_PREPARE"},
           NEW step \in IF expected = "PRE_PREPARE" THEN PrepareSteps ELSE CommitSteps,
           Approve(t, expected, step)
    PROVE  Handlers'
<1>1. Others(t) /\ TypeOK /\ Session
  BY ApproveAlone DEF Handlers, Approve
<1>2. Goto(t, step) /\ step \in Steps /\ step \notin TimeoutSteps
  BY Zenon DEF Approve, Steps, PrepareSteps, CommitSteps, TimeoutSteps
<1>3. TypeOK'
  BY <1>1, <1>2, Moved DEF TypeOK, Approve
<1>4. Relies(step)' /\ Session'
  BY <1>1, Zenon DEF Relies, Session, Approve, ProceedWithMessage, PrepareSteps, CommitSteps, StartSteps
<1>5. Untimed(setting) => init_timer' = "fired"
  BY <1>1 DEF Handlers, NoSurprise, TypeOK, Approve, ProceedWithMessage
<1> QED  BY <1>1, <1>2, <1>3, <1>4, <1>5, QuietKeeps DEF Approve

LEMMA StartConsensusKeeps ==
    ASSUME Handlers, NEW t \in Threads, t \in setting.threads, setting' = setting,
           Alone(setting) \/ Untimed(setting), StartConsensus(t)
    PROVE  Handlers'
<1>1. TypeOK /\ Session
  BY DEF Handlers
<1>2. Others(t)
  <2>1. CASE Alone(setting)
    BY <2>1, AloneOthers DEF Handlers
  <2>2. CASE Untimed(setting)
    BY <2>2 DEF Handlers, NoSurprise, StartConsensus, Others
  <2> QED  BY <2>1, <2>2
<1>3. Goto(t, "initiate") /\ "initiate" \in Steps
  BY DEF StartConsensus, Steps, StartSteps
<1>4. TypeOK'
  BY <1>1, <1>3, Moved DEF TypeOK, StartConsensus, States
<1>5. Relies("initiate")' /\ Session'
  BY <1>1 DEF Relies, Session, StartConsensus, PrepareSteps, CommitSteps, StartSteps
<1>6. "initiate" \notin TimeoutSteps /\ init_timer' = "fired"
  BY DEF StartConsensus, TimeoutSteps
<1> QED  BY <1>1, <1>2, <1>3, <1>4, <1>5, <1>6, QuietKeeps DEF StartConsensus

LEMMA OnMessageQueuedKeeps ==
    ASSUME Handlers, NEW t \in Threads, t \in setting.threads, setting' = setting,
           Alone(setting) \/ Untimed(setting), OnMessageQueued(t)
    PROVE  Handlers'
<1>1. TypeOK /\ Session /\ ~Untimed(setting)
  BY DEF Handlers, OnMessageQueued, Untimed
<1>2. Others(t)
  BY <1>1, AloneOthers DEF Handlers
<1>3. Goto(t, "queued") /\ "queued" \in Steps
  BY DEF OnMessageQueued, Steps, StartSteps
<1>4. TypeOK'
  BY <1>1, <1>3, Moved DEF TypeOK, OnMessageQueued
<1>5. Relies("queued")' /\ Session'
  BY <1>1 DEF Relies, Session, OnMessageQueued, PrepareSteps, CommitSteps, StartSteps
<1> QED  BY <1>1, <1>2, <1>3, <1>4, <1>5, QuietKeeps DEF OnMessageQueued

LEMMA CycleTimersTyped ==
    ASSUME Handlers, CycleTimers
    PROVE  /\ posted' \in Seq(Callbacks \X BOOLEAN)
           /\ timer' \in Callbacks
           /\ Untimed(setting) => \A i \in 1..Len(posted') : posted'[i][2]
<1>1. TypeOK /\ posted' = Aborted
  BY DEF Handlers, CycleTimers
<1>2. Untimed(setting) => \A i \in 1..Len(posted) : posted[i][2]
  BY DEF Handlers, NoSurprise
<1>3. timer' \in Callbacks
  BY DEF CycleTimers, Callbacks
<1> QED  BY <1>1, <1>2, <1>3, AbortedKeeps

LEMMA InitiateKeeps ==
    ASSUME Handlers, NEW t \in Threads, t \in setting.threads, setting' = setting, Initiate(t)
    PROVE  Handlers'
<1>1. pc[t] \in {"initiate", "repropose"} /\ TypeOK /\ Relies(pc[t]) /\ Session /\ Rounds
  BY DEF Handlers, Initiate
<1>2. Others(t)
  BY <1>1, BusyAlone DEF Handlers
<1>3. Goto(t, "propose") /\ "propose" \in Steps
  BY DEF Initiate, Steps, StartSteps
<1>4. /\ posted' \in Seq(Callbacks \X BOOLEAN)
      /\ timer' \in Callbacks
      /\ Untimed(setting) => \A i \in 1..Len(posted') : posted'[i][2]
  BY CycleTimersTyped DEF Initiate
<1>5. batch' = popped + 1
  BY <1>1, Zenon DEF Initiate, Relies
<1>6. TypeOK'
  BY <1>1, <1>3, <1>4, <1>5, Moved DEF TypeOK, Initiate
<1>7. Relies("propose")' /\ Session' /\ Rounds'
  BY <1>1, <1>5, Zenon DEF Relies, Session, Rounds, Initiate, PrepareSteps, CommitSteps, StartSteps
<1>8. Untimed(setting) => "propose" \notin TimeoutSteps /\ init_timer' = "fired"
  BY <1>1, BusyStarted, Zenon DEF Initiate, TimeoutSteps
<1> QED  BY <1>2, <1>3, <1>4, <1>6, <1>7, <1>8, StepKeeps

LEMMA PrepareTimerKeeps ==
    ASSUME Handlers, NEW t \in Threads, t \in setting.threads, setting' = setting, PrepareTimer(t)
    PROVE  Handlers'
<1>1. pc[t] = "prepare timer" /\ Others(t) /\ TypeOK /\ Relies("prepare timer") /\ Session /\ Rounds
  BY BusyAlone, Zenon DEF Handlers, PrepareTimer
<1>2. Goto(t, "prepare advance") /\ "prepare advance" \in Steps
  BY Zenon DEF PrepareTimer, Steps, PrepareSteps
<1>3. /\ posted' \in Seq(Callbacks \X BOOLEAN)
      /\ timer' \in Callbacks
      /\ Untimed(setting) => \A i \in 1..Len(posted') : posted'[i][2]
  BY CycleTimersTyped, Zenon DEF PrepareTimer
<1>4. TypeOK'
  BY <1>1, <1>2, <1>3, Moved, Zenon DEF TypeOK, PrepareTimer
<1>5. Relies("prepare advance")' /\ Session' /\ Rounds'
  BY <1>1, Zenon DEF Relies, Session, Rounds, PrepareTimer, PrepareSteps, CommitSteps, StartSteps
<1>6. Untimed(setting) => "prepare advance" \notin TimeoutSteps /\ init_timer' = "fired"
  BY <1>1, BusyStarted, Zenon DEF PrepareTimer, TimeoutSteps
<1> QED  BY <1>1, <1>2, <1>3, <1>4, <1>5, <1>6, StepKeeps, Zenon

LEMMA CancelKeeps ==
    ASSUME Handlers, NEW t \in Threads, t \in setting.threads, setting' = setting, Cancel(t)
    PROVE  Handlers'
<1>0. PICK step : step = AfterCancel(pc[t])
  OBVIOUS
<1>1. pc[t] \in {"prepare cancel", "rejected cancel", "commit cancel"} /\ TypeOK /\ Relies(pc[t]) /\ Session /\ Rounds
  BY Zenon DEF Handlers, Cancel
<1>2. Others(t)
  BY <1>1, BusyAlone, Zenon DEF Handlers
<1>3. Goto(t, step) /\ step \in Steps /\ step \notin TimeoutSteps
  BY <1>0, <1>1, Zenon DEF Cancel, AfterCancel, Steps, PrepareSteps, CommitSteps, TimeoutSteps
<1>4. /\ posted' = Aborted
      /\ timer' = "none" /\ timer_cancelled' \in BOOLEAN
  BY Zenon DEF Cancel, CancelTimer
<1>5. posted' \in Seq(Callbacks \X BOOLEAN)
  BY <1>1, <1>4, AbortedKeeps, Zenon
<1>6. Untimed(setting) => init_timer = "fired" /\ \A i \in 1..Len(posted) : posted[i][2]
  BY <1>1, BusyStarted, Zenon
<1>7. Untimed(setting) => init_timer' = "fired" /\ \A i \in 1..Len(posted') : posted'[i][2]
  BY <1>1, <1>4, <1>6, AbortedKeeps, Zenon DEF Cancel
<1>8. Relies(step)' /\ Session' /\ Rounds'
  BY <1>0, <1>1, Zenon DEF Relies, Session, Rounds, Cancel, AfterCancel, PrepareSteps, CommitSteps, StartSteps
<1>9. TypeOK'
  BY <1>1, <1>3, <1>4, <1>5, Moved, ZenonT(30) DEF TypeOK, Cancel
<1> QED  BY <1>2, <1>3, <1>7, <1>8, <1>9, StepKeeps

(* OnConsensusReached ends the round at the front.                         *)
LEMMA ConsensusReachedKeeps ==
    ASSUME Handlers, NEW t \in Threads, t \in setting.threads, setting' = setting, ConsensusReached(t)
    PROVE  Handlers'
<1>0. PICK step \in {"idle", "queued"} : Goto(t, step)
  BY DEF ConsensusReached
<1>1. pc[t] = "reached" /\ Others(t) /\ TypeOK /\ Relies("reached") /\ Rounds
  BY BusyAlone DEF Handlers, ConsensusReached
<1>2. step \in Steps /\ step \notin TimeoutSteps
  BY Zenon DEF Steps, StartSteps, TimeoutSteps
<1>3. batch = popped + 1 /\ state = "POST_COMMIT"
  BY <1>1 DEF Relies
<1>4. reached' \in Seq(Nat) /\ Rounds'
  <2>1. reached \in Seq(Nat) /\ batch \in Nat /\ popped \in Nat
    BY <1>1 DEF TypeOK
  <2>2. reached' = Append(reached, batch) /\ popped' = popped + 1
    BY DEF ConsensusReached
  <2>3. /\ reached' \in Seq(Nat)
        /\ Len(reached') = Len(reached) + 1
        /\ \A i \in 1..Len(reached) : reached'[i] = reached[i]
        /\ reached'[Len(reached) + 1] = batch
    BY <2>1, <2>2
  <2>4. Len(reached) = popped /\ \A i \in 1..Len(reached) : reached[i] = i
    BY <1>1 DEF Rounds
  <2>5. \A i \in 1..Len(reached') : reached'[i] = i
    BY <1>3, <2>1, <2>3, <2>4
  <2> QED  BY <2>1, <2>2, <2>3, <2>4, <2>5 DEF Rounds
<1>5. TypeOK'
  <2>1. pc' \in [Threads -> Steps] /\ popped' \in Nat /\ batch' \in Nat
    BY <1>0, <1>1, <1>2, Moved DEF TypeOK, ConsensusReached
  <2> QED  BY <1>1, <1>4, <2>1, Zenon DEF TypeOK, ConsensusReached
<1>6. Relies(step)' /\ Session'
  BY <1>3, Zenon DEF Relies, Session, ConsensusReached, PrepareSteps, CommitSteps, StartSteps
<1>7. Untimed(setting) => init_timer' = "fired" /\ \A i \in 1..Len(posted') : posted'[i][2]
  BY <1>1, BusyStarted DEF ConsensusReached
<1> QED  BY <1>0, <1>1, <1>2, <1>4, <1>5, <1>6, <1>7, StepKeeps

(* Without timeouts the callback was aborted and changes nothing else.     *)
LEMMA OnTimeoutUntimed ==
    ASSUME Handlers, NEW t \in Threads, OnTimeout(t), Untimed(setting)
    PROVE  pc' = pc /\ \A i \in 1..Len(posted') : posted'[i][2]
<1>1. TypeOK /\ posted # <<>> /\ posted' = Tail(posted) /\ pc[t] = "idle"
  BY DEF Handlers, OnTimeout
<1>2. \A i \in 1..Len(posted) : posted[i][2]
  BY DEF Handlers, NoSurprise
<1>3. Len(posted) \in Nat \ {0} /\ Head(posted) = posted[1] /\ Len(posted') = Len(posted) - 1
  BY <1>1, PostedTail
<1>4. \A i \in 1..Len(posted') : posted'[i] = posted[i + 1]
  BY <1>1, PostedTail
<1>5. Head(posted)[2]
  BY <1>2, <1>3
<1>6. Goto(t, "idle")
  BY <1>5 DEF OnTimeout
<1>7. pc' = pc
  BY <1>1, <1>6 DEF TypeOK, Goto
<1> QED  BY <1>2, <1>3, <1>4, <1>7

LEMMA OnTimeoutKeeps ==
    ASSUME Handlers, NEW t \in Threads, t \in setting.threads, setting' = setting,
           Alone(setting) \/ Untimed(setting), OnTimeout(t)
    PROVE  Handlers'
<1>1. TypeOK /\ Session /\ Rounds /\ posted # <<>> /\ posted' = Tail(posted)
  BY DEF Handlers, OnTimeout
<1>2. posted' \in Seq(Callbacks \X BOOLEAN) /\ Head(posted) \in Callbacks \X BOOLEAN
  BY <1>1, PostedTail
<1>3. Session' /\ Rounds'
  BY <1>1 DEF Session, Rounds, OnTimeout
<1>4. CASE Untimed(setting)
  <2>1. pc' = pc /\ \A i \in 1..Len(posted') : posted'[i][2]
    BY <1>4, OnTimeoutUntimed
  <2>2. TypeOK'
    BY <1>1, <1>2, <2>1, Zenon DEF TypeOK, OnTimeout
  <2>3. OneBusy' /\ (\A u \in Threads : Relies(pc[u])')
    BY <2>1, Zenon DEF Handlers, OneBusy, Relies, OnTimeout
  <2>4. NoSurprise'
    BY <2>1 DEF Handlers, NoSurprise, OnTimeout
  <2> QED  BY <1>3, <2>2, <2>3, <2>4 DEF Handlers
<1>5. CASE Alone(setting) /\ ~Untimed(setting)
  <2>1. Others(t)
    BY <1>5, AloneOthers DEF Handlers
  <2>2. PICK step : step = IF timer_cancelled \/ Head(posted)[2] THEN "idle" ELSE Head(posted)[1]
    OBVIOUS
  <2>3. Goto(t, step)
    BY <2>2 DEF OnTimeout
  <2>4. step \in {"idle"} \cup Callbacks
    BY <1>2, <2>2
  <2>5. step \in Steps
    BY <2>4, Zenon DEF Callbacks, Steps, TimeoutSteps
  <2>6. TypeOK'
    BY <1>1, <1>2, <2>3, <2>5, Moved, Zenon DEF TypeOK, OnTimeout
  <2>7. Relies(step)'
    BY <2>4, Zenon DEF Relies, Callbacks, PrepareSteps, CommitSteps, StartSteps
  <2> QED  BY <1>3, <1>5, <2>1, <2>3, <2>6, <2>7, StepKeeps
<1> QED  BY <1>4, <1>5

LEMMA ExpireKeeps ==
    ASSUME Handlers, setting' = setting, Expire
    PROVE  Handlers'
<1>1. TypeOK /\ timer \in Callbacks /\ posted' = Append(posted, <<timer, FALSE>>) /\ ~Untimed(setting)
  BY DEF Handlers, TypeOK, Expire, Untimed
<1>2. posted' \in Seq(Callbacks \X BOOLEAN)
  BY <1>1, PostedAppend, Zenon
<1>3. TypeOK'
  BY <1>1, <1>2 DEF TypeOK, Expire
<1> QED  BY <1>1, <1>3, Zenon DEF Handlers, Rounds, OneBusy, Session, Relies, NoSurprise, Expire

LEMMA HandlersNext ==
    ASSUME OneAtATime, Handlers, [Next]_vars
    PROVE  Handlers'
<1>1. CASE UNCHANGED vars
  BY <1>1, ZenonT(30) DEF vars, Handlers, TypeOK, Rounds, OneBusy, Session, Relies, NoSurprise
<1>2. CASE Next
  <2>1. setting' = setting /\ setting \in Settings
    BY <1>2 DEF Next, Handlers, TypeOK
  <2>2. /\ Alone(setting) \/ Untimed(setting)
        /\ \A t \in setting.threads : t \in Threads
    BY <2>1, SettingsAssumption DEF OneAtATime, Setting
  <2>3. CASE Expire
    BY <2>1, <2>3, ExpireKeeps
  <2>4. ASSUME NEW t \in setting.threads, ThreadStep(t)
        PROVE  Handlers'
    <3>1. t \in Threads
      BY <2>2
    <3>2. CASE Initiate(t)            BY <2>1, <3>1, <3>2, InitiateKeeps
    <3>3. CASE Propose(t)             BY <2>1, <3>1, <3>3, ProposeKeeps
    <3>4. CASE StartConsensus(t)      BY <2>1, <2>2, <3>1, <3>4, StartConsensusKeeps
    <3>5. CASE OnMessageQueued(t)     BY <2>1, <2>2, <3>1, <3>5, OnMessageQueuedKeeps
    <3>6. CASE Begin(t)               BY <2>1, <3>1, <3>6, BeginKeeps
    <3>7. CASE OnPrepare(t)
      BY <2>1, <2>2, <3>1, <3>7, ApproveKeeps, Zenon DEF OnPrepare, PrepareSteps
    <3>8. CASE OnRejection(t)
      BY <2>1, <2>2, <3>1, <3>8, ApproveKeeps, Zenon DEF OnRejection, PrepareSteps
    <3>9. CASE OnCommit(t)
      BY <2>1, <2>2, <3>1, <3>9, ApproveKeeps, ZenonT(30) DEF OnCommit, CommitSteps
    <3>10. CASE Cancel(t)             BY <2>1, <3>1, <3>10, CancelKeeps
    <3>11. CASE PrepareTimer(t)       BY <2>1, <3>1, <3>11, PrepareTimerKeeps
    <3>12. CASE PrepareAdvance(t)     BY <2>1, <3>1, <3>12, PrepareAdvanceKeeps
    <3>13. CASE PrePrepareRejected(t) BY <2>1, <3>1, <3>13, PrePrepareRejectedKeeps
    <3>14. CASE CommitAdvance(t)      BY <2>1, <3>1, <3>14, CommitAdvanceKeeps
    <3>15. CASE ConsensusReached(t)   BY <2>1, <3>1, <3>15, ConsensusReachedKeeps
    <3>16. CASE OnTimeout(t)          BY <2>1, <2>2, <3>1, <3>16, OnTimeoutKeeps
    <3>17. CASE CheckTimeout(t)       BY <2>1, <3>1, <3>17, CheckTimeoutKeeps
    <3>18. CASE OnQuorumFailed(t)     BY <2>1, <3>1, <3>18, OnQuorumFailedKeeps
    <3> QED  BY <2>4, <3>2, <3>3, <3>4, <3>5, <3>6, <3>7, <3>8, <3>9, <3>10, <3>11, <3>12,
                <3>13, <3>14, <3>15, <3>16, <3>17, <3>18, Zenon DEF ThreadStep
  <2> QED  BY <1>2, <2>3, <2>4 DEF Next
<1> QED  BY <1>1, <1>2

LEMMA InitHandlers ==
    ASSUME Init
    PROVE  Handlers
<1>1. TypeOK
  <2>1. posted \in Seq(Callbacks \X BOOLEAN) /\ reached \in Seq(Nat)
    BY DEF Init
  <2>2. pc \in [Threads -> Steps]
    BY DEF Init, Steps
  <2> QED  BY <2>1, <2>2, Zenon DEF Init, TypeOK, States
<1>2. Rounds
  BY DEF Init, Rounds
<1>3. OneBusy /\ Session /\ NoSurprise
  BY DEF Init, OneBusy, Session, NoSurprise, TimeoutSteps
<1>4. \A t \in Threads : Relies(pc[t])
  BY DEF Init, Relies, PrepareSteps, CommitSteps, StartSteps
<1> QED  BY <1>1, <1>2, <1>3, <1>4 DEF Handlers

(* One thread at a time is inside a handler and finds what it relies on.   *)
THEOREM PrimaryHandlers ==
    ASSUME OneAtATime
    PROVE  Spec => []Handlers
<1>1. Init => Handlers
  BY InitHandlers
<1>2. Handlers /\ [Next]_vars => Handlers'
  BY HandlersNext
<1> QED  BY <1>1, <1>2, PTL DEF Spec

(* OnConsensusReached is called once per round, with the round's batch.    *)
THEOREM PrimaryOncePerRound ==
    ASSUME OneAtATime
    PROVE  Spec => []OncePerRound
<1>1. Handlers => OncePerRound
  BY DEF Handlers, Rounds, OncePerRound
<1> QED  BY <1>1, PrimaryHandlers, PTL

(* A rejected batch is split up in the state it was rejected in: the node  *)
(* never halts in OnPrePrepareRejected.                                    *)
THEOREM PrimaryNoHalt ==
    ASSUME OneAtATime
    PROVE  Spec => []NoHalt
<1>1. Handlers => NoHalt
  BY Zenon DEF Handlers, Relies, NoHalt
<1> QED  BY <1>1, PrimaryHandlers, PTL

(* One thread at a time carries out what follows a quorum.                 *)
THEOREM PrimaryOneTransition ==
    ASSUME OneAtATime
    PROVE  Spec => []OneTransition
<1>1. ASSUME Handlers  PROVE OneTransition
  <2> DEFINE S == {t \in Threads : pc[t] \in {"prepare cancel", "prepare timer", "prepare advance",
                                             "rejected cancel", "rejected", "commit cancel",
                                             "commit advance"}}
  <2>1. \A t, u \in S : t = u
    BY <1>1, Zenon DEF Handlers, OneBusy
  <2>2. S = {} \/ \E t : S = {t}
    BY <2>1, Zenon
  <2> HIDE DEF S
  <2>3. Cardinality(S) <= 1
    BY <2>2, FS_EmptySet, FS_Singleton
  <2> QED  BY <2>3, Zenon DEF OneTransition, S
<1> QED  BY <1>1, PrimaryHandlers, PTL

-----------------------------------------------------------------------------
(* The timer                                                               *)

(* TimerSet for a thread that is the only busy one, at the given step      *)
TimerSetAt(step) ==
    /\ FlagHasCallback
    /\ init_timer = "pending" => /\ state = "INITIALIZING"
                                 /\ timer = "none" /\ posted = <<>>
                                 /\ step = "idle"
    /\ init_timer = "fired" => state # "INITIALIZING"
    /\ TimerAt(step)
    /\ state = "PRE_PREPARE" /\ step \in {"idle", "PostPrepare"} => Armed("PrePrepare")
    /\ state = "POST_PREPARE" /\ step \in {"idle", "PrePrepare"} => Armed("PostPrepare")
    /\ state = "POST_COMMIT" /\ step # "propose" => timer = "none"
    /\ state = "VOID" => step \notin {"idle", "PrePrepare", "PostPrepare"}

LEMMA TimerSetThread ==
    ASSUME TimerSet, NEW t \in Threads, Others(t)
    PROVE  TimerSetAt(pc[t])
<1>1. \A S : Within(S) <=> pc[t] \in {"idle"} \cup S
  BY DEF Within, Others
<1>2. /\ Within({"PostPrepare"}) <=> pc[t] \in {"idle", "PostPrepare"}
      /\ Within({"PrePrepare"}) <=> pc[t] \in {"idle", "PrePrepare"}
      /\ Within(Callbacks) <=> pc[t] \in {"idle", "PrePrepare", "PostPrepare"}
  BY <1>1 DEF Callbacks
<1>3. (\A u \in Threads : pc[u] # "propose") <=> pc[t] # "propose"
  BY DEF Others
<1> HIDE DEF Within
<1> QED  BY <1>2, <1>3 DEF TimerSet, TimerSetAt

LEMMA ThreadTimerSet ==
    ASSUME TypeOK, NEW t \in Threads, NEW step, Goto(t, step), Others(t), TimerSetAt(step)'
    PROVE  TimerSet'
<1>0. pc'[t] = step /\ \A u \in Threads : u # t => pc'[u] = "idle"
  BY Moved DEF Others
<1>1. /\ Within({"PostPrepare"})' => step \in {"idle", "PostPrepare"}
      /\ Within({"PrePrepare"})' => step \in {"idle", "PrePrepare"}
      /\ Within(Callbacks)' => step \in {"idle", "PrePrepare", "PostPrepare"}
  BY <1>0 DEF Within, Callbacks
<1>2. (\A u \in Threads : pc'[u] # "propose") => step # "propose"
  BY <1>0
<1>3. \A u \in Threads : TimerAt(pc[u])'
  BY <1>0, Zenon DEF TimerSetAt, TimerAt
<1>4. step = "idle" => \A u \in Threads : pc'[u] = "idle"
  BY <1>0
<1> QED  BY <1>1, <1>2, <1>3, <1>4 DEF TimerSet, TimerSetAt

(* What a step keeps that does not touch the timer                         *)
LEMMA TimerUntouched ==
    ASSUME UNCHANGED <<timer, posted, timer_cancelled>>
    PROVE  /\ FlagHasCallback' = FlagHasCallback
           /\ \A c : Armed(c)' = Armed(c)
<1>1. FlagHasCallback' = FlagHasCallback
  BY DEF FlagHasCallback
<1>2. \A c : Armed(c)' = Armed(c)
  BY DEF Armed
<1> QED  BY <1>1, <1>2

(* The steps that do not touch the timer.  Those that begin or end the     *)
(* wait of a phase find the timer as the phase needs it.                   *)
LEMMA QuietTimer ==
    ASSUME Handlers, TimerSet, NEW t \in Threads, Others(t), setting' = setting,
           setting.fallback => setting.clients = {}
    PROVE  \/ Propose(t) \/ StartConsensus(t) \/ OnMessageQueued(t) \/ Begin(t)
           \/ PrepareAdvance(t) \/ CommitAdvance(t) \/ OnQuorumFailed(t)
           => TimerSet'
<1>1. TypeOK /\ Session /\ Relies(pc[t])
  BY DEF Handlers
<1>2. TimerSetAt(pc[t])
  BY TimerSetThread
<1>3. ASSUME Propose(t)  PROVE TimerSet'
  <2>1. Goto(t, "idle") /\ UNCHANGED <<timer, posted, timer_cancelled>>
    BY <1>3 DEF Propose
  <2>2. TimerSetAt("idle")'
    BY <1>3, <1>1, <1>2, <2>1, TimerUntouched DEF Propose, AdvanceState, TimerSetAt, TimerAt, Relies, Session, StartSteps, TypeOK
  <2> QED  BY <1>1, <2>1, <2>2, ThreadTimerSet
<1>4. ASSUME StartConsensus(t)  PROVE TimerSet'
  <2>1. Goto(t, "initiate") /\ UNCHANGED <<timer, posted, timer_cancelled>>
    BY <1>4 DEF StartConsensus
  <2>2. TimerSetAt("initiate")'
    BY <1>4, <1>1, <1>2, <2>1, TimerUntouched DEF StartConsensus, AdvanceState, TimerSetAt, TimerAt, Relies, Session, StartSteps, TypeOK
  <2> QED  BY <1>1, <2>1, <2>2, ThreadTimerSet
<1>5. ASSUME OnMessageQueued(t)  PROVE TimerSet'
  <2>1. Goto(t, "queued") /\ UNCHANGED <<timer, posted, timer_cancelled>>
    BY <1>5 DEF OnMessageQueued
  <2>2. TimerSetAt("queued")'
    BY <1>5, <1>1, <1>2, <2>1, TimerUntouched DEF OnMessageQueued, AdvanceState, TimerSetAt, TimerAt, Relies, Session, StartSteps, TypeOK
  <2> QED  BY <1>1, <2>1, <2>2, ThreadTimerSet
<1>6. ASSUME Begin(t)  PROVE TimerSet'
  <2>1. Goto(t, "initiate") /\ UNCHANGED <<timer, posted, timer_cancelled>>
    BY <1>6 DEF Begin
  <2>2. TimerSetAt("initiate")'
    BY <1>6, <1>1, <1>2, <2>1, TimerUntouched DEF Begin, AdvanceState, TimerSetAt, TimerAt, Relies, Session, StartSteps, TypeOK
  <2> QED  BY <1>1, <2>1, <2>2, ThreadTimerSet
<1>7. ASSUME PrepareAdvance(t)  PROVE TimerSet'
  <2>1. Goto(t, "idle") /\ UNCHANGED <<timer, posted, timer_cancelled>>
    BY <1>7, Zenon DEF PrepareAdvance
  <2>2. TimerSetAt("idle")'
    BY <1>7, <1>1, <1>2, <2>1, TimerUntouched, ZenonT(30) DEF PrepareAdvance, AdvanceState, TimerSetAt, TimerAt, Relies, Session, StartSteps, TypeOK
  <2> QED  BY <1>1, <2>1, <2>2, ThreadTimerSet
<1>8. ASSUME CommitAdvance(t)  PROVE TimerSet'
  <2>1. Goto(t, "reached") /\ UNCHANGED <<timer, posted, timer_cancelled>>
    BY <1>8, Zenon DEF CommitAdvance
  <2>2. TimerSetAt("reached")'
    BY <1>8, <1>1, <1>2, <2>1, TimerUntouched, Zenon DEF CommitAdvance, AdvanceState, TimerSetAt, TimerAt, Relies, Session, StartSteps, TypeOK
  <2> QED  BY <1>1, <2>1, <2>2, ThreadTimerSet
<1>9. ASSUME OnQuorumFailed(t)  PROVE TimerSet'
  <2>1. Goto(t, "repropose") /\ UNCHANGED <<timer, posted, timer_cancelled>>
    BY <1>9, Zenon DEF OnQuorumFailed
  <2>2. TimerSetAt("repropose")'
    BY <1>9, <1>1, <1>2, <2>1, TimerUntouched, Zenon DEF OnQuorumFailed, AdvanceState, TimerSetAt, TimerAt, Relies, Session, StartSteps, TypeOK
  <2> QED  BY <1>1, <2>1, <2>2, ThreadTimerSet
<1> QED  BY <1>3, <1>4, <1>5, <1>6, <1>7, <1>8, <1>9

LEMMA ApproveTimer ==
    ASSUME Handlers, TimerSet, NEW t \in Threads, Others(t)
    PROVE  OnPrepare(t) \/ OnRejection(t) \/ OnCommit(t) => TimerSet'
<1>1. TypeOK /\ Session /\ Relies(pc[t])
  BY DEF Handlers
<1>2. TimerSetAt(pc[t])
  BY TimerSetThread
<1>3. ASSUME OnPrepare(t)  PROVE TimerSet'
  <2>1. Goto(t, "prepare cancel") /\ UNCHANGED <<timer, posted, timer_cancelled>>
    BY <1>3, Zenon DEF OnPrepare, Approve
  <2>2. TimerSetAt("prepare cancel")'
    BY <1>3, <1>1, <1>2, <2>1, TimerUntouched, Zenon DEF OnPrepare, Approve, ProceedWithMessage, TimerSetAt, TimerAt, Relies, Session, StartSteps, TypeOK
  <2> QED  BY <1>1, <2>1, <2>2, ThreadTimerSet, Zenon
<1>4. ASSUME OnRejection(t)  PROVE TimerSet'
  <2>1. Goto(t, "rejected cancel") /\ UNCHANGED <<timer, posted, timer_cancelled>>
    BY <1>4, Zenon DEF OnRejection, Approve
  <2>2. TimerSetAt("rejected cancel")'
    BY <1>4, <1>1, <1>2, <2>1, TimerUntouched, Zenon DEF OnRejection, Approve, ProceedWithMessage, TimerSetAt, TimerAt, Relies, Session, StartSteps, TypeOK
  <2> QED  BY <1>1, <2>1, <2>2, ThreadTimerSet, Zenon
<1>5. ASSUME OnCommit(t)  PROVE TimerSet'
  <2>1. Goto(t, "commit cancel") /\ UNCHANGED <<timer, posted, timer_cancelled>>
    BY <1>5, Zenon DEF OnCommit, Approve
  <2>2. TimerSetAt("commit cancel")'
    BY <1>5, <1>1, <1>2, <2>1, TimerUntouched, ZenonT(30) DEF OnCommit, Approve, ProceedWithMessage, TimerSetAt, TimerAt, Relies, Session, StartSteps, TypeOK
  <2> QED  BY <1>1, <2>1, <2>2, ThreadTimerSet, Zenon
<1> QED  BY <1>3, <1>4, <1>5

LEMMA HandlerEndTimer ==
    ASSUME Handlers, TimerSet, NEW t \in Threads, Others(t)
    PROVE  PrePrepareRejected(t) \/ ConsensusReached(t) \/ CheckTimeout(t) => TimerSet'
<1>1. TypeOK /\ Session /\ Relies(pc[t])
  BY DEF Handlers
<1>2. TimerSetAt(pc[t])
  BY TimerSetThread
<1>3. ASSUME PrePrepareRejected(t)  PROVE TimerSet'
  <2>1. state = "PRE_PREPARE"
    BY <1>1, <1>3 DEF PrePrepareRejected, Relies, PrepareSteps
  <2>2. Goto(t, "repropose") /\ UNCHANGED <<timer, posted, timer_cancelled>>
    BY <1>3, <2>1 DEF PrePrepareRejected
  <2>3. TimerSetAt("repropose")'
    BY <1>1, <1>2, <1>3, <2>1, <2>2, TimerUntouched DEF PrePrepareRejected, AdvanceState, TimerSetAt, TimerAt, TypeOK
  <2> QED  BY <1>1, <2>2, <2>3, ThreadTimerSet
<1>4. ASSUME ConsensusReached(t)  PROVE TimerSet'
  <2>1. PICK step \in {"idle", "queued"} : Goto(t, step)
    BY <1>4 DEF ConsensusReached
  <2>2. UNCHANGED <<timer, posted, timer_cancelled>> /\ state = "POST_COMMIT"
    BY <1>1, <1>4 DEF ConsensusReached, Relies
  <2>3. TimerSetAt(step)'
    BY <1>1, <1>2, <1>4, <2>2, TimerUntouched, Zenon DEF ConsensusReached, TimerSetAt, TimerAt, TypeOK
  <2> QED  BY <1>1, <2>1, <2>3, ThreadTimerSet
<1>5. ASSUME CheckTimeout(t)  PROVE TimerSet'
  <2>1. PICK step : step = IF state = Expected(pc[t]) THEN "quorum failed" ELSE "idle"
    BY Zenon
  <2>2. Goto(t, step) /\ UNCHANGED <<timer, posted, timer_cancelled>>
    BY <1>5, <2>1, Zenon DEF CheckTimeout
  <2>3. TimerSetAt(step)'
    BY <1>1, <1>2, <1>5, <2>1, <2>2, TimerUntouched, Zenon DEF CheckTimeout, Expected, TimerSetAt, TimerAt, TypeOK
  <2> QED  BY <1>1, <2>2, <2>3, ThreadTimerSet
<1> QED  BY <1>3, <1>4, <1>5

(* Callbacks posted as aborted do not change what the flag is meant for.   *)
LEMMA AbortedFlag ==
    ASSUME TypeOK, FlagHasCallback, posted' = Aborted, timer_cancelled' = timer_cancelled
    PROVE  FlagHasCallback'
<1>1. ASSUME timer_cancelled  PROVE \E i \in 1..Len(Aborted) : ~Aborted[i][2]
  <2>1. PICK i \in 1..Len(posted) : ~posted[i][2]
    BY <1>1 DEF FlagHasCallback
  <2>2. i \in 1..Len(Aborted) /\ Aborted[i] = posted[i]
    BY AbortedKeeps
  <2> QED  BY <2>1, <2>2
<1> QED  BY <1>1 DEF FlagHasCallback

(* InitiateConsensus and OnPrepare set the timer, OnPrePrepareRejected and *)
(* the ends of the phases cancel it.                                       *)
LEMMA SetTimer ==
    ASSUME Handlers, TimerSet, NEW t \in Threads, Others(t)
    PROVE  Initiate(t) \/ PrepareTimer(t) => TimerSet'
<1>1. TypeOK /\ Session /\ Relies(pc[t])
  BY DEF Handlers
<1>2. TimerSetAt(pc[t])
  BY TimerSetThread
<1>3. ASSUME Initiate(t)  PROVE TimerSet'
  <2>1. Goto(t, "propose") /\ FlagHasCallback'
    BY <1>1, <1>2, <1>3, AbortedFlag DEF Initiate, CycleTimers, TimerSetAt
  <2>2. init_timer = "fired" /\ state \in {"VOID", "POST_COMMIT"}
    BY <1>1, <1>2, <1>3, Zenon DEF Initiate, TimerSetAt, TypeOK, Relies, StartSteps
  <2>3. timer' = "PrePrepare"
    BY <1>3, <2>2 DEF Initiate, CycleTimers, StateReadyForConsensus
  <2>4. TimerSetAt("propose")'
    BY <1>3, <2>1, <2>2, <2>3 DEF Initiate, TimerSetAt, TimerAt, Armed
  <2> QED  BY <1>1, <2>1, <2>4, ThreadTimerSet
<1>4. ASSUME PrepareTimer(t)  PROVE TimerSet'
  <2>1. Goto(t, "prepare advance") /\ FlagHasCallback'
    BY <1>1, <1>2, <1>4, AbortedFlag, Zenon DEF PrepareTimer, CycleTimers, TimerSetAt
  <2>2. init_timer = "fired" /\ state = "PRE_PREPARE"
    BY <1>1, <1>2, <1>4, Zenon DEF PrepareTimer, TimerSetAt, TypeOK, Relies, PrepareSteps
  <2>3. timer' = "PostPrepare"
    BY <1>4, <2>2, Zenon DEF PrepareTimer, CycleTimers, StateReadyForConsensus
  <2>4. TimerSetAt("prepare advance")'
    BY <1>4, <2>1, <2>2, <2>3, Zenon DEF PrepareTimer, TimerSetAt, TimerAt, Armed
  <2> QED  BY <1>1, <2>1, <2>4, ThreadTimerSet, Zenon
<1> QED  BY <1>3, <1>4

LEMMA CancelsTimer ==
    ASSUME Handlers, TimerSet, NEW t \in Threads, Others(t), Cancel(t)
    PROVE  TimerSet'
<1>1. TypeOK /\ Session /\ Relies(pc[t]) /\ TimerSetAt(pc[t])
  BY TimerSetThread DEF Handlers
<1>2. PICK step : step = AfterCancel(pc[t])
  OBVIOUS
<1>3. Goto(t, step) /\ posted' = Aborted /\ timer' = "none"
      /\ timer_cancelled' = (timer_cancelled \/ timer = "none")
  BY <1>2, Zenon DEF Cancel, CancelTimer
<1>4. pc[t] \in {"prepare cancel", "rejected cancel", "commit cancel"}
  BY Zenon DEF Cancel
<1>5. FlagHasCallback'
  <2>1. CASE timer # "none"
    <3>1. timer_cancelled' = timer_cancelled
      BY <1>1, <1>3, <2>1, Zenon DEF TypeOK
    <3> QED  BY <1>1, <1>3, <3>1, AbortedFlag DEF TimerSetAt
  <2>2. CASE timer = "none"
    <3>1. PICK c \in Callbacks : Armed(c)
      BY <1>1, <1>4, Zenon DEF TimerSetAt, TimerAt, Callbacks
    <3>2. PICK i \in 1..Len(posted) : posted[i] = <<c, FALSE>>
      BY <2>2, <3>1, Zenon DEF Armed, Callbacks
    <3>3. ~posted[i][2] /\ posted' = posted
      BY <1>3, <2>2, <3>2 DEF Aborted
    <3> QED  BY <3>3 DEF FlagHasCallback
  <2> QED  BY <2>1, <2>2
<1>6. init_timer = "fired" /\ state \in {"PRE_PREPARE", "POST_PREPARE"}
  BY <1>1, <1>4, Zenon DEF TimerSetAt, TypeOK, Relies, PrepareSteps, CommitSteps
<1>7. step \in {"prepare timer", "rejected", "commit advance"}
  BY <1>2, <1>4, Zenon DEF AfterCancel
<1>8. TimerSetAt(step)'
  BY <1>3, <1>5, <1>6, <1>7, Zenon DEF Cancel, TimerSetAt, TimerAt
<1> QED  BY <1>1, <1>3, <1>8, ThreadTimerSet

(* The first callback is taken.  One that was meant for the flag, or was   *)
(* aborted, returns; another one is followed by its own thread.            *)
LEMMA TakesCallback ==
    ASSUME TypeOK, posted # <<>>, posted' = Tail(posted), timer_cancelled' = FALSE, timer' = timer,
           NEW c \in Callbacks, Armed(c)
    PROVE  Armed(c)' \/ (~timer_cancelled /\ Head(posted) = <<c, FALSE>>)
<1>1. CASE timer = c
  BY <1>1 DEF Armed
<1>2. CASE timer # c
  <2>1. PICK i \in 1..Len(posted) : posted[i] = <<c, FALSE>> /\ (timer_cancelled => i > 1)
    BY <1>2, Zenon DEF Armed
  <2>2. /\ Len(posted) \in Nat \ {0} /\ Len(posted') = Len(posted) - 1 /\ Head(posted) = posted[1]
        /\ \A j \in 1..Len(posted') : posted'[j] = posted[j + 1]
    BY PostedTail
  <2>3. CASE i = 1
    <3>1. ~timer_cancelled
      BY <2>1, <2>3
    <3>2. Head(posted) = <<c, FALSE>>
      BY <2>1, <2>2, <2>3, Zenon
    <3> QED  BY <3>1, <3>2, Zenon
  <2>4. CASE i > 1
    <3>1. i - 1 \in 1..Len(posted') /\ (i - 1) + 1 = i
      BY <2>2, <2>4
    <3>2. posted'[i - 1] = <<c, FALSE>>
      BY <2>1, <2>2, <3>1, Zenon
    <3> QED  BY <3>1, <3>2, Zenon DEF Armed
  <2>5. i = 1 \/ i > 1
    BY <2>2
  <2> QED  BY <2>3, <2>4, <2>5, Zenon
<1> QED  BY <1>1, <1>2, Zenon

LEMMA OnTimeoutTimer ==
    ASSUME Handlers, TimerSet, NEW t \in Threads, t \in setting.threads,
           Alone(setting) \/ Untimed(setting), OnTimeout(t)
    PROVE  TimerSet'
<1>1. /\ TypeOK /\ posted # <<>> /\ posted' = Tail(posted) /\ pc[t] = "idle"
      /\ timer_cancelled' = FALSE /\ timer' = timer /\ UNCHANGED <<state, init_timer>>
  BY DEF Handlers, OnTimeout
<1>2. FlagHasCallback'
  BY <1>1 DEF FlagHasCallback
<1>3. CASE Untimed(setting)
  <2>1. pc' = pc
    BY <1>3, OnTimeoutUntimed
  <2>2. \A i \in 1..Len(posted) : posted[i][2]
    BY <1>3 DEF Handlers, NoSurprise
  <2>3. \A c \in Callbacks : Armed(c) => timer = c
    <3>1. \A c \in Callbacks : ~(<<c, FALSE>>[2])
      OBVIOUS
    <3>2. \A c \in Callbacks : \A i \in 1..Len(posted) : posted[i] # <<c, FALSE>>
      BY <2>2, <3>1, Zenon
    <3> QED  BY <3>2, Zenon DEF Armed
  <2>4. \A c \in Callbacks : Armed(c) => Armed(c)'
    BY <1>1, <2>3, Zenon DEF Armed
  <2>5. /\ Armed("PrePrepare") => Armed("PrePrepare")'
        /\ Armed("PostPrepare") => Armed("PostPrepare")'
    BY <2>4 DEF Callbacks
  <2>6. \A u \in Threads : TimerAt(pc[u])'
    BY <1>1, <2>1, <2>5, Zenon DEF TimerSet, TimerAt
  <2>7. \A S : Within(S)' <=> Within(S)
    BY <2>1 DEF Within
  <2>8. init_timer = "fired"
    BY <1>1 DEF TimerSet, TypeOK
  <2>9. state # "INITIALIZING"
    BY <2>8 DEF TimerSet
  <2>10. state = "POST_COMMIT" /\ (\A u \in Threads : pc'[u] # "propose") => timer' = "none"
    BY <1>1, <2>1, ZenonT(30) DEF TimerSet
  <2>11. /\ state = "PRE_PREPARE" /\ Within({"PostPrepare"})' => Armed("PrePrepare")'
         /\ state = "POST_PREPARE" /\ Within({"PrePrepare"})' => Armed("PostPrepare")'
         /\ state = "VOID" => ~Within(Callbacks)'
    <3>1. /\ Within({"PostPrepare"})' => Within({"PostPrepare"})
          /\ Within({"PrePrepare"})' => Within({"PrePrepare"})
          /\ Within(Callbacks)' => Within(Callbacks)
      BY <2>1 DEF Within
    <3> QED  BY <2>5, <3>1 DEF TimerSet
  <2> QED  BY <1>1, <1>2, <2>6, <2>8, <2>9, <2>10, <2>11 DEF TimerSet
<1>4. CASE Alone(setting)
  <2>1. Others(t)
    BY <1>4, AloneOthers DEF Handlers
  <2>2. TimerSetAt("idle")
    BY <1>1, <2>1, TimerSetThread
  <2>3. PICK step : step = IF timer_cancelled \/ Head(posted)[2] THEN "idle" ELSE Head(posted)[1]
    OBVIOUS
  <2>4. Goto(t, step)
    BY <2>3 DEF OnTimeout
  <2>5. step \in {"idle", "PrePrepare", "PostPrepare"}
    BY <1>1, <2>3, PostedTail DEF Callbacks
  <2>6. \A c \in Callbacks : Armed(c) => Armed(c)' \/ step = c
    <3> TAKE c \in Callbacks
    <3>0. <<c, FALSE>>[1] = c /\ ~(<<c, FALSE>>[2])
      OBVIOUS
    <3>1. ASSUME Armed(c), ~timer_cancelled, Head(posted) = <<c, FALSE>>  PROVE step = c
      BY <2>3, <3>0, <3>1, Zenon
    <3> QED  BY <1>1, <3>1, TakesCallback, Zenon
  <2>7. /\ Armed("PrePrepare") => Armed("PrePrepare")' \/ step = "PrePrepare"
        /\ Armed("PostPrepare") => Armed("PostPrepare")' \/ step = "PostPrepare"
    BY <2>6 DEF Callbacks
  <2>8. init_timer = "fired"
    BY <1>1 DEF TimerSet, TypeOK
  <2>9. TimerSetAt(step)'
    BY <1>1, <1>2, <2>2, <2>5, <2>7, <2>8, ZenonT(30) DEF TimerSetAt, TimerAt
  <2> QED  BY <1>1, <2>1, <2>4, <2>9, ThreadTimerSet
<1> QED  BY <1>3, <1>4

(* A wait that runs out leaves its callback behind those already posted.   *)
LEMMA ExpireTimer ==
    ASSUME Handlers, TimerSet, Expire
    PROVE  TimerSet'
<1>1. /\ TypeOK /\ timer \in Callbacks /\ posted' = Append(posted, <<timer, FALSE>>) /\ timer' = "none"
      /\ UNCHANGED <<pc, state, init_timer, timer_cancelled>>
  BY DEF Handlers, TypeOK, Expire
<1>2. /\ Len(posted) \in Nat /\ Len(posted') = Len(posted) + 1
      /\ \A i \in 1..Len(posted) : posted'[i] = posted[i]
      /\ posted'[Len(posted) + 1] = <<timer, FALSE>>
  BY <1>1, PostedAppend, Zenon
<1>3. FlagHasCallback' /\ (timer_cancelled => Len(posted) > 0)
  <2>1. ~posted'[Len(posted) + 1][2] /\ Len(posted) + 1 \in 1..Len(posted')
    BY <1>2
  <2>2. timer_cancelled => Len(posted) > 0
    BY <1>2 DEF TimerSet, FlagHasCallback
  <2> QED  BY <2>1, <2>2 DEF FlagHasCallback
<1>4. \A c \in Callbacks : Armed(c) => Armed(c)'
  <2> SUFFICES ASSUME NEW c \in Callbacks, Armed(c)  PROVE Armed(c)'
    OBVIOUS
  <2>1. CASE timer = c
    <3>1. Len(posted) + 1 \in 1..Len(posted') /\ (timer_cancelled => Len(posted) + 1 > 1)
      BY <1>2, <1>3
    <3>2. posted'[Len(posted) + 1] = <<c, FALSE>>
      BY <1>2, <2>1
    <3> QED  BY <1>1, <3>1, <3>2, ZenonT(30) DEF Armed
  <2>2. CASE timer # c
    <3>1. PICK i \in 1..Len(posted) : posted[i] = <<c, FALSE>> /\ (timer_cancelled => i > 1)
      BY <2>2, Zenon DEF Armed
    <3>2. i \in 1..Len(posted') /\ posted'[i] = posted[i]
      BY <1>2
    <3> QED  BY <1>1, <3>1, <3>2, Zenon DEF Armed
  <2> QED  BY <2>1, <2>2
<1>5. /\ Armed("PrePrepare") => Armed("PrePrepare")'
      /\ Armed("PostPrepare") => Armed("PostPrepare")'
  BY <1>4 DEF Callbacks
<1>6. \A u \in Threads : TimerAt(pc[u])'
  BY <1>1, <1>5, Zenon DEF TimerSet, TimerAt, Callbacks
<1>7. /\ Within({"PostPrepare"})' => Within({"PostPrepare"})
      /\ Within({"PrePrepare"})' => Within({"PrePrepare"})
      /\ Within(Callbacks)' => Within(Callbacks)
  BY <1>1 DEF Within
<1>8. init_timer = "fired" /\ state # "INITIALIZING"
  BY <1>1 DEF TimerSet, TypeOK, Callbacks
<1>9. /\ state = "PRE_PREPARE" /\ Within({"PostPrepare"})' => Armed("PrePrepare")'
      /\ state = "POST_PREPARE" /\ Within({"PrePrepare"})' => Armed("PostPrepare")'
      /\ state = "VOID" => ~Within(Callbacks)'
  BY <1>5, <1>7 DEF TimerSet
<1> QED  BY <1>1, <1>3, <1>6, <1>8, <1>9 DEF TimerSet

LEMMA TimerNext ==
    ASSUME OneAtATime, StartsUpFirst, Handlers, TimerSet, [Next]_vars
    PROVE  TimerSet'
<1>1. CASE UNCHANGED vars
  <2>1. /\ UNCHANGED <<pc, state, init_timer, timer, posted, timer_cancelled>>
        /\ FlagHasCallback' = FlagHasCallback
    BY <1>1, TimerUntouched DEF vars
  <2>2. /\ Armed("PrePrepare")' = Armed("PrePrepare")
        /\ Armed("PostPrepare")' = Armed("PostPrepare")
    BY <2>1, TimerUntouched
  <2>3. /\ Within({"PostPrepare"})' = Within({"PostPrepare"})
        /\ Within({"PrePrepare"})' = Within({"PrePrepare"})
        /\ Within(Callbacks)' = Within(Callbacks)
    BY <2>1 DEF Within
  <2> QED  BY <2>1, <2>2, <2>3, Zenon DEF TimerSet, TimerAt
<1>2. CASE Next
  <2>1. setting' = setting /\ setting \in Settings
    BY <1>2 DEF Next, Handlers, TypeOK
  <2>2. /\ Alone(setting) \/ Untimed(setting)
        /\ setting.fallback => setting.clients = {}
        /\ \A t \in setting.threads : t \in Threads
    BY <2>1, SettingsAssumption DEF OneAtATime, StartsUpFirst, Setting
  <2>3. CASE Expire
    BY <2>3, ExpireTimer
  <2>4. ASSUME NEW t \in setting.threads, ThreadStep(t)
        PROVE  TimerSet'
    <3>1. t \in Threads /\ OneBusy
      BY <2>2 DEF Handlers
    <3>2. CASE OnTimeout(t)
      BY <2>2, <3>1, <3>2, OnTimeoutTimer
    <3>3. CASE OnPrepare(t) \/ OnRejection(t) \/ OnCommit(t)
      <4>1. \E expected \in {"PRE_PREPARE", "POST_PREPARE"} : ProceedWithMessage(expected)
        BY <3>3, Zenon DEF OnPrepare, OnRejection, OnCommit, Approve
      <4>2. Others(t)
        BY <2>2, <3>1, <4>1, ApproveAlone
      <4> QED  BY <3>1, <3>3, <4>2, ApproveTimer
    <3>4. CASE StartConsensus(t) \/ OnMessageQueued(t)
      <4>1. Others(t)
        <5>1. CASE Alone(setting)
          BY <3>1, <5>1, AloneOthers
        <5>2. CASE Untimed(setting)
          BY <3>4, <5>2 DEF Handlers, NoSurprise, StartConsensus, OnMessageQueued, Untimed, Others
        <5> QED  BY <2>2, <5>1, <5>2
      <4> QED  BY <2>1, <2>2, <3>1, <3>4, <4>1, QuietTimer, Zenon
    <3>5. CASE pc[t] # "idle"
      <4>1. Others(t)
        BY <3>1, <3>5, BusyAlone, ZenonT(30)
      <4>2. CASE Propose(t) \/ Begin(t) \/ PrepareAdvance(t) \/ CommitAdvance(t) \/ OnQuorumFailed(t)
        BY <2>1, <2>2, <3>1, <4>1, <4>2, QuietTimer
      <4>3. CASE PrePrepareRejected(t) \/ ConsensusReached(t) \/ CheckTimeout(t)
        BY <3>1, <4>1, <4>3, HandlerEndTimer
      <4>4. CASE Initiate(t) \/ PrepareTimer(t)
        BY <3>1, <4>1, <4>4, SetTimer
      <4>5. CASE Cancel(t)
        BY <3>1, <4>1, <4>5, CancelsTimer
      <4> QED  BY <2>4, <3>2, <3>3, <3>4, <4>2, <4>3, <4>4, <4>5, ZenonT(30) DEF ThreadStep
    <3>6. CASE pc[t] = "idle"
      <4>1. OnTimeout(t) \/ OnPrepare(t) \/ OnRejection(t) \/ OnCommit(t) \/ StartConsensus(t) \/ OnMessageQueued(t)
        BY <2>4, <3>6, Zenon DEF ThreadStep, Propose, Begin, PrepareAdvance, CommitAdvance, OnQuorumFailed,
               PrePrepareRejected, ConsensusReached, CheckTimeout, Initiate, PrepareTimer, Cancel
      <4> QED  BY <3>2, <3>3, <3>4, <4>1, Zenon
    <3> QED  BY <3>5, <3>6
  <2> QED  BY <1>2, <2>3, <2>4 DEF Next
<1> QED  BY <1>1, <1>2

(* Every session has the timer of its phase, or that timer's callback is   *)
(* posted behind the one that the flag is meant for.                       *)
THEOREM PrimaryTimerSet ==
    ASSUME OneAtATime, StartsUpFirst
    PROVE  Spec => []TimerSet
<1>1. Init => TimerSet
  <2> SUFFICES ASSUME Init  PROVE TimerSet
    OBVIOUS
  <2>1. FlagHasCallback /\ \A t \in Threads : pc[t] = "idle"
    BY DEF Init, FlagHasCallback
  <2>2. \A t \in Threads : TimerAt(pc[t])
    BY <2>1, Zenon DEF TimerAt
  <2> QED  BY <2>1, <2>2 DEF Init, TimerSet
<1>2. Handlers /\ TimerSet /\ [Next]_vars => TimerSet'
  BY TimerNext
<1> QED  BY <1>1, <1>2, PrimaryHandlers, PTL DEF Spec

(* The flag is set only while the callback it is meant for is on its way.  *)
THEOREM PrimaryFlagHasCallback ==
    ASSUME OneAtATime, StartsUpFirst
    PROVE  Spec => []FlagHasCallback
<1>1. TimerSet => FlagHasCallback
  BY DEF TimerSet
<1> QED  BY <1>1, PrimaryTimerSet, PTL

(* When nothing runs or is ready to run, a session has its phase's timer,  *)
(* and the flag that would swallow its callback is not set.                *)
THEOREM PrimarySessionHasTimer ==
    ASSUME OneAtATime, StartsUpFirst
    PROVE  Spec => []SessionHasTimer
<1>1. ASSUME Handlers, TimerSet  PROVE SessionHasTimer
  <2> SUFFICES ASSUME Quiet, init_timer = "fired"  PROVE SessionHasTimer
    BY DEF SessionHasTimer
  <2>1. posted = <<>> /\ \A t \in Threads : pc[t] = "idle"
    BY DEF Quiet
  <2>2. ~timer_cancelled
    BY <1>1, <2>1 DEF TimerSet, FlagHasCallback
  <2>3. \A c \in Callbacks : Armed(c) => timer = c
    BY <2>1 DEF Armed
  <2>4. /\ state = "PRE_PREPARE" => timer = "PrePrepare"
        /\ state = "POST_PREPARE" => timer = "PostPrepare"
        /\ state = "POST_COMMIT" => timer = "none"
        /\ state \notin {"VOID", "INITIALIZING"}
    <3>1. Within({"PostPrepare"}) /\ Within({"PrePrepare"}) /\ Within(Callbacks)
      BY <2>1 DEF Within
    <3> QED  BY <1>1, <2>1, <2>3, <3>1 DEF TimerSet, Callbacks
  <2>5. state \in States
    BY <1>1 DEF Handlers, TypeOK
  <2> QED  BY <2>2, <2>4, <2>5 DEF SessionHasTimer, States
<1> QED  BY <1>1, PrimaryHandlers, PrimaryTimerSet, PTL
=============================================================================
