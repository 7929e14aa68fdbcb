-------------------------- MODULE MCPrimaryTimers --------------------------
(***************************************************************************)
(* Threads and settings for model checking PrimaryTimers                   *)
(***************************************************************************)
EXTENDS PrimaryTimers

CONSTANTS t1, t2, t3

Pool == {t1, t2, t3}

(* One thread, with clients and timeouts                                   *)
Serial == [threads |-> {t1}, clients |-> {t1}, expires |-> TRUE, fallback |-> FALSE]

(* Several threads that deliver answers; a round starts when one has ended *)
Answers == [threads |-> Pool, clients |-> {}, expires |-> FALSE, fallback |-> FALSE]

(* Two threads and timeouts                                                *)
Racing == [threads |-> {t1, t2}, clients |-> {}, expires |-> TRUE, fallback |-> FALSE]

Regular == {Serial, Answers}
Races == {Racing}
=============================================================================
