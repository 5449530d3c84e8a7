----------------------------- MODULE FifoTasks -----------------------------
(***************************************************************************)
(* What a task queue promises, without threads, locks or notifications:    *)
(* tasks start in the order they were accepted, each at most once, the     *)
(* result of each is settled once, and only discarding what is queued      *)
(* breaks the promise of an accepted task.                                 *)
(***************************************************************************)
EXTENDS Sequences, Functions

CONSTANT Tasks  \* the tasks clients may submit

VARIABLES pending,  \* accepted, not started, oldest first
          running,  \* started, not finished
          result    \* what the client's future shows for each task

fifoVars == <<pending, running, result>>

Results == {"none", "pending", "value", "exception", "broken"}

FifoInit ==
    /\ pending = <<>>
    /\ running = {}
    /\ result = [t \in Tasks |-> "none"]

Submit(t) ==
    /\ result[t] = "none"
    /\ result' = [result EXCEPT ![t] = "pending"]
    /\ pending' = Append(pending, t)
    /\ UNCHANGED running

Begin ==
    /\ pending # <<>>
    /\ pending' = Tail(pending)
    /\ running' = running \cup {Head(pending)}
    /\ UNCHANGED result

Finish(t) ==
    /\ t \in running
    /\ running' = running \ {t}
    /\ \E r \in {"value", "exception"} : result' = [result EXCEPT ![t] = r]
    /\ UNCHANGED pending

Discard ==
    /\ pending' = <<>>
    /\ result' = [t \in Tasks |->
                    IF t \in Range(pending) THEN "broken" ELSE result[t]]
    /\ UNCHANGED running

FifoNext ==
    \/ \E t \in Tasks : Submit(t) \/ Finish(t)
    \/ Begin
    \/ Discard

FifoSpec == FifoInit /\ [][FifoNext]_fifoVars
=============================================================================
