---------------------------- MODULE SerialQueue ----------------------------
(***************************************************************************)
(* What PGLib's TaskQueue promises its clients, stated without threads,    *)
(* locks or flags: the tasks a client has handed over are executed one     *)
(* at a time, in the order in which they were accepted, each at most once, *)
(* and never again once one of them has failed.                            *)
(***************************************************************************)
EXTENDS Sequences

CONSTANTS Tasks,    \* the callables clients may submit, each at most once
          NoTask    \* "no task": the queue is executing nothing

VARIABLES accepted,  \* every task accepted so far, in order of acceptance
          pending,   \* the accepted tasks whose execution has not begun
          begun,     \* the tasks whose execution has begun, in that order
          current,   \* the task being executed, or NoTask
          failed     \* the task that has thrown, or NoTask

vars == <<accepted, pending, begun, current, failed>>

Init == /\ accepted = <<>>
        /\ pending  = <<>>
        /\ begun    = <<>>
        /\ current  = NoTask
        /\ failed   = NoTask

Accept(t) == /\ t \notin {accepted[i] : i \in DOMAIN accepted}
             /\ accepted' = Append(accepted, t)
             /\ pending'  = Append(pending, t)
             /\ UNCHANGED <<begun, current, failed>>

Begin == /\ current = NoTask
         /\ failed = NoTask
         /\ pending # <<>>
         /\ current' = Head(pending)
         /\ begun'   = Append(begun, Head(pending))
         /\ pending' = Tail(pending)
         /\ UNCHANGED <<accepted, failed>>

\* The current task ends, normally or by throwing.
End == /\ current # NoTask
       /\ current' = NoTask
       /\ UNCHANGED <<accepted, pending, begun, failed>>

Fail == /\ current # NoTask
        /\ failed = NoTask
        /\ failed' = current
        /\ UNCHANGED <<accepted, pending, begun, current>>

Next == \/ \E t \in Tasks : Accept(t)
        \/ Begin
        \/ End
        \/ Fail

Spec == Init /\ [][Next]_vars
=============================================================================
