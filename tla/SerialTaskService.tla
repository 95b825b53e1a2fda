--------------------------- MODULE SerialTaskService ---------------------------
(***************************************************************************)
(* What a task processor promises to those who push to it: between a Start *)
(* and the return of the Stop that ends it (a session) it runs the tasks   *)
(* it accepted one at a time, each once, in the order of their pushes, and *)
(* outside a session it runs nothing.  A session may end with tasks left:  *)
(* they wait for the next one.                                             *)
(***************************************************************************)
EXTENDS Naturals, Sequences

VARIABLES open,      \* is a session open?
          current,   \* the task being run; 0: none
          accepted,  \* how many tasks were accepted
          finished   \* the tasks that were run, in order

vars == <<open, current, accepted, finished>>

Init ==
    /\ open = FALSE
    /\ current = 0
    /\ accepted = 0
    /\ finished = <<>>

Open ==
    /\ ~open
    /\ open' = TRUE
    /\ UNCHANGED <<current, accepted, finished>>

\* No session ends in the middle of a task.
Close ==
    /\ open
    /\ current = 0
    /\ open' = FALSE
    /\ UNCHANGED <<current, accepted, finished>>

Accept ==
    /\ accepted' = accepted + 1
    /\ UNCHANGED <<open, current, finished>>

Begin ==
    /\ open
    /\ current = 0
    /\ Len(finished) < accepted
    /\ current' = Len(finished) + 1
    /\ UNCHANGED <<open, accepted, finished>>

Finish ==
    /\ current # 0
    /\ finished' = Append(finished, current)
    /\ current' = 0
    /\ UNCHANGED <<open, accepted>>

Next == Open \/ Close \/ Accept \/ Begin \/ Finish

Spec == Init /\ [][Next]_vars
=============================================================================
