----------------------------- MODULE MyAckProcessor -----------------------------
(***************************************************************************)
(* MyAMQP/MyAckProcessor: the thread that acknowledges messages.  Its queue *)
(* holds the futures of the tasks of MyTaskProcessor, and its loop waits    *)
(* for each in turn.  The class repeats the Start, Stop, Push and loop of   *)
(* MyTaskProcessor line by line (Resume is its Start), so this module       *)
(* extends that one, and replaces what the loop does with an item.          *)
(*                                                                         *)
(* The futures are settled by another thread, at any moment: before the    *)
(* push, in the queue, in the hand of the loop, or never.                  *)
(***************************************************************************)
EXTENDS MyTaskProcessor

VARIABLES outcome,  \* of future n: "pending", "ok" (it has a tag), "threw"
          acked,    \* history: the futures whose tag was acknowledged
          aborted   \* the assertion of Flush failed: the program is gone

ackVars == <<outcome, acked, aborted>>

Futures == 1..MaxTasks

\* The types, and that every ack is the ack of a future: the ack loop sends no
\* tag it did not get from one.
AckTypeOK ==
    /\ TypeOK
    /\ outcome \in [Futures -> {"pending", "ok", "threw"}]
    /\ acked \in Seq(Futures)
    /\ aborted \in BOOLEAN

AckInit ==
    /\ Init
    /\ outcome = [n \in Futures |-> "pending"]
    /\ acked = <<>>
    /\ aborted = FALSE

-----------------------------------------------------------------------------
\* The user's handler returns or throws.
Settle(n) ==
    /\ outcome[n] = "pending"
    /\ \E o \in {"ok", "threw"} : outcome' = [outcome EXCEPT ![n] = o]
    /\ UNCHANGED <<vars, acked, aborted>>

Settled(l) == outcome[held[l]] # "pending"

\* Mutant: the loop polls the future and goes on if it is not ready.
SendAckUnready(l) ==
    /\ pc[l] \in Running
    /\ outcome[held[l]] # "threw"
    /\ RunTask(l)
    /\ acked' = Append(acked, held[l])
    /\ UNCHANGED aborted

\* The handler returned a tag, and the ack of it was sent.
SendAck(l) ==
    /\ pc[l] \in Running
    /\ outcome[held[l]] = "ok"
    /\ RunTask(l)
    /\ acked' = Append(acked, held[l])
    /\ UNCHANGED aborted

\* Nothing is sent and the loop goes on: the handler threw, the channel refused
\* the ack, or (outside Flush) the send threw.
SkipAck(l) ==
    /\ pc[l] \in Running
    /\ Settled(l)
    /\ RunTask(l)
    /\ UNCHANGED <<acked, aborted>>

\* A MyNetworkException ends Flush and the loop, of the send of an ack or of the
\* user's handler: Stop throws, and the futures behind this one stay in the queue.
FlushThrows(l) ==
    /\ Goto(l, "flushRun", "threw")
    /\ Settled(l)
    /\ Finish(l)
    /\ UNCHANGED <<acked, aborted, queueVars, ownerVars, pushVars>>

\* Mutant: assertions are compiled out, and the future is dropped.
FlushTimeoutBreaks(l) ==
    /\ Goto(l, "flushRun", "flushed")
    /\ ~Settled(l)
    /\ Finish(l)
    /\ UNCHANGED <<acked, aborted, queueVars, ownerVars, pushVars>>

\* Five seconds have passed and the future is not ready: assert(false).
FlushTimeout(l) ==
    /\ pc[l] = "flushRun"
    /\ ~Settled(l)
    /\ aborted' = TRUE
    /\ UNCHANGED <<vars, acked>>

\* The rest of the loop is MyTaskProcessor's.
LoopOnly(l) ==
    /\ \/ LoopEnter(l) \/ LoopWhile(l)
       \/ LoopWaitBlock(l) \/ LoopWaitTake(l) \/ LoopWaitBroken(l)
       \/ LoopFlushTest(l) \/ FlushWhile(l) \/ FlushPop(l)
    /\ UNCHANGED <<acked, aborted>>

AckLoopStep(l) ==
    LoopOnly(l) \/ SendAck(l) \/ SkipAck(l) \/ FlushThrows(l) \/ FlushTimeout(l)

AckOwnerStep == OwnerStep /\ UNCHANGED <<acked, aborted>>
AckPusherStep(p) == PusherStep(p) /\ UNCHANGED <<acked, aborted>>

-----------------------------------------------------------------------------
\* The calls of the owner and the pushers.
AckCall ==
    /\ \/ Start
       \/ \E flush \in BOOLEAN : StopCall(flush)
       \/ \E p \in Pushers : PushAccept(p)
    /\ UNCHANGED <<acked, aborted>>

\* A step of the processor itself.
AckStep ==
    \/ AckCall
    \/ AckOwnerStep
    \/ \E p \in Pushers : AckPusherStep(p)
    \/ \E l \in Loops : \/ AckLoopStep(l)
                        \/ LoopSpuriousWakeup(l) /\ UNCHANGED <<acked, aborted>>

AckNext ==
    /\ ~aborted
    /\ \/ AckStep /\ UNCHANGED outcome
       \/ \E n \in Futures : Settle(n)

AckSpec == AckInit /\ [][AckNext]_<<vars, ackVars>>

\* As in MyTaskProcessor; the user's handler owes nobody an end.
AckFairSpec ==
    /\ AckSpec
    /\ WF_<<vars, ackVars>>(~aborted /\ AckOwnerStep /\ UNCHANGED outcome)
    /\ \A p \in Pushers :
          SF_<<vars, ackVars>>(~aborted /\ AckPusherStep(p) /\ UNCHANGED outcome)
    /\ \A l \in Loops :
          WF_<<vars, ackVars>>(~aborted /\ AckLoopStep(l) /\ UNCHANGED outcome)

-----------------------------------------------------------------------------
\* Only a message whose handler returned is acknowledged, no message twice, and
\* the acks go out in the order of the messages.
AcksFollowHandlers ==
    /\ \A i \in 1..Len(acked) : outcome[acked[i]] = "ok"
    /\ \A i, j \in 1..Len(acked) : i < j => acked[i] < acked[j]

\* The processor is done with a future only when its handler has ended: a stop,
\* flushing or not, drops none that is pending.
NoPendingFutureDropped ==
    \A i \in 1..Len(done) : outcome[done[i]] # "pending"

\* Stop returns, unless the wake-up was lost, the handler of the future in
\* hand never ends, or the assertion of Flush fails.
AckStopReturns ==
    \/ []<>(owner = "idle")
    \/ <>[](waiting = {joined} /\ Empty)
    \/ <>[](\E l \in Loops : pc[l] = "run" /\ ~Settled(l))
    \/ <>[]aborted

=============================================================================
