---------------------------- MODULE RequestService ----------------------------
(***************************************************************************)
(* What a channel promises to the application that calls it.  The server   *)
(* carries out the requests of a channel one after the other, none is      *)
(* skipped, and every request comes to one outcome, in the order of the    *)
(* calls: success, and then the server has carried it out; or an error,    *)
(* and then all the requests behind it have failed with it.                *)
(***************************************************************************)
EXTENDS Naturals, Sequences, SequencesExt

CONSTANT Channels

VARIABLES requests,   \* per channel: the requests that were accepted
          performed,  \* per channel: the requests the server has carried out
          outcomes    \* per channel: <<request, "success" or "error">>

vars == <<requests, performed, outcomes>>

Init ==
    /\ requests = [c \in Channels |-> <<>>]
    /\ performed = [c \in Channels |-> <<>>]
    /\ outcomes = [c \in Channels |-> <<>>]

\* The application calls one channel, or closes them all.
Accept ==
    /\ \A c \in Channels :
          \/ requests'[c] = requests[c]
          \/ /\ Len(requests'[c]) = Len(requests[c]) + 1
             /\ IsPrefix(requests[c], requests'[c])
    /\ DOMAIN requests' = Channels
    /\ UNCHANGED <<performed, outcomes>>

Perform(c) ==
    /\ Len(performed[c]) < Len(requests[c])
    /\ performed' =
          [performed EXCEPT ![c] = Append(@, requests[c][Len(@) + 1])]
    /\ UNCHANGED <<requests, outcomes>>

\* The next requests of a channel, up to some that was performed, succeed,
\* and perhaps all the others fail.
Outcomes(c) ==
    LET done == Len(outcomes[c])
        all == Len(requests[c])
        result(s, last) ==
            [n \in 1..last |-> <<requests[c][n],
                                 IF n <= s THEN "success" ELSE "error">>]
    IN  {outcomes[c]} \cup
        {outcomes[c] \o SubSeq(result(s, all), done + 1, all) :
            s \in done..Len(performed[c])}
        \cup {outcomes[c] \o SubSeq(result(s, s), done + 1, s) :
                s \in done..Len(performed[c])}

Settle ==
    /\ \A c \in Channels : outcomes'[c] \in Outcomes(c)
    /\ DOMAIN outcomes' = Channels
    /\ UNCHANGED <<requests, performed>>

Next == Accept \/ Settle \/ \E c \in Channels : Perform(c)

Spec == Init /\ [][Next]_vars
=============================================================================
