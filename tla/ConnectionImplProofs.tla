-------------------------- MODULE ConnectionImplProofs --------------------------
(***************************************************************************)
(* That the frames of every channel leave a connection in the order of the *)
(* calls, and that close() leaves none of them behind, for any number of   *)
(* channels, calls and frames of the server.                               *)
(*                                                                         *)
(* A frame that a channel accepted is in one of three places: it was given *)
(* to onData, it is in the queue that the handshake holds up, or it waits  *)
(* in the channel for an answer.  The invariant says that these three, one *)
(* behind the other, are what the channel accepted (Order), and when two   *)
(* of them must be empty (Quiet).  It needs to know of the server that it  *)
(* says nothing of a channel during the handshake, and that nothing but an *)
(* answer to a close comes behind a close.                                 *)
(*                                                                         *)
(* The lemmas go from the inside to the outside: OfChannel, the methods of *)
(* a channel, what they hand to the connection, the frames that parse()    *)
(* processes, and the steps.  The last part is about the Deferred objects  *)
(* of one channel: what a method or a frame of the server does to what the *)
(* channel owes the application.  ConnectionRequestsProofs goes on there.  *)
(***************************************************************************)
EXTENDS ConnectionImpl, SequenceTheorems, WellFoundedInduction,
        FiniteSetTheorems, TLAPS

\* A set of numbers has a least one.
LEMMA Least ==
    ASSUME NEW T \in SUBSET Nat, T # {}
    PROVE  \E m \in T : \A k \in T : m <= k
<1> DEFINE R == OpToRel(<, Nat)
<1>1. IsWellFoundedOn(R, Nat)
  BY NatLessThanWellFounded
<1>2. \A x, y \in Nat : <<y, x>> \in R <=> y < x
  BY DEF OpToRel
<1> HIDE DEF R
<1>3. PICK x \in T : \A y \in T : ~ (<<y, x>> \in R)
  BY <1>1, WFMin
<1>4. \A y \in T : x <= y
  <2> TAKE y \in T
  <2>1. x \in Nat /\ y \in Nat /\ ~ (<<y, x>> \in R)
    BY <1>3
  <2> QED
    BY <2>1, <1>2
<1> QED
  BY <1>4

\* Induction over the numbers, for a set.
LEMMA SetInduction ==
    ASSUME NEW T \in SUBSET Nat, 0 \in T, \A n \in T : n + 1 \in T
    PROVE  T = Nat
<1> SUFFICES ASSUME T # Nat PROVE FALSE
  OBVIOUS
<1>1. PICK m \in Nat \ T : \A k \in Nat \ T : m <= k
  <2>1. Nat \ T # {} /\ Nat \ T \in SUBSET Nat
    OBVIOUS
  <2> QED
    BY <2>1, Least
<1>2. m # 0 /\ m - 1 \in Nat
  BY <1>1
<1>3. m - 1 \in T
  BY <1>1, <1>2
<1>4. (m - 1) + 1 \in T
  BY <1>3
<1> QED
  BY <1>1, <1>4

----------------------------------------------------------------------------
\* OfChannel, WHOSE DEFINITION IS RECURSIVE
Counts(f, c) == f.channel = c /\ f.name # "ChannelCloseOK"

OfStep(of, frames, c, n) ==
    IF n = 0 THEN <<>>
    ELSE IF frames[n].channel = c /\ frames[n].name # "ChannelCloseOK"
    THEN Append(of[n - 1], frames[n])
    ELSE of[n - 1]

Solves(of, frames, c) ==
    \A n \in 0..Len(frames) : of[n] = OfStep(of, frames, c, n)

\* The recursion of OfChannel has a solution.
LEMMA OfExists ==
    ASSUME NEW frames, NEW c, NEW m \in Nat
    PROVE  \E of : of = [n \in 0..m |-> OfStep(of, frames, c, n)]
<1> DEFINE Solved == {k \in Nat : \E of : of = [n \in 0..k |-> OfStep(of, frames, c, n)]}
<1>1. 0 \in Solved
  <2> DEFINE of == [n \in 0..0 |-> <<>>]
  <2>1. of = [n \in 0..0 |-> OfStep(of, frames, c, n)]
    BY DEF OfStep
  <2> QED
    BY <2>1
<1>2. \A k \in Solved : k + 1 \in Solved
  <2> TAKE k \in Solved
  <2>1. k \in Nat
    OBVIOUS
  <2>2. PICK of : of = [n \in 0..k |-> OfStep(of, frames, c, n)]
    OBVIOUS
  <2> DEFINE more == [n \in 0..(k + 1) |-> OfStep(of, frames, c, n)]
  <2>3. \A n \in 0..k : more[n] = of[n]
    BY <2>1, <2>2
  <2>4. \A n \in 0..(k + 1) : n # 0 => n - 1 \in 0..k
    BY <2>1
  <2>5. \A n \in 0..(k + 1) : OfStep(of, frames, c, n) = OfStep(more, frames, c, n)
    BY <2>3, <2>4, Zenon DEF OfStep
  <2>6. more = [n \in 0..(k + 1) |-> OfStep(more, frames, c, n)]
    <3> HIDE DEF more
    <3>1. more = [n \in 0..(k + 1) |-> OfStep(of, frames, c, n)]
      BY DEF more
    <3> QED
      BY <3>1, <2>5, Zenon
  <2>7. k + 1 \in Nat
    BY <2>1
  <2> HIDE DEF more
  <2> QED
    BY <2>6, <2>7, Zenon
<1>3. Solved = Nat
  <2> HIDE DEF Solved
  <2>1. Solved \in SUBSET Nat
    BY DEF Solved
  <2> QED
    BY <1>1, <1>2, <2>1, SetInduction
<1> QED
  BY <1>3

\* A recursion that starts with <<>> and steps as OfChannel does.
LEMMA OfChannelDef ==
    ASSUME NEW frames, Len(frames) \in Nat, NEW c
    PROVE  \E of : /\ Solves(of, frames, c)
                   /\ OfChannel(frames, c) = of[Len(frames)]
<1> DEFINE of == CHOOSE of : of = [n \in 0..Len(frames) |-> OfStep(of, frames, c, n)]
<1>1. OfChannel(frames, c) = of[Len(frames)]
  BY DEF OfChannel, OfStep
<1>2. of = [n \in 0..Len(frames) |-> OfStep(of, frames, c, n)]
  BY OfExists
<1> HIDE DEF of
<1>3. Solves(of, frames, c)
  BY <1>2, Zenon DEF Solves
<1> QED
  BY <1>1, <1>3

\* The equations of OfChannel.
LEMMA OfChannelEmpty ==
    ASSUME NEW c
    PROVE  OfChannel(<<>>, c) = <<>>
<1>1. Len(<<>>) = 0
  OBVIOUS
<1>2. PICK of : /\ Solves(of, <<>>, c)
                /\ OfChannel(<<>>, c) = of[Len(<<>>)]
  BY <1>1, OfChannelDef
<1>3. of[0] = OfStep(of, <<>>, c, 0)
  <2>1. 0 \in 0..Len(<<>>)
    BY <1>1
  <2> QED
    BY <1>2, <2>1, Zenon DEF Solves
<1> QED
  BY <1>1, <1>2, <1>3 DEF OfStep

\* Two solutions agree where the frames do.
LEMMA OfAgree ==
    ASSUME NEW s, NEW t, Len(s) \in Nat, Len(t) \in Nat, NEW c,
           NEW f, Solves(f, s, c),
           NEW g, Solves(g, t, c),
           Len(s) <= Len(t), \A n \in 1..Len(s) : s[n] = t[n]
    PROVE  \A n \in 0..Len(s) : f[n] = g[n]
<1> DEFINE Agree == {n \in Nat : n <= Len(s) => f[n] = g[n]}
<1>0. Len(s) \in Nat /\ Len(t) \in Nat
  OBVIOUS
<1>1. 0 \in Agree
  <2>1. f[0] = OfStep(f, s, c, 0) /\ g[0] = OfStep(g, t, c, 0)
    BY <1>0 DEF Solves
  <2> QED
    BY <2>1 DEF OfStep
<1>2. \A n \in Agree : n + 1 \in Agree
  <2> SUFFICES ASSUME NEW n \in Agree, n + 1 <= Len(s)
      PROVE f[n + 1] = g[n + 1]
    OBVIOUS
  <2>1. n \in Nat /\ f[n] = g[n] /\ n + 1 # 0 /\ (n + 1) - 1 = n
    BY <1>0
  <2>2. n + 1 \in 0..Len(s) /\ n + 1 \in 0..Len(t) /\ n + 1 \in 1..Len(s)
    BY <1>0, <2>1
  <2>3. s[n + 1] = t[n + 1]
    BY <2>2
  <2>4. f[n + 1] = OfStep(f, s, c, n + 1)
    BY <2>2 DEF Solves
  <2>5. g[n + 1] = OfStep(g, t, c, n + 1)
    BY <2>2 DEF Solves
  <2> QED
    BY <2>1, <2>3, <2>4, <2>5, Zenon DEF OfStep
<1>3. Agree = Nat
  <2> HIDE DEF Agree
  <2>1. Agree \in SUBSET Nat
    BY DEF Agree
  <2> QED
    BY <1>1, <1>2, <2>1, SetInduction
<1>4. \A n \in Nat : n \in Agree
  BY <1>3, Zenon
<1>5. \A n \in Nat : n <= Len(s) => f[n] = g[n]
  BY <1>4, Zenon
<1> QED
  BY <1>0, <1>5

\* A frame more is one more of its channel, and none of another.
LEMMA OfChannelAppend ==
    ASSUME NEW S, NEW s \in Seq(S), NEW x \in S, NEW c
    PROVE  OfChannel(Append(s, x), c) =
               IF Counts(x, c) THEN Append(OfChannel(s, c), x)
               ELSE OfChannel(s, c)
<1> DEFINE t == Append(s, x)
<1>0. /\ t \in Seq(S) /\ Len(s) \in Nat /\ Len(t) = Len(s) + 1
      /\ t[Len(t)] = x /\ \A n \in 1..Len(s) : t[n] = s[n]
  OBVIOUS
<1> HIDE DEF t
<1>1. PICK f : /\ Solves(f, s, c)
               /\ OfChannel(s, c) = f[Len(s)]
  BY <1>0, OfChannelDef
<1>2. PICK g : /\ Solves(g, t, c)
               /\ OfChannel(t, c) = g[Len(t)]
  BY <1>0, OfChannelDef
<1>3. f[Len(s)] = g[Len(s)]
  <2>1. Len(s) <= Len(t) /\ \A n \in 1..Len(s) : s[n] = t[n]
    BY <1>0
  <2>2. \A n \in 0..Len(s) : f[n] = g[n]
    BY ONLY <1>0, <1>1, <1>2, <2>1, OfAgree
  <2> QED
    BY <2>2, <1>0
<1>4. /\ g[Len(t)] = OfStep(g, t, c, Len(t))
      /\ Len(t) # 0 /\ Len(t) - 1 = Len(s)
  BY <1>0, <1>2 DEF Solves
<1>5. OfChannel(t, c) = IF Counts(x, c) THEN Append(OfChannel(s, c), x)
                                         ELSE OfChannel(s, c)
  BY <1>0, <1>1, <1>2, <1>3, <1>4, Zenon DEF OfStep, Counts
<1> QED
  BY <1>5 DEF t

\* A sequence that is not empty ends with an element.
LEMMA Chop ==
    ASSUME NEW S, NEW n \in Nat, NEW s \in Seq(S), Len(s) = n + 1
    PROVE  \E u \in Seq(S), x \in S : s = Append(u, x) /\ Len(u) = n
<1>1. s # <<>>
  OBVIOUS
<1>2. PICK u \in Seq(S), x \in S : s = Append(u, x)
  BY <1>1, SequenceEmptyOrAppend
<1>3. Len(u) = n
  BY <1>2
<1> QED
  BY <1>2, <1>3

\* OfChannel holds frames of the channel.
LEMMA OfChannelType ==
    ASSUME NEW S, NEW s \in Seq(S), NEW c
    PROVE  OfChannel(s, c) \in Seq({x \in S : Counts(x, c)})
<1> DEFINE F == {x \in S : Counts(x, c)}
           Typed == {n \in Nat : \A t \in Seq(S) : Len(t) = n
           => OfChannel(t, c) \in Seq(F)}
<1>0. \A x \in S : Counts(x, c) => x \in F
  OBVIOUS
<1> HIDE DEF F
<1>1. 0 \in Typed
  <2> SUFFICES ASSUME NEW t \in Seq(S), Len(t) = 0
      PROVE OfChannel(t, c) \in Seq(F)
    OBVIOUS
  <2>1. t = <<>>
    OBVIOUS
  <2>2. <<>> \in Seq(F)
    OBVIOUS
  <2>3. OfChannel(t, c) = <<>>
    BY <2>1, OfChannelEmpty, Zenon
  <2> QED
    BY <2>2, <2>3, Zenon
<1>2. \A n \in Typed : n + 1 \in Typed
  <2> SUFFICES ASSUME NEW n \in Typed, NEW t \in Seq(S), Len(t) = n + 1
               PROVE  OfChannel(t, c) \in Seq(F)
    OBVIOUS
  <2>0. n \in Nat
    OBVIOUS
  <2>1. PICK u \in Seq(S), x \in S : t = Append(u, x) /\ Len(u) = n
    BY <2>0, Chop
  <2>2. OfChannel(u, c) \in Seq(F)
    BY <2>1
  <2>3. OfChannel(Append(u, x), c) = IF Counts(x, c)
        THEN Append(OfChannel(u, c), x)
                                                    ELSE OfChannel(u, c)
    BY OfChannelAppend
  <2>4. CASE Counts(x, c)
    <3>1. x \in F
      BY <1>0, <2>4
    <3>2. Append(OfChannel(u, c), x) \in Seq(F)
      BY <2>2, <3>1
    <3> QED
      BY <2>1, <2>3, <2>4, <3>2, Zenon
  <2>5. CASE ~ Counts(x, c)
    BY <2>1, <2>2, <2>3, <2>5, Zenon
  <2> QED
    BY <2>4, <2>5
<1>3. Typed = Nat
  <2> HIDE DEF Typed
  <2>1. Typed \in SUBSET Nat
    BY DEF Typed
  <2> QED
    BY <1>1, <1>2, <2>1, SetInduction
<1>4. Len(s) \in Nat
  OBVIOUS
<1>5. OfChannel(s, c) \in Seq(F)
  BY <1>3, <1>4
<1> QED
  BY <1>5 DEF F

\* OfChannel of a concatenation.
LEMMA OfChannelConcat ==
    ASSUME NEW S, NEW s \in Seq(S), NEW t \in Seq(S), NEW c
    PROVE  OfChannel(s \o t, c) = OfChannel(s, c) \o OfChannel(t, c)
<1> DEFINE Law(u) == OfChannel(s \o u, c) = OfChannel(s, c) \o OfChannel(u, c)
           Split == {n \in Nat : \A u \in Seq(S) : Len(u) = n => Law(u)}
<1>1. 0 \in Split
  <2> SUFFICES ASSUME NEW u \in Seq(S), Len(u) = 0 PROVE Law(u)
    OBVIOUS
  <2>1. u = <<>>
    OBVIOUS
  <2>2. s \o <<>> = s
    OBVIOUS
  <2>3. OfChannel(s, c) \o <<>> = OfChannel(s, c)
    <3>1. OfChannel(s, c) \in Seq({x \in S : Counts(x, c)})
      BY OfChannelType
    <3> QED
      BY <3>1
  <2> QED
    BY <2>1, <2>2, <2>3, OfChannelEmpty
<1>2. \A n \in Split : n + 1 \in Split
  <2> SUFFICES ASSUME NEW n \in Split, NEW u \in Seq(S), Len(u) = n + 1
               PROVE  Law(u)
    <3> HIDE DEF Law
    <3> QED
      OBVIOUS
  <2>0. n \in Nat
    OBVIOUS
  <2>1. PICK v \in Seq(S), x \in S : u = Append(v, x) /\ Len(v) = n
    BY <2>0, Chop
  <2>2. OfChannel(s \o v, c) = OfChannel(s, c) \o OfChannel(v, c)
    BY <2>1
  <2>3. s \o u = Append(s \o v, x) /\ s \o v \in Seq(S)
    BY <2>1
  <2>4. OfChannel(s \o u, c) = IF Counts(x, c)
        THEN Append(OfChannel(s \o v, c), x)
                                               ELSE OfChannel(s \o v, c)
    <3> DEFINE w == s \o v
    <3>1. w \in Seq(S) /\ s \o u = Append(w, x)
      BY <2>3
    <3> HIDE DEF w
    <3>2. OfChannel(Append(w, x), c) = IF Counts(x, c)
          THEN Append(OfChannel(w, c), x)
                                                       ELSE OfChannel(w, c)
      BY <3>1, OfChannelAppend
    <3>3. OfChannel(s \o u, c) = IF Counts(x, c)
          THEN Append(OfChannel(w, c), x)
                                                  ELSE OfChannel(w, c)
      BY <3>1, <3>2, Zenon
    <3> QED
      BY <3>3 DEF w
  <2>5. OfChannel(u, c) = IF Counts(x, c) THEN Append(OfChannel(v, c), x)
                                         ELSE OfChannel(v, c)
    <3>1. OfChannel(Append(v, x), c) = IF Counts(x, c)
          THEN Append(OfChannel(v, c), x)
                                                       ELSE OfChannel(v, c)
      BY OfChannelAppend
    <3> QED
      BY <2>1, <3>1, Zenon
  <2> DEFINE F == {y \in S : Counts(y, c)}
  <2>6. OfChannel(s, c) \in Seq(S) /\ OfChannel(v, c) \in Seq(S)
    <3>1. OfChannel(s, c) \in Seq(F) /\ OfChannel(v, c) \in Seq(F)
      BY OfChannelType
    <3>2. F \subseteq S
      OBVIOUS
    <3> HIDE DEF F
    <3>3. Seq(F) \subseteq Seq(S)
      BY <3>2, SeqMonotonic
    <3> QED
      BY <3>1, <3>3
  <2>7. OfChannel(s, c) \o Append(OfChannel(v, c), x)
            = Append(OfChannel(s, c) \o OfChannel(v, c), x)
    <3> HIDE DEF OfChannel
    <3> QED
      BY <2>6
  <2> QED
    BY <2>2, <2>4, <2>5, <2>7, Zenon
<1>3. Split = Nat
  <2> HIDE DEF Split
  <2>1. Split \in SUBSET Nat
    BY DEF Split
  <2> QED
    BY <1>1, <1>2, <2>1, SetInduction
<1>4. Len(t) \in Nat
  OBVIOUS
<1> QED
  BY <1>3, <1>4

\* Frames that are all of the channel, and frames that none is.
LEMMA OfChannelAll ==
    ASSUME NEW S, NEW s \in Seq(S), NEW c,
           \A n \in 1..Len(s) : Counts(s[n], c)
    PROVE  OfChannel(s, c) = s
<1> DEFINE T == {n \in Nat : \A t \in Seq(S) :
                      /\ Len(t) = n
                      /\ \A m \in 1..Len(t) : Counts(t[m], c)
                      => OfChannel(t, c) = t}
<1>1. 0 \in T
  <2> SUFFICES ASSUME NEW t \in Seq(S), Len(t) = 0 PROVE OfChannel(t, c) = t
    OBVIOUS
  <2>1. t = <<>>
    OBVIOUS
  <2> QED
    BY <2>1, OfChannelEmpty
<1>2. \A n \in T : n + 1 \in T
  <2> SUFFICES ASSUME NEW n \in T, NEW t \in Seq(S), Len(t) = n + 1,
                      \A m \in 1..Len(t) : Counts(t[m], c)
               PROVE  OfChannel(t, c) = t
    BY SMTT(30)
  <2>0. n \in Nat
    OBVIOUS
  <2>1. PICK u \in Seq(S), x \in S : t = Append(u, x) /\ Len(u) = n
    BY <2>0, Chop
  <2>2. /\ Len(t) \in 1..Len(t) /\ t[Len(t)] = x
        /\ \A m \in 1..Len(u) : m \in 1..Len(t) /\ t[m] = u[m]
    BY <2>1
  <2>3. Counts(x, c) /\ \A m \in 1..Len(u) : Counts(u[m], c)
    BY <2>2
  <2>4. OfChannel(u, c) = u
    BY <2>1, <2>3
  <2> QED
    BY <2>1, <2>3, <2>4, OfChannelAppend
<1>3. T = Nat
  <2> HIDE DEF T
  <2>1. T \in SUBSET Nat
    BY DEF T
  <2> QED
    BY <1>1, <1>2, <2>1, SetInduction
<1>4. Len(s) \in Nat
  OBVIOUS
<1> QED
  BY <1>3, <1>4

\* Frames none of which is of the channel.
LEMMA OfChannelNone ==
    ASSUME NEW S, NEW s \in Seq(S), NEW c,
           \A n \in 1..Len(s) : ~ Counts(s[n], c)
    PROVE  OfChannel(s, c) = <<>>
<1> DEFINE T == {n \in Nat : \A t \in Seq(S) :
                      /\ Len(t) = n
                      /\ \A m \in 1..Len(t) : ~ Counts(t[m], c)
                      => OfChannel(t, c) = <<>>}
<1>1. 0 \in T
  <2> SUFFICES ASSUME NEW t \in Seq(S), Len(t) = 0
      PROVE OfChannel(t, c) = <<>>
    OBVIOUS
  <2>1. t = <<>>
    OBVIOUS
  <2> QED
    BY <2>1, OfChannelEmpty
<1>2. \A n \in T : n + 1 \in T
  <2> SUFFICES ASSUME NEW n \in T, NEW t \in Seq(S), Len(t) = n + 1,
                      \A m \in 1..Len(t) : ~ Counts(t[m], c)
               PROVE  OfChannel(t, c) = <<>>
    OBVIOUS
  <2>0. n \in Nat
    OBVIOUS
  <2>1. PICK u \in Seq(S), x \in S : t = Append(u, x) /\ Len(u) = n
    BY <2>0, Chop
  <2>2. /\ Len(t) \in 1..Len(t) /\ t[Len(t)] = x
        /\ \A m \in 1..Len(u) : m \in 1..Len(t) /\ t[m] = u[m]
    BY <2>1
  <2>3. ~ Counts(x, c) /\ \A m \in 1..Len(u) : ~ Counts(u[m], c)
    BY <2>2
  <2>4. OfChannel(u, c) = <<>>
    BY <2>1, <2>3
  <2> QED
    BY <2>1, <2>3, <2>4, OfChannelAppend
<1>3. T = Nat
  <2> HIDE DEF T
  <2>1. T \in SUBSET Nat
    BY DEF T
  <2> QED
    BY <1>1, <1>2, <2>1, SetInduction
<1>4. Len(s) \in Nat
  OBVIOUS
<1> QED
  BY <1>3, <1>4

----------------------------------------------------------------------------
\* THE FRAMES OF THE SERVER: what becomes of each
SuccessNames ==
    {"ChannelFlowOK", "TransactionSelectOK", "TransactionCommitOK",
     "TransactionRollbackOK", "ExchangeDeclareOK", "ExchangeBindOK",
     "ExchangeUnbindOK", "ExchangeDeleteOK", "QueueDeclareOK", "QueueBindOK",
     "QueueUnbindOK", "QueuePurgeOK", "QueueDeleteOK", "BasicQosOK",
     "BasicConsumeOK", "BasicCancelOK", "BasicGetEmpty"}
ConnectionNames ==
    {"ConnectionStart", "ConnectionTune", "ConnectionOpenOK",
     "ConnectionClose", "ConnectionCloseOK", "Heartbeat", "ChannelFlow"}
ChannelNames ==
    SuccessNames \cup
    {"ChannelOpenOK", "ChannelClose", "ChannelCloseOK", "BasicDeliver",
     "BasicGetOK", "BasicRecoverOK", "BasicHeader", "Body"}
ServerNames == ConnectionNames \cup ChannelNames

OfConnection(name) ==
    \/ Frames[name].classID = 10 \/ Frames[name].type \in {4, 8}
    \/ Frames[name].process = "unimplemented"

\* The classes of these names.
LEMMA FramesByName ==
    /\ Frames["ConnectionStart"] = ConnectionStartFrame
    /\ Frames["ConnectionTune"] = ConnectionTuneFrame
    /\ Frames["ConnectionOpenOK"] = ConnectionOpenOKFrame
    /\ Frames["ConnectionClose"] = ConnectionCloseFrame
    /\ Frames["ConnectionCloseOK"] = ConnectionCloseOKFrame
    /\ Frames["Heartbeat"] = HeartbeatFrame
    /\ Frames["ChannelFlow"] = ChannelFlowFrame
    /\ Frames["ChannelOpenOK"] = ChannelOpenOKFrame
    /\ Frames["ChannelClose"] = ChannelCloseFrame
    /\ Frames["ChannelCloseOK"] = ChannelCloseOKFrame
    /\ Frames["BasicDeliver"] = BasicDeliverFrame
    /\ Frames["BasicGetOK"] = BasicGetOKFrame
    /\ Frames["BasicRecoverOK"] = BasicRecoverOKFrame
    /\ Frames["BasicHeader"] = BasicHeaderFrame
    /\ Frames["Body"] = BodyFrame
    /\ Frames["ChannelFlowOK"] = ChannelFlowOKFrame
    /\ Frames["TransactionSelectOK"] = TransactionSelectOKFrame
    /\ Frames["TransactionCommitOK"] = TransactionCommitOKFrame
    /\ Frames["TransactionRollbackOK"] = TransactionRollbackOKFrame
    /\ Frames["ExchangeDeclareOK"] = ExchangeDeclareOKFrame
    /\ Frames["ExchangeBindOK"] = ExchangeBindOKFrame
    /\ Frames["ExchangeUnbindOK"] = ExchangeUnbindOKFrame
    /\ Frames["ExchangeDeleteOK"] = ExchangeDeleteOKFrame
    /\ Frames["QueueDeclareOK"] = QueueDeclareOKFrame
    /\ Frames["QueueBindOK"] = QueueBindOKFrame
    /\ Frames["QueueUnbindOK"] = QueueUnbindOKFrame
    /\ Frames["QueuePurgeOK"] = QueuePurgeOKFrame
    /\ Frames["QueueDeleteOK"] = QueueDeleteOKFrame
    /\ Frames["BasicQosOK"] = BasicQosOKFrame
    /\ Frames["BasicConsumeOK"] = BasicConsumeOKFrame
    /\ Frames["BasicCancelOK"] = BasicCancelOKFrame
    /\ Frames["BasicGetEmpty"] = BasicGetEmptyFrame
BY DEF Frames

\* What Process looks at.
Kind(frame, process, classID, type) ==
    frame.process = process /\ frame.classID = classID /\ frame.type = type

\* These classes, as process() sees them.
LEMMA FrameKinds ==
    /\ Kind(ConnectionStartFrame, "start", 10, 1)
    /\ Kind(ConnectionTuneFrame, "tune", 10, 1)
    /\ Kind(ConnectionOpenOKFrame, "connected", 10, 1)
    /\ Kind(ConnectionCloseFrame, "connectionError", 10, 1)
    /\ Kind(ConnectionCloseOKFrame, "connectionClosed", 10, 1)
    /\ Kind(HeartbeatFrame, "heartbeat", 0, 8)
    /\ Kind(ChannelFlowFrame, "unimplemented", 20, 1)
    /\ Kind(ChannelOpenOKFrame, "ready", 20, 1)
    /\ Kind(ChannelCloseFrame, "channelError", 20, 1)
    /\ Kind(ChannelCloseOKFrame, "channelClosed", 20, 1)
    /\ Kind(BasicDeliverFrame, "delivered", 60, 1)
    /\ Kind(BasicGetOKFrame, "got", 60, 1)
    /\ Kind(BasicRecoverOKFrame, "recovered", 60, 1)
    /\ Kind(BasicHeaderFrame, "header", 60, 2)
    /\ Kind(BodyFrame, "body", 0, 3)
    /\ Kind(ChannelFlowOKFrame, "success", 20, 1)
    /\ Kind(TransactionSelectOKFrame, "success", 90, 1)
    /\ Kind(TransactionCommitOKFrame, "success", 90, 1)
    /\ Kind(TransactionRollbackOKFrame, "success", 90, 1)
    /\ Kind(ExchangeDeclareOKFrame, "success", 40, 1)
    /\ Kind(ExchangeBindOKFrame, "success", 40, 1)
    /\ Kind(ExchangeUnbindOKFrame, "success", 40, 1)
    /\ Kind(ExchangeDeleteOKFrame, "success", 40, 1)
    /\ Kind(QueueDeclareOKFrame, "success", 50, 1)
    /\ Kind(QueueBindOKFrame, "success", 50, 1)
    /\ Kind(QueueUnbindOKFrame, "success", 50, 1)
    /\ Kind(QueuePurgeOKFrame, "success", 50, 1)
    /\ Kind(QueueDeleteOKFrame, "success", 50, 1)
    /\ Kind(BasicQosOKFrame, "success", 60, 1)
    /\ Kind(BasicConsumeOKFrame, "success", 60, 1)
    /\ Kind(BasicCancelOKFrame, "success", 60, 1)
    /\ Kind(BasicGetEmptyFrame, "success", 60, 1)
<1>1. Kind(ConnectionStartFrame, "start", 10, 1)
  BY DEF Kind, ConnectionStartFrame, ConnectionFrame, MethodFrame, ExtFrame,
         Frame
<1>2. Kind(ConnectionTuneFrame, "tune", 10, 1)
  BY DEF Kind, ConnectionTuneFrame, ConnectionFrame, MethodFrame, ExtFrame,
         Frame
<1>3. Kind(ConnectionOpenOKFrame, "connected", 10, 1)
  BY DEF Kind, ConnectionOpenOKFrame, ConnectionFrame, MethodFrame, ExtFrame,
         Frame
<1>4. Kind(ConnectionCloseFrame, "connectionError", 10, 1)
  BY DEF Kind, ConnectionCloseFrame, ConnectionFrame, MethodFrame, ExtFrame,
         Frame
<1>5. Kind(ConnectionCloseOKFrame, "connectionClosed", 10, 1)
  BY DEF Kind, ConnectionCloseOKFrame, ConnectionFrame, MethodFrame, ExtFrame,
         Frame
<1>6. Kind(HeartbeatFrame, "heartbeat", 0, 8)
  BY DEF Kind, HeartbeatFrame, ExtFrame, Frame
<1>7. Kind(ChannelFlowFrame, "unimplemented", 20, 1)
  BY DEF Kind, ChannelFlowFrame, ChannelFrame, MethodFrame, ExtFrame, Frame
<1>8. Kind(ChannelOpenOKFrame, "ready", 20, 1)
  BY DEF Kind, ChannelOpenOKFrame, ChannelFrame, MethodFrame, ExtFrame, Frame
<1>9. Kind(ChannelCloseFrame, "channelError", 20, 1)
  BY DEF Kind, ChannelCloseFrame, ChannelFrame, MethodFrame, ExtFrame, Frame
<1>10. Kind(ChannelCloseOKFrame, "channelClosed", 20, 1)
  BY DEF Kind, ChannelCloseOKFrame, ChannelFrame, MethodFrame, ExtFrame, Frame
<1>11. Kind(BasicDeliverFrame, "delivered", 60, 1)
  BY DEF Kind, BasicDeliverFrame, BasicFrame, MethodFrame, ExtFrame, Frame
<1>12. Kind(BasicGetOKFrame, "got", 60, 1)
  BY DEF Kind, BasicGetOKFrame, BasicFrame, MethodFrame, ExtFrame, Frame
<1>13. Kind(BasicRecoverOKFrame, "recovered", 60, 1)
  BY DEF Kind, BasicRecoverOKFrame, BasicFrame, MethodFrame, ExtFrame, Frame
<1>14. Kind(BasicHeaderFrame, "header", 60, 2)
  BY DEF Kind, BasicHeaderFrame, HeaderFrame, ExtFrame, Frame
<1>15. Kind(BodyFrame, "body", 0, 3)
  BY DEF Kind, BodyFrame, ExtFrame, Frame
<1>16. Kind(ChannelFlowOKFrame, "success", 20, 1)
  BY DEF Kind, ChannelFlowOKFrame, ChannelFrame, MethodFrame, ExtFrame, Frame
<1>17. Kind(TransactionSelectOKFrame, "success", 90, 1)
  BY DEF Kind, TransactionSelectOKFrame, TransactionFrame, MethodFrame,
         ExtFrame, Frame
<1>18. Kind(TransactionCommitOKFrame, "success", 90, 1)
  BY DEF Kind, TransactionCommitOKFrame, TransactionFrame, MethodFrame,
         ExtFrame, Frame
<1>19. Kind(TransactionRollbackOKFrame, "success", 90, 1)
  BY DEF Kind, TransactionRollbackOKFrame, TransactionFrame, MethodFrame,
         ExtFrame, Frame
<1>20. Kind(ExchangeDeclareOKFrame, "success", 40, 1)
  BY DEF Kind, ExchangeDeclareOKFrame, ExchangeFrame, MethodFrame, ExtFrame,
         Frame
<1>21. Kind(ExchangeBindOKFrame, "success", 40, 1)
  BY DEF Kind, ExchangeBindOKFrame, ExchangeFrame, MethodFrame, ExtFrame,
         Frame
<1>22. Kind(ExchangeUnbindOKFrame, "success", 40, 1)
  BY DEF Kind, ExchangeUnbindOKFrame, ExchangeFrame, MethodFrame, ExtFrame,
         Frame
<1>23. Kind(ExchangeDeleteOKFrame, "success", 40, 1)
  BY DEF Kind, ExchangeDeleteOKFrame, ExchangeFrame, MethodFrame, ExtFrame,
         Frame
<1>24. Kind(QueueDeclareOKFrame, "success", 50, 1)
  BY DEF Kind, QueueDeclareOKFrame, QueueFrame, MethodFrame, ExtFrame, Frame
<1>25. Kind(QueueBindOKFrame, "success", 50, 1)
  BY DEF Kind, QueueBindOKFrame, QueueFrame, MethodFrame, ExtFrame, Frame
<1>26. Kind(QueueUnbindOKFrame, "success", 50, 1)
  BY DEF Kind, QueueUnbindOKFrame, QueueFrame, MethodFrame, ExtFrame, Frame
<1>27. Kind(QueuePurgeOKFrame, "success", 50, 1)
  BY DEF Kind, QueuePurgeOKFrame, QueueFrame, MethodFrame, ExtFrame, Frame
<1>28. Kind(QueueDeleteOKFrame, "success", 50, 1)
  BY DEF Kind, QueueDeleteOKFrame, QueueFrame, MethodFrame, ExtFrame, Frame
<1>29. Kind(BasicQosOKFrame, "success", 60, 1)
  BY DEF Kind, BasicQosOKFrame, BasicFrame, MethodFrame, ExtFrame, Frame
<1>30. Kind(BasicConsumeOKFrame, "success", 60, 1)
  BY DEF Kind, BasicConsumeOKFrame, BasicFrame, MethodFrame, ExtFrame, Frame
<1>31. Kind(BasicCancelOKFrame, "success", 60, 1)
  BY DEF Kind, BasicCancelOKFrame, BasicFrame, MethodFrame, ExtFrame, Frame
<1>32. Kind(BasicGetEmptyFrame, "success", 60, 1)
  BY DEF Kind, BasicGetEmptyFrame, BasicFrame, MethodFrame, ExtFrame, Frame
<1> QED
  BY <1>1, <1>2, <1>3, <1>4, <1>5, <1>6, <1>7, <1>8, <1>9, <1>10, <1>11,
     <1>12, <1>13, <1>14, <1>15, <1>16, <1>17, <1>18, <1>19, <1>20, <1>21,
     <1>22, <1>23, <1>24, <1>25, <1>26, <1>27, <1>28, <1>29, <1>30, <1>31,
     <1>32

\* The frames of the connection are processed by it.
LEMMA ConnectionFrames ==
    /\ \A name \in ConnectionNames : OfConnection(name)
    /\ Frames["ConnectionStart"].process = "start"
    /\ Frames["ConnectionTune"].process = "tune"
    /\ Frames["ConnectionOpenOK"].process = "connected"
    /\ Frames["ConnectionClose"].process = "connectionError"
    /\ Frames["ConnectionCloseOK"].process = "connectionClosed"
    /\ Frames["Heartbeat"].process = "heartbeat"
    /\ Frames["ChannelFlow"].process = "unimplemented"
<1>1. \A name \in ConnectionNames :
          \/ Frames[name].classID = 10 \/ Frames[name].type = 8
          \/ Frames[name].process = "unimplemented"
  BY FramesByName, FrameKinds DEF ConnectionNames, Kind
<1>2. \A name \in ConnectionNames : OfConnection(name)
  BY <1>1 DEF OfConnection
<1> QED
  BY <1>2, FramesByName, FrameKinds DEF Kind

\* Those of a channel are processed by the channel.
LEMMA ChannelFrames ==
    /\ \A name \in ChannelNames : ~ OfConnection(name)
    /\ \A name \in SuccessNames : Frames[name].process = "success"
    /\ Frames["ChannelOpenOK"].process = "ready"
    /\ Frames["ChannelClose"].process = "channelError"
    /\ Frames["ChannelCloseOK"].process = "channelClosed"
    /\ Frames["BasicDeliver"].process = "delivered"
    /\ Frames["BasicGetOK"].process = "got"
    /\ Frames["BasicRecoverOK"].process = "recovered"
    /\ Frames["BasicHeader"].process = "header"
    /\ Frames["Body"].process = "body"
<1>1. \A name \in ChannelNames :
          /\ Frames[name].classID \in {0, 20, 40, 50, 60, 90}
          /\ Frames[name].type \in {1, 2, 3}
          /\ Frames[name].process # "unimplemented"
  BY FramesByName, FrameKinds DEF ChannelNames, SuccessNames, Kind
<1>2. \A name \in ChannelNames : ~ OfConnection(name)
  BY <1>1 DEF OfConnection
<1>3. \A name \in SuccessNames : Frames[name].process = "success"
  BY FramesByName, FrameKinds DEF SuccessNames, Kind
<1> QED
  BY <1>2, <1>3, FramesByName, FrameKinds DEF Kind

----------------------------------------------------------------------------
\* THE CHANNEL
FrameNames == DOMAIN Frames
AFrame == [name : FrameNames, channel : Nat, id : Nat]
FrameOf(c) == {f \in AFrame : Counts(f, c)}

Deferreds == [id : Nat, failed : BOOLEAN,
              class : {"consume", "cancel", "get", "plain"}]
Messages == [id : Nat, consumer : {"none", "tag", ""}, bodySize : Nat,
             received : Nat]

IsChannel(ch, c) ==
    ch \in [state : {"connected", "closing", "closed"}, synchronous : BOOLEAN,
            queue : Seq(FrameOf(c)), callbacks : Seq(Deferreds),
            consumers : SUBSET {"tag", ""}, message : Messages,
            accepted : Seq(FrameOf(c)), requests : Seq(Nat),
            outcomes : {ch.outcomes}, reported : Seq(Nat \X Nat)]

\* r is what a method leaves of ch: the frames it hands on and those that wait
\* are the ones that waited and the ones it accepted, in this order.
KeepsOrder(ch, c, r) ==
    /\ r.frames \in Seq(FrameOf(c))
    /\ \E a \in Seq(FrameOf(c)) :
          /\ r.ch.accepted = ch.accepted \o a
          /\ r.frames \o r.ch.queue = ch.queue \o a
    /\ ch.state = "closed" => /\ r.ch.state = "closed" /\ r.frames = <<>>
                              /\ r.ch.accepted = ch.accepted
    /\ ch.state # "closed" => r.ch.state # "closed"

\* A channel that waits for nothing hands nothing on and still does not wait.
StaysQuiet(ch, r) == ~ Waiting(ch) => ~ Waiting(r.ch) /\ r.frames = <<>>

\* A method that touches no frame.
SameFrames(ch, other) ==
    /\ (other.state = "closed") <=> (ch.state = "closed")
    /\ other.synchronous = ch.synchronous
    /\ other.queue = ch.queue /\ other.accepted = ch.accepted

\* What a call leaves of a channel, and that it hands on nothing that the
\* connection does not take.
Leaves(ch, c, r) ==
    /\ IsChannel(r.ch, c) /\ r.ok \in BOOLEAN
       /\ r = Result(r.ok, r.ch, r.frames)
    /\ KeepsOrder(ch, c, r)

Sends(ch, c, taken, r) ==
    /\ Leaves(ch, c, r)
    /\ ~ taken => StaysQuiet(ch, r)
    /\ r.frames # <<>> => taken

\* Three sequences, joined in either order.
LEMMA Associative ==
    ASSUME NEW S
    PROVE  \A x, y, z \in Seq(S) : (x \o y) \o z = x \o (y \o z)
BY ConcatAssociative

\* The same of the frames of a channel.
LEMMA FramesAssociative ==
    ASSUME NEW c
    PROVE  \A x, y, z \in Seq(FrameOf(c)) : (x \o y) \o z = x \o (y \o z)
BY Associative

\* Joining nothing changes nothing.
LEMMA EmptyConcat ==
    ASSUME NEW S, NEW s \in Seq(S)
    PROVE  <<>> \o s = s /\ s \o <<>> = s
OBVIOUS

\* The frames of a channel are its own.
LEMMA ChannelFramesTyped ==
    ASSUME NEW c, NEW ch, IsChannel(ch, c)
    PROVE  ch.queue \in Seq(FrameOf(c)) /\ ch.accepted \in Seq(FrameOf(c))
<1>1. ch.queue \in Seq(FrameOf(c))
  BY DEF IsChannel
<1>2. ch.accepted \in Seq(FrameOf(c))
  BY DEF IsChannel
<1> QED
  BY <1>1, <1>2

\* The fields of what a method leaves.
LEMMA ResultFields ==
    ASSUME NEW ok, NEW ch, NEW frames
    PROVE  /\ Result(ok, ch, frames).ok = ok /\ Result(ok, ch, frames).ch = ch
           /\ Result(ok, ch, frames).frames = frames
BY DEF Result

\* A method that touches no frame keeps the order.
LEMMA SameKeepsOrder ==
    ASSUME NEW c, NEW ch, IsChannel(ch, c), NEW other, SameFrames(ch, other),
           NEW ok
    PROVE  /\ KeepsOrder(ch, c, Result(ok, other, <<>>))
           /\ StaysQuiet(ch, Result(ok, other, <<>>))
<1>1. /\ ch.queue \in Seq(FrameOf(c)) /\ ch.accepted \in Seq(FrameOf(c))
      /\ <<>> \in Seq(FrameOf(c))
  BY ChannelFramesTyped
<1>2. ch.accepted = ch.accepted \o <<>> /\ <<>> \o ch.queue = ch.queue \o <<>>
  BY <1>1, EmptyConcat
<1> QED
  BY <1>1, <1>2 DEF KeepsOrder, StaysQuiet, SameFrames, Result, Waiting

\* send() keeps the order: what waits goes first, what is refused is not
\* accepted, and a channel that waits hands nothing on.
LEMMA SendSends ==
    ASSUME NEW c, NEW ch, IsChannel(ch, c), NEW frame \in FrameOf(c),
           NEW taken \in BOOLEAN
    PROVE  Sends(ch, c, taken, Send(ch, frame, taken))
<1> SUFFICES ASSUME NEW r, r = Send(ch, frame, taken)
             PROVE  Sends(ch, c, taken, r)
  OBVIOUS
<1> SUFFICES /\ IsChannel(r.ch, c) /\ r.ok \in BOOLEAN
             /\ r = Result(r.ok, r.ch, r.frames)
             /\ KeepsOrder(ch, c, r)
             /\ ~ taken => StaysQuiet(ch, r)
             /\ r.frames # <<>> => taken
  BY DEF Sends, Leaves
<1>1. /\ ch.queue \in Seq(FrameOf(c)) /\ ch.accepted \in Seq(FrameOf(c))
      /\ <<>> \in Seq(FrameOf(c)) /\ <<frame>> \in Seq(FrameOf(c))
  BY ChannelFramesTyped
<1>2. Append(ch.accepted, frame) = ch.accepted \o <<frame>>
  BY <1>1
<1>3. CASE r.ch = ch /\ r.frames = <<>> /\ r = Result(r.ok, ch, <<>>)
      /\ r.ok \in BOOLEAN
  <2>1. SameFrames(ch, ch)
    BY DEF SameFrames
  <2>2. /\ KeepsOrder(ch, c, Result(r.ok, ch, <<>>))
        /\ StaysQuiet(ch, Result(r.ok, ch, <<>>))
    BY <2>1, SameKeepsOrder
  <2> QED
    BY <2>2, <1>3
<1>4. CASE /\ Waiting(ch) /\ ch.state \notin {"closed", "closing"}
           /\ r = Result(TRUE, [ch EXCEPT !.queue = Append(@, frame),
                                          !.accepted = Append(@, frame)],
                                          <<>>)
  <2> DEFINE new == [ch EXCEPT !.queue = Append(@, frame),
                              !.accepted = Append(@, frame)]
  <2>0. r = Result(TRUE, new, <<>>)
    BY <1>4
  <2> HIDE DEF new
  <2>1. r.frames = <<>> /\ r.ok = TRUE /\ r = Result(r.ok, r.ch, r.frames)
    BY ONLY <2>0 DEF Result
  <2>2. r.ch = new
    BY ONLY <2>0 DEF Result
  <2> USE DEF new
  <2>3. IsChannel(r.ch, c)
    <3>1. Append(ch.queue, frame) \in Seq(FrameOf(c))
          /\ Append(ch.accepted, frame) \in Seq(FrameOf(c))
      BY <1>1
    <3> QED
      BY <2>2, <3>1 DEF IsChannel
  <2>4. /\ r.ch.queue = Append(ch.queue, frame)
           /\ r.ch.accepted = Append(ch.accepted, frame)
        /\ r.ch.state = ch.state
    BY <2>2 DEF IsChannel
  <2>5. Append(ch.queue, frame) = ch.queue \o <<frame>>
        /\ <<>> \o Append(ch.queue, frame) = Append(ch.queue, frame)
    BY <1>1, SMTT(30)
  <2>6. KeepsOrder(ch, c, r)
    BY <1>1, <1>2, <1>4, <2>1, <2>4, <2>5 DEF KeepsOrder
  <2> QED
    BY <1>4, <2>1, <2>3, <2>4, <2>6 DEF StaysQuiet
<1>5. CASE /\ ~ Waiting(ch) /\ taken /\ ch.state \notin {"closed", "closing"}
           /\ r = Result(TRUE, [ch EXCEPT !.synchronous = Synchronous(frame),
                                          !.accepted = Append(@, frame)],
                                          <<frame>>)
  <2> DEFINE new == [ch EXCEPT !.synchronous = Synchronous(frame),
                              !.accepted = Append(@, frame)]
  <2>0. r = Result(TRUE, new, <<frame>>)
    BY <1>5
  <2> HIDE DEF new
  <2>1. r.frames = <<frame>> /\ r.ok = TRUE
        /\ r = Result(r.ok, r.ch, r.frames)
    BY ONLY <2>0 DEF Result
  <2>2. r.ch = new
    BY ONLY <2>0 DEF Result
  <2> USE DEF new
  <2>3. IsChannel(r.ch, c)
    <3>1. Append(ch.accepted, frame) \in Seq(FrameOf(c))
          /\ Synchronous(frame) \in BOOLEAN
      BY <1>1 DEF Synchronous
    <3> QED
      BY <2>2, <3>1 DEF IsChannel
  <2>4. /\ r.ch.queue = ch.queue /\ r.ch.accepted = Append(ch.accepted, frame)
        /\ r.ch.state = ch.state
    BY <2>2 DEF IsChannel
  <2>5. ch.queue = <<>> /\ <<frame>> \o <<>> = <<>> \o <<frame>>
    BY <1>5 DEF Waiting
  <2>6. KeepsOrder(ch, c, r)
    BY <1>1, <1>2, <1>5, <2>1, <2>4, <2>5 DEF KeepsOrder
  <2> QED
    BY <1>5, <2>1, <2>3, <2>4, <2>6
<1> QED
  BY <1>3, <1>4, <1>5, Zenon DEF Send, Result

\* A Result with other frames, and with another channel.
LEMMA WithFrames ==
    ASSUME NEW s, s = Result(s.ok, s.ch, s.frames), NEW frames
    PROVE  [s EXCEPT !.frames = frames] = Result(s.ok, s.ch, frames)
BY DEF Result

\* The Result with another channel.
LEMMA WithChannel ==
    ASSUME NEW s, s = Result(s.ok, s.ch, s.frames), NEW ch
    PROVE  [s EXCEPT !.ch = ch] = Result(s.ok, ch, s.frames)
BY DEF Result

\* Two sends, one after the other.
LEMMA KeepsOrderTwice ==
    ASSUME NEW c, NEW ch, IsChannel(ch, c), NEW r, KeepsOrder(ch, c, r),
           IsChannel(r.ch, c), NEW s, KeepsOrder(r.ch, c, s),
           IsChannel(s.ch, c),
           NEW both, both = [s EXCEPT !.frames = r.frames \o @],
           s = Result(s.ok, s.ch, s.frames)
    PROVE  KeepsOrder(ch, c, both)
<1>0. \A x, y, z \in Seq(FrameOf(c)) : (x \o y) \o z = x \o (y \o z)
  BY FramesAssociative
<1>1. both = Result(s.ok, s.ch, r.frames \o s.frames)
  BY DEF Result
<1>2. both.ch = s.ch /\ both.frames = r.frames \o s.frames
  BY <1>1 DEF Result
<1>3. PICK a \in Seq(FrameOf(c)) : /\ r.ch.accepted = ch.accepted \o a
                                   /\ r.frames \o r.ch.queue = ch.queue \o a
  BY DEF KeepsOrder
<1>4. PICK b \in Seq(FrameOf(c)) : /\ s.ch.accepted = r.ch.accepted \o b
                                   /\ s.frames \o s.ch.queue = r.ch.queue \o b
  BY DEF KeepsOrder
<1>5. /\ ch.accepted \in Seq(FrameOf(c)) /\ ch.queue \in Seq(FrameOf(c))
      /\ r.ch.queue \in Seq(FrameOf(c)) /\ s.ch.queue \in Seq(FrameOf(c))
      /\ r.frames \in Seq(FrameOf(c)) /\ s.frames \in Seq(FrameOf(c))
  BY DEF KeepsOrder, IsChannel
<1>6. a \o b \in Seq(FrameOf(c)) /\ r.frames \o s.frames \in Seq(FrameOf(c))
  BY <1>5
<1>7. s.ch.accepted = ch.accepted \o (a \o b)
  <2>1. (ch.accepted \o a) \o b = ch.accepted \o (a \o b)
    <3>1. ch.accepted \in Seq(FrameOf(c)) /\ a \in Seq(FrameOf(c))
          /\ b \in Seq(FrameOf(c))
      BY <1>5
    <3> QED
      BY ONLY <1>0, <3>1, ZenonT(40)
  <2> QED
    BY <2>1, <1>3, <1>4, Zenon
<1>8. (r.frames \o s.frames) \o s.ch.queue = ch.queue \o (a \o b)
  <2>1. (r.frames \o s.frames) \o s.ch.queue = r.frames \o (s.frames \o s.ch.queue)
    <3>1. r.frames \in Seq(FrameOf(c)) /\ s.frames \in Seq(FrameOf(c))
          /\ s.ch.queue \in Seq(FrameOf(c))
      BY <1>5
    <3> QED
      BY ONLY <1>0, <3>1, ZenonT(40)
  <2>2. r.frames \o (r.ch.queue \o b) = (r.frames \o r.ch.queue) \o b
    <3>1. r.frames \in Seq(FrameOf(c)) /\ r.ch.queue \in Seq(FrameOf(c))
          /\ b \in Seq(FrameOf(c))
      BY <1>5
    <3> QED
      BY ONLY <1>0, <3>1, ZenonT(40)
  <2>3. (ch.queue \o a) \o b = ch.queue \o (a \o b)
    <3>1. ch.queue \in Seq(FrameOf(c)) /\ a \in Seq(FrameOf(c))
          /\ b \in Seq(FrameOf(c))
      BY <1>5
    <3> QED
      BY ONLY <1>0, <3>1, ZenonT(40)
  <2> QED
    BY <2>1, <2>2, <2>3, <1>3, <1>4, Zenon
<1>9. ch.state = "closed" => /\ s.ch.state = "closed"
                                /\ r.frames \o s.frames = <<>>
                             /\ s.ch.accepted = ch.accepted
  BY DEF KeepsOrder
<1>10. ch.state # "closed" => s.ch.state # "closed"
  BY DEF KeepsOrder
<1>11. \E x \in Seq(FrameOf(c)) : /\ both.ch.accepted = ch.accepted \o x
                                  /\ both.frames \o both.ch.queue = ch.queue \o x
  BY <1>2, <1>6, <1>7, <1>8, Zenon
<1> QED
  BY <1>2, <1>6, <1>9, <1>10, <1>11 DEF KeepsOrder

\* The next send of a method.
LEMMA AndSendSends ==
    ASSUME NEW c, NEW ch, IsChannel(ch, c), NEW frame \in FrameOf(c),
           NEW taken \in BOOLEAN, NEW r, Sends(ch, c, taken, r)
    PROVE  Sends(ch, c, taken, AndSend(r, frame, taken))
<1>1. CASE ~ r.ok
  BY <1>1 DEF AndSend
<1>2. CASE r.ok
  <2> DEFINE s == Send(r.ch, frame, taken)
             both == [s EXCEPT !.frames = r.frames \o @]
  <2>1. Sends(r.ch, c, taken, s)
    BY SendSends DEF Sends, Leaves
  <2>2. AndSend(r, frame, taken) = both
    BY <1>2 DEF AndSend
  <2> HIDE DEF s
  <2>3. s = Result(s.ok, s.ch, s.frames) /\ IsChannel(s.ch, c)
        /\ s.ok \in BOOLEAN
    BY <2>1 DEF Sends, Leaves
  <2>4. both = Result(s.ok, s.ch, r.frames \o s.frames)
    BY <2>3, WithFrames
  <2>5. both.ch = s.ch /\ both.ok = s.ok /\ both.frames = r.frames \o s.frames
    BY ONLY <2>4 DEF Result
  <2>6. KeepsOrder(ch, c, both)
    <3>1. KeepsOrder(r.ch, c, s) /\ KeepsOrder(ch, c, r) /\ IsChannel(r.ch, c)
      BY <2>1 DEF Sends, Leaves
    <3> QED
      BY <2>3, <3>1, KeepsOrderTwice
  <2> HIDE DEF both
  <2>7. r.frames \in Seq(FrameOf(c)) /\ s.frames \in Seq(FrameOf(c))
    BY <2>1 DEF Sends, Leaves, KeepsOrder
  <2>8. ~ taken => StaysQuiet(ch, both)
    <3>1. ~ taken => StaysQuiet(ch, r) /\ StaysQuiet(r.ch, s)
      BY <2>1 DEF Sends
    <3>2. <<>> \o <<>> = <<>>
      OBVIOUS
    <3> QED
      BY <2>5, <3>1, <3>2, Zenon DEF StaysQuiet
  <2>9. both.frames # <<>> => taken
    <3>1. r.frames # <<>> => taken
      BY DEF Sends
    <3>2. s.frames # <<>> => taken
      BY <2>1 DEF Sends
    <3>3. <<>> \o <<>> = <<>>
      OBVIOUS
    <3> QED
      BY <2>5, <3>1, <3>2, <3>3, Zenon
  <2>10. both = Result(both.ok, both.ch, both.frames)
    BY <2>4, <2>5, Zenon
  <2>11. Sends(ch, c, taken, both)
    BY <2>3, <2>5, <2>6, <2>8, <2>9, <2>10, Zenon DEF Sends, Leaves
  <2> QED
    BY <2>2, <2>11, Zenon
<1> QED
  BY <1>1, <1>2 DEF Sends, Leaves

\* publish() sends its three frames in their order, or what it could.
LEMMA PublishSends ==
    ASSUME NEW c \in Nat, NEW ch, IsChannel(ch, c), NEW id \in Nat,
           NEW taken \in BOOLEAN
    PROVE  Sends(ch, c, taken, Publish(ch, c, id, taken))
<1> DEFINE part(name) == [name |-> name, channel |-> c, id |-> id]
           method == Send(ch, part("BasicPublish"), taken)
           header == AndSend(method, part("BasicHeader"), taken)
           body == AndSend(header, part("Body"), taken)
<1>1. /\ part("BasicPublish") \in FrameOf(c)
         /\ part("BasicHeader") \in FrameOf(c)
      /\ part("Body") \in FrameOf(c)
  <2>1. \A name \in FrameNames \ {"ChannelCloseOK"} : part(name) \in FrameOf(c)
    BY DEF FrameOf, AFrame, Counts
  <2>2. /\ "BasicPublish" \in FrameNames /\ "BasicHeader" \in FrameNames
        /\ "Body" \in FrameNames
    BY DEF FrameNames, Frames
  <2> QED
    BY <2>1, <2>2
<1>2. Publish(ch, c, id, taken) = body
  BY DEF Publish
<1> HIDE DEF part
<1>3. Sends(ch, c, taken, method)
  BY <1>1, SendSends
<1> HIDE DEF method
<1>4. Sends(ch, c, taken, header)
  BY <1>1, <1>3, AndSendSends
<1> HIDE DEF header
<1>5. Sends(ch, c, taken, body)
  BY <1>1, <1>4, AndSendSends
<1> QED
  BY <1>2, <1>5

\* A channel whose frames another has.
LEMMA SameAfterKeepsOrder ==
    ASSUME NEW c, NEW taken \in BOOLEAN, NEW ch, NEW s,
           Sends(ch, c, taken, s), NEW other,
           SameFrames(s.ch, other), IsChannel(other, c)
    PROVE  Sends(ch, c, taken, Result(s.ok, other, s.frames))
<1> DEFINE r == Result(s.ok, other, s.frames)
<1>1. r.ok = s.ok /\ r.ch = other /\ r.frames = s.frames
      /\ r = Result(s.ok, other, s.frames)
  BY DEF Result
<1> HIDE DEF r
<1>2. KeepsOrder(ch, c, s)
  BY DEF Sends, Leaves
<1>3. KeepsOrder(ch, c, r)
  BY <1>1, <1>2 DEF KeepsOrder, SameFrames
<1>4. ~ taken => StaysQuiet(ch, r)
  BY <1>1 DEF StaysQuiet, Sends, SameFrames, Waiting
<1>5. Sends(ch, c, taken, r)
  BY <1>1, <1>3, <1>4 DEF Sends, Leaves
<1> QED
  BY <1>5 DEF r

\* push(deferred) touches no frame.
LEMMA PushSame ==
    ASSUME NEW c, NEW ch, IsChannel(ch, c), NEW deferred \in Deferreds
    PROVE  /\ IsChannel(Push(ch, deferred), c)
              /\ SameFrames(ch, Push(ch, deferred))
           /\ Push(ch, deferred).state = ch.state
<1>1. /\ ch.callbacks \in Seq(Deferreds) /\ ch.requests \in Seq(Nat)
      /\ deferred.id \in Nat
  BY DEF IsChannel, Deferreds
<1>2. /\ Append(ch.callbacks, deferred) \in Seq(Deferreds)
      /\ Append(ch.requests, deferred.id) \in Seq(Nat)
  BY <1>1
<1>3. IsChannel(Push(ch, deferred), c)
  BY <1>1, <1>2 DEF IsChannel, Push
<1> QED
  BY <1>3 DEF IsChannel, Push, SameFrames

\* A Deferred of a request.
LEMMA DeferredTyped ==
    ASSUME NEW method, NEW id \in Nat, NEW failed \in BOOLEAN
    PROVE  Deferred(method, id, failed) \in Deferreds
BY DEF Deferred, Deferreds

\* A request sends its frame and pushes its Deferred.
LEMMA RequestSends ==
    ASSUME NEW c, NEW ch, IsChannel(ch, c), NEW method,
           NEW frame \in FrameOf(c),
           NEW taken \in BOOLEAN
    PROVE  Sends(ch, c, taken, Request(ch, method, frame, taken))
<1> DEFINE s == Send(ch, frame, taken)
           pushed == Push(s.ch, Deferred(method, frame.id, ~ s.ok))
<1>1. Sends(ch, c, taken, s)
  BY SendSends
<1>2. Request(ch, method, frame, taken) = [s EXCEPT !.ch = pushed]
  BY DEF Request
<1> HIDE DEF s
<1>3. IsChannel(s.ch, c) /\ s.ok \in BOOLEAN
      /\ s = Result(s.ok, s.ch, s.frames)
  BY <1>1 DEF Sends, Leaves
<1>4. frame.id \in Nat
  BY DEF FrameOf, AFrame
<1>5. Deferred(method, frame.id, ~ s.ok) \in Deferreds
  BY <1>3, <1>4, DeferredTyped
<1>6. IsChannel(pushed, c) /\ SameFrames(s.ch, pushed)
  BY <1>3, <1>5, PushSame
<1> HIDE DEF pushed
<1>7. [s EXCEPT !.ch = pushed] = Result(s.ok, pushed, s.frames)
  BY <1>3, WithChannel
<1>8. Sends(ch, c, taken, Result(s.ok, pushed, s.frames))
  BY <1>1, <1>6, SameAfterKeepsOrder
<1> QED
  BY <1>2, <1>7, <1>8, Zenon

\* A Result whose channel is in another state.
LEMMA WithChannelState ==
    ASSUME NEW s, s = Result(s.ok, s.ch, s.frames), NEW state
    PROVE  [s EXCEPT !.ch.state = state]
               = Result(s.ok, [s.ch EXCEPT !.state = state], s.frames)
BY DEF Result

\* The state of a channel is none of its frames.
LEMMA ChannelStateTyped ==
    ASSUME NEW c, NEW ch, IsChannel(ch, c),
           NEW state \in {"connected", "closing", "closed"}
    PROVE  /\ IsChannel([ch EXCEPT !.state = state], c)
           /\ [ch EXCEPT !.state = state].state = state
           /\ [ch EXCEPT !.state = state].synchronous = ch.synchronous
           /\ [ch EXCEPT !.state = state].queue = ch.queue
           /\ [ch EXCEPT !.state = state].accepted = ch.accepted
BY DEF IsChannel

\* close() of a channel sends its frame or nothing.
LEMMA CloseChannelSends ==
    ASSUME NEW c, NEW ch, IsChannel(ch, c), NEW frame \in FrameOf(c),
           NEW taken \in BOOLEAN
    PROVE  Sends(ch, c, taken, CloseChannel(ch, frame, taken))
<1>1. CASE ch.state # "connected"
  <2> DEFINE pushed == Push(ch, Deferred("close", frame.id, ch.state = "closing"))
  <2>1. frame.id \in Nat
    BY DEF FrameOf, AFrame
  <2>2. Deferred("close", frame.id, ch.state = "closing") \in Deferreds
    BY <2>1, DeferredTyped
  <2>3. IsChannel(pushed, c) /\ SameFrames(ch, pushed)
    BY <2>2, PushSame
  <2>4. CloseChannel(ch, frame, taken) = Result(TRUE, pushed, <<>>)
    BY <1>1 DEF CloseChannel
  <2> HIDE DEF pushed
  <2> DEFINE r == Result(TRUE, pushed, <<>>)
  <2>5. r.ok = TRUE /\ r.ch = pushed /\ r.frames = <<>>
        /\ r = Result(r.ok, r.ch, r.frames)
    BY DEF Result
  <2>6. KeepsOrder(ch, c, r) /\ StaysQuiet(ch, r)
    BY <2>3, SameKeepsOrder
  <2> HIDE DEF r
  <2>7. Sends(ch, c, taken, r)
    BY <2>3, <2>5, <2>6 DEF Sends, Leaves
  <2> QED
    BY <2>4, <2>7 DEF r
<1>2. CASE ch.state = "connected"
  <2> DEFINE r == Request(ch, "close", frame, taken)
             closing == [r.ch EXCEPT !.state = "closing"]
  <2>1. Sends(ch, c, taken, r)
    BY RequestSends
  <2>2. CloseChannel(ch, frame, taken) = IF r.ok
        THEN [r EXCEPT !.ch.state = "closing"] ELSE r
    BY <1>2 DEF CloseChannel
  <2> HIDE DEF r
  <2>3. IsChannel(r.ch, c) /\ r = Result(r.ok, r.ch, r.frames)
        /\ r.ch.state # "closed"
    BY <1>2, <2>1 DEF Sends, Leaves, KeepsOrder
  <2>4. [r EXCEPT !.ch.state = "closing"] = Result(r.ok, closing, r.frames)
    BY <2>3, WithChannelState
  <2>5. IsChannel(closing, c) /\ SameFrames(r.ch, closing)
    <3> DEFINE sent == r.ch
    <3>0. closing = [sent EXCEPT !.state = "closing"] /\ IsChannel(sent, c)
      BY <2>3
    <3> HIDE DEF sent, closing
    <3>1. /\ IsChannel(closing, c)
          /\ closing.state = "closing"
             /\ closing.synchronous = sent.synchronous
          /\ closing.queue = sent.queue /\ closing.accepted = sent.accepted
      <4> DEFINE new == [sent EXCEPT !.state = "closing"]
      <4>1. /\ IsChannel(new, c) /\ new.state = "closing"
            /\ new.synchronous = sent.synchronous
            /\ new.queue = sent.queue /\ new.accepted = sent.accepted
        BY <3>0, ChannelStateTyped
      <4>2. closing = new
        BY <3>0
      <4> HIDE DEF new
      <4> QED
        BY <4>1, <4>2, Zenon
    <3> QED
      BY <2>3, <3>1 DEF SameFrames, sent
  <2> HIDE DEF closing
  <2>6. Sends(ch, c, taken, Result(r.ok, closing, r.frames))
    BY <2>1, <2>5, SameAfterKeepsOrder
  <2> QED
    BY <2>1, <2>2, <2>4, <2>6, Zenon
<1> QED
  BY <1>1, <1>2

----------------------------------------------------------------------------
\* AFTER A FRAME OF THE SERVER.  Such a method needs nothing of the connection.
Frees(ch, c, r) == Leaves(ch, c, r) /\ StaysQuiet(ch, r)

\* The place up to which onSynchronized() sends.
SynchronousEnd(ch) ==
    LET ends == {n \in 1..Len(ch.queue) : Synchronous(ch.queue[n])}
    IN  IF ends = {} THEN Len(ch.queue)
        ELSE CHOOSE m \in ends : \A k \in ends : m <= k

\* onSynchronized() sends up to the first synchronous frame that waits, or
\* all that waits if there is none.
LEMMA LastSynchronous ==
    ASSUME NEW c, NEW ch, IsChannel(ch, c)
    PROVE  /\ SynchronousEnd(ch) \in 0..Len(ch.queue)
           /\ \A n \in 1..(SynchronousEnd(ch) - 1) : ~ Synchronous(ch.queue[n])
           /\ (\E n \in 1..Len(ch.queue) : Synchronous(ch.queue[n]))
                  => SynchronousEnd(ch) > 0
                  /\ Synchronous(ch.queue[SynchronousEnd(ch)])
           /\ (\A n \in 1..Len(ch.queue) : ~ Synchronous(ch.queue[n]))
                  => SynchronousEnd(ch) = Len(ch.queue)
<1> DEFINE ends == {n \in 1..Len(ch.queue) : Synchronous(ch.queue[n])}
<1>0. Len(ch.queue) \in Nat
  BY ChannelFramesTyped
<1>1. CASE ends = {}
  <2>1. SynchronousEnd(ch) = Len(ch.queue)
    BY <1>1 DEF SynchronousEnd
  <2>2. \A n \in 1..Len(ch.queue) : ~ Synchronous(ch.queue[n])
    BY <1>1
  <2> QED
    BY <1>0, <2>1, <2>2
<1>2. CASE ends # {}
  <2>1. ends \in SUBSET Nat
    BY <1>0
  <2>2. \E m \in ends : \A k \in ends : m <= k
    BY <1>2, <2>1, Least
  <2>3. SynchronousEnd(ch) = CHOOSE m \in ends : \A k \in ends : m <= k
    BY <1>2 DEF SynchronousEnd
  <2> DEFINE last == SynchronousEnd(ch)
  <2>4. last \in ends /\ \A k \in ends : last <= k
    BY <2>2, <2>3, Zenon
  <2> HIDE DEF last
  <2>5. last \in 1..Len(ch.queue) /\ Synchronous(ch.queue[last])
    BY <2>4
  <2>6. \A n \in 1..(last - 1) : ~ Synchronous(ch.queue[n])
    <3> SUFFICES ASSUME NEW n \in 1..(last - 1),
        Synchronous(ch.queue[n]) PROVE FALSE
      OBVIOUS
    <3>1. n \in ends
      BY <1>0, <2>5
    <3> QED
      BY <2>4, <2>5, <3>1, <1>0
  <2> QED
    BY <1>0, <2>5, <2>6 DEF last
<1> QED
  BY <1>1, <1>2

\* A sequence is what is before a place and what is behind it.
LEMMA CutInTwo ==
    ASSUME NEW S, NEW s \in Seq(S), NEW n \in 0..Len(s)
    PROVE  /\ SubSeq(s, 1, n) \in Seq(S)
           /\ Len(SubSeq(s, 1, n)) = n
           /\ SubSeq(s, n + 1, Len(s)) \in Seq(S)
           /\ s = SubSeq(s, 1, n) \o SubSeq(s, n + 1, Len(s))
<1>1. Len(s) \in Nat
  BY LenProperties
<1>2. \A i \in 1..Len(s) : s[i] \in S
  BY ElementOfSeq
<1>3. SubSeq(s, 1, n) \in Seq(S) /\ Len(SubSeq(s, 1, n)) = n
  BY <1>1, <1>2, SubSeqProperties
<1>4. SubSeq(s, n + 1, Len(s)) \in Seq(S)
  BY <1>1, <1>2, SubSeqProperties
<1>5. SubSeq(s, 1, n) \o SubSeq(s, n + 1, Len(s)) = SubSeq(s, 1, Len(s))
  <2>1. /\ 1 \in 1..Len(s) + 1
        /\ n \in 1 - 1..Len(s)
        /\ Len(s) \in n..Len(s)
    BY <1>1
  <2> QED
    BY <2>1, ConcatAdjacentSubSeq
<1> QED
  BY <1>3, <1>4, <1>5, SubSeqFull

\* onSynchronized() hands on what waited first, and keeps the rest.
LEMMA OnSynchronizedFrees ==
    ASSUME NEW c, NEW ch, IsChannel(ch, c), ch.state # "closed"
    PROVE  Frees(ch, c, OnSynchronized(ch))
<1> DEFINE n == SynchronousEnd(ch)
           q == ch.queue
           sync == {m \in 1..Len(q) : Synchronous(q[m])} # {}
           new == [ch EXCEPT !.synchronous = sync, !.queue = SubSeq(q, n + 1, Len(q))]
           r == Result(TRUE, new, SubSeq(q, 1, n))
<1>1. OnSynchronized(ch) = r
  BY DEF OnSynchronized, SynchronousEnd
<1>2. q \in Seq(FrameOf(c)) /\ Len(q) \in Nat /\ n \in 0..Len(q)
  BY ChannelFramesTyped, LastSynchronous
<1> HIDE DEF n
<1>3. SubSeq(q, 1, n) \in Seq(FrameOf(c))
      /\ SubSeq(q, n + 1, Len(q)) \in Seq(FrameOf(c))
  <2> HIDE DEF q
  <2> QED
    BY <1>2, CutInTwo
<1>4. SubSeq(q, 1, n) \o SubSeq(q, n + 1, Len(q)) = q
  <2> HIDE DEF q
  <2> QED
    BY <1>2, CutInTwo
<1>5. sync \in BOOLEAN
  OBVIOUS
<1> HIDE DEF sync
<1>6. IsChannel(new, c)
  BY <1>3, <1>5 DEF IsChannel
<1>7. /\ new.synchronous = sync /\ new.queue = SubSeq(q, n + 1, Len(q))
      /\ new.accepted = ch.accepted /\ new.state = ch.state
  BY DEF IsChannel
<1>8. r.ch = new /\ r.frames = SubSeq(q, 1, n) /\ r.ok = TRUE
      /\ r = Result(TRUE, new, SubSeq(q, 1, n))
  BY DEF Result
<1> HIDE DEF new
<1>9. KeepsOrder(ch, c, r)
  <2>1. <<>> \in Seq(FrameOf(c)) /\ ch.accepted \in Seq(FrameOf(c))
    BY ChannelFramesTyped
  <2>2. ch.accepted = ch.accepted \o <<>> /\ q = q \o <<>>
    BY <2>1, <1>2, EmptyConcat
  <2> QED
    BY <1>3, <1>4, <1>7, <1>8, <2>1, <2>2 DEF KeepsOrder
<1>10. StaysQuiet(ch, r)
  <2> SUFFICES ASSUME ~ Waiting(ch) PROVE ~ Waiting(new) /\ r.frames = <<>>
    BY <1>8 DEF StaysQuiet
  <2>1. q = <<>> /\ Len(q) = 0
    BY DEF Waiting
  <2>2. ~ sync
    BY <2>1 DEF sync
  <2>3. n = 0
    BY <1>2, <2>1
  <2>4. SubSeq(q, 1, n) = <<>> /\ SubSeq(q, n + 1, Len(q)) = <<>>
    BY <1>2, <2>1, <2>3
  <2> QED
    BY <1>7, <1>8, <2>2, <2>4 DEF Waiting
<1>11. Frees(ch, c, r)
  BY <1>6, <1>8, <1>9, <1>10 DEF Frees, Leaves
<1> QED
  BY <1>1, <1>11

\* Frees is not disturbed by what is no frame.
LEMMA FreesThen ==
    ASSUME NEW c, NEW ch, NEW s, Frees(ch, c, s), NEW other,
           SameFrames(s.ch, other), IsChannel(other, c)
    PROVE  Frees(ch, c, Result(s.ok, other, s.frames))
<1> DEFINE r == Result(s.ok, other, s.frames)
<1>1. r.ok = s.ok /\ r.ch = other /\ r.frames = s.frames
      /\ r = Result(s.ok, other, s.frames)
  BY DEF Result
<1> HIDE DEF r
<1>2. KeepsOrder(ch, c, s)
  BY DEF Frees, Leaves
<1>3. KeepsOrder(ch, c, r)
  BY <1>1, <1>2 DEF KeepsOrder, SameFrames
<1>4. StaysQuiet(ch, r)
  BY <1>1 DEF StaysQuiet, Frees, SameFrames, Waiting
<1>5. Frees(ch, c, r)
  BY <1>1, <1>3, <1>4 DEF Frees, Leaves
<1> QED
  BY <1>5 DEF r

\* Frees, after a change that touches no frame.
LEMMA FreesAfter ==
    ASSUME NEW c, NEW ch, NEW other, SameFrames(ch, other), NEW s,
           Frees(other, c, s)
    PROVE  Frees(ch, c, s)
<1>1. KeepsOrder(other, c, s)
  BY DEF Frees, Leaves
<1>2. KeepsOrder(ch, c, s)
  BY <1>1 DEF KeepsOrder, SameFrames
<1>3. StaysQuiet(ch, s)
  BY DEF StaysQuiet, Frees, SameFrames, Waiting
<1> QED
  BY <1>2, <1>3 DEF Frees, Leaves

\* A method that does nothing.
LEMMA NothingFrees ==
    ASSUME NEW c, NEW ch, IsChannel(ch, c), NEW ok \in BOOLEAN
    PROVE  Frees(ch, c, Result(ok, ch, <<>>))
<1> DEFINE r == Result(ok, ch, <<>>)
<1>1. SameFrames(ch, ch)
  BY DEF SameFrames
<1>2. KeepsOrder(ch, c, r) /\ StaysQuiet(ch, r)
  BY <1>1, SameKeepsOrder
<1>3. r.ok = ok /\ r.ch = ch /\ r = Result(r.ok, r.ch, r.frames)
  BY DEF Result
<1> HIDE DEF r
<1>4. Frees(ch, c, r)
  BY <1>2, <1>3 DEF Frees, Leaves
<1> QED
  BY <1>4 DEF r

\* reportSuccess() touches no frame.
LEMMA ReportSuccessSame ==
    ASSUME NEW c, NEW ch, IsChannel(ch, c), NEW withCount \in BOOLEAN
    PROVE  /\ IsChannel(ReportSuccess(ch, withCount), c)
           /\ SameFrames(ch, ReportSuccess(ch, withCount))
           /\ ReportSuccess(ch, withCount).state = ch.state
<1>1. CASE ch.callbacks = <<>>
  BY <1>1 DEF ReportSuccess, SameFrames
<1>2. CASE ch.callbacks # <<>>
  <2> DEFINE oldest == Head(ch.callbacks)
             consumers == CASE oldest.class = "consume" -> ch.consumers \cup {"tag"}
                            [] oldest.class = "cancel" -> ch.consumers \ {"tag"}
                            [] oldest.class = "get"
                            /\ withCount -> ch.consumers \cup {""}
                            [] OTHER -> ch.consumers
             outcomes == Append(ch.outcomes, <<oldest.id, "success">>)
             rest == Tail(ch.callbacks)
             new == [ch EXCEPT !.callbacks = rest, !.outcomes = outcomes,
                               !.consumers = consumers]
  <2>1. ReportSuccess(ch, withCount) = new
    BY <1>2 DEF ReportSuccess
  <2>2. ch.consumers \in SUBSET {"tag", ""} /\ ch.callbacks \in Seq(Deferreds)
    BY DEF IsChannel
  <2>3. consumers \in SUBSET {"tag", ""}
    <3> HIDE DEF oldest
    <3> QED
      BY <2>2
  <2>4. rest \in Seq(Deferreds)
    BY <1>2, <2>2, HeadTailProperties
  <2> HIDE DEF consumers, outcomes, rest
  <2>5. /\ IsChannel(new, c) /\ new.state = ch.state
        /\ new.synchronous = ch.synchronous /\ new.queue = ch.queue
        /\ new.accepted = ch.accepted
    BY <2>3, <2>4 DEF IsChannel
  <2> HIDE DEF new
  <2> QED
    BY <2>1, <2>5 DEF SameFrames
<1> QED
  BY <1>1, <1>2

\* reportError() leaves a closed channel in which nothing waits.
LEMMA ReportErrorCloses ==
    ASSUME NEW c, NEW ch, IsChannel(ch, c)
    PROVE  /\ IsChannel(ReportError(ch), c)
           /\ ReportError(ch).state = "closed" /\ ~ Waiting(ReportError(ch))
           /\ ReportError(ch).accepted = ch.accepted
<1>1. PICK outcomes : ReportError(ch) =
          [ch EXCEPT !.state = "closed", !.synchronous = FALSE, !.queue = <<>>,
                     !.callbacks = <<>>, !.outcomes = outcomes]
  BY DEF ReportError
<1> DEFINE new == [ch EXCEPT !.state = "closed", !.synchronous = FALSE, !.queue = <<>>,
                             !.callbacks = <<>>, !.outcomes = outcomes]
<1>2. <<>> \in Seq(FrameOf(c)) /\ <<>> \in Seq(Deferreds)
  OBVIOUS
<1>3. /\ IsChannel(new, c) /\ new.state = "closed" /\ new.synchronous = FALSE
      /\ new.queue = <<>> /\ new.accepted = ch.accepted
  BY <1>2 DEF IsChannel
<1> HIDE DEF new
<1> QED
  BY <1>1, <1>3 DEF Waiting, new

\* reportClosed() likewise.
LEMMA ReportClosedCloses ==
    ASSUME NEW c, NEW ch, IsChannel(ch, c)
    PROVE  /\ IsChannel(ReportClosed(ch), c)
           /\ ReportClosed(ch).state = "closed" /\ ~ Waiting(ReportClosed(ch))
           /\ ReportClosed(ch).accepted = ch.accepted
<1> DEFINE closed == [ch EXCEPT !.state = "closed", !.synchronous = FALSE]
           reported == ReportSuccess(closed, FALSE)
<1>1. IsChannel(closed, c) /\ closed.accepted = ch.accepted
  BY DEF IsChannel
<1> HIDE DEF closed
<1>2. IsChannel(reported, c) /\ reported.accepted = ch.accepted
  BY <1>1, ReportSuccessSame DEF SameFrames
<1> HIDE DEF reported
<1>3. /\ IsChannel(ReportError(reported), c)
      /\ ReportError(reported).state = "closed"
         /\ ~ Waiting(ReportError(reported))
      /\ ReportError(reported).accepted = ch.accepted
  BY <1>2, ReportErrorCloses
<1> QED
  BY <1>3 DEF ReportClosed, reported, closed

\* message(frame) touches no frame.
LEMMA MessageSame ==
    ASSUME NEW c, NEW ch, IsChannel(ch, c), NEW message \in Messages
    PROVE  /\ IsChannel([ch EXCEPT !.message = message], c)
           /\ SameFrames(ch, [ch EXCEPT !.message = message])
           /\ [ch EXCEPT !.message = message].state = ch.state
           /\ [ch EXCEPT !.message = message].message = message
BY DEF IsChannel, SameFrames

\* message(frame), for a delivery and for a get.
LEMMA SetMessageSame ==
    ASSUME NEW c, NEW ch, IsChannel(ch, c), NEW id \in Nat,
           NEW consumer \in {"tag", ""}
    PROVE  /\ IsChannel(SetMessage(ch, id, consumer), c)
           /\ SameFrames(ch, SetMessage(ch, id, consumer))
<1> DEFINE message == [id |-> id, consumer |-> consumer, bodySize |-> 0, received |-> 0]
<1>1. message \in Messages
  BY DEF Messages
<1> HIDE DEF message
<1>2. /\ IsChannel([ch EXCEPT !.message = message], c)
      /\ SameFrames(ch, [ch EXCEPT !.message = message])
  BY <1>1, MessageSame
<1> QED
  BY <1>2 DEF SetMessage, message

\* reportMessage()
LEMMA ReportMessageFrees ==
    ASSUME NEW c, NEW ch, IsChannel(ch, c), ch.state # "closed"
    PROVE  Frees(ch, c, ReportMessage(ch))
<1> DEFINE r == IF ch.message.consumer = "" THEN OnSynchronized(ch)
                                            ELSE Result(TRUE, ch, <<>>)
           reported == Append(r.ch.reported, <<ch.message.id, ch.message.received>>)
           consumers == r.ch.consumers \ ({""} \cap {ch.message.consumer})
           new == [r.ch EXCEPT !.reported = reported, !.consumers = consumers,
                               !.message = NoMessage]
<1>1. Frees(ch, c, r)
  BY OnSynchronizedFrees, NothingFrees
<1>2. ReportMessage(ch) =
          IF ch.message.consumer \notin ch.consumers THEN r
          ELSE [r EXCEPT !.ch = new]
  BY DEF ReportMessage
<1> HIDE DEF r
<1>3. r = Result(r.ok, r.ch, r.frames) /\ IsChannel(r.ch, c)
  BY <1>1 DEF Frees, Leaves
<1>4. [r EXCEPT !.ch = new] = Result(r.ok, new, r.frames)
  BY <1>3, WithChannel
<1>5. ch.message \in Messages /\ r.ch.reported \in Seq(Nat \X Nat)
      /\ r.ch.consumers \in SUBSET {"tag", ""}
  BY <1>3 DEF IsChannel
<1>6. <<ch.message.id, ch.message.received>> \in Nat \X Nat
  BY <1>5 DEF Messages
<1>7. reported \in Seq(Nat \X Nat) /\ consumers \in SUBSET {"tag", ""}
      /\ NoMessage \in Messages
  <2>1. reported \in Seq(Nat \X Nat)
    <3> DEFINE pair == <<ch.message.id, ch.message.received>>
               before == r.ch.reported
    <3>1. pair \in Nat \X Nat /\ before \in Seq(Nat \X Nat)
      BY <1>5, <1>6
    <3> HIDE DEF pair, before
    <3>2. Append(before, pair) \in Seq(Nat \X Nat)
      BY <3>1
    <3> QED
      BY <3>2 DEF pair, before
  <2>2. consumers \in SUBSET {"tag", ""}
    BY <1>5
  <2>3. NoMessage \in Messages
    BY DEF NoMessage, Messages
  <2> QED
    BY <2>1, <2>2, <2>3
<1> HIDE DEF reported, consumers
<1>8. IsChannel(new, c) /\ SameFrames(r.ch, new)
  BY <1>3, <1>7 DEF IsChannel, SameFrames
<1> HIDE DEF new
<1>9. Frees(ch, c, Result(r.ok, new, r.frames))
  BY <1>1, <1>8, FreesThen
<1> QED
  BY <1>1, <1>2, <1>4, <1>9, Zenon

\* BasicHeaderFrame::process frees what the end of a message frees.
LEMMA ProcessHeaderFrees ==
    ASSUME NEW c, NEW ch, IsChannel(ch, c), ch.state # "closed",
           NEW size \in Nat
    PROVE  Frees(ch, c, ProcessHeader(ch, size))
<1> DEFINE message == [ch.message EXCEPT !.bodySize = size]
           sized == [ch EXCEPT !.message = message]
<1>1. ch.message \in Messages
  BY DEF IsChannel
<1>2. message \in Messages
  BY <1>1 DEF Messages
<1> HIDE DEF message
<1>3. IsChannel(sized, c) /\ SameFrames(ch, sized) /\ sized.state # "closed"
  BY <1>2, MessageSame
<1>4. ProcessHeader(ch, size) =
          IF ch.message = NoMessage THEN Result(FALSE, ch, <<>>)
          ELSE IF size = 0 THEN ReportMessage(sized)
          ELSE Result(TRUE, sized, <<>>)
  BY DEF ProcessHeader, message
<1> HIDE DEF sized
<1>5. Frees(ch, c, ReportMessage(sized))
      /\ Frees(ch, c, Result(TRUE, sized, <<>>))
  BY <1>3, ReportMessageFrees, NothingFrees, FreesAfter
<1>6. Frees(ch, c, Result(FALSE, ch, <<>>))
  BY NothingFrees
<1> QED
  BY <1>4, <1>5, <1>6, Zenon

\* BodyFrame::process likewise.
LEMMA ProcessBodyFrees ==
    ASSUME NEW c, NEW ch, IsChannel(ch, c), ch.state # "closed",
           NEW size \in Nat
    PROVE  Frees(ch, c, ProcessBody(ch, size))
<1> DEFINE message == AppendBody(ch.message, size)
           more == [ch EXCEPT !.message = message]
<1>1. ch.message \in Messages
  BY DEF IsChannel
<1>2. message \in Messages
  <2> DEFINE m == ch.message
             received == IF m.received + size > m.bodySize THEN m.bodySize
                         ELSE m.received + size
  <2>1. m.received \in Nat /\ m.bodySize \in Nat
    BY <1>1 DEF Messages
  <2>2. received \in Nat
    BY <2>1
  <2>3. message = [m EXCEPT !.received = received]
    BY DEF AppendBody
  <2> HIDE DEF received
  <2> QED
    BY <1>1, <2>2, <2>3 DEF Messages
<1> HIDE DEF message
<1>3. IsChannel(more, c) /\ SameFrames(ch, more) /\ more.state # "closed"
  BY <1>2, MessageSame
<1>4. ProcessBody(ch, size) =
          IF ch.message = NoMessage THEN Result(FALSE, ch, <<>>)
          ELSE IF more.message.received < more.message.bodySize
               THEN Result(TRUE, more, <<>>) ELSE ReportMessage(more)
  BY DEF ProcessBody, message
<1> HIDE DEF more
<1>5. Frees(ch, c, ReportMessage(more))
      /\ Frees(ch, c, Result(TRUE, more, <<>>))
  BY <1>3, ReportMessageFrees, NothingFrees, FreesAfter
<1>6. Frees(ch, c, Result(FALSE, ch, <<>>))
  BY NothingFrees
<1> QED
  BY <1>4, <1>5, <1>6, Zenon

----------------------------------------------------------------------------
\* THE CONNECTION
Leaving(sent, queue, c) == OfChannel(sent, c) \o OfChannel(queue, c)
Emitted(k, c) == Leaving(k.sent, k.queue, c)

Channels(k) == 1..(k.nextFreeChannel - 1)

ConnType(k) ==
    /\ k \in [state : {"protocol", "handshake", "connected", "closing", "closed"},
              closed : BOOLEAN, channels : {k.channels},
              attached : SUBSET Nat,
              nextFreeChannel : 1..(MaxChannels + 1), maxChannels : Nat,
              queue : Seq(AFrame), wire : Seq(AFrame), sent : Seq(AFrame),
              told : {k.told}]
    /\ k.attached \subseteq Channels(k)
    /\ k.channels = [c \in Channels(k) |-> k.channels[c]]
    /\ \A c \in Channels(k) : IsChannel(k.channels[c], c)

\* What becomes of the frames that channel c accepted.
OrderOf(k, c) ==
    IF c \in k.attached
    THEN /\ k.channels[c].state # "closed"
         /\ Emitted(k, c) \o k.channels[c].queue = k.channels[c].accepted
    ELSE IF c \in Channels(k)
    THEN /\ k.channels[c].state = "closed"
         /\ IsPrefix(Emitted(k, c), k.channels[c].accepted)
    ELSE Emitted(k, c) = <<>>

Order(k) == \A c \in Nat \ {0} : OrderOf(k, c)

Quiet(k) ==
    /\ k.state \in {"connected", "closing"} => k.queue = <<>>
    /\ k.state = "closing" => \A c \in k.attached : ~ Waiting(k.channels[c])

ConnInv(k) == ConnType(k) /\ Order(k) /\ Quiet(k)

\* What the server sends.
ToClient ==
    [name : ServerNames \ {"BasicHeader", "Body", "Heartbeat"}, channel : Nat, id : Nat]
    \cup [name : {"Heartbeat"}, channel : {0}, id : Nat]
    \cup [name : {"BasicHeader", "Body"}, channel : Nat, id : Nat, size : Nat]

Ends == {"ConnectionClose", "ConnectionCloseOK"}

ServerType ==
    /\ toClient \in Seq(ToClient) /\ batch \in 0..Len(toClient)
    /\ partial \in BOOLEAN /\ calls \in Nat /\ events \in Nat
       /\ gone \in BOOLEAN
    /\ server \in [Ids \cup {0} -> {"open", "closed", "closing"}]

\* During the handshake nothing is said of a channel.
Handshake ==
    conn.state \in {"protocol", "handshake"} =>
        /\ \A n \in 1..Len(conn.wire) : conn.wire[n].channel = 0
        /\ \A n \in 1..Len(toClient) : toClient[n].channel = 0
        /\ \A c \in Ids : server[c] = "closed"

\* Nothing but an answer to a close comes behind a close.
NothingBehind ==
    \A n \in 1..Len(toClient) : toClient[n].name \in Ends =>
        /\ gone
        /\ \A m \in (n + 1)..Len(toClient) : toClient[m].name = "ConnectionCloseOK"

\* A closed connection has nothing else to process.
NothingLeft ==
    conn.state = "closed" => \/ batch = 0
                             \/ /\ gone
                                /\ \A n \in 1..Len(toClient) :
                                      toClient[n].name = "ConnectionCloseOK"

Inv == ConnInv(conn) /\ ServerType /\ Handshake /\ NothingBehind /\ NothingLeft

----------------------------------------------------------------------------
\* The fields of the connection.
LEMMA ConnFields ==
    ASSUME NEW k, ConnType(k)
    PROVE  /\ k.state \in {"protocol", "handshake", "connected", "closing", "closed"}
           /\ k.closed \in BOOLEAN /\ k.attached \in SUBSET Nat
           /\ k.nextFreeChannel \in 1..(MaxChannels + 1)
              /\ k.maxChannels \in Nat
           /\ k.queue \in Seq(AFrame) /\ k.wire \in Seq(AFrame)
           /\ k.sent \in Seq(AFrame)
BY DEF ConnType

\* What is said of the frames leaves the rest of the connection as it is.
SameChannels(k, m) ==
    /\ m.attached = k.attached /\ m.nextFreeChannel = k.nextFreeChannel
    /\ m.channels = k.channels

SameOrder(k, m) ==
    /\ SameChannels(k, m)
    /\ \A c \in Nat \ {0} : Emitted(m, c) = Emitted(k, c)

\* The order of the frames depends on nothing else.
LEMMA SameOrderKeeps ==
    ASSUME NEW k, NEW m, Order(k), SameOrder(k, m)
    PROVE  Order(m)
<1> SUFFICES ASSUME NEW c \in Nat \ {0} PROVE OrderOf(m, c)
  BY DEF Order
<1>1. OrderOf(k, c)
  BY DEF Order
<1>2. Emitted(m, c) = Emitted(k, c) /\ m.channels = k.channels
      /\ m.attached = k.attached
      /\ m.nextFreeChannel = k.nextFreeChannel
  BY DEF SameOrder, SameChannels
<1> QED
  BY <1>1, <1>2, Zenon DEF OrderOf, Channels

\* The connection with other frames, and with another state.
Reframed(k, wire, sent, queue) ==
    [k EXCEPT !.wire = wire, !.sent = sent, !.queue = queue]

Restated(k, state, told, max) ==
    [k EXCEPT !.state = state, !.told = told, !.maxChannels = max]

HasFrames(m, k, wire, sent, queue) ==
    /\ ConnType(m) /\ m.state = k.state /\ m.closed = k.closed
    /\ SameChannels(k, m)
    /\ m.wire = wire /\ m.sent = sent /\ m.queue = queue

HasState(m, k, state) ==
    /\ ConnType(m) /\ m.state = state /\ m.closed = k.closed
    /\ SameChannels(k, m)
    /\ m.wire = k.wire /\ m.sent = k.sent /\ m.queue = k.queue

\* A connection with other frames has its channels and its state.
LEMMA WithFramesTyped ==
    ASSUME NEW k, ConnType(k), NEW wire \in Seq(AFrame),
           NEW sent \in Seq(AFrame),
           NEW queue \in Seq(AFrame)
    PROVE  HasFrames(Reframed(k, wire, sent, queue), k, wire, sent, queue)
<1> DEFINE m == Reframed(k, wire, sent, queue)
<1>1. /\ m \in [state : {"protocol", "handshake", "connected", "closing", "closed"},
              closed : BOOLEAN, channels : {m.channels},
              attached : SUBSET Nat,
              nextFreeChannel : 1..(MaxChannels + 1), maxChannels : Nat,
              queue : Seq(AFrame), wire : Seq(AFrame), sent : Seq(AFrame),
              told : {m.told}]
      /\ m.state = k.state /\ m.closed = k.closed
      /\ m.attached = k.attached /\ m.nextFreeChannel = k.nextFreeChannel
      /\ m.channels = k.channels
      /\ m.wire = wire /\ m.sent = sent /\ m.queue = queue
  BY DEF ConnType, Reframed
<1> HIDE DEF m
<1>2. Channels(m) = Channels(k)
  BY <1>1, Zenon DEF Channels
<1>3. /\ m.attached \subseteq Channels(m)
      /\ m.channels = [c \in Channels(m) |-> m.channels[c]]
      /\ \A c \in Channels(m) : IsChannel(m.channels[c], c)
  BY <1>1, <1>2, Zenon DEF ConnType
<1>4. HasFrames(m, k, wire, sent, queue)
  BY <1>1, <1>3, Zenon DEF ConnType, SameChannels, HasFrames
<1> QED
  BY <1>4 DEF m

\* A connection in another state has its channels and its frames.
LEMMA WithStateTyped ==
    ASSUME NEW k, ConnType(k),
           NEW state \in {"protocol", "handshake", "connected", "closing", "closed"},
           NEW told, NEW max \in Nat
    PROVE  HasState(Restated(k, state, told, max), k, state)
<1> DEFINE m == Restated(k, state, told, max)
<1>1. /\ m \in [state : {"protocol", "handshake", "connected", "closing", "closed"},
              closed : BOOLEAN, channels : {m.channels},
              attached : SUBSET Nat,
              nextFreeChannel : 1..(MaxChannels + 1), maxChannels : Nat,
              queue : Seq(AFrame), wire : Seq(AFrame), sent : Seq(AFrame),
              told : {m.told}]
      /\ m.state = state /\ m.closed = k.closed
      /\ m.attached = k.attached /\ m.nextFreeChannel = k.nextFreeChannel
      /\ m.channels = k.channels
      /\ m.wire = k.wire /\ m.sent = k.sent /\ m.queue = k.queue
  BY DEF ConnType, Restated
<1> HIDE DEF m
<1>2. Channels(m) = Channels(k)
  BY <1>1, Zenon DEF Channels
<1>3. /\ m.attached \subseteq Channels(m)
      /\ m.channels = [c \in Channels(m) |-> m.channels[c]]
      /\ \A c \in Channels(m) : IsChannel(m.channels[c], c)
  BY <1>1, <1>2, Zenon DEF ConnType
<1>4. HasState(m, k, state)
  BY <1>1, <1>3, Zenon DEF ConnType, SameChannels, HasState
<1> QED
  BY <1>4 DEF m

\* The same frames and channels: the same order.
LEMMA SameEmitted ==
    ASSUME NEW k, NEW m, m.sent = k.sent, m.queue = k.queue,
           SameChannels(k, m)
    PROVE  SameOrder(k, m)
BY Zenon DEF SameOrder, Emitted

\* Emitted is a sequence of the channel's frames.
LEMMA EmittedTyped ==
    ASSUME NEW k, ConnType(k), NEW c
    PROVE  /\ Emitted(k, c) \in Seq(FrameOf(c))
           /\ OfChannel(k.sent, c) \in Seq(FrameOf(c))
           /\ OfChannel(k.queue, c) \in Seq(FrameOf(c))
<1>1. k.sent \in Seq(AFrame) /\ k.queue \in Seq(AFrame)
  BY DEF ConnType
<1>2. OfChannel(k.sent, c) \in Seq(FrameOf(c))
      /\ OfChannel(k.queue, c) \in Seq(FrameOf(c))
  BY <1>1, OfChannelType DEF FrameOf
<1> HIDE DEF FrameOf
<1>3. OfChannel(k.sent, c) \o OfChannel(k.queue, c) \in Seq(FrameOf(c))
  BY <1>2
<1> QED
  BY <1>2, <1>3, Zenon DEF Emitted, Leaving

\* OfChannelConcat for the frames of a connection.
LEMMA FramesConcat ==
    ASSUME NEW s \in Seq(AFrame), NEW t \in Seq(AFrame), NEW c
    PROVE  OfChannel(s \o t, c) = OfChannel(s, c) \o OfChannel(t, c)
<1>1. \A S : \A u \in Seq(S), v \in Seq(S) : \A d :
          OfChannel(u \o v, d) = OfChannel(u, d) \o OfChannel(v, d)
  BY OfChannelConcat
<1> HIDE DEF AFrame, OfChannel
<1> QED
  BY <1>1

\* A frame more that is sent, or queued.
MoreSent(s, q, frames, c) ==
    Leaving(s \o frames, q, c) = Leaving(s, q, c) \o OfChannel(frames, c)
MoreQueued(s, q, frames, c) ==
    Leaving(s, q \o frames, c) = Leaving(s, q, c) \o OfChannel(frames, c)

\* What is sent comes behind what was sent; nothing of the channel may wait.
LEMMA LeavingSent ==
    ASSUME NEW s \in Seq(AFrame), NEW q \in Seq(AFrame),
           NEW frames \in Seq(AFrame),
           NEW c, q = <<>> \/ OfChannel(frames, c) = <<>>
    PROVE  MoreSent(s, q, frames, c)
<1> DEFINE a == OfChannel(s, c)
           b == OfChannel(q, c)
           x == OfChannel(frames, c)
<1>2. OfChannel(s \o frames, c) = a \o x
  BY FramesConcat, ZenonT(40)
<1>3. a \in Seq(FrameOf(c)) /\ b \in Seq(FrameOf(c)) /\ x \in Seq(FrameOf(c))
  BY OfChannelType DEF FrameOf
<1>4. b = <<>> \/ x = <<>>
  BY OfChannelEmpty, Zenon
<1>5. Leaving(s \o frames, q, c) = (a \o x) \o b /\ Leaving(s, q, c) = a \o b
  BY <1>2, Zenon DEF Leaving
<1> HIDE DEF a, b, x
<1>6. (a \o x) \o b = (a \o b) \o x
  <2>1. CASE b = <<>>
    BY <1>3, <2>1
  <2>2. CASE x = <<>>
    BY <1>3, <2>2
  <2> QED
    BY <1>4, <2>1, <2>2
<1> QED
  BY <1>5, <1>6, Zenon DEF x, MoreSent

\* What is queued comes behind everything.
LEMMA LeavingQueued ==
    ASSUME NEW s \in Seq(AFrame), NEW q \in Seq(AFrame),
           NEW frames \in Seq(AFrame),
           NEW c
    PROVE  MoreQueued(s, q, frames, c)
<1> DEFINE a == OfChannel(s, c)
           b == OfChannel(q, c)
           x == OfChannel(frames, c)
<1>2. OfChannel(q \o frames, c) = b \o x
  BY FramesConcat, ZenonT(40)
<1>3. a \in Seq(FrameOf(c)) /\ b \in Seq(FrameOf(c)) /\ x \in Seq(FrameOf(c))
  BY OfChannelType DEF FrameOf
<1>5. Leaving(s, q \o frames, c) = a \o (b \o x) /\ Leaving(s, q, c) = a \o b
  BY <1>2, Zenon DEF Leaving
<1> HIDE DEF a, b, x
<1>6. a \o (b \o x) = (a \o b) \o x
  <2>1. \A u, v, w \in Seq(FrameOf(c)) : (u \o v) \o w = u \o (v \o w)
    BY FramesAssociative, SMTT(30)
  <2> QED
    BY <1>3, <2>1, Zenon
<1> QED
  BY <1>5, <1>6, Zenon DEF x, MoreQueued

\* A frame of the connection itself, or an answer to a close.
Itself(frame) == frame.channel = 0 \/ frame.name = "ChannelCloseOK"

\* Such a frame is none of a channel.
LEMMA ItselfCountsNot ==
    ASSUME NEW frame \in AFrame, Itself(frame), NEW c \in Nat \ {0}
    PROVE  OfChannel(<<frame>>, c) = <<>>
<1>1. ~ Counts(frame, c)
  BY DEF Itself, Counts
<1>2. <<frame>> \in Seq(AFrame)
      /\ \A n \in 1..Len(<<frame>>) : ~ Counts(<<frame>>[n], c)
  <2>1. \A n \in 1..Len(<<frame>>) : <<frame>>[n] = frame
    OBVIOUS
  <2>2. <<frame>> \in Seq(AFrame)
    OBVIOUS
  <2> QED
    BY <1>1, <2>1, <2>2, Zenon
<1> QED
  BY <1>2, OfChannelNone, Zenon

Early == {"protocol", "handshake"}
ZeroWire(k) == \A n \in 1..Len(k.wire) : k.wire[n].channel = 0

\* send(Frame) of a frame of the connection itself disturbs no channel.
LEMMA OutKeeps ==
    ASSUME NEW k, ConnType(k), NEW frame \in AFrame, Itself(frame), NEW m,
           m = Out(k, frame)
    PROVE  /\ ConnType(m) /\ m.state = k.state /\ m.closed = k.closed
           /\ SameOrder(k, m)
           /\ k.queue = <<>> /\ k.state \in {"connected", "closing"}
              => m.queue = <<>>
           /\ ZeroWire(k) /\ frame.channel = 0 => ZeroWire(m)
<1>0. /\ k.queue \in Seq(AFrame) /\ k.wire \in Seq(AFrame)
         /\ k.sent \in Seq(AFrame)
      /\ <<frame>> \in Seq(AFrame)
  <2> HIDE DEF AFrame
  <2> QED
    BY ConnFields
<1>00. \A c \in Nat \ {0} : OfChannel(<<frame>>, c) = <<>>
  BY ItselfCountsNot
<1>a. \A c \in Nat \ {0} : Emitted(k, c) \o <<>> = Emitted(k, c)
  <2> SUFFICES ASSUME NEW c \in Nat \ {0}
      PROVE Emitted(k, c) \o <<>> = Emitted(k, c)
    OBVIOUS
  <2>1. Emitted(k, c) \in Seq(FrameOf(c))
    BY EmittedTyped
  <2> QED
    BY <2>1, EmptyConcat, Zenon
<1>1. CASE m = k
  <2>1. SameOrder(k, m)
    BY <1>1, Zenon DEF SameOrder, SameChannels
  <2> QED
    BY <1>1, <2>1, Zenon
<1>2. CASE /\ Taken(k, frame) /\ m = OnData(k, <<frame>>)
  <2> DEFINE wire == k.wire \o <<frame>>
             sent == k.sent \o <<frame>>
  <2>1. wire \in Seq(AFrame) /\ sent \in Seq(AFrame)
    <3> HIDE DEF AFrame
    <3> QED
      BY <1>0
  <2>2. m = Reframed(k, wire, sent, k.queue)
    BY <1>2 DEF OnData, ConnType, Reframed
  <2>w. (ZeroWire(k) /\ frame.channel = 0)
        => \A n \in 1..Len(wire) : wire[n].channel = 0
    <3> HIDE DEF AFrame
    <3> QED
      BY <1>0 DEF ZeroWire
  <2> HIDE DEF wire, sent
  <2>h. HasFrames(m, k, wire, sent, k.queue)
    BY <1>0, <2>1, <2>2, WithFramesTyped, Zenon
  <2>3. /\ ConnType(m) /\ m.state = k.state /\ m.closed = k.closed
        /\ SameChannels(k, m)
        /\ m.wire = wire /\ m.sent = sent /\ m.queue = k.queue
    BY <2>h, Zenon DEF HasFrames
  <2>4. \A c \in Nat \ {0} : Emitted(m, c) = Emitted(k, c)
    <3> SUFFICES ASSUME NEW c \in Nat \ {0}
        PROVE Emitted(m, c) = Emitted(k, c)
      OBVIOUS
    <3>1. m.sent = k.sent \o <<frame>>
      BY <2>3 DEF sent
    <3>2. Emitted(m, c) = Emitted(k, c) \o OfChannel(<<frame>>, c)
        <4>1. MoreSent(k.sent, k.queue, <<frame>>, c)
        BY <1>0, <1>00, LeavingSent, Zenon
      <4> QED
        BY <2>3, <3>1, <4>1, Zenon DEF Emitted, MoreSent
    <3> QED
      BY <1>00, <1>a, <3>2, Zenon
  <2>5. SameOrder(k, m)
    BY <2>3, <2>4, Zenon DEF SameOrder
  <2> QED
    BY <2>3, <2>5, <2>w, Zenon DEF ZeroWire
<1>3. CASE /\ Taken(k, frame) /\ m = [k EXCEPT !.queue = Append(@, frame)]
           /\ ~ (k.state = "connected" /\ k.queue = <<>>)
  <2> DEFINE queue == Append(k.queue, frame)
  <2>1. queue \in Seq(AFrame) /\ queue = k.queue \o <<frame>>
    <3> HIDE DEF AFrame
    <3> QED
      BY <1>0, SMTT(30)
  <2>2. m = Reframed(k, k.wire, k.sent, queue)
    BY <1>3 DEF ConnType, Reframed
  <2> HIDE DEF queue
  <2>h. HasFrames(m, k, k.wire, k.sent, queue)
    BY <1>0, <2>1, <2>2, WithFramesTyped, Zenon
  <2>3. /\ ConnType(m) /\ m.state = k.state /\ m.closed = k.closed
        /\ SameChannels(k, m)
        /\ m.wire = k.wire /\ m.sent = k.sent /\ m.queue = queue
    BY <2>h, Zenon DEF HasFrames
  <2>4. \A c \in Nat \ {0} : Emitted(m, c) = Emitted(k, c)
    <3> SUFFICES ASSUME NEW c \in Nat \ {0}
        PROVE Emitted(m, c) = Emitted(k, c)
      OBVIOUS
    <3>1. m.queue = k.queue \o <<frame>>
      BY <2>1, <2>3
    <3>2. Emitted(m, c) = Emitted(k, c) \o OfChannel(<<frame>>, c)
        <4>1. MoreQueued(k.sent, k.queue, <<frame>>, c)
        BY <1>0, LeavingQueued, Zenon
      <4> QED
        BY <2>3, <3>1, <4>1, Zenon DEF Emitted, MoreQueued
    <3> QED
      BY <1>00, <1>a, <3>2, Zenon
  <2>5. SameOrder(k, m)
    BY <2>3, <2>4, Zenon DEF SameOrder
  <2>6. k.queue = <<>> => k.state \notin {"connected", "closing"}
    BY <1>3 DEF Taken
  <2> QED
    BY <2>3, <2>5, <2>6, Zenon DEF ZeroWire
<1> QED
  BY <1>1, <1>2, <1>3, Zenon DEF Out

\* sendClose() of a connection in which nothing waits.
LEMMA SendCloseKeeps ==
    ASSUME NEW k, ConnInv(k), k.state = "connected", ~ AnyWaiting(k)
    PROVE  ConnInv(SendClose(k)) /\ SendClose(k).state = "closing"
<1> DEFINE frame == Frame_("ConnectionClose", 0, 0)
           out == Out(k, frame)
           m == SendClose(k)
<1>1. frame \in AFrame /\ Itself(frame)
  <2>1. "ConnectionClose" \in FrameNames
    BY DEF FrameNames, Frames
  <2> QED
    BY <2>1 DEF Frame_, AFrame, Itself
<1>2. m = [out EXCEPT !.state = "closing"]
  BY DEF SendClose
<1> HIDE DEF frame
<1>3. /\ ConnType(out) /\ SameOrder(k, out) /\ (k.queue = <<>>
         => out.queue = <<>>)
  BY <1>1, OutKeeps DEF ConnInv
<1> HIDE DEF out, m
<1>4. m = Restated(out, "closing", out.told, out.maxChannels)
  BY <1>2, <1>3 DEF ConnType, Restated
<1>5. out.maxChannels \in Nat
  BY <1>3 DEF ConnType
<1>6. /\ ConnType(m) /\ m.state = "closing" /\ SameChannels(out, m)
      /\ m.wire = out.wire /\ m.sent = out.sent /\ m.queue = out.queue
  BY <1>3, <1>4, <1>5, WithStateTyped DEF HasState
<1>7. Order(m)
  BY <1>3, <1>6, SameEmitted, SameOrderKeeps DEF ConnInv
<1>8. Quiet(m)
  <2>1. m.queue = <<>>
    BY <1>3, <1>6 DEF ConnInv, Quiet
  <2>2. m.channels = k.channels /\ m.attached = k.attached
    BY <1>3, <1>6, Zenon DEF SameOrder, SameChannels
  <2> QED
    BY <2>1, <2>2, Zenon DEF Quiet, AnyWaiting
<1> QED
  BY <1>6, <1>7, <1>8 DEF ConnInv, m

\* setConnected()
LEMMA SetConnectedKeeps ==
    ASSUME NEW k, ConnInv(k)
    PROVE  /\ ConnInv(SetConnected(k))
           /\ SetConnected(k).state \in {"connected", "closing"}
<1> DEFINE wire == k.wire \o k.queue
           sent == k.sent \o k.queue
           flushed == Reframed(k, wire, sent, <<>>)
           open == Restated(flushed, "connected", Append(k.told, "onConnected"),
                            k.maxChannels)
<1>0. ConnType(k) /\ Order(k)
  BY DEF ConnInv
<1>1. /\ wire \in Seq(AFrame) /\ sent \in Seq(AFrame) /\ <<>> \in Seq(AFrame)
      /\ k.queue \in Seq(AFrame) /\ k.sent \in Seq(AFrame)
         /\ k.maxChannels \in Nat
  <2> HIDE DEF AFrame
  <2> QED
    BY <1>0, ConnFields
<1>2. SetConnected(k) = IF open.closed /\ ~AnyWaiting(open)
      THEN SendClose(open) ELSE open
  <2>1. open = [OnData(k, k.queue) EXCEPT !.state = "connected", !.queue = <<>>,
                                          !.told = Append(@, "onConnected")]
    <3> HIDE DEF wire, sent
    <3>1. OnData(k, k.queue) = [k EXCEPT !.wire = wire, !.sent = sent]
      BY DEF OnData, wire, sent
    <3> QED
      BY <1>0, <3>1 DEF ConnType, Reframed, Restated
  <2> QED
    BY <2>1, Zenon DEF SetConnected
<1>3. /\ ConnType(flushed) /\ SameChannels(k, flushed)
      /\ flushed.wire = wire /\ flushed.sent = sent /\ flushed.queue = <<>>
  <2> HIDE DEF wire, sent
  <2> QED
    <3>1. HasFrames(flushed, k, wire, sent, <<>>)
      BY <1>0, <1>1, WithFramesTyped, Zenon
    <3> QED
      BY <3>1, Zenon DEF HasFrames
<1>4. SameOrder(k, flushed)
  <2> SUFFICES ASSUME NEW c \in Nat \ {0}
      PROVE Emitted(flushed, c) = Emitted(k, c)
    BY <1>3 DEF SameOrder
  <2>1. OfChannel(k.sent \o k.queue, c) = Emitted(k, c)
    BY <1>1, FramesConcat, ZenonT(40) DEF Emitted, Leaving
  <2>2. Emitted(flushed, c) = OfChannel(sent, c) \o OfChannel(<<>>, c)
    BY <1>3, Zenon DEF Emitted, Leaving
  <2>3. Emitted(k, c) \o <<>> = Emitted(k, c)
    BY <1>0, EmittedTyped, EmptyConcat, Zenon
  <2> QED
    BY <2>1, <2>2, <2>3, OfChannelEmpty, Zenon
<1> HIDE DEF flushed
<1>5. /\ ConnType(open) /\ open.state = "connected"
         /\ SameChannels(flushed, open)
      /\ open.sent = flushed.sent /\ open.queue = flushed.queue
  <2>1. HasState(open, flushed, "connected")
    BY <1>1, <1>3, WithStateTyped
  <2> QED
    BY <2>1, Zenon DEF HasState
<1> HIDE DEF open
<1>6. Order(open)
  <2>1. Order(flushed)
    BY <1>0, <1>4, SameOrderKeeps
  <2> QED
    BY <1>5, <2>1, SameEmitted, SameOrderKeeps
<1>7. ConnInv(open)
  BY <1>3, <1>5, <1>6 DEF ConnInv, Quiet
<1>8. open.closed /\ ~AnyWaiting(open)
          => ConnInv(SendClose(open)) /\ SendClose(open).state = "closing"
  BY <1>5, <1>7, SendCloseKeeps
<1> QED
  BY <1>2, <1>5, <1>7, <1>8, Zenon

\* Prefixes.
LEMMA PrefixOfConcat ==
    ASSUME NEW S, NEW s \in Seq(S), NEW u \in Seq(S)
    PROVE  IsPrefix(s, s \o u)
<1>1. Len(s) \in Nat /\ Len(s \o u) = Len(s) + Len(u) /\ Len(u) \in Nat
  OBVIOUS
<1>2. \A n \in 1..Len(s) : (s \o u)[n] = s[n]
  OBVIOUS
<1>3. SubSeq(s, 1, Len(s)) = SubSeq(s \o u, 1, Len(s))
  BY <1>1, <1>2
<1> QED
  BY <1>1, <1>3 DEF IsPrefix

\* What a prefix starts with is a prefix.
LEMMA PrefixOfPrefix ==
    ASSUME NEW S, NEW s \in Seq(S), NEW u \in Seq(S), NEW t \in Seq(S),
           IsPrefix(s \o u, t)
    PROVE  IsPrefix(s, t)
<1>1. /\ Len(s) \in Nat /\ Len(s \o u) = Len(s) + Len(u) /\ Len(u) \in Nat
      /\ Len(t) \in Nat /\ Len(s \o u) <= Len(t)
      /\ SubSeq(s \o u, 1, Len(s \o u)) = SubSeq(t, 1, Len(s \o u))
  BY DEF IsPrefix
<1>2. \A n \in 1..Len(s \o u) : /\ SubSeq(s \o u, 1, Len(s \o u))[n] = (s \o u)[n]
                                /\ SubSeq(t, 1, Len(s \o u))[n] = t[n]
  BY <1>1
<1>3. \A n \in 1..Len(s) : (s \o u)[n] = s[n] /\ n \in 1..Len(s \o u)
  BY <1>1
<1>4. \A n \in 1..Len(s) : t[n] = s[n]
  BY <1>1, <1>2, <1>3
<1>5. SubSeq(s, 1, Len(s)) = SubSeq(t, 1, Len(s))
  BY <1>1, <1>4
<1> QED
  BY <1>1, <1>5 DEF IsPrefix

----------------------------------------------------------------------------
\* A CHANNEL OF THE CONNECTION CHANGES
Placed(k, c, ch) == [k EXCEPT !.channels[c] = ch]

OnlyChannel(m, k, c, ch) ==
    /\ m.attached = k.attached /\ m.nextFreeChannel = k.nextFreeChannel
    /\ m.channels[c] = ch
    /\ \A d \in Channels(k) \ {c} : m.channels[d] = k.channels[d]

HasChannel(m, k, c, ch) ==
    /\ ConnType(m) /\ m.state = k.state /\ m.closed = k.closed
    /\ m.wire = k.wire /\ m.sent = k.sent /\ m.queue = k.queue
    /\ OnlyChannel(m, k, c, ch)

\* The connection in which one channel changed is a connection.
LEMMA PlacedTyped ==
    ASSUME NEW k, ConnType(k), NEW c \in Channels(k), NEW ch, IsChannel(ch, c)
    PROVE  HasChannel(Placed(k, c, ch), k, c, ch)
<1> DEFINE m == Placed(k, c, ch)
           channels == [k.channels EXCEPT ![c] = ch]
<1>0. m = [k EXCEPT !.channels = channels]
  BY DEF Placed
<1>1. /\ channels = [d \in Channels(k) |-> channels[d]]
      /\ channels[c] = ch
      /\ \A d \in Channels(k) \ {c} : channels[d] = k.channels[d]
  BY DEF ConnType
<1> HIDE DEF m, channels
<1>2. /\ m \in [state : {"protocol", "handshake", "connected", "closing", "closed"},
              closed : BOOLEAN, channels : {m.channels},
              attached : SUBSET Nat,
              nextFreeChannel : 1..(MaxChannels + 1), maxChannels : Nat,
              queue : Seq(AFrame), wire : Seq(AFrame), sent : Seq(AFrame),
              told : {m.told}]
      /\ m.state = k.state /\ m.closed = k.closed
      /\ m.attached = k.attached /\ m.nextFreeChannel = k.nextFreeChannel
      /\ m.channels = channels
      /\ m.wire = k.wire /\ m.sent = k.sent /\ m.queue = k.queue
  BY <1>0 DEF ConnType
<1>3. Channels(m) = Channels(k)
  BY <1>2, Zenon DEF Channels
<1>4. m.attached \subseteq Channels(m)
  BY <1>2, <1>3, Zenon DEF ConnType
<1>5. m.channels = [d \in Channels(m) |-> m.channels[d]]
  BY <1>1, <1>2, <1>3, Zenon
<1>6. \A d \in Channels(m) : IsChannel(m.channels[d], d)
  <2> SUFFICES ASSUME NEW d \in Channels(k) PROVE IsChannel(m.channels[d], d)
    BY <1>3
  <2>1. IsChannel(k.channels[d], d)
    BY DEF ConnType
  <2>2. CASE d = c
    BY <1>1, <1>2, <2>2, Zenon
  <2>3. CASE d # c
    BY <1>1, <1>2, <2>1, <2>3, Zenon
  <2> QED
    BY <2>2, <2>3
<1>7. ConnType(m)
  BY <1>2, <1>4, <1>5, <1>6, Zenon DEF ConnType
<1>8. HasChannel(m, k, c, ch)
  BY <1>1, <1>2, <1>7, Zenon DEF HasChannel, OnlyChannel
<1> QED
  BY <1>8 DEF m

\* Frames of channel c are nothing to another.
LEMMA OwnFrames ==
    ASSUME NEW c, NEW frames \in Seq(FrameOf(c))
    PROVE  /\ frames \in Seq(AFrame) /\ OfChannel(frames, c) = frames
           /\ \A d : d # c => OfChannel(frames, d) = <<>>
<1>1. FrameOf(c) \subseteq AFrame /\ \A f \in FrameOf(c) : Counts(f, c)
  BY DEF FrameOf
<1> HIDE DEF FrameOf, AFrame
<1>2. frames \in Seq(AFrame)
  BY <1>1, SeqMonotonic
<1>3. \A n \in 1..Len(frames) : frames[n] \in FrameOf(c)
  OBVIOUS
<1>4. \A n \in 1..Len(frames) : Counts(frames[n], c)
  BY <1>1, <1>3
<1>5. OfChannel(frames, c) = frames
  BY <1>2, <1>4, OfChannelAll
<1>6. ASSUME NEW d, d # c PROVE OfChannel(frames, d) = <<>>
  <2>1. \A n \in 1..Len(frames) : ~ Counts(frames[n], d)
    BY <1>4, <1>6 DEF Counts
  <2> QED
    BY <1>2, <2>1, OfChannelNone
<1> QED
  BY <1>2, <1>5, <1>6

\* Channel c is what r leaves of it, and the frames of r were handed on.
Moves(m, k, c, r) ==
    /\ ConnType(m) /\ m.state = k.state /\ m.closed = k.closed
    /\ OnlyChannel(m, k, c, r.ch)
    /\ Emitted(m, c) = Emitted(k, c) \o r.frames
    /\ \A d \in Nat \ {0, c} : Emitted(m, d) = Emitted(k, d)

\* Nothing more was emitted.
LEMMA EmittedEmpty ==
    ASSUME NEW k, ConnType(k), NEW c
    PROVE  Emitted(k, c) \o <<>> = Emitted(k, c)
<1>1. Emitted(k, c) \in Seq(FrameOf(c))
  BY EmittedTyped
<1> QED
  BY <1>1, EmptyConcat, Zenon

\* Frames that go to onData.
LEMMA SentMoves ==
    ASSUME NEW k, ConnType(k), NEW c \in Channels(k), NEW r,
           IsChannel(r.ch, c),
           r.frames \in Seq(FrameOf(c)), k.queue = <<>>
    PROVE  LET m == OnData(Placed(k, c, r.ch), r.frames)
           IN  Moves(m, k, c, r) /\ m.queue = <<>>
<1> DEFINE set == Placed(k, c, r.ch)
           w == k.wire \o r.frames
           s == k.sent \o r.frames
           m == OnData(set, r.frames)
<1>1. HasChannel(set, k, c, r.ch)
  BY PlacedTyped
<1>2. /\ r.frames \in Seq(AFrame) /\ OfChannel(r.frames, c) = r.frames
      /\ \A d : d # c => OfChannel(r.frames, d) = <<>>
  BY OwnFrames
<1>3. w \in Seq(AFrame) /\ s \in Seq(AFrame)
  <2> HIDE DEF AFrame
  <2> QED
    BY <1>2, ConnFields
<1> HIDE DEF set
<1>f. ConnType(set) /\ set.wire = k.wire /\ set.sent = k.sent
      /\ set.queue = k.queue
  BY <1>1, Zenon DEF HasChannel
<1>4. m = Reframed(set, w, s, <<>>)
  BY <1>f DEF OnData, Reframed, ConnType
<1> HIDE DEF w, s, m
<1>5. HasFrames(m, set, w, s, <<>>)
  <2>1. <<>> \in Seq(AFrame)
    OBVIOUS
  <2> QED
    BY <1>3, <1>4, <1>f, <2>1, WithFramesTyped, Zenon
<1>6. /\ ConnType(m) /\ m.state = k.state /\ m.closed = k.closed
      /\ OnlyChannel(m, k, c, r.ch) /\ m.sent = s /\ m.queue = <<>>
  BY <1>1, <1>5, Zenon DEF HasFrames, HasChannel, SameChannels, OnlyChannel
<1>7. \A d : Emitted(m, d) = Emitted(k, d) \o OfChannel(r.frames, d)
  <2> SUFFICES ASSUME NEW d
               PROVE  Emitted(m, d) = Emitted(k, d) \o OfChannel(r.frames, d)
    OBVIOUS
  <2>1. k.sent \in Seq(AFrame) /\ k.queue \in Seq(AFrame)
    BY ConnFields
  <2>2. MoreSent(k.sent, k.queue, r.frames, d)
    BY <1>2, <2>1, LeavingSent, Zenon
  <2> QED
    BY <1>6, <2>2, Zenon DEF Emitted, MoreSent, s
<1>8. Emitted(m, c) = Emitted(k, c) \o r.frames
  BY <1>2, <1>7, Zenon
<1>9. \A d \in Nat \ {0, c} : Emitted(m, d) = Emitted(k, d)
  <2> SUFFICES ASSUME NEW d \in Nat \ {0, c}
      PROVE Emitted(m, d) = Emitted(k, d)
    OBVIOUS
  <2>1. d # c
    OBVIOUS
  <2>2. OfChannel(r.frames, d) = <<>>
    BY <1>2, <2>1, Zenon
  <2>3. Emitted(k, d) \o <<>> = Emitted(k, d)
    BY EmittedEmpty
  <2> QED
    BY <1>7, <2>2, <2>3, Zenon
<1> QED
  BY <1>6, <1>8, <1>9, Zenon DEF Moves, m, set

\* Frames that go to the queue of the connection.
LEMMA QueuedMoves ==
    ASSUME NEW k, ConnType(k), NEW c \in Channels(k), NEW r,
           IsChannel(r.ch, c),
           r.frames \in Seq(FrameOf(c))
    PROVE  LET m == [Placed(k, c, r.ch) EXCEPT !.queue = @ \o r.frames]
           IN  Moves(m, k, c, r) /\ m.queue = k.queue \o r.frames
           /\ m.wire = k.wire
<1> DEFINE set == Placed(k, c, r.ch)
           q == k.queue \o r.frames
           m == [set EXCEPT !.queue = @ \o r.frames]
<1>1. HasChannel(set, k, c, r.ch)
  BY PlacedTyped
<1>2. /\ r.frames \in Seq(AFrame) /\ OfChannel(r.frames, c) = r.frames
      /\ \A d : d # c => OfChannel(r.frames, d) = <<>>
  BY OwnFrames
<1>3. q \in Seq(AFrame) /\ k.wire \in Seq(AFrame) /\ k.sent \in Seq(AFrame)
  <2> HIDE DEF AFrame
  <2> QED
    BY <1>2, ConnFields
<1> HIDE DEF set
<1>f. ConnType(set) /\ set.wire = k.wire /\ set.sent = k.sent
      /\ set.queue = k.queue
  BY <1>1, Zenon DEF HasChannel
<1>4. m = Reframed(set, k.wire, k.sent, q)
  BY <1>f DEF Reframed, ConnType
<1> HIDE DEF q, m
<1>5. HasFrames(m, set, k.wire, k.sent, q)
  BY <1>3, <1>4, <1>f, WithFramesTyped, Zenon
<1>6. /\ ConnType(m) /\ m.state = k.state /\ m.closed = k.closed
      /\ OnlyChannel(m, k, c, r.ch) /\ m.sent = k.sent /\ m.queue = q
      /\ m.wire = k.wire
  BY <1>1, <1>5, Zenon DEF HasFrames, HasChannel, SameChannels, OnlyChannel
<1>7. \A d : Emitted(m, d) = Emitted(k, d) \o OfChannel(r.frames, d)
  <2> SUFFICES ASSUME NEW d
               PROVE  Emitted(m, d) = Emitted(k, d) \o OfChannel(r.frames, d)
    OBVIOUS
  <2>1. k.sent \in Seq(AFrame) /\ k.queue \in Seq(AFrame)
    BY ConnFields
  <2>2. MoreQueued(k.sent, k.queue, r.frames, d)
    BY <1>2, <2>1, LeavingQueued, Zenon
  <2> QED
    BY <1>6, <2>2, Zenon DEF Emitted, MoreQueued, q
<1>8. Emitted(m, c) = Emitted(k, c) \o r.frames
  BY <1>2, <1>7, Zenon
<1>9. \A d \in Nat \ {0, c} : Emitted(m, d) = Emitted(k, d)
  <2> SUFFICES ASSUME NEW d \in Nat \ {0, c}
      PROVE Emitted(m, d) = Emitted(k, d)
    OBVIOUS
  <2>1. d # c
    OBVIOUS
  <2>2. OfChannel(r.frames, d) = <<>>
    BY <1>2, <2>1, Zenon
  <2>3. Emitted(k, d) \o <<>> = Emitted(k, d)
    BY EmittedEmpty
  <2> QED
    BY <1>7, <2>2, <2>3, Zenon
<1> QED
  BY <1>6, <1>8, <1>9, Zenon DEF Moves, m, set, q

\* What a method leaves of a channel keeps the order of its frames.
LEMMA MovesKeepsOrder ==
    ASSUME NEW k, ConnType(k), Order(k), NEW c \in Channels(k), NEW r,
           IsChannel(r.ch, c), KeepsOrder(k.channels[c], c, r),
           NEW m, Moves(m, k, c, r)
    PROVE  Order(m)
<1> SUFFICES ASSUME NEW d \in Nat \ {0} PROVE OrderOf(m, d)
  BY DEF Order
<1>0. /\ m.attached = k.attached /\ Channels(m) = Channels(k)
      /\ m.channels[c] = r.ch
      /\ \A e \in Channels(k) \ {c} : m.channels[e] = k.channels[e]
  BY Zenon DEF Moves, OnlyChannel, Channels
<1>1. OrderOf(k, d)
  BY DEF Order
<1>2. CASE d # c
  <2>1. Emitted(m, d) = Emitted(k, d)
    BY <1>2 DEF Moves
  <2>2. d \in k.attached => d \in Channels(k)
    BY DEF ConnType
  <2>3. d \in Channels(k) => m.channels[d] = k.channels[d]
    BY <1>0, <1>2
  <2> QED
    BY <1>0, <1>1, <2>1, <2>2, <2>3, Zenon DEF OrderOf
<1>3. CASE d = c
  <2> DEFINE ch == k.channels[c]
             e == Emitted(k, c)
  <2>0. c \in Channels(k) /\ IsChannel(ch, c)
    BY DEF ConnType
  <2>1. e \in Seq(FrameOf(c)) /\ ch.queue \in Seq(FrameOf(c))
        /\ ch.accepted \in Seq(FrameOf(c))
        /\ r.ch.queue \in Seq(FrameOf(c)) /\ r.frames \in Seq(FrameOf(c))
    BY <2>0, EmittedTyped, ChannelFramesTyped DEF KeepsOrder
  <2>2. Emitted(m, c) = e \o r.frames
    BY DEF Moves
  <2> DEFINE f == r.frames
             q == r.ch.queue
  <2>a. e \in Seq(FrameOf(c)) /\ f \in Seq(FrameOf(c))
        /\ q \in Seq(FrameOf(c))
    BY <2>1
  <2>3. CASE c \in k.attached
    <3>1. ch.state # "closed" /\ e \o ch.queue = ch.accepted
      BY <1>1, <1>3, <2>3, Zenon DEF OrderOf
    <3>2. PICK a \in Seq(FrameOf(c)) : /\ r.ch.accepted = ch.accepted \o a
                                       /\ r.frames \o r.ch.queue = ch.queue \o a
      BY DEF KeepsOrder
    <3>3. r.ch.state # "closed"
      BY <3>1 DEF KeepsOrder
    <3>4. \A x, y, z \in Seq(FrameOf(c)) : (x \o y) \o z = x \o (y \o z)
      BY FramesAssociative
    <3> HIDE DEF ch, e
    <3>5. (e \o f) \o q = e \o (f \o q)
      <4> HIDE DEF f, q
      <4> QED
        BY ONLY <2>a, <3>4
    <3>6. e \o (ch.queue \o a) = (e \o ch.queue) \o a
      BY ONLY <2>1, <3>4, <3>2, ZenonT(40)
    <3>7. Emitted(m, c) \o r.ch.queue = r.ch.accepted
      BY <2>2, <3>1, <3>2, <3>5, <3>6, Zenon
    <3> QED
      BY <1>0, <1>3, <2>3, <3>3, <3>7, Zenon DEF OrderOf
  <2>4. CASE c \notin k.attached
    <3>1. ch.state = "closed" /\ IsPrefix(e, ch.accepted)
      BY <1>1, <1>3, <2>0, <2>4, Zenon DEF OrderOf
    <3>2. r.ch.state = "closed" /\ r.frames = <<>>
          /\ r.ch.accepted = ch.accepted
      BY <3>1 DEF KeepsOrder
    <3>3. e \o <<>> = e
      BY EmittedEmpty
    <3>4. Emitted(m, c) = e
      BY <2>2, <3>2, <3>3, Zenon
    <3> QED
      BY <1>0, <1>3, <2>0, <2>4, <3>1, <3>2, <3>4, Zenon DEF OrderOf
  <2> QED
    BY <2>3, <2>4
<1> QED
  BY <1>2, <1>3

\* A channel that does not wait leaves the connection as quiet as it was.
LEMMA MovesKeepsQuiet ==
    ASSUME NEW k, ConnType(k), Quiet(k), NEW c \in Channels(k), NEW r, NEW m,
           Moves(m, k, c, r),
           k.state \in {"connected", "closing"} => m.queue = <<>>,
           k.state = "closing" /\ c \in k.attached
           => StaysQuiet(k.channels[c], r)
    PROVE  Quiet(m)
<1>0. /\ m.attached = k.attached /\ m.state = k.state
      /\ m.channels[c] = r.ch
      /\ \A e \in Channels(k) \ {c} : m.channels[e] = k.channels[e]
  BY Zenon DEF Moves, OnlyChannel
<1>1. ASSUME k.state = "closing", NEW d \in k.attached
             PROVE ~ Waiting(m.channels[d])
  <2>1. ~ Waiting(k.channels[d])
    BY <1>1 DEF Quiet
  <2>2. CASE d = c
    BY <1>0, <1>1, <2>1, <2>2, Zenon DEF StaysQuiet
  <2>3. CASE d # c
    <3>1. d \in Channels(k)
      BY DEF ConnType
    <3> QED
      BY <1>0, <2>1, <2>3, <3>1, Zenon
  <2> QED
    BY <2>2, <2>3
<1> QED
  BY <1>0, <1>1 DEF Quiet

\* send(Frame) of a channel's frames keeps the invariant.
LEMMA GiveKeeps ==
    ASSUME NEW k, ConnInv(k), NEW c \in Channels(k), NEW frame \in AFrame,
           NEW r,
           Sends(k.channels[c], c, Taken(k, frame), r)
    PROVE  /\ ConnInv(Give(k, c, r)) /\ Give(k, c, r).state = k.state
           /\ k.state \in Early => Give(k, c, r).wire = k.wire
<1>0. ConnType(k) /\ Order(k) /\ Quiet(k)
  BY DEF ConnInv
<1>1. /\ IsChannel(r.ch, c) /\ KeepsOrder(k.channels[c], c, r)
      /\ r.frames \in Seq(FrameOf(c))
      /\ k.state \in {"closing", "closed"} =>
            r.frames = <<>> /\ StaysQuiet(k.channels[c], r)
  BY DEF Sends, Leaves, KeepsOrder, Taken
<1>2. CASE k.state = "connected"
  <2>1. k.queue = <<>>
    BY <1>0, <1>2 DEF Quiet
  <2> DEFINE m == OnData(Placed(k, c, r.ch), r.frames)
  <2>2. Give(k, c, r) = m
    BY <1>2, <2>1, Zenon DEF Give, Placed
  <2>3. Moves(m, k, c, r) /\ m.queue = <<>>
    BY <1>0, <1>1, <2>1, SentMoves, Zenon
  <2> HIDE DEF m
  <2>4. Order(m)
    BY <1>0, <1>1, <2>3, MovesKeepsOrder, Zenon
  <2>5. Quiet(m)
    BY <1>0, <1>2, <2>3, MovesKeepsQuiet
  <2> QED
    BY <1>2, <2>2, <2>3, <2>4, <2>5 DEF ConnInv, Moves, Early
<1>3. CASE k.state # "connected"
  <2> DEFINE m == [Placed(k, c, r.ch) EXCEPT !.queue = @ \o r.frames]
  <2>2. Give(k, c, r) = m
    <3>1. Placed(k, c, r.ch).queue = k.queue
          /\ Placed(k, c, r.ch).state = k.state
      BY <1>0, <1>1, PlacedTyped, Zenon DEF HasChannel
    <3> QED
      BY <1>3, Zenon DEF Give, Placed
  <2>3. Moves(m, k, c, r) /\ m.queue = k.queue \o r.frames /\ m.wire = k.wire
    BY <1>0, <1>1, QueuedMoves, Zenon
  <2> HIDE DEF m
  <2>4. Order(m)
    BY <1>0, <1>1, <2>3, MovesKeepsOrder, Zenon
  <2>5. k.state = "closing" => m.queue = <<>>
    <3>1. k.state = "closing" => k.queue = <<>> /\ r.frames = <<>>
      BY <1>0, <1>1 DEF Quiet
    <3>2. <<>> \o <<>> = <<>>
      OBVIOUS
    <3> QED
      BY <2>3, <3>1, <3>2, Zenon
  <2>6. Quiet(m)
    BY <1>0, <1>1, <1>3, <2>3, <2>5, MovesKeepsQuiet
  <2> QED
    BY <2>2, <2>3, <2>4, <2>6 DEF ConnInv, Moves
<1> QED
  BY <1>2, <1>3

\* send(OutBuffer) after a frame of the server, likewise.
LEMMA GiveBuffersKeeps ==
    ASSUME NEW k, ConnInv(k), NEW c \in k.attached, NEW r,
           Frees(k.channels[c], c, r), k.state \in {"connected", "closing"}
    PROVE  ConnInv(GiveBuffers(k, c, r))
           /\ GiveBuffers(k, c, r).state = k.state
<1>0. ConnType(k) /\ Order(k) /\ Quiet(k) /\ c \in Channels(k)
  BY DEF ConnInv, ConnType
<1>1. /\ IsChannel(r.ch, c) /\ KeepsOrder(k.channels[c], c, r)
      /\ r.frames \in Seq(FrameOf(c)) /\ StaysQuiet(k.channels[c], r)
  BY DEF Frees, Leaves, KeepsOrder
<1>2. k.queue = <<>>
  BY <1>0 DEF Quiet
<1>3. HasChannel(Placed(k, c, r.ch), k, c, r.ch)
  BY <1>0, <1>1, PlacedTyped
<1>4. CASE k.state = "connected"
  <2> DEFINE m == OnData(Placed(k, c, r.ch), r.frames)
  <2>1. GiveBuffers(k, c, r) = m
    BY <1>2, <1>3, <1>4, Zenon DEF GiveBuffers, OutBuffers, Placed, HasChannel
  <2>2. Moves(m, k, c, r) /\ m.queue = <<>>
    BY <1>0, <1>1, <1>2, SentMoves, Zenon
  <2> HIDE DEF m
  <2>3. Order(m)
    BY <1>0, <1>1, <2>2, MovesKeepsOrder, Zenon
  <2>4. Quiet(m)
    BY <1>0, <1>1, <2>2, MovesKeepsQuiet
  <2> QED
    BY <1>4, <2>1, <2>2, <2>3, <2>4 DEF ConnInv, Moves
<1>5. CASE k.state = "closing"
  <2> DEFINE m == Placed(k, c, r.ch)
  <2>1. GiveBuffers(k, c, r) = m
    BY <1>3, <1>5 DEF GiveBuffers, OutBuffers, Placed, HasChannel
  <2>2. r.frames = <<>>
    BY <1>0, <1>1, <1>5 DEF Quiet, StaysQuiet
  <2> HIDE DEF m
  <2>3. ConnType(m) /\ m.state = k.state /\ m.closed = k.closed
        /\ m.sent = k.sent /\ m.queue = k.queue /\ OnlyChannel(m, k, c, r.ch)
    BY <1>3, Zenon DEF HasChannel, m
  <2>4. \A d : Emitted(m, d) = Emitted(k, d)
    BY <2>3, Zenon DEF Emitted
  <2>5. Emitted(k, c) \o <<>> = Emitted(k, c)
    BY <1>0, EmittedEmpty
  <2>6. Moves(m, k, c, r)
    BY <2>2, <2>3, <2>4, <2>5, Zenon DEF Moves
  <2>7. Order(m)
    BY <1>0, <1>1, <2>6, MovesKeepsOrder, Zenon
  <2>8. Quiet(m)
    BY <1>0, <1>1, <1>2, <2>3, <2>6, MovesKeepsQuiet
  <2> QED
    BY <2>1, <2>3, <2>7, <2>8 DEF ConnInv
<1> QED
  BY <1>4, <1>5

----------------------------------------------------------------------------
\* WHAT A FRAME OF THE SERVER DOES
LEMMA PlacedKeeps ==
    ASSUME NEW k, ConnInv(k), NEW c \in k.attached, NEW ch, IsChannel(ch, c),
           SameFrames(k.channels[c], ch)
    PROVE  ConnInv(Placed(k, c, ch)) /\ Placed(k, c, ch).state = k.state
<1> DEFINE m == Placed(k, c, ch)
           r == Result(TRUE, ch, <<>>)
<1>0. ConnType(k) /\ Order(k) /\ Quiet(k) /\ c \in Channels(k)
  BY DEF ConnInv, ConnType
<1>1. HasChannel(m, k, c, ch)
  BY <1>0, PlacedTyped
<1>2. IsChannel(k.channels[c], c)
  BY <1>0 DEF ConnType
<1>3. KeepsOrder(k.channels[c], c, r) /\ StaysQuiet(k.channels[c], r)
  BY <1>2, SameKeepsOrder
<1>4. r.ch = ch /\ r.frames = <<>>
  BY DEF Result
<1> HIDE DEF m, r
<1>5. \A d : Emitted(m, d) = Emitted(k, d)
  BY <1>1, Zenon DEF Emitted, HasChannel
<1>6. Emitted(k, c) \o <<>> = Emitted(k, c)
  BY <1>0, EmittedEmpty
<1>7. Moves(m, k, c, r)
  BY <1>1, <1>4, <1>5, <1>6, Zenon DEF Moves, HasChannel
<1>8. IsChannel(r.ch, c)
  BY <1>4, Zenon
<1>9. Order(m)
  BY <1>0, <1>3, <1>7, <1>8, MovesKeepsOrder, Zenon
<1>10. m.queue = k.queue /\ m.state = k.state /\ ConnType(m)
  BY <1>1, Zenon DEF HasChannel
<1>11. Quiet(m)
  <2>1. k.state \in {"connected", "closing"} => m.queue = <<>>
    BY <1>0, <1>10 DEF Quiet
  <2> QED
    BY <1>0, <1>3, <1>7, <2>1, MovesKeepsQuiet
<1> QED
  BY <1>9, <1>10, <1>11 DEF ConnInv, m

\* A channel that is closed leaves the connection.
LEMMA ChannelLeaves ==
    ASSUME NEW k, ConnInv(k), NEW c \in k.attached, NEW ch, IsChannel(ch, c),
           ch.state = "closed", ch.accepted = k.channels[c].accepted
    PROVE  /\ ConnInv(RemoveChannel(Placed(k, c, ch), c))
           /\ RemoveChannel(Placed(k, c, ch), c).state = k.state
<1> DEFINE set == Placed(k, c, ch)
           m == RemoveChannel(set, c)
<1>0. ConnType(k) /\ Order(k) /\ Quiet(k) /\ c \in Channels(k)
      /\ c \in Nat \ {0}
  BY DEF ConnInv, ConnType, Channels
<1>1. HasChannel(set, k, c, ch)
  BY <1>0, PlacedTyped
<1>2. ConnType(set) /\ set.state = k.state /\ set.attached = k.attached
      /\ set.sent = k.sent /\ set.queue = k.queue
      /\ set.nextFreeChannel = k.nextFreeChannel
      /\ set.channels[c] = ch
      /\ \A d \in Channels(k) \ {c} : set.channels[d] = k.channels[d]
  BY <1>1, Zenon DEF HasChannel, OnlyChannel
<1> HIDE DEF set
<1>3. m = [set EXCEPT !.attached = k.attached \ {c}]
  BY <1>2 DEF RemoveChannel
<1> HIDE DEF m
<1>4. /\ m \in [state : {"protocol", "handshake", "connected", "closing", "closed"},
              closed : BOOLEAN, channels : {m.channels},
              attached : SUBSET Nat,
              nextFreeChannel : 1..(MaxChannels + 1), maxChannels : Nat,
              queue : Seq(AFrame), wire : Seq(AFrame), sent : Seq(AFrame),
              told : {m.told}]
      /\ m.state = k.state /\ m.attached = k.attached \ {c}
      /\ m.nextFreeChannel = k.nextFreeChannel
      /\ m.channels = set.channels
      /\ m.sent = k.sent /\ m.queue = k.queue
  BY <1>2, <1>3 DEF ConnType
<1>5. Channels(m) = Channels(k) /\ Channels(set) = Channels(k)
  BY <1>2, <1>4, Zenon DEF Channels
<1>6. k.attached \subseteq Channels(k)
  BY <1>0 DEF ConnType
<1>7. m.attached \subseteq Channels(m)
  BY <1>4, <1>5, <1>6
<1>8. m.channels = [d \in Channels(m) |-> m.channels[d]]
      /\ \A d \in Channels(m) : IsChannel(m.channels[d], d)
  <2>1. set.channels = [d \in Channels(set) |-> set.channels[d]]
    BY <1>2 DEF ConnType
  <2>2. \A d \in Channels(set) : IsChannel(set.channels[d], d)
    BY <1>2 DEF ConnType
  <2> QED
    BY <1>4, <1>5, <2>1, <2>2, Zenon
<1>9. ConnType(m)
  BY <1>4, <1>7, <1>8, Zenon DEF ConnType
<1>10. Order(m)
  <2> SUFFICES ASSUME NEW d \in Nat \ {0} PROVE OrderOf(m, d)
    BY DEF Order
  <2>1. OrderOf(k, d)
    BY <1>0 DEF Order
  <2>2. Emitted(m, d) = Emitted(k, d)
    BY <1>4, Zenon DEF Emitted
  <2>3. CASE d # c
    <3>1. d \in m.attached <=> d \in k.attached
      BY <1>4, <2>3
    <3>2. d \in Channels(k) => m.channels[d] = k.channels[d]
      BY <1>2, <1>4, <2>3
    <3>3. d \in k.attached => d \in Channels(k)
      BY <1>6
    <3> QED
      BY <1>5, <2>1, <2>2, <3>1, <3>2, <3>3, Zenon DEF OrderOf
  <2>4. CASE d = c
    <3> DEFINE e == Emitted(k, c)
               q == k.channels[c].queue
    <3>1. e \o q = ch.accepted
      BY <2>1, <2>4, Zenon DEF OrderOf
    <3>2. IsChannel(k.channels[c], c)
      BY <1>0 DEF ConnType
    <3>3. e \in Seq(FrameOf(c)) /\ q \in Seq(FrameOf(c))
      BY <1>0, <3>2, EmittedTyped, ChannelFramesTyped
    <3> HIDE DEF e, q
    <3>4. IsPrefix(e, e \o q)
      BY <3>3, PrefixOfConcat
    <3>5. IsPrefix(Emitted(m, d), m.channels[d].accepted)
      BY <1>2, <1>4, <2>2, <2>4, <3>1, <3>4, Zenon DEF e
    <3>6. d \notin m.attached /\ d \in Channels(m)
          /\ m.channels[d].state = "closed"
      BY <1>0, <1>2, <1>4, <1>5, <2>4
    <3> QED
      BY <3>5, <3>6, Zenon DEF OrderOf
  <2> QED
    BY <2>3, <2>4
<1>11. Quiet(m)
  <2> SUFFICES ASSUME k.state = "closing", NEW d \in m.attached
               PROVE  ~ Waiting(m.channels[d])
    BY <1>0, <1>4 DEF Quiet
  <2>1. d \in k.attached /\ d # c
    BY <1>4
  <2>2. ~ Waiting(k.channels[d])
    BY <1>0, <2>1 DEF Quiet
  <2>3. m.channels[d] = k.channels[d]
    BY <1>2, <1>4, <1>6, <2>1
  <2> QED
    BY <2>2, <2>3, Zenon
<1> QED
  BY <1>4, <1>9, <1>10, <1>11 DEF ConnInv, m, set

\* reportError() of the connection.
LEMMA ReportConnectionErrorKeeps ==
    ASSUME NEW k, ConnInv(k)
    PROVE  ConnInv(ReportConnectionError(k))
           /\ ReportConnectionError(k).state = "closed"
<1> DEFINE m == ReportConnectionError(k)
           channels == [c \in Channels(k) |-> IF c \in k.attached
                                              THEN ReportError(k.channels[c])
                                              ELSE k.channels[c]]
           told == Append(k.told, "onError")
<1>0. ConnType(k) /\ Order(k)
  BY DEF ConnInv
<1>1. m = [k EXCEPT !.state = "closed", !.attached = {}, !.channels = channels,
                    !.told = told]
  <2>1. DOMAIN k.channels = Channels(k)
    BY <1>0 DEF ConnType
  <2>2. ReportConnectionError(k) =
          [k EXCEPT !.state = "closed", !.attached = {},
              !.channels = [c \in DOMAIN k.channels |->
                    IF c \in k.attached THEN ReportError(k.channels[c])
                    ELSE k.channels[c]],
              !.told = Append(k.told, "onError")]
    BY DEF ReportConnectionError
  <2> QED
    BY <2>1, <2>2, Zenon
<1>2. \A c \in Channels(k) : channels[c] = IF c \in k.attached
                                           THEN ReportError(k.channels[c])
                                           ELSE k.channels[c]
  OBVIOUS
<1>3. channels = [c \in Channels(k) |-> channels[c]]
  OBVIOUS
<1> HIDE DEF m, channels, told
<1>4. /\ m \in [state : {"protocol", "handshake", "connected", "closing", "closed"},
              closed : BOOLEAN, channels : {m.channels},
              attached : SUBSET Nat,
              nextFreeChannel : 1..(MaxChannels + 1), maxChannels : Nat,
              queue : Seq(AFrame), wire : Seq(AFrame), sent : Seq(AFrame),
              told : {m.told}]
      /\ m.state = "closed" /\ m.attached = {}
      /\ m.nextFreeChannel = k.nextFreeChannel
      /\ m.channels = channels
      /\ m.sent = k.sent /\ m.queue = k.queue
  BY <1>0, <1>1 DEF ConnType
<1>5. Channels(m) = Channels(k)
  BY <1>4, Zenon DEF Channels
<1>6. \A c \in Channels(k) :
          /\ IsChannel(channels[c], c) /\ IsChannel(k.channels[c], c)
          /\ channels[c].accepted = k.channels[c].accepted
          /\ c \in k.attached => channels[c].state = "closed"
          /\ c \notin k.attached => channels[c] = k.channels[c]
  <2> SUFFICES ASSUME NEW c \in Channels(k)
               PROVE  /\ IsChannel(channels[c], c)
                         /\ IsChannel(k.channels[c], c)
                      /\ channels[c].accepted = k.channels[c].accepted
                      /\ c \in k.attached => channels[c].state = "closed"
                      /\ c \notin k.attached => channels[c] = k.channels[c]
    OBVIOUS
  <2>1. IsChannel(k.channels[c], c)
    BY <1>0 DEF ConnType
  <2>2. CASE c \in k.attached
    <3>1. channels[c] = ReportError(k.channels[c])
      BY <1>2, <2>2
    <3>2. /\ IsChannel(ReportError(k.channels[c]), c)
          /\ ReportError(k.channels[c]).state = "closed"
          /\ ReportError(k.channels[c]).accepted = k.channels[c].accepted
      BY <2>1, ReportErrorCloses
    <3> QED
      BY <2>1, <2>2, <3>1, <3>2, Zenon
  <2>3. CASE c \notin k.attached
    <3>1. channels[c] = k.channels[c]
      BY <1>2, <2>3
    <3> QED
      BY <2>1, <2>3, <3>1, Zenon
  <2> QED
    BY <2>2, <2>3
<1>7. ConnType(m)
  <2>1. m.attached \subseteq Channels(m)
    BY <1>4
  <2>2. m.channels = [c \in Channels(m) |-> m.channels[c]]
    BY <1>3, <1>4, <1>5, Zenon
  <2>3. \A c \in Channels(m) : IsChannel(m.channels[c], c)
    BY <1>4, <1>5, <1>6, Zenon
  <2> QED
    BY <1>4, <2>1, <2>2, <2>3, Zenon DEF ConnType
<1>8. Order(m)
  <2> SUFFICES ASSUME NEW d \in Nat \ {0} PROVE OrderOf(m, d)
    BY DEF Order
  <2>1. OrderOf(k, d)
    BY <1>0 DEF Order
  <2>2. Emitted(m, d) = Emitted(k, d)
    BY <1>4, Zenon DEF Emitted
  <2>3. d \notin m.attached
    BY <1>4
  <2>4. d \in k.attached => d \in Channels(k)
    BY <1>0 DEF ConnType
  <2>5. CASE d \notin k.attached
    BY <1>4, <1>5, <1>6, <2>1, <2>2, <2>3, <2>5, Zenon DEF OrderOf
  <2>6. CASE d \in k.attached
    <3> DEFINE e == Emitted(k, d)
               q == k.channels[d].queue
               accepted == k.channels[d].accepted
    <3>1. e \o q = accepted
      BY <2>1, <2>6, Zenon DEF OrderOf
    <3>2. IsChannel(k.channels[d], d)
      BY <1>6, <2>4, <2>6
    <3>3. e \in Seq(FrameOf(d)) /\ q \in Seq(FrameOf(d))
      BY <1>0, <3>2, EmittedTyped, ChannelFramesTyped
    <3> HIDE DEF e, q
    <3>4. IsPrefix(e, e \o q)
      BY <3>3, PrefixOfConcat
    <3>5. IsPrefix(Emitted(m, d), m.channels[d].accepted)
      BY <1>4, <1>6, <2>2, <2>4, <2>6, <3>1, <3>4, Zenon DEF e
    <3>6. d \in Channels(m) /\ m.channels[d].state = "closed"
      BY <1>4, <1>5, <1>6, <2>4, <2>6
    <3> QED
      BY <2>3, <3>5, <3>6, Zenon DEF OrderOf
  <2> QED
    BY <2>5, <2>6
<1>9. Quiet(m)
  BY <1>4 DEF Quiet
<1> QED
  BY <1>4, <1>7, <1>8, <1>9 DEF ConnInv, m

\* send(Frame) of the connection itself keeps the invariant.
LEMMA OutOfItself ==
    ASSUME NEW k, ConnInv(k), NEW frame \in AFrame, Itself(frame)
    PROVE  /\ ConnInv(Out(k, frame)) /\ Out(k, frame).state = k.state
           /\ SameChannels(k, Out(k, frame))
           /\ ZeroWire(k) /\ frame.channel = 0 => ZeroWire(Out(k, frame))
<1> DEFINE m == Out(k, frame)
<1>1. ConnType(k) /\ Order(k) /\ Quiet(k)
  BY DEF ConnInv
<1>2. /\ ConnType(m) /\ m.state = k.state /\ SameOrder(k, m)
      /\ k.queue = <<>> /\ k.state \in {"connected", "closing"}
         => m.queue = <<>>
      /\ ZeroWire(k) /\ frame.channel = 0 => ZeroWire(m)
  BY <1>1, OutKeeps
<1> HIDE DEF m
<1>3. Order(m)
  BY <1>1, <1>2, SameOrderKeeps
<1>4. m.channels = k.channels /\ m.attached = k.attached /\ SameChannels(k, m)
  BY <1>2, Zenon DEF SameOrder, SameChannels
<1>5. Quiet(m)
  BY <1>1, <1>2, <1>4 DEF Quiet
<1> QED
  BY <1>2, <1>3, <1>4, <1>5 DEF ConnInv, m

\* So does a change of its state that opens nothing.
LEMMA RestatedKeeps ==
    ASSUME NEW k, ConnInv(k),
           NEW state \in {"protocol", "handshake", "connected", "closing", "closed"},
           state \in {"protocol", "handshake", "closed"} \/ state = k.state,
           NEW told, NEW max \in Nat
    PROVE  LET m == Restated(k, state, told, max)
           IN  ConnInv(m) /\ HasState(m, k, state)
<1> DEFINE m == Restated(k, state, told, max)
<1>1. ConnType(k) /\ Order(k) /\ Quiet(k)
  BY DEF ConnInv
<1>2. HasState(m, k, state)
  BY <1>1, WithStateTyped
<1> HIDE DEF m
<1>3. /\ ConnType(m) /\ m.state = state /\ m.sent = k.sent
         /\ m.queue = k.queue
      /\ m.channels = k.channels /\ m.attached = k.attached
         /\ SameChannels(k, m)
  BY <1>2, Zenon DEF HasState, SameChannels
<1>4. Order(m)
  BY <1>1, <1>3, SameEmitted, SameOrderKeeps
<1>5. Quiet(m)
  BY <1>1, <1>3 DEF Quiet
<1>6. ConnInv(m)
  BY <1>3, <1>4, <1>5 DEF ConnInv
<1> QED
  BY <1>2, <1>6 DEF m

\* The frames of the connection itself.
LEMMA OwnFramesTyped ==
    /\ \A name \in {"ConnectionStartOK", "ConnectionTuneOK", "ConnectionOpen",
                    "ConnectionClose", "ConnectionCloseOK",
                    "ProtocolHeader"} :
          /\ Frame_(name, 0, 0) \in AFrame /\ Itself(Frame_(name, 0, 0))
          /\ Frame_(name, 0, 0).channel = 0
    /\ \A c \in Nat : /\ Frame_("ChannelCloseOK", c, 0) \in AFrame
                      /\ Itself(Frame_("ChannelCloseOK", c, 0))
<1>1. {"ConnectionStartOK", "ConnectionTuneOK", "ConnectionOpen", "ProtocolHeader",
       "ConnectionClose", "ConnectionCloseOK",
       "ChannelCloseOK"} \subseteq FrameNames
  BY DEF FrameNames, Frames
<1> QED
  BY <1>1 DEF Frame_, AFrame, Itself

\* What processing a frame leaves of the connection.
Processed(m, k, frame) ==
    /\ ConnInv(m)
    /\ m.state \in Early => k.state \in Early /\ (ZeroWire(k) => ZeroWire(m))
    /\ m.state = "closed" => \/ k.state = "closed"
                             \/ frame.name \in Ends \cup {"ChannelFlow"}

\* The fields of a frame of the server.
LEMMA ServerFrame ==
    ASSUME NEW frame \in ToClient
    PROVE  /\ frame.name \in ServerNames /\ frame.channel \in Nat
              /\ frame.id \in Nat
           /\ frame.name \in {"BasicHeader", "Body"} => frame.size \in Nat
           /\ frame.name = "Heartbeat" => frame \in AFrame
              /\ frame.channel = 0
<1>1. {"BasicHeader", "Body", "Heartbeat"} \subseteq ServerNames
  BY DEF ServerNames, ConnectionNames, ChannelNames
<1>2. "Heartbeat" \in FrameNames
  BY DEF FrameNames, Frames
<1> HIDE DEF ServerNames
<1> QED
  BY <1>1, <1>2 DEF ToClient, AFrame

\* ConnectionStartFrame::process
LEMMA ProcessStartKeeps ==
    ASSUME NEW k, ConnInv(k), NEW frame
    PROVE  Processed(ProcessStart(k), k, frame)
<1> DEFINE state == IF k.state = "protocol" THEN "handshake" ELSE k.state
           started == Restated(k, state, k.told, k.maxChannels)
           ok == Frame_("ConnectionStartOK", 0, 0)
           m == Out(started, ok)
<1>0. ConnType(k)
  BY DEF ConnInv
<1>1. ProcessStart(k) = m
  <2>1. started = [k EXCEPT !.state = IF @ = "protocol" THEN "handshake"
        ELSE @]
    BY <1>0 DEF Restated, ConnType
  <2> QED
    BY <2>1, Zenon DEF ProcessStart
<1>2. /\ state \in {"protocol", "handshake", "connected", "closing", "closed"}
      /\ state \in {"protocol", "handshake", "closed"} \/ state = k.state
      /\ k.maxChannels \in Nat
  BY <1>0, ConnFields
<1>3. state \in Early => k.state \in Early
  BY DEF Early
<1>4. state = "closed" => k.state = "closed"
  OBVIOUS
<1> HIDE DEF state
<1>5. ConnInv(started) /\ HasState(started, k, state)
  BY <1>2, RestatedKeeps
<1>6. started.state = state /\ started.wire = k.wire
  BY <1>5, Zenon DEF HasState
<1> HIDE DEF started
<1>7. ok \in AFrame /\ Itself(ok) /\ ok.channel = 0
  BY OwnFramesTyped
<1> HIDE DEF ok
<1>8. ConnInv(m) /\ m.state = started.state /\ (ZeroWire(started)
      => ZeroWire(m))
  BY <1>5, <1>7, OutOfItself
<1>9. ZeroWire(k) => ZeroWire(started)
  BY <1>6, Zenon DEF ZeroWire
<1> HIDE DEF m
<1> QED
  BY <1>1, <1>3, <1>4, <1>6, <1>8, <1>9, Zenon DEF Processed

\* ConnectionTuneFrame::process
LEMMA ProcessTuneKeeps ==
    ASSUME NEW k, ConnInv(k), NEW frame
    PROVE  Processed(ProcessTune(k), k, frame)
<1> DEFINE tuned == Restated(k, k.state, k.told, ChannelMax)
           ok == Frame_("ConnectionTuneOK", 0, 0)
           open == Frame_("ConnectionOpen", 0, 0)
           first == Out(tuned, ok)
           m == Out(first, open)
<1>0. ConnType(k)
  BY DEF ConnInv
<1>1. ProcessTune(k) = m
  <2>1. tuned = [k EXCEPT !.maxChannels = ChannelMax]
    BY <1>0 DEF Restated, ConnType
  <2> QED
    BY <2>1, Zenon DEF ProcessTune
<1>2. /\ k.state \in {"protocol", "handshake", "connected", "closing", "closed"}
      /\ ChannelMax \in Nat
  BY <1>0, ConnFields, ParametersAssumption
<1>5. ConnInv(tuned) /\ HasState(tuned, k, k.state)
  BY <1>2, RestatedKeeps
<1>6. tuned.state = k.state /\ tuned.wire = k.wire
  BY <1>5, Zenon DEF HasState
<1> HIDE DEF tuned
<1>7. ok \in AFrame /\ Itself(ok) /\ ok.channel = 0 /\ open \in AFrame
      /\ Itself(open)
      /\ open.channel = 0
  BY OwnFramesTyped
<1> HIDE DEF ok, open
<1>8. ConnInv(first) /\ first.state = tuned.state /\ (ZeroWire(tuned)
      => ZeroWire(first))
  BY <1>5, <1>7, OutOfItself
<1> HIDE DEF first
<1>9. ConnInv(m) /\ m.state = first.state /\ (ZeroWire(first) => ZeroWire(m))
  BY <1>8, <1>7, OutOfItself
<1>10. ZeroWire(k) => ZeroWire(tuned)
  BY <1>6, Zenon DEF ZeroWire
<1> HIDE DEF m
<1> QED
  BY <1>1, <1>6, <1>8, <1>9, <1>10, Zenon DEF Processed

\* The frames that process() of the connection handles.
LEMMA ProcessConnectionKeeps ==
    ASSUME NEW k, ConnInv(k), NEW frame \in ToClient,
           frame.name \in ConnectionNames
    PROVE  Processed(ProcessConnection(k, frame), k, frame)
<1> DEFINE process == Frames[frame.name].process
           m == ProcessConnection(k, frame)
<1>0. ConnType(k)
  BY DEF ConnInv
<1>1. CASE frame.name = "ConnectionStart"
  <2>1. process = "start"
    BY <1>1, ConnectionFrames
  <2>2. m = ProcessStart(k)
    BY <2>1 DEF ProcessConnection
  <2> QED
    BY <2>2, ProcessStartKeeps
<1>2. CASE frame.name = "ConnectionTune"
  <2>1. process = "tune"
    BY <1>2, ConnectionFrames
  <2>2. m = ProcessTune(k)
    BY <2>1 DEF ProcessConnection
  <2> QED
    BY <2>2, ProcessTuneKeeps
<1>3. CASE frame.name = "ConnectionOpenOK"
  <2>1. process = "connected"
    BY <1>3, ConnectionFrames
  <2>2. m = SetConnected(k)
    BY <2>1 DEF ProcessConnection
  <2>3. ConnInv(m) /\ m.state \in {"connected", "closing"}
    BY <2>2, SetConnectedKeeps, Zenon
  <2> HIDE DEF m
  <2>4. Processed(m, k, frame)
    BY <2>3 DEF Processed, Early
  <2> QED
    BY <2>4 DEF m
<1>4. CASE frame.name = "ConnectionClose"
  <2> DEFINE ok == Frame_("ConnectionCloseOK", 0, 0)
             answered == Out(k, ok)
  <2>1. process = "connectionError"
    BY <1>4, ConnectionFrames
  <2>2. m = ReportConnectionError(answered)
    BY <2>1 DEF ProcessConnection, ProcessConnectionClose
  <2>3. ok \in AFrame /\ Itself(ok)
    BY OwnFramesTyped
  <2> HIDE DEF ok
  <2>4. ConnInv(answered)
    BY <2>3, OutOfItself
  <2> HIDE DEF answered
  <2>5. ConnInv(m) /\ m.state = "closed"
    BY <2>2, <2>4, ReportConnectionErrorKeeps, Zenon
  <2> HIDE DEF m
  <2>6. Processed(m, k, frame)
    BY <1>4, <2>5 DEF Processed, Early, Ends
  <2> QED
    BY <2>6 DEF m
<1>5. CASE frame.name = "ConnectionCloseOK"
  <2> DEFINE told == Append(k.told, "onClosed")
             closed == Restated(k, "closed", told, k.maxChannels)
  <2>1. process = "connectionClosed"
    BY <1>5, ConnectionFrames
  <2>2. m = ProcessConnectionCloseOK(k)
    BY <2>1 DEF ProcessConnection
  <2>3. m = closed
    BY <1>0, <2>2 DEF ProcessConnectionCloseOK, Restated, ConnType
  <2> HIDE DEF told
  <2>4. ConnInv(closed) /\ HasState(closed, k, "closed")
    <3>1. k.maxChannels \in Nat
      BY <1>0, ConnFields
    <3> QED
      BY <3>1, RestatedKeeps
  <2> HIDE DEF closed
  <2>5. ConnInv(m) /\ m.state = "closed"
    BY <2>3, <2>4, Zenon DEF HasState
  <2> HIDE DEF m
  <2>6. Processed(m, k, frame)
    BY <1>5, <2>5 DEF Processed, Early, Ends
  <2> QED
    BY <2>6 DEF m
<1>6. CASE frame.name = "Heartbeat"
  <2>1. process = "heartbeat"
    BY <1>6, ConnectionFrames
  <2>2. m = Out(k, frame)
    BY <2>1 DEF ProcessConnection
  <2>3. frame \in AFrame /\ frame.channel = 0 /\ Itself(frame)
    BY <1>6, ServerFrame DEF Itself
  <2>4. ConnInv(m) /\ m.state = k.state /\ (ZeroWire(k) => ZeroWire(m))
    BY <2>2, <2>3, OutOfItself
  <2> HIDE DEF m
  <2>5. Processed(m, k, frame)
    BY <2>4, Zenon DEF Processed
  <2> QED
    BY <2>5 DEF m
<1>7. CASE frame.name = "ChannelFlow"
  <2>1. process = "unimplemented"
    BY <1>7, ConnectionFrames
  <2>2. m = ReportConnectionError(k)
    BY <2>1 DEF ProcessConnection
  <2>3. ConnInv(m) /\ m.state = "closed"
    BY <2>2, ReportConnectionErrorKeeps, Zenon
  <2> HIDE DEF m
  <2>4. Processed(m, k, frame)
    BY <1>7, <2>3 DEF Processed, Early, Ends
  <2> QED
    BY <2>4 DEF m
<1> QED
  BY <1>1, <1>2, <1>3, <1>4, <1>5, <1>6, <1>7 DEF ConnectionNames

\* An open channel to which a frame of the server came.
OpenChannel(k, c) ==
    /\ ConnInv(k) /\ c \in k.attached /\ k.state \in {"connected", "closing"}

\* Such a channel is open.
LEMMA OpenChannelTyped ==
    ASSUME NEW k, NEW c, OpenChannel(k, c)
    PROVE  /\ IsChannel(k.channels[c], c) /\ k.channels[c].state # "closed"
           /\ c \in Nat \ {0} /\ c \in Channels(k)
<1>1. c \in Channels(k) /\ c \in Nat \ {0}
  BY DEF OpenChannel, ConnInv, ConnType, Channels
<1>2. IsChannel(k.channels[c], c)
  BY <1>1 DEF OpenChannel, ConnInv, ConnType
<1>3. OrderOf(k, c)
  BY <1>1 DEF OpenChannel, ConnInv, Order
<1>4. k.channels[c].state # "closed"
  BY <1>3 DEF OpenChannel, OrderOf
<1> QED
  BY <1>1, <1>2, <1>4

Goes(m, k) == ConnInv(m) /\ m.state = k.state

\* A method that frees what waits keeps the invariant.
LEMMA FreesGoes ==
    ASSUME NEW k, NEW c, OpenChannel(k, c), NEW r, Frees(k.channels[c], c, r)
    PROVE  Goes(GiveBuffers(k, c, r), k)
BY GiveBuffersKeeps DEF OpenChannel, Goes

\* So does one that touches no frame.
LEMMA SameGoes ==
    ASSUME NEW k, NEW c, OpenChannel(k, c), NEW ch, IsChannel(ch, c),
           SameFrames(k.channels[c], ch)
    PROVE  Goes(Placed(k, c, ch), k)
BY PlacedKeeps DEF OpenChannel, Goes

\* reportSuccess() of the channel to which the frame came.
LEMMA ReportedSame ==
    ASSUME NEW k, NEW frame, OpenChannel(k, frame.channel)
    PROVE  /\ IsChannel(Reported(k, frame), frame.channel)
           /\ SameFrames(k.channels[frame.channel], Reported(k, frame))
           /\ Reported(k, frame).state # "closed"
<1> DEFINE c == frame.channel
           ch == k.channels[c]
           withCount == frame.name \in WithCount
<1>1. IsChannel(ch, c) /\ ch.state # "closed"
  BY OpenChannelTyped
<1>2. withCount \in BOOLEAN
  OBVIOUS
<1>3. Reported(k, frame) = ReportSuccess(ch, withCount)
  BY DEF Reported
<1> HIDE DEF ch, withCount
<1>4. /\ IsChannel(ReportSuccess(ch, withCount), c)
      /\ SameFrames(ch, ReportSuccess(ch, withCount))
      /\ ReportSuccess(ch, withCount).state = ch.state
  BY <1>1, <1>2, ReportSuccessSame
<1> QED
  BY <1>1, <1>3, <1>4, Zenon DEF ch

\* The answers that end a synchronous request.
LEMMA ProcessSuccessGoes ==
    ASSUME NEW k, NEW frame, OpenChannel(k, frame.channel)
    PROVE  Goes(ProcessSuccess(k, frame), k)
<1> DEFINE c == frame.channel
           ch == k.channels[c]
           reported == Reported(k, frame)
           r == OnSynchronized(reported)
<1>1. IsChannel(reported, c) /\ SameFrames(ch, reported)
      /\ reported.state # "closed"
  BY ReportedSame
<1> HIDE DEF reported
<1>2. Frees(reported, c, r)
  BY <1>1, OnSynchronizedFrees
<1> HIDE DEF r
<1>3. Frees(ch, c, r)
  BY <1>1, <1>2, FreesAfter
<1>4. Goes(GiveBuffers(k, c, r), k)
  BY <1>3, FreesGoes
<1> QED
  BY <1>4 DEF ProcessSuccess, r, reported

\* BasicRecoverOKFrame::process
LEMMA ProcessRecoverOKGoes ==
    ASSUME NEW k, NEW frame, OpenChannel(k, frame.channel)
    PROVE  Goes(ProcessRecoverOK(k, frame), k)
<1>1. /\ IsChannel(Reported(k, frame), frame.channel)
      /\ SameFrames(k.channels[frame.channel], Reported(k, frame))
  BY ReportedSame
<1>2. Goes(Placed(k, frame.channel, Reported(k, frame)), k)
  BY <1>1, SameGoes
<1> QED
  BY <1>2 DEF ProcessRecoverOK, Placed

\* BasicGetOKFrame::process
LEMMA ProcessGetOKGoes ==
    ASSUME NEW k, NEW frame, OpenChannel(k, frame.channel), frame.id \in Nat
    PROVE  Goes(ProcessGetOK(k, frame), k)
<1> DEFINE c == frame.channel
           ch == k.channels[c]
           reported == Reported(k, frame)
           got == SetMessage(reported, frame.id, "")
<1>1. IsChannel(reported, c) /\ SameFrames(ch, reported)
  BY ReportedSame
<1> HIDE DEF reported
<1>2. IsChannel(got, c) /\ SameFrames(reported, got)
  BY <1>1, SetMessageSame
<1> HIDE DEF got
<1>3. SameFrames(ch, got)
  BY <1>1, <1>2 DEF SameFrames
<1>4. Goes(Placed(k, c, got), k)
  BY <1>2, <1>3, SameGoes
<1> QED
  BY <1>4 DEF ProcessGetOK, Placed, got, reported

\* BasicDeliverFrame::process
LEMMA ProcessDeliverGoes ==
    ASSUME NEW k, NEW frame, OpenChannel(k, frame.channel), frame.id \in Nat
    PROVE  Goes(ProcessDeliver(k, frame), k)
<1> DEFINE c == frame.channel
           ch == k.channels[c]
           got == SetMessage(ch, frame.id, "tag")
<1>1. IsChannel(ch, c)
  BY OpenChannelTyped
<1>2. IsChannel(got, c) /\ SameFrames(ch, got)
  BY <1>1, SetMessageSame
<1> HIDE DEF got
<1>4. Goes(Placed(k, c, got), k)
  BY <1>2, SameGoes
<1> QED
  BY <1>4 DEF ProcessDeliver, Placed, got

\* The server closes the channel, or answers that it did.
LEMMA ProcessChannelCloseGoes ==
    ASSUME NEW k, NEW c, OpenChannel(k, c)
    PROVE  Goes(ProcessChannelClose(k, c), k)
<1> DEFINE ok == Frame_("ChannelCloseOK", c, 0)
           out == Out(k, ok)
           ch == ReportError(out.channels[c])
           m == RemoveChannel(Placed(out, c, ch), c)
<1>1. ok \in AFrame /\ Itself(ok)
  BY OpenChannelTyped, OwnFramesTyped
<1> HIDE DEF ok
<1>2. ConnInv(out) /\ out.state = k.state /\ SameChannels(k, out)
  BY <1>1, OutOfItself DEF OpenChannel
<1> HIDE DEF out
<1>3. c \in out.attached /\ out.channels = k.channels
  BY <1>2 DEF SameChannels, OpenChannel
<1>4. IsChannel(out.channels[c], c)
  BY <1>3, OpenChannelTyped, Zenon
<1>5. IsChannel(ch, c) /\ ch.state = "closed"
      /\ ch.accepted = out.channels[c].accepted
  BY <1>4, ReportErrorCloses
<1> HIDE DEF ch
<1>6. ConnInv(m) /\ m.state = out.state
  BY <1>2, <1>3, <1>5, ChannelLeaves, Zenon
<1>7. ProcessChannelClose(k, c) = m
  BY Zenon DEF ProcessChannelClose, Placed, ch, out, ok
<1> QED
  BY <1>2, <1>6, <1>7, Zenon DEF Goes

\* ChannelCloseOKFrame::process
LEMMA ProcessChannelCloseOKGoes ==
    ASSUME NEW k, NEW c, OpenChannel(k, c)
    PROVE  Goes(ProcessChannelCloseOK(k, c), k)
<1> DEFINE ch == ReportClosed(k.channels[c])
           m == RemoveChannel(Placed(k, c, ch), c)
<1>1. IsChannel(k.channels[c], c) /\ ConnInv(k) /\ c \in k.attached
  BY OpenChannelTyped DEF OpenChannel
<1>2. IsChannel(ch, c) /\ ch.state = "closed"
      /\ ch.accepted = k.channels[c].accepted
  BY <1>1, ReportClosedCloses
<1>3. ProcessChannelCloseOK(k, c) = m
  BY Zenon DEF ProcessChannelCloseOK, Placed
<1> HIDE DEF ch
<1>4. ConnInv(m) /\ m.state = k.state
  BY <1>1, <1>2, ChannelLeaves, Zenon
<1> QED
  BY <1>3, <1>4, Zenon DEF Goes

\* The frames that process() of a channel handles.
LEMMA ProcessChannelGoes ==
    ASSUME NEW k, NEW frame \in ToClient, OpenChannel(k, frame.channel),
           frame.name \in ChannelNames
    PROVE  Goes(ProcessChannel(k, frame), k)
<1> DEFINE c == frame.channel
           ch == k.channels[c]
           process == Frames[frame.name].process
           m == ProcessChannel(k, frame)
<1>0. IsChannel(ch, c) /\ ch.state # "closed" /\ frame.id \in Nat
  BY OpenChannelTyped, ServerFrame
<1>1. CASE frame.name \in SuccessNames
  <2>1. process = "success"
    BY <1>1, ChannelFrames
  <2>2. m = ProcessSuccess(k, frame)
    BY <2>1 DEF ProcessChannel
  <2> QED
    BY <2>2, ProcessSuccessGoes
<1>2. CASE frame.name = "ChannelOpenOK"
  <2>1. process = "ready"
    BY <1>2, ChannelFrames
  <2>2. m = GiveBuffers(k, c, OnSynchronized(ch))
    BY <2>1 DEF ProcessChannel
  <2>3. Frees(ch, c, OnSynchronized(ch))
    BY <1>0, OnSynchronizedFrees
  <2> QED
    BY <2>2, <2>3, FreesGoes
<1>3. CASE frame.name = "ChannelClose"
  <2>1. process = "channelError"
    BY <1>3, ChannelFrames
  <2>2. m = ProcessChannelClose(k, c)
    BY <2>1 DEF ProcessChannel
  <2> QED
    BY <2>2, ProcessChannelCloseGoes
<1>4. CASE frame.name = "ChannelCloseOK"
  <2>1. process = "channelClosed"
    BY <1>4, ChannelFrames
  <2>2. m = ProcessChannelCloseOK(k, c)
    BY <2>1 DEF ProcessChannel
  <2> QED
    BY <2>2, ProcessChannelCloseOKGoes
<1>5. CASE frame.name = "BasicDeliver"
  <2>1. process = "delivered"
    BY <1>5, ChannelFrames
  <2>2. m = ProcessDeliver(k, frame)
    BY <2>1 DEF ProcessChannel
  <2> QED
    BY <1>0, <2>2, ProcessDeliverGoes
<1>6. CASE frame.name = "BasicGetOK"
  <2>1. process = "got"
    BY <1>6, ChannelFrames
  <2>2. m = ProcessGetOK(k, frame)
    BY <2>1 DEF ProcessChannel
  <2> QED
    BY <1>0, <2>2, ProcessGetOKGoes
<1>7. CASE frame.name = "BasicRecoverOK"
  <2>1. process = "recovered"
    BY <1>7, ChannelFrames
  <2>2. m = ProcessRecoverOK(k, frame)
    BY <2>1 DEF ProcessChannel
  <2> QED
    BY <2>2, ProcessRecoverOKGoes
<1>8. CASE frame.name = "BasicHeader"
  <2>0. frame.size \in Nat
    BY <1>8, ServerFrame
  <2>1. process = "header"
    BY <1>8, ChannelFrames
  <2>2. m = GiveBuffers(k, c, ProcessHeader(ch, frame.size))
    BY <2>1 DEF ProcessChannel
  <2>3. Frees(ch, c, ProcessHeader(ch, frame.size))
    BY <1>0, <2>0, ProcessHeaderFrees
  <2> QED
    BY <2>2, <2>3, FreesGoes
<1>9. CASE frame.name = "Body"
  <2>0. frame.size \in Nat
    BY <1>9, ServerFrame
  <2>1. process = "body"
    BY <1>9, ChannelFrames
  <2>2. m = GiveBuffers(k, c, ProcessBody(ch, frame.size))
    BY <2>1 DEF ProcessChannel
  <2>3. Frees(ch, c, ProcessBody(ch, frame.size))
    BY <1>0, <2>0, ProcessBodyFrees
  <2> QED
    BY <2>2, <2>3, FreesGoes
<1> QED
  BY <1>1, <1>2, <1>3, <1>4, <1>5, <1>6, <1>7, <1>8, <1>9 DEF ChannelNames

\* process() of any frame that the server may send now.
LEMMA ProcessKeeps ==
    ASSUME NEW k, ConnInv(k), NEW frame \in ToClient,
           k.state \in Early => frame.channel = 0,
           k.state = "closed" => frame.name = "ConnectionCloseOK"
    PROVE  Processed(Process(k, frame), k, frame)
<1>0. Process(k, frame) =
          IF OfConnection(frame.name) THEN ProcessConnection(k, frame)
          ELSE IF frame.channel \in k.attached THEN ProcessChannel(k, frame)
          ELSE IF frame.name = "ChannelClose"
          THEN Out(k, Frame_("ChannelCloseOK", frame.channel, 0))
          ELSE k
  BY Zenon DEF Process, OfConnection
<1>1. frame.name \in ServerNames /\ frame.channel \in Nat
  BY ServerFrame
<1>2. CASE frame.name \in ConnectionNames
  <2>1. OfConnection(frame.name)
    BY <1>2, ConnectionFrames
  <2> QED
    BY <1>0, <1>2, <2>1, ProcessConnectionKeeps
<1>3. CASE frame.name \in ChannelNames
  <2>1. ~ OfConnection(frame.name)
    BY <1>3, ChannelFrames
  <2>2. CASE frame.channel \in k.attached
    <3>1. frame.channel # 0
      BY <2>2 DEF ConnInv, ConnType, Channels
    <3>2. k.state \in {"connected", "closing"}
      <4>1. k.state # "closed"
        BY <1>3 DEF ChannelNames, SuccessNames
        \* "ConnectionCloseOK" is no name of these
      <4>2. k.state \in {"protocol", "handshake", "connected", "closing", "closed"}
        BY ConnFields DEF ConnInv
      <4> QED
        BY <3>1, <4>1, <4>2 DEF Early
    <3>3. OpenChannel(k, frame.channel)
      BY <2>2, <3>2 DEF OpenChannel
    <3> DEFINE m == ProcessChannel(k, frame)
    <3>4. Goes(m, k)
      BY <1>3, <3>3, ProcessChannelGoes
    <3>5. Process(k, frame) = m
      BY <1>0, <2>1, <2>2, Zenon
    <3> HIDE DEF m
    <3>6. Processed(m, k, frame)
      BY <3>2, <3>4 DEF Processed, Goes, Early
    <3> QED
      BY <3>5, <3>6, Zenon
  <2>3. CASE frame.channel \notin k.attached /\ frame.name = "ChannelClose"
    <3> DEFINE ok == Frame_("ChannelCloseOK", frame.channel, 0)
               m == Out(k, ok)
    <3>1. ok \in AFrame /\ Itself(ok) /\ ok.channel = frame.channel
      BY <1>1, OwnFramesTyped DEF Frame_
    <3>2. Process(k, frame) = m
      BY <1>0, <2>1, <2>3, Zenon
    <3> HIDE DEF ok
    <3>3. ConnInv(m) /\ m.state = k.state /\ (ZeroWire(k)
          /\ ok.channel = 0 => ZeroWire(m))
      BY <3>1, OutOfItself
    <3> HIDE DEF m
    <3>4. Processed(m, k, frame)
      BY <3>1, <3>3, Zenon DEF Processed
    <3> QED
      BY <3>2, <3>4, Zenon
  <2>4. CASE frame.channel \notin k.attached /\ frame.name # "ChannelClose"
    <3>1. Process(k, frame) = k
      BY <1>0, <2>1, <2>4, Zenon
    <3> QED
      BY <3>1, Zenon DEF Processed
  <2> QED
    BY <2>2, <2>3, <2>4
<1> QED
  BY <1>1, <1>2, <1>3 DEF ServerNames

----------------------------------------------------------------------------
\* THE CALLS OF THE APPLICATION

\* A call on a channel of the connection.
LEMMA CreatedChannels ==
    ASSUME NEW k, ConnType(k)
    PROVE  DOMAIN k.channels = Channels(k)
BY DEF ConnType

\* The id that add() finds is the next one: ids are not used again.
LEMMA AddChannelIsNext ==
    ASSUME NEW k, ConnType(k), AddChannel(k) # 0
    PROVE  AddChannel(k) = k.nextFreeChannel
<1> DEFINE next == k.nextFreeChannel
           Free(id) == /\ id >= next /\ id \notin k.attached
                       /\ \A n \in next..(id - 1) : n \in k.attached
<1>1. next \in Ids \cup {MaxChannels + 1} /\ next \in Nat
      /\ MaxChannels \in Nat
  BY ParametersAssumption DEF ConnType, Ids
<1>2. \A n \in k.attached : n \in Nat /\ n < next
  BY <1>1 DEF ConnType, Channels
<1>3. AddChannel(k) = CHOOSE id \in Ids \cup {MaxChannels + 1} : Free(id)
  BY DEF AddChannel
<1>4. Free(next)
  BY <1>1, <1>2
<1>5. \A id \in Ids \cup {MaxChannels + 1} : Free(id) => id = next
  <2> SUFFICES ASSUME NEW id \in Ids \cup {MaxChannels + 1}, Free(id),
      id # next
               PROVE  FALSE
    OBVIOUS
  <2>1. id \in Int /\ id > next
    BY <1>1 DEF Ids
  <2>2. next \in k.attached
    BY <1>1, <2>1
  <2> QED
    BY <1>1, <1>2, <2>2
<1> HIDE DEF Free, next
<1>6. AddChannel(k) = next
  BY <1>1, <1>3, <1>4, <1>5
<1> QED
  BY <1>6 DEF next

HasAdded(m, k, c, ch, attached) ==
    /\ ConnType(m) /\ m.state = k.state /\ m.closed = k.closed
    /\ m.attached = attached /\ m.nextFreeChannel = c + 1
    /\ m.wire = k.wire /\ m.sent = k.sent /\ m.queue = k.queue
    /\ m.channels[c] = ch /\ c \in Channels(m)
    /\ \A d \in Channels(k) : d # c /\ d \in Channels(m)
       /\ m.channels[d] = k.channels[d]
    /\ \A d \in Channels(m) : d = c \/ d \in Channels(k)

\* A connection with one channel more is a connection.
LEMMA AddedTyped ==
    ASSUME NEW k, ConnType(k), NEW c \in Ids, c = k.nextFreeChannel, NEW ch,
           IsChannel(ch, c),
           NEW attached \in {k.attached, k.attached \cup {c}}
    PROVE  HasAdded(Added(k, c, ch, attached), k, c, ch, attached)
<1> DEFINE channels == [d \in (DOMAIN k.channels) \cup {c} |->
                              IF d = c THEN ch ELSE k.channels[d]]
           m == Added(k, c, ch, attached)
<1>0. c \in Nat \ {0} /\ MaxChannels \in Nat /\ c <= MaxChannels
  BY ParametersAssumption DEF Ids
<1>1. Channels(k) = 1..(c - 1) /\ c \notin Channels(k)
  BY <1>0 DEF Channels
<1>2. channels = [d \in 1..c |-> IF d = c THEN ch ELSE k.channels[d]]
  <2>1. (DOMAIN k.channels) \cup {c} = 1..c
    BY <1>0, <1>1, CreatedChannels
  <2> QED
    BY <2>1, Zenon
<1>3. /\ channels[c] = ch
      /\ \A d \in Channels(k) : channels[d] = k.channels[d]
      /\ channels = [d \in 1..c |-> channels[d]]
  BY <1>0, <1>1, <1>2
<1> HIDE DEF channels
<1>4. m = [k EXCEPT !.attached = attached, !.nextFreeChannel = c + 1,
                    !.channels = channels]
  BY Zenon DEF Added, channels
<1> HIDE DEF m
<1>5. attached \in SUBSET Nat /\ attached \subseteq 1..c
      /\ c + 1 \in 1..(MaxChannels + 1)
  BY <1>0, <1>1 DEF ConnType
<1>6. /\ m \in [state : {"protocol", "handshake", "connected", "closing", "closed"},
              closed : BOOLEAN, channels : {m.channels},
              attached : SUBSET Nat,
              nextFreeChannel : 1..(MaxChannels + 1), maxChannels : Nat,
              queue : Seq(AFrame), wire : Seq(AFrame), sent : Seq(AFrame),
              told : {m.told}]
      /\ m.state = k.state /\ m.closed = k.closed
      /\ m.attached = attached /\ m.nextFreeChannel = c + 1
      /\ m.channels = channels
      /\ m.wire = k.wire /\ m.sent = k.sent /\ m.queue = k.queue
  BY <1>4, <1>5 DEF ConnType
<1>7. Channels(m) = 1..c
  BY <1>0, <1>6 DEF Channels
<1>8. \A d \in Channels(m) : d = c \/ d \in Channels(k)
  BY <1>0, <1>1, <1>7
<1>9. \A d \in Channels(k) : d # c /\ d \in Channels(m)
  BY <1>0, <1>1, <1>7
<1>10. \A d \in Channels(m) : IsChannel(m.channels[d], d)
  <2> SUFFICES ASSUME NEW d \in Channels(m) PROVE IsChannel(m.channels[d], d)
    OBVIOUS
  <2>1. CASE d = c
    BY <1>3, <1>6, <2>1, Zenon
  <2>2. CASE d \in Channels(k)
    <3>1. IsChannel(k.channels[d], d)
      BY <2>2 DEF ConnType
    <3> QED
      BY <1>3, <1>6, <2>2, <3>1, Zenon
  <2> QED
    BY <1>8, <2>1, <2>2
<1>11. ConnType(m)
  <2>1. m.attached \subseteq Channels(m)
    BY <1>5, <1>6, <1>7, Zenon
  <2>2. m.channels = [d \in Channels(m) |-> m.channels[d]]
    BY <1>3, <1>6, <1>7, Zenon
  <2> QED
    BY <1>6, <1>10, <2>1, <2>2, Zenon DEF ConnType
<1>12. c \in Channels(m)
  BY <1>0, <1>7
<1>13. m.channels[c] = ch
       /\ \A d \in Channels(k) : m.channels[d] = k.channels[d]
  BY <1>3, <1>6, Zenon
<1>14. HasAdded(m, k, c, ch, attached)
  BY <1>6, <1>8, <1>9, <1>11, <1>12, <1>13, Zenon DEF HasAdded
<1> QED
  BY <1>14 DEF m

\* A new channel has accepted nothing.
LEMMA NewChannelTyped ==
    ASSUME NEW c
    PROVE  /\ IsChannel(NewChannel, c) /\ NewChannel.state = "connected"
           /\ ~ Waiting(NewChannel) /\ NewChannel.queue = <<>>
           /\ NewChannel.accepted = <<>>
<1>1. /\ <<>> \in Seq(FrameOf(c)) /\ <<>> \in Seq(Deferreds)
         /\ <<>> \in Seq(Nat)
      /\ <<>> \in Seq(Nat \X Nat)
  OBVIOUS
<1>2. NoMessage \in Messages
  BY DEF NoMessage, Messages
<1>3. IsChannel(NewChannel, c)
  BY <1>1, <1>2 DEF NewChannel, IsChannel
<1> QED
  BY <1>3 DEF NewChannel, Waiting

\* The new channel has emitted nothing, whether it is attached or has
\* failed already.
LEMMA AddedKeeps ==
    ASSUME NEW k, ConnInv(k), NEW c \in Ids, c = k.nextFreeChannel, NEW ch,
           IsChannel(ch, c), NEW attached,
           \/ attached = k.attached /\ ch.state = "closed"
           \/ attached = k.attached \cup {c} /\ ch = NewChannel
    PROVE  /\ ConnInv(Added(k, c, ch, attached))
           /\ HasAdded(Added(k, c, ch, attached), k, c, ch, attached)
<1> DEFINE m == Added(k, c, ch, attached)
<1>0. ConnType(k) /\ Order(k) /\ Quiet(k)
  BY DEF ConnInv
<1>1. HasAdded(m, k, c, ch, attached)
  <2>1. attached \in {k.attached, k.attached \cup {c}}
    OBVIOUS
  <2> QED
    BY <1>0, <2>1, AddedTyped
<1> HIDE DEF m
<1>2. c \in Nat \ {0} /\ c \notin Channels(k) /\ c \notin k.attached
      /\ k.attached \subseteq Channels(k)
  BY <1>0, ParametersAssumption DEF Ids, Channels, ConnType
<1>3. /\ ConnType(m) /\ m.state = k.state /\ m.attached = attached
      /\ m.sent = k.sent /\ m.queue = k.queue
      /\ m.channels[c] = ch /\ c \in Channels(m)
      /\ \A d \in Channels(k) : d # c /\ d \in Channels(m)
         /\ m.channels[d] = k.channels[d]
      /\ \A d \in Channels(m) : d = c \/ d \in Channels(k)
  BY <1>1, Zenon DEF HasAdded
<1>4. Order(m)
  <2> SUFFICES ASSUME NEW d \in Nat \ {0} PROVE OrderOf(m, d)
    BY DEF Order
  <2>1. OrderOf(k, d)
    BY <1>0 DEF Order
  <2>2. Emitted(m, d) = Emitted(k, d)
    BY <1>3, Zenon DEF Emitted
  <2>3. CASE d # c
    <3>1. d \in m.attached <=> d \in k.attached
      BY <1>3, <2>3
    <3>2. d \in Channels(m) <=> d \in Channels(k)
      BY <1>3, <2>3
    <3>3. d \in Channels(k) => m.channels[d] = k.channels[d]
      BY <1>3
    <3>4. d \in k.attached => d \in Channels(k)
      BY <1>2
    <3> QED
      BY <2>1, <2>2, <3>1, <3>2, <3>3, <3>4, Zenon DEF OrderOf
  <2>4. CASE d = c
    <3>1. Emitted(k, c) = <<>>
      BY <1>2, <2>1, <2>4, Zenon DEF OrderOf
    <3>2. CASE attached = k.attached /\ ch.state = "closed"
      <4>1. ch.accepted \in Seq(FrameOf(c)) /\ <<>> \in Seq(FrameOf(c))
        BY ChannelFramesTyped
      <4>2. <<>> \o ch.accepted = ch.accepted
        BY <4>1, EmptyConcat, Zenon
      <4>3. IsPrefix(<<>>, <<>> \o ch.accepted)
        BY <4>1, PrefixOfConcat
      <4>4. IsPrefix(<<>>, ch.accepted)
        BY <4>2, <4>3, Zenon
      <4> QED
        BY <1>2, <1>3, <2>2, <2>4, <3>1, <3>2, <4>4, ZenonT(40) DEF OrderOf
    <3>3. CASE attached = k.attached \cup {c} /\ ch = NewChannel
      <4>1. ch.state # "closed" /\ ch.queue = <<>> /\ ch.accepted = <<>>
        BY <3>3, NewChannelTyped
      <4>2. <<>> \o <<>> = <<>> /\ c \in attached
        BY <3>3
      <4> QED
        BY <1>3, <2>2, <2>4, <3>1, <4>1, <4>2, Zenon DEF OrderOf
    <3> QED
      BY <3>2, <3>3
  <2> QED
    BY <2>3, <2>4
<1>5. Quiet(m)
  <2>1. k.state \in {"connected", "closing"} => m.queue = <<>>
    BY <1>0, <1>3 DEF Quiet
  <2>2. ASSUME k.state = "closing", NEW d \in m.attached
               PROVE ~ Waiting(m.channels[d])
    <3>1. CASE d \in k.attached
      <4>1. ~ Waiting(k.channels[d]) /\ d \in Channels(k)
        BY <1>0, <1>2, <2>2, <3>1 DEF Quiet
      <4> QED
        BY <1>3, <4>1, Zenon
    <3>2. CASE d \notin k.attached
      <4>1. d = c /\ ch = NewChannel
        BY <1>3, <3>2
      <4> QED
        BY <1>3, <4>1, NewChannelTyped, Zenon
    <3> QED
      BY <3>1, <3>2
  <2> QED
    BY <1>3, <2>1, <2>2 DEF Quiet
<1> QED
  BY <1>1, <1>3, <1>4, <1>5 DEF ConnInv, m

----------------------------------------------------------------------------
\* What a call of the application may do to the connection.
Stays(m, k) ==
    /\ ConnInv(m)
    /\ m.state \in Early => k.state \in Early /\ m.wire = k.wire
    /\ m.state = "closed" => k.state = "closed"

\* The frames of a channel's methods are frames of the channel.
ChannelFrameNames ==
    {"ChannelOpen", "ChannelClose", "ChannelFlow", "TransactionSelect",
     "TransactionCommit", "TransactionRollback", "ExchangeDeclare",
     "ExchangeBind", "ExchangeUnbind", "ExchangeDelete", "QueueDeclare",
     "QueueBind", "QueueUnbind", "QueuePurge", "QueueDelete", "BasicQos",
     "BasicConsume", "BasicCancel", "BasicGet", "BasicRecover", "BasicAck",
     "BasicReject", "BasicNack", "BasicPublish"}

IsFrame(frame, c) == frame \in AFrame /\ frame \in FrameOf(c)

\* Such a frame is one of its channel.
LEMMA OwnFrameTyped ==
    ASSUME NEW name \in ChannelFrameNames, NEW c \in Nat, NEW id \in Nat
    PROVE  IsFrame(Frame_(name, c, id), c)
<1>1. ChannelFrameNames \subseteq FrameNames
  BY DEF ChannelFrameNames, FrameNames, Frames
<1>2. name # "ChannelCloseOK"
  BY DEF ChannelFrameNames
<1>3. Frame_(name, c, id) \in AFrame
  BY <1>1 DEF Frame_, AFrame
<1>4. Counts(Frame_(name, c, id), c)
  BY <1>2 DEF Frame_, Counts
<1> QED
  BY <1>3, <1>4, Zenon DEF FrameOf, IsFrame

\* The methods of a channel send such frames.
LEMMA MethodFrames ==
    /\ \A method \in DOMAIN RequestFrame : RequestFrame[method] \in ChannelFrameNames
    /\ \A method \in DOMAIN SettleFrame : SettleFrame[method] \in ChannelFrameNames
<1>1. \A method \in DOMAIN RequestFrame : RequestFrame[method] \in ChannelFrameNames
  BY DEF RequestFrame, ChannelFrameNames
<1>2. \A method \in DOMAIN SettleFrame : SettleFrame[method] \in ChannelFrameNames
  BY DEF SettleFrame, ChannelFrameNames
<1> QED
  BY <1>1, <1>2

\* What a call sends keeps the invariant.
LEMMA GiveStays ==
    ASSUME NEW k, ConnInv(k), NEW c \in Channels(k), NEW frame \in AFrame,
           NEW r,
           Sends(k.channels[c], c, Taken(k, frame), r)
    PROVE  Stays(Give(k, c, r), k)
<1> DEFINE m == Give(k, c, r)
<1>1. ConnInv(m) /\ m.state = k.state /\ (k.state \in Early
      => m.wire = k.wire)
  BY GiveKeeps
<1> HIDE DEF m
<1> QED
  BY <1>1 DEF Stays, m

\* send() takes a frame or refuses it.
LEMMA TakenBoolean ==
    ASSUME NEW k, NEW frame
    PROVE  Taken(k, frame) \in BOOLEAN
BY DEF Taken

\* attach()
LEMMA AttachKeeps ==
    ASSUME ConnInv(conn), Attach
    PROVE  Stays(conn', conn)
<1> DEFINE c == AddChannel(conn)
           open == Frame_("ChannelOpen", c, 0)
           r == Send(NewChannel, open, Taken(conn, open))
           known == Added(conn, c, NewChannel, conn.attached \cup {c})
           failed == Added(conn, c, ReportError(r.ch), conn.attached)
<1>0. ConnType(conn)
  BY DEF ConnInv
<1>1. c # 0 /\ Cardinality(Created) < MaxChannels
  BY DEF Attach
<1>2. conn' = IF r.ok THEN Give(known, c, r) ELSE failed
  BY Zenon DEF Attach
<1>3. c = conn.nextFreeChannel
  BY <1>0, <1>1, AddChannelIsNext
<1>4. c \in Ids
  <2>1. conn.nextFreeChannel \in 1..(MaxChannels + 1) /\ MaxChannels \in Nat
    BY <1>0, ParametersAssumption DEF ConnType
  <2>2. Created = 1..(c - 1)
    BY <1>0, <1>3, CreatedChannels DEF Created, Channels
  <2>3. Cardinality(Created) = c - 1
    <3> DEFINE n == c - 1
    <3>0. n \in Int /\ 1 \in Int /\ n >= 1 - 1
      BY <1>3, <2>1
    <3> HIDE DEF n
    <3>1. Cardinality(1..n) = IF 1 > n THEN 0 ELSE n - 1 + 1
      BY <3>0, FS_Interval
    <3> QED
      BY <2>2, <3>0, <3>1 DEF n
  <2> HIDE DEF c
  <2> QED
    BY <1>1, <1>3, <2>1, <2>3 DEF Ids
<1> HIDE DEF c
<1>5. c \in Nat \ {0}
  BY <1>4, ParametersAssumption DEF Ids
<1>6. IsChannel(NewChannel, c)
  BY NewChannelTyped
<1>7. open \in AFrame /\ open \in FrameOf(c)
  <2>1. "ChannelOpen" \in ChannelFrameNames /\ 0 \in Nat /\ c \in Nat
    BY <1>5 DEF ChannelFrameNames
  <2>2. IsFrame(open, c)
    BY <1>5, <2>1, OwnFrameTyped, Zenon
  <2> QED
    BY <2>2, Zenon DEF IsFrame
<1> HIDE DEF open
<1>8. Sends(NewChannel, c, Taken(conn, open), r)
  BY <1>6, <1>7, TakenBoolean, SendSends
<1> HIDE DEF r
<1>9. CASE r.ok
  <2>1. ConnInv(known)
        /\ HasAdded(known, conn, c, NewChannel, conn.attached \cup {c})
    BY <1>3, <1>4, <1>6, AddedKeeps
  <2> HIDE DEF known
  <2>2. known.state = conn.state /\ known.closed = conn.closed
        /\ known.wire = conn.wire
        /\ known.channels[c] = NewChannel /\ c \in Channels(known)
    BY <2>1, Zenon DEF HasAdded
  <2>3. Taken(known, open) = Taken(conn, open)
    BY <2>2, Zenon DEF Taken
  <2>4. Sends(known.channels[c], c, Taken(known, open), r)
    BY <1>8, <2>2, <2>3, Zenon
  <2>5. Stays(Give(known, c, r), known)
    BY <1>7, <2>1, <2>2, <2>4, GiveStays
  <2>6. conn' = Give(known, c, r)
    BY <1>2, <1>9, Zenon
  <2> QED
    BY <2>2, <2>5, <2>6, Zenon DEF Stays
<1>10. CASE ~ r.ok
  <2>1. IsChannel(ReportError(r.ch), c) /\ ReportError(r.ch).state = "closed"
    BY <1>8, ReportErrorCloses DEF Sends, Leaves
  <2>2. ConnInv(failed)
        /\ HasAdded(failed, conn, c, ReportError(r.ch), conn.attached)
    BY <1>3, <1>4, <2>1, AddedKeeps
  <2> HIDE DEF failed
  <2>3. failed.state = conn.state /\ failed.wire = conn.wire
    BY <2>2, Zenon DEF HasAdded
  <2>4. conn' = failed
    BY <1>2, <1>10, Zenon
  <2> QED
    BY <2>2, <2>3, <2>4, Zenon DEF Stays
<1> QED
  BY <1>9, <1>10

\* The methods of a channel.
LEMMA CallRequestKeeps ==
    ASSUME ConnInv(conn), calls \in Nat, NEW c \in Created,
           NEW method \in DOMAIN RequestFrame, CallRequest(c, method)
    PROVE  Stays(conn', conn)
<1> DEFINE frame == Frame_(RequestFrame[method], c, calls + 1)
           r == Request(conn.channels[c], method, frame, Taken(conn, frame))
<1>0. ConnType(conn)
  BY DEF ConnInv
<1>1. c \in Channels(conn) /\ c \in Nat /\ IsChannel(conn.channels[c], c)
  BY <1>0, CreatedChannels DEF Created, Channels, ConnType
<1>2. conn' = Give(conn, c, r)
  BY Zenon DEF CallRequest, Called
<1>3. frame \in AFrame /\ frame \in FrameOf(c)
  <2>1. calls + 1 \in Nat
    OBVIOUS
  <2>2. IsFrame(frame, c)
    BY <1>1, <2>1, MethodFrames, OwnFrameTyped, Zenon
  <2> QED
    BY <2>2, Zenon DEF IsFrame
<1> HIDE DEF frame
<1>4. Sends(conn.channels[c], c, Taken(conn, frame), r)
  BY <1>1, <1>3, TakenBoolean, RequestSends
<1> HIDE DEF r
<1>5. Stays(Give(conn, c, r), conn)
  BY <1>1, <1>3, <1>4, GiveStays
<1> QED
  BY <1>2, <1>5, Zenon

\* publish() of a channel, called by the application.
LEMMA CallPublishKeeps ==
    ASSUME ConnInv(conn), calls \in Nat, NEW c \in Created, CallPublish(c)
    PROVE  Stays(conn', conn)
<1> DEFINE frame == Frame_("BasicPublish", c, calls + 1)
           r == Publish(conn.channels[c], c, calls + 1, Taken(conn, frame))
<1>0. ConnType(conn) /\ calls + 1 \in Nat
  BY DEF ConnInv
<1>1. c \in Channels(conn) /\ c \in Nat /\ IsChannel(conn.channels[c], c)
  BY <1>0, CreatedChannels DEF Created, Channels, ConnType
<1>2. conn' = Give(conn, c, r)
  BY Zenon DEF CallPublish, Called
<1>3. frame \in AFrame
  <2>1. "BasicPublish" \in ChannelFrameNames
    BY DEF ChannelFrameNames
  <2> QED
    <3>1. IsFrame(frame, c)
      BY <1>0, <1>1, <2>1, OwnFrameTyped, Zenon
    <3> QED
      BY <3>1, Zenon DEF IsFrame
<1> HIDE DEF frame
<1>4. Sends(conn.channels[c], c, Taken(conn, frame), r)
  BY <1>0, <1>1, <1>3, TakenBoolean, PublishSends
<1> HIDE DEF r
<1>5. Stays(Give(conn, c, r), conn)
  BY <1>1, <1>3, <1>4, GiveStays
<1> QED
  BY <1>2, <1>5, Zenon

\* ack() and reject()
LEMMA CallSettleKeeps ==
    ASSUME ConnInv(conn), calls \in Nat, NEW c \in Created,
           NEW method \in DOMAIN SettleFrame, CallSettle(c, method)
    PROVE  Stays(conn', conn)
<1> DEFINE frame == Frame_(SettleFrame[method], c, calls + 1)
           r == Send(conn.channels[c], frame, Taken(conn, frame))
<1>0. ConnType(conn) /\ calls + 1 \in Nat
  BY DEF ConnInv
<1>1. c \in Channels(conn) /\ c \in Nat /\ IsChannel(conn.channels[c], c)
  BY <1>0, CreatedChannels DEF Created, Channels, ConnType
<1>2. conn' = Give(conn, c, r)
  BY Zenon DEF CallSettle, Called
<1>3. frame \in AFrame /\ frame \in FrameOf(c)
  <2>1. IsFrame(frame, c)
    BY <1>0, <1>1, MethodFrames, OwnFrameTyped, Zenon
  <2> QED
    BY <2>1, Zenon DEF IsFrame
<1> HIDE DEF frame
<1>4. Sends(conn.channels[c], c, Taken(conn, frame), r)
  BY <1>1, <1>3, TakenBoolean, SendSends
<1> HIDE DEF r
<1>5. Stays(Give(conn, c, r), conn)
  BY <1>1, <1>3, <1>4, GiveStays
<1> QED
  BY <1>2, <1>5, Zenon

\* close() of a channel, called by the application.
LEMMA CallCloseChannelKeeps ==
    ASSUME ConnInv(conn), calls \in Nat, NEW c \in Created,
           CallCloseChannel(c)
    PROVE  Stays(conn', conn)
<1> DEFINE frame == Frame_("ChannelClose", c, calls + 1)
           r == CloseChannel(conn.channels[c], frame, Taken(conn, frame))
<1>0. ConnType(conn) /\ calls + 1 \in Nat
  BY DEF ConnInv
<1>1. c \in Channels(conn) /\ c \in Nat /\ IsChannel(conn.channels[c], c)
  BY <1>0, CreatedChannels DEF Created, Channels, ConnType
<1>2. conn' = Give(conn, c, r)
  BY Zenon DEF CallCloseChannel, Called
<1>3. frame \in AFrame /\ frame \in FrameOf(c)
  <2>1. "ChannelClose" \in ChannelFrameNames
    BY DEF ChannelFrameNames
  <2> QED
    <3>1. IsFrame(frame, c)
      BY <1>0, <1>1, <2>1, OwnFrameTyped, Zenon
    <3> QED
      BY <3>1, Zenon DEF IsFrame
<1> HIDE DEF frame
<1>4. Sends(conn.channels[c], c, Taken(conn, frame), r)
  BY <1>1, <1>3, TakenBoolean, CloseChannelSends
<1> HIDE DEF r
<1>5. Stays(Give(conn, c, r), conn)
  BY <1>1, <1>3, <1>4, GiveStays
<1> QED
  BY <1>2, <1>5, Zenon

----------------------------------------------------------------------------
\* close() of the connection: what its channels send all waits in them.
InOrder(emitted, ch) == emitted \o ch.queue = ch.accepted

\* A channel that may send nothing keeps what it accepted.
LEMMA HeldBack ==
    ASSUME NEW c, NEW ch, IsChannel(ch, c), NEW r, Sends(ch, c, FALSE, r),
           NEW e \in Seq(FrameOf(c)), InOrder(e, ch)
    PROVE  InOrder(e, r.ch)
<1> DEFINE q == ch.queue
           q2 == r.ch.queue
<1>1. r.frames = <<>> /\ IsChannel(r.ch, c) /\ KeepsOrder(ch, c, r)
  BY DEF Sends, Leaves
<1>2. q \in Seq(FrameOf(c)) /\ q2 \in Seq(FrameOf(c))
  BY <1>1, ChannelFramesTyped
<1>3. PICK a \in Seq(FrameOf(c)) : /\ r.ch.accepted = ch.accepted \o a
                                   /\ r.frames \o q2 = q \o a
  BY <1>1 DEF KeepsOrder
<1>4. e \o q = ch.accepted
  BY DEF InOrder
<1> HIDE DEF q, q2
<1>5. <<>> \o q2 = q2
  BY <1>2, EmptyConcat
<1>6. q2 = q \o a
  BY <1>1, <1>3, <1>5, Zenon
<1>7. (e \o q) \o a = e \o (q \o a)
  <2>1. \A x, y, z \in Seq(FrameOf(c)) : (x \o y) \o z = x \o (y \o z)
    BY FramesAssociative, SMTT(30)
  <2> QED
    BY <1>2, <2>1, Zenon
<1>8. e \o q2 = r.ch.accepted
  BY <1>3, <1>4, <1>6, <1>7, Zenon
<1> QED
  BY <1>8, Zenon DEF InOrder, q2

\* The connection whose channels were closed.
ChannelsClosed(k, channels) ==
    [k EXCEPT !.closed = TRUE, !.channels = channels]

\* Its channels are in order and none is busier than before.
LEMMA ChannelsClosedKeeps ==
    ASSUME NEW k, ConnInv(k), NEW channels,
           channels = [c \in Channels(k) |-> channels[c]],
           \A c \in Channels(k) :
              IF c \in k.attached
              THEN \E r : channels[c] = r.ch
              /\ Sends(k.channels[c], c, FALSE, r)
              ELSE channels[c] = k.channels[c]
    PROVE  /\ ConnInv(ChannelsClosed(k, channels))
           /\ ChannelsClosed(k, channels).state = k.state
           /\ ChannelsClosed(k, channels).wire = k.wire
<1> DEFINE m == ChannelsClosed(k, channels)
<1>0. ConnType(k) /\ Order(k) /\ Quiet(k)
  BY DEF ConnInv
<1>1. m = [k EXCEPT !.closed = TRUE, !.channels = channels]
  BY DEF ChannelsClosed
<1> HIDE DEF m
<1>2. /\ m \in [state : {"protocol", "handshake", "connected", "closing", "closed"},
              closed : BOOLEAN, channels : {m.channels},
              attached : SUBSET Nat,
              nextFreeChannel : 1..(MaxChannels + 1), maxChannels : Nat,
              queue : Seq(AFrame), wire : Seq(AFrame), sent : Seq(AFrame),
              told : {m.told}]
      /\ m.state = k.state /\ m.attached = k.attached
      /\ m.nextFreeChannel = k.nextFreeChannel
      /\ m.channels = channels
      /\ m.sent = k.sent /\ m.queue = k.queue /\ m.wire = k.wire
  BY <1>0, <1>1 DEF ConnType
<1>3. Channels(m) = Channels(k) /\ k.attached \subseteq Channels(k)
  BY <1>0, <1>2 DEF Channels, ConnType
<1>4. \A c \in Channels(k) : IsChannel(k.channels[c], c)
  BY <1>0 DEF ConnType
<1>5. \A c \in Channels(k) : c \notin k.attached
      => channels[c] = k.channels[c]
  OBVIOUS
<1>6. \A c \in k.attached :
        \E r : channels[c] = r.ch /\ Sends(k.channels[c], c, FALSE, r)
  BY <1>3
<1>7. \A c \in k.attached :
        /\ IsChannel(channels[c], c)
        /\ (k.channels[c].state # "closed" => channels[c].state # "closed")
        /\ (~ Waiting(k.channels[c]) => ~ Waiting(channels[c]))
  <2> SUFFICES ASSUME NEW c \in k.attached
               PROVE  /\ IsChannel(channels[c], c)
                      /\ (k.channels[c].state # "closed"
                         => channels[c].state # "closed")
                      /\ (~ Waiting(k.channels[c]) => ~ Waiting(channels[c]))
    OBVIOUS
  <2>1. PICK r : channels[c] = r.ch /\ Sends(k.channels[c], c, FALSE, r)
    BY <1>6
  <2>2. /\ IsChannel(r.ch, c)
        /\ k.channels[c].state # "closed" => r.ch.state # "closed"
        /\ StaysQuiet(k.channels[c], r)
    BY <2>1 DEF Sends, Leaves, KeepsOrder
  <2> QED
    BY <2>1, <2>2, Zenon DEF StaysQuiet
<1>8. ConnType(m)
  <2>1. m.attached \subseteq Channels(m)
    BY <1>2, <1>3
  <2>2. m.channels = [c \in Channels(m) |-> m.channels[c]]
    BY <1>2, <1>3, Zenon
  <2>3. \A c \in Channels(m) : IsChannel(m.channels[c], c)
    <3> SUFFICES ASSUME NEW c \in Channels(k) PROVE IsChannel(channels[c], c)
      BY <1>2, <1>3, Zenon
    <3> QED
      BY <1>4, <1>5, <1>7, Zenon
  <2> QED
    BY <1>2, <2>1, <2>2, <2>3, Zenon DEF ConnType
<1>9. Order(m)
  <2> SUFFICES ASSUME NEW d \in Nat \ {0} PROVE OrderOf(m, d)
    BY DEF Order
  <2>1. OrderOf(k, d)
    BY <1>0 DEF Order
  <2>2. Emitted(m, d) = Emitted(k, d)
    BY <1>2, Zenon DEF Emitted
  <2>3. CASE d \notin k.attached
    BY <1>2, <1>3, <1>5, <2>1, <2>2, <2>3, Zenon DEF OrderOf
  <2>4. CASE d \in k.attached
    <3>1. k.channels[d].state # "closed"
          /\ Emitted(k, d) \o k.channels[d].queue = k.channels[d].accepted
      BY <2>1, <2>4, Zenon DEF OrderOf
    <3>2. InOrder(Emitted(k, d), k.channels[d])
      BY <3>1, Zenon DEF InOrder
    <3>3. PICK r : channels[d] = r.ch /\ Sends(k.channels[d], d, FALSE, r)
      BY <1>6, <2>4
    <3>4. IsChannel(k.channels[d], d) /\ Emitted(k, d) \in Seq(FrameOf(d))
      BY <1>0, <1>3, <1>4, <2>4, EmittedTyped
    <3>5. InOrder(Emitted(k, d), r.ch)
      BY <3>2, <3>3, <3>4, HeldBack, Zenon
    <3>6. Emitted(m, d) \o m.channels[d].queue = m.channels[d].accepted
      BY <1>2, <2>2, <3>3, <3>5, Zenon DEF InOrder
    <3>7. m.channels[d].state # "closed" /\ d \in m.attached
      BY <1>2, <1>7, <2>4, <3>1
    <3> QED
      BY <3>6, <3>7, Zenon DEF OrderOf
  <2> QED
    BY <2>3, <2>4
<1>10. Quiet(m)
  <2>1. k.state \in {"connected", "closing"} => m.queue = <<>>
    BY <1>0, <1>2 DEF Quiet
  <2>2. ASSUME k.state = "closing", NEW d \in k.attached
        PROVE  ~ Waiting(m.channels[d])
    <3>1. ~ Waiting(k.channels[d])
      BY <1>0, <2>2 DEF Quiet
    <3> QED
      BY <1>2, <1>7, <3>1, Zenon
  <2> QED
    BY <1>2, <2>1, <2>2 DEF Quiet
<1> QED
  BY <1>2, <1>8, <1>9, <1>10 DEF ConnInv, m

\* close() of the connection, called by the application.
LEMMA CallCloseKeeps ==
    ASSUME ConnInv(conn), calls \in Nat, CallClose
    PROVE  Stays(conn', conn)
<1> DEFINE closing(c) == CloseChannel(conn.channels[c],
                                      Frame_("ChannelClose", c, calls + 1),
                                      FALSE)
           channels == [c \in Channels(conn) |-> IF c \in conn.attached
                                                 THEN closing(c).ch
                                                 ELSE conn.channels[c]]
           k == ChannelsClosed(conn, channels)
<1>0. ConnType(conn) /\ Created = Channels(conn) /\ calls + 1 \in Nat
  BY CreatedChannels DEF ConnInv, Created
<1>1. conn' = IF k.state = "connected" /\ ~ AnyWaiting(k)
      THEN SendClose(k) ELSE k
  <2>1. k = [conn EXCEPT !.closed = TRUE,
                         !.channels = [c \in Created |-> IF c \in conn.attached
                                                         THEN closing(c).ch
                                                         ELSE conn.channels[c]]]
    BY <1>0, Zenon DEF ChannelsClosed
  <2> QED
    BY <2>1, Zenon DEF CallClose
<1>2. \A c \in Channels(conn) : channels[c] = IF c \in conn.attached
                                              THEN closing(c).ch
                                              ELSE conn.channels[c]
  BY Zenon
<1>3. channels = [c \in Channels(conn) |-> channels[c]]
  BY Zenon
<1>4. \A c \in conn.attached : Sends(conn.channels[c], c, FALSE, closing(c))
  <2> SUFFICES ASSUME NEW c \in conn.attached
               PROVE  Sends(conn.channels[c], c, FALSE, closing(c))
    OBVIOUS
  <2> DEFINE frame == Frame_("ChannelClose", c, calls + 1)
  <2>1. c \in Nat /\ IsChannel(conn.channels[c], c)
    BY <1>0 DEF ConnType, Channels
  <2>2. "ChannelClose" \in ChannelFrameNames
    BY DEF ChannelFrameNames
  <2>3. IsFrame(frame, c)
    BY <1>0, <2>1, <2>2, OwnFrameTyped, Zenon
  <2>4. frame \in FrameOf(c) /\ FALSE \in BOOLEAN
    BY <2>3, Zenon DEF IsFrame
  <2> HIDE DEF frame
  <2>5. Sends(conn.channels[c], c, FALSE, CloseChannel(conn.channels[c], frame, FALSE))
    BY <2>1, <2>4, CloseChannelSends
  <2> QED
    BY <2>5, Zenon DEF frame
<1> HIDE DEF closing, channels
<1>5. \A c \in Channels(conn) :
        IF c \in conn.attached
        THEN \E r : channels[c] = r.ch /\ Sends(conn.channels[c], c, FALSE, r)
        ELSE channels[c] = conn.channels[c]
  BY <1>2, <1>4, Zenon
<1>6. ConnInv(k) /\ k.state = conn.state /\ k.wire = conn.wire
  BY <1>3, <1>5, ChannelsClosedKeeps
<1> HIDE DEF k
<1>7. CASE k.state = "connected" /\ ~ AnyWaiting(k)
  <2>1. ConnInv(SendClose(k)) /\ SendClose(k).state = "closing"
    BY <1>6, <1>7, SendCloseKeeps
  <2> QED
    BY <1>1, <1>7, <2>1 DEF Stays, Early
<1>8. CASE ~ (k.state = "connected" /\ ~ AnyWaiting(k))
  <2>1. conn' = k
    BY <1>1, <1>8, Zenon
  <2> QED
    BY <1>6, <2>1, Zenon DEF Stays
<1> QED
  BY <1>7, <1>8

----------------------------------------------------------------------------
\* THE STEPS
LEMMA TailOf ==
    ASSUME NEW S, NEW s \in Seq(S), s # <<>>
    PROVE  /\ Tail(s) \in Seq(S) /\ Len(Tail(s)) = Len(s) - 1
              /\ Len(s) \in Nat \ {0}
           /\ \A n \in 1..(Len(s) - 1) : n + 1 \in 1..Len(s)
              /\ Tail(s)[n] = s[n + 1]
           /\ Head(s) = s[1] /\ Head(s) \in S
OBVIOUS

\* The elements of two sequences that are joined.
LEMMA ConcatOf ==
    ASSUME NEW S, NEW s \in Seq(S), NEW u \in Seq(S)
    PROVE  /\ s \o u \in Seq(S) /\ Len(s \o u) = Len(s) + Len(u)
           /\ Len(s) \in Nat /\ Len(u) \in Nat
           /\ \A n \in 1..Len(s) : (s \o u)[n] = s[n]
           /\ \A n \in 1..Len(u) : (s \o u)[Len(s) + n] = u[n]
           /\ \A n \in (Len(s) + 1)..(Len(s) + Len(u)) : (s \o u)[n] = u[n - Len(s)]
OBVIOUS

\* The parts of Inv that are about the frames on their way.
Zero(q) == \A n \in 1..Len(q) : q[n].channel = 0
Behind(q, g) ==
    \A n \in 1..Len(q) : q[n].name \in Ends =>
        /\ g
        /\ \A m \in (n + 1)..Len(q) : q[m].name = "ConnectionCloseOK"
AllOK(q) == \A n \in 1..Len(q) : q[n].name = "ConnectionCloseOK"

\* The invariant, with these names.
LEMMA InvParts ==
    /\ Inv <=> /\ ConnInv(conn) /\ ServerType
               /\ conn.state \in Early => /\ ZeroWire(conn) /\ Zero(toClient)
                                          /\ \A c \in Ids : server[c] = "closed"
               /\ Behind(toClient, gone)
               /\ conn.state = "closed" => batch = 0 \/ (gone
                  /\ AllOK(toClient))
BY Zenon DEF Inv, Handshake, NothingBehind, NothingLeft, Early, ZeroWire,
   Zero,
             Behind, AllOK

\* The same, of the next state.
LEMMA InvPartsNext ==
    /\ Inv' <=> /\ ConnInv(conn') /\ ServerType'
                /\ conn'.state \in Early => /\ ZeroWire(conn')
                                               /\ Zero(toClient')
                                            /\ \A c \in Ids : server'[c] = "closed"
                /\ Behind(toClient', gone')
                /\ conn'.state = "closed" => batch' = 0 \/ (gone'
                   /\ AllOK(toClient'))
BY Zenon DEF Inv, Handshake, NothingBehind, NothingLeft, Early, ZeroWire,
   Zero,
             Behind, AllOK

\* A call of the application.
LEMMA CallInv ==
    ASSUME Inv, Stays(conn', conn), calls' \in Nat,
           UNCHANGED <<toClient, batch, partial, serverVars>>
    PROVE  Inv'
<1>1. /\ toClient' = toClient /\ batch' = batch /\ partial' = partial
      /\ server' = server /\ gone' = gone /\ events' = events
  BY DEF serverVars
<1>2. ServerType'
  BY <1>1, Zenon DEF Inv, ServerType
<1>3. conn'.state \in Early => ZeroWire(conn')
  BY InvParts, Zenon DEF Stays, ZeroWire
<1> QED
  BY <1>1, <1>2, <1>3, InvParts, InvPartsNext, Zenon DEF Stays

\* parse() is given a buffer.
LEMMA ParseInv ==
    ASSUME Inv, Parse
    PROVE  Inv'
<1>1. /\ conn' = conn /\ toClient' = toClient /\ calls' = calls
      /\ server' = server /\ gone' = gone /\ events' = events
      /\ conn.state # "closed"
  BY DEF Parse, serverVars
<1>2. batch' \in 0..Len(toClient) /\ partial' \in BOOLEAN
  <2>1. PICK n \in 1..Len(toClient), p \in BOOLEAN : batch' = n
        /\ partial' = p
    BY DEF Parse
  <2>2. n \in 0..Len(toClient)
    <3> HIDE DEF ToClient
    <3>1. Len(toClient) \in Nat
      BY DEF Inv, ServerType
    <3> QED
      BY <2>1, <3>1
  <2> QED
    BY <2>1, <2>2
<1>3. ServerType'
  BY <1>1, <1>2, Zenon DEF Inv, ServerType
<1> QED
  BY <1>1, <1>3, InvParts, InvPartsNext, Zenon

\* What a frame that parse() processes leaves of the connection.
LEMMA FrameProcessed ==
    ASSUME Inv, ParseFrame
    PROVE  /\ toClient # <<>> /\ Head(toClient) \in ToClient
           /\ Processed(conn', conn, Head(toClient))
<1> DEFINE frame == Head(toClient)
           k == Process(conn, frame)
<1>0. /\ toClient \in Seq(ToClient) /\ batch \in 0..Len(toClient) /\ batch > 0
      /\ ConnInv(conn)
  BY DEF Inv, ServerType, ParseFrame
<1>1. toClient # <<>> /\ frame = toClient[1] /\ frame \in ToClient
      /\ 1 \in 1..Len(toClient)
  <2> HIDE DEF ToClient
  <2>1. Len(toClient) \in Nat /\ Len(toClient) > 0
    BY <1>0
  <2>2. toClient # <<>>
    BY <2>1
  <2>3. frame = toClient[1] /\ frame \in ToClient
    BY <1>0, <2>2, TailOf
  <2> QED
    BY <2>1, <2>2, <2>3
<1>2. conn' = IF batch = 1 /\ ~partial THEN EndOfParse(k) ELSE k
  BY Zenon DEF ParseFrame
<1>3. conn.state \in Early => frame.channel = 0
  BY <1>1, InvParts, Zenon DEF Zero
<1>4. conn.state = "closed" => frame.name = "ConnectionCloseOK"
  <2>1. batch # 0
    BY <1>0
  <2> QED
    BY <1>1, <2>1, InvParts, Zenon DEF AllOK
<1> HIDE DEF frame
<1>5. Processed(k, conn, frame)
  BY <1>0, <1>1, <1>3, <1>4, ProcessKeeps
<1> HIDE DEF k
<1>6. ConnInv(k)
  BY <1>5 DEF Processed
<1>7. Processed(EndOfParse(k), conn, frame)
  <2>1. CASE k.closed /\ k.state = "connected" /\ ~ AnyWaiting(k)
    <3>1. ConnInv(SendClose(k)) /\ SendClose(k).state = "closing"
      BY <1>6, <2>1, SendCloseKeeps
    <3>2. EndOfParse(k) = SendClose(k)
      BY <2>1, Zenon DEF EndOfParse
    <3> QED
      BY <3>1, <3>2 DEF Processed, Early
  <2>2. CASE ~ (k.closed /\ k.state = "connected" /\ ~ AnyWaiting(k))
    <3>1. EndOfParse(k) = k
      BY <2>2, Zenon DEF EndOfParse
    <3> QED
      BY <1>5, <3>1, Zenon
  <2> QED
    BY <2>1, <2>2
<1>8. Processed(conn', conn, frame)
  BY <1>2, <1>5, <1>7, Zenon
<1> QED
  BY <1>1, <1>8 DEF frame

\* What a frame leaves behind it.
LEMMA BehindTail ==
    ASSUME NEW q \in Seq(ToClient), q # <<>>, NEW g, Behind(q, g)
    PROVE  /\ Behind(Tail(q), g)
           /\ Zero(q) => Zero(Tail(q))
           /\ AllOK(q) => AllOK(Tail(q))
           /\ Head(q).name \in Ends => g /\ AllOK(Tail(q))
<1> DEFINE t == Tail(q)
<1>1. /\ t \in Seq(ToClient) /\ Len(t) = Len(q) - 1 /\ Len(q) \in Nat \ {0}
      /\ \A n \in 1..(Len(q) - 1) : n + 1 \in 1..Len(q) /\ t[n] = q[n + 1]
      /\ Head(q) = q[1]
  BY TailOf
<1> HIDE DEF t, ToClient
<1>2. \A n \in 1..Len(t) : n + 1 \in 1..Len(q) /\ t[n] = q[n + 1]
  BY <1>1
<1>3. Behind(t, g)
  <2> SUFFICES ASSUME NEW n \in 1..Len(t), t[n].name \in Ends
               PROVE  g /\ \A m \in (n + 1)..Len(t) : t[m].name = "ConnectionCloseOK"
    BY Zenon DEF Behind
  <2>1. n + 1 \in 1..Len(q) /\ q[n + 1].name \in Ends
    BY <1>2
  <2>2. g /\ \A m \in (n + 1 + 1)..Len(q) : q[m].name = "ConnectionCloseOK"
    BY <2>1, Zenon DEF Behind
  <2>3. ASSUME NEW m \in (n + 1)..Len(t) PROVE t[m].name = "ConnectionCloseOK"
    <3>1. m + 1 \in (n + 1 + 1)..Len(q) /\ m \in 1..Len(t)
      BY <1>1
    <3> QED
      BY <1>2, <2>2, <3>1, Zenon
  <2> QED
    BY <2>2, <2>3
<1>4. Zero(q) => Zero(t)
  BY <1>2, Zenon DEF Zero
<1>5. AllOK(q) => AllOK(t)
  BY <1>2, Zenon DEF AllOK
<1>6. Head(q).name \in Ends => g /\ AllOK(t)
  <2> SUFFICES ASSUME q[1].name \in Ends PROVE g /\ AllOK(t)
    BY <1>1
  <2>1. 1 \in 1..Len(q)
    BY <1>1
  <2>2. g /\ \A m \in (1 + 1)..Len(q) : q[m].name = "ConnectionCloseOK"
    BY <2>1, Zenon DEF Behind
  <2>3. \A m \in 1..Len(t) : m + 1 \in (1 + 1)..Len(q)
    BY <1>1
  <2>4. \A m \in 1..Len(t) : t[m].name = "ConnectionCloseOK"
    BY <1>2, <2>2, <2>3, Zenon
  <2> QED
    BY <2>2, <2>4 DEF AllOK
<1> QED
  BY <1>3, <1>4, <1>5, <1>6 DEF t

\* parse() processes a frame.
LEMMA ParseFrameInv ==
    ASSUME Inv, ParseFrame
    PROVE  Inv'
<1> DEFINE frame == Head(toClient)
<1>0. /\ toClient \in Seq(ToClient) /\ batch \in 0..Len(toClient) /\ batch > 0
      /\ Behind(toClient, gone)
  BY InvParts DEF ServerType, ParseFrame
<1>1. toClient # <<>> /\ Processed(conn', conn, frame)
  BY FrameProcessed
<1>2. /\ toClient' = Tail(toClient) /\ partial' = partial /\ calls' = calls
      /\ server' = server /\ gone' = gone /\ events' = events
      /\ batch' = IF Frames[frame.name].process = "unimplemented" THEN 0
         ELSE batch - 1
  BY Zenon DEF ParseFrame, serverVars
<1>3. /\ Behind(Tail(toClient), gone)
      /\ Zero(toClient) => Zero(Tail(toClient))
      /\ AllOK(toClient) => AllOK(Tail(toClient))
      /\ frame.name \in Ends => gone /\ AllOK(Tail(toClient))
  BY <1>0, <1>1, BehindTail, Zenon
<1> HIDE DEF frame
<1>4. ServerType'
  <2>1. Tail(toClient) \in Seq(ToClient)
        /\ Len(Tail(toClient)) = Len(toClient) - 1
        /\ Len(toClient) \in Nat \ {0}
    BY <1>0, <1>1, TailOf
  <2>2. 0 \in 0..Len(Tail(toClient)) /\ batch - 1 \in 0..Len(Tail(toClient))
    <3> HIDE DEF ToClient
    <3> QED
      BY <1>0, <2>1
  <2> QED
    BY <1>2, <2>1, <2>2, Zenon DEF Inv, ServerType
<1>5. conn'.state \in Early => /\ ZeroWire(conn') /\ Zero(toClient')
                               /\ \A c \in Ids : server'[c] = "closed"
  BY <1>1, <1>2, <1>3, InvParts, Zenon DEF Processed
<1>6. conn'.state = "closed" => batch' = 0 \/ (gone' /\ AllOK(toClient'))
  <2>1. CASE conn.state = "closed"
    <3>1. batch # 0
      BY <1>0
    <3> QED
      BY <1>2, <1>3, <2>1, <3>1, InvParts, Zenon
  <2>2. CASE frame.name \in Ends
    BY <1>2, <1>3, <2>2, Zenon
  <2>3. CASE frame.name = "ChannelFlow"
    BY <1>2, <2>3, ConnectionFrames
  <2> QED
    BY <1>1, <2>1, <2>2, <2>3 DEF Processed
<1> QED
  BY <1>1, <1>2, <1>3, <1>4, <1>5, <1>6, InvPartsNext, Zenon DEF Processed

----------------------------------------------------------------------------
\* THE SERVER
\* What the server says in a step: nothing, answers and messages before the
\* end, or one of the two closes of the connection.
Says(new, g, h) ==
    \/ new = <<>>
    \/ ~ g /\ \A n \in 1..Len(new) : new[n].name \notin Ends
    \/ /\ Len(new) = 1 /\ h
       /\ \/ new[1].name = "ConnectionCloseOK"
          \/ ~ g /\ new[1].name = "ConnectionClose"

SaysAfter(q, new, g, h) ==
    /\ Behind(q \o new, h)
    /\ Zero(q) /\ Zero(new) => Zero(q \o new)
    /\ g /\ AllOK(q) => AllOK(q \o new)

\* What the server says keeps the closes at the end.
LEMMA BehindConcat ==
    ASSUME NEW q \in Seq(ToClient), NEW new \in Seq(ToClient), NEW g, NEW h,
           Behind(q, g), g => h, Says(new, g, h)
    PROVE  SaysAfter(q, new, g, h)
<1> DEFINE t == q \o new
<1>1. /\ t \in Seq(ToClient) /\ Len(t) = Len(q) + Len(new)
      /\ Len(q) \in Nat /\ Len(new) \in Nat
      /\ \A n \in 1..Len(q) : t[n] = q[n]
      /\ \A n \in (Len(q) + 1)..(Len(q) + Len(new)) : t[n] = new[n - Len(q)]
  BY ConcatOf
<1> HIDE DEF t, ToClient
<1>2. \A n \in 1..Len(t) : \/ n \in 1..Len(q) /\ t[n] = q[n]
                           \/ n - Len(q) \in 1..Len(new)
                              /\ t[n] = new[n - Len(q)]
  BY <1>1
<1>3. Zero(q) /\ Zero(new) => Zero(t)
  BY <1>2, Zenon DEF Zero
<1>4. new = <<>> => Len(new) = 0
  OBVIOUS
<1>5. g => \A n \in 1..Len(new) : new[n].name = "ConnectionCloseOK"
  BY <1>4 DEF Says
<1>6. g /\ AllOK(q) => AllOK(t)
  BY <1>2, <1>5, Zenon DEF AllOK
<1>7. Behind(t, h)
  <2> SUFFICES ASSUME NEW n \in 1..Len(t), t[n].name \in Ends
               PROVE  h /\ \A m \in (n + 1)..Len(t) : t[m].name = "ConnectionCloseOK"
    BY Zenon DEF Behind
  <2>1. CASE n \in 1..Len(q) /\ t[n] = q[n]
    <3>1. g /\ \A m \in (n + 1)..Len(q) : q[m].name = "ConnectionCloseOK"
      BY <2>1, Zenon DEF Behind
    <3>2. ASSUME NEW m \in (n + 1)..Len(t)
                 PROVE t[m].name = "ConnectionCloseOK"
      <4>1. m \in 1..Len(t) /\ (m \in 1..Len(q) => m \in (n + 1)..Len(q))
        BY <1>1
      <4> QED
        BY <1>2, <1>5, <3>1, <4>1, Zenon
    <3> QED
      BY <3>1, <3>2
  <2>2. CASE n - Len(q) \in 1..Len(new) /\ t[n] = new[n - Len(q)]
    <3>1. Len(new) = 1 /\ h
      BY <1>4, <2>2 DEF Says
    <3>2. n = Len(t)
      BY <1>1, <2>2, <3>1
    <3>3. \A m \in (n + 1)..Len(t) : FALSE
      BY <1>1, <3>2
    <3> QED
      BY <3>1, <3>3
  <2> QED
    BY <1>2, <2>1, <2>2
<1> QED
  BY <1>3, <1>6, <1>7 DEF SaysAfter, t

\* The connection of which the server has read a frame.
LEMMA ReadFrameKeeps ==
    ASSUME NEW k, ConnInv(k), k.wire # <<>>, NEW m,
           m = [k EXCEPT !.wire = Tail(@)]
    PROVE  /\ ConnInv(m) /\ m.state = k.state
           /\ ZeroWire(k) => ZeroWire(m)
<1> DEFINE wire == Tail(k.wire)
<1>0. ConnType(k) /\ k.wire \in Seq(AFrame) /\ k.sent \in Seq(AFrame)
      /\ k.queue \in Seq(AFrame)
  BY ConnFields DEF ConnInv
<1>1. /\ wire \in Seq(AFrame) /\ Len(wire) = Len(k.wire) - 1
      /\ \A n \in 1..(Len(k.wire) - 1) : n + 1 \in 1..Len(k.wire)
         /\ wire[n] = k.wire[n + 1]
  BY <1>0, TailOf
<1>2. m = Reframed(k, wire, k.sent, k.queue)
  BY <1>0 DEF ConnType, Reframed
<1> HIDE DEF wire
<1>3. HasFrames(m, k, wire, k.sent, k.queue)
  <2>1. HasFrames(Reframed(k, wire, k.sent, k.queue), k, wire, k.sent, k.queue)
    BY <1>0, <1>1, WithFramesTyped, Zenon
  <2> QED
    BY <1>2, <2>1, Zenon
<1>4. /\ ConnType(m) /\ m.state = k.state /\ SameChannels(k, m)
      /\ m.wire = wire /\ m.sent = k.sent /\ m.queue = k.queue
  BY <1>3, Zenon DEF HasFrames
<1>5. Order(m)
  BY <1>4, SameEmitted, SameOrderKeeps DEF ConnInv
<1>6. Quiet(m)
  BY <1>4, Zenon DEF ConnInv, Quiet, SameChannels
<1>7. ZeroWire(k) => ZeroWire(m)
  <2>1. \A n \in 1..Len(wire) : n + 1 \in 1..Len(k.wire)
        /\ wire[n] = k.wire[n + 1]
    BY <1>1
  <2> QED
    BY <1>4, <2>1, Zenon DEF ZeroWire
<1> QED
  BY <1>4, <1>5, <1>6, <1>7 DEF ConnInv

\* A step of the server in which it says new.
LEMMA ServerInv ==
    ASSUME Inv,
           conn' = conn \/ (conn.wire # <<>> /\ ReadFrame),
           NEW new \in Seq(ToClient), toClient' = toClient \o new,
           batch' = batch, partial' = partial, calls' = calls,
           events' \in Nat,
           gone' \in BOOLEAN, gone => gone', Says(new, gone, gone'),
           server' \in [Ids \cup {0} -> {"open", "closed", "closing"}],
           conn.state \in Early =>
               Zero(new) /\ \A c \in Ids : server'[c] = "closed"
    PROVE  Inv'
<1>0. toClient \in Seq(ToClient) /\ batch \in 0..Len(toClient)
      /\ ConnInv(conn)
      /\ Behind(toClient, gone)
  BY InvParts DEF ServerType
<1>1. /\ ConnInv(conn') /\ conn'.state = conn.state
      /\ ZeroWire(conn) => ZeroWire(conn')
  <2>1. CASE conn' = conn
    BY <1>0, <2>1, Zenon DEF ZeroWire
  <2>2. CASE conn.wire # <<>> /\ ReadFrame
    BY <1>0, <2>2, ReadFrameKeeps DEF ReadFrame
  <2> QED
    BY <2>1, <2>2
<1>2. /\ Behind(toClient', gone')
      /\ Zero(toClient) /\ Zero(new) => Zero(toClient')
      /\ gone /\ AllOK(toClient) => AllOK(toClient')
  <2>1. SaysAfter(toClient, new, gone, gone')
    BY <1>0, BehindConcat, Zenon
  <2> QED
    BY <2>1, Zenon DEF SaysAfter
<1>3. ServerType'
  <2>1. /\ toClient' \in Seq(ToClient)
           /\ Len(toClient') = Len(toClient) + Len(new)
        /\ Len(toClient) \in Nat /\ Len(new) \in Nat
    BY <1>0, ConcatOf
  <2>2. batch \in 0..Len(toClient')
    <3> HIDE DEF ToClient
    <3> QED
      BY <1>0, <2>1
  <2> QED
    BY <2>1, <2>2, Zenon DEF Inv, ServerType
<1>4. conn'.state \in Early => /\ ZeroWire(conn') /\ Zero(toClient')
                               /\ \A c \in Ids : server'[c] = "closed"
  BY <1>1, <1>2, InvParts, Zenon
<1>5. conn'.state = "closed" => batch' = 0 \/ (gone' /\ AllOK(toClient'))
  BY <1>1, <1>2, InvParts, Zenon
<1> QED
  BY <1>1, <1>2, <1>3, <1>4, <1>5, InvPartsNext, Zenon

----------------------------------------------------------------------------
\* A frame as the server sends it.
SaidNames == ServerNames \ {"BasicHeader", "Body", "Heartbeat"}

\* Such a frame is one of the server.
LEMMA SaidTyped ==
    ASSUME NEW name \in SaidNames, NEW c \in Nat, NEW id \in Nat
    PROVE  /\ Frame_(name, c, id) \in ToClient
           /\ Frame_(name, c, id).name = name
              /\ Frame_(name, c, id).channel = c
<1>1. Frame_(name, c, id).name = name /\ Frame_(name, c, id).channel = c
  BY DEF Frame_
<1>2. Frame_(name, c, id) \in [name : SaidNames, channel : Nat, id : Nat]
  BY DEF Frame_
<1>3. Frame_(name, c, id) \in ToClient
  BY <1>2, Zenon DEF ToClient, SaidNames
<1> QED
  BY <1>1, <1>3

\* The answers are such frames, and none is the end.
LEMMA Replies ==
    \A name \in DOMAIN Reply : Reply[name] \in SaidNames \ Ends
<1> DEFINE names == {"ConnectionStart", "ConnectionTune", "ConnectionOpenOK",
                     "ChannelOpenOK", "BasicRecoverOK"} \cup SuccessNames
<1>1. \A name \in DOMAIN Reply : Reply[name] \in names
  BY DEF Reply, SuccessNames
<1>2. names \subseteq SaidNames \ Ends
  BY DEF SaidNames, ServerNames, ConnectionNames, ChannelNames, SuccessNames,
     Ends
<1> QED
  BY <1>1, <1>2

\* So are the closes.
LEMMA ClosesSaid ==
    /\ {"ConnectionClose", "ConnectionCloseOK"} \subseteq SaidNames
    /\ {"ChannelClose", "ChannelCloseOK", "ChannelFlow"} \subseteq SaidNames \ Ends
BY DEF SaidNames, ServerNames, ConnectionNames, ChannelNames, SuccessNames,
   Ends

\* One frame more on its way.
OneMore(q, x) ==
    /\ Append(q, x) = q \o <<x>> /\ <<x>> \in Seq(ToClient)
    /\ Len(<<x>>) = 1 /\ <<x>>[1] = x
    /\ \A n \in 1..Len(<<x>>) : <<x>>[n] = x

\* Append joins one frame.
LEMMA FrameAppended ==
    ASSUME NEW q \in Seq(ToClient), NEW x \in ToClient
    PROVE  OneMore(q, x)
<1> HIDE DEF ToClient
<1>1. Append(q, x) = q \o <<x>> /\ <<x>> \in Seq(ToClient)
      /\ Len(<<x>>) = 1 /\ <<x>>[1] = x
      /\ \A n \in 1..Len(<<x>>) : <<x>>[n] = x
  OBVIOUS
<1> QED
  BY <1>1 DEF OneMore

NothingMore(q) == q \o <<>> = q /\ <<>> \in Seq(ToClient) /\ Zero(<<>>)

\* Nothing is said.
LEMMA EmptyIsNothing ==
    ASSUME NEW q \in Seq(ToClient)
    PROVE  NothingMore(q)
<1> HIDE DEF ToClient
<1>1. q \o <<>> = q /\ <<>> \in Seq(ToClient) /\ Len(<<>>) = 0
  OBVIOUS
<1> QED
  BY <1>1 DEF NothingMore, Zero

\* A step of the server in which it says one frame, and one in which it says
\* nothing.
LEMMA OneSaidInv ==
    ASSUME Inv,
           conn' = conn \/ (conn.wire # <<>> /\ ReadFrame),
           NEW x \in ToClient, toClient' = Append(toClient, x),
           batch' = batch, partial' = partial, calls' = calls,
           events' \in Nat,
           gone' \in BOOLEAN, gone => gone',
           \/ ~ gone /\ x.name \notin Ends
           \/ gone' /\ x.name = "ConnectionCloseOK"
           \/ gone' /\ ~ gone /\ x.name = "ConnectionClose",
           server' \in [Ids \cup {0} -> {"open", "closed", "closing"}],
           conn.state \in Early =>
               x.channel = 0 /\ \A c \in Ids : server'[c] = "closed"
    PROVE  Inv'
<1> DEFINE new == <<x>>
<1>0. toClient \in Seq(ToClient)
  BY DEF Inv, ServerType
<1>1. OneMore(toClient, x)
  BY <1>0, FrameAppended
<1>2. /\ toClient' = toClient \o new /\ new \in Seq(ToClient)
      /\ Len(new) = 1 /\ new[1] = x /\ \A n \in 1..Len(new) : new[n] = x
  BY <1>1, Zenon DEF OneMore
<1> HIDE DEF new
<1>3. Says(new, gone, gone')
  BY <1>2, Zenon DEF Says
<1>4. conn.state \in Early => Zero(new)
      /\ \A c \in Ids : server'[c] = "closed"
  BY <1>2, Zenon DEF Zero
<1> QED
  BY <1>2, <1>3, <1>4, ServerInv, Zenon

\* A step of the server in which it says nothing.
LEMMA NothingSaidInv ==
    ASSUME Inv,
           conn' = conn \/ (conn.wire # <<>> /\ ReadFrame),
           toClient' = toClient,
           batch' = batch, partial' = partial, calls' = calls,
           events' \in Nat,
           gone' = gone,
           server' \in [Ids \cup {0} -> {"open", "closed", "closing"}],
           conn.state \in Early => \A c \in Ids : server'[c] = "closed"
    PROVE  Inv'
<1> DEFINE new == <<>>
<1>0. toClient \in Seq(ToClient) /\ gone \in BOOLEAN
  BY DEF Inv, ServerType
<1>1. NothingMore(toClient)
  BY <1>0, EmptyIsNothing
<1>2. toClient' = toClient \o new /\ new \in Seq(ToClient) /\ Zero(new)
  BY <1>1, Zenon DEF NothingMore
<1>3. Says(new, gone, gone')
  BY Zenon DEF Says
<1>4. gone' \in BOOLEAN /\ (gone => gone')
  BY <1>0, Zenon
<1>5. conn.state \in Early => Zero(new)
      /\ \A c \in Ids : server'[c] = "closed"
  BY <1>2, Zenon
<1> HIDE DEF new
<1> QED
  BY <1>2, <1>3, <1>4, <1>5, ServerInv, Zenon

\* The frame that the server reads.
LEMMA ReadTyped ==
    ASSUME Inv, conn.wire # <<>>
    PROVE  /\ NextFrame \in AFrame /\ NextFrame.channel \in Nat
              /\ NextFrame.id \in Nat
           /\ conn.state \in Early => NextFrame.channel = 0
<1>1. conn.wire \in Seq(AFrame)
  BY ConnFields DEF Inv, ConnInv
<1>2. NextFrame = conn.wire[1] /\ NextFrame \in AFrame
      /\ Len(conn.wire) \in Nat \ {0}
  BY <1>1, TailOf DEF NextFrame
<1>3. 1 \in 1..Len(conn.wire)
  BY <1>2
<1>4. conn.state \in Early => NextFrame.channel = 0
  BY <1>2, <1>3, InvParts, Zenon DEF ZeroWire
<1> QED
  BY <1>2, <1>4 DEF AFrame

\* What the server notes of a channel; itself has no channel.
LEMMA ServerNotes ==
    ASSUME Inv, NEW c \in Nat, NEW state \in {"open", "closed"}
    PROVE  /\ [server EXCEPT ![c] = state]
                  \in [Ids \cup {0} -> {"open", "closed", "closing"}]
           /\ c = 0
              => \A d \in Ids : [server EXCEPT ![c] = state][d] = server[d]
<1>1. server \in [Ids \cup {0} -> {"open", "closed", "closing"}]
  BY DEF Inv, ServerType
<1>2. \A d \in Ids : d # 0
  BY ParametersAssumption DEF Ids
<1> QED
  BY <1>1, <1>2

----------------------------------------------------------------------------
\* The server answers a frame.
LEMMA ServerAnswersInv ==
    ASSUME Inv, ServerAnswers
    PROVE  Inv'
<1> DEFINE frame == NextFrame
           c == frame.channel
           x == Frame_(Reply[frame.name], c, frame.id)
<1>0. /\ server \in [Ids \cup {0} -> {"open", "closed", "closing"}]
      /\ gone \in BOOLEAN /\ events \in Nat
      /\ conn.state \in Early => \A d \in Ids : server[d] = "closed"
  BY InvParts DEF ServerType
<1>1. /\ conn.wire # <<>> /\ ~ gone /\ ReadFrame
      /\ batch' = batch /\ partial' = partial /\ calls' = calls
      /\ events' = events /\ gone' = gone
  BY DEF ServerAnswers
<1>2. /\ toClient' = IF frame.name \in DOMAIN Reply
         THEN Append(toClient, x) ELSE toClient
      /\ server' = IF frame.name = "ChannelOpen"
                   THEN [server EXCEPT ![c] = "open"] ELSE server
  BY Zenon DEF ServerAnswers
<1>3. c \in Nat /\ frame.id \in Nat /\ (conn.state \in Early => c = 0)
  BY <1>1, ReadTyped
<1> HIDE DEF c
<1>4. /\ server' \in [Ids \cup {0} -> {"open", "closed", "closing"}]
      /\ conn.state \in Early => \A d \in Ids : server'[d] = "closed"
  <2>1. "open" \in {"open", "closed"}
    OBVIOUS
  <2>2. /\ [server EXCEPT ![c] = "open"]
              \in [Ids \cup {0} -> {"open", "closed", "closing"}]
        /\ c = 0
           => \A d \in Ids : [server EXCEPT ![c] = "open"][d] = server[d]
    BY <1>3, <2>1, ServerNotes
  <2> QED
    BY <1>0, <1>2, <1>3, <2>2, Zenon
<1>5. CASE frame.name \in DOMAIN Reply
  <2>1. Reply[frame.name] \in SaidNames /\ Reply[frame.name] \notin Ends
    BY <1>5, Replies
  <2>2. x \in ToClient /\ x.name \notin Ends /\ x.channel = c
    BY <1>3, <2>1, SaidTyped
  <2>3. toClient' = Append(toClient, x)
    BY <1>2, <1>5, Zenon
  <2> HIDE DEF x
  <2> QED
    BY <1>0, <1>1, <1>3, <1>4, <2>2, <2>3, OneSaidInv, Zenon
<1>6. CASE frame.name \notin DOMAIN Reply
  <2>1. toClient' = toClient
    BY <1>2, <1>6, Zenon
  <2> QED
    BY <1>0, <1>1, <1>4, <2>1, NothingSaidInv, Zenon
<1> QED
  BY <1>5, <1>6

\* A message of the server.
ContentSaid(new, c) ==
    /\ new \in Seq(ToClient)
    /\ \A n \in 1..Len(new) : new[n].channel = c /\ new[n].name \notin Ends

\* Its frames are of the channel and none is the end.
LEMMA ContentTyped ==
    ASSUME NEW name \in {"BasicGetOK", "BasicDeliver"}, NEW c \in Nat,
           NEW id \in Nat,
           NEW n \in Nat
    PROVE  ContentSaid(Content(name, c, id, n), c)
<1> DEFINE x == Frame_(name, c, id)
           header == [name |-> "BasicHeader", channel |-> c, id |-> id, size |-> n]
           body == [name |-> "Body", channel |-> c, id |-> id, size |-> 1]
           first == <<x, header>>
           parts == [m \in 1..n |-> body]
           Part == {y \in ToClient : y.channel = c /\ y.name \notin Ends}
<1>1. name \in SaidNames /\ name \notin Ends
  BY DEF SaidNames, ServerNames, ConnectionNames, ChannelNames, SuccessNames,
     Ends
<1>2. x \in ToClient /\ x.channel = c /\ x.name \notin Ends
  BY <1>1, SaidTyped
<1>3. header \in ToClient /\ header.channel = c /\ header.name \notin Ends
  BY DEF ToClient, Ends
<1>4. body \in ToClient /\ body.channel = c /\ body.name \notin Ends
  BY DEF ToClient, Ends
<1>5. Content(name, c, id, n) = first \o parts
  BY Zenon DEF Content
<1> HIDE DEF x, header, body
<1>6. x \in Part /\ header \in Part /\ body \in Part
  BY <1>2, <1>3, <1>4
<1> HIDE DEF Part
<1>7. first \in Seq(Part) /\ parts \in Seq(Part)
  BY <1>6
<1> HIDE DEF first, parts
<1>8. first \o parts \in Seq(Part)
  BY <1>7
<1> DEFINE new == first \o parts
<1> HIDE DEF new
<1>9. new \in Seq(Part)
  BY <1>8 DEF new
<1>10. \A m \in 1..Len(new) : new[m] \in Part
  BY <1>9
<1>11. new \in Seq(ToClient)
  <2>1. Part \subseteq ToClient
    BY DEF Part
  <2> HIDE DEF Part, ToClient
  <2>2. \A m \in 1..Len(new) : new[m] \in ToClient
    BY <1>10, <2>1
  <2>3. Len(new) \in Nat /\ new = [m \in 1..Len(new) |-> new[m]]
    BY <1>9
  <2> QED
    BY <2>2, <2>3
<1>12. \A m \in 1..Len(new) : new[m].channel = c /\ new[m].name \notin Ends
  BY <1>10, Zenon DEF Part
<1> QED
  BY <1>5, <1>11, <1>12, Zenon DEF ContentSaid, new

\* The server answers a get with a message.
LEMMA ServerGetsInv ==
    ASSUME Inv, ServerGets
    PROVE  Inv'
<1> DEFINE c == NextFrame.channel
<1>0. /\ server \in [Ids \cup {0} -> {"open", "closed", "closing"}]
      /\ gone \in BOOLEAN /\ events \in Nat
      /\ conn.state \in Early => \A d \in Ids : server[d] = "closed"
  BY InvParts DEF ServerType
<1>1. /\ conn.wire # <<>> /\ ~ gone /\ ReadFrame
      /\ batch' = batch /\ partial' = partial /\ calls' = calls
      /\ events' = events + 1 /\ gone' = gone /\ server' = server
  BY DEF ServerGets
<1>2. PICK n \in 0..2 :
        toClient' = toClient \o Content("BasicGetOK", c, events + 1, n)
  BY Zenon DEF ServerGets
<1>3. c \in Nat /\ (conn.state \in Early => c = 0)
  BY <1>1, ReadTyped
<1> HIDE DEF c
<1>4. events + 1 \in Nat /\ n \in Nat /\ events' \in Nat
  BY <1>0, <1>1
<1> DEFINE new == Content("BasicGetOK", c, events + 1, n)
<1>5. ContentSaid(new, c)
  BY <1>3, <1>4, ContentTyped
<1> HIDE DEF new
<1>6. /\ toClient' = toClient \o new /\ new \in Seq(ToClient)
      /\ \A i \in 1..Len(new) : new[i].channel = c /\ new[i].name \notin Ends
  BY <1>2, <1>5, Zenon DEF ContentSaid, new
<1>7. Says(new, gone, gone') /\ (conn.state \in Early => Zero(new))
  BY <1>1, <1>3, <1>6, Zenon DEF Says, Zero
<1> QED
  BY <1>0, <1>1, <1>4, <1>6, <1>7, ServerInv, Zenon

\* The server answers a close, or drops what comes behind its own.
LEMMA ServerClosesInv ==
    ASSUME Inv, ServerCloses
    PROVE  Inv'
<1> DEFINE frame == NextFrame
           c == frame.channel
<1>0. /\ server \in [Ids \cup {0} -> {"open", "closed", "closing"}]
      /\ gone \in BOOLEAN /\ events \in Nat
      /\ conn.state \in Early => \A d \in Ids : server[d] = "closed"
  BY InvParts DEF ServerType
<1>1. /\ conn.wire # <<>> /\ ReadFrame
      /\ batch' = batch /\ partial' = partial /\ calls' = calls
         /\ events' = events
  BY DEF ServerCloses
<1>2. c \in Nat /\ frame.id \in Nat /\ (conn.state \in Early => c = 0)
  BY <1>1, ReadTyped
<1>3. /\ [server EXCEPT ![c] = "closed"]
            \in [Ids \cup {0} -> {"open", "closed", "closing"}]
      /\ c = 0
         => \A d \in Ids : [server EXCEPT ![c] = "closed"][d] = server[d]
  BY <1>2, ServerNotes
<1>4. CASE /\ toClient' = Append(toClient, Frame_("ConnectionCloseOK", 0, 0))
           /\ gone' = TRUE /\ server' = server
  <2> DEFINE x == Frame_("ConnectionCloseOK", 0, 0)
  <2>1. x \in ToClient /\ x.name = "ConnectionCloseOK" /\ x.channel = 0
    BY ClosesSaid, SaidTyped
  <2>2. toClient' = Append(toClient, x)
    BY <1>4, Zenon
  <2> HIDE DEF x
  <2>3. gone' /\ gone' \in BOOLEAN /\ server' = server
    BY <1>4
  <2> QED
    BY <1>0, <1>1, <2>1, <2>2, <2>3, OneSaidInv, Zenon
<1>5. CASE /\ ~ gone /\ gone' = gone
           /\ toClient' = Append(toClient, Frame_("ChannelCloseOK", c, frame.id))
           /\ server' = IF server[c] = "open"
                        THEN [server EXCEPT ![c] = "closed"] ELSE server
  <2> DEFINE x == Frame_("ChannelCloseOK", c, frame.id)
  <2>1. x \in ToClient /\ x.name \notin Ends /\ x.channel = c
    BY <1>2, ClosesSaid, SaidTyped
  <2>2. toClient' = Append(toClient, x)
    BY <1>5, Zenon
  <2> HIDE DEF x, c
  <2>3. /\ server' \in [Ids \cup {0} -> {"open", "closed", "closing"}]
        /\ conn.state \in Early => \A d \in Ids : server'[d] = "closed"
    BY <1>0, <1>2, <1>3, <1>5, Zenon
  <2>4. ~ gone /\ gone' = gone
    BY <1>5
  <2> QED
    BY <1>0, <1>1, <1>2, <2>1, <2>2, <2>3, <2>4, OneSaidInv, Zenon
<1>6. CASE /\ server' = [server EXCEPT ![c] = "closed"]
           /\ toClient' = toClient /\ gone' = gone
  <2> HIDE DEF c
  <2>1. /\ server' \in [Ids \cup {0} -> {"open", "closed", "closing"}]
        /\ conn.state \in Early => \A d \in Ids : server'[d] = "closed"
    BY <1>0, <1>2, <1>3, <1>6, Zenon
  <2> QED
    BY <1>0, <1>1, <1>6, <2>1, NothingSaidInv, Zenon
<1>7. CASE toClient' = toClient /\ server' = server /\ gone' = gone
  BY <1>0, <1>1, <1>7, NothingSaidInv, Zenon
<1> QED
  BY <1>4, <1>5, <1>6, <1>7, Zenon DEF ServerCloses

\* The server delivers, closes or sends a frame of its own.
LEMMA ServerSendsInv ==
    ASSUME Inv, ServerSends
    PROVE  Inv'
<1>0. /\ server \in [Ids \cup {0} -> {"open", "closed", "closing"}]
      /\ gone \in BOOLEAN /\ events \in Nat
      /\ conn.state \in Early => \A d \in Ids : server[d] = "closed"
  BY InvParts DEF ServerType
<1>1. /\ ~ gone /\ conn' = conn /\ events' \in Nat /\ events + 1 \in Nat
      /\ batch' = batch /\ partial' = partial /\ calls' = calls
  BY <1>0 DEF ServerSends
<1>2. \A c \in Ids : c \in Nat
  BY DEF Ids
<1>3. ASSUME NEW c \in Ids, NEW n \in 0..2, server[c] = "open",
             toClient' = toClient \o Content("BasicDeliver", c, events + 1, n),
             server' = server, gone' = gone
      PROVE  Inv'
  <2> DEFINE new == Content("BasicDeliver", c, events + 1, n)
  <2>1. ContentSaid(new, c)
    BY <1>1, <1>2, ContentTyped
  <2>2. toClient' = toClient \o new
    BY <1>3
  <2> HIDE DEF new
  <2>3. /\ new \in Seq(ToClient)
        /\ \A i \in 1..Len(new) : new[i].channel = c
           /\ new[i].name \notin Ends
    BY <2>1, Zenon DEF ContentSaid
  <2>4. conn.state \notin Early
    BY <1>0, <1>3
  <2>5. Says(new, gone, gone')
    BY <1>1, <2>3, Zenon DEF Says
  <2> QED
    BY <1>0, <1>1, <1>3, <2>2, <2>3, <2>4, <2>5, ServerInv, Zenon
<1>4. ASSUME NEW c \in Ids, server[c] = "open",
             NEW name \in {"ChannelClose", "ChannelFlow"},
             toClient' = Append(toClient, Frame_(name, c, 0)),
             server' \in {server, [server EXCEPT ![c] = "closing"]},
             gone' = gone
      PROVE  Inv'
  <2> DEFINE x == Frame_(name, c, 0)
  <2>1. name \in SaidNames /\ name \notin Ends /\ c \in Nat /\ 0 \in Nat
    BY <1>2, ClosesSaid
  <2>2. x \in ToClient /\ x.name \notin Ends
    BY <2>1, SaidTyped
  <2>3. toClient' = Append(toClient, x)
    BY <1>4
  <2> HIDE DEF x
  <2>4. server' \in [Ids \cup {0} -> {"open", "closed", "closing"}]
    BY <1>0, <1>4
  <2>5. conn.state \notin Early
    BY <1>0, <1>4
  <2> QED
    BY <1>0, <1>1, <1>4, <2>2, <2>3, <2>4, <2>5, OneSaidInv, Zenon
<1>5. ASSUME toClient' = Append(toClient, Frame_("Heartbeat", 0, 0)),
             server' = server, gone' = gone
      PROVE  Inv'
  <2> DEFINE x == Frame_("Heartbeat", 0, 0)
  <2>1. x \in ToClient /\ x.name \notin Ends /\ x.channel = 0
    BY DEF ToClient, Frame_, Ends
  <2>2. toClient' = Append(toClient, x)
    BY <1>5
  <2> HIDE DEF x
  <2> QED
    BY <1>0, <1>1, <1>5, <2>1, <2>2, OneSaidInv, Zenon
<1>6. ASSUME toClient' = Append(toClient, Frame_("ConnectionClose", 0, 0)),
             server' = server, gone' = TRUE
      PROVE  Inv'
  <2> DEFINE x == Frame_("ConnectionClose", 0, 0)
  <2>1. x \in ToClient /\ x.name = "ConnectionClose" /\ x.channel = 0
    BY ClosesSaid, SaidTyped
  <2>2. toClient' = Append(toClient, x)
    BY <1>6
  <2> HIDE DEF x
  <2>3. gone' /\ gone' \in BOOLEAN
    BY <1>6
  <2> QED
    BY <1>0, <1>1, <1>6, <2>1, <2>2, <2>3, OneSaidInv, Zenon
<1>7. \/ \E c \in Ids, n \in 0..2 :
           /\ server[c] = "open"
           /\ toClient' = toClient \o Content("BasicDeliver", c, events + 1, n)
           /\ server' = server /\ gone' = gone
      \/ \E c \in Ids, name \in {"ChannelClose", "ChannelFlow"} :
           /\ server[c] = "open"
           /\ toClient' = Append(toClient, Frame_(name, c, 0))
           /\ server' \in {server, [server EXCEPT ![c] = "closing"]}
              /\ gone' = gone
      \/ /\ toClient' = Append(toClient, Frame_("Heartbeat", 0, 0))
         /\ server' = server /\ gone' = gone
      \/ /\ toClient' = Append(toClient, Frame_("ConnectionClose", 0, 0))
         /\ server' = server /\ gone' = TRUE
  BY Zenon DEF ServerSends
<1> QED
  BY <1>3, <1>4, <1>5, <1>6, <1>7

----------------------------------------------------------------------------
\* The connection before its first frame.
LEMMA InitInv ==
    ASSUME Init
    PROVE  Inv
<1> DEFINE header == Frame_("ProtocolHeader", 0, 0)
           frames == <<header>>
<1>1. header \in AFrame /\ Itself(header) /\ header.channel = 0
  BY OwnFramesTyped
<1>2. /\ frames \in Seq(AFrame) /\ <<>> \in Seq(AFrame)
         /\ <<>> \o frames = frames
      /\ \A n \in 1..Len(frames) : frames[n] = header
  <2> HIDE DEF header, AFrame
  <2> QED
    BY <1>1
<1> HIDE DEF header
<1>3. /\ conn = [state |-> "protocol", closed |-> FALSE, channels |-> <<>>,
                 attached |-> {}, nextFreeChannel |-> 1, maxChannels |-> 0,
                 queue |-> <<>>, wire |-> frames, sent |-> frames,
                 told |-> <<>>]
  <2> DEFINE k == [state |-> "protocol", closed |-> FALSE, channels |-> <<>>,
                   attached |-> {}, nextFreeChannel |-> 1, maxChannels |-> 0,
                   queue |-> <<>>, wire |-> <<>>, sent |-> <<>>,
                   told |-> <<>>]
  <2>1. conn = OnData(k, frames)
    BY Zenon DEF Init, header
  <2>2. k.wire = <<>> /\ k.sent = <<>>
    OBVIOUS
  <2>3. conn = [k EXCEPT !.wire = k.wire \o frames, !.sent = k.sent \o frames]
    BY <2>1, Zenon DEF OnData
  <2>4. conn = [k EXCEPT !.wire = frames, !.sent = frames]
    BY <1>2, <2>2, <2>3, Zenon
  <2> HIDE DEF frames
  <2> QED
    BY <2>4
<1> HIDE DEF frames
<1>4. /\ conn.state = "protocol" /\ conn.attached = {} /\ conn.queue = <<>>
      /\ conn.wire = frames /\ conn.sent = frames /\ conn.nextFreeChannel = 1
      /\ conn.channels = <<>>
  BY <1>3
<1>5. Channels(conn) = {}
  BY <1>4 DEF Channels
<1>6. ConnType(conn)
  <2>1. 1 \in 1..(MaxChannels + 1)
    BY ParametersAssumption
  <2>2. conn \in [state : {"protocol", "handshake", "connected", "closing", "closed"},
              closed : BOOLEAN, channels : {conn.channels},
              attached : SUBSET Nat,
              nextFreeChannel : 1..(MaxChannels + 1), maxChannels : Nat,
              queue : Seq(AFrame), wire : Seq(AFrame), sent : Seq(AFrame),
              told : {conn.told}]
    BY <1>2, <1>3, <2>1
  <2>3. conn.channels = [c \in Channels(conn) |-> conn.channels[c]]
    BY <1>4, <1>5
  <2> QED
    BY <1>4, <1>5, <2>2, <2>3 DEF ConnType
<1>7. Order(conn)
  <2> SUFFICES ASSUME NEW c \in Nat \ {0} PROVE Emitted(conn, c) = <<>>
    BY <1>4, <1>5 DEF Order, OrderOf
  <2>1. OfChannel(<<header>>, c) = <<>>
    BY <1>1, ItselfCountsNot
  <2>2. OfChannel(conn.sent, c) = <<>>
    BY <1>4, <2>1, Zenon DEF frames
  <2>3. OfChannel(conn.queue, c) = <<>>
    BY <1>4, OfChannelEmpty, Zenon
  <2>4. <<>> \o <<>> = <<>>
    OBVIOUS
  <2> QED
    BY <2>2, <2>3, <2>4, Zenon DEF Emitted, Leaving
<1>8. ConnInv(conn)
  BY <1>4, <1>6, <1>7 DEF ConnInv, Quiet
<1>9. /\ toClient = <<>> /\ batch = 0 /\ partial = FALSE /\ calls = 0
         /\ events = 0
      /\ gone = FALSE
      /\ server = [c \in Ids \cup {0} |-> IF c = 0 THEN "open" ELSE "closed"]
  BY DEF Init
<1>10. Len(toClient) = 0 /\ toClient \in Seq(ToClient)
  <2> HIDE DEF ToClient
  <2> QED
    BY <1>9
<1>11. ServerType
  <2>1. batch \in 0..Len(toClient)
    <3> HIDE DEF ToClient
    <3> QED
      BY <1>9, <1>10
  <2>2. server \in [Ids \cup {0} -> {"open", "closed", "closing"}]
    BY <1>9
  <2>3. partial \in BOOLEAN /\ calls \in Nat /\ events \in Nat
        /\ gone \in BOOLEAN
    BY <1>9
  <2> QED
    BY <1>10, <2>1, <2>2, <2>3, Zenon DEF ServerType
<1>12. \A c \in Ids : server[c] = "closed"
  <2>1. \A c \in Ids : c # 0
    BY ParametersAssumption DEF Ids
  <2> QED
    BY <1>9, <2>1
<1>13. ZeroWire(conn)
  BY <1>1, <1>2, <1>4, Zenon DEF ZeroWire
<1>14. \A n \in 1..Len(toClient) : FALSE
  BY <1>10
<1> QED
  BY <1>8, <1>9, <1>11, <1>12, <1>13, <1>14, InvParts, Zenon DEF Zero, Behind

\* Every call of the application keeps the invariant.
LEMMA ApplicationInv ==
    ASSUME Inv, Application
    PROVE  Inv'
<1>0. ConnInv(conn) /\ calls \in Nat /\ calls + 1 \in Nat
  BY DEF Inv, ServerType
<1>1. CASE Attach
  <2>1. calls' \in Nat /\ UNCHANGED <<toClient, batch, partial, serverVars>>
    BY <1>0, <1>1 DEF Attach
  <2> QED
    BY <1>0, <1>1, <2>1, AttachKeeps, CallInv, Zenon
<1>2. ASSUME NEW c \in Created, NEW method \in DOMAIN RequestFrame,
             CallRequest(c, method)
      PROVE  Inv'
  <2>1. calls' \in Nat /\ UNCHANGED <<toClient, batch, partial, serverVars>>
    BY <1>0, <1>2, Zenon DEF CallRequest, Called
  <2> QED
    BY <1>0, <1>2, <2>1, CallRequestKeeps, CallInv, Zenon
<1>3. ASSUME NEW c \in Created, CallPublish(c)
      PROVE  Inv'
  <2>1. calls' \in Nat /\ UNCHANGED <<toClient, batch, partial, serverVars>>
    BY <1>0, <1>3, Zenon DEF CallPublish, Called
  <2> QED
    BY <1>0, <1>3, <2>1, CallPublishKeeps, CallInv, Zenon
<1>4. ASSUME NEW c \in Created, NEW method \in DOMAIN SettleFrame,
             CallSettle(c, method)
      PROVE  Inv'
  <2>1. calls' \in Nat /\ UNCHANGED <<toClient, batch, partial, serverVars>>
    BY <1>0, <1>4, Zenon DEF CallSettle, Called
  <2> QED
    BY <1>0, <1>4, <2>1, CallSettleKeeps, CallInv, Zenon
<1>5. ASSUME NEW c \in Created, CallCloseChannel(c)
      PROVE  Inv'
  <2>1. calls' \in Nat /\ UNCHANGED <<toClient, batch, partial, serverVars>>
    BY <1>0, <1>5, Zenon DEF CallCloseChannel, Called
  <2> QED
    BY <1>0, <1>5, <2>1, CallCloseChannelKeeps, CallInv, Zenon
<1>6. CASE CallClose
  <2>1. calls' \in Nat /\ UNCHANGED <<toClient, batch, partial, serverVars>>
    BY <1>0, <1>6 DEF CallClose
  <2> QED
    BY <1>0, <1>6, <2>1, CallCloseKeeps, CallInv, Zenon
<1> QED
  BY <1>1, <1>2, <1>3, <1>4, <1>5, <1>6 DEF Application

\* So does a step in which nothing happens.
LEMMA StutterInv ==
    ASSUME Inv, UNCHANGED vars
    PROVE  Inv'
<1>1. /\ conn' = conn /\ toClient' = toClient /\ calls' = calls
         /\ batch' = batch
      /\ partial' = partial /\ server' = server /\ gone' = gone
         /\ events' = events
  BY DEF vars, serverVars
<1>2. ServerType'
  BY <1>1, Zenon DEF Inv, ServerType
<1> QED
  BY <1>1, <1>2, InvParts, InvPartsNext, Zenon

\* The inductive invariant: the fields of the connection, its channels and
\* the server have their types, and the frames of every channel are, in the
\* order of the calls, those given to onData, those in the queue of the connection and
\* those that wait in the channel, and nothing of them is left when the
\* connection says that it closes.
THEOREM InvInvariant == Spec => []Inv
<1>1. Init => Inv
  BY InitInv
<1>2. Inv /\ [Next]_vars => Inv'
  <2> SUFFICES ASSUME Inv, [Next]_vars PROVE Inv'
    OBVIOUS
  <2>1. CASE Application
    BY <2>1, ApplicationInv
  <2>2. CASE Parse
    BY <2>2, ParseInv
  <2>3. CASE ParseFrame
    BY <2>3, ParseFrameInv
  <2>4. CASE ServerAnswers
    BY <2>4, ServerAnswersInv
  <2>5. CASE ServerGets
    BY <2>5, ServerGetsInv
  <2>6. CASE ServerCloses
    BY <2>6, ServerClosesInv
  <2>7. CASE ServerSends
    BY <2>7, ServerSendsInv
  <2>8. CASE UNCHANGED vars
    BY <2>8, StutterInv
  <2> QED
    BY <2>1, <2>2, <2>3, <2>4, <2>5, <2>6, <2>7, <2>8 DEF Next, Server
<1> QED
  BY <1>1, <1>2, PTL DEF Spec

\* What was given to onData is a prefix of it, and all of it at the end.
LEMMA InvFramesInOrder ==
    ASSUME Inv
    PROVE  FramesInOrder
<1>0. ConnType(conn) /\ Order(conn) /\ Quiet(conn) /\ Created = Channels(conn)
  BY CreatedChannels DEF Inv, ConnInv, Created
<1> SUFFICES ASSUME NEW c \in Created
             PROVE  /\ IsPrefix(OfChannel(conn.sent, c), conn.channels[c].accepted)
                    /\ conn.state = "closing" /\ c \in conn.attached
                         => OfChannel(conn.sent, c) = conn.channels[c].accepted
  BY Zenon DEF FramesInOrder
<1> DEFINE sent == OfChannel(conn.sent, c)
           queued == OfChannel(conn.queue, c)
           queue == conn.channels[c].queue
           accepted == conn.channels[c].accepted
<1>1. c \in Channels(conn) /\ c \in Nat \ {0}
      /\ IsChannel(conn.channels[c], c)
  BY <1>0 DEF ConnType, Channels
<1>2. /\ sent \in Seq(FrameOf(c)) /\ queued \in Seq(FrameOf(c))
      /\ queue \in Seq(FrameOf(c)) /\ accepted \in Seq(FrameOf(c))
      /\ Emitted(conn, c) = sent \o queued
  <2>1. sent \in Seq(FrameOf(c)) /\ queued \in Seq(FrameOf(c))
    BY <1>0, EmittedTyped
  <2>2. queue \in Seq(FrameOf(c)) /\ accepted \in Seq(FrameOf(c))
    BY <1>1, ChannelFramesTyped
  <2>3. Emitted(conn, c) = sent \o queued
    BY Zenon DEF Emitted, Leaving
  <2> QED
    BY <2>1, <2>2, <2>3
<1>3. OrderOf(conn, c)
  BY <1>0, <1>1 DEF Order
<1>4. CASE c \in conn.attached
  <2>1. (sent \o queued) \o queue = accepted
    BY <1>2, <1>3, <1>4, Zenon DEF OrderOf
  <2>2. (sent \o queued) \o queue = sent \o (queued \o queue)
    <3>1. \A x, y, z \in Seq(FrameOf(c)) : (x \o y) \o z = x \o (y \o z)
      BY FramesAssociative
    <3> HIDE DEF sent, queued, queue, accepted
    <3> QED
      BY <1>2, <3>1, Zenon
  <2>3. conn.state = "closing" => queue = <<>> /\ queued = <<>>
    <3>1. conn.state = "closing" => conn.queue = <<>>
          /\ ~ Waiting(conn.channels[c])
      BY <1>0, <1>4 DEF Quiet
    <3> QED
      BY <3>1, OfChannelEmpty DEF Waiting
  <2> HIDE DEF sent, queued, queue, accepted
  <2>4. queued \o queue \in Seq(FrameOf(c)) /\ sent \o <<>> = sent
        /\ <<>> \o <<>> = <<>>
    <3> HIDE DEF FrameOf
    <3> QED
      BY <1>2
  <2>5. IsPrefix(sent, sent \o (queued \o queue))
    <3> DEFINE rest == queued \o queue
    <3>1. rest \in Seq(FrameOf(c))
      BY <2>4
    <3> HIDE DEF rest
    <3>2. IsPrefix(sent, sent \o rest)
      BY <1>2, <3>1, PrefixOfConcat
    <3> QED
      BY <3>2 DEF rest
  <2>6. IsPrefix(sent, accepted)
    BY <2>1, <2>2, <2>5, Zenon
  <2>7. conn.state = "closing" => sent = accepted
    BY <2>1, <2>2, <2>3, <2>4, Zenon
  <2> QED
    BY <2>6, <2>7, Zenon DEF sent, accepted
<1>5. CASE c \notin conn.attached
  <2>1. IsPrefix(sent \o queued, accepted)
    BY <1>1, <1>2, <1>3, <1>5, Zenon DEF OrderOf
  <2> HIDE DEF sent, queued, queue, accepted
  <2>2. IsPrefix(sent, accepted)
    BY <1>2, <2>1, PrefixOfPrefix
  <2> QED
    BY <1>5, <2>2, Zenon DEF sent, accepted
<1> QED
  BY <1>4, <1>5

\* The frames that a channel accepted leave in the order of the calls, and
\* none of an open channel is left behind by ConnectionClose, for any number
\* of channels and calls.
THEOREM FramesInOrderInvariant == Spec => []FramesInOrder
BY InvInvariant, InvFramesInOrder, PTL

----------------------------------------------------------------------------
\* THE REQUESTS OF A CHANNEL.  The rest of the module is about the Deferred
\* objects of one channel, and is used by ConnectionRequestsProofs.

\* What s holds of the keys of g, each as g has it: most of what follows
\* compares such extracts.
PickStep(of, s, g, n) ==
    IF n = 0 THEN <<>>
    ELSE IF s[n] \in DOMAIN g THEN Append(of[n - 1], g[s[n]])
    ELSE of[n - 1]

Picks(of, s, g) == \A n \in 0..Len(s) : of[n] = PickStep(of, s, g, n)

\* The recursion of Picked has a solution.
LEMMA PickExists ==
    ASSUME NEW s, NEW g, NEW m \in Nat
    PROVE  \E of : of = [n \in 0..m |-> PickStep(of, s, g, n)]
<1> DEFINE Solved == {k \in Nat : \E of : of = [n \in 0..k |-> PickStep(of, s, g, n)]}
<1>1. 0 \in Solved
  <2> DEFINE of == [n \in 0..0 |-> <<>>]
  <2>1. of = [n \in 0..0 |-> PickStep(of, s, g, n)]
    BY DEF PickStep
  <2> QED
    BY <2>1
<1>2. \A k \in Solved : k + 1 \in Solved
  <2> TAKE k \in Solved
  <2>1. k \in Nat
    OBVIOUS
  <2>2. PICK of : of = [n \in 0..k |-> PickStep(of, s, g, n)]
    OBVIOUS
  <2> DEFINE more == [n \in 0..(k + 1) |-> PickStep(of, s, g, n)]
  <2>3. \A n \in 0..k : more[n] = of[n]
    BY <2>1, <2>2
  <2>4. \A n \in 0..(k + 1) : n # 0 => n - 1 \in 0..k
    BY <2>1
  <2>5. \A n \in 0..(k + 1) : PickStep(of, s, g, n) = PickStep(more, s, g, n)
    BY <2>3, <2>4, Zenon DEF PickStep
  <2>6. more = [n \in 0..(k + 1) |-> PickStep(more, s, g, n)]
    <3> HIDE DEF more
    <3>1. more = [n \in 0..(k + 1) |-> PickStep(of, s, g, n)]
      BY DEF more
    <3> QED
      BY <3>1, <2>5, Zenon
  <2>7. k + 1 \in Nat
    BY <2>1
  <2> HIDE DEF more
  <2> QED
    BY <2>6, <2>7, Zenon
<1>3. Solved = Nat
  <2> HIDE DEF Solved
  <2>1. Solved \in SUBSET Nat
    BY DEF Solved
  <2> QED
    BY <1>1, <1>2, <2>1, SetInduction
<1> QED
  BY <1>3

\* The value of that solution.
LEMMA PickedDef ==
    ASSUME NEW s, Len(s) \in Nat, NEW g
    PROVE  \E of : Picks(of, s, g) /\ Picked(s, g) = of[Len(s)]
<1> DEFINE of == CHOOSE of : of = [n \in 0..Len(s) |-> PickStep(of, s, g, n)]
<1>1. Picked(s, g) = of[Len(s)]
  BY DEF Picked, PickStep
<1>2. of = [n \in 0..Len(s) |-> PickStep(of, s, g, n)]
  BY PickExists
<1> HIDE DEF of
<1>3. Picks(of, s, g)
  BY <1>2, Zenon DEF Picks
<1> QED
  BY <1>1, <1>3

\* Of nothing there is nothing to pick.
LEMMA PickedEmpty ==
    ASSUME NEW g
    PROVE  Picked(<<>>, g) = <<>>
<1>1. Len(<<>>) = 0
  OBVIOUS
<1>2. PICK of : Picks(of, <<>>, g) /\ Picked(<<>>, g) = of[Len(<<>>)]
  BY <1>1, PickedDef
<1>3. of[0] = PickStep(of, <<>>, g, 0)
  <2>1. 0 \in 0..Len(<<>>)
    BY <1>1
  <2> QED
    BY <1>2, <2>1, Zenon DEF Picks
<1> QED
  BY <1>1, <1>2, <1>3 DEF PickStep

\* Two solutions agree where the sequences do.
LEMMA PicksAgree ==
    ASSUME NEW s, NEW t, Len(s) \in Nat, Len(t) \in Nat, NEW h,
           NEW f, Picks(f, s, h),
           NEW g, Picks(g, t, h),
           Len(s) <= Len(t), \A n \in 1..Len(s) : s[n] = t[n]
    PROVE  \A n \in 0..Len(s) : f[n] = g[n]
<1> DEFINE Agree == {n \in Nat : n <= Len(s) => f[n] = g[n]}
<1>0. Len(s) \in Nat /\ Len(t) \in Nat
  OBVIOUS
<1>1. 0 \in Agree
  <2>1. f[0] = PickStep(f, s, h, 0) /\ g[0] = PickStep(g, t, h, 0)
    BY <1>0 DEF Picks
  <2> QED
    BY <2>1 DEF PickStep
<1>2. \A n \in Agree : n + 1 \in Agree
  <2> SUFFICES ASSUME NEW n \in Agree, n + 1 <= Len(s)
      PROVE f[n + 1] = g[n + 1]
    OBVIOUS
  <2>1. n \in Nat /\ f[n] = g[n] /\ n + 1 # 0 /\ (n + 1) - 1 = n
    BY <1>0
  <2>2. n + 1 \in 0..Len(s) /\ n + 1 \in 0..Len(t) /\ n + 1 \in 1..Len(s)
    BY <1>0, <2>1
  <2>3. s[n + 1] = t[n + 1]
    BY <2>2
  <2>4. f[n + 1] = PickStep(f, s, h, n + 1)
    BY <2>2 DEF Picks
  <2>5. g[n + 1] = PickStep(g, t, h, n + 1)
    BY <2>2 DEF Picks
  <2>6. \A of, u : PickStep(of, u, h, n + 1) =
            IF u[n + 1] \in DOMAIN h THEN Append(of[n], h[u[n + 1]])
            ELSE of[n]
    <3> TAKE of, u
    <3> DEFINE k == n + 1
    <3>1. k # 0 /\ k - 1 = n
      BY <2>1
    <3> HIDE DEF k
    <3>2. PickStep(of, u, h, k) =
              IF u[k] \in DOMAIN h THEN Append(of[n], h[u[k]]) ELSE of[n]
      BY <3>1, Zenon DEF PickStep
    <3> QED
      BY <3>2 DEF k
  <2> QED
    BY <2>1, <2>3, <2>4, <2>5, <2>6, Zenon
<1>3. Agree = Nat
  <2> HIDE DEF Agree
  <2>1. Agree \in SUBSET Nat
    BY DEF Agree
  <2> QED
    BY <1>1, <1>2, <2>1, SetInduction
<1>4. \A n \in Nat : n \in Agree
  BY <1>3, Zenon
<1>5. \A n \in Nat : n <= Len(s) => f[n] = g[n]
  BY <1>4, Zenon
<1> QED
  BY <1>0, <1>5

\* One element more.
LEMMA PickedAppend ==
    ASSUME NEW S, NEW s \in Seq(S), NEW x \in S, NEW g
    PROVE  Picked(Append(s, x), g) =
               IF x \in DOMAIN g THEN Append(Picked(s, g), g[x])
               ELSE Picked(s, g)
<1> DEFINE t == Append(s, x)
<1>0. /\ t \in Seq(S) /\ Len(s) \in Nat /\ Len(t) = Len(s) + 1
      /\ t[Len(t)] = x /\ \A n \in 1..Len(s) : t[n] = s[n]
  OBVIOUS
<1> HIDE DEF t
<1>1. PICK f : Picks(f, s, g) /\ Picked(s, g) = f[Len(s)]
  BY <1>0, PickedDef
<1>2. PICK h : Picks(h, t, g) /\ Picked(t, g) = h[Len(t)]
  BY <1>0, PickedDef
<1>3. f[Len(s)] = h[Len(s)]
  <2>1. Len(s) <= Len(t) /\ \A n \in 1..Len(s) : s[n] = t[n]
    BY <1>0
  <2>2. \A n \in 0..Len(s) : f[n] = h[n]
    BY ONLY <1>0, <1>1, <1>2, <2>1, PicksAgree
  <2> QED
    BY <2>2, <1>0
<1>4. /\ h[Len(t)] = PickStep(h, t, g, Len(t))
      /\ Len(t) # 0 /\ Len(t) - 1 = Len(s)
  BY <1>0, <1>2 DEF Picks
<1>5. Picked(t, g) = IF x \in DOMAIN g THEN Append(Picked(s, g), g[x])
                                       ELSE Picked(s, g)
  BY <1>0, <1>1, <1>2, <1>3, <1>4, Zenon DEF PickStep
<1> QED
  BY <1>5 DEF t

\* What is picked has the types of g, and is no longer than s.
LEMMA PickedType ==
    ASSUME NEW S, NEW s \in Seq(S), NEW T, NEW g,
           \A x \in S \cap DOMAIN g : g[x] \in T
    PROVE  Picked(s, g) \in Seq(T) /\ Len(Picked(s, g)) <= Len(s)
<1> DEFINE Typed == {n \in Nat : \A t \in Seq(S) : Len(t) = n
                         => Picked(t, g) \in Seq(T) /\ Len(Picked(t, g)) <= n}
<1>1. 0 \in Typed
  <2> SUFFICES ASSUME NEW t \in Seq(S), Len(t) = 0
      PROVE Picked(t, g) \in Seq(T) /\ Len(Picked(t, g)) <= 0
    OBVIOUS
  <2>1. t = <<>>
    OBVIOUS
  <2>2. <<>> \in Seq(T) /\ Len(<<>>) <= 0
    OBVIOUS
  <2>3. Picked(t, g) = <<>>
    BY <2>1, PickedEmpty, Zenon
  <2> QED
    BY <2>2, <2>3, Zenon
<1>2. \A n \in Typed : n + 1 \in Typed
  <2> SUFFICES ASSUME NEW n \in Typed, NEW t \in Seq(S), Len(t) = n + 1
               PROVE  Picked(t, g) \in Seq(T) /\ Len(Picked(t, g)) <= n + 1
    OBVIOUS
  <2>0. n \in Nat
    OBVIOUS
  <2>1. PICK u \in Seq(S), x \in S : t = Append(u, x) /\ Len(u) = n
    BY <2>0, Chop
  <2>2. Picked(u, g) \in Seq(T) /\ Len(Picked(u, g)) <= n
    BY <2>1
  <2>3. Picked(Append(u, x), g) = IF x \in DOMAIN g
                                  THEN Append(Picked(u, g), g[x])
                                  ELSE Picked(u, g)
    BY PickedAppend
  <2>4. CASE x \in DOMAIN g
    <3> DEFINE p == Picked(u, g)
               y == g[x]
    <3>1. y \in T /\ p \in Seq(T) /\ Len(p) <= n
      BY <2>2, <2>4
    <3> HIDE DEF p, y
    <3>2. Append(p, y) \in Seq(T) /\ Len(Append(p, y)) <= n + 1
      BY <2>0, <3>1
    <3> QED
      BY <2>1, <2>3, <2>4, <3>2, Zenon DEF p, y
  <2>5. CASE x \notin DOMAIN g
    <3> DEFINE p == Picked(u, g)
    <3>1. p \in Seq(T) /\ Len(p) <= n
      BY <2>2
    <3> HIDE DEF p
    <3>2. Len(p) <= n + 1
      BY <2>0, <3>1
    <3> QED
      BY <2>1, <2>3, <2>5, <3>1, <3>2, Zenon DEF p
  <2> QED
    BY <2>4, <2>5
<1>3. Typed = Nat
  <2> HIDE DEF Typed
  <2>1. Typed \in SUBSET Nat
    BY DEF Typed
  <2> QED
    BY <1>1, <1>2, <2>1, SetInduction
<1>4. Len(s) \in Nat
  OBVIOUS
<1> QED
  BY <1>3, <1>4

\* What is picked of a concatenation.
LEMMA PickedConcat ==
    ASSUME NEW S, NEW s \in Seq(S), NEW t \in Seq(S), NEW g
    PROVE  Picked(s \o t, g) = Picked(s, g) \o Picked(t, g)
<1> DEFINE T == {g[x] : x \in S \cap DOMAIN g}
<1>a. \A x \in S \cap DOMAIN g : g[x] \in T
  OBVIOUS
<1> HIDE DEF T
<1> DEFINE Law(u) == Picked(s \o u, g) = Picked(s, g) \o Picked(u, g)
           Split == {n \in Nat : \A u \in Seq(S) : Len(u) = n => Law(u)}
<1>0. Picked(s, g) \in Seq(T)
  BY <1>a, PickedType
<1>1. 0 \in Split
  <2> SUFFICES ASSUME NEW u \in Seq(S), Len(u) = 0 PROVE Law(u)
    OBVIOUS
  <2>1. u = <<>>
    OBVIOUS
  <2>2. s \o <<>> = s
    OBVIOUS
  <2> DEFINE p == Picked(s, g)
  <2>3. p \o <<>> = p
    <3>1. p \in Seq(T)
      BY <1>0
    <3> HIDE DEF p
    <3> QED
      BY <3>1
  <2>4. Picked(u, g) = <<>>
    BY <2>1, PickedEmpty, Zenon
  <2> QED
    BY <2>1, <2>2, <2>3, <2>4, Zenon
<1>2. \A n \in Split : n + 1 \in Split
  <2> SUFFICES ASSUME NEW n \in Split, NEW u \in Seq(S), Len(u) = n + 1
               PROVE  Law(u)
    <3> HIDE DEF Law
    <3> QED
      OBVIOUS
  <2>0. n \in Nat
    OBVIOUS
  <2>1. PICK v \in Seq(S), x \in S : u = Append(v, x) /\ Len(v) = n
    BY <2>0, Chop
  <2>2. Picked(s \o v, g) = Picked(s, g) \o Picked(v, g)
    BY <2>1
  <2>3. s \o u = Append(s \o v, x) /\ s \o v \in Seq(S)
    BY <2>1
  <2>4. Picked(s \o u, g) = IF x \in DOMAIN g
                            THEN Append(Picked(s \o v, g), g[x])
                            ELSE Picked(s \o v, g)
    <3> DEFINE w == s \o v
    <3>1. w \in Seq(S) /\ s \o u = Append(w, x)
      BY <2>3
    <3> HIDE DEF w
    <3>2. Picked(Append(w, x), g) = IF x \in DOMAIN g
                                    THEN Append(Picked(w, g), g[x])
                                    ELSE Picked(w, g)
      BY <3>1, PickedAppend
    <3>3. Picked(s \o u, g) = IF x \in DOMAIN g
                              THEN Append(Picked(w, g), g[x])
                              ELSE Picked(w, g)
      BY <3>1, <3>2, Zenon
    <3> QED
      BY <3>3 DEF w
  <2>5. Picked(u, g) = IF x \in DOMAIN g THEN Append(Picked(v, g), g[x])
                                         ELSE Picked(v, g)
    <3>1. Picked(Append(v, x), g) = IF x \in DOMAIN g
                                    THEN Append(Picked(v, g), g[x])
                                    ELSE Picked(v, g)
      BY PickedAppend
    <3> QED
      BY <2>1, <3>1, Zenon
  <2>6. x \in DOMAIN g => Picked(s, g) \o Append(Picked(v, g), g[x])
                              = Append(Picked(s, g) \o Picked(v, g), g[x])
    <3> SUFFICES ASSUME x \in DOMAIN g
                 PROVE  Picked(s, g) \o Append(Picked(v, g), g[x])
                            = Append(Picked(s, g) \o Picked(v, g), g[x])
      OBVIOUS
    <3> DEFINE p == Picked(s, g)
               q == Picked(v, g)
               y == g[x]
    <3>1. p \in Seq(T) /\ q \in Seq(T) /\ y \in T
      BY <1>0, <1>a, PickedType
    <3> HIDE DEF p, q, y
    <3>2. p \o Append(q, y) = Append(p \o q, y)
      BY <3>1, SMTT(30)
    <3> QED
      BY <3>2 DEF p, q, y
  <2> QED
    BY <2>2, <2>4, <2>5, <2>6, Zenon
<1>3. Split = Nat
  <2> HIDE DEF Split
  <2>1. Split \in SUBSET Nat
    BY DEF Split
  <2> QED
    BY <1>1, <1>2, <2>1, SetInduction
<1>4. Len(t) \in Nat
  OBVIOUS
<1> QED
  BY <1>3, <1>4

\* Where no element is a key there is nothing to pick.
LEMMA PickedNone ==
    ASSUME NEW S, NEW s \in Seq(S), NEW g,
           \A n \in 1..Len(s) : s[n] \notin DOMAIN g
    PROVE  Picked(s, g) = <<>>
<1> DEFINE T == {n \in Nat : \A t \in Seq(S) :
                      /\ Len(t) = n
                      /\ \A m \in 1..Len(t) : t[m] \notin DOMAIN g
                      => Picked(t, g) = <<>>}
<1>1. 0 \in T
  <2> SUFFICES ASSUME NEW t \in Seq(S), Len(t) = 0
      PROVE Picked(t, g) = <<>>
    OBVIOUS
  <2>1. t = <<>>
    OBVIOUS
  <2> QED
    BY <2>1, PickedEmpty
<1>2. \A n \in T : n + 1 \in T
  <2> SUFFICES ASSUME NEW n \in T, NEW t \in Seq(S), Len(t) = n + 1,
                      \A m \in 1..Len(t) : t[m] \notin DOMAIN g
               PROVE  Picked(t, g) = <<>>
    OBVIOUS
  <2>0. n \in Nat
    OBVIOUS
  <2>1. PICK u \in Seq(S), x \in S : t = Append(u, x) /\ Len(u) = n
    BY <2>0, Chop
  <2>2. /\ Len(t) \in 1..Len(t) /\ t[Len(t)] = x
        /\ \A m \in 1..Len(u) : m \in 1..Len(t) /\ t[m] = u[m]
    BY <2>1
  <2>3. x \notin DOMAIN g /\ \A m \in 1..Len(u) : u[m] \notin DOMAIN g
    BY <2>2
  <2>4. Picked(u, g) = <<>>
    BY <2>1, <2>3
  <2> QED
    BY <2>1, <2>3, <2>4, PickedAppend
<1>3. T = Nat
  <2> HIDE DEF T
  <2>1. T \in SUBSET Nat
    BY DEF T
  <2> QED
    BY <1>1, <1>2, <2>1, SetInduction
<1>4. Len(s) \in Nat
  OBVIOUS
<1> QED
  BY <1>3, <1>4

\* Only the elements of s matter.
LEMMA PickedSame ==
    ASSUME NEW S, NEW s \in Seq(S), NEW g, NEW h,
           \A n \in 1..Len(s) : /\ s[n] \in DOMAIN g <=> s[n] \in DOMAIN h
                                /\ s[n] \in DOMAIN g => g[s[n]] = h[s[n]]
    PROVE  Picked(s, g) = Picked(s, h)
<1> DEFINE Alike(x) == /\ x \in DOMAIN g <=> x \in DOMAIN h
                       /\ x \in DOMAIN g => g[x] = h[x]
           T == {n \in Nat : \A t \in Seq(S) :
                      /\ Len(t) = n
                      /\ \A m \in 1..Len(t) : Alike(t[m])
                      => Picked(t, g) = Picked(t, h)}
<1>1. 0 \in T
  <2> SUFFICES ASSUME NEW t \in Seq(S), Len(t) = 0
      PROVE Picked(t, g) = Picked(t, h)
    OBVIOUS
  <2>1. t = <<>>
    OBVIOUS
  <2> QED
    BY <2>1, PickedEmpty
<1>2. \A n \in T : n + 1 \in T
  <2> SUFFICES ASSUME NEW n \in T, NEW t \in Seq(S), Len(t) = n + 1,
                      \A m \in 1..Len(t) : Alike(t[m])
               PROVE  Picked(t, g) = Picked(t, h)
    <3> HIDE DEF Alike
    <3> QED
      BY SMTT(30)
  <2>0. n \in Nat
    OBVIOUS
  <2>1. PICK u \in Seq(S), x \in S : t = Append(u, x) /\ Len(u) = n
    BY <2>0, Chop
  <2>2. /\ Len(t) \in 1..Len(t) /\ t[Len(t)] = x
        /\ \A m \in 1..Len(u) : m \in 1..Len(t) /\ t[m] = u[m]
    BY <2>1
  <2>3. Alike(x) /\ \A m \in 1..Len(u) : Alike(u[m])
    <3> HIDE DEF Alike
    <3> QED
      BY <2>2
  <2>4. Picked(u, g) = Picked(u, h)
    <3> HIDE DEF Alike
    <3> QED
      BY <2>1, <2>3
  <2>5. Picked(Append(u, x), g) = IF x \in DOMAIN g
                                  THEN Append(Picked(u, g), g[x])
                                  ELSE Picked(u, g)
    BY PickedAppend
  <2>6. Picked(Append(u, x), h) = IF x \in DOMAIN h
                                  THEN Append(Picked(u, h), h[x])
                                  ELSE Picked(u, h)
    BY PickedAppend
  <2> QED
    BY <2>1, <2>3, <2>4, <2>5, <2>6, Zenon
<1>3. T = Nat
  <2> HIDE DEF T
  <2>1. T \in SUBSET Nat
    BY DEF T
  <2> QED
    BY <1>1, <1>2, <2>1, SetInduction
<1>4. Len(s) \in Nat
  OBVIOUS
<1> QED
  BY <1>3, <1>4

\* The elements of a sequence with one more.
LEMMA AppendIs ==
    ASSUME NEW S, NEW s \in Seq(S), NEW x \in S
    PROVE  Append(s, x) = [i \in 1..(Len(s) + 1) |->
                              IF i = Len(s) + 1 THEN x ELSE s[i]]
<1> DEFINE t == Append(s, x)
<1>1. t \in Seq(S) /\ Len(t) = Len(s) + 1 /\ Len(s) \in Nat
  OBVIOUS
<1>2. \A n \in 1..(Len(s) + 1) : t[n] = IF n = Len(s) + 1 THEN x ELSE s[n]
  OBVIOUS
<1> HIDE DEF t
<1>3. t = [n \in 1..Len(t) |-> t[n]]
  BY <1>1
<1> QED
  BY <1>1, <1>2, <1>3 DEF t

\* The elements of q, each with e.
Paired(q, e) == [n \in 1..Len(q) |-> <<q[n], e>>]

LEMMA PairedAppend ==
    ASSUME NEW T, NEW p \in Seq(T), NEW y \in T, NEW e
    PROVE  Append(Paired(p, e), <<y, e>>) = Paired(Append(p, y), e)
<1> DEFINE w == Paired(p, e)
           z == <<y, e>>
           U == T \X {e}
           q == Append(p, y)
<1>1. q \in Seq(T) /\ Len(q) = Len(p) + 1 /\ Len(p) \in Nat
      /\ q[Len(p) + 1] = y /\ \A m \in 1..Len(p) : q[m] = p[m]
  OBVIOUS
<1>2. w \in Seq(U) /\ Len(w) = Len(p) /\ z \in U
      /\ \A m \in 1..Len(p) : w[m] = <<p[m], e>>
  BY DEF Paired
<1>3. Paired(q, e) = [i \in 1..(Len(p) + 1) |-> <<q[i], e>>]
  BY <1>1 DEF Paired
<1> HIDE DEF w, U, q
<1>4. Append(w, z) = [i \in 1..(Len(w) + 1) |->
                         IF i = Len(w) + 1 THEN z ELSE w[i]]
  <2> HIDE DEF z
  <2> QED
    BY <1>2, AppendIs
<1>5. \A i \in 1..(Len(p) + 1) :
          <<q[i], e>> = IF i = Len(w) + 1 THEN z ELSE w[i]
  BY <1>1, <1>2
<1>6. Append(w, z) = Paired(q, e)
  BY <1>2, <1>3, <1>4, <1>5
<1> QED
  BY <1>6, Zenon DEF w, q

\* Where h is made of g, so is what it picks.
LEMMA PickedMade ==
    ASSUME NEW S, NEW s \in Seq(S), NEW e, NEW g, NEW h,
           DOMAIN h = DOMAIN g, \A x \in DOMAIN g : h[x] = <<g[x], e>>
    PROVE  Picked(s, h) = Paired(Picked(s, g), e)
<1> DEFINE T == {g[x] : x \in DOMAIN g}
<1>a. \A x \in DOMAIN g : g[x] \in T
  OBVIOUS
<1> HIDE DEF T
<1> DEFINE Made(q) == Paired(q, e)
           N == {n \in Nat : \A t \in Seq(S) :
                    Len(t) = n => Picked(t, h) = Made(Picked(t, g))}
<1>1. 0 \in N
  <2> SUFFICES ASSUME NEW t \in Seq(S), Len(t) = 0
      PROVE Picked(t, h) = Made(Picked(t, g))
    OBVIOUS
  <2>1. t = <<>>
    OBVIOUS
  <2>2. Picked(t, h) = <<>> /\ Picked(t, g) = <<>>
    BY <2>1, PickedEmpty, Zenon
  <2>3. Made(<<>>) = <<>>
    BY DEF Paired
  <2> QED
    BY <2>2, <2>3, Zenon
<1>2. \A n \in N : n + 1 \in N
  <2> SUFFICES ASSUME NEW n \in N, NEW t \in Seq(S), Len(t) = n + 1
               PROVE  Picked(t, h) = Made(Picked(t, g))
    <3> HIDE DEF Made
    <3> QED
      OBVIOUS
  <2>0. n \in Nat
    OBVIOUS
  <2>1. PICK u \in Seq(S), x \in S : t = Append(u, x) /\ Len(u) = n
    BY <2>0, Chop
  <2>2. Picked(u, h) = Made(Picked(u, g))
    BY <2>1
  <2>3. Picked(Append(u, x), g) = IF x \in DOMAIN g
                                  THEN Append(Picked(u, g), g[x])
                                  ELSE Picked(u, g)
    BY PickedAppend
  <2>6. Picked(Append(u, x), h) = IF x \in DOMAIN h
                                  THEN Append(Picked(u, h), h[x])
                                  ELSE Picked(u, h)
    BY ONLY <2>1, PickedAppend
  <2>4. DOMAIN h = DOMAIN g
    OBVIOUS
  <2>5. x \in DOMAIN g => Append(Made(Picked(u, g)), h[x])
                      = Made(Append(Picked(u, g), g[x]))
    <3> SUFFICES ASSUME x \in DOMAIN g
                 PROVE  Append(Made(Picked(u, g)), h[x])
                            = Made(Append(Picked(u, g), g[x]))
      OBVIOUS
    <3> DEFINE p == Picked(u, g)
               y == g[x]
    <3>1. \A z \in S \cap DOMAIN g : g[z] \in T
      BY <1>a
    <3>2. p \in Seq(T) /\ y \in T /\ h[x] = <<y, e>>
      BY <1>a, <3>1, PickedType
    <3> HIDE DEF p, y
    <3>3. Append(Made(p), <<y, e>>) = Made(Append(p, y))
      BY <3>2, PairedAppend
    <3> QED
      BY <3>2, <3>3 DEF p, y
  <2> HIDE DEF Made
  <2> QED
    BY <2>1, <2>2, <2>3, <2>4, <2>5, <2>6, Zenon
<1>3. N = Nat
  <2> HIDE DEF N
  <2>1. N \in SUBSET Nat
    BY DEF N
  <2> QED
    BY <1>1, <1>2, <2>1, SetInduction
<1>4. Len(s) \in Nat
  OBVIOUS
<1> QED
  BY <1>3, <1>4

----------------------------------------------------------------------------
\* WHAT A CHANNEL OWES.  The frames that a Deferred belongs to, and the
\* Deferreds that have no outcome yet and did not fail when they were made.
AskedNames == (DOMAIN Reply \ {"ChannelOpen"}) \cup {"ChannelClose"}
Asked == [f \in {f \in AFrame : f.name \in AskedNames} |-> f.id]
AskedIn(frames) == Picked(frames, Asked)

Unfailed == {d \in Deferreds : ~ d.failed}
Pending(callbacks) == Picked(callbacks, [d \in Unfailed |-> d.id])

Settled == Nat \X {"success", "error"}
IdsOf(outcomes) == [n \in 1..Len(outcomes) |-> outcomes[n][1]]

\* t begins with s.
Begins(s, t) == Len(s) <= Len(t) /\ \A n \in 1..Len(s) : s[n] = t[n]

\* Every request has an outcome or a Deferred, in the order of the calls, and
\* the frames that were accepted belong to the first of them.
Kept(callbacks, accepted, requests, outcomes) ==
    /\ callbacks \in Seq(Deferreds) /\ accepted \in Seq(AFrame)
    /\ requests \in Seq(Nat) /\ outcomes \in Seq(Settled)
    /\ IdsOf(outcomes) \o Pending(callbacks) = requests
    /\ Begins(AskedIn(accepted), requests)
    /\ \A n \in 1..Len(accepted) :
          /\ accepted[n].name # "ConnectionClose"
          /\ accepted[n].name = "ChannelOpen" <=> n = 1
          /\ accepted[n].name = "ChannelClose" => n = Len(accepted)

\* A channel that accepts no frame any more.
NoMore(state, waits, closed) == state = "closing" \/ (closed /\ ~ waits)

\* While more can be accepted no request was without a frame, and a Deferred
\* that failed is behind all those that have one.
Owes(state, waits, closed, callbacks, accepted, requests, outcomes) ==
    /\ accepted # <<>>
    /\ \A n \in 1..Len(accepted) :
          accepted[n].name = "ChannelClose" => state = "closing"
    /\ \A n \in 1..Len(callbacks) :
          callbacks[n].failed => Len(outcomes) + n > Len(AskedIn(accepted))
    /\ \/ NoMore(state, waits, closed)
       \/ /\ requests = AskedIn(accepted)
          /\ \A n \in 1..Len(callbacks) : ~ callbacks[n].failed

Promises(ch, closed) ==
    /\ Kept(ch.callbacks, ch.accepted, ch.requests, ch.outcomes)
    /\ ch.state # "closed"
       => Owes(ch.state, Waiting(ch), closed, ch.callbacks, ch.accepted,
               ch.requests, ch.outcomes)

\* The ids of the frames that ask for something.
LEMMA AskedTyped ==
    ASSUME NEW s \in Seq(AFrame)
    PROVE  AskedIn(s) \in Seq(Nat)
<1>1. \A f \in AFrame \cap DOMAIN Asked : Asked[f] \in Nat
  BY DEF Asked, AFrame
<1> QED
  BY <1>1, PickedType DEF AskedIn

LEMMA AskedConcat ==
    ASSUME NEW s \in Seq(AFrame), NEW t \in Seq(AFrame)
    PROVE  AskedIn(s \o t) = AskedIn(s) \o AskedIn(t)
BY PickedConcat DEF AskedIn

LEMMA AskedAppend ==
    ASSUME NEW s \in Seq(AFrame), NEW f \in AFrame
    PROVE  AskedIn(Append(s, f)) = IF f.name \in AskedNames
                                   THEN Append(AskedIn(s), f.id)
                                   ELSE AskedIn(s)
<1>1. f \in DOMAIN Asked <=> f.name \in AskedNames
  BY DEF Asked
<1>2. f \in DOMAIN Asked => Asked[f] = f.id
  BY DEF Asked
<1>3. Picked(Append(s, f), Asked) = IF f \in DOMAIN Asked
                                    THEN Append(Picked(s, Asked), Asked[f])
                                    ELSE Picked(s, Asked)
  BY PickedAppend
<1> QED
  BY <1>1, <1>2, <1>3, Zenon DEF AskedIn

LEMMA AskedEmpty ==
    AskedIn(<<>>) = <<>>
BY PickedEmpty DEF AskedIn

\* The ids of the Deferreds that wait.
LEMMA PendingTyped ==
    ASSUME NEW s \in Seq(Deferreds)
    PROVE  Pending(s) \in Seq(Nat) /\ Len(Pending(s)) <= Len(s)
<1> DEFINE g == [d \in Unfailed |-> d.id]
<1>1. \A d \in Deferreds \cap DOMAIN g : g[d] \in Nat
  BY DEF Unfailed, Deferreds
<1> QED
  BY <1>1, PickedType DEF Pending

LEMMA PendingConcat ==
    ASSUME NEW s \in Seq(Deferreds), NEW t \in Seq(Deferreds)
    PROVE  Pending(s \o t) = Pending(s) \o Pending(t)
BY PickedConcat DEF Pending

LEMMA PendingAppend ==
    ASSUME NEW s \in Seq(Deferreds), NEW d \in Deferreds
    PROVE  Pending(Append(s, d)) = IF d.failed THEN Pending(s)
                                   ELSE Append(Pending(s), d.id)
<1> DEFINE g == [e \in Unfailed |-> e.id]
<1>1. d \in DOMAIN g <=> ~ d.failed
  BY DEF Unfailed
<1>2. d \in DOMAIN g => g[d] = d.id
  OBVIOUS
<1>3. Picked(Append(s, d), g) = IF d \in DOMAIN g
                                THEN Append(Picked(s, g), g[d])
                                ELSE Picked(s, g)
  <2> HIDE DEF g
  <2> QED
    BY PickedAppend
<1>4. Pending(s) = Picked(s, g) /\ Pending(Append(s, d)) = Picked(Append(s, d), g)
  BY DEF Pending
<1> HIDE DEF g
<1> QED
  BY <1>1, <1>2, <1>3, <1>4, Zenon

LEMMA PendingEmpty ==
    Pending(<<>>) = <<>>
BY PickedEmpty DEF Pending

\* The first Deferred and those behind it.
LEMMA PendingHead ==
    ASSUME NEW s \in Seq(Deferreds), s # <<>>, ~ Head(s).failed
    PROVE  Pending(s) = <<Head(s).id>> \o Pending(Tail(s))
<1> DEFINE d == Head(s)
<1>1. /\ d \in Deferreds /\ Tail(s) \in Seq(Deferreds) /\ <<d>> \in Seq(Deferreds)
      /\ s = <<d>> \o Tail(s) /\ <<d>> = Append(<<>>, d)
      /\ <<>> \in Seq(Deferreds)
  OBVIOUS
<1>2. ~ d.failed
  OBVIOUS
<1> HIDE DEF d
<1>3. Pending(<<d>>) = Append(Pending(<<>>), d.id)
  BY <1>1, <1>2, PendingAppend
<1>4. Pending(<<d>>) = <<d.id>>
  BY <1>3, PendingEmpty
<1>5. Pending(<<d>> \o Tail(s)) = Pending(<<d>>) \o Pending(Tail(s))
  BY <1>1, PendingConcat
<1> QED
  BY <1>1, <1>4, <1>5, Zenon DEF d

\* The elements of a concatenation.
LEMMA ConcatIs ==
    ASSUME NEW S, NEW s \in Seq(S), NEW t \in Seq(S)
    PROVE  s \o t = [n \in 1..(Len(s) + Len(t)) |->
                        IF n <= Len(s) THEN s[n] ELSE t[n - Len(s)]]
<1>1. s \o t \in Seq(S) /\ Len(s \o t) = Len(s) + Len(t)
      /\ Len(s) \in Nat /\ Len(t) \in Nat
  OBVIOUS
<1>2. \A n \in 1..(Len(s) + Len(t)) :
          (s \o t)[n] = IF n <= Len(s) THEN s[n] ELSE t[n - Len(s)]
  OBVIOUS
<1>3. s \o t = [n \in 1..Len(s \o t) |-> (s \o t)[n]]
  <2> DEFINE u == s \o t
  <2>1. u \in Seq(S)
    BY <1>1
  <2> HIDE DEF u
  <2>2. u = [n \in 1..Len(u) |-> u[n]]
    BY <2>1
  <2> QED
    BY <2>2 DEF u
<1> QED
  BY <1>1, <1>2, <1>3

\* The failures of a chain are those of the Deferreds that wait.
LEMMA FailuresAre ==
    ASSUME NEW s \in Seq(Deferreds)
    PROVE  Failures(s) = Paired(Pending(s), "error")
<1> DEFINE f == [d \in {d \in ToSet(s) : ~ d.failed} |-> <<d.id, "error">>]
           h == [d \in Unfailed |-> <<d.id, "error">>]
           g == [d \in Unfailed |-> d.id]
<1>1. \A n \in 1..Len(s) : /\ s[n] \in DOMAIN f <=> s[n] \in DOMAIN h
                           /\ s[n] \in DOMAIN f => f[s[n]] = h[s[n]]
  <2> TAKE n \in 1..Len(s)
  <2>1. s[n] \in Deferreds /\ s[n] \in ToSet(s)
    BY DEF ToSet
  <2> QED
    BY <2>1 DEF Unfailed
<1>2. Picked(s, f) = Picked(s, h)
  <2> HIDE DEF f, h
  <2> QED
    BY <1>1, PickedSame
<1>3. Failures(s) = Picked(s, f)
  BY DEF Failures
<1>4. /\ DOMAIN h = DOMAIN g
      /\ \A d \in DOMAIN g : h[d] = <<g[d], "error">>
  OBVIOUS
<1>5. Pending(s) = Picked(s, g)
  BY DEF Pending
<1> HIDE DEF f, g, h
<1>6. Picked(s, h) = Paired(Picked(s, g), "error")
  BY <1>4, PickedMade, Zenon
<1> QED
  BY <1>2, <1>3, <1>5, <1>6, Zenon

\* The ids of outcomes.
LEMMA IdsTyped ==
    ASSUME NEW o \in Seq(Settled)
    PROVE  IdsOf(o) \in Seq(Nat) /\ Len(IdsOf(o)) = Len(o) /\ Len(o) \in Nat
<1>1. \A n \in 1..Len(o) : o[n] \in Settled
  OBVIOUS
<1>2. \A x \in Settled : x[1] \in Nat
  BY DEF Settled
<1>3. \A n \in 1..Len(o) : o[n][1] \in Nat
  BY <1>1, <1>2
<1> QED
  BY <1>3 DEF IdsOf

LEMMA IdsConcat ==
    ASSUME NEW o \in Seq(Settled), NEW p \in Seq(Settled)
    PROVE  IdsOf(o \o p) = IdsOf(o) \o IdsOf(p)
<1>0. Len(o) \in Nat /\ Len(p) \in Nat /\ Len(o \o p) = Len(o) + Len(p)
  OBVIOUS
<1>1. /\ IdsOf(o) \in Seq(Nat) /\ Len(IdsOf(o)) = Len(o)
      /\ IdsOf(p) \in Seq(Nat) /\ Len(IdsOf(p)) = Len(p)
  BY IdsTyped
<1>2. \A n \in 1..(Len(o) + Len(p)) :
          (o \o p)[n] = IF n <= Len(o) THEN o[n] ELSE p[n - Len(o)]
  OBVIOUS
<1>3. IdsOf(o) \o IdsOf(p) = [n \in 1..(Len(o) + Len(p)) |->
          IF n <= Len(o) THEN IdsOf(o)[n] ELSE IdsOf(p)[n - Len(o)]]
  <2> DEFINE x == IdsOf(o)
             y == IdsOf(p)
  <2>1. x \in Seq(Nat) /\ y \in Seq(Nat) /\ Len(x) = Len(o) /\ Len(y) = Len(p)
    BY <1>1
  <2> HIDE DEF x, y
  <2>2. x \o y = [n \in 1..(Len(x) + Len(y)) |->
                     IF n <= Len(x) THEN x[n] ELSE y[n - Len(x)]]
    BY <2>1, ConcatIs
  <2> QED
    BY <2>1, <2>2, Zenon DEF x, y
<1>4. \A n \in 1..(Len(o) + Len(p)) :
          (IF n <= Len(o) THEN IdsOf(o)[n] ELSE IdsOf(p)[n - Len(o)])
              = (o \o p)[n][1]
  BY <1>0, <1>2 DEF IdsOf
<1> QED
  BY <1>0, <1>3, <1>4 DEF IdsOf

LEMMA IdsOne ==
    ASSUME NEW id \in Nat, NEW x \in {"success", "error"}
    PROVE  /\ <<<<id, x>>>> \in Seq(Settled)
           /\ IdsOf(<<<<id, x>>>>) = <<id>>
<1>1. <<id, x>> \in Settled /\ <<id, x>>[1] = id
  BY DEF Settled
<1> DEFINE y == <<id, x>>
<1>2. y \in Settled /\ y[1] = id
  BY <1>1
<1> HIDE DEF y
<1>3. <<y>> \in Seq(Settled) /\ Len(<<y>>) = 1 /\ <<y>>[1] = y
  BY <1>2
<1>4. IdsOf(<<y>>) = [n \in 1..1 |-> id]
  BY <1>2, <1>3 DEF IdsOf
<1>5. <<id>> = [n \in 1..1 |-> id]
  OBVIOUS
<1> QED
  BY <1>3, <1>4, <1>5 DEF y

\* The ids of failures.
LEMMA IdsOfFailures ==
    ASSUME NEW s \in Seq(Deferreds)
    PROVE  Failures(s) \in Seq(Settled) /\ IdsOf(Failures(s)) = Pending(s)
<1> DEFINE p == Pending(s)
           f == Failures(s)
<1>1. p \in Seq(Nat) /\ f = [n \in 1..Len(p) |-> <<p[n], "error">>]
  BY PendingTyped, FailuresAre DEF Paired
<1> HIDE DEF p, f
<1>2. \A n \in 1..Len(p) : <<p[n], "error">> \in Settled
  BY <1>1 DEF Settled
<1>3. f \in Seq(Settled) /\ Len(f) = Len(p)
  BY <1>1, <1>2
<1>4. \A n \in 1..Len(p) : f[n][1] = p[n]
  BY <1>1
<1>5. IdsOf(f) = [n \in 1..Len(p) |-> p[n]]
  BY <1>3, <1>4 DEF IdsOf
<1>6. [n \in 1..Len(p) |-> p[n]] = p
  BY <1>1
<1> QED
  BY <1>3, <1>5, <1>6, Zenon DEF p, f

\* Beginnings.
LEMMA BeginsAppend ==
    ASSUME NEW S, NEW s \in Seq(S), NEW t \in Seq(S), NEW x \in S, Begins(s, t)
    PROVE  Begins(s, Append(t, x))
<1>1. Len(Append(t, x)) = Len(t) + 1 /\ Len(t) \in Nat /\ Len(s) \in Nat
      /\ \A n \in 1..Len(t) : Append(t, x)[n] = t[n]
  OBVIOUS
<1> QED
  BY <1>1 DEF Begins

\* What Kept says of its sequences.
LEMMA KeptTypes ==
    ASSUME NEW cb, NEW acc, NEW req, NEW out, Kept(cb, acc, req, out)
    PROVE  /\ cb \in Seq(Deferreds) /\ acc \in Seq(AFrame) /\ req \in Seq(Nat)
              /\ out \in Seq(Settled)
           /\ AskedIn(acc) \in Seq(Nat) /\ Pending(cb) \in Seq(Nat)
              /\ IdsOf(out) \in Seq(Nat) /\ Len(IdsOf(out)) = Len(out)
           /\ Len(AskedIn(acc)) <= Len(req)
              /\ Len(req) = Len(out) + Len(Pending(cb))
              /\ Len(Pending(cb)) <= Len(cb)
           /\ Len(cb) \in Nat /\ Len(acc) \in Nat /\ Len(req) \in Nat
              /\ Len(out) \in Nat /\ Len(AskedIn(acc)) \in Nat
              /\ Len(Pending(cb)) \in Nat
<1>1. /\ cb \in Seq(Deferreds) /\ acc \in Seq(AFrame) /\ req \in Seq(Nat)
         /\ out \in Seq(Settled)
      /\ IdsOf(out) \o Pending(cb) = req /\ Begins(AskedIn(acc), req)
  BY DEF Kept
<1>2. AskedIn(acc) \in Seq(Nat) /\ Pending(cb) \in Seq(Nat)
      /\ IdsOf(out) \in Seq(Nat) /\ Len(IdsOf(out)) = Len(out)
      /\ Len(Pending(cb)) <= Len(cb)
  BY <1>1, AskedTyped, PendingTyped, IdsTyped
<1>3. Len(IdsOf(out) \o Pending(cb)) = Len(IdsOf(out)) + Len(Pending(cb))
  <2> DEFINE x == IdsOf(out)
             y == Pending(cb)
  <2>1. x \in Seq(Nat) /\ y \in Seq(Nat)
    BY <1>2
  <2> HIDE DEF x, y
  <2>2. Len(x \o y) = Len(x) + Len(y)
    BY <2>1
  <2> QED
    BY <2>2 DEF x, y
<1>4. Len(AskedIn(acc)) <= Len(req)
  BY <1>1 DEF Begins
<1>5. /\ Len(cb) \in Nat /\ Len(acc) \in Nat /\ Len(req) \in Nat
      /\ Len(out) \in Nat /\ Len(AskedIn(acc)) \in Nat
      /\ Len(Pending(cb)) \in Nat
  BY <1>1, <1>2
<1> QED
  BY <1>1, <1>2, <1>3, <1>4, <1>5

\* A frame of which nothing comes back.
PlainName(name) ==
    name \notin AskedNames \cup {"ChannelOpen", "ConnectionClose"}

LEMMA PlainAccepted ==
    ASSUME NEW cb, NEW acc, NEW req, NEW out, NEW state, NEW w, NEW v, NEW closed,
           Kept(cb, acc, req, out), state # "closing", closed => w /\ v,
           Owes(state, w, closed, cb, acc, req, out),
           NEW f \in AFrame, PlainName(f.name)
    PROVE  /\ Kept(cb, Append(acc, f), req, out)
           /\ Owes(state, v, closed, cb, Append(acc, f), req, out)
<1> DEFINE more == Append(acc, f)
<1>1. acc \in Seq(AFrame) /\ acc # <<>>
  BY DEF Kept, Owes
<1>2. more \in Seq(AFrame) /\ Len(more) = Len(acc) + 1 /\ Len(acc) \in Nat
      /\ more[Len(acc) + 1] = f /\ Len(acc) # 0
      /\ \A n \in 1..Len(acc) : more[n] = acc[n]
  BY <1>1
<1>3. AskedIn(more) = AskedIn(acc)
  BY <1>1, AskedAppend DEF PlainName
<1>4. \A n \in 1..Len(acc) : acc[n].name # "ChannelClose"
  BY DEF Owes
<1>5. f.name # "ChannelClose" /\ f.name # "ChannelOpen"
      /\ f.name # "ConnectionClose"
  BY DEF PlainName, AskedNames
<1> HIDE DEF more
<1>6. \A n \in 1..Len(more) : n \in 1..Len(acc) \/ n = Len(acc) + 1
  BY <1>2
<1>7. \A n \in 1..Len(more) :
          /\ more[n].name # "ConnectionClose"
          /\ more[n].name = "ChannelOpen" <=> n = 1
          /\ more[n].name # "ChannelClose"
  <2>1. \A n \in 1..Len(acc) : /\ acc[n].name # "ConnectionClose"
                               /\ acc[n].name = "ChannelOpen" <=> n = 1
    BY DEF Kept
  <2> TAKE n \in 1..Len(more)
  <2>2. CASE n \in 1..Len(acc)
    BY <1>2, <1>4, <2>1, <2>2
  <2>3. CASE n = Len(acc) + 1
    <3>1. more[n] = f /\ n # 1
      BY <1>2, <2>3
    <3> QED
      BY <1>5, <3>1
  <2> QED
    BY <1>6, <2>2, <2>3
<1>8. Kept(cb, more, req, out)
  BY <1>2, <1>3, <1>7 DEF Kept
<1>9. Owes(state, v, closed, cb, more, req, out)
  <2>1. more # <<>>
    BY <1>2
  <2> QED
    BY <1>3, <1>7, <2>1 DEF Owes, NoMore
<1> QED
  BY <1>8, <1>9 DEF more

\* A frame that asks for something, with its Deferred.
LEMMA AskedAccepted ==
    ASSUME NEW cb, NEW acc, NEW req, NEW out, NEW w, NEW v, NEW closed,
           NEW new, Kept(cb, acc, req, out), closed => w,
           Owes("connected", w, closed, cb, acc, req, out),
           NEW f \in AFrame, f.name \in AskedNames,
           NEW d \in Deferreds, ~ d.failed, d.id = f.id,
           \/ new = "closing"
           \/ new = "connected" /\ f.name # "ChannelClose" /\ (closed => v)
    PROVE  /\ Kept(Append(cb, d), Append(acc, f), Append(req, f.id), out)
           /\ Owes(new, v, closed, Append(cb, d), Append(acc, f),
                   Append(req, f.id), out)
<1> DEFINE more == Append(acc, f)
           chain == Append(cb, d)
           asked == Append(req, f.id)
<1>0. f.id \in Nat
  BY DEF AFrame
<1>1. acc # <<>> /\ req = AskedIn(acc) /\ \A n \in 1..Len(cb) : ~ cb[n].failed
  BY DEF Owes, NoMore
<1>2. /\ cb \in Seq(Deferreds) /\ acc \in Seq(AFrame) /\ req \in Seq(Nat)
         /\ out \in Seq(Settled)
      /\ Pending(cb) \in Seq(Nat) /\ IdsOf(out) \in Seq(Nat)
  BY KeptTypes
<1>3. more \in Seq(AFrame) /\ Len(more) = Len(acc) + 1 /\ Len(acc) \in Nat
      /\ more[Len(acc) + 1] = f /\ Len(acc) # 0
      /\ \A n \in 1..Len(acc) : more[n] = acc[n]
  BY <1>1, <1>2
<1>4. chain \in Seq(Deferreds) /\ asked \in Seq(Nat)
      /\ \A n \in 1..Len(chain) : ~ chain[n].failed
  BY <1>0, <1>1, <1>2
<1>5. AskedIn(more) = asked
  BY <1>1, <1>2, AskedAppend
<1>6. IdsOf(out) \o Pending(chain) = asked
  <2>1. Pending(chain) = Append(Pending(cb), f.id)
    BY <1>2, PendingAppend
  <2> DEFINE x == IdsOf(out)
             y == Pending(cb)
  <2>2. x \in Seq(Nat) /\ y \in Seq(Nat) /\ x \o y = req
    BY <1>2 DEF Kept
  <2> HIDE DEF x, y
  <2>3. x \o Append(y, f.id) = Append(x \o y, f.id)
    BY <1>0, <2>2, SMTT(30)
  <2> QED
    BY <2>1, <2>2, <2>3, Zenon DEF x, y
<1>7. \A n \in 1..Len(acc) : acc[n].name # "ChannelClose"
  BY DEF Owes
<1>8. f.name # "ChannelOpen" /\ f.name # "ConnectionClose"
  BY DEF AskedNames, Reply
<1> HIDE DEF more, chain, asked
<1>9. \A n \in 1..Len(more) : n \in 1..Len(acc) \/ n = Len(acc) + 1
  BY <1>3
<1>10. \A n \in 1..Len(more) :
          /\ more[n].name # "ConnectionClose"
          /\ more[n].name = "ChannelOpen" <=> n = 1
          /\ more[n].name = "ChannelClose" => n = Len(more) /\ new = "closing"
  <2>1. \A n \in 1..Len(acc) : /\ acc[n].name # "ConnectionClose"
                               /\ acc[n].name = "ChannelOpen" <=> n = 1
    BY DEF Kept
  <2> TAKE n \in 1..Len(more)
  <2>2. CASE n \in 1..Len(acc)
    BY <1>3, <1>7, <2>1, <2>2
  <2>3. CASE n = Len(acc) + 1
    <3>1. more[n] = f /\ n # 1 /\ n = Len(more)
      BY <1>3, <2>3
    <3>2. f.name = "ChannelClose" => new = "closing"
      OBVIOUS
    <3> QED
      BY <1>8, <3>1, <3>2
  <2> QED
    BY <1>9, <2>2, <2>3
<1>11. Kept(chain, more, asked, out)
  <2>1. Begins(asked, asked)
    BY <1>4 DEF Begins
  <2> QED
    BY <1>2, <1>3, <1>4, <1>5, <1>6, <1>10, <2>1 DEF Kept
<1>12. Owes(new, v, closed, chain, more, asked, out)
  <2>1. more # <<>>
    BY <1>3
  <2> QED
    BY <1>4, <1>5, <1>10, <2>1 DEF Owes
<1> QED
  BY <1>11, <1>12 DEF more, chain, asked

\* A request that needs no frame, because its channel closes or is closed.
LEMMA RequestHeld ==
    ASSUME NEW cb, NEW acc, NEW req, NEW out, NEW w, NEW closed,
           Kept(cb, acc, req, out), NEW d \in Deferreds, ~ d.failed
    PROVE  /\ Kept(Append(cb, d), acc, Append(req, d.id), out)
           /\ Owes("closing", w, closed, cb, acc, req, out)
              => Owes("closing", w, closed, Append(cb, d), acc,
                      Append(req, d.id), out)
<1> DEFINE chain == Append(cb, d)
           asked == Append(req, d.id)
<1>0. d.id \in Nat
  BY DEF Deferreds
<1>1. /\ cb \in Seq(Deferreds) /\ acc \in Seq(AFrame) /\ req \in Seq(Nat)
         /\ out \in Seq(Settled)
      /\ Pending(cb) \in Seq(Nat) /\ IdsOf(out) \in Seq(Nat)
      /\ AskedIn(acc) \in Seq(Nat) /\ Len(out) \in Nat
  BY KeptTypes
<1>2. chain \in Seq(Deferreds) /\ asked \in Seq(Nat)
      /\ Len(chain) = Len(cb) + 1 /\ Len(cb) \in Nat
      /\ chain[Len(cb) + 1] = d /\ \A n \in 1..Len(cb) : chain[n] = cb[n]
  BY <1>0, <1>1
<1>3. IdsOf(out) \o Pending(chain) = asked
  <2>1. Pending(chain) = Append(Pending(cb), d.id)
    BY <1>1, PendingAppend
  <2> DEFINE x == IdsOf(out)
             y == Pending(cb)
  <2>2. x \in Seq(Nat) /\ y \in Seq(Nat) /\ x \o y = req
    BY <1>1 DEF Kept
  <2> HIDE DEF x, y
  <2>3. x \o Append(y, d.id) = Append(x \o y, d.id)
    BY <1>0, <2>2, SMTT(30)
  <2> QED
    BY <2>1, <2>2, <2>3, Zenon DEF x, y
<1>4. Begins(AskedIn(acc), asked)
  <2>1. Begins(AskedIn(acc), req)
    BY DEF Kept
  <2> QED
    BY <1>0, <1>1, <2>1, BeginsAppend
<1> HIDE DEF chain, asked
<1>5. Kept(chain, acc, asked, out)
  BY <1>2, <1>3, <1>4 DEF Kept
<1>6. ASSUME Owes("closing", w, closed, cb, acc, req, out)
      PROVE  Owes("closing", w, closed, chain, acc, asked, out)
  <2>1. \A n \in 1..Len(chain) : n \in 1..Len(cb) \/ n = Len(cb) + 1
    BY <1>2
  <2>2. \A n \in 1..Len(chain) :
            chain[n].failed => Len(out) + n > Len(AskedIn(acc))
    BY <1>2, <1>6, <2>1 DEF Owes
  <2> QED
    BY <1>6, <2>2 DEF Owes, NoMore
<1> QED
  BY <1>5, <1>6 DEF chain, asked

\* A request that failed at once, on a channel that takes no more of them.
LEMMA RequestRefused ==
    ASSUME NEW cb, NEW acc, NEW req, NEW out, NEW state, NEW w, NEW closed,
           Kept(cb, acc, req, out), NEW d \in Deferreds, d.failed,
           NoMore(state, w, closed)
    PROVE  /\ Kept(Append(cb, d), acc, req, out)
           /\ Owes(state, w, closed, cb, acc, req, out)
              => Owes(state, w, closed, Append(cb, d), acc, req, out)
<1> DEFINE chain == Append(cb, d)
<1>1. /\ cb \in Seq(Deferreds) /\ Len(out) \in Nat
      /\ Len(AskedIn(acc)) <= Len(out) + Len(cb)
      /\ Len(AskedIn(acc)) \in Nat
  BY KeptTypes
<1>2. chain \in Seq(Deferreds)
      /\ Len(chain) = Len(cb) + 1 /\ Len(cb) \in Nat
      /\ chain[Len(cb) + 1] = d /\ \A n \in 1..Len(cb) : chain[n] = cb[n]
  BY <1>1
<1>3. Pending(chain) = Pending(cb)
  BY <1>1, PendingAppend
<1> HIDE DEF chain
<1>4. Kept(chain, acc, req, out)
  BY <1>2, <1>3 DEF Kept
<1>5. ASSUME Owes(state, w, closed, cb, acc, req, out)
      PROVE  Owes(state, w, closed, chain, acc, req, out)
  <2>1. \A n \in 1..Len(chain) : n \in 1..Len(cb) \/ n = Len(cb) + 1
    BY <1>2
  <2>2. \A n \in 1..Len(chain) :
            chain[n].failed => Len(out) + n > Len(AskedIn(acc))
    BY <1>1, <1>2, <1>5, <2>1, SMTT(30) DEF Owes
  <2> QED
    BY <1>5, <2>2 DEF Owes
<1> QED
  BY <1>4, <1>5 DEF chain

\* On a channel that is closed it fails too, and is never settled again.
LEMMA RequestRefusedClosed ==
    ASSUME NEW cb, NEW acc, NEW req, NEW out,
           Kept(cb, acc, req, out), NEW d \in Deferreds, d.failed
    PROVE  Kept(Append(cb, d), acc, req, out)
<1>1. cb \in Seq(Deferreds)
  BY DEF Kept
<1>2. Append(cb, d) \in Seq(Deferreds) /\ Pending(Append(cb, d)) = Pending(cb)
  BY <1>1, PendingAppend
<1> QED
  BY <1>2 DEF Kept

\* The oldest Deferred succeeds.
LEMMA Succeeds ==
    ASSUME NEW cb, NEW acc, NEW req, NEW out, Kept(cb, acc, req, out),
           cb # <<>>, ~ Head(cb).failed
    PROVE  LET more == Append(out, <<Head(cb).id, "success">>)
           IN  /\ Kept(Tail(cb), acc, req, more)
               /\ Len(more) = Len(out) + 1 /\ Len(more) <= Len(req)
               /\ req[Len(out) + 1] = Head(cb).id
               /\ \A state, w, closed :
                     Owes(state, w, closed, cb, acc, req, out)
                     => Owes(state, w, closed, Tail(cb), acc, req, more)
<1> DEFINE id == Head(cb).id
           one == <<<<id, "success">>>>
           more == Append(out, <<id, "success">>)
           rest == Tail(cb)
<1>1. /\ cb \in Seq(Deferreds) /\ acc \in Seq(AFrame) /\ req \in Seq(Nat)
         /\ out \in Seq(Settled)
      /\ IdsOf(out) \in Seq(Nat) /\ Len(IdsOf(out)) = Len(out)
      /\ Len(out) \in Nat
  BY KeptTypes
<1>2. rest \in Seq(Deferreds) /\ id \in Nat /\ Len(rest) = Len(cb) - 1
      /\ Len(cb) \in Nat
      /\ \A n \in 1..Len(rest) : rest[n] = cb[n + 1] /\ n + 1 \in 1..Len(cb)
  <2>1. /\ Head(cb) \in Deferreds /\ rest \in Seq(Deferreds)
        /\ Len(rest) = Len(cb) - 1
        /\ \A n \in 1..Len(rest) : rest[n] = cb[n + 1]
    BY <1>1, HeadTailProperties
  <2>2. Len(cb) \in Nat
    BY <1>1
  <2>3. \A n \in 1..Len(rest) : n + 1 \in 1..Len(cb)
    <3> HIDE DEF rest
    <3> QED
      BY <2>1, <2>2
  <2>4. id \in Nat
    BY <2>1 DEF Deferreds
  <2> HIDE DEF rest, id
  <2> QED
    BY <2>1, <2>2, <2>3, <2>4
<1>3. Pending(cb) = <<id>> \o Pending(rest) /\ Pending(rest) \in Seq(Nat)
  BY <1>1, <1>2, PendingHead, PendingTyped
<1> HIDE DEF id, rest
<1>4. one \in Seq(Settled) /\ IdsOf(one) = <<id>>
  BY <1>2, IdsOne
<1>5. more = out \o one
  <2> DEFINE x == <<id, "success">>
  <2>1. x \in Settled
    BY <1>2 DEF Settled
  <2> HIDE DEF x
  <2>2. Append(out, x) = out \o <<x>>
    BY <1>1, <2>1
  <2> QED
    BY <2>2 DEF x
<1>6. more \in Seq(Settled) /\ Len(more) = Len(out) + 1
      /\ IdsOf(more) = IdsOf(out) \o <<id>>
  <2> HIDE DEF one, more
  <2>1. IdsOf(out \o one) = IdsOf(out) \o IdsOf(one)
    BY <1>1, <1>4, IdsConcat
  <2>2. out \o one \in Seq(Settled)
    BY <1>1, <1>4
  <2>3. Len(out \o one) = Len(out) + 1
    <3>1. Len(one) = 1
      BY DEF one
    <3> QED
      <4>1. Len(out \o one) = Len(out) + Len(one)
        BY <1>1, <1>4, ConcatProperties, Zenon
      <4> QED
        BY <3>1, <4>1, Zenon
  <2> QED
    BY <1>4, <1>5, <2>1, <2>2, <2>3, Zenon
<1> HIDE DEF more
<1>7. /\ IdsOf(more) \o Pending(rest) = req
      /\ req[Len(out) + 1] = id /\ Len(out) + 1 <= Len(req)
  <2> DEFINE x == IdsOf(out)
             y == Pending(rest)
  <2>1. x \in Seq(Nat) /\ y \in Seq(Nat) /\ Len(x) = Len(out)
    BY <1>1, <1>3
  <2>2. x \o (<<id>> \o y) = req
    BY <1>3 DEF Kept
  <2> HIDE DEF x, y
  <2>3. (x \o <<id>>) \o y = x \o (<<id>> \o y)
    BY <1>2, <2>1, SMTT(30)
  <2>4. (x \o (<<id>> \o y))[Len(x) + 1] = id
        /\ Len(x) + 1 <= Len(x \o (<<id>> \o y))
    <3> DEFINE z == <<id>> \o y
    <3>1. z \in Seq(Nat) /\ Len(z) = Len(y) + 1 /\ z[1] = id
          /\ Len(x) \in Nat /\ Len(y) \in Nat
      BY <1>2, <2>1
    <3> HIDE DEF z
    <3>2. Len(x \o z) = Len(x) + Len(z)
      BY <2>1, <3>1, ConcatProperties, Zenon
    <3>3. x \o z = [i \in 1..(Len(x) + Len(z)) |->
                        IF i <= Len(x) THEN x[i] ELSE z[i - Len(x)]]
      BY <2>1, <3>1, ConcatIs
    <3>4. (x \o z)[Len(x) + 1] = z[1]
      <4> HIDE DEF z
      <4>1. Len(x) + 1 \in 1..(Len(x) + Len(z)) /\ ~ (Len(x) + 1 <= Len(x))
            /\ (Len(x) + 1) - Len(x) = 1
        BY <3>1
      <4> QED
        BY <3>3, <4>1, Zenon
    <3> QED
      BY <3>1, <3>2, <3>4 DEF z
  <2> QED
    BY <1>6, <2>1, <2>2, <2>3, <2>4, Zenon DEF x, y
<1>8. Kept(rest, acc, req, more)
  BY <1>1, <1>2, <1>6, <1>7 DEF Kept
<1>9. ASSUME NEW state, NEW w, NEW closed,
             Owes(state, w, closed, cb, acc, req, out)
      PROVE  Owes(state, w, closed, rest, acc, req, more)
  <2>1. \A n \in 1..Len(rest) :
            rest[n].failed => Len(more) + n > Len(AskedIn(acc))
    <3> TAKE n \in 1..Len(rest)
    <3> HAVE rest[n].failed
    <3>1. cb[n + 1].failed /\ n + 1 \in 1..Len(cb)
      BY <1>2
    <3>2. Len(out) + (n + 1) > Len(AskedIn(acc))
      BY <1>9, <3>1 DEF Owes
    <3>3. Len(AskedIn(acc)) \in Nat
      BY KeptTypes
    <3> QED
      BY <1>1, <1>2, <1>6, <3>2, <3>3
  <2>2. (\A n \in 1..Len(cb) : ~ cb[n].failed)
        => \A n \in 1..Len(rest) : ~ rest[n].failed
    BY <1>2
  <2> QED
    BY <1>9, <2>1, <2>2 DEF Owes
<1> QED
  BY <1>6, <1>7, <1>8, <1>9 DEF more, id, rest

\* All that waits fails.
LEMMA Fails ==
    ASSUME NEW cb, NEW acc, NEW req, NEW out, Kept(cb, acc, req, out)
    PROVE  Kept(<<>>, acc, req, out \o Failures(cb))
<1> DEFINE f == Failures(cb)
<1>1. /\ cb \in Seq(Deferreds) /\ acc \in Seq(AFrame) /\ req \in Seq(Nat)
         /\ out \in Seq(Settled) /\ <<>> \in Seq(Deferreds)
      /\ IdsOf(out) \o Pending(cb) = req
  BY DEF Kept
<1>2. f \in Seq(Settled) /\ IdsOf(f) = Pending(cb)
  BY <1>1, IdsOfFailures
<1> HIDE DEF f
<1>3. out \o f \in Seq(Settled) /\ IdsOf(out \o f) = req
  <2>1. IdsOf(out \o f) = IdsOf(out) \o IdsOf(f)
    BY <1>1, <1>2, IdsConcat
  <2> QED
    BY <1>1, <1>2, <2>1, ConcatProperties, Zenon
<1>4. IdsOf(out \o f) \o Pending(<<>>) = req
  <2>1. req \o <<>> = req
    BY <1>1
  <2> QED
    BY <1>3, <2>1, PendingEmpty, Zenon
<1> QED
  BY <1>1, <1>3, <1>4 DEF Kept, f

\* A channel that was kept is kept when the application closes the connection.
LEMMA Later ==
    ASSUME NEW ch, Promises(ch, FALSE)
    PROVE  Promises(ch, TRUE)
BY DEF Promises, Owes, NoMore

----------------------------------------------------------------------------
\* THE METHODS OF A CHANNEL.  Those that settle nothing and ask for nothing.
SamePromises(ch, new) ==
    /\ new.callbacks = ch.callbacks /\ new.requests = ch.requests
    /\ new.outcomes = ch.outcomes /\ new.state = ch.state

Unasked(ch, new) ==
    /\ SamePromises(ch, new) /\ new.accepted = ch.accepted
    /\ ~ Waiting(ch) => ~ Waiting(new)

LEMMA UnaskedKeeps ==
    ASSUME NEW ch, NEW new, Unasked(ch, new), NEW closed, Promises(ch, closed)
    PROVE  Promises(new, closed)
BY DEF Promises, Unasked, SamePromises, Owes, NoMore

\* What send() leaves: it refuses, it drops, or it accepts.
Refused(ch, taken, r) ==
    /\ r.ch = ch /\ ~ r.ok
    /\ ch.state = "closed" \/ (~ taken /\ ~ Waiting(ch))
Dropped(ch, r) == r.ch = ch /\ r.ok /\ ch.state = "closing"
Accepted(ch, frame, taken, r) ==
    /\ ch.state = "connected" /\ r.ok
    /\ SamePromises(ch, r.ch) /\ r.ch.accepted = Append(ch.accepted, frame)
    /\ ~ taken => Waiting(ch) /\ Waiting(r.ch)

LEMMA SendFields ==
    ASSUME NEW c, NEW ch, IsChannel(ch, c), NEW frame \in FrameOf(c),
           NEW taken \in BOOLEAN
    PROVE  LET r == Send(ch, frame, taken)
           IN  Refused(ch, taken, r) \/ Dropped(ch, r)
               \/ Accepted(ch, frame, taken, r)
<1> SUFFICES ASSUME NEW r, r = Send(ch, frame, taken)
             PROVE  Refused(ch, taken, r) \/ Dropped(ch, r)
                    \/ Accepted(ch, frame, taken, r)
  OBVIOUS
<1>1. CASE r = Result(FALSE, ch, <<>>)
           /\ (ch.state = "closed" \/ (~ taken /\ ~ Waiting(ch)))
  <2>1. r.ch = ch /\ r.ok = FALSE
    BY ONLY <1>1 DEF Result
  <2> QED
    BY <1>1, <2>1 DEF Refused
<1>2. CASE r = Result(TRUE, ch, <<>>) /\ ch.state = "closing"
  <2>1. r.ch = ch /\ r.ok = TRUE
    BY ONLY <1>2 DEF Result
  <2> QED
    BY <1>2, <2>1 DEF Dropped
<1>3. ch.state \in {"connected", "closing", "closed"}
      /\ ch.queue \in Seq(FrameOf(c))
  BY DEF IsChannel
<1>4. CASE /\ Waiting(ch) /\ ch.state \notin {"closed", "closing"}
           /\ r = Result(TRUE, [ch EXCEPT !.queue = Append(@, frame),
                                          !.accepted = Append(@, frame)], <<>>)
  <2> DEFINE new == [ch EXCEPT !.queue = Append(@, frame),
                               !.accepted = Append(@, frame)]
  <2>0. r = Result(TRUE, new, <<>>)
    BY <1>4
  <2> HIDE DEF new
  <2>1. r.ch = new /\ r.ok = TRUE
    BY ONLY <2>0 DEF Result
  <2> USE DEF new
  <2>2. SamePromises(ch, new) /\ new.accepted = Append(ch.accepted, frame)
        /\ new.queue = Append(ch.queue, frame)
    BY DEF IsChannel, SamePromises
  <2>3. Append(ch.queue, frame) # <<>>
    BY <1>3
  <2> HIDE DEF new
  <2> QED
    BY <1>3, <1>4, <2>1, <2>2, <2>3 DEF Accepted, Waiting
<1>5. CASE /\ ~ Waiting(ch) /\ taken /\ ch.state \notin {"closed", "closing"}
           /\ r = Result(TRUE, [ch EXCEPT !.synchronous = Synchronous(frame),
                                          !.accepted = Append(@, frame)],
                                          <<frame>>)
  <2> DEFINE new == [ch EXCEPT !.synchronous = Synchronous(frame),
                               !.accepted = Append(@, frame)]
  <2>0. r = Result(TRUE, new, <<frame>>)
    BY <1>5
  <2> HIDE DEF new
  <2>1. r.ch = new /\ r.ok = TRUE
    BY ONLY <2>0 DEF Result
  <2> USE DEF new
  <2>2. SamePromises(ch, new) /\ new.accepted = Append(ch.accepted, frame)
    BY DEF IsChannel, SamePromises
  <2> HIDE DEF new
  <2> QED
    BY <1>3, <1>5, <2>1, <2>2 DEF Accepted
<1> QED
  BY <1>1, <1>2, <1>3, <1>4, <1>5, Zenon DEF Send

\* What the connection takes of a channel that is not closed.
TakesUntilClosed(ch, closed, taken) == ch.state # "closed" => (taken <=> ~ closed)

\* The frames of a channel are frames.
LEMMA OwnAccepted ==
    ASSUME NEW c, NEW frame \in FrameOf(c)
    PROVE  frame \in AFrame /\ frame.id \in Nat
BY DEF FrameOf, AFrame

\* A frame of which nothing comes back asks for nothing.
LEMMA SendPromises ==
    ASSUME NEW c, NEW ch, IsChannel(ch, c), NEW frame \in FrameOf(c),
           PlainName(frame.name), NEW taken \in BOOLEAN, NEW closed \in BOOLEAN,
           TakesUntilClosed(ch, closed, taken), Promises(ch, closed)
    PROVE  LET r == Send(ch, frame, taken)
           IN  SamePromises(ch, r.ch) /\ Promises(r.ch, closed)
<1> SUFFICES ASSUME NEW r, Refused(ch, taken, r) \/ Dropped(ch, r)
                           \/ Accepted(ch, frame, taken, r)
             PROVE  SamePromises(ch, r.ch) /\ Promises(r.ch, closed)
  BY SendFields
<1>1. CASE r.ch = ch
  BY <1>1 DEF SamePromises
<1>2. CASE Accepted(ch, frame, taken, r)
  <2> DEFINE new == r.ch
  <2>1. /\ ch.state = "connected" /\ SamePromises(ch, new)
        /\ new.accepted = Append(ch.accepted, frame)
        /\ ~ taken => Waiting(ch) /\ Waiting(new)
    BY <1>2 DEF Accepted
  <2>2. closed => Waiting(ch) /\ Waiting(new)
    BY <2>1 DEF TakesUntilClosed
  <2>3. /\ Kept(ch.callbacks, ch.accepted, ch.requests, ch.outcomes)
        /\ Owes(ch.state, Waiting(ch), closed, ch.callbacks, ch.accepted,
                ch.requests, ch.outcomes)
    BY <2>1 DEF Promises
  <2> HIDE DEF new
  <2>4. frame \in AFrame
    BY OwnAccepted
  <2>5. /\ Kept(ch.callbacks, Append(ch.accepted, frame), ch.requests,
                ch.outcomes)
        /\ Owes(ch.state, Waiting(new), closed, ch.callbacks,
                Append(ch.accepted, frame), ch.requests, ch.outcomes)
    BY <2>1, <2>2, <2>3, <2>4, PlainAccepted
  <2>6. Promises(new, closed)
    BY <2>1, <2>5, Zenon DEF Promises, SamePromises
  <2> QED
    BY <2>1, <2>6 DEF new
<1> QED
  BY <1>1, <1>2 DEF Refused, Dropped

\* One after the other.
LEMMA SameTwice ==
    ASSUME NEW ch, NEW s, NEW r, SamePromises(ch, s), SamePromises(s, r)
    PROVE  SamePromises(ch, r)
BY DEF SamePromises

\* The next send of a method asks for nothing either.
LEMMA AndSendPromises ==
    ASSUME NEW c, NEW ch, NEW frame \in FrameOf(c), PlainName(frame.name),
           NEW taken \in BOOLEAN, NEW closed \in BOOLEAN,
           TakesUntilClosed(ch, closed, taken),
           NEW r, Sends(ch, c, taken, r), SamePromises(ch, r.ch),
           Promises(r.ch, closed)
    PROVE  LET s == AndSend(r, frame, taken)
           IN  SamePromises(ch, s.ch) /\ Promises(s.ch, closed)
<1>1. CASE ~ r.ok
  BY <1>1 DEF AndSend
<1>2. CASE r.ok
  <2> DEFINE s == Send(r.ch, frame, taken)
  <2>1. IsChannel(r.ch, c)
    BY DEF Sends, Leaves
  <2>2. TakesUntilClosed(r.ch, closed, taken)
    BY DEF TakesUntilClosed, SamePromises
  <2>3. SamePromises(r.ch, s.ch) /\ Promises(s.ch, closed)
    BY <2>1, <2>2, SendPromises
  <2>4. AndSend(r, frame, taken) = [s EXCEPT !.frames = r.frames \o @]
    BY <1>2 DEF AndSend
  <2>5. s = Result(s.ok, s.ch, s.frames)
    BY <2>1, SendSends DEF Sends, Leaves
  <2> HIDE DEF s
  <2>6. [s EXCEPT !.frames = r.frames \o @].ch = s.ch
    <3>1. [s EXCEPT !.frames = r.frames \o s.frames]
              = Result(s.ok, s.ch, r.frames \o s.frames)
      BY <2>5, WithFrames
    <3> QED
      BY <3>1, ResultFields
  <2>7. SamePromises(ch, s.ch)
    BY <2>3, SameTwice
  <2> QED
    BY <2>3, <2>4, <2>6, <2>7
<1> QED
  BY <1>1, <1>2

\* publish() asks for nothing.
LEMMA PublishPromises ==
    ASSUME NEW c \in Nat \ {0}, NEW ch, IsChannel(ch, c), NEW id \in Nat,
           NEW taken \in BOOLEAN, NEW closed \in BOOLEAN,
           TakesUntilClosed(ch, closed, taken), Promises(ch, closed)
    PROVE  LET r == Publish(ch, c, id, taken)
           IN  SamePromises(ch, r.ch) /\ Promises(r.ch, closed)
<1> DEFINE part(name) == [name |-> name, channel |-> c, id |-> id]
           method == Send(ch, part("BasicPublish"), taken)
           header == AndSend(method, part("BasicHeader"), taken)
<1>1. \A name \in {"BasicPublish", "BasicHeader", "Body"} :
          part(name) \in FrameOf(c) /\ PlainName(part(name).name)
  <2> TAKE name \in {"BasicPublish", "BasicHeader", "Body"}
  <2>1. name \in FrameNames /\ name # "ChannelCloseOK"
    BY DEF FrameNames, Frames
  <2>2. part(name) \in FrameOf(c)
    BY <2>1 DEF FrameOf, AFrame, Counts
  <2>3. PlainName(name)
    BY DEF PlainName, AskedNames, Reply
  <2> QED
    BY <2>2, <2>3
<1> HIDE DEF part
<1>2. /\ Sends(ch, c, taken, method) /\ SamePromises(ch, method.ch)
      /\ Promises(method.ch, closed)
  BY <1>1, SendSends, SendPromises
<1>3. Publish(ch, c, id, taken) = AndSend(header, part("Body"), taken)
  BY DEF Publish, part
<1> HIDE DEF method
<1>4. /\ Sends(ch, c, taken, header) /\ SamePromises(ch, header.ch)
      /\ Promises(header.ch, closed)
  BY <1>1, <1>2, AndSendSends, AndSendPromises
<1> HIDE DEF header
<1>5. LET s == AndSend(header, part("Body"), taken)
      IN  SamePromises(ch, s.ch) /\ Promises(s.ch, closed)
  BY <1>1, <1>4, AndSendPromises
<1> QED
  BY <1>3, <1>5, Zenon

\* push(deferred)
LEMMA PushFields ==
    ASSUME NEW c, NEW ch, IsChannel(ch, c), NEW d \in Deferreds
    PROVE  LET new == Push(ch, d)
           IN  /\ new.callbacks = Append(ch.callbacks, d)
               /\ new.requests = IF d.failed THEN ch.requests
                                 ELSE Append(ch.requests, d.id)
               /\ new.outcomes = ch.outcomes /\ new.accepted = ch.accepted
               /\ new.state = ch.state /\ Waiting(new) = Waiting(ch)
BY DEF Push, IsChannel, Waiting

\* What a request leaves of the promises: one of them more, or a Deferred
\* that failed.
AskedOnce(ch, new) ==
    /\ new.outcomes = ch.outcomes
    /\ \/ new.requests = ch.requests
       \/ \E id \in Nat : new.requests = Append(ch.requests, id)

\* A Deferred for a frame that was refused, or dropped.
LEMMA PushedKeeps ==
    ASSUME NEW c, NEW ch, IsChannel(ch, c), NEW closed \in BOOLEAN,
           Promises(ch, closed), NEW d \in Deferreds,
           \/ ch.state = "closed"
           \/ d.failed /\ NoMore(ch.state, Waiting(ch), closed)
           \/ ~ d.failed /\ ch.state = "closing"
    PROVE  AskedOnce(ch, Push(ch, d)) /\ Promises(Push(ch, d), closed)
<1> DEFINE new == Push(ch, d)
<1>1. /\ new.callbacks = Append(ch.callbacks, d)
      /\ new.requests = IF d.failed THEN ch.requests
                        ELSE Append(ch.requests, d.id)
      /\ new.outcomes = ch.outcomes /\ new.accepted = ch.accepted
      /\ new.state = ch.state /\ Waiting(new) = Waiting(ch)
  BY PushFields
<1>2. Kept(ch.callbacks, ch.accepted, ch.requests, ch.outcomes)
  BY DEF Promises
<1>3. d.id \in Nat /\ d.failed \in BOOLEAN
  BY DEF Deferreds
<1> HIDE DEF new
<1>4. AskedOnce(ch, new)
  BY <1>1, <1>3 DEF AskedOnce
<1>5. CASE d.failed
  <2>1. Kept(Append(ch.callbacks, d), ch.accepted, ch.requests, ch.outcomes)
    BY <1>2, <1>5, RequestRefusedClosed
  <2>2. ASSUME ch.state # "closed"
        PROVE  Owes(ch.state, Waiting(ch), closed, Append(ch.callbacks, d),
                    ch.accepted, ch.requests, ch.outcomes)
    <3>1. NoMore(ch.state, Waiting(ch), closed)
      BY <1>5, <2>2
    <3>2. Owes(ch.state, Waiting(ch), closed, ch.callbacks,
               ch.accepted, ch.requests, ch.outcomes)
      BY <2>2 DEF Promises
    <3> QED
      BY <1>2, <1>5, <3>1, <3>2, RequestRefused
  <2>3. new.requests = ch.requests
    BY <1>1, <1>5
  <2>4. Promises(new, closed)
    BY <1>1, <2>1, <2>2, <2>3, Zenon DEF Promises
  <2> QED
    BY <1>4, <2>4 DEF new
<1>6. CASE ~ d.failed
  <2>1. Kept(Append(ch.callbacks, d), ch.accepted, Append(ch.requests, d.id),
             ch.outcomes)
    BY <1>2, <1>6, RequestHeld
  <2>2. ASSUME ch.state # "closed"
        PROVE  Owes(ch.state, Waiting(ch), closed, Append(ch.callbacks, d),
                    ch.accepted, Append(ch.requests, d.id), ch.outcomes)
    <3>1. ch.state = "closing"
      BY <1>6, <2>2
    <3>2. Owes("closing", Waiting(ch), closed, ch.callbacks,
               ch.accepted, ch.requests, ch.outcomes)
      BY <2>2, <3>1 DEF Promises
    <3>3. Owes("closing", Waiting(ch), closed, Append(ch.callbacks, d),
               ch.accepted, Append(ch.requests, d.id), ch.outcomes)
      BY <1>2, <1>6, <3>2, RequestHeld
    <3> QED
      BY <3>1, <3>3
  <2>3. new.requests = Append(ch.requests, d.id)
    BY <1>1, <1>6
  <2>4. Promises(new, closed)
    BY <1>1, <2>1, <2>2, <2>3, Zenon DEF Promises
  <2> QED
    BY <1>4, <2>4 DEF new
<1> QED
  BY <1>3, <1>5, <1>6

\* push(frame): the Deferred of a request waits with its frame, or fails.
LEMMA RequestPromises ==
    ASSUME NEW c, NEW ch, IsChannel(ch, c), NEW frame \in FrameOf(c),
           frame.name \in AskedNames, NEW method,
           NEW taken \in BOOLEAN, NEW closed \in BOOLEAN,
           TakesUntilClosed(ch, closed, taken), Promises(ch, closed)
    PROVE  LET r == Request(ch, method, frame, taken)
               closing == [r.ch EXCEPT !.state = "closing"]
           IN  /\ AskedOnce(ch, r.ch)
               /\ frame.name # "ChannelClose" => Promises(r.ch, closed)
               /\ ~ r.ok => Promises(r.ch, closed)
               /\ r.ok /\ ch.state = "connected"
                  => AskedOnce(ch, closing) /\ Promises(closing, closed)
<1> DEFINE s == Send(ch, frame, taken)
           d == Deferred(method, frame.id, ~ s.ok)
           r == Request(ch, method, frame, taken)
           new == Push(s.ch, d)
           closing == [new EXCEPT !.state = "closing"]
<1>1. /\ IsChannel(s.ch, c) /\ s = Result(s.ok, s.ch, s.frames)
      /\ s.ok \in BOOLEAN
  BY SendSends DEF Sends, Leaves
<1>2. Refused(ch, taken, s) \/ Dropped(ch, s) \/ Accepted(ch, frame, taken, s)
  BY SendFields
<1>3. r = [s EXCEPT !.ch = new]
  BY DEF Request
<1> HIDE DEF s
<1>4. frame \in AFrame /\ frame.id \in Nat
  BY OwnAccepted
<1>5. d \in Deferreds /\ d.failed = ~ s.ok /\ d.id = frame.id
  <2>1. d \in Deferreds
    BY <1>1, <1>4, DeferredTyped
  <2> QED
    BY <2>1 DEF Deferred
<1> HIDE DEF d
<1>6. r.ch = new /\ r.ok = s.ok
  <2> HIDE DEF new
  <2>1. [s EXCEPT !.ch = new] = Result(s.ok, new, s.frames)
    BY <1>1, WithChannel
  <2> QED
    <3>1. r = Result(s.ok, new, s.frames)
      BY <1>3, <2>1
    <3> HIDE DEF r
    <3> QED
      BY ONLY <3>1 DEF Result
<1> HIDE DEF r
<1>7. CASE Refused(ch, taken, s) \/ Dropped(ch, s)
  <2>1. s.ch = ch
    BY <1>7 DEF Refused, Dropped
  <2>2. \/ ch.state = "closed"
        \/ d.failed /\ NoMore(ch.state, Waiting(ch), closed)
        \/ ~ d.failed /\ ch.state = "closing"
    BY <1>5, <1>7 DEF Refused, Dropped, NoMore, TakesUntilClosed
  <2>3. AskedOnce(ch, new) /\ Promises(new, closed)
    BY <1>5, <2>1, <2>2, PushedKeeps
  <2>4. ~ (s.ok /\ ch.state = "connected")
    BY <1>7 DEF Refused, Dropped
  <2> QED
    BY <1>6, <2>3, <2>4 DEF r
<1>8. CASE Accepted(ch, frame, taken, s)
  <2>1. /\ ch.state = "connected" /\ s.ok /\ SamePromises(ch, s.ch)
        /\ s.ch.accepted = Append(ch.accepted, frame)
        /\ ~ taken => Waiting(ch) /\ Waiting(s.ch)
    BY <1>8 DEF Accepted
  <2>2. /\ new.callbacks = Append(s.ch.callbacks, d)
        /\ new.requests = Append(s.ch.requests, d.id)
        /\ new.outcomes = s.ch.outcomes /\ new.accepted = s.ch.accepted
        /\ new.state = s.ch.state /\ Waiting(new) = Waiting(s.ch)
    <3>1. d.failed = FALSE
      BY <1>5, <2>1
    <3>2. /\ new.requests = IF d.failed THEN s.ch.requests
                            ELSE Append(s.ch.requests, d.id)
          /\ new.callbacks = Append(s.ch.callbacks, d)
          /\ new.outcomes = s.ch.outcomes /\ new.accepted = s.ch.accepted
          /\ new.state = s.ch.state /\ Waiting(new) = Waiting(s.ch)
      <4> DEFINE sent == s.ch
                 pushed == Push(sent, d)
      <4>1. IsChannel(sent, c) /\ d \in Deferreds
        BY <1>1, <1>5
      <4> HIDE DEF sent
      <4>2. /\ pushed.requests = IF d.failed THEN sent.requests
                                 ELSE Append(sent.requests, d.id)
            /\ pushed.callbacks = Append(sent.callbacks, d)
            /\ pushed.outcomes = sent.outcomes
            /\ pushed.accepted = sent.accepted
            /\ pushed.state = sent.state /\ Waiting(pushed) = Waiting(sent)
        BY <4>1, PushFields
      <4> QED
        BY <4>2, Zenon DEF sent
    <3> HIDE DEF new
    <3> QED
      BY <3>1, <3>2, Zenon
  <2>3. IsChannel(new, c)
    BY <1>1, <1>5, PushSame
  <2> HIDE DEF new
  <2>4. /\ closing.callbacks = new.callbacks /\ closing.requests = new.requests
        /\ closing.outcomes = new.outcomes /\ closing.accepted = new.accepted
        /\ closing.state = "closing"
    BY <2>3 DEF IsChannel
  <2> HIDE DEF closing
  <2>5. /\ Kept(ch.callbacks, ch.accepted, ch.requests, ch.outcomes)
        /\ Owes("connected", Waiting(ch), closed, ch.callbacks, ch.accepted,
                ch.requests, ch.outcomes)
    BY <2>1 DEF Promises
  <2>6. closed => Waiting(ch) /\ Waiting(new)
    BY <2>1, <2>2 DEF TakesUntilClosed
  <2>7. ~ d.failed
    BY <1>5, <2>1
  <2> DEFINE chain == Append(ch.callbacks, d)
             more == Append(ch.accepted, frame)
             asked == Append(ch.requests, frame.id)
  <2>8. /\ Kept(chain, more, asked, ch.outcomes)
        /\ frame.name # "ChannelClose"
           => Owes("connected", Waiting(new), closed, chain, more, asked,
                   ch.outcomes)
    <3>1. CASE frame.name # "ChannelClose"
      BY <1>4, <1>5, <2>5, <2>6, <2>7, <3>1, AskedAccepted, ZenonT(60)
    <3>2. CASE frame.name = "ChannelClose"
      BY <1>4, <1>5, <2>5, <2>6, <2>7, <3>2, AskedAccepted, ZenonT(60)
    <3> QED
      BY <3>1, <3>2
  <2>9. Owes("closing", Waiting(closing), closed, chain, more, asked,
             ch.outcomes)
    BY <1>4, <1>5, <2>5, <2>6, <2>7, AskedAccepted
  <2> HIDE DEF chain, more, asked
  <2>10. /\ new.callbacks = chain /\ new.requests = asked
         /\ new.accepted = more /\ new.outcomes = ch.outcomes
         /\ new.state = "connected"
    BY <1>5, <2>1, <2>2 DEF SamePromises, chain, asked, more
  <2>11. frame.name # "ChannelClose" => Promises(new, closed)
    BY <2>8, <2>10, Zenon DEF Promises
  <2>12. Promises(closing, closed)
    BY <2>4, <2>8, <2>9, <2>10, Zenon DEF Promises
  <2>13. AskedOnce(ch, new) /\ AskedOnce(ch, closing)
    BY <1>4, <2>4, <2>10 DEF AskedOnce, asked
  <2>14. r.ch = new /\ r.ok = s.ok /\ s.ok
    BY <1>6, <2>1
  <2> QED
    BY <2>11, <2>12, <2>13, <2>14, Zenon DEF r, closing
<1> QED
  BY <1>2, <1>7, <1>8, Zenon DEF r

\* close() of a channel asks for its end, once.
LEMMA CloseChannelPromises ==
    ASSUME NEW c, NEW ch, IsChannel(ch, c), NEW frame \in FrameOf(c),
           frame.name = "ChannelClose",
           NEW taken \in BOOLEAN, NEW closed \in BOOLEAN,
           TakesUntilClosed(ch, closed, taken), Promises(ch, closed)
    PROVE  LET r == CloseChannel(ch, frame, taken)
           IN  AskedOnce(ch, r.ch) /\ Promises(r.ch, closed)
<1>1. CASE ch.state # "connected"
  <2> DEFINE d == Deferred("close", frame.id, ch.state = "closing")
  <2>1. d \in Deferreds
    BY OwnAccepted, DeferredTyped
  <2>2. d.failed = (ch.state = "closing")
    BY DEF Deferred
  <2>3. CloseChannel(ch, frame, taken) = Result(TRUE, Push(ch, d), <<>>)
    BY <1>1 DEF CloseChannel
  <2> HIDE DEF d
  <2>4. ch.state \in {"closing", "closed"}
    BY <1>1 DEF IsChannel
  <2>5. AskedOnce(ch, Push(ch, d)) /\ Promises(Push(ch, d), closed)
    BY <2>1, <2>2, <2>4, PushedKeeps DEF NoMore
  <2> QED
    <3> DEFINE p == Push(ch, d)
    <3>1. Result(TRUE, p, <<>>).ch = p
      BY ONLY TRUE DEF Result
    <3> QED
      BY <2>3, <2>5, <3>1
<1>2. CASE ch.state = "connected"
  <2> DEFINE r == Request(ch, "close", frame, taken)
             closing == [r.ch EXCEPT !.state = "closing"]
  <2>1. frame.name \in AskedNames
    BY DEF AskedNames
  <2>2. /\ AskedOnce(ch, r.ch)
        /\ ~ r.ok => Promises(r.ch, closed)
        /\ r.ok => AskedOnce(ch, closing) /\ Promises(closing, closed)
    BY <1>2, <2>1, RequestPromises
  <2>3. r = Result(r.ok, r.ch, r.frames)
    BY RequestSends DEF Sends, Leaves
  <2>4. CloseChannel(ch, frame, taken)
            = IF r.ok THEN [r EXCEPT !.ch.state = "closing"] ELSE r
    BY <1>2 DEF CloseChannel
  <2> HIDE DEF r
  <2>5. [r EXCEPT !.ch.state = "closing"].ch = closing
    <3>1. [r EXCEPT !.ch.state = "closing"] = Result(r.ok, closing, r.frames)
      BY <2>3, WithChannelState
    <3> HIDE DEF closing
    <3> QED
      BY ONLY <3>1 DEF Result
  <2> HIDE DEF closing
  <2> QED
    BY <2>2, <2>4, <2>5, Zenon
<1> QED
  BY <1>1, <1>2

----------------------------------------------------------------------------
\* OUTCOMES.  The requests behind the first k fail.
Rest(requests, k) ==
    [n \in 1..(Len(requests) - k) |-> <<requests[k + n], "error">>]

\* The outcomes that RequestService allows, when p requests are performed.
Result_(requests, s, last) ==
    [n \in 1..last |-> <<requests[n], IF n <= s THEN "success" ELSE "error">>]
AllSettled(requests, outcomes, s) ==
    outcomes \o SubSeq(Result_(requests, s, Len(requests)), Len(outcomes) + 1,
                       Len(requests))
SomeSettled(requests, outcomes, s) ==
    outcomes \o SubSeq(Result_(requests, s, s), Len(outcomes) + 1, s)
Fates(requests, outcomes, p) ==
    {outcomes}
    \cup {AllSettled(requests, outcomes, s) : s \in Len(outcomes)..p}
    \cup {SomeSettled(requests, outcomes, s) : s \in Len(outcomes)..p}

\* A part of such outcomes: the count ones behind the first k.
PartOf(req, s, k, count) ==
    [n \in 1..count |->
        <<req[k + n], IF k + n <= s THEN "success" ELSE "error">>]

\* The end of such outcomes is a part of them.
LEMMA ResultPart ==
    ASSUME NEW req \in Seq(Nat), NEW s \in Nat, NEW last \in 0..Len(req),
           NEW k \in 0..last
    PROVE  SubSeq(Result_(req, s, last), k + 1, last) =
               PartOf(req, s, k, last - k)
<1> DEFINE all == Result_(req, s, last)
           part == SubSeq(all, k + 1, last)
<1>1. last \in Nat /\ k \in Nat /\ k <= last /\ Len(req) \in Nat
  OBVIOUS
<1>2. \A n \in (k + 1)..last : all[n] \in Settled
  BY <1>1 DEF Result_, Settled
<1>3. \A n \in 1..(last - k) : k + n \in 1..last
  BY <1>1
<1>4. \A n \in 1..last :
          all[n] = <<req[n], IF n <= s THEN "success" ELSE "error">>
  BY DEF Result_
<1> HIDE DEF all
<1>5. /\ part \in Seq(Settled)
      /\ Len(part) = last - k
      /\ \A n \in 1..(last - k) : part[n] = all[k + n]
  <2>1. k + 1 \in Int /\ last \in Int
    BY <1>1
  <2>2. /\ part \in Seq(Settled)
        /\ Len(part) = IF k + 1 <= last THEN last - (k + 1) + 1 ELSE 0
        /\ \A n \in 1..last - (k + 1) + 1 : part[n] = all[k + 1 + n - 1]
    BY <1>2, <2>1, SubSeqProperties
  <2> HIDE DEF part
  <2>3. last - (k + 1) + 1 = last - k
        /\ \A n \in 1..(last - k) : k + 1 + n - 1 = k + n
    BY <1>1
  <2>4. Len(part) = last - k
    BY <1>1, <2>2
  <2>5. \A n \in 1..(last - k) : part[n] = all[k + n]
    BY <2>2, <2>3
  <2> QED
    BY <2>2, <2>4, <2>5
<1>6. \A n \in 1..(last - k) : part[n] =
          <<req[k + n], IF k + n <= s THEN "success" ELSE "error">>
  BY <1>3, <1>4, <1>5
<1> HIDE DEF part
<1>7. part = [n \in 1..(last - k) |-> part[n]]
  BY <1>5
<1>8. part = [n \in 1..(last - k) |->
                  <<req[k + n], IF k + n <= s THEN "success" ELSE "error">>]
  BY <1>6, <1>7
<1> QED
  BY <1>8 DEF part, all, PartOf

\* Outcomes may be joined in any order.
LEMMA SettledAssociative ==
    \A x, y, z \in Seq(Settled) : (x \o y) \o z = x \o (y \o z)
BY Associative, SMTT(30)

\* Nothing happens.
LEMMA FateOfNothing ==
    ASSUME NEW req, NEW out, NEW p
    PROVE  out \in Fates(req, out, p)
BY DEF Fates

\* The oldest request succeeds.
LEMMA FateOfSuccess ==
    ASSUME NEW req \in Seq(Nat), NEW out \in Seq(Settled), NEW p \in Nat,
           Len(out) + 1 <= p, Len(out) + 1 <= Len(req)
    PROVE  Append(out, <<req[Len(out) + 1], "success">>) \in Fates(req, out, p)
<1> DEFINE k == Len(out)
           x == <<req[k + 1], "success">>
           part == SubSeq(Result_(req, k + 1, k + 1), k + 1, k + 1)
<1>1. k \in Nat /\ k + 1 \in k..p /\ k + 1 \in 0..Len(req) /\ k \in 0..(k + 1)
  OBVIOUS
<1>2. part = [n \in 1..((k + 1) - k) |->
                 <<req[k + n], IF k + n <= k + 1 THEN "success" ELSE "error">>]
  <2> DEFINE m == k + 1
  <2>1. m \in Nat /\ m \in 0..Len(req) /\ k \in 0..m
    BY <1>1
  <2> HIDE DEF k, m
  <2>2. SubSeq(Result_(req, m, m), k + 1, m) = PartOf(req, m, k, m - k)
    BY <2>1, ResultPart, Zenon
  <2> QED
    BY <2>2, Zenon DEF m, PartOf
<1>3. x \in Settled
  BY <1>1 DEF Settled
<1>4. part = <<x>>
  <2>1. (k + 1) - k = 1 /\ \A n \in 1..1 : k + n = k + 1 /\ k + n <= k + 1
    BY <1>1
  <2>2. part = [n \in 1..1 |-> x]
    BY <1>2, <2>1
  <2> HIDE DEF x, part
  <2> QED
    BY <2>2
<1>5. out \o part \in Fates(req, out, p)
  <2>1. SomeSettled(req, out, k + 1) = out \o part
    BY DEF SomeSettled
  <2> HIDE DEF part
  <2>2. SomeSettled(req, out, k + 1) \in Fates(req, out, p)
    BY <1>1 DEF Fates
  <2> QED
    BY <2>1, <2>2
<1> HIDE DEF x, part
<1>6. Append(out, x) = out \o <<x>>
  BY <1>3
<1> QED
  BY <1>4, <1>5, <1>6 DEF x

\* They all fail.
LEMMA FateOfError ==
    ASSUME NEW req \in Seq(Nat), NEW out \in Seq(Settled), NEW p \in Nat,
           Len(out) <= p, Len(out) <= Len(req)
    PROVE  out \o Rest(req, Len(out)) \in Fates(req, out, p)
<1> DEFINE k == Len(out)
           last == Len(req)
           part == SubSeq(Result_(req, k, last), k + 1, last)
<1>1. k \in Nat /\ k \in k..p /\ last \in 0..Len(req) /\ k \in 0..last
  OBVIOUS
<1>2. part = [n \in 1..(last - k) |->
                 <<req[k + n], IF k + n <= k THEN "success" ELSE "error">>]
  <2> HIDE DEF k, last
  <2>1. k \in Nat
    BY <1>1
  <2>2. SubSeq(Result_(req, k, last), k + 1, last) = PartOf(req, k, k, last - k)
    BY <1>1, <2>1, ResultPart, Zenon
  <2> QED
    BY <2>2, Zenon DEF PartOf
<1>3. part = Rest(req, k)
  <2>1. \A n \in 1..(last - k) : ~ (k + n <= k)
    BY <1>1
  <2> QED
    BY <1>2, <2>1 DEF Rest
<1>4. out \o part \in Fates(req, out, p)
  <2>1. AllSettled(req, out, k) = out \o part
    BY DEF AllSettled
  <2> HIDE DEF part
  <2>2. AllSettled(req, out, k) \in Fates(req, out, p)
    BY <1>1 DEF Fates
  <2> QED
    BY <2>1, <2>2
<1> QED
  BY <1>3, <1>4, Zenon

\* The oldest succeeds and all the others fail.
LEMMA FateOfClose ==
    ASSUME NEW req \in Seq(Nat), NEW out \in Seq(Settled), NEW p \in Nat,
           Len(out) + 1 <= p, Len(out) + 1 <= Len(req)
    PROVE  Append(out, <<req[Len(out) + 1], "success">>)
               \o Rest(req, Len(out) + 1) \in Fates(req, out, p)
<1> DEFINE k == Len(out)
           last == Len(req)
           x == <<req[k + 1], "success">>
           rest == Rest(req, k + 1)
           part == SubSeq(Result_(req, k + 1, last), k + 1, last)
<1>1. k \in Nat /\ k + 1 \in k..p /\ last \in 0..Len(req) /\ k \in 0..last
      /\ last \in Nat /\ k + 1 <= last
  OBVIOUS
<1>2. part = [n \in 1..(last - k) |->
                 <<req[k + n], IF k + n <= k + 1 THEN "success" ELSE "error">>]
  <2> DEFINE m == k + 1
  <2>1. m \in Nat /\ last \in 0..Len(req) /\ k \in 0..last
    BY <1>1
  <2> HIDE DEF k, last, m
  <2>2. SubSeq(Result_(req, m, last), k + 1, last) = PartOf(req, m, k, last - k)
    BY <2>1, ResultPart, Zenon
  <2> QED
    BY <2>2, Zenon DEF m, PartOf
<1>3. x \in Settled
  BY <1>1 DEF Settled
<1>4. rest = [n \in 1..(last - (k + 1)) |-> <<req[(k + 1) + n], "error">>]
  BY DEF Rest
<1>5. \A n \in 1..(last - (k + 1)) : <<req[(k + 1) + n], "error">> \in Settled
  BY <1>1 DEF Settled
<1>6. rest \in Seq(Settled) /\ Len(rest) = last - (k + 1)
  <2> DEFINE m == last - (k + 1)
  <2>1. m \in Nat
    BY <1>1
  <2>2. \A n \in 1..m : <<req[(k + 1) + n], "error">> \in Settled
    BY <1>5
  <2>3. rest = [n \in 1..m |-> <<req[(k + 1) + n], "error">>]
    BY <1>4
  <2> HIDE DEF m, rest, k
  <2>4. rest \in Seq(Settled) /\ Len(rest) = m
    BY <2>1, <2>2, <2>3
  <2> QED
    BY <2>4 DEF m
<1>7. part = <<x>> \o rest
  <2>1. <<x>> \o rest = [n \in 1..(Len(<<x>>) + Len(rest)) |->
            IF n <= Len(<<x>>) THEN <<x>>[n] ELSE rest[n - Len(<<x>>)]]
    <3>1. <<x>> \in Seq(Settled)
      BY <1>3
    <3> HIDE DEF x, rest
    <3> QED
      BY <1>6, <3>1, ConcatIs, ZenonT(60)
  <2>2. Len(<<x>>) + Len(rest) = last - k /\ Len(<<x>>) = 1 /\ <<x>>[1] = x
    BY <1>1, <1>6
  <2>3. <<x>> \o rest = [n \in 1..(last - k) |->
            IF n <= 1 THEN <<x>>[n] ELSE rest[n - 1]]
    BY <2>1, <2>2
  <2>4. ASSUME NEW n \in 1..(last - k)
        PROVE  (IF n <= 1 THEN <<x>>[n] ELSE rest[n - 1])
               = <<req[k + n], IF k + n <= k + 1 THEN "success" ELSE "error">>
    <3>1. CASE n = 1
      BY <1>1, <2>2, <3>1
    <3>2. CASE n # 1
      <4>1. n - 1 \in 1..(last - (k + 1)) /\ (k + 1) + (n - 1) = k + n
            /\ ~ (n <= 1) /\ ~ (k + n <= k + 1)
        BY <1>1, <3>2
      <4> QED
        BY <1>4, <4>1
    <3> QED
      BY <3>1, <3>2
  <2> HIDE DEF x, rest, part
  <2> QED
    BY <1>2, <2>3, <2>4
<1>8. out \o part \in Fates(req, out, p)
  <2>1. AllSettled(req, out, k + 1) = out \o part
    BY DEF AllSettled
  <2> HIDE DEF part
  <2>2. AllSettled(req, out, k + 1) \in Fates(req, out, p)
    BY <1>1 DEF Fates
  <2> QED
    BY <2>1, <2>2
<1>9. Append(out, x) \o rest = out \o (<<x>> \o rest)
  <2> DEFINE y == <<x>>
  <2> HIDE DEF x, rest
  <2>1. Append(out, x) = out \o y /\ y \in Seq(Settled)
    BY <1>3
  <2>2. rest \in Seq(Settled)
    BY <1>6
  <2> HIDE DEF y
  <2>3. (out \o y) \o rest = out \o (y \o rest)
    BY <2>1, <2>2, SettledAssociative, Zenon
  <2> QED
    BY <2>1, <2>3, Zenon DEF y
<1> QED
  BY <1>7, <1>8, <1>9, Zenon

\* The failures of what waits are those of the rest of the requests.
LEMMA RestFails ==
    ASSUME NEW cb, NEW acc, NEW req, NEW out, Kept(cb, acc, req, out)
    PROVE  Failures(cb) = Rest(req, Len(out))
<1> DEFINE x == IdsOf(out)
           y == Pending(cb)
<1>1. /\ x \in Seq(Nat) /\ y \in Seq(Nat) /\ Len(x) = Len(out)
      /\ cb \in Seq(Deferreds) /\ Len(req) = Len(out) + Len(y)
      /\ Len(out) \in Nat /\ Len(y) \in Nat
  BY KeptTypes
<1>2. req = x \o y
  BY DEF Kept
<1>3. Failures(cb) = [n \in 1..Len(y) |-> <<y[n], "error">>]
  BY <1>1, FailuresAre DEF Paired
<1> HIDE DEF x, y
<1>4. x \o y = [n \in 1..(Len(x) + Len(y)) |->
                   IF n <= Len(x) THEN x[n] ELSE y[n - Len(x)]]
  BY <1>1, ConcatIs
<1>5. \A n \in 1..Len(y) : req[Len(out) + n] = y[n]
  <2> TAKE n \in 1..Len(y)
  <2>1. Len(out) + n \in 1..(Len(x) + Len(y)) /\ ~ (Len(out) + n <= Len(x))
        /\ (Len(out) + n) - Len(x) = n
    BY <1>1
  <2> QED
    BY <1>2, <1>4, <2>1
<1>6. Len(req) - Len(out) = Len(y)
  BY <1>1
<1> QED
  BY <1>3, <1>5, <1>6 DEF Rest

----------------------------------------------------------------------------
\* WHAT A FRAME OF THE SERVER DOES TO A CHANNEL.  Most settle nothing.
LEMMA UnaskedTwice ==
    ASSUME NEW ch, NEW s, NEW r, Unasked(ch, s), Unasked(s, r)
    PROVE  Unasked(ch, r)
BY DEF Unasked, SamePromises

\* Nothing at all.
LEMMA UnaskedSame ==
    ASSUME NEW ch
    PROVE  Unasked(ch, ch)
BY DEF Unasked, SamePromises

\* onSynchronized()
LEMMA OnSynchronizedUnasked ==
    ASSUME NEW c, NEW ch, IsChannel(ch, c), ch.state # "closed"
    PROVE  Unasked(ch, OnSynchronized(ch).ch)
<1> DEFINE r == OnSynchronized(ch)
<1>1. PICK sync, queue, frames :
          r = Result(TRUE, [ch EXCEPT !.synchronous = sync, !.queue = queue],
                     frames)
  BY Zenon DEF OnSynchronized
<1>2. ~ Waiting(ch) => ~ Waiting(r.ch)
  BY OnSynchronizedFrees DEF Frees, StaysQuiet
<1> HIDE DEF r
<1> DEFINE new == [ch EXCEPT !.synchronous = sync, !.queue = queue]
<1>3. r = Result(TRUE, new, frames)
  BY <1>1
<1>4. SamePromises(ch, new) /\ new.accepted = ch.accepted
  BY DEF IsChannel, SamePromises
<1> HIDE DEF new
<1>5. r.ch = new
  BY ONLY <1>3 DEF Result
<1> QED
  BY <1>2, <1>4, <1>5 DEF Unasked, r

\* message(frame)
LEMMA MessageUnasked ==
    ASSUME NEW c, NEW ch, IsChannel(ch, c), NEW message
    PROVE  Unasked(ch, [ch EXCEPT !.message = message])
BY DEF IsChannel, Unasked, SamePromises, Waiting

\* A new message.
LEMMA SetMessageUnasked ==
    ASSUME NEW c, NEW ch, IsChannel(ch, c), NEW id, NEW consumer
    PROVE  Unasked(ch, SetMessage(ch, id, consumer))
BY MessageUnasked DEF SetMessage

\* reportMessage()
LEMMA ReportMessageUnasked ==
    ASSUME NEW c, NEW ch, IsChannel(ch, c), ch.state # "closed"
    PROVE  Unasked(ch, ReportMessage(ch).ch)
<1> DEFINE r == IF ch.message.consumer = "" THEN OnSynchronized(ch)
                                            ELSE Result(TRUE, ch, <<>>)
           reported == Append(r.ch.reported,
                              <<ch.message.id, ch.message.received>>)
           consumers == r.ch.consumers \ ({""} \cap {ch.message.consumer})
           new == [r.ch EXCEPT !.reported = reported, !.consumers = consumers,
                               !.message = NoMessage]
<1>1. Frees(ch, c, r)
  BY OnSynchronizedFrees, NothingFrees
<1>2. Unasked(ch, r.ch)
  <2>1. CASE ch.message.consumer = ""
    BY <2>1, OnSynchronizedUnasked
  <2>2. CASE ch.message.consumer # ""
    <3>1. r = Result(TRUE, ch, <<>>)
      BY <2>2
    <3> HIDE DEF r
    <3>2. r.ch = ch
      BY ONLY <3>1 DEF Result
    <3> QED
      BY <3>2, UnaskedSame
  <2> QED
    BY <2>1, <2>2
<1>3. ReportMessage(ch) =
          IF ch.message.consumer \notin ch.consumers THEN r
          ELSE [r EXCEPT !.ch = new]
  BY DEF ReportMessage
<1> HIDE DEF r
<1>4. r = Result(r.ok, r.ch, r.frames) /\ IsChannel(r.ch, c)
  BY <1>1 DEF Frees, Leaves
<1> HIDE DEF reported, consumers
<1>5. Unasked(r.ch, new)
  BY <1>4 DEF IsChannel, Unasked, SamePromises, Waiting
<1> HIDE DEF new
<1>6. [r EXCEPT !.ch = new].ch = new
  <2>1. [r EXCEPT !.ch = new] = Result(r.ok, new, r.frames)
    BY <1>4, WithChannel
  <2> QED
    BY ONLY <2>1 DEF Result
<1>7. Unasked(ch, new)
  BY <1>2, <1>5, UnaskedTwice
<1> QED
  BY <1>2, <1>3, <1>6, <1>7, Zenon

\* BasicHeaderFrame::process
LEMMA ProcessHeaderUnasked ==
    ASSUME NEW c, NEW ch, IsChannel(ch, c), ch.state # "closed",
           NEW size \in Nat
    PROVE  Unasked(ch, ProcessHeader(ch, size).ch)
<1> DEFINE message == [ch.message EXCEPT !.bodySize = size]
           sized == [ch EXCEPT !.message = message]
<1>1. ch.message \in Messages
  BY DEF IsChannel
<1>2. message \in Messages
  BY <1>1 DEF Messages
<1> HIDE DEF message
<1>3. IsChannel(sized, c) /\ Unasked(ch, sized) /\ sized.state # "closed"
  BY <1>2, MessageSame, MessageUnasked
<1>4. ProcessHeader(ch, size) =
          IF ch.message = NoMessage THEN Result(FALSE, ch, <<>>)
          ELSE IF size = 0 THEN ReportMessage(sized)
          ELSE Result(TRUE, sized, <<>>)
  BY DEF ProcessHeader, message
<1> HIDE DEF sized
<1>5. Unasked(ch, ReportMessage(sized).ch)
  <2>1. Unasked(sized, ReportMessage(sized).ch)
    BY <1>3, ReportMessageUnasked
  <2> QED
    BY <1>3, <2>1, UnaskedTwice
<1>6. Result(FALSE, ch, <<>>).ch = ch /\ Result(TRUE, sized, <<>>).ch = sized
  BY ONLY TRUE DEF Result
<1>7. Unasked(ch, ch)
  BY UnaskedSame
<1> QED
  BY <1>3, <1>4, <1>5, <1>6, <1>7, Zenon

\* BodyFrame::process
LEMMA ProcessBodyUnasked ==
    ASSUME NEW c, NEW ch, IsChannel(ch, c), ch.state # "closed",
           NEW size \in Nat
    PROVE  Unasked(ch, ProcessBody(ch, size).ch)
<1> DEFINE message == AppendBody(ch.message, size)
           more == [ch EXCEPT !.message = message]
<1>1. ch.message \in Messages
  BY DEF IsChannel
<1>2. message \in Messages
  <2> DEFINE m == ch.message
             received == IF m.received + size > m.bodySize THEN m.bodySize
                         ELSE m.received + size
  <2>1. m.received \in Nat /\ m.bodySize \in Nat
    BY <1>1 DEF Messages
  <2>2. received \in Nat
    BY <2>1
  <2>3. message = [m EXCEPT !.received = received]
    BY DEF AppendBody
  <2> HIDE DEF received
  <2> QED
    BY <1>1, <2>2, <2>3 DEF Messages
<1> HIDE DEF message
<1>3. IsChannel(more, c) /\ Unasked(ch, more) /\ more.state # "closed"
  BY <1>2, MessageSame, MessageUnasked
<1>4. ProcessBody(ch, size) =
          IF ch.message = NoMessage THEN Result(FALSE, ch, <<>>)
          ELSE IF more.message.received < more.message.bodySize
               THEN Result(TRUE, more, <<>>) ELSE ReportMessage(more)
  BY DEF ProcessBody, message
<1> HIDE DEF more
<1>5. Unasked(ch, ReportMessage(more).ch)
  <2>1. Unasked(more, ReportMessage(more).ch)
    BY <1>3, ReportMessageUnasked
  <2> QED
    BY <1>3, <2>1, UnaskedTwice
<1>6. Result(FALSE, ch, <<>>).ch = ch /\ Result(TRUE, more, <<>>).ch = more
  BY ONLY TRUE DEF Result
<1>7. Unasked(ch, ch)
  BY UnaskedSame
<1> QED
  BY <1>3, <1>4, <1>5, <1>6, <1>7, Zenon

\* What Promises says of every channel, and of one that fails.
KeptBy(ch) == Kept(ch.callbacks, ch.accepted, ch.requests, ch.outcomes)

\* The oldest Deferred of a channel, if it has one, can succeed.
NextSucceeds(ch) == ch.callbacks # <<>> => ~ Head(ch.callbacks).failed

\* What reportSuccess() does to the outcomes.
Succeeded(ch, new) ==
    /\ new.requests = ch.requests /\ new.accepted = ch.accepted
    /\ \/ new.outcomes = ch.outcomes
       \/ /\ Len(ch.outcomes) + 1 <= Len(ch.requests)
          /\ new.outcomes = Append(ch.outcomes,
                                   <<ch.requests[Len(ch.outcomes) + 1],
                                     "success">>)
          /\ Len(new.outcomes) = Len(ch.outcomes) + 1

\* reportSuccess() of a channel whose oldest Deferred can succeed.
LEMMA ReportSuccessKept ==
    ASSUME NEW c, NEW ch, IsChannel(ch, c), KeptBy(ch), NextSucceeds(ch),
           NEW withCount
    PROVE  LET new == ReportSuccess(ch, withCount)
           IN  /\ KeptBy(new) /\ Succeeded(ch, new)
               /\ \A closed : Promises(ch, closed) => Promises(new, closed)
<1>1. CASE ch.callbacks = <<>>
  BY <1>1 DEF ReportSuccess, Succeeded
<1>2. CASE ch.callbacks # <<>>
  <2> DEFINE oldest == Head(ch.callbacks)
             consumers == CASE oldest.class = "consume" -> ch.consumers \cup {"tag"}
                            [] oldest.class = "cancel" -> ch.consumers \ {"tag"}
                            [] oldest.class = "get"
                            /\ withCount -> ch.consumers \cup {""}
                            [] OTHER -> ch.consumers
             outcomes == Append(ch.outcomes, <<oldest.id, "success">>)
             rest == Tail(ch.callbacks)
             new == [ch EXCEPT !.callbacks = rest, !.outcomes = outcomes,
                               !.consumers = consumers]
  <2>1. ReportSuccess(ch, withCount) = new
    BY <1>2 DEF ReportSuccess
  <2>2. ~ oldest.failed
    BY <1>2 DEF NextSucceeds
  <2>3. /\ Kept(rest, ch.accepted, ch.requests, outcomes)
        /\ Len(outcomes) = Len(ch.outcomes) + 1
        /\ Len(outcomes) <= Len(ch.requests)
        /\ ch.requests[Len(ch.outcomes) + 1] = oldest.id
        /\ \A state, w, closed :
              Owes(state, w, closed, ch.callbacks, ch.accepted, ch.requests,
                   ch.outcomes)
              => Owes(state, w, closed, rest, ch.accepted, ch.requests,
                      outcomes)
    BY <1>2, <2>2, Succeeds DEF KeptBy
  <2>4. outcomes = Append(ch.outcomes, <<oldest.id, "success">>)
    OBVIOUS
  <2> HIDE DEF consumers, outcomes, rest, oldest
  <2>5. /\ new.callbacks = rest /\ new.outcomes = outcomes
        /\ new.state = ch.state /\ new.accepted = ch.accepted
        /\ new.requests = ch.requests /\ Waiting(new) = Waiting(ch)
    BY DEF IsChannel, Waiting
  <2> HIDE DEF new
  <2>6. KeptBy(new)
    BY <2>3, <2>5 DEF KeptBy
  <2>7. Succeeded(ch, new)
    BY <2>3, <2>4, <2>5 DEF Succeeded
  <2>8. ASSUME NEW closed, Promises(ch, closed) PROVE Promises(new, closed)
    BY <2>3, <2>5, <2>8 DEF Promises
  <2> QED
    BY <2>1, <2>6, <2>7, <2>8
<1> QED
  BY <1>1, <1>2

\* No outcome is without a request.
LEMMA KeptLengths ==
    ASSUME NEW cb, NEW acc, NEW req, NEW out, Kept(cb, acc, req, out)
    PROVE  Len(out) <= Len(req)
<1>1. /\ Len(req) = Len(out) + Len(Pending(cb))
      /\ Len(out) \in Nat /\ Len(Pending(cb)) \in Nat
  BY KeptTypes
<1> QED
  BY <1>1

\* What reportError() does to the outcomes.
Failed(ch, new) ==
    /\ new.requests = ch.requests /\ new.accepted = ch.accepted
    /\ Len(ch.outcomes) <= Len(ch.requests)
    /\ new.outcomes = ch.outcomes \o Rest(ch.requests, Len(ch.outcomes))

\* reportError() keeps what is promised.
LEMMA ReportErrorKept ==
    ASSUME NEW c, NEW ch, IsChannel(ch, c), KeptBy(ch)
    PROVE  LET new == ReportError(ch)
           IN  /\ KeptBy(new) /\ Failed(ch, new)
               /\ \A closed : Promises(new, closed)
<1> DEFINE outcomes == ch.outcomes \o Failures(ch.callbacks)
           new == [ch EXCEPT !.state = "closed", !.synchronous = FALSE,
                             !.queue = <<>>, !.callbacks = <<>>,
                             !.outcomes = outcomes]
<1>1. ReportError(ch) = new
  BY DEF ReportError
<1>2. Kept(<<>>, ch.accepted, ch.requests, outcomes)
  BY Fails DEF KeptBy
<1>3. Failures(ch.callbacks) = Rest(ch.requests, Len(ch.outcomes))
      /\ Len(ch.outcomes) <= Len(ch.requests)
  <2>1. Kept(ch.callbacks, ch.accepted, ch.requests, ch.outcomes)
    BY DEF KeptBy
  <2>2. Failures(ch.callbacks) = Rest(ch.requests, Len(ch.outcomes))
    BY <2>1, RestFails
  <2>3. Len(ch.outcomes) <= Len(ch.requests)
    BY <2>1, KeptLengths
  <2> QED
    BY <2>2, <2>3, Zenon
<1>4. outcomes = ch.outcomes \o Rest(ch.requests, Len(ch.outcomes))
  BY <1>3
<1> HIDE DEF outcomes
<1>5. /\ new.callbacks = <<>> /\ new.outcomes = outcomes
      /\ new.state = "closed" /\ new.accepted = ch.accepted
      /\ new.requests = ch.requests
  BY DEF IsChannel
<1> HIDE DEF new
<1>6. KeptBy(new)
  BY <1>2, <1>5 DEF KeptBy
<1>7. Failed(ch, new)
  BY <1>3, <1>4, <1>5 DEF Failed
<1>8. \A closed : Promises(new, closed)
  BY <1>5, <1>6 DEF Promises, KeptBy
<1> QED
  BY <1>1, <1>6, <1>7, <1>8

\* reportClosed(): close() succeeds and what is behind it fails.
LEMMA ReportClosedKept ==
    ASSUME NEW c, NEW ch, IsChannel(ch, c), KeptBy(ch), NextSucceeds(ch)
    PROVE  LET new == ReportClosed(ch)
           IN  /\ KeptBy(new) /\ \A closed : Promises(new, closed)
               /\ \E mid : Succeeded(ch, mid) /\ Failed(mid, new)
<1> DEFINE closed == [ch EXCEPT !.state = "closed", !.synchronous = FALSE]
           mid == ReportSuccess(closed, FALSE)
           new == ReportError(mid)
<1>1. /\ IsChannel(closed, c) /\ closed.accepted = ch.accepted
      /\ closed.callbacks = ch.callbacks /\ closed.requests = ch.requests
      /\ closed.outcomes = ch.outcomes
  BY DEF IsChannel
<1>2. ReportClosed(ch) = new
  BY DEF ReportClosed
<1> HIDE DEF closed
<1>3. KeptBy(closed) /\ NextSucceeds(closed)
  BY <1>1 DEF KeptBy, NextSucceeds
<1>4. IsChannel(mid, c) /\ KeptBy(mid) /\ Succeeded(closed, mid)
  BY <1>1, <1>3, ReportSuccessSame, ReportSuccessKept
<1>5. Succeeded(ch, mid)
  BY <1>1, <1>4 DEF Succeeded
<1> HIDE DEF mid
<1>6. /\ KeptBy(new) /\ Failed(mid, new)
      /\ \A x : Promises(new, x)
  BY <1>4, ReportErrorKept
<1> HIDE DEF new
<1> QED
  BY <1>2, <1>5, <1>6

\* A channel whose next request the server has answered.
LEMMA AnsweredSucceeds ==
    ASSUME NEW ch, NEW closed, Promises(ch, closed), ch.state # "closed",
           Len(ch.outcomes) + 1 <= Len(AskedIn(ch.accepted))
    PROVE  NextSucceeds(ch)
<1> SUFFICES ASSUME ch.callbacks # <<>>, Head(ch.callbacks).failed
             PROVE  FALSE
  BY DEF NextSucceeds
<1>1. ch.callbacks \in Seq(Deferreds) /\ Len(ch.outcomes) \in Nat
      /\ Len(AskedIn(ch.accepted)) \in Nat
  BY KeptTypes DEF Promises
<1>2. 1 \in 1..Len(ch.callbacks) /\ ch.callbacks[1] = Head(ch.callbacks)
  BY <1>1
<1>3. Len(ch.outcomes) + 1 > Len(AskedIn(ch.accepted))
  BY <1>2 DEF Promises, Owes
<1> QED
  BY <1>1, <1>3
================================================================================
