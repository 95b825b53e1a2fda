---------------------------- MODULE ConsumerMainProofs ----------------------------
(***************************************************************************)
(* What TLAPS proves of ConsumerMain, for any number of signals and of     *)
(* messages: that a failed read loop is noticed, that a halted consumer    *)
(* has been asked to resume, and which loops it can start twice.           *)
(*                                                                         *)
(* The steps left to the main thread are three sequences in a row: those   *)
(* of the handlers on top of it, those of the calls of the client that it  *)
(* is in, and what it does then.  A signal adds to the first, and it is    *)
(* the second of which the invariants speak: which halts of the client in  *)
(* it are followed by a restart, and which restarts by no halt.            *)
(***************************************************************************)
EXTENDS ConsumerMain, SequenceTheorems, TLAPS

HandlerSteps ==
    {"pauseFlag", "pauseReader", "stopAck", "stopReceive",
     "joinReceive", "joinAck", "joinReader", "lost",
     "option", "requestResume", "requestReload", "notify",
     "returnINT", "returnHUP", "returnTERM"}

CallSteps ==
    {"stopAck", "stopReceive", "closeChannel", "closeConnection", "closeReader",
     "stopRequests", "joinReceive", "joinAck", "joinReader", "lost",
     "startAck", "startReceive", "oldAck", "oldReceive", "startReader",
     "connect", "startRequests", "newCallbacks", "createQueue", "consume",
     "clearResume", "clearReload"}

\* What a step that stops something may have to wait for.
Ends == {<<>>, <<"joinReceive">>, <<"joinAck">>, <<"joinReader">>, <<"lost">>}

Waits == {"joinReceive", "joinAck", "joinReader", "lost"}

\* Where the main thread can be, apart from its calls of the client.
Bases ==
    {<<"top">>, <<"lock", "test">>, <<"test">>, <<"sleep">>, <<"asleep">>, <<"tally">>,
     <<"unlock", "checkResume">>, <<"checkResume">>, <<"checkReload">>,
     <<"end">>, <<"unwound">>, <<>>}

\* From here on it ends, and restarts nothing.
Last == {<<"end">>, <<"unwound">>, <<>>}

BaseSteps == {"top", "lock", "test", "sleep", "asleep", "tally", "unlock",
              "checkResume", "checkReload", "end", "unwound"}

Steps == HandlerSteps \cup CallSteps \cup BaseSteps

Stack(h, o, b) ==
    /\ h \in Seq(HandlerSteps) /\ o \in Seq(CallSteps) /\ b \in Bases
    /\ todo = h \o (o \o b)

In(s, x) == \E i \in 1..Len(s) : s[i] = x

\* Every x in s has a y after it.
Leads(s, x, y) ==
    \A i \in 1..Len(s) : s[i] = x => \E j \in 1..Len(s) : i < j /\ s[j] = y

\* Every x in s has a y before it.
Follows(s, x, y) ==
    \A i \in 1..Len(s) : s[i] = x => \E j \in 1..Len(s) : j < i /\ s[j] = y

ClientOK ==
    client \in [pauseClient : BOOLEAN, loops : [receive : Nat, ack : Nat],
                handle : BOOLEAN, requests : BOOLEAN, part : 1..6,
                holds : SUBSET {"client", "queue"}, subscribed : BOOLEAN]

\* benchmarkMutex has one holder at a time.
MutexInv(b) ==
    /\ b \in {<<"test">>, <<"sleep">>, <<"tally">>, <<"unlock", "checkResume">>}
          => mutex = "main"
    /\ reader = "locked" => mutex = "reader"
    /\ handler = "locked" => mutex = "messages"

\* breakWait says that the read loop failed, before the wait can miss it.
ErrorInv(b) ==
    /\ reader \in {"locked", "notify"} => breakWait
    /\ client.handle /\ client.subscribed =>
          /\ reader = None => breakWait
          /\ b = <<"sleep">> => reader \notin {None, "locked", "notify"}
          /\ waiting => reader # None

\* A handler pauses the client before it stops its loops, and requests that the
\* client resume after it did.
HandlerInv(h) ==
    \A s \in {"stopAck", "stopReceive", "pauseReader"} :
        /\ Leads(h, s, "requestResume")
        /\ client.pauseClient \/ Follows(h, s, "pauseFlag")

\* A call of the main thread that stops something starts it again, if the thread
\* goes on.
CallInv(o, b) ==
    \/ b \in Last
    \/ /\ Leads(o, "stopAck", "startAck")
       /\ Leads(o, "stopReceive", "startReceive")
       /\ Leads(o, "closeReader", "connect")

\* The client has been asked to resume, is about to be, or the request was erased.
Requested(h, o) ==
    /\ client.pauseClient
    /\ \/ resumeRequested /\ ~In(o, "clearResume")
       \/ In(h, "requestResume")
       \/ "INT" \in erased

HaltInv(h, o, b) ==
    \/ b \in Last
    \/ Requested(h, o)
    \/ /\ client.loops.ack = 0 => In(o, "startAck")
       /\ client.loops.receive = 0 => In(o, "startReceive")
       /\ ~client.handle => In(o, "startReader") \/ In(o, "connect")

ConsumerInv ==
    /\ ClientOK
    /\ \E h, o, b :
          /\ Stack(h, o, b)
          /\ MutexInv(b) /\ ErrorInv(b)
          /\ HandlerInv(h) /\ CallInv(o, b) /\ HaltInv(h, o, b)

-----------------------------------------------------------------------------
(* Sequences of steps.                                                     *)

\* What the concatenation of two sequences holds.
LEMMA ConcatElements ==
    ASSUME NEW S, NEW s \in Seq(S), NEW t \in Seq(S)
    PROVE  /\ s \o t \in Seq(S)
           /\ Len(s) \in Nat /\ Len(t) \in Nat /\ Len(s \o t) = Len(s) + Len(t)
           /\ \A i \in 1..Len(s) : i \in 1..Len(s \o t) /\ (s \o t)[i] = s[i]
           /\ \A i \in 1..Len(t) : /\ Len(s) + i \in 1..Len(s \o t)
                                  /\ (s \o t)[Len(s) + i] = t[i]
           /\ \A i \in 1..Len(s \o t) :
                 \/ i \in 1..Len(s)
                 \/ (i - Len(s) \in 1..Len(t) /\ (s \o t)[i] = t[i - Len(s)])
<1>1. /\ s \o t \in Seq(S) /\ Len(s) \in Nat /\ Len(t) \in Nat
      /\ Len(s \o t) = Len(s) + Len(t)
      /\ \A i \in 1..Len(s) + Len(t) :
            (s \o t)[i] = IF i <= Len(s) THEN s[i] ELSE t[i - Len(s)]
  BY ConcatProperties, LenProperties
<1> QED
  BY <1>1

\* What two sequences in a row hold is what either holds.
LEMMA ConcatIn ==
    ASSUME NEW S, NEW s \in Seq(S), NEW t \in Seq(S), NEW x
    PROVE  In(s \o t, x) <=> In(s, x) \/ In(t, x)
<1> DEFINE r == s \o t
<1>1. /\ Len(s) \in Nat /\ Len(t) \in Nat
      /\ \A i \in 1..Len(s) : i \in 1..Len(r) /\ r[i] = s[i]
      /\ \A i \in 1..Len(t) : Len(s) + i \in 1..Len(r) /\ r[Len(s) + i] = t[i]
      /\ \A i \in 1..Len(r) : \/ i \in 1..Len(s)
                              \/ (i - Len(s) \in 1..Len(t) /\ r[i] = t[i - Len(s)])
  BY ConcatElements
<1> HIDE DEF r
<1>2. In(s, x) => In(r, x)
  BY <1>1 DEF In
<1>3. In(t, x) => In(r, x)
  BY <1>1 DEF In
<1>4. In(r, x) => In(s, x) \/ In(t, x)
  BY <1>1 DEF In
<1> QED
  BY <1>2, <1>3, <1>4 DEF r

\* What leads to y in each of two sequences, or in the last of them, does so in both.
LEMMA ConcatLeads ==
    ASSUME NEW S, NEW s \in Seq(S), NEW t \in Seq(S), NEW x, NEW y,
           Leads(s, x, y) \/ In(t, y), Leads(t, x, y)
    PROVE  Leads(s \o t, x, y)
<1> DEFINE r == s \o t
<1>1. /\ Len(s) \in Nat /\ Len(t) \in Nat
      /\ \A i \in 1..Len(s) : i \in 1..Len(r) /\ r[i] = s[i]
      /\ \A i \in 1..Len(t) : Len(s) + i \in 1..Len(r) /\ r[Len(s) + i] = t[i]
      /\ \A i \in 1..Len(r) : \/ i \in 1..Len(s)
                              \/ (i - Len(s) \in 1..Len(t) /\ r[i] = t[i - Len(s)])
  BY ConcatElements
<1> HIDE DEF r
<1>2. ASSUME NEW i \in 1..Len(r), r[i] = x
      PROVE  \E j \in 1..Len(r) : i < j /\ r[j] = y
  <2>1. CASE i \in 1..Len(s) /\ Leads(s, x, y)
    <3>1. PICK j \in 1..Len(s) : i < j /\ s[j] = y
      BY <1>1, <1>2, <2>1 DEF Leads
    <3> QED
      BY <1>1, <3>1
  <2>2. CASE i \in 1..Len(s) /\ In(t, y)
    <3>1. PICK j \in 1..Len(t) : t[j] = y
      BY <2>2 DEF In
    <3>2. Len(s) + j \in 1..Len(r) /\ r[Len(s) + j] = y /\ i < Len(s) + j
      BY <1>1, <2>2, <3>1
    <3> QED
      BY <3>2
  <2>3. CASE i - Len(s) \in 1..Len(t) /\ r[i] = t[i - Len(s)]
    <3>1. PICK j \in 1..Len(t) : i - Len(s) < j /\ t[j] = y
      BY <1>2, <2>3 DEF Leads
    <3>2. Len(s) + j \in 1..Len(r) /\ r[Len(s) + j] = y /\ i < Len(s) + j
      BY <1>1, <1>2, <3>1
    <3> QED
      BY <3>2
  <2> QED
    BY <1>1, <1>2, <2>1, <2>2, <2>3
<1> QED
  BY <1>2 DEF Leads, r

\* What follows y in each of two sequences, or in the first of them, does so in both.
LEMMA ConcatFollows ==
    ASSUME NEW S, NEW s \in Seq(S), NEW t \in Seq(S), NEW x, NEW y,
           Follows(s, x, y), Follows(t, x, y)
    PROVE  Follows(s \o t, x, y)
<1> DEFINE r == s \o t
<1>1. /\ Len(s) \in Nat /\ Len(t) \in Nat
      /\ \A i \in 1..Len(s) : i \in 1..Len(r) /\ r[i] = s[i]
      /\ \A i \in 1..Len(t) : Len(s) + i \in 1..Len(r) /\ r[Len(s) + i] = t[i]
      /\ \A i \in 1..Len(r) : \/ i \in 1..Len(s)
                              \/ (i - Len(s) \in 1..Len(t) /\ r[i] = t[i - Len(s)])
  BY ConcatElements
<1> HIDE DEF r
<1>2. ASSUME NEW i \in 1..Len(r), r[i] = x
      PROVE  \E j \in 1..Len(r) : j < i /\ r[j] = y
  <2>1. CASE i \in 1..Len(s)
    <3>1. PICK j \in 1..Len(s) : j < i /\ s[j] = y
      BY <1>1, <1>2, <2>1 DEF Follows
    <3> QED
      BY <1>1, <3>1
  <2>2. CASE i - Len(s) \in 1..Len(t) /\ r[i] = t[i - Len(s)]
    <3>1. PICK j \in 1..Len(t) : j < i - Len(s) /\ t[j] = y
      BY <1>2, <2>2 DEF Follows
    <3>2. Len(s) + j \in 1..Len(r) /\ r[Len(s) + j] = y /\ Len(s) + j < i
      BY <1>1, <1>2, <3>1
    <3> QED
      BY <3>2
  <2> QED
    BY <1>1, <1>2, <2>1, <2>2
<1> QED
  BY <1>2 DEF Follows, r

\* What the first step and the rest of a sequence have of it.
LEMMA TailElements ==
    ASSUME NEW S, NEW s \in Seq(S), s # <<>>
    PROVE  /\ Head(s) \in S /\ Tail(s) \in Seq(S)
           /\ \A x : In(s, x) <=> x = Head(s) \/ In(Tail(s), x)
           /\ \A x, y : Leads(s, x, y) =>
                 /\ Leads(Tail(s), x, y)
                 /\ Head(s) = x => In(Tail(s), y)
           /\ \A x, y : Follows(s, x, y) =>
                 /\ Head(s) # x
                 /\ Head(s) # y => Follows(Tail(s), x, y)
<1> DEFINE t == Tail(s)
<1>1. /\ Head(s) \in S /\ t \in Seq(S) /\ s[1] = Head(s)
      /\ Len(t) \in Nat /\ Len(s) = Len(t) + 1
      /\ \A i \in 1..Len(t) : t[i] = s[i + 1]
  BY HeadTailProperties, LenProperties, EmptySeq
<1>2. /\ \A i \in 1..Len(t) : i + 1 \in 1..Len(s)
      /\ \A i \in 1..Len(s) : i = 1 \/ (i - 1 \in 1..Len(t) /\ s[i] = t[i - 1])
      /\ 1 \in 1..Len(s)
  BY <1>1
<1> HIDE DEF t
<1>3. ASSUME NEW x PROVE In(s, x) <=> x = Head(s) \/ In(t, x)
  <2>1. In(s, x) => x = Head(s) \/ In(t, x)
    BY <1>1, <1>2 DEF In
  <2>2. In(t, x) => In(s, x)
    BY <1>1, <1>2 DEF In
  <2>3. In(s, Head(s))
    BY <1>1, <1>2 DEF In
  <2> QED
    BY <2>1, <2>2, <2>3
<1>4. ASSUME NEW x, NEW y, Leads(s, x, y)
      PROVE  Leads(t, x, y) /\ (Head(s) = x => In(t, y))
  <2>1. ASSUME NEW i \in 1..Len(t), t[i] = x
        PROVE  \E j \in 1..Len(t) : i < j /\ t[j] = y
    <3>1. PICK j \in 1..Len(s) : i + 1 < j /\ s[j] = y
      BY <1>1, <1>2, <1>4, <2>1 DEF Leads
    <3>2. j - 1 \in 1..Len(t) /\ t[j - 1] = y /\ i < j - 1
      BY <1>1, <1>2, <2>1, <3>1
    <3> QED
      BY <3>2
  <2>2. ASSUME Head(s) = x PROVE In(t, y)
    <3>1. PICK j \in 1..Len(s) : 1 < j /\ s[j] = y
      BY <1>1, <1>2, <1>4, <2>2 DEF Leads
    <3>2. j - 1 \in 1..Len(t) /\ t[j - 1] = y
      BY <1>1, <1>2, <3>1
    <3> QED
      BY <3>2 DEF In
  <2> QED
    BY <2>1, <2>2 DEF Leads
<1>5. ASSUME NEW x, NEW y, Follows(s, x, y)
      PROVE  Head(s) # x /\ (Head(s) # y => Follows(t, x, y))
  <2>1. Head(s) # x
    BY <1>1, <1>2, <1>5 DEF Follows
  <2>2. ASSUME Head(s) # y, NEW i \in 1..Len(t), t[i] = x
        PROVE  \E j \in 1..Len(t) : j < i /\ t[j] = y
    <3>1. PICK j \in 1..Len(s) : j < i + 1 /\ s[j] = y
      BY <1>1, <1>2, <1>5, <2>2 DEF Follows
    <3>2. j - 1 \in 1..Len(t) /\ t[j - 1] = y /\ j - 1 < i
      BY <1>1, <1>2, <2>2, <3>1
    <3> QED
      BY <3>2
  <2> QED
    BY <2>1, <2>2 DEF Follows
<1> QED
  BY <1>1, <1>3, <1>4, <1>5 DEF t

\* A single step.
LEMMA OneStep ==
    ASSUME NEW S, NEW e \in S
    PROVE  /\ <<e>> \in Seq(S)
           /\ \A x : In(<<e>>, x) <=> x = e
           /\ \A x, y : e # x => Leads(<<e>>, x, y) /\ Follows(<<e>>, x, y)
BY DEF In, Leads, Follows

\* The empty sequence, which holds no step.
LEMMA NoStep ==
    /\ \A S : <<>> \in Seq(S)
    /\ \A x : ~In(<<>>, x)
    /\ \A x, y : Leads(<<>>, x, y) /\ Follows(<<>>, x, y)
BY EmptySeq DEF In, Leads, Follows

-----------------------------------------------------------------------------
(* The three parts of todo.                                                *)

\* The first step of two sequences in a row, and what is behind it.
LEMMA ConcatHead ==
    ASSUME NEW S, NEW s \in Seq(S), NEW t \in Seq(S), s # <<>>
    PROVE  /\ s \o t # <<>> /\ Head(s \o t) = Head(s)
           /\ Tail(s \o t) = Tail(s) \o t
<1>1. /\ Head(s) \in S /\ Tail(s) \in Seq(S) /\ <<Head(s)>> \in Seq(S)
      /\ s = <<Head(s)>> \o Tail(s)
  BY HeadTailProperties
<1>2. s \o t = <<Head(s)>> \o (Tail(s) \o t)
  BY <1>1, ConcatAssociative
<1>3. Tail(s) \o t \in Seq(S)
  BY <1>1, ConcatProperties
<1> DEFINE u == Tail(s) \o t
           e == Head(s)
<1>4. e \in S /\ u \in Seq(S) /\ s \o t = <<e>> \o u
  BY <1>1, <1>2, <1>3
<1>5. s \o t # <<>>
  BY ConcatEqualIffEmpty
<1>6. Head(<<e>> \o u) = e /\ Tail(<<e>> \o u) = u
  <2> HIDE DEF e, u
  <2>1. <<e>> \in Seq(S) /\ Len(<<e>>) = 1 /\ <<e>>[1] = e
    BY <1>4
  <2> DEFINE r == <<e>> \o u
  <2>2. /\ r \in Seq(S) /\ Len(u) \in Nat /\ Len(r) = Len(u) + 1
        /\ r[1] = e /\ \A i \in 1..Len(u) : r[i + 1] = u[i]
    <3>1. /\ r \in Seq(S) /\ Len(u) \in Nat /\ Len(r) = Len(<<e>>) + Len(u)
          /\ \A i \in 1..Len(<<e>>) : r[i] = <<e>>[i]
          /\ \A i \in 1..Len(u) : r[Len(<<e>>) + i] = u[i]
      BY <1>4, <2>1, ConcatElements
    <3> HIDE DEF r
    <3>2. 1 \in 1..Len(<<e>>)
      BY <2>1
    <3> QED
      BY <2>1, <3>1, <3>2
  <2> HIDE DEF r
  <2>3. /\ r # <<>> /\ Head(r) = e
        /\ Tail(r) \in Seq(S) /\ Len(Tail(r)) = Len(u)
        /\ \A i \in 1..Len(u) : Tail(r)[i] = u[i]
    <3>1. r # <<>>
      BY <2>2
    <3>2. /\ Tail(r) \in Seq(S) /\ Len(Tail(r)) = Len(r) - 1 /\ Head(r) = r[1]
          /\ \A i \in 1..Len(Tail(r)) : Tail(r)[i] = r[i + 1]
      BY <2>2, <3>1, HeadTailProperties
    <3> QED
      BY <2>2, <3>1, <3>2
  <2>4. Tail(r) = u
    BY <1>4, <2>3, SeqEqual
  <2> QED
    BY <2>3, <2>4 DEF r
<1> QED
  BY <1>2, <1>4, <1>5, <1>6

\* A base is a sequence of its own steps.
LEMMA BasesAre == \A b \in Bases : b \in Seq(BaseSteps)
<1>1. \A x, y \in BaseSteps : <<x>> \in Seq(BaseSteps) /\ <<x, y>> \in Seq(BaseSteps)
  OBVIOUS
<1>2. <<>> \in Seq(BaseSteps)
  BY EmptySeq
<1>3. {"top", "lock", "test", "sleep", "asleep", "tally", "unlock",
       "checkResume", "checkReload", "end", "unwound"} \subseteq BaseSteps
  BY DEF BaseSteps
<1> QED
  BY <1>1, <1>2, <1>3 DEF Bases

\* The parts of todo, and todo, are sequences of steps.
LEMMA StepsOf ==
    ASSUME NEW h, NEW o, NEW b, Stack(h, o, b)
    PROVE  /\ h \in Seq(Steps) /\ o \in Seq(Steps) /\ b \in Seq(Steps)
           /\ o \o b \in Seq(Steps) /\ todo \in Seq(Steps)
<1>1. h \in Seq(Steps) /\ o \in Seq(Steps)
  BY SeqMonotonic DEF Stack, Steps
<1>2. b \in Seq(Steps)
  BY BasesAre, SeqMonotonic DEF Stack, Steps
<1>3. o \o b \in Seq(Steps)
  BY <1>1, <1>2, ConcatProperties
<1>4. todo \in Seq(Steps)
  BY <1>1, <1>3, ConcatProperties DEF Stack
<1> QED
  BY <1>1, <1>2, <1>3, <1>4

\* The step that the main thread is at belongs to one of the parts.
LEMMA TopOfStack ==
    ASSUME NEW h, NEW o, NEW b, Stack(h, o, b), NEW x, At(x)
    PROVE  \/ /\ h # <<>> /\ Head(h) = x /\ x \in HandlerSteps
              /\ Tail(todo) = Tail(h) \o (o \o b)
           \/ /\ h = <<>> /\ o # <<>> /\ Head(o) = x /\ x \in CallSteps
              /\ Tail(todo) = Tail(o) \o b
           \/ /\ h = <<>> /\ o = <<>> /\ b # <<>> /\ Head(b) = x /\ todo = b
<1>1. /\ h \in Seq(Steps) /\ o \in Seq(Steps) /\ b \in Seq(Steps)
      /\ o \o b \in Seq(Steps) /\ todo \in Seq(Steps)
  BY StepsOf
<1>2. h \in Seq(HandlerSteps) /\ o \in Seq(CallSteps) /\ todo = h \o (o \o b)
  BY DEF Stack
<1>3. CASE h # <<>>
  <2>1. Head(todo) = Head(h) /\ Tail(todo) = Tail(h) \o (o \o b)
    BY <1>1, <1>2, <1>3, ConcatHead
  <2>2. Head(h) \in HandlerSteps
    BY <1>2, <1>3, HeadTailProperties
  <2> QED
    BY <1>3, <2>1, <2>2 DEF At
<1>4. CASE h = <<>> /\ o # <<>>
  <2>1. todo = o \o b
    BY <1>1, <1>2, <1>4, ConcatEmptySeq
  <2>2. Head(todo) = Head(o) /\ Tail(todo) = Tail(o) \o b
    BY <1>1, <1>4, <2>1, ConcatHead
  <2>3. Head(o) \in CallSteps
    BY <1>2, <1>4, HeadTailProperties
  <2> QED
    BY <1>4, <2>2, <2>3 DEF At
<1>5. CASE h = <<>> /\ o = <<>>
  <2>1. o \o b = b /\ <<>> \o b = b
    BY <1>1, <1>5, ConcatEmptySeq
  <2>2. todo = b
    BY <1>2, <1>5, <2>1
  <2> QED
    BY <1>5, <2>2 DEF At
<1> QED
  BY <1>3, <1>4, <1>5

\* What a step replaces itself with.
LEMMA HandlerThen ==
    ASSUME NEW h, NEW o, NEW b, Stack(h, o, b), h # <<>>,
           NEW n \in Seq(HandlerSteps), todo' = n \o (Tail(h) \o (o \o b))
    PROVE  Stack(n \o Tail(h), o, b)'
<1>1. Tail(h) \in Seq(HandlerSteps) /\ n \o Tail(h) \in Seq(HandlerSteps)
  BY HeadTailProperties, ConcatProperties DEF Stack
<1>2. n \in Seq(Steps) /\ Tail(h) \in Seq(Steps)
  BY <1>1, SeqMonotonic DEF Steps
<1>3. o \o b \in Seq(Steps)
  BY StepsOf
<1>4. todo' = (n \o Tail(h)) \o (o \o b)
  <2> DEFINE t == Tail(h)
             r == o \o b
  <2>1. t \in Seq(Steps) /\ r \in Seq(Steps) /\ todo' = n \o (t \o r)
    BY <1>2, <1>3, SMTT(30)
  <2> HIDE DEF t, r
  <2>2. (n \o t) \o r = n \o (t \o r)
    BY <1>2, <2>1, ConcatAssociative, SMTT(30)
  <2> QED
    BY <2>1, <2>2 DEF t, r
<1> QED
  BY <1>1, <1>4 DEF Stack

\* todo after a step of a call of the client: the steps n take its place.
LEMMA CallThen ==
    ASSUME NEW o, NEW b, Stack(<<>>, o, b), o # <<>>,
           NEW n \in Seq(CallSteps), todo' = n \o (Tail(o) \o b)
    PROVE  Stack(<<>>, n \o Tail(o), b)'
<1>1. Tail(o) \in Seq(CallSteps) /\ n \o Tail(o) \in Seq(CallSteps)
  BY HeadTailProperties, ConcatProperties DEF Stack
<1>2. n \in Seq(Steps) /\ Tail(o) \in Seq(Steps) /\ n \o Tail(o) \in Seq(Steps)
  BY <1>1, SeqMonotonic DEF Steps
<1>3. b \in Seq(Steps)
  BY StepsOf
<1>4. todo' = (n \o Tail(o)) \o b
  BY <1>2, <1>3, ConcatAssociative, SMTT(30)
<1>5. (n \o Tail(o)) \o b \in Seq(Steps)
  BY <1>2, <1>3, ConcatProperties
<1>6. todo' = <<>> \o ((n \o Tail(o)) \o b)
  BY <1>4, <1>5, ConcatEmptySeq
<1>7. <<>> \in Seq(HandlerSteps)
  BY EmptySeq
<1> QED
  BY <1>1, <1>6, <1>7 DEF Stack

\* todo after a step of the main thread that calls the client, or nothing.
LEMMA BaseThen ==
    ASSUME NEW o \in Seq(CallSteps), NEW b \in Bases, todo' = o \o b
    PROVE  Stack(<<>>, o, b)'
<1>1. o \in Seq(Steps) /\ b \in Seq(Steps)
  BY BasesAre, SeqMonotonic DEF Steps
<1>2. todo' = <<>> \o (o \o b)
  BY <1>1, ConcatProperties, ConcatEmptySeq
<1>3. <<>> \in Seq(HandlerSteps)
  BY EmptySeq
<1> QED
  BY <1>2, <1>3 DEF Stack

\* What occurs in todo occurs in one of the parts.
LEMMA OccursIn ==
    ASSUME NEW h, NEW o, NEW b, Stack(h, o, b), NEW x
    PROVE  Occurs(x) <=> In(h, x) \/ In(o, x) \/ In(b, x)
<1>1. /\ h \in Seq(Steps) /\ o \in Seq(Steps) /\ b \in Seq(Steps)
      /\ o \o b \in Seq(Steps) /\ todo \in Seq(Steps)
  BY StepsOf
<1>2. DOMAIN todo = 1..Len(todo)
  BY <1>1, LenProperties
<1>3. Occurs(x) <=> In(todo, x)
  BY <1>2 DEF Occurs, In
<1>4. In(todo, x) <=> In(h, x) \/ In(o \o b, x)
  BY <1>1, ConcatIn DEF Stack
<1>5. In(o \o b, x) <=> In(o, x) \/ In(b, x)
  BY <1>1, ConcatIn
<1> QED
  BY <1>3, <1>4, <1>5

\* The steps that occur in the parts.
LEMMA InParts ==
    ASSUME NEW h, NEW o, NEW b, Stack(h, o, b), NEW x
    PROVE  /\ In(h, x) => x \in HandlerSteps
           /\ In(o, x) => x \in CallSteps
           /\ In(b, x) => x \notin HandlerSteps \cup CallSteps
<1>1. In(h, x) => x \in HandlerSteps
  BY ElementOfSeq DEF Stack, In
<1>2. In(o, x) => x \in CallSteps
  BY ElementOfSeq DEF Stack, In
<1>3. In(b, x) => x \in BaseSteps
  BY BasesAre, ElementOfSeq DEF Stack, In
<1> QED
  BY <1>1, <1>2, <1>3 DEF HandlerSteps, CallSteps, BaseSteps

-----------------------------------------------------------------------------
(* Steps of a handler.                                                     *)

\* A handler that goes on, or begins to wait, keeps its order.
LEMMA HandlerGoesOn ==
    ASSUME NEW h \in Seq(HandlerSteps), h # <<>>,
           NEW n \in Ends
    PROVE  /\ n \in Seq(HandlerSteps) /\ n \o Tail(h) \in Seq(HandlerSteps)
           /\ \A x : In(h, x) /\ x # Head(h) => In(n \o Tail(h), x)
           /\ \A s \in {"stopAck", "stopReceive", "pauseReader"} :
                 /\ Leads(h, s, "requestResume") =>
                       /\ Leads(n \o Tail(h), s, "requestResume")
                       /\ Head(h) = s => In(n \o Tail(h), "requestResume")
                 /\ Follows(h, s, "pauseFlag") =>
                       /\ Head(h) # s
                       /\ Head(h) # "pauseFlag" => Follows(n \o Tail(h), s, "pauseFlag")
<1>1. Waits \subseteq HandlerSteps
  BY DEF HandlerSteps, Waits
<1>2. ASSUME NEW e \in Waits
      PROVE  /\ <<e>> \in Seq(HandlerSteps)
             /\ \A s \in {"stopAck", "stopReceive", "pauseReader"} :
                   Leads(<<e>>, s, "requestResume") /\ Follows(<<e>>, s, "pauseFlag")
  BY <1>1, OneStep DEF Waits
<1>3. /\ n \in Seq(HandlerSteps)
      /\ \A s \in {"stopAck", "stopReceive", "pauseReader"} :
            Leads(n, s, "requestResume") /\ Follows(n, s, "pauseFlag")
  <2>1. n = <<>> \/ \E e \in Waits : n = <<e>>
    BY DEF Ends, Waits
  <2> QED
    BY <1>2, <2>1, NoStep
<1> DEFINE t == Tail(h)
<1>4. /\ Head(h) \in HandlerSteps /\ t \in Seq(HandlerSteps)
      /\ \A x : In(h, x) <=> x = Head(h) \/ In(t, x)
      /\ \A x, y : Leads(h, x, y) => Leads(t, x, y) /\ (Head(h) = x => In(t, y))
      /\ \A x, y : Follows(h, x, y) =>
            Head(h) # x /\ (Head(h) # y => Follows(t, x, y))
  BY TailElements
<1> HIDE DEF t
<1>5. n \o t \in Seq(HandlerSteps)
  BY <1>3, <1>4, ConcatProperties
<1>6. \A x : In(n \o t, x) <=> In(n, x) \/ In(t, x)
  BY <1>3, <1>4, ConcatIn
<1>7. \A s \in {"stopAck", "stopReceive", "pauseReader"} :
         /\ Leads(t, s, "requestResume") => Leads(n \o t, s, "requestResume")
         /\ Follows(t, s, "pauseFlag") => Follows(n \o t, s, "pauseFlag")
  BY <1>3, <1>4, ConcatLeads, ConcatFollows
<1> QED
  BY <1>3, <1>4, <1>5, <1>6, <1>7 DEF t

\* What a step of a handler does, apart from where it leaves the main thread.
HandlerEffect(n) ==
    /\ Then(n) /\ n \in Ends
    /\ ClientOK'
    /\ UNCHANGED <<mutex, reader, handler>>
    /\ breakWait => breakWait'
    /\ waiting' => waiting
    /\ client'.subscribed = client.subscribed
    /\ client'.handle => client.handle
    /\ client.pauseClient \/ At("pauseFlag") => client'.pauseClient
    /\ resumeRequested => resumeRequested'
    /\ \/ UNCHANGED erased \/ At("requestReload")
       \/ At("requestResume") /\ (resumeRequested' \/ Occurs("clearResume"))
    /\ At("requestResume") => IF Occurs("clearResume") THEN "INT" \in erased'
                                                      ELSE resumeRequested'
    /\ At("requestReload") => ("INT" \in erased' <=> "INT" \in erased)
    /\ \/ client'.loops = client.loops /\ client'.handle = client.handle
       \/ At("stopAck") \/ At("stopReceive") \/ At("pauseReader")

\* What Stop of a processor goes on with.
LEMMA StopEnds ==
    ASSUME NEW p \in Processor, StopProcessor(p)
    PROVE  \E n \in Ends : Then(n)
<1>1. PICK n \in IF client.loops[p] > 0 THEN Awaited[p] ELSE {<<>>} : Then(n)
  BY DEF StopProcessor
<1>2. Awaited[p] \subseteq Ends /\ {<<>>} \subseteq Ends
  BY DEF Awaited, Ends, Processor
<1> QED
  BY <1>1, <1>2

\* Each step that a handler takes has that effect.
LEMMA HandlerEffects ==
    ASSUME ClientOK, \A x : At(x) => x \in HandlerSteps,
           \/ \E p \in Processor : StopProcessor(p)
           \/ Join \/ PauseFlag \/ StopReader("pauseReader") \/ HandlerStep
    PROVE  \E n : HandlerEffect(n)
<1> USE DEF ClientOK, HandlerEffect, Ends, shared, flags, threads, history
<1>1. ASSUME NEW p \in Processor, StopProcessor(p) PROVE \E n : HandlerEffect(n)
  <2>1. At("stopAck") \/ At("stopReceive")
    BY <1>1 DEF StopProcessor, Stop, Processor
  <2>2. ~At("pauseFlag") /\ ~At("requestResume") /\ ~At("requestReload")
    BY <2>1 DEF At
  <2>3. ClientOK'
    BY <1>1 DEF StopProcessor, Processor
  <2>4. PICK n \in Ends : Then(n)
    BY <1>1, StopEnds
  <2>5. HandlerEffect(n)
    BY <1>1, <2>1, <2>2, <2>3, <2>4 DEF StopProcessor
  <2> QED
    BY <2>5
<1>2. CASE Join
  <2>1. At("joinReceive") \/ At("joinAck") \/ At("joinReader")
    BY <1>2 DEF Join, Old, HandlerSteps
  <2>2. ~At("pauseFlag") /\ ~At("requestResume") /\ ~At("requestReload")
    BY <2>1 DEF At
  <2>3. HandlerEffect(<<>>)
    BY <1>2, <2>2 DEF Join, Ends
  <2> QED
    BY <2>3
<1>3. CASE PauseFlag
  <2>1. ~At("requestResume") /\ ~At("requestReload")
    BY <1>3 DEF At, PauseFlag
  <2>2. HandlerEffect(<<>>)
    BY <1>3, <2>1 DEF PauseFlag
  <2> QED
    BY <2>2
<1>4. CASE StopReader("pauseReader")
  <2>1. ~At("pauseFlag") /\ ~At("requestResume") /\ ~At("requestReload")
    BY <1>4 DEF At, StopReader
  <2>2. CASE client.handle
    <3>1. HandlerEffect(<<"joinReader">>)
      BY <1>4, <2>1, <2>2 DEF StopReader
    <3> QED
      BY <3>1
  <2>3. CASE ~client.handle
    <3>1. HandlerEffect(<<>>)
      BY <1>4, <2>1, <2>3 DEF StopReader
    <3> QED
      BY <3>1
  <2> QED
    BY <2>2, <2>3
<1>5. CASE Option
  <2>1. ~At("pauseFlag") /\ ~At("requestResume") /\ ~At("requestReload")
    BY <1>5 DEF At, Option
  <2>2. breakWait => breakWait'
    BY <1>5 DEF Option
  <2>3. HandlerEffect(<<>>)
    BY <1>5, <2>1, <2>2 DEF Option
  <2> QED
    BY <2>3
<1>6. CASE RequestResume
  <2>1. ~At("pauseFlag") /\ ~At("requestReload")
    BY <1>6 DEF At, RequestResume
  <2>2. HandlerEffect(<<>>)
    BY <1>6, <2>1 DEF RequestResume
  <2> QED
    BY <2>2
<1>7. CASE RequestReload
  <2>1. ~At("pauseFlag") /\ ~At("requestResume")
    BY <1>7 DEF At, RequestReload
  <2>2. HandlerEffect(<<>>)
    BY <1>7, <2>1 DEF RequestReload
  <2> QED
    BY <2>2
<1>8. CASE Notify \/ Return
  <2>1. ~At("pauseFlag") /\ ~At("requestResume") /\ ~At("requestReload")
    BY <1>8 DEF At, Notify, Return, Signal, Returning
  <2>2. HandlerEffect(<<>>)
    BY <1>8, <2>1 DEF Notify, Return
  <2> QED
    BY <2>2
<1> QED
  BY <1>1, <1>2, <1>3, <1>4, <1>5, <1>6, <1>7, <1>8 DEF HandlerStep

Parts(h, o, b) ==
    /\ Stack(h, o, b)
    /\ MutexInv(b) /\ ErrorInv(b)
    /\ HandlerInv(h) /\ CallInv(o, b) /\ HaltInv(h, o, b)

\* A step of a handler: what it halts it asks to resume.
LEMMA HandlerPart ==
    ASSUME ClientOK, NEW h, NEW o, NEW b, Parts(h, o, b), h # <<>>,
           \/ \E p \in Processor : StopProcessor(p)
           \/ Join \/ PauseFlag \/ StopReader("pauseReader") \/ HandlerStep
    PROVE  ConsumerInv'
<1> USE DEF Parts
<1>1. /\ \A x : At(x) => x \in HandlerSteps /\ x = Head(h)
      /\ todo # <<>> => At(Head(h)) /\ Tail(todo) = Tail(h) \o (o \o b)
  BY TopOfStack DEF At
<1>2. PICK n : HandlerEffect(n)
  BY <1>1, HandlerEffects
<1> DEFINE k == n \o Tail(h)
<1>3. h \in Seq(HandlerSteps)
  BY DEF Stack
<1>4. /\ \A x : In(h, x) /\ x # Head(h) => In(k, x)
      /\ \A s \in {"stopAck", "stopReceive", "pauseReader"} :
            /\ Leads(h, s, "requestResume") =>
                  /\ Leads(k, s, "requestResume")
                  /\ Head(h) = s => In(k, "requestResume")
            /\ Follows(h, s, "pauseFlag") =>
                  /\ Head(h) # s
                  /\ Head(h) # "pauseFlag" => Follows(k, s, "pauseFlag")
  BY <1>2, <1>3, HandlerGoesOn DEF HandlerEffect
<1>5. At(Head(h)) /\ Tail(todo) = Tail(h) \o (o \o b) /\ \A x : At(x) <=> x = Head(h)
  BY <1>1 DEF At, HandlerStep, Join, PauseFlag, StopReader, StopProcessor, Option,
              RequestResume, RequestReload, Notify, Return
<1>6. Stack(k, o, b)'
  BY <1>2, <1>3, <1>5, HandlerThen, HandlerGoesOn DEF HandlerEffect, Then
<1> HIDE DEF k
<1>7. MutexInv(b)' /\ ErrorInv(b)'
  BY <1>2 DEF HandlerEffect, MutexInv, ErrorInv
<1>8. HandlerInv(k)'
  BY <1>2, <1>4, <1>5 DEF HandlerInv, HandlerEffect
<1>9. CallInv(o, b)'
  BY DEF CallInv
<1>10. Occurs("clearResume") <=> In(o, "clearResume")
  BY OccursIn, InParts DEF HandlerSteps, CallSteps
<1>11. HaltInv(k, o, b)'
  <2>1. CASE b \in Last
    BY <2>1 DEF HaltInv
  <2>2. CASE Requested(h, o)
    <3>1. client'.pauseClient
      BY <1>2, <2>2 DEF Requested, HandlerEffect
    <3>2. CASE At("requestResume")
      BY <1>2, <1>10, <3>1, <3>2 DEF HaltInv, Requested, HandlerEffect
    <3>3. CASE ~At("requestResume")
      BY <1>2, <1>4, <1>5, <2>2, <3>1, <3>3 DEF HaltInv, Requested, HandlerEffect
    <3> QED
      BY <3>2, <3>3
  <2>3. CASE /\ client.loops.ack = 0 => In(o, "startAck")
             /\ client.loops.receive = 0 => In(o, "startReceive")
             /\ ~client.handle => In(o, "startReader") \/ In(o, "connect")
    <3>1. CASE client'.loops = client.loops /\ client'.handle = client.handle
      BY <2>3, <3>1 DEF HaltInv
    <3>2. CASE Head(h) \in {"stopAck", "stopReceive", "pauseReader"}
      BY <1>2, <1>4, <1>5, <3>2 DEF HaltInv, Requested, HandlerInv, HandlerEffect
    <3> QED
      BY <1>2, <1>5, <3>1, <3>2 DEF HandlerEffect
  <2> QED
    BY <2>1, <2>2, <2>3 DEF HaltInv
<1> QED
  BY <1>2, <1>6, <1>7, <1>8, <1>9, <1>11 DEF ConsumerInv, HandlerEffect

-----------------------------------------------------------------------------
(* Steps of the client's calls.                                            *)

Joins == {"joinReceive", "joinAck", "joinReader", "lost", "oldAck", "oldReceive"}

\* A call that goes on, or begins to wait, still restarts what it has stopped.
LEMMA CallGoesOn ==
    ASSUME NEW o \in Seq(CallSteps), o # <<>>,
           NEW n, n = <<>> \/ \E e \in Joins : n = <<e>>
    PROVE  /\ n \in Seq(CallSteps) /\ n \o Tail(o) \in Seq(CallSteps)
           /\ \A x : In(o, x) /\ x # Head(o) => In(n \o Tail(o), x)
           /\ \A x : In(n \o Tail(o), x) => In(o, x) \/ x \in Joins
           /\ \A s \in {"stopAck", "stopReceive", "closeReader"} :
                 \A y : Leads(o, s, y) =>
                    /\ Leads(n \o Tail(o), s, y)
                    /\ Head(o) = s => In(n \o Tail(o), y)
<1>1. Joins \subseteq CallSteps
  BY DEF CallSteps, Joins
<1>2. ASSUME NEW e \in Joins
      PROVE  /\ <<e>> \in Seq(CallSteps)
             /\ \A x : In(<<e>>, x) => x \in Joins
             /\ \A s \in {"stopAck", "stopReceive", "closeReader"} :
                   \A y : Leads(<<e>>, s, y)
  BY <1>1, OneStep DEF Joins
<1>3. /\ n \in Seq(CallSteps)
      /\ \A x : In(n, x) => x \in Joins
      /\ \A s \in {"stopAck", "stopReceive", "closeReader"} : \A y : Leads(n, s, y)
  BY <1>2, NoStep
<1> DEFINE t == Tail(o)
<1>4. /\ Head(o) \in CallSteps /\ t \in Seq(CallSteps)
      /\ \A x : In(o, x) <=> x = Head(o) \/ In(t, x)
      /\ \A x, y : Leads(o, x, y) => Leads(t, x, y) /\ (Head(o) = x => In(t, y))
  BY TailElements
<1> HIDE DEF t
<1>5. n \o t \in Seq(CallSteps)
  BY <1>3, <1>4, ConcatProperties
<1>6. \A x : In(n \o t, x) <=> In(n, x) \/ In(t, x)
  BY <1>3, <1>4, ConcatIn
<1>7. \A s \in {"stopAck", "stopReceive", "closeReader"} :
         \A y : Leads(t, s, y) => Leads(n \o t, s, y)
  BY <1>3, <1>4, ConcatLeads
<1> QED
  BY <1>3, <1>4, <1>5, <1>6, <1>7 DEF t

\* What a step of a call does, apart from where it leaves the main thread.
CallEffect(n) ==
    /\ Then(n) /\ (n = <<>> \/ \E e \in Joins : n = <<e>>)
    /\ ClientOK'
    /\ UNCHANGED <<mutex, handler, breakWait, waiting, erased>>
    /\ client'.subscribed => client.subscribed
    /\ client'.pauseClient = client.pauseClient
    /\ IF At("clearResume") THEN ~resumeRequested' ELSE resumeRequested' = resumeRequested
    /\ reader' = reader \/ (~client.handle /\ reader' = "running")
    /\ client'.handle => client.handle \/ reader' = "running"
    /\ client'.loops.ack = 0 => (client.loops.ack = 0 /\ ~At("startAck")) \/ At("stopAck")
    /\ client'.loops.receive = 0 =>
          (client.loops.receive = 0 /\ ~At("startReceive")) \/ At("stopReceive")
    /\ ~client'.handle =>
          \/ ~client.handle /\ ~At("startReader") /\ ~At("connect")
          \/ At("closeReader")

\* Stop of a processor, by the main thread, has that effect.
LEMMA StopEffect ==
    ASSUME ClientOK, NEW p \in Processor, StopProcessor(p)
    PROVE  \E n : CallEffect(n)
<1>1. At(Stop[p]) /\ ~At("clearResume") /\ ~At("startAck") /\ ~At("startReceive")
      /\ ~At("startReader") /\ ~At("connect") /\ ~At("closeReader")
  BY DEF StopProcessor, Stop, Processor, At
<1>2. ClientOK'
  BY DEF StopProcessor, Processor, ClientOK
<1>3. /\ client'.subscribed = client.subscribed /\ client'.handle = client.handle
      /\ client'.pauseClient = client.pauseClient
      /\ p = "ack" => client'.loops.receive = client.loops.receive /\ At("stopAck")
      /\ p = "receive" => client'.loops.ack = client.loops.ack /\ At("stopReceive")
      /\ p = "ack" \/ p = "receive"
  BY <1>1 DEF StopProcessor, Processor, ClientOK, Stop
<1> USE DEF CallEffect, StopProcessor, shared, flags, threads, history
<1>4. PICK n \in Ends : Then(n)
  BY StopEnds
<1>5. n = <<>> \/ \E e \in Joins : n = <<e>>
  BY DEF Ends, Joins
<1>6. CallEffect(n)
  BY <1>1, <1>2, <1>3, <1>4, <1>5
<1> QED
  BY <1>6

\* Start of a processor has it, too.
LEMMA StartEffect ==
    ASSUME ClientOK, NEW p \in Processor, StartProcessor(p)
    PROVE  \E n : CallEffect(n)
<1>1. At(Start[p]) /\ ~At("clearResume") /\ ~At("stopAck") /\ ~At("stopReceive")
      /\ ~At("startReader") /\ ~At("connect") /\ ~At("closeReader")
  BY DEF StartProcessor, Start, Processor, At
<1>2. ClientOK'
  BY DEF StartProcessor, Processor, ClientOK
<1>3. /\ client'.subscribed = client.subscribed /\ client'.handle = client.handle
      /\ client'.pauseClient = client.pauseClient
      /\ p = "ack" =>
            /\ client'.loops.receive = client.loops.receive
            /\ client'.loops.ack # 0 /\ ~At("startReceive")
      /\ p = "receive" =>
            /\ client'.loops.ack = client.loops.ack
            /\ client'.loops.receive # 0 /\ ~At("startAck")
      /\ p = "ack" \/ p = "receive"
  BY <1>1 DEF StartProcessor, Processor, ClientOK, Start, At
<1> USE DEF CallEffect, StartProcessor, shared, flags, threads, history
<1>4. CASE client.loops[p] = 0
  <2>1. CallEffect(<<>>)
    BY <1>1, <1>2, <1>3, <1>4
  <2> QED
    BY <2>1
<1>5. CASE client.loops[p] # 0
  <2>1. Old[p] \in Joins
    BY DEF Old, Joins, Processor
  <2>2. CallEffect(<<Old[p]>>)
    BY <1>1, <1>2, <1>3, <1>5, <2>1
  <2> QED
    BY <2>2
<1> QED
  BY <1>4, <1>5

\* CloseClient disconnects, and Open and Resume run the read loop again.
LEMMA ReaderEffect ==
    ASSUME ClientOK,
           \/ StopReader("closeReader")
           \/ StartReader("startReader") \/ StartReader("connect")
    PROVE  \E n : CallEffect(n)
<1> USE DEF CallEffect, ClientOK, shared, flags, threads, history
<1>1. CASE StopReader("closeReader")
  <2>1. ~At("clearResume") /\ ~At("startAck") /\ ~At("startReceive")
        /\ ~At("stopAck") /\ ~At("stopReceive") /\ At("closeReader")
    BY <1>1 DEF At, StopReader
  <2>2. /\ ClientOK' /\ client'.loops = client.loops /\ ~client'.handle
        /\ client'.subscribed = client.subscribed
        /\ client'.pauseClient = client.pauseClient
    BY <1>1 DEF StopReader
  <2>3. CASE client.handle
    <3>1. CallEffect(<<"joinReader">>)
      BY <1>1, <2>1, <2>2, <2>3 DEF StopReader, Joins
    <3> QED
      BY <3>1
  <2>4. CASE ~client.handle
    <3>1. CallEffect(<<>>)
      BY <1>1, <2>1, <2>2, <2>4 DEF StopReader
    <3> QED
      BY <3>1
  <2> QED
    BY <2>3, <2>4
<1>2. ASSUME NEW s \in {"startReader", "connect"}, StartReader(s)
      PROVE  \E n : CallEffect(n)
  <2>1. ~At("clearResume") /\ ~At("startAck") /\ ~At("startReceive")
        /\ ~At("stopAck") /\ ~At("stopReceive")
    BY <1>2 DEF At, StartReader
  <2>2. /\ ClientOK' /\ client'.loops = client.loops /\ client'.handle
        /\ client'.subscribed = client.subscribed
        /\ client'.pauseClient = client.pauseClient
    BY <1>2 DEF StartReader
  <2>3. CallEffect(<<>>)
    BY <1>2, <2>1, <2>2 DEF StartReader
  <2> QED
    BY <2>3
<1> QED
  BY <1>1, <1>2

\* The steps of the calls that make requests, and of those that make the processor
\* of the requests run.
RequestSteps == {"newCallbacks", "startRequests", "stopRequests", "createQueue",
                 "consume", "closeChannel", "closeConnection"}

\* Of what the invariants speak of they do nothing but leave the main thread.
LEMMA RequestEffect ==
    ASSUME ClientOK, RequestStep
    PROVE  /\ \E x \in RequestSteps : At(x)
           /\ \E n \in Ends : Then(n) /\ (n = <<>> \/ At("stopRequests"))
           /\ ClientOK' /\ client'.loops = client.loops
           /\ client'.handle = client.handle
           /\ client'.pauseClient = client.pauseClient
           /\ client'.subscribed => client.subscribed
           /\ UNCHANGED shared
<1> USE DEF ClientOK, RequestSteps
<1>1. <<>> \in Ends /\ <<"lost">> \in Ends
  BY DEF Ends
<1>2. CASE CreateCompletionCallbacks
  BY <1>1, <1>2 DEF CreateCompletionCallbacks
<1>3. CASE StartRequests
  BY <1>1, <1>3 DEF StartRequests
<1>4. CASE StopRequests
  <2>1. PICK n \in {<<>>, <<"lost">>} : Then(n)
    BY <1>4 DEF StopRequests
  <2>2. n \in Ends /\ At("stopRequests")
    BY <1>1, <1>4 DEF StopRequests
  <2> QED
    BY <1>4, <2>1, <2>2 DEF StopRequests
<1>5. ASSUME NEW step \in DOMAIN HeldIn, EndCall(step)
      PROVE  /\ step \in RequestSteps /\ At(step) /\ Then(<<>>)
             /\ ClientOK' /\ client'.loops = client.loops
             /\ client'.handle = client.handle
             /\ client'.pauseClient = client.pauseClient
             /\ client'.subscribed = client.subscribed
             /\ UNCHANGED shared
  <2>1. step \in RequestSteps
    BY DEF HeldIn
  <2>2. 1 \in 1..6 /\ {} \in SUBSET {"client", "queue"}
    OBVIOUS
  <2>3. ClientOK'
    BY <1>5, <2>2 DEF EndCall
  <2> QED
    BY <1>5, <2>1, <2>3 DEF EndCall
<1> QED
  BY <1>1, <1>2, <1>3, <1>4, <1>5 DEF RequestStep

\* A call that comes to its next part stays where it is.
LEMMA NextPartKeeps ==
    ASSUME ClientOK, NEW step \in DOMAIN HeldIn, NextPart(step)
    PROVE  /\ ClientOK' /\ client'.loops = client.loops
           /\ client'.handle = client.handle
           /\ client'.pauseClient = client.pauseClient
           /\ client'.subscribed = client.subscribed
           /\ UNCHANGED <<todo, shared>>
<1> DEFINE p == client.part + 1
           H == HeldIn[step]
<1>1. p \in 1..6 /\ H[p] \in SUBSET {"client", "queue"}
  <2>1. client.part \in 1..6 /\ client.part < Len(H)
    BY DEF NextPart, HasPart, ClientOK
  <2>2. step \in {"createQueue", "consume", "closeChannel", "closeConnection"}
    BY DEF HeldIn
  <2>3. CASE step = "createQueue"
    <3>1. H = <<{}, {"client", "queue"}, {"client"}, {}, {"client"}>>
      BY <2>3 DEF HeldIn
    <3> QED
      BY <2>1, <3>1
  <2>4. CASE step = "consume" \/ step = "closeConnection"
    <3>1. H = <<{}, {"queue"}>>
      BY <2>4 DEF HeldIn
    <3> QED
      BY <2>1, <3>1
  <2>5. CASE step = "closeChannel"
    <3>1. H = <<{}, {"queue"}, {"client"}, {}, {"client"}, {"queue"}>>
      BY <2>5 DEF HeldIn
    <3> QED
      BY <2>1, <3>1
  <2> QED
    BY <2>2, <2>3, <2>4, <2>5
<1>2. /\ client' = [client EXCEPT !.part = p, !.holds = H[p]]
      /\ UNCHANGED <<todo, shared>>
  BY DEF NextPart
<1> HIDE DEF p, H
<1> QED
  BY <1>1, <1>2 DEF ClientOK

\* The other steps of a call start and stop nothing.
LEMMA OtherEffect ==
    ASSUME ClientOK, Join \/ RequestStep \/ ClearResume \/ ClearReload
    PROVE  \E n : CallEffect(n)
<1> USE DEF CallEffect, shared, flags, threads, history
<1>1. CASE RequestStep
  <2>1. PICK x \in RequestSteps : At(x)
    BY <1>1, RequestEffect
  <2>2. /\ ~At("startAck") /\ ~At("startReceive") /\ ~At("startReader")
        /\ ~At("connect") /\ ~At("clearResume")
    BY <2>1 DEF RequestSteps, At
  <2>3. PICK n \in Ends : Then(n)
    BY <1>1, RequestEffect
  <2>4. n = <<>> \/ \E e \in Joins : n = <<e>>
    BY DEF Ends, Joins
  <2>5. CallEffect(n)
    BY <1>1, <2>2, <2>3, <2>4, RequestEffect
  <2> QED
    BY <2>5
<1>2. CASE Join \/ ClearResume \/ ClearReload
  <2>1. /\ ~At("startAck") /\ ~At("startReceive") /\ ~At("startReader") /\ ~At("connect")
        /\ At("clearResume") => ClearResume
        /\ ClearResume => At("clearResume")
    BY <1>2 DEF Join, ClearResume, ClearReload, At, Old
  <2>2. /\ ClientOK' /\ UNCHANGED client
    BY <1>2 DEF Join, ClearResume, ClearReload, ClientOK
  <2>3. CallEffect(<<>>)
    BY <1>2, <2>1, <2>2 DEF Join, ClearResume, ClearReload
  <2> QED
    BY <2>3
<1> QED
  BY <1>1, <1>2

\* A step of a call: what it halts it will start again.
LEMMA CallPart ==
    ASSUME ClientOK, NEW o, NEW b, Parts(<<>>, o, b), o # <<>>, todo # <<>>,
           \/ \E p \in Processor : StopProcessor(p) \/ StartProcessor(p)
           \/ StopReader("closeReader")
           \/ StartReader("startReader") \/ StartReader("connect")
           \/ Join \/ RequestStep
           \/ ClearResume \/ ClearReload
    PROVE  ConsumerInv'
<1> USE DEF Parts
<1>1. PICK n : CallEffect(n)
  BY StopEffect, StartEffect, ReaderEffect, OtherEffect
<1>2. o \in Seq(CallSteps)
  BY DEF Stack
<1> DEFINE k == n \o Tail(o)
<1>3. /\ \A x : At(x) <=> x = Head(o)
      /\ Tail(todo) = Tail(o) \o b
  <2>1. At(Head(todo))
    BY DEF At
  <2>2. Head(todo) = Head(o) /\ Tail(todo) = Tail(o) \o b
    BY <2>1, TopOfStack
  <2> QED
    BY <2>2 DEF At
<1>4. /\ n \in Seq(CallSteps) /\ k \in Seq(CallSteps)
      /\ \A x : In(o, x) /\ x # Head(o) => In(k, x)
      /\ \A x : In(k, x) => In(o, x) \/ x \in Joins
      /\ \A s \in {"stopAck", "stopReceive", "closeReader"} :
            \A y : Leads(o, s, y) => Leads(k, s, y) /\ (Head(o) = s => In(k, y))
  BY <1>1, <1>2, CallGoesOn DEF CallEffect
<1>5. Stack(<<>>, k, b)'
  BY <1>1, <1>3, <1>4, CallThen DEF CallEffect, Then
<1> HIDE DEF k
<1>6. MutexInv(b)' /\ ErrorInv(b)'
  BY <1>1 DEF CallEffect, MutexInv, ErrorInv, None
<1>7. HandlerInv(<<>>)'
  BY NoStep DEF HandlerInv
<1>8. CallInv(k, b)'
  BY <1>4 DEF CallInv
<1>9. HaltInv(<<>>, k, b)'
  <2>1. CASE b \in Last
    BY <2>1 DEF HaltInv
  <2>2. CASE Requested(<<>>, o)
    <3>1. ~In(<<>>, "requestResume")
      BY NoStep
    <3>2. In(o, Head(o))
      BY <1>2, TailElements
    <3>3. ~In(o, "clearResume") => ~In(k, "clearResume") /\ Head(o) # "clearResume"
      BY <1>4, <3>2 DEF Joins
    <3> QED
      BY <1>1, <1>3, <2>2, <3>1, <3>3 DEF HaltInv, Requested, CallEffect
  <2>3. CASE /\ b \notin Last
             /\ client.loops.ack = 0 => In(o, "startAck")
             /\ client.loops.receive = 0 => In(o, "startReceive")
             /\ ~client.handle => In(o, "startReader") \/ In(o, "connect")
    <3>1. client'.loops.ack = 0 => In(k, "startAck")
      BY <1>1, <1>3, <1>4, <2>3 DEF CallEffect, CallInv
    <3>2. client'.loops.receive = 0 => In(k, "startReceive")
      BY <1>1, <1>3, <1>4, <2>3 DEF CallEffect, CallInv
    <3>3. ~client'.handle => In(k, "startReader") \/ In(k, "connect")
      BY <1>1, <1>3, <1>4, <2>3 DEF CallEffect, CallInv
    <3> QED
      BY <3>1, <3>2, <3>3 DEF HaltInv
  <2> QED
    BY <2>1, <2>2, <2>3 DEF HaltInv
<1> QED
  BY <1>1, <1>5, <1>6, <1>7, <1>8, <1>9 DEF ConsumerInv, CallEffect

-----------------------------------------------------------------------------
(* The calls that the main thread makes.                                   *)

\* Closing it, it stops.
LEMMA CloseClientStops ==
    ASSUME NEW f \in BOOLEAN
    PROVE  CloseClient(f) \in Seq(CallSteps)
<1>1. CASE f
  BY <1>1 DEF CloseClient, Stop, CallSteps
<1>2. CASE ~f
  BY <1>2 DEF CloseClient, Stop, CallSteps
<1> QED
  BY <1>1, <1>2

\* Reopening the client, the main thread starts what it has stopped.
LEMMA ReopenRestarts ==
    ASSUME NEW f \in BOOLEAN
    PROVE  /\ Reopen(f) \in Seq(CallSteps)
           /\ ~In(Reopen(f), "clearResume")
           /\ Leads(Reopen(f), "stopAck", "startAck")
           /\ Leads(Reopen(f), "stopReceive", "startReceive")
           /\ Leads(Reopen(f), "closeReader", "connect")
<1> USE DEF Reopen, CloseClient, Start, Stop, OpenQueueForReceive
<1>1. CASE f
  <2>1. Reopen(f) \in Seq(CallSteps)
    BY <1>1 DEF CallSteps
  <2>2. ~In(Reopen(f), "clearResume")
    BY <1>1 DEF In
  <2>3. Leads(Reopen(f), "stopAck", "startAck")
    BY <1>1 DEF Leads
  <2>4. Leads(Reopen(f), "stopReceive", "startReceive")
    BY <1>1 DEF Leads
  <2>5. Leads(Reopen(f), "closeReader", "connect")
    BY <1>1 DEF Leads
  <2> QED
    BY <2>1, <2>2, <2>3, <2>4, <2>5
<1>2. CASE ~f
  <2>1. Reopen(f) \in Seq(CallSteps)
    BY <1>2 DEF CallSteps
  <2>2. ~In(Reopen(f), "clearResume")
    BY <1>2 DEF In
  <2>3. Leads(Reopen(f), "stopAck", "startAck")
    BY <1>2 DEF Leads
  <2>4. Leads(Reopen(f), "stopReceive", "startReceive")
    BY <1>2 DEF Leads
  <2>5. Leads(Reopen(f), "closeReader", "connect")
    BY <1>2 DEF Leads
  <2> QED
    BY <2>1, <2>2, <2>3, <2>4, <2>5
<1> QED
  BY <1>1, <1>2

ResumeSteps == Resume \o <<"clearResume">>

\* Resuming it, the main thread stops nothing, and starts all of a paused client.
LEMMA ResumeRestarts ==
    /\ ResumeSteps \in Seq(CallSteps)
    /\ Leads(ResumeSteps, "stopAck", "startAck")
    /\ Leads(ResumeSteps, "stopReceive", "startReceive")
    /\ Leads(ResumeSteps, "closeReader", "connect")
    /\ client.pauseClient => /\ In(ResumeSteps, "startAck")
                             /\ In(ResumeSteps, "startReceive")
                             /\ In(ResumeSteps, "startReader")
<1> USE DEF ResumeSteps, Resume, Start
<1>1. CASE client.pauseClient
  <2>1. ResumeSteps \in Seq(CallSteps)
    BY <1>1 DEF CallSteps
  <2>2. In(ResumeSteps, "startAck")
    BY <1>1 DEF In
  <2>3. In(ResumeSteps, "startReceive")
    BY <1>1 DEF In
  <2>4. In(ResumeSteps, "startReader")
    BY <1>1 DEF In
  <2>5. /\ Leads(ResumeSteps, "stopAck", "startAck")
        /\ Leads(ResumeSteps, "stopReceive", "startReceive")
        /\ Leads(ResumeSteps, "closeReader", "connect")
    BY <1>1 DEF Leads
  <2> QED
    BY <2>1, <2>2, <2>3, <2>4, <2>5
<1>2. CASE ~client.pauseClient
  <2>1. ResumeSteps \in Seq(CallSteps)
    BY <1>2 DEF CallSteps
  <2>2. /\ Leads(ResumeSteps, "stopAck", "startAck")
        /\ Leads(ResumeSteps, "stopReceive", "startReceive")
        /\ Leads(ResumeSteps, "closeReader", "connect")
    BY <1>2 DEF Leads
  <2> QED
    BY <1>2, <2>1, <2>2
<1> QED
  BY <1>1, <1>2

\* A handler requests that the client resume, after it paused it.
LEMMA HandlerOrder ==
    ASSUME NEW sig \in Signal
    PROVE  /\ Handle(sig) \o <<Returning(sig)>> \in Seq(HandlerSteps)
           /\ \A s \in {"stopAck", "stopReceive", "pauseReader"} :
                 /\ Leads(Handle(sig) \o <<Returning(sig)>>, s, "requestResume")
                 /\ Follows(Handle(sig) \o <<Returning(sig)>>, s, "pauseFlag")
<1> USE DEF Handle, Returning, Pause, Stop
<1>1. CASE sig = "INT"
  <2>1. Handle(sig) \o <<Returning(sig)>> \in Seq(HandlerSteps)
    BY <1>1 DEF HandlerSteps
  <2>2. \A s \in {"stopAck", "stopReceive", "pauseReader"} :
           Leads(Handle(sig) \o <<Returning(sig)>>, s, "requestResume")
    BY <1>1 DEF Leads
  <2>3. \A s \in {"stopAck", "stopReceive", "pauseReader"} :
           Follows(Handle(sig) \o <<Returning(sig)>>, s, "pauseFlag")
    BY <1>1 DEF Follows
  <2> QED
    BY <2>1, <2>2, <2>3
<1>2. CASE sig \in {"HUP", "TERM"}
  <2>1. Handle(sig) \o <<Returning(sig)>> \in Seq(HandlerSteps)
    <3>1. CASE sig = "HUP"
      BY <3>1 DEF HandlerSteps
    <3>2. CASE sig = "TERM"
      BY <3>2 DEF HandlerSteps
    <3> QED
      BY <1>2, <3>1, <3>2
  <2>2. \A s \in {"stopAck", "stopReceive", "pauseReader"} :
           Leads(Handle(sig) \o <<Returning(sig)>>, s, "requestResume")
    BY <1>2 DEF Leads
  <2>3. \A s \in {"stopAck", "stopReceive", "pauseReader"} :
           Follows(Handle(sig) \o <<Returning(sig)>>, s, "pauseFlag")
    BY <1>2 DEF Follows
  <2> QED
    BY <2>1, <2>2, <2>3
<1> QED
  BY <1>1, <1>2 DEF Signal

-----------------------------------------------------------------------------
(* The main thread itself.                                                 *)

\* With no handler and no call on top, the main thread is at its base.
LEMMA AtBase ==
    ASSUME NEW b, NEW h, NEW o, Stack(h, o, b), NEW x \in BaseSteps, At(x)
    PROVE  /\ h = <<>> /\ o = <<>> /\ todo = b /\ b \in Bases
           /\ x \in {"top", "test", "sleep", "asleep", "tally", "checkResume",
                     "checkReload", "end", "unwound"} => todo = <<x>> /\ Tail(todo) = <<>>
           /\ x = "lock" => todo = <<"lock", "test">> /\ Tail(todo) = <<"test">>
           /\ x = "unlock" =>
                 /\ todo = <<"unlock", "checkResume">>
                 /\ Tail(todo) = <<"checkResume">>
<1>1. h = <<>> /\ o = <<>> /\ todo = b /\ b # <<>> /\ Head(b) = x
  BY TopOfStack DEF HandlerSteps, CallSteps, BaseSteps
<1>2. b \in Bases
  BY DEF Stack
<1>3. b = <<Head(b)>> \/ b = <<"lock", "test">> \/ b = <<"unlock", "checkResume">>
  BY <1>1, <1>2 DEF Bases
<1>4. CASE b = <<"lock", "test">> \/ b = <<"unlock", "checkResume">>
  <2>1. Head(<<"lock", "test">>) = "lock" /\ Tail(<<"lock", "test">>) = <<"test">>
    OBVIOUS
  <2>2. /\ Head(<<"unlock", "checkResume">>) = "unlock"
        /\ Tail(<<"unlock", "checkResume">>) = <<"checkResume">>
    OBVIOUS
  <2> QED
    BY <1>1, <1>2, <1>4, <2>1, <2>2
<1>5. CASE b = <<Head(b)>>
  <2>1. Tail(<<x>>) = <<>>
    OBVIOUS
  <2>2. x # "lock" /\ x # "unlock"
    BY <1>1, <1>2, <1>5 DEF Bases
  <2> QED
    BY <1>1, <1>2, <1>5, <2>1, <2>2
<1> QED
  BY <1>3, <1>4, <1>5

\* Where a step from one base leads.
LEMMA BaseGoes ==
    ASSUME NEW o \in Seq(CallSteps), NEW b \in Bases, NEW t,
           \/ t = <<>> /\ todo' = (o \o b) \o t
           \/ o = <<>> /\ t = <<>> /\ todo' = b \o t
           \/ o = <<>> /\ todo' = b
           \/ o = <<>> /\ b = t /\ todo' = <<>> \o t
    PROVE  Stack(<<>>, o, b)'
<1>1. o \in Seq(Steps) /\ b \in Seq(Steps) /\ o \o b \in Seq(Steps)
  <2>1. o \in Seq(Steps) /\ b \in Seq(Steps)
    BY BasesAre, SeqMonotonic DEF Steps
  <2> QED
    BY <2>1, ConcatProperties
<1>2. (o \o b) \o <<>> = o \o b /\ <<>> \o b = b /\ b \o <<>> = b
  BY <1>1, ConcatEmptySeq
<1>3. todo' = o \o b
  BY <1>2
<1> QED
  BY <1>3, BaseThen

\* The steps of the main thread between its calls.
LEMMA BasePart ==
    ASSUME ClientOK, NEW h, NEW o, NEW b, Parts(h, o, b),
           \/ Top \/ Lock \/ Test \/ Sleep \/ Wake \/ Tally \/ Unlock
           \/ CheckResume \/ CheckReload \/ End
    PROVE  ConsumerInv'
<1> USE DEF Parts
<1>1. <<>> \in Seq(CallSteps)
  BY EmptySeq
<1>2. /\ HandlerInv(<<>>)'
      /\ \A x : ~In(<<>>, x)
      /\ \A c : CallInv(<<>>, c)'
  BY NoStep DEF HandlerInv, CallInv
<1>3. ASSUME NEW x \in BaseSteps, At(x)
      PROVE  h = <<>> /\ o = <<>> /\ todo = b
  BY <1>3, AtBase
<1>4. ASSUME UNCHANGED client, NEW c \in Bases, Stack(<<>>, <<>>, c)',
             MutexInv(c)', ErrorInv(c)', h = <<>>, o = <<>>, b \notin Last,
             UNCHANGED <<resumeRequested, erased>>
      PROVE  ConsumerInv'
  <2>1. ClientOK'
    BY <1>4 DEF ClientOK
  <2>2. HaltInv(<<>>, <<>>, c)'
    BY <1>2, <1>4 DEF HaltInv, Requested
  <2> QED
    BY <1>2, <1>4, <2>1, <2>2 DEF ConsumerInv
<1> USE DEF shared, flags, threads, history
<1>5. CASE Top
  <2>1. h = <<>> /\ o = <<>> /\ todo = b /\ todo = <<"top">> /\ Tail(todo) = <<>>
    BY <1>5, AtBase DEF Top, BaseSteps
  <2>2. b \notin Last
    BY <2>1 DEF Last
  <2>3. CASE Then(<<"lock", "test">>)
    <3>1. todo' = <<"lock", "test">> \o <<>> /\ <<"lock", "test">> \in Bases
      BY <2>1, <2>3 DEF Then, Bases
    <3>2. Stack(<<>>, <<>>, <<"lock", "test">>)'
      BY <1>1, <3>1, BaseGoes
    <3>3. MutexInv(<<"lock", "test">>)' /\ ErrorInv(<<"lock", "test">>)'
      BY <1>5 DEF Top, MutexInv, ErrorInv
    <3> QED
      BY <1>4, <1>5, <2>1, <2>2, <3>1, <3>2, <3>3 DEF Top
  <2>4. ASSUME NEW f \in BOOLEAN, Then(CloseClient(f) \o <<"end">>)
        PROVE  ConsumerInv'
    <3>1. CloseClient(f) \in Seq(CallSteps) /\ <<"end">> \in Bases
      BY CloseClientStops DEF Bases
    <3>2. Stack(<<>>, CloseClient(f), <<"end">>)'
      BY <2>1, <2>4, <3>1, BaseGoes DEF Then
    <3>3. MutexInv(<<"end">>)' /\ ErrorInv(<<"end">>)'
      BY <1>5 DEF Top, MutexInv, ErrorInv
    <3>4. CallInv(CloseClient(f), <<"end">>)' /\ HaltInv(<<>>, CloseClient(f), <<"end">>)'
      BY DEF CallInv, HaltInv, Last
    <3>5. ClientOK'
      BY <1>5 DEF Top, ClientOK
    <3> QED
      BY <1>2, <3>2, <3>3, <3>4, <3>5 DEF ConsumerInv
  <2> QED
    BY <1>5, <2>3, <2>4 DEF Top
<1>6. CASE Lock
  <2>1. h = <<>> /\ o = <<>> /\ b = <<"lock", "test">> /\ Tail(todo) = <<"test">>
    BY <1>6, AtBase DEF Lock, BaseSteps
  <2>2. b \notin Last /\ <<"test">> \in Bases
    BY <2>1 DEF Last, Bases
  <2>3. Stack(<<>>, <<>>, <<"test">>)'
    BY <1>1, <1>6, <2>1, <2>2, BaseGoes DEF Lock, Then
  <2>4. MutexInv(<<"test">>)' /\ ErrorInv(<<"test">>)'
    BY <1>6 DEF Lock, MutexInv, ErrorInv, None
  <2> QED
    BY <1>4, <1>6, <2>1, <2>2, <2>3, <2>4 DEF Lock
<1>7. CASE Test
  <2>1. h = <<>> /\ o = <<>> /\ b = <<"test">> /\ Tail(todo) = <<>>
    BY <1>7, AtBase DEF Test, BaseSteps
  <2>2. b \notin Last /\ <<"tally">> \in Bases /\ <<"sleep">> \in Bases
    BY <2>1 DEF Last, Bases
  <2>3. CASE Wakes
    <3>1. todo' = <<"tally">> \o <<>>
      BY <1>7, <2>1, <2>3 DEF Test, Then
    <3>2. Stack(<<>>, <<>>, <<"tally">>)'
      BY <1>1, <2>2, <3>1, BaseGoes
    <3>3. MutexInv(<<"tally">>)' /\ ErrorInv(<<"tally">>)'
      BY <1>7, <2>1 DEF Test, MutexInv, ErrorInv
    <3> QED
      BY <1>4, <1>7, <2>1, <2>2, <3>2, <3>3 DEF Test
  <2>4. CASE ~Wakes
    <3>1. todo' = <<"sleep">> \o <<>>
      BY <1>7, <2>1, <2>4 DEF Test, Then
    <3>2. Stack(<<>>, <<>>, <<"sleep">>)'
      BY <1>1, <2>2, <3>1, BaseGoes
    <3>3. ~breakWait
      BY <2>4 DEF Wakes
    <3>4. MutexInv(<<"sleep">>)' /\ ErrorInv(<<"sleep">>)'
      BY <1>7, <2>1, <3>3 DEF Test, MutexInv, ErrorInv
    <3> QED
      BY <1>4, <1>7, <2>1, <2>2, <3>2, <3>4 DEF Test
  <2> QED
    BY <2>3, <2>4
<1>8. CASE Sleep
  <2>1. h = <<>> /\ o = <<>> /\ b = <<"sleep">> /\ Tail(todo) = <<>>
    BY <1>8, AtBase DEF Sleep, BaseSteps
  <2>2. b \notin Last /\ <<"asleep">> \in Bases
    BY <2>1 DEF Last, Bases
  <2>3. Stack(<<>>, <<>>, <<"asleep">>)'
    <3>1. todo' = <<"asleep">> \o <<>>
      BY <1>8, <2>1 DEF Sleep, Then
    <3> QED
      BY <1>1, <2>2, <3>1, BaseGoes
  <2>4. MutexInv(<<"asleep">>)' /\ ErrorInv(<<"asleep">>)'
    BY <1>8, <2>1 DEF Sleep, MutexInv, ErrorInv, None
  <2> QED
    BY <1>4, <1>8, <2>1, <2>2, <2>3, <2>4 DEF Sleep
<1>9. CASE Wake
  <2>1. h = <<>> /\ o = <<>> /\ b = <<"asleep">> /\ Tail(todo) = <<>>
    BY <1>9, AtBase DEF Wake, BaseSteps
  <2>2. b \notin Last /\ <<"test">> \in Bases
    BY <2>1 DEF Last, Bases
  <2>3. Stack(<<>>, <<>>, <<"test">>)'
    <3>1. todo' = <<"test">> \o <<>>
      BY <1>9, <2>1 DEF Wake, Then
    <3> QED
      BY <1>1, <2>2, <3>1, BaseGoes
  <2>4. MutexInv(<<"test">>)' /\ ErrorInv(<<"test">>)'
    BY <1>9 DEF Wake, MutexInv, ErrorInv, None
  <2> QED
    BY <1>4, <1>9, <2>1, <2>2, <2>3, <2>4 DEF Wake
<1>10. CASE Tally
  <2>1. h = <<>> /\ o = <<>> /\ b = <<"tally">> /\ Tail(todo) = <<>>
    BY <1>10, AtBase DEF Tally, BaseSteps
  <2>2. b \notin Last /\ <<"unlock", "checkResume">> \in Bases
    BY <2>1 DEF Last, Bases
  <2>3. Stack(<<>>, <<>>, <<"unlock", "checkResume">>)'
    <3>1. todo' = <<"unlock", "checkResume">> \o <<>>
      BY <1>10, <2>1 DEF Tally, Then
    <3> QED
      BY <1>1, <2>2, <3>1, BaseGoes
  <2>4. MutexInv(<<"unlock", "checkResume">>)' /\ ErrorInv(<<"unlock", "checkResume">>)'
    BY <1>10, <2>1 DEF Tally, MutexInv, ErrorInv
  <2> QED
    BY <1>4, <1>10, <2>1, <2>2, <2>3, <2>4 DEF Tally
<1>11. CASE Unlock
  <2>1. h = <<>> /\ o = <<>> /\ b = <<"unlock", "checkResume">>
        /\ Tail(todo) = <<"checkResume">>
    BY <1>11, AtBase DEF Unlock, BaseSteps
  <2>2. b \notin Last /\ <<"checkResume">> \in Bases
    BY <2>1 DEF Last, Bases
  <2>3. Stack(<<>>, <<>>, <<"checkResume">>)'
    BY <1>1, <1>11, <2>1, <2>2, BaseGoes DEF Unlock, Then
  <2>4. MutexInv(<<"checkResume">>)' /\ ErrorInv(<<"checkResume">>)'
    BY <1>11, <2>1 DEF Unlock, MutexInv, ErrorInv, None
  <2> QED
    BY <1>4, <1>11, <2>1, <2>2, <2>3, <2>4 DEF Unlock
<1>12. CASE CheckResume
  <2>1. h = <<>> /\ o = <<>> /\ b = <<"checkResume">> /\ Tail(todo) = <<>>
    BY <1>12, AtBase DEF CheckResume, BaseSteps
  <2>2. b \notin Last /\ <<"checkReload">> \in Bases
    BY <2>1 DEF Last, Bases
  <2>3. MutexInv(<<"checkReload">>)' /\ ErrorInv(<<"checkReload">>)'
    BY <1>12 DEF CheckResume, MutexInv, ErrorInv
  <2>4. CASE resumeRequested
    <3>1. PICK r : r = ResumeSteps
      OBVIOUS
    <3>2. /\ r \in Seq(CallSteps)
          /\ Leads(r, "stopAck", "startAck")
          /\ Leads(r, "stopReceive", "startReceive")
          /\ Leads(r, "closeReader", "connect")
          /\ client.pauseClient => /\ In(r, "startAck") /\ In(r, "startReceive")
                                   /\ In(r, "startReader")
      BY <3>1, ResumeRestarts
    <3>3. todo' = (r \o <<"checkReload">>) \o <<>>
      <4>1. Then(ResumeSteps \o <<"checkReload">>)
        BY <1>12, <2>4, Zenon DEF CheckResume, ResumeSteps
      <4> HIDE DEF ResumeSteps
      <4> QED
        BY <2>1, <3>1, <4>1, Zenon DEF Then
    <3>4. Stack(<<>>, r, <<"checkReload">>)'
      BY <2>2, <3>2, <3>3, BaseGoes
    <3>5. CallInv(r, <<"checkReload">>)'
      BY <3>2 DEF CallInv
    <3>6. UNCHANGED <<client, erased>>
      BY <1>12 DEF CheckResume
    <3>7. HaltInv(<<>>, r, <<"checkReload">>)'
      BY <1>2, <2>1, <2>2, <3>2, <3>6 DEF HaltInv, Requested
    <3>8. ClientOK'
      BY <3>6 DEF ClientOK
    <3> QED
      BY <1>2, <2>3, <3>4, <3>5, <3>7, <3>8 DEF ConsumerInv
  <2>5. CASE ~resumeRequested
    <3>1. todo' = (<<>> \o <<"checkReload">>) \o <<>>
      <4>1. Then(<<>> \o <<"checkReload">>)
        BY <1>12, <2>5, Zenon DEF CheckResume
      <4> QED
        BY <2>1, <4>1, Zenon DEF Then
    <3>2. Stack(<<>>, <<>>, <<"checkReload">>)'
      BY <1>1, <2>2, <3>1, BaseGoes
    <3> QED
      BY <1>4, <1>12, <2>1, <2>2, <2>3, <3>2 DEF CheckResume
  <2> QED
    BY <2>4, <2>5
<1>13. CASE CheckReload
  <2>1. h = <<>> /\ o = <<>> /\ b = <<"checkReload">> /\ Tail(todo) = <<>>
    BY <1>13, AtBase DEF CheckReload, BaseSteps
  <2>2. b \notin Last /\ <<"top">> \in Bases
    BY <2>1 DEF Last, Bases
  <2>3. MutexInv(<<"top">>)' /\ ErrorInv(<<"top">>)'
    BY <1>13 DEF CheckReload, MutexInv, ErrorInv
  <2>4. CASE Then(<<"top">>)
    <3>1. todo' = <<"top">> \o <<>>
      BY <2>1, <2>4 DEF Then
    <3>2. Stack(<<>>, <<>>, <<"top">>)'
      BY <1>1, <2>2, <3>1, BaseGoes
    <3> QED
      BY <1>4, <1>13, <2>1, <2>2, <2>3, <3>2 DEF CheckReload
  <2>5. ASSUME NEW f \in BOOLEAN, Then(Reopen(f) \o <<"top">>)
        PROVE  ConsumerInv'
    <3>1. Stack(<<>>, Reopen(f), <<"top">>)'
      BY <2>1, <2>2, <2>5, ReopenRestarts, BaseGoes DEF Then
    <3>2. CallInv(Reopen(f), <<"top">>)'
      BY ReopenRestarts DEF CallInv
    <3>3. HaltInv(<<>>, Reopen(f), <<"top">>)'
      BY <1>2, <1>13, <2>1, <2>2, ReopenRestarts DEF CheckReload, HaltInv, Requested
    <3>4. ClientOK'
      BY <1>13 DEF CheckReload, ClientOK
    <3> QED
      BY <1>2, <2>3, <3>1, <3>2, <3>3, <3>4 DEF ConsumerInv
  <2> QED
    BY <1>13, <2>4, <2>5 DEF CheckReload
<1>14. CASE End
  <2>1. Tail(todo) = <<>>
    BY <1>14, AtBase DEF End, BaseSteps
  <2>2. todo' = <<>> \o <<>> /\ <<>> \in Bases
    BY <1>14, <2>1 DEF End, Then, Bases
  <2>3. Stack(<<>>, <<>>, <<>>)'
    BY <1>1, <2>2, BaseGoes
  <2>4. MutexInv(<<>>)' /\ ErrorInv(<<>>)' /\ ClientOK'
    BY <1>14 DEF End, MutexInv, ErrorInv, ClientOK
  <2>5. HaltInv(<<>>, <<>>, <<>>)'
    BY DEF HaltInv, Last
  <2> QED
    BY <1>2, <2>3, <2>4, <2>5 DEF ConsumerInv
<1> QED
  BY <1>5, <1>6, <1>7, <1>8, <1>9, <1>10, <1>11, <1>12, <1>13, <1>14

\* What throws unsubscribes, and nothing is started any more.
LEMMA ThrowPart ==
    ASSUME ClientOK, NEW h, NEW o, NEW b, Parts(h, o, b), Throw
    PROVE  ConsumerInv'
<1> USE DEF Parts, shared, flags, threads, history
<1> DEFINE c == CloseClient(FALSE)
<1>1. c \in Seq(CallSteps) /\ <<"unwound">> \in Bases /\ <<"unwound">> \in Last
  BY CloseClientStops DEF Bases, Last
<1>2. todo' = c \o <<"unwound">>
  BY DEF Throw
<1> HIDE DEF c
<1>3. Stack(<<>>, c, <<"unwound">>)'
  BY <1>1, <1>2, BaseThen
<1>4. ClientOK' /\ ~client'.subscribed
  <2>1. 1 \in 1..6 /\ {} \in SUBSET {"client", "queue"}
    OBVIOUS
  <2> QED
    BY <2>1 DEF Throw, ClientOK
<1>5. MutexInv(<<"unwound">>)' /\ ErrorInv(<<"unwound">>)'
  BY <1>4 DEF Throw, MutexInv, ErrorInv
<1>6. CallInv(c, <<"unwound">>)' /\ HaltInv(<<>>, c, <<"unwound">>)'
  BY <1>1 DEF CallInv, HaltInv
<1>7. HandlerInv(<<>>)'
  BY NoStep DEF HandlerInv
<1> QED
  BY <1>3, <1>4, <1>5, <1>6, <1>7 DEF ConsumerInv

\* A signal puts a handler on top, whatever the main thread does.
LEMMA SignalPart ==
    ASSUME ClientOK, NEW h, NEW o, NEW b, Parts(h, o, b),
           NEW sig \in Signal, UnixSignalHandler(sig)
    PROVE  ConsumerInv'
<1> USE DEF Parts, shared, flags, threads, history
<1> DEFINE q == Handle(sig) \o <<Returning(sig)>>
<1>1. /\ q \in Seq(HandlerSteps)
      /\ \A s \in {"stopAck", "stopReceive", "pauseReader"} :
            Leads(q, s, "requestResume") /\ Follows(q, s, "pauseFlag")
  BY HandlerOrder
<1>2. /\ todo' = q \o todo
      /\ UNCHANGED <<mutex, waiting, breakWait, resumeRequested, client, reader, handler,
                     erased>>
  BY DEF UnixSignalHandler
<1> HIDE DEF q
<1>3. /\ h \in Seq(HandlerSteps) /\ q \in Seq(Steps) /\ h \in Seq(Steps)
      /\ o \o b \in Seq(Steps) /\ o \in Seq(CallSteps) /\ b \in Bases
      /\ todo = h \o (o \o b)
  BY <1>1, StepsOf, SeqMonotonic DEF Stack, Steps
<1>4. q \o h \in Seq(HandlerSteps)
  BY <1>1, <1>3, ConcatProperties
<1>5. todo' = (q \o h) \o (o \o b)
  <2> DEFINE r == o \o b
  <2>1. r \in Seq(Steps) /\ todo' = q \o (h \o r)
    BY <1>2, <1>3
  <2> HIDE DEF r
  <2>2. (q \o h) \o r = q \o (h \o r)
    <3>1. q \in Seq(Steps) /\ h \in Seq(Steps) /\ r \in Seq(Steps)
      BY <1>3, <2>1
    <3> QED
      BY ONLY <3>1, ConcatAssociative
  <2> QED
    BY <2>1, <2>2 DEF r
<1> DEFINE k == q \o h
<1>6. Stack(k, o, b)'
  BY <1>3, <1>4, <1>5 DEF Stack
<1>7. \A x : In(h, x) => In(k, x)
  BY <1>1, <1>3, ConcatIn
<1>8. \A s \in {"stopAck", "stopReceive", "pauseReader"} :
         /\ Leads(h, s, "requestResume") => Leads(k, s, "requestResume")
         /\ Follows(h, s, "pauseFlag") => Follows(k, s, "pauseFlag")
  BY <1>1, <1>3, ConcatLeads, ConcatFollows
<1> HIDE DEF k
<1>9. HandlerInv(k)'
  BY <1>2, <1>8 DEF HandlerInv
<1>10. MutexInv(b)' /\ ErrorInv(b)' /\ CallInv(o, b)'
  BY <1>2 DEF MutexInv, ErrorInv, CallInv
<1>11. HaltInv(k, o, b)'
  BY <1>2, <1>7 DEF HaltInv, Requested
<1>12. ClientOK'
  BY <1>2 DEF ClientOK
<1> QED
  BY <1>6, <1>9, <1>10, <1>11, <1>12 DEF ConsumerInv

\* The other threads take the mutex before they set a flag, and then notify.
LEMMA ThreadPart ==
    ASSUME ClientOK, NEW h, NEW o, NEW b, Parts(h, o, b),
           \/ SpuriousWakeup \/ Receive \/ MessageStep
           \/ Parse \/ ParseRefused \/ NotifyError \/ ReaderStep
    PROVE  ConsumerInv'
<1> USE DEF Parts, shared, flags, threads, history
<1>1. UNCHANGED <<todo, client, resumeRequested, erased>>
  BY DEF SpuriousWakeup, Receive, MessageStep, NotifyError, ReaderStep, MessageLocked,
         MessageUnlocked, MessageNotifies, Parse, ParseRefused, Parsed, CalledBack,
         ReaderExits, ErrorLocked, ErrorUnlocked, ErrorNotifies
<1>2. /\ Stack(h, o, b)' /\ ClientOK'
      /\ HandlerInv(h)' /\ CallInv(o, b)' /\ HaltInv(h, o, b)'
  BY <1>1 DEF Stack, ClientOK, HandlerInv, CallInv, HaltInv, Requested
<1>3. MutexInv(b)'
  BY DEF MutexInv, SpuriousWakeup, Receive, MessageStep, NotifyError, ReaderStep,
         MessageLocked, MessageUnlocked, MessageNotifies, Parse, ParseRefused, Parsed,
         CalledBack, ReadsOn, ReaderExits, ErrorLocked, ErrorUnlocked, ErrorNotifies, None
<1>4. ErrorInv(b)'
  <2> USE DEF ErrorInv, None
  <2>1. CASE SpuriousWakeup \/ Receive
    BY <2>1 DEF SpuriousWakeup, Receive
  <2>2. CASE MessageLocked
    <3>1. breakWait => breakWait'
      BY <2>2 DEF MessageLocked
    <3> QED
      BY <2>2, <3>1 DEF MessageLocked
  <2>3. CASE MessageUnlocked \/ MessageNotifies
    <3>1. waiting' => waiting
      BY <2>3 DEF MessageUnlocked, MessageNotifies
    <3> QED
      BY <2>3, <3>1 DEF MessageUnlocked, MessageNotifies
  <2>4. CASE \/ Parse \/ ParseRefused \/ Parsed \/ CalledBack
             \/ NotifyError \/ ReaderExits
    BY <2>4 DEF Parse, ParseRefused, Parsed, CalledBack, ReadsOn, NotifyError, ReaderExits
  <2>5. CASE ErrorLocked
    BY <2>5 DEF ErrorLocked, MutexInv
  <2>6. CASE ErrorUnlocked \/ ErrorNotifies
    BY <2>6 DEF ErrorUnlocked, ErrorNotifies
  <2> QED
    BY <2>1, <2>2, <2>3, <2>4, <2>5, <2>6 DEF MessageStep, ReaderStep
<1> QED
  BY <1>2, <1>3, <1>4 DEF ConsumerInv

\* A call that comes to its next part changes nothing of it.
LEMMA PartKeeps ==
    ASSUME ClientOK, NEW h, NEW o, NEW b, Parts(h, o, b),
           NEW step \in DOMAIN HeldIn, NextPart(step)
    PROVE  ConsumerInv'
<1>1. /\ ClientOK' /\ client'.loops = client.loops
      /\ client'.handle = client.handle
      /\ client'.pauseClient = client.pauseClient
      /\ client'.subscribed = client.subscribed
      /\ UNCHANGED <<todo, mutex, waiting, breakWait, resumeRequested, reader, handler,
                     erased>>
  BY NextPartKeeps DEF shared, flags, threads, history
<1>2. Parts(h, o, b)'
  BY <1>1 DEF Parts, Stack, MutexInv, ErrorInv, HandlerInv, CallInv, HaltInv, Requested
<1> QED
  BY <1>1, <1>2 DEF ConsumerInv, Parts

-----------------------------------------------------------------------------
(* The invariant and the theorems.                                         *)

\* The consumer starts with its client running.
LEMMA ConsumerInit == Init => ConsumerInv
<1> SUFFICES ASSUME Init PROVE ConsumerInv
  OBVIOUS
<1>1. ClientOK
  BY DEF Init, ClientOK
<1>2. <<>> \in Seq(CallSteps) /\ <<>> \in Seq(HandlerSteps) /\ <<"top">> \in Bases
  BY EmptySeq DEF Bases
<1>3. Stack(<<>>, <<>>, <<"top">>)
  <2>1. <<"top">> \in Seq(BaseSteps)
    BY <1>2, BasesAre
  <2>2. <<>> \o (<<>> \o <<"top">>) = <<"top">>
    BY <2>1, ConcatEmptySeq
  <2> QED
    BY <1>2, <2>2 DEF Init, Stack
<1>4. HandlerInv(<<>>) /\ CallInv(<<>>, <<"top">>)
  BY NoStep DEF HandlerInv, CallInv
<1>5. MutexInv(<<"top">>) /\ ErrorInv(<<"top">>) /\ HaltInv(<<>>, <<>>, <<"top">>)
  BY DEF Init, MutexInv, ErrorInv, HaltInv, None
<1> QED
  BY <1>1, <1>3, <1>4, <1>5 DEF ConsumerInv

\* Every step of every thread, and every signal, keeps it.
LEMMA ConsumerNext == ConsumerInv /\ [Next]_vars => ConsumerInv'
<1> SUFFICES ASSUME ConsumerInv, [Next]_vars PROVE ConsumerInv'
  OBVIOUS
<1>1. PICK h, o, b : Parts(h, o, b)
  BY DEF ConsumerInv, Parts
<1>2. ClientOK
  BY DEF ConsumerInv
<1>3. CASE UNCHANGED vars
  <2>1. UNCHANGED <<todo, client, mutex, waiting, breakWait, resumeRequested, reader,
                    handler, erased>>
    BY <1>3 DEF vars, shared, flags, threads, history
  <2>2. ClientOK' /\ Parts(h, o, b)'
    BY <1>1, <1>2, <2>1 DEF Parts, ClientOK, Stack, MutexInv, ErrorInv, HandlerInv,
                            CallInv, HaltInv, Requested
  <2> QED
    BY <2>2 DEF ConsumerInv, Parts
<1>4. CASE \/ \E p \in Processor : StopProcessor(p) \/ StartProcessor(p)
           \/ Join \/ PauseFlag
           \/ \E step \in {"pauseReader", "closeReader"} : StopReader(step)
           \/ \E step \in {"startReader", "connect"} : StartReader(step)
           \/ RequestStep
           \/ ClearResume \/ ClearReload \/ HandlerStep
  <2>1. PICK x \in Steps : At(x)
    <3>1. todo # <<>>
      BY <1>2, <1>4, RequestEffect
         DEF At, HandlerStep, Join, PauseFlag, StopReader, StartReader, StopProcessor,
             StartProcessor, ClearResume, ClearReload, Option, RequestResume,
             RequestReload, Notify, Return
    <3>2. Head(todo) \in Steps
      BY <1>1, <3>1, StepsOf, HeadTailProperties DEF Parts
    <3> QED
      BY <3>1, <3>2 DEF At
  <2>2. CASE h # <<>>
    <3>1. x \in HandlerSteps
      BY <1>1, <2>1, <2>2, TopOfStack DEF Parts
    <3>2. ~\E p \in Processor : StartProcessor(p)
      BY <2>1, <3>1 DEF StartProcessor, Start, Processor, At, HandlerSteps
    <3>3. /\ ~StopReader("closeReader")
          /\ ~StartReader("startReader") /\ ~StartReader("connect")
          /\ ~RequestStep
          /\ ~ClearResume /\ ~ClearReload
      BY <1>2, <2>1, <3>1, RequestEffect
         DEF StopReader, StartReader, ClearResume, ClearReload, At, HandlerSteps,
             RequestSteps
    <3> QED
      BY <1>1, <1>2, <1>4, <2>2, <3>2, <3>3, HandlerPart
  <2>3. CASE h = <<>> /\ o # <<>>
    <3>1. x \in CallSteps /\ todo # <<>>
      BY <1>1, <2>1, <2>3, TopOfStack DEF Parts, At
    <3>2. /\ ~PauseFlag /\ ~StopReader("pauseReader") /\ ~HandlerStep
      BY <2>1, <3>1 DEF PauseFlag, StopReader, HandlerStep, Option, RequestResume,
                        RequestReload, Notify, Return, Returning, Signal, At, CallSteps
    <3> QED
      BY <1>1, <1>2, <1>4, <2>3, <3>1, <3>2, CallPart
  <2>4. CASE h = <<>> /\ o = <<>>
    <3>1. x \notin HandlerSteps \cup CallSteps
      <4>1. b # <<>> /\ Head(b) = x
        BY <1>1, <2>1, <2>4, TopOfStack DEF Parts
      <4>2. b \in Seq(BaseSteps)
        BY <1>1, BasesAre DEF Parts, Stack
      <4>3. x \in BaseSteps
        BY <4>1, <4>2, HeadTailProperties
      <4> QED
        BY <4>3 DEF BaseSteps, HandlerSteps, CallSteps
    <3>2. ~\E p \in Processor : StopProcessor(p) \/ StartProcessor(p)
      BY <2>1, <3>1 DEF At, StopProcessor, StartProcessor, Stop, Start, Processor, CallSteps
    <3>3. ~Join /\ ~HandlerStep
      BY <2>1, <3>1 DEF At, Join, Old, HandlerStep, Option, RequestResume, RequestReload,
                        Notify, Return, Returning, Signal, HandlerSteps, CallSteps
    <3>4. /\ ~PauseFlag /\ ~StopReader("pauseReader") /\ ~StopReader("closeReader")
          /\ ~StartReader("startReader") /\ ~StartReader("connect")
          /\ ~RequestStep
          /\ ~ClearResume /\ ~ClearReload
      BY <1>2, <2>1, <3>1, RequestEffect
         DEF At, PauseFlag, StopReader, StartReader, ClearResume, ClearReload,
             HandlerSteps, CallSteps, RequestSteps
    <3> QED
      BY <1>4, <3>2, <3>3, <3>4
  <2> QED
    BY <2>2, <2>3, <2>4
<1>5. CASE \/ Top \/ Lock \/ Test \/ Sleep \/ Wake \/ Tally \/ Unlock
           \/ CheckResume \/ CheckReload \/ End
  BY <1>1, <1>2, <1>5, BasePart
<1>6. CASE Throw
  BY <1>1, <1>2, <1>6, ThrowPart
<1>7. CASE \E sig \in Signal : UnixSignalHandler(sig)
  BY <1>1, <1>2, <1>7, SignalPart
<1>8. CASE \/ SpuriousWakeup \/ Receive \/ MessageStep
           \/ Parse \/ ParseRefused \/ NotifyError \/ ReaderStep
  BY <1>1, <1>2, <1>8, ThreadPart
<1>9. CASE \E step \in DOMAIN HeldIn : NextPart(step)
  BY <1>1, <1>2, <1>9, PartKeeps
<1> QED
  BY <1>3, <1>4, <1>5, <1>6, <1>7, <1>8, <1>9 DEF Next, MainStep, ClientStep

\* The invariant holds of every state that the consumer reaches.
LEMMA ConsumerInvariant == Spec => []ConsumerInv
BY ConsumerInit, ConsumerNext, PTL DEF Spec

\* The main thread that sleeps has no handler on top of it, and is in no call.
LEMMA Asleep ==
    ASSUME ConsumerInv, At("asleep")
    PROVE  Parts(<<>>, <<>>, <<"asleep">>)
<1>1. PICK h, o, b : Parts(h, o, b)
  BY DEF ConsumerInv, Parts
<1>2. h = <<>> /\ o = <<>> /\ b = <<"asleep">>
  BY <1>1, AtBase DEF Parts, BaseSteps
<1> QED
  BY <1>1, <1>2

\* A consumer whose read loop has failed does not sleep on: errorHandler sets
\* breakWait and notifies, and neither can fall between the predicate and the wait
\* (main.cpp, the lock of benchmarkMutex).
THEOREM ReaderFailureIsNoticed == Spec => []FailureIsNoticed
<1>1. ConsumerInv => FailureIsNoticed
  <2> SUFFICES ASSUME ConsumerInv, At("asleep"), waiting, client.handle, reader = None
               PROVE  ~client.subscribed
    BY DEF FailureIsNoticed
  <2> QED
    BY Asleep DEF Parts, ErrorInv
<1> QED
  BY <1>1, ConsumerInvariant, PTL

\* A consumer that sleeps with its client halted has been asked to resume it, at
\* whatever step of the main thread, or of another handler, the Ctrl-C came; but for
\* a request that the reset of an earlier one erased.
THEOREM HaltedIsAskedToResume == Spec => []ResumeIsAskedFor
<1>1. ConsumerInv => ResumeIsAskedFor
  <2> SUFFICES ASSUME ConsumerInv, At("asleep"), Halted
               PROVE  resumeRequested \/ "INT" \in erased
    BY DEF ResumeIsAskedFor
  <2>1. HaltInv(<<>>, <<>>, <<"asleep">>) /\ \A x : ~In(<<>>, x)
    BY Asleep, NoStep DEF Parts
  <2>2. <<"asleep">> \notin Last
    BY DEF Last
  <2> QED
    BY <2>1, <2>2 DEF HaltInv, Requested, Halted
<1> QED
  BY <1>1, ConsumerInvariant, PTL

-----------------------------------------------------------------------------
(* Restarts: no loop is started while another one of its processor runs,   *)
(* but the ack processor's by the Resume after a reopening.                *)

CloseSteps ==
    {"stopAck", "stopReceive", "closeChannel", "closeConnection", "closeReader",
     "stopRequests", "joinReceive", "joinAck", "joinReader", "lost"}

\* What is left of a Resume, and of a reopening that has closed the client.
ResumeLists ==
    {<<"startAck", "startReceive", "startReader", "clearResume">>,
     <<"oldAck", "startReceive", "startReader", "clearResume">>,
     <<"startReceive", "startReader", "clearResume">>,
     <<"startReader", "clearResume">>, <<"clearResume">>}

ReopenLists ==
    {<<"connect", "startRequests", "newCallbacks", "createQueue", "startReceive",
       "startAck", "consume", "clearReload">>,
     <<"startRequests", "newCallbacks", "createQueue", "startReceive", "startAck",
       "consume", "clearReload">>,
     <<"newCallbacks", "createQueue", "startReceive", "startAck", "consume",
       "clearReload">>,
     <<"createQueue", "startReceive", "startAck", "consume", "clearReload">>,
     <<"startReceive", "startAck", "consume", "clearReload">>,
     <<"startAck", "consume", "clearReload">>,
     <<"consume", "clearReload">>, <<"clearReload">>}

\* Where a reopening has yet to start the processors.
BeforeReceive == {"connect", "startRequests", "newCallbacks", "createQueue", "startReceive"}
BeforeAck == BeforeReceive \cup {"startAck"}

Acks == client.loops.ack
Receives == client.loops.receive

Resuming(w, b) == b = <<"checkReload">> /\ w # <<>>
Reloading(w, b) == b = <<"top">> /\ w # <<>>

\* A handler has stopped both processors when it requests the resume, the ack
\* processor first.
StopInv(h) ==
    /\ Leads(h, "stopAck", "stopReceive")
    /\ Acks = 0 \/ Follows(h, "requestResume", "stopAck")
    /\ Receives = 0 \/ Follows(h, "requestResume", "stopReceive")

\* A request that a reopening can come before is of a Ctrl-C that came late.
LateInv(h, w, b) ==
    /\ b = <<"checkReload">> \/ Reloading(w, b)
    /\ In(h, "requestResume") \/ (resumeRequested /\ ~Resuming(w, b))
    => early

\* A request that is waiting finds no loop, if no reopening came before, and no
\* receive loop without one of the ack processor in any case.
AskedInv(h, w, b) ==
    resumeRequested /\ ~Resuming(w, b) /\ b \notin Last =>
        /\ ~early => Acks = 0 /\ Receives = 0
        /\ \/ Acks # 0 \/ Receives = 0 \/ In(h, "stopReceive")
           \/ Reloading(w, b) /\ Head(w) \in BeforeAck

\* The main thread resumes, and waits for an old loop of the ack processor until
\* a handler ends both loops.
ResumeInv(h, w) ==
    /\ w \in ResumeLists
    /\ Head(w) = "startAck" => Acks <= 1 /\ (Acks = 1 => early)
    /\ Head(w) \in {"startAck", "oldAck"} =>
          Acks # 0 \/ Receives = 0 \/ In(h, "stopReceive")
    /\ Acks = 2 => early /\ Head(w) = "oldAck"
    /\ Head(w) = "startReceive" => Receives = 0

\* The main thread reopens, and starts nothing that it has not stopped before.
ReopenInv(u, w) ==
    /\ w \in ReopenLists
    /\ u # <<>> => Head(w) = "connect"
    /\ Acks <= 1
    /\ Head(w) \in BeforeReceive => Receives = 0 \/ In(u, "stopReceive")
    /\ Head(w) \in BeforeAck => Acks = 0 \/ In(u, "stopAck")

RestartInv(h, u, w, b) ==
    /\ Receives <= 1 /\ Acks <= 2
    /\ StopInv(h) /\ LateInv(h, w, b) /\ AskedInv(h, w, b)
    /\ \/ w = <<>> /\ (u = <<>> \/ b \in Last) /\ Acks <= 1
       \/ b = <<"checkReload">> /\ u = <<>> /\ ResumeInv(h, w)
       \/ b = <<"top">> /\ ReopenInv(u, w)

\* u is what a closing of the client has left, w what the call does after it.
Frames(h, u, w, b) ==
    /\ Stack(h, u \o w, b)
    /\ u \in Seq(CloseSteps) /\ w \in Seq(CallSteps)
    /\ RestartInv(h, u, w, b)

LoopsInv == ClientOK /\ \E h, u, w, b : Frames(h, u, w, b)

\* The first step and the rest of a list that is spelled out.
LEMMA ListParts ==
    /\ \A a :
          Head(<<a>>) = a /\ Tail(<<a>>) = <<>>
    /\ \A a, b :
          Head(<<a, b>>) = a /\ Tail(<<a, b>>) = <<b>>
    /\ \A a, b, c :
          Head(<<a, b, c>>) = a /\ Tail(<<a, b, c>>) = <<b, c>>
    /\ \A a, b, c, d :
          Head(<<a, b, c, d>>) = a /\ Tail(<<a, b, c, d>>) = <<b, c, d>>
    /\ \A a, b, c, d, e :
          Head(<<a, b, c, d, e>>) = a /\ Tail(<<a, b, c, d, e>>) = <<b, c, d, e>>
    /\ \A a, b, c, d, e, f :
          Head(<<a, b, c, d, e, f>>) = a /\ Tail(<<a, b, c, d, e, f>>) = <<b, c, d, e, f>>
    /\ \A a, b, c, d, e, f, g :
          /\ Head(<<a, b, c, d, e, f, g>>) = a
          /\ Tail(<<a, b, c, d, e, f, g>>) = <<b, c, d, e, f, g>>
    /\ \A a, b, c, d, e, f, g, i :
          /\ Head(<<a, b, c, d, e, f, g, i>>) = a
          /\ Tail(<<a, b, c, d, e, f, g, i>>) = <<b, c, d, e, f, g, i>>
<1>1. \A a :
         Head(<<a>>) = a /\ Tail(<<a>>) = <<>>
  OBVIOUS
<1>2. \A a, b :
         Head(<<a, b>>) = a /\ Tail(<<a, b>>) = <<b>>
  OBVIOUS
<1>3. \A a, b, c :
         Head(<<a, b, c>>) = a /\ Tail(<<a, b, c>>) = <<b, c>>
  OBVIOUS
<1>4. \A a, b, c, d :
         Head(<<a, b, c, d>>) = a /\ Tail(<<a, b, c, d>>) = <<b, c, d>>
  OBVIOUS
<1>5. \A a, b, c, d, e :
         Head(<<a, b, c, d, e>>) = a /\ Tail(<<a, b, c, d, e>>) = <<b, c, d, e>>
  OBVIOUS
<1>6. \A a, b, c, d, e, f :
         Head(<<a, b, c, d, e, f>>) = a /\ Tail(<<a, b, c, d, e, f>>) = <<b, c, d, e, f>>
  OBVIOUS
<1>7. \A a, b, c, d, e, f, g :
         /\ Head(<<a, b, c, d, e, f, g>>) = a
         /\ Tail(<<a, b, c, d, e, f, g>>) = <<b, c, d, e, f, g>>
  OBVIOUS
<1>8. \A a, b, c, d, e, f, g, i :
         /\ Head(<<a, b, c, d, e, f, g, i>>) = a
         /\ Tail(<<a, b, c, d, e, f, g, i>>) = <<b, c, d, e, f, g, i>>
  OBVIOUS
<1> QED
  BY <1>1, <1>2, <1>3, <1>4, <1>5, <1>6, <1>7, <1>8

\* A step in front of three others.
LEMMA OneAndThree ==
    ASSUME NEW a, NEW b, NEW c, NEW d
    PROVE  <<a>> \o <<b, c, d>> = <<a, b, c, d>>
<1> DEFINE S == {a, b, c, d}
           s == <<a>>
           t == <<b, c, d>>
           r == <<a, b, c, d>>
<1>1. /\ s \in Seq(S) /\ Len(s) = 1 /\ s[1] = a
      /\ t \in Seq(S) /\ Len(t) = 3 /\ t[1] = b /\ t[2] = c /\ t[3] = d
      /\ r \in Seq(S) /\ Len(r) = 4 /\ r[1] = a /\ r[2] = b /\ r[3] = c /\ r[4] = d
  OBVIOUS
<1> HIDE DEF s, t, r, S
<1> DEFINE u == s \o t
<1>2. /\ u \in Seq(S) /\ Len(u) = Len(s) + Len(t)
      /\ \A i \in 1..Len(s) : u[i] = s[i]
      /\ \A i \in 1..Len(t) : u[Len(s) + i] = t[i]
  <2>1. s \in Seq(S) /\ t \in Seq(S)
    BY <1>1
  <2> QED
    BY ONLY <2>1, ConcatElements
<1> HIDE DEF u
<1>3. Len(u) = 4 /\ u[1] = a /\ u[2] = b /\ u[3] = c /\ u[4] = d
  BY <1>1, <1>2
<1>4. \A i \in 1..Len(u) : u[i] = r[i]
  BY <1>1, <1>3
<1>5. u = r
  BY <1>1, <1>2, <1>3, <1>4, SeqEqual
<1> QED
  BY <1>5 DEF u, s, t, r

\* What a Resume does next, wherever it is.
LEMMA ResumeNext ==
    ASSUME NEW w \in ResumeLists
    PROVE  /\ w # <<>>
           /\ \/ /\ Head(w) = "startAck" /\ Tail(w) \in ResumeLists
                 /\ Head(Tail(w)) = "startReceive"
                 /\ <<"oldAck">> \o Tail(w) \in ResumeLists
                 /\ Head(<<"oldAck">> \o Tail(w)) = "oldAck"
              \/ /\ Head(w) = "oldAck" /\ Tail(w) \in ResumeLists
                 /\ Head(Tail(w)) = "startReceive"
              \/ /\ Head(w) = "startReceive" /\ Tail(w) \in ResumeLists
                 /\ Head(Tail(w)) = "startReader"
              \/ /\ Head(w) = "startReader" /\ Tail(w) \in ResumeLists
                 /\ Head(Tail(w)) = "clearResume"
              \/ /\ Head(w) = "clearResume" /\ Tail(w) = <<>>
<1> USE ListParts DEF ResumeLists
<1>1. CASE w = <<"startAck", "startReceive", "startReader", "clearResume">>
  <2>1. /\ Head(w) = "startAck" /\ w # <<>>
        /\ Tail(w) = <<"startReceive", "startReader", "clearResume">>
    BY <1>1
  <2>2. Head(Tail(w)) = "startReceive"
    BY <2>1
  <2>3. <<"oldAck">> \o <<"startReceive", "startReader", "clearResume">>
           = <<"oldAck", "startReceive", "startReader", "clearResume">>
    BY ONLY OneAndThree, SMT
  <2>4. <<"oldAck">> \o Tail(w) = <<"oldAck", "startReceive", "startReader", "clearResume">>
    BY ONLY <2>1, <2>3, Zenon
  <2>5. /\ <<"oldAck">> \o Tail(w) \in ResumeLists
        /\ Head(<<"oldAck">> \o Tail(w)) = "oldAck"
    BY <2>4
  <2> QED
    BY <2>1, <2>2, <2>5
<1>2. CASE w = <<"oldAck", "startReceive", "startReader", "clearResume">>
  <2>1. /\ Head(w) = "oldAck" /\ w # <<>>
        /\ Tail(w) = <<"startReceive", "startReader", "clearResume">>
    BY <1>2
  <2>2. Head(Tail(w)) = "startReceive"
    BY <2>1
  <2> QED
    BY <2>1, <2>2
<1>3. CASE w = <<"startReceive", "startReader", "clearResume">>
  <2>1. /\ Head(w) = "startReceive" /\ w # <<>>
        /\ Tail(w) = <<"startReader", "clearResume">>
    BY <1>3
  <2>2. Head(Tail(w)) = "startReader"
    BY <2>1
  <2> QED
    BY <2>1, <2>2
<1>4. CASE w = <<"startReader", "clearResume">>
  <2>1. /\ Head(w) = "startReader" /\ w # <<>>
        /\ Tail(w) = <<"clearResume">>
    BY <1>4
  <2>2. Head(Tail(w)) = "clearResume"
    BY <2>1
  <2> QED
    BY <2>1, <2>2
<1>5. CASE w = <<"clearResume">>
  <2>1. /\ Head(w) = "clearResume" /\ w # <<>>
        /\ Tail(w) = <<>>
    BY <1>5
  <2> QED
    BY <2>1
<1> QED
  BY <1>1, <1>2, <1>3, <1>4, <1>5

\* What a reopening does next, once it has closed the client.
LEMMA ReopenNext ==
    ASSUME NEW w \in ReopenLists
    PROVE  /\ w # <<>>
           /\ \/ /\ Head(w) = "connect" /\ Tail(w) \in ReopenLists
                 /\ Head(Tail(w)) = "startRequests"
              \/ /\ Head(w) = "startRequests" /\ Tail(w) \in ReopenLists
                 /\ Head(Tail(w)) = "newCallbacks"
              \/ /\ Head(w) = "newCallbacks" /\ Tail(w) \in ReopenLists
                 /\ Head(Tail(w)) = "createQueue"
              \/ /\ Head(w) = "createQueue" /\ Tail(w) \in ReopenLists
                 /\ Head(Tail(w)) = "startReceive"
              \/ /\ Head(w) = "startReceive" /\ Tail(w) \in ReopenLists
                 /\ Head(Tail(w)) = "startAck"
              \/ /\ Head(w) = "startAck" /\ Tail(w) \in ReopenLists
                 /\ Head(Tail(w)) = "consume"
              \/ /\ Head(w) = "consume" /\ Tail(w) \in ReopenLists
                 /\ Head(Tail(w)) = "clearReload"
              \/ /\ Head(w) = "clearReload" /\ Tail(w) = <<>>
<1> USE ListParts DEF ReopenLists
<1>1. CASE w = <<"connect", "startRequests", "newCallbacks", "createQueue",
                "startReceive", "startAck", "consume", "clearReload">>
  <2>1. /\ Head(w) = "connect" /\ w # <<>>
        /\ Tail(w) = <<"startRequests", "newCallbacks", "createQueue", "startReceive",
                       "startAck", "consume", "clearReload">>
    BY <1>1
  <2>2. Head(Tail(w)) = "startRequests"
    BY <2>1
  <2> QED
    BY <2>1, <2>2
<1>8. CASE w = <<"startRequests", "newCallbacks", "createQueue", "startReceive",
                "startAck", "consume", "clearReload">>
  <2>1. /\ Head(w) = "startRequests" /\ w # <<>>
        /\ Tail(w) = <<"newCallbacks", "createQueue", "startReceive",
                       "startAck", "consume", "clearReload">>
    BY <1>8
  <2>2. Head(Tail(w)) = "newCallbacks"
    BY <2>1
  <2> QED
    BY <2>1, <2>2
<1>2. CASE w = <<"newCallbacks", "createQueue", "startReceive",
                "startAck", "consume", "clearReload">>
  <2>1. /\ Head(w) = "newCallbacks" /\ w # <<>>
        /\ Tail(w) = <<"createQueue", "startReceive", "startAck", "consume", "clearReload">>
    BY <1>2
  <2>2. Head(Tail(w)) = "createQueue"
    BY <2>1
  <2> QED
    BY <2>1, <2>2
<1>3. CASE w = <<"createQueue", "startReceive", "startAck", "consume", "clearReload">>
  <2>1. /\ Head(w) = "createQueue" /\ w # <<>>
        /\ Tail(w) = <<"startReceive", "startAck", "consume", "clearReload">>
    BY <1>3
  <2>2. Head(Tail(w)) = "startReceive"
    BY <2>1
  <2> QED
    BY <2>1, <2>2
<1>4. CASE w = <<"startReceive", "startAck", "consume", "clearReload">>
  <2>1. /\ Head(w) = "startReceive" /\ w # <<>>
        /\ Tail(w) = <<"startAck", "consume", "clearReload">>
    BY <1>4
  <2>2. Head(Tail(w)) = "startAck"
    BY <2>1
  <2> QED
    BY <2>1, <2>2
<1>5. CASE w = <<"startAck", "consume", "clearReload">>
  <2>1. /\ Head(w) = "startAck" /\ w # <<>>
        /\ Tail(w) = <<"consume", "clearReload">>
    BY <1>5
  <2>2. Head(Tail(w)) = "consume"
    BY <2>1
  <2> QED
    BY <2>1, <2>2
<1>6. CASE w = <<"consume", "clearReload">>
  <2>1. /\ Head(w) = "consume" /\ w # <<>>
        /\ Tail(w) = <<"clearReload">>
    BY <1>6
  <2>2. Head(Tail(w)) = "clearReload"
    BY <2>1
  <2> QED
    BY <2>1, <2>2
<1>7. CASE w = <<"clearReload">>
  <2>1. /\ Head(w) = "clearReload" /\ w # <<>>
        /\ Tail(w) = <<>>
    BY <1>7
  <2> QED
    BY <2>1
<1> QED
  BY <1>1, <1>2, <1>3, <1>4, <1>5, <1>6, <1>7, <1>8

\* The lists are of steps that the client's calls take.
LEMMA ListsAreCalls ==
    /\ ResumeLists \subseteq Seq(CallSteps) /\ ReopenLists \subseteq Seq(CallSteps)
    /\ CloseSteps \subseteq CallSteps
<1> DEFINE S == CallSteps
<1>1. /\ \A a \in S : <<a>> \in Seq(S)
      /\ \A a, b \in S : <<a, b>> \in Seq(S)
      /\ \A a, b, c \in S : <<a, b, c>> \in Seq(S)
      /\ \A a, b, c, d \in S : <<a, b, c, d>> \in Seq(S)
      /\ \A a, b, c, d, e \in S : <<a, b, c, d, e>> \in Seq(S)
      /\ \A a, b, c, d, e, f \in S : <<a, b, c, d, e, f>> \in Seq(S)
      /\ \A a, b, c, d, e, f, g \in S : <<a, b, c, d, e, f, g>> \in Seq(S)
      /\ \A a, b, c, d, e, f, g, i \in S : <<a, b, c, d, e, f, g, i>> \in Seq(S)
  OBVIOUS
<1>2. {"startAck", "oldAck", "startReceive", "startReader", "clearResume"} \subseteq S
  BY DEF CallSteps
<1>3. {"connect", "startRequests", "newCallbacks", "createQueue", "startReceive",
       "startAck", "consume", "clearReload"} \subseteq S
  BY DEF CallSteps
<1>4. CloseSteps \subseteq S
  BY DEF CallSteps, CloseSteps
<1> HIDE DEF S
<1>5. ResumeLists \subseteq Seq(S)
  BY <1>1, <1>2 DEF ResumeLists
<1>6. ReopenLists \subseteq Seq(S)
  BY <1>1, <1>3 DEF ReopenLists
<1> QED
  BY <1>4, <1>5, <1>6 DEF S

\* A handler that goes on, or begins to wait, still stops what it would have.
LEMMA HandlerStops ==
    ASSUME NEW h \in Seq(HandlerSteps), h # <<>>,
           NEW n \in Ends
    PROVE  LET k == n \o Tail(h) IN
           /\ \A x : In(k, x) => In(h, x) \/ x \in Waits
           /\ \A x : In(h, x) /\ x # Head(h) => In(k, x)
           /\ In(h, Head(h))
           /\ Leads(h, "stopAck", "stopReceive") =>
                 /\ Leads(k, "stopAck", "stopReceive")
                 /\ Head(h) = "stopAck" => In(k, "stopReceive")
           /\ \A s \in {"stopAck", "stopReceive"} :
                 Follows(h, "requestResume", s) =>
                    /\ Head(h) # "requestResume"
                    /\ Head(h) # s => Follows(k, "requestResume", s)
<1>1. Waits \subseteq HandlerSteps
  BY DEF HandlerSteps, Waits
<1>2. ASSUME NEW e \in Waits
      PROVE  /\ <<e>> \in Seq(HandlerSteps)
             /\ \A x : In(<<e>>, x) => x = e
             /\ Leads(<<e>>, "stopAck", "stopReceive")
             /\ \A s : Follows(<<e>>, "requestResume", s)
  BY <1>1, OneStep DEF Waits
<1>3. /\ n \in Seq(HandlerSteps)
      /\ \A x : In(n, x) => x \in Waits
      /\ Leads(n, "stopAck", "stopReceive")
      /\ \A s : Follows(n, "requestResume", s)
  <2>1. n = <<>> \/ \E e \in Waits : n = <<e>>
    BY DEF Ends, Waits
  <2> QED
    BY <1>2, <2>1, NoStep
<1> DEFINE t == Tail(h)
<1>4. /\ t \in Seq(HandlerSteps)
      /\ \A x : In(h, x) <=> x = Head(h) \/ In(t, x)
      /\ \A x, y : Leads(h, x, y) => Leads(t, x, y) /\ (Head(h) = x => In(t, y))
      /\ \A x, y : Follows(h, x, y) =>
            Head(h) # x /\ (Head(h) # y => Follows(t, x, y))
  BY TailElements
<1> HIDE DEF t
<1>5. \A x : In(n \o t, x) <=> In(n, x) \/ In(t, x)
  BY <1>3, <1>4, ConcatIn
<1>6. /\ Leads(t, "stopAck", "stopReceive") => Leads(n \o t, "stopAck", "stopReceive")
      /\ \A s \in {"stopAck", "stopReceive"} :
            Follows(t, "requestResume", s) => Follows(n \o t, "requestResume", s)
  BY <1>3, <1>4, ConcatLeads, ConcatFollows
<1> QED
  BY <1>3, <1>4, <1>5, <1>6 DEF t

\* What a step of a handler does to the loops and to the request.
LEMMA HandlerLoops ==
    ASSUME ClientOK, \A x : At(x) => x \in HandlerSteps,
           \/ \E p \in Processor : StopProcessor(p)
           \/ Join \/ PauseFlag \/ StopReader("pauseReader") \/ HandlerStep
    PROVE  /\ Acks' = IF At("stopAck") THEN 0 ELSE Acks
           /\ Receives' = IF At("stopReceive") THEN 0 ELSE Receives
           /\ UNCHANGED early
           /\ resumeRequested' => resumeRequested \/ At("requestResume")
<1> USE DEF ClientOK, Acks, Receives, shared, flags, threads, history
<1>1. ASSUME NEW p \in Processor, StopProcessor(p)
      PROVE  /\ Acks' = IF At("stopAck") THEN 0 ELSE Acks
             /\ Receives' = IF At("stopReceive") THEN 0 ELSE Receives
             /\ UNCHANGED <<early, resumeRequested>>
  <2>1. CASE p = "ack"
    <3>1. At("stopAck") /\ ~At("stopReceive")
      BY <1>1, <2>1 DEF StopProcessor, Stop, At
    <3> QED
      BY <1>1, <2>1, <3>1 DEF StopProcessor
  <2>2. CASE p = "receive"
    <3>1. At("stopReceive") /\ ~At("stopAck")
      BY <1>1, <2>2 DEF StopProcessor, Stop, At
    <3> QED
      BY <1>1, <2>2, <3>1 DEF StopProcessor
  <2> QED
    BY <2>1, <2>2 DEF Processor
<1>2. CASE Join \/ PauseFlag \/ StopReader("pauseReader") \/ HandlerStep
  <2>1. ~At("stopAck") /\ ~At("stopReceive")
    BY <1>2 DEF Join, Old, PauseFlag, StopReader, HandlerStep, Option, RequestResume,
                RequestReload, Notify, Return, Returning, Signal, At
  <2>2. client'.loops = client.loops /\ UNCHANGED early
    BY <1>2 DEF Join, PauseFlag, StopReader, HandlerStep, Option, RequestResume,
                RequestReload, Notify, Return
  <2>3. resumeRequested' => resumeRequested \/ At("requestResume")
    BY <1>2 DEF Join, PauseFlag, StopReader, HandlerStep, Option, RequestResume,
                RequestReload, Notify, Return
  <2> QED
    BY <2>1, <2>2, <2>3
<1> QED
  BY <1>1, <1>2

\* A step of a handler stops loops and starts none, and stops them both before it
\* makes its request.
LEMMA HandlerRestarts ==
    ASSUME ClientOK, NEW h, NEW u, NEW w, NEW b, Frames(h, u, w, b), h # <<>>,
           \/ \E p \in Processor : StopProcessor(p)
           \/ Join \/ PauseFlag \/ StopReader("pauseReader") \/ HandlerStep
    PROVE  LoopsInv'
<1> DEFINE o == u \o w
<1>1. Stack(h, o, b) /\ RestartInv(h, u, w, b)
  BY DEF Frames
<1> HIDE DEF o
<1>2. /\ \A x : At(x) => x \in HandlerSteps /\ x = Head(h)
      /\ todo # <<>> => At(Head(h)) /\ Tail(todo) = Tail(h) \o (o \o b)
  BY <1>1, TopOfStack DEF At
<1>3. PICK n : HandlerEffect(n)
  BY <1>2, HandlerEffects
<1> DEFINE k == n \o Tail(h)
<1>4. h \in Seq(HandlerSteps)
  BY <1>1 DEF Stack
<1>5. At(Head(h)) /\ Tail(todo) = Tail(h) \o (o \o b) /\ \A x : At(x) <=> x = Head(h)
  BY <1>2 DEF At, HandlerStep, Join, PauseFlag, StopReader, StopProcessor, Option,
              RequestResume, RequestReload, Notify, Return
<1>6. Stack(k, o, b)'
  BY <1>1, <1>3, <1>4, <1>5, HandlerThen, HandlerGoesOn DEF HandlerEffect, Then
<1>7. /\ \A x : In(k, x) => In(h, x) \/ x \in Waits
      /\ \A x : In(h, x) /\ x # Head(h) => In(k, x)
      /\ In(h, Head(h))
      /\ Leads(h, "stopAck", "stopReceive") =>
            /\ Leads(k, "stopAck", "stopReceive")
            /\ Head(h) = "stopAck" => In(k, "stopReceive")
      /\ \A s \in {"stopAck", "stopReceive"} :
            Follows(h, "requestResume", s) =>
               /\ Head(h) # "requestResume"
               /\ Head(h) # s => Follows(k, "requestResume", s)
  BY <1>3, <1>4, HandlerStops DEF HandlerEffect
<1> HIDE DEF k
<1>8. /\ Acks' = IF Head(h) = "stopAck" THEN 0 ELSE Acks
      /\ Receives' = IF Head(h) = "stopReceive" THEN 0 ELSE Receives
      /\ UNCHANGED early
      /\ resumeRequested' => resumeRequested \/ Head(h) = "requestResume"
  BY <1>2, <1>5, HandlerLoops
<1>9. StopInv(k)'
  BY <1>1, <1>7, <1>8 DEF RestartInv, StopInv
<1>10. Head(h) = "requestResume" => Acks = 0 /\ Receives = 0
  BY <1>1, <1>7 DEF RestartInv, StopInv
<1>11. LateInv(k, w, b)'
  BY <1>1, <1>7, <1>8 DEF RestartInv, LateInv, Resuming, Reloading, Waits
<1>12. Acks' = 0 /\ Receives' # 0 =>
          \/ Acks = 0 /\ Receives # 0 /\ (In(h, "stopReceive") => In(k, "stopReceive"))
          \/ In(k, "stopReceive")
  BY <1>1, <1>7, <1>8 DEF RestartInv, StopInv
<1>13. /\ Acks = 0 => Acks' = 0
       /\ Receives = 0 => Receives' = 0
       /\ Acks' = 0 \/ Acks' = Acks
       /\ Receives' = 0 \/ Receives' = Receives
  BY <1>8
<1>14. AskedInv(k, w, b)'
  BY <1>1, <1>8, <1>10, <1>12, <1>13 DEF RestartInv, AskedInv, Resuming, Reloading
<1>15. ASSUME ResumeInv(h, w) PROVE ResumeInv(k, w)'
  BY <1>8, <1>12, <1>13, <1>15 DEF ResumeInv
<1>16. ASSUME ReopenInv(u, w) PROVE ReopenInv(u, w)'
  BY <1>13, <1>16 DEF ReopenInv
<1>17. RestartInv(k, u, w, b)'
  BY <1>1, <1>9, <1>11, <1>13, <1>14, <1>15, <1>16 DEF RestartInv
<1>18. Frames(k, u, w, b)'
  BY <1>6, <1>17 DEF Frames, o
<1> QED
  BY <1>3, <1>18 DEF LoopsInv, HandlerEffect

\* The steps that may have to wait.
Stops == {"stopAck", "stopReceive", "closeReader", "stopRequests"}

\* What a step of a call does to the loops and to the request, apart from where it
\* leaves the main thread.
LoopMove(n) ==
    /\ Then(n) /\ ClientOK' /\ UNCHANGED early
    /\ Acks' = IF At("stopAck") THEN 0 ELSE IF At("startAck") THEN Acks + 1 ELSE Acks
    /\ Receives' = IF At("stopReceive") THEN 0
                   ELSE IF At("startReceive") THEN Receives + 1 ELSE Receives
    /\ resumeRequested' => resumeRequested /\ ~At("clearResume")
    /\ At("startAck") => n = IF Acks = 0 THEN <<>> ELSE <<"oldAck">>
    /\ At("startReceive") => n = IF Receives = 0 THEN <<>> ELSE <<"oldReceive">>
    /\ \/ At("startAck") \/ At("startReceive") \/ n = <<>>
       \/ n \in Ends /\ \E x \in Stops : At(x)
    /\ At("oldAck") => Acks = 0

\* Each step that a call takes does that.
LEMMA CallLoops ==
    ASSUME ClientOK,
           \/ \E p \in Processor : StopProcessor(p) \/ StartProcessor(p)
           \/ StopReader("closeReader")
           \/ StartReader("startReader") \/ StartReader("connect")
           \/ Join \/ RequestStep
           \/ ClearResume \/ ClearReload
    PROVE  \E n : LoopMove(n)
<1> USE DEF ClientOK, LoopMove, Acks, Receives, shared, flags, threads, history
<1>1. CASE StopProcessor("ack")
  <2>1. At("stopAck") /\ \A x : At(x) => x = "stopAck"
    BY <1>1 DEF StopProcessor, Stop, At
  <2>2. PICK n \in Ends : Then(n)
    BY <1>1, StopEnds DEF Processor
  <2>3. LoopMove(n)
    BY <1>1, <2>1, <2>2 DEF StopProcessor, Stops
  <2> QED
    BY <2>3
<1>2. CASE StopProcessor("receive")
  <2>1. At("stopReceive") /\ \A x : At(x) => x = "stopReceive"
    BY <1>2 DEF StopProcessor, Stop, At
  <2>2. PICK n \in Ends : Then(n)
    BY <1>2, StopEnds DEF Processor
  <2>3. LoopMove(n)
    BY <1>2, <2>1, <2>2 DEF StopProcessor, Stops
  <2> QED
    BY <2>3
<1>3. CASE StartProcessor("ack")
  <2>1. At("startAck") /\ \A x : At(x) => x = "startAck"
    BY <1>3 DEF StartProcessor, Start, At
  <2>2. CASE Acks = 0
    <3>1. LoopMove(<<>>)
      BY <1>3, <2>1, <2>2 DEF StartProcessor
    <3> QED
      BY <3>1
  <2>3. CASE Acks # 0
    <3>1. LoopMove(<<"oldAck">>)
      BY <1>3, <2>1, <2>3 DEF StartProcessor, Old
    <3> QED
      BY <3>1
  <2> QED
    BY <2>2, <2>3
<1>4. CASE StartProcessor("receive")
  <2>1. At("startReceive") /\ \A x : At(x) => x = "startReceive"
    BY <1>4 DEF StartProcessor, Start, At
  <2>2. CASE Receives = 0
    <3>1. LoopMove(<<>>)
      BY <1>4, <2>1, <2>2 DEF StartProcessor
    <3> QED
      BY <3>1
  <2>3. CASE Receives # 0
    <3>1. LoopMove(<<"oldReceive">>)
      BY <1>4, <2>1, <2>3, SMTT(30) DEF StartProcessor, Old
    <3> QED
      BY <3>1
  <2> QED
    BY <2>2, <2>3
<1>5. CASE StopReader("closeReader")
  <2>1. At("closeReader") /\ \A x : At(x) => x = "closeReader"
    BY <1>5 DEF StopReader, At
  <2>2. ClientOK' /\ client'.loops = client.loops
    BY <1>5 DEF StopReader
  <2>3. CASE client.handle
    <3>1. LoopMove(<<"joinReader">>)
      BY <1>5, <2>1, <2>2, <2>3 DEF StopReader, Ends, Stops
    <3> QED
      BY <3>1
  <2>4. CASE ~client.handle
    <3>1. LoopMove(<<>>)
      BY <1>5, <2>1, <2>2, <2>4 DEF StopReader
    <3> QED
      BY <3>1
  <2> QED
    BY <2>3, <2>4
<1>6. CASE \/ StartReader("startReader") \/ StartReader("connect")
           \/ Join \/ ClearResume \/ ClearReload
  <2> USE DEF StartReader, Join, ClearResume, ClearReload
  <2>1. /\ ~At("startAck") /\ ~At("startReceive") /\ ~At("stopAck") /\ ~At("stopReceive")
        /\ At("oldAck") => Acks = 0
    BY <1>6 DEF At, Old
  <2>2. ClientOK' /\ client'.loops = client.loops /\ UNCHANGED early /\ Then(<<>>)
    BY <1>6
  <2>3. resumeRequested' => resumeRequested /\ ~At("clearResume")
    BY <1>6 DEF At, Old
  <2>4. LoopMove(<<>>)
    BY <2>1, <2>2, <2>3
  <2> QED
    BY <2>4
<1>7. CASE RequestStep
  <2>1. PICK x \in RequestSteps : At(x)
    BY <1>7, RequestEffect
  <2>2. /\ ~At("startAck") /\ ~At("startReceive") /\ ~At("stopAck") /\ ~At("stopReceive")
        /\ ~At("clearResume") /\ ~At("oldAck")
    BY <2>1 DEF At, RequestSteps
  <2>3. PICK n \in Ends : Then(n) /\ (n = <<>> \/ At("stopRequests"))
    BY <1>7, RequestEffect
  <2>4. ClientOK' /\ client'.loops = client.loops /\ UNCHANGED <<early, resumeRequested>>
    BY <1>7, RequestEffect
  <2>5. LoopMove(n)
    BY <2>2, <2>3, <2>4 DEF Stops
  <2> QED
    BY <2>5
<1> QED
  BY <1>1, <1>2, <1>3, <1>4, <1>5, <1>6, <1>7 DEF Processor

\* What the closing of the client goes on with.
LEMMA CloseGoesOn ==
    ASSUME NEW u \in Seq(CloseSteps), u # <<>>, NEW w \in Seq(CallSteps),
           NEW n \in Ends
    PROVE  /\ Head(u) \in CloseSteps
           /\ Head(u \o w) = Head(u) /\ u \o w # <<>>
           /\ n \in Seq(CallSteps)
           /\ n \o Tail(u) \in Seq(CloseSteps)
           /\ n \o Tail(u \o w) = (n \o Tail(u)) \o w
           /\ \A x : In(u, x) /\ x # Head(u) => In(n \o Tail(u), x)
<1> DEFINE t == Tail(u)
<1>1. /\ Head(u) \in CloseSteps /\ t \in Seq(CloseSteps)
      /\ \A x : In(u, x) <=> x = Head(u) \/ In(t, x)
  BY TailElements
<1>2. CloseSteps \subseteq CallSteps /\ Waits \subseteq CloseSteps
  BY ListsAreCalls DEF CloseSteps, Waits
<1>3. n \in Seq(CloseSteps)
  <2>1. \A e \in CloseSteps : <<e>> \in Seq(CloseSteps)
    BY OneStep
  <2> QED
    BY <1>2, <2>1, EmptySeq DEF Ends, Waits
<1>4. u \in Seq(CallSteps) /\ t \in Seq(CallSteps) /\ n \in Seq(CallSteps)
  BY <1>1, <1>2, <1>3, SeqMonotonic
<1>5. u \o w # <<>> /\ Head(u \o w) = Head(u) /\ Tail(u \o w) = t \o w
  BY <1>4, ConcatHead
<1> HIDE DEF t
<1>6. n \o (t \o w) = (n \o t) \o w
  <2> DEFINE S == CallSteps
  <2>1. n \in Seq(S) /\ t \in Seq(S) /\ w \in Seq(S)
    BY <1>4
  <2> HIDE DEF S
  <2>2. (n \o t) \o w = n \o (t \o w)
    BY ONLY <2>1, ConcatAssociative, SMTT(30)
  <2> QED
    BY <2>2
<1>7. n \o t \in Seq(CloseSteps)
  BY <1>1, <1>3, ConcatProperties
<1>8. \A x : In(n \o t, x) <=> In(n, x) \/ In(t, x)
  BY <1>1, <1>3, ConcatIn
<1>9. n \o Tail(u \o w) = (n \o t) \o w
  BY <1>5, <1>6, Zenon
<1> QED
  BY <1>1, <1>4, <1>5, <1>7, <1>8, <1>9 DEF t

\* Closing the client stops, and what comes after it waits for nothing else.
LEMMA CloseRestarts ==
    ASSUME ClientOK, todo # <<>>, NEW u, NEW w, NEW b, Frames(<<>>, u, w, b), u # <<>>,
           NEW n, LoopMove(n)
    PROVE  LoopsInv'
<1> DEFINE o == u \o w
           k == n \o Tail(u)
<1>1. /\ Stack(<<>>, o, b) /\ RestartInv(<<>>, u, w, b)
      /\ u \in Seq(CloseSteps) /\ w \in Seq(CallSteps)
  BY DEF Frames
<1>2. Head(u) \in CloseSteps /\ Head(o) = Head(u) /\ o # <<>>
  BY <1>1, CloseGoesOn
<1> HIDE DEF o
<1>3. /\ \A x : At(x) <=> x = Head(u)
      /\ Tail(todo) = Tail(o) \o b
  <2>1. At(Head(todo))
    BY DEF At
  <2>2. Head(todo) = Head(o) /\ Tail(todo) = Tail(o) \o b
    BY <1>1, <1>2, <2>1, TopOfStack
  <2> QED
    BY <1>2, <2>2 DEF At
<1>4. /\ ~At("startAck") /\ ~At("startReceive")
      /\ n \in Ends
  BY <1>2, <1>3 DEF LoopMove, CloseSteps, Ends
<1>5. /\ n \in Seq(CallSteps) /\ k \in Seq(CloseSteps)
      /\ n \o Tail(o) = k \o w
      /\ \A x : In(u, x) /\ x # Head(u) => In(k, x)
  <2>1. /\ u \in Seq(CloseSteps) /\ u # <<>> /\ w \in Seq(CallSteps)
        /\ n \in Ends
    BY <1>1, <1>4
  <2>2. /\ n \in Seq(CallSteps) /\ n \o Tail(u) \in Seq(CloseSteps)
        /\ n \o Tail(u \o w) = (n \o Tail(u)) \o w
        /\ \A x : In(u, x) /\ x # Head(u) => In(n \o Tail(u), x)
    BY ONLY <2>1, CloseGoesOn
  <2> QED
    BY <2>2 DEF o
<1>6. Stack(<<>>, k \o w, b)'
  <2>1. Stack(<<>>, n \o Tail(o), b)'
    BY <1>1, <1>2, <1>3, <1>5, CallThen DEF LoopMove, Then
  <2> QED
    BY <1>5, <2>1
<1> HIDE DEF k
<1>7. /\ Acks' = IF Head(u) = "stopAck" THEN 0 ELSE Acks
      /\ Receives' = IF Head(u) = "stopReceive" THEN 0 ELSE Receives
      /\ UNCHANGED early
      /\ resumeRequested' => resumeRequested
  BY <1>3, <1>4 DEF LoopMove
<1>8. StopInv(<<>>)' /\ ~In(<<>>, "requestResume") /\ ~In(<<>>, "stopReceive")
  BY NoStep DEF StopInv
<1>9. LateInv(<<>>, w, b)'
  BY <1>1, <1>7, <1>8 DEF RestartInv, LateInv, Resuming, Reloading
<1>10. \/ w = <<>> /\ b \in Last /\ Acks <= 1
       \/ b = <<"top">> /\ ReopenInv(u, w)
  BY <1>1 DEF RestartInv
<1>11. CASE w = <<>> /\ b \in Last /\ Acks <= 1
  <2>1. AskedInv(<<>>, w, b)'
    BY <1>11 DEF AskedInv
  <2>2. RestartInv(<<>>, k, w, b)'
    BY <1>1, <1>7, <1>8, <1>9, <1>11, <2>1 DEF RestartInv
  <2> QED
    BY <1>1, <1>5, <1>6, <2>2 DEF LoopsInv, Frames, LoopMove
<1>12. CASE b = <<"top">> /\ ReopenInv(u, w)
  <2>1. Head(w) = "connect" /\ w \in ReopenLists /\ w # <<>>
    BY <1>12, ReopenNext DEF ReopenInv
  <2>2. Head(w) \in BeforeReceive /\ Head(w) \in BeforeAck
    BY <2>1 DEF BeforeReceive, BeforeAck
  <2>3. Reloading(w, b) /\ ~Resuming(w, b)
    BY <1>12, <2>1 DEF Reloading, Resuming
  <2>4. ReopenInv(k, w)'
    BY <1>5, <1>7, <1>12, <2>1, <2>2 DEF ReopenInv
  <2>5. AskedInv(<<>>, w, b)'
    BY <1>1, <1>7, <2>2, <2>3 DEF RestartInv, AskedInv
  <2>6. RestartInv(<<>>, k, w, b)'
    BY <1>1, <1>7, <1>8, <1>9, <1>12, <2>4, <2>5 DEF RestartInv
  <2> QED
    BY <1>1, <1>5, <1>6, <2>6 DEF LoopsInv, Frames, LoopMove
<1> QED
  BY <1>10, <1>11, <1>12

\* The other steps of a call start what is stopped, and the Resume after a
\* reopening another loop of the ack processor.
LEMMA StartRestarts ==
    ASSUME ClientOK, todo # <<>>, NEW w, NEW b, Frames(<<>>, <<>>, w, b), w # <<>>,
           NEW n, LoopMove(n)
    PROVE  LoopsInv'
<1>1. /\ RestartInv(<<>>, <<>>, w, b) /\ w \in Seq(CallSteps)
      /\ Stack(<<>>, w, b)
  <2>1. <<>> \o w = w
    <3>1. w \in Seq(CallSteps)
      BY DEF Frames
    <3> QED
      BY <3>1, ConcatEmptySeq
  <2> QED
    BY <2>1 DEF Frames
<1>2. /\ \A x : At(x) <=> x = Head(w)
      /\ Tail(todo) = Tail(w) \o b
  <2>1. At(Head(todo))
    BY DEF At
  <2>2. Head(todo) = Head(w) /\ Tail(todo) = Tail(w) \o b
    BY <1>1, <2>1, TopOfStack
  <2> QED
    BY <2>2 DEF At
<1>3. /\ \A x : ~In(<<>>, x)
      /\ StopInv(<<>>)'
  BY NoStep DEF StopInv
<1>4. /\ Acks' = IF Head(w) = "stopAck" THEN 0
                 ELSE IF Head(w) = "startAck" THEN Acks + 1 ELSE Acks
      /\ Receives' = IF Head(w) = "stopReceive" THEN 0
                     ELSE IF Head(w) = "startReceive" THEN Receives + 1 ELSE Receives
      /\ UNCHANGED early
      /\ resumeRequested' => resumeRequested /\ Head(w) # "clearResume"
      /\ Head(w) = "startAck" => n = IF Acks = 0 THEN <<>> ELSE <<"oldAck">>
      /\ Head(w) = "startReceive" => n = IF Receives = 0 THEN <<>> ELSE <<"oldReceive">>
      /\ \/ Head(w) \in {"startAck", "startReceive"} \/ n = <<>>
         \/ Head(w) \in Stops
      /\ Head(w) = "oldAck" => Acks = 0
      /\ Acks \in Nat /\ Receives \in Nat
  BY <1>2 DEF LoopMove, ClientOK, Acks, Receives
<1>5. ASSUME NEW v \in Seq(CallSteps), n \in Seq(CallSteps), n \o Tail(w) = v,
             RestartInv(<<>>, <<>>, v, b)'
      PROVE  LoopsInv'
  <2>1. Stack(<<>>, v, b)'
    BY <1>1, <1>2, <1>5, CallThen DEF LoopMove, Then
  <2>2. <<>> \o v = v
    BY <1>5, ConcatEmptySeq
  <2>3. <<>> \in Seq(CloseSteps)
    BY EmptySeq
  <2>4. Frames(<<>>, <<>>, v, b)'
    BY <1>5, <2>1, <2>2, <2>3 DEF Frames
  <2> QED
    BY <2>4 DEF LoopsInv, LoopMove
<1>6. ASSUME n = <<>>
      PROVE  n \in Seq(CallSteps) /\ n \o Tail(w) = Tail(w) /\ Tail(w) \in Seq(CallSteps)
  <2>1. Tail(w) \in Seq(CallSteps)
    BY <1>1, HeadTailProperties
  <2> QED
    BY <1>6, <2>1, ConcatEmptySeq, EmptySeq
<1>7. \/ b = <<"checkReload">> /\ ResumeInv(<<>>, w)
      \/ b = <<"top">> /\ ReopenInv(<<>>, w)
  BY <1>1 DEF RestartInv
<1>8. CASE b = <<"checkReload">> /\ ResumeInv(<<>>, w)
  <2> DEFINE v == n \o Tail(w)
  <2>1. w \in ResumeLists /\ b \notin Last /\ Receives <= 1 /\ Acks <= 2
    BY <1>1, <1>8 DEF ResumeInv, Last, RestartInv
  <2>2. CASE Head(w) = "startAck"
    <3> DEFINE t == Tail(w)
    <3>1. /\ Tail(w) \in ResumeLists /\ Head(Tail(w)) = "startReceive"
          /\ <<"oldAck">> \o Tail(w) \in ResumeLists
          /\ Head(<<"oldAck">> \o Tail(w)) = "oldAck"
      BY <2>1, <2>2, ResumeNext
    <3>2. Acks' = Acks + 1 /\ Receives' = Receives
      BY <1>4, <2>2
    <3>3. CASE Acks = 0
      <4>1. n = <<>> /\ v = Tail(w)
        BY <1>4, <1>6, <2>2, <3>3
      <4>2. Receives = 0
        BY <1>3, <1>8, <2>2, <3>3 DEF ResumeInv
      <4>3. ResumeInv(<<>>, t)'
        <5>1. t \in ResumeLists /\ Head(t) = "startReceive"
          BY <3>1
        <5> HIDE DEF t
        <5> QED
          BY <3>2, <3>3, <4>2, <5>1 DEF ResumeInv
      <4>4. Resuming(Tail(w), b)
        BY <1>8, <3>1, ResumeNext DEF Resuming
      <4>5. LateInv(<<>>, Tail(w), b)' /\ AskedInv(<<>>, Tail(w), b)'
        BY <1>3, <4>4 DEF LateInv, AskedInv, Resuming
      <4>6. RestartInv(<<>>, <<>>, t, b)'
        BY <1>3, <1>8, <3>2, <3>3, <4>2, <4>3, <4>5 DEF RestartInv
      <4> QED
        BY <1>5, <1>6, <4>1, <4>6
    <3>4. CASE Acks # 0
      <4>1. n = <<"oldAck">> /\ Acks = 1 /\ early
        BY <1>4, <1>8, <2>2, <3>4 DEF ResumeInv
      <4>2. v \in ResumeLists /\ Head(v) = "oldAck"
        BY <3>1, <4>1
      <4> HIDE DEF v
      <4>3. ResumeInv(<<>>, v)'
        BY <1>4, <3>2, <4>1, <4>2 DEF ResumeInv
      <4>4. Resuming(v, b)
        BY <1>8, <4>2, ResumeNext DEF Resuming
      <4>5. LateInv(<<>>, v, b)' /\ AskedInv(<<>>, v, b)'
        BY <1>3, <4>4 DEF LateInv, AskedInv, Resuming
      <4>6. RestartInv(<<>>, <<>>, v, b)'
        BY <1>3, <1>8, <2>1, <3>2, <4>1, <4>3, <4>5 DEF RestartInv
      <4>7. v \in Seq(CallSteps) /\ n \in Seq(CallSteps)
        <5>1. "oldAck" \in CallSteps
          BY DEF CallSteps
        <5> QED
          BY <4>1, <4>2, <5>1, ListsAreCalls, OneStep
      <4> QED
        BY <1>5, <4>6, <4>7 DEF v
    <3> QED
      BY <3>3, <3>4
  <2>3. ASSUME Head(w) \in {"oldAck", "startReceive", "startReader"}
        PROVE  LoopsInv'
    <3>1. /\ Tail(w) \in ResumeLists
          /\ Head(Tail(w)) \in {"startReceive", "startReader", "clearResume"}
          /\ Head(Tail(w)) = "startReceive" => Head(w) = "oldAck"
      BY <2>1, <2>3, ResumeNext
    <3>2. Head(w) = "startReceive" => Receives = 0
      BY <1>8 DEF ResumeInv
    <3>3. n = <<>> /\ v = Tail(w)
      BY <1>4, <1>6, <2>3, <3>2 DEF Stops
    <3>4. Head(w) = "oldAck" => Acks = 0 /\ Receives = 0
      BY <1>3, <1>4, <1>8 DEF ResumeInv
    <3>5. Acks' = Acks /\ Acks <= 1 /\ Receives' <= 1
          /\ (Head(w) # "startReceive" => Receives' = Receives)
      BY <1>4, <1>8, <2>1, <2>3, <3>2, <3>4 DEF ResumeInv
    <3> DEFINE t == Tail(w)
    <3>6. ResumeInv(<<>>, t)'
      <4>1. /\ t \in ResumeLists
            /\ Head(t) \in {"startReceive", "startReader", "clearResume"}
            /\ Head(t) = "startReceive" => Head(w) = "oldAck"
        BY <3>1
      <4> HIDE DEF t
      <4> QED
        BY <3>4, <3>5, <4>1 DEF ResumeInv
    <3>7. Resuming(Tail(w), b)
      BY <1>8, <3>1, ResumeNext DEF Resuming
    <3>8. LateInv(<<>>, Tail(w), b)' /\ AskedInv(<<>>, Tail(w), b)'
      BY <1>3, <3>7 DEF LateInv, AskedInv, Resuming
    <3>9. RestartInv(<<>>, <<>>, Tail(w), b)'
      BY <1>3, <1>4, <1>8, <3>5, <3>6, <3>8 DEF RestartInv
    <3> QED
      BY <1>5, <1>6, <3>3, <3>9
  <2>4. CASE Head(w) = "clearResume"
    <3>1. Tail(w) = <<>>
      BY <2>1, <2>4, ResumeNext
    <3>2. n = <<>> /\ Acks' = Acks /\ Receives' = Receives /\ ~resumeRequested'
      BY <1>4, <2>4 DEF Stops
    <3>3. Acks <= 1
      BY <1>4, <1>8, <2>1, <2>4 DEF ResumeInv
    <3>4. LateInv(<<>>, <<>>, b)' /\ AskedInv(<<>>, <<>>, b)'
      BY <1>3, <3>2 DEF LateInv, AskedInv
    <3>5. RestartInv(<<>>, <<>>, <<>>, b)'
      BY <1>3, <1>4, <2>1, <3>2, <3>3, <3>4 DEF RestartInv
    <3> QED
      BY <1>5, <1>6, <3>1, <3>2, <3>5
  <2> QED
    BY <2>1, <2>2, <2>3, <2>4, ResumeNext
<1>9. CASE b = <<"top">> /\ ReopenInv(<<>>, w)
  <2>1. /\ w \in ReopenLists /\ b \notin Last /\ b # <<"checkReload">>
        /\ Receives <= 1 /\ Acks <= 1
        /\ Head(w) \in BeforeReceive => Receives = 0
        /\ Head(w) \in BeforeAck => Acks = 0
    BY <1>1, <1>3, <1>9 DEF ReopenInv, Last, RestartInv
  <2>2. \/ Head(w) # "clearReload" /\ Tail(w) \in ReopenLists
        \/ Head(w) = "clearReload" /\ Tail(w) = <<>>
    BY <2>1, ReopenNext
  <2>3. /\ n = <<>>
        /\ Acks' = IF Head(w) = "startAck" THEN 1 ELSE Acks
        /\ Receives' = IF Head(w) = "startReceive" THEN 1 ELSE Receives
    <3>1. Head(w) \notin Stops /\ Head(w) # "stopAck" /\ Head(w) # "stopReceive"
      BY <2>1, ReopenNext DEF Stops
    <3>2. "startAck" \in BeforeAck /\ "startReceive" \in BeforeReceive
      BY DEF BeforeAck, BeforeReceive
    <3> QED
      BY <1>4, <2>1, <3>1, <3>2
  <2>4. Reloading(w, b) /\ ~Resuming(w, b)
    BY <1>9, <2>1, ReopenNext DEF Reloading, Resuming
  <2>5. resumeRequested => early
    BY <1>1, <2>4 DEF RestartInv, LateInv
  <2>6. LateInv(<<>>, Tail(w), b)'
    BY <1>3, <1>4, <2>5 DEF LateInv
  <2>7. CASE Head(w) # "clearReload" /\ Tail(w) \in ReopenLists
    <3>1. /\ Tail(w) # <<>> /\ Tail(w) \in ReopenLists
          /\ Head(Tail(w)) \in BeforeReceive =>
                Head(w) \in BeforeReceive \ {"startReceive"}
          /\ Head(Tail(w)) \in BeforeAck => Head(w) \in BeforeAck \ {"startAck"}
          /\ Head(w) \in BeforeAck \ {"startAck"} => Head(Tail(w)) \in BeforeAck
      BY <2>1, <2>7, ReopenNext DEF BeforeReceive, BeforeAck
    <3>2. ReopenInv(<<>>, Tail(w))'
      BY <2>1, <2>3, <3>1 DEF ReopenInv
    <3>3. Reloading(Tail(w), b)
      BY <1>9, <3>1 DEF Reloading
    <3>4. AskedInv(<<>>, Tail(w), b)'
      <4>1. CASE Head(w) \in BeforeAck \ {"startAck"}
        BY <1>4, <2>5, <3>1, <3>3, <4>1 DEF AskedInv, Reloading
      <4>2. CASE Head(w) = "startAck"
        BY <1>4, <2>3, <2>5, <4>2 DEF AskedInv
      <4>3. CASE Head(w) \notin BeforeAck
        <5>1. Head(w) # "startReceive" /\ Head(w) # "startAck"
          BY <4>3 DEF BeforeAck, BeforeReceive
        <5>2. ~(resumeRequested /\ Acks = 0 /\ Receives # 0)
          BY <1>1, <1>3, <2>1, <2>4, <4>3 DEF RestartInv, AskedInv
        <5> QED
          BY <1>4, <2>3, <2>5, <5>1, <5>2 DEF AskedInv
      <4> QED
        BY <4>1, <4>2, <4>3
    <3>5. RestartInv(<<>>, <<>>, Tail(w), b)'
      BY <1>3, <1>9, <2>1, <2>3, <2>6, <3>2, <3>4 DEF RestartInv
    <3> QED
      BY <1>5, <1>6, <2>3, <3>5
  <2>8. CASE Head(w) = "clearReload" /\ Tail(w) = <<>>
    <3>1. ~(resumeRequested /\ Acks = 0 /\ Receives # 0)
      BY <1>1, <1>3, <2>1, <2>4, <2>8 DEF RestartInv, AskedInv, BeforeAck, BeforeReceive
    <3>2. AskedInv(<<>>, <<>>, b)'
      BY <1>4, <2>3, <2>5, <2>8, <3>1 DEF AskedInv
    <3>3. LateInv(<<>>, <<>>, b)' /\ Acks' <= 1 /\ Receives' <= 1
      BY <1>3, <1>4, <2>1, <2>3, <2>5, <2>8 DEF LateInv
    <3>4. RestartInv(<<>>, <<>>, <<>>, b)'
      BY <1>3, <1>4, <2>3, <2>8, <3>2, <3>3 DEF RestartInv
    <3> QED
      BY <1>5, <1>6, <2>3, <2>8, <3>4
  <2> QED
    BY <2>2, <2>7, <2>8
<1> QED
  BY <1>7, <1>8, <1>9

-----------------------------------------------------------------------------
(* The main thread and the signals, as far as restarts go.                 *)

\* A reopening closes the client twice, and then opens it.
Closing(f) == CloseClient(f) \o CloseClient(FALSE)
Opening ==
    <<"connect", "startRequests", "newCallbacks", "createQueue", "startReceive",
      "startAck", "consume", "clearReload">>

\* A sequence that has the steps of two others, one after the other.
LEMMA ConcatIs ==
    ASSUME NEW S, NEW s \in Seq(S), NEW t \in Seq(S), NEW r \in Seq(S),
           Len(r) = Len(s) + Len(t),
           \A i \in 1..Len(s) : r[i] = s[i],
           \A i \in 1..Len(t) : r[Len(s) + i] = t[i]
    PROVE  s \o t = r
<1> DEFINE u == s \o t
<1>1. /\ u \in Seq(S) /\ Len(s) \in Nat /\ Len(t) \in Nat /\ Len(u) = Len(s) + Len(t)
      /\ \A i \in 1..Len(s) : u[i] = s[i]
      /\ \A i \in 1..Len(u) : \/ i \in 1..Len(s)
                              \/ (i - Len(s) \in 1..Len(t) /\ u[i] = t[i - Len(s)])
  BY ConcatElements
<1> HIDE DEF u
<1>2. ASSUME NEW i \in 1..Len(u) PROVE u[i] = r[i]
  <2>1. CASE i \in 1..Len(s)
    BY <1>1, <2>1
  <2>2. CASE i - Len(s) \in 1..Len(t) /\ u[i] = t[i - Len(s)]
    <3>1. r[Len(s) + (i - Len(s))] = t[i - Len(s)]
      BY <2>2
    <3>2. Len(s) + (i - Len(s)) = i
      BY <1>1, <1>2
    <3> QED
      BY <2>2, <3>1, <3>2
  <2> QED
    BY <1>1, <1>2, <2>1, <2>2
<1>3. u = r
  BY <1>1, <1>2, SeqEqual
<1> QED
  BY <1>3 DEF u

\* What closes the client stops both processors.
LEMMA ClosingStops ==
    ASSUME NEW f \in BOOLEAN
    PROVE  /\ CloseClient(f) \in Seq(CloseSteps) /\ Closing(f) \in Seq(CloseSteps)
           /\ In(Closing(f), "stopAck") /\ In(Closing(f), "stopReceive")
<1> USE DEF CloseClient, Stop, CloseSteps
<1>1. CloseClient(f) \in Seq(CloseSteps) /\ CloseClient(FALSE) \in Seq(CloseSteps)
  <2>1. CASE f
    BY <2>1
  <2>2. CASE ~f
    BY <2>2
  <2> QED
    BY <2>1, <2>2
<1>2. In(CloseClient(FALSE), "stopAck") /\ In(CloseClient(FALSE), "stopReceive")
  BY DEF In
<1> DEFINE c == CloseClient(f)
           d == CloseClient(FALSE)
           S == CloseSteps
<1>3. c \in Seq(S) /\ d \in Seq(S) /\ In(d, "stopAck") /\ In(d, "stopReceive")
  BY <1>1, <1>2
<1> HIDE DEF c, d, S
<1>4. c \o d \in Seq(S)
  BY <1>3, ConcatProperties
<1>5. \A x : In(d, x) => In(c \o d, x)
  BY <1>3, ConcatIn
<1>6. c \o d \in Seq(S) /\ In(c \o d, "stopAck") /\ In(c \o d, "stopReceive")
  BY <1>3, <1>4, <1>5
<1> QED
  BY <1>1, <1>6 DEF Closing, c, d, S

\* The steps of a reopening are those of the closing, and then those of the opening.
LEMMA ReopenSplits ==
    ASSUME NEW f \in BOOLEAN
    PROVE  Reopen(f) = Closing(f) \o Opening
<1> DEFINE u == Closing(f)
           x == <<"connect", "startRequests", "newCallbacks">>
           y == OpenQueueForReceive
           z == <<"clearReload">>
           S == CallSteps
<1>1. u \in Seq(S)
  <2>1. u \in Seq(CloseSteps)
    BY ClosingStops
  <2> QED
    BY <2>1, ListsAreCalls, SeqMonotonic
<1>2. x \in Seq(S) /\ y \in Seq(S) /\ z \in Seq(S)
  BY DEF OpenQueueForReceive, Start, CallSteps
<1>3. (x \o y) \o z = Opening
  <2> DEFINE v == <<"connect", "startRequests", "newCallbacks", "createQueue",
                    "startReceive", "startAck", "consume">>
  <2>1. /\ v \in Seq(S) /\ Len(v) = 7
        /\ v[1] = "connect" /\ v[2] = "startRequests" /\ v[3] = "newCallbacks"
        /\ v[4] = "createQueue" /\ v[5] = "startReceive" /\ v[6] = "startAck"
        /\ v[7] = "consume"
    BY DEF CallSteps
  <2>2. /\ Opening \in Seq(S) /\ Len(Opening) = 8
        /\ Opening[1] = "connect" /\ Opening[2] = "startRequests"
        /\ Opening[3] = "newCallbacks" /\ Opening[4] = "createQueue"
        /\ Opening[5] = "startReceive" /\ Opening[6] = "startAck"
        /\ Opening[7] = "consume" /\ Opening[8] = "clearReload"
    BY DEF CallSteps, Opening
  <2>3. /\ Len(x) = 3 /\ x[1] = "connect" /\ x[2] = "startRequests"
        /\ x[3] = "newCallbacks"
        /\ Len(y) = 4 /\ y[1] = "createQueue" /\ y[2] = "startReceive"
        /\ y[3] = "startAck" /\ y[4] = "consume"
        /\ Len(z) = 1 /\ z[1] = "clearReload"
    BY DEF OpenQueueForReceive, Start
  <2> HIDE DEF v, x, y, z, S
  <2>4. x \o y = v
    <3>1. /\ Len(v) = Len(x) + Len(y)
          /\ \A i \in 1..Len(x) : v[i] = x[i]
          /\ \A i \in 1..Len(y) : v[Len(x) + i] = y[i]
      BY <2>1, <2>3
    <3> QED
      BY ONLY <1>2, <2>1, <3>1, ConcatIs
  <2>5. v \o z = Opening
    <3>1. /\ Len(Opening) = Len(v) + Len(z)
          /\ \A i \in 1..Len(v) : Opening[i] = v[i]
          /\ \A i \in 1..Len(z) : Opening[Len(v) + i] = z[i]
      BY <2>1, <2>2, <2>3
    <3> QED
      BY ONLY <1>2, <2>1, <2>2, <3>1, ConcatIs
  <2> QED
    BY <2>4, <2>5, Zenon
<1>4. Reopen(f) = ((u \o x) \o y) \o z
  BY DEF Reopen, Closing
<1> HIDE DEF u, x, y, z, S
<1>5. u \o x \in Seq(S) /\ x \o y \in Seq(S)
  BY <1>1, <1>2, ConcatProperties
<1>6. (u \o x) \o y = u \o (x \o y)
  BY ONLY <1>1, <1>2, ConcatAssociative
<1>7. (u \o (x \o y)) \o z = u \o ((x \o y) \o z)
  <2> DEFINE v == x \o y
  <2>1. u \in Seq(S) /\ v \in Seq(S) /\ z \in Seq(S)
    BY <1>1, <1>2, <1>5
  <2> HIDE DEF v
  <2>2. (u \o v) \o z = u \o (v \o z)
    BY ONLY <2>1, ConcatAssociative, SMTT(30)
  <2> QED
    BY <2>2 DEF v
<1> QED
  BY <1>3, <1>4, <1>6, <1>7, Zenon DEF u

\* The steps of a resume are one of the lists.
LEMMA ResumeIsListed ==
    /\ ResumeSteps \in ResumeLists
    /\ Head(ResumeSteps) \in {"startAck", "clearResume"}
<1>1. CASE client.pauseClient
  <2>1. ResumeSteps = <<"startAck", "startReceive", "startReader", "clearResume">>
    <3> DEFINE s == <<"startAck", "startReceive", "startReader">>
               t == <<"clearResume">>
               r == <<"startAck", "startReceive", "startReader", "clearResume">>
               S == CallSteps
    <3>1. ResumeSteps = s \o t
      BY <1>1 DEF ResumeSteps, Resume, Start
    <3>2. s \in Seq(S) /\ t \in Seq(S) /\ r \in Seq(S)
      BY DEF CallSteps
    <3>3. /\ Len(s) = 3 /\ Len(t) = 1 /\ Len(r) = 4
          /\ s[1] = r[1] /\ s[2] = r[2] /\ s[3] = r[3] /\ t[1] = r[4]
      OBVIOUS
    <3> HIDE DEF s, t, r, S
    <3>4. /\ Len(r) = Len(s) + Len(t)
          /\ \A i \in 1..Len(s) : r[i] = s[i]
          /\ \A i \in 1..Len(t) : r[Len(s) + i] = t[i]
      BY <3>3
    <3>5. s \o t = r
      BY ONLY <3>2, <3>4, ConcatIs
    <3> QED
      BY <3>1, <3>5 DEF r
  <2> QED
    BY <2>1, ListParts DEF ResumeLists
<1>2. CASE ~client.pauseClient
  <2>1. ResumeSteps = <<"clearResume">>
    BY <1>2 DEF ResumeSteps, Resume
  <2> QED
    BY <2>1, ListParts DEF ResumeLists
<1> QED
  BY <1>1, <1>2

\* The steps of the main thread between its calls: it resumes a client that it has
\* not reopened, and reopens one that it has closed.
LEMMA BaseRestarts ==
    ASSUME ClientOK, NEW h, NEW u, NEW w, NEW b, Frames(h, u, w, b),
           \/ Top \/ Lock \/ Test \/ Sleep \/ Wake \/ Tally \/ Unlock
           \/ CheckResume \/ CheckReload \/ End
    PROVE  LoopsInv'
<1> DEFINE o == u \o w
<1>1. /\ Stack(h, o, b) /\ RestartInv(h, u, w, b)
      /\ u \in Seq(CloseSteps) /\ w \in Seq(CallSteps)
  BY DEF Frames
<1>2. o = <<>> => u = <<>> /\ w = <<>>
  <2>1. u \in Seq(CallSteps)
    BY <1>1, ListsAreCalls, SeqMonotonic
  <2> QED
    BY <1>1, <2>1, ConcatEqualIffEmpty
<1> HIDE DEF o
<1>3. /\ <<>> \in Seq(CallSteps) /\ <<>> \in Seq(CloseSteps)
      /\ \A x : ~In(<<>>, x)
      /\ StopInv(<<>>)'
      /\ <<>> \notin ReopenLists /\ <<>> \notin ResumeLists
  BY NoStep, ReopenNext, ResumeNext DEF StopInv
<1> USE DEF shared, flags, threads, history
<1>4. ClientOK' /\ UNCHANGED <<client, early, resumeRequested>>
  BY DEF Top, Lock, Test, Sleep, Wake, Tally, Unlock, CheckResume, CheckReload, End,
         ClientOK
<1>5. Acks' = Acks /\ Receives' = Receives /\ Receives <= 1
  BY <1>1, <1>4 DEF Acks, Receives, RestartInv
<1>6. ASSUME h = <<>>, o = <<>>
      PROVE  /\ Acks <= 1 /\ u = <<>> /\ w = <<>>
             /\ LateInv(<<>>, <<>>, b) /\ AskedInv(<<>>, <<>>, b)
  BY <1>1, <1>2, <1>3, <1>6 DEF RestartInv, ResumeInv, ReopenInv
<1>7. ASSUME NEW c \in Bases, Stack(<<>>, <<>>, c)', h = <<>>, o = <<>>,
             b \notin Last \/ c \in Last, c = <<"checkReload">> => ~resumeRequested
      PROVE  LoopsInv'
  <2>1. LateInv(<<>>, <<>>, c)'
    BY <1>3, <1>4, <1>7 DEF LateInv, Reloading
  <2>2. AskedInv(<<>>, <<>>, c)'
    BY <1>3, <1>4, <1>5, <1>6, <1>7 DEF AskedInv, Resuming, Reloading
  <2>3. RestartInv(<<>>, <<>>, <<>>, c)'
    BY <1>3, <1>5, <1>6, <1>7, <2>1, <2>2 DEF RestartInv, ClientOK, Acks
  <2>4. <<>> \o <<>> = <<>>
    BY <1>3, ConcatEmptySeq
  <2> QED
    BY <1>3, <1>4, <1>7, <2>3, <2>4 DEF LoopsInv, Frames
<1>8. CASE Top
  <2>1. h = <<>> /\ o = <<>> /\ b = <<"top">> /\ Tail(todo) = <<>>
    BY <1>1, <1>8, AtBase DEF Top, BaseSteps
  <2>2. b \notin Last
    BY <2>1 DEF Last
  <2>3. CASE Then(<<"lock", "test">>)
    <3>1. /\ todo' = <<"lock", "test">> \o <<>> /\ <<"lock", "test">> \in Bases
          /\ <<"lock", "test">> # <<"checkReload">>
      BY <2>1, <2>3 DEF Then, Bases
    <3>2. Stack(<<>>, <<>>, <<"lock", "test">>)'
      BY <1>3, <3>1, BaseGoes
    <3> QED
      BY <1>7, <2>1, <2>2, <3>1, <3>2
  <2>4. ASSUME NEW f \in BOOLEAN, Then(CloseClient(f) \o <<"end">>)
        PROVE  LoopsInv'
    <3> DEFINE c == CloseClient(f)
    <3>1. /\ c \in Seq(CallSteps) /\ c \in Seq(CloseSteps)
          /\ <<"end">> \in Bases /\ <<"end">> \in Last /\ <<"end">> # <<"checkReload">>
      BY CloseClientStops, ClosingStops DEF Bases, Last
    <3>2. todo' = (c \o <<"end">>) \o <<>>
      BY <2>1, <2>4 DEF Then
    <3> HIDE DEF c
    <3>3. Stack(<<>>, c, <<"end">>)'
      BY <3>1, <3>2, BaseGoes
    <3>4. LateInv(<<>>, <<>>, <<"end">>)' /\ AskedInv(<<>>, <<>>, <<"end">>)'
      BY <3>1 DEF LateInv, AskedInv, Reloading
    <3>5. RestartInv(<<>>, c, <<>>, <<"end">>)'
      BY <1>3, <1>5, <1>6, <2>1, <3>1, <3>4 DEF RestartInv, ClientOK, Acks
    <3>6. c \o <<>> = c
      BY <3>1, ConcatEmptySeq
    <3> QED
      BY <1>3, <1>4, <3>1, <3>3, <3>5, <3>6 DEF LoopsInv, Frames
  <2> QED
    BY <1>8, <2>3, <2>4 DEF Top
<1>9. CASE Lock
  <2>1. h = <<>> /\ o = <<>> /\ b = <<"lock", "test">> /\ Tail(todo) = <<"test">>
    BY <1>1, <1>9, AtBase DEF Lock, BaseSteps
  <2>2. b \notin Last /\ <<"test">> \in Bases /\ <<"test">> # <<"checkReload">>
    BY <2>1 DEF Last, Bases
  <2>3. Stack(<<>>, <<>>, <<"test">>)'
    BY <1>3, <1>9, <2>1, <2>2, BaseGoes DEF Lock, Then
  <2> QED
    BY <1>7, <2>1, <2>2, <2>3
<1>10. CASE Test
  <2>1. h = <<>> /\ o = <<>> /\ b = <<"test">> /\ Tail(todo) = <<>>
    BY <1>1, <1>10, AtBase DEF Test, BaseSteps
  <2>2. /\ b \notin Last
        /\ \A c \in {<<"tally">>, <<"sleep">>} : c \in Bases /\ c # <<"checkReload">>
    BY <2>1 DEF Last, Bases
  <2>3. PICK c \in {<<"tally">>, <<"sleep">>} : todo' = c \o <<>>
    <3>1. CASE Wakes
      BY <1>10, <2>1, <3>1 DEF Test, Then
    <3>2. CASE ~Wakes
      BY <1>10, <2>1, <3>2 DEF Test, Then
    <3> QED
      BY <3>1, <3>2
  <2>4. Stack(<<>>, <<>>, c)'
    BY <1>3, <2>2, <2>3, BaseGoes
  <2> QED
    BY <1>7, <2>1, <2>2, <2>4
<1>11. CASE Sleep
  <2>1. h = <<>> /\ o = <<>> /\ b = <<"sleep">> /\ Tail(todo) = <<>>
    BY <1>1, <1>11, AtBase DEF Sleep, BaseSteps
  <2>2. b \notin Last /\ <<"asleep">> \in Bases /\ <<"asleep">> # <<"checkReload">>
    BY <2>1 DEF Last, Bases
  <2>3. todo' = <<"asleep">> \o <<>>
    BY <1>11, <2>1 DEF Sleep, Then
  <2>4. Stack(<<>>, <<>>, <<"asleep">>)'
    BY <1>3, <2>2, <2>3, BaseGoes
  <2> QED
    BY <1>7, <2>1, <2>2, <2>4
<1>12. CASE Wake
  <2>1. h = <<>> /\ o = <<>> /\ b = <<"asleep">> /\ Tail(todo) = <<>>
    BY <1>1, <1>12, AtBase DEF Wake, BaseSteps
  <2>2. b \notin Last /\ <<"test">> \in Bases /\ <<"test">> # <<"checkReload">>
    BY <2>1 DEF Last, Bases
  <2>3. todo' = <<"test">> \o <<>>
    BY <1>12, <2>1 DEF Wake, Then
  <2>4. Stack(<<>>, <<>>, <<"test">>)'
    BY <1>3, <2>2, <2>3, BaseGoes
  <2> QED
    BY <1>7, <2>1, <2>2, <2>4
<1>13. CASE Tally
  <2> DEFINE c == <<"unlock", "checkResume">>
  <2>1. h = <<>> /\ o = <<>> /\ b = <<"tally">> /\ Tail(todo) = <<>>
    BY <1>1, <1>13, AtBase DEF Tally, BaseSteps
  <2>2. b \notin Last /\ c \in Bases /\ c # <<"checkReload">>
    BY <2>1 DEF Last, Bases
  <2>3. todo' = c \o <<>>
    BY <1>13, <2>1 DEF Tally, Then
  <2> HIDE DEF c
  <2>4. Stack(<<>>, <<>>, c)'
    BY <1>3, <2>2, <2>3, BaseGoes
  <2> QED
    BY <1>7, <2>1, <2>2, <2>4
<1>14. CASE Unlock
  <2>1. /\ h = <<>> /\ o = <<>> /\ b = <<"unlock", "checkResume">>
        /\ Tail(todo) = <<"checkResume">>
    BY <1>1, <1>14, AtBase DEF Unlock, BaseSteps
  <2>2. b \notin Last /\ <<"checkResume">> \in Bases /\ <<"checkResume">> # <<"checkReload">>
    BY <2>1 DEF Last, Bases
  <2>3. Stack(<<>>, <<>>, <<"checkResume">>)'
    BY <1>3, <1>14, <2>1, <2>2, BaseGoes DEF Unlock, Then
  <2> QED
    BY <1>7, <2>1, <2>2, <2>3
<1>15. CASE CheckResume
  <2>1. h = <<>> /\ o = <<>> /\ b = <<"checkResume">> /\ Tail(todo) = <<>>
    BY <1>1, <1>15, AtBase DEF CheckResume, BaseSteps
  <2>2. b \notin Last /\ <<"checkReload">> \in Bases
    BY <2>1 DEF Last, Bases
  <2>3. CASE resumeRequested
    <3>1. PICK r : r = ResumeSteps
      OBVIOUS
    <3>2. /\ r \in ResumeLists /\ r \in Seq(CallSteps) /\ r # <<>>
          /\ Head(r) \in {"startAck", "clearResume"}
      BY <3>1, ResumeIsListed, ResumeRestarts, ResumeNext
    <3>3. todo' = (r \o <<"checkReload">>) \o <<>>
      <4>1. Then(ResumeSteps \o <<"checkReload">>)
        BY <1>15, <2>3, Zenon DEF CheckResume, ResumeSteps
      <4> HIDE DEF ResumeSteps
      <4> QED
        BY <2>1, <3>1, <4>1, Zenon DEF Then
    <3>4. Stack(<<>>, r, <<"checkReload">>)'
      BY <2>2, <3>2, <3>3, BaseGoes
    <3>5. Resuming(r, <<"checkReload">>)
      BY <3>2 DEF Resuming
    <3>6. LateInv(<<>>, r, <<"checkReload">>)' /\ AskedInv(<<>>, r, <<"checkReload">>)'
      BY <1>3, <3>5 DEF LateInv, AskedInv, Resuming
    <3>7. (Acks = 0 => Receives = 0) /\ (~early => Acks = 0)
      BY <1>3, <1>6, <2>1, <2>2, <2>3 DEF AskedInv, Resuming, Reloading
    <3>8. ResumeInv(<<>>, r)'
      BY <1>4, <1>5, <1>6, <2>1, <3>2, <3>7 DEF ResumeInv, ClientOK, Acks
    <3>9. RestartInv(<<>>, <<>>, r, <<"checkReload">>)'
      BY <1>3, <1>5, <1>6, <2>1, <3>6, <3>8 DEF RestartInv, ClientOK, Acks
    <3>10. <<>> \o r = r
      BY <3>2, ConcatEmptySeq
    <3> QED
      BY <1>3, <1>4, <3>2, <3>4, <3>9, <3>10 DEF LoopsInv, Frames
  <2>4. CASE ~resumeRequested
    <3>1. todo' = (<<>> \o <<"checkReload">>) \o <<>>
      <4>1. Then(<<>> \o <<"checkReload">>)
        BY <1>15, <2>4, Zenon DEF CheckResume
      <4> QED
        BY <2>1, <4>1, Zenon DEF Then
    <3>2. Stack(<<>>, <<>>, <<"checkReload">>)'
      BY <1>3, <2>2, <3>1, BaseGoes
    <3> QED
      BY <1>7, <2>1, <2>2, <2>4, <3>2
  <2> QED
    BY <2>3, <2>4
<1>16. CASE CheckReload
  <2>1. h = <<>> /\ o = <<>> /\ b = <<"checkReload">> /\ Tail(todo) = <<>>
    BY <1>1, <1>16, AtBase DEF CheckReload, BaseSteps
  <2>2. b \notin Last /\ <<"top">> \in Bases /\ <<"top">> # <<"checkReload">>
    BY <2>1 DEF Last, Bases
  <2>3. CASE Then(<<"top">>)
    <3>1. todo' = <<"top">> \o <<>>
      BY <2>1, <2>3 DEF Then
    <3>2. Stack(<<>>, <<>>, <<"top">>)'
      BY <1>3, <2>2, <3>1, BaseGoes
    <3> QED
      BY <1>7, <2>1, <2>2, <3>2
  <2>4. ASSUME NEW f \in BOOLEAN, Then(Reopen(f) \o <<"top">>)
        PROVE  LoopsInv'
    <3>1. Stack(<<>>, Reopen(f), <<"top">>)'
      BY <2>1, <2>2, <2>4, ReopenRestarts, BaseGoes DEF Then
    <3> DEFINE c == Closing(f)
               v == Opening
    <3>2. /\ c \in Seq(CloseSteps) /\ In(c, "stopAck") /\ In(c, "stopReceive")
          /\ Reopen(f) = c \o v
      BY ClosingStops, ReopenSplits
    <3>3. v \in ReopenLists /\ Head(v) = "connect" /\ v # <<>>
      <4>1. v \in ReopenLists
        BY DEF Opening, ReopenLists
      <4>2. Head(v) = "connect"
        BY ListParts DEF Opening
      <4> QED
        BY <4>1, <4>2, ReopenNext
    <3> HIDE DEF c, v
    <3>4. v \in Seq(CallSteps) /\ Reloading(v, <<"top">>) /\ ~Resuming(v, <<"top">>)
      BY <2>2, <3>3, ListsAreCalls DEF Reloading, Resuming
    <3>5. resumeRequested => early
      BY <1>6, <2>1 DEF LateInv, Resuming
    <3>6. LateInv(<<>>, v, <<"top">>)'
      BY <1>3, <1>4, <3>5 DEF LateInv
    <3>7. AskedInv(<<>>, v, <<"top">>)'
      BY <1>4, <3>3, <3>4, <3>5 DEF AskedInv, Reloading, BeforeAck, BeforeReceive
    <3>8. ReopenInv(c, v)'
      BY <1>5, <1>6, <2>1, <3>2, <3>3 DEF ReopenInv
    <3>9. RestartInv(<<>>, c, v, <<"top">>)'
      BY <1>3, <1>5, <1>6, <2>1, <3>6, <3>7, <3>8 DEF RestartInv, ClientOK, Acks
    <3> QED
      BY <1>4, <3>1, <3>2, <3>4, <3>9 DEF LoopsInv, Frames
  <2> QED
    BY <1>16, <2>3, <2>4 DEF CheckReload
<1>17. CASE End
  <2>1. h = <<>> /\ o = <<>> /\ Tail(todo) = <<>>
    BY <1>1, <1>17, AtBase DEF End, BaseSteps
  <2>2. /\ todo' = <<>> \o <<>> /\ <<>> \in Bases /\ <<>> \in Last
        /\ <<>> # <<"checkReload">>
    BY <1>17, <2>1 DEF End, Then, Bases, Last
  <2>3. Stack(<<>>, <<>>, <<>>)'
    BY <1>3, <2>2, BaseGoes
  <2> QED
    BY <1>7, <2>1, <2>2, <2>3
<1> QED
  BY <1>8, <1>9, <1>10, <1>11, <1>12, <1>13, <1>14, <1>15, <1>16, <1>17

\* What throws leaves the call that was reopening the client, and closes it.
LEMMA ThrowRestarts ==
    ASSUME ClientOK, NEW h, NEW u, NEW w, NEW b, Frames(h, u, w, b), Throw
    PROVE  LoopsInv'
<1> DEFINE o == u \o w
           c == CloseClient(FALSE)
<1>1. /\ Stack(h, o, b) /\ RestartInv(h, u, w, b)
      /\ u \in Seq(CloseSteps) /\ w \in Seq(CallSteps)
  BY DEF Frames
<1>2. u = <<>> => o = w
  BY <1>1, ConcatEmptySeq
<1> HIDE DEF o
<1>3. /\ c \in Seq(CallSteps) /\ c \in Seq(CloseSteps)
      /\ <<"unwound">> \in Bases /\ <<"unwound">> \in Last
      /\ <<"unwound">> # <<"checkReload">>
  BY CloseClientStops, ClosingStops DEF Bases, Last
<1>4. todo' = c \o <<"unwound">>
  BY DEF Throw
<1> HIDE DEF c
<1>5. PICK x \in {"connect", "startRequests", "closeChannel", "createQueue", "consume"} :
             At(x)
  BY DEF Throw
<1>6. o # <<>> /\ Head(o) = x
  <2>1. x \notin HandlerSteps /\ x \notin BaseSteps
    BY DEF HandlerSteps, BaseSteps
  <2>2. CASE h = <<>> /\ o = <<>> /\ b # <<>> /\ Head(b) = x
    <3>1. b \in Seq(BaseSteps)
      BY <1>1, BasesAre DEF Stack
    <3> QED
      BY <2>1, <2>2, <3>1, HeadTailProperties
  <2> QED
    BY <1>1, <1>5, <2>1, <2>2, TopOfStack
<1>7. Acks <= 1
  <2>1. CASE u = <<>> /\ ResumeInv(h, w)
    <3>1. w \in ResumeLists /\ Head(w) = x
      BY <1>2, <1>6, <2>1 DEF ResumeInv
    <3> QED
      BY <3>1, ResumeNext
  <2> QED
    BY <1>1, <2>1 DEF RestartInv, ReopenInv
<1>8. ClientOK' /\ Acks' = Acks /\ Receives' = Receives /\ Acks \in Nat
  <2>1. 1 \in 1..6 /\ {} \in SUBSET {"client", "queue"}
    OBVIOUS
  <2> QED
    BY <2>1 DEF Throw, ClientOK, Acks, Receives
<1>9. Stack(<<>>, c, <<"unwound">>)'
  BY <1>3, <1>4, BaseThen
<1>10. StopInv(<<>>)' /\ <<>> \in Seq(CallSteps)
  BY NoStep DEF StopInv
<1>11. LateInv(<<>>, <<>>, <<"unwound">>)' /\ AskedInv(<<>>, <<>>, <<"unwound">>)'
  BY <1>3 DEF LateInv, AskedInv, Reloading
<1>12. RestartInv(<<>>, c, <<>>, <<"unwound">>)'
  BY <1>1, <1>3, <1>7, <1>8, <1>10, <1>11 DEF RestartInv
<1>13. c \o <<>> = c
  BY <1>3, ConcatEmptySeq
<1> QED
  BY <1>3, <1>8, <1>9, <1>10, <1>12, <1>13 DEF LoopsInv, Frames

\* A handler that requests a resume is that of a Ctrl-C, and stops both processors
\* before it does.
LEMMA HandlerAsks ==
    ASSUME NEW sig \in Signal
    PROVE  LET q == Handle(sig) \o <<Returning(sig)>> IN
           /\ In(q, "requestResume") => sig = "INT"
           /\ Leads(q, "stopAck", "stopReceive")
           /\ \A s \in {"stopAck", "stopReceive"} : Follows(q, "requestResume", s)
<1> USE DEF Handle, Returning, Pause, Stop
<1> DEFINE q == Handle(sig) \o <<Returning(sig)>>
<1>1. CASE sig = "INT"
  <2>1. Leads(q, "stopAck", "stopReceive")
    BY <1>1 DEF Leads
  <2>2. \A s \in {"stopAck", "stopReceive"} : Follows(q, "requestResume", s)
    BY <1>1 DEF Follows
  <2> QED
    BY <1>1, <2>1, <2>2
<1>2. CASE sig \in {"HUP", "TERM"}
  <2>1. ~In(q, "requestResume")
    BY <1>2 DEF In
  <2>2. Leads(q, "stopAck", "stopReceive")
    BY <1>2 DEF Leads
  <2>3. \A s \in {"stopAck", "stopReceive"} : Follows(q, "requestResume", s)
    BY <1>2 DEF Follows
  <2> QED
    BY <2>1, <2>2, <2>3
<1> QED
  BY <1>1, <1>2 DEF Signal

\* A reopening that has not ended has yet to reset its flag.
LEMMA ReopeningClears == \A w \in ReopenLists : In(w, "clearReload")
<1>1. /\ \A a, b, c, d, e, f, g, i : In(<<a, b, c, d, e, f, g, i>>, i)
      /\ \A a, b, c, d, e, f, g : In(<<a, b, c, d, e, f, g>>, g)
      /\ \A a, b, c, d, e, f : In(<<a, b, c, d, e, f>>, f)
      /\ \A a, b, c, d, e : In(<<a, b, c, d, e>>, e)
      /\ \A a, b, c, d : In(<<a, b, c, d>>, d)
      /\ \A a, b, c : In(<<a, b, c>>, c)
      /\ \A a, b : In(<<a, b>>, b)
      /\ \A a : In(<<a>>, a)
  BY DEF In
<1> QED
  BY <1>1 DEF ReopenLists

\* A Ctrl-C that comes while the main thread is about to reopen, or does, is late.
LEMMA SignalRestarts ==
    ASSUME ClientOK, NEW h, NEW u, NEW w, NEW b, Frames(h, u, w, b),
           NEW sig \in Signal, UnixSignalHandler(sig)
    PROVE  LoopsInv'
<1> USE DEF shared, flags, threads, history
<1> DEFINE o == u \o w
           q == Handle(sig) \o <<Returning(sig)>>
<1>1. /\ Stack(h, o, b) /\ RestartInv(h, u, w, b)
      /\ u \in Seq(CloseSteps) /\ w \in Seq(CallSteps)
  BY DEF Frames
<1>2. In(w, "clearReload") => In(o, "clearReload")
  <2>1. u \in Seq(CallSteps)
    BY <1>1, ListsAreCalls, SeqMonotonic
  <2> QED
    BY <1>1, <2>1, ConcatIn
<1> HIDE DEF o
<1>3. /\ q \in Seq(HandlerSteps)
      /\ In(q, "requestResume") => sig = "INT"
      /\ Leads(q, "stopAck", "stopReceive")
      /\ \A s \in {"stopAck", "stopReceive"} : Follows(q, "requestResume", s)
  BY HandlerOrder, HandlerAsks
<1>4. /\ todo' = q \o todo
      /\ UNCHANGED <<resumeRequested, client>>
      /\ early' = (early \/ (sig = "INT" /\ (Reopening \/ Occurs("checkReload"))))
  BY DEF UnixSignalHandler
<1> HIDE DEF q
<1>5. /\ h \in Seq(HandlerSteps) /\ q \in Seq(Steps) /\ h \in Seq(Steps)
      /\ o \o b \in Seq(Steps) /\ o \in Seq(CallSteps) /\ b \in Bases
      /\ todo = h \o (o \o b)
  BY <1>1, <1>3, StepsOf, SeqMonotonic DEF Stack, Steps
<1> DEFINE k == q \o h
<1>6. k \in Seq(HandlerSteps)
  BY <1>3, <1>5, ConcatProperties
<1>7. todo' = k \o (o \o b)
  <2> DEFINE r == o \o b
  <2>1. r \in Seq(Steps) /\ todo' = q \o (h \o r)
    BY <1>4, <1>5
  <2> HIDE DEF r
  <2>2. (q \o h) \o r = q \o (h \o r)
    <3>1. q \in Seq(Steps) /\ h \in Seq(Steps) /\ r \in Seq(Steps)
      BY <1>5, <2>1
    <3> QED
      BY ONLY <3>1, ConcatAssociative
  <2> QED
    BY <2>1, <2>2 DEF r
<1>8. \A x : In(k, x) <=> In(q, x) \/ In(h, x)
  BY <1>3, <1>5, ConcatIn
<1>9. /\ Leads(h, "stopAck", "stopReceive") => Leads(k, "stopAck", "stopReceive")
      /\ \A s \in {"stopAck", "stopReceive"} :
            Follows(h, "requestResume", s) => Follows(k, "requestResume", s)
  BY <1>3, <1>5, ConcatLeads, ConcatFollows
<1> HIDE DEF k
<1>10. Stack(k, o, b)'
  BY <1>5, <1>6, <1>7 DEF Stack
<1>11. Acks' = Acks /\ Receives' = Receives /\ (early => early')
  BY <1>4 DEF Acks, Receives
<1>12. StopInv(k)'
  BY <1>1, <1>9, <1>11 DEF RestartInv, StopInv
<1>13. b = <<"checkReload">> \/ Reloading(w, b) => Reopening \/ Occurs("checkReload")
  <2>1. CASE b = <<"checkReload">>
    <3>1. "checkReload" \in BaseSteps
      BY DEF BaseSteps
    <3>2. In(b, "checkReload")
      BY <2>1, <3>1, OneStep
    <3> QED
      BY <1>1, <3>2, OccursIn
  <2>2. CASE Reloading(w, b)
    <3>1. w \in ReopenLists
      BY <1>1, <2>2 DEF Reloading, RestartInv, ReopenInv, Last
    <3>2. In(o, "clearReload")
      BY <1>2, <3>1, ReopeningClears
    <3> QED
      BY <1>1, <3>2, OccursIn DEF Reopening
  <2> QED
    BY <2>1, <2>2
<1>14. LateInv(k, w, b)'
  BY <1>1, <1>3, <1>4, <1>8, <1>13 DEF RestartInv, LateInv, Resuming, Reloading
<1>15. AskedInv(k, w, b)'
  BY <1>1, <1>4, <1>8, <1>11 DEF RestartInv, AskedInv, Resuming, Reloading
<1>16. ASSUME ResumeInv(h, w) PROVE ResumeInv(k, w)'
  BY <1>8, <1>11, <1>16 DEF ResumeInv
<1>17. ASSUME ReopenInv(u, w) PROVE ReopenInv(u, w)'
  BY <1>11, <1>17 DEF ReopenInv
<1>18. RestartInv(k, u, w, b)'
  BY <1>1, <1>11, <1>12, <1>14, <1>15, <1>16, <1>17 DEF RestartInv
<1>19. ClientOK' /\ Frames(k, u, w, b)'
  BY <1>1, <1>4, <1>10, <1>18 DEF Frames, o, ClientOK
<1> QED
  BY <1>19 DEF LoopsInv

\* The other threads start and stop nothing, and so does no step.
LEMMA ThreadRestarts ==
    ASSUME LoopsInv, ClientOK', client'.loops = client.loops,
           UNCHANGED <<todo, early, resumeRequested>>
    PROVE  LoopsInv'
<1>1. PICK h, u, w, b : Frames(h, u, w, b)
  BY DEF LoopsInv
<1>2. Frames(h, u, w, b)'
  BY <1>1 DEF LoopsInv, Frames, Stack, RestartInv, StopInv, LateInv, AskedInv,
              ResumeInv, ReopenInv, Resuming, Reloading, Acks, Receives
<1> QED
  BY <1>2 DEF LoopsInv

\* The consumer starts with one loop of each processor.
LEMMA LoopsInit == Init => LoopsInv
<1> SUFFICES ASSUME Init PROVE LoopsInv
  OBVIOUS
<1>1. ClientOK /\ Acks = 1 /\ Receives = 1 /\ ~resumeRequested
  BY DEF Init, ClientOK, Acks, Receives
<1>2. /\ <<>> \in Seq(CallSteps) /\ <<>> \in Seq(HandlerSteps) /\ <<>> \in Seq(CloseSteps)
      /\ <<"top">> \in Bases /\ <<"top">> # <<"checkReload">>
  BY EmptySeq DEF Bases
<1>3. Stack(<<>>, <<>>, <<"top">>)
  <2>1. <<"top">> \in Seq(BaseSteps)
    BY <1>2, BasesAre
  <2>2. <<>> \o (<<>> \o <<"top">>) = <<"top">>
    BY <2>1, ConcatEmptySeq
  <2> QED
    BY <1>2, <2>2 DEF Init, Stack
<1>4. StopInv(<<>>) /\ LateInv(<<>>, <<>>, <<"top">>) /\ AskedInv(<<>>, <<>>, <<"top">>)
  BY <1>1, <1>2, NoStep DEF StopInv, LateInv, AskedInv, Reloading
<1>5. RestartInv(<<>>, <<>>, <<>>, <<"top">>)
  BY <1>1, <1>4 DEF RestartInv
<1>6. <<>> \o <<>> = <<>>
  BY <1>2, ConcatEmptySeq
<1> QED
  BY <1>1, <1>2, <1>3, <1>5, <1>6 DEF LoopsInv, Frames

\* Every step of every thread, and every signal, keeps it.
LEMMA LoopsNext == LoopsInv /\ [Next]_vars => LoopsInv'
<1> SUFFICES ASSUME LoopsInv, [Next]_vars PROVE LoopsInv'
  OBVIOUS
<1>1. PICK h, u, w, b : Frames(h, u, w, b)
  BY DEF LoopsInv
<1>2. ClientOK
  BY DEF LoopsInv
<1> DEFINE o == u \o w
<1>3. Stack(h, o, b) /\ u \in Seq(CloseSteps) /\ w \in Seq(CallSteps)
  BY <1>1 DEF Frames
<1>4. (u = <<>> /\ w = <<>> => o = <<>>) /\ (u # <<>> \/ w # <<>> => o # <<>>)
  <2>1. u \in Seq(CallSteps)
    BY <1>3, ListsAreCalls, SeqMonotonic
  <2> QED
    BY <1>3, <2>1, ConcatEqualIffEmpty, ConcatEmptySeq
<1> HIDE DEF o
<1>5. CASE \/ \E p \in Processor : StopProcessor(p) \/ StartProcessor(p)
           \/ Join \/ PauseFlag
           \/ \E step \in {"pauseReader", "closeReader"} : StopReader(step)
           \/ \E step \in {"startReader", "connect"} : StartReader(step)
           \/ RequestStep
           \/ ClearResume \/ ClearReload \/ HandlerStep
  <2>1. PICK x \in Steps : At(x)
    <3>1. todo # <<>>
      BY <1>2, <1>5, RequestEffect
         DEF At, HandlerStep, Join, PauseFlag, StopReader, StartReader, StopProcessor,
             StartProcessor, ClearResume, ClearReload, Option, RequestResume,
             RequestReload, Notify, Return
    <3>2. Head(todo) \in Steps
      BY <1>3, <3>1, StepsOf, HeadTailProperties
    <3> QED
      BY <3>1, <3>2 DEF At
  <2>2. CASE h # <<>>
    <3>1. x \in HandlerSteps
      BY <1>3, <2>1, <2>2, TopOfStack
    <3>2. ~\E p \in Processor : StartProcessor(p)
      BY <2>1, <3>1 DEF StartProcessor, Start, Processor, At, HandlerSteps
    <3>3. /\ ~StopReader("closeReader")
          /\ ~StartReader("startReader") /\ ~StartReader("connect")
          /\ ~RequestStep
          /\ ~ClearResume /\ ~ClearReload
      BY <1>2, <2>1, <3>1, RequestEffect
         DEF StopReader, StartReader, ClearResume, ClearReload, At, HandlerSteps,
             RequestSteps
    <3> QED
      BY <1>1, <1>2, <1>5, <2>2, <3>2, <3>3, HandlerRestarts
  <2>3. CASE h = <<>> /\ o # <<>>
    <3>1. x \in CallSteps /\ todo # <<>>
      BY <1>3, <2>1, <2>3, TopOfStack DEF At
    <3>2. /\ ~PauseFlag /\ ~StopReader("pauseReader") /\ ~HandlerStep
      BY <2>1, <3>1 DEF PauseFlag, StopReader, HandlerStep, Option, RequestResume,
                        RequestReload, Notify, Return, Returning, Signal, At, CallSteps
    <3>3. PICK n : LoopMove(n)
      BY <1>2, <1>5, <3>2, CallLoops
    <3>4. CASE u # <<>>
      BY <1>1, <1>2, <2>3, <3>1, <3>3, <3>4, CloseRestarts
    <3>5. CASE u = <<>>
      BY <1>1, <1>2, <1>4, <2>3, <3>1, <3>3, <3>5, StartRestarts
    <3> QED
      BY <3>4, <3>5
  <2>4. CASE h = <<>> /\ o = <<>>
    <3>1. x \notin HandlerSteps \cup CallSteps
      <4>1. b # <<>> /\ Head(b) = x
        BY <1>3, <2>1, <2>4, TopOfStack
      <4>2. b \in Seq(BaseSteps)
        BY <1>3, BasesAre DEF Stack
      <4>3. x \in BaseSteps
        BY <4>1, <4>2, HeadTailProperties
      <4> QED
        BY <4>3 DEF BaseSteps, HandlerSteps, CallSteps
    <3>2. ~\E p \in Processor : StopProcessor(p) \/ StartProcessor(p)
      BY <2>1, <3>1 DEF At, StopProcessor, StartProcessor, Stop, Start, Processor, CallSteps
    <3>3. ~Join /\ ~HandlerStep
      BY <2>1, <3>1 DEF At, Join, Old, HandlerStep, Option, RequestResume, RequestReload,
                        Notify, Return, Returning, Signal, HandlerSteps, CallSteps
    <3>4. /\ ~PauseFlag /\ ~StopReader("pauseReader") /\ ~StopReader("closeReader")
          /\ ~StartReader("startReader") /\ ~StartReader("connect")
          /\ ~RequestStep
          /\ ~ClearResume /\ ~ClearReload
      BY <1>2, <2>1, <3>1, RequestEffect
         DEF At, PauseFlag, StopReader, StartReader, ClearResume, ClearReload,
             HandlerSteps, CallSteps, RequestSteps
    <3> QED
      BY <1>5, <3>2, <3>3, <3>4
  <2> QED
    BY <2>2, <2>3, <2>4
<1>6. CASE \/ Top \/ Lock \/ Test \/ Sleep \/ Wake \/ Tally \/ Unlock
           \/ CheckResume \/ CheckReload \/ End
  BY <1>1, <1>2, <1>6, BaseRestarts
<1>7. CASE Throw
  BY <1>1, <1>2, <1>7, ThrowRestarts
<1>8. CASE \E sig \in Signal : UnixSignalHandler(sig)
  BY <1>1, <1>2, <1>8, SignalRestarts
<1>9. CASE \/ SpuriousWakeup \/ Receive \/ MessageStep
           \/ Parse \/ ParseRefused \/ NotifyError \/ ReaderStep
           \/ UNCHANGED vars
  <2>1. UNCHANGED <<todo, client, early, resumeRequested>>
    BY <1>9 DEF SpuriousWakeup, Receive, MessageStep, NotifyError, ReaderStep,
                MessageLocked, MessageUnlocked, MessageNotifies, Parse, ParseRefused,
                Parsed, CalledBack, ReaderExits, ErrorLocked, ErrorUnlocked,
                ErrorNotifies, vars, shared, flags, threads, history
  <2>2. ClientOK'
    BY <1>2, <2>1 DEF ClientOK
  <2> QED
    BY <2>1, <2>2, ThreadRestarts
<1>10. CASE \E step \in DOMAIN HeldIn : NextPart(step)
  <2>1. /\ ClientOK' /\ client'.loops = client.loops
        /\ UNCHANGED <<todo, early, resumeRequested>>
    BY <1>2, <1>10, NextPartKeeps DEF shared, flags, history
  <2> QED
    BY <2>1, ThreadRestarts
<1> QED
  BY <1>5, <1>6, <1>7, <1>8, <1>9, <1>10 DEF Next, MainStep, ClientStep

\* Two loops of a processor run only if a Ctrl-C came after the main thread asked
\* whether to resume and before it had reopened, whatever other signals came at
\* whatever steps; and then they are two loops of the ack processor (main.cpp,
\* Resume after Reopen).
THEOREM RestartsAreLate == Spec => []RestartsOnlyAfterReload
<1>1. LoopsInv => RestartsOnlyAfterReload
  <2> SUFFICES ASSUME LoopsInv, NEW p \in Processor, client.loops[p] > 1
               PROVE  early /\ p = "ack" /\ client.loops[p] = 2
    BY DEF RestartsOnlyAfterReload
  <2>1. PICK h, u, w, b : RestartInv(h, u, w, b)
    BY DEF LoopsInv, Frames
  <2>2. Acks \in Nat /\ Receives \in Nat /\ Acks <= 2 /\ Receives <= 1
    BY <2>1 DEF LoopsInv, ClientOK, RestartInv, Acks, Receives
  <2>3. p = "ack" /\ Acks = 2
    BY <2>2 DEF Processor, Acks, Receives
  <2>4. early
    BY <2>1, <2>3 DEF RestartInv, ResumeInv, ReopenInv
  <2> QED
    BY <2>3, <2>4 DEF Acks
<1> QED
  BY <1>1, LoopsInit, LoopsNext, PTL DEF Spec
===============================================================================
