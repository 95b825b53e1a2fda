------------------------ MODULE ConnectionRequestsProofs ------------------------
(***************************************************************************)
(* That every request of every channel comes to one outcome, in the order  *)
(* of the calls, and that no success is reported of a request that the     *)
(* server has not carried out: ConnectionImpl, with its server, implements *)
(* RequestService, for any number of channels, calls and frames.           *)
(*                                                                         *)
(* A channel owes an outcome for every frame it accepted that belongs to a *)
(* Deferred: what it settled and what its callbacks still wait for are,    *)
(* one behind the other, the requests it accepted (Kept).  This does not   *)
(* exclude that an answer of the server comes before its request; that     *)
(* needs the invariant of both sides (RequestInv): of what the library     *)
(* sent, the server has read a first part r and carried out the requests   *)
(* in it (HasRead), and the answers on their way are never more than the   *)
(* requests it carried out and the channel has not settled (Answering).    *)
(*                                                                         *)
(* First the connection: what its methods do to the channels, and with     *)
(* them parse() and the calls of the application; then the answers on      *)
(* their way and what the server has read; then the steps of the           *)
(* application, of parse() and of the server; last the refinement.         *)
(***************************************************************************)
EXTENDS ConnectionImplProofs


----------------------------------------------------------------------------
\* THE CONNECTION.  Its frames that the server has not read, and how they and
\* its channels become more.
On(s) == {s[n] : n \in 1..Len(s)}
InFlight(k) == On(k.wire) \cup On(k.queue)

Extends(k, m) ==
    \E x \in Seq(AFrame) : m.wire = k.wire \o x /\ m.sent = k.sent \o x

FramesGrow(k, m, new) ==
    /\ Extends(k, m)
    /\ InFlight(m) \subseteq InFlight(k) \cup new

ChannelsGrow(k, m) ==
    /\ \A c \in Channels(k) : /\ c \in Channels(m)
                              /\ c \in m.attached => c \in k.attached
    /\ k.closed => m.closed

Grows(k, m, new) == FramesGrow(k, m, new) /\ ChannelsGrow(k, m)

\* The elements of a sequence.
LEMMA OnConcat ==
    ASSUME NEW S, NEW s \in Seq(S), NEW t \in Seq(S)
    PROVE  On(s \o t) \subseteq On(s) \cup On(t)
<1>1. /\ Len(s \o t) = Len(s) + Len(t) /\ Len(s) \in Nat /\ Len(t) \in Nat
      /\ \A n \in 1..Len(s) : (s \o t)[n] = s[n]
      /\ \A n \in (Len(s) + 1)..(Len(s) + Len(t)) : (s \o t)[n] = t[n - Len(s)]
  BY ConcatOf, ZenonT(60)
<1> SUFFICES ASSUME NEW n \in 1..Len(s \o t)
             PROVE  (s \o t)[n] \in On(s) \cup On(t)
  BY DEF On
<1>2. CASE n <= Len(s)
  <2>1. n \in 1..Len(s)
    BY <1>1, <1>2
  <2>2. (s \o t)[n] = s[n]
    BY <1>1, <2>1, Zenon
  <2> QED
    BY <2>1, <2>2, Zenon DEF On
<1>3. CASE n > Len(s)
  <2>1. n \in (Len(s) + 1)..(Len(s) + Len(t)) /\ n - Len(s) \in 1..Len(t)
    BY <1>1, <1>3
  <2>2. (s \o t)[n] = t[n - Len(s)]
    BY <1>1, <2>1, Zenon
  <2> QED
    BY <2>1, <2>2, Zenon DEF On
<1> QED
  BY <1>1, <1>2, <1>3

LEMMA OnTail ==
    ASSUME NEW S, NEW s \in Seq(S), s # <<>>
    PROVE  On(Tail(s)) \subseteq On(s) /\ Head(s) \in On(s)
BY TailOf, SMTT(30) DEF On

LEMMA OnEmpty ==
    On(<<>>) = {}
BY DEF On

\* One frame.
LEMMA OnOne ==
    ASSUME NEW x
    PROVE  On(<<x>>) = {x}
BY DEF On

\* Frames that go to onData.
LEMMA SentGrow ==
    ASSUME NEW k, ConnType(k), NEW x \in Seq(AFrame), NEW new,
           On(x) \subseteq new, NEW m, m.wire = k.wire \o x,
           m.sent = k.sent \o x, m.queue = k.queue
    PROVE  FramesGrow(k, m, new)
<1>1. k.wire \in Seq(AFrame)
  BY ConnFields, Zenon
<1>2. On(k.wire \o x) \subseteq On(k.wire) \cup On(x)
  BY <1>1, OnConcat, Zenon
<1>3. InFlight(m) \subseteq InFlight(k) \cup new
  BY <1>2 DEF InFlight
<1> QED
  BY <1>3, Zenon DEF FramesGrow, Extends

\* Frames that go to the queue.
LEMMA QueuedGrow ==
    ASSUME NEW k, ConnType(k), NEW x \in Seq(AFrame), NEW new,
           On(x) \subseteq new, NEW m, m.wire = k.wire,
           m.sent = k.sent, m.queue = k.queue \o x
    PROVE  FramesGrow(k, m, new)
<1>1. /\ k.queue \in Seq(AFrame) /\ k.wire \in Seq(AFrame)
      /\ k.sent \in Seq(AFrame)
  BY ConnFields, Zenon
<1>2. On(k.queue \o x) \subseteq On(k.queue) \cup On(x)
  BY <1>1, OnConcat, Zenon
<1>3. InFlight(m) \subseteq InFlight(k) \cup new
  BY <1>2 DEF InFlight
<1>4. m.wire = k.wire \o <<>> /\ m.sent = k.sent \o <<>>
  BY <1>1, EmptyConcat, Zenon
<1>5. <<>> \in Seq(AFrame)
  <2> HIDE DEF AFrame
  <2> QED
    OBVIOUS
<1> QED
  BY <1>3, <1>4, <1>5, Zenon DEF FramesGrow, Extends

\* The same frames.
LEMMA SameGrow ==
    ASSUME NEW k, ConnType(k), NEW m, m.wire = k.wire,
           m.sent = k.sent, m.queue = k.queue, NEW new
    PROVE  FramesGrow(k, m, new)
<1>1. m.queue = k.queue \o <<>> /\ <<>> \in Seq(AFrame)
  <2>1. k.queue \in Seq(AFrame)
    BY ConnFields, Zenon
  <2>2. <<>> \in Seq(AFrame)
    <3> HIDE DEF AFrame
    <3> QED
      OBVIOUS
  <2> QED
    BY <2>1, <2>2, EmptyConcat, Zenon
<1>2. On(<<>>) \subseteq new
  BY OnEmpty
<1> QED
  BY <1>1, <1>2, QueuedGrow, Zenon

\* Frames may be joined in any order.
LEMMA AFramesAssociative ==
    \A x, y, z \in Seq(AFrame) : (x \o y) \o z = x \o (y \o z)
BY Associative

\* One after the other.
LEMMA ExtendsTwice ==
    ASSUME NEW k, ConnType(k), NEW m, NEW n, Extends(k, m), Extends(m, n)
    PROVE  Extends(k, n)
<1>1. k.wire \in Seq(AFrame) /\ k.sent \in Seq(AFrame)
  BY ConnFields, Zenon
<1>2. PICK x \in Seq(AFrame) : m.wire = k.wire \o x /\ m.sent = k.sent \o x
  BY Zenon DEF Extends
<1>3. PICK y \in Seq(AFrame) : n.wire = m.wire \o y /\ n.sent = m.sent \o y
  BY Zenon DEF Extends
<1>4. /\ \A u, v, w \in Seq(AFrame) : (u \o v) \o w = u \o (v \o w)
      /\ x \o y \in Seq(AFrame)
  <2> HIDE DEF AFrame
  <2>1. \A u, v, w \in Seq(AFrame) : (u \o v) \o w = u \o (v \o w)
    BY AFramesAssociative, Zenon
  <2>2. x \o y \in Seq(AFrame)
    OBVIOUS
  <2> QED
    BY <2>1, <2>2, Zenon
<1>5. n.wire = k.wire \o (x \o y) /\ n.sent = k.sent \o (x \o y)
  <2>1. (k.wire \o x) \o y = k.wire \o (x \o y)
    BY <1>1, <1>2, <1>3, <1>4, Zenon
  <2>2. (k.sent \o x) \o y = k.sent \o (x \o y)
    BY <1>1, <1>2, <1>3, <1>4, ZenonT(60)
  <2> QED
    BY <1>2, <1>3, <2>1, <2>2, Zenon
<1> QED
  BY <1>4, <1>5, Zenon DEF Extends

LEMMA FramesGrowTwice ==
    ASSUME NEW k, ConnType(k), NEW m, NEW n, NEW new,
           FramesGrow(k, m, new), FramesGrow(m, n, new)
    PROVE  FramesGrow(k, n, new)
<1>1. Extends(k, n)
  BY ExtendsTwice, Zenon DEF FramesGrow
<1>2. InFlight(n) \subseteq InFlight(k) \cup new
  BY DEF FramesGrow
<1> QED
  BY <1>1, <1>2, Zenon DEF FramesGrow

LEMMA ChannelsGrowTwice ==
    ASSUME NEW k, NEW m, NEW n, ChannelsGrow(k, m), ChannelsGrow(m, n)
    PROVE  ChannelsGrow(k, n)
BY Zenon DEF ChannelsGrow

\* The frames of the connection itself: a close of its own comes after
\* close(), and a close of a channel is answered when the channel is gone.
Fine(k, frame) ==
    /\ frame.name = "ChannelCloseOK"
       => frame.channel \in Channels(k) /\ frame.channel \notin k.attached
    /\ frame.name = "ConnectionClose" /\ frame.channel = 0 => k.closed

FineFrames(k) == \A frame \in InFlight(k) : Fine(k, frame)

LEMMA GrowsFine ==
    ASSUME NEW k, FineFrames(k), NEW m, NEW new, Grows(k, m, new),
           \A frame \in new : Fine(m, frame)
    PROVE  FineFrames(m)
<1> SUFFICES ASSUME NEW frame \in InFlight(m) PROVE Fine(m, frame)
  BY DEF FineFrames
<1>1. CASE frame \in new
  BY <1>1
<1>2. CASE frame \in InFlight(k)
  <2>1. Fine(k, frame)
    BY <1>2 DEF FineFrames
  <2> QED
    BY <2>1, Zenon DEF Fine, Grows, ChannelsGrow
<1> QED
  BY <1>1, <1>2, Zenon DEF Grows, FramesGrow

\* The frames of a channel are fine.
LEMMA ChannelFramesFine ==
    ASSUME NEW k, NEW c \in Nat \ {0}, NEW frame \in FrameOf(c)
    PROVE  Fine(k, frame)
BY DEF FrameOf, Counts, Fine

----------------------------------------------------------------------------
\* What the connection does of its own: its channels stay as they are, and
\* the frames it sends are fine.
FineOf(k) == {frame \in AFrame : Fine(k, frame)}

Quietly(k, m) ==
    /\ ConnType(m) /\ SameChannels(k, m) /\ m.closed = k.closed
    /\ FramesGrow(k, m, FineOf(k))

LEMMA FineOfSame ==
    ASSUME NEW k, NEW m, SameChannels(k, m), m.closed = k.closed
    PROVE  FineOf(m) = FineOf(k)
<1>1. Channels(m) = Channels(k) /\ m.attached = k.attached
  BY Zenon DEF SameChannels, Channels
<1>2. \A frame : Fine(m, frame) <=> Fine(k, frame)
  BY <1>1, Zenon DEF Fine
<1> HIDE DEF Fine
<1> QED
  BY <1>2, Zenon DEF FineOf

LEMMA QuietlyTwice ==
    ASSUME NEW k, ConnType(k), NEW m, Quietly(k, m), NEW n, Quietly(m, n)
    PROVE  Quietly(k, n)
<1>1. FineOf(m) = FineOf(k)
  BY FineOfSame, Zenon DEF Quietly
<1>2. FramesGrow(k, n, FineOf(k))
  BY <1>1, FramesGrowTwice, Zenon DEF Quietly
<1> QED
  BY <1>2, Zenon DEF Quietly, SameChannels

\* send(Frame)
LEMMA OutGrow ==
    ASSUME NEW k, ConnType(k), NEW frame \in AFrame, NEW new, frame \in new
    PROVE  FramesGrow(k, Out(k, frame), new)
<1> DEFINE m == Out(k, frame)
<1>1. <<frame>> \in Seq(AFrame) /\ On(<<frame>>) \subseteq new
  <2>1. On(<<frame>>) = {frame}
    BY OnOne, Zenon
  <2>2. <<frame>> \in Seq(AFrame)
    <3> HIDE DEF AFrame
    <3> QED
      OBVIOUS
  <2> QED
    BY <2>1, <2>2
<1>2. CASE m = k
  BY <1>2, SameGrow, Zenon
<1>3. CASE m = OnData(k, <<frame>>)
  <2>1. /\ m.wire = k.wire \o <<frame>> /\ m.sent = k.sent \o <<frame>>
        /\ m.queue = k.queue
    BY <1>3 DEF OnData, ConnType
  <2> QED
    BY <1>1, <2>1, SentGrow, Zenon
<1>4. CASE m = [k EXCEPT !.queue = Append(@, frame)]
  <2> DEFINE queue == Append(k.queue, frame)
  <2>1. k.queue \in Seq(AFrame)
    BY ConnFields, Zenon
  <2>2. queue = k.queue \o <<frame>>
    <3> HIDE DEF AFrame
    <3> QED
      BY <2>1, SMTT(30)
  <2>3. m = [k EXCEPT !.queue = queue]
    BY <1>4, Zenon
  <2> HIDE DEF queue
  <2>4. m.wire = k.wire /\ m.sent = k.sent /\ m.queue = queue
    BY <2>3 DEF ConnType
  <2>5. m.queue = k.queue \o <<frame>>
    BY <2>2, <2>4, Zenon
  <2> QED
    BY <1>1, <2>4, <2>5, QueuedGrow, Zenon
<1> QED
  BY <1>2, <1>3, <1>4, Zenon DEF Out

\* It leaves the channels alone.
LEMMA OutQuietly ==
    ASSUME NEW k, ConnType(k), NEW frame \in AFrame, Itself(frame),
           Fine(k, frame)
    PROVE  Quietly(k, Out(k, frame)) /\ Out(k, frame).state = k.state
<1> DEFINE m == Out(k, frame)
<1>1. /\ ConnType(m) /\ SameChannels(k, m) /\ m.closed = k.closed
      /\ m.state = k.state
  BY OutKeeps, Zenon DEF SameOrder
<1>2. frame \in FineOf(k)
  BY DEF FineOf
<1>3. FramesGrow(k, m, FineOf(k))
  BY <1>2, OutGrow, Zenon
<1> QED
  BY <1>1, <1>3, Zenon DEF Quietly

\* Another state.
LEMMA RestatedQuietly ==
    ASSUME NEW k, ConnType(k),
           NEW state \in {"protocol", "handshake", "connected", "closing", "closed"},
           NEW told, NEW max \in Nat
    PROVE  LET m == Restated(k, state, told, max)
           IN  Quietly(k, m) /\ m.state = state
<1> DEFINE m == Restated(k, state, told, max)
<1>1. HasState(m, k, state)
  BY WithStateTyped, Zenon
<1> HIDE DEF m
<1>2. FramesGrow(k, m, FineOf(k))
  BY <1>1, SameGrow, Zenon DEF HasState
<1>3. Quietly(k, m) /\ m.state = state
  BY <1>1, <1>2, Zenon DEF Quietly, HasState
<1> QED
  BY <1>3, Zenon DEF m

\* sendClose(), after close() was called.
LEMMA SendCloseQuietly ==
    ASSUME NEW k, ConnType(k), k.closed
    PROVE  Quietly(k, SendClose(k)) /\ SendClose(k).state = "closing"
<1> DEFINE frame == Frame_("ConnectionClose", 0, 0)
           out == Out(k, frame)
           m == SendClose(k)
<1>1. frame \in AFrame /\ Itself(frame)
  BY OwnFramesTyped, Zenon
<1>2. Fine(k, frame)
  BY DEF Fine, Frame_
<1>3. m = [out EXCEPT !.state = "closing"]
  BY DEF SendClose
<1> HIDE DEF frame
<1>4. Quietly(k, out)
  BY <1>1, <1>2, OutQuietly, Zenon
<1> HIDE DEF out, m
<1>5. ConnType(out) /\ out.maxChannels \in Nat
  BY <1>4, ConnFields, Zenon DEF Quietly
<1>6. m = Restated(out, "closing", out.told, out.maxChannels)
  BY <1>3, <1>5 DEF ConnType, Restated
<1>7. Quietly(out, m) /\ m.state = "closing"
  BY <1>5, <1>6, RestatedQuietly
<1>8. Quietly(k, m)
  BY <1>4, <1>7, QuietlyTwice, Zenon
<1> QED
  BY <1>7, <1>8, Zenon DEF m

\* setConnected()
LEMMA SetConnectedQuietly ==
    ASSUME NEW k, ConnType(k)
    PROVE  LET m == SetConnected(k)
           IN  /\ Quietly(k, m)
               /\ m.state = "connected" \/ (m.state = "closing" /\ k.closed)
<1> DEFINE wire == k.wire \o k.queue
           sent == k.sent \o k.queue
           flushed == Reframed(k, wire, sent, <<>>)
           open == Restated(flushed, "connected", Append(k.told, "onConnected"),
                            k.maxChannels)
<1>1. /\ wire \in Seq(AFrame) /\ sent \in Seq(AFrame) /\ <<>> \in Seq(AFrame)
      /\ k.queue \in Seq(AFrame) /\ k.wire \in Seq(AFrame)
      /\ k.maxChannels \in Nat
  <2> HIDE DEF AFrame
  <2> QED
    BY ConnFields
<1>2. SetConnected(k) = IF open.closed /\ ~AnyWaiting(open)
      THEN SendClose(open) ELSE open
  <2>1. open = [OnData(k, k.queue) EXCEPT !.state = "connected", !.queue = <<>>,
                                          !.told = Append(@, "onConnected")]
    <3> HIDE DEF wire, sent
    <3>1. OnData(k, k.queue) = [k EXCEPT !.wire = wire, !.sent = sent]
      BY DEF OnData, wire, sent
    <3> QED
      BY <3>1 DEF ConnType, Reframed, Restated
  <2> QED
    BY <2>1, Zenon DEF SetConnected
<1>3. HasFrames(flushed, k, wire, sent, <<>>)
  <2> HIDE DEF wire, sent
  <2> QED
    BY <1>1, WithFramesTyped, Zenon
<1> HIDE DEF flushed
<1>4. FramesGrow(k, flushed, FineOf(k))
  <2>1. On(wire) \subseteq On(k.wire) \cup On(k.queue)
    BY <1>1, OnConcat, Zenon
  <2>2. InFlight(flushed) \subseteq InFlight(k) \cup FineOf(k)
    <3>1. InFlight(flushed) = On(wire) \cup On(<<>>)
      BY <1>3, Zenon DEF HasFrames, InFlight
    <3> HIDE DEF wire, FineOf
    <3> QED
      BY <2>1, <3>1, OnEmpty DEF InFlight
  <2> QED
    BY <1>1, <1>3, <2>2, Zenon DEF FramesGrow, Extends, HasFrames
<1>5. Quietly(k, flushed)
  BY <1>3, <1>4, Zenon DEF Quietly, HasFrames
<1>6. Quietly(flushed, open) /\ open.state = "connected"
  BY <1>1, <1>3, RestatedQuietly DEF HasFrames
<1> HIDE DEF open
<1>7. Quietly(k, open) /\ open.closed = k.closed /\ ConnType(open)
  BY <1>5, <1>6, QuietlyTwice, Zenon DEF Quietly
<1>8. open.closed => /\ Quietly(open, SendClose(open))
                     /\ SendClose(open).state = "closing"
  BY <1>7, SendCloseQuietly, Zenon
<1>9. open.closed => Quietly(k, SendClose(open))
  BY <1>7, <1>8, QuietlyTwice, Zenon
<1>10. CASE open.closed /\ ~AnyWaiting(open)
  BY <1>2, <1>7, <1>8, <1>9, <1>10, Zenon
<1>11. CASE ~ (open.closed /\ ~AnyWaiting(open))
  BY <1>2, <1>6, <1>7, <1>11, Zenon
<1> QED
  BY <1>10, <1>11

----------------------------------------------------------------------------
\* What the connection keeps of its channels' promises, and that without a
\* close() it neither closes nor ends with a channel that could still be used.
Promised(k) == \A c \in Channels(k) : Promises(k.channels[c], k.closed)

Unclosed(k) ==
    ~ k.closed => /\ k.state # "closing"
                  /\ k.state = "closed" => k.attached = {}

Reliable(k) == Promised(k) /\ FineFrames(k) /\ Unclosed(k)

\* What a frame of the server settles of a channel.
AnswerNames == SuccessNames \cup {"BasicRecoverOK", "BasicGetOK"}

SettlesNothing(ch, new) ==
    new.requests = ch.requests /\ new.outcomes = ch.outcomes

SettlesAll(ch, new) == \E mid : Succeeded(ch, mid) /\ Failed(mid, new)

Settles(k, m, frame, c) ==
    LET ch == k.channels[c]
        new == m.channels[c]
    IN  \/ SettlesNothing(ch, new)
        \/ /\ Succeeded(ch, new) /\ c \in k.attached
           /\ frame.channel = c /\ frame.name \in AnswerNames
        \/ /\ Failed(ch, new)
           /\ c \in k.attached /\ c \notin m.attached
        \/ /\ SettlesAll(ch, new)
           /\ c \in k.attached /\ c \notin m.attached
           /\ frame.channel = c /\ frame.name = "ChannelCloseOK"

Handled(m, k, frame) ==
    /\ Reliable(m) /\ Extends(k, m)
    /\ Channels(m) = Channels(k) /\ ChannelsGrow(k, m)
    /\ \A c \in Channels(k) : Settles(k, m, frame, c)
    /\ frame.name \in {"ChannelClose", "ChannelCloseOK"}
       => frame.channel \notin m.attached

\* What the connection does quietly settles nothing.
LEMMA QuietlyKeeps ==
    ASSUME NEW k, Promised(k), FineFrames(k), NEW m, Quietly(k, m)
    PROVE  /\ Promised(m) /\ FineFrames(m) /\ ChannelsGrow(k, m)
           /\ Channels(m) = Channels(k) /\ Extends(k, m)
<1>1. Channels(m) = Channels(k)
  BY Zenon DEF Quietly, SameChannels, Channels
<1>2. Promised(m)
  BY <1>1, Zenon DEF Promised, Quietly, SameChannels
<1>3. ChannelsGrow(k, m)
  BY <1>1, Zenon DEF ChannelsGrow, Quietly, SameChannels
<1>4. FineOf(m) = FineOf(k)
  BY FineOfSame, Zenon DEF Quietly
<1>5. \A frame \in FineOf(k) : Fine(m, frame)
  BY <1>4 DEF FineOf
<1>6. Grows(k, m, FineOf(k))
  BY <1>3, Zenon DEF Grows, Quietly
<1>7. FineFrames(m)
  BY <1>5, <1>6, GrowsFine, Zenon
<1>8. Extends(k, m)
  BY Zenon DEF Extends, Quietly, FramesGrow
<1> QED
  BY <1>1, <1>2, <1>3, <1>7, <1>8, Zenon

LEMMA QuietlyHandled ==
    ASSUME NEW k, Reliable(k), NEW m, Quietly(k, m), Unclosed(m), NEW frame,
           frame.name \in {"ChannelClose", "ChannelCloseOK"}
           => frame.channel \notin k.attached
    PROVE  Handled(m, k, frame)
<1>1. /\ Promised(m) /\ FineFrames(m) /\ ChannelsGrow(k, m)
      /\ Channels(m) = Channels(k) /\ Extends(k, m)
  BY QuietlyKeeps, Zenon DEF Reliable
<1>2. m.channels = k.channels /\ m.attached = k.attached
  BY Zenon DEF Quietly, SameChannels
<1>3. \A c \in Channels(k) : Settles(k, m, frame, c)
  BY <1>2, Zenon DEF Settles, SettlesNothing
<1> QED
  BY <1>1, <1>2, <1>3, Zenon DEF Handled, Reliable

----------------------------------------------------------------------------
\* ONE CHANNEL CHANGES, and may be removed.
Replaced(m, k, c, ch, attached) ==
    /\ m.state = k.state /\ m.closed = k.closed
    /\ m.nextFreeChannel = k.nextFreeChannel /\ m.attached = attached
    /\ m.channels[c] = ch
    /\ \A d \in Channels(k) \ {c} : m.channels[d] = k.channels[d]

\* What the frames of channel c, or of a method of it, may add.
LEMMA OwnOn ==
    ASSUME NEW c, NEW frames \in Seq(FrameOf(c))
    PROVE  On(frames) \subseteq FrameOf(c)
<1> HIDE DEF FrameOf
<1> QED
  BY DEF On

LEMMA PlacedReplaces ==
    ASSUME NEW k, ConnType(k), NEW c \in Channels(k), NEW ch, IsChannel(ch, c)
    PROVE  LET m == Placed(k, c, ch)
           IN  /\ Replaced(m, k, c, ch, k.attached) /\ ConnType(m)
               /\ FramesGrow(k, m, FrameOf(c))
               /\ m.wire = k.wire /\ m.sent = k.sent /\ m.queue = k.queue
<1> DEFINE m == Placed(k, c, ch)
<1>1. HasChannel(m, k, c, ch)
  BY PlacedTyped, Zenon
<1> HIDE DEF m
<1>2. FramesGrow(k, m, FrameOf(c))
  BY <1>1, SameGrow, Zenon DEF HasChannel
<1>3. Replaced(m, k, c, ch, k.attached)
  BY <1>1, Zenon DEF HasChannel, OnlyChannel, Replaced
<1> QED
  BY <1>1, <1>2, <1>3, Zenon DEF m, HasChannel

\* The frames of a channel's method that go to onData.
LEMMA SentReplaces ==
    ASSUME NEW k, ConnType(k), NEW c \in Channels(k), NEW ch, IsChannel(ch, c),
           NEW frames \in Seq(FrameOf(c))
    PROVE  LET m == OnData(Placed(k, c, ch), frames)
           IN  /\ Replaced(m, k, c, ch, k.attached)
               /\ FramesGrow(k, m, FrameOf(c))
<1> DEFINE set == Placed(k, c, ch)
           m == OnData(set, frames)
<1>1. /\ Replaced(set, k, c, ch, k.attached) /\ ConnType(set)
      /\ set.wire = k.wire /\ set.sent = k.sent /\ set.queue = k.queue
  BY PlacedReplaces, Zenon
<1> HIDE DEF set
<1>2. /\ m.wire = set.wire \o frames /\ m.sent = set.sent \o frames
      /\ m.queue = set.queue
      /\ m.state = set.state /\ m.closed = set.closed
      /\ m.nextFreeChannel = set.nextFreeChannel
      /\ m.attached = set.attached /\ m.channels = set.channels
  BY <1>1 DEF OnData, ConnType
<1> HIDE DEF m
<1>3. /\ m.wire = k.wire \o frames /\ m.sent = k.sent \o frames
      /\ m.queue = k.queue
  BY <1>1, <1>2, Zenon
<1>4. frames \in Seq(AFrame) /\ On(frames) \subseteq FrameOf(c)
  BY OwnFrames, OwnOn, Zenon
<1>5. FramesGrow(k, m, FrameOf(c))
  BY <1>3, <1>4, SentGrow, Zenon
<1>6. Replaced(m, k, c, ch, k.attached)
  BY <1>1, <1>2, Zenon DEF Replaced
<1> QED
  BY <1>5, <1>6, Zenon DEF m, set

\* Those that go to the queue of the connection.
LEMMA QueuedReplaces ==
    ASSUME NEW k, ConnType(k), NEW c \in Channels(k), NEW ch, IsChannel(ch, c),
           NEW frames \in Seq(FrameOf(c))
    PROVE  LET m == [Placed(k, c, ch) EXCEPT !.queue = @ \o frames]
           IN  /\ Replaced(m, k, c, ch, k.attached)
               /\ FramesGrow(k, m, FrameOf(c))
<1> DEFINE set == Placed(k, c, ch)
           m == [set EXCEPT !.queue = @ \o frames]
<1>1. /\ Replaced(set, k, c, ch, k.attached) /\ ConnType(set)
      /\ set.wire = k.wire /\ set.sent = k.sent /\ set.queue = k.queue
  BY PlacedReplaces, Zenon
<1> HIDE DEF set
<1>2. /\ m.wire = set.wire /\ m.sent = set.sent
      /\ m.queue = set.queue \o frames
      /\ m.state = set.state /\ m.closed = set.closed
      /\ m.nextFreeChannel = set.nextFreeChannel
      /\ m.attached = set.attached /\ m.channels = set.channels
  BY <1>1 DEF ConnType
<1> HIDE DEF m
<1>3. /\ m.wire = k.wire /\ m.sent = k.sent
      /\ m.queue = k.queue \o frames
  BY <1>1, <1>2, Zenon
<1>4. frames \in Seq(AFrame) /\ On(frames) \subseteq FrameOf(c)
  BY OwnFrames, OwnOn, Zenon
<1>5. FramesGrow(k, m, FrameOf(c))
  BY <1>3, <1>4, QueuedGrow, Zenon
<1>6. Replaced(m, k, c, ch, k.attached)
  BY <1>1, <1>2, Zenon DEF Replaced
<1> QED
  BY <1>5, <1>6, Zenon DEF m, set

\* send(Frame) and send(OutBuffer) of what a method left.
LEMMA GiveReplaces ==
    ASSUME NEW k, ConnType(k), NEW c \in Channels(k), NEW r,
           IsChannel(r.ch, c), r.frames \in Seq(FrameOf(c))
    PROVE  /\ Replaced(Give(k, c, r), k, c, r.ch, k.attached)
           /\ FramesGrow(k, Give(k, c, r), FrameOf(c))
<1> DEFINE sent == OnData(Placed(k, c, r.ch), r.frames)
           queued == [Placed(k, c, r.ch) EXCEPT !.queue = @ \o r.frames]
<1>1. Give(k, c, r) = sent \/ Give(k, c, r) = queued
  BY Zenon DEF Give, Placed
<1>2. /\ Replaced(sent, k, c, r.ch, k.attached)
      /\ FramesGrow(k, sent, FrameOf(c))
  BY SentReplaces, Zenon
<1>3. /\ Replaced(queued, k, c, r.ch, k.attached)
      /\ FramesGrow(k, queued, FrameOf(c))
  BY QueuedReplaces, Zenon
<1> QED
  BY <1>1, <1>2, <1>3, Zenon

LEMMA GiveBuffersReplaces ==
    ASSUME NEW k, ConnType(k), NEW c \in Channels(k), NEW r,
           IsChannel(r.ch, c), r.frames \in Seq(FrameOf(c))
    PROVE  /\ Replaced(GiveBuffers(k, c, r), k, c, r.ch, k.attached)
           /\ FramesGrow(k, GiveBuffers(k, c, r), FrameOf(c))
<1> DEFINE set == Placed(k, c, r.ch)
           sent == OnData(set, r.frames)
           queued == [set EXCEPT !.queue = @ \o r.frames]
<1>1. \/ GiveBuffers(k, c, r) = sent \/ GiveBuffers(k, c, r) = queued
      \/ GiveBuffers(k, c, r) = set
  BY Zenon DEF GiveBuffers, OutBuffers, Placed
<1>2. /\ Replaced(sent, k, c, r.ch, k.attached)
      /\ FramesGrow(k, sent, FrameOf(c))
  BY SentReplaces, Zenon
<1>3. /\ Replaced(queued, k, c, r.ch, k.attached)
      /\ FramesGrow(k, queued, FrameOf(c))
  BY QueuedReplaces, Zenon
<1>4. /\ Replaced(set, k, c, r.ch, k.attached)
      /\ FramesGrow(k, set, FrameOf(c))
  BY PlacedReplaces, Zenon
<1> QED
  BY <1>1, <1>2, <1>3, <1>4, Zenon

\* remove() of a channel that was changed.
LEMMA RemovedReplaces ==
    ASSUME NEW k, ConnType(k), NEW c \in Channels(k), NEW ch, IsChannel(ch, c),
           NEW new
    PROVE  LET m == RemoveChannel(Placed(k, c, ch), c)
           IN  /\ Replaced(m, k, c, ch, k.attached \ {c})
               /\ FramesGrow(k, m, new)
<1> DEFINE set == Placed(k, c, ch)
           m == RemoveChannel(set, c)
<1>1. /\ Replaced(set, k, c, ch, k.attached) /\ ConnType(set)
      /\ set.wire = k.wire /\ set.sent = k.sent /\ set.queue = k.queue
  BY PlacedReplaces, Zenon
<1> HIDE DEF set
<1>2. /\ m.wire = set.wire /\ m.sent = set.sent
      /\ m.queue = set.queue
      /\ m.state = set.state /\ m.closed = set.closed
      /\ m.nextFreeChannel = set.nextFreeChannel
      /\ m.attached = set.attached \ {c} /\ m.channels = set.channels
  BY <1>1 DEF ConnType, RemoveChannel
<1> HIDE DEF m
<1>3. /\ m.wire = k.wire /\ m.sent = k.sent /\ m.queue = k.queue
  BY <1>1, <1>2, Zenon
<1>5. FramesGrow(k, m, new)
  BY <1>3, SameGrow, Zenon
<1>6. Replaced(m, k, c, ch, k.attached \ {c})
  BY <1>1, <1>2, Zenon DEF Replaced
<1> QED
  BY <1>5, <1>6, Zenon DEF m, set

\* A channel that keeps its promises leaves the connection reliable.
LEMMA ReplacedKeeps ==
    ASSUME NEW k, ConnType(k), Reliable(k), NEW c \in Channels(k), NEW ch,
           Promises(ch, k.closed), NEW attached \in SUBSET k.attached, NEW m,
           Replaced(m, k, c, ch, attached), NEW new, FramesGrow(k, m, new),
           \A frame \in new : Fine(m, frame)
    PROVE  /\ Reliable(m) /\ Extends(k, m)
           /\ Channels(m) = Channels(k) /\ ChannelsGrow(k, m)
<1>1. Channels(m) = Channels(k)
  BY Zenon DEF Replaced, Channels
<1>2. Promised(m)
  <2> SUFFICES ASSUME NEW d \in Channels(k)
               PROVE  Promises(m.channels[d], k.closed)
    BY <1>1, Zenon DEF Promised, Replaced
  <2>1. CASE d = c
    BY <2>1, Zenon DEF Replaced
  <2>2. CASE d # c
    <3>1. m.channels[d] = k.channels[d]
      BY <2>2 DEF Replaced
    <3> QED
      BY <3>1, Zenon DEF Reliable, Promised
  <2> QED
    BY <2>1, <2>2
<1>3. ChannelsGrow(k, m)
  <2>1. m.attached \subseteq k.attached /\ (k.closed => m.closed)
    BY Zenon DEF Replaced
  <2> QED
    BY <1>1, <2>1 DEF ChannelsGrow
<1>4. FineFrames(m)
  BY <1>3, GrowsFine, Zenon DEF Reliable, Grows
<1>5. Unclosed(m)
  <2>1. m.attached \subseteq k.attached
    BY DEF Replaced
  <2> QED
    BY <2>1 DEF Reliable, Unclosed, Replaced
<1>6. Extends(k, m)
  BY Zenon DEF FramesGrow, Extends
<1> QED
  BY <1>1, <1>2, <1>3, <1>4, <1>5, <1>6, Zenon DEF Reliable

\* What a frame of the server does to the channel that it names.
LEMMA ReplacedHandled ==
    ASSUME NEW k, ConnType(k), Reliable(k), NEW frame, NEW ch,
           frame.channel \in Channels(k),
           Promises(ch, k.closed), NEW attached \in SUBSET k.attached, NEW m,
           Replaced(m, k, frame.channel, ch, attached),
           NEW new, FramesGrow(k, m, new),
           \A f \in new : Fine(m, f),
           Settles(k, m, frame, frame.channel),
           frame.name \in {"ChannelClose", "ChannelCloseOK"}
           => frame.channel \notin attached
    PROVE  Handled(m, k, frame)
<1>1. /\ Reliable(m) /\ Extends(k, m)
      /\ Channels(m) = Channels(k) /\ ChannelsGrow(k, m)
  BY ReplacedKeeps, Zenon
<1>2. \A c \in Channels(k) : Settles(k, m, frame, c)
  <2> SUFFICES ASSUME NEW c \in Channels(k), c # frame.channel
               PROVE  Settles(k, m, frame, c)
    OBVIOUS
  <2>1. m.channels[c] = k.channels[c]
    BY DEF Replaced
  <2> QED
    BY <2>1, Zenon DEF Settles, SettlesNothing
<1>3. m.attached = attached
  BY DEF Replaced
<1> QED
  BY <1>1, <1>2, <1>3, Zenon DEF Handled

----------------------------------------------------------------------------
\* process() OF THE FRAMES OF THE SERVER.  An answer that comes to an open
\* channel finds a Deferred that waits for it.
Answerable(k, frame) ==
    /\ frame.channel \in k.attached
    /\ frame.name \in AnswerNames \cup {"ChannelCloseOK"}
    => NextSucceeds(k.channels[frame.channel])

Closings == {"ChannelClose", "ChannelCloseOK"}

LEMMA OpenPromises ==
    ASSUME NEW k, NEW c, OpenChannel(k, c), Reliable(k)
    PROVE  Promises(k.channels[c], k.closed) /\ KeptBy(k.channels[c])
<1>1. c \in Channels(k)
  BY OpenChannelTyped, Zenon
<1> QED
  BY <1>1, Zenon DEF Reliable, Promised, Promises, KeptBy

\* What the channel that the frame names was left, settles.
NamedSettles(ch, new, frame) ==
    \/ SettlesNothing(ch, new)
    \/ Succeeded(ch, new) /\ frame.name \in AnswerNames

LEMMA GivesHandled ==
    ASSUME NEW k, NEW frame, OpenChannel(k, frame.channel), Reliable(k),
           frame.name \notin Closings, NEW r, NEW ch,
           Frees(ch, frame.channel, r), Promises(r.ch, k.closed),
           NamedSettles(k.channels[frame.channel], r.ch, frame)
    PROVE  Handled(GiveBuffers(k, frame.channel, r), k, frame)
<1> DEFINE c == frame.channel
           m == GiveBuffers(k, c, r)
<1>1. c \in Channels(k) /\ c \in Nat \ {0} /\ c \in k.attached /\ ConnType(k)
  BY OpenChannelTyped, Zenon DEF OpenChannel, ConnInv
<1>2. IsChannel(r.ch, c) /\ r.frames \in Seq(FrameOf(c))
  BY Zenon DEF Frees, Leaves, KeepsOrder
<1>3. /\ Replaced(m, k, c, r.ch, k.attached)
      /\ FramesGrow(k, m, FrameOf(c))
  BY <1>1, <1>2, GiveBuffersReplaces, Zenon
<1> HIDE DEF m
<1>4. \A f \in FrameOf(c) : Fine(m, f)
  BY <1>1, ChannelFramesFine, Zenon
<1>5. Settles(k, m, frame, c)
  BY <1>1, <1>3, Zenon DEF Settles, Replaced, NamedSettles
<1>6. k.attached \in SUBSET k.attached
  OBVIOUS
<1>7. frame.name \notin {"ChannelClose", "ChannelCloseOK"}
  BY Zenon DEF Closings
<1> HIDE DEF Closings
<1>8. Handled(m, k, frame)
  BY <1>1, <1>3, <1>4, <1>5, <1>6, <1>7, ReplacedHandled, Zenon
<1> QED
  BY <1>8, Zenon DEF m

LEMMA PlacesHandled ==
    ASSUME NEW k, NEW frame, OpenChannel(k, frame.channel), Reliable(k),
           frame.name \notin Closings, NEW new,
           IsChannel(new, frame.channel), Promises(new, k.closed),
           NamedSettles(k.channels[frame.channel], new, frame)
    PROVE  Handled(Placed(k, frame.channel, new), k, frame)
<1> DEFINE c == frame.channel
           m == Placed(k, c, new)
<1>1. c \in Channels(k) /\ c \in Nat \ {0} /\ c \in k.attached /\ ConnType(k)
  BY OpenChannelTyped, Zenon DEF OpenChannel, ConnInv
<1>3. /\ Replaced(m, k, c, new, k.attached)
      /\ FramesGrow(k, m, FrameOf(c))
  BY <1>1, PlacedReplaces, Zenon
<1> HIDE DEF m
<1>4. \A f \in FrameOf(c) : Fine(m, f)
  BY <1>1, ChannelFramesFine, Zenon
<1>5. Settles(k, m, frame, c)
  BY <1>1, <1>3, Zenon DEF Settles, Replaced, NamedSettles
<1>6. k.attached \in SUBSET k.attached
  OBVIOUS
<1>7. frame.name \notin {"ChannelClose", "ChannelCloseOK"}
  BY Zenon DEF Closings
<1> HIDE DEF Closings
<1>8. Handled(m, k, frame)
  BY <1>1, <1>3, <1>4, <1>5, <1>6, <1>7, ReplacedHandled, Zenon
<1> QED
  BY <1>8, Zenon DEF m

\* reportSuccess() of the channel to which the answer came.
LEMMA ReportedKept ==
    ASSUME NEW k, NEW frame, OpenChannel(k, frame.channel), Reliable(k),
           Answerable(k, frame), frame.name \in AnswerNames
    PROVE  /\ Promises(Reported(k, frame), k.closed)
           /\ Succeeded(k.channels[frame.channel], Reported(k, frame))
<1> DEFINE c == frame.channel
           ch == k.channels[c]
<1>1. IsChannel(ch, c)
  BY OpenChannelTyped, Zenon
<1>2. NextSucceeds(ch)
  BY DEF Answerable, OpenChannel
<1>3. Promises(ch, k.closed) /\ KeptBy(ch)
  BY OpenPromises, Zenon
<1> HIDE DEF ch
<1>4. LET new == ReportSuccess(ch, frame.name \in WithCount)
      IN  /\ KeptBy(new) /\ Succeeded(ch, new)
          /\ \A closed : Promises(ch, closed) => Promises(new, closed)
  BY <1>1, <1>2, <1>3, ReportSuccessKept, Zenon
<1> QED
  BY <1>3, <1>4, Zenon DEF Reported, ch

LEMMA SucceededThen ==
    ASSUME NEW ch, NEW s, Succeeded(ch, s), NEW r, Unasked(s, r)
    PROVE  Succeeded(ch, r)
BY Zenon DEF Succeeded, Unasked, SamePromises

\* The answers that end a synchronous request.
LEMMA ProcessSuccessHandled ==
    ASSUME NEW k, NEW frame, OpenChannel(k, frame.channel), Reliable(k),
           Answerable(k, frame), frame.name \in SuccessNames
    PROVE  Handled(ProcessSuccess(k, frame), k, frame)
<1> DEFINE c == frame.channel
           ch == k.channels[c]
           reported == Reported(k, frame)
           r == OnSynchronized(reported)
<1>0. frame.name \in AnswerNames /\ frame.name \notin Closings
  BY DEF AnswerNames, Closings, SuccessNames
<1>1. IsChannel(reported, c) /\ reported.state # "closed"
  BY ReportedSame, Zenon
<1>2. Promises(reported, k.closed) /\ Succeeded(ch, reported)
  BY <1>0, ReportedKept, Zenon
<1> HIDE DEF reported
<1>3. Frees(reported, c, r)
  BY <1>1, OnSynchronizedFrees, Zenon
<1>4. Unasked(reported, r.ch)
  BY <1>1, OnSynchronizedUnasked, Zenon
<1> HIDE DEF r
<1>5. Promises(r.ch, k.closed) /\ Succeeded(ch, r.ch)
  BY <1>2, <1>4, UnaskedKeeps, SucceededThen, Zenon
<1>6. NamedSettles(ch, r.ch, frame)
  BY <1>0, <1>5, Zenon DEF NamedSettles
<1>7. Handled(GiveBuffers(k, c, r), k, frame)
  BY <1>0, <1>3, <1>5, <1>6, GivesHandled, Zenon
<1> QED
  BY <1>7, Zenon DEF ProcessSuccess, r, reported

\* BasicRecoverOKFrame::process
LEMMA ProcessRecoverOKHandled ==
    ASSUME NEW k, NEW frame, OpenChannel(k, frame.channel), Reliable(k),
           Answerable(k, frame), frame.name = "BasicRecoverOK"
    PROVE  Handled(ProcessRecoverOK(k, frame), k, frame)
<1> DEFINE c == frame.channel
           reported == Reported(k, frame)
<1>0. frame.name \in AnswerNames /\ frame.name \notin Closings
  BY DEF AnswerNames, Closings
<1>1. IsChannel(reported, c)
  BY ReportedSame, Zenon
<1>2. Promises(reported, k.closed) /\ Succeeded(k.channels[c], reported)
  BY <1>0, ReportedKept, Zenon
<1> HIDE DEF reported
<1>3. NamedSettles(k.channels[c], reported, frame)
  BY <1>0, <1>2, Zenon DEF NamedSettles
<1>4. Handled(Placed(k, c, reported), k, frame)
  BY <1>0, <1>1, <1>2, <1>3, PlacesHandled, Zenon
<1> QED
  BY <1>4, Zenon DEF ProcessRecoverOK, Placed, reported

\* BasicGetOKFrame::process
LEMMA ProcessGetOKHandled ==
    ASSUME NEW k, NEW frame, OpenChannel(k, frame.channel), Reliable(k),
           Answerable(k, frame), frame.name = "BasicGetOK", frame.id \in Nat
    PROVE  Handled(ProcessGetOK(k, frame), k, frame)
<1> DEFINE c == frame.channel
           reported == Reported(k, frame)
           got == SetMessage(reported, frame.id, "")
<1>0. frame.name \in AnswerNames /\ frame.name \notin Closings
  BY DEF AnswerNames, Closings
<1>1. IsChannel(reported, c)
  BY ReportedSame, Zenon
<1>2. Promises(reported, k.closed) /\ Succeeded(k.channels[c], reported)
  BY <1>0, ReportedKept, Zenon
<1> HIDE DEF reported
<1>3. IsChannel(got, c)
  BY <1>1, SetMessageSame
<1>4. Unasked(reported, got)
  BY <1>1, SetMessageUnasked, Zenon
<1> HIDE DEF got
<1>5. Promises(got, k.closed) /\ Succeeded(k.channels[c], got)
  BY <1>2, <1>4, UnaskedKeeps, SucceededThen, Zenon
<1>6. NamedSettles(k.channels[c], got, frame)
  BY <1>0, <1>5, Zenon DEF NamedSettles
<1>7. Handled(Placed(k, c, got), k, frame)
  BY <1>0, <1>3, <1>5, <1>6, PlacesHandled, Zenon
<1> QED
  BY <1>7, Zenon DEF ProcessGetOK, Placed, got, reported

\* BasicDeliverFrame::process
LEMMA ProcessDeliverHandled ==
    ASSUME NEW k, NEW frame, OpenChannel(k, frame.channel), Reliable(k),
           frame.name \notin Closings, frame.id \in Nat
    PROVE  Handled(ProcessDeliver(k, frame), k, frame)
<1> DEFINE c == frame.channel
           ch == k.channels[c]
           got == SetMessage(ch, frame.id, "tag")
<1>1. IsChannel(ch, c)
  BY OpenChannelTyped, Zenon
<1>2. Promises(ch, k.closed)
  BY OpenPromises, Zenon
<1> HIDE DEF ch
<1>3. IsChannel(got, c)
  BY <1>1, SetMessageSame
<1>4. Unasked(ch, got)
  BY <1>1, SetMessageUnasked, Zenon
<1> HIDE DEF got
<1>5. Promises(got, k.closed)
  BY <1>2, <1>4, UnaskedKeeps, Zenon
<1>6. NamedSettles(ch, got, frame)
  BY <1>4, Zenon DEF NamedSettles, SettlesNothing, Unasked, SamePromises
<1>7. Handled(Placed(k, c, got), k, frame)
  BY <1>3, <1>5, <1>6, PlacesHandled, Zenon DEF ch
<1> QED
  BY <1>7, Zenon DEF ProcessDeliver, Placed, got, ch

\* What an open channel was sent that settles nothing.
LEMMA UnaskedHandled ==
    ASSUME NEW k, NEW frame, OpenChannel(k, frame.channel), Reliable(k),
           frame.name \notin Closings, NEW r,
           Frees(k.channels[frame.channel], frame.channel, r),
           Unasked(k.channels[frame.channel], r.ch)
    PROVE  Handled(GiveBuffers(k, frame.channel, r), k, frame)
<1>1. Promises(r.ch, k.closed)
  BY OpenPromises, UnaskedKeeps, ZenonT(60)
<1>2. NamedSettles(k.channels[frame.channel], r.ch, frame)
  BY Zenon DEF NamedSettles, SettlesNothing, Unasked, SamePromises
<1> QED
  BY <1>1, <1>2, GivesHandled, Zenon

\* The server closes the channel: what waits fails, and the channel leaves
\* before the answer to the close can arrive.
LEMMA ProcessChannelCloseHandled ==
    ASSUME NEW k, NEW frame, OpenChannel(k, frame.channel), Reliable(k),
           frame.name = "ChannelClose"
    PROVE  Handled(ProcessChannelClose(k, frame.channel), k, frame)
<1> DEFINE c == frame.channel
           ok == Frame_("ChannelCloseOK", c, 0)
           out == Out(k, ok)
           ch == ReportError(k.channels[c])
           m == RemoveChannel(Placed(out, c, ch), c)
<1>0. /\ c \in Channels(k) /\ c \in Nat \ {0} /\ c \in k.attached
      /\ ConnType(k) /\ IsChannel(k.channels[c], c)
  BY OpenChannelTyped, Zenon DEF OpenChannel, ConnInv
<1>1. ok \in AFrame /\ Itself(ok)
  BY <1>0, OwnFramesTyped, Zenon
<1>2. ok.name = "ChannelCloseOK" /\ ok.channel = c
  BY DEF Frame_
<1> HIDE DEF ok
<1>3. /\ ConnType(out) /\ out.state = k.state /\ out.closed = k.closed
      /\ SameChannels(k, out)
  BY <1>0, <1>1, OutKeeps, Zenon DEF SameOrder
<1>4. FramesGrow(k, out, {ok})
  <2>1. ok \in {ok}
    OBVIOUS
  <2> QED
    BY <1>0, <1>1, <2>1, OutGrow, Zenon
<1> HIDE DEF out
<1>5. Channels(out) = Channels(k) /\ out.channels = k.channels
      /\ out.attached = k.attached
  BY <1>3, Zenon DEF SameChannels, Channels
<1>6. /\ IsChannel(ch, c) /\ KeptBy(ch) /\ Failed(k.channels[c], ch)
      /\ Promises(ch, k.closed)
  <2>1. IsChannel(ch, c)
    BY <1>0, ReportErrorCloses, Zenon
  <2>2. KeptBy(k.channels[c])
    BY OpenPromises, Zenon
  <2> QED
    BY <1>0, <2>1, <2>2, ReportErrorKept, Zenon
<1>7. ProcessChannelClose(k, c) = m
  BY <1>5, Zenon DEF ProcessChannelClose, Placed, ch, out, ok
<1> HIDE DEF ch
<1>8. /\ Replaced(m, out, c, ch, out.attached \ {c})
      /\ FramesGrow(out, m, {ok})
  BY <1>0, <1>3, <1>5, <1>6, RemovedReplaces, Zenon
<1> HIDE DEF m
<1>9. Replaced(m, k, c, ch, k.attached \ {c})
  BY <1>3, <1>5, <1>8, Zenon DEF Replaced, SameChannels
<1>10. FramesGrow(k, m, {ok})
  BY <1>0, <1>4, <1>8, FramesGrowTwice, Zenon
<1>11. Fine(m, ok)
  <2>1. c \in Channels(m) /\ c \notin m.attached
    <3>1. Channels(m) = Channels(k)
      BY <1>9, Zenon DEF Replaced, Channels
    <3> QED
      BY <1>0, <1>9, <3>1 DEF Replaced
  <2> QED
    BY <1>2, <2>1 DEF Fine
<1>12. Settles(k, m, frame, c)
  <2>1. m.channels[c] = ch /\ c \notin m.attached
    BY <1>9 DEF Replaced
  <2> QED
    BY <1>0, <1>6, <2>1, Zenon DEF Settles
<1>13. k.attached \ {c} \in SUBSET k.attached /\ c \notin k.attached \ {c}
  OBVIOUS
<1>14. \A f \in {ok} : Fine(m, f)
  BY <1>11
<1>15. Handled(m, k, frame)
  BY <1>0, <1>6, <1>9, <1>10, <1>12, <1>13, <1>14, ReplacedHandled, ZenonT(60)
<1> QED
  BY <1>7, <1>15, Zenon DEF m

\* The server has closed the channel as it was asked to.
LEMMA ProcessChannelCloseOKHandled ==
    ASSUME NEW k, NEW frame, OpenChannel(k, frame.channel), Reliable(k),
           Answerable(k, frame), frame.name = "ChannelCloseOK"
    PROVE  Handled(ProcessChannelCloseOK(k, frame.channel), k, frame)
<1> DEFINE c == frame.channel
           ch == ReportClosed(k.channels[c])
           m == RemoveChannel(Placed(k, c, ch), c)
<1>0. /\ c \in Channels(k) /\ c \in Nat \ {0} /\ c \in k.attached
      /\ ConnType(k) /\ IsChannel(k.channels[c], c)
  BY OpenChannelTyped, Zenon DEF OpenChannel, ConnInv
<1>1. NextSucceeds(k.channels[c])
  BY <1>0 DEF Answerable
<1>2. /\ IsChannel(ch, c) /\ SettlesAll(k.channels[c], ch)
      /\ Promises(ch, k.closed)
  <2>1. IsChannel(ch, c)
    BY <1>0, ReportClosedCloses, Zenon
  <2>2. KeptBy(k.channels[c])
    BY OpenPromises, Zenon
  <2> QED
    BY <1>0, <1>1, <2>1, <2>2, ReportClosedKept, Zenon DEF SettlesAll
<1>3. ProcessChannelCloseOK(k, c) = m
  BY Zenon DEF ProcessChannelCloseOK, Placed, ch
<1> HIDE DEF ch
<1>4. /\ Replaced(m, k, c, ch, k.attached \ {c})
      /\ FramesGrow(k, m, FrameOf(c))
  BY <1>0, <1>2, RemovedReplaces, Zenon
<1> HIDE DEF m
<1>5. Settles(k, m, frame, c)
  <2>1. m.channels[c] = ch /\ c \notin m.attached
    BY <1>4 DEF Replaced
  <2> QED
    BY <1>0, <1>2, <2>1, Zenon DEF Settles
<1>6. k.attached \ {c} \in SUBSET k.attached /\ c \notin k.attached \ {c}
  OBVIOUS
<1>7. \A f \in FrameOf(c) : Fine(m, f)
  BY <1>0, ChannelFramesFine, Zenon
<1>8. Handled(m, k, frame)
  BY <1>0, <1>2, <1>4, <1>5, <1>6, <1>7, ReplacedHandled, Zenon
<1> QED
  BY <1>3, <1>8, Zenon DEF m

\* process() of a frame of an open channel.
LEMMA ProcessChannelHandled ==
    ASSUME NEW k, NEW frame \in ToClient, OpenChannel(k, frame.channel),
           Reliable(k), Answerable(k, frame), frame.name \in ChannelNames
    PROVE  Handled(ProcessChannel(k, frame), k, frame)
<1> DEFINE c == frame.channel
           ch == k.channels[c]
           process == Frames[frame.name].process
           m == ProcessChannel(k, frame)
<1>0. IsChannel(ch, c) /\ ch.state # "closed" /\ frame.id \in Nat
  BY OpenChannelTyped, ServerFrame
<1>1. CASE frame.name \in SuccessNames
  <2>1. process = "success"
    BY <1>1, ChannelFrames
  <2>2. m = ProcessSuccess(k, frame)
    BY <2>1 DEF ProcessChannel
  <2> QED
    BY <1>1, <2>2, ProcessSuccessHandled
<1>2. CASE frame.name = "ChannelOpenOK"
  <2>1. process = "ready"
    BY <1>2, ChannelFrames
  <2>2. m = GiveBuffers(k, c, OnSynchronized(ch))
    BY <2>1 DEF ProcessChannel
  <2>3. /\ Frees(ch, c, OnSynchronized(ch))
        /\ Unasked(ch, OnSynchronized(ch).ch)
    BY <1>0, OnSynchronizedFrees, OnSynchronizedUnasked
  <2>4. frame.name \notin Closings
    BY <1>2 DEF Closings
  <2> QED
    BY <2>2, <2>3, <2>4, UnaskedHandled
<1>3. CASE frame.name = "ChannelClose"
  <2>1. process = "channelError"
    BY <1>3, ChannelFrames
  <2>2. m = ProcessChannelClose(k, c)
    BY <2>1 DEF ProcessChannel
  <2> QED
    BY <1>3, <2>2, ProcessChannelCloseHandled
<1>4. CASE frame.name = "ChannelCloseOK"
  <2>1. process = "channelClosed"
    BY <1>4, ChannelFrames
  <2>2. m = ProcessChannelCloseOK(k, c)
    BY <2>1 DEF ProcessChannel
  <2> QED
    BY <1>4, <2>2, ProcessChannelCloseOKHandled
<1>5. CASE frame.name = "BasicDeliver"
  <2>1. process = "delivered"
    BY <1>5, ChannelFrames
  <2>2. m = ProcessDeliver(k, frame)
    BY <2>1 DEF ProcessChannel
  <2>3. frame.name \notin Closings
    BY <1>5 DEF Closings
  <2> QED
    BY <1>0, <2>2, <2>3, ProcessDeliverHandled
<1>6. CASE frame.name = "BasicGetOK"
  <2>1. process = "got"
    BY <1>6, ChannelFrames
  <2>2. m = ProcessGetOK(k, frame)
    BY <2>1 DEF ProcessChannel
  <2> QED
    BY <1>0, <1>6, <2>2, ProcessGetOKHandled
<1>7. CASE frame.name = "BasicRecoverOK"
  <2>1. process = "recovered"
    BY <1>7, ChannelFrames
  <2>2. m = ProcessRecoverOK(k, frame)
    BY <2>1 DEF ProcessChannel
  <2> QED
    BY <1>7, <2>2, ProcessRecoverOKHandled
<1>8. CASE frame.name = "BasicHeader"
  <2>0. frame.size \in Nat
    BY <1>8, ServerFrame
  <2>1. process = "header"
    BY <1>8, ChannelFrames
  <2>2. m = GiveBuffers(k, c, ProcessHeader(ch, frame.size))
    BY <2>1 DEF ProcessChannel
  <2>3. /\ Frees(ch, c, ProcessHeader(ch, frame.size))
        /\ Unasked(ch, ProcessHeader(ch, frame.size).ch)
    BY <1>0, <2>0, ProcessHeaderFrees, ProcessHeaderUnasked
  <2>4. frame.name \notin Closings
    BY <1>8 DEF Closings
  <2> QED
    BY <2>2, <2>3, <2>4, UnaskedHandled
<1>9. CASE frame.name = "Body"
  <2>0. frame.size \in Nat
    BY <1>9, ServerFrame
  <2>1. process = "body"
    BY <1>9, ChannelFrames
  <2>2. m = GiveBuffers(k, c, ProcessBody(ch, frame.size))
    BY <2>1 DEF ProcessChannel
  <2>3. /\ Frees(ch, c, ProcessBody(ch, frame.size))
        /\ Unasked(ch, ProcessBody(ch, frame.size).ch)
    BY <1>0, <2>0, ProcessBodyFrees, ProcessBodyUnasked
  <2>4. frame.name \notin Closings
    BY <1>9 DEF Closings
  <2> QED
    BY <2>2, <2>3, <2>4, UnaskedHandled
<1> QED
  BY <1>1, <1>2, <1>3, <1>4, <1>5, <1>6, <1>7, <1>8, <1>9 DEF ChannelNames

----------------------------------------------------------------------------
\* The frames of the connection itself.
LEMMA QuietlyThenHandled ==
    ASSUME NEW k, ConnType(k), NEW n, Quietly(k, n), NEW m, NEW frame,
           Extends(k, n), ChannelsGrow(k, n), Handled(m, n, frame)
    PROVE  Handled(m, k, frame)
<1>1. Extends(k, m)
  BY ExtendsTwice, Zenon DEF Handled
<1>2. /\ Channels(n) = Channels(k) /\ n.channels = k.channels
      /\ n.attached = k.attached
  BY Zenon DEF Quietly, SameChannels, Channels
<1>3. \A c \in Channels(k) : Settles(k, m, frame, c)
  <2> SUFFICES ASSUME NEW c \in Channels(k) PROVE Settles(k, m, frame, c)
    OBVIOUS
  <2>1. Settles(n, m, frame, c)
    BY <1>2, Zenon DEF Handled
  <2> QED
    BY <1>2, <2>1, Zenon DEF Settles
<1>4. ChannelsGrow(k, m)
  BY ChannelsGrowTwice, Zenon DEF Handled
<1> QED
  BY <1>1, <1>2, <1>3, <1>4, Zenon DEF Handled

\* reportError() of the connection: every channel that is attached fails.
LEMMA ReportConnectionErrorHandled ==
    ASSUME NEW k, ConnType(k), Reliable(k), NEW frame
    PROVE  Handled(ReportConnectionError(k), k, frame)
<1> DEFINE m == ReportConnectionError(k)
           Fails_(c) == IF c \in k.attached THEN ReportError(k.channels[c])
                        ELSE k.channels[c]
           channels == [c \in Channels(k) |-> Fails_(c)]
           told == Append(k.told, "onError")
<1>1. m = [k EXCEPT !.state = "closed", !.attached = {}, !.channels = channels,
                    !.told = told]
  <2>1. DOMAIN k.channels = Channels(k)
    BY DEF ConnType
  <2>2. ReportConnectionError(k) =
          [k EXCEPT !.state = "closed", !.attached = {},
              !.channels = [c \in DOMAIN k.channels |->
                    IF c \in k.attached THEN ReportError(k.channels[c])
                    ELSE k.channels[c]],
              !.told = Append(k.told, "onError")]
    BY DEF ReportConnectionError
  <2> QED
    BY <2>1, <2>2, Zenon
<1>2. \A c \in Channels(k) :
          /\ c \in k.attached => channels[c] = ReportError(k.channels[c])
          /\ c \notin k.attached => channels[c] = k.channels[c]
  BY Zenon
<1> HIDE DEF channels, told, m, Fails_
<1>3. /\ m.state = "closed" /\ m.attached = {} /\ m.closed = k.closed
      /\ m.nextFreeChannel = k.nextFreeChannel
      /\ m.channels = channels
      /\ m.wire = k.wire /\ m.sent = k.sent /\ m.queue = k.queue
  BY <1>1 DEF ConnType
<1>4. Channels(m) = Channels(k)
  BY <1>3, Zenon DEF Channels
<1>5. ASSUME NEW c \in Channels(k)
      PROVE  Promises(m.channels[c], k.closed) /\ Settles(k, m, frame, c)
  <2>1. IsChannel(k.channels[c], c) /\ Promises(k.channels[c], k.closed)
    BY DEF ConnType, Reliable, Promised
  <2>2. CASE c \in k.attached
    <3>1. m.channels[c] = ReportError(k.channels[c])
      BY <1>2, <1>3, <2>2, Zenon
    <3>2. KeptBy(k.channels[c])
      BY <2>1, Zenon DEF Promises, KeptBy
    <3>3. /\ Promises(ReportError(k.channels[c]), k.closed)
          /\ Failed(k.channels[c], ReportError(k.channels[c]))
      BY <2>1, <3>2, ReportErrorKept, Zenon
    <3>4. c \notin m.attached
      BY <1>3
    <3> QED
      BY <2>2, <3>1, <3>3, <3>4, Zenon DEF Settles
  <2>3. CASE c \notin k.attached
    <3>1. m.channels[c] = k.channels[c]
      BY <1>2, <1>3, <2>3, Zenon
    <3> QED
      BY <2>1, <3>1, Zenon DEF Settles, SettlesNothing
  <2> QED
    BY <2>2, <2>3
<1>6. Promised(m)
  BY <1>3, <1>4, <1>5, Zenon DEF Promised
<1>7. ChannelsGrow(k, m)
  <2>1. \A c : c \notin m.attached
    BY <1>3
  <2> QED
    BY <1>3, <1>4, <2>1, Zenon DEF ChannelsGrow
<1>8. FramesGrow(k, m, FineOf(m))
  BY <1>3, SameGrow, Zenon
<1>9. FineFrames(m)
  <2>1. \A f \in FineOf(m) : Fine(m, f)
    BY DEF FineOf
  <2> QED
    BY <1>7, <1>8, <2>1, GrowsFine, Zenon DEF Reliable, Grows
<1>10. Unclosed(m)
  BY <1>3 DEF Unclosed
<1>11. Extends(k, m)
  BY <1>8, Zenon DEF FramesGrow, Extends
<1>12. frame.channel \notin m.attached
  BY <1>3
<1>13. Handled(m, k, frame)
  BY <1>4, <1>5, <1>6, <1>7, <1>9, <1>10, <1>11, <1>12, Zenon
     DEF Handled, Reliable
<1> QED
  BY <1>13, Zenon DEF m

\* The frames of a channel that is gone, and of the handshake, are fine.
LEMMA OwnFramesFine ==
    ASSUME NEW k
    PROVE  \A name \in {"ConnectionStartOK", "ConnectionTuneOK",
                        "ConnectionOpen", "ConnectionCloseOK"} :
               /\ Frame_(name, 0, 0) \in AFrame /\ Itself(Frame_(name, 0, 0))
               /\ Fine(k, Frame_(name, 0, 0))
<1>1. \A name \in {"ConnectionStartOK", "ConnectionTuneOK",
                   "ConnectionOpen", "ConnectionCloseOK"} :
          /\ Frame_(name, 0, 0) \in AFrame /\ Itself(Frame_(name, 0, 0))
  BY OwnFramesTyped
<1>2. \A name \in {"ConnectionStartOK", "ConnectionTuneOK",
                   "ConnectionOpen", "ConnectionCloseOK"} :
          Fine(k, Frame_(name, 0, 0))
  BY DEF Fine, Frame_
<1> QED
  BY <1>1, <1>2, Zenon

\* ConnectionStartFrame::process
LEMMA ProcessStartHandled ==
    ASSUME NEW k, ConnType(k), Reliable(k), NEW frame,
           frame.name \notin Closings
    PROVE  Handled(ProcessStart(k), k, frame)
<1> DEFINE state == IF k.state = "protocol" THEN "handshake" ELSE k.state
           restated == Restated(k, state, k.told, k.maxChannels)
           ok == Frame_("ConnectionStartOK", 0, 0)
           m == Out(restated, ok)
<1>1. k.maxChannels \in Nat /\ state \in {"protocol", "handshake",
                                          "connected", "closing", "closed"}
  BY ConnFields
<1>2. restated = [k EXCEPT !.state = state]
  BY DEF Restated, ConnType
<1>3. ProcessStart(k) = m
  BY <1>2, Zenon DEF ProcessStart
<1>4. state # "closing" \/ k.state = "closing"
  OBVIOUS
<1>5. state = "closed" => k.state = "closed"
  OBVIOUS
<1> HIDE DEF state
<1>6. Quietly(k, restated) /\ restated.state = state
  <2>1. ASSUME NEW max \in Nat
        PROVE  Quietly(k, Restated(k, state, k.told, max))
               /\ Restated(k, state, k.told, max).state = state
    BY <1>1, RestatedQuietly, ZenonT(60)
  <2> QED
    BY <1>1, <2>1, Zenon
<1> HIDE DEF restated
<1>7. ok \in AFrame /\ Itself(ok) /\ Fine(restated, ok)
  BY OwnFramesFine
<1> HIDE DEF ok
<1>8. Quietly(restated, m) /\ m.state = state
  BY <1>6, <1>7, OutQuietly, Zenon DEF Quietly
<1> HIDE DEF m
<1>9. Quietly(k, m)
  BY <1>6, <1>8, QuietlyTwice, Zenon
<1>10. Unclosed(m)
  <2>1. m.closed = k.closed /\ m.attached = k.attached
    BY <1>9, Zenon DEF Quietly, SameChannels
  <2> QED
    BY <1>4, <1>5, <1>8, <2>1, Zenon DEF Unclosed, Reliable
<1>11. frame.name \notin {"ChannelClose", "ChannelCloseOK"}
  BY Zenon DEF Closings
<1>12. Handled(m, k, frame)
  BY <1>9, <1>10, <1>11, QuietlyHandled, Zenon
<1> QED
  BY <1>3, <1>12, Zenon DEF m

\* ConnectionTuneFrame::process
LEMMA ProcessTuneHandled ==
    ASSUME NEW k, ConnType(k), Reliable(k), NEW frame,
           frame.name \notin Closings
    PROVE  Handled(ProcessTune(k), k, frame)
<1> DEFINE state == k.state
           tuned == Restated(k, state, k.told, ChannelMax)
           ok == Frame_("ConnectionTuneOK", 0, 0)
           out == Out(tuned, ok)
           open == Frame_("ConnectionOpen", 0, 0)
           m == Out(out, open)
<1>1. /\ ChannelMax \in Nat
      /\ state \in {"protocol", "handshake", "connected", "closing", "closed"}
  BY ConnFields, ParametersAssumption
<1>2. tuned = [k EXCEPT !.maxChannels = ChannelMax]
  BY DEF Restated, ConnType
<1>3. ProcessTune(k) = m
  BY <1>2, Zenon DEF ProcessTune
<1>4. Quietly(k, tuned) /\ tuned.state = k.state
  <2> HIDE DEF state
  <2>1. ASSUME NEW max \in Nat
        PROVE  Quietly(k, Restated(k, state, k.told, max))
               /\ Restated(k, state, k.told, max).state = state
    BY <1>1, RestatedQuietly, ZenonT(60)
  <2> QED
    BY <1>1, <2>1, Zenon DEF state
<1> HIDE DEF state, tuned
<1>5. ok \in AFrame /\ Itself(ok) /\ Fine(tuned, ok)
  BY OwnFramesFine
<1> HIDE DEF ok
<1>6. Quietly(tuned, out) /\ out.state = k.state
  BY <1>4, <1>5, OutQuietly, Zenon DEF Quietly
<1> HIDE DEF out
<1>7. open \in AFrame /\ Itself(open) /\ Fine(out, open)
  BY OwnFramesFine
<1> HIDE DEF open
<1>8. Quietly(out, m) /\ m.state = k.state
  BY <1>6, <1>7, OutQuietly, Zenon DEF Quietly
<1> HIDE DEF m
<1>9. Quietly(k, m)
  BY <1>4, <1>6, <1>8, QuietlyTwice, Zenon
<1>10. Unclosed(m)
  <2>1. m.closed = k.closed /\ m.attached = k.attached
    BY <1>9, Zenon DEF Quietly, SameChannels
  <2> QED
    BY <1>8, <2>1, Zenon DEF Unclosed, Reliable
<1>11. frame.name \notin {"ChannelClose", "ChannelCloseOK"}
  BY Zenon DEF Closings
<1>12. Handled(m, k, frame)
  BY <1>9, <1>10, <1>11, QuietlyHandled, Zenon
<1> QED
  BY <1>3, <1>12, Zenon DEF m

\* ConnectionOpenOKFrame::process
LEMMA SetConnectedHandled ==
    ASSUME NEW k, ConnType(k), Reliable(k), NEW frame,
           frame.name \notin Closings
    PROVE  Handled(SetConnected(k), k, frame)
<1> DEFINE m == SetConnected(k)
<1>1. Quietly(k, m) /\ (m.state = "connected" \/ (m.state = "closing" /\ k.closed))
  BY SetConnectedQuietly, Zenon
<1> HIDE DEF m
<1>2. m.closed = k.closed
  BY <1>1, Zenon DEF Quietly
<1>3. Unclosed(m)
  BY <1>1, <1>2 DEF Unclosed
<1>4. frame.name \notin {"ChannelClose", "ChannelCloseOK"}
  BY Zenon DEF Closings
<1>5. Handled(m, k, frame)
  BY <1>1, <1>3, <1>4, QuietlyHandled, Zenon
<1> QED
  BY <1>5, Zenon DEF m

\* ConnectionCloseFrame::process
LEMMA ProcessConnectionCloseHandled ==
    ASSUME NEW k, ConnType(k), Reliable(k), NEW frame
    PROVE  Handled(ProcessConnectionClose(k), k, frame)
<1> DEFINE ok == Frame_("ConnectionCloseOK", 0, 0)
           out == Out(k, ok)
<1>1. ok \in AFrame /\ Itself(ok) /\ Fine(k, ok)
  BY OwnFramesFine
<1>2. ProcessConnectionClose(k) = ReportConnectionError(out)
  BY Zenon DEF ProcessConnectionClose
<1> HIDE DEF ok
<1>3. Quietly(k, out) /\ out.state = k.state
  BY <1>1, OutQuietly, Zenon
<1> HIDE DEF out
<1>4. /\ Promised(out) /\ FineFrames(out) /\ ChannelsGrow(k, out)
      /\ Extends(k, out)
  BY <1>3, QuietlyKeeps, Zenon DEF Reliable
<1>5. Unclosed(out) /\ ConnType(out)
  <2>1. out.closed = k.closed /\ out.attached = k.attached /\ ConnType(out)
    BY <1>3, Zenon DEF Quietly, SameChannels
  <2> QED
    BY <1>3, <2>1, Zenon DEF Unclosed, Reliable
<1>6. Handled(ReportConnectionError(out), out, frame)
  BY <1>4, <1>5, ReportConnectionErrorHandled, Zenon DEF Reliable
<1>7. Handled(ReportConnectionError(out), k, frame)
  BY <1>3, <1>4, <1>6, QuietlyThenHandled, Zenon
<1> QED
  BY <1>2, <1>7, Zenon

\* ConnectionCloseOKFrame::process, after close() was called.
LEMMA ProcessConnectionCloseOKHandled ==
    ASSUME NEW k, ConnType(k), Reliable(k), k.closed, NEW frame,
           frame.name \notin Closings
    PROVE  Handled(ProcessConnectionCloseOK(k), k, frame)
<1> DEFINE told == Append(k.told, "onClosed")
           max == k.maxChannels
           m == Restated(k, "closed", told, max)
<1>1. max \in Nat
  BY ConnFields
<1>2. ProcessConnectionCloseOK(k) = m
  BY DEF ProcessConnectionCloseOK, Restated, ConnType
<1> HIDE DEF told, max
<1>3. Quietly(k, m) /\ m.state = "closed"
  BY <1>1, RestatedQuietly
<1> HIDE DEF m
<1>4. Unclosed(m)
  <2>1. m.closed = k.closed
    BY <1>3, Zenon DEF Quietly
  <2> QED
    BY <2>1, Zenon DEF Unclosed
<1>5. frame.name \notin {"ChannelClose", "ChannelCloseOK"}
  BY Zenon DEF Closings
<1> QED
  BY <1>2, <1>3, <1>4, <1>5, QuietlyHandled, Zenon

\* A frame that the connection sends of its own.
LEMMA OutHandled ==
    ASSUME NEW k, ConnType(k), Reliable(k), NEW out \in AFrame, Itself(out),
           Fine(k, out), NEW frame,
           frame.name \in Closings => frame.channel \notin k.attached
    PROVE  Handled(Out(k, out), k, frame)
<1> DEFINE m == Out(k, out)
<1>1. Quietly(k, m) /\ m.state = k.state
  BY OutQuietly, Zenon
<1> HIDE DEF m
<1>2. Unclosed(m)
  <2>1. m.closed = k.closed /\ m.attached = k.attached
    BY <1>1, Zenon DEF Quietly, SameChannels
  <2> QED
    BY <1>1, <2>1, Zenon DEF Unclosed, Reliable
<1>3. frame.name \in {"ChannelClose", "ChannelCloseOK"}
      => frame.channel \notin k.attached
  BY Zenon DEF Closings
<1>4. Handled(m, k, frame)
  BY <1>1, <1>2, <1>3, QuietlyHandled, Zenon
<1> QED
  BY <1>4, Zenon DEF m

\* The frames that process() of the connection handles.
LEMMA ProcessConnectionHandled ==
    ASSUME NEW k, ConnType(k), Reliable(k), NEW frame \in ToClient,
           frame.name \in ConnectionNames,
           frame.name = "ConnectionCloseOK" => k.closed
    PROVE  Handled(ProcessConnection(k, frame), k, frame)
<1> DEFINE process == Frames[frame.name].process
           m == ProcessConnection(k, frame)
<1>0. frame.name \notin Closings
  BY DEF ConnectionNames, Closings
<1>1. CASE frame.name = "ConnectionStart"
  <2>1. process = "start"
    BY <1>1, ConnectionFrames
  <2>2. m = ProcessStart(k)
    BY <2>1 DEF ProcessConnection
  <2> QED
    BY <1>0, <2>2, ProcessStartHandled
<1>2. CASE frame.name = "ConnectionTune"
  <2>1. process = "tune"
    BY <1>2, ConnectionFrames
  <2>2. m = ProcessTune(k)
    BY <2>1 DEF ProcessConnection
  <2> QED
    BY <1>0, <2>2, ProcessTuneHandled
<1>3. CASE frame.name = "ConnectionOpenOK"
  <2>1. process = "connected"
    BY <1>3, ConnectionFrames
  <2>2. m = SetConnected(k)
    BY <2>1 DEF ProcessConnection
  <2> QED
    BY <1>0, <2>2, SetConnectedHandled
<1>4. CASE frame.name = "ConnectionClose"
  <2>1. process = "connectionError"
    BY <1>4, ConnectionFrames
  <2>2. m = ProcessConnectionClose(k)
    BY <2>1 DEF ProcessConnection
  <2> QED
    BY <2>2, ProcessConnectionCloseHandled
<1>5. CASE frame.name = "ConnectionCloseOK"
  <2>1. process = "connectionClosed"
    BY <1>5, ConnectionFrames
  <2>2. m = ProcessConnectionCloseOK(k)
    BY <2>1 DEF ProcessConnection
  <2> QED
    BY <1>0, <1>5, <2>2, ProcessConnectionCloseOKHandled
<1>6. CASE frame.name = "Heartbeat"
  <2>1. process = "heartbeat"
    BY <1>6, ConnectionFrames
  <2>2. m = Out(k, frame)
    BY <2>1 DEF ProcessConnection
  <2>3. frame \in AFrame /\ Itself(frame)
    BY <1>6, ServerFrame DEF Itself
  <2>4. Fine(k, frame)
    BY <1>6 DEF Fine
  <2> QED
    BY <1>0, <2>2, <2>3, <2>4, OutHandled, Zenon
<1>7. CASE frame.name = "ChannelFlow"
  <2>1. process = "unimplemented"
    BY <1>7, ConnectionFrames
  <2>2. m = ReportConnectionError(k)
    BY <2>1 DEF ProcessConnection
  <2> QED
    BY <2>2, ReportConnectionErrorHandled
<1> QED
  BY <1>1, <1>2, <1>3, <1>4, <1>5, <1>6, <1>7 DEF ConnectionNames

\* process() of a frame that the server may send now.
LEMMA ProcessHandled ==
    ASSUME NEW k, ConnInv(k), Reliable(k), NEW frame \in ToClient,
           k.state \in Early => frame.channel = 0,
           k.state = "closed" => frame.name = "ConnectionCloseOK",
           Answerable(k, frame), frame.name = "ConnectionCloseOK" => k.closed,
           frame.name = "ChannelClose" => frame.channel \in Channels(k)
    PROVE  Handled(Process(k, frame), k, frame)
<1>0. Process(k, frame) =
          IF OfConnection(frame.name) THEN ProcessConnection(k, frame)
          ELSE IF frame.channel \in k.attached THEN ProcessChannel(k, frame)
          ELSE IF frame.name = "ChannelClose"
          THEN Out(k, Frame_("ChannelCloseOK", frame.channel, 0))
          ELSE k
  BY Zenon DEF Process, OfConnection
<1>1. /\ frame.name \in ServerNames /\ frame.channel \in Nat
      /\ ConnType(k)
  BY ServerFrame DEF ConnInv
<1>2. CASE frame.name \in ConnectionNames
  <2>1. OfConnection(frame.name)
    BY <1>2, ConnectionFrames
  <2> QED
    BY <1>0, <1>1, <1>2, <2>1, ProcessConnectionHandled
<1>3. CASE frame.name \in ChannelNames
  <2>1. ~ OfConnection(frame.name)
    BY <1>3, ChannelFrames
  <2>2. CASE frame.channel \in k.attached
    <3>1. frame.channel # 0
      BY <1>1, <2>2 DEF ConnType, Channels
    <3>2. k.state \in {"connected", "closing"}
      <4>1. k.state # "closed"
        BY <1>3 DEF ChannelNames, SuccessNames
      <4>2. k.state \in {"protocol", "handshake", "connected", "closing", "closed"}
        BY <1>1, ConnFields
      <4> QED
        BY <3>1, <4>1, <4>2 DEF Early
    <3>3. OpenChannel(k, frame.channel)
      BY <2>2, <3>2 DEF OpenChannel
    <3>4. Process(k, frame) = ProcessChannel(k, frame)
      BY <1>0, <2>1, <2>2, Zenon
    <3> QED
      BY <1>3, <3>3, <3>4, ProcessChannelHandled, Zenon
  <2>3. CASE frame.channel \notin k.attached /\ frame.name = "ChannelClose"
    <3> DEFINE ok == Frame_("ChannelCloseOK", frame.channel, 0)
    <3>1. ok \in AFrame /\ Itself(ok) /\ ok.channel = frame.channel
      BY <1>1, OwnFramesTyped DEF Frame_
    <3>2. Process(k, frame) = Out(k, ok)
      BY <1>0, <2>1, <2>3, Zenon
    <3>3. Fine(k, ok)
      BY <2>3 DEF Fine, Frame_
    <3> HIDE DEF ok
    <3> QED
      BY <1>1, <2>3, <3>1, <3>2, <3>3, OutHandled, Zenon
  <2>4. CASE frame.channel \notin k.attached /\ frame.name # "ChannelClose"
    <3>1. Process(k, frame) = k
      BY <1>0, <2>1, <2>4, Zenon
    <3>2. Quietly(k, k)
      BY <1>1, SameGrow, Zenon DEF Quietly, SameChannels
    <3>3. Handled(k, k, frame)
      BY <2>4, <3>2, QuietlyHandled, Zenon DEF Reliable
    <3> QED
      BY <3>1, <3>3, Zenon
  <2> QED
    BY <2>2, <2>3, <2>4
<1> QED
  BY <1>1, <1>2, <1>3 DEF ServerNames

\* What the connection does quietly after it.
LEMMA HandledThenQuietly ==
    ASSUME NEW k, ConnType(k), NEW m, NEW frame, Handled(m, k, frame), NEW n,
           Quietly(m, n), Unclosed(n)
    PROVE  Handled(n, k, frame)
<1>1. Promised(m) /\ FineFrames(m)
  BY Zenon DEF Handled, Reliable
<1>2. /\ Promised(n) /\ FineFrames(n) /\ ChannelsGrow(m, n)
      /\ Channels(n) = Channels(m) /\ Extends(m, n)
  BY <1>1, QuietlyKeeps, Zenon
<1>3. Extends(k, n)
  BY <1>2, ExtendsTwice, Zenon DEF Handled
<1>4. ChannelsGrow(k, n)
  BY <1>2, ChannelsGrowTwice, Zenon DEF Handled
<1>5. n.channels = m.channels /\ n.attached = m.attached
  BY Zenon DEF Quietly, SameChannels
<1>6. \A c \in Channels(k) : Settles(k, n, frame, c)
  <2> SUFFICES ASSUME NEW c \in Channels(k) PROVE Settles(k, n, frame, c)
    OBVIOUS
  <2>1. Settles(k, m, frame, c)
    BY Zenon DEF Handled
  <2> QED
    BY <1>5, <2>1, Zenon DEF Settles
<1> QED
  BY <1>2, <1>3, <1>4, <1>5, <1>6, Zenon DEF Handled, Reliable

\* The end of parse().
LEMMA EndOfParseHandled ==
    ASSUME NEW k, ConnType(k), NEW m, ConnType(m), NEW frame,
           Handled(m, k, frame)
    PROVE  Handled(EndOfParse(m), k, frame)
<1>1. CASE m.closed /\ m.state = "connected" /\ ~ AnyWaiting(m)
  <2> DEFINE n == SendClose(m)
  <2>1. EndOfParse(m) = n
    BY <1>1, Zenon DEF EndOfParse
  <2>2. Quietly(m, n)
    BY <1>1, SendCloseQuietly, Zenon
  <2> HIDE DEF n
  <2>3. Unclosed(n)
    BY <1>1, <2>2, Zenon DEF Unclosed, Quietly
  <2> QED
    BY <2>1, <2>2, <2>3, HandledThenQuietly, Zenon
<1>2. CASE ~ (m.closed /\ m.state = "connected" /\ ~ AnyWaiting(m))
  <2>1. EndOfParse(m) = m
    BY <1>2, Zenon DEF EndOfParse
  <2> QED
    BY <2>1, Zenon
<1> QED
  BY <1>1, <1>2

----------------------------------------------------------------------------
\* THE CALLS OF THE APPLICATION.  No frame of a channel is part of the end of
\* the connection.
LEMMA NotOfShutdown ==
    \A name \in ChannelFrameNames : ~ Frames[name].partOfShutdown
<1>1. ~ Frames["ChannelOpen"].partOfShutdown
  <2>1. Frames["ChannelOpen"] = ChannelOpenFrame
    BY DEF Frames
  <2> QED
    BY <2>1 DEF ChannelOpenFrame, ChannelFrame, MethodFrame, ExtFrame, Frame
<1>2. ~ Frames["ChannelClose"].partOfShutdown
  <2>1. Frames["ChannelClose"] = ChannelCloseFrame
    BY DEF Frames
  <2> QED
    BY <2>1 DEF ChannelCloseFrame, ChannelFrame, MethodFrame, ExtFrame, Frame
<1>3. ~ Frames["ChannelFlow"].partOfShutdown
  <2>1. Frames["ChannelFlow"] = ChannelFlowFrame
    BY DEF Frames
  <2> QED
    BY <2>1 DEF ChannelFlowFrame, ChannelFrame, MethodFrame, ExtFrame, Frame
<1>4. ~ Frames["TransactionSelect"].partOfShutdown
  <2>1. Frames["TransactionSelect"] = TransactionSelectFrame
    BY DEF Frames
  <2> QED
    BY <2>1 DEF TransactionSelectFrame, TransactionFrame, MethodFrame, ExtFrame, Frame
<1>5. ~ Frames["TransactionCommit"].partOfShutdown
  <2>1. Frames["TransactionCommit"] = TransactionCommitFrame
    BY DEF Frames
  <2> QED
    BY <2>1 DEF TransactionCommitFrame, TransactionFrame, MethodFrame, ExtFrame, Frame
<1>6. ~ Frames["TransactionRollback"].partOfShutdown
  <2>1. Frames["TransactionRollback"] = TransactionRollbackFrame
    BY DEF Frames
  <2> QED
    BY <2>1 DEF TransactionRollbackFrame, TransactionFrame, MethodFrame, ExtFrame, Frame
<1>7. ~ Frames["ExchangeDeclare"].partOfShutdown
  <2>1. Frames["ExchangeDeclare"] = ExchangeDeclareFrame
    BY DEF Frames
  <2> QED
    BY <2>1 DEF ExchangeDeclareFrame, ExchangeFrame, MethodFrame, ExtFrame, Frame
<1>8. ~ Frames["ExchangeBind"].partOfShutdown
  <2>1. Frames["ExchangeBind"] = ExchangeBindFrame
    BY DEF Frames
  <2> QED
    BY <2>1 DEF ExchangeBindFrame, ExchangeFrame, MethodFrame, ExtFrame, Frame
<1>9. ~ Frames["ExchangeUnbind"].partOfShutdown
  <2>1. Frames["ExchangeUnbind"] = ExchangeUnbindFrame
    BY DEF Frames
  <2> QED
    BY <2>1 DEF ExchangeUnbindFrame, ExchangeFrame, MethodFrame, ExtFrame, Frame
<1>10. ~ Frames["ExchangeDelete"].partOfShutdown
  <2>1. Frames["ExchangeDelete"] = ExchangeDeleteFrame
    BY DEF Frames
  <2> QED
    BY <2>1 DEF ExchangeDeleteFrame, ExchangeFrame, MethodFrame, ExtFrame, Frame
<1>11. ~ Frames["QueueDeclare"].partOfShutdown
  <2>1. Frames["QueueDeclare"] = QueueDeclareFrame
    BY DEF Frames
  <2> QED
    BY <2>1 DEF QueueDeclareFrame, QueueFrame, MethodFrame, ExtFrame, Frame
<1>12. ~ Frames["QueueBind"].partOfShutdown
  <2>1. Frames["QueueBind"] = QueueBindFrame
    BY DEF Frames
  <2> QED
    BY <2>1 DEF QueueBindFrame, QueueFrame, MethodFrame, ExtFrame, Frame
<1>13. ~ Frames["QueueUnbind"].partOfShutdown
  <2>1. Frames["QueueUnbind"] = QueueUnbindFrame
    BY DEF Frames
  <2> QED
    BY <2>1 DEF QueueUnbindFrame, QueueFrame, MethodFrame, ExtFrame, Frame
<1>14. ~ Frames["QueuePurge"].partOfShutdown
  <2>1. Frames["QueuePurge"] = QueuePurgeFrame
    BY DEF Frames
  <2> QED
    BY <2>1 DEF QueuePurgeFrame, QueueFrame, MethodFrame, ExtFrame, Frame
<1>15. ~ Frames["QueueDelete"].partOfShutdown
  <2>1. Frames["QueueDelete"] = QueueDeleteFrame
    BY DEF Frames
  <2> QED
    BY <2>1 DEF QueueDeleteFrame, QueueFrame, MethodFrame, ExtFrame, Frame
<1>16. ~ Frames["BasicQos"].partOfShutdown
  <2>1. Frames["BasicQos"] = BasicQosFrame
    BY DEF Frames
  <2> QED
    BY <2>1 DEF BasicQosFrame, BasicFrame, MethodFrame, ExtFrame, Frame
<1>17. ~ Frames["BasicConsume"].partOfShutdown
  <2>1. Frames["BasicConsume"] = BasicConsumeFrame
    BY DEF Frames
  <2> QED
    BY <2>1 DEF BasicConsumeFrame, BasicFrame, MethodFrame, ExtFrame, Frame
<1>18. ~ Frames["BasicCancel"].partOfShutdown
  <2>1. Frames["BasicCancel"] = BasicCancelFrame
    BY DEF Frames
  <2> QED
    BY <2>1 DEF BasicCancelFrame, BasicFrame, MethodFrame, ExtFrame, Frame
<1>19. ~ Frames["BasicGet"].partOfShutdown
  <2>1. Frames["BasicGet"] = BasicGetFrame
    BY DEF Frames
  <2> QED
    BY <2>1 DEF BasicGetFrame, BasicFrame, MethodFrame, ExtFrame, Frame
<1>20. ~ Frames["BasicRecover"].partOfShutdown
  <2>1. Frames["BasicRecover"] = BasicRecoverFrame
    BY DEF Frames
  <2> QED
    BY <2>1 DEF BasicRecoverFrame, BasicFrame, MethodFrame, ExtFrame, Frame
<1>21. ~ Frames["BasicAck"].partOfShutdown
  <2>1. Frames["BasicAck"] = BasicAckFrame
    BY DEF Frames
  <2> QED
    BY <2>1 DEF BasicAckFrame, BasicFrame, MethodFrame, ExtFrame, Frame
<1>22. ~ Frames["BasicReject"].partOfShutdown
  <2>1. Frames["BasicReject"] = BasicRejectFrame
    BY DEF Frames
  <2> QED
    BY <2>1 DEF BasicRejectFrame, BasicFrame, MethodFrame, ExtFrame, Frame
<1>23. ~ Frames["BasicNack"].partOfShutdown
  <2>1. Frames["BasicNack"] = BasicNackFrame
    BY DEF Frames
  <2> QED
    BY <2>1 DEF BasicNackFrame, BasicFrame, MethodFrame, ExtFrame, Frame
<1>24. ~ Frames["BasicPublish"].partOfShutdown
  <2>1. Frames["BasicPublish"] = BasicPublishFrame
    BY DEF Frames
  <2> QED
    BY <2>1 DEF BasicPublishFrame, BasicFrame, MethodFrame, ExtFrame, Frame
<1> QED
  BY <1>1, <1>2, <1>3, <1>4, <1>5, <1>6, <1>7, <1>8, <1>9, <1>10,
     <1>11, <1>12, <1>13, <1>14, <1>15, <1>16, <1>17, <1>18,
     <1>19, <1>20, <1>21, <1>22, <1>23, <1>24
     DEF ChannelFrameNames

\* send(Frame) takes the frames of an open channel until close() is called.
LEMMA ChannelFramesTaken ==
    ASSUME NEW k, ConnInv(k), Reliable(k), NEW c \in Channels(k), NEW frame,
           frame.name \in ChannelFrameNames
    PROVE  TakesUntilClosed(k.channels[c], k.closed, Taken(k, frame))
<1>1. ~ Frames[frame.name].partOfShutdown
  BY NotOfShutdown
<1>2. Taken(k, frame) <=> k.state \notin {"closing", "closed"} /\ ~ k.closed
  BY <1>1, Zenon DEF Taken
<1>3. k.channels[c].state # "closed" => c \in k.attached
  <2>1. c \in Nat \ {0} /\ OrderOf(k, c)
    BY DEF ConnInv, Order, ConnType, Channels
  <2> QED
    BY <2>1, Zenon DEF OrderOf
<1>4. c \in k.attached /\ ~ k.closed => k.state \notin {"closing", "closed"}
  BY DEF Reliable, Unclosed
<1> QED
  BY <1>2, <1>3, <1>4, Zenon DEF TakesUntilClosed

\* What a call leaves of the connection: its channels have at most a request
\* more each, and a new one has none.
Asks(m, k) ==
    /\ Reliable(m) /\ Extends(k, m) /\ ChannelsGrow(k, m)
    /\ \A c \in Channels(k) : AskedOnce(k.channels[c], m.channels[c])
    /\ \A c \in Channels(m) \ Channels(k) :
          m.channels[c].requests = <<>> /\ m.channels[c].outcomes = <<>>

\* A method of one channel.
LEMMA GiveAsks ==
    ASSUME NEW k, ConnInv(k), Reliable(k), NEW c \in Channels(k), NEW taken,
           NEW r, Sends(k.channels[c], c, taken, r), Promises(r.ch, k.closed),
           AskedOnce(k.channels[c], r.ch)
    PROVE  Asks(Give(k, c, r), k)
<1> DEFINE m == Give(k, c, r)
<1>1. /\ ConnType(k) /\ IsChannel(r.ch, c) /\ r.frames \in Seq(FrameOf(c))
      /\ c \in Nat \ {0}
  <2>1. c \in Nat \ {0}
    BY DEF Channels
  <2> QED
    BY <2>1, Zenon DEF ConnInv, Sends, Leaves, KeepsOrder
<1>2. /\ Replaced(m, k, c, r.ch, k.attached)
      /\ FramesGrow(k, m, FrameOf(c))
  BY <1>1, GiveReplaces, Zenon
<1> HIDE DEF m
<1>3. \A frame \in FrameOf(c) : Fine(m, frame)
  BY <1>1, ChannelFramesFine, Zenon
<1>4. k.attached \in SUBSET k.attached
  OBVIOUS
<1>5. /\ Reliable(m) /\ Extends(k, m)
      /\ Channels(m) = Channels(k) /\ ChannelsGrow(k, m)
  BY <1>1, <1>2, <1>3, <1>4, ReplacedKeeps, Zenon
<1>6. \A d \in Channels(k) : AskedOnce(k.channels[d], m.channels[d])
  <2> SUFFICES ASSUME NEW d \in Channels(k)
               PROVE  AskedOnce(k.channels[d], m.channels[d])
    OBVIOUS
  <2>1. CASE d = c
    BY <1>2, <2>1, Zenon DEF Replaced
  <2>2. CASE d # c
    <3>1. m.channels[d] = k.channels[d]
      BY <1>2, <2>2 DEF Replaced
    <3> QED
      BY <3>1, Zenon DEF AskedOnce
  <2> QED
    BY <2>1, <2>2
<1>7. Asks(m, k)
  BY <1>5, <1>6 DEF Asks
<1> QED
  BY <1>7, Zenon DEF m

\* What is the same was asked for nothing.
LEMMA SameAsked ==
    ASSUME NEW ch, NEW new, SamePromises(ch, new)
    PROVE  AskedOnce(ch, new)
BY Zenon DEF SamePromises, AskedOnce

\* The channel on which the application calls, and the frame it sends.
LEMMA CalledChannel ==
    ASSUME ConnInv(conn), Reliable(conn), calls \in Nat, NEW c \in Created,
           NEW name \in ChannelFrameNames
    PROVE  LET frame == Frame_(name, c, calls + 1)
               ch == conn.channels[c]
           IN  /\ c \in Channels(conn) /\ c \in Nat \ {0} /\ IsChannel(ch, c)
               /\ Promises(ch, conn.closed) /\ conn.closed \in BOOLEAN
               /\ frame \in AFrame /\ frame \in FrameOf(c) /\ frame.name = name
               /\ TakesUntilClosed(ch, conn.closed, Taken(conn, frame))
<1> DEFINE frame == Frame_(name, c, calls + 1)
<1>1. ConnType(conn) /\ calls + 1 \in Nat /\ conn.closed \in BOOLEAN
  BY ConnFields DEF ConnInv
<1>2. /\ c \in Channels(conn) /\ c \in Nat \ {0} /\ c \in Nat
      /\ IsChannel(conn.channels[c], c)
  BY <1>1, CreatedChannels DEF Created, Channels, ConnType
<1>3. frame \in AFrame /\ frame \in FrameOf(c)
  <2>1. IsFrame(frame, c)
    BY <1>1, <1>2, OwnFrameTyped, Zenon
  <2> QED
    BY <2>1, Zenon DEF IsFrame
<1>4. frame.name = name
  BY DEF Frame_
<1> HIDE DEF frame
<1>5. TakesUntilClosed(conn.channels[c], conn.closed, Taken(conn, frame))
  BY <1>2, <1>4, ChannelFramesTaken, Zenon
<1>6. Promises(conn.channels[c], conn.closed)
  BY <1>2, Zenon DEF Reliable, Promised
<1> QED
  BY <1>1, <1>2, <1>3, <1>4, <1>5, <1>6, Zenon DEF frame

\* The frames of the methods that return a Deferred, and of the others.
LEMMA MethodNames ==
    /\ \A method \in DOMAIN RequestFrame :
          RequestFrame[method] \in AskedNames \ {"ChannelClose"}
    /\ \A method \in DOMAIN SettleFrame : PlainName(SettleFrame[method])
BY DEF RequestFrame, SettleFrame, AskedNames, PlainName, Reply

\* A method that returns a Deferred.
LEMMA CallRequestAsks ==
    ASSUME ConnInv(conn), Reliable(conn), calls \in Nat, NEW c \in Created,
           NEW method \in DOMAIN RequestFrame, CallRequest(c, method)
    PROVE  Asks(conn', conn)
<1> DEFINE name == RequestFrame[method]
           frame == Frame_(name, c, calls + 1)
           ch == conn.channels[c]
           r == Request(ch, method, frame, Taken(conn, frame))
<1>1. conn' = Give(conn, c, r)
  BY Zenon DEF CallRequest, Called
<1>2. name \in ChannelFrameNames /\ name \in AskedNames /\ name # "ChannelClose"
  BY MethodFrames, MethodNames
<1> HIDE DEF name
<1>3. /\ c \in Channels(conn) /\ c \in Nat \ {0} /\ IsChannel(ch, c)
      /\ Promises(ch, conn.closed) /\ conn.closed \in BOOLEAN
      /\ frame \in AFrame /\ frame \in FrameOf(c) /\ frame.name = name
      /\ TakesUntilClosed(ch, conn.closed, Taken(conn, frame))
  BY <1>2, CalledChannel, Zenon
<1> HIDE DEF frame
<1>4. Sends(ch, c, Taken(conn, frame), r)
  BY <1>3, TakenBoolean, RequestSends
<1>5. AskedOnce(ch, r.ch) /\ Promises(r.ch, conn.closed)
  <2>1. frame.name \in AskedNames /\ Taken(conn, frame) \in BOOLEAN
    BY <1>2, <1>3, TakenBoolean, Zenon
  <2> QED
    BY <1>2, <1>3, <2>1, RequestPromises, ZenonT(60)
<1> HIDE DEF r
<1> QED
  BY <1>1, <1>3, <1>4, <1>5, GiveAsks, Zenon

\* publish() of a channel.
LEMMA CallPublishAsks ==
    ASSUME ConnInv(conn), Reliable(conn), calls \in Nat, NEW c \in Created,
           CallPublish(c)
    PROVE  Asks(conn', conn)
<1> DEFINE name == "BasicPublish"
           id == calls + 1
           frame == Frame_(name, c, id)
           ch == conn.channels[c]
           r == Publish(ch, c, id, Taken(conn, frame))
<1>1. conn' = Give(conn, c, r)
  BY Zenon DEF CallPublish, Called
<1>2. name \in ChannelFrameNames
  BY DEF ChannelFrameNames
<1> HIDE DEF name
<1>3. /\ c \in Channels(conn) /\ c \in Nat \ {0} /\ IsChannel(ch, c)
      /\ Promises(ch, conn.closed) /\ conn.closed \in BOOLEAN
      /\ frame \in AFrame /\ frame \in FrameOf(c)
      /\ TakesUntilClosed(ch, conn.closed, Taken(conn, frame))
  BY <1>2, CalledChannel, Zenon
<1>4. id \in Nat /\ c \in Nat
  BY <1>3
<1> HIDE DEF id, frame
<1>5. Taken(conn, frame) \in BOOLEAN
  BY TakenBoolean
<1>6. Sends(ch, c, Taken(conn, frame), r)
  BY <1>3, <1>4, <1>5, PublishSends
<1>7. SamePromises(ch, r.ch) /\ Promises(r.ch, conn.closed)
  BY <1>3, <1>4, <1>5, PublishPromises, Zenon
<1> HIDE DEF r
<1>8. AskedOnce(ch, r.ch)
  BY <1>7, SameAsked, Zenon
<1> QED
  BY <1>1, <1>3, <1>6, <1>7, <1>8, GiveAsks, Zenon

\* ack() and reject()
LEMMA CallSettleAsks ==
    ASSUME ConnInv(conn), Reliable(conn), calls \in Nat, NEW c \in Created,
           NEW method \in DOMAIN SettleFrame, CallSettle(c, method)
    PROVE  Asks(conn', conn)
<1> DEFINE name == SettleFrame[method]
           frame == Frame_(name, c, calls + 1)
           ch == conn.channels[c]
           r == Send(ch, frame, Taken(conn, frame))
<1>1. conn' = Give(conn, c, r)
  BY Zenon DEF CallSettle, Called
<1>2. name \in ChannelFrameNames /\ PlainName(name)
  BY MethodFrames, MethodNames, Zenon
<1> HIDE DEF name
<1>3. /\ c \in Channels(conn) /\ c \in Nat \ {0} /\ IsChannel(ch, c)
      /\ Promises(ch, conn.closed) /\ conn.closed \in BOOLEAN
      /\ frame \in AFrame /\ frame \in FrameOf(c) /\ frame.name = name
      /\ TakesUntilClosed(ch, conn.closed, Taken(conn, frame))
  BY <1>2, CalledChannel, Zenon
<1> HIDE DEF frame
<1>4. Sends(ch, c, Taken(conn, frame), r)
  BY <1>3, TakenBoolean, SendSends
<1>5. SamePromises(ch, r.ch) /\ Promises(r.ch, conn.closed)
  <2>1. PlainName(frame.name) /\ Taken(conn, frame) \in BOOLEAN
    BY <1>2, <1>3, TakenBoolean, Zenon
  <2> QED
    BY <1>3, <2>1, SendPromises, Zenon
<1> HIDE DEF r
<1>6. AskedOnce(ch, r.ch)
  BY <1>5, SameAsked, Zenon
<1> QED
  BY <1>1, <1>3, <1>4, <1>5, <1>6, GiveAsks, Zenon

\* close() of a channel.
LEMMA CallCloseChannelAsks ==
    ASSUME ConnInv(conn), Reliable(conn), calls \in Nat, NEW c \in Created,
           CallCloseChannel(c)
    PROVE  Asks(conn', conn)
<1> DEFINE name == "ChannelClose"
           frame == Frame_(name, c, calls + 1)
           ch == conn.channels[c]
           r == CloseChannel(ch, frame, Taken(conn, frame))
<1>1. conn' = Give(conn, c, r)
  BY Zenon DEF CallCloseChannel, Called
<1>2. name \in ChannelFrameNames
  BY DEF ChannelFrameNames
<1>3. /\ c \in Channels(conn) /\ c \in Nat \ {0} /\ IsChannel(ch, c)
      /\ Promises(ch, conn.closed) /\ conn.closed \in BOOLEAN
      /\ frame \in AFrame /\ frame \in FrameOf(c) /\ frame.name = name
      /\ TakesUntilClosed(ch, conn.closed, Taken(conn, frame))
  <2> HIDE DEF name
  <2> QED
    BY <1>2, CalledChannel, Zenon
<1> HIDE DEF frame
<1>4. Sends(ch, c, Taken(conn, frame), r)
  BY <1>3, TakenBoolean, CloseChannelSends
<1>5. AskedOnce(ch, r.ch) /\ Promises(r.ch, conn.closed)
  BY <1>3, TakenBoolean, CloseChannelPromises, Zenon
<1> HIDE DEF r
<1> QED
  BY <1>1, <1>3, <1>4, <1>5, GiveAsks, Zenon

\* What the connection does quietly after a call.
LEMMA AsksThenQuietly ==
    ASSUME NEW k, ConnType(k), NEW m, Asks(m, k), NEW n, Quietly(m, n),
           Unclosed(n)
    PROVE  Asks(n, k)
<1>1. Promised(m) /\ FineFrames(m)
  BY Zenon DEF Asks, Reliable
<1>2. /\ Promised(n) /\ FineFrames(n) /\ ChannelsGrow(m, n)
      /\ Channels(n) = Channels(m) /\ Extends(m, n)
  BY <1>1, QuietlyKeeps, Zenon
<1>3. Extends(k, n)
  BY <1>2, ExtendsTwice, Zenon DEF Asks
<1>4. ChannelsGrow(k, n)
  BY <1>2, ChannelsGrowTwice, Zenon DEF Asks
<1>5. n.channels = m.channels
  BY Zenon DEF Quietly, SameChannels
<1>6. /\ \A c \in Channels(k) : AskedOnce(k.channels[c], m.channels[c])
      /\ \A c \in Channels(m) \ Channels(k) :
            m.channels[c].requests = <<>> /\ m.channels[c].outcomes = <<>>
  BY DEF Asks
<1> HIDE DEF Channels
<1> QED
  BY <1>2, <1>3, <1>4, <1>5, <1>6, Zenon DEF Asks, Reliable

\* Every channel of the connection is closed.
LEMMA ChannelsClosedAsks ==
    ASSUME NEW k, ConnInv(k), Reliable(k), ~ k.closed, NEW channels,
           NEW m, m = ChannelsClosed(k, channels),
           \A c \in Channels(k) : /\ AskedOnce(k.channels[c], channels[c])
                                  /\ Promises(channels[c], TRUE)
    PROVE  Asks(m, k) /\ m.closed
<1>1. ConnType(k)
  BY DEF ConnInv
<1>2. /\ m.state = k.state /\ m.attached = k.attached /\ m.closed = TRUE
      /\ m.nextFreeChannel = k.nextFreeChannel
      /\ m.channels = channels
      /\ m.sent = k.sent /\ m.queue = k.queue /\ m.wire = k.wire
  BY <1>1 DEF ChannelsClosed, ConnType
<1>3. Channels(m) = Channels(k)
  BY <1>2, Zenon DEF Channels
<1>4. Promised(m)
  BY <1>2, <1>3, Zenon DEF Promised
<1>5. ChannelsGrow(k, m)
  BY <1>2, <1>3 DEF ChannelsGrow
<1>6. FramesGrow(k, m, FineOf(m))
  BY <1>1, <1>2, SameGrow, Zenon
<1>7. FineFrames(m)
  <2>1. \A frame \in FineOf(m) : Fine(m, frame)
    BY DEF FineOf
  <2> QED
    BY <1>5, <1>6, <2>1, GrowsFine, Zenon DEF Grows, Reliable
<1>8. Unclosed(m)
  BY <1>2 DEF Unclosed
<1>9. Extends(k, m)
  BY <1>6, Zenon DEF FramesGrow, Extends
<1>10. \A c : c \in Channels(m) \ Channels(k) => FALSE
  BY <1>3
<1> QED
  BY <1>2, <1>4, <1>5, <1>7, <1>8, <1>9, <1>10 DEF Asks, Reliable

\* close() of the connection.
LEMMA CallCloseAsks ==
    ASSUME ConnInv(conn), Reliable(conn), calls \in Nat, CallClose
    PROVE  Asks(conn', conn)
<1> DEFINE name == "ChannelClose"
           frame(c) == Frame_(name, c, calls + 1)
           closing(c) == CloseChannel(conn.channels[c], frame(c), FALSE)
           channels == [c \in Channels(conn) |-> IF c \in conn.attached
                                                 THEN closing(c).ch
                                                 ELSE conn.channels[c]]
           k == ChannelsClosed(conn, channels)
<1>0. /\ ConnType(conn) /\ Created = Channels(conn) /\ calls + 1 \in Nat
      /\ ~ conn.closed /\ conn.closed = FALSE
  BY CreatedChannels, ConnFields DEF ConnInv, Created, CallClose
<1>1. conn' = IF k.state = "connected" /\ ~ AnyWaiting(k)
      THEN SendClose(k) ELSE k
  <2>1. k = [conn EXCEPT !.closed = TRUE,
                         !.channels = [c \in Created |-> IF c \in conn.attached
                                                         THEN closing(c).ch
                                                         ELSE conn.channels[c]]]
    BY <1>0, Zenon DEF ChannelsClosed
  <2> QED
    BY <2>1, Zenon DEF CallClose
<1>2. \A c \in Channels(conn) : channels[c] = IF c \in conn.attached
                                              THEN closing(c).ch
                                              ELSE conn.channels[c]
  BY Zenon
<1>3. channels = [c \in Channels(conn) |-> channels[c]]
  BY Zenon
<1> HIDE DEF channels
<1>4. ASSUME NEW c \in Channels(conn)
      PROVE  /\ Promises(conn.channels[c], TRUE)
             /\ Sends(conn.channels[c], c, FALSE, closing(c))
             /\ AskedOnce(conn.channels[c], closing(c).ch)
             /\ Promises(closing(c).ch, TRUE)
  <2> DEFINE ch == conn.channels[c]
             close == frame(c)
             r == closing(c)
  <2>1. name \in ChannelFrameNames /\ close.name = name
    BY DEF ChannelFrameNames, Frame_
  <2>2. /\ c \in Nat \ {0} /\ IsChannel(ch, c) /\ Promises(ch, FALSE)
        /\ close \in AFrame /\ close \in FrameOf(c)
    <3> HIDE DEF name
    <3>1. c \in Created
      BY <1>0
    <3> QED
      BY <1>0, <2>1, <3>1, CalledChannel, Zenon
  <2>3. Promises(ch, TRUE)
    BY <2>2, Later, Zenon
  <2>4. TakesUntilClosed(ch, TRUE, FALSE) /\ FALSE \in BOOLEAN /\ TRUE \in BOOLEAN
    BY DEF TakesUntilClosed
  <2> HIDE DEF frame
  <2>5. Sends(ch, c, FALSE, r)
    BY <2>2, <2>4, CloseChannelSends
  <2>6. AskedOnce(ch, r.ch) /\ Promises(r.ch, TRUE)
    BY <2>1, <2>2, <2>3, <2>4, CloseChannelPromises
  <2> QED
    BY <2>3, <2>5, <2>6
<1> HIDE DEF closing
<1>5. conn.attached \subseteq Channels(conn)
  BY <1>0, Zenon DEF ConnType
<1>6. \A c \in Channels(conn) :
        IF c \in conn.attached
        THEN \E r : channels[c] = r.ch /\ Sends(conn.channels[c], c, FALSE, r)
        ELSE channels[c] = conn.channels[c]
  BY <1>2, <1>4, Zenon
<1>7. ConnInv(k)
  BY <1>3, <1>6, ChannelsClosedKeeps
<1>8. \A c \in Channels(conn) : /\ AskedOnce(conn.channels[c], channels[c])
                                /\ Promises(channels[c], TRUE)
  <2> SUFFICES ASSUME NEW c \in Channels(conn)
               PROVE  /\ AskedOnce(conn.channels[c], channels[c])
                      /\ Promises(channels[c], TRUE)
    OBVIOUS
  <2>1. CASE c \in conn.attached
    BY <1>2, <1>4, <2>1, Zenon
  <2>2. CASE c \notin conn.attached
    <3>1. channels[c] = conn.channels[c]
      BY <1>2, <2>2, Zenon
    <3> QED
      BY <1>4, <3>1, Zenon DEF AskedOnce
  <2> QED
    BY <2>1, <2>2
<1>9. Asks(k, conn) /\ k.closed
  BY <1>0, <1>8, ChannelsClosedAsks
<1> HIDE DEF k
<1>10. CASE k.state = "connected" /\ ~ AnyWaiting(k)
  <2> DEFINE n == SendClose(k)
  <2>1. Quietly(k, n)
    BY <1>7, <1>9, SendCloseQuietly, Zenon DEF ConnInv
  <2> HIDE DEF n
  <2>2. Unclosed(n)
    BY <1>9, <2>1, Zenon DEF Unclosed, Quietly
  <2>3. conn' = n
    BY <1>1, <1>10, Zenon DEF n
  <2> QED
    BY <1>0, <1>9, <2>1, <2>2, <2>3, AsksThenQuietly, Zenon
<1>11. CASE ~ (k.state = "connected" /\ ~ AnyWaiting(k))
  BY <1>1, <1>9, <1>11, Zenon
<1> QED
  BY <1>10, <1>11

\* A channel more.
LEMMA MoreAsks ==
    ASSUME NEW k, ConnInv(k), Reliable(k), NEW c \in Nat \ {0},
           c \notin Channels(k), NEW m, Channels(m) = Channels(k) \cup {c},
           m.closed = k.closed, m.attached \subseteq k.attached \cup {c},
           \A d \in Channels(k) : m.channels[d] = k.channels[d],
           Promises(m.channels[c], k.closed),
           m.channels[c].requests = <<>>, m.channels[c].outcomes = <<>>,
           FramesGrow(k, m, FrameOf(c)), Unclosed(m)
    PROVE  Asks(m, k)
<1>1. ChannelsGrow(k, m)
  <2> HIDE DEF Channels
  <2> QED
    BY DEF ChannelsGrow
<1>2. Promised(m)
  <2> SUFFICES ASSUME NEW d \in Channels(k) \cup {c}
               PROVE  Promises(m.channels[d], k.closed)
    BY Zenon DEF Promised
  <2>1. CASE d = c
    BY <2>1, Zenon
  <2>2. CASE d \in Channels(k)
    <3>1. m.channels[d] = k.channels[d]
      BY <2>2, Zenon
    <3> QED
      BY <2>2, <3>1, Zenon DEF Reliable, Promised
  <2> HIDE DEF Channels
  <2> QED
    BY <2>1, <2>2
<1>3. \A frame \in FrameOf(c) : Fine(m, frame)
  BY ChannelFramesFine, Zenon
<1>4. FineFrames(m)
  BY <1>1, <1>3, GrowsFine, Zenon DEF Grows, Reliable
<1>5. Extends(k, m)
  BY Zenon DEF FramesGrow, Extends
<1>6. \A d \in Channels(k) : AskedOnce(k.channels[d], m.channels[d])
  BY Zenon DEF AskedOnce
<1>7. \A d \in Channels(m) \ Channels(k) : d = c
  BY DEF Channels
<1> QED
  BY <1>1, <1>2, <1>4, <1>5, <1>6, <1>7, Zenon DEF Asks, Reliable

\* A new channel owes nothing.
LEMMA NewChannelKept ==
    /\ KeptBy(NewChannel)
    /\ NewChannel.requests = <<>> /\ NewChannel.outcomes = <<>>
    /\ NewChannel.callbacks = <<>> /\ NewChannel.accepted = <<>>
    /\ NewChannel.state = "connected" /\ ~ Waiting(NewChannel)
<1>1. /\ NewChannel.requests = <<>> /\ NewChannel.outcomes = <<>>
      /\ NewChannel.callbacks = <<>> /\ NewChannel.accepted = <<>>
      /\ NewChannel.state = "connected" /\ ~ Waiting(NewChannel)
  BY DEF NewChannel, Waiting
<1>2. /\ AskedIn(<<>>) = <<>> /\ Pending(<<>>) = <<>>
  BY AskedEmpty, PendingEmpty
<1>3. IdsOf(<<>>) \o <<>> = <<>>
  <2>1. <<>> \in Seq(Settled)
    <3> HIDE DEF Settled
    <3> QED
      OBVIOUS
  <2>2. IdsOf(<<>>) \in Seq(Nat) /\ Len(IdsOf(<<>>)) = 0
    BY <2>1, IdsTyped
  <2> HIDE DEF IdsOf
  <2> QED
    BY <2>2
<1>4. Begins(<<>>, <<>>)
  BY DEF Begins
<1>5. /\ <<>> \in Seq(Deferreds) /\ <<>> \in Seq(AFrame)
      /\ <<>> \in Seq(Nat) /\ <<>> \in Seq(Settled)
      /\ \A n : n \notin 1..Len(<<>>)
  <2> HIDE DEF Deferreds, AFrame, Settled
  <2> QED
    OBVIOUS
<1>6. Kept(<<>>, <<>>, <<>>, <<>>)
  BY <1>2, <1>3, <1>4, <1>5, Zenon DEF Kept
<1> QED
  BY <1>1, <1>6, Zenon DEF KeptBy

\* A new channel whose ChannelOpen was sent owes nothing either.
LEMMA OpenedKept ==
    ASSUME NEW frame \in AFrame, frame.name = "ChannelOpen", NEW ch,
           SamePromises(NewChannel, ch), ch.accepted = <<frame>>, NEW closed
    PROVE  Promises(ch, closed)
<1> DEFINE acc == <<frame>>
<1>1. /\ ch.requests = <<>> /\ ch.outcomes = <<>> /\ ch.callbacks = <<>>
      /\ Kept(<<>>, <<>>, <<>>, <<>>) /\ ch.state = "connected"
  BY NewChannelKept, Zenon DEF SamePromises, KeptBy
<1>2. /\ acc \in Seq(AFrame) /\ Len(acc) = 1 /\ acc[1] = frame
      /\ <<>> \in Seq(AFrame) /\ acc = Append(<<>>, frame) /\ acc # <<>>
      /\ \A n : n \notin 1..Len(<<>>)
  <2> HIDE DEF AFrame
  <2> QED
    OBVIOUS
<1> HIDE DEF acc
<1>3. AskedIn(acc) = <<>>
  <2>1. "ChannelOpen" \notin AskedNames
    BY DEF AskedNames
  <2> QED
    BY <1>2, <2>1, AskedAppend, AskedEmpty, ZenonT(60)
<1>4. Begins(<<>>, <<>>)
  BY DEF Begins
<1>5. \A n \in 1..Len(acc) :
          /\ acc[n].name # "ConnectionClose"
          /\ acc[n].name = "ChannelOpen" <=> n = 1
          /\ acc[n].name = "ChannelClose" => n = Len(acc)
  BY <1>2
<1>6. \A n \in 1..Len(acc) :
          acc[n].name = "ChannelClose" => ch.state = "closing"
  BY <1>2
<1>7. Kept(<<>>, acc, <<>>, <<>>)
  BY <1>1, <1>2, <1>3, <1>4, <1>5, Zenon DEF Kept
<1>8. Owes(ch.state, Waiting(ch), closed, <<>>, acc, <<>>, <<>>)
  BY <1>2, <1>3, <1>6, Zenon DEF Owes
<1> QED
  BY <1>1, <1>7, <1>8, Zenon DEF Promises, acc

\* attach()
LEMMA AttachAsks ==
    ASSUME ConnInv(conn), Reliable(conn), Attach
    PROVE  Asks(conn', conn)
<1> DEFINE c == AddChannel(conn)
           open == Frame_("ChannelOpen", c, 0)
           r == Send(NewChannel, open, Taken(conn, open))
           known == Added(conn, c, NewChannel, conn.attached \cup {c})
           failed == Added(conn, c, ReportError(r.ch), conn.attached)
<1>0. ConnType(conn)
  BY DEF ConnInv
<1>1. c # 0 /\ Cardinality(Created) < MaxChannels
  BY DEF Attach
<1>2. conn' = IF r.ok THEN Give(known, c, r) ELSE failed
  BY Zenon DEF Attach
<1>3. c = conn.nextFreeChannel
  BY <1>0, <1>1, AddChannelIsNext
<1>4. c \in Ids
  <2>1. conn.nextFreeChannel \in 1..(MaxChannels + 1) /\ MaxChannels \in Nat
    BY <1>0, ParametersAssumption DEF ConnType
  <2>2. Created = 1..(c - 1)
    BY <1>0, <1>3, CreatedChannels DEF Created, Channels
  <2>3. Cardinality(Created) = c - 1
    <3> DEFINE n == c - 1
    <3>0. n \in Int /\ 1 \in Int /\ n >= 1 - 1
      BY <1>3, <2>1
    <3> HIDE DEF n
    <3>1. Cardinality(1..n) = IF 1 > n THEN 0 ELSE n - 1 + 1
      BY <3>0, FS_Interval
    <3> QED
      BY <2>2, <3>0, <3>1 DEF n
  <2> HIDE DEF c
  <2> QED
    BY <1>1, <1>3, <2>1, <2>3 DEF Ids
<1> HIDE DEF c
<1>5. c \in Nat \ {0} /\ c \notin Channels(conn) /\ c \in Nat
  BY <1>3, <1>4, ParametersAssumption DEF Ids, Channels
<1>6. IsChannel(NewChannel, c)
  BY NewChannelTyped
<1>7. open \in AFrame /\ open \in FrameOf(c) /\ open.name = "ChannelOpen"
  <2>1. "ChannelOpen" \in ChannelFrameNames /\ 0 \in Nat
    BY DEF ChannelFrameNames
  <2>2. IsFrame(open, c)
    BY <1>5, <2>1, OwnFrameTyped, Zenon
  <2>3. open.name = "ChannelOpen"
    BY DEF Frame_
  <2> QED
    BY <2>2, <2>3, Zenon DEF IsFrame
<1> HIDE DEF open
<1>8. Sends(NewChannel, c, Taken(conn, open), r)
  BY <1>6, <1>7, TakenBoolean, SendSends
<1>9. \/ Refused(NewChannel, Taken(conn, open), r)
      \/ Dropped(NewChannel, r)
      \/ Accepted(NewChannel, open, Taken(conn, open), r)
  BY <1>6, <1>7, TakenBoolean, SendFields
<1> HIDE DEF r
<1>10. CASE r.ok
  <2> DEFINE m == Give(known, c, r)
  <2>1. Accepted(NewChannel, open, Taken(conn, open), r)
    <3>1. ~ Refused(NewChannel, Taken(conn, open), r)
      BY <1>10 DEF Refused
    <3>2. ~ Dropped(NewChannel, r)
      BY NewChannelKept DEF Dropped
    <3> QED
      BY <1>9, <3>1, <3>2, Zenon
  <2>2. /\ Taken(conn, open) /\ SamePromises(NewChannel, r.ch)
        /\ r.ch.accepted = Append(NewChannel.accepted, open)
    BY <2>1, NewChannelKept, Zenon DEF Accepted
  <2>3. r.ch.accepted = <<open>>
    BY <2>2, NewChannelKept
  <2>4. Promises(r.ch, conn.closed)
    BY <1>7, <2>2, <2>3, OpenedKept, Zenon
  <2>5. r.ch.requests = <<>> /\ r.ch.outcomes = <<>>
    BY <2>2, NewChannelKept, Zenon DEF SamePromises
  <2>6. ConnInv(known)
        /\ HasAdded(known, conn, c, NewChannel, conn.attached \cup {c})
    BY <1>3, <1>4, <1>6, AddedKeeps
  <2> HIDE DEF known
  <2>7. /\ known.state = conn.state /\ known.closed = conn.closed
        /\ known.wire = conn.wire /\ known.sent = conn.sent
        /\ known.queue = conn.queue /\ c \in Channels(known)
        /\ known.attached = conn.attached \cup {c} /\ ConnType(known)
        /\ \A d \in Channels(conn) : d # c /\ d \in Channels(known)
           /\ known.channels[d] = conn.channels[d]
        /\ \A d \in Channels(known) : d = c \/ d \in Channels(conn)
    BY <2>6, Zenon DEF HasAdded
  <2>8. IsChannel(r.ch, c) /\ r.frames \in Seq(FrameOf(c))
    BY <1>8, Zenon DEF Sends, Leaves, KeepsOrder
  <2>9. /\ Replaced(m, known, c, r.ch, known.attached)
        /\ FramesGrow(known, m, FrameOf(c))
    BY <2>7, <2>8, GiveReplaces, Zenon
  <2> HIDE DEF m
  <2>10. FramesGrow(conn, known, FrameOf(c))
    BY <1>0, <2>7, SameGrow, Zenon
  <2>11. FramesGrow(conn, m, FrameOf(c))
    BY <1>0, <2>9, <2>10, FramesGrowTwice, Zenon
  <2>12. Channels(m) = Channels(conn) \cup {c}
    <3>1. Channels(m) = Channels(known)
      BY <2>9, Zenon DEF Replaced, Channels
    <3> HIDE DEF Channels
    <3> QED
      BY <2>7, <3>1
  <2>13. /\ m.closed = conn.closed /\ m.attached = conn.attached \cup {c}
         /\ m.state = conn.state /\ m.channels[c] = r.ch
    BY <2>7, <2>9, Zenon DEF Replaced
  <2>14. \A d \in Channels(conn) : m.channels[d] = conn.channels[d]
    <3> HIDE DEF Channels
    <3>1. \A d \in Channels(conn) : d \in Channels(known) \ {c}
      BY <2>7
    <3> QED
      BY <2>7, <2>9, <3>1, Zenon DEF Replaced
  <2>15. Unclosed(m)
    <3>1. conn.state \notin {"closing", "closed"}
      BY <2>2 DEF Taken
    <3> QED
      BY <2>13, <3>1 DEF Unclosed
  <2>16. m.attached \subseteq conn.attached \cup {c}
    BY <2>13
  <2>17. Asks(m, conn)
    BY <1>5, <2>4, <2>5, <2>11, <2>12, <2>13, <2>14, <2>15, <2>16, MoreAsks,
       Zenon
  <2>18. conn' = m
    BY <1>2, <1>10, Zenon DEF m
  <2> QED
    BY <2>17, <2>18, Zenon
<1>11. CASE ~ r.ok
  <2> DEFINE ch == ReportError(r.ch)
  <2>0. r.ch = NewChannel
    <3>1. ~ Accepted(NewChannel, open, Taken(conn, open), r) /\ ~ Dropped(NewChannel, r)
      BY <1>11 DEF Accepted, Dropped
    <3> QED
      BY <1>9, <3>1, Zenon DEF Refused
  <2>1. IsChannel(ch, c) /\ ch.state = "closed"
    BY <1>8, ReportErrorCloses DEF Sends, Leaves
  <2>2. Promises(ch, conn.closed) /\ ch.requests = <<>>
    <3>1. Failed(NewChannel, ch) /\ \A closed : Promises(ch, closed)
      BY <1>6, <2>0, NewChannelKept, ReportErrorKept
    <3> QED
      BY <3>1, NewChannelKept, Zenon DEF Failed
  <2>3. ch.outcomes = <<>>
    <3>1. ch.outcomes = <<>> \o Failures(<<>>)
      BY <2>0, NewChannelKept DEF ReportError, NewChannel
    <3>2. Failures(<<>>) = <<>>
      BY PickedEmpty, Zenon DEF Failures
    <3> QED
      BY <3>1, <3>2
  <2>4. ConnInv(failed) /\ HasAdded(failed, conn, c, ch, conn.attached)
    BY <1>3, <1>4, <2>1, AddedKeeps
  <2> HIDE DEF failed, ch
  <2>5. /\ failed.state = conn.state /\ failed.closed = conn.closed
        /\ failed.wire = conn.wire /\ failed.sent = conn.sent
        /\ failed.queue = conn.queue /\ c \in Channels(failed)
        /\ failed.attached = conn.attached
        /\ \A d \in Channels(conn) : d # c /\ d \in Channels(failed)
           /\ failed.channels[d] = conn.channels[d]
        /\ \A d \in Channels(failed) : d = c \/ d \in Channels(conn)
        /\ failed.channels[c] = ch
    BY <2>4, Zenon DEF HasAdded
  <2>6. Channels(failed) = Channels(conn) \cup {c}
    <3> HIDE DEF Channels
    <3> QED
      BY <2>5
  <2>7. FramesGrow(conn, failed, FrameOf(c))
    BY <1>0, <2>5, SameGrow, Zenon
  <2>8. Unclosed(failed)
    BY <2>5, Zenon DEF Unclosed, Reliable
  <2>9. failed.attached \subseteq conn.attached \cup {c}
    BY <2>5
  <2>10. Asks(failed, conn)
    BY <1>5, <2>2, <2>3, <2>5, <2>6, <2>7, <2>8, <2>9, MoreAsks, Zenon
  <2> QED
    BY <1>2, <1>11, <2>10, Zenon
<1> QED
  BY <1>10, <1>11

\* Every call of the application.
LEMMA ApplicationAsks ==
    ASSUME ConnInv(conn), Reliable(conn), calls \in Nat, Application
    PROVE  Asks(conn', conn)
<1>1. CASE Attach
  BY <1>1, AttachAsks
<1>2. ASSUME NEW c \in Created,
             NEW method \in Methods \cap DOMAIN RequestFrame,
             CallRequest(c, method)
      PROVE  Asks(conn', conn)
  BY <1>2, CallRequestAsks
<1>3. ASSUME NEW c \in Created, CallPublish(c)
      PROVE  Asks(conn', conn)
  BY <1>3, CallPublishAsks
<1>4. ASSUME NEW c \in Created,
             NEW method \in Methods \cap DOMAIN SettleFrame,
             CallSettle(c, method)
      PROVE  Asks(conn', conn)
  BY <1>4, CallSettleAsks
<1>5. ASSUME NEW c \in Created, CallCloseChannel(c)
      PROVE  Asks(conn', conn)
  BY <1>5, CallCloseChannelAsks
<1>6. CASE CallClose
  BY <1>6, CallCloseAsks
<1> QED
  BY <1>1, <1>2, <1>3, <1>4, <1>5, <1>6, Zenon DEF Application
----------------------------------------------------------------------------
\* THE ANSWERS ON THEIR WAY
\* The answers to requests of channel c.
Answer(c) == {f \in ToClient : f.channel = c /\ f.name \in AnswerNames}
AnswersOf(c) == [f \in Answer(c) |-> f.id]
Answers(q, c) == Len(Picked(q, AnswersOf(c)))

\* There is a number of them.
LEMMA AnswersTyped ==
    ASSUME NEW q \in Seq(ToClient), NEW c
    PROVE  Picked(q, AnswersOf(c)) \in Seq(Nat) /\ Answers(q, c) \in Nat
<1>1. DOMAIN AnswersOf(c) = Answer(c) /\ Answer(c) \subseteq ToClient
  BY DEF AnswersOf, Answer
<1>2. \A f \in Answer(c) : AnswersOf(c)[f] \in Nat
  <2>1. \A f \in Answer(c) : f.id \in Nat
    BY ServerFrame DEF Answer
  <2> QED
    BY <2>1 DEF AnswersOf
<1>3. \A f \in ToClient \cap DOMAIN AnswersOf(c) : AnswersOf(c)[f] \in Nat
  BY <1>1, <1>2, Zenon
<1> HIDE DEF ToClient
<1>4. Picked(q, AnswersOf(c)) \in Seq(Nat)
  BY <1>3, PickedType, Zenon
<1> QED
  BY <1>4 DEF Answers

\* Those of two sequences that are joined.
LEMMA AnswersConcat ==
    ASSUME NEW q \in Seq(ToClient), NEW new \in Seq(ToClient), NEW c
    PROVE  Answers(q \o new, c) = Answers(q, c) + Answers(new, c)
<1>1. Picked(q \o new, AnswersOf(c)) =
          Picked(q, AnswersOf(c)) \o Picked(new, AnswersOf(c))
  <2> HIDE DEF ToClient
  <2>1. \A g : Picked(q \o new, g) = Picked(q, g) \o Picked(new, g)
    BY PickedConcat
  <2> QED
    BY <2>1, Zenon
<1>2. /\ Picked(q, AnswersOf(c)) \in Seq(Nat)
      /\ Picked(new, AnswersOf(c)) \in Seq(Nat)
  BY AnswersTyped, Zenon
<1>3. \A s, t \in Seq(Nat) : Len(s \o t) = Len(s) + Len(t)
  OBVIOUS
<1> QED
  BY <1>1, <1>2, <1>3, Zenon DEF Answers

\* Those of one frame, and of frames that are none.
LEMMA AnswersOne ==
    ASSUME NEW x \in ToClient, NEW c
    PROVE  Answers(<<x>>, c) = IF x \in Answer(c) THEN 1 ELSE 0
<1>1. DOMAIN AnswersOf(c) = Answer(c)
  BY DEF AnswersOf
<1> HIDE DEF ToClient
<1>2. <<>> \in Seq(ToClient) /\ Append(<<>>, x) = <<x>>
  OBVIOUS
<1>3. Picked(<<x>>, AnswersOf(c)) = IF x \in Answer(c)
                                    THEN Append(<<>>, AnswersOf(c)[x])
                                    ELSE <<>>
  <2>1. Picked(Append(<<>>, x), AnswersOf(c)) =
            IF x \in DOMAIN AnswersOf(c)
            THEN Append(Picked(<<>>, AnswersOf(c)), AnswersOf(c)[x])
            ELSE Picked(<<>>, AnswersOf(c))
    BY <1>2, PickedAppend, Zenon
  <2> QED
    BY <1>1, <1>2, <2>1, PickedEmpty, Zenon
<1>4. \A y : Len(Append(<<>>, y)) = 1
  OBVIOUS
<1>5. Len(<<>>) = 0
  OBVIOUS
<1> QED
  BY <1>3, <1>4, <1>5, Zenon DEF Answers

\* No answer is among frames that are none.
LEMMA AnswersNone ==
    ASSUME NEW q \in Seq(ToClient), NEW c,
           \A n \in 1..Len(q) : q[n] \notin Answer(c)
    PROVE  Answers(q, c) = 0
<1>1. DOMAIN AnswersOf(c) = Answer(c)
  BY DEF AnswersOf
<1>2. \A n \in 1..Len(q) : q[n] \notin DOMAIN AnswersOf(c)
  BY <1>1, Zenon
<1>3. Picked(q, AnswersOf(c)) = <<>>
  BY <1>2, PickedNone, Zenon
<1>4. Len(<<>>) = 0
  OBVIOUS
<1> QED
  BY <1>3, <1>4, Zenon DEF Answers

\* A sequence is its head and its tail.
LEMMA HeadAndTail ==
    ASSUME NEW S, NEW s \in Seq(S), s # <<>>
    PROVE  /\ Head(s) \in S /\ <<Head(s)>> \in Seq(S) /\ Tail(s) \in Seq(S)
           /\ s = <<Head(s)>> \o Tail(s)
OBVIOUS

\* The answers behind the head.
LEMMA AnswersTail ==
    ASSUME NEW q \in Seq(ToClient), q # <<>>, NEW c
    PROVE  /\ Answers(q, c) = IF Head(q) \in Answer(c)
                              THEN Answers(Tail(q), c) + 1
                              ELSE Answers(Tail(q), c)
           /\ Answers(Tail(q), c) \in Nat
<1> HIDE DEF ToClient
<1>1. /\ Head(q) \in ToClient /\ <<Head(q)>> \in Seq(ToClient)
      /\ Tail(q) \in Seq(ToClient) /\ q = <<Head(q)>> \o Tail(q)
  BY HeadAndTail
<1>2. Answers(q, c) = Answers(<<Head(q)>>, c) + Answers(Tail(q), c)
  <2>1. Answers(<<Head(q)>> \o Tail(q), c) =
            Answers(<<Head(q)>>, c) + Answers(Tail(q), c)
    BY <1>1, AnswersConcat, ZenonT(60)
  <2> QED
    BY <1>1, <2>1
<1>3. Answers(<<Head(q)>>, c) = IF Head(q) \in Answer(c) THEN 1 ELSE 0
  BY <1>1, AnswersOne, Zenon
<1>4. Answers(Tail(q), c) \in Nat
  BY <1>1, AnswersTyped, Zenon
<1> QED
  BY <1>2, <1>3, <1>4

----------------------------------------------------------------------------
Is(frame, name, c) == frame.name = name /\ frame.channel = c

\* What a channel that the connection knows has had, o outcomes, and what is
\* on its way to it are covered by the p calls that the server has answered.
Covered(o, q, c, p, s) ==
    /\ o + Answers(q, c) <= p
    /\ s = "closing" => \E m \in 1..Len(q) : Is(q[m], "ChannelClose", c)
    /\ \A j \in 1..Len(q) : Is(q[j], "ChannelCloseOK", c)
        => \/ \E m \in 1..(j - 1) : Is(q[m], "ChannelClose", c)
           \/ o + Answers(q, c) + 1 <= p

\* A channel that has had less, and an answer that is due.
LEMMA CoveredHead ==
    ASSUME NEW q \in Seq(ToClient), q # <<>>, NEW o \in Nat, NEW c,
           NEW p \in Nat, NEW s, Covered(o, q, c, p, s),
           \/ Head(q) \in Answer(c) \/ Is(Head(q), "ChannelCloseOK", c)
    PROVE  o + 1 <= p
<1>1. Answers(q, c) = IF Head(q) \in Answer(c)
                      THEN Answers(Tail(q), c) + 1
                      ELSE Answers(Tail(q), c)
  BY AnswersTail, Zenon
<1>2. Answers(Tail(q), c) \in Nat
  BY AnswersTail, Zenon
<1>3. CASE Head(q) \in Answer(c)
  BY <1>1, <1>2, <1>3 DEF Covered
<1>4. CASE Is(Head(q), "ChannelCloseOK", c)
  <2> HIDE DEF ToClient
  <2>1. 1 \in 1..Len(q) /\ q[1] = Head(q)
    BY TailOf
  <2>2. 1..(1 - 1) = {}
    OBVIOUS
  <2>3. \/ \E m \in 1..(1 - 1) : Is(q[m], "ChannelClose", c)
        \/ o + Answers(q, c) + 1 <= p
    BY <1>4, <2>1, Zenon DEF Covered
  <2> QED
    BY <1>1, <1>2, <2>2, <2>3
<1> QED
  BY <1>3, <1>4

\* The frames behind one that was processed.
LEMMA CoveredTail ==
    ASSUME NEW q \in Seq(ToClient), q # <<>>, NEW o \in Nat, NEW c,
           NEW p \in Nat, NEW s, Covered(o, q, c, p, s),
           ~ Is(Head(q), "ChannelClose", c), ~ Is(Head(q), "ChannelCloseOK", c),
           NEW new \in Nat, new = o \/ (new = o + 1 /\ Head(q) \in Answer(c))
    PROVE  Covered(new, Tail(q), c, p, s)
<1> DEFINE t == Tail(q)
<1>0. /\ t \in Seq(ToClient) /\ Len(t) = Len(q) - 1 /\ Len(q) \in Nat \ {0}
      /\ \A n \in 1..(Len(q) - 1) : n + 1 \in 1..Len(q) /\ t[n] = q[n + 1]
      /\ Head(q) = q[1]
  BY TailOf
<1>1. Answers(q, c) = IF Head(q) \in Answer(c) THEN Answers(t, c) + 1
                      ELSE Answers(t, c)
  BY AnswersTail, Zenon
<1>2. Answers(t, c) \in Nat
  BY AnswersTail, Zenon
<1> HIDE DEF t, ToClient
<1>3. new + Answers(t, c) <= o + Answers(q, c)
  BY <1>1, <1>2
<1>4. ASSUME NEW m \in 1..Len(q), Is(q[m], "ChannelClose", c)
      PROVE  m - 1 \in 1..Len(t) /\ Is(t[m - 1], "ChannelClose", c)
  <2>1. m # 1
    BY <1>0, <1>4
  <2>2. m - 1 \in 1..(Len(q) - 1) /\ (m - 1) + 1 = m
    BY <1>0, <2>1
  <2>3. t[m - 1] = q[(m - 1) + 1]
    BY <1>0, <2>2
  <2> QED
    BY <1>0, <1>4, <2>2, <2>3
<1>5. s = "closing" => \E m \in 1..Len(t) : Is(t[m], "ChannelClose", c)
  BY <1>4, Zenon DEF Covered
<1>6. ASSUME NEW j \in 1..Len(t), Is(t[j], "ChannelCloseOK", c)
      PROVE  \/ \E m \in 1..(j - 1) : Is(t[m], "ChannelClose", c)
             \/ new + Answers(t, c) + 1 <= p
  <2>1. j + 1 \in 1..Len(q) /\ t[j] = q[j + 1]
    BY <1>0
  <2>2. \/ \E m \in 1..((j + 1) - 1) : Is(q[m], "ChannelClose", c)
        \/ o + Answers(q, c) + 1 <= p
    BY <1>6, <2>1, Zenon DEF Covered
  <2>3. CASE \E m \in 1..((j + 1) - 1) : Is(q[m], "ChannelClose", c)
    <3>1. PICK m \in 1..((j + 1) - 1) : Is(q[m], "ChannelClose", c)
      BY <2>3
    <3>2. m \in 1..Len(q)
      BY <1>0, <2>1
    <3>3. m - 1 \in 1..Len(t) /\ Is(t[m - 1], "ChannelClose", c)
      BY <1>4, <3>1, <3>2
    <3>4. m - 1 \in 1..(j - 1)
      BY <1>0, <3>3
    <3> QED
      BY <3>3, <3>4
  <2>4. CASE o + Answers(q, c) + 1 <= p
    BY <1>1, <1>2, <2>4, SMTT(30)
  <2> QED
    BY <2>2, <2>3, <2>4
<1>7. new + Answers(t, c) <= p
  BY <1>1, <1>2 DEF Covered
<1> QED
  BY <1>5, <1>6, <1>7, Zenon DEF Covered, t

\* More frames of the server, behind those that are on their way.
LEMMA CoveredConcat ==
    ASSUME NEW q \in Seq(ToClient), NEW new \in Seq(ToClient), NEW o \in Nat,
           NEW c, NEW p \in Nat, NEW s, Covered(o, q, c, p, s),
           NEW p2 \in Nat, NEW s2, p + Answers(new, c) <= p2,
           s2 = "closing" => \/ s = "closing"
                             \/ \E m \in 1..Len(new) : Is(new[m], "ChannelClose", c),
           \A j \in 1..Len(new) : Is(new[j], "ChannelCloseOK", c)
               => \/ \E m \in 1..Len(q) : Is(q[m], "ChannelClose", c)
                  \/ p + Answers(new, c) + 1 <= p2
    PROVE  Covered(o, q \o new, c, p2, s2)
<1> DEFINE t == q \o new
<1>0. /\ t \in Seq(ToClient) /\ Len(t) = Len(q) + Len(new)
      /\ Len(q) \in Nat /\ Len(new) \in Nat
      /\ \A n \in 1..Len(q) : t[n] = q[n]
      /\ \A n \in 1..Len(new) : t[Len(q) + n] = new[n]
      /\ \A n \in (Len(q) + 1)..(Len(q) + Len(new)) : t[n] = new[n - Len(q)]
  BY ConcatOf
<1>1. Answers(t, c) = Answers(q, c) + Answers(new, c)
  BY AnswersConcat, Zenon
<1>2. Answers(q, c) \in Nat /\ Answers(new, c) \in Nat
  BY AnswersTyped, Zenon
<1> HIDE DEF t, ToClient
<1>3. \A m \in 1..Len(q) : m \in 1..Len(t) /\ t[m] = q[m]
  BY <1>0
<1>4. \A m \in 1..Len(new) : Len(q) + m \in 1..Len(t)
                             /\ t[Len(q) + m] = new[m]
  BY <1>0, SMTT(30)
<1>5. o + Answers(t, c) <= p2
  BY <1>1, <1>2 DEF Covered
<1>6. s2 = "closing" => \E m \in 1..Len(t) : Is(t[m], "ChannelClose", c)
  <2>1. CASE s = "closing"
    BY <1>3, <2>1, Zenon DEF Covered
  <2>2. CASE \E m \in 1..Len(new) : Is(new[m], "ChannelClose", c)
    BY <1>4, <2>2, Zenon
  <2> QED
    BY <2>1, <2>2
<1>7. ASSUME NEW j \in 1..Len(t), Is(t[j], "ChannelCloseOK", c)
      PROVE  \/ \E m \in 1..(j - 1) : Is(t[m], "ChannelClose", c)
             \/ o + Answers(t, c) + 1 <= p2
  <2>1. CASE j \in 1..Len(q)
    <3>1. \/ \E m \in 1..(j - 1) : Is(q[m], "ChannelClose", c)
          \/ o + Answers(q, c) + 1 <= p
      BY <1>3, <1>7, <2>1, Zenon DEF Covered
    <3>2. \A m \in 1..(j - 1) : m \in 1..Len(q)
      BY <1>0, <2>1
    <3>3. o + Answers(q, c) + 1 <= p => o + Answers(t, c) + 1 <= p2
      BY <1>1, <1>2, SMTT(30)
    <3> QED
      BY <1>3, <3>1, <3>2, <3>3, Zenon
  <2>2. CASE j \notin 1..Len(q)
    <3>1. j \in (Len(q) + 1)..(Len(q) + Len(new)) /\ j - Len(q) \in 1..Len(new)
      BY <1>0, <2>2
    <3>2. Is(new[j - Len(q)], "ChannelCloseOK", c)
      BY <1>0, <1>7, <3>1
    <3>3. \/ \E m \in 1..Len(q) : Is(q[m], "ChannelClose", c)
          \/ p + Answers(new, c) + 1 <= p2
      BY <3>1, <3>2, Zenon
    <3>4. \A m \in 1..Len(q) : m \in 1..(j - 1)
      BY <1>0, <3>1
    <3>5. p + Answers(new, c) + 1 <= p2 => o + Answers(t, c) + 1 <= p2
      BY <1>1, <1>2, SMTT(30) DEF Covered
    <3> QED
      BY <1>3, <3>3, <3>4, <3>5, Zenon
  <2> QED
    BY <2>1, <2>2
<1> QED
  BY <1>5, <1>6, <1>7, Zenon DEF Covered, t

----------------------------------------------------------------------------
\* WHAT THE SERVER HAS READ
\* A sequence is a prefix of it and a rest.
LEMMA PrefixRest ==
    ASSUME NEW s \in Seq(AFrame), NEW t \in Seq(AFrame), IsPrefix(s, t)
    PROVE  \E u \in Seq(AFrame) : t = s \o u
<1> HIDE DEF AFrame
<1>1. Len(s) \in 0..Len(t) /\ Len(s) \in Nat
      /\ SubSeq(s, 1, Len(s)) = SubSeq(t, 1, Len(s))
  BY DEF IsPrefix
<1>2. /\ SubSeq(t, Len(s) + 1, Len(t)) \in Seq(AFrame)
      /\ t = SubSeq(t, 1, Len(s)) \o SubSeq(t, Len(s) + 1, Len(t))
  BY <1>1, CutInTwo
<1>3. SubSeq(s, 1, Len(s)) = s
  BY SubSeqFull
<1> QED
  BY <1>1, <1>2, <1>3, Zenon

\* What a sequence begins with.
LEMMA BeginsConcat ==
    ASSUME NEW S, NEW s \in Seq(S), NEW t \in Seq(S)
    PROVE  Begins(s, s \o t)
BY DEF Begins

\* Begins is an order.
LEMMA BeginsTwice ==
    ASSUME NEW S, NEW s \in Seq(S), NEW t \in Seq(S), NEW u \in Seq(S),
           Begins(s, t), Begins(t, u)
    PROVE  Begins(s, u)
<1>1. Len(s) \in Nat /\ Len(t) \in Nat /\ Len(u) \in Nat
  OBVIOUS
<1>2. \A n \in 1..Len(s) : n \in 1..Len(t)
  BY <1>1 DEF Begins
<1>3. \A n \in 1..Len(s) : s[n] = u[n]
  BY <1>2, Zenon DEF Begins
<1>4. Len(s) <= Len(u)
  BY <1>1 DEF Begins
<1> QED
  BY <1>3, <1>4 DEF Begins

\* A sequence that begins nothing is empty.
LEMMA BeginsNothing ==
    ASSUME NEW S, NEW s \in Seq(S), Begins(s, <<>>)
    PROVE  s = <<>>
BY DEF Begins

\* The frames of a channel among those of the connection.
LEMMA OfChannelTyped ==
    ASSUME NEW r \in Seq(AFrame), NEW c
    PROVE  OfChannel(r, c) \in Seq(AFrame)
<1>1. OfChannel(r, c) \in Seq(FrameOf(c))
  BY OfChannelType DEF FrameOf
<1>2. FrameOf(c) \subseteq AFrame
  BY DEF FrameOf
<1> HIDE DEF FrameOf, AFrame
<1> QED
  BY <1>1, <1>2, SeqMonotonic

\* Of what the library has sent, the server reads the first frames; of an
\* open channel they begin what it accepted, and none is of another channel.
LEMMA ReadPrefix ==
    ASSUME Inv, NEW r \in Seq(AFrame), NEW w \in Seq(AFrame),
           conn.sent = r \o w, NEW c \in Nat \ {0}
    PROVE  /\ c \in Channels(conn)
              => \E u \in Seq(AFrame) :
                    conn.channels[c].accepted = OfChannel(r, c) \o u
           /\ c \notin Channels(conn) => OfChannel(r, c) = <<>>
<1> DEFINE R == OfChannel(r, c)
           W == OfChannel(w, c)
<1>0. ConnType(conn) /\ Order(conn) /\ Created = Channels(conn)
  BY CreatedChannels DEF Inv, ConnInv, Created
<1>1. OfChannel(conn.sent, c) = R \o W
  <2>1. OfChannel(r \o w, c) = R \o W
    BY FramesConcat
  <2> QED
    BY <2>1, Zenon
<1>2. R \in Seq(AFrame) /\ W \in Seq(AFrame)
  BY OfChannelTyped
<1> HIDE DEF R, W
<1>3. ASSUME c \in Channels(conn)
      PROVE  \E u \in Seq(AFrame) : conn.channels[c].accepted = R \o u
  <2> DEFINE accepted == conn.channels[c].accepted
  <2>1. IsPrefix(R \o W, accepted)
    BY <1>0, <1>1, <1>3, InvFramesInOrder, Zenon DEF FramesInOrder
  <2>2. accepted \in Seq(AFrame)
    <3>1. IsChannel(conn.channels[c], c)
      BY <1>0, <1>3 DEF ConnType
    <3>2. accepted \in Seq(FrameOf(c))
      BY <3>1, ChannelFramesTyped
    <3>3. FrameOf(c) \subseteq AFrame
      BY DEF FrameOf
    <3> HIDE DEF FrameOf, AFrame, accepted
    <3> QED
      BY <3>2, <3>3, SeqMonotonic
  <2> HIDE DEF accepted, AFrame
  <2>3. R \o W \in Seq(AFrame)
    BY <1>2
  <2>4. PICK u \in Seq(AFrame) : accepted = (R \o W) \o u
    <3> DEFINE s == R \o W
    <3>1. s \in Seq(AFrame) /\ IsPrefix(s, accepted)
      BY <2>1, <2>3
    <3> HIDE DEF s
    <3>2. \E u \in Seq(AFrame) : accepted = s \o u
      BY <2>2, <3>1, PrefixRest
    <3> QED
      BY <3>2 DEF s
  <2>5. (R \o W) \o u = R \o (W \o u) /\ W \o u \in Seq(AFrame)
    <3>1. R \in Seq(AFrame) /\ W \in Seq(AFrame)
      BY <1>2
    <3>2. W \o u \in Seq(AFrame)
      BY <2>4, <3>1
    <3>3. (R \o W) \o u = R \o (W \o u)
      BY <2>4, <3>1, AFramesAssociative, ZenonT(60)
    <3> QED
      BY <3>2, <3>3, Zenon
  <2> QED
    BY <2>4, <2>5, Zenon DEF accepted
<1>4. ASSUME c \notin Channels(conn)
      PROVE  R = <<>>
  <2>1. c \notin conn.attached
    BY <1>0, <1>4 DEF ConnType
  <2>2. Emitted(conn, c) = <<>>
    BY <1>0, <1>4, <2>1, Zenon DEF Order, OrderOf
  <2>3. (R \o W) \o OfChannel(conn.queue, c) = <<>>
    BY <1>1, <2>2, Zenon DEF Emitted, Leaving
  <2>4. OfChannel(conn.queue, c) \in Seq(AFrame)
    <3>1. conn.queue \in Seq(AFrame)
      BY <1>0, ConnFields
    <3> QED
      BY <3>1, OfChannelTyped
  <2> DEFINE Q == OfChannel(conn.queue, c)
  <2> HIDE DEF Q, AFrame
  <2>5. Q \in Seq(AFrame) /\ (R \o W) \o Q = <<>>
    BY <2>3, <2>4 DEF Q
  <2> QED
    BY <1>2, <2>5
<1> QED
  BY <1>3, <1>4 DEF R

\* The next frame of a channel, as the server meets it.
Meets(R, x, req) ==
    /\ x.name # "ConnectionClose"
    /\ x.name = "ChannelOpen" <=> R = <<>>
    /\ R # <<>> => R[Len(R)].name # "ChannelClose"
    /\ Begins(AskedIn(Append(R, x)), req)

\* It is the next that the channel accepted.
LEMMA NextMeets ==
    ASSUME NEW cb, NEW acc, NEW req, NEW out, Kept(cb, acc, req, out),
           NEW R \in Seq(AFrame), NEW x \in AFrame, NEW u \in Seq(AFrame),
           acc = Append(R, x) \o u
    PROVE  Meets(R, x, req)
<1> DEFINE s == Append(R, x)
<1>1. /\ s \in Seq(AFrame) /\ Len(s) = Len(R) + 1 /\ Len(R) \in Nat
      /\ s[Len(R) + 1] = x /\ \A n \in 1..Len(R) : s[n] = R[n]
      /\ R # <<>> => Len(R) \in 1..Len(R)
      /\ R = <<>> <=> Len(R) = 0
  <2> HIDE DEF AFrame
  <2> QED
    OBVIOUS
<1> HIDE DEF s
<1>2. /\ Len(acc) = Len(s) + Len(u) /\ Len(u) \in Nat
      /\ \A n \in 1..Len(s) : acc[n] = s[n]
  <2> HIDE DEF AFrame
  <2>1. acc = s \o u
    BY DEF s
  <2>2. /\ Len(s \o u) = Len(s) + Len(u) /\ Len(u) \in Nat
        /\ \A n \in 1..Len(s) : (s \o u)[n] = s[n]
    <3>1. s \in Seq(AFrame)
      BY <1>1
    <3> QED
      BY <3>1, ConcatOf
  <2> QED
    BY <2>1, <2>2, Zenon
<1>3. Len(R) + 1 \in 1..Len(acc) /\ acc[Len(R) + 1] = x
  BY <1>1, <1>2
<1>4. R # <<>> => Len(R) \in 1..Len(acc) /\ acc[Len(R)] = R[Len(R)]
                  /\ Len(R) # Len(acc)
  BY <1>1, <1>2
<1>5. \A n \in 1..Len(acc) :
          /\ acc[n].name # "ConnectionClose"
          /\ acc[n].name = "ChannelOpen" <=> n = 1
          /\ acc[n].name = "ChannelClose" => n = Len(acc)
  BY Zenon DEF Kept
<1>6. x.name # "ConnectionClose" /\ (x.name = "ChannelOpen" <=> R = <<>>)
  BY <1>1, <1>3, <1>5
<1>7. R # <<>> => R[Len(R)].name # "ChannelClose"
  BY <1>4, <1>5, Zenon
<1>8. Begins(AskedIn(s), req)
  <2>1. AskedIn(acc) = AskedIn(s) \o AskedIn(u)
    <3>1. AskedIn(s \o u) = AskedIn(s) \o AskedIn(u)
      BY <1>1, AskedConcat
    <3> QED
      BY <3>1 DEF s
  <2>2. AskedIn(s) \in Seq(Nat) /\ AskedIn(u) \in Seq(Nat)
    BY <1>1, AskedTyped
  <2>3. Begins(AskedIn(s), AskedIn(acc))
    <3>1. Begins(AskedIn(s), AskedIn(s) \o AskedIn(u))
      BY <2>2, BeginsConcat
    <3> QED
      BY <2>1, <3>1
  <2>4. Begins(AskedIn(acc), req) /\ req \in Seq(Nat) /\ acc \in Seq(AFrame)
    BY DEF Kept
  <2>5. AskedIn(acc) \in Seq(Nat)
    BY <2>4, AskedTyped
  <2> QED
    BY <2>2, <2>3, <2>4, <2>5, BeginsTwice
<1> QED
  BY <1>6, <1>7, <1>8, Zenon DEF Meets, s

----------------------------------------------------------------------------
\* THE INVARIANT
\* What the server has read of a channel and carried out of it.
Reads(R, p, s, over, attached) ==
    /\ Begins(p, AskedIn(R))
    /\ s = "open" /\ ~ over => p = AskedIn(R)
    /\ attached /\ ~ over /\ s = "closed"
       => R = <<>> \/ R[Len(R)].name = "ChannelClose"

HasRead(k, r, p, s, over) ==
    /\ r \in Seq(AFrame) /\ k.sent = r \o k.wire
    /\ \A c \in Ids : Reads(OfChannel(r, c), p[c], s[c], over, c \in k.attached)

Unmade(k, p, s) == \A c \in Ids \ Channels(k) : s[c] = "closed" /\ p[c] = <<>>

Answering(k, q, p, s) ==
    \A c \in k.attached :
        Covered(Len(k.channels[c].outcomes), q, c, Len(p[c]), s[c])

Addressed(k, q) ==
    \A n \in 1..Len(q) : /\ q[n].channel \in Channels(k) \cup {0}
                         /\ q[n].name = "ConnectionCloseOK" => k.closed
                         /\ q[n].name = "ChannelClose" => q[n].channel # 0

RequestInv ==
    /\ Inv /\ Reliable(conn) /\ performed \in [Ids -> Seq(Nat)]
    /\ \E r : HasRead(conn, r, performed, server, gone)
    /\ Unmade(conn, performed, server)
    /\ Answering(conn, toClient, performed, server)
    /\ Addressed(conn, toClient)

\* The invariant of the next state, part by part.
LEMMA RequestInvNext ==
    ASSUME Inv', Reliable(conn'), performed' \in [Ids -> Seq(Nat)],
           \E r : HasRead(conn', r, performed', server', gone'),
           Unmade(conn', performed', server'),
           Answering(conn', toClient', performed', server'),
           Addressed(conn', toClient')
    PROVE  RequestInv'
BY Zenon DEF RequestInv

\* A channel of the connection and what its types are.
LEMMA ChannelTyped ==
    ASSUME RequestInv, NEW c \in Channels(conn)
    PROVE  /\ c \in Ids /\ c \in Nat \ {0} /\ IsChannel(conn.channels[c], c)
           /\ Promises(conn.channels[c], conn.closed)
           /\ KeptBy(conn.channels[c])
           /\ performed[c] \in Seq(Nat) /\ Len(performed[c]) \in Nat
<1>1. ConnType(conn) /\ Promised(conn)
  BY Zenon DEF RequestInv, Inv, ConnInv, Reliable
<1>2. conn.nextFreeChannel \in 1..(MaxChannels + 1)
  BY <1>1, ConnFields
<1>3. c \in Ids /\ c \in Nat \ {0}
  BY <1>2, ParametersAssumption DEF Channels, Ids
<1>4. IsChannel(conn.channels[c], c)
  BY <1>1 DEF ConnType
<1>5. Promises(conn.channels[c], conn.closed)
  BY <1>1, Zenon DEF Promised
<1>6. KeptBy(conn.channels[c])
  BY <1>5, Zenon DEF Promises, KeptBy
<1>7. performed \in [Ids -> Seq(Nat)]
  BY Zenon DEF RequestInv
<1>8. performed[c] \in Seq(Nat)
  BY <1>3, <1>7
<1> QED
  BY <1>3, <1>4, <1>5, <1>6, <1>8

\* What the server has carried out begins what the channel was asked for.
LEMMA PerformedAsked ==
    ASSUME RequestInv, NEW c \in Channels(conn)
    PROVE  LET ch == conn.channels[c]
           IN  /\ AskedIn(ch.accepted) \in Seq(Nat) /\ ch.requests \in Seq(Nat)
               /\ Begins(performed[c], AskedIn(ch.accepted))
               /\ Begins(AskedIn(ch.accepted), ch.requests)
<1> DEFINE ch == conn.channels[c]
<1>1. c \in Ids /\ c \in Nat \ {0} /\ KeptBy(ch) /\ performed[c] \in Seq(Nat)
  BY ChannelTyped, Zenon
<1>2. PICK r : HasRead(conn, r, performed, server, gone)
  BY Zenon DEF RequestInv
<1>3. /\ r \in Seq(AFrame) /\ conn.sent = r \o conn.wire
      /\ Begins(performed[c], AskedIn(OfChannel(r, c)))
  BY <1>1, <1>2, Zenon DEF HasRead, Reads
<1>4. Inv /\ conn.wire \in Seq(AFrame)
  <2>1. Inv /\ ConnType(conn)
    BY Zenon DEF RequestInv, Inv, ConnInv
  <2> QED
    BY <2>1, ConnFields
<1>5. PICK u \in Seq(AFrame) : ch.accepted = OfChannel(r, c) \o u
  BY <1>1, <1>3, <1>4, ReadPrefix, Zenon
<1>6. /\ AskedIn(ch.accepted) \in Seq(Nat) /\ ch.requests \in Seq(Nat)
      /\ Begins(AskedIn(ch.accepted), ch.requests)
  <2> HIDE DEF ch
  <2>1. Kept(ch.callbacks, ch.accepted, ch.requests, ch.outcomes)
    BY <1>1, Zenon DEF KeptBy
  <2> QED
    BY <2>1, KeptTypes, Zenon DEF Kept
<1> HIDE DEF ch
<1> DEFINE R == OfChannel(r, c)
<1>7. R \in Seq(AFrame)
  BY <1>3, OfChannelTyped
<1>8. Begins(performed[c], AskedIn(R)) /\ ch.accepted = R \o u
  BY <1>3, <1>5
<1> HIDE DEF R
<1>9. AskedIn(R \o u) = AskedIn(R) \o AskedIn(u)
  BY <1>7, AskedConcat
<1>10. AskedIn(R) \in Seq(Nat) /\ AskedIn(u) \in Seq(Nat)
  BY <1>7, AskedTyped
<1>11. Begins(AskedIn(R), AskedIn(R) \o AskedIn(u))
  BY <1>10, BeginsConcat
<1>12. Begins(AskedIn(R), AskedIn(ch.accepted))
  BY <1>8, <1>9, <1>11, Zenon
<1>13. Begins(performed[c], AskedIn(ch.accepted))
  BY <1>1, <1>6, <1>8, <1>10, <1>12, BeginsTwice
<1> QED
  BY <1>6, <1>13 DEF ch

\* An answer to a channel is owed one of the calls the server has carried out.
LEMMA HeadCovered ==
    ASSUME RequestInv, toClient # <<>>, NEW c \in conn.attached
    PROVE  LET ch == conn.channels[c]
               out == ch.outcomes
           IN  /\ c \in Channels(conn) /\ out \in Seq(Settled)
               /\ Len(out) \in Nat /\ Len(performed[c]) \in Nat
               /\ Len(out) <= Len(performed[c])
               /\ \/ Head(toClient) \in Answer(c)
                  \/ Is(Head(toClient), "ChannelCloseOK", c)
                  => /\ Len(out) + 1 <= Len(performed[c])
                     /\ NextSucceeds(ch)
<1> DEFINE ch == conn.channels[c]
           out == ch.outcomes
           p == Len(performed[c])
<1>0. ConnType(conn) /\ Order(conn) /\ toClient \in Seq(ToClient)
  BY Zenon DEF RequestInv, Inv, ConnInv, ServerType
<1>1. c \in Channels(conn)
  BY <1>0 DEF ConnType
<1>2. /\ c \in Nat \ {0} /\ KeptBy(ch) /\ p \in Nat
      /\ Promises(ch, conn.closed) /\ performed[c] \in Seq(Nat)
  BY <1>1, ChannelTyped, Zenon
<1>3. ch.state # "closed"
  BY <1>0, <1>2, Zenon DEF Order, OrderOf
<1>4. /\ AskedIn(ch.accepted) \in Seq(Nat)
      /\ Begins(performed[c], AskedIn(ch.accepted))
  BY <1>1, PerformedAsked, Zenon
<1>5. Covered(Len(out), toClient, c, p, server[c])
  BY Zenon DEF RequestInv, Answering
<1> HIDE DEF ch
<1>6. out \in Seq(Settled) /\ Len(out) \in Nat
  <2>1. Kept(ch.callbacks, ch.accepted, ch.requests, out)
    BY <1>2, Zenon DEF KeptBy
  <2> HIDE DEF out
  <2> QED
    BY <2>1, KeptTypes, Zenon
<1> HIDE DEF out, p
<1>7. Len(out) <= p
  <2>1. Answers(toClient, c) \in Nat
    BY <1>0, AnswersTyped, Zenon
  <2> QED
    BY <1>2, <1>5, <1>6, <2>1 DEF Covered
<1>8. ASSUME \/ Head(toClient) \in Answer(c)
             \/ Is(Head(toClient), "ChannelCloseOK", c)
      PROVE  Len(out) + 1 <= p /\ NextSucceeds(ch)
  <2>1. Len(out) + 1 <= p
    BY <1>0, <1>2, <1>5, <1>6, <1>8, CoveredHead, Zenon
  <2>2. p <= Len(AskedIn(ch.accepted)) /\ Len(AskedIn(ch.accepted)) \in Nat
    BY <1>4 DEF Begins, p
  <2>3. Len(ch.outcomes) + 1 <= Len(AskedIn(ch.accepted))
    <3>1. Len(out) + 1 <= Len(AskedIn(ch.accepted))
      BY <1>2, <1>6, <2>1, <2>2
    <3> QED
      BY <3>1 DEF out
  <2> QED
    BY <1>2, <1>3, <2>1, <2>3, AnsweredSucceeds, Zenon
<1> QED
  BY <1>1, <1>2, <1>6, <1>7, <1>8, Zenon DEF ch, out, p

\* The frame that parse() processes is due.
LEMMA HeadDue ==
    ASSUME RequestInv, toClient # <<>>
    PROVE  LET frame == Head(toClient)
           IN  /\ frame \in ToClient /\ Answerable(conn, frame)
               /\ frame.name = "ConnectionCloseOK" => conn.closed
               /\ frame.channel \in Channels(conn) \cup {0}
               /\ frame.name = "ChannelClose"
                  => frame.channel \in Channels(conn)
<1> DEFINE frame == Head(toClient)
<1>0. toClient \in Seq(ToClient) /\ Addressed(conn, toClient)
  BY Zenon DEF RequestInv, Inv, ServerType
<1>1. frame \in ToClient /\ frame = toClient[1] /\ 1 \in 1..Len(toClient)
  <2> HIDE DEF ToClient
  <2> QED
    BY <1>0, TailOf
<1>2. /\ frame.channel \in Channels(conn) \cup {0}
      /\ frame.name = "ConnectionCloseOK" => conn.closed
      /\ frame.name = "ChannelClose" => frame.channel # 0
  BY <1>0, <1>1, Zenon DEF Addressed
<1>3. Answerable(conn, frame)
  <2> SUFFICES ASSUME frame.channel \in conn.attached,
                      frame.name \in AnswerNames \cup {"ChannelCloseOK"}
               PROVE  NextSucceeds(conn.channels[frame.channel])
    BY Zenon DEF Answerable
  <2>1. \/ frame \in Answer(frame.channel)
        \/ Is(frame, "ChannelCloseOK", frame.channel)
    BY <1>1 DEF Answer, Is
  <2> QED
    BY <2>1, HeadCovered, Zenon
<1> QED
  BY <1>1, <1>2, <1>3

----------------------------------------------------------------------------
\* PARSE
\* What parse() makes of a frame.
LEMMA FrameHandled ==
    ASSUME RequestInv, ParseFrame
    PROVE  toClient # <<>> /\ Handled(conn', conn, Head(toClient))
<1> DEFINE frame == Head(toClient)
           k == Process(conn, frame)
<1>0. Inv /\ ConnInv(conn) /\ ConnType(conn) /\ Reliable(conn)
  BY Zenon DEF RequestInv, Inv, ConnInv
<1>1. toClient # <<>> /\ frame \in ToClient
  BY <1>0, FrameProcessed
<1>2. /\ toClient \in Seq(ToClient) /\ batch \in 0..Len(toClient) /\ batch > 0
  BY <1>0 DEF Inv, ServerType, ParseFrame
<1>3. frame = toClient[1] /\ 1 \in 1..Len(toClient)
  <2> HIDE DEF ToClient
  <2> QED
    BY <1>1, <1>2, TailOf
<1>4. conn.state \in Early => frame.channel = 0
  BY <1>0, <1>3, InvParts, Zenon DEF Zero
<1>5. conn.state = "closed" => frame.name = "ConnectionCloseOK"
  <2>1. batch # 0
    BY <1>2
  <2> QED
    BY <1>0, <1>3, <2>1, InvParts, Zenon DEF AllOK
<1>6. /\ Answerable(conn, frame)
      /\ frame.name = "ConnectionCloseOK" => conn.closed
      /\ frame.name = "ChannelClose" => frame.channel \in Channels(conn)
  BY <1>1, HeadDue, Zenon
<1>7. conn' = IF batch = 1 /\ ~ partial THEN EndOfParse(k) ELSE k
  BY Zenon DEF ParseFrame
<1> HIDE DEF frame
<1>8. Handled(k, conn, frame)
  BY <1>0, <1>1, <1>4, <1>5, <1>6, ProcessHandled
<1>9. ConnType(k)
  <2>1. Processed(k, conn, frame)
    BY <1>0, <1>1, <1>4, <1>5, ProcessKeeps
  <2> QED
    BY <2>1, Zenon DEF Processed, ConnInv
<1> HIDE DEF k
<1>10. Handled(EndOfParse(k), conn, frame)
  BY <1>0, <1>8, <1>9, EndOfParseHandled, Zenon
<1> QED
  BY <1>1, <1>7, <1>8, <1>10, Zenon DEF frame

\* More frames of the library leave what the server has read as it is.
LEMMA HasReadExtends ==
    ASSUME NEW k, ConnType(k), NEW m, Extends(k, m), NEW r, NEW p, NEW s,
           NEW over, HasRead(k, r, p, s, over),
           \A c \in Ids : c \in m.attached => \/ c \in k.attached
                                              \/ OfChannel(r, c) = <<>>
    PROVE  HasRead(m, r, p, s, over)
<1>1. k.wire \in Seq(AFrame)
  BY ConnFields
<1>2. PICK x \in Seq(AFrame) : m.wire = k.wire \o x /\ m.sent = k.sent \o x
  BY Zenon DEF Extends
<1>3. r \in Seq(AFrame) /\ k.sent = r \o k.wire
  BY Zenon DEF HasRead
<1>4. m.sent = r \o m.wire
  <2> HIDE DEF AFrame
  <2>1. \A a, b, c \in Seq(AFrame) : (a \o b) \o c = a \o (b \o c)
    BY AFramesAssociative, Zenon
  <2>2. (r \o k.wire) \o x = r \o (k.wire \o x)
    BY <1>1, <1>3, <2>1, Zenon
  <2> QED
    BY <1>2, <1>3, <2>2
<1>5. ASSUME NEW c \in Ids
      PROVE  Reads(OfChannel(r, c), p[c], s[c], over, c \in m.attached)
  <2>1. Reads(OfChannel(r, c), p[c], s[c], over, c \in k.attached)
    BY Zenon DEF HasRead
  <2> QED
    BY <2>1, Zenon DEF Reads
<1> QED
  BY <1>3, <1>4, <1>5, Zenon DEF HasRead

\* What a channel has had when it is still of the connection.
LEMMA AttachedSettles ==
    ASSUME NEW k, NEW m, NEW frame \in ToClient, NEW c \in m.attached,
           Settles(k, m, frame, c), Len(k.channels[c].outcomes) \in Nat
    PROVE  LET o == Len(k.channels[c].outcomes)
               new == Len(m.channels[c].outcomes)
           IN  new \in Nat /\ (new = o \/ (new = o + 1 /\ frame \in Answer(c)))
<1>1. \/ SettlesNothing(k.channels[c], m.channels[c])
      \/ /\ Succeeded(k.channels[c], m.channels[c])
         /\ frame.channel = c /\ frame.name \in AnswerNames
  BY Zenon DEF Settles
<1>2. CASE SettlesNothing(k.channels[c], m.channels[c])
  BY <1>2 DEF SettlesNothing
<1>3. CASE /\ Succeeded(k.channels[c], m.channels[c])
           /\ frame.channel = c /\ frame.name \in AnswerNames
  <2>1. frame \in Answer(c)
    BY <1>3 DEF Answer
  <2>2. \/ m.channels[c].outcomes = k.channels[c].outcomes
        \/ Len(m.channels[c].outcomes) = Len(k.channels[c].outcomes) + 1
    BY <1>3, Zenon DEF Succeeded
  <2> QED
    BY <2>1, <2>2, SMTT(30)
<1> QED
  BY <1>1, <1>2, <1>3

\* parse() processes a frame.
LEMMA ParseFrameRequestInv ==
    ASSUME RequestInv, ParseFrame
    PROVE  RequestInv'
<1> DEFINE frame == Head(toClient)
<1>0. /\ Inv /\ ConnType(conn) /\ toClient \in Seq(ToClient)
      /\ Reliable(conn) /\ performed \in [Ids -> Seq(Nat)]
      /\ Unmade(conn, performed, server)
      /\ Answering(conn, toClient, performed, server)
      /\ Addressed(conn, toClient)
  BY Zenon DEF RequestInv, Inv, ConnInv, ServerType
<1>1. /\ toClient' = Tail(toClient) /\ server' = server /\ gone' = gone
      /\ performed' = performed
  BY Zenon DEF ParseFrame, serverVars
<1>2. toClient # <<>> /\ frame \in ToClient /\ Handled(conn', conn, frame)
  BY <1>0, FrameHandled, HeadDue, Zenon
<1>3. Inv'
  BY <1>0, ParseFrameInv
<1>4. /\ Reliable(conn') /\ Extends(conn, conn')
      /\ Channels(conn') = Channels(conn) /\ ChannelsGrow(conn, conn')
      /\ \A c \in Channels(conn) : Settles(conn, conn', frame, c)
      /\ frame.name \in {"ChannelClose", "ChannelCloseOK"}
         => frame.channel \notin conn'.attached
  BY <1>2, Zenon DEF Handled
<1>5. ConnType(conn') /\ conn'.attached \subseteq Channels(conn')
      /\ conn.attached \subseteq Channels(conn)
  <2>1. ConnType(conn')
    BY <1>3, InvPartsNext, Zenon DEF ConnInv
  <2> QED
    BY <1>0, <2>1 DEF ConnType
<1>6. \A c \in conn'.attached : c \in conn.attached
  BY <1>4, <1>5, Zenon DEF ChannelsGrow
<1>7. PICK r : HasRead(conn, r, performed, server, gone)
  BY Zenon DEF RequestInv
<1>8. HasRead(conn', r, performed', server', gone')
  <2>1. HasRead(conn', r, performed, server, gone)
    BY <1>0, <1>4, <1>6, <1>7, HasReadExtends, Zenon
  <2> QED
    BY <1>1, <2>1, Zenon
<1>9. Unmade(conn', performed', server')
  BY <1>0, <1>1, <1>4, Zenon DEF Unmade
<1>10. Answering(conn', toClient', performed', server')
  <2> SUFFICES ASSUME NEW c \in conn'.attached
               PROVE  Covered(Len(conn'.channels[c].outcomes), toClient', c,
                              Len(performed'[c]), server'[c])
    BY Zenon DEF Answering
  <2>1. c \in conn.attached /\ c \in Channels(conn)
    BY <1>4, <1>5, <1>6
  <2>2. Covered(Len(conn.channels[c].outcomes), toClient, c,
                Len(performed[c]), server[c])
    BY <1>0, <2>1, Zenon DEF Answering
  <2>3. Len(conn.channels[c].outcomes) \in Nat /\ Len(performed[c]) \in Nat
    BY <1>2, <2>1, HeadCovered, Zenon
  <2>4. Settles(conn, conn', frame, c)
    BY <1>4, <2>1, Zenon
  <2>5. ~ Is(frame, "ChannelClose", c) /\ ~ Is(frame, "ChannelCloseOK", c)
    BY <1>4 DEF Is
  <2> DEFINE o == Len(conn.channels[c].outcomes)
             new == Len(conn'.channels[c].outcomes)
  <2>6. new \in Nat /\ (new = o \/ (new = o + 1 /\ frame \in Answer(c)))
    BY <1>2, <2>3, <2>4, AttachedSettles
  <2> HIDE DEF new, o
  <2>7. o \in Nat /\ Covered(o, toClient, c, Len(performed[c]), server[c])
    BY <2>2, <2>3 DEF o
  <2>8. Covered(new, Tail(toClient), c, Len(performed[c]), server[c])
    BY <1>0, <1>2, <2>3, <2>5, <2>6, <2>7, CoveredTail, Zenon
  <2> QED
    BY <1>1, <2>8, Zenon DEF new
<1>11. Addressed(conn', toClient')
  <2>1. /\ \A n \in 1..Len(Tail(toClient)) :
              n + 1 \in 1..Len(toClient) /\ Tail(toClient)[n] = toClient[n + 1]
    <3> HIDE DEF ToClient
    <3>1. /\ Len(Tail(toClient)) = Len(toClient) - 1
          /\ \A n \in 1..(Len(toClient) - 1) : n + 1 \in 1..Len(toClient)
                /\ Tail(toClient)[n] = toClient[n + 1]
      BY <1>0, <1>2, TailOf
    <3> QED
      BY <3>1
  <2>2. conn.closed => conn'.closed
    BY <1>4, Zenon DEF ChannelsGrow
  <2> QED
    BY <1>0, <1>1, <1>4, <2>1, <2>2, ZenonT(60) DEF Addressed
<1> QED
  BY <1>0, <1>1, <1>3, <1>4, <1>8, <1>9, <1>10, <1>11, RequestInvNext, Zenon

----------------------------------------------------------------------------
\* THE APPLICATION'S STEPS
\* It leaves everything but the connection as it is.
LEMMA ApplicationLeaves ==
    ASSUME Application
    PROVE  /\ toClient' = toClient /\ server' = server /\ gone' = gone
           /\ performed' = performed /\ delivered' = delivered
<1>1. UNCHANGED <<toClient, batch, partial, serverVars>>
  BY Zenon DEF Application, Attach, CallRequest, CallPublish, CallSettle,
     CallCloseChannel, CallClose, Called
<1> QED
  BY <1>1 DEF serverVars

\* Nothing is on its way to a channel that is new.
LEMMA NewCovered ==
    ASSUME NEW q \in Seq(ToClient), NEW c,
           \A n \in 1..Len(q) : q[n].channel # c
    PROVE  Covered(0, q, c, 0, "closed")
<1>1. \A n \in 1..Len(q) : q[n] \notin Answer(c) /\ ~ Is(q[n], "ChannelCloseOK", c)
  BY Zenon DEF Answer, Is
<1>2. Answers(q, c) = 0
  BY <1>1, AnswersNone, Zenon
<1> QED
  BY <1>1, <1>2 DEF Covered

\* A call of the application.
LEMMA ApplicationRequestInv ==
    ASSUME RequestInv, Application
    PROVE  RequestInv'
<1>0. /\ Inv /\ ConnInv(conn) /\ ConnType(conn) /\ toClient \in Seq(ToClient)
      /\ Reliable(conn) /\ performed \in [Ids -> Seq(Nat)] /\ calls \in Nat
      /\ Unmade(conn, performed, server)
      /\ Answering(conn, toClient, performed, server)
      /\ Addressed(conn, toClient)
  BY Zenon DEF RequestInv, Inv, ConnInv, ServerType
<1>1. /\ toClient' = toClient /\ server' = server /\ gone' = gone
      /\ performed' = performed
  BY ApplicationLeaves
<1>2. Asks(conn', conn)
  BY <1>0, ApplicationAsks
<1>3. Inv'
  BY <1>0, ApplicationInv
<1>4. /\ Reliable(conn') /\ Extends(conn, conn') /\ ChannelsGrow(conn, conn')
      /\ \A c \in Channels(conn) : AskedOnce(conn.channels[c], conn'.channels[c])
      /\ \A c \in Channels(conn') \ Channels(conn) :
            conn'.channels[c].requests = <<>> /\ conn'.channels[c].outcomes = <<>>
  BY <1>2, Zenon DEF Asks
<1>5. /\ ConnType(conn') /\ conn'.attached \subseteq Channels(conn')
      /\ \A c \in Channels(conn') : c \in Ids /\ c \in Nat \ {0}
  <2>1. ConnType(conn')
    BY <1>3, InvPartsNext, Zenon DEF ConnInv
  <2>2. conn'.nextFreeChannel \in 1..(MaxChannels + 1)
    BY <2>1, ConnFields
  <2>3. \A c \in Channels(conn') : c \in Ids /\ c \in Nat \ {0}
    BY <2>2, ParametersAssumption DEF Channels, Ids
  <2> QED
    BY <2>1, <2>3 DEF ConnType
<1>6. \A c \in Channels(conn) : /\ c \in Channels(conn')
                                /\ c \in conn'.attached => c \in conn.attached
  BY <1>4, Zenon DEF ChannelsGrow
<1>7. PICK r : HasRead(conn, r, performed, server, gone)
  BY Zenon DEF RequestInv
<1>8. HasRead(conn', r, performed', server', gone')
  <2>1. r \in Seq(AFrame) /\ conn.sent = r \o conn.wire
    BY <1>7, Zenon DEF HasRead
  <2>2. conn.wire \in Seq(AFrame)
    BY <1>0, ConnFields
  <2>3. \A c \in Ids : c \in conn'.attached => \/ c \in conn.attached
                                               \/ OfChannel(r, c) = <<>>
    <3> SUFFICES ASSUME NEW c \in conn'.attached, c \notin Channels(conn)
                 PROVE  OfChannel(r, c) = <<>>
      BY <1>6, Zenon
    <3>1. c \in Nat \ {0}
      BY <1>5
    <3> QED
      BY <1>0, <2>1, <2>2, <3>1, ReadPrefix, Zenon
  <2>4. HasRead(conn', r, performed, server, gone)
    BY <1>0, <1>4, <1>7, <2>3, HasReadExtends, Zenon
  <2> QED
    BY <1>1, <2>4, Zenon
<1>9. Unmade(conn', performed', server')
  BY <1>0, <1>1, <1>6, Zenon DEF Unmade
<1>10. Answering(conn', toClient', performed', server')
  <2> SUFFICES ASSUME NEW c \in conn'.attached
               PROVE  Covered(Len(conn'.channels[c].outcomes), toClient, c,
                              Len(performed[c]), server[c])
    BY <1>1, Zenon DEF Answering
  <2>1. CASE c \in Channels(conn)
    <3>1. c \in conn.attached
      BY <1>6, <2>1
    <3>2. Covered(Len(conn.channels[c].outcomes), toClient, c,
                  Len(performed[c]), server[c])
      BY <1>0, <3>1, Zenon DEF Answering
    <3>3. conn'.channels[c].outcomes = conn.channels[c].outcomes
      BY <1>4, <2>1, Zenon DEF AskedOnce
    <3> QED
      BY <3>2, <3>3, Zenon
  <2>2. CASE c \notin Channels(conn)
    <3>1. c \in Ids /\ c \in Nat \ {0} /\ conn'.channels[c].outcomes = <<>>
      BY <1>4, <1>5, <2>2
    <3>2. server[c] = "closed" /\ performed[c] = <<>>
      BY <1>0, <2>2, <3>1, Zenon DEF Unmade
    <3>3. \A n \in 1..Len(toClient) : toClient[n].channel # c
      <4>1. c # 0
        BY <3>1
      <4>2. \A x : x \in Channels(conn) \cup {0} => x # c
        BY <2>2, <4>1
      <4> QED
        BY <1>0, <4>2, Zenon DEF Addressed
    <3>4. Covered(0, toClient, c, 0, "closed")
      BY <1>0, <3>3, NewCovered, Zenon
    <3>5. Len(<<>>) = 0
      OBVIOUS
    <3> QED
      BY <3>1, <3>2, <3>4, <3>5, Zenon
  <2> QED
    BY <2>1, <2>2
<1>11. Addressed(conn', toClient')
  <2>1. conn.closed => conn'.closed
    BY <1>4, Zenon DEF ChannelsGrow
  <2>2. \A x : x \in Channels(conn) \cup {0} => x \in Channels(conn') \cup {0}
    BY <1>6
  <2> QED
    BY <1>0, <1>1, <2>1, <2>2, Zenon DEF Addressed
<1> QED
  BY <1>0, <1>1, <1>3, <1>4, <1>8, <1>9, <1>10, <1>11, RequestInvNext, Zenon

\* parse() is given a buffer, or nothing happens.
LEMMA UnchangedRequestInv ==
    ASSUME RequestInv, Inv', UNCHANGED <<conn, toClient, server, gone, performed>>
    PROVE  RequestInv'
<1>1. /\ conn' = conn /\ toClient' = toClient /\ server' = server
      /\ gone' = gone /\ performed' = performed
  OBVIOUS
<1> QED
  BY <1>1, RequestInvNext, Zenon DEF RequestInv

\* Before the first frame.
LEMMA InitRequestInv ==
    ASSUME Init
    PROVE  RequestInv
<1>1. Inv
  BY InitInv
<1>2. /\ toClient = <<>> /\ gone = FALSE
      /\ performed = [c \in Ids |-> <<>>]
      /\ server = [c \in Ids \cup {0} |-> IF c = 0 THEN "open" ELSE "closed"]
  BY DEF Init
<1> DEFINE header == Frame_("ProtocolHeader", 0, 0)
           frames == <<header>>
<1>3. header \in AFrame /\ header.name = "ProtocolHeader"
  BY OwnFramesTyped DEF Frame_
<1>4. frames \in Seq(AFrame) /\ <<>> \o frames = frames
      /\ <<>> \in Seq(AFrame)
  <2> HIDE DEF AFrame, header
  <2> QED
    BY <1>3
<1>5. /\ conn.state = "protocol" /\ conn.attached = {} /\ conn.queue = <<>>
      /\ conn.wire = frames /\ conn.sent = frames
      /\ conn.nextFreeChannel = 1 /\ conn.closed = FALSE
  <2> DEFINE k == [state |-> "protocol", closed |-> FALSE, channels |-> <<>>,
                   attached |-> {}, nextFreeChannel |-> 1, maxChannels |-> 0,
                   queue |-> <<>>, wire |-> <<>>, sent |-> <<>>,
                   told |-> <<>>]
  <2>1. conn = OnData(k, frames)
    BY Zenon DEF Init
  <2>2. k.wire = <<>> /\ k.sent = <<>>
    OBVIOUS
  <2>3. conn = [k EXCEPT !.wire = k.wire \o frames, !.sent = k.sent \o frames]
    BY <2>1, Zenon DEF OnData
  <2>4. conn = [k EXCEPT !.wire = frames, !.sent = frames]
    BY <1>4, <2>2, <2>3, Zenon
  <2> HIDE DEF frames
  <2> QED
    BY <2>4
<1>6. Channels(conn) = {}
  BY <1>5 DEF Channels
<1>7. Reliable(conn)
  <2>1. On(<<>>) = {} /\ On(frames) = {header}
    BY OnEmpty, OnOne
  <2>2. InFlight(conn) = {header}
    BY <1>5, <2>1 DEF InFlight
  <2>3. FineFrames(conn)
    BY <1>3, <2>2 DEF FineFrames, Fine
  <2>4. Promised(conn) /\ Unclosed(conn)
    BY <1>5, <1>6 DEF Promised, Unclosed
  <2> QED
    BY <2>3, <2>4 DEF Reliable
<1>8. HasRead(conn, <<>>, performed, server, gone)
  <2>1. \A c \in Ids : OfChannel(<<>>, c) = <<>> /\ performed[c] = <<>>
    BY <1>2, OfChannelEmpty
  <2>2. Begins(<<>>, <<>>)
    BY DEF Begins
  <2>3. \A c \in Ids : Reads(OfChannel(<<>>, c), performed[c], server[c], gone,
                             c \in conn.attached)
    BY <2>1, <2>2, AskedEmpty, Zenon DEF Reads
  <2>4. conn.sent = <<>> \o conn.wire
    BY <1>4, <1>5, Zenon
  <2> QED
    BY <1>4, <2>3, <2>4, Zenon DEF HasRead
<1>9. Unmade(conn, performed, server)
  <2>1. \A c \in Ids : c # 0
    BY ParametersAssumption DEF Ids
  <2> QED
    BY <1>2, <2>1 DEF Unmade
<1>10. Answering(conn, toClient, performed, server)
  BY <1>5 DEF Answering
<1>11. Addressed(conn, toClient)
  BY <1>2 DEF Addressed
<1>12. performed \in [Ids -> Seq(Nat)]
  <2>1. <<>> \in Seq(Nat)
    OBVIOUS
  <2> QED
    BY <1>2, <2>1
<1> QED
  BY <1>1, <1>7, <1>8, <1>9, <1>10, <1>11, <1>12, Zenon DEF RequestInv

----------------------------------------------------------------------------
\* THE SERVER'S STEPS
\* The connection but its frames.
SameRest(m, k) ==
    /\ m.attached = k.attached /\ m.channels = k.channels
    /\ m.closed = k.closed /\ Channels(m) = Channels(k)

\* What the server says of channel c is covered by what it has carried out.
Serves(new, c) ==
    /\ Len(performed[c]) + Answers(new, c) <= Len(performed'[c])
    /\ server'[c] = "closing"
       => \/ server[c] = "closing"
          \/ \E m \in 1..Len(new) : Is(new[m], "ChannelClose", c)
    /\ \A j \in 1..Len(new) : Is(new[j], "ChannelCloseOK", c) /\ c \in conn.attached
       => \/ \E m \in 1..Len(toClient) : Is(toClient[m], "ChannelClose", c)
          \/ Len(performed[c]) + Answers(new, c) + 1 <= Len(performed'[c])

SaidOf(new, c) ==
    \A n \in 1..Len(new) :
        /\ new[n].channel = c
        /\ new[n].name = "ConnectionCloseOK" => conn.closed
        /\ new[n].name = "ChannelClose" => c # 0

\* A step of the server, of channel c.
LEMMA SaidRequestInv ==
    ASSUME RequestInv, Inv', Reliable(conn'), SameRest(conn', conn),
           performed' \in [Ids -> Seq(Nat)],
           \E r : HasRead(conn', r, performed', server', gone'),
           NEW new \in Seq(ToClient), toClient' = toClient \o new,
           NEW c \in Channels(conn) \cup {0}, SaidOf(new, c),
           \A d \in Ids \ {c} : performed'[d] = performed[d]
                                /\ server'[d] = server[d],
           c # 0 => Serves(new, c)
    PROVE  RequestInv'
<1>0. /\ Inv /\ ConnType(conn) /\ toClient \in Seq(ToClient)
      /\ performed \in [Ids -> Seq(Nat)]
      /\ Unmade(conn, performed, server)
      /\ Answering(conn, toClient, performed, server)
      /\ Addressed(conn, toClient)
  BY Zenon DEF RequestInv, Inv, ConnInv, ServerType
<1>1. /\ conn'.attached = conn.attached /\ conn'.channels = conn.channels
      /\ conn'.closed = conn.closed /\ Channels(conn') = Channels(conn)
  BY Zenon DEF SameRest
<1>2. conn.attached \subseteq Channels(conn)
      /\ \A d \in Channels(conn) : d \in Ids /\ d # 0
  <2>1. conn.attached \subseteq Channels(conn)
    BY <1>0 DEF ConnType
  <2>2. \A d \in Channels(conn) : d \in Ids /\ d \in Nat \ {0}
    BY ChannelTyped, Zenon
  <2> QED
    BY <2>1, <2>2
<1>3. Unmade(conn', performed', server')
  <2>1. \A d \in Ids \ Channels(conn) : d # c \/ c = 0
    OBVIOUS
  <2>2. \A d \in Ids : d # 0
    BY ParametersAssumption DEF Ids
  <2> QED
    BY <1>0, <1>1, <2>1, <2>2 DEF Unmade
<1>4. Answering(conn', toClient', performed', server')
  <2> SUFFICES ASSUME NEW d \in conn.attached
               PROVE  Covered(Len(conn.channels[d].outcomes), toClient \o new, d,
                              Len(performed'[d]), server'[d])
    BY <1>1, Zenon DEF Answering
  <2>1. d \in Channels(conn) /\ d \in Ids /\ d # 0
    BY <1>2
  <2> DEFINE o == Len(conn.channels[d].outcomes)
             p == Len(performed[d])
             p2 == Len(performed'[d])
  <2>2. Covered(o, toClient, d, p, server[d])
    BY <1>0, Zenon DEF Answering
  <2>3. o \in Nat /\ p \in Nat /\ p2 \in Nat
    <3>1. KeptBy(conn.channels[d]) /\ Len(performed[d]) \in Nat
      BY <2>1, ChannelTyped, Zenon
    <3>2. Len(conn.channels[d].outcomes) \in Nat
      <4> DEFINE ch == conn.channels[d]
                 out == ch.outcomes
      <4>1. Kept(ch.callbacks, ch.accepted, ch.requests, out)
        BY <3>1, Zenon DEF KeptBy
      <4> HIDE DEF out
      <4>2. Len(out) \in Nat
        BY <4>1, KeptTypes, Zenon
      <4> QED
        BY <4>2 DEF out
    <3>3. performed'[d] \in Seq(Nat)
      BY <2>1
    <3> QED
      BY <3>1, <3>2, <3>3
  <2>4. CASE d = c
    <3>1. Serves(new, d)
      BY <2>1, <2>4, Zenon
    <3>2. /\ p + Answers(new, d) <= p2
          /\ server'[d] = "closing"
             => \/ server[d] = "closing"
                \/ \E m \in 1..Len(new) : Is(new[m], "ChannelClose", d)
          /\ \A j \in 1..Len(new) : Is(new[j], "ChannelCloseOK", d)
             => \/ \E m \in 1..Len(toClient) : Is(toClient[m], "ChannelClose", d)
                \/ p + Answers(new, d) + 1 <= p2
      BY <3>1, Zenon DEF Serves
    <3> HIDE DEF o, p, p2
    <3> QED
      BY <1>0, <2>2, <2>3, <3>2, CoveredConcat, Zenon DEF o, p2
  <2>5. CASE d # c
    <3>1. performed'[d] = performed[d] /\ server'[d] = server[d]
      BY <2>1, <2>5
    <3>2. \A n \in 1..Len(new) : new[n].channel # d
      BY <2>5, Zenon DEF SaidOf
    <3>3. \A n \in 1..Len(new) : new[n] \notin Answer(d)
                                 /\ ~ Is(new[n], "ChannelCloseOK", d)
      BY <3>2, Zenon DEF Answer, Is
    <3>4. Answers(new, d) = 0
      BY <3>3, AnswersNone, Zenon
    <3>5. p + Answers(new, d) <= p2
      BY <2>3, <3>1, <3>4
    <3> HIDE DEF o, p, p2
    <3>6. /\ server'[d] = "closing"
             => \/ server[d] = "closing"
                \/ \E m \in 1..Len(new) : Is(new[m], "ChannelClose", d)
          /\ \A j \in 1..Len(new) : Is(new[j], "ChannelCloseOK", d)
             => \/ \E m \in 1..Len(toClient) : Is(toClient[m], "ChannelClose", d)
                \/ p + Answers(new, d) + 1 <= p2
      BY <3>1, <3>3, Zenon
    <3> QED
      BY <1>0, <2>2, <2>3, <3>5, <3>6, CoveredConcat, Zenon DEF o, p2
  <2> QED
    BY <2>4, <2>5
<1>5. Addressed(conn', toClient')
  <2> DEFINE t == toClient \o new
  <2>1. /\ Len(t) = Len(toClient) + Len(new)
        /\ Len(toClient) \in Nat /\ Len(new) \in Nat
        /\ \A n \in 1..Len(toClient) : t[n] = toClient[n]
        /\ \A n \in (Len(toClient) + 1)..(Len(toClient) + Len(new)) :
              t[n] = new[n - Len(toClient)]
    BY <1>0, ConcatOf
  <2> HIDE DEF t, ToClient
  <2>2. \A n \in 1..Len(t) : \/ n \in 1..Len(toClient) /\ t[n] = toClient[n]
                             \/ /\ n - Len(toClient) \in 1..Len(new)
                                /\ t[n] = new[n - Len(toClient)]
    BY <2>1
  <2>3. \A n \in 1..Len(new) : /\ new[n].channel \in Channels(conn) \cup {0}
                               /\ new[n].name = "ConnectionCloseOK" => conn.closed
                               /\ new[n].name = "ChannelClose" => new[n].channel # 0
    BY Zenon DEF SaidOf
  <2>4. \A n \in 1..Len(t) : /\ t[n].channel \in Channels(conn) \cup {0}
                             /\ t[n].name = "ConnectionCloseOK" => conn.closed
                             /\ t[n].name = "ChannelClose" => t[n].channel # 0
    BY <1>0, <2>2, <2>3, ZenonT(60) DEF Addressed
  <2> QED
    BY <1>1, <2>4, Zenon DEF Addressed, t
<1> QED
  BY <1>3, <1>4, <1>5, RequestInvNext, Zenon

\* The server has read a frame, and the connection is as reliable as before.
LEMMA WireRead ==
    ASSUME RequestInv, conn.wire # <<>>, ReadFrame
    PROVE  /\ Reliable(conn') /\ SameRest(conn', conn)
           /\ conn'.wire = Tail(conn.wire) /\ conn'.sent = conn.sent
<1>0. ConnType(conn) /\ Reliable(conn) /\ conn.wire \in Seq(AFrame)
  <2>1. ConnType(conn) /\ Reliable(conn)
    BY Zenon DEF RequestInv, Inv, ConnInv
  <2> QED
    BY <2>1, ConnFields
<1>1. conn' = [conn EXCEPT !.wire = Tail(@)]
  BY DEF ReadFrame
<1>2. /\ conn'.attached = conn.attached /\ conn'.channels = conn.channels
      /\ conn'.closed = conn.closed /\ conn'.state = conn.state
      /\ conn'.nextFreeChannel = conn.nextFreeChannel
      /\ conn'.queue = conn.queue /\ conn'.sent = conn.sent
      /\ conn'.wire = Tail(conn.wire)
  BY <1>0, <1>1 DEF ConnType
<1>3. Channels(conn') = Channels(conn)
  BY <1>2, Zenon DEF Channels
<1>4. InFlight(conn') \subseteq InFlight(conn)
  <2>1. On(Tail(conn.wire)) \subseteq On(conn.wire)
    <3> HIDE DEF AFrame
    <3> QED
      BY <1>0, OnTail
  <2> QED
    BY <1>2, <2>1 DEF InFlight
<1>5. FineFrames(conn')
  BY <1>0, <1>2, <1>3, <1>4 DEF Reliable, FineFrames, Fine
<1>6. Promised(conn') /\ Unclosed(conn')
  BY <1>0, <1>2, <1>3, Zenon DEF Reliable, Promised, Unclosed
<1> QED
  BY <1>2, <1>3, <1>5, <1>6, Zenon DEF Reliable, SameRest

\* What the server meets in the frame it reads.
MeetsNext(r) ==
    LET x == NextFrame
        c == x.channel
    IN  /\ x \in AFrame /\ c \in Channels(conn) \cup {0}
        /\ Append(r, x) \in Seq(AFrame) /\ r \in Seq(AFrame)
        /\ conn'.sent = Append(r, x) \o conn'.wire
        /\ \A d : OfChannel(Append(r, x), d) =
                      IF Counts(x, d) THEN Append(OfChannel(r, d), x)
                      ELSE OfChannel(r, d)
        /\ x.name = "ChannelCloseOK" => c # 0 /\ c \notin conn.attached
        /\ x.name # "ChannelCloseOK" /\ c # 0
           => Meets(OfChannel(r, c), x, conn.channels[c].requests)
        /\ x.name = "ConnectionClose" => c = 0 /\ conn.closed

\* It is the next of its channel, or one that the library made itself.
LEMMA FrameRead ==
    ASSUME RequestInv, conn.wire # <<>>, ReadFrame,
           NEW r, HasRead(conn, r, performed, server, gone)
    PROVE  MeetsNext(r)
<1> DEFINE x == NextFrame
           c == x.channel
           w == Tail(conn.wire)
           s == Append(r, x)
<1>0. /\ Inv /\ ConnType(conn) /\ Reliable(conn)
      /\ conn.wire \in Seq(AFrame) /\ r \in Seq(AFrame)
      /\ conn.sent = r \o conn.wire
  <2>1. Inv /\ ConnType(conn) /\ Reliable(conn)
    BY Zenon DEF RequestInv, Inv, ConnInv
  <2>2. conn.wire \in Seq(AFrame)
    BY <2>1, ConnFields
  <2> QED
    BY <2>1, <2>2, Zenon DEF HasRead
<1>1. /\ x \in AFrame /\ w \in Seq(AFrame) /\ s \in Seq(AFrame)
      /\ conn.sent = s \o w
  <2> HIDE DEF AFrame
  <2>1. /\ Head(conn.wire) \in AFrame /\ <<Head(conn.wire)>> \in Seq(AFrame)
        /\ w \in Seq(AFrame) /\ conn.wire = <<Head(conn.wire)>> \o w
    BY <1>0, HeadAndTail
  <2>2. x = Head(conn.wire)
    BY DEF NextFrame
  <2> HIDE DEF w, x
  <2>3. s \in Seq(AFrame) /\ s = r \o <<x>> /\ <<x>> \in Seq(AFrame)
    BY <1>0, <2>1, <2>2
  <2>4. \A a, b, d \in Seq(AFrame) : (a \o b) \o d = a \o (b \o d)
    BY AFramesAssociative, Zenon
  <2>5. (r \o <<x>>) \o w = r \o (<<x>> \o w)
    BY <1>0, <2>1, <2>3, <2>4, ZenonT(60)
  <2> HIDE DEF s
  <2> QED
    BY <1>0, <2>1, <2>2, <2>3, <2>5, Zenon
<1>2. conn'.sent = conn.sent /\ conn'.wire = w
  BY WireRead, Zenon
<1>3. \A d : OfChannel(s, d) = IF Counts(x, d) THEN Append(OfChannel(r, d), x)
                               ELSE OfChannel(r, d)
  <2> HIDE DEF x, AFrame
  <2> QED
    BY <1>0, <1>1, OfChannelAppend
<1>4. Fine(conn, x)
  <2>1. x \in On(conn.wire)
    <3> HIDE DEF AFrame
    <3>1. Head(conn.wire) \in On(conn.wire)
      BY <1>0, OnTail
    <3> QED
      BY <3>1 DEF NextFrame
  <2> HIDE DEF x
  <2> QED
    BY <1>0, <2>1 DEF Reliable, FineFrames, InFlight
<1>5. c \in Nat
  <2> HIDE DEF x
  <2> QED
    BY <1>1 DEF AFrame
<1> HIDE DEF x, s, w
<1>6. ASSUME x.name = "ChannelCloseOK"
      PROVE  c \in Channels(conn) /\ c # 0 /\ c \notin conn.attached
  <2>1. c \in Channels(conn) /\ c \notin conn.attached
    BY <1>4, <1>6 DEF Fine
  <2> QED
    BY <2>1 DEF Channels
<1>7. ASSUME x.name # "ChannelCloseOK", c # 0
      PROVE  c \in Channels(conn)
             /\ Meets(OfChannel(r, c), x, conn.channels[c].requests)
  <2>1. OfChannel(s, c) = Append(OfChannel(r, c), x)
    BY <1>3, <1>7 DEF Counts
  <2>2. OfChannel(r, c) \in Seq(AFrame)
    BY <1>0, OfChannelTyped
  <2> DEFINE R == OfChannel(r, c)
  <2> HIDE DEF R, c
  <2>3. /\ c \in Channels(conn)
           => \E u \in Seq(AFrame) :
                 conn.channels[c].accepted = OfChannel(s, c) \o u
        /\ c \notin Channels(conn) => OfChannel(s, c) = <<>>
    BY <1>0, <1>1, <1>5, <1>7, ReadPrefix
  <2>4. c \in Channels(conn)
    <3>1. OfChannel(s, c) # <<>>
      <4> DEFINE R_ == OfChannel(r, c)
                 S_ == OfChannel(s, c)
      <4>1. S_ = Append(R_, x) /\ R_ \in Seq(AFrame)
        BY <2>1, <2>2
      <4> HIDE DEF R_, S_, AFrame
      <4>2. Len(S_) = Len(R_) + 1 /\ Len(R_) \in Nat
        BY <1>1, <4>1
      <4> QED
        BY <4>2 DEF S_
    <3> QED
      BY <2>3, <3>1
  <2>5. PICK u \in Seq(AFrame) : conn.channels[c].accepted = Append(R, x) \o u
    BY <2>1, <2>3, <2>4, Zenon DEF R
  <2>6. KeptBy(conn.channels[c])
    BY <2>4, ChannelTyped, Zenon
  <2> DEFINE ch == conn.channels[c]
  <2> HIDE DEF ch
  <2>7. Kept(ch.callbacks, ch.accepted, ch.requests, ch.outcomes)
        /\ ch.accepted = Append(R, x) \o u
    BY <2>5, <2>6, Zenon DEF KeptBy, ch
  <2>8. R \in Seq(AFrame)
    BY <2>2 DEF R
  <2>9. Meets(R, x, ch.requests)
    BY <1>1, <2>7, <2>8, NextMeets, Zenon
  <2> QED
    BY <2>4, <2>9, Zenon DEF R, ch
<1>8. ASSUME x.name = "ConnectionClose"
      PROVE  c = 0 /\ conn.closed
  <2>1. c = 0
    BY <1>7, <1>8 DEF Meets
  <2> QED
    BY <1>4, <1>8, <2>1 DEF Fine
<1> QED
  BY <1>0, <1>1, <1>2, <1>3, <1>6, <1>7, <1>8 DEF MeetsNext, x, s, w

\* A frame that changes nothing of what the server has carried out: one that
\* asks for nothing, or that it drops.
LEMMA ReadsOn ==
    ASSUME NEW R \in Seq(AFrame), NEW x \in AFrame, NEW req, Meets(R, x, req),
           NEW p \in Seq(Nat), NEW s, NEW over, NEW more, over => more,
           NEW attached, Reads(R, p, s, over, attached),
           x.name # "ChannelOpen" \/ over,
           x.name \notin AskedNames \/ s # "open" \/ over
    PROVE  Reads(Append(R, x), p, s, more, attached)
<1>1. AskedIn(R) \in Seq(Nat) /\ x.id \in Nat
  <2>1. x.id \in Nat
    BY DEF AFrame
  <2> QED
    BY <2>1, AskedTyped, Zenon
<1> DEFINE asked == AskedIn(R)
           new == AskedIn(Append(R, x))
<1>2. new = IF x.name \in AskedNames THEN Append(asked, x.id) ELSE asked
  BY AskedAppend, Zenon
<1> HIDE DEF asked, new
<1>3. Begins(p, asked) /\ asked \in Seq(Nat)
  BY <1>1, Zenon DEF Reads, asked
<1>4. Begins(p, Append(asked, x.id))
  BY <1>1, <1>3, BeginsAppend
<1>5. Begins(p, new)
  BY <1>2, <1>3, <1>4, Zenon
<1>6. s = "open" /\ ~ more => p = new
  BY <1>2, Zenon DEF Reads, asked
<1>7. ~ (attached /\ ~ more /\ s = "closed")
  BY Zenon DEF Reads, Meets
<1> QED
  BY <1>5, <1>6, <1>7, Zenon DEF Reads, new

\* A request that the server carries out; its channel stays open unless this
\* is its close.
LEMMA ReadsCarried ==
    ASSUME NEW R \in Seq(AFrame), NEW x \in AFrame, x.name \in AskedNames,
           NEW p \in Seq(Nat), NEW attached, Reads(R, p, "open", FALSE, attached),
           NEW s, s = "open" \/ x.name = "ChannelClose"
    PROVE  Reads(Append(R, x), Append(p, x.id), s, FALSE, attached)
<1>1. p = AskedIn(R)
  BY Zenon DEF Reads
<1>2. AskedIn(Append(R, x)) = Append(p, x.id)
  BY <1>1, AskedAppend, Zenon
<1>3. x.id \in Nat
  BY DEF AFrame
<1>4. Begins(Append(p, x.id), Append(p, x.id))
  BY <1>3 DEF Begins
<1>5. s = "closed" => Append(R, x)[Len(Append(R, x))].name = "ChannelClose"
  <2> HIDE DEF AFrame
  <2>1. Append(R, x)[Len(Append(R, x))] = x
    OBVIOUS
  <2> QED
    BY <2>1
<1> QED
  BY <1>2, <1>4, <1>5, Zenon DEF Reads

\* The first frame of a channel opens it.
LEMMA ReadsOpened ==
    ASSUME NEW R \in Seq(AFrame), NEW x \in AFrame, NEW req, Meets(R, x, req),
           x.name = "ChannelOpen", NEW p \in Seq(Nat), NEW s, NEW over,
           NEW attached, Reads(R, p, s, over, attached)
    PROVE  Reads(Append(R, x), p, "open", over, attached)
<1>1. R = <<>>
  BY DEF Meets
<1>2. p = <<>>
  <2>1. AskedIn(R) = <<>>
    BY <1>1, AskedEmpty, Zenon
  <2>2. Begins(p, <<>>)
    BY <2>1, Zenon DEF Reads
  <2> QED
    BY <2>2, BeginsNothing
<1>3. AskedIn(Append(R, x)) = <<>>
  <2>1. x.name \notin AskedNames
    BY DEF AskedNames
  <2>2. AskedIn(Append(R, x)) = AskedIn(R)
    BY <2>1, AskedAppend, Zenon
  <2> QED
    BY <1>1, <2>2, AskedEmpty, Zenon
<1>4. Begins(<<>>, <<>>)
  BY DEF Begins
<1> QED
  BY <1>2, <1>3, <1>4 DEF Reads

\* The server has read frame x of channel c.
LEMMA ReadRequestInv ==
    ASSUME RequestInv, Inv', conn.wire # <<>>, ReadFrame,
           NEW r, HasRead(conn, r, performed, server, gone), MeetsNext(r),
           NEW c, c = NextFrame.channel,
           NEW new \in Seq(ToClient), toClient' = toClient \o new, SaidOf(new, c),
           performed' \in [Ids -> Seq(Nat)], gone => gone',
           \A d \in Ids \ {c} : performed'[d] = performed[d]
                                /\ server'[d] = server[d],
           c # 0 => /\ Serves(new, c)
                    /\ Reads(OfChannel(Append(r, NextFrame), c), performed'[c],
                             server'[c], gone', c \in conn.attached)
    PROVE  RequestInv'
<1> DEFINE x == NextFrame
           more == Append(r, x)
<1>1. /\ Reliable(conn') /\ SameRest(conn', conn)
  BY WireRead, Zenon
<1>2. /\ c \in Channels(conn) \cup {0} /\ more \in Seq(AFrame)
      /\ conn'.sent = more \o conn'.wire
      /\ \A d : OfChannel(more, d) =
                    IF Counts(x, d) THEN Append(OfChannel(r, d), x)
                    ELSE OfChannel(r, d)
  BY Zenon DEF MeetsNext
<1>3. conn'.attached = conn.attached
  BY <1>1, Zenon DEF SameRest
<1>4. ASSUME NEW d \in Ids
      PROVE  Reads(OfChannel(more, d), performed'[d], server'[d], gone',
                   d \in conn'.attached)
  <2>1. CASE d = c
    <3>1. d # 0
      BY ParametersAssumption DEF Ids
    <3> QED
      BY <1>3, <2>1, <3>1, Zenon
  <2>2. CASE d # c
    <3>1. OfChannel(more, d) = OfChannel(r, d)
      BY <1>2, <2>2, Zenon DEF Counts
    <3>2. Reads(OfChannel(r, d), performed[d], server[d], gone,
                d \in conn.attached)
      BY Zenon DEF HasRead
    <3>3. performed'[d] = performed[d] /\ server'[d] = server[d]
      BY <2>2
    <3>4. Reads(OfChannel(r, d), performed[d], server[d], gone',
                d \in conn.attached)
      BY <3>2, Zenon DEF Reads
    <3> QED
      BY <1>3, <3>1, <3>3, <3>4, Zenon
  <2> QED
    BY <2>1, <2>2
<1>5. HasRead(conn', more, performed', server', gone')
  BY <1>2, <1>4, Zenon DEF HasRead
<1> HIDE DEF more
<1> QED
  BY <1>1, <1>2, <1>5, SaidRequestInv, Zenon

\* What is known of the frame that the server reads.
LEMMA NextRead ==
    ASSUME RequestInv, conn.wire # <<>>, ReadFrame,
           NEW r, HasRead(conn, r, performed, server, gone)
    PROVE  LET x == NextFrame
               c == x.channel
               R == OfChannel(r, c)
               more == OfChannel(Append(r, x), c)
           IN  /\ MeetsNext(r) /\ x \in AFrame /\ c \in Nat /\ x.id \in Nat
               /\ c # 0 => /\ c \in Ids /\ R \in Seq(AFrame)
                           /\ performed[c] \in Seq(Nat)
                           /\ Reads(R, performed[c], server[c], gone,
                                    c \in conn.attached)
               /\ c # 0 /\ x.name # "ChannelCloseOK"
                  => more = Append(R, x) /\ Meets(R, x, conn.channels[c].requests)
               /\ x.name = "ChannelCloseOK"
                  => more = R /\ c # 0 /\ c \notin conn.attached
               /\ x.name = "ConnectionClose" => c = 0 /\ conn.closed
<1> DEFINE x == NextFrame
           c == x.channel
<1>1. MeetsNext(r)
  BY FrameRead
<1>2. /\ x \in AFrame /\ c \in Channels(conn) \cup {0} /\ r \in Seq(AFrame)
      /\ \A d : OfChannel(Append(r, x), d) =
                    IF Counts(x, d) THEN Append(OfChannel(r, d), x)
                    ELSE OfChannel(r, d)
      /\ x.name = "ChannelCloseOK" => c # 0 /\ c \notin conn.attached
      /\ x.name # "ChannelCloseOK" /\ c # 0
         => Meets(OfChannel(r, c), x, conn.channels[c].requests)
      /\ x.name = "ConnectionClose" => c = 0 /\ conn.closed
  BY <1>1, Zenon DEF MeetsNext
<1>3. c \in Nat /\ x.id \in Nat
  <2> HIDE DEF x
  <2> QED
    BY <1>2 DEF AFrame
<1>4. ASSUME c # 0
      PROVE  /\ c \in Ids /\ OfChannel(r, c) \in Seq(AFrame)
             /\ performed[c] \in Seq(Nat)
             /\ Reads(OfChannel(r, c), performed[c], server[c], gone,
                      c \in conn.attached)
  <2> HIDE DEF c
  <2>1. c \in Channels(conn)
    BY <1>2, <1>4
  <2>2. c \in Ids /\ performed[c] \in Seq(Nat)
    BY <2>1, ChannelTyped, Zenon
  <2>3. OfChannel(r, c) \in Seq(AFrame)
    BY <1>2, OfChannelTyped
  <2>4. Reads(OfChannel(r, c), performed[c], server[c], gone, c \in conn.attached)
    BY <2>2, Zenon DEF HasRead
  <2> QED
    BY <2>2, <2>3, <2>4
<1> HIDE DEF x
<1>5. OfChannel(Append(r, x), c) = IF x.name # "ChannelCloseOK"
                                   THEN Append(OfChannel(r, c), x)
                                   ELSE OfChannel(r, c)
  BY <1>2, Zenon DEF Counts
<1> QED
  BY <1>1, <1>2, <1>3, <1>4, <1>5, Zenon DEF x

\* One frame is said of the channel whose frame was read.
LEMMA OneSaidRequestInv ==
    ASSUME RequestInv, Inv', conn.wire # <<>>, ReadFrame,
           NEW r, HasRead(conn, r, performed, server, gone), MeetsNext(r),
           NEW c, c = NextFrame.channel,
           NEW y \in ToClient, y.channel = c, toClient' = Append(toClient, y),
           y.name = "ConnectionCloseOK" => conn.closed, y.name # "ChannelClose",
           performed' \in [Ids -> Seq(Nat)], gone => gone',
           \A d \in Ids \ {c} : performed'[d] = performed[d]
                                /\ server'[d] = server[d],
           c # 0 => /\ Reads(OfChannel(Append(r, NextFrame), c), performed'[c],
                             server'[c], gone', c \in conn.attached)
                    /\ server'[c] = "closing" => server[c] = "closing"
                    /\ Len(performed[c]) + Answers(<<y>>, c) <= Len(performed'[c])
                    /\ y.name = "ChannelCloseOK" /\ c \in conn.attached
                       => \/ \E m \in 1..Len(toClient) :
                                Is(toClient[m], "ChannelClose", c)
                          \/ Len(performed[c]) + Answers(<<y>>, c) + 1
                                <= Len(performed'[c])
    PROVE  RequestInv'
<1> DEFINE new == <<y>>
<1>0. toClient \in Seq(ToClient)
  BY Zenon DEF RequestInv, Inv, ServerType
<1>1. OneMore(toClient, y)
  BY <1>0, FrameAppended, Zenon
<1>2. /\ toClient' = toClient \o new /\ new \in Seq(ToClient)
      /\ \A n \in 1..Len(new) : new[n] = y
  BY <1>1, Zenon DEF OneMore
<1>3. SaidOf(new, c)
  <2> HIDE DEF new
  <2> QED
    BY <1>2, Zenon DEF SaidOf
<1>4. c # 0 => Serves(new, c)
  <2>1. Answers(new, c) = Answers(<<y>>, c)
    BY Zenon DEF new
  <2> HIDE DEF new
  <2> QED
    BY <1>2, <2>1, Zenon DEF Serves, Is
<1> HIDE DEF new
<1> QED
  BY <1>2, <1>3, <1>4, ReadRequestInv, Zenon

\* Nothing is said.
LEMMA NothingSaidRequestInv ==
    ASSUME RequestInv, Inv', conn.wire # <<>>, ReadFrame,
           NEW r, HasRead(conn, r, performed, server, gone), MeetsNext(r),
           NEW c, c = NextFrame.channel,
           toClient' = toClient, performed' = performed, gone => gone',
           \A d \in Ids \ {c} : server'[d] = server[d],
           c # 0 => /\ Reads(OfChannel(Append(r, NextFrame), c), performed[c],
                             server'[c], gone', c \in conn.attached)
                    /\ server'[c] = "closing" => server[c] = "closing"
    PROVE  RequestInv'
<1> DEFINE new == <<>>
<1>0. toClient \in Seq(ToClient) /\ performed \in [Ids -> Seq(Nat)]
      /\ c \in Channels(conn) \cup {0}
  BY Zenon DEF RequestInv, Inv, ServerType, MeetsNext
<1>1. NothingMore(toClient)
  BY <1>0, EmptyIsNothing, Zenon
<1>2. toClient' = toClient \o new /\ new \in Seq(ToClient)
  BY <1>1, Zenon DEF NothingMore
<1>3. \A n \in 1..Len(new) : FALSE
  OBVIOUS
<1> HIDE DEF new
<1>4. SaidOf(new, c)
  BY <1>3, Zenon DEF SaidOf
<1>5. c # 0 => Serves(new, c)
  <2> SUFFICES ASSUME c # 0
               PROVE  Serves(new, c)
    OBVIOUS
  <2>1. Answers(new, c) = 0
    BY <1>2, <1>3, AnswersNone, Zenon
  <2>2. c \in Channels(conn)
    BY <1>0
  <2>3. Len(performed[c]) \in Nat
    BY <2>2, ChannelTyped, Zenon
  <2>4. Len(performed[c]) + Answers(new, c) <= Len(performed[c])
    BY <2>1, <2>3
  <2> QED
    BY <1>3, <2>4, Zenon DEF Serves
<1>6. performed' \in [Ids -> Seq(Nat)]
      /\ \A d \in Ids \ {c} : performed'[d] = performed[d]
                              /\ server'[d] = server[d]
  BY <1>0, Zenon
<1>7. c # 0 => Reads(OfChannel(Append(r, NextFrame), c), performed'[c],
                     server'[c], gone', c \in conn.attached)
  BY Zenon
<1> QED
  BY <1>2, <1>4, <1>5, <1>6, <1>7, ReadRequestInv, Zenon

\* The server has carried out one request more of a channel, itself is none.
LEMMA PerformedMore ==
    ASSUME RequestInv, NEW c, NEW id \in Nat,
           performed' = [performed EXCEPT ![c] = Append(@, id)]
    PROVE  /\ performed' \in [Ids -> Seq(Nat)]
           /\ \A d \in Ids \ {c} : performed'[d] = performed[d]
           /\ c \in Ids => /\ performed'[c] = Append(performed[c], id)
                           /\ Len(performed[c]) \in Nat
                           /\ Len(performed'[c]) = Len(performed[c]) + 1
<1>1. performed \in [Ids -> Seq(Nat)]
  BY Zenon DEF RequestInv
<1>2. \A d \in Ids : performed[d] \in Seq(Nat) /\ Append(performed[d], id) \in Seq(Nat)
  BY <1>1
<1>3. \A d \in Ids : Len(performed[d]) \in Nat
                     /\ Len(Append(performed[d], id)) = Len(performed[d]) + 1
  BY <1>2
<1>4. performed' \in [Ids -> Seq(Nat)]
      /\ \A d \in Ids \ {c} : performed'[d] = performed[d]
      /\ c \in Ids => performed'[c] = Append(performed[c], id)
  BY <1>1, <1>2
<1> QED
  BY <1>3, <1>4

\* The server notes a new state of one channel.
LEMMA ServerSet ==
    ASSUME Inv, NEW c, NEW state, server' = [server EXCEPT ![c] = state]
    PROVE  /\ \A d \in Ids \ {c} : server'[d] = server[d]
           /\ c \in Ids => server'[c] = state
<1>1. server \in [Ids \cup {0} -> {"open", "closed", "closing"}]
  BY Zenon DEF Inv, ServerType
<1> QED
  BY <1>1

\* The names of the server's answers.
LEMMA ReplyNames ==
    /\ \A name \in DOMAIN Reply :
          Reply[name] \notin {"ConnectionCloseOK", "ChannelClose", "ChannelCloseOK"}
    /\ "ChannelOpen" \in DOMAIN Reply /\ Reply["ChannelOpen"] \notin AnswerNames
    /\ DOMAIN Reply \cap {"ConnectionClose", "ChannelClose", "ChannelCloseOK"} = {}
    /\ "BasicGet" \in AskedNames
<1>1. \A name \in DOMAIN Reply :
         Reply[name] \notin {"ConnectionCloseOK", "ChannelClose", "ChannelCloseOK"}
  BY DEF Reply
<1>2. "ChannelOpen" \in DOMAIN Reply /\ Reply["ChannelOpen"] \notin AnswerNames
  BY DEF Reply, AnswerNames, SuccessNames
<1>3. DOMAIN Reply \cap {"ConnectionClose", "ChannelClose", "ChannelCloseOK"} = {}
      /\ "BasicGet" \in DOMAIN Reply
  BY DEF Reply
<1> QED
  BY <1>1, <1>2, <1>3 DEF AskedNames

\* One frame is one answer at most.
LEMMA OneAnswer ==
    ASSUME NEW y \in ToClient, NEW c
    PROVE  /\ Answers(<<y>>, c) = 0 \/ Answers(<<y>>, c) = 1
           /\ y.name \notin AnswerNames => Answers(<<y>>, c) = 0
<1>1. y.name \notin AnswerNames => y \notin Answer(c)
  BY Zenon DEF Answer
<1> QED
  BY <1>1, AnswersOne, Zenon

\* The server answers a frame.
LEMMA ServerAnswersRequestInv ==
    ASSUME RequestInv, ServerAnswers
    PROVE  RequestInv'
<1> DEFINE x == NextFrame
           c == x.channel
           y == Frame_(Reply[x.name], c, x.id)
<1>0. /\ Inv /\ Inv' /\ ~ gone /\ gone' = gone
      /\ conn.wire # <<>> /\ ReadFrame
  <2>1. Inv
    BY Zenon DEF RequestInv
  <2> QED
    BY <2>1, ServerAnswersInv, Zenon DEF ServerAnswers
<1>1. PICK r : HasRead(conn, r, performed, server, gone)
  BY Zenon DEF RequestInv
<1> DEFINE R == OfChannel(r, c)
           more == OfChannel(Append(r, x), c)
<1>2. /\ MeetsNext(r) /\ x \in AFrame /\ c \in Nat /\ x.id \in Nat
      /\ c # 0 => /\ c \in Ids /\ R \in Seq(AFrame)
                  /\ performed[c] \in Seq(Nat)
                  /\ Reads(R, performed[c], server[c], gone, c \in conn.attached)
      /\ c # 0 /\ x.name # "ChannelCloseOK"
         => more = Append(R, x) /\ Meets(R, x, conn.channels[c].requests)
      /\ x.name = "ChannelCloseOK"
         => more = R /\ c # 0 /\ c \notin conn.attached
  BY <1>0, <1>1, NextRead, Zenon
<1>3. /\ x.name # "ChannelOpen" => server[c] = "open"
      /\ x.name \notin {"ConnectionClose", "ChannelClose"}
      /\ toClient' = IF x.name \in DOMAIN Reply THEN Append(toClient, y)
                     ELSE toClient
      /\ server' = IF x.name = "ChannelOpen"
                   THEN [server EXCEPT ![c] = "open"] ELSE server
      /\ performed' = IF c # 0 /\ x.name \in DOMAIN Reply
                         /\ x.name # "ChannelOpen"
                      THEN [performed EXCEPT ![c] = Append(@, x.id)]
                      ELSE performed
  BY Zenon DEF ServerAnswers
<1>4. performed \in [Ids -> Seq(Nat)] /\ (gone => gone') /\ c = NextFrame.channel
  BY <1>0, Zenon DEF RequestInv
<1> HIDE DEF x, c, R, more
<1>5. \A d \in Ids \ {c} : server'[d] = server[d]
  BY <1>0, <1>3, ServerSet, Zenon
<1>6. CASE x.name \in DOMAIN Reply
  <2>1. y \in ToClient /\ y.name = Reply[x.name] /\ y.channel = c
    BY <1>2, <1>6, Replies, SaidTyped
  <2>2. toClient' = Append(toClient, y)
    BY <1>3, <1>6, Zenon
  <2>3. y.name \notin {"ConnectionCloseOK", "ChannelClose", "ChannelCloseOK"}
        /\ x.name # "ChannelCloseOK"
    BY <1>6, <2>1, ReplyNames
  <2> HIDE DEF y
  <2>4. Answers(<<y>>, c) \in {0, 1}
        /\ (y.name \notin AnswerNames => Answers(<<y>>, c) = 0)
    BY <2>1, OneAnswer
  <2>5. CASE x.name = "ChannelOpen"
    <3>1. performed' = performed /\ Answers(<<y>>, c) = 0
      BY <1>3, <2>1, <2>4, <2>5, ReplyNames, Zenon
    <3>2. ASSUME c # 0
          PROVE  /\ Reads(more, performed'[c], server'[c], gone', c \in conn.attached)
                 /\ server'[c] = "open"
                 /\ Len(performed[c]) + Answers(<<y>>, c) <= Len(performed'[c])
      <4>1. server'[c] = "open"
        BY <1>0, <1>2, <1>3, <2>5, <3>2, ServerSet, Zenon
      <4>2. Reads(Append(R, x), performed[c], "open", gone, c \in conn.attached)
        BY <1>2, <2>3, <2>5, <3>2, ReadsOpened, Zenon
      <4>3. Len(performed[c]) + 0 <= Len(performed[c])
        BY <1>2, <3>2
      <4> QED
        BY <1>0, <1>2, <2>3, <3>1, <3>2, <4>1, <4>2, <4>3, Zenon
    <3> QED
      BY <1>0, <1>1, <1>2, <1>4, <1>5, <2>1, <2>2, <2>3, <3>1, <3>2,
         OneSaidRequestInv, ZenonT(60) DEF more, x
  <2>6. CASE x.name # "ChannelOpen" /\ c # 0
    <3>1. /\ performed' = [performed EXCEPT ![c] = Append(@, x.id)]
          /\ server' = server /\ server[c] = "open" /\ x.name \in AskedNames
      BY <1>3, <1>6, <2>6, Zenon DEF AskedNames
    <3>2. /\ performed' \in [Ids -> Seq(Nat)]
          /\ \A d \in Ids \ {c} : performed'[d] = performed[d]
          /\ performed'[c] = Append(performed[c], x.id)
             /\ Len(performed[c]) \in Nat
             /\ Len(performed'[c]) = Len(performed[c]) + 1
      BY <1>2, <2>6, <3>1, PerformedMore, Zenon
    <3>3. Len(performed[c]) + Answers(<<y>>, c) <= Len(performed'[c])
      BY <2>4, <3>2
    <3>4. Reads(R, performed[c], "open", FALSE, c \in conn.attached)
      BY <1>0, <1>2, <2>6, <3>1, Zenon DEF Reads
    <3>5. Reads(Append(R, x), Append(performed[c], x.id), "open", FALSE,
                c \in conn.attached)
      BY <1>2, <2>6, <3>1, <3>4, ReadsCarried, Zenon
    <3>6. Reads(more, performed'[c], server'[c], gone', c \in conn.attached)
      BY <1>0, <1>2, <2>3, <2>6, <3>1, <3>2, <3>5, Zenon DEF Reads
    <3>7. server'[c] = "open"
      BY <3>1, Zenon
    <3> QED
      BY <1>0, <1>1, <1>2, <1>4, <1>5, <2>1, <2>2, <2>3, <3>2, <3>3, <3>6, <3>7,
         OneSaidRequestInv, ZenonT(60) DEF more, x
  <2>7. CASE c = 0
    <3>1. performed' = performed
      BY <1>3, <2>7, Zenon
    <3> QED
      BY <1>0, <1>1, <1>2, <1>4, <1>5, <2>1, <2>2, <2>3, <2>7, <3>1,
         OneSaidRequestInv, Zenon DEF x
  <2> QED
    BY <2>5, <2>6, <2>7, Zenon
<1>7. CASE x.name \notin DOMAIN Reply
  <2>1. /\ toClient' = toClient /\ performed' = performed /\ server' = server
        /\ x.name # "ChannelOpen"
    BY <1>3, <1>7, ReplyNames, Zenon
  <2>2. x.name \notin AskedNames
    BY <1>3, <1>7 DEF AskedNames
  <2>3. ASSUME c # 0
        PROVE  Reads(more, performed[c], server[c], gone, c \in conn.attached)
    <3>1. CASE x.name = "ChannelCloseOK"
      BY <1>2, <2>3, <3>1, Zenon
    <3>2. CASE x.name # "ChannelCloseOK"
      BY <1>2, <2>1, <2>2, <2>3, <3>2, ReadsOn, Zenon
    <3> QED
      BY <3>1, <3>2
  <2>4. c # 0 => Reads(more, performed[c], server'[c], gone', c \in conn.attached)
                 /\ (server'[c] = "closing" => server[c] = "closing")
    BY <1>0, <2>1, <2>3, Zenon
  <2> QED
    BY <1>0, <1>1, <1>2, <1>4, <1>5, <2>1, <2>4, NothingSaidRequestInv, Zenon
       DEF more, x
<1> QED
  BY <1>6, <1>7

\* A message: its first frame is the only one that may be an answer.
Spoken(new, c) ==
    /\ new \in Seq(ToClient)
    /\ \A j \in 1..Len(new) :
          /\ new[j].channel = c
          /\ new[j].name \notin {"ConnectionCloseOK", "ChannelClose",
                                 "ChannelCloseOK"}

\* It answers one request when it was asked for, and none when it was not.
LEMMA ContentAnswers ==
    ASSUME NEW name \in {"BasicGetOK", "BasicDeliver"}, NEW c \in Nat,
           NEW id \in Nat, NEW n \in Nat
    PROVE  LET new == Content(name, c, id, n)
           IN  /\ Spoken(new, c)
               /\ Answers(new, c) = 0 \/ Answers(new, c) = 1
               /\ name = "BasicDeliver" => Answers(new, c) = 0
<1> DEFINE x == Frame_(name, c, id)
           header == [name |-> "BasicHeader", channel |-> c, id |-> id, size |-> n]
           body == [name |-> "Body", channel |-> c, id |-> id, size |-> 1]
           first == <<x>>
           second == <<header>>
           parts == [m \in 1..n |-> body]
           Names == {name, "BasicHeader", "Body"}
           Part == {y \in ToClient : y.channel = c /\ y.name \in Names}
           Other == {y \in ToClient : y.name \notin AnswerNames}
<1>1. name \in SaidNames
      /\ {"BasicHeader", "Body", "BasicDeliver"} \cap AnswerNames = {}
  BY DEF SaidNames, ServerNames, ConnectionNames, ChannelNames, SuccessNames,
     AnswerNames
<1>2. x \in ToClient /\ x.channel = c /\ x.name = name
  BY <1>1, SaidTyped
<1>3. header \in ToClient /\ header.channel = c /\ header.name = "BasicHeader"
  BY DEF ToClient
<1>4. body \in ToClient /\ body.channel = c /\ body.name = "Body"
  BY DEF ToClient
<1>5. Content(name, c, id, n) = <<x, header>> \o parts
  BY Zenon DEF Content
<1> HIDE DEF x, header, body
<1>6. x \in Part /\ header \in Part /\ body \in Part
      /\ header \in Other /\ body \in Other
  BY <1>1, <1>2, <1>3, <1>4
<1> HIDE DEF Part, Other
<1>7. <<x, header>> \in Seq(Part) /\ parts \in Seq(Part) /\ parts \in Seq(Other)
      /\ second \in Seq(Other) /\ <<x, header>> = first \o second
  <2>1. <<x, header>> \in Seq(Part)
    BY <1>6
  <2>2. parts \in Seq(Part)
    BY <1>6
  <2>3. parts \in Seq(Other)
    BY <1>6
  <2>4. second \in Seq(Other)
    BY <1>6
  <2>5. <<x, header>> = <<x>> \o <<header>>
    <3>1. Append(<<x>>, header) = <<x, header>>
      <4>1. <<x>> \in Seq(Part) /\ <<x, header>> \in Seq(Part)
        BY <1>6
      <4>2. Append(<<x>>, header) \in Seq(Part)
        BY <1>6, <4>1
      <4>3. Len(Append(<<x>>, header)) = 2 /\ Len(<<x, header>>) = 2
        BY <1>6, <4>1
      <4>4. \A j \in 1..2 : Append(<<x>>, header)[j] = <<x, header>>[j]
        BY <1>6, <4>1
      <4> DEFINE s == Append(<<x>>, header)
                 t == <<x, header>>
      <4>5. /\ s \in Seq(Part) /\ t \in Seq(Part) /\ Len(s) = Len(t)
            /\ \A j \in 1..Len(s) : s[j] = t[j]
        BY <4>1, <4>2, <4>3, <4>4
      <4> HIDE DEF s, t
      <4>6. s = t
        BY <4>5, SeqEqual
      <4> QED
        BY <4>6, Zenon DEF s, t
    <3>2. <<x>> \in Seq(Part)
      BY <1>6
    <3>3. Append(<<x>>, header) = <<x>> \o <<header>>
      BY <1>6, <3>2
    <3> QED
      BY <3>1, <3>3, Zenon
  <2> HIDE DEF parts
  <2> QED
    BY <2>1, <2>2, <2>3, <2>4, <2>5, Zenon DEF first, second
<1>8. Part \subseteq ToClient /\ Other \subseteq ToClient
  BY DEF Part, Other
<1> DEFINE new == Content(name, c, id, n)
<1>9. new \in Seq(Part)
  <2> HIDE DEF parts
  <2>1. <<x, header>> \o parts \in Seq(Part)
    BY <1>7
  <2> QED
    BY <1>5, <2>1
<1>10. Spoken(new, c)
  <2> HIDE DEF new
  <2>1. \A j \in 1..Len(new) : new[j] \in Part
    BY <1>9
  <2>2. new \in Seq(ToClient)
    <3> HIDE DEF ToClient
    <3>1. Len(new) \in Nat /\ new = [j \in 1..Len(new) |-> new[j]]
      BY <1>9
    <3>2. \A j \in 1..Len(new) : new[j] \in ToClient
      BY <1>8, <2>1
    <3> QED
      BY <3>1, <3>2
  <2>3. \A j \in 1..Len(new) : new[j].channel = c /\ new[j].name \in Names
    BY <2>1, Zenon DEF Part
  <2>4. Names \cap {"ConnectionCloseOK", "ChannelClose", "ChannelCloseOK"} = {}
    OBVIOUS
  <2> HIDE DEF Names
  <2>5. \A j \in 1..Len(new) :
           new[j].name \notin {"ConnectionCloseOK", "ChannelClose", "ChannelCloseOK"}
    BY <2>3, <2>4
  <2> QED
    BY <2>2, <2>3, <2>5, Zenon DEF Spoken
<1>11. ASSUME NEW q \in Seq(Other)
       PROVE  q \in Seq(ToClient) /\ Answers(q, c) = 0
  <2> HIDE DEF ToClient
  <2>1. Len(q) \in Nat /\ q = [j \in 1..Len(q) |-> q[j]]
        /\ \A j \in 1..Len(q) : q[j] \in Other
    OBVIOUS
  <2>2. q \in Seq(ToClient)
    BY <1>8, <2>1
  <2>3. \A j \in 1..Len(q) : q[j] \notin Answer(c)
    BY <2>1, Zenon DEF Answer, Other
  <2> QED
    BY <2>2, <2>3, AnswersNone, Zenon
<1> HIDE DEF second, parts
<1>12. /\ parts \in Seq(ToClient) /\ Answers(parts, c) = 0
       /\ second \in Seq(ToClient) /\ Answers(second, c) = 0
  BY <1>7, <1>11, Zenon
<1>13. first \in Seq(ToClient) /\ first \o second \in Seq(ToClient)
  <2> HIDE DEF ToClient
  <2> QED
    BY <1>2, <1>12
<1>14. Answers(new, c) = Answers(first, c) + 0 + 0
  <2>1. Answers(first \o second, c) = Answers(first, c) + Answers(second, c)
    BY <1>12, <1>13, AnswersConcat, ZenonT(60)
  <2>2. Answers((first \o second) \o parts, c)
            = Answers(first \o second, c) + Answers(parts, c)
    BY <1>12, <1>13, AnswersConcat, ZenonT(60)
  <2>3. new = (first \o second) \o parts
    BY <1>5, <1>7, Zenon
  <2> QED
    BY <1>12, <2>1, <2>2, <2>3, Zenon
<1>15. /\ Answers(first, c) = 0 \/ Answers(first, c) = 1
       /\ name = "BasicDeliver" => Answers(first, c) = 0
  BY <1>1, <1>2, OneAnswer
<1> HIDE DEF new, first
<1>16. /\ Answers(new, c) = 0 \/ Answers(new, c) = 1
       /\ name = "BasicDeliver" => Answers(new, c) = 0
  BY <1>14, <1>15
<1> QED
  BY <1>10, <1>16, Zenon DEF new

\* The server answers a get with a message.
LEMMA ServerGetsRequestInv ==
    ASSUME RequestInv, ServerGets
    PROVE  RequestInv'
<1> DEFINE x == NextFrame
           c == x.channel
<1>0. /\ Inv /\ Inv' /\ ~ gone /\ gone' = gone /\ server' = server
      /\ conn.wire # <<>> /\ ReadFrame /\ events \in Nat
  <2>1. Inv
    BY Zenon DEF RequestInv
  <2> QED
    BY <2>1, ServerGetsInv, Zenon DEF ServerGets, Inv, ServerType
<1>1. PICK r : HasRead(conn, r, performed, server, gone)
  BY Zenon DEF RequestInv
<1> DEFINE R == OfChannel(r, c)
           more == OfChannel(Append(r, x), c)
<1>2. /\ MeetsNext(r) /\ x \in AFrame /\ c \in Nat /\ x.id \in Nat
      /\ c # 0 => /\ c \in Ids /\ R \in Seq(AFrame)
                  /\ performed[c] \in Seq(Nat)
                  /\ Reads(R, performed[c], server[c], gone, c \in conn.attached)
      /\ c # 0 /\ x.name # "ChannelCloseOK" => more = Append(R, x)
  BY <1>0, <1>1, NextRead, Zenon
<1>3. /\ x.name = "BasicGet" /\ server[c] = "open"
      /\ performed' = [performed EXCEPT ![c] = Append(@, x.id)]
  BY Zenon DEF ServerGets
<1>4. PICK n \in 0..2 :
        toClient' = toClient \o Content("BasicGetOK", c, events + 1, n)
  BY Zenon DEF ServerGets
<1>5. /\ x.name \in AskedNames /\ x.name # "ChannelCloseOK"
      /\ n \in Nat /\ events + 1 \in Nat
  BY <1>0, <1>3, ReplyNames
<1>6. c = NextFrame.channel
  OBVIOUS
<1> HIDE DEF x, c, R, more
<1> DEFINE new == Content("BasicGetOK", c, events + 1, n)
<1>7. Spoken(new, c) /\ (Answers(new, c) = 0 \/ Answers(new, c) = 1)
  BY <1>2, <1>5, ContentAnswers
<1> HIDE DEF new
<1>8. new \in Seq(ToClient) /\ toClient' = toClient \o new /\ SaidOf(new, c)
  BY <1>4, <1>7, Zenon DEF Spoken, SaidOf, new
<1>9. /\ performed' \in [Ids -> Seq(Nat)]
      /\ \A d \in Ids \ {c} : performed'[d] = performed[d]
      /\ c \in Ids => /\ performed'[c] = Append(performed[c], x.id)
                      /\ Len(performed[c]) \in Nat
                      /\ Len(performed'[c]) = Len(performed[c]) + 1
  BY <1>2, <1>3, PerformedMore, Zenon
<1>10. ASSUME c # 0
       PROVE  /\ Serves(new, c)
              /\ Reads(more, performed'[c], server'[c], gone', c \in conn.attached)
  <2>1. Len(performed[c]) + Answers(new, c) <= Len(performed'[c])
    BY <1>2, <1>7, <1>9, <1>10
  <2>2. Serves(new, c)
    BY <1>0, <1>7, <2>1, Zenon DEF Serves, Spoken, Is
  <2>3. Reads(R, performed[c], "open", FALSE, c \in conn.attached)
    BY <1>0, <1>2, <1>3, <1>10, Zenon DEF Reads
  <2>4. Reads(Append(R, x), Append(performed[c], x.id), "open", FALSE,
              c \in conn.attached)
    BY <1>2, <1>5, <1>10, <2>3, ReadsCarried, Zenon
  <2>5. Reads(more, performed'[c], server'[c], gone', c \in conn.attached)
    BY <1>0, <1>2, <1>3, <1>5, <1>9, <1>10, <2>4, Zenon DEF Reads
  <2> QED
    BY <2>2, <2>5
<1> QED
  BY <1>0, <1>1, <1>2, <1>6, <1>8, <1>9, <1>10, ReadRequestInv, Zenon DEF more, x

\* A close that was asked for on a channel the library still has is covered:
\* by the close of the server, or because the server has just carried it out.
LEMMA CloseMet ==
    ASSUME RequestInv, ~ gone, NEW c \in conn.attached,
           NEW R, NEW x, NEW req, Meets(R, x, req), x.name = "ChannelClose",
           Reads(R, performed[c], server[c], gone, TRUE), server[c] # "open"
    PROVE  \E m \in 1..Len(toClient) : Is(toClient[m], "ChannelClose", c)
<1>1. server[c] # "closed"
  BY DEF Reads, Meets
<1>2. c \in Ids
  <2>1. c \in Channels(conn)
    BY DEF RequestInv, Inv, ConnInv, ConnType
  <2> QED
    BY <2>1, ChannelTyped, Zenon
<1>3. server[c] = "closing"
  <2>1. server \in [Ids \cup {0} -> {"open", "closed", "closing"}]
    BY Zenon DEF RequestInv, Inv, ServerType
  <2> QED
    BY <1>1, <1>2, <2>1
<1> QED
  BY <1>3, Zenon DEF RequestInv, Answering, Covered

\* The server answers a close, or drops what comes behind its own.
LEMMA ServerClosesRequestInv ==
    ASSUME RequestInv, ServerCloses
    PROVE  RequestInv'
<1> DEFINE x == NextFrame
           c == x.channel
<1>0. /\ Inv /\ Inv' /\ conn.wire # <<>> /\ ReadFrame
      /\ performed \in [Ids -> Seq(Nat)] /\ toClient \in Seq(ToClient)
  <2>1. Inv /\ performed \in [Ids -> Seq(Nat)]
    BY Zenon DEF RequestInv
  <2> QED
    BY <2>1, ServerClosesInv, Zenon DEF ServerCloses, Inv, ServerType
<1>1. PICK r : HasRead(conn, r, performed, server, gone)
  BY Zenon DEF RequestInv
<1> DEFINE R == OfChannel(r, c)
           more == OfChannel(Append(r, x), c)
<1>2. /\ MeetsNext(r) /\ x \in AFrame /\ c \in Nat /\ x.id \in Nat
      /\ c # 0 => /\ c \in Ids /\ R \in Seq(AFrame)
                  /\ performed[c] \in Seq(Nat)
                  /\ Reads(R, performed[c], server[c], gone, c \in conn.attached)
      /\ c # 0 /\ x.name # "ChannelCloseOK"
         => more = Append(R, x) /\ Meets(R, x, conn.channels[c].requests)
      /\ x.name = "ChannelCloseOK"
         => more = R /\ c # 0 /\ c \notin conn.attached
      /\ x.name = "ConnectionClose" => c = 0 /\ conn.closed
  BY <1>0, <1>1, NextRead, Zenon
<1>3. c = NextFrame.channel
  OBVIOUS
<1>4. CASE /\ x.name = "ConnectionClose"
           /\ toClient' = Append(toClient, Frame_("ConnectionCloseOK", 0, 0))
           /\ gone' = TRUE /\ server' = server /\ performed' = performed
  <2> DEFINE y == Frame_("ConnectionCloseOK", 0, 0)
  <2>1. y \in ToClient /\ y.name = "ConnectionCloseOK" /\ y.channel = 0
    BY ClosesSaid, SaidTyped
  <2>2. toClient' = Append(toClient, y) /\ c = 0 /\ conn.closed /\ gone'
    BY <1>2, <1>4, Zenon
  <2>3. y.name # "ChannelClose"
    BY <2>1
  <2> HIDE DEF y, c, x
  <2> QED
    BY <1>0, <1>1, <1>2, <1>3, <1>4, <2>1, <2>2, <2>3, OneSaidRequestInv, Zenon
<1>5. CASE /\ x.name = "ChannelClose" /\ ~ gone /\ gone' = gone
           /\ toClient' = Append(toClient, Frame_("ChannelCloseOK", c, x.id))
           /\ performed' = IF server[c] = "open"
                           THEN [performed EXCEPT ![c] = Append(@, x.id)]
                           ELSE performed
           /\ server' = IF server[c] = "open"
                        THEN [server EXCEPT ![c] = "closed"] ELSE server
  <2> DEFINE y == Frame_("ChannelCloseOK", c, x.id)
  <2>1. y \in ToClient /\ y.name = "ChannelCloseOK" /\ y.channel = c
    BY <1>2, ClosesSaid, SaidTyped, SMTT(30)
  <2>2. toClient' = Append(toClient, y)
    BY <1>5, Zenon
  <2>3. y.name # "ChannelClose" /\ y.name # "ConnectionCloseOK"
        /\ x.name # "ChannelCloseOK" /\ x.name # "ChannelOpen"
    BY <1>5, <2>1
  <2>4. Answers(<<y>>, c) = 0
    <3>1. "ChannelCloseOK" \notin AnswerNames
      BY DEF AnswerNames, SuccessNames
    <3> HIDE DEF y, c
    <3> QED
      BY <2>1, <3>1, OneAnswer, Zenon
  <2> HIDE DEF y, c, x, R, more
  <2>5. CASE server[c] = "open"
    <3>1. /\ performed' = [performed EXCEPT ![c] = Append(@, x.id)]
          /\ server' = [server EXCEPT ![c] = "closed"]
      BY <1>5, <2>5, Zenon
    <3>2. /\ performed' \in [Ids -> Seq(Nat)]
          /\ \A d \in Ids \ {c} : performed'[d] = performed[d]
          /\ c \in Ids => /\ performed'[c] = Append(performed[c], x.id)
                          /\ Len(performed[c]) \in Nat
                          /\ Len(performed'[c]) = Len(performed[c]) + 1
      BY <1>2, <3>1, PerformedMore, Zenon
    <3>3. /\ \A d \in Ids \ {c} : server'[d] = server[d]
          /\ c \in Ids => server'[c] = "closed"
      BY <1>0, <3>1, ServerSet, Zenon
    <3>4. ASSUME c # 0
          PROVE  /\ Reads(more, performed'[c], server'[c], gone', c \in conn.attached)
                 /\ server'[c] = "closed"
                 /\ Len(performed[c]) + Answers(<<y>>, c) <= Len(performed'[c])
                 /\ Len(performed[c]) + Answers(<<y>>, c) + 1 <= Len(performed'[c])
      <4>1. Reads(R, performed[c], "open", FALSE, c \in conn.attached)
        BY <1>2, <1>5, <2>5, <3>4, Zenon DEF Reads
      <4>2. x.name \in AskedNames
        BY <1>5 DEF AskedNames
      <4>3. Reads(Append(R, x), Append(performed[c], x.id), "closed", FALSE,
                  c \in conn.attached)
        BY <1>2, <1>5, <3>4, <4>1, <4>2, ReadsCarried, Zenon
      <4>4. Reads(more, performed'[c], server'[c], gone', c \in conn.attached)
        BY <1>2, <1>5, <2>3, <3>2, <3>3, <3>4, <4>3, Zenon DEF Reads
      <4>5. Len(performed[c]) + Answers(<<y>>, c) + 1 <= Len(performed'[c])
            /\ Len(performed[c]) + Answers(<<y>>, c) <= Len(performed'[c])
        BY <1>2, <2>4, <3>2, <3>4, SMTT(30)
      <4> QED
        BY <1>2, <3>3, <3>4, <4>4, <4>5, Zenon
    <3>5. ("closed" = "closing") = FALSE
      OBVIOUS
    <3>6. c # 0 => ~ (server'[c] = "closing")
      BY <3>4, <3>5, Zenon
    <3>7. c # 0 => /\ Reads(more, performed'[c], server'[c], gone',
                            c \in conn.attached)
                   /\ server'[c] = "closing" => server[c] = "closing"
                   /\ Len(performed[c]) + Answers(<<y>>, c) <= Len(performed'[c])
                   /\ y.name = "ChannelCloseOK" /\ c \in conn.attached
                      => Len(performed[c]) + Answers(<<y>>, c) + 1
                            <= Len(performed'[c])
      BY <3>4, <3>6, Zenon
    <3>8. /\ performed' \in [Ids -> Seq(Nat)]
          /\ \A d \in Ids \ {c} : performed'[d] = performed[d]
                                  /\ server'[d] = server[d]
      BY <3>2, <3>3, Zenon
    <3>9. gone => gone'
      BY <1>5, Zenon
    <3> QED
      BY <1>0, <1>1, <1>2, <1>3, <2>1, <2>2, <2>3, <3>7, <3>8, <3>9,
         OneSaidRequestInv, Zenon DEF more, x
  <2>6. CASE server[c] # "open"
    <3>1. performed' = performed /\ server' = server
      BY <1>5, <2>6, Zenon
    <3>2. ASSUME c # 0
          PROVE  /\ Reads(more, performed[c], server[c], gone, c \in conn.attached)
                 /\ Len(performed[c]) + Answers(<<y>>, c) <= Len(performed[c])
                 /\ c \in conn.attached
                    => \E m \in 1..Len(toClient) :
                          Is(toClient[m], "ChannelClose", c)
      <4>1. Reads(Append(R, x), performed[c], server[c], gone, c \in conn.attached)
        BY <1>2, <2>3, <2>6, <3>2, ReadsOn, Zenon
      <4>2. Len(performed[c]) + Answers(<<y>>, c) <= Len(performed[c])
        BY <1>2, <2>4, <3>2
      <4>3. ASSUME c \in conn.attached
            PROVE  \E m \in 1..Len(toClient) : Is(toClient[m], "ChannelClose", c)
        <5>1. Reads(R, performed[c], server[c], gone, TRUE)
          BY <1>2, <3>2, <4>3, Zenon DEF Reads
        <5>2. Meets(R, x, conn.channels[c].requests)
          BY <1>2, <2>3, <3>2, Zenon
        <5> QED
          BY <1>5, <2>6, <4>3, <5>1, <5>2, CloseMet, Zenon
      <4> QED
        BY <1>2, <2>3, <3>2, <4>1, <4>2, <4>3, Zenon
    <3>3. /\ performed' \in [Ids -> Seq(Nat)]
          /\ \A d \in Ids \ {c} : performed'[d] = performed[d]
                                  /\ server'[d] = server[d]
      BY <1>0, <3>1, Zenon
    <3>4. c # 0 => /\ Reads(more, performed'[c], server'[c], gone',
                            c \in conn.attached)
                   /\ server'[c] = "closing" => server[c] = "closing"
                   /\ Len(performed[c]) + Answers(<<y>>, c) <= Len(performed'[c])
                   /\ y.name = "ChannelCloseOK" /\ c \in conn.attached
                      => \E m \in 1..Len(toClient) :
                            Is(toClient[m], "ChannelClose", c)
      BY <1>5, <3>1, <3>2, Zenon
    <3>5. gone => gone'
      BY <1>5, Zenon
    <3> QED
      BY <1>0, <1>1, <1>2, <1>3, <2>1, <2>2, <2>3, <3>3, <3>4, <3>5,
         OneSaidRequestInv, Zenon DEF more, x
  <2> QED
    BY <2>5, <2>6
<1>6. CASE /\ x.name = "ChannelCloseOK" /\ ~ gone /\ gone' = gone
           /\ server' = [server EXCEPT ![c] = "closed"]
           /\ toClient' = toClient /\ performed' = performed
  <2> HIDE DEF x, c, R, more
  <2>1. /\ \A d \in Ids \ {c} : server'[d] = server[d]
        /\ c \in Ids => server'[c] = "closed"
    BY <1>0, <1>6, ServerSet, Zenon
  <2>2. c # 0 /\ c \notin conn.attached /\ more = R /\ server'[c] = "closed"
    BY <1>2, <1>6, <2>1, Zenon
  <2>3. Reads(R, performed[c], "closed", gone, c \in conn.attached)
    <3>1. Reads(R, performed[c], server[c], gone, c \in conn.attached)
      BY <1>2, <2>2, Zenon
    <3> QED
      BY <2>2, <3>1 DEF Reads
  <2>4. ~ (server'[c] = "closing")
    BY <2>2
  <2>5. Reads(more, performed[c], server'[c], gone', c \in conn.attached)
    BY <1>6, <2>2, <2>3, Zenon
  <2>6. gone => gone'
    BY <1>6, Zenon
  <2> QED
    BY <1>0, <1>1, <1>2, <1>3, <1>6, <2>1, <2>4, <2>5, <2>6,
       NothingSaidRequestInv, Zenon DEF more, x
<1>7. CASE /\ \/ gone /\ x.name # "ConnectionClose"
              \/ /\ server[c] # "open"
                 /\ x.name \notin {"ChannelOpen", "ChannelClose",
                                   "ChannelCloseOK"}
           /\ toClient' = toClient /\ server' = server /\ gone' = gone
           /\ performed' = performed
  <2>1. /\ x.name # "ChannelOpen" \/ gone
        /\ x.name \notin AskedNames \/ server[c] # "open" \/ gone
    BY <1>7
  <2> HIDE DEF x, c, R, more
  <2>2. ASSUME c # 0
        PROVE  Reads(more, performed[c], server[c], gone, c \in conn.attached)
    <3>1. CASE x.name = "ChannelCloseOK"
      BY <1>2, <2>2, <3>1, Zenon
    <3>2. CASE x.name # "ChannelCloseOK"
      BY <1>2, <2>1, <2>2, <3>2, ReadsOn, Zenon
    <3> QED
      BY <3>1, <3>2
  <2>3. c # 0 => Reads(more, performed[c], server'[c], gone', c \in conn.attached)
                 /\ (server'[c] = "closing" => server[c] = "closing")
    BY <1>7, <2>2, Zenon
  <2>4. gone => gone'
    BY <1>7, Zenon
  <2>5. \A d \in Ids \ {c} : server'[d] = server[d]
    BY <1>7, Zenon
  <2> QED
    BY <1>0, <1>1, <1>2, <1>3, <1>7, <2>3, <2>4, <2>5,
       NothingSaidRequestInv, Zenon DEF more, x
<1> QED
  BY <1>4, <1>5, <1>6, <1>7, Zenon DEF ServerCloses

\* The server says something that nobody asked for.
LEMMA UnaskedRequestInv ==
    ASSUME RequestInv, Inv', conn' = conn, performed' = performed, gone => gone',
           NEW new \in Seq(ToClient), toClient' = toClient \o new,
           NEW c \in Channels(conn) \cup {0}, SaidOf(new, c),
           \A d \in Ids \ {c} : server'[d] = server[d],
           Answers(new, c) = 0,
           \A j \in 1..Len(new) : new[j].name # "ChannelCloseOK",
           c # 0 => \/ server'[c] = server[c]
                    \/ /\ server'[c] = "closing"
                       /\ \E m \in 1..Len(new) : Is(new[m], "ChannelClose", c)
    PROVE  RequestInv'
<1>1. /\ Reliable(conn) /\ performed \in [Ids -> Seq(Nat)]
  BY Zenon DEF RequestInv
<1>2. Reliable(conn') /\ SameRest(conn', conn) /\ performed' \in [Ids -> Seq(Nat)]
  BY <1>1, Zenon DEF SameRest
<1>3. PICK r : HasRead(conn, r, performed, server, gone)
  BY Zenon DEF RequestInv
<1>4. \A d \in Channels(conn) : d \in Ids /\ Len(performed[d]) \in Nat
  BY ChannelTyped, Zenon
<1>5. HasRead(conn', r, performed', server', gone')
  <2>1. r \in Seq(AFrame) /\ conn.sent = r \o conn.wire
    BY <1>3, Zenon DEF HasRead
  <2>2. ASSUME NEW d \in Ids
        PROVE  Reads(OfChannel(r, d), performed[d], server'[d], gone',
                     d \in conn.attached)
    <3>1. Reads(OfChannel(r, d), performed[d], server[d], gone,
                d \in conn.attached)
      BY <1>3, Zenon DEF HasRead
    <3>2. d # 0
      BY ParametersAssumption DEF Ids
    <3>3. server'[d] = server[d] \/ server'[d] = "closing"
      BY <3>2
    <3>4. CASE server'[d] = server[d]
      BY <3>1, <3>4, Zenon DEF Reads
    <3>5. CASE server'[d] = "closing"
      <4>1. server'[d] # "open" /\ server'[d] # "closed"
        BY <3>5
      <4> QED
        BY <3>1, <4>1, Zenon DEF Reads
    <3> QED
      BY <3>3, <3>4, <3>5
  <2> QED
    BY <2>1, <2>2, Zenon DEF HasRead
<1>6. c # 0 => Serves(new, c)
  <2> SUFFICES ASSUME c # 0
               PROVE  Serves(new, c)
    OBVIOUS
  <2>1. Len(performed[c]) \in Nat
    BY <1>4
  <2>2. Len(performed[c]) + Answers(new, c) <= Len(performed[c])
    BY <2>1
  <2> QED
    BY <2>2, Zenon DEF Serves, Is
<1>7. \A d \in Ids \ {c} : performed'[d] = performed[d] /\ server'[d] = server[d]
  BY Zenon
<1> QED
  BY <1>2, <1>5, <1>6, <1>7, SaidRequestInv, Zenon

\* Of one frame.
LEMMA OneUnaskedRequestInv ==
    ASSUME RequestInv, Inv', conn' = conn, performed' = performed, gone => gone',
           NEW y \in ToClient, toClient' = Append(toClient, y),
           NEW c \in Channels(conn) \cup {0}, y.channel = c,
           y.name \notin AnswerNames, y.name # "ChannelCloseOK",
           y.name # "ConnectionCloseOK", y.name = "ChannelClose" => c # 0,
           \A d \in Ids \ {c} : server'[d] = server[d],
           c # 0 => \/ server'[c] = server[c]
                    \/ server'[c] = "closing" /\ y.name = "ChannelClose"
    PROVE  RequestInv'
<1> DEFINE new == <<y>>
<1>0. toClient \in Seq(ToClient)
  BY Zenon DEF RequestInv, Inv, ServerType
<1>1. OneMore(toClient, y)
  BY <1>0, FrameAppended, Zenon
<1>2. /\ toClient' = toClient \o new /\ new \in Seq(ToClient)
      /\ \A n \in 1..Len(new) : new[n] = y
      /\ Len(new) = 1 /\ new[1] = y
  BY <1>1, Zenon DEF OneMore
<1>3. Answers(new, c) = 0
  BY OneAnswer, Zenon
<1> HIDE DEF new
<1>4. SaidOf(new, c)
  BY <1>2, Zenon DEF SaidOf
<1>5. \A j \in 1..Len(new) : new[j].name # "ChannelCloseOK"
  BY <1>2, Zenon
<1>6. y.name = "ChannelClose"
      => \E m \in 1..Len(new) : Is(new[m], "ChannelClose", c)
  <2>1. 1 \in 1..Len(new)
    BY <1>2
  <2> QED
    BY <1>2, <2>1, Zenon DEF Is
<1>7. c # 0 => \/ server'[c] = server[c]
               \/ /\ server'[c] = "closing"
                  /\ \E m \in 1..Len(new) : Is(new[m], "ChannelClose", c)
  BY <1>6, Zenon
<1> QED
  BY <1>2, <1>3, <1>4, <1>5, <1>7, UnaskedRequestInv, Zenon

\* The server delivers, closes or sends a frame of its own.
LEMMA ServerSendsRequestInv ==
    ASSUME RequestInv, ServerSends
    PROVE  RequestInv'
<1>0. /\ Inv /\ Inv' /\ ~ gone /\ conn' = conn /\ performed' = performed
      /\ events \in Nat
  <2>1. Inv
    BY Zenon DEF RequestInv
  <2> QED
    BY <2>1, ServerSendsInv, Zenon DEF ServerSends, Inv, ServerType
<1>1. \A c \in Ids : c \in Nat /\ c # 0
  BY ParametersAssumption DEF Ids
<1>2. ASSUME NEW c \in Ids, server[c] = "open"
      PROVE  c \in Channels(conn) \cup {0}
  <2>1. \A d \in Ids \ Channels(conn) : server[d] = "closed"
    BY Zenon DEF RequestInv, Unmade
  <2> QED
    BY <1>2, <2>1
<1>3. ASSUME NEW c \in Ids, NEW n \in 0..2, server[c] = "open",
             toClient' = toClient \o Content("BasicDeliver", c, events + 1, n),
             server' = server, gone' = gone
      PROVE  RequestInv'
  <2> DEFINE new == Content("BasicDeliver", c, events + 1, n)
  <2>1. n \in Nat /\ events + 1 \in Nat
    BY <1>0
  <2>2. Spoken(new, c) /\ Answers(new, c) = 0
    BY <1>1, <2>1, ContentAnswers
  <2>3. toClient' = toClient \o new
    BY <1>3
  <2> HIDE DEF new
  <2>4. new \in Seq(ToClient) /\ SaidOf(new, c)
        /\ \A j \in 1..Len(new) : new[j].name # "ChannelCloseOK"
    BY <2>2, Zenon DEF Spoken, SaidOf
  <2>5. c \in Channels(conn) \cup {0}
    BY <1>2, <1>3
  <2> QED
    BY <1>0, <1>3, <2>2, <2>3, <2>4, <2>5, UnaskedRequestInv, Zenon
<1>4. ASSUME NEW c \in Ids, server[c] = "open",
             NEW name \in {"ChannelClose", "ChannelFlow"},
             toClient' = Append(toClient, Frame_(name, c, 0)),
             server' = IF name = "ChannelClose"
                       THEN [server EXCEPT ![c] = "closing"] ELSE server,
             gone' = gone
      PROVE  RequestInv'
  <2> DEFINE y == Frame_(name, c, 0)
  <2>1. name \in SaidNames
    BY ClosesSaid
  <2>2. y \in ToClient /\ y.name = name /\ y.channel = c
    BY <1>1, <2>1, SaidTyped
  <2>3. toClient' = Append(toClient, y)
    BY <1>4
  <2>4. name \notin AnswerNames /\ name # "ChannelCloseOK"
        /\ name # "ConnectionCloseOK"
    BY DEF AnswerNames, SuccessNames
  <2> HIDE DEF y
  <2>5. /\ \A d \in Ids \ {c} : server'[d] = server[d]
        /\ server'[c] = server[c] \/ (server'[c] = "closing" /\ name = "ChannelClose")
    BY <1>0, <1>4, ServerSet, Zenon
  <2>6. c \in Channels(conn) \cup {0}
    BY <1>2, <1>4
  <2> QED
    BY <1>0, <1>1, <1>4, <2>2, <2>3, <2>4, <2>5, <2>6, OneUnaskedRequestInv, Zenon
<1>5. ASSUME NEW name \in {"Heartbeat", "ConnectionClose"},
             toClient' = Append(toClient, Frame_(name, 0, 0)),
             server' = server, gone => gone'
      PROVE  RequestInv'
  <2> DEFINE y == Frame_(name, 0, 0)
             c == 0
  <2>1. y \in ToClient /\ y.name = name /\ y.channel = c
    <3>1. CASE name = "Heartbeat"
      BY <3>1 DEF ToClient, Frame_
    <3>2. CASE name = "ConnectionClose"
      BY <3>2, ClosesSaid, SaidTyped
    <3> QED
      BY <3>1, <3>2
  <2>2. toClient' = Append(toClient, y)
    BY <1>5
  <2>3. name \notin AnswerNames /\ name # "ChannelCloseOK"
        /\ name # "ConnectionCloseOK" /\ name # "ChannelClose"
    BY DEF AnswerNames, SuccessNames
  <2>4. c \in Channels(conn) \cup {0}
    OBVIOUS
  <2>5. c = 0
    OBVIOUS
  <2> HIDE DEF y, c
  <2> QED
    BY <1>0, <1>5, <2>1, <2>2, <2>3, <2>4, <2>5, OneUnaskedRequestInv, Zenon
<1>6. \/ \E c \in Ids, n \in 0..2 :
           /\ server[c] = "open"
           /\ toClient' = toClient \o Content("BasicDeliver", c, events + 1, n)
           /\ server' = server /\ gone' = gone
      \/ \E c \in Ids, name \in {"ChannelClose", "ChannelFlow"} :
           /\ server[c] = "open"
           /\ toClient' = Append(toClient, Frame_(name, c, 0))
           /\ server' = (IF name = "ChannelClose"
                         THEN [server EXCEPT ![c] = "closing"] ELSE server)
           /\ gone' = gone
      \/ \E name \in {"Heartbeat", "ConnectionClose"} :
           /\ toClient' = Append(toClient, Frame_(name, 0, 0))
           /\ server' = server /\ (gone => gone')
  BY Zenon DEF ServerSends
<1> QED
  BY <1>3, <1>4, <1>5, <1>6

----------------------------------------------------------------------------
\* Whatever the application, the library and the server do, the requests of a
\* channel, what the server has carried out of them, and the answers on their
\* way stay in step.
THEOREM RequestInvInvariant == Spec => []RequestInv
<1>1. Init => RequestInv
  BY InitRequestInv
<1>2. RequestInv /\ [Next]_vars => RequestInv'
  <2> SUFFICES ASSUME RequestInv, [Next]_vars PROVE RequestInv'
    OBVIOUS
  <2>0. Inv
    BY Zenon DEF RequestInv
  <2>1. CASE Application
    BY <2>1, ApplicationRequestInv
  <2>2. CASE ParseFrame
    BY <2>2, ParseFrameRequestInv
  <2>3. CASE ServerAnswers
    BY <2>3, ServerAnswersRequestInv
  <2>4. CASE ServerGets
    BY <2>4, ServerGetsRequestInv
  <2>5. CASE ServerCloses
    BY <2>5, ServerClosesRequestInv
  <2>6. CASE ServerSends
    BY <2>6, ServerSendsRequestInv
  <2>7. CASE Parse
    <3>1. Inv'
      BY <2>0, <2>7, ParseInv
    <3> QED
      BY <2>7, <3>1, UnchangedRequestInv, Zenon DEF Parse, serverVars
  <2>8. CASE UNCHANGED vars
    <3>1. Inv'
      BY <2>0, <2>8, StutterInv
    <3> QED
      BY <2>8, <3>1, UnchangedRequestInv, Zenon DEF vars, serverVars
  <2> QED
    BY <2>1, <2>2, <2>3, <2>4, <2>5, <2>6, <2>7, <2>8 DEF Next, Server
<1> QED
  BY <1>1, <1>2, PTL DEF Spec

----------------------------------------------------------------------------
\* THE REFINEMENT
\* The requests and the outcomes of the channels of connection k.
RequestsIn(k) == [c \in Ids |-> IF c \in DOMAIN k.channels
                                THEN k.channels[c].requests ELSE <<>>]
OutcomesIn(k) == [c \in Ids |-> IF c \in DOMAIN k.channels
                                THEN k.channels[c].outcomes ELSE <<>>]

\* They are what RequestService sees.
LEMMA MappedState ==
    /\ Requests = RequestsIn(conn) /\ Requests' = RequestsIn(conn')
    /\ Outcomes = OutcomesIn(conn) /\ Outcomes' = OutcomesIn(conn')
BY Zenon DEF Requests, Outcomes, RequestsIn, OutcomesIn, Created

\* Those of one channel; one that was not made has none.
LEMMA MappedChannel ==
    ASSUME NEW k, ConnType(k), NEW c \in Ids
    PROVE  /\ c \in Channels(k) => /\ RequestsIn(k)[c] = k.channels[c].requests
                                   /\ OutcomesIn(k)[c] = k.channels[c].outcomes
           /\ c \notin Channels(k) => /\ RequestsIn(k)[c] = <<>>
                                      /\ OutcomesIn(k)[c] = <<>>
<1>1. DOMAIN k.channels = Channels(k)
  <2>1. k.channels = [d \in Channels(k) |-> k.channels[d]]
    BY Zenon DEF ConnType
  <2> DEFINE f == k.channels
  <2> HIDE DEF f
  <2>2. f = [d \in Channels(k) |-> f[d]]
    BY <2>1, Zenon DEF f
  <2>3. DOMAIN f = Channels(k)
    BY <2>2, Zenon
  <2> QED
    BY <2>3 DEF f
<1> QED
  BY <1>1, Zenon DEF RequestsIn, OutcomesIn

\* The outcomes of this module are those that RequestService allows.
LEMMA FateIsOutcome ==
    ASSUME NEW c,
           NEW o \in Fates(Requests[c], Outcomes[c], Len(performed[c]))
    PROVE  o \in Abstract!Outcomes(c)
BY Zenon DEF Abstract!Outcomes, Fates, AllSettled, SomeSettled, Result_

\* What a frame of the server settles of a channel is allowed: no outcome
\* comes before the server has carried out the request.
LEMMA SettlesFate ==
    ASSUME RequestInv, toClient # <<>>, NEW m, NEW c \in Channels(conn),
           Settles(conn, m, Head(toClient), c)
    PROVE  LET ch == conn.channels[c]
               new == m.channels[c]
           IN  /\ new.requests = ch.requests
               /\ new.outcomes \in Fates(ch.requests, ch.outcomes,
                                         Len(performed[c]))
<1> DEFINE frame == Head(toClient)
           ch == conn.channels[c]
           new == m.channels[c]
           req == ch.requests
           out == ch.outcomes
           p == Len(performed[c])
<1>1. /\ req \in Seq(Nat) /\ out \in Seq(Settled) /\ Len(out) <= Len(req)
      /\ Len(out) \in Nat /\ Len(req) \in Nat /\ p \in Nat
  <2>1. KeptBy(ch) /\ p \in Nat
    BY ChannelTyped, Zenon
  <2>2. Kept(ch.callbacks, ch.accepted, req, out)
    BY <2>1, Zenon DEF KeptBy
  <2> HIDE DEF req, out, ch
  <2> QED
    BY <2>1, <2>2, KeptTypes, KeptLengths, Zenon
<1>2. ASSUME c \in conn.attached
      PROVE  /\ Len(out) <= p
             /\ frame \in Answer(c) \/ Is(frame, "ChannelCloseOK", c)
                => Len(out) + 1 <= p
  BY <1>2, HeadCovered, Zenon
<1>3. frame \in ToClient
  BY HeadDue, Zenon
<1>4. \/ new.requests = req /\ new.outcomes = out
      \/ /\ Succeeded(ch, new) /\ c \in conn.attached
         /\ frame.channel = c /\ frame.name \in AnswerNames
      \/ Failed(ch, new) /\ c \in conn.attached
      \/ /\ SettlesAll(ch, new) /\ c \in conn.attached
         /\ frame.channel = c /\ frame.name = "ChannelCloseOK"
  BY Zenon DEF Settles, SettlesNothing
<1>5. out \in Fates(req, out, p)
  <2> HIDE DEF req, out, p
  <2> QED
    BY FateOfNothing
<1> HIDE DEF frame, p
<1>6. ASSUME NEW mid, Succeeded(ch, mid), c \in conn.attached,
             frame \in Answer(c) \/ Is(frame, "ChannelCloseOK", c)
      PROVE  /\ mid.requests = req
             /\ \/ mid.outcomes = out
                \/ /\ Len(out) + 1 <= Len(req)
                   /\ mid.outcomes = Append(out, <<req[Len(out) + 1], "success">>)
                   /\ Len(mid.outcomes) = Len(out) + 1
  BY <1>6, Zenon DEF Succeeded
<1>7. ASSUME NEW mid, Failed(mid, new)
      PROVE  /\ new.requests = mid.requests
             /\ new.outcomes = mid.outcomes
                               \o Rest(mid.requests, Len(mid.outcomes))
  BY <1>7, Zenon DEF Failed
<1>8. new.requests = req
  BY <1>4, Zenon DEF Succeeded, Failed, SettlesAll
<1> HIDE DEF req, out
<1>9. new.outcomes \in Fates(req, out, p)
  <2>1. CASE new.requests = req /\ new.outcomes = out
    BY <1>5, <2>1
  <2>2. CASE /\ Succeeded(ch, new) /\ c \in conn.attached
             /\ frame.channel = c /\ frame.name \in AnswerNames
    <3>1. frame \in Answer(c)
      BY <1>3, <2>2, Zenon DEF Answer
    <3>2. \/ new.outcomes = out
          \/ /\ Len(out) + 1 <= Len(req)
             /\ new.outcomes = Append(out, <<req[Len(out) + 1], "success">>)
      BY <1>6, <2>2, <3>1, Zenon
    <3>3. Len(out) + 1 <= p
      BY <1>2, <2>2, <3>1, Zenon
    <3>4. Len(out) + 1 <= Len(req)
          => Append(out, <<req[Len(out) + 1], "success">>) \in Fates(req, out, p)
      BY <1>1, <3>3, FateOfSuccess, Zenon
    <3> QED
      BY <1>5, <3>2, <3>4, Zenon
  <2>3. CASE Failed(ch, new) /\ c \in conn.attached
    <3>1. new.outcomes = out \o Rest(req, Len(out))
      BY <2>3, <1>7, Zenon DEF out, req
    <3>2. out \o Rest(req, Len(out)) \in Fates(req, out, p)
      BY <1>1, <1>2, <2>3, FateOfError, Zenon
    <3> QED
      BY <3>1, <3>2, Zenon
  <2>4. CASE /\ SettlesAll(ch, new) /\ c \in conn.attached
             /\ frame.channel = c /\ frame.name = "ChannelCloseOK"
    <3>1. PICK mid : Succeeded(ch, mid) /\ Failed(mid, new)
      BY <2>4, Zenon DEF SettlesAll
    <3>2. Is(frame, "ChannelCloseOK", c)
      BY <2>4, Zenon DEF Is
    <3>3. Len(out) <= p /\ Len(out) + 1 <= p
      BY <1>2, <2>4, <3>2, ZenonT(60)
    <3>4. /\ mid.requests = req
          /\ \/ mid.outcomes = out
             \/ /\ Len(out) + 1 <= Len(req)
                /\ mid.outcomes = Append(out, <<req[Len(out) + 1], "success">>)
                /\ Len(mid.outcomes) = Len(out) + 1
      BY <1>6, <2>4, <3>1, <3>2, Zenon
    <3>5. new.outcomes = mid.outcomes \o Rest(req, Len(mid.outcomes))
      BY <1>7, <3>1, <3>4, Zenon
    <3>6. out \o Rest(req, Len(out)) \in Fates(req, out, p)
      BY <1>1, <3>3, FateOfError, Zenon
    <3>7. Len(out) + 1 <= Len(req)
          => Append(out, <<req[Len(out) + 1], "success">>)
                \o Rest(req, Len(out) + 1) \in Fates(req, out, p)
      BY <1>1, <3>3, FateOfClose, Zenon
    <3> QED
      BY <3>4, <3>5, <3>6, <3>7, Zenon
  <2> QED
    BY <1>4, <2>1, <2>2, <2>3, <2>4, Zenon DEF req, out
<1> QED
  BY <1>8, <1>9, Zenon DEF req, out, p

\* Two of these states that agree on every channel are the same.
LEMMA MappedSame ==
    ASSUME NEW k, NEW m
    PROVE  /\ (\A c \in Ids : RequestsIn(m)[c] = RequestsIn(k)[c])
              => RequestsIn(m) = RequestsIn(k)
           /\ (\A c \in Ids : OutcomesIn(m)[c] = OutcomesIn(k)[c])
              => OutcomesIn(m) = OutcomesIn(k)
           /\ DOMAIN RequestsIn(k) = Ids /\ DOMAIN OutcomesIn(k) = Ids
<1> DEFINE f == RequestsIn(k)
           g == RequestsIn(m)
           u == OutcomesIn(k)
           v == OutcomesIn(m)
<1>1. f = [c \in Ids |-> f[c]] /\ g = [c \in Ids |-> g[c]]
  BY Zenon DEF RequestsIn
<1>2. u = [c \in Ids |-> u[c]] /\ v = [c \in Ids |-> v[c]]
  BY Zenon DEF OutcomesIn
<1> HIDE DEF f, g, u, v
<1>3. (\A c \in Ids : g[c] = f[c]) => g = f
  BY <1>1
<1>4. (\A c \in Ids : v[c] = u[c]) => v = u
  BY <1>2
<1>5. DOMAIN f = Ids /\ DOMAIN u = Ids
  BY <1>1, <1>2
<1> QED
  BY <1>3, <1>4, <1>5, Zenon DEF f, g, u, v

\* A frame that parse() processes settles requests.
LEMMA ParseFrameSettles ==
    ASSUME RequestInv, ParseFrame
    PROVE  Abstract!Settle
<1>0. /\ Inv /\ Inv' /\ performed' = performed
  <2>1. Inv
    BY Zenon DEF RequestInv
  <2> QED
    BY <2>1, ParseFrameInv, Zenon DEF ParseFrame, serverVars
<1>1. ConnType(conn) /\ ConnType(conn')
  BY <1>0, Zenon DEF Inv, ConnInv
<1>2. /\ toClient # <<>> /\ Channels(conn') = Channels(conn)
      /\ \A c \in Channels(conn) : Settles(conn, conn', Head(toClient), c)
  BY FrameHandled, Zenon DEF Handled
<1>3. ASSUME NEW c \in Ids
      PROVE  /\ RequestsIn(conn')[c] = RequestsIn(conn)[c]
             /\ OutcomesIn(conn')[c] \in Abstract!Outcomes(c)
  <2>1. CASE c \in Channels(conn)
    <3>1. /\ conn'.channels[c].requests = conn.channels[c].requests
          /\ conn'.channels[c].outcomes
                \in Fates(conn.channels[c].requests, conn.channels[c].outcomes,
                          Len(performed[c]))
      BY <1>2, <2>1, SettlesFate, Zenon
    <3>2. /\ RequestsIn(conn)[c] = conn.channels[c].requests
          /\ OutcomesIn(conn)[c] = conn.channels[c].outcomes
          /\ RequestsIn(conn')[c] = conn'.channels[c].requests
          /\ OutcomesIn(conn')[c] = conn'.channels[c].outcomes
      BY <1>1, <1>2, <2>1, MappedChannel, Zenon
    <3>3. OutcomesIn(conn')[c]
              \in Fates(Requests[c], Outcomes[c], Len(performed[c]))
      BY <3>1, <3>2, MappedState, Zenon
    <3> QED
      BY <3>1, <3>2, <3>3, FateIsOutcome, Zenon
  <2>2. CASE c \notin Channels(conn)
    <3>1. /\ RequestsIn(conn)[c] = <<>> /\ OutcomesIn(conn)[c] = <<>>
          /\ RequestsIn(conn')[c] = <<>> /\ OutcomesIn(conn')[c] = <<>>
      BY <1>1, <1>2, <2>2, MappedChannel, Zenon
    <3>2. Outcomes[c] \in Fates(Requests[c], Outcomes[c], Len(performed[c]))
      BY FateOfNothing, Zenon
    <3>3. OutcomesIn(conn')[c]
              \in Fates(Requests[c], Outcomes[c], Len(performed[c]))
      BY <3>1, <3>2, MappedState, Zenon
    <3> QED
      BY <3>1, <3>3, FateIsOutcome, Zenon
  <2> QED
    BY <2>1, <2>2
<1>4. Requests' = Requests /\ DOMAIN Outcomes' = Ids
      /\ \A c \in Ids : Outcomes'[c] \in Abstract!Outcomes(c)
  BY <1>3, MappedSame, MappedState, Zenon
<1> QED
  BY <1>0, <1>4, Zenon DEF Abstract!Settle

\* A call of the application makes at most one request of each channel.
LEMMA ApplicationAccepts ==
    ASSUME RequestInv, Application
    PROVE  Abstract!Accept
<1>0. /\ Inv /\ Inv' /\ performed' = performed
  <2>1. Inv
    BY Zenon DEF RequestInv
  <2> QED
    BY <2>1, ApplicationInv, ApplicationLeaves, Zenon
<1>1. ConnType(conn) /\ ConnType(conn')
  BY <1>0, Zenon DEF Inv, ConnInv
<1>2. Asks(conn', conn)
  <2>1. ConnInv(conn) /\ Reliable(conn) /\ calls \in Nat
    BY <1>0, Zenon DEF Inv, ServerType, RequestInv
  <2> QED
    BY <2>1, ApplicationAsks, Zenon
<1>3. /\ \A c \in Channels(conn) : c \in Channels(conn')
      /\ \A c \in Channels(conn) :
            AskedOnce(conn.channels[c], conn'.channels[c])
      /\ \A c \in Channels(conn') \ Channels(conn) :
            conn'.channels[c].requests = <<>> /\ conn'.channels[c].outcomes = <<>>
  BY <1>2, Zenon DEF Asks, ChannelsGrow
<1>4. ASSUME NEW c \in Ids
      PROVE  LET old == RequestsIn(conn)[c]
                 new == RequestsIn(conn')[c]
             IN  /\ OutcomesIn(conn')[c] = OutcomesIn(conn)[c]
                 /\ \/ new = old
                    \/ Len(new) = Len(old) + 1 /\ IsPrefix(old, new)
  <2>1. CASE c \in Channels(conn)
    <3>1. /\ RequestsIn(conn)[c] = conn.channels[c].requests
          /\ OutcomesIn(conn)[c] = conn.channels[c].outcomes
          /\ RequestsIn(conn')[c] = conn'.channels[c].requests
          /\ OutcomesIn(conn')[c] = conn'.channels[c].outcomes
      BY <1>1, <1>3, <2>1, MappedChannel, Zenon
    <3>2. /\ conn'.channels[c].outcomes = conn.channels[c].outcomes
          /\ \/ conn'.channels[c].requests = conn.channels[c].requests
             \/ \E id \in Nat : conn'.channels[c].requests
                                = Append(conn.channels[c].requests, id)
      BY <1>3, <2>1, Zenon DEF AskedOnce
    <3>3. conn.channels[c].requests \in Seq(Nat)
      BY <2>1, PerformedAsked, Zenon
    <3>4. ASSUME NEW s \in Seq(Nat), NEW id \in Nat
          PROVE  Len(Append(s, id)) = Len(s) + 1 /\ IsPrefix(s, Append(s, id))
      <4>1. Append(s, id) = s \o <<id>> /\ <<id>> \in Seq(Nat)
            /\ Len(Append(s, id)) = Len(s) + 1
        OBVIOUS
      <4>2. IsPrefix(s, s \o <<id>>)
        BY <4>1, PrefixOfConcat
      <4> QED
        BY <4>1, <4>2, Zenon
    <3> QED
      BY <3>1, <3>2, <3>3, <3>4, Zenon
  <2>2. CASE c \notin Channels(conn)
    <3>1. RequestsIn(conn)[c] = <<>> /\ OutcomesIn(conn)[c] = <<>>
      BY <1>1, <2>2, MappedChannel, Zenon
    <3>2. RequestsIn(conn')[c] = <<>> /\ OutcomesIn(conn')[c] = <<>>
      <4>1. CASE c \in Channels(conn')
        <5>1. c \in Channels(conn') \ Channels(conn)
          BY <2>2, <4>1
        <5> QED
          BY <1>1, <1>3, <4>1, <5>1, MappedChannel, Zenon
      <4>2. CASE c \notin Channels(conn')
        BY <1>1, <4>2, MappedChannel, Zenon
      <4> QED
        BY <4>1, <4>2
    <3> QED
      BY <3>1, <3>2, Zenon
  <2> QED
    BY <2>1, <2>2
<1>5. Outcomes' = Outcomes /\ DOMAIN Requests' = Ids
  BY <1>4, MappedSame, MappedState, Zenon
<1>6. \A c \in Ids : \/ Requests'[c] = Requests[c]
                     \/ /\ Len(Requests'[c]) = Len(Requests[c]) + 1
                        /\ IsPrefix(Requests[c], Requests'[c])
  BY <1>4, MappedState, Zenon
<1> QED
  BY <1>0, <1>5, <1>6, Zenon DEF Abstract!Accept, Abstract!IsPrefix, IsPrefix

\* The server carries out the next request of a channel.
LEMMA CarriedPerforms ==
    ASSUME RequestInv, conn.wire # <<>>, ReadFrame, ~ gone,
           NEW c, c = NextFrame.channel, c # 0,
           NextFrame.name \in AskedNames, server[c] = "open",
           performed' = [performed EXCEPT ![c] = Append(@, NextFrame.id)]
    PROVE  c \in Ids /\ Abstract!Perform(c)
<1> DEFINE x == NextFrame
<1>1. PICK r : HasRead(conn, r, performed, server, gone)
  BY Zenon DEF RequestInv
<1> DEFINE R == OfChannel(r, c)
<1>2. x.name # "ChannelCloseOK"
  <2>1. "ChannelCloseOK" \notin AskedNames
    BY DEF AskedNames, Reply
  <2> QED
    BY <2>1
<1>3. /\ MeetsNext(r) /\ x \in AFrame /\ x.id \in Nat
      /\ c \in Ids /\ R \in Seq(AFrame) /\ performed[c] \in Seq(Nat)
      /\ Reads(R, performed[c], server[c], gone, c \in conn.attached)
      /\ Meets(R, x, conn.channels[c].requests)
  BY <1>1, <1>2, NextRead, Zenon
<1>4. c \in Channels(conn)
  <2>1. c \in Channels(conn) \cup {0}
    BY <1>3, Zenon DEF MeetsNext
  <2> QED
    BY <2>1
<1>5. Requests[c] = conn.channels[c].requests
  <2>1. ConnType(conn)
    BY Zenon DEF RequestInv, Inv, ConnInv
  <2> QED
    BY <1>3, <1>4, <2>1, MappedChannel, MappedState, Zenon
<1> DEFINE req == Requests[c]
           p == performed[c]
<1>6. p = AskedIn(R)
  BY <1>3, Zenon DEF Reads
<1>7. Begins(Append(p, x.id), req)
  <2>1. AskedIn(Append(R, x)) = Append(AskedIn(R), x.id)
    BY <1>3, AskedAppend, Zenon
  <2>2. Begins(AskedIn(Append(R, x)), req)
    BY <1>3, <1>5, Zenon DEF Meets
  <2> QED
    BY <1>6, <2>1, <2>2, Zenon
<1> HIDE DEF p, req, x
<1>8. p \in Seq(Nat) /\ x.id \in Nat
  BY <1>3, Zenon DEF p
<1>9. req \in Seq(Nat)
  BY <1>4, <1>5, PerformedAsked, Zenon DEF req
<1>10. Len(p) < Len(req) /\ req[Len(p) + 1] = x.id
  <2>1. Len(Append(p, x.id)) = Len(p) + 1 /\ Append(p, x.id)[Len(p) + 1] = x.id
        /\ Len(p) \in Nat /\ Len(req) \in Nat
    BY <1>8, <1>9
  <2>2. Len(Append(p, x.id)) <= Len(req)
        /\ \A n \in 1..Len(Append(p, x.id)) : Append(p, x.id)[n] = req[n]
    BY <1>7, Zenon DEF Begins
  <2>3. Len(p) + 1 <= Len(req)
    BY <2>1, <2>2
  <2>4. Len(p) + 1 \in 1..Len(Append(p, x.id))
    BY <2>1
  <2> QED
    BY <2>1, <2>2, <2>3, <2>4
<1>11. performed' = [performed EXCEPT
                         ![c] = Append(@, Requests[c][Len(@) + 1])]
  <2>1. performed' = [performed EXCEPT ![c] = Append(p, x.id)]
    BY Zenon DEF p, x
  <2> QED
    BY <1>10, <2>1, Zenon DEF p, req
<1>12. Requests' = Requests /\ Outcomes' = Outcomes
  <2>1. conn'.channels = conn.channels
    BY WireRead, Zenon DEF SameRest
  <2> QED
    BY <2>1, Zenon DEF Requests, Outcomes, Created
<1>13. Len(performed[c]) < Len(Requests[c])
  BY <1>10, Zenon DEF p, req
<1> QED
  BY <1>3, <1>11, <1>12, <1>13, Zenon DEF Abstract!Perform

\* A step of the server carries out one request of a channel, or none.
LEMMA ServerPerforms ==
    ASSUME RequestInv, Server
    PROVE  \/ \E c \in Ids : Abstract!Perform(c)
           \/ performed' = performed /\ Requests' = Requests
              /\ Outcomes' = Outcomes
<1> DEFINE x == NextFrame
           c == x.channel
<1>1. conn.wire # <<>> /\ ReadFrame
  BY Zenon DEF Server, ServerAnswers, ServerGets, ServerCloses
<1>2. \/ performed' = performed
      \/ /\ performed' = [performed EXCEPT ![c] = Append(@, x.id)]
         /\ ~ gone /\ x.name \in AskedNames /\ server[c] = "open"
  <2>1. CASE ServerAnswers
    <3>1. /\ performed' = IF c # 0 /\ x.name \in DOMAIN Reply
                             /\ x.name # "ChannelOpen"
                          THEN [performed EXCEPT ![c] = Append(@, x.id)]
                          ELSE performed
          /\ x.name # "ChannelOpen" => server[c] = "open"
          /\ ~ gone
      BY <2>1, Zenon DEF ServerAnswers
    <3>2. x.name \in DOMAIN Reply /\ x.name # "ChannelOpen"
          => x.name \in AskedNames
      BY DEF AskedNames
    <3> QED
      BY <3>1, <3>2, Zenon
  <2>2. CASE ServerGets
    <3>1. /\ x.name = "BasicGet" /\ server[c] = "open" /\ ~ gone
          /\ performed' = [performed EXCEPT ![c] = Append(@, x.id)]
      BY <2>2, Zenon DEF ServerGets
    <3> QED
      BY <3>1, ReplyNames
  <2>3. CASE ServerCloses
    <3>1. \/ performed' = performed
          \/ /\ x.name = "ChannelClose" /\ ~ gone
             /\ performed' = IF server[c] = "open"
                             THEN [performed EXCEPT ![c] = Append(@, x.id)]
                             ELSE performed
      BY <2>3, Zenon DEF ServerCloses
    <3>2. "ChannelClose" \in AskedNames
      BY DEF AskedNames
    <3> QED
      BY <3>1, <3>2, Zenon
  <2> QED
    BY <2>1, <2>2, <2>3, Zenon DEF Server
<1>3. Requests' = Requests /\ Outcomes' = Outcomes
  <2>1. conn'.channels = conn.channels
    BY <1>1, WireRead, Zenon DEF SameRest
  <2> QED
    BY <2>1, Zenon DEF Requests, Outcomes, Created
<1>4. ASSUME c = 0, performed' = [performed EXCEPT ![c] = Append(@, x.id)]
      PROVE  performed' = performed
  <2>1. performed \in [Ids -> Seq(Nat)] /\ 0 \notin Ids
    BY ParametersAssumption DEF Ids, RequestInv
  <2> QED
    BY <1>4, <2>1
<1>5. ASSUME c # 0, performed' = [performed EXCEPT ![c] = Append(@, x.id)],
             ~ gone, x.name \in AskedNames, server[c] = "open"
      PROVE  \E d \in Ids : Abstract!Perform(d)
  <2>1. c \in Ids /\ Abstract!Perform(c)
    BY <1>1, <1>5, CarriedPerforms, Zenon
  <2> QED
    BY <2>1, Zenon
<1> QED
  BY <1>2, <1>3, <1>4, <1>5, Zenon

\* Every step is one of RequestService or leaves its state as it is.
LEMMA RequestServiceNext ==
    ASSUME RequestInv, [Next]_vars
    PROVE  [Abstract!Next]_Abstract!vars
<1>1. CASE Application
  BY <1>1, ApplicationAccepts, Zenon DEF Abstract!Next
<1>2. CASE ParseFrame
  BY <1>2, ParseFrameSettles, Zenon DEF Abstract!Next
<1>3. CASE Server
  BY <1>3, ServerPerforms, Zenon DEF Abstract!Next, Abstract!vars
<1>4. CASE Parse \/ ServerSends \/ UNCHANGED vars
  <2>1. conn' = conn /\ performed' = performed
    BY <1>4, Zenon DEF Parse, ServerSends, vars, serverVars
  <2>2. Requests' = Requests /\ Outcomes' = Outcomes
    BY <2>1, Zenon DEF Requests, Outcomes, Created
  <2> QED
    BY <2>1, <2>2, Zenon DEF Abstract!vars
<1> QED
  BY <1>1, <1>2, <1>3, <1>4, Zenon DEF Next

\* At first nothing is asked for.
LEMMA RequestServiceInit ==
    ASSUME Init
    PROVE  Abstract!Init
<1>1. ConnType(conn) /\ Channels(conn) = {}
  <2>1. RequestInv /\ conn.nextFreeChannel = 1
    BY InitRequestInv DEF Init, OnData
  <2>2. ConnType(conn)
    BY <2>1, Zenon DEF RequestInv, Inv, ConnInv
  <2> QED
    BY <2>1, <2>2 DEF Channels
<1>2. \A c \in Ids : RequestsIn(conn)[c] = <<>> /\ OutcomesIn(conn)[c] = <<>>
  BY <1>1, MappedChannel, Zenon
<1> DEFINE f == RequestsIn(conn)
           g == OutcomesIn(conn)
<1>3. f = [c \in Ids |-> f[c]] /\ g = [c \in Ids |-> g[c]]
  BY Zenon DEF RequestsIn, OutcomesIn
<1> HIDE DEF f, g
<1>4. f = [c \in Ids |-> <<>>] /\ g = [c \in Ids |-> <<>>]
  <2>1. \A c \in Ids : f[c] = <<>> /\ g[c] = <<>>
    BY <1>2, Zenon DEF f, g
  <2> QED
    BY <1>3, <2>1
<1>5. performed = [c \in Ids |-> <<>>]
  BY Zenon DEF Init
<1> QED
  BY <1>4, <1>5, MappedState, Zenon DEF f, g, Abstract!Init

----------------------------------------------------------------------------
\* The Deferred objects keep their promise: every request has one outcome, in
\* the order of the calls, and a success is only reported for what the server
\* has carried out.
THEOREM RequestsImplemented == Spec => ImplementsRequests
<1>1. Init => Abstract!Init
  BY RequestServiceInit
<1>2. RequestInv /\ [Next]_vars => [Abstract!Next]_Abstract!vars
  BY RequestServiceNext
<1> QED
  BY <1>1, <1>2, RequestInvInvariant, PTL
     DEF Spec, ImplementsRequests, Abstract!Spec
================================================================================
