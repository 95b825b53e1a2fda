---------------------------- MODULE MCFrameCodec ----------------------------
(***************************************************************************)
(* The streams FrameCodec is checked on: every frame class with three      *)
(* choices of members, followed by a frame of another kind; a published    *)
(* message around the limit of one chunk; a string of the largest length a *)
(* ShortString can announce; and four streams the parser must refuse.      *)
(***************************************************************************)
EXTENDS FrameCodec

Text == <<65, 77, 81>>
Field(type, value) == [type |-> type, value |-> value]

\* A table with a field of every class, one inside another.
Nested == << <<<<97>>, Field("Table", << <<<<98>>, Field("BooleanSet", 1)>> >>)>>,
             <<<<99>>, Field("Array", <<Field("ShortString", Text),
                                        Field("DecimalField", <<2, 314>>)>>)>>,
             <<<<100>>, Field("LongString", Text)>>,
             <<<<101>>, Field("Octet", -1)>>, <<<<102>>, Field("UOctet", 255)>>,
             <<<<103>>, Field("Short", -2)>>, <<<<104>>, Field("UShort", 65535)>>,
             <<<<105>>, Field("Long", -70000)>>,
             <<<<106>>, Field("ULong", 70000)>>,
             <<<<107>>, Field("LongLong", -3)>>,
             <<<<108>>, Field("ULongLong", 65536)>>,
             <<<<109>>, Field("Timestamp", 256)>> >>

\* The three choices of the i-th member: the least, a usual one, a large one.
\* Two members of a frame have different values, and so do two properties of a
\* message, for an exchange of the two to be seen.
Sample(type, k, i) ==
    CASE type = "UOctet" -> <<0, 9 + i, 255>>[k]
      [] type = "Short" -> <<0, 258, -2>>[k]
      [] type = "UShort" -> <<0, 258 + i, 65535 - i>>[k]
      [] type = "Long" -> <<0, 70000, -70000>>[k]
      [] type = "ULong" -> <<0, 70000 + i, 2147483647>>[k]
      [] type = "LongLong" -> <<0, 70000, -70000>>[k]
      [] type = "ULongLong" -> <<0, 70000, 2147483647>>[k]
      [] type = "BooleanSet" -> <<0, 5, 31>>[k]
      [] type \in {"ShortString", "LongString"} -> <<<<>>, <<64 + i>>, Text \o <<64 + i>>>>[k]
      [] type = "Table" -> <<<<>>, << <<<<97>>, Field("BooleanSet", 1)>> >>, Nested>>[k]
      [] type = "Data" -> <<<<>>, Text, <<206, 206>>>>[k]
      [] type = "MetaData" -> <<<<>>,
            [deliveryMode |-> 2, contentType |-> Text, timestamp |-> 5],
            [p \in DOMAIN PropertyBit |->
                CASE PropertyType[p] = "ShortString" ->
                          <<64 + 8 * PropertyBit[p][1] + PropertyBit[p][2]>>
                  [] PropertyType[p] = "UOctet" -> PropertyBit[p][2]
                  [] PropertyType[p] = "Timestamp" -> 70000
                  [] PropertyType[p] = "Table" -> << <<<<97>>, Field("Short", -1)>> >>]
            >>[k]

\* The members every sending constructor sets to nothing or to zero.
Constant == {"deprecatedKnownHosts", "deprecatedCapabilities",
             "deprecatedInsist", "deprecated", "unused", "reserved", "weight",
             "prefetchSize"}

Example(name, k) ==
    LET members == Frames[name].receive
        position(m) == CHOOSE i \in DOMAIN members : members[i][2] = m
    IN  [name |-> name, channel |-> IF Frames[name].classID = 10 THEN 0 ELSE k,
         values |-> [m \in {f[2] : f \in ToSet(members)} |->
                        Sample(members[position(m)][1],
                               IF m \in Constant THEN 1 ELSE k, position(m))]]

Other == {"ProtocolHeader"}
ToClient == {n \in DOMAIN Frames : Frames[n].process # "unimplemented"}
ToServer == (DOMAIN Frames \ ToClient) \ Other
Stream(whom, max, frames) == [to |-> whom, maxFrame |-> max, frames |-> frames]

Long_(n) == [i \in 1..n |-> 113]

MCScripts ==
    {Stream("client", 400, <<Example(n, k), Example("ChannelCloseOK", 1)>>) :
        n \in ToClient, k \in 1..3}
    \cup {Stream("server", 400, <<Example(n, k), Example("BasicAck", 3)>>) :
        n \in ToServer, k \in 1..3}
    \cup {Stream("server", 40, Publish(1, Example("BasicPublish", 2).values,
                                       <<>>, Long_(n), 32)) :
        n \in {0, 32, 33, 65}}
    \cup {Stream("client", 0, <<[Example("ConnectionClose", 2)
                                 EXCEPT !.values.text = Long_(255)]>>),
          Stream("client", 4096,
                 <<[name |-> "ProtocolHeader", channel |-> 0,
                    values |-> [protocol |-> <<65, 77, 81, 80, 0>>,
                                protocolIDMajor |-> 0, protocolIDMinor |-> 9,
                                revision |-> 1]]>>),
          Stream("client", 400, <<Example("ConnectionSecure", 2)>>),
          Stream("client", 24, <<Example("ChannelOpenOK", 1),
                                 Example("ConnectionClose", 3)>>),
          Stream("client", 20, <<Example("Body", 2),
                                 Example("ConnectionClose", 3)>>)}
=============================================================================
