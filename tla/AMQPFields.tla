----------------------------- MODULE AMQPFields -----------------------------
(***************************************************************************)
(* The field types of the AMQP-CPP library (numericfield.h, stringfield.h, *)
(* booleanset.h, decimalfield.h, table.h, array.h and field.h under        *)
(* AMQPSTL/amqpcpp): the size a field announces, the octets fill() adds to *)
(* an OutBuffer, and the constructor that reads the field back from a      *)
(* ReceivedFrame.                                                          *)
(*                                                                         *)
(* A field is a record [type, value].  A number is an integer (below 2^31, *)
(* the range of TLC's integers), a string or a body is the sequence of its *)
(* octets, a BooleanSet is its octet, a DecimalField is <<places, number>>,*)
(* a Table is the sequence of its <<name, field>> pairs in the order of    *)
(* the std::map that holds them, an Array is the sequence of its fields.   *)
(* Float and Double are left out: both sides copy their four or eight      *)
(* octets as they are.                                                     *)
(***************************************************************************)
EXTENDS Integers, Sequences, SequencesExt

\* The octets of each numeric type, and the types that carry a sign.
Width == [Octet |-> 1, UOctet |-> 1, Short |-> 2, UShort |-> 2, Long |-> 4,
          ULong |-> 4, LongLong |-> 8, ULongLong |-> 8, Timestamp |-> 8]
Numeric == DOMAIN Width
Signed == {"Octet", "Short", "Long", "LongLong"}

\* Field::typeID() of each class, as the character's code.
TypeID == [BooleanSet |-> 116, Octet |-> 98, UOctet |-> 66, Short |-> 85,
           UShort |-> 117, Long |-> 73, ULong |-> 105, LongLong |-> 76,
           ULongLong |-> 108, DecimalField |-> 68, ShortString |-> 115,
           LongString |-> 83, Array |-> 65, Timestamp |-> 84, Table |-> 70]

\* The switch of Field::decode, which names the class for a character.
DecodeType ==
    116 :> "BooleanSet" @@ 98 :> "Octet" @@ 66 :> "UOctet"
    @@ 85 :> "Short" @@ 117 :> "UShort" @@ 73 :> "Long"
    @@ 105 :> "ULong" @@ 76 :> "LongLong" @@ 108 :> "ULongLong"
    @@ 68 :> "DecimalField" @@ 115 :> "ShortString" @@ 83 :> "LongString"
    @@ 65 :> "Array" @@ 84 :> "Timestamp" @@ 70 :> "Table"

----------------------------------------------------------------------------
\* OutBuffer::add of a number (htobe16, htobe32, htobe64), two's complement.
BigEndian(width, value) ==
    [i \in 1..width |->
        IF width - i > 3 THEN IF value < 0 THEN 255 ELSE 0
                         ELSE (value \div 256^(width - i)) % 256]

\* be16toh, be32toh, be64toh of the octets, and the conversion to the type.
Number(type, octets) ==
    LET sign == IF type \in Signed /\ octets[1] > 127 THEN -1 ELSE 0
    IN  FoldLeft(LAMBDA n, octet : 256 * n + octet, sign, octets)

\* The numeric type in front of a string: UOctet or ULong.
LengthType(type) == IF type = "ShortString" THEN "UOctet" ELSE "ULong"

\* size() of a StringField, a Table and an Array, and of every field.
StringSize(type, value) == Width[LengthType(type)] + Len(value)

RECURSIVE Size(_, _)
TableSize(fields) ==
    FoldLeft(LAMBDA n, entry : n + StringSize("ShortString", entry[1]) + 1
                                 + Size(entry[2].type, entry[2].value),
             4, fields)

ArraySize(fields) ==
    FoldLeft(LAMBDA n, item : n + 1 + Size(item.type, item.value), 4, fields)

Size(type, value) ==
    CASE type \in Numeric -> Width[type]
      [] type = "BooleanSet" -> 1
      [] type = "DecimalField" -> 5
      [] type \in {"ShortString", "LongString"} -> StringSize(type, value)
      [] type = "Data" -> Len(value)
      [] type = "Table" -> TableSize(value)
      [] type = "Array" -> ArraySize(value)

\* fill(OutBuffer) of a StringField, a Table and an Array, and of every
\* field.  A length is cut to the width of the number that carries it.
StringFill(type, value) ==
    BigEndian(Width[LengthType(type)], Len(value)) \o value

RECURSIVE Fill(_, _)
TableFill(fields) ==
    FoldLeft(LAMBDA octets, entry :
                octets \o StringFill("ShortString", entry[1])
                       \o <<TypeID[entry[2].type]>>
                       \o Fill(entry[2].type, entry[2].value),
             BigEndian(4, TableSize(fields) - 4), fields)

ArrayFill(fields) ==
    FoldLeft(LAMBDA octets, item : octets \o <<TypeID[item.type]>>
                                          \o Fill(item.type, item.value),
             BigEndian(4, ArraySize(fields) - 4), fields)

Fill(type, value) ==
    CASE type \in Numeric -> BigEndian(Width[type], value)
      [] type = "BooleanSet" -> <<value>>
      [] type = "DecimalField" -> <<value[1]>> \o BigEndian(4, value[2])
      [] type \in {"ShortString", "LongString"} -> StringFill(type, value)
      [] type = "Data" -> value
      [] type = "Table" -> TableFill(value)
      [] type = "Array" -> ArrayFill(value)

----------------------------------------------------------------------------
\* What a read of a ReceivedFrame leaves: the value read, the octets skipped
\* so far, and whether FrameCheck threw "frame out of range".
Read(value, skip) == [ok |-> TRUE, value |-> value, skip |-> skip]
OutOfRange == [ok |-> FALSE, value |-> <<>>, skip |-> 0]

\* A read that goes on from the one before it, unless that one threw.  (The
\* set of one element has TLC evaluate read once.)
AndThen(read, next(_)) ==
    CHOOSE r \in {IF done.ok THEN next(done) ELSE done : done \in {read}} : TRUE

\* FrameCheck and the copy: the next size octets of the buffer.
NextOctets(octets, skip, size) ==
    IF Len(octets) - skip < size
    THEN OutOfRange
    ELSE Read(SubSeq(octets, skip + 1, skip + size), skip + size)

\* nextUint8 .. nextInt64 and nextData.
NextNumber(type, octets, skip) ==
    AndThen(NextOctets(octets, skip, Width[type]),
            LAMBDA read : Read(Number(type, read.value), read.skip))

\* StringField's receiving constructor: the length, then as many octets.
StringReceive(type, octets, skip) ==
    AndThen(NextNumber(LengthType(type), octets, skip), LAMBDA length :
        NextOctets(octets, length.skip, length.value))

\* The receiving constructor of each class.  Table and Array count down the
\* octets they announced and stop only at zero, as their loops do.
RECURSIVE Receive(_, _, _), TableLoop(_, _, _, _), ArrayLoop(_, _, _, _)
Receive(type, octets, skip) ==
    CASE type \in Numeric -> NextNumber(type, octets, skip)
      [] type = "BooleanSet" -> NextNumber("UOctet", octets, skip)
      [] type = "DecimalField" ->
            AndThen(NextNumber("UOctet", octets, skip), LAMBDA places :
            AndThen(NextNumber("ULong", octets, places.skip), LAMBDA number :
                Read(<<places.value, number.value>>, number.skip)))
      [] type \in {"ShortString", "LongString"} ->
            StringReceive(type, octets, skip)
      [] type = "Table" ->
            AndThen(NextNumber("ULong", octets, skip), LAMBDA length :
                TableLoop(octets, length.skip, length.value, <<>>))
      [] type = "Array" ->
            AndThen(NextNumber("ULong", octets, skip), LAMBDA length :
                ArrayLoop(octets, length.skip, length.value, <<>>))

\* Field::decode: the class is chosen by the character in front of the field.
Decode(octets, skip) ==
    AndThen(NextNumber("UOctet", octets, skip), LAMBDA id :
        IF id.value \notin DOMAIN DecodeType
        THEN Read([type |-> "unknown", value |-> <<>>], id.skip)
        ELSE AndThen(Receive(DecodeType[id.value], octets, id.skip),
                LAMBDA field : Read([type |-> DecodeType[id.value],
                                     value |-> field.value], field.skip)))

TableLoop(octets, skip, bytesToRead, fields) ==
    IF bytesToRead = 0 THEN Read(fields, skip) ELSE
    AndThen(StringReceive("ShortString", octets, skip), LAMBDA name :
    AndThen(Decode(octets, name.skip), LAMBDA field :
        LET afterName == bytesToRead - (StringSize("ShortString", name.value) + 1)
        IN  IF field.value.type = "unknown"
            THEN TableLoop(octets, field.skip, afterName, fields)
            ELSE TableLoop(octets, field.skip,
                    afterName - Size(field.value.type, field.value.value),
                    Append(fields, <<name.value, field.value>>))))

ArrayLoop(octets, skip, charsToRead, fields) ==
    IF charsToRead = 0 THEN Read(fields, skip) ELSE
    AndThen(Decode(octets, skip), LAMBDA field :
        IF field.value.type = "unknown"
        THEN ArrayLoop(octets, field.skip, charsToRead - 1, fields)
        ELSE ArrayLoop(octets, field.skip,
                charsToRead - 1 - Size(field.value.type, field.value.value),
                Append(fields, field.value)))
=============================================================================
