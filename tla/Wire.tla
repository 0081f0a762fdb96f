------------------------------ MODULE Wire -------------------------------
(***************************************************************************)
(* The code ts-proto generated for the messages of the three gRPC services *)
(* (api-gateway/src/proto/*.ts), written once for every descriptor: a      *)
(* message is built from a JSON object, encoded field by field, and        *)
(* decoded by the loop over tags.  The two ends of a call are deployed     *)
(* apart, so the writer's descriptor may be older or newer than the        *)
(* reader's.                                                               *)
(*                                                                         *)
(* A value is a number, 0 being the default of its kind ("", empty bytes,  *)
(* 0, false, undefined): only default or not, safe or not, and known or    *)
(* not matter to the code.  A repeated field is a sequence and a map a     *)
(* function.  The value of a nested message stands for its bytes, which    *)
(* the same code reads with the nested descriptor.                         *)
(***************************************************************************)
EXTENDS ProtoFields, FiniteSets, SequencesExt

CONSTANTS
    Pairs,      \* <<writer, reader>>: the descriptors at the two ends
    Samples(_), \* the messages sent between such a pair
    MaxSafe     \* Number.MAX_SAFE_INTEGER, which is -MIN_SAFE_INTEGER

(* A value fits its field, being a sequence, a map or a number; a message  *)
(* has a value for each field.                                             *)
Fits(f, v) ==
    CASE f.repeated     -> v \in Seq(Int)
      [] f.kind = "map" -> IsFiniteSet(DOMAIN v) /\ v = [k \in DOMAIN v |-> v[k]]
      [] OTHER          -> v \in Int

IsMessage(d, m) ==
    m = [i \in DOMAIN d |-> m[i]] /\ \A i \in DOMAIN d : Fits(d[i], m[i])

(* Field numbers, names and enumeration names are unique in a message, and *)
(* only strings and messages are repeated in the three .proto files.       *)
IsField(f) ==
    /\ f \in Field
    /\ f.repeated => f.kind \in {"string", "message"}
    /\ \A v, w \in DOMAIN f.enum : f.enum[v] = f.enum[w] => v = w

IsDescriptor(d) ==
    /\ d \in Seq(Field)
    /\ \A i \in DOMAIN d : IsField(d[i])
    /\ \A i, j \in DOMAIN d : d[i].name = d[j].name => i = j

WireType(f) ==
    IF f.kind \in {"int32", "int64", "bool", "enum"} THEN 0 ELSE 2

(* A field may come, go or change its wire type, but under one number and  *)
(* wire type it keeps its kind and stays single or repeated: decode would  *)
(* read an int64 as an int32 or a bool, and truncate it.                   *)
Compatible(d, e) ==
    \A i \in DOMAIN d \intersect DOMAIN e :
        WireType(d[i]) = WireType(e[i]) =>
            d[i].repeated = e[i].repeated /\ d[i].kind = e[i].kind

ASSUME WireAssumption ==
    /\ MaxSafe \in Nat \ {0}
    /\ \A p \in Pairs :
          /\ IsDescriptor(p[1]) /\ IsDescriptor(p[2]) /\ Compatible(p[1], p[2])
          /\ \A s \in Samples(p) : IsMessage(p[1], s)

VARIABLES
    pair,       \* the two descriptors of this message
    source,     \* what the caller puts into each field
    spelling,   \* how the keys of its JSON object are written; "" for a
                \* writer that fills the fields directly (the Go services)
    sent,       \* the message the writer encodes
    field,      \* the next field encode looks at
    wire,       \* the chunks written: [number, type, value]
    pos,        \* reader.pos: the chunks consumed
    message,    \* the message decode has built so far
    stage       \* "build", "encode", "decode", "done", "thrown"

codecVars == <<pair, source, spelling, sent, field, wire, pos, message, stage>>

Writer == pair[1]
Reader == pair[2]

(***************************************************************************)
(* createBase: the default of every field.                                 *)
(***************************************************************************)
EmptyMap == [k \in {} |-> 0]

Default(f) ==
    CASE f.repeated     -> << >>
      [] f.kind = "map" -> EmptyMap
      [] OTHER          -> 0

createBase(d) == [i \in DOMAIN d |-> Default(d[i])]

(***************************************************************************)
(* toJSON leaves defaults out, writes bytes as base64 and an enumeration   *)
(* by name; fromJSON takes a key in camelCase or else in snake_case, reads *)
(* what toJSON wrote, and maps an unknown name to UNRECOGNIZED, which is   *)
(* -1.  A JSON object is a function from <<key, spelling>>.                *)
(***************************************************************************)
EnumToJSON(f, v) == IF v + 1 \in DOMAIN f.enum THEN f.enum[v + 1] ELSE "UNRECOGNIZED"

EnumFromJSON(f, s) ==
    IF \E v \in DOMAIN f.enum : f.enum[v] = s
    THEN (CHOOSE v \in DOMAIN f.enum : f.enum[v] = s) - 1
    ELSE -1

ValueToJSON(f, v) ==
    CASE f.kind = "enum"  -> EnumToJSON(f, v)
      [] f.kind = "bytes" -> [base64 |-> v]
      [] OTHER            -> v

ValueFromJSON(f, j) ==
    CASE f.kind = "enum"  -> EnumFromJSON(f, j)
      [] f.kind = "bytes" -> j.base64
      [] OTHER            -> j

toJSON(d, m, sp) ==
    [k \in {<<d[i].name, sp>> : i \in {i \in DOMAIN d : m[i] # Default(d[i])}} |->
        LET i == CHOOSE i \in DOMAIN d : d[i].name = k[1]
        IN  ValueToJSON(d[i], m[i])]

(* Mutant: only the camelCase spelling is read.                            *)
fromJSON_CamelOnly(d, object) ==
    [i \in DOMAIN d |->
        LET camel == <<d[i].name, "camelCase">>
        IN  IF camel \in DOMAIN object THEN ValueFromJSON(d[i], object[camel])
            ELSE Default(d[i])]

fromJSON(d, object) ==
    [i \in DOMAIN d |->
        LET camel == <<d[i].name, "camelCase">>
            snake == <<d[i].name, "snake_case">>
        IN  CASE camel \in DOMAIN object -> ValueFromJSON(d[i], object[camel])
              [] camel \notin DOMAIN object /\ snake \in DOMAIN object
                     -> ValueFromJSON(d[i], object[snake])
              [] OTHER -> Default(d[i])]

(***************************************************************************)
(* What encode writes for one field: nothing for a default, one chunk for  *)
(* a value, one per element of a repeated field (its default elements      *)
(* included) and one per entry of a map.                                   *)
(***************************************************************************)
Chunk(d, i, v) == [number |-> i, type |-> WireType(d[i]), value |-> v]

EncodeField(d, i, v) ==
    CASE d[i].repeated      -> [k \in 1..Len(v) |-> Chunk(d, i, v[k])]
      [] d[i].kind = "map"  -> LET keys == SetToSeq(DOMAIN v)
                               IN  [k \in 1..Len(keys) |->
                                       Chunk(d, i, <<keys[k], v[keys[k]]>>)]
      [] OTHER              -> IF v = Default(d[i]) THEN << >>
                               ELSE <<Chunk(d, i, v)>>

(***************************************************************************)
(* The case of decode's switch that takes a chunk: the field of that       *)
(* number, when the tag has its wire type too.  Any other chunk is left to *)
(* reader.skip.                                                            *)
(***************************************************************************)
Taken(d, c) == c.number \in DOMAIN d /\ c.type = WireType(d[c.number])

Unsafe(v) == v > MaxSafe \/ v < -MaxSafe

longToNumberThrows(f, v) == f.kind = "int64" /\ Unsafe(v)

(* The value of a field after one more chunk of it: the last one stands,   *)
(* elements are appended, entries of a map set.                            *)
Absorb(f, old, v) ==
    CASE f.repeated     -> Append(old, v)
      [] f.kind = "map" -> [k \in DOMAIN old \union {v[1]} |->
                               IF k = v[1] THEN v[2] ELSE old[k]]
      [] OTHER          -> v

(* The requests the gateway builds from JSON hold numbers a double has     *)
(* already held, and only enumeration names of its own descriptor.         *)
FromJavaScript(d, m) ==
    \A i \in DOMAIN d :
        /\ d[i].kind = "int64" => ~Unsafe(m[i])
        /\ d[i].kind = "enum" => m[i] + 1 \in DOMAIN d[i].enum

CodecInit ==
    /\ pair \in Pairs
    /\ source \in Samples(pair)
    /\ spelling \in {"camelCase", "snake_case", ""}
    /\ spelling # "" => FromJavaScript(Writer, source)
    /\ sent = createBase(Writer)
    /\ field = 1
    /\ wire = << >>
    /\ pos = 0
    /\ message = createBase(Reader)
    /\ stage = "build"

(***************************************************************************)
(* The caller builds the message: M.fromJSON({...}) in the gateway, the    *)
(* struct literal in a Go service.                                         *)
(***************************************************************************)
Build ==
    /\ stage = "build"
    /\ sent' = IF spelling = "" THEN source
               ELSE fromJSON(Writer, toJSON(Writer, source, spelling))
    /\ stage' = "encode"
    /\ UNCHANGED <<pair, source, spelling, field, wire, pos, message>>

(* M.encode(message): the fields in the order of their numbers.            *)
Encode ==
    /\ stage = "encode"
    /\ field \in DOMAIN Writer
    /\ wire' = wire \o EncodeField(Writer, field, sent[field])
    /\ field' = field + 1
    /\ UNCHANGED <<pair, source, spelling, sent, pos, message, stage>>

(* .finish(), and the bytes travel to the other end.                       *)
Finish ==
    /\ stage = "encode"
    /\ field \notin DOMAIN Writer
    /\ stage' = "decode"
    /\ UNCHANGED <<pair, source, spelling, sent, field, wire, pos, message>>

(* One turn of decode's loop whose tag is that of a known field.           *)
DecodeTaken ==
    /\ stage = "decode"
    /\ pos < Len(wire)
    /\ LET c == wire[pos + 1]
           f == Reader[c.number]
       IN  /\ Taken(Reader, c)
           /\ IF longToNumberThrows(f, c.value)
              THEN stage' = "thrown" /\ UNCHANGED <<pos, message>>
              ELSE /\ message' = [message EXCEPT
                                     ![c.number] = Absorb(f, @, c.value)]
                   /\ pos' = pos + 1
                   /\ UNCHANGED stage
    /\ UNCHANGED <<pair, source, spelling, sent, field, wire>>

(* One turn that skips: a number or a wire type the reader does not know.  *)
(* No writer of a descriptor emits the tags 0 and end-group that would end *)
(* the loop early.                                                         *)
DecodeSkip ==
    /\ stage = "decode"
    /\ pos < Len(wire)
    /\ ~Taken(Reader, wire[pos + 1])
    /\ pos' = pos + 1
    /\ UNCHANGED <<pair, source, spelling, sent, field, wire, message, stage>>

(* reader.pos has reached the end: decode returns the message.             *)
DecodeReturn ==
    /\ stage = "decode"
    /\ pos = Len(wire)
    /\ stage' = "done"
    /\ UNCHANGED <<pair, source, spelling, sent, field, wire, pos, message>>

CodecNext == Build \/ Encode \/ Finish \/ DecodeTaken \/ DecodeSkip \/ DecodeReturn

CodecSpec == CodecInit /\ [][CodecNext]_codecVars

-----------------------------------------------------------------------------

(* The two ends agree on field i: same number, same wire type.             *)
Shared(i) ==
    /\ i \in DOMAIN Writer \intersect DOMAIN Reader
    /\ WireType(Writer[i]) = WireType(Reader[i])

(***************************************************************************)
(* Type correctness: the wire holds fields of the writer and the message   *)
(* has the fields of the reader.                                           *)
(***************************************************************************)
CodecTypeOK ==
    /\ stage \in {"build", "encode", "decode", "done", "thrown"}
    /\ field \in 1..(Len(Writer) + 1)
    /\ pos \in 0..Len(wire)
    /\ DOMAIN message = DOMAIN Reader
    /\ \A k \in DOMAIN wire : wire[k].number \in DOMAIN Writer

(***************************************************************************)
(* What arrives is what was meant: a decoded message has, in each field    *)
(* the two ends share, the value the caller put in (whichever spelling its *)
(* object used), and the default everywhere else; a field of a newer or    *)
(* retyped descriptor disturbs no other.  decode throws for a 64-bit value *)
(* that a double cannot hold, never hands such a value on rounded, and     *)
(* throws for nothing else (longToNumber).                                 *)
(***************************************************************************)
RoundTrip ==
    LET unsafe == \E i \in DOMAIN Reader :
                      Shared(i) /\ Reader[i].kind = "int64" /\ Unsafe(source[i])
    IN  /\ stage = "thrown" => unsafe
        /\ stage = "done" =>
               /\ ~unsafe
               /\ \A i \in DOMAIN Reader :
                      message[i] = IF Shared(i) THEN source[i] ELSE Default(Reader[i])

-----------------------------------------------------------------------------
(***************************************************************************)
(* Why what arrives is what was meant: the invariant of every step of the  *)
(* two loops.                                                              *)
(***************************************************************************)

(* The caller's object has become the message; encode runs before decode.  *)
InOrder ==
    /\ pair \in Pairs
    /\ source \in Samples(pair)
    /\ spelling \in {"camelCase", "snake_case", ""}
    /\ spelling # "" => FromJavaScript(Writer, source)
    /\ stage = "build" => field = 1 /\ wire = << >>
    /\ stage # "build" => sent = source
    /\ stage \in {"build", "encode"} => pos = 0 /\ message = createBase(Reader)
    /\ stage \in {"decode", "done", "thrown"} => field = Len(Writer) + 1

(* The chunks of field i, and where on the wire they are: in one piece     *)
(* after the first off chunks, and nowhere else.                           *)
Chunks(i) == EncodeField(Writer, i, sent[i])

LiesAt(i, off) ==
    /\ off + Len(Chunks(i)) <= Len(wire)
    /\ \A k \in 1..Len(Chunks(i)) : wire[off + k] = Chunks(i)[k]
    /\ \A k \in DOMAIN wire :
          wire[k].number = i => k \in (off + 1)..(off + Len(Chunks(i)))

(* A value of which n chunks have arrived.                                 *)
Part(f, v, n) ==
    CASE f.repeated     -> SubSeq(v, 1, n)
      [] f.kind = "map" -> [k \in {SetToSeq(DOMAIN v)[j] : j \in 1..n} |-> v[k]]
      [] OTHER          -> IF n = 0 THEN 0 ELSE v

(* How many of the chunks off + 1 .. off + n have been consumed.           *)
Consumed(off, n) ==
    CASE pos <= off    -> 0
      [] pos > off + n -> n
      [] OTHER         -> pos - off

(* The fields encode has been through are on the wire and nothing else is; *)
(* each has reached the message as far as its chunks have been consumed.   *)
WireHoldsFields ==
    /\ wire \in Seq(UNION {Range(Chunks(i)) : i \in DOMAIN Writer})
    /\ \A k \in DOMAIN wire : wire[k].number < field
    /\ \A i \in 1..(field - 1) : \E off \in 0..Len(wire) :
          /\ LiesAt(i, off)
          /\ Shared(i) =>
                message[i] = Part(Writer[i], sent[i], Consumed(off, Len(Chunks(i))))

(* What the ends do not share is left alone, and decode stops at the first *)
(* value that does not fit a double.                                       *)
Throws(c) == Taken(Reader, c) /\ longToNumberThrows(Reader[c.number], c.value)

OthersUntouched ==
    \A i \in DOMAIN Reader : ~Shared(i) => message[i] = Default(Reader[i])

StopsAtUnsafe ==
    /\ \A k \in 1..pos : ~Throws(wire[k])
    /\ stage = "thrown" => pos < Len(wire) /\ Throws(wire[pos + 1])
    /\ stage = "done" => pos = Len(wire)

WireInv ==
    CodecTypeOK /\ InOrder /\ WireHoldsFields /\ OthersUntouched /\ StopsAtUnsafe
==========================================================================
