-------------------------- MODULE ApiGateway_proofs --------------------------
(***************************************************************************)
(* The API gateway: the messages it exchanges with the services and the    *)
(* requests it forwards.                                                   *)
(*                                                                         *)
(* Wire, for every pair of descriptors and every message of the writer's:  *)
(* what arrives is what was meant, as WireInv is an invariant of encode's  *)
(* and decode's loops.  Gateway, for any number of requests in flight, any *)
(* traffic on the routes of the router, any window and any maximum, with   *)
(* Redis errors, outages and crashes: answers tell the effect, and the     *)
(* limiter counts right.                                                   *)
(***************************************************************************)
EXTENDS ApiGateway, SequenceTheorems, FiniteSetTheorems, TLAPS

------------------------------------------------------------------------------
(* The messages between the gateway and the services.                      *)

(***************************************************************************)
(* Object.entries: the keys of a map in some order, each exactly once.     *)
(***************************************************************************)
LEMMA KeyOrder ==
    ASSUME NEW S, IsFiniteSet(S)
    PROVE  /\ Cardinality(S) \in Nat
           /\ SetToSeq(S) \in [1..Cardinality(S) -> S]
           /\ Len(SetToSeq(S)) = Cardinality(S)
           /\ \A j, k \in 1..Cardinality(S) :
                 SetToSeq(S)[j] = SetToSeq(S)[k] => j = k
           /\ \A s \in S : \E k \in 1..Cardinality(S) : SetToSeq(S)[k] = s
  <1> DEFINE n == Cardinality(S)
             D == 1..n
  <1>1. n \in Nat
        BY FS_CardinalityType
  <1>2. IsFiniteSet(D) /\ Cardinality(D) = n
        BY <1>1, FS_Interval
  <1>3. ExistsBijection(D, S)
        BY <1>2, FS_SameCardinalityBij
  <1>4. \E f \in [D -> S] : IsInjective(f)
        BY <1>3 DEF ExistsBijection, Bijection, Injection, IsInjective
  <1> DEFINE q == SetToSeq(S)
  <1>5. q \in [D -> S] /\ IsInjective(q)
        BY <1>4 DEF SetToSeq
  <1> HIDE DEF q, D
  <1>6. q \in Injection(D, S)
        BY <1>5 DEF Injection, IsInjective
  <1>7. q \in Surjection(D, S)
        BY <1>2, <1>6, FS_Injection
  <1>8. \A s \in S : \E k \in D : q[k] = s
        BY <1>7 DEF Surjection
  <1>9. \A j, k \in D : q[j] = q[k] => j = k
        BY <1>5 DEF IsInjective
  <1> USE DEF D
  <1>10. q \in Seq(S) /\ Len(q) = n
        BY <1>1, <1>5
  <1> QED
        BY <1>1, <1>5, <1>8, <1>9, <1>10 DEF q

(***************************************************************************)
(* What encode writes for a field is a sequence of chunks with its number  *)
(* and its wire type.                                                      *)
(***************************************************************************)
LEMMA FieldChunks ==
    ASSUME NEW d, NEW i, NEW v, Fits(d[i], v), IsField(d[i])
    PROVE  /\ EncodeField(d, i, v) \in Seq(Range(EncodeField(d, i, v)))
           /\ \A k \in 1..Len(EncodeField(d, i, v)) :
                 /\ EncodeField(d, i, v)[k].number = i
                 /\ EncodeField(d, i, v)[k].type = WireType(d[i])
  <1> DEFINE e == EncodeField(d, i, v)
  <1>1. CASE d[i].repeated
    <2>1. Len(v) \in Nat
          BY <1>1 DEF IsField, Field, Fits
    <2>2. e = [k \in 1..Len(v) |-> Chunk(d, i, v[k])]
          BY <1>1 DEF IsField, Field, EncodeField
    <2> QED
          BY <2>1, <2>2 DEF Chunk, Range
  <1>2. CASE ~d[i].repeated /\ d[i].kind = "map"
    <2> DEFINE q == SetToSeq(DOMAIN v)
    <2>1. Len(q) \in Nat
          BY <1>2, KeyOrder DEF Fits
    <2>2. e = [k \in 1..Len(q) |-> Chunk(d, i, <<q[k], v[q[k]]>>)]
          BY <1>2 DEF EncodeField
    <2> HIDE DEF q
    <2>3. /\ DOMAIN e = 1..Len(q)
          /\ \A k \in 1..Len(q) : e[k].number = i /\ e[k].type = WireType(d[i])
          BY <2>2 DEF Chunk
    <2>4. e = [k \in 1..Len(q) |-> e[k]]
          BY <2>2
    <2> HIDE DEF e
    <2>5. e \in Seq(Range(e)) /\ Len(e) = Len(q)
          BY <2>1, <2>3, <2>4 DEF Range
    <2> QED
          BY <2>3, <2>5 DEF e
  <1>3. CASE ~d[i].repeated /\ d[i].kind # "map"
    <2>1. e = IF v = Default(d[i]) THEN << >> ELSE <<Chunk(d, i, v)>>
          BY <1>3 DEF EncodeField
    <2>2. CASE v = Default(d[i])
      <3>1. e = << >>
            BY <2>1, <2>2
      <3> QED
            BY <3>1
    <2>3. CASE v # Default(d[i])
      <3> DEFINE c == Chunk(d, i, v)
      <3>1. e = <<c>> /\ c.number = i /\ c.type = WireType(d[i])
            BY <2>1, <2>3 DEF Chunk
      <3> HIDE DEF c, e
      <3>2. e \in Seq(Range(e)) /\ Len(e) = 1 /\ e[1] = c
            BY <3>1 DEF Range
      <3> QED
            BY <3>1, <3>2 DEF e
    <2> QED
          BY <2>2, <2>3
  <1> QED
        BY <1>1, <1>2, <1>3

(***************************************************************************)
(* Before its first chunk a field has its default.                         *)
(***************************************************************************)
LEMMA PartNone ==
    ASSUME NEW f, IsField(f), NEW v, Fits(f, v)
    PROVE  Part(f, v, 0) = Default(f)
  <1>1. CASE f.repeated
    <2>1. v \in Seq(Int) /\ Default(f) = << >> /\ Part(f, v, 0) = SubSeq(v, 1, 0)
          BY <1>1 DEF IsField, Field, Fits, Part, Default
    <2> QED
          BY <2>1
  <1>2. CASE ~f.repeated /\ f.kind = "map"
        BY <1>2 DEF Fits, Part, Default, EmptyMap
  <1>3. CASE ~f.repeated /\ f.kind # "map"
        BY <1>3 DEF Part, Default
  <1> QED
        BY <1>1, <1>2, <1>3

(***************************************************************************)
(* After its last chunk a field has the value that was sent, and a single  *)
(* field with a value other than the default has one chunk.                *)
(***************************************************************************)
LEMMA PartAll ==
    ASSUME NEW d, NEW i, NEW v, Fits(d[i], v), IsField(d[i])
    PROVE  Part(d[i], v, Len(EncodeField(d, i, v))) = v
  <1> DEFINE e == EncodeField(d, i, v)
  <1>1. CASE d[i].repeated
    <2>1. v \in Seq(Int) /\ Len(v) \in Nat
          BY <1>1 DEF IsField, Field, Fits
    <2>2. e = [k \in 1..Len(v) |-> Chunk(d, i, v[k])]
          BY <1>1 DEF IsField, Field, EncodeField
    <2>3. Len(e) = Len(v)
          BY <2>1, <2>2
    <2>4. Part(d[i], v, Len(e)) = SubSeq(v, 1, Len(v))
          BY <1>1, <2>3 DEF IsField, Field, Part
    <2> QED
          BY <2>1, <2>4
  <1>2. CASE ~d[i].repeated /\ d[i].kind = "map"
    <2> DEFINE q == SetToSeq(DOMAIN v)
    <2> DEFINE n == Cardinality(DOMAIN v)
    <2>0. IsFiniteSet(DOMAIN v)
          BY <1>2 DEF Fits
    <2>1. /\ Len(q) \in Nat
          /\ {q[k] : k \in 1..Len(q)} = DOMAIN v
      <3>1. /\ n \in Nat
            /\ q \in [1..n -> DOMAIN v]
            /\ Len(q) = n
            /\ \A s \in DOMAIN v : \E k \in 1..n : q[k] = s
            BY <2>0, KeyOrder
      <3> HIDE DEF q, n
      <3> QED
            BY <3>1
    <2>2. e = [k \in 1..Len(q) |-> Chunk(d, i, <<q[k], v[q[k]]>>)]
          BY <1>2 DEF EncodeField
    <2>3. Part(d[i], v, Len(e)) = [x \in {q[k] : k \in 1..Len(e)} |-> v[x]]
          BY <1>2 DEF Part
    <2>4. v = [x \in DOMAIN v |-> v[x]]
          BY <1>2 DEF Fits
    <2> HIDE DEF q
    <2>5. Len(e) = Len(q)
          BY <2>1, <2>2
    <2> QED
          BY <2>1, <2>3, <2>4, <2>5
  <1>3. CASE ~d[i].repeated /\ d[i].kind # "map"
    <2>1. e = IF v = Default(d[i]) THEN << >> ELSE <<Chunk(d, i, v)>>
          BY <1>3 DEF EncodeField
    <2>2. CASE v = Default(d[i])
          BY <1>3, <2>1, <2>2 DEF Part, Default
    <2>3. CASE v # Default(d[i])
      <3>1. Len(e) = 1
            BY <2>1, <2>3
      <3> QED
            BY <1>3, <3>1 DEF Part
    <2> QED
          BY <2>2, <2>3
  <1> QED
        BY <1>1, <1>2, <1>3

(***************************************************************************)
(* One turn of decode's loop brings a field one chunk further, whichever   *)
(* of the two descriptors has the case: both have the field single,        *)
(* repeated or a map.                                                      *)
(***************************************************************************)
LEMMA PartMore ==
    ASSUME NEW d, NEW i, NEW v, Fits(d[i], v), IsField(d[i]),
           NEW g, IsField(g), g.repeated = d[i].repeated,
           g.kind = "map" <=> d[i].kind = "map",
           NEW k \in 1..Len(EncodeField(d, i, v))
    PROVE  Absorb(g, Part(d[i], v, k - 1), EncodeField(d, i, v)[k].value)
               = Part(d[i], v, k)
  <1> DEFINE e == EncodeField(d, i, v)
  <1>1. CASE d[i].repeated
    <2>1. v \in Seq(Int) /\ Len(v) \in Nat
          BY <1>1 DEF IsField, Field, Fits
    <2>2. e = [j \in 1..Len(v) |-> Chunk(d, i, v[j])]
          BY <1>1 DEF IsField, Field, EncodeField
    <2>3. k \in 1..Len(v) /\ e[k].value = v[k]
          BY <2>1, <2>2 DEF Chunk
    <2>4. Part(d[i], v, k - 1) = SubSeq(v, 1, k - 1)
          BY <1>1 DEF IsField, Field, Part
    <2>5. Part(d[i], v, k) = SubSeq(v, 1, k)
          BY <1>1 DEF IsField, Field, Part
    <2>6. Absorb(g, SubSeq(v, 1, k - 1), v[k]) = Append(SubSeq(v, 1, k - 1), v[k])
          BY <1>1 DEF IsField, Field, Absorb
    <2>7. Append(SubSeq(v, 1, k - 1), v[k]) = SubSeq(v, 1, k)
          BY <2>1, <2>3
    <2> QED
          BY <2>3, <2>4, <2>5, <2>6, <2>7
  <1>2. CASE ~d[i].repeated /\ d[i].kind = "map"
    <2> DEFINE q == SetToSeq(DOMAIN v)
    <2>1. /\ Len(q) \in Nat
          /\ \A j, l \in 1..Len(q) : q[j] = q[l] => j = l
          BY <1>2, KeyOrder DEF Fits
    <2>2. e = [j \in 1..Len(q) |-> Chunk(d, i, <<q[j], v[q[j]]>>)]
          BY <1>2 DEF EncodeField
    <2>3. Part(d[i], v, k - 1) = [x \in {q[j] : j \in 1..(k - 1)} |-> v[x]]
          BY <1>2 DEF Part
    <2>4. Part(d[i], v, k) = [x \in {q[j] : j \in 1..k} |-> v[x]]
          BY <1>2 DEF Part
    <2> HIDE DEF q
    <2>5. k \in 1..Len(q) /\ e[k].value = <<q[k], v[q[k]]>>
          BY <2>1, <2>2 DEF Chunk
    <2> DEFINE old == [x \in {q[j] : j \in 1..(k - 1)} |-> v[x]]
    <2>6. Absorb(g, old, <<q[k], v[q[k]]>>)
              = [x \in DOMAIN old \union {q[k]} |->
                    IF x = q[k] THEN v[q[k]] ELSE old[x]]
          BY <1>2 DEF Absorb
    <2>7. {q[j] : j \in 1..(k - 1)} \union {q[k]} = {q[j] : j \in 1..k}
          BY <2>1, <2>5
    <2>8. [x \in DOMAIN old \union {q[k]} |-> IF x = q[k] THEN v[q[k]] ELSE old[x]]
              = [x \in {q[j] : j \in 1..k} |-> v[x]]
          BY <2>7
    <2> QED
          BY <2>3, <2>4, <2>5, <2>6, <2>8
  <1>3. CASE ~d[i].repeated /\ d[i].kind # "map"
    <2>1. e = IF v = Default(d[i]) THEN << >> ELSE <<Chunk(d, i, v)>>
          BY <1>3 DEF EncodeField
    <2>2. k = 1 /\ e[k].value = v
          BY <2>1 DEF Chunk
    <2> QED
          BY <1>3, <2>2 DEF Part, Absorb
  <1> QED
        BY <1>1, <1>2, <1>3

(***************************************************************************)
(* A value goes into a JSON object and comes back: base64 for bytes, the   *)
(* name for an enumeration's number.                                       *)
(***************************************************************************)
LEMMA ValueThroughJSON ==
    ASSUME NEW f, IsField(f), NEW v, Fits(f, v),
           f.kind = "enum" => v + 1 \in DOMAIN f.enum
    PROVE  ValueFromJSON(f, ValueToJSON(f, v)) = v
  <1>1. CASE f.kind = "enum"
    <2>1. v \in Int /\ v + 1 \in DOMAIN f.enum
          BY <1>1 DEF Fits, IsField, Field
    <2>2. ValueToJSON(f, v) = f.enum[v + 1]
          BY <1>1, <2>1 DEF ValueToJSON, EnumToJSON
    <2>3. \A w \in DOMAIN f.enum : f.enum[w] = f.enum[v + 1] => w = v + 1
          BY <2>1 DEF IsField
    <2> DEFINE x == CHOOSE w \in DOMAIN f.enum : f.enum[w] = f.enum[v + 1]
    <2>4. EnumFromJSON(f, f.enum[v + 1]) = x - 1
          BY <2>1 DEF EnumFromJSON
    <2>5. x = v + 1
          BY <2>1, <2>3
    <2> HIDE DEF x
    <2>6. EnumFromJSON(f, f.enum[v + 1]) = v
          BY <2>1, <2>4, <2>5
    <2> QED
          BY <1>1, <2>2, <2>6 DEF ValueFromJSON
  <1>2. CASE f.kind = "bytes"
        BY <1>2 DEF ValueFromJSON, ValueToJSON
  <1>3. CASE f.kind \notin {"enum", "bytes"}
        BY <1>3 DEF ValueFromJSON, ValueToJSON
  <1> QED
        BY <1>1, <1>2, <1>3

(***************************************************************************)
(* fromJSON reads what toJSON wrote, in either spelling of the keys.       *)
(***************************************************************************)
LEMMA ThroughJSON ==
    ASSUME NEW d, IsDescriptor(d), NEW m, IsMessage(d, m), FromJavaScript(d, m),
           NEW sp \in {"camelCase", "snake_case"}
    PROVE  fromJSON(d, toJSON(d, m, sp)) = m
  <1> DEFINE object == toJSON(d, m, sp)
             keys == {<<d[i].name, sp>> : i \in {i \in DOMAIN d : m[i] # Default(d[i])}}
             Position(k) == CHOOSE i \in DOMAIN d : d[i].name = k[1]
             Value(i) == LET camel == <<d[i].name, "camelCase">>
                             snake == <<d[i].name, "snake_case">>
                         IN  CASE camel \in DOMAIN object
                                      -> ValueFromJSON(d[i], object[camel])
                               [] camel \notin DOMAIN object /\ snake \in DOMAIN object
                                      -> ValueFromJSON(d[i], object[snake])
                               [] OTHER -> Default(d[i])
  <1>1. object = [k \in keys |-> ValueToJSON(d[Position(k)], m[Position(k)])]
        BY DEF toJSON
  <1>2. DOMAIN object = keys
        BY <1>1
  <1>3. \A i \in DOMAIN d : Position(<<d[i].name, sp>>) = i
        BY DEF IsDescriptor
  <1>4. \A i \in DOMAIN d : \A t : <<d[i].name, t>> \in keys <=>
                                       t = sp /\ m[i] # Default(d[i])
        BY DEF IsDescriptor
  <1>5. fromJSON(d, object) = [i \in DOMAIN d |-> Value(i)]
        BY DEF fromJSON
  <1>6. ASSUME NEW i \in DOMAIN d
        PROVE  Value(i) = m[i]
    <2>1. ValueFromJSON(d[i], ValueToJSON(d[i], m[i])) = m[i]
          BY ValueThroughJSON DEF IsDescriptor, IsMessage, FromJavaScript
    <2>2. CASE m[i] = Default(d[i])
      <3>1. /\ <<d[i].name, "camelCase">> \notin DOMAIN object
            /\ <<d[i].name, "snake_case">> \notin DOMAIN object
            BY <1>2, <1>4, <2>2
      <3> HIDE DEF object
      <3> QED
            BY <2>2, <3>1
    <2>3. CASE m[i] # Default(d[i])
      <3>1. /\ <<d[i].name, sp>> \in keys
            /\ Position(<<d[i].name, sp>>) = i
            BY <1>3, <1>4, <2>3
      <3> HIDE DEF keys, Position
      <3>2. object[<<d[i].name, sp>>] = ValueToJSON(d[i], m[i])
            BY <1>1, <3>1
      <3>3. \A t : <<d[i].name, t>> \in DOMAIN object <=> t = sp
            BY <1>2, <1>4, <2>3
      <3> HIDE DEF object
      <3>4. CASE sp = "camelCase"
            BY <2>1, <3>2, <3>3, <3>4
      <3>5. CASE sp = "snake_case"
        <4>1. "camelCase" # sp
              BY <3>5
        <4> QED
              BY <2>1, <3>2, <3>3, <3>5, <4>1
      <3> QED
            BY <3>4, <3>5
    <2> QED
          BY <2>2, <2>3
  <1>7. [i \in DOMAIN d |-> Value(i)] = [i \in DOMAIN d |-> m[i]]
    <2> HIDE DEF Value
    <2> QED
          BY <1>6
  <1> QED
        BY <1>5, <1>7 DEF IsMessage

------------------------------------------------------------------------------
(***************************************************************************)
(* The two ends, and the message between them.                             *)
(***************************************************************************)
LEMMA Ends ==
    ASSUME InOrder
    PROVE  /\ IsDescriptor(Writer) /\ IsDescriptor(Reader)
           /\ Compatible(Writer, Reader)
           /\ IsMessage(Writer, source)
           /\ Len(Writer) \in Nat /\ DOMAIN Writer = 1..Len(Writer)
           /\ Len(Reader) \in Nat /\ DOMAIN Reader = 1..Len(Reader)
           /\ \A i \in DOMAIN Writer : IsField(Writer[i])
           /\ \A i \in DOMAIN Reader : IsField(Reader[i])
  <1>1. /\ IsDescriptor(Writer) /\ IsDescriptor(Reader)
        /\ Compatible(Writer, Reader) /\ IsMessage(Writer, source)
        BY WireAssumption DEF InOrder, Writer, Reader
  <1>2. Writer \in Seq(Field) /\ Reader \in Seq(Field)
        BY <1>1 DEF IsDescriptor
  <1> QED
        BY <1>1, <1>2 DEF IsDescriptor

(* A field both ends take has one shape at both.                           *)
LEMMA SharedShape ==
    ASSUME InOrder, NEW i, Shared(i)
    PROVE  /\ i \in DOMAIN Writer /\ i \in DOMAIN Reader
           /\ IsField(Writer[i]) /\ IsField(Reader[i])
           /\ Reader[i].repeated = Writer[i].repeated
           /\ Reader[i].kind = Writer[i].kind
  BY Ends DEF Shared, Compatible

LEMMA SharedDefault ==
    ASSUME InOrder, NEW i, Shared(i)
    PROVE  Default(Reader[i]) = Default(Writer[i])
  <1>1. /\ Reader[i].repeated = Writer[i].repeated
        /\ Reader[i].kind = Writer[i].kind
        BY SharedShape
  <1>2. /\ Reader[i].repeated => Reader[i].kind # "map"
        /\ Writer[i].repeated => Writer[i].kind # "map"
        BY SharedShape DEF IsField
  <1> QED
        BY <1>1, <1>2 DEF Default

(* The fields' chunks once the message has been built.                     *)
LEMMA ChunksOf ==
    ASSUME InOrder, stage # "build", NEW i \in DOMAIN Writer
    PROVE  /\ Fits(Writer[i], sent[i])
           /\ Chunks(i) \in Seq(Range(Chunks(i)))
           /\ Len(Chunks(i)) \in Nat
           /\ \A k \in 1..Len(Chunks(i)) :
                 Chunks(i)[k].number = i /\ Chunks(i)[k].type = WireType(Writer[i])
  <1>1. Fits(Writer[i], sent[i]) /\ IsField(Writer[i])
        BY Ends DEF InOrder, IsMessage
  <1> QED
        BY <1>1, FieldChunks DEF Chunks

(* Each chunk on the wire belongs to a field of the writer.                *)
LEMMA ChunkOnWire ==
    ASSUME InOrder, stage # "build", WireHoldsFields, NEW k \in 1..Len(wire)
    PROVE  \E i \in DOMAIN Writer : \E j \in 1..Len(Chunks(i)) :
               /\ wire[k] = Chunks(i)[j]
               /\ wire[k].number = i /\ wire[k].type = WireType(Writer[i])
  <1>1. wire \in Seq(UNION {Range(Chunks(i)) : i \in DOMAIN Writer})
        BY DEF WireHoldsFields
  <1>2. wire[k] \in UNION {Range(Chunks(i)) : i \in DOMAIN Writer}
        BY <1>1
  <1>3. PICK i \in DOMAIN Writer : wire[k] \in Range(Chunks(i))
        BY <1>2
  <1>4. DOMAIN Chunks(i) = 1..Len(Chunks(i))
        BY ChunksOf
  <1>5. PICK j \in 1..Len(Chunks(i)) : wire[k] = Chunks(i)[j]
        BY <1>3, <1>4 DEF Range
  <1> QED
        BY <1>5, ChunksOf

(* decode takes a chunk exactly when the two ends share its field.         *)
LEMMA TakenIsShared ==
    ASSUME InOrder, stage # "build", WireHoldsFields, NEW k \in 1..Len(wire)
    PROVE  Taken(Reader, wire[k]) <=> Shared(wire[k].number)
  BY ChunkOnWire DEF Taken, Shared

(* A 64-bit field is single, so its only chunk is its value.               *)
LEMMA LongIsSingle ==
    ASSUME InOrder, stage # "build", NEW i, Shared(i), Reader[i].kind = "int64"
    PROVE  /\ sent[i] \in Int
           /\ Chunks(i) = IF sent[i] = 0 THEN << >> ELSE <<Chunk(Writer, i, sent[i])>>
  <1>1. i \in DOMAIN Writer /\ IsField(Writer[i]) /\ WireType(Writer[i]) = 0
        BY SharedShape DEF Shared, WireType
  <1>2. Writer[i].kind \in {"int32", "int64", "bool", "enum"}
        BY <1>1 DEF WireType
  <1>3. ~Writer[i].repeated /\ Writer[i].kind # "map"
        BY <1>1, <1>2 DEF IsField, Field
  <1>4. Fits(Writer[i], sent[i])
        BY <1>1, ChunksOf
  <1> QED
        BY <1>3, <1>4 DEF Fits, Chunks, EncodeField, Default

------------------------------------------------------------------------------
(* What the definitions are made of: as long as the ends and the message   *)
(* stay, so do the fields' chunks and what the ends share.                 *)
LEMMA SameEnds ==
    ASSUME UNCHANGED <<pair, sent>>
    PROVE  /\ Writer' = Writer /\ Reader' = Reader
           /\ \A i : Chunks(i)' = Chunks(i)
           /\ \A i : Shared(i)' = Shared(i)
  BY DEF Writer, Reader, Chunks, Shared

(* A turn of decode's loop leaves the count of a field alone unless the    *)
(* chunk is one of that field's.                                           *)
LEMMA ConsumedSame ==
    ASSUME pos \in Nat, pos' = pos + 1, NEW off \in Nat, NEW n \in Nat,
           pos + 1 \notin (off + 1)..(off + n)
    PROVE  Consumed(off, n)' = Consumed(off, n)
  BY DEF Consumed

LEMMA ConsumedNext ==
    ASSUME pos \in Nat, pos' = pos + 1, NEW off \in Nat, NEW n \in Nat,
           pos + 1 \in (off + 1)..(off + n)
    PROVE  /\ Consumed(off, n) = pos - off
           /\ Consumed(off, n)' = pos + 1 - off
           /\ pos + 1 - off \in 1..n
  BY DEF Consumed

(* Where nothing was encoded or decoded, the wire and the message stand.   *)
LEMMA NothingMoved ==
    ASSUME WireHoldsFields, OthersUntouched,
           UNCHANGED <<pair, sent, field, wire, pos, message>>
    PROVE  WireHoldsFields' /\ OthersUntouched'
  <1>1. /\ Writer' = Writer /\ Reader' = Reader
        /\ \A i : Chunks(i)' = Chunks(i)
        /\ \A i : Shared(i)' = Shared(i)
        BY SameEnds
  <1>2. \A i, off : LiesAt(i, off)' = LiesAt(i, off)
        BY <1>1 DEF LiesAt
  <1>3. \A off, n : Consumed(off, n)' = Consumed(off, n)
        BY DEF Consumed
  <1>4. OthersUntouched'
        BY <1>1 DEF OthersUntouched
  <1>5. WireHoldsFields'
        BY <1>1, <1>2, <1>3 DEF WireHoldsFields
  <1> QED
        BY <1>4, <1>5

(***************************************************************************)
(* The steps.                                                              *)
(***************************************************************************)
LEMMA WireInit ==
    CodecInit => WireInv
  <1> SUFFICES ASSUME CodecInit PROVE WireInv
        OBVIOUS
  <1>0. /\ field = 1 /\ wire = << >> /\ pos = 0
        /\ message = createBase(Reader) /\ stage = "build"
        BY DEF CodecInit
  <1>1. InOrder
        BY DEF CodecInit, InOrder
  <1>2. CodecTypeOK
        BY <1>0, <1>1, Ends DEF CodecTypeOK, createBase
  <1>3. WireHoldsFields
        BY <1>0 DEF WireHoldsFields
  <1>4. OthersUntouched
        BY <1>0 DEF OthersUntouched, createBase
  <1>5. StopsAtUnsafe
        BY <1>0 DEF StopsAtUnsafe
  <1> QED
        BY <1>1, <1>2, <1>3, <1>4, <1>5 DEF WireInv

(* The object the caller wrote becomes the message it meant.               *)
LEMMA BuildStep ==
    ASSUME WireInv, Build
    PROVE  WireInv'
  <1> USE DEF WireInv
  <1>0. /\ stage = "build" /\ stage' = "encode"
        /\ UNCHANGED <<pair, source, spelling, field, wire, pos, message>>
        BY DEF Build
  <1>1. Writer' = Writer /\ Reader' = Reader
        BY <1>0 DEF Writer, Reader
  <1>2. sent' = source
    <2>1. CASE spelling = ""
          BY <2>1 DEF Build
    <2>2. CASE spelling # ""
      <3>1. spelling \in {"camelCase", "snake_case"} /\ FromJavaScript(Writer, source)
            BY <2>2 DEF InOrder
      <3>2. IsDescriptor(Writer) /\ IsMessage(Writer, source)
            BY Ends
      <3>3. fromJSON(Writer, toJSON(Writer, source, spelling)) = source
            BY <3>1, <3>2, ThroughJSON
      <3> QED
            BY <2>2, <3>3 DEF Build
    <2> QED
          BY <2>1, <2>2
  <1>3. field = 1 /\ wire = << >> /\ pos = 0 /\ message = createBase(Reader)
        BY <1>0 DEF InOrder
  <1>4. InOrder'
        BY <1>0, <1>1, <1>2, <1>3 DEF InOrder
  <1>5. CodecTypeOK'
        BY <1>0, <1>1 DEF CodecTypeOK
  <1>6. WireHoldsFields'
        BY <1>0, <1>3 DEF WireHoldsFields
  <1>7. OthersUntouched'
        BY <1>0, <1>1, <1>3 DEF OthersUntouched, createBase
  <1>8. StopsAtUnsafe'
        BY <1>0, <1>3 DEF StopsAtUnsafe
  <1> QED
        BY <1>4, <1>5, <1>6, <1>7, <1>8

(* encode appends the chunks of the next field behind all the others.      *)
LEMMA EncodeStep ==
    ASSUME WireInv, Encode
    PROVE  WireInv'
  <1> USE DEF WireInv
  <1> DEFINE U == UNION {Range(Chunks(i)) : i \in DOMAIN Writer}
             n == Len(Chunks(field))
             m == Len(wire)
  <1>0. /\ stage = "encode" /\ field \in DOMAIN Writer
        /\ wire' = wire \o Chunks(field) /\ field' = field + 1
        /\ UNCHANGED <<pair, source, spelling, sent, pos, message, stage>>
        BY DEF Encode, Chunks
  <1>1. /\ Writer' = Writer /\ Reader' = Reader
        /\ \A i : Chunks(i)' = Chunks(i)
        /\ \A i : Shared(i)' = Shared(i)
        BY <1>0, SameEnds
  <1>2. /\ pos = 0 /\ message = createBase(Reader)
        /\ Len(Writer) \in Nat /\ DOMAIN Writer = 1..Len(Writer)
        /\ field \in 1..Len(Writer)
        BY <1>0, Ends DEF InOrder
  <1>3. /\ Fits(Writer[field], sent[field])
        /\ Chunks(field) \in Seq(Range(Chunks(field)))
        /\ n \in Nat
        /\ \A k \in 1..n : Chunks(field)[k].number = field
        BY <1>0, ChunksOf
  <1>4. wire \in Seq(U) /\ m \in Nat
        BY DEF WireHoldsFields
  <1>5. Chunks(field) \in Seq(U)
    <2>1. Range(Chunks(field)) \subseteq U
          BY <1>0
    <2> HIDE DEF U
    <2> QED
          BY <1>3, <2>1
  <1>6. /\ wire' \in Seq(U)
        /\ Len(wire') = m + n
        /\ DOMAIN wire' = 1..(m + n)
        /\ \A k \in 1..m : wire'[k] = wire[k]
        /\ \A k \in 1..n : wire'[m + k] = Chunks(field)[k]
    <2> HIDE DEF U
    <2> QED
          BY <1>0, <1>3, <1>4, <1>5
  <1>7. \A k \in 1..(m + n) :
            /\ k <= m => wire'[k] = wire[k] /\ wire[k].number < field
            /\ k > m => wire'[k].number = field
    <2> SUFFICES ASSUME NEW k \in 1..(m + n)
                 PROVE  /\ k <= m => wire'[k] = wire[k] /\ wire[k].number < field
                        /\ k > m => wire'[k].number = field
          OBVIOUS
    <2>1. DOMAIN wire = 1..m
          BY <1>4
    <2>2. k <= m => wire'[k] = wire[k] /\ wire[k].number < field
          BY <1>4, <1>6, <2>1 DEF WireHoldsFields
    <2>3. ASSUME k > m PROVE wire'[k].number = field
      <3>1. k - m \in 1..n /\ m + (k - m) = k
            BY <1>3, <1>4, <2>3
      <3>2. wire'[k] = Chunks(field)[k - m]
            BY <1>6, <3>1
      <3> QED
            BY <1>3, <3>1, <3>2
    <2> QED
          BY <2>2, <2>3
  <1>8. \A k \in DOMAIN wire' : wire'[k].number < field'
    <2> SUFFICES ASSUME NEW k \in 1..(m + n) PROVE wire'[k].number < field + 1
          BY <1>0, <1>6
    <2>1. CASE k <= m
      <3>1. k \in DOMAIN wire
            BY <1>4, <2>1
      <3>2. wire[k].number \in DOMAIN Writer
            BY <3>1 DEF CodecTypeOK
      <3> QED
            BY <1>2, <1>7, <2>1, <3>2
    <2>2. CASE k > m
          BY <1>2, <1>7, <2>2
    <2> QED
          BY <1>3, <1>4, <2>1, <2>2
  <1>9. ASSUME NEW i \in 1..(field - 1), NEW off \in 0..m, LiesAt(i, off)
        PROVE  LiesAt(i, off)'
    <2> DEFINE c == Len(Chunks(i))
    <2>1. i \in DOMAIN Writer /\ i # field
          BY <1>2
    <2>2. c \in Nat
          BY <1>0, <2>1, ChunksOf
    <2>3. /\ off + c <= m
          /\ \A k \in 1..c : wire[off + k] = Chunks(i)[k]
          /\ \A k \in 1..m : wire[k].number = i => k \in (off + 1)..(off + c)
          BY <1>4, <1>9 DEF LiesAt
    <2>4. off + c <= Len(wire')
          BY <1>3, <1>4, <1>6, <2>2, <2>3
    <2>5. \A k \in 1..c : wire'[off + k] = Chunks(i)[k]
      <3> SUFFICES ASSUME NEW k \in 1..c PROVE wire'[off + k] = Chunks(i)[k]
            OBVIOUS
      <3>1. off + k \in 1..m
            BY <1>4, <2>2, <2>3
      <3> QED
            BY <1>6, <2>3, <3>1
    <2>6. \A k \in DOMAIN wire' : wire'[k].number = i => k \in (off + 1)..(off + c)
      <3> SUFFICES ASSUME NEW k \in 1..(m + n), wire'[k].number = i
                   PROVE  k \in (off + 1)..(off + c)
            BY <1>6
      <3>1. k <= m
            BY <1>3, <1>4, <1>7, <2>1
      <3>2. k \in 1..m /\ wire[k].number = i
            BY <1>4, <1>7, <3>1
      <3> QED
            BY <2>3, <3>2
    <2> HIDE DEF c
    <2>7. Chunks(i)' = Chunks(i) /\ Len(Chunks(i))' = c
          BY <1>1 DEF c
    <2> QED
          BY <2>4, <2>5, <2>6, <2>7 DEF LiesAt
  <1>10. ASSUME NEW i, i = field, NEW off, off = m
        PROVE  LiesAt(i, off)'
    <2>1. /\ off + n <= Len(wire')
          /\ \A k \in 1..n : wire'[off + k] = Chunks(i)[k]
          BY <1>3, <1>4, <1>6, <1>10
    <2>2. \A k \in DOMAIN wire' : wire'[k].number = i => k \in (off + 1)..(off + n)
      <3> SUFFICES ASSUME NEW k \in 1..(m + n), wire'[k].number = i
                   PROVE  k \in (off + 1)..(off + n)
            BY <1>6
      <3>1. k > m
            BY <1>2, <1>3, <1>4, <1>7, <1>10
      <3> QED
            BY <1>3, <1>4, <1>10, <3>1
    <2>3. Chunks(i)' = Chunks(i) /\ Len(Chunks(i)') = n
          BY <1>1, <1>10
    <2> HIDE DEF n
    <2> QED
          BY <2>1, <2>2, <2>3 DEF LiesAt
  <1>11. ASSUME NEW i \in 1..field
         PROVE  \E off \in 0..(m + n) :
                   /\ LiesAt(i, off)'
                   /\ Shared(i) =>
                         message[i] = Part(Writer[i], sent[i],
                                           Consumed(off, Len(Chunks(i))))
    <2>1. CASE i # field
      <3>1. i \in 1..(field - 1)
            BY <1>2, <2>1
      <3>2. PICK off \in 0..m :
               /\ LiesAt(i, off)
               /\ Shared(i) =>
                     message[i] = Part(Writer[i], sent[i],
                                       Consumed(off, Len(Chunks(i))))
            BY <3>1 DEF WireHoldsFields
      <3>3. LiesAt(i, off)'
            BY <1>9, <3>1, <3>2
      <3>4. off \in 0..(m + n)
            BY <1>3, <1>4
      <3> QED
            BY <3>2, <3>3, <3>4
    <2>2. CASE i = field
      <3>1. PICK off : off = m
            OBVIOUS
      <3>2. LiesAt(i, off)'
            BY <1>10, <2>2, <3>1
      <3>3. off \in 0..(m + n)
            BY <1>3, <1>4, <3>1
      <3>4. ASSUME Shared(i)
            PROVE  message[i] = Part(Writer[i], sent[i], Consumed(off, Len(Chunks(i))))
        <4>1. Consumed(off, Len(Chunks(i))) = 0
              BY <1>2, <1>3, <1>4, <2>2, <3>1 DEF Consumed
        <4>2. i \in DOMAIN Reader /\ IsField(Writer[i])
              BY <3>4, SharedShape
        <4>3. message[i] = Default(Writer[i])
              BY <1>2, <3>4, <4>2, SharedDefault DEF createBase
        <4> QED
              BY <1>3, <2>2, <4>1, <4>2, <4>3, PartNone
      <3> QED
            BY <3>2, <3>3, <3>4
    <2> QED
          BY <2>1, <2>2
  <1>12. WireHoldsFields'
    <2>2. wire' \in Seq(UNION {Range(Chunks(i)') : i \in DOMAIN Writer'})
          BY <1>1, <1>6
    <2>3. field' - 1 = field
          BY <1>0, <1>2
    <2>4. \A i \in 1..(field' - 1) : \E off \in 0..Len(wire') :
             /\ LiesAt(i, off)'
             /\ Shared(i)' => message'[i] = Part(Writer'[i], sent'[i],
                                                 Consumed(off, Len(Chunks(i)))')
      <3> SUFFICES ASSUME NEW i \in 1..field
                   PROVE  \E off \in 0..(m + n) :
                             /\ LiesAt(i, off)'
                             /\ Shared(i)' =>
                                   message'[i] = Part(Writer'[i], sent'[i],
                                                      Consumed(off, Len(Chunks(i)))')
            BY <1>6, <2>3
      <3>1. PICK off \in 0..(m + n) :
               /\ LiesAt(i, off)'
               /\ Shared(i) =>
                     message[i] = Part(Writer[i], sent[i],
                                       Consumed(off, Len(Chunks(i))))
            BY <1>11
      <3>2. Consumed(off, Len(Chunks(i)))' = Consumed(off, Len(Chunks(i)))
            BY <1>0, <1>1 DEF Consumed
      <3> QED
            BY <1>0, <1>1, <3>1, <3>2
    <2> QED
          BY <1>8, <2>2, <2>4 DEF WireHoldsFields
  <1>13. CodecTypeOK'
    <2>1. field' \in 1..(Len(Writer') + 1)
          BY <1>0, <1>1, <1>2
    <2>2. \A k \in DOMAIN wire' : wire'[k].number \in DOMAIN Writer'
      <3> SUFFICES ASSUME NEW k \in 1..(m + n)
                   PROVE  wire'[k].number \in DOMAIN Writer
            BY <1>1, <1>6
      <3>1. CASE k <= m
        <4>1. k \in DOMAIN wire
              BY <1>4, <3>1
        <4> QED
              BY <1>7, <3>1, <4>1 DEF CodecTypeOK
      <3>2. CASE k > m
            BY <1>0, <1>7, <3>2
      <3> QED
            BY <1>3, <1>4, <3>1, <3>2
    <2>3. pos' \in 0..Len(wire')
          BY <1>0, <1>2, <1>3, <1>4, <1>6
    <2>4. /\ stage' \in {"build", "encode", "decode", "done", "thrown"}
          /\ DOMAIN message' = DOMAIN Reader'
          BY <1>0, <1>1 DEF CodecTypeOK
    <2> QED
          BY <2>1, <2>2, <2>3, <2>4 DEF CodecTypeOK
  <1>14. InOrder'
        BY <1>0, <1>1 DEF InOrder
  <1>15. OthersUntouched'
        BY <1>0, <1>1 DEF OthersUntouched
  <1>16. StopsAtUnsafe'
        BY <1>0, <1>2 DEF StopsAtUnsafe
  <1> QED
        BY <1>12, <1>13, <1>14, <1>15, <1>16

(* One chunk consumed: its field, when the two ends share it, is one chunk *)
(* further, and every other field is where it was.                         *)
LEMMA OneChunk ==
    ASSUME WireInv, stage = "decode", pos < Len(wire), pos' = pos + 1,
           UNCHANGED <<pair, source, spelling, sent, field, wire, stage>>,
           ~Throws(wire[pos + 1]),
           DOMAIN message' = DOMAIN Reader,
           \A i \in DOMAIN Reader :
               message'[i] = IF i = wire[pos + 1].number /\ Shared(i)
                             THEN Absorb(Reader[i], message[i], wire[pos + 1].value)
                             ELSE message[i]
    PROVE  WireInv'
  <1> USE DEF WireInv
  <1> DEFINE c == wire[pos + 1]
  <1>1. /\ Writer' = Writer /\ Reader' = Reader
        /\ \A i : Chunks(i)' = Chunks(i)
        /\ \A i : Shared(i)' = Shared(i)
        BY SameEnds
  <1>2. /\ Len(wire) \in Nat /\ DOMAIN wire = 1..Len(wire)
        BY DEF WireHoldsFields
  <1>3. pos \in Nat /\ pos + 1 \in 1..Len(wire)
        BY <1>2 DEF CodecTypeOK
  <1>4. \A i, off : LiesAt(i, off)' = LiesAt(i, off)
        BY <1>1 DEF LiesAt
  <1>5. field = Len(Writer) + 1 /\ Len(Writer) \in Nat
        /\ DOMAIN Writer = 1..Len(Writer)
        BY Ends DEF InOrder
  <1>6. ASSUME NEW i \in 1..(field - 1)
        PROVE  \E off \in 0..Len(wire) :
                  /\ LiesAt(i, off)
                  /\ Shared(i) => message'[i] = Part(Writer[i], sent[i],
                                                     Consumed(off, Len(Chunks(i)))')
    <2>0. PICK n : n = Len(Chunks(i))
          OBVIOUS
    <2>1. i \in DOMAIN Writer
          BY <1>5
    <2>2. PICK off \in 0..Len(wire) :
             /\ LiesAt(i, off)
             /\ Shared(i) => message[i] = Part(Writer[i], sent[i], Consumed(off, n))
          BY <2>0 DEF WireHoldsFields
    <2>3. n \in Nat /\ Fits(Writer[i], sent[i])
          BY <2>0, <2>1, ChunksOf
    <2>4. /\ off + n <= Len(wire)
          /\ \A k \in 1..n : wire[off + k] = Chunks(i)[k]
          /\ \A k \in 1..Len(wire) : wire[k].number = i => k \in (off + 1)..(off + n)
          BY <1>2, <2>0, <2>2 DEF LiesAt
    <2>5. off \in Nat
          BY <1>2
    <2>6. Consumed(off, Len(Chunks(i)))' = Consumed(off, n)'
          BY <1>1, <2>0 DEF Consumed
    <2>7. ASSUME Shared(i)
          PROVE  message'[i] = Part(Writer[i], sent[i], Consumed(off, n)')
      <3>1. /\ i \in DOMAIN Reader /\ IsField(Writer[i]) /\ IsField(Reader[i])
            /\ Reader[i].repeated = Writer[i].repeated
            /\ Reader[i].kind = Writer[i].kind
            BY <2>7, SharedShape
      <3>2. CASE pos + 1 \in (off + 1)..(off + n)
        <4>1. PICK k : k = pos + 1 - off
              OBVIOUS
        <4>2. /\ Consumed(off, n) = k - 1 /\ Consumed(off, n)' = k
              /\ k \in 1..n /\ off + k = pos + 1
              BY <1>3, <2>3, <2>5, <3>2, <4>1, ConsumedNext
        <4>3. c = Chunks(i)[k] /\ c.number = i
              BY <2>0, <2>1, <2>4, <4>2, ChunksOf
        <4>4. message'[i] = Absorb(Reader[i], message[i], c.value)
              BY <2>7, <3>1, <4>3
        <4>5. message[i] = Part(Writer[i], sent[i], k - 1)
              BY <2>2, <2>7, <4>2
        <4>6. Absorb(Reader[i], Part(Writer[i], sent[i], k - 1), Chunks(i)[k].value)
                  = Part(Writer[i], sent[i], k)
              BY <2>0, <2>3, <3>1, <4>2, PartMore DEF Chunks
        <4> QED
              BY <4>2, <4>3, <4>4, <4>5, <4>6
      <3>3. CASE pos + 1 \notin (off + 1)..(off + n)
        <4>1. c.number # i
              BY <1>3, <2>4, <3>3
        <4>2. message'[i] = message[i]
              BY <3>1, <4>1
        <4>3. Consumed(off, n)' = Consumed(off, n)
              BY <1>3, <2>3, <2>5, <3>3, ConsumedSame
        <4> QED
              BY <2>2, <2>7, <4>2, <4>3
      <3> QED
            BY <3>2, <3>3
    <2> QED
          BY <2>2, <2>6, <2>7
  <1>7. WireHoldsFields'
    <2>1. wire' \in Seq(UNION {Range(Chunks(i)') : i \in DOMAIN Writer'})
          BY <1>1 DEF WireHoldsFields
    <2>2. \A i \in 1..(field' - 1) : \E off \in 0..Len(wire') :
             /\ LiesAt(i, off)'
             /\ Shared(i)' => message'[i] = Part(Writer'[i], sent'[i],
                                                 Consumed(off, Len(Chunks(i)))')
      <3> SUFFICES ASSUME NEW i \in 1..(field - 1)
                   PROVE  \E off \in 0..Len(wire) :
                             /\ LiesAt(i, off)'
                             /\ Shared(i)' =>
                                   message'[i] = Part(Writer'[i], sent'[i],
                                                      Consumed(off, Len(Chunks(i)))')
            OBVIOUS
      <3>1. PICK off \in 0..Len(wire) :
               /\ LiesAt(i, off)
               /\ Shared(i) => message'[i] = Part(Writer[i], sent[i],
                                                  Consumed(off, Len(Chunks(i)))')
            BY <1>6
      <3> QED
            BY <1>1, <1>4, <3>1
    <2>3. \A k \in DOMAIN wire' : wire'[k].number < field'
          BY DEF WireHoldsFields
    <2> QED
          BY <2>1, <2>2, <2>3 DEF WireHoldsFields
  <1>8. CodecTypeOK'
        BY <1>1, <1>2, <1>3 DEF CodecTypeOK
  <1>9. InOrder'
        BY <1>1 DEF InOrder
  <1>10. OthersUntouched'
        BY <1>1 DEF OthersUntouched
  <1>11. StopsAtUnsafe'
    <2>1. \A x : Throws(x)' = Throws(x)
          BY <1>1 DEF Throws
    <2>2. \A k \in 1..(pos + 1) : ~Throws(wire[k])
          BY <1>3 DEF StopsAtUnsafe
    <2> QED
          BY <2>1, <2>2 DEF StopsAtUnsafe
  <1> QED
        BY <1>7, <1>8, <1>9, <1>10, <1>11

LEMMA DecodeSkipStep ==
    ASSUME WireInv, DecodeSkip
    PROVE  WireInv'
  <1> USE DEF WireInv
  <1>1. /\ stage = "decode" /\ pos < Len(wire) /\ pos' = pos + 1
        /\ UNCHANGED <<pair, source, spelling, sent, field, wire, message, stage>>
        /\ ~Taken(Reader, wire[pos + 1])
        BY DEF DecodeSkip
  <1>2. pos + 1 \in 1..Len(wire)
        BY <1>1 DEF WireHoldsFields, CodecTypeOK
  <1>3. ~Shared(wire[pos + 1].number) /\ ~Throws(wire[pos + 1])
        BY <1>1, <1>2, TakenIsShared DEF Throws
  <1>4. DOMAIN message' = DOMAIN Reader
        BY <1>1 DEF CodecTypeOK
  <1> QED
        BY <1>1, <1>3, <1>4, OneChunk

LEMMA DecodeTakenStep ==
    ASSUME WireInv, DecodeTaken
    PROVE  WireInv'
  <1> USE DEF WireInv
  <1> DEFINE c == wire[pos + 1]
  <1>1. /\ stage = "decode" /\ pos < Len(wire) /\ Taken(Reader, c)
        /\ UNCHANGED <<pair, source, spelling, sent, field, wire>>
        BY DEF DecodeTaken
  <1>2. pos + 1 \in 1..Len(wire)
        BY <1>1 DEF WireHoldsFields, CodecTypeOK
  <1>3. Shared(c.number) /\ c.number \in DOMAIN Reader
        BY <1>1, <1>2, TakenIsShared DEF Taken
  <1>4. CASE longToNumberThrows(Reader[c.number], c.value)
    <2>1. stage' = "thrown" /\ UNCHANGED <<pos, message>>
          BY <1>4 DEF DecodeTaken
    <2>2. Writer' = Writer /\ Reader' = Reader
          BY <1>1 DEF Writer, Reader
    <2>3. WireHoldsFields' /\ OthersUntouched'
          BY <1>1, <2>1, NothingMoved
    <2>4. CodecTypeOK'
          BY <1>1, <2>1, <2>2 DEF CodecTypeOK
    <2>5. InOrder'
          BY <1>1, <2>1, <2>2 DEF InOrder
    <2>6. \A x : Throws(x)' = Throws(x)
          BY <2>2 DEF Throws
    <2>7. StopsAtUnsafe'
          BY <1>1, <1>4, <2>1, <2>6 DEF StopsAtUnsafe, Throws
    <2> QED
          BY <2>3, <2>4, <2>5, <2>7
  <1>5. CASE ~longToNumberThrows(Reader[c.number], c.value)
    <2>1. /\ pos' = pos + 1 /\ UNCHANGED stage
          /\ message' = [message EXCEPT
                            ![c.number] = Absorb(Reader[c.number], @, c.value)]
          BY <1>5 DEF DecodeTaken
    <2>2. ~Throws(c)
          BY <1>5 DEF Throws
    <2>3. DOMAIN message = DOMAIN Reader
          BY DEF CodecTypeOK
    <2>4. /\ DOMAIN message' = DOMAIN Reader
          /\ \A i \in DOMAIN Reader :
                message'[i] = IF i = c.number /\ Shared(i)
                              THEN Absorb(Reader[i], message[i], c.value)
                              ELSE message[i]
          BY <1>3, <2>1, <2>3
    <2> QED
          BY <1>1, <2>1, <2>2, <2>4, OneChunk
  <1> QED
        BY <1>4, <1>5

(* Between the loops and after them nothing moves.                         *)
LEMMA TurnStep ==
    ASSUME WireInv, Finish \/ DecodeReturn \/ UNCHANGED codecVars
    PROVE  WireInv'
  <1> USE DEF WireInv
  <1>1. /\ UNCHANGED <<pair, source, spelling, sent, field, wire, pos, message>>
        /\ \/ stage = "encode" /\ field \notin DOMAIN Writer /\ stage' = "decode"
           \/ stage = "decode" /\ pos = Len(wire) /\ stage' = "done"
           \/ UNCHANGED stage
        BY DEF Finish, DecodeReturn, codecVars
  <1>2. Writer' = Writer /\ Reader' = Reader
        BY <1>1 DEF Writer, Reader
  <1>3. WireHoldsFields' /\ OthersUntouched'
        BY <1>1, NothingMoved
  <1>4. CodecTypeOK'
        BY <1>1, <1>2 DEF CodecTypeOK
  <1>5. field \notin DOMAIN Writer => field = Len(Writer) + 1
        BY Ends DEF CodecTypeOK
  <1>6. InOrder'
        BY <1>1, <1>2, <1>5 DEF InOrder
  <1>7. \A x : Throws(x)' = Throws(x)
        BY <1>2 DEF Throws
  <1>8. StopsAtUnsafe'
        BY <1>1, <1>7 DEF StopsAtUnsafe
  <1> QED
        BY <1>3, <1>4, <1>6, <1>8

(***************************************************************************)
(* Every message between every pair of ends: the fields lie on the wire    *)
(* one behind the other, each has reached the decoded message as far as    *)
(* the loop has consumed its chunks, and no other field was touched.       *)
(***************************************************************************)
THEOREM WireInvHolds ==
    CodecSpec => []WireInv
  <1>1. ASSUME WireInv, [CodecNext]_codecVars
        PROVE  WireInv'
        BY <1>1, BuildStep, EncodeStep, TurnStep, DecodeTakenStep, DecodeSkipStep
           DEF CodecNext
  <1> QED
        BY <1>1, WireInit, PTL DEF CodecSpec

LEMMA InvRoundTrip ==
    WireInv => RoundTrip
  <1> SUFFICES ASSUME WireInv PROVE RoundTrip
        OBVIOUS
  <1> USE DEF WireInv
  <1> DEFINE unsafe == \E i \in DOMAIN Reader :
                           Shared(i) /\ Reader[i].kind = "int64" /\ Unsafe(source[i])
  <1>0. /\ Len(wire) \in Nat /\ MaxSafe \in Nat \ {0}
        /\ stage \in {"done", "thrown"} =>
               /\ sent = source /\ field = Len(Writer) + 1
               /\ Len(Writer) \in Nat /\ DOMAIN Writer = 1..Len(Writer)
    <2>1. Len(wire) \in Nat
          BY DEF WireHoldsFields
    <2>2. MaxSafe \in Nat \ {0}
          BY WireAssumption
    <2>3. Len(Writer) \in Nat /\ DOMAIN Writer = 1..Len(Writer)
          BY Ends
    <2>4. stage \in {"done", "thrown"} => sent = source /\ field = Len(Writer) + 1
          BY DEF InOrder
    <2> QED
          BY <2>1, <2>2, <2>3, <2>4
  <1>1. ASSUME stage = "thrown" PROVE unsafe
    <2> DEFINE c == wire[pos + 1]
    <2>1. pos + 1 \in 1..Len(wire) /\ Throws(c)
          BY <1>1, <1>0 DEF StopsAtUnsafe, CodecTypeOK
    <2>2. PICK i \in DOMAIN Writer : \E j \in 1..Len(Chunks(i)) :
             c = Chunks(i)[j] /\ c.number = i
          BY <1>1, <2>1, ChunkOnWire
    <2>3. Shared(i) /\ i \in DOMAIN Reader
          BY <1>1, <2>1, <2>2, TakenIsShared DEF Throws, Taken
    <2>4. Reader[i].kind = "int64" /\ Unsafe(c.value)
          BY <2>1, <2>2 DEF Throws, longToNumberThrows
    <2>5. Chunks(i) = IF sent[i] = 0 THEN << >> ELSE <<Chunk(Writer, i, sent[i])>>
          BY <1>1, <2>3, <2>4, LongIsSingle
    <2>6. c.value = sent[i]
          BY <2>2, <2>5 DEF Chunk
    <2> QED
          BY <1>0, <1>1, <2>3, <2>4, <2>6
  <1>2. ASSUME stage = "done", NEW i, Shared(i)
        PROVE  \E off \in 0..Len(wire) :
                   LiesAt(i, off) /\ message[i] = source[i]
    <2>1. /\ i \in DOMAIN Writer /\ IsField(Writer[i])
          BY <1>2, SharedShape
    <2>2. PICK off \in 0..Len(wire) :
             /\ LiesAt(i, off)
             /\ message[i] = Part(Writer[i], sent[i], Consumed(off, Len(Chunks(i))))
      <3>1. i \in 1..(field - 1)
            BY <1>0, <1>2, <2>1
      <3> QED
            BY <1>2, <3>1 DEF WireHoldsFields
    <2>3. Len(Chunks(i)) \in Nat /\ Fits(Writer[i], sent[i])
          BY <1>2, <2>1, ChunksOf
    <2>4. off + Len(Chunks(i)) <= Len(wire) /\ pos = Len(wire)
          BY <1>2, <2>2 DEF LiesAt, StopsAtUnsafe
    <2>5. Consumed(off, Len(Chunks(i))) = Len(Chunks(i))
          BY <1>0, <2>3, <2>4 DEF Consumed
    <2>6. message[i] = sent[i]
          BY <2>1, <2>2, <2>3, <2>5, PartAll DEF Chunks
    <2> QED
          BY <1>0, <1>2, <2>2, <2>6
  <1>3. ASSUME stage = "done" PROVE ~unsafe
    <2> SUFFICES ASSUME NEW i \in DOMAIN Reader, Shared(i),
                        Reader[i].kind = "int64", Unsafe(source[i])
                 PROVE  FALSE
          OBVIOUS
    <2>1. /\ sent[i] \in Int
          /\ Chunks(i) = IF sent[i] = 0 THEN << >> ELSE <<Chunk(Writer, i, sent[i])>>
          BY <1>3, LongIsSingle
    <2>2. Chunks(i) = <<Chunk(Writer, i, sent[i])>> /\ Unsafe(sent[i])
          BY <1>0, <1>3, <2>1 DEF Unsafe
    <2>3. PICK off \in 0..Len(wire) : LiesAt(i, off)
          BY <1>2, <1>3
    <2>4. off + 1 \in 1..Len(wire) /\ wire[off + 1] = Chunk(Writer, i, sent[i])
          BY <1>0, <2>2, <2>3 DEF LiesAt
    <2>5. Throws(wire[off + 1])
          BY <2>2, <2>4 DEF Throws, Taken, longToNumberThrows, Chunk, Shared
    <2> QED
          BY <1>0, <1>3, <2>4, <2>5 DEF StopsAtUnsafe
  <1>4. ASSUME stage = "done", NEW i \in DOMAIN Reader
        PROVE  message[i] = IF Shared(i) THEN source[i] ELSE Default(Reader[i])
        BY <1>2, <1>4 DEF OthersUntouched
  <1> QED
        BY <1>1, <1>3, <1>4 DEF RoundTrip

(***************************************************************************)
(* What arrives is what was meant, for all descriptors that agree on the   *)
(* kind of a field under one number and wire type, and all messages:       *)
(* each field both ends have holds the caller's value, any other field of  *)
(* the reader its default, and decode throws exactly for a 64-bit value    *)
(* that a double cannot hold.                                              *)
(***************************************************************************)
THEOREM RoundTripHolds ==
    CodecSpec => []RoundTrip
  BY WireInvHolds, InvRoundTrip, PTL

------------------------------------------------------------------------------
(* The proxy and its limiter.                                              *)
USE DEF At, redisVars

(* The answers of a check are client errors.                               *)
ClientErrors(checks) ==
    \A f \in DOMAIN checks : checks[f] \in {400, 401, 403, 408}

(* An error map answers no error with success, and a broken call, whose    *)
(* effect is open, with a server error.                                    *)
SoundErrors(errors) ==
    /\ \A st \in Refusals :
          errors[st] \in {400, 401, 403, 404, 409, 422, 429, 500, 502}
    /\ \A st \in Breakdowns : errors[st] \in {500, 502, 503}

(* Checks in sequence are checks.                                          *)
LEMMA ChecksInSequence ==
    ASSUME NEW first, NEW second, ClientErrors(first), ClientErrors(second)
    PROVE  ClientErrors(Then(first, second))
  BY DEF ClientErrors, Then

(* Every validator and guard answers with client errors.                   *)
LEMMA ChecksAreClientErrors ==
    /\ ClientErrors(validateHeaders)
    /\ ClientErrors(validateASRequest)
    /\ ClientErrors(validateTGSRequest)
    /\ ClientErrors(validateTransferRequest)
    /\ ClientErrors(validateProfileRequest)
    /\ ClientErrors(validateBalanceQuery)
    /\ ClientErrors(validateHistoryQuery)
    /\ ClientErrors(validateAdminSessionRequest)
    /\ ClientErrors(Then(requireBankAdminSessionCookie, validateAdminQuery))
    /\ ClientErrors(Then(requireBankAdminSessionCookie, validateAdminRangeQuery))
    /\ ClientErrors(Then(requireAdminRole, [status |-> 400, cert_type |-> 400]))
    /\ ClientErrors(Then(requireAdminRole, [serial |-> 400]))
    /\ ClientErrors(Then(requireAdminRole, [serial |-> 400, reason |-> 400]))
    /\ ClientErrors(Then(requireAdminRole, validateAdminRangeQuery))
  <1>1. /\ ClientErrors(validateHeaders)
        /\ ClientErrors(validateASRequest)
        /\ ClientErrors(validateTGSRequest)
        /\ ClientErrors(validateTransferRequest)
        /\ ClientErrors(validateProfileRequest)
        /\ ClientErrors(validateBalanceQuery)
        /\ ClientErrors(validateHistoryQuery)
        /\ ClientErrors(validateAdminSessionRequest)
    BY DEF ClientErrors, validateHeaders, validateASRequest, validateTGSRequest,
           validateTransferRequest, validateProfileRequest, validateBalanceQuery,
           validateHistoryQuery, validateAdminSessionRequest
  <1>2. /\ ClientErrors(validateAdminQuery)
        /\ ClientErrors(validateAdminRangeQuery)
        /\ ClientErrors(requireBankAdminSessionCookie)
        /\ ClientErrors(requireAdminRole)
        /\ ClientErrors([status |-> 400, cert_type |-> 400])
        /\ ClientErrors([serial |-> 400])
        /\ ClientErrors([serial |-> 400, reason |-> 400])
    BY DEF ClientErrors, validateAdminQuery, validateAdminRangeQuery,
           requireBankAdminSessionCookie, requireAdminRole
  <1> QED
    BY <1>1, <1>2, ChecksInSequence

(* The four error maps are sound.                                          *)
LEMMA ErrorMapsAreSound ==
    /\ SoundErrors(asGrpcError)
    /\ SoundErrors(tgsGrpcError)
    /\ SoundErrors(caAdminGrpcError)
    /\ SoundErrors(bankGrpcError)
  BY DEF SoundErrors, asGrpcError, tgsGrpcError, caAdminGrpcError,
         bankGrpcError, Otherwise, Refusals, Breakdowns

(***************************************************************************)
(* What holds of every route of the router.                                *)
(***************************************************************************)
SoundRoute(r) == ClientErrors(r.checks) /\ SoundErrors(r.errors)

LEMMA RoutesAreSound == \A r \in DOMAIN Routes : SoundRoute(Routes[r])
  <1>1. ASSUME NEW b, NEW checks, NEW call, NEW errors,
               ClientErrors(checks), SoundErrors(errors)
        PROVE  SoundRoute(Route(b, checks, call, errors))
    BY <1>1 DEF SoundRoute, Route
  <1> USE ChecksAreClientErrors, ErrorMapsAreSound
  <1>2. /\ SoundRoute(handleRequestTGT)
        /\ SoundRoute(handleRequestTGS)
        /\ SoundRoute(handleProfile)
        /\ SoundRoute(handleTransfer)
        /\ SoundRoute(handleBalanceQuery)
        /\ SoundRoute(handleHistoryQuery)
        /\ SoundRoute(handleAdminSession)
    BY <1>1 DEF handleRequestTGT, handleRequestTGS, handleProfile,
                handleTransfer, handleBalanceQuery, handleHistoryQuery,
                handleAdminSession, errorHandler, handleAdminBankError
  <1>3. /\ SoundRoute(handleAdminOverviewQuery)
        /\ SoundRoute(handleAdminUsersQuery)
        /\ SoundRoute(handleAdminUserAccountsQuery)
        /\ SoundRoute(handleAdminTransactionsQuery)
        /\ SoundRoute(handleAdminAuditQuery)
    BY <1>1 DEF AdminQuery, handleAdminOverviewQuery, handleAdminUsersQuery,
                handleAdminUserAccountsQuery, handleAdminTransactionsQuery,
                handleAdminAuditQuery, handleAdminBankError
  <1>4. SoundRoute(handleAdminListCertificates)
    <2> DEFINE checks == Then(requireAdminRole, [status |-> 400, cert_type |-> 400])
    <2>1. ClientErrors(checks) /\ SoundErrors(caAdminGrpcError)
      OBVIOUS
    <2>2. handleAdminListCertificates
              = Route("", checks, "listCertificates", caAdminGrpcError)
      BY DEF handleAdminListCertificates
    <2> HIDE DEF checks
    <2> QED
      BY <1>1, <2>1, <2>2
  <1>5. SoundRoute(handleAdminGetCertificateDetail)
    BY <1>1 DEF handleAdminGetCertificateDetail
  <1>6. SoundRoute(handleAdminRevokeCertificate)
    <2> DEFINE checks == Then(requireAdminRole, [serial |-> 400, reason |-> 400])
    <2>1. ClientErrors(checks) /\ SoundErrors(caAdminGrpcError)
      OBVIOUS
    <2>2. handleAdminRevokeCertificate =
              Route("", checks, "revokeCertificate", caAdminGrpcError)
      BY DEF handleAdminRevokeCertificate
    <2> HIDE DEF checks
    <2> QED
      BY <1>1, <2>1, <2>2
  <1>7. SoundRoute(handleListCaAudit) /\ SoundRoute(handleListKdcAudit)
    BY <1>1 DEF handleListCaAudit, handleListKdcAudit, errorHandler
  <1> QED
    BY <1>2, <1>3, <1>4, <1>5, <1>6, <1>7 DEF Routes

-----------------------------------------------------------------------------
(* The phases, and a slot without a request.                               *)
LEMMA PhaseNames ==
    Phases = {"idle", "incr", "incr again", "expire", "ttl", "validate",
              "called", "ran", "answered"}
  BY DEF Phases, Limiting

LEMMA FreeSlot ==
    ASSUME NEW p \in Phases
    PROVE  Free(p) \in Requests /\ Free(p).pc = p
  BY DEF Free, Requests, AllFlaws

(* Nothing has come in, and Redis has no counters.                         *)
LEMMA GatewayInit == Init => GatewayInv
  <1> SUFFICES ASSUME Init PROVE GatewayInv
    OBVIOUS
  <1> USE LimitAssumption DEF Init
  <1>1. Free("idle") \in Requests /\ Free("idle").pc = "idle"
    BY FreeSlot, PhaseNames
  <1>2. TypeOK
    BY <1>1 DEF TypeOK, Statuses
  <1>3. EffectFollowsPhase /\ AnswerTellsEffect
    BY <1>1 DEF EffectFollowsPhase, AnswerTellsEffect, Limiting
  <1>4. CountedBeforeAdmitted /\ CounterHasTtl
    BY <1>1 DEF CountedBeforeAdmitted, CounterHasTtl
  <1> QED
    BY <1>2, <1>3, <1>4 DEF GatewayInv

(***************************************************************************)
(* A handler that goes on changes its own phase and nothing else, and one  *)
(* that answers forgets its request.                                       *)
(***************************************************************************)
LEMMA GotoStep ==
    ASSUME TypeOK, NEW s \in Slots, NEW p \in Phases, Goto(s, p)
    PROVE  /\ req' \in [Slots -> Requests]
           /\ req'[s].pc = p /\ req'[s].route = req[s].route
           /\ \A t \in Slots \ {s} : req'[t] = req[t]
  BY DEF TypeOK, Goto, Requests

LEMMA RespondStep ==
    ASSUME TypeOK, NEW s \in Slots, NEW st \in Statuses, Respond(s, st)
    PROVE  /\ req' \in [Slots -> Requests] /\ answer' \in [Slots -> Statuses]
           /\ req'[s].pc = "answered" /\ answer'[s] = st
           /\ \A t \in Slots \ {s} : req'[t] = req[t] /\ answer'[t] = answer[t]
  BY FreeSlot, PhaseNames DEF TypeOK, Respond

(* A request under way has the checks and the error map of its route.      *)
LEMMA RouteOfRequest ==
    ASSUME GatewayInv, NEW s \in Slots, req[s].pc \notin {"idle", "answered"}
    PROVE  /\ req[s].route \in DOMAIN Routes
           /\ req[s].flaw \in DOMAIN route(s).checks =>
                 route(s).checks[req[s].flaw] \in {400, 401, 403, 408}
           /\ \A st \in Refusals : route(s).errors[st]
                 \in {400, 401, 403, 404, 409, 422, 429, 500, 502}
           /\ \A st \in Breakdowns : route(s).errors[st] \in {500, 502, 503}
  <1>1. req[s].route \in DOMAIN Routes
    BY DEF GatewayInv, EffectFollowsPhase
  <1>2. SoundRoute(route(s))
    BY <1>1, RoutesAreSound DEF route
  <1> QED
    BY <1>1, <1>2 DEF SoundRoute, ClientErrors, SoundErrors

(* A request that comes in is answered by validateHeaders, or it is for a  *)
(* known route and goes to the limiter, if there is one, or on.            *)
LEMMA ArriveStep ==
    ASSUME GatewayInv, NEW s \in Slots, Arrive(s)
    PROVE  \/ \E st \in {400, 401, 403, 408} : Respond(s, st)
           \/ \E rt \in DOMAIN Routes, f \in AllFlaws, p \in {"incr", "validate"} :
                 /\ req' = [req EXCEPT ![s] = [pc |-> p, route |-> rt, flaw |-> f]]
                 /\ answer' = [answer EXCEPT ![s] = 0]
                 /\ p = "incr" => Routes[rt].bucket \in Buckets
  <1>1. PICK o \in traffic[s] :
           IF o.flaw \in DOMAIN validateHeaders
           THEN Respond(s, validateHeaders[o.flaw])
           ELSE /\ req' = [req EXCEPT ![s] =
                            [pc |-> IF Routes[o.route].bucket \in Buckets
                                    THEN "incr" ELSE "validate",
                             route |-> o.route, flaw |-> o.flaw]]
                /\ answer' = [answer EXCEPT ![s] = 0]
    BY DEF Arrive
  <1>2. o.route \in DOMAIN Routes /\ o.flaw \in AllFlaws
    BY TrafficAssumption DEF GatewayInv, TypeOK
  <1>3. o.flaw \in DOMAIN validateHeaders =>
           validateHeaders[o.flaw] \in {400, 401, 403, 408}
    BY ChecksAreClientErrors DEF ClientErrors
  <1>4. CASE o.flaw \in DOMAIN validateHeaders
    BY <1>1, <1>3, <1>4
  <1>5. CASE o.flaw \notin DOMAIN validateHeaders
    <2> DEFINE p == IF Routes[o.route].bucket \in Buckets THEN "incr" ELSE "validate"
    <2>1. /\ p \in {"incr", "validate"}
          /\ p = "incr" => Routes[o.route].bucket \in Buckets
          /\ req' = [req EXCEPT ![s] = [pc |-> p, route |-> o.route, flaw |-> o.flaw]]
          /\ answer' = [answer EXCEPT ![s] = 0]
      BY <1>1, <1>5
    <2> HIDE DEF p
    <2> QED
      BY <1>2, <2>1
  <1> QED
    BY <1>4, <1>5

-----------------------------------------------------------------------------
(***************************************************************************)
(* What a step leaves a slot in: idle and without effect, answered in      *)
(* keeping with the effect, or under way, its effect as its phase says.    *)
(***************************************************************************)
LEMMA RequestStep ==
    GatewayInv /\ [Next]_vars =>
        /\ req' \in [Slots -> Requests] /\ answer' \in [Slots -> Statuses]
        /\ effect' \in [Slots -> BOOLEAN]
        /\ EffectFollowsPhase' /\ AnswerTellsEffect'
  <1> DEFINE Goal == /\ req' \in [Slots -> Requests]
                     /\ answer' \in [Slots -> Statuses]
                     /\ effect' \in [Slots -> BOOLEAN]
                     /\ EffectFollowsPhase' /\ AnswerTellsEffect'
  <1> SUFFICES ASSUME GatewayInv, [Next]_vars PROVE Goal
    OBVIOUS
  <1>0. /\ TypeOK /\ EffectFollowsPhase /\ AnswerTellsEffect
        /\ req \in [Slots -> Requests] /\ answer \in [Slots -> Statuses]
        /\ effect \in [Slots -> BOOLEAN]
    BY DEF GatewayInv, TypeOK
  <1>1. ASSUME NEW s \in Slots, NEW st \in Statuses, Respond(s, st),
               effect' \in [Slots -> BOOLEAN],
               \A t \in Slots \ {s} : effect'[t] = effect[t],
               st = 200 => effect'[s],
               st \in 400..499 => ~effect'[s]
        PROVE  Goal
    <2>1. /\ req' \in [Slots -> Requests] /\ answer' \in [Slots -> Statuses]
          /\ req'[s].pc = "answered" /\ answer'[s] = st
          /\ \A t \in Slots \ {s} : req'[t] = req[t] /\ answer'[t] = answer[t]
      BY <1>0, <1>1, RespondStep
    <2>2. \A t \in Slots \ {s} : effect'[t] = effect[t]
      BY <1>1
    <2>3. EffectFollowsPhase'
      BY <1>0, <2>1, <2>2 DEF EffectFollowsPhase, Bucket, route, Limiting
    <2>4. AnswerTellsEffect'
      BY <1>0, <1>1, <2>1 DEF AnswerTellsEffect
    <2> QED
      BY <1>1, <2>1, <2>3, <2>4
  <1>2. ASSUME NEW s \in Slots, NEW p \in {"expire", "ttl", "validate", "called"},
               Goto(s, p), UNCHANGED <<answer, effect>>,
               req[s].pc \in Limiting \union {"validate"},
               req[s].pc \in Limiting \/ p \notin Limiting
        PROVE  Goal
    <2>1. /\ req' \in [Slots -> Requests]
          /\ req'[s].pc = p /\ req'[s].route = req[s].route
          /\ \A t \in Slots \ {s} : req'[t] = req[t]
      BY <1>0, <1>2, GotoStep, PhaseNames
    <2>2. EffectFollowsPhase'
      BY <1>0, <1>2, <2>1 DEF EffectFollowsPhase, Bucket, route, Limiting
    <2>3. AnswerTellsEffect'
      BY <1>0, <1>2, <2>1 DEF AnswerTellsEffect
    <2> QED
      BY <1>0, <1>2, <2>1, <2>2, <2>3
  <1>3. ASSUME NEW s \in Slots, Arrive(s) PROVE Goal
    <2>0. /\ effect' \in [Slots -> BOOLEAN] /\ ~effect'[s]
          /\ \A t \in Slots \ {s} : effect'[t] = effect[t]
      BY <1>0, <1>3 DEF Arrive
    <2>1. ASSUME NEW st \in {400, 401, 403, 408}, Respond(s, st) PROVE Goal
      <3>1. st \in Statuses /\ st # 200
        BY <2>1 DEF Statuses
      <3> QED
        BY <1>1, <2>0, <2>1, <3>1
    <2>2. ASSUME NEW rt \in DOMAIN Routes, NEW f \in AllFlaws,
                 NEW p \in {"incr", "validate"},
                 /\ req' = [req EXCEPT ![s] = [pc |-> p, route |-> rt, flaw |-> f]]
                 /\ answer' = [answer EXCEPT ![s] = 0]
                 /\ p = "incr" => Routes[rt].bucket \in Buckets
          PROVE  Goal
      <3>1. [pc |-> p, route |-> rt, flaw |-> f] \in Requests
        BY PhaseNames DEF Requests
      <3>2. /\ req' \in [Slots -> Requests] /\ answer' \in [Slots -> Statuses]
            /\ req'[s].pc = p /\ req'[s].route = rt
            /\ \A t \in Slots \ {s} : req'[t] = req[t] /\ answer'[t] = answer[t]
        BY <1>0, <2>2, <3>1 DEF Statuses
      <3>4. EffectFollowsPhase'
        BY <1>0, <2>0, <2>2, <3>2
        DEF EffectFollowsPhase, Bucket, route, Limiting
      <3>5. AnswerTellsEffect'
        BY <1>0, <2>0, <3>2 DEF AnswerTellsEffect
      <3> QED
        BY <2>0, <3>2, <3>4, <3>5
    <2> QED
      BY <1>3, <2>1, <2>2, ArriveStep
  <1>4. ASSUME NEW s \in Slots, NEW times \in {1, 2}, Incr(s, times) PROVE Goal
    <2>1. \E p \in {"expire", "ttl", "validate"} : Goto(s, p)
      BY <1>4 DEF Incr
    <2> QED
      BY <1>2, <1>4, <2>1 DEF Incr, Limiting
  <1>5. ASSUME NEW s \in Slots, Expire(s) \/ RedisError(s) PROVE Goal
    BY <1>2, <1>5 DEF Expire, RedisError, Limiting
  <1>6. ASSUME NEW s \in Slots, Ttl(s) PROVE Goal
    <2>1. ~effect[s]
      BY <1>0, <1>6 DEF Ttl, EffectFollowsPhase
    <2> QED
      BY <1>0, <1>1, <1>6, <2>1 DEF Ttl, Statuses
  <1>7. ASSUME NEW s \in Slots, Validate(s) PROVE Goal
    <2>1. ~effect[s] /\ effect' = effect
      BY <1>0, <1>7 DEF Validate, EffectFollowsPhase
    <2>2. CASE req[s].flaw \in DOMAIN route(s).checks
      <3>1. route(s).checks[req[s].flaw] \in {400, 401, 403, 408}
        BY <1>7, <2>2, RouteOfRequest DEF Validate
      <3> QED
        BY <1>0, <1>1, <1>7, <2>1, <2>2, <3>1 DEF Validate, Statuses
    <2>3. CASE req[s].flaw \notin DOMAIN route(s).checks
      BY <1>2, <1>7, <2>3 DEF Validate, Limiting
    <2> QED
      BY <2>2, <2>3
  <1>8. ASSUME NEW s \in Slots, ServiceRefuses(s) PROVE Goal
    <2>1. PICK st \in Refusals : Respond(s, route(s).errors[st])
      BY <1>8 DEF ServiceRefuses
    <2>2. route(s).errors[st] \in {400, 401, 403, 404, 409, 422, 429, 500, 502}
      BY <1>8, RouteOfRequest DEF ServiceRefuses
    <2>3. ~effect[s] /\ effect' = effect
      BY <1>0, <1>8 DEF ServiceRefuses, EffectFollowsPhase
    <2> QED
      BY <1>0, <1>1, <2>1, <2>2, <2>3 DEF Statuses
  <1>9. ASSUME NEW s \in Slots, CallBreaks(s) PROVE Goal
    <2>1. PICK st \in Breakdowns : Respond(s, route(s).errors[st])
      BY <1>9 DEF CallBreaks
    <2>2. route(s).errors[st] \in {500, 502, 503}
      BY <1>9, RouteOfRequest DEF CallBreaks
    <2> QED
      BY <1>0, <1>1, <1>9, <2>1, <2>2 DEF CallBreaks, Statuses
  <1>10. ASSUME NEW s \in Slots, Reply(s) PROVE Goal
    <2>1. effect[s]
      BY <1>0, <1>10 DEF Reply, EffectFollowsPhase
    <2> QED
      BY <1>0, <1>1, <1>10, <2>1 DEF Reply, Statuses
  <1>11. ASSUME NEW s \in Slots, ServiceRuns(s) PROVE Goal
    <2>1. /\ req' \in [Slots -> Requests]
          /\ req'[s].pc = "ran" /\ req'[s].route = req[s].route
          /\ \A t \in Slots \ {s} : req'[t] = req[t]
      BY <1>0, <1>11, GotoStep, PhaseNames DEF ServiceRuns
    <2>2. /\ effect' \in [Slots -> BOOLEAN] /\ effect'[s] /\ answer' = answer
          /\ \A t \in Slots \ {s} : effect'[t] = effect[t]
      BY <1>0, <1>11 DEF ServiceRuns
    <2>3. EffectFollowsPhase'
      BY <1>0, <1>11, <2>1, <2>2
      DEF EffectFollowsPhase, Bucket, route, Limiting, ServiceRuns
    <2>4. AnswerTellsEffect'
      BY <1>0, <2>1, <2>2 DEF AnswerTellsEffect
    <2> QED
      BY <1>0, <2>1, <2>2, <2>3, <2>4
  <1>12. CASE RedisDown
    <2>1. /\ req' \in [Slots -> Requests]
          /\ \A t \in Slots : \/ req'[t] = req[t]
                              \/ /\ req[t].pc = "incr" /\ req'[t].pc = "incr again"
                                 /\ req'[t].route = req[t].route
      BY <1>0, <1>12, PhaseNames DEF RedisDown, Requests
    <2>2. UNCHANGED <<answer, effect>>
      BY <1>12 DEF RedisDown
    <2>3. EffectFollowsPhase'
      BY <1>0, <2>1, <2>2 DEF EffectFollowsPhase, Bucket, route, Limiting
    <2>4. \A t \in Slots : req'[t].pc = "answered" => req[t].pc = "answered"
      BY <2>1
    <2>5. AnswerTellsEffect'
      BY <1>0, <2>2, <2>4 DEF AnswerTellsEffect
    <2> QED
      BY <1>0, <2>1, <2>2, <2>3, <2>5
  <1>13. CASE Crash
    <2>1. Free("idle") \in Requests /\ Free("idle").pc = "idle"
      BY FreeSlot, PhaseNames
    <2>2. /\ req' = [s \in Slots |-> Free("idle")]
          /\ answer' \in [Slots -> Statuses]
          /\ effect' \in [Slots -> BOOLEAN]
      BY <1>13 DEF Crash, Statuses
    <2>3. EffectFollowsPhase' /\ AnswerTellsEffect'
      BY <2>1, <2>2 DEF EffectFollowsPhase, AnswerTellsEffect, Limiting
    <2> QED
      BY <2>1, <2>2, <2>3
  <1>14. CASE UNCHANGED <<req, answer, effect>>
    BY <1>0, <1>14 DEF EffectFollowsPhase, AnswerTellsEffect, Bucket, route
  <1>15. CASE Tick \/ RedisUp \/ UNCHANGED vars
    BY <1>14, <1>15 DEF Tick, RedisUp, vars
  <1> HIDE DEF Goal
  <1> QED
    BY <1>3, <1>4, <1>5, <1>6, <1>7, <1>8, <1>9, <1>10, <1>11, <1>12, <1>13, <1>15
    DEF Next, Step, Proceed

(***************************************************************************)
(* The counters: an INCR counts before it admits, and counts nothing else  *)
(* before the maximum, but for what is sent twice.                         *)
(***************************************************************************)
LEMMA IncrCounts ==
    ASSUME GatewayInv, NEW s \in Slots, NEW times \in {1, 2}, Incr(s, times)
    PROVE  LET k == Bucket(s)
               n == Saturate(count[k] + times)
           IN  /\ k \in Buckets /\ count[k] \in Nat
               /\ n \in 1..(MaxRequests + 2) /\ n >= count[k]
               /\ n = 1 => times = 1 /\ count[k] = 0
               /\ ~Exceeds(n) => n = count[k] + times /\ n <= MaxRequests
               /\ Exceeds(n) => n > MaxRequests /\ count[k] + times > MaxRequests
               /\ count' = [count EXCEPT ![k] = n]
               /\ admitted' = [admitted EXCEPT ![k] = IF Exceeds(n) THEN @ ELSE @ + 1]
               /\ doubled' = [doubled EXCEPT ![k] = @ + times - 1]
               /\ orphaned' = IF count[k] = 0 /\ times = 2 THEN orphaned \union {k}
                              ELSE orphaned
               /\ ttl' = ttl
               /\ \E p \in {"expire", "ttl", "validate"} :
                     Goto(s, p) /\ (p = "expire" <=> n = 1) /\ (p = "ttl" => Exceeds(n))
  <1> DEFINE k == Bucket(s)
             n == Saturate(count[k] + times)
  <1>1. k \in Buckets /\ count[k] \in 0..(MaxRequests + 2)
    BY DEF GatewayInv, TypeOK, EffectFollowsPhase, Incr, Limiting
  <1>2. /\ n \in 1..(MaxRequests + 2) /\ n >= count[k]
        /\ n = 1 => times = 1 /\ count[k] = 0
        /\ ~Exceeds(n) => n = count[k] + times /\ n <= MaxRequests
        /\ Exceeds(n) => n > MaxRequests /\ count[k] + times > MaxRequests
    BY <1>1, LimitAssumption DEF Saturate, Exceeds
  <1>3. /\ count' = [count EXCEPT ![k] = n]
        /\ admitted' = [admitted EXCEPT ![k] = IF Exceeds(n) THEN @ ELSE @ + 1]
        /\ doubled' = [doubled EXCEPT ![k] = @ + times - 1]
        /\ orphaned' = IF count[k] = 0 /\ times = 2 THEN orphaned \union {k}
                       ELSE orphaned
        /\ ttl' = ttl
        /\ Goto(s, CASE n = 1       -> "expire"
                     [] n # 1 /\ Exceeds(n) -> "ttl"
                     [] OTHER       -> "validate")
    BY DEF Incr
  <1> HIDE DEF n, k
  <1>4. \E p \in {"expire", "ttl", "validate"} :
            Goto(s, p) /\ (p = "expire" <=> n = 1) /\ (p = "ttl" => Exceeds(n))
    <2>1. CASE n = 1
      BY <1>3, <2>1
    <2>2. CASE n # 1 /\ Exceeds(n)
      BY <1>3, <2>2
    <2>3. CASE n # 1 /\ ~Exceeds(n)
      BY <1>3, <2>3
    <2> QED BY <2>1, <2>2, <2>3
  <1> QED
    BY <1>1, <1>2, <1>3, <1>4 DEF n, k

(* The counters keep their types, and what they admitted is accounted for. *)
LEMMA CounterStep ==
    GatewayInv /\ [Next]_vars =>
        /\ count' \in [Buckets -> 0..(MaxRequests + 2)]
        /\ ttl' \in [Buckets -> {-1} \union 1..Window]
        /\ admitted' \in [Buckets -> Nat]
        /\ doubled' \in [Buckets -> Nat]
        /\ orphaned' \subseteq Buckets
        /\ CountedBeforeAdmitted'
  <1> DEFINE Goal == /\ count' \in [Buckets -> 0..(MaxRequests + 2)]
                     /\ ttl' \in [Buckets -> {-1} \union 1..Window]
                     /\ admitted' \in [Buckets -> Nat]
                     /\ doubled' \in [Buckets -> Nat]
                     /\ orphaned' \subseteq Buckets
                     /\ CountedBeforeAdmitted'
  <1> SUFFICES ASSUME GatewayInv, [Next]_vars PROVE Goal
    OBVIOUS
  <1> USE LimitAssumption
  <1>0. /\ count \in [Buckets -> 0..(MaxRequests + 2)]
        /\ ttl \in [Buckets -> {-1} \union 1..Window]
        /\ admitted \in [Buckets -> Nat]
        /\ doubled \in [Buckets -> Nat]
        /\ orphaned \subseteq Buckets
        /\ CountedBeforeAdmitted
    BY DEF GatewayInv, TypeOK
  <1>1. \A s \in Slots : req[s].pc \in Limiting => Bucket(s) \in Buckets
    BY DEF GatewayInv, EffectFollowsPhase
  <1>e. \A S : Expired(S) \in [Buckets -> {-1} \union 1..Window]
    BY <1>0 DEF Expired
  <1>2. ASSUME NEW s \in Slots, NEW times \in {1, 2}, Incr(s, times) PROVE Goal
    <2> DEFINE k == Bucket(s)
               n == Saturate(count[k] + times)
    <2>1. /\ k \in Buckets /\ count[k] \in Nat
          /\ n \in 1..(MaxRequests + 2) /\ n >= count[k]
          /\ ~Exceeds(n) => n = count[k] + times /\ n <= MaxRequests
          /\ Exceeds(n) => n > MaxRequests /\ count[k] + times > MaxRequests
          /\ count' = [count EXCEPT ![k] = n]
          /\ admitted' = [admitted EXCEPT ![k] = IF Exceeds(n) THEN @ ELSE @ + 1]
          /\ doubled' = [doubled EXCEPT ![k] = @ + times - 1]
          /\ orphaned' \subseteq orphaned \union {k}
          /\ ttl' = ttl
      BY <1>2, IncrCounts
    <2> HIDE DEF k, n
    <2>2. /\ count'[k] = n /\ admitted'[k] = IF Exceeds(n) THEN admitted[k] ELSE admitted[k] + 1
          /\ doubled'[k] = doubled[k] + times - 1
          /\ \A j \in Buckets \ {k} : /\ count'[j] = count[j] /\ admitted'[j] = admitted[j]
                                      /\ doubled'[j] = doubled[j]
      BY <1>0, <2>1
    <2>3. /\ admitted[k] \in Nat /\ doubled[k] \in Nat
          /\ admitted[k] <= count[k] /\ admitted[k] <= MaxRequests
          /\ count[k] <= MaxRequests => count[k] <= admitted[k] + doubled[k]
          /\ count[k] > MaxRequests => MaxRequests <= admitted[k] + doubled[k]
      BY <1>0, <2>1 DEF CountedBeforeAdmitted
    <2>4. /\ admitted'[k] <= count'[k] /\ admitted'[k] <= MaxRequests
          /\ count'[k] <= MaxRequests => count'[k] <= admitted'[k] + doubled'[k]
          /\ count'[k] > MaxRequests => MaxRequests <= admitted'[k] + doubled'[k]
      <3>1. CASE Exceeds(n)
        BY <2>1, <2>2, <2>3, <3>1
      <3>2. CASE ~Exceeds(n)
        BY <2>1, <2>2, <2>3, <3>2
      <3> QED BY <3>1, <3>2
    <2>5. CountedBeforeAdmitted'
      BY <1>0, <2>2, <2>4 DEF CountedBeforeAdmitted
    <2>6. /\ count' \in [Buckets -> 0..(MaxRequests + 2)]
          /\ admitted' \in [Buckets -> Nat] /\ doubled' \in [Buckets -> Nat]
      BY <1>0, <2>1
    <2> QED
      BY <1>0, <2>1, <2>5, <2>6
  <1>3. ASSUME NEW s \in Slots, Expire(s) PROVE Goal
    BY <1>0, <1>e, <1>3 DEF Expire, CountedBeforeAdmitted
  <1>4. ASSUME NEW s \in Slots, RedisError(s) PROVE Goal
    BY <1>0, <1>1, <1>4 DEF RedisError, CountedBeforeAdmitted, Limiting
  <1>5. CASE Tick
    <2>1. ASSUME NEW k \in Buckets
          PROVE  /\ ttl'[k] \in {-1} \union 1..Window
                 /\ \/ count'[k] = 0 /\ admitted'[k] = 0 /\ doubled'[k] = 0
                    \/ /\ count'[k] = count[k] /\ admitted'[k] = admitted[k]
                       /\ doubled'[k] = doubled[k]
      <3>1. ttl[k] \in {-1} \union 1..Window
        BY <1>0
      <3>2. ttl'[k] = IF ttl[k] > 1 THEN ttl[k] - 1 ELSE -1
        BY <1>5, <3>1 DEF Tick
      <3> QED
        BY <1>5, <3>1, <3>2 DEF Tick
    <2>2. /\ ttl' = [k \in Buckets |-> ttl'[k]]
          /\ count' = [k \in Buckets |-> count'[k]]
          /\ admitted' = [k \in Buckets |-> admitted'[k]]
          /\ doubled' = [k \in Buckets |-> doubled'[k]]
          /\ orphaned' = orphaned
      BY <1>5 DEF Tick
    <2>3. CountedBeforeAdmitted'
      BY <1>0, <2>1 DEF CountedBeforeAdmitted
    <2>4. /\ ttl' \in [Buckets -> {-1} \union 1..Window]
          /\ count' \in [Buckets -> 0..(MaxRequests + 2)]
          /\ admitted' \in [Buckets -> Nat] /\ doubled' \in [Buckets -> Nat]
      BY <1>0, <2>1, <2>2
    <2> QED
      BY <1>0, <2>2, <2>3, <2>4
  <1>6. CASE RedisDown
    BY <1>0, <1>e, <1>6 DEF RedisDown, CountedBeforeAdmitted
  <1>7. CASE Crash
    <2>1. {Bucket(s) : s \in {s \in Slots : At(s, "expire")}} \subseteq Buckets
      BY <1>1 DEF Limiting
    <2> QED
      BY <1>0, <1>7, <2>1 DEF Crash, CountedBeforeAdmitted
  <1>8. CASE UNCHANGED redisVars
    BY <1>0, <1>8 DEF CountedBeforeAdmitted
  <1> HIDE DEF Goal
  <1> QED
    BY <1>2, <1>3, <1>4, <1>5, <1>6, <1>7, <1>8
    DEF Next, Step, Proceed, Arrive, Ttl, Validate, ServiceRefuses,
        ServiceRuns, Reply, CallBreaks, RedisUp, vars

(***************************************************************************)
(* Only a lost or skipped EXPIRE leaves a counter without TTL and without  *)
(* a request that is about to set it.                                      *)
(***************************************************************************)
LEMMA TtlStep == GatewayInv /\ [Next]_vars => CounterHasTtl'
  <1> SUFFICES ASSUME GatewayInv, [Next]_vars PROVE CounterHasTtl'
    OBVIOUS
  <1> USE LimitAssumption
  <1>0. /\ TypeOK /\ CounterHasTtl
        /\ req \in [Slots -> Requests]
        /\ count \in [Buckets -> 0..(MaxRequests + 2)]
        /\ ttl \in [Buckets -> {-1} \union 1..Window]
        /\ orphaned \subseteq Buckets
        /\ \A s \in Slots : req[s].pc \in Limiting => Bucket(s) \in Buckets
    BY DEF GatewayInv, TypeOK, EffectFollowsPhase
  <1>1. ASSUME UNCHANGED <<count, ttl>>, orphaned \subseteq orphaned',
               \A t \in Slots : At(t, "expire") =>
                   \/ req'[t].pc = "expire" /\ req'[t].route = req[t].route
                   \/ Bucket(t) \in orphaned'
        PROVE  CounterHasTtl'
    <2>1. ASSUME NEW k \in Buckets, count[k] > 0
          PROVE  \/ ttl[k] > 0
                 \/ k \in orphaned'
                 \/ \E s \in Slots : req'[s].pc = "expire" /\ Bucket(s)' = k
      <3>1. CASE ttl[k] > 0 \/ k \in orphaned
        BY <1>1, <3>1
      <3>2. CASE \E s \in Slots : At(s, "expire") /\ Bucket(s) = k
        <4>1. PICK s \in Slots : At(s, "expire") /\ Bucket(s) = k
          BY <3>2
        <4>2. CASE req'[s].pc = "expire" /\ req'[s].route = req[s].route
          BY <4>1, <4>2 DEF Bucket, route
        <4> QED BY <1>1, <4>1, <4>2
      <3> QED BY <1>0, <2>1, <3>1, <3>2 DEF CounterHasTtl
    <2> QED BY <1>0, <1>1, <2>1 DEF CounterHasTtl
  <1>2. ASSUME NEW s \in Slots, ~At(s, "expire"), UNCHANGED redisVars,
               \A t \in Slots \ {s} : req'[t] = req[t]
        PROVE  CounterHasTtl'
    BY <1>1, <1>2
  <1>3. ASSUME NEW s \in Slots, NEW times \in {1, 2}, Incr(s, times)
        PROVE  CounterHasTtl'
    <2> DEFINE k == Bucket(s)
               n == Saturate(count[k] + times)
    <2>1. /\ k \in Buckets /\ count[k] \in Nat
          /\ n \in 1..(MaxRequests + 2)
          /\ count[k] = 0 /\ times = 1 => n = 1
          /\ count' = [count EXCEPT ![k] = n]
          /\ orphaned' = IF count[k] = 0 /\ times = 2 THEN orphaned \union {k}
                         ELSE orphaned
          /\ ttl' = ttl
          /\ \E p \in {"expire", "ttl", "validate"} :
                Goto(s, p) /\ (p = "expire" <=> n = 1)
      BY <1>3, IncrCounts DEF Saturate
    <2> HIDE DEF n
    <2>2. /\ req'[s].route = req[s].route
          /\ req'[s].pc = "expire" <=> n = 1
          /\ \A t \in Slots \ {s} : req'[t] = req[t]
      BY <1>0, <2>1, GotoStep, PhaseNames
    <2>3. \A t \in Slots : Bucket(t)' = Bucket(t)
      BY <2>2 DEF Bucket, route
    <2>4. ~At(s, "expire")
      BY <1>3 DEF Incr
    <2>5. ASSUME NEW j \in Buckets, count[j] > 0
          PROVE  \/ ttl'[j] > 0
                 \/ j \in orphaned'
                 \/ \E t \in Slots : req'[t].pc = "expire" /\ Bucket(t)' = j
      <3>1. CASE ttl[j] > 0 \/ j \in orphaned
        BY <2>1, <3>1
      <3>2. CASE \E t \in Slots : At(t, "expire") /\ Bucket(t) = j
        BY <2>2, <2>3, <2>4, <3>2
      <3> QED BY <1>0, <2>5, <3>1, <3>2 DEF CounterHasTtl
    <2>6. ASSUME count[k] = 0
          PROVE  \/ k \in orphaned'
                 \/ \E t \in Slots : req'[t].pc = "expire" /\ Bucket(t)' = k
      <3>1. CASE times = 2
        BY <2>1, <2>6, <3>1
      <3>2. CASE times = 1
        BY <2>1, <2>2, <2>3, <2>6, <3>2
      <3> QED BY <3>1, <3>2
    <2>7. \A j \in Buckets : count'[j] = IF j = k THEN n ELSE count[j]
      BY <1>0, <2>1
    <2> HIDE DEF k
    <2> QED
      BY <1>0, <2>1, <2>5, <2>6, <2>7 DEF CounterHasTtl
  <1>4. ASSUME NEW s \in Slots, Expire(s) PROVE CounterHasTtl'
    <2>1. /\ \A t \in Slots \ {s} : req'[t] = req[t]
          /\ UNCHANGED <<count, orphaned>>
          /\ Bucket(s) \in Buckets
      BY <1>0, <1>4, GotoStep, PhaseNames DEF Expire, Limiting
    <2>2. \A k \in Buckets :
              ttl'[k] = IF k = Bucket(s) /\ count[k] > 0 THEN Window ELSE ttl[k]
      BY <1>4 DEF Expire, Expired
    <2>3. \A t \in Slots \ {s} : Bucket(t)' = Bucket(t)
      BY <2>1 DEF Bucket, route
    <2> QED
      BY <1>0, <2>1, <2>2, <2>3 DEF CounterHasTtl
  <1>5. CASE Tick
    <2>1. UNCHANGED <<req, orphaned>>
      BY <1>5 DEF Tick
    <2>2. \A t \in Slots : Bucket(t)' = Bucket(t)
      BY <2>1 DEF Bucket, route
    <2>3. ASSUME NEW k \in Buckets
          PROVE  \/ count'[k] = 0 /\ ttl'[k] = -1
                 \/ count'[k] = count[k] /\ (ttl[k] > 0 <=> ttl'[k] > 0)
                    /\ (ttl[k] = -1 => ttl'[k] = -1)
      <3>1. ttl[k] \in {-1} \union 1..Window
        BY <1>0
      <3>2. ttl'[k] = IF ttl[k] > 1 THEN ttl[k] - 1 ELSE -1
        BY <1>5, <3>1 DEF Tick
      <3>3. count'[k] = IF ttl[k] = 1 THEN 0 ELSE count[k]
        BY <1>5 DEF Tick
      <3> QED BY <3>1, <3>2, <3>3
    <2> QED
      BY <1>0, <2>1, <2>2, <2>3 DEF CounterHasTtl
  <1>6. ASSUME NEW s \in Slots, RedisError(s) PROVE CounterHasTtl'
    <2>1. /\ \A t \in Slots \ {s} : req'[t] = req[t]
          /\ UNCHANGED <<count, ttl>>
          /\ orphaned' = IF At(s, "expire") THEN orphaned \union {Bucket(s)} ELSE orphaned
      BY <1>0, <1>6, GotoStep, PhaseNames DEF RedisError
    <2> QED BY <1>1, <2>1
  <1>7. ASSUME NEW s \in Slots,
               \/ Arrive(s) \/ Ttl(s) \/ Validate(s)
               \/ ServiceRefuses(s) \/ ServiceRuns(s) \/ Reply(s) \/ CallBreaks(s)
        PROVE  CounterHasTtl'
    <2>1. UNCHANGED redisVars /\ ~At(s, "expire")
      BY <1>7 DEF Arrive, Ttl, Validate, ServiceRefuses,
                  ServiceRuns, Reply, CallBreaks
    <2>2. \E x : req' = [req EXCEPT ![s] = x]
      BY <1>7 DEF Arrive, Ttl, Validate, ServiceRefuses, ServiceRuns, Reply,
                  CallBreaks, Respond, Goto
    <2> QED
      BY <1>0, <1>2, <2>1, <2>2
  <1>8. CASE RedisDown
    <2>1. /\ \A t \in Slots : At(t, "expire") => req'[t] = req[t]
          /\ UNCHANGED <<count, orphaned>>
      BY <1>0, <1>8 DEF RedisDown
    <2>2. PICK done : ttl' = Expired(done)
      BY <1>8 DEF RedisDown
    <2>3. \A t \in Slots : At(t, "expire") => req'[t].pc = "expire" /\ Bucket(t)' = Bucket(t)
      BY <2>1 DEF Bucket, route
    <2>4. \A k \in Buckets :
              \/ ttl'[k] = ttl[k]
              \/ count[k] > 0 /\ ttl'[k] > 0
      BY <2>2 DEF Expired
    <2> QED
      BY <1>0, <2>1, <2>3, <2>4 DEF CounterHasTtl
  <1>9. CASE Crash
    <2>1. /\ UNCHANGED <<count, ttl>>
          /\ orphaned' = orphaned \union {Bucket(s) : s \in {s \in Slots : At(s, "expire")}}
      BY <1>9 DEF Crash
    <2> QED BY <1>1, <2>1
  <1>10. CASE RedisUp \/ UNCHANGED vars
    BY <1>1, <1>10 DEF RedisUp, vars
  <1> QED
    BY <1>3, <1>4, <1>5, <1>6, <1>7, <1>8, <1>9, <1>10 DEF Next, Step, Proceed

-----------------------------------------------------------------------------
(* Every step preserves the invariant.                                     *)
LEMMA GatewayStep == GatewayInv /\ [Next]_vars => GatewayInv'
  <1> SUFFICES ASSUME GatewayInv, [Next]_vars PROVE GatewayInv'
    OBVIOUS
  <1>1. traffic' \in Traffic
    BY DEF GatewayInv, TypeOK, Next, vars
  <1>2. up' \in BOOLEAN /\ outages' \in 0..MaxOutages
    <2>1. up \in BOOLEAN /\ outages \in 0..MaxOutages
      BY DEF GatewayInv, TypeOK
    <2>2. \/ UNCHANGED outages
          \/ outages < MaxOutages /\ outages' = outages + 1
      BY DEF Next, Step, Proceed, Arrive, Incr, Expire, Ttl, RedisError,
             Validate, ServiceRefuses, ServiceRuns, Reply, CallBreaks, Tick,
             RedisDown, RedisUp, Crash, vars
    <2>3. UNCHANGED up \/ up' = TRUE \/ up' = FALSE
      BY DEF Next, Step, Proceed, Arrive, Incr, Expire, Ttl, RedisError,
             Validate, ServiceRefuses, ServiceRuns, Reply, CallBreaks, Tick,
             RedisDown, RedisUp, Crash, vars
    <2>4. up' \in BOOLEAN
      BY <2>1, <2>3
    <2>5. outages' \in 0..MaxOutages
      BY <2>1, <2>2, LimitAssumption
    <2> QED
      BY <2>4, <2>5
  <1> QED
    BY <1>1, <1>2, RequestStep, CounterStep, TtlStep DEF GatewayInv, TypeOK

(* Requests, counters and expiries are as GatewayInv says, always.         *)
THEOREM GatewayInvHolds == Spec => []GatewayInv
  BY GatewayInit, GatewayStep, PTL DEF Spec

(***************************************************************************)
(* On every route, whatever traffic, outage or crash: a success means that *)
(* the service did what was asked, a 4xx that it did not.                  *)
(***************************************************************************)
THEOREM AnswersTellEffect == Spec => []AnswerTellsEffect
  <1>1. GatewayInv => AnswerTellsEffect
    BY DEF GatewayInv
  <1> QED
    BY <1>1, GatewayInvHolds, PTL

(***************************************************************************)
(* A counter lets no more than the maximum through in its lifetime, for    *)
(* any number of parallel and repeated commands.                           *)
(***************************************************************************)
THEOREM WindowIsBounded == Spec => []WindowBound
  <1>1. GatewayInv => WindowBound
    BY DEF GatewayInv, CountedBeforeAdmitted, WindowBound
  <1> QED
    BY <1>1, GatewayInvHolds, PTL

(* Only the reply to an INCR sends a request to the refusal.               *)
LEMMA OnlyIncrRefuses ==
    ASSUME GatewayInv, Next, NEW s \in Slots, req'[s].pc = "ttl", ~At(s, "ttl")
    PROVE  \E times \in {1, 2} : Incr(s, times)
  <1>0. TypeOK /\ req \in [Slots -> Requests]
    BY DEF GatewayInv, TypeOK
  <1>1. ASSUME NEW t \in Slots, NEW st, Respond(t, st) PROVE FALSE
    BY <1>0, <1>1, FreeSlot, PhaseNames DEF Respond
  <1>2. ASSUME NEW t \in Slots, NEW p \in {"validate", "called", "ran"}, Goto(t, p)
        PROVE  FALSE
    BY <1>0, <1>2, GotoStep, PhaseNames
  <1>3. ASSUME NEW t \in Slots, Arrive(t) PROVE FALSE
    <2>1. ASSUME NEW rt \in DOMAIN Routes, NEW f \in AllFlaws,
                 NEW p \in {"incr", "validate"},
                 req' = [req EXCEPT ![t] = [pc |-> p, route |-> rt, flaw |-> f]]
          PROVE  FALSE
      BY <1>0, <2>1
    <2> QED BY <1>1, <1>3, <2>1, ArriveStep
  <1>4. ASSUME NEW t \in Slots,
               \/ Expire(t) \/ Ttl(t) \/ RedisError(t) \/ Validate(t)
               \/ ServiceRefuses(t) \/ ServiceRuns(t) \/ Reply(t) \/ CallBreaks(t)
        PROVE  FALSE
    BY <1>1, <1>2, <1>4 DEF Expire, Ttl, RedisError, Validate, ServiceRefuses,
       ServiceRuns, Reply, CallBreaks
  <1>5. ASSUME NEW t \in Slots, NEW times \in {1, 2}, Incr(t, times)
        PROVE  t = s
    <2>1. \E p \in {"expire", "ttl", "validate"} : Goto(t, p)
      BY <1>5, IncrCounts
    <2> QED BY <1>0, <2>1, GotoStep, PhaseNames
  <1>6. ~Tick /\ ~RedisUp
    BY DEF Tick, RedisUp
  <1>7. ~Crash
    BY FreeSlot, PhaseNames DEF Crash
  <1>8. ~RedisDown
    BY <1>0 DEF RedisDown, Requests
  <1> QED
    BY <1>3, <1>4, <1>5, <1>6, <1>7, <1>8 DEF Next, Step, Proceed

(***************************************************************************)
(* Nobody is refused before the counter has let the maximum through, but   *)
(* for requests that were counted twice.                                   *)
(***************************************************************************)
THEOREM NobodyRefusedEarly == Spec => RefusedOnlyWhenFull
  <1> DEFINE Full(s) == req'[s].pc = "ttl" /\ ~At(s, "ttl") =>
                            admitted'[Bucket(s)] + doubled'[Bucket(s)] >= MaxRequests
  <1>1. GatewayInv /\ GatewayInv' /\ [Next]_vars => [\A s \in Slots : Full(s)]_vars
    <2> SUFFICES ASSUME GatewayInv, GatewayInv', Next, NEW s \in Slots,
                        req'[s].pc = "ttl", ~At(s, "ttl")
                 PROVE  admitted'[Bucket(s)] + doubled'[Bucket(s)] >= MaxRequests
      OBVIOUS
    <2>1. PICK times \in {1, 2} : Incr(s, times)
      BY OnlyIncrRefuses
    <2> DEFINE k == Bucket(s)
               n == Saturate(count[k] + times)
    <2>2. /\ k \in Buckets
          /\ count' = [count EXCEPT ![k] = n]
          /\ Exceeds(n)
          /\ n > MaxRequests
      <3>1. /\ k \in Buckets
            /\ count' = [count EXCEPT ![k] = n]
            /\ Exceeds(n) => n > MaxRequests
            /\ \E p \in {"expire", "ttl", "validate"} :
                  Goto(s, p) /\ (p = "ttl" => Exceeds(n))
        BY <2>1, IncrCounts
      <3> HIDE DEF n
      <3>2. PICK p \in {"expire", "ttl", "validate"} :
                Goto(s, p) /\ (p = "ttl" => Exceeds(n))
        BY <3>1
      <3>3. req'[s].pc = p
        BY <3>2, GotoStep, PhaseNames DEF GatewayInv
      <3> QED BY <3>1, <3>2, <3>3
    <2> HIDE DEF n, k
    <2>3. count'[k] = n
      BY <2>2 DEF GatewayInv, TypeOK
    <2>4. MaxRequests <= admitted'[k] + doubled'[k]
      BY <2>2, <2>3 DEF GatewayInv, CountedBeforeAdmitted
    <2>5. admitted'[k] \in Nat /\ doubled'[k] \in Nat /\ MaxRequests \in Nat
      BY <2>2, LimitAssumption DEF GatewayInv, TypeOK
    <2> QED BY <2>4, <2>5 DEF k
  <1> QED
    BY <1>1, GatewayInvHolds, PTL DEF Spec, RefusedOnlyWhenFull

(***************************************************************************)
(* Whatever overlaps and fails: a counter has a TTL, gets one, or missed   *)
(* its EXPIRE in one of the ways LimitEnds excepts.                        *)
(***************************************************************************)
THEOREM CountersHaveTtl == Spec => []CounterHasTtl
  <1>1. GatewayInv => CounterHasTtl
    BY DEF GatewayInv
  <1> QED
    BY <1>1, GatewayInvHolds, PTL

------------------------------------------------------------------------------
(* Both together.                                                          *)

(***************************************************************************)
(* The gateway with its codec behaves, as to each, like that one alone:    *)
(* what is proved and checked of either holds of both.                     *)
(***************************************************************************)
THEOREM ApiIsBoth == ApiSpec => CodecSpec /\ Spec
  <1>1. ApiInit => CodecInit /\ Init
    BY DEF ApiInit
  <1>2. [ApiNext]_<<codecVars, vars>> => [CodecNext]_codecVars /\ [Next]_vars
    BY DEF ApiNext
  <1> QED
    BY <1>1, <1>2, PTL DEF ApiSpec, CodecSpec, Spec
==============================================================================
