--------------------------- MODULE ProtoFields ---------------------------
(***************************************************************************)
(* The vocabulary of the message descriptors: a field has its camelCase    *)
(* name, the kind of its values and, for an enumeration, the names of its  *)
(* numbers 0, 1, 2, ...  A message is the sequence of its fields, the      *)
(* field number being the position.                                        *)
(***************************************************************************)
EXTENDS Integers, Sequences

Field ==
    [name : STRING,
     kind : {"string", "bytes", "int32", "int64", "bool", "enum", "message", "map"},
     repeated : BOOLEAN, enum : Seq(STRING)]

Scalar(name, kind) ==
    [name |-> name, kind |-> kind, repeated |-> FALSE, enum |-> << >>]

Str(name)   == Scalar(name, "string")
Bytes(name) == Scalar(name, "bytes")
I32(name)   == Scalar(name, "int32")
I64(name)   == Scalar(name, "int64")
Bool(name)  == Scalar(name, "bool")
Msg(name)   == Scalar(name, "message")
MapOf(name) == Scalar(name, "map")

Enum(name, e)   == [Scalar(name, "enum") EXCEPT !.enum = e]
Repeated(field) == [field EXCEPT !.repeated = TRUE]
==========================================================================
