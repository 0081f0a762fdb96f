---------------------------- MODULE MCApiGateway ----------------------------
(***************************************************************************)
(* A small instance of ApiGateway: every message of the three services     *)
(* between unlike ends, and every route with every flaw.  As the two parts *)
(* share nothing, TLC runs each while the other rests.                     *)
(***************************************************************************)
EXTENDS ApiGateway

Bank == INSTANCE BankProto
Ca   == INSTANCE CaProto
Kdc  == INSTANCE KdcProto

AllMessages == Bank!Messages \union Ca!Messages \union Kdc!Messages

(* Both ends with the same descriptor; a writer with one more field of     *)
(* either wire type; a writer without the last field; a writer in which    *)
(* one field still has another wire type.                                  *)
Retyped(f) == IF WireType(f) = 0 THEN Str(f.name) ELSE I64(f.name)

MCPairs ==
    {<<d, d>> : d \in AllMessages}
        \union {<<Append(d, f), d>> : d \in AllMessages, f \in {Str("new"), I64("new")}}
        \union {<<SubSeq(d, 1, Len(d) - 1), d>> : d \in AllMessages \ {<< >>}}
        \union UNION {{<<[d EXCEPT ![i] = Retyped(@)], d>> : i \in DOMAIN d} :
                         d \in AllMessages}

(* The values a field can carry, the ordinary one first.                   *)
Ordinary(f) ==
    CASE f.repeated     -> <<1>>
      [] f.kind = "map" -> [k \in {"k1"} |-> 1]
      [] OTHER          -> 1

Special(f) ==
    CASE f.repeated         -> {<<0, 1>>, <<1, 1>>, <<0>>}
      [] f.kind = "map"     -> {[k \in {"k1", "k2"} |-> IF k = "k1" THEN 0 ELSE 1]}
      [] f.kind = "int64"   -> {MaxSafe, MaxSafe + 1, -MaxSafe, -MaxSafe - 1}
      [] f.kind = "int32"   -> {-1}
      [] f.kind = "enum"    -> {Len(f.enum)}
      [] OTHER              -> {}

Full(d) == [i \in DOMAIN d |-> Ordinary(d[i])]

(* Between equal ends: all fields set, none set, and each field in turn    *)
(* alone set, alone missing, or with a special value.  Between unequal     *)
(* ends: all fields set, and for each field the message without it.        *)
MCSamples(p) ==
    LET d == p[1]
    IN  {Full(d)}
            \union {[Full(d) EXCEPT ![i] = Default(d[i])] : i \in DOMAIN d}
            \union IF p[1] # p[2] THEN {}
                   ELSE {createBase(d)}
                          \union {[createBase(d) EXCEPT ![i] = Ordinary(d[i])] :
                                     i \in DOMAIN d}
                          \union UNION {{[Full(d) EXCEPT ![i] = v] :
                                            v \in Special(d[i])} : i \in DOMAIN d}

(* For every route: requests with every flaw on one slot, and sound ones   *)
(* that share the counter on the other.                                    *)
MCTraffic ==
    {<<{[route |-> r, flaw |-> f] : f \in Flaws(r)},
       {[route |-> r, flaw |-> "none"]}>> : r \in DOMAIN Routes}

-----------------------------------------------------------------------------
(* At rest: an empty message not yet built, and a gateway without requests *)
(* before one of its routes.                                               *)
CodecRests == pair = <<<< >>, << >>>> /\ spelling = "" /\ stage = "build"

GatewayRests ==
    Init /\ traffic = CHOOSE t \in Traffic : TRUE

MCInit == ApiInit /\ (CodecRests \/ GatewayRests)

(* A decoded message needs nothing more.                                   *)
Decoded == stage \in {"done", "thrown"} /\ UNCHANGED <<codecVars, vars>>

MCNext ==
    \/ GatewayRests /\ CodecNext /\ UNCHANGED vars
    \/ CodecRests /\ Next /\ UNCHANGED codecVars
    \/ Decoded

MCSpec == MCInit /\ [][MCNext]_<<codecVars, vars>> /\ GatewayFairness
=============================================================================
