------------------------------- MODULE Verify -------------------------------
(***************************************************************************)
(* Verify (valuerpc/verify.go), which the callee calls on the arguments it *)
(* received and on the result of its handler, and the conversion a value   *)
(* undergoes between the caller and the callee.  A caller verifies         *)
(* nothing, so that the arguments Verify sees have always been on the      *)
(* wire.                                                                   *)
(*                                                                         *)
(* Verify looks at the kind of a value and of its members, never further   *)
(* down: a member is represented by its kind, "nil" being Go's nil.        *)
(***************************************************************************)
EXTENDS Integers, Sequences, FiniteSets

CONSTANTS
    Scalars,        \* kinds other than NULL, LIST and MAP
    Names,          \* names of parameters
    MaxLen          \* bound on the length of a list

ASSUME ScalarsAssumption == Scalars \intersect {"nil", "absent", "NULL", "LIST", "MAP"} = {}
ASSUME MaxLenAssumption == MaxLen \in Nat

Kinds == Scalars \union {"NULL", "LIST", "MAP"}
Members == Kinds \union {"nil"}
SeqsOf(S) == UNION {[1..n -> S] : n \in 0..MaxLen}

Values ==
    [kind : Scalars \union {"NULL", "nil"}]
    \union [kind : {"LIST"}, items : SeqsOf(Members)]
    \union [kind : {"MAP"}, fields : [Names -> Members \union {"absent"}]]

ArgDef == [kind : Kinds, required : BOOLEAN]
ParamDef == [name : Names, kind : Kinds, required : BOOLEAN]
TypeDef ==
    [type : {"Any", "Void"}]
    \union [type : {"Arg"}, arg : ArgDef]
    \union [type : {"Args"}, list : SeqsOf(ArgDef)]
    \union [type : {"Params"}, map : {ps \in SUBSET ParamDef : Cardinality(ps) <= MaxLen}]

-----------------------------------------------------------------------------
\* Map.Get: the member, or Null when there is none.
Get(fields, name) == IF fields[name] = "absent" THEN "NULL" ELSE fields[name]

\* VerifyArg and VerifyParam.
VerifyArg(kind, def) == IF kind = "nil" THEN ~def.required ELSE kind = def.kind

VerifyArgs(args, list) ==
    IF args.kind \in {"nil", "NULL"}
    THEN list = << >>
    ELSE /\ args.kind = "LIST"
         /\ Len(args.items) = Len(list)
         /\ \A i \in DOMAIN list : VerifyArg(args.items[i], list[i])

\* A parameter that is Null or absent matters only when it is required.
VerifyParams(args, map) ==
    IF args.kind \in {"nil", "NULL"}
    THEN map = {}
    ELSE /\ args.kind = "MAP"
         /\ \A def \in map :
               LET val == Get(args.fields, def.name)
               IN  IF val = "NULL" THEN ~def.required ELSE VerifyArg(val, def)

VerifyVoid(args) ==
    \/ args.kind \in {"nil", "NULL"}
    \/ args.kind = "LIST" /\ args.items = << >>
    \/ args.kind = "MAP" /\ \A name \in Names : args.fields[name] = "absent"

Verify(args, def) ==
    CASE def.type = "Any"    -> TRUE
      [] def.type = "Void"   -> VerifyVoid(args)
      [] def.type = "Arg"    -> VerifyArg(args.kind, def.arg)
      [] def.type = "Args"   -> VerifyArgs(args, def.list)
      [] def.type = "Params" -> VerifyParams(args, def.map)

-----------------------------------------------------------------------------
(* The wire *)

\* MessagePack has no Go nil: it arrives as Null.
WireMember(kind) == IF kind = "nil" THEN "NULL" ELSE kind

\* What the callee unpacks for what the caller passed.
Wire(args) ==
    IF args.kind = "LIST"
    THEN [kind |-> "LIST", items |-> [i \in DOMAIN args.items |-> WireMember(args.items[i])]]
    ELSE IF args.kind = "MAP"
         THEN [kind |-> "MAP", fields |-> [n \in Names |-> WireMember(args.fields[n])]]
         ELSE [kind |-> WireMember(args.kind)]

-----------------------------------------------------------------------------
(* What the callee accepts, by what the caller passed *)

\* nil is accepted for the kind NULL only, optional or not.
ArgFits(kind, arg) == kind = arg.kind \/ (kind = "nil" /\ arg.kind = "NULL")

\* nil, Null and no such member are one and the same.
ParamFits(kind, param) ==
    IF kind \in {"nil", "NULL", "absent"} THEN ~param.required ELSE kind = param.kind

Fits(v, def) ==
    CASE def.type = "Any"  -> TRUE
      [] def.type = "Void" ->
            \/ v.kind \in {"nil", "NULL"}
            \/ v.kind = "LIST" /\ v.items = << >>
            \/ v.kind = "MAP" /\ \A name \in Names : v.fields[name] = "absent"
      [] def.type = "Arg"  -> ArgFits(v.kind, def.arg)
      [] def.type = "Args" ->
            \/ v.kind \in {"nil", "NULL"} /\ def.list = << >>
            \/ /\ v.kind = "LIST" /\ Len(v.items) = Len(def.list)
               /\ \A i \in DOMAIN def.list : ArgFits(v.items[i], def.list[i])
      [] def.type = "Params" ->
            \/ v.kind \in {"nil", "NULL"} /\ def.map = {}
            \/ v.kind = "MAP" /\ \A p \in def.map : ParamFits(v.fields[p.name], p)

\* The callee accepts what Fits says and nothing else, for every value a caller can
\* pass and every definition.  An optional parameter may be left out, passed as nil
\* or as Null.  An optional argument may not: by the time Verify sees its nil it is
\* a Null, which VerifyArg, unlike VerifyParams, does not know.
CalleeAccepts == \A v \in Values, def \in TypeDef : Verify(Wire(v), def) <=> Fits(v, def)
=============================================================================
