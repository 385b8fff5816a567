---------------------------- MODULE AbiRegistry ----------------------------
(***************************************************************************)
(* The schema registry (type ABI of accounts/abi/abi.go) and the method    *)
(* descriptor (type Mccmod of accounts/abi/method.go).                     *)
(*                                                                         *)
(* A registry is built from a schema document: JSON decodes the document   *)
(* into a list of fields and UnmarshalJSON files every field under a key   *)
(* of its own, one field per step of its loop.  Pack, Unpack,              *)
(* UnpackIntoMap, MccmodById and EventByID are functions of the finished   *)
(* registry and of their arguments, and a call of one of them is a step    *)
(* that leaves its result in ret.  UnmarshalJSON is exported: the holder   *)
(* of a registry may decode another document into it.                      *)
(*                                                                         *)
(* Names and signatures are strings, because the registry's behaviour      *)
(* depends on their text: fmt.Sprintf("%s%d") may build a name that the    *)
(* document also declares.  The hash is the injected function Keccak256.   *)
(***************************************************************************)
EXTENDS Integers, Sequences, SequencesExt, FiniteSets, TLC, AbiCodec

CONSTANTS
    Fields,         \* the entries a schema document may hold
    MaxFields,      \* the longest document considered
    MaxReloadFields,\* the longest document decoded into a registry in use
    Keccak256(_),   \* the injected hash, from a string to HashSize bytes
    SelectorSize,   \* bytes of the hash that make a method id (4 on the wire)
    CallNames,      \* the names callers ask for
    CallValues,     \* the value lists callers pack
    CallData        \* the byte strings callers unpack and look up

VARIABLES
    abi,            \* the registry: Constructor, Mccmods, Events
    fields,         \* the decoded document UnmarshalJSON iterates over
    next,           \* the index of the field the loop is at
    pc,             \* "new", "loading", "ready" or "failed"
    ret             \* the last call and what it returned

vars == <<abi, fields, next, pc, ret>>

\* The documents json.Unmarshal accepts: lists of fields.
Documents == BoundedSeq(Fields, MaxFields)

\* The documents decoded into a registry that has been used.
Reloads == BoundedSeq(Fields, MaxReloadFields)

\* A call and what it returned.
Returned(op, name, in, out) == [op |-> op, name |-> name, in |-> in, out |-> out]

-----------------------------------------------------------------------------
(* Mccmod, method.go *)

ZeroMccmod == [Name |-> "", Const |-> FALSE, Inputs |-> <<>>, Outputs |-> <<>>]

\* The canonical types of an argument list, comma-joined.
JoinedTypes(arguments) ==
    Join([i \in DOMAIN arguments |-> TypeString(arguments[i].Type)], ",")

\* Mutant: the types of the signature are joined like those of String.
SigSpaced(mccmod) == mccmod.Name \o "(" \o Join(
    [i \in DOMAIN mccmod.Inputs |-> TypeString(mccmod.Inputs[i].Type)], ", ") \o ")"

\* Mccmod.Sig: name(type1,type2,...)
Sig(mccmod) == mccmod.Name \o "(" \o JoinedTypes(mccmod.Inputs) \o ")"

\* Mutant: the constant marker is left out.
StringWithoutConstant(mccmod) ==
    LET inputs  == [i \in DOMAIN mccmod.Inputs |->
                       TypeString(mccmod.Inputs[i].Type) \o " " \o mccmod.Inputs[i].Name]
        outputs == [i \in DOMAIN mccmod.Outputs |->
                       TypeString(mccmod.Outputs[i].Type) \o
                       IF mccmod.Outputs[i].Name # ""
                       THEN " " \o mccmod.Outputs[i].Name ELSE ""]
    IN  "function " \o mccmod.Name \o "(" \o Join(inputs, ", ") \o ") " \o
        "returns(" \o Join(outputs, ", ") \o ")"

\* Mccmod.String: function name(type1 in1, ...) constant returns(type1 out1, ...)
String(mccmod) ==
    LET inputs  == [i \in DOMAIN mccmod.Inputs |->
                       TypeString(mccmod.Inputs[i].Type) \o " " \o mccmod.Inputs[i].Name]
        outputs == [i \in DOMAIN mccmod.Outputs |->
                       TypeString(mccmod.Outputs[i].Type) \o
                       IF mccmod.Outputs[i].Name # ""
                       THEN " " \o mccmod.Outputs[i].Name ELSE ""]
    IN  "function " \o mccmod.Name \o "(" \o Join(inputs, ", ") \o ") " \o
        (IF mccmod.Const THEN "constant " ELSE "") \o
        "returns(" \o Join(outputs, ", ") \o ")"

\* Mccmod.Id: the first bytes of the hash of the signature.
Id(mccmod) == SubSeq(Keccak256(Sig(mccmod)), 1, SelectorSize)

\* Event.Id: the whole hash of the event's signature.
EventId(event) ==
    Keccak256(event.Name \o "(" \o JoinedTypes(event.Inputs) \o ")")

-----------------------------------------------------------------------------
(* ABI, abi.go *)

EmptyMap == [n \in {} |-> ZeroMccmod]

\* var abi ABI
ZeroABI == [Constructor |-> ZeroMccmod, Mccmods |-> EmptyMap, Events |-> EmptyMap]

\* Mutant: the loop of UnmarshalJSON counts idx from 1.
FreeNameFromOne(declared, taken) ==
    IF declared \notin taken THEN declared
    ELSE LET Try(idx) == declared \o ToString(idx)
         IN  Try(CHOOSE idx \in 1..(Cardinality(taken) + 1) :
                    /\ Try(idx) \notin taken
                    /\ \A lower \in 1..(idx - 1) : Try(lower) \in taken)

\* The disambiguation loop of UnmarshalJSON: the declared name when it is
\* free, otherwise the declared name followed by the first idx = 0, 1, ...
\* that makes a free name.
FreeName(declared, taken) ==
    IF declared \notin taken THEN declared
    ELSE LET Try(idx) == declared \o ToString(idx)
             first == CHOOSE idx \in 0..Cardinality(taken) :
                         /\ Try(idx) \notin taken
                         /\ \A lower \in 0..(idx - 1) : Try(lower) \in taken
         IN  Try(first)

\* Mutant: the call data of a method goes out without the method's id.
AbiPackWithoutId(a, name, args) ==
    IF name = "" THEN Pack(a.Constructor.Inputs, args)
    ELSE IF name \notin DOMAIN a.Mccmods THEN Err("mccmod not found")
    ELSE Pack(a.Mccmods[name].Inputs, args)

\* ABI.Pack
AbiPack(a, name, args) ==
    IF name = "" THEN Pack(a.Constructor.Inputs, args)
    ELSE IF name \notin DOMAIN a.Mccmods THEN Err("mccmod not found")
    ELSE LET mccmod    == a.Mccmods[name]
             arguments == Pack(mccmod.Inputs, args)
         IN  IF arguments.ok THEN Ok(Id(mccmod) \o arguments.val) ELSE arguments

\* Mutant: the output of a method is decoded with the method's inputs.
ArgumentsOfInputs(a, name, data) ==
    IF Len(data) = 0 THEN Err("unmarshalling empty output")
    ELSE IF name \in DOMAIN a.Mccmods
         THEN IF Len(data) % WordSize # 0 THEN Err("improperly formatted output")
              ELSE Ok(a.Mccmods[name].Inputs)
    ELSE IF name \in DOMAIN a.Events THEN Ok(a.Events[name].Inputs)
    ELSE Err("could not locate named mccmod or event")

\* ABI.Unpack and ABI.UnpackIntoMap take the same path to the arguments
\* they decode the data with: the outputs of the method of that name, or
\* else the inputs of the event of that name.
ArgumentsOf(a, name, data) ==
    IF Len(data) = 0 THEN Err("unmarshalling empty output")
    ELSE IF name \in DOMAIN a.Mccmods
         THEN IF Len(data) % WordSize # 0 THEN Err("improperly formatted output")
              ELSE Ok(a.Mccmods[name].Outputs)
    ELSE IF name \in DOMAIN a.Events THEN Ok(a.Events[name].Inputs)
    ELSE Err("could not locate named mccmod or event")

\* ABI.Unpack
AbiUnpack(a, name, data) ==
    LET arguments == ArgumentsOf(a, name, data)
    IN  IF arguments.ok THEN Unpack(arguments.val, data) ELSE arguments

\* ABI.UnpackIntoMap
AbiUnpackIntoMap(a, name, data) ==
    LET arguments == ArgumentsOf(a, name, data)
    IN  IF arguments.ok THEN UnpackIntoMap(arguments.val, data) ELSE arguments

\* ABI.MccmodById ranges over a Go map, whose order of iteration is not
\* defined: every method whose id matches is a possible result.
MccmodById(a, sigdata) ==
    IF Len(sigdata) < SelectorSize THEN {Err("data too short")}
    ELSE LET found == {n \in DOMAIN a.Mccmods :
                          Id(a.Mccmods[n]) = SubSeq(sigdata, 1, SelectorSize)}
         IN  IF found = {} THEN {Err("no mccmod with id")}
             ELSE {Ok(a.Mccmods[n]) : n \in found}

\* ABI.EventByID, likewise.
EventByID(a, topic) ==
    LET found == {n \in DOMAIN a.Events : EventId(a.Events[n]) = topic}
    IN  IF found = {} THEN {Err("no event with id")}
        ELSE {Ok(a.Events[n]) : n \in found}

-----------------------------------------------------------------------------
(* Building the registry *)

Init ==
    /\ abi = ZeroABI
    /\ fields = <<>>
    /\ next = 1
    /\ pc = "new"
    /\ ret = Returned("none", "", <<>>, Ok("nil"))

\* No load is under way: the program may ask for a registry, the first or
\* another one.
Idle == pc # "loading"

\* Mutant: the maps of the registry are used as they are.
MapsKept(a) == a

\* abi.Mccmods = make(...); abi.Events = make(...): the Constructor is not
\* touched.
MapsMadeAnew(a) == [a EXCEPT !.Mccmods = EmptyMap, !.Events = EmptyMap]

\* UnmarshalJSON up to its loop, on the registry `into`: json.Unmarshal
\* parses the whole document, then the maps are made anew.
StartLoad(into, doc) ==
    /\ fields' = doc
    /\ abi' = MapsMadeAnew(into)
    /\ next' = 1
    /\ pc' = "loading"
    /\ ret' = Returned("JSON", "", <<>>, Ok("decoding"))

\* JSON: decode the document into a fresh ABI.
JSON(doc) == Idle /\ StartLoad(ZeroABI, doc)

\* UnmarshalJSON on a registry in use, as json.Unmarshal(data, &abi) calls
\* it: the document is decoded into the registry as it is.
UnmarshalJSON(doc) == pc = "ready" /\ StartLoad(abi, doc)

\* ... and when the document is not a list of fields: the error is returned
\* before the registry is touched.
UnmarshalJSONFails ==
    /\ pc = "ready"
    /\ ret' = Returned("JSON", "", <<>>, Err("json"))
    /\ UNCHANGED <<abi, fields, next, pc>>

\* The document is not a list of fields: json.Unmarshal fails, nothing is
\* built and JSON returns ABI{} and the error.
JSONFails ==
    /\ Idle
    /\ abi' = ZeroABI
    /\ fields' = <<>>
    /\ next' = 1
    /\ pc' = "failed"
    /\ ret' = Returned("JSON", "", <<>>, Err("json"))

Loading == pc = "loading" /\ next <= Len(fields)

Step == next' = next + 1 /\ UNCHANGED <<fields, pc, ret>>

\* case "constructor"
LoadConstructor ==
    /\ Loading
    /\ fields[next].Type = "constructor"
    /\ abi' = [abi EXCEPT !.Constructor =
                  [ZeroMccmod EXCEPT !.Inputs = fields[next].Inputs]]
    /\ Step

\* Mutant: the method is filed under the declared name and not under the
\* name the loop settled on.
LoadFunctionAtDeclaredName ==
    /\ Loading
    /\ fields[next].Type \in {"function", ""}
    /\ LET field == fields[next]
           name  == FreeName(field.Name, DOMAIN abi.Mccmods)
       IN  abi' = [abi EXCEPT !.Mccmods = (field.Name :>
                      [Name |-> name, Const |-> field.Constant,
                       Inputs |-> field.Inputs, Outputs |-> field.Outputs]) @@ @]
    /\ Step

\* case "function", ""
LoadFunction ==
    /\ Loading
    /\ fields[next].Type \in {"function", ""}
    /\ LET field == fields[next]
           name  == FreeName(field.Name, DOMAIN abi.Mccmods)
       IN  abi' = [abi EXCEPT !.Mccmods = (name :>
                      [Name |-> name, Const |-> field.Constant,
                       Inputs |-> field.Inputs, Outputs |-> field.Outputs]) @@ @]
    /\ Step

\* case "event"
LoadEvent ==
    /\ Loading
    /\ fields[next].Type = "event"
    /\ LET field == fields[next]
           name  == FreeName(field.Name, DOMAIN abi.Events)
       IN  abi' = [abi EXCEPT !.Events = (name :>
                      [Name |-> name, Anonymous |-> field.Anonymous,
                       Inputs |-> field.Inputs]) @@ @]
    /\ Step

\* A field of any other type falls through the switch.
SkipField ==
    /\ Loading
    /\ fields[next].Type \notin {"constructor", "function", "", "event"}
    /\ UNCHANGED abi
    /\ Step

\* The loop is over: UnmarshalJSON returns nil and JSON the registry.
Loaded ==
    /\ pc = "loading"
    /\ next > Len(fields)
    /\ pc' = "ready"
    /\ ret' = Returned("JSON", "", <<>>, Ok("nil"))
    /\ UNCHANGED <<abi, fields, next>>

-----------------------------------------------------------------------------
(* Calls on the finished registry *)

Call(op, name, in, out) ==
    /\ pc = "ready"
    /\ ret' = Returned(op, name, in, out)
    /\ UNCHANGED <<abi, fields, next, pc>>

PackCall ==
    \E name \in CallNames, args \in CallValues :
        Call("Pack", name, args, AbiPack(abi, name, args))

UnpackCall ==
    \E name \in CallNames, data \in CallData :
        Call("Unpack", name, data, AbiUnpack(abi, name, data))

UnpackIntoMapCall ==
    \E name \in CallNames, data \in CallData :
        Call("UnpackIntoMap", name, data, AbiUnpackIntoMap(abi, name, data))

MccmodByIdCall ==
    \E sigdata \in CallData : \E out \in MccmodById(abi, sigdata) :
        Call("MccmodById", "", sigdata, out)

EventByIDCall ==
    \E topic \in CallData : \E out \in EventByID(abi, topic) :
        Call("EventByID", "", topic, out)

Next ==
    \/ \E doc \in Documents : JSON(doc)
    \/ JSONFails
    \/ \E doc \in Reloads : UnmarshalJSON(doc)
    \/ UnmarshalJSONFails
    \/ LoadConstructor \/ LoadFunction \/ LoadEvent \/ SkipField
    \/ Loaded
    \/ PackCall \/ UnpackCall \/ UnpackIntoMapCall
    \/ MccmodByIdCall \/ EventByIDCall

Spec == Init /\ [][Next]_vars

-----------------------------------------------------------------------------
(* Properties *)

RegistryTypeOK ==
    /\ pc \in {"new", "loading", "ready", "failed"}
    /\ fields \in Documents
    /\ next \in 1..(Len(fields) + 1)
    /\ \A n \in DOMAIN abi.Mccmods : abi.Mccmods[n].Name = n
    /\ \A n \in DOMAIN abi.Events : abi.Events[n].Name = n
    /\ abi.Constructor.Name = ""
    /\ ret.op \in {"none", "JSON", "Pack", "Unpack", "UnpackIntoMap",
                   "MccmodById", "EventByID"}
    /\ ret.out.ok \in BOOLEAN

\* The fields the loop has been through, by index and kind.
Filed(kinds) == {i \in 1..(next - 1) : fields[i].Type \in kinds}
FunctionKinds == {"function", ""}
EventKinds    == {"event"}

\* The entry at key n holds what field i declared.
HoldsFunction(n, i) ==
    /\ abi.Mccmods[n].Inputs = fields[i].Inputs
    /\ abi.Mccmods[n].Outputs = fields[i].Outputs
    /\ abi.Mccmods[n].Const = fields[i].Constant

HoldsEvent(n, i) ==
    /\ abi.Events[n].Inputs = fields[i].Inputs
    /\ abi.Events[n].Anonymous = fields[i].Anonymous

\* Every function and every event of the document is in the registry under
\* a key of its own, however the declared names repeat: the disambiguation
\* loop of UnmarshalJSON never files an entry over an earlier one, at any
\* point of the load.
EveryEntryRegistered ==
    /\ \E key \in Bijection(Filed(FunctionKinds), DOMAIN abi.Mccmods) :
          \A i \in Filed(FunctionKinds) : HoldsFunction(key[i], i)
    /\ \E key \in Bijection(Filed(EventKinds), DOMAIN abi.Events) :
          \A i \in Filed(EventKinds) : HoldsEvent(key[i], i)

\* The key section 3 of spec.md gives the field at index i: the declared
\* name for the first field of its kind with that name, and the declared
\* name followed by 0, 1, ... for the later ones, in document order.
SpecifiedKey(i, kinds) ==
    LET earlier == {j \in 1..(i - 1) : /\ fields[j].Type \in kinds
                                       /\ fields[j].Name = fields[i].Name}
    IN  IF earlier = {} THEN fields[i].Name
        ELSE fields[i].Name \o ToString(Cardinality(earlier) - 1)

\* Every filed entry is at the key the specification gives it.
SuffixesCountFromZero ==
    /\ \A i \in Filed(FunctionKinds) :
          /\ SpecifiedKey(i, FunctionKinds) \in DOMAIN abi.Mccmods
          /\ HoldsFunction(SpecifiedKey(i, FunctionKinds), i)
    /\ \A i \in Filed(EventKinds) :
          /\ SpecifiedKey(i, EventKinds) \in DOMAIN abi.Events
          /\ HoldsEvent(SpecifiedKey(i, EventKinds), i)

\* The document declares, for one kind, a name that the disambiguation of
\* another declared name can build.
DeclaresBuiltName ==
    \E kinds \in {FunctionKinds, EventKinds} :
        \E i, j \in Filed(kinds), idx \in 0..MaxFields :
            fields[i].Name = fields[j].Name \o ToString(idx)

\* When no declared name of the document is one the disambiguation can
\* build, the loop of UnmarshalJSON gives the overloads of a name the keys
\* of spec.md section 3: name, name0, name1, ... in document order.
SuffixesInDocumentOrder == ~DeclaresBuiltName => SuffixesCountFromZero

\* The comment in ABI.Unpack says "there can't be naming collisions with
\* contracts and events": no name is a key of both maps.
NoNamingCollisions ==
    DOMAIN abi.Mccmods \cap DOMAIN abi.Events = {}

\* The selector a contract answers to is the hash of the signature as the
\* schema document declares it (spec.md sections 4.4 and 6): the id of every
\* registered method is the id of a method so declared.
SelectorOfDeclaredSignature ==
    \A n \in DOMAIN abi.Mccmods :
        \E i \in Filed(FunctionKinds) :
            /\ HoldsFunction(n, i)
            /\ Id(abi.Mccmods[n]) = Id([abi.Mccmods[n] EXCEPT !.Name = fields[i].Name])

\* The ids of the registered methods are pairwise distinct.
SelectorsDistinct ==
    \A n, m \in DOMAIN abi.Mccmods :
        Id(abi.Mccmods[n]) = Id(abi.Mccmods[m]) => n = m

\* Call data packed for a method finds its way back to that method: after
\* abi.Pack(name, ...), MccmodById on the packed bytes can return the method
\* filed under name, and returns no other unless two ids collide.
PackRoutesToItsMethod ==
    (ret.op = "Pack" /\ ret.out.ok /\ ret.name # "") =>
        LET found == MccmodById(abi, ret.out.val)
        IN  /\ \E r \in found : r.ok /\ r.val = abi.Mccmods[ret.name]
            /\ SelectorsDistinct =>
                  \A r \in found : r.ok /\ r.val = abi.Mccmods[ret.name]

\* The call returned the values.
Returns(result, values) == result.ok /\ result.val = values

\* What a callee encodes, the registry decodes: ABI.Unpack by a method's
\* name inverts the packing of that method's outputs, and by the name of an
\* event, the packing of the event's inputs (abi.go:83-91), and neither
\* length check of Unpack refuses what the encoder made.  Two cases are left
\* out, because Unpack does not decode them: the empty data of no values,
\* which abi.go:78 refuses, and an event whose name a method has, which
\* abi.go:83 never reaches.
UnpackInvertsPack ==
    pc = "ready" =>
        \A values \in CallValues :
            /\ \A n \in DOMAIN abi.Mccmods :
                  LET data == Pack(abi.Mccmods[n].Outputs, values)
                  IN  (data.ok /\ data.val # <<>>) =>
                          Returns(AbiUnpack(abi, n, data.val), values)
            /\ \A n \in DOMAIN abi.Events \ DOMAIN abi.Mccmods :
                  LET data == Pack(abi.Events[n].Inputs, values)
                  IN  (data.ok /\ data.val # <<>>) =>
                          Returns(AbiUnpack(abi, n, data.val), values)

=============================================================================
