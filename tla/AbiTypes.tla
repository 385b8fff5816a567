------------------------------ MODULE AbiTypes ------------------------------
(***************************************************************************)
(* The type descriptor of the contract-call codec: the closed, recursive   *)
(* variant of encodable types, the static/dynamic classification that the  *)
(* head/tail layout is driven by, and the canonical string of a type.      *)
(*                                                                         *)
(* The descriptor's source (type.go) is not part of this tree; the module  *)
(* follows sections 3 and 4.1 of spec.md.  The canonical string is built   *)
(* as a real string because signatures, selectors and the registry's test  *)
(* vectors are about its exact text.                                       *)
(***************************************************************************)
EXTENDS Naturals, Sequences, SequencesExt, TLC

\* Elementary types.
UintTy(bits)     == [T |-> "uint", Size |-> bits]
IntTy(bits)      == [T |-> "int", Size |-> bits]
AddressTy        == [T |-> "address"]
BoolTy           == [T |-> "bool"]
FixedBytesTy(n)  == [T |-> "fixedbytes", Size |-> n]
BytesTy          == [T |-> "bytes"]
StringTy         == [T |-> "string"]

\* Compound types.  The components of a tuple are arguments: (name, type).
TupleTy(elems)   == [T |-> "tuple", Elems |-> elems]
ArrayTy(elem, n) == [T |-> "array", Elem |-> elem, Size |-> n]
SliceTy(elem)    == [T |-> "slice", Elem |-> elem]

\* An Argument of a schema; Indexed is meaningful for event inputs only.
Argument(name, type) == [Name |-> name, Type |-> type, Indexed |-> FALSE]

ScalarKinds == {"uint", "int", "address", "bool", "fixedbytes"}

\* The types of an argument list, in declaration order.
TypesOf(arguments) == [i \in DOMAIN arguments |-> arguments[i].Type]

\* A type is dynamic iff it is bytes, string, a dynamic array, or a tuple or
\* fixed array with a dynamic member, transitively.
RECURSIVE IsDynamic(_)
IsDynamic(t) ==
    \/ t.T \in {"bytes", "string", "slice"}
    \/ t.T = "array" /\ t.Size > 0 /\ IsDynamic(t.Elem)
    \/ t.T = "tuple" /\ \E i \in DOMAIN t.Elems : IsDynamic(t.Elems[i].Type)

\* The number of 32-byte words a type occupies in the head of the enclosing
\* encoding: one per scalar, the concatenation of the members for a static
\* tuple or fixed array, and the single offset word for a dynamic type.
RECURSIVE HeadWords(_)
HeadWords(t) ==
    CASE IsDynamic(t) -> 1
      [] t.T = "array" -> t.Size * HeadWords(t.Elem)
      [] t.T = "tuple" ->
            FoldLeft(LAMBDA n, e : n + HeadWords(e.Type), 0, t.Elems)
      [] OTHER -> 1

\* strings.Join(parts, sep)
Join(parts, sep) ==
    FoldLeftDomain(LAMBDA acc, i : IF i = 1 THEN parts[i]
                                            ELSE acc \o sep \o parts[i],
                   "", parts)

\* The canonical string of a type: uint256, (uint256,uint256)[5][], ...
RECURSIVE TypeString(_)
TypeString(t) ==
    CASE t.T \in {"uint", "int"} -> t.T \o ToString(t.Size)
      [] t.T = "fixedbytes" -> "bytes" \o ToString(t.Size)
      [] t.T = "array" -> TypeString(t.Elem) \o "[" \o ToString(t.Size) \o "]"
      [] t.T = "slice" -> TypeString(t.Elem) \o "[]"
      [] t.T = "tuple" ->
            "(" \o Join([i \in DOMAIN t.Elems |-> TypeString(t.Elems[i].Type)],
                        ",") \o ")"
      [] OTHER -> t.T

=============================================================================
