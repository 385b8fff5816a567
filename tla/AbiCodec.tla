------------------------------ MODULE AbiCodec ------------------------------
(***************************************************************************)
(* The encoder ("Pack") and decoder ("Unpack", "UnpackIntoMap") of the     *)
(* contract-call codec, as operators over byte sequences.                  *)
(*                                                                         *)
(* Their source (argument.go, pack.go, unpack.go) is not part of this      *)
(* tree; the module follows sections 4.2 and 4.3 of spec.md.  A byte is a  *)
(* number in 0..255 and the wire is a sequence of bytes, so that offsets,  *)
(* length words, alignment and padding are the real ones.  The word is     *)
(* WordSize bytes wide (32 on the wire; a model takes a narrower word, and *)
(* every width below scales with it).                                      *)
(***************************************************************************)
EXTENDS Integers, Sequences, SequencesExt, AbiTypes

CONSTANTS
    WordSize,       \* bytes in a word
    AddressSize     \* bytes in an address (20 on the wire), < WordSize

ASSUME WordSize \in Nat \ {0} /\ AddressSize \in 1..(WordSize - 1)

\* The result of an operation that may fail.
Ok(v)  == [ok |-> TRUE, val |-> v]
Err(e) == [ok |-> FALSE, val |-> e]

EncodingError == Err("EncodingError")
DecodingError == Err("DecodingError")

-----------------------------------------------------------------------------
(* Words *)

Pow256(k) == FoldLeft(LAMBDA p, i : p * 256, 1, [i \in 1..k |-> i])

WordModulus == Pow256(WordSize)

Zeros(n) == [i \in 1..n |-> 0]

\* The big-endian word of a number; a negative number is its two's complement.
WordOf(n) ==
    [i \in 1..WordSize |-> ((n % WordModulus) \div Pow256(WordSize - i)) % 256]

\* The number a sequence of bytes spells, big-endian.
BigEndian(bytes) == FoldLeft(LAMBDA n, b : n * 256 + b, 0, bytes)

\* The bytes needed to fill n bytes up to the next word boundary.
Padding(n) == (WordSize - (n % WordSize)) % WordSize

-----------------------------------------------------------------------------
(* Values *)

\* A value a caller hands to Pack, or gets from Unpack, carries its kind:
\* the encoder inspects the kind of what it is given before it encodes it.
IntV(n)   == <<"int", n>>       \* an integer of either sign
BoolV(b)  == <<"bool", b>>
BytesV(s) == <<"bytes", s>>     \* an address, bytesN, bytes, string
ListV(vs) == <<"list", vs>>     \* a tuple, an array, a slice

Kind(value) == value[1]
Held(value) == value[2]

\* The kind of value each type takes.
KindOf(t) ==
    CASE t.T \in {"uint", "int"} -> "int"
      [] t.T = "bool" -> "bool"
      [] t.T \in {"tuple", "array", "slice"} -> "list"
      [] OTHER -> "bytes"

\* The types of the members of a compound value of n members.
MemberTypes(t, n) ==
    IF t.T = "tuple" THEN TypesOf(t.Elems) ELSE [i \in 1..n |-> t.Elem]

-----------------------------------------------------------------------------
(* Encoder *)

\* A value has the kind, the shape and the range of its declared type: an
\* integer within the bit width, an address or fixed bytes of the declared
\* length, a fixed array of the declared length, one member per component
\* of a tuple.
RECURSIVE WellTyped(_, _)
WellTyped(t, value) ==
    /\ Kind(value) = KindOf(t)
    /\ CASE t.T = "uint" -> Held(value) \in 0..(Pow256(t.Size \div 8) - 1)
         [] t.T = "int" -> /\ 2 * Held(value) < Pow256(t.Size \div 8)
                           /\ 2 * Held(value) >= 0 - Pow256(t.Size \div 8)
         [] t.T = "address" -> Len(Held(value)) = AddressSize
         [] t.T = "fixedbytes" -> Len(Held(value)) = t.Size
         [] t.T \in {"array", "slice", "tuple"} ->
               /\ t.T = "array" => Len(Held(value)) = t.Size
               /\ t.T = "tuple" => Len(Held(value)) = Len(t.Elems)
               /\ \A i \in DOMAIN Held(value) :
                     WellTyped(MemberTypes(t, Len(Held(value)))[i], Held(value)[i])
         [] OTHER -> TRUE

RECURSIVE Encode(_, _), EncodeList(_, _)

\* The head/tail layout of a list of values: a static value goes into the
\* head in place, a dynamic one leaves in the head its offset from the start
\* of the head and goes to the tail.
EncodeList(types, values) ==
    LET headLen == WordSize * FoldLeft(LAMBDA n, t : n + HeadWords(t), 0, types)
        Put(acc, i) ==
            IF IsDynamic(types[i])
            THEN [head |-> acc.head \o WordOf(headLen + Len(acc.tail)),
                  tail |-> acc.tail \o Encode(types[i], values[i])]
            ELSE [head |-> acc.head \o Encode(types[i], values[i]),
                  tail |-> acc.tail]
        laid == FoldLeftDomain(Put, [head |-> <<>>, tail |-> <<>>], types)
    IN  laid.head \o laid.tail

\* The encoding of one value of type t.
Encode(t, value) ==
    CASE t.T \in {"uint", "int"} -> WordOf(Held(value))
      [] t.T = "bool" -> WordOf(IF Held(value) THEN 1 ELSE 0)
      [] t.T = "address" -> Zeros(WordSize - AddressSize) \o Held(value)
      [] t.T = "fixedbytes" -> Held(value) \o Zeros(WordSize - t.Size)
      [] t.T \in {"bytes", "string"} ->
            WordOf(Len(Held(value))) \o Held(value) \o Zeros(Padding(Len(Held(value))))
      [] t.T = "slice" ->
            WordOf(Len(Held(value))) \o
            EncodeList(MemberTypes(t, Len(Held(value))), Held(value))
      [] OTHER -> EncodeList(MemberTypes(t, Len(Held(value))), Held(value))

\* Pack: nothing is emitted unless every value fits its argument.
Pack(arguments, values) ==
    IF /\ Len(values) = Len(arguments)
       /\ \A i \in DOMAIN arguments : WellTyped(arguments[i].Type, values[i])
    THEN Ok(EncodeList(TypesOf(arguments), values))
    ELSE EncodingError

-----------------------------------------------------------------------------
(* Decoder *)

\* The word that starts `at` bytes into data, when it lies within data.
HasWord(data, at) == at + WordSize <= Len(data)
WordAt(data, at)  == BigEndian(SubSeq(data, at + 1, at + WordSize))

\* The value a word holds for a scalar type.
ScalarOf(t, word) ==
    CASE t.T = "uint" -> IntV(BigEndian(word))
      [] t.T = "int" ->
            LET n == BigEndian(word)
            IN  IntV(IF 2 * n >= WordModulus THEN n - WordModulus ELSE n)
      [] t.T = "bool" -> BoolV(BigEndian(word) # 0)
      [] t.T = "address" -> BytesV(SubSeq(word, WordSize - AddressSize + 1, WordSize))
      [] t.T = "fixedbytes" -> BytesV(SubSeq(word, 1, t.Size))

RECURSIVE Decode(_, _, _), DecodeList(_, _, _)

\* The members of a compound laid out from byte `base` on: each is read at
\* its head slot when static, and where the offset in its slot points,
\* counted from base, when dynamic.
DecodeList(types, data, base) ==
    LET SlotOf(i) == base + WordSize *
            FoldLeft(LAMBDA n, t : n + HeadWords(t), 0, SubSeq(types, 1, i - 1))
        Member(i) ==
            IF ~IsDynamic(types[i]) THEN Decode(types[i], data, SlotOf(i))
            ELSE IF ~HasWord(data, SlotOf(i)) THEN DecodingError
            ELSE Decode(types[i], data, base + WordAt(data, SlotOf(i)))
        members == [i \in DOMAIN types |-> Member(i)]
    IN  IF \A i \in DOMAIN types : members[i].ok
        THEN Ok([i \in DOMAIN types |-> members[i].val])
        ELSE DecodingError

\* The members of a compound value, as the value they make.
AsList(members) == IF members.ok THEN Ok(ListV(members.val)) ELSE members

\* The value of type t that starts `at` bytes into data.  A length word is
\* checked against what is left of data before anything is read with it.
Decode(t, data, at) ==
    IF t.T \in {"array", "tuple"}
    THEN AsList(DecodeList(MemberTypes(t, IF t.T = "array" THEN t.Size ELSE 0),
                           data, at))
    ELSE IF ~HasWord(data, at) THEN DecodingError
    ELSE LET n    == WordAt(data, at)
             rest == Len(data) - (at + WordSize)
         IN  CASE t.T \in {"bytes", "string"} ->
                    IF n > rest THEN DecodingError
                    ELSE Ok(BytesV(SubSeq(data, at + WordSize + 1, at + WordSize + n)))
               [] t.T = "slice" ->
                    IF n * HeadWords(t.Elem) * WordSize > rest THEN DecodingError
                    ELSE AsList(DecodeList(MemberTypes(t, n), data, at + WordSize))
               [] OTHER -> Ok(ScalarOf(t, SubSeq(data, at + 1, at + WordSize)))

\* The head-only check applied before any structural decoding.
WellFormedLength(data) == Len(data) # 0 /\ Len(data) % WordSize = 0

\* Unpack: the positional list of the decoded values.
Unpack(arguments, data) ==
    IF WellFormedLength(data)
    THEN DecodeList(TypesOf(arguments), data, 0)
    ELSE DecodingError

\* UnpackIntoMap: the decoded values keyed by argument name; an argument
\* with an empty name is not addressable.
UnpackIntoMap(arguments, data) ==
    LET decoded == Unpack(arguments, data)
        named   == {i \in DOMAIN arguments : arguments[i].Name # ""}
        Slot(n) == CHOOSE i \in named :
                      /\ arguments[i].Name = n
                      /\ \A j \in named : arguments[j].Name = n => j <= i
    IN  IF decoded.ok
        THEN Ok([n \in {arguments[i].Name : i \in named} |-> decoded.val[Slot(n)]])
        ELSE decoded

=============================================================================
