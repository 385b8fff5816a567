--------------------------- MODULE MCAbiRegistry ---------------------------
(***************************************************************************)
(* AbiRegistry for TLC: a two-byte word, a one-byte selector, and schema   *)
(* documents of up to MaxFields of the fields below.  The fields are       *)
(* chosen so that documents overload a name, declare a name that the       *)
(* disambiguation builds ("f0" next to two "f"), give a method and an      *)
(* event one name, and hold constructors and fields of an unknown type.    *)
(***************************************************************************)
EXTENDS AbiRegistry

Field(type, name, constant, inputs, outputs) ==
    [Type |-> type, Name |-> name, Constant |-> constant, Anonymous |-> FALSE,
     Inputs |-> inputs, Outputs |-> outputs]

\* (uint8,bytes)[]
Pairs == SliceTy(TupleTy(<<Argument("x", UintTy(8)), Argument("s", BytesTy)>>))

MCG ==
    Field("function", "g", TRUE, <<Argument("a", Pairs)>>,
          <<Argument("r", Pairs), Argument("p", ArrayTy(UintTy(8), 2))>>)

\* A document is a sequence of these and may hold one of them twice: that
\* is how a name is overloaded.
MCFields ==
    { Field("function", "f", FALSE, <<>>, <<Argument("", BoolTy)>>),
      Field("", "f0", TRUE, <<Argument("a", UintTy(8))>>,
            <<Argument("x", UintTy(16)), Argument("y", BytesTy)>>),
      MCG,
      Field("event", "f", FALSE, <<Argument("b", BytesTy)>>, <<>>),
      Field("constructor", "", FALSE, <<Argument("a", UintTy(8))>>, <<>>),
      Field("fallback", "", FALSE, <<>>, <<>>) }

MCMaxFields == 3

\* A stand-in for the hash that tells signatures apart by their length
\* only: some signatures share an id, most do not.
LengthHash(signature) ==
    <<Len(signature) % 4, (Len(signature) \div 4) % 4>>

MCCallNames == {"", "f", "f0", "f00", "g"}

SomePairs ==
    ListV(<<ListV(<<IntV(1), BytesV(<<9>>)>>), ListV(<<IntV(2), BytesV(<<>>)>>)>>)

MCCallValues ==
    { <<>>, <<IntV(7)>>, <<IntV(256)>>, <<BoolV(TRUE)>>, <<BytesV(<<4, 5, 6>>)>>,
      <<IntV(258), BytesV(<<1, 2, 3>>)>>,
      <<SomePairs>>, <<SomePairs, ListV(<<IntV(3), IntV(4)>>)>> }

\* What g returns for these values, 26 bytes: the offset of r, p in place,
\* the length of r, the offsets of its two pairs, and the pairs.
Returned26 ==
    Pack(MCG.Outputs, <<SomePairs, ListV(<<IntV(3), IntV(4)>>)>>).val

\* Empty, shorter than a word, a word, not a whole number of words, an
\* offset that points past the end, a topic; and what g returns with a
\* length of r that the data cannot hold, the offset of the second pair
\* past the end, and the length of the bytes of the first pair too long.
MCCallData ==
    { <<>>, <<3>>, <<0, 7>>, <<0, 7, 0>>, <<1, 2>>,
      <<0, 9, 0, 4, 0, 1, 5, 0>>, <<0, 9, 0, 8, 0, 1, 5, 0>>,
      Returned26, [Returned26 EXCEPT ![8] = 200],
      [Returned26 EXCEPT ![12] = 40], [Returned26 EXCEPT ![18] = 9] }

=============================================================================
