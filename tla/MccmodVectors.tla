--------------------------- MODULE MccmodVectors ---------------------------
(***************************************************************************)
(* The test vectors of accounts/abi/method_test.go: the schema document    *)
(* mccmoddata and the strings that TestMccmodString and TestMccmodSig      *)
(* expect of the mccmods loaded from it.  The registry loads the document, *)
(* or any shorter document made of its fields, and the loaded mccmods are  *)
(* compared with the tables.                                               *)
(***************************************************************************)
EXTENDS AbiRegistry

Function(name, constant, inputs, outputs) ==
    [Type |-> "function", Name |-> name, Constant |-> constant,
     Anonymous |-> FALSE, Inputs |-> inputs, Outputs |-> outputs]

\* {"components": [x uint256, y uint256], "type": "tuple"}
Pair == TupleTy(<<Argument("x", UintTy(256)), Argument("y", UintTy(256))>>)

mccmoddata ==
    << Function("balance", TRUE, <<>>, <<>>),
       Function("send", FALSE, <<Argument("amount", UintTy(256))>>, <<>>),
       Function("transfer", FALSE,
                <<Argument("from", AddressTy), Argument("to", AddressTy),
                  Argument("value", UintTy(256))>>,
                <<Argument("success", BoolTy)>>),
       Function("tuple", FALSE, <<Argument("a", Pair)>>, <<>>),
       Function("tupleSlice", FALSE, <<Argument("a", SliceTy(Pair))>>, <<>>),
       Function("tupleArray", FALSE, <<Argument("a", ArrayTy(Pair, 5))>>, <<>>),
       Function("complexTuple", FALSE,
                <<Argument("a", SliceTy(ArrayTy(Pair, 5)))>>, <<>>) >>

\* The table of TestMccmodString.
StringTable ==
    [balance      |-> "function balance() constant returns()",
     send         |-> "function send(uint256 amount) returns()",
     transfer     |-> "function transfer(address from, address to, uint256 value) returns(bool success)",
     tuple        |-> "function tuple((uint256,uint256) a) returns()",
     tupleArray   |-> "function tupleArray((uint256,uint256)[5] a) returns()",
     tupleSlice   |-> "function tupleSlice((uint256,uint256)[] a) returns()",
     complexTuple |-> "function complexTuple((uint256,uint256)[5][] a) returns()"]

\* The table of TestMccmodSig.
SigTable ==
    [balance      |-> "balance()",
     send         |-> "send(uint256)",
     transfer     |-> "transfer(address,address,uint256)",
     tuple        |-> "tuple((uint256,uint256))",
     tupleArray   |-> "tupleArray((uint256,uint256)[5])",
     tupleSlice   |-> "tupleSlice((uint256,uint256)[])",
     complexTuple |-> "complexTuple((uint256,uint256)[5][])"]

\* The documents loaded: mccmoddata itself and the documents of up to two of
\* its fields, which also overload a name.
VectorFields    == Range(mccmoddata)
VectorDocuments == {mccmoddata} \cup BoundedSeq(VectorFields, 2)

\* The tables are about text, not about hashes: any hash will do.
Keccak256Stub(signature) == <<Len(signature) % 256>>

\* The mccmods of the loaded registry that a table names.
Listed(table) == DOMAIN abi.Mccmods \cap DOMAIN table

\* TestMccmodString: Mccmod.String of every mccmod loaded from mccmoddata is
\* the expected text, with the argument names, the spaces after the commas
\* and the constant marker; it stays so when the loop of UnmarshalJSON
\* files a second field of the same name under another key.
TestMccmodString ==
    pc = "ready" =>
        \A name \in Listed(StringTable) :
            String(abi.Mccmods[name]) = StringTable[name]

\* TestMccmodSig: Mccmod.Sig of every mccmod loaded from mccmoddata is the
\* canonical signature the selector is hashed from: the types only, joined
\* by commas without spaces, a tuple as the parenthesised types of its
\* components.
TestMccmodSig ==
    pc = "ready" =>
        \A name \in Listed(SigTable) :
            Sig(abi.Mccmods[name]) = SigTable[name]

=============================================================================
