--------------------------- MODULE MCProjectPages ---------------------------
(***************************************************************************)
(* The pages of ProjectPages, each visited from its own initial states.    *)
(***************************************************************************)
EXTENDS ProjectPages, TLC

-----------------------------------------------------------------------------
(* The transfers of the graph, amounts, and the types of the arguments *)

SampleTransfers ==
    "t1" :> [from |-> "a", to |-> "b", asset |-> "XLM"] @@ "t2" :> [from |-> "b", to |-> "c", asset |-> "USDC"]
SampleAmounts == {<<150, 2>>, <<5, 1>>}

Plain(k) == [kind |-> k]
VecOf(t) == [kind |-> "vec", elem |-> t]
OptionOf(t) == [kind |-> "option", inner |-> t]
ResultOf(t, u) == [kind |-> "result", ok |-> t, err |-> u]
Struct(name, fields) == [kind |-> "struct", name |-> name, fields |-> fields]
Enum(name, x, y) == [kind |-> "enum", name |-> name, variants |-> <<[name |-> x, type |-> <<>>], [name |-> y, type |-> <<>>]>>]
Union(name, x, y, type) ==
    [kind |-> "union", name |-> name, variants |-> <<[name |-> x, type |-> <<>>], [name |-> y, type |-> <<type>>]>>]
Triple == [kind |-> "tuple", elems |-> <<Plain("bytes"), Plain("void"), Plain("bool")>>]

Choice == Enum("U", "x", "y")

SampleArguments == {
    VecOf(Plain("i32")),
    VecOf(OptionOf(Plain("string"))),
    [kind |-> "map", key |-> Plain("symbol"), value |-> Plain("bytes_n")],
    OptionOf(Triple),
    ResultOf(Plain("u32"), Struct("S", <<[name |-> "x", type |-> Plain("address")], [name |-> "y", type |-> Plain("bool")]>>)),
    Struct("S", <<[name |-> "x", type |-> ResultOf(Triple, Choice)]>>),
    Union("U", "x", "y", OptionOf(Plain("symbol")))}

\* What the arguments are made of, and how deep it nests.
RECURSIVE Within(_), Nested(_)
Within(t) == {t} \cup UNION {Within(p) : p \in Parts(t)}
Nested(t) == IF t.kind \in Complex THEN 1 + Max({0} \cup {Nested(p) : p \in Parts(t)}) ELSE 0

SampleTypes == UNION {Within(t) : t \in SampleArguments}
SampleDepth == [t \in SampleTypes |-> Nested(t)]
=============================================================================
