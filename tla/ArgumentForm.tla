---------------------------- MODULE ArgumentForm ----------------------------
(***************************************************************************)
(* One argument of a contract's function (ParamField and TypeEditor of     *)
(* project-pages.tsx): a tree of controls shaped by the type that the      *)
(* contract declares.  What the user has put into it is validated at every *)
(* rendering, and is sent in the canonical form once nothing is wrong.     *)
(*                                                                         *)
(* A type, a value and a canonical form are trees of records; a text is    *)
(* one of a few classes, told apart by the types that admit it.  The       *)
(* declaration of a user-defined type stands where its name does.          *)
(***************************************************************************)
EXTENDS PageHost

CONSTANTS
    Names,          \* of user-defined types, of their fields and of their variants
    Types,          \* the types of arguments, and all that they are made of
    Depth,          \* how deep each type nests
    Nesting,        \* bound: no type nests deeper
    ArgumentTypes,  \* bound: the types of arguments
    MaxItems        \* bound: how long a list or a map gets

-----------------------------------------------------------------------------
(* Texts *)

Texts == {"", "-1", "7", "2^31", "0a", "G", "33 bytes"}

Integers == {"u32", "i32"}
Scalars == Integers \cup {"address", "string", "symbol", "bytes", "bytes_n"}

\* integerBounds
InBounds == [u32 |-> {"7", "2^31"}, i32 |-> {"-1", "7"}]

\* the texts a scalar of kind k admits; bytes_n of the one byte
Admitted(k) ==
    CASE k \in Integers -> InBounds[k]
      [] k = "address"  -> {"G"}
      [] k = "string"   -> Texts \ {""}
      [] k = "symbol"   -> Texts \ {"", "33 bytes"}
      [] k \in {"bytes", "bytes_n"} -> {"0a"}

-----------------------------------------------------------------------------
(* Types *)

Udts == {"struct", "enum", "union"}
Complex == Udts \cup {"map", "tuple", "option", "result", "vec"}

Fields == [name : Names, type : Types]
Variants == [name : Names, type : {<<>>} \cup {<<t>> : t \in Types}]

\* of a type with fields or with variants
Declared(s) == {s[i].name : i \in DOMAIN s}
Named(s, name) == CHOOSE w \in {s[i] : i \in DOMAIN s} : w.name = name
Distinct(s) == \A i, j \in DOMAIN s : s[i].name = s[j].name => i = j

Parts(t) ==
    CASE t.kind = "option" -> {t.inner}
      [] t.kind = "result" -> {t.ok, t.err}
      [] t.kind = "vec"    -> {t.elem}
      [] t.kind = "tuple"  -> {t.elems[i] : i \in DOMAIN t.elems}
      [] t.kind = "map"    -> {t.key, t.value}
      [] t.kind = "struct" -> {t.fields[i].type : i \in DOMAIN t.fields}
      [] t.kind = "union"  -> {t.variants[i].type[1] : i \in {j \in DOMAIN t.variants : t.variants[j].type # <<>>}}
      [] OTHER -> {}

ASSUME ArgumentFormAssumption ==
    /\ Nesting \in Nat /\ MaxItems \in Nat
    /\ ArgumentTypes \subseteq Types
    /\ Types \subseteq
         [kind : Scalars \cup {"bool", "void"}]
         \cup [kind : {"option"}, inner : Types] \cup [kind : {"result"}, ok : Types, err : Types]
         \cup [kind : {"vec"}, elem : Types] \cup [kind : {"tuple"}, elems : Seq(Types)]
         \cup [kind : {"map"}, key : Types, value : Types]
         \cup [kind : {"struct"}, name : Names, fields : Seq(Fields)]
         \cup [kind : {"enum", "union"}, name : Names, variants : Seq(Variants) \ {<<>>}]
    /\ \A t \in Types : /\ t.kind = "struct" => Distinct(t.fields)
                        /\ t.kind \in {"enum", "union"} => Distinct(t.variants)
    /\ Depth \in [Types -> 0..Nesting]
    /\ \A t \in Types : t.kind \in Complex => Depth[t] > 0 /\ \A p \in Parts(t) : Depth[p] < Depth[t]

-----------------------------------------------------------------------------
(* Values.  What may be null is a sequence of none or one, and a field that *)
(* is missing is undefined.                                                *)

Scalar(text) == [kind |-> "scalar", text |-> text]
Boolean(b) == [kind |-> "bool", value |-> b]
Option(some, value) == [kind |-> "option", some |-> some, value |-> value]
Result(ok, value) == [kind |-> "result", ok |-> ok, value |-> value]
List(items) == [kind |-> "list", items |-> items]
Map(rows) == [kind |-> "map", rows |-> rows]
Udt(variant, fields) == [kind |-> "udt", variant |-> variant, fields |-> fields]
Undefined == [kind |-> "undefined"]

NoFields == [x \in Names |-> Undefined]
Items(v) == IF v.kind = "list" THEN v.items ELSE <<>>
Rows(v) == IF v.kind = "map" THEN v.rows ELSE <<>>
Item(items, i) == IF i \in DOMAIN items THEN items[i] ELSE Undefined
Without(s, i) == [j \in 1..(Len(s) - 1) |-> s[IF j < i THEN j ELSE j + 1]]

Leaves == {Undefined} \cup [kind : {"scalar"}, text : Texts] \cup [kind : {"bool"}, value : BOOLEAN]
Trees(below) ==
    [kind : {"option"}, some : BOOLEAN, value : Seq(below)]
    \cup [kind : {"result"}, ok : BOOLEAN, value : Seq(below)]
    \cup [kind : {"list"}, items : Seq(below)]
    \cup [kind : {"map"}, rows : Seq([key : below, value : below])]
    \cup [kind : {"udt"}, variant : Names \cup {""}, fields : [Names -> below]]

\* The values that nest no deeper than n.
ValuesTo[n \in 0..Nesting] == IF n = 0 THEN Leaves ELSE Leaves \cup Trees(ValuesTo[n - 1])
Values == ValuesTo[Nesting]

\* defaultUdtEditorValue
Chosen(part, w) ==
    Udt(w.name, [x \in Names |-> IF x = w.name /\ w.type # <<>> THEN part[w.type[1]].initial ELSE Undefined])
DefaultUdt(part, t) ==
    CASE t.kind = "enum"   -> Udt(t.variants[1].name, NoFields)
      [] t.kind = "union"  -> Chosen(part, t.variants[1])
      [] t.kind = "struct" -> Udt("", [x \in Names |-> IF x \in Declared(t.fields)
                                                       THEN part[Named(t.fields, x).type].initial ELSE Undefined])

Default(part, t) ==
    CASE t.kind = "bool"   -> Boolean(FALSE)
      [] t.kind = "option" -> Option(FALSE, <<>>)
      [] t.kind = "result" -> Result(TRUE, <<>>)
      [] t.kind = "vec"    -> List(<<>>)
      [] t.kind = "tuple"  -> List([i \in DOMAIN t.elems |-> part[t.elems[i]].initial])
      [] t.kind = "map"    -> Map(<<>>)
      [] t.kind \in Udts   -> DefaultUdt(part, t)
      [] OTHER             -> Scalar("")

Side(t, ok) == IF ok THEN t.ok ELSE t.err

-----------------------------------------------------------------------------
(* Validation *)

Fine(holds) == IF holds THEN "fine" ELSE "error"

\* Mutant: the verdict on an item replaces that on the one before
LastVerdict(verdicts) == IF verdicts = <<>> THEN "fine" ELSE verdicts[Len(verdicts)]

\* The first thing that is wrong, if anything is.
FirstWrong(verdicts) ==
    IF \A i \in DOMAIN verdicts : verdicts[i] = "fine" THEN "fine"
    ELSE verdicts[CHOOSE i \in DOMAIN verdicts : verdicts[i] # "fine" /\ \A j \in 1..(i - 1) : verdicts[j] = "fine"]

\* A value that is undefined is read all the same, and the page is lost.
Validate(part, t, v) ==
    IF t.kind = "void" THEN "fine"
    ELSE IF v.kind = "undefined" THEN "crash"
    ELSE CASE t.kind \in Scalars -> Fine(v.kind = "scalar" /\ v.text \in Admitted(t.kind))
           [] t.kind = "bool" -> Fine(v.kind = "bool")
           [] t.kind = "option" ->
                IF v.kind # "option" THEN "error"
                ELSE IF ~v.some THEN "fine"
                ELSE IF v.value = <<>> THEN "error" ELSE part[t.inner].verdict[v.value[1]]
           [] t.kind = "result" ->
                IF v.kind # "result" THEN "error"
                ELSE IF v.value = <<>> THEN "error" ELSE part[Side(t, v.ok)].verdict[v.value[1]]
           [] t.kind = "vec" ->
                IF v.kind # "list" THEN "error"
                ELSE FirstWrong([i \in DOMAIN v.items |-> part[t.elem].verdict[v.items[i]]])
           [] t.kind = "tuple" ->
                IF v.kind # "list" THEN "error"
                ELSE FirstWrong([i \in DOMAIN t.elems |-> part[t.elems[i]].verdict[Item(v.items, i)]])
           [] t.kind = "map" ->
                IF v.kind # "map" THEN "error"
                ELSE FirstWrong([i \in DOMAIN v.rows |-> FirstWrong(
                         <<part[t.key].verdict[v.rows[i].key], part[t.value].verdict[v.rows[i].value]>>)])
           [] t.kind \in Udts /\ v.kind # "udt" -> "error"
           [] t.kind = "struct" /\ v.kind = "udt" ->
                FirstWrong([i \in DOMAIN t.fields |-> part[t.fields[i].type].verdict[v.fields[t.fields[i].name]]])
           [] t.kind = "enum" /\ v.kind = "udt" -> Fine(v.variant \in Declared(t.variants))
           [] t.kind = "union" /\ v.kind = "udt" ->
                IF v.variant \notin Declared(t.variants) THEN "error"
                ELSE LET type == Named(t.variants, v.variant).type
                     IN IF type = <<>> THEN "fine"
                        ELSE IF v.fields[v.variant] = Undefined THEN "error"
                        ELSE part[type[1]].verdict[v.fields[v.variant]]

-----------------------------------------------------------------------------
(* The canonical form.  Asked for only once nothing is wrong, it is defined *)
(* for a value that validates.                                             *)

Tag(k) == IF k = "bytes_n" THEN "bytes" ELSE k
Symbol(name) == [is |-> "symbol", name |-> name]
Vec(items) == [is |-> "vec", items |-> items]

Canonical(part, t, v) ==
    CASE t.kind \in Scalars -> [is |-> Tag(t.kind), text |-> v.text]
      [] t.kind = "bool"    -> [is |-> "bool", value |-> v.value]
      [] t.kind = "void"    -> [is |-> "void"]
      [] t.kind = "option"  -> IF v.some THEN part[t.inner].canonical[v.value[1]] ELSE Vec(<<>>)
      [] t.kind = "result"  ->
           Vec(<<Symbol(IF v.ok THEN "Ok" ELSE "Err"), part[Side(t, v.ok)].canonical[v.value[1]]>>)
      [] t.kind = "vec"     -> Vec([i \in DOMAIN v.items |-> part[t.elem].canonical[v.items[i]]])
      [] t.kind = "tuple"   -> Vec([i \in DOMAIN t.elems |-> part[t.elems[i]].canonical[Item(v.items, i)]])
      [] t.kind = "map"     ->
           [is |-> "map", rows |-> [i \in DOMAIN v.rows |->
               [key |-> part[t.key].canonical[v.rows[i].key], val |-> part[t.value].canonical[v.rows[i].value]]]]
      [] t.kind = "struct"  ->
           Vec(<<Symbol(t.name)>> \o
               [i \in DOMAIN t.fields |-> part[t.fields[i].type].canonical[v.fields[t.fields[i].name]]])
      [] t.kind = "enum"    -> Symbol(v.variant)
      [] t.kind = "union"   ->
           LET type == Named(t.variants, v.variant).type
           IN IF type = <<>> THEN Symbol(v.variant)
              ELSE Vec(<<Symbol(v.variant), part[type[1]].canonical[v.fields[v.variant]]>>)

FormLeaves ==
    [is : Scalars, text : Texts] \cup [is : {"bool"}, value : BOOLEAN] \cup [is : {"void"}]
    \cup [is : {"symbol"}, name : Names \cup {"Ok", "Err"}]
FormTrees(below) == [is : {"vec"}, items : Seq(below)] \cup [is : {"map"}, rows : Seq([key : below, val : below])]

\* The canonical forms that nest no deeper than n.
FormsTo[n \in 0..Nesting] == IF n = 0 THEN FormLeaves ELSE FormLeaves \cup FormTrees(FormsTo[n - 1])
Forms == FormsTo[Nesting]

\* Reference: what a value of type t looks like in canonical form.
Inhabits(part, t, c) ==
    CASE t.kind \in Scalars -> c \in [is : {Tag(t.kind)}, text : Admitted(t.kind)]
      [] t.kind = "bool"    -> c \in [is : {"bool"}, value : BOOLEAN]
      [] t.kind = "void"    -> c = [is |-> "void"]
      [] t.kind = "option"  -> c = Vec(<<>>) \/ part[t.inner].inhabits[c]
      [] t.kind = "result"  ->
           /\ c.is = "vec" /\ Len(c.items) = 2
           /\ \/ c.items[1] = Symbol("Ok") /\ part[t.ok].inhabits[c.items[2]]
              \/ c.items[1] = Symbol("Err") /\ part[t.err].inhabits[c.items[2]]
      [] t.kind = "vec"     -> c.is = "vec" /\ \A i \in DOMAIN c.items : part[t.elem].inhabits[c.items[i]]
      [] t.kind = "tuple"   ->
           c.is = "vec" /\ Len(c.items) = Len(t.elems) /\ \A i \in DOMAIN t.elems : part[t.elems[i]].inhabits[c.items[i]]
      [] t.kind = "map"     ->
           /\ c.is = "map"
           /\ \A i \in DOMAIN c.rows : part[t.key].inhabits[c.rows[i].key] /\ part[t.value].inhabits[c.rows[i].val]
      [] t.kind = "struct"  ->
           /\ c.is = "vec" /\ Len(c.items) = Len(t.fields) + 1 /\ c.items[1] = Symbol(t.name)
           /\ \A i \in DOMAIN t.fields : part[t.fields[i].type].inhabits[c.items[i + 1]]
      [] t.kind = "enum"    -> \E x \in Declared(t.variants) : c = Symbol(x)
      [] t.kind = "union"   ->
           \E x \in Declared(t.variants) :
               LET type == Named(t.variants, x).type
               IN IF type = <<>> THEN c = Symbol(x)
                  ELSE c.is = "vec" /\ Len(c.items) = 2 /\ c.items[1] = Symbol(x) /\ part[type[1]].inhabits[c.items[2]]

-----------------------------------------------------------------------------
(* The controls: all that one event in the editor of type t, which shows v, *)
(* may hand to onChange.  A value of another kind is shown as the default. *)

ScalarEdits == {Scalar(text) : text \in Texts}
BoolEdits == {Boolean(b) : b \in BOOLEAN}

\* A list of simple elements is a text, cut at its blanks.
VecEdits(part, t, v) ==
    LET items == Items(v)
        words == {Scalar(text) : text \in Texts \ {""}}
    IN IF t.elem.kind \in Complex
       THEN (UNION {{List([items EXCEPT ![i] = next]) : next \in part[t.elem].edits[items[i]]} : i \in DOMAIN items})
            \cup {List(Without(items, i)) : i \in DOMAIN items}
            \cup (IF Len(items) < MaxItems THEN {List(Append(items, part[t.elem].initial))} ELSE {})
       ELSE {List(s) : s \in UNION {[1..n -> words] : n \in 0..MaxItems}}

\* An item that is missing is shown, but changing it changes nothing.
TupleEdits(part, t, v) ==
    LET items == Items(v)
        Shows(i) == IF i \in DOMAIN items THEN items[i] ELSE part[t.elems[i]].initial
    IN UNION {{List([j \in DOMAIN items |-> IF j = i THEN next ELSE items[j]]) :
                  next \in part[t.elems[i]].edits[Shows(i)]} : i \in DOMAIN t.elems}

MapEdits(part, t, v) ==
    LET rows == Rows(v)
    IN (UNION {{Map([rows EXCEPT ![i].key = key]) : key \in part[t.key].edits[rows[i].key]} : i \in DOMAIN rows})
       \cup (UNION {{Map([rows EXCEPT ![i].value = val]) : val \in part[t.value].edits[rows[i].value]} : i \in DOMAIN rows})
       \cup {Map(Without(rows, i)) : i \in DOMAIN rows}
       \cup (IF Len(rows) < MaxItems
             THEN {Map(Append(rows, [key |-> part[t.key].initial, value |-> part[t.value].initial]))} ELSE {})

OptionEdits(part, t, v) ==
    LET o == IF v.kind = "option" THEN v ELSE Option(FALSE, <<>>)
    IN {Option(FALSE, <<>>), Option(TRUE, IF o.value # <<>> THEN o.value ELSE <<part[t.inner].initial>>)}
       \cup (IF o.some /\ o.value # <<>> THEN {Option(TRUE, <<next>>) : next \in part[t.inner].edits[o.value[1]]} ELSE {})

\* The other side is given the value of this one.
ResultEdits(part, t, v) ==
    LET r == IF v.kind = "result" THEN v ELSE Result(TRUE, <<>>)
    IN {Result(~r.ok, IF r.value # <<>> THEN r.value ELSE <<part[Side(t, ~r.ok)].initial>>)}
       \cup (IF r.value # <<>> THEN {Result(r.ok, <<next>>) : next \in part[Side(t, r.ok)].edits[r.value[1]]} ELSE {})

FieldShown(part, u, x, p) == IF u.fields[x] # Undefined THEN u.fields[x] ELSE part[p].initial

StructEdits(part, t, u) ==
    UNION {LET x == t.fields[i].name
               p == t.fields[i].type
           IN {Udt("", [u.fields EXCEPT ![x] = next]) : next \in part[p].edits[FieldShown(part, u, x, p)]} : i \in DOMAIN t.fields}

\* Of a variant that is not one, the first is shown.
UnionEdits(part, t, u) ==
    LET w == IF u.variant \in Declared(t.variants) THEN Named(t.variants, u.variant) ELSE t.variants[1]
    IN {Chosen(part, Named(t.variants, x)) : x \in Declared(t.variants)}
       \cup (IF w.type = <<>> THEN {}
             ELSE {Udt(w.name, [u.fields EXCEPT ![w.name] = next]) :
                      next \in part[w.type[1]].edits[FieldShown(part, u, w.name, w.type[1])]})

EnumEdits(t) == {Udt(x, NoFields) : x \in Declared(t.variants)}

UdtEdits(part, t, u) ==
    CASE t.kind = "struct" -> StructEdits(part, t, u)
      [] t.kind = "union"  -> UnionEdits(part, t, u)
      [] t.kind = "enum"   -> EnumEdits(t)

Edits(part, t, v) ==
    CASE t.kind \in Scalars -> ScalarEdits
      [] t.kind = "bool"    -> BoolEdits
      [] t.kind = "vec"     -> VecEdits(part, t, v)
      [] t.kind = "tuple"   -> TupleEdits(part, t, v)
      [] t.kind = "map"     -> MapEdits(part, t, v)
      [] t.kind = "option"  -> OptionEdits(part, t, v)
      [] t.kind = "result"  -> ResultEdits(part, t, v)
      [] t.kind \in Udts    -> UdtEdits(part, t, IF v.kind = "udt" THEN v ELSE DefaultUdt(part, t))
      [] OTHER -> {}

-----------------------------------------------------------------------------
(* The editor of a type is made of the editors of its parts *)

EditorOf(part, t) == [
    initial   |-> Default(part, t),
    verdict   |-> [v \in Values |-> Validate(part, t, v)],
    canonical |-> [v \in Values |-> Canonical(part, t, v)],
    inhabits  |-> [c \in Forms |-> Inhabits(part, t, c)],
    edits     |-> [v \in Values |-> Edits(part, t, v)],
    \* a value that has gone to the other side of a result may be of no use there
    turns     |-> t.kind = "result" \/ \E p \in Parts(t) : part[p].turns]

Editor[t \in Types] == EditorOf([p \in Parts(t) |-> Editor[p]], t)

-----------------------------------------------------------------------------
(* The page *)

ArgumentsInit ==
    \E t \in ArgumentTypes :
        page = [at |-> "args", type |-> t, value |-> Editor[t].initial, calls |-> 0] /\ wire = {} /\ db = {}

\* The page that has failed is not edited any more.
EditArgument ==
    /\ page.at = "args" /\ Editor[page.type].verdict[page.value] # "crash"
    /\ \E next \in Editor[page.type].edits[page.value] : Show([page EXCEPT !.value = next])

ArgumentsNext == EditArgument

-----------------------------------------------------------------------------
(* Properties *)

\* Whatever the user does in the controls of an argument, what validates is sent
\* in the form of the type that the contract declares, and the page survives --
\* unless a result has been turned round, when a value meant for its other side
\* is read as one of this side.
ArgumentsHold == page.at = "args" =>
    LET editor == Editor[page.type]
        verdict == editor.verdict[page.value]
    IN /\ verdict = "fine" => editor.inhabits[editor.canonical[page.value]]
       /\ verdict = "crash" => editor.turns
=============================================================================
