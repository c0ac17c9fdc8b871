-------------------------- MODULE ArgumentFormProofs --------------------------
(***************************************************************************)
(* The form of an argument: the proofs that the controls of every type     *)
(* keep its values values, that what validates is sent in a form of the    *)
(* type that the contract declares, and that the page survives whatever    *)
(* is done in the controls of a type that turns no result round.  A type   *)
(* is a tree, and each proof is an induction on how deep it nests.         *)
(***************************************************************************)
EXTENDS ArgumentForm, FiniteSetTheorems, WellFoundedInduction, TLAPS

-----------------------------------------------------------------------------
(* Induction.  The theorems of the library take an operator, which no      *)
(* prover here can instantiate; a set of numbers serves as well.           *)

\* A set of natural numbers that is not empty has a least member.
LEMMA LeastNatural ==
  ASSUME NEW T \in SUBSET Nat, T # {}
  PROVE  \E m \in T : \A n \in T : m <= n
<1> DEFINE R == {ss \in Nat \X Nat : ss[1] < ss[2]}
<1>1. OpToRel(<, Nat) = R
  BY DEF OpToRel
<1>2. IsWellFoundedOn(R, Nat)
  BY <1>1, NatLessThanWellFounded
<1>3. \A m, n \in Nat : n < m => <<n, m>> \in R
  OBVIOUS
<1> HIDE DEF R
<1>4. PICK m \in T : \A n \in T : ~ (<<n, m>> \in R)
  BY <1>2, WFMin, T \subseteq Nat
<1>5. \A n \in T : ~ (n < m)
  BY <1>3, <1>4
<1>6. \A n \in T : m <= n
  BY <1>5
<1> QED
  BY <1>6

\* What holds of zero, and of n + 1 when it holds of n, holds of every number.
LEMMA Induction ==
  ASSUME NEW S, 0 \in S, \A n \in Nat : n \in S => n + 1 \in S
  PROVE  Nat \subseteq S
<1> SUFFICES ASSUME Nat \ S # {} PROVE FALSE
  OBVIOUS
<1>1. PICK m \in Nat \ S : \A n \in Nat \ S : m <= n
  BY LeastNatural
<1>2. m - 1 \in Nat /\ m - 1 \notin Nat \ S
  BY <1>1
<1> QED
  BY <1>1, <1>2

\* The same, of the numbers up to L.
LEMMA InductionTo ==
  ASSUME NEW L \in Nat, NEW S, 0 \in S, \A n \in Nat : n \in S /\ n + 1 <= L => n + 1 \in S
  PROVE  0..L \subseteq S
<1> DEFINE N == {n \in Nat : n <= L => n \in S}
<1>1. 0 \in N
  OBVIOUS
<1>2. ASSUME NEW n \in Nat, n \in N PROVE n + 1 \in N
  BY <1>2
<1> HIDE DEF N
<1>3. Nat \subseteq N
  BY <1>1, <1>2, Induction
<1> QED
  BY <1>3 DEF N

-----------------------------------------------------------------------------
(* The values and the canonical forms of arguments, level by level *)

\* The levels of values solve their recursion.
LEMMA ValuesExist == \E f : f = [n \in 0..Nesting |-> IF n = 0 THEN Leaves ELSE Leaves \cup Trees(f[n - 1])]
<1> DEFINE Solves(f, m) == f = [n \in 0..m |-> IF n = 0 THEN Leaves ELSE Leaves \cup Trees(f[n - 1])]
           N == {m \in Nat : \E f : Solves(f, m)}
<1>1. 0 \in N
  <2> DEFINE f == [n \in 0..0 |-> Leaves]
  <2>1. Solves(f, 0)
    OBVIOUS
  <2> QED
    BY <2>1
<1>2. ASSUME NEW m \in Nat, m \in N PROVE m + 1 \in N
  <2>1. PICK f : Solves(f, m)
    BY <1>2
  <2> DEFINE g == [n \in 0..(m + 1) |-> IF n = 0 THEN Leaves ELSE Leaves \cup Trees(f[n - 1])]
  <2>2. \A n \in 0..m : f[n] = IF n = 0 THEN Leaves ELSE Leaves \cup Trees(f[n - 1])
    BY <2>1
  <2>3. \A n \in 0..m : g[n] = f[n]
    <3> SUFFICES ASSUME NEW n \in 0..m PROVE g[n] = f[n]
      OBVIOUS
    <3>1. n \in 0..(m + 1)
      OBVIOUS
    <3>2. f[n] = IF n = 0 THEN Leaves ELSE Leaves \cup Trees(f[n - 1])
      BY <2>2
    <3> QED
      BY ONLY <3>1, <3>2
  <2>4. \A n \in 0..(m + 1) : n # 0 => n - 1 \in 0..m
    OBVIOUS
  <2>5. Solves(g, m + 1)
    BY <2>3, <2>4
  <2> HIDE DEF g, Solves
  <2>6. \E k : Solves(k, m + 1)
    BY <2>5
  <2> QED
    BY <2>6
<1> HIDE DEF N
<1>3. Nat \subseteq N
  BY <1>1, <1>2, Induction
<1> QED
  BY <1>3, ArgumentFormAssumption DEF N

\* So do the levels of canonical forms.
LEMMA FormsExist == \E f : f = [n \in 0..Nesting |-> IF n = 0 THEN FormLeaves ELSE FormLeaves \cup FormTrees(f[n - 1])]
<1> DEFINE Solves(f, m) == f = [n \in 0..m |-> IF n = 0 THEN FormLeaves ELSE FormLeaves \cup FormTrees(f[n - 1])]
           N == {m \in Nat : \E f : Solves(f, m)}
<1>1. 0 \in N
  <2> DEFINE f == [n \in 0..0 |-> FormLeaves]
  <2>1. Solves(f, 0)
    OBVIOUS
  <2> QED
    BY <2>1
<1>2. ASSUME NEW m \in Nat, m \in N PROVE m + 1 \in N
  <2>1. PICK f : Solves(f, m)
    BY <1>2
  <2> DEFINE g == [n \in 0..(m + 1) |-> IF n = 0 THEN FormLeaves ELSE FormLeaves \cup FormTrees(f[n - 1])]
  <2>2. \A n \in 0..m : f[n] = IF n = 0 THEN FormLeaves ELSE FormLeaves \cup FormTrees(f[n - 1])
    BY <2>1
  <2>3. \A n \in 0..m : g[n] = f[n]
    <3> SUFFICES ASSUME NEW n \in 0..m PROVE g[n] = f[n]
      OBVIOUS
    <3>1. n \in 0..(m + 1)
      OBVIOUS
    <3>2. f[n] = IF n = 0 THEN FormLeaves ELSE FormLeaves \cup FormTrees(f[n - 1])
      BY <2>2
    <3> QED
      BY ONLY <3>1, <3>2
  <2>4. \A n \in 0..(m + 1) : n # 0 => n - 1 \in 0..m
    OBVIOUS
  <2>5. Solves(g, m + 1)
    BY <2>3, <2>4
  <2> HIDE DEF g, Solves
  <2>6. \E k : Solves(k, m + 1)
    BY <2>5
  <2> QED
    BY <2>6
<1> HIDE DEF N
<1>3. Nat \subseteq N
  BY <1>1, <1>2, Induction
<1> QED
  BY <1>3, ArgumentFormAssumption DEF N

\* Every level of values, and of canonical forms, is as it is defined.
LEMMA LevelsAre ==
  ASSUME NEW n \in 0..Nesting
  PROVE  /\ ValuesTo[n] = IF n = 0 THEN Leaves ELSE Leaves \cup Trees(ValuesTo[n - 1])
         /\ FormsTo[n] = IF n = 0 THEN FormLeaves ELSE FormLeaves \cup FormTrees(FormsTo[n - 1])
<1>1. ValuesTo = [k \in 0..Nesting |-> IF k = 0 THEN Leaves ELSE Leaves \cup Trees(ValuesTo[k - 1])]
  BY ValuesExist DEF ValuesTo
<1>2. FormsTo = [k \in 0..Nesting |-> IF k = 0 THEN FormLeaves ELSE FormLeaves \cup FormTrees(FormsTo[k - 1])]
  BY FormsExist DEF FormsTo
<1>3. \A k \in 0..Nesting : ValuesTo[k] = IF k = 0 THEN Leaves ELSE Leaves \cup Trees(ValuesTo[k - 1])
  BY ONLY <1>1
<1>4. \A k \in 0..Nesting : FormsTo[k] = IF k = 0 THEN FormLeaves ELSE FormLeaves \cup FormTrees(FormsTo[k - 1])
  BY ONLY <1>2
<1> QED
  BY <1>3, <1>4

\* Of what may be deeper, there is more.
LEMMA TreesGrow ==
  ASSUME NEW S, NEW T, S \subseteq T
  PROVE  Trees(S) \subseteq Trees(T) /\ FormTrees(S) \subseteq FormTrees(T)
<1>1. Seq(S) \subseteq Seq(T)
  OBVIOUS
<1> DEFINE Below(X, Y) == Seq(X) \subseteq Seq(Y)
<1>7. \A X, Y : X \subseteq Y => Below(X, Y)
  OBVIOUS
<1>2. Seq([key : S, value : S]) \subseteq Seq([key : T, value : T])
  <2>1. [key : S, value : S] \subseteq [key : T, value : T]
    OBVIOUS
  <2> HIDE DEF Below
  <2>2. Below([key : S, value : S], [key : T, value : T])
    BY ONLY <2>1, <1>7
  <2> QED
    BY ONLY <2>2 DEF Below
<1>3. Seq([key : S, val : S]) \subseteq Seq([key : T, val : T])
  <2>1. [key : S, val : S] \subseteq [key : T, val : T]
    OBVIOUS
  <2> HIDE DEF Below
  <2>2. Below([key : S, val : S], [key : T, val : T])
    BY ONLY <2>1, <1>7
  <2> QED
    BY ONLY <2>2 DEF Below
<1>4. [Names -> S] \subseteq [Names -> T]
  OBVIOUS
<1>5. Trees(S) \subseteq Trees(T)
  BY <1>1, <1>2, <1>4 DEF Trees
<1>6. FormTrees(S) \subseteq FormTrees(T)
  BY <1>1, <1>3 DEF FormTrees
<1> QED
  BY <1>5, <1>6

\* A level has all that the levels below it have.
LEMMA LevelsGrow ==
  ASSUME NEW n \in 0..Nesting, n > 0
  PROVE  ValuesTo[n - 1] \subseteq ValuesTo[n] /\ FormsTo[n - 1] \subseteq FormsTo[n]
<1> DEFINE S == {k \in Nat : k + 1 <= Nesting =>
                   ValuesTo[k] \subseteq ValuesTo[k + 1] /\ FormsTo[k] \subseteq FormsTo[k + 1]}
<1> USE ArgumentFormAssumption
<1>1. 0 \in S
  <2>1. SUFFICES ASSUME 1 <= Nesting PROVE ValuesTo[0] \subseteq ValuesTo[1] /\ FormsTo[0] \subseteq FormsTo[1]
    BY 0 + 1 = 1
  <2>2. 0 \in 0..Nesting /\ 1 \in 0..Nesting /\ 1 # 0
    BY <2>1
  <2>3. /\ ValuesTo[0] = Leaves /\ ValuesTo[1] = Leaves \cup Trees(ValuesTo[1 - 1])
        /\ FormsTo[0] = FormLeaves /\ FormsTo[1] = FormLeaves \cup FormTrees(FormsTo[1 - 1])
    BY <2>2, LevelsAre
  <2> QED
    BY ONLY <2>3
<1>2. ASSUME NEW k \in Nat, k \in S PROVE k + 1 \in S
  <2>1. SUFFICES ASSUME k + 2 <= Nesting
        PROVE ValuesTo[k + 1] \subseteq ValuesTo[k + 2] /\ FormsTo[k + 1] \subseteq FormsTo[k + 2]
    BY (k + 1) + 1 = k + 2
  <2>2. ValuesTo[k] \subseteq ValuesTo[k + 1] /\ FormsTo[k] \subseteq FormsTo[k + 1]
    BY <1>2, <2>1
  <2>3. /\ ValuesTo[k + 1] = Leaves \cup Trees(ValuesTo[k]) /\ ValuesTo[k + 2] = Leaves \cup Trees(ValuesTo[k + 1])
        /\ FormsTo[k + 1] = FormLeaves \cup FormTrees(FormsTo[k])
        /\ FormsTo[k + 2] = FormLeaves \cup FormTrees(FormsTo[k + 1])
    <3>1. k + 1 \in 0..Nesting /\ k + 2 \in 0..Nesting /\ (k + 1) - 1 = k /\ (k + 2) - 1 = k + 1 /\ k + 1 # 0 /\ k + 2 # 0
      BY <2>1
    <3> QED
      BY <3>1, LevelsAre
  <2> QED
    BY ONLY <2>2, <2>3, TreesGrow
<1> HIDE DEF S
<1>3. n - 1 \in S
  BY <1>1, <1>2, Induction
<1> QED
  BY <1>3, (n - 1) + 1 = n DEF S

\* Whatever nests no deeper than the bound is a value, or a canonical form.
LEMMA LevelsTop ==
  ASSUME NEW n \in 0..Nesting
  PROVE  ValuesTo[n] \subseteq Values /\ FormsTo[n] \subseteq Forms
<1> DEFINE S == {k \in Nat : k <= Nesting =>
                   ValuesTo[Nesting - k] \subseteq Values /\ FormsTo[Nesting - k] \subseteq Forms}
<1> USE ArgumentFormAssumption
<1>1. 0 \in S
  BY Nesting - 0 = Nesting DEF Values, Forms
<1>2. ASSUME NEW k \in Nat, k \in S PROVE k + 1 \in S
  <2>1. CASE k + 1 <= Nesting
    <3>1. Nesting - k \in 0..Nesting /\ Nesting - k > 0 /\ (Nesting - k) - 1 = Nesting - (k + 1)
      BY <2>1
    <3>2. ValuesTo[Nesting - (k + 1)] \subseteq ValuesTo[Nesting - k] /\ FormsTo[Nesting - (k + 1)] \subseteq FormsTo[Nesting - k]
      BY <3>1, LevelsGrow
    <3> QED
      BY <3>2, <1>2, <2>1
  <2> QED
    BY <2>1
<1> HIDE DEF S
<1>3. Nesting - n \in S
  BY <1>1, <1>2, Induction
<1> QED
  BY <1>3, Nesting - (Nesting - n) = n DEF S

-----------------------------------------------------------------------------
(* The types and their editors *)

\* What a type of each kind is made of.
LEMMA TypeIs ==
  ASSUME NEW t \in Types
  PROVE  /\ t.kind \in Scalars \cup {"bool", "void"} => Parts(t) = {}
         /\ t.kind = "option" => t.inner \in Types /\ Parts(t) = {t.inner}
         /\ t.kind = "result" => t.ok \in Types /\ t.err \in Types /\ Parts(t) = {t.ok, t.err}
         /\ t.kind = "vec" => t.elem \in Types /\ Parts(t) = {t.elem}
         /\ t.kind = "tuple" => t.elems \in Seq(Types) /\ \A i \in DOMAIN t.elems : t.elems[i] \in Parts(t)
         /\ t.kind = "map" => t.key \in Types /\ t.value \in Types /\ Parts(t) = {t.key, t.value}
         /\ t.kind = "struct" => /\ t.name \in Names /\ t.fields \in Seq(Fields)
                                 /\ \A i \in DOMAIN t.fields : t.fields[i].type \in Parts(t)
         /\ t.kind \in {"enum", "union"} => t.variants \in Seq(Variants) /\ t.variants # <<>>
         /\ t.kind = "enum" => Parts(t) = {}
         /\ t.kind \in Scalars \cup {"bool", "void"} \cup Complex
<1> DEFINE Kinds == {"option", "result", "vec", "tuple", "map", "struct", "enum", "union"}
<1>1. \/ t \in [kind : Scalars \cup {"bool", "void"}]
      \/ t \in [kind : {"option"}, inner : Types]
      \/ t \in [kind : {"result"}, ok : Types, err : Types]
      \/ t \in [kind : {"vec"}, elem : Types]
      \/ t \in [kind : {"tuple"}, elems : Seq(Types)]
      \/ t \in [kind : {"map"}, key : Types, value : Types]
      \/ t \in [kind : {"struct"}, name : Names, fields : Seq(Fields)]
      \/ t \in [kind : {"enum", "union"}, name : Names, variants : Seq(Variants) \ {<<>>}]
  BY ArgumentFormAssumption
<1>2. \A k \in Kinds : k \notin Scalars \cup {"bool", "void"}
  BY DEF Scalars, Integers
<1>3. t.kind \in Scalars \cup {"bool", "void"} \cup Complex
  BY <1>1 DEF Complex, Udts
<1>4. /\ t.kind = "option" => t.inner \in Types
      /\ t.kind = "result" => t.ok \in Types /\ t.err \in Types
      /\ t.kind = "vec" => t.elem \in Types
      /\ t.kind = "tuple" => t.elems \in Seq(Types)
      /\ t.kind = "map" => t.key \in Types /\ t.value \in Types
      /\ t.kind = "struct" => t.name \in Names /\ t.fields \in Seq(Fields)
      /\ t.kind \in {"enum", "union"} => t.variants \in Seq(Variants) /\ t.variants # <<>>
  BY <1>1, <1>2
<1>5. t.kind \in Scalars \cup {"bool", "void"} => Parts(t) = {}
  BY <1>2 DEF Parts
<1>6. /\ t.kind = "option" => Parts(t) = {t.inner}
      /\ t.kind = "result" => Parts(t) = {t.ok, t.err}
      /\ t.kind = "vec" => Parts(t) = {t.elem}
      /\ t.kind = "map" => Parts(t) = {t.key, t.value}
      /\ t.kind = "enum" => Parts(t) = {}
      /\ t.kind = "tuple" => \A i \in DOMAIN t.elems : t.elems[i] \in Parts(t)
      /\ t.kind = "struct" => \A i \in DOMAIN t.fields : t.fields[i].type \in Parts(t)
  BY DEF Parts
<1> QED
  BY ONLY <1>3, <1>4, <1>5, <1>6

\* The variant of a name that is declared.
LEMMA VariantIs ==
  ASSUME NEW t \in Types, t.kind \in {"enum", "union"}, NEW x \in Declared(t.variants)
  PROVE  LET w == Named(t.variants, x)
         IN w \in Variants /\ w.name = x /\ (t.kind = "union" /\ w.type # <<>> => w.type[1] \in Parts(t))
<1> DEFINE w == Named(t.variants, x)
<1>1. t.variants \in Seq(Variants)
  BY TypeIs
<1>2. \E u \in {t.variants[i] : i \in DOMAIN t.variants} : u.name = x
  BY DEF Declared
<1>3. w \in {t.variants[i] : i \in DOMAIN t.variants} /\ w.name = x
  BY <1>2 DEF Named
<1>4. PICK i \in DOMAIN t.variants : w = t.variants[i]
  BY <1>3
<1> HIDE DEF w
<1>5. w \in Variants
  BY <1>1, <1>4
<1>6. t.kind = "union" /\ w.type # <<>> => w.type[1] \in Parts(t)
  BY <1>4 DEF Parts
<1> QED
  BY <1>3, <1>5, <1>6 DEF w

\* The first variant is one of those declared.
LEMMA FirstVariantIs ==
  ASSUME NEW t \in Types, t.kind \in {"enum", "union"}
  PROVE  /\ 1 \in DOMAIN t.variants
         /\ t.variants[1] \in Variants /\ t.variants[1].name \in Declared(t.variants)
         /\ t.kind = "union" /\ t.variants[1].type # <<>> => t.variants[1].type[1] \in Parts(t)
         /\ Named(t.variants, t.variants[1].name) = t.variants[1]
<1>1. t.variants \in Seq(Variants) /\ t.variants # <<>>
  BY TypeIs
<1>2. 1 \in DOMAIN t.variants
  BY <1>1
<1>3. Named(t.variants, t.variants[1].name) = t.variants[1]
  <2>1. Distinct(t.variants)
    BY ArgumentFormAssumption
  <2> DEFINE w == Named(t.variants, t.variants[1].name)
  <2>2. w \in {t.variants[i] : i \in DOMAIN t.variants} /\ w.name = t.variants[1].name
    BY <1>2 DEF Named
  <2> QED
    BY <1>2, <2>1, <2>2 DEF Distinct
<1>4. t.variants[1].name \in Declared(t.variants)
  BY <1>2 DEF Declared
<1>5. t.kind = "union" /\ t.variants[1].type # <<>> => t.variants[1].type[1] \in Parts(t)
  BY <1>2 DEF Parts
<1> QED
  BY <1>1, <1>2, <1>3, <1>4, <1>5

\* A part is a type, and less deep.
LEMMA PartIs ==
  ASSUME NEW t \in Types, NEW p \in Parts(t)
  PROVE  p \in Types /\ t.kind \in Complex /\ Depth[p] \in Nat /\ Depth[t] \in Nat /\ Depth[p] < Depth[t]
<1>1. t.kind \in Complex
  BY TypeIs
<1>2. p \in Types
  <2>1. CASE t.kind \in {"option", "result", "vec", "map", "enum"}
    BY <2>1, TypeIs
  <2>2. CASE t.kind = "tuple"
    <3>1. t.elems \in Seq(Types)
      BY <2>2, TypeIs
    <3> QED
      BY <2>2, <3>1 DEF Parts
  <2>3. CASE t.kind = "struct"
    <3>1. t.fields \in Seq(Fields)
      BY <2>3, TypeIs
    <3>2. PICK i \in DOMAIN t.fields : p = t.fields[i].type
      BY <2>3 DEF Parts
    <3>3. t.fields[i] \in Fields
      BY <3>1, <3>2
    <3> QED
      BY <3>2, <3>3 DEF Fields
  <2>4. CASE t.kind = "union"
    <3>1. t.variants \in Seq(Variants)
      BY <2>4, TypeIs
    <3>2. PICK i \in DOMAIN t.variants : t.variants[i].type # <<>> /\ p = t.variants[i].type[1]
      BY <2>4 DEF Parts
    <3>3. t.variants[i] \in Variants
      BY <3>1, <3>2
    <3> QED
      BY <3>2, <3>3 DEF Variants
  <2> QED
    BY <1>1, <2>1, <2>2, <2>3, <2>4 DEF Complex, Udts
<1>3. Depth[p] < Depth[t]
  BY <1>1, ArgumentFormAssumption
<1>4. Depth \in [Types -> 0..Nesting] /\ Nesting \in Nat
  BY ArgumentFormAssumption
<1> QED
  BY <1>1, <1>2, <1>3, <1>4

\* What holds of a type when it holds of its parts holds of every type.
LEMMA TypeInduction ==
  ASSUME NEW S, \A t \in Types : Parts(t) \subseteq S => t \in S
  PROVE  Types \subseteq S
<1> DEFINE N == {n \in Nat : \A t \in Types : Depth[t] < n => t \in S}
<1>1. \A t \in Types : Depth[t] \in Nat
  BY ArgumentFormAssumption
<1>2. 0 \in N
  BY <1>1
<1>3. ASSUME NEW n \in Nat, n \in N PROVE n + 1 \in N
  <2> SUFFICES ASSUME NEW t \in Types, Depth[t] < n + 1 PROVE t \in S
    OBVIOUS
  <2>1. ASSUME NEW p \in Parts(t) PROVE p \in S
    <3>1. p \in Types /\ Depth[p] \in Nat /\ Depth[p] < Depth[t]
      BY PartIs
    <3>2. Depth[p] < n
      BY <3>1, <1>1
    <3> QED
      BY <3>1, <3>2, <1>3
  <2> QED
    BY <2>1
<1> HIDE DEF N
<1>4. Nat \subseteq N
  BY <1>2, <1>3, Induction
<1>5. ASSUME NEW t \in Types PROVE t \in S
  <2>1. Depth[t] + 1 \in N
    BY <1>1, <1>4
  <2> QED
    BY <2>1, <1>1 DEF N
<1> QED
  BY <1>5

\* The editors of all types are made of those of their parts.
LEMMA EditorExists == \E f : f = [t \in Types |-> EditorOf([p \in Parts(t) |-> f[p]], t)]
<1> DEFINE Shallow(n) == {t \in Types : Depth[t] < n}
           Solves(f, n) == f = [t \in Shallow(n) |-> EditorOf([p \in Parts(t) |-> f[p]], t)]
           N == {n \in Nat : \E f : Solves(f, n)}
<1>1. Depth \in [Types -> 0..Nesting] /\ Nesting \in Nat
  BY ArgumentFormAssumption
<1>2. 0 \in N
  <2> DEFINE f == [t \in Shallow(0) |-> EditorOf([p \in Parts(t) |-> t], t)]
  <2>1. Shallow(0) = {}
    BY <1>1
  <2> HIDE DEF Shallow
  <2>2. Solves(f, 0)
    BY <2>1
  <2> HIDE DEF f, Solves
  <2> QED
    BY <2>2
<1>3. ASSUME NEW n \in Nat, n \in N PROVE n + 1 \in N
  <2>1. PICK f : Solves(f, n)
    BY <1>3
  <2> DEFINE g == [t \in Shallow(n + 1) |-> EditorOf([p \in Parts(t) |-> f[p]], t)]
  <2>2. \A t \in Shallow(n + 1) : \A p \in Parts(t) : p \in Shallow(n)
    BY <1>1, PartIs
  <2>3. \A t \in Shallow(n) : t \in Shallow(n + 1)
    BY <1>1
  <2> HIDE DEF Shallow
  <2>4. \A t \in Shallow(n) : f[t] = EditorOf([p \in Parts(t) |-> f[p]], t)
    BY <2>1
  <2>5. \A t \in Shallow(n) : g[t] = f[t]
    BY <2>3, <2>4
  <2> HIDE DEF g
  <2>6. ASSUME NEW t \in Shallow(n + 1) PROVE [p \in Parts(t) |-> f[p]] = [p \in Parts(t) |-> g[p]]
    BY <2>2, <2>5
  <2>7. g = [t \in Shallow(n + 1) |-> EditorOf([p \in Parts(t) |-> g[p]], t)]
    BY <2>6 DEF g
  <2>8. Solves(g, n + 1)
    BY <2>7
  <2> HIDE DEF Solves
  <2> QED
    BY <2>8
<1> HIDE DEF N
<1>4. Nesting + 1 \in N
  BY <1>1, <1>2, <1>3, Induction
<1>5. Shallow(Nesting + 1) = Types
  BY <1>1
<1> HIDE DEF Shallow
<1>6. PICK f : Solves(f, Nesting + 1)
  BY <1>4 DEF N
<1>7. f = [t \in Types |-> EditorOf([p \in Parts(t) |-> f[p]], t)]
  BY <1>5, <1>6
<1> QED
  BY <1>7

\* The editors of the parts of t.
Made(t) == [p \in Parts(t) |-> Editor[p]]

\* The editor of a type is made of the editors of its parts.
LEMMA EditorIs ==
  ASSUME NEW t \in Types
  PROVE  /\ Editor[t].initial = Default(Made(t), t)
         /\ \A v \in Values : /\ Editor[t].verdict[v] = Validate(Made(t), t, v)
                              /\ Editor[t].canonical[v] = Canonical(Made(t), t, v)
                              /\ Editor[t].edits[v] = Edits(Made(t), t, v)
         /\ \A c \in Forms : Editor[t].inhabits[c] = Inhabits(Made(t), t, c)
         /\ Editor[t].turns = (t.kind = "result" \/ \E p \in Parts(t) : Editor[p].turns)
         /\ \A p \in Parts(t) : Made(t)[p] = Editor[p]
<1>1. Editor = [u \in Types |-> EditorOf([p \in Parts(u) |-> Editor[p]], u)]
  BY EditorExists DEF Editor
<1>2. Editor[t] = EditorOf(Made(t), t)
  BY ONLY <1>1, t \in Types DEF Made
<1>3. \A p \in Parts(t) : Made(t)[p] = Editor[p]
  BY DEF Made
<1>4. /\ EditorOf(Made(t), t).initial = Default(Made(t), t)
      /\ EditorOf(Made(t), t).verdict = [v \in Values |-> Validate(Made(t), t, v)]
      /\ EditorOf(Made(t), t).canonical = [v \in Values |-> Canonical(Made(t), t, v)]
      /\ EditorOf(Made(t), t).inhabits = [c \in Forms |-> Inhabits(Made(t), t, c)]
      /\ EditorOf(Made(t), t).edits = [v \in Values |-> Edits(Made(t), t, v)]
      /\ EditorOf(Made(t), t).turns = (t.kind = "result" \/ \E p \in Parts(t) : Made(t)[p].turns)
  BY ONLY DEF EditorOf
<1>5. (t.kind = "result" \/ \E p \in Parts(t) : Made(t)[p].turns)
        = (t.kind = "result" \/ \E p \in Parts(t) : Editor[p].turns)
  BY ONLY <1>3
<1>6. \A v \in Values : /\ Editor[t].verdict[v] = Validate(Made(t), t, v)
                        /\ Editor[t].canonical[v] = Canonical(Made(t), t, v)
                        /\ Editor[t].edits[v] = Edits(Made(t), t, v)
  BY ONLY <1>2, <1>4
<1>7. \A c \in Forms : Editor[t].inhabits[c] = Inhabits(Made(t), t, c)
  BY ONLY <1>2, <1>4
<1> QED
  BY ONLY <1>2, <1>3, <1>4, <1>5, <1>6, <1>7

\* The first verdict that is not fine is one of the verdicts.
LEMMA FirstWrongIs ==
  ASSUME NEW n \in Nat, NEW s, DOMAIN s = 1..n
  PROVE  IF FirstWrong(s) = "fine" THEN \A i \in 1..n : s[i] = "fine"
                                   ELSE \E i \in 1..n : s[i] = FirstWrong(s)
<1>1. CASE \A i \in 1..n : s[i] = "fine"
  BY <1>1 DEF FirstWrong
<1>2. CASE ~ (\A i \in 1..n : s[i] = "fine")
  <2> DEFINE T == {i \in 1..n : s[i] # "fine"}
             Is(i) == s[i] # "fine" /\ \A j \in 1..(i - 1) : s[j] = "fine"
  <2>1. T # {} /\ T \in SUBSET Nat
    BY <1>2
  <2>2. PICK m \in T : \A i \in T : m <= i
    BY <2>1, LeastNatural
  <2>3. m \in 1..n /\ Is(m)
    BY <2>2
  <2>4. FirstWrong(s) = s[CHOOSE i \in 1..n : Is(i)]
    BY <1>2 DEF FirstWrong
  <2> DEFINE c == CHOOSE i \in 1..n : Is(i)
  <2>5. c \in 1..n /\ Is(c)
    BY <2>3
  <2> HIDE DEF c
  <2> QED
    BY <2>4, <2>5 DEF c
<1> QED
  BY <1>1, <1>2

-----------------------------------------------------------------------------
(* What a value is made of *)

\* What a value of a level is, by its kind.
LEMMA ValueIs ==
  ASSUME NEW n \in 0..Nesting, NEW v \in ValuesTo[n]
  PROVE  /\ v.kind \in {"undefined", "scalar", "bool", "option", "result", "list", "map", "udt"}
         /\ v.kind = "undefined" => v = Undefined
         /\ v.kind = "scalar" => v.text \in Texts
         /\ v.kind = "bool" => v.value \in BOOLEAN
         /\ v.kind \in {"option", "result", "list", "map", "udt"} => n > 0
         /\ v.kind = "option" => v.some \in BOOLEAN /\ v.value \in Seq(ValuesTo[n - 1])
         /\ v.kind = "result" => v.ok \in BOOLEAN /\ v.value \in Seq(ValuesTo[n - 1])
         /\ v.kind = "list" => v.items \in Seq(ValuesTo[n - 1])
         /\ v.kind = "map" => v.rows \in Seq([key : ValuesTo[n - 1], value : ValuesTo[n - 1]])
         /\ v.kind = "udt" => v.variant \in Names \cup {""} /\ v.fields \in [Names -> ValuesTo[n - 1]]
<1>1. CASE v \in Leaves
  <2>1. v = Undefined \/ v \in [kind : {"scalar"}, text : Texts] \/ v \in [kind : {"bool"}, value : BOOLEAN]
    BY <1>1 DEF Leaves
  <2>2. CASE v = Undefined
    BY <2>2 DEF Undefined
  <2>3. CASE v \in [kind : {"scalar"}, text : Texts]
    BY <2>3
  <2>4. CASE v \in [kind : {"bool"}, value : BOOLEAN]
    BY <2>4
  <2> QED
    BY <2>1, <2>2, <2>3, <2>4
<1>2. CASE n > 0 /\ v \in Trees(ValuesTo[n - 1])
  <2> DEFINE S == ValuesTo[n - 1]
  <2> HIDE DEF S
  <2>1. v \in Trees(S)
    BY <1>2 DEF S
  <2>2. \/ v \in [kind : {"option"}, some : BOOLEAN, value : Seq(S)]
        \/ v \in [kind : {"result"}, ok : BOOLEAN, value : Seq(S)]
        \/ v \in [kind : {"list"}, items : Seq(S)]
        \/ v \in [kind : {"map"}, rows : Seq([key : S, value : S])]
        \/ v \in [kind : {"udt"}, variant : Names \cup {""}, fields : [Names -> S]]
    BY <2>1 DEF Trees
  <2> QED
    BY <2>2, <1>2 DEF S
<1>3. v \in Leaves \/ (n > 0 /\ v \in Trees(ValuesTo[n - 1]))
  <2>1. ValuesTo[n] = IF n = 0 THEN Leaves ELSE Leaves \cup Trees(ValuesTo[n - 1])
    BY LevelsAre
  <2>2. n # 0 => n > 0
    BY ArgumentFormAssumption
  <2> QED
    BY <2>1, <2>2
<1> QED
  BY <1>1, <1>2, <1>3

\* The simple values are of every level.
LEMMA LeafFits ==
  ASSUME NEW n \in 0..Nesting
  PROVE  /\ Undefined \in ValuesTo[n]
         /\ \A text \in Texts : Scalar(text) \in ValuesTo[n]
         /\ \A b \in BOOLEAN : Boolean(b) \in ValuesTo[n]
<1>1. Leaves \subseteq ValuesTo[n]
  <2>1. ValuesTo[n] = IF n = 0 THEN Leaves ELSE Leaves \cup Trees(ValuesTo[n - 1])
    BY LevelsAre
  <2> QED
    BY ONLY <2>1
<1> QED
  BY <1>1 DEF Leaves, Scalar, Boolean

\* A value made of values is one level above them.
LEMMA TreeFits ==
  ASSUME NEW n \in 0..Nesting, n > 0
  PROVE  /\ \A b \in BOOLEAN, s \in Seq(ValuesTo[n - 1]) : Option(b, s) \in ValuesTo[n] /\ Result(b, s) \in ValuesTo[n]
         /\ \A s \in Seq(ValuesTo[n - 1]) : List(s) \in ValuesTo[n]
         /\ \A s \in Seq([key : ValuesTo[n - 1], value : ValuesTo[n - 1]]) : Map(s) \in ValuesTo[n]
         /\ \A x \in Names \cup {""}, f \in [Names -> ValuesTo[n - 1]] : Udt(x, f) \in ValuesTo[n]
<1> DEFINE S == ValuesTo[n - 1]
<1>1. Trees(S) \subseteq ValuesTo[n]
  <2>1. ValuesTo[n] = IF n = 0 THEN Leaves ELSE Leaves \cup Trees(ValuesTo[n - 1])
    BY LevelsAre
  <2>2. n # 0
    OBVIOUS
  <2> QED
    BY <2>1, <2>2
<1> HIDE DEF S
<1>2. /\ \A b \in BOOLEAN, s \in Seq(S) : Option(b, s) \in Trees(S) /\ Result(b, s) \in Trees(S)
      /\ \A s \in Seq(S) : List(s) \in Trees(S)
      /\ \A s \in Seq([key : S, value : S]) : Map(s) \in Trees(S)
      /\ \A x \in Names \cup {""}, f \in [Names -> S] : Udt(x, f) \in Trees(S)
  BY DEF Trees, Option, Result, List, Map, Udt
<1> QED
  BY <1>1, <1>2 DEF S

\* What a value holds is of the level below.
LEMMA ContentsFit ==
  ASSUME NEW n \in 0..Nesting, n > 0, NEW v \in ValuesTo[n]
  PROVE  /\ n - 1 \in 0..Nesting
         /\ Items(v) \in Seq(ValuesTo[n - 1])
         /\ Rows(v) \in Seq([key : ValuesTo[n - 1], value : ValuesTo[n - 1]])
         /\ v.kind = "option" => v.value \in Seq(ValuesTo[n - 1])
         /\ v.kind = "result" => v.ok \in BOOLEAN /\ v.value \in Seq(ValuesTo[n - 1])
         /\ v.kind = "udt" => v.fields \in [Names -> ValuesTo[n - 1]]
<1> DEFINE below == ValuesTo[n - 1]
<1>1. /\ v.kind = "list" => v.items \in Seq(below)
      /\ v.kind = "map" => v.rows \in Seq([key : below, value : below])
      /\ v.kind = "option" => v.value \in Seq(below)
      /\ v.kind = "result" => v.ok \in BOOLEAN /\ v.value \in Seq(below)
      /\ v.kind = "udt" => v.fields \in [Names -> below]
  BY ValueIs
<1> HIDE DEF below
<1>2. <<>> \in Seq(below) /\ <<>> \in Seq([key : below, value : below])
  OBVIOUS
<1>3. Items(v) \in Seq(below)
  BY <1>1, <1>2 DEF Items
<1>4. Rows(v) \in Seq([key : below, value : below])
  BY <1>1, <1>2 DEF Rows
<1>5. n - 1 \in 0..Nesting
  BY ArgumentFormAssumption
<1> QED
  BY <1>1, <1>3, <1>4, <1>5 DEF below

\* The parts of a type that fits a level fit the level below.
LEMMA PartFits ==
  ASSUME NEW t \in Types, t.kind \in Complex, NEW n \in 0..Nesting, Depth[t] <= n
  PROVE  n > 0 /\ n - 1 \in 0..Nesting /\ \A p \in Parts(t) : Depth[p] <= n - 1
<1>1. Depth[t] > 0 /\ Depth[t] \in Nat
  BY ArgumentFormAssumption
<1>2. n > 0 /\ n - 1 \in 0..Nesting
  BY <1>1, ArgumentFormAssumption
<1>3. ASSUME NEW p \in Parts(t) PROVE Depth[p] <= n - 1
  BY PartIs, <1>1
<1> QED
  BY <1>2, <1>3

-----------------------------------------------------------------------------
(* What the controls of one type do to a value, given what those of its     *)
(* parts do                                                                *)

\* An editor starts in S and stays there.
Closed(editor, S) == editor.initial \in S /\ \A w \in S : editor.edits[w] \subseteq S

\* Changing, removing or adding an element leaves a sequence over the same set.
LEMMA SequenceEdits ==
  ASSUME NEW S, NEW s \in Seq(S)
  PROVE  /\ <<>> \in Seq(S)
         /\ \A x \in S : <<x>> \in Seq(S) /\ Append(s, x) \in Seq(S)
         /\ \A i \in DOMAIN s : s[i] \in S /\ Without(s, i) \in Seq(S)
         /\ \A i \in DOMAIN s, x \in S : [s EXCEPT ![i] = x] \in Seq(S)
<1>1. ASSUME NEW i \in DOMAIN s PROVE Without(s, i) \in Seq(S)
  <2>1. Len(s) - 1 \in Nat /\ i \in 1..Len(s)
    OBVIOUS
  <2>2. \A j \in 1..(Len(s) - 1) : s[IF j < i THEN j ELSE j + 1] \in S
    BY <2>1
  <2>3. Without(s, i) \in [1..(Len(s) - 1) -> S]
    BY <2>2 DEF Without
  <2> QED
    BY <2>1, <2>3
<1>2. \A x \in S : <<x>> \in Seq(S) /\ Append(s, x) \in Seq(S)
  OBVIOUS
<1>3. \A i \in DOMAIN s, x \in S : [s EXCEPT ![i] = x] \in Seq(S)
  OBVIOUS
<1> QED
  BY <1>1, <1>2, <1>3

\* The controls of a list keep a list over S, when those of its elements keep S.
LEMMA VecEditsIn ==
  ASSUME NEW S, NEW part, NEW t, NEW v, Items(v) \in Seq(S),
         Closed(part[t.elem], S), t.elem.kind \notin Complex => \A text \in Texts : Scalar(text) \in S
  PROVE  \A e \in VecEdits(part, t, v) : \E s \in Seq(S) : e = List(s)
<1> TAKE e \in VecEdits(part, t, v)
<1> DEFINE items == Items(v)
           words == {Scalar(text) : text \in Texts \ {""}}
           Changed == UNION {{List([items EXCEPT ![i] = next]) : next \in part[t.elem].edits[items[i]]} : i \in DOMAIN items}
           Fewer == {List(Without(items, i)) : i \in DOMAIN items}
           More == {List(Append(items, part[t.elem].initial))}
<1>1. items \in Seq(S)
  OBVIOUS
<1>2. CASE t.elem.kind \in Complex
  <2>1. CASE \E i \in DOMAIN items : \E next \in part[t.elem].edits[items[i]] : e = List([items EXCEPT ![i] = next])
    <3>5. PICK i \in DOMAIN items : \E next \in part[t.elem].edits[items[i]] : e = List([items EXCEPT ![i] = next])
      BY <2>1
    <3>1. PICK next \in part[t.elem].edits[items[i]] : e = List([items EXCEPT ![i] = next])
      BY <3>5
    <3>2. items[i] \in S
      BY <1>1, <3>1
    <3>3. next \in S
      BY <3>1, <3>2 DEF Closed
    <3> HIDE DEF items
    <3>4. [items EXCEPT ![i] = next] \in Seq(S)
      BY <1>1, <3>1, <3>3, SequenceEdits
    <3> QED
      BY <3>1, <3>4
  <2>2. CASE \E i \in DOMAIN items : e = List(Without(items, i))
    BY <1>1, <2>2, SequenceEdits
  <2>3. CASE e = List(Append(items, part[t.elem].initial))
    <3>1. part[t.elem].initial \in S
      BY DEF Closed
    <3> QED
      BY <1>1, <2>3, <3>1, SequenceEdits
  <2>4. e \in Changed \/ e \in Fewer \/ e \in More
    <3> HIDE DEF Changed, Fewer
    <3> QED
      BY <1>2 DEF VecEdits, Changed, Fewer
  <2>5. e \in Changed => \E i \in DOMAIN items : \E next \in part[t.elem].edits[items[i]] : e = List([items EXCEPT ![i] = next])
    OBVIOUS
  <2>6. e \in Fewer => \E i \in DOMAIN items : e = List(Without(items, i))
    OBVIOUS
  <2>7. e \in More => e = List(Append(items, part[t.elem].initial))
    OBVIOUS
  <2> QED
    BY ONLY <2>1, <2>2, <2>3, <2>4, <2>5, <2>6, <2>7
<1>3. CASE t.elem.kind \notin Complex
  <2>5. PICK n \in 0..MaxItems : \E s \in [1..n -> words] : e = List(s)
    BY <1>3 DEF VecEdits
  <2>2. n \in Nat
    <3>1. MaxItems \in Nat
      BY ArgumentFormAssumption
    <3>2. n \in 0..MaxItems
      OBVIOUS
    <3> QED
      BY ONLY <3>1, <3>2
  <2>1. PICK s \in [1..n -> words] : e = List(s)
    BY <2>5
  <2>3. words \subseteq S
    BY <1>3
  <2> HIDE DEF words
  <2>4. s \in Seq(S)
    BY <2>1, <2>2, <2>3
  <2> QED
    BY <2>1, <2>4
<1> QED
  BY <1>2, <1>3

\* A tuple of m items, each in its set, as an event hands it over, and a value shown as one.
TupleFrom(e, m, T) == \E s : e = List(s) /\ s = [j \in 1..m |-> s[j]] /\ \A j \in 1..m : s[j] \in T[j]
TupleIn(v, m, T) == DOMAIN Items(v) = 1..m /\ \A j \in 1..m : Items(v)[j] \in T[j]
TupleClosed(part, t, T) == \A i \in DOMAIN t.elems : Closed(part[t.elems[i]], T[i])

\* The controls of a tuple keep its i-th item in T[i], when those of that item do.
LEMMA TupleEditsIn ==
  ASSUME NEW T, NEW part, NEW t, NEW v, NEW m \in Nat, TupleIn(v, m, T), TupleClosed(part, t, T)
  PROVE  \A e \in TupleEdits(part, t, v) : TupleFrom(e, m, T)
<1> TAKE e \in TupleEdits(part, t, v)
<1> DEFINE items == Items(v)
           Shows(i) == IF i \in DOMAIN items THEN items[i] ELSE part[t.elems[i]].initial
<1> DEFINE Of(i) == {List([j \in DOMAIN items |-> IF j = i THEN next ELSE items[j]]) : next \in part[t.elems[i]].edits[Shows(i)]}
<1>9. TupleEdits(part, t, v) = UNION {Of(i) : i \in DOMAIN t.elems}
  BY DEF TupleEdits
<1> HIDE DEF Of
<1>10. PICK i \in DOMAIN t.elems : e \in Of(i)
  BY <1>9
<1>8. \E next \in part[t.elems[i]].edits[Shows(i)] :
        e = List([j \in DOMAIN items |-> IF j = i THEN next ELSE items[j]])
  BY <1>10 DEF Of
<1>1. PICK next \in part[t.elems[i]].edits[Shows(i)] :
        e = List([j \in DOMAIN items |-> IF j = i THEN next ELSE items[j]])
  BY <1>8
<1>2. Closed(part[t.elems[i]], T[i])
  BY <1>1 DEF TupleClosed
<1>3. Shows(i) \in T[i]
  BY <1>2 DEF Closed, TupleIn
<1>4. next \in T[i]
  BY <1>1, <1>2, <1>3 DEF Closed
<1> DEFINE s == [j \in 1..m |-> IF j = i THEN next ELSE items[j]]
<1>5. e = List(s)
  BY <1>1 DEF TupleIn
<1>6. \A j \in 1..m : s[j] \in T[j]
  BY <1>4 DEF TupleIn
<1>7. s = [j \in 1..m |-> s[j]]
  OBVIOUS
<1> HIDE DEF s
<1> QED
  BY <1>5, <1>6, <1>7 DEF TupleFrom

\* A map from K to V, as an event hands it over, and a value shown as one.
MapOf(e, K, V) == \E s \in Seq([key : K, value : V]) : e = Map(s)
MapIn(v, K, V) == Rows(v) \in Seq([key : K, value : V])

\* The controls of a map keep its keys in K and its values in V.
LEMMA MapEditsIn ==
  ASSUME NEW K, NEW V, NEW part, NEW t, NEW v, MapIn(v, K, V), Closed(part[t.key], K), Closed(part[t.value], V)
  PROVE  \A e \in MapEdits(part, t, v) : MapOf(e, K, V)
<1> TAKE e \in MapEdits(part, t, v)
<1> DEFINE rows == Rows(v)
           R == [key : K, value : V]
           Keys == UNION {{Map([rows EXCEPT ![i].key = key]) : key \in part[t.key].edits[rows[i].key]} : i \in DOMAIN rows}
           Vals == UNION {{Map([rows EXCEPT ![i].value = val]) : val \in part[t.value].edits[rows[i].value]} : i \in DOMAIN rows}
           Fewer == {Map(Without(rows, i)) : i \in DOMAIN rows}
           More == {Map(Append(rows, [key |-> part[t.key].initial, value |-> part[t.value].initial]))}
<1>1. rows \in Seq(R)
  BY DEF MapIn
<1>8. R = [key : K, value : V]
  OBVIOUS
<1>9. SUFFICES \E s \in Seq(R) : e = Map(s)
  BY DEF MapOf
<1>7. e \in Keys \/ e \in Vals \/ e \in Fewer \/ e \in More
  <2> HIDE DEF Keys, Vals, Fewer
  <2> QED
    BY DEF MapEdits, Keys, Vals, Fewer
<1>2. \/ \E i \in DOMAIN rows : \E key \in part[t.key].edits[rows[i].key] : e = Map([rows EXCEPT ![i].key = key])
      \/ \E i \in DOMAIN rows : \E val \in part[t.value].edits[rows[i].value] : e = Map([rows EXCEPT ![i].value = val])
      \/ \E i \in DOMAIN rows : e = Map(Without(rows, i))
      \/ e = Map(Append(rows, [key |-> part[t.key].initial, value |-> part[t.value].initial]))
  BY <1>7
<1> HIDE DEF rows, R
<1>3. CASE \E i \in DOMAIN rows : \E key \in part[t.key].edits[rows[i].key] : e = Map([rows EXCEPT ![i].key = key])
  <2>6. PICK i \in DOMAIN rows : \E key \in part[t.key].edits[rows[i].key] : e = Map([rows EXCEPT ![i].key = key])
    BY <1>3
  <2>1. PICK key \in part[t.key].edits[rows[i].key] : e = Map([rows EXCEPT ![i].key = key])
    BY <2>6
  <2>2. rows[i] \in R
    BY <1>1, <2>6, SequenceEdits
  <2>3. key \in K
    BY <1>8, <2>1, <2>2 DEF Closed
  <2>4. [rows[i] EXCEPT !.key = key] \in R
    BY <1>8, <2>2, <2>3
  <2>5. [rows EXCEPT ![i].key = key] \in Seq(R)
    <3>1. [rows EXCEPT ![i] = [rows[i] EXCEPT !.key = key]] \in Seq(R)
      BY <1>1, <2>1, <2>4, SequenceEdits
    <3> QED
      BY <3>1
  <2> QED
    BY <2>1, <2>5
<1>4. CASE \E i \in DOMAIN rows : \E val \in part[t.value].edits[rows[i].value] : e = Map([rows EXCEPT ![i].value = val])
  <2>6. PICK i \in DOMAIN rows : \E val \in part[t.value].edits[rows[i].value] : e = Map([rows EXCEPT ![i].value = val])
    BY <1>4
  <2>1. PICK val \in part[t.value].edits[rows[i].value] : e = Map([rows EXCEPT ![i].value = val])
    BY <2>6
  <2>2. rows[i] \in R
    BY <1>1, <2>6, SequenceEdits
  <2>3. val \in V
    BY <1>8, <2>1, <2>2 DEF Closed
  <2>4. [rows[i] EXCEPT !.value = val] \in R
    BY <1>8, <2>2, <2>3
  <2>5. [rows EXCEPT ![i].value = val] \in Seq(R)
    <3>1. [rows EXCEPT ![i] = [rows[i] EXCEPT !.value = val]] \in Seq(R)
      BY <1>1, <2>1, <2>4, SequenceEdits
    <3> QED
      BY <3>1
  <2> QED
    BY <2>1, <2>5
<1>5. CASE \E i \in DOMAIN rows : e = Map(Without(rows, i))
  BY <1>1, <1>5, SequenceEdits
<1>6. CASE e = Map(Append(rows, [key |-> part[t.key].initial, value |-> part[t.value].initial]))
  <2>1. [key |-> part[t.key].initial, value |-> part[t.value].initial] \in R
    BY <1>8 DEF Closed
  <2> QED
    BY <1>1, <1>6, <2>1, SequenceEdits
<1> QED
  BY <1>2, <1>3, <1>4, <1>5, <1>6

\* None or some of S, as an event hands it over, and a value shown as one.
OptionOf(e, S) == e = Option(FALSE, <<>>) \/ \E s \in Seq(S) : s # <<>> /\ e = Option(TRUE, s)
OptionIn(v, S) == v.kind = "option" => v.value \in Seq(S)

\* The controls of an option keep what it holds in S.
LEMMA OptionEditsIn ==
  ASSUME NEW S, NEW part, NEW t, NEW v, OptionIn(v, S), Closed(part[t.inner], S)
  PROVE  \A e \in OptionEdits(part, t, v) : OptionOf(e, S)
<1> TAKE e \in OptionEdits(part, t, v)
<1> DEFINE o == IF v.kind = "option" THEN v ELSE Option(FALSE, <<>>)
<1>1. o.value \in Seq(S)
  BY DEF Option, OptionIn
<1>2. part[t.inner].initial \in S
  BY DEF Closed
<1>3. \/ e = Option(FALSE, <<>>)
      \/ e = Option(TRUE, IF o.value # <<>> THEN o.value ELSE <<part[t.inner].initial>>)
      \/ o.value # <<>> /\ \E next \in part[t.inner].edits[o.value[1]] : e = Option(TRUE, <<next>>)
  BY DEF OptionEdits
<1> HIDE DEF o
<1>4. CASE e = Option(TRUE, IF o.value # <<>> THEN o.value ELSE <<part[t.inner].initial>>)
  <2>1. CASE o.value # <<>>
    BY <1>1, <1>4, <2>1 DEF OptionOf
  <2>2. CASE o.value = <<>>
    <3>1. <<part[t.inner].initial>> \in Seq(S) /\ <<part[t.inner].initial>> # <<>>
      BY <1>2
    <3> QED
      BY <1>4, <2>2, <3>1 DEF OptionOf
  <2> QED
    BY <2>1, <2>2
<1>5. CASE o.value # <<>> /\ \E next \in part[t.inner].edits[o.value[1]] : e = Option(TRUE, <<next>>)
  <2>1. PICK next \in part[t.inner].edits[o.value[1]] : e = Option(TRUE, <<next>>)
    BY <1>5
  <2>2. o.value[1] \in S
    BY <1>1, <1>5
  <2>3. next \in S
    BY <2>1, <2>2 DEF Closed
  <2>4. <<next>> \in Seq(S) /\ <<next>> # <<>>
    BY <2>3
  <2> QED
    BY <2>1, <2>4 DEF OptionOf
<1> QED
  BY <1>3, <1>4, <1>5 DEF OptionOf

\* The fields f are each in their set.
FieldsIn(f, F) == f = [x \in Names |-> f[x]] /\ \A x \in Names : f[x] \in F[x]
FieldsClosed(part, t, F) ==
    \A i \in DOMAIN t.fields : t.fields[i].name \in Names /\ Closed(part[t.fields[i].type], F[t.fields[i].name])

StructOf(e, F) == \E f : e = Udt("", f) /\ FieldsIn(f, F)
StructIn(u, F) == FieldsIn(u.fields, F)

\* The controls of a struct keep each of its fields in the set of that field.
LEMMA StructEditsIn ==
  ASSUME NEW F, NEW part, NEW t, NEW u, StructIn(u, F), FieldsClosed(part, t, F)
  PROVE  \A e \in StructEdits(part, t, u) : StructOf(e, F)
<1> TAKE e \in StructEdits(part, t, u)
<1>1. PICK i \in DOMAIN t.fields :
        \E next \in part[t.fields[i].type].edits[FieldShown(part, u, t.fields[i].name, t.fields[i].type)] :
          e = Udt("", [u.fields EXCEPT ![t.fields[i].name] = next])
  BY DEF StructEdits
<1> DEFINE x == t.fields[i].name
           p == t.fields[i].type
<1>2. x \in Names /\ Closed(part[p], F[x])
  BY <1>1 DEF FieldsClosed
<1>3. PICK next \in part[p].edits[FieldShown(part, u, x, p)] : e = Udt("", [u.fields EXCEPT ![x] = next])
  BY <1>1
<1> HIDE DEF x, p
<1>4. FieldShown(part, u, x, p) \in F[x]
  BY <1>2 DEF FieldShown, Closed, FieldsIn, StructIn
<1>5. next \in F[x]
  BY <1>2, <1>3, <1>4 DEF Closed
<1> DEFINE f == [u.fields EXCEPT ![x] = next]
<1>6. \A y \in Names : f[y] \in F[y]
  BY <1>2, <1>5 DEF FieldsIn, StructIn
<1>7. f = [y \in Names |-> f[y]]
  BY DEF FieldsIn, StructIn
<1>8. e = Udt("", f)
  BY <1>3
<1> HIDE DEF f
<1> QED
  BY <1>6, <1>7, <1>8 DEF FieldsIn, StructOf

-----------------------------------------------------------------------------
(* Every editor starts with a value, and what is done to a value in it is a *)
(* value again: nothing nests deeper than the type                         *)

\* What the controls of each kind do.
LEMMA EditsAre ==
  ASSUME NEW part, NEW t, NEW v
  PROVE  /\ t.kind \in Scalars => Edits(part, t, v) = ScalarEdits /\ Default(part, t) = Scalar("")
         /\ t.kind = "bool" => Edits(part, t, v) = BoolEdits /\ Default(part, t) = Boolean(FALSE)
         /\ t.kind = "void" => Edits(part, t, v) = {} /\ Default(part, t) = Scalar("")
         /\ t.kind = "vec" => Edits(part, t, v) = VecEdits(part, t, v) /\ Default(part, t) = List(<<>>)
         /\ t.kind = "tuple" => /\ Edits(part, t, v) = TupleEdits(part, t, v)
                                /\ Default(part, t) = List([i \in DOMAIN t.elems |-> part[t.elems[i]].initial])
         /\ t.kind = "map" => Edits(part, t, v) = MapEdits(part, t, v) /\ Default(part, t) = Map(<<>>)
         /\ t.kind = "option" => Edits(part, t, v) = OptionEdits(part, t, v) /\ Default(part, t) = Option(FALSE, <<>>)
         /\ t.kind = "result" => Edits(part, t, v) = ResultEdits(part, t, v) /\ Default(part, t) = Result(TRUE, <<>>)
         /\ t.kind \in Udts => Default(part, t) = DefaultUdt(part, t)
         /\ t.kind = "struct" => Edits(part, t, v) = StructEdits(part, t, IF v.kind = "udt" THEN v ELSE DefaultUdt(part, t))
         /\ t.kind = "union" => Edits(part, t, v) = UnionEdits(part, t, IF v.kind = "udt" THEN v ELSE DefaultUdt(part, t))
         /\ t.kind = "enum" => Edits(part, t, v) = EnumEdits(t)
<1> DEFINE Kinds == {"bool", "void", "option", "result", "vec", "tuple", "map", "struct", "enum", "union"}
<1>1. \A k \in Kinds : k \notin Scalars
  BY DEF Scalars, Integers
<1>2. Udts = {"struct", "enum", "union"}
  BY DEF Udts
<1>3. /\ t.kind \in Scalars => Edits(part, t, v) = ScalarEdits
      /\ t.kind = "bool" => Edits(part, t, v) = BoolEdits
      /\ t.kind = "void" => Edits(part, t, v) = {}
      /\ t.kind = "vec" => Edits(part, t, v) = VecEdits(part, t, v)
      /\ t.kind = "tuple" => Edits(part, t, v) = TupleEdits(part, t, v)
      /\ t.kind = "map" => Edits(part, t, v) = MapEdits(part, t, v)
      /\ t.kind = "option" => Edits(part, t, v) = OptionEdits(part, t, v)
      /\ t.kind = "result" => Edits(part, t, v) = ResultEdits(part, t, v)
  BY <1>1, <1>2 DEF Edits
<1>4. /\ t.kind \in Scalars => Default(part, t) = Scalar("")
      /\ t.kind = "bool" => Default(part, t) = Boolean(FALSE)
      /\ t.kind = "void" => Default(part, t) = Scalar("")
      /\ t.kind = "vec" => Default(part, t) = List(<<>>)
      /\ t.kind = "map" => Default(part, t) = Map(<<>>)
      /\ t.kind = "tuple" => Default(part, t) = List([i \in DOMAIN t.elems |-> part[t.elems[i]].initial])
      /\ t.kind = "option" => Default(part, t) = Option(FALSE, <<>>)
      /\ t.kind = "result" => Default(part, t) = Result(TRUE, <<>>)
      /\ t.kind \in Udts => Default(part, t) = DefaultUdt(part, t)
  BY <1>1, <1>2 DEF Default
<1> DEFINE u == IF v.kind = "udt" THEN v ELSE DefaultUdt(part, t)
<1>5. t.kind \in Udts => Edits(part, t, v) = UdtEdits(part, t, u)
  BY <1>1, <1>2 DEF Edits
<1> HIDE DEF u
<1>6. /\ t.kind = "struct" => UdtEdits(part, t, u) = StructEdits(part, t, u)
      /\ t.kind = "union" => UdtEdits(part, t, u) = UnionEdits(part, t, u)
      /\ t.kind = "enum" => UdtEdits(part, t, u) = EnumEdits(t)
  BY DEF UdtEdits
<1> QED
  BY ONLY <1>2, <1>3, <1>4, <1>5, <1>6, ZenonT(60) DEF u

StaysAtLevel(t) == \A n \in 0..Nesting : Depth[t] <= n => Closed(Editor[t], ValuesTo[n])

\* What is left to show of one type: where it starts, and that it stays.
LEMMA FitsIf ==
  ASSUME NEW t \in Types, NEW n \in 0..Nesting,
         Default(Made(t), t) \in ValuesTo[n], \A v \in ValuesTo[n] : Edits(Made(t), t, v) \subseteq ValuesTo[n]
  PROVE  Closed(Editor[t], ValuesTo[n])
<1>1. \A v \in ValuesTo[n] : Editor[t].edits[v] = Edits(Made(t), t, v)
  BY EditorIs, LevelsTop
<1>2. Editor[t].initial = Default(Made(t), t)
  BY EditorIs
<1> QED
  BY ONLY <1>1, <1>2, Default(Made(t), t) \in ValuesTo[n], \A v \in ValuesTo[n] : Edits(Made(t), t, v) \subseteq ValuesTo[n] DEF Closed

\* The editors of the parts keep the level below that of the whole.
LEMMA PartsFit ==
  ASSUME NEW t \in Types, t.kind \in Complex, NEW n \in 0..Nesting, Depth[t] <= n, \A p \in Parts(t) : StaysAtLevel(p)
  PROVE  \A p \in Parts(t) : Closed(Made(t)[p], ValuesTo[n - 1])
<1> SUFFICES ASSUME NEW p \in Parts(t) PROVE Closed(Made(t)[p], ValuesTo[n - 1])
  OBVIOUS
<1>1. n - 1 \in 0..Nesting /\ Depth[p] <= n - 1
  BY PartFits
<1>2. Made(t)[p] = Editor[p]
  BY EditorIs
<1>3. StaysAtLevel(p)
  OBVIOUS
<1> QED
  BY <1>1, <1>2, <1>3 DEF StaysAtLevel

\* The controls of a type without parts keep every level of values.
LEMMA SimpleFits ==
  ASSUME NEW t \in Types, t.kind \in Scalars \cup {"bool", "void"}
  PROVE  StaysAtLevel(t)
<1> SUFFICES ASSUME NEW n \in 0..Nesting PROVE Closed(Editor[t], ValuesTo[n])
  BY DEF StaysAtLevel
<1>1. Default(Made(t), t) \in {Scalar(""), Boolean(FALSE)}
  BY EditsAre
<1>2. ASSUME NEW v PROVE Edits(Made(t), t, v) \subseteq ScalarEdits \cup BoolEdits
  BY EditsAre
<1>3. ScalarEdits \subseteq ValuesTo[n] /\ BoolEdits \subseteq ValuesTo[n]
  BY LeafFits DEF ScalarEdits, BoolEdits
<1>4. Scalar("") \in ValuesTo[n] /\ Boolean(FALSE) \in ValuesTo[n]
  BY LeafFits DEF Texts
<1>5. Default(Made(t), t) \in ValuesTo[n]
  BY <1>1, <1>4
<1>6. \A v \in ValuesTo[n] : Edits(Made(t), t, v) \subseteq ValuesTo[n]
  BY <1>2, <1>3
<1> QED
  BY <1>5, <1>6, FitsIf

\* The controls of a list keep every level that is deep enough for its type.
LEMMA VecFits ==
  ASSUME NEW t \in Types, t.kind = "vec", NEW n \in 0..Nesting, n > 0,
         \A p \in Parts(t) : Closed(Made(t)[p], ValuesTo[n - 1])
  PROVE  Closed(Editor[t], ValuesTo[n])
<1> DEFINE below == ValuesTo[n - 1]
<1>1. \A s \in Seq(below) : List(s) \in ValuesTo[n]
  BY TreeFits
<1>2. n - 1 \in 0..Nesting
  BY ArgumentFormAssumption
<1>3. \A text \in Texts : Scalar(text) \in below
  BY <1>2, LeafFits
<1>4. Closed(Made(t)[t.elem], below)
  BY TypeIs
<1>5. ASSUME NEW v \in ValuesTo[n] PROVE Edits(Made(t), t, v) \subseteq ValuesTo[n]
  <2>1. Items(v) \in Seq(below)
    BY ContentsFit
  <2> HIDE DEF below
  <2>2. ASSUME NEW e \in VecEdits(Made(t), t, v) PROVE e \in ValuesTo[n]
    <3>1. \E s \in Seq(below) : e = List(s)
      BY <1>3, <1>4, <2>1, VecEditsIn
    <3> QED
      BY <1>1, <3>1
  <2> QED
    BY <2>2, EditsAre
<1>6. Default(Made(t), t) \in ValuesTo[n]
  <2>1. <<>> \in Seq(below)
    OBVIOUS
  <2> QED
    BY <1>1, <2>1, EditsAre
<1> QED
  BY <1>5, <1>6, FitsIf

\* So do those of a tuple.
LEMMA TupleFits ==
  ASSUME NEW t \in Types, t.kind = "tuple", NEW n \in 0..Nesting, n > 0,
         \A p \in Parts(t) : Closed(Made(t)[p], ValuesTo[n - 1])
  PROVE  Closed(Editor[t], ValuesTo[n])
<1> DEFINE below == ValuesTo[n - 1]
<1>1. \A s \in Seq(below) : List(s) \in ValuesTo[n]
  BY TreeFits
<1>2. t.elems \in Seq(Types) /\ \A i \in DOMAIN t.elems : t.elems[i] \in Parts(t)
  BY TypeIs
<1>3. \A i \in DOMAIN t.elems : Closed(Made(t)[t.elems[i]], below)
  BY <1>2
<1>4. \A v \in ValuesTo[n] : Items(v) \in Seq(below)
  BY ContentsFit
<1> HIDE DEF below
<1>5. ASSUME NEW v \in ValuesTo[n] PROVE Edits(Made(t), t, v) \subseteq ValuesTo[n]
  <2> DEFINE m == Len(Items(v))
             T == [j \in 1..m \cup DOMAIN t.elems |-> below]
  <2>1. m \in Nat /\ TupleIn(v, m, T)
    BY <1>4 DEF TupleIn
  <2>2. TupleClosed(Made(t), t, T)
    BY <1>3 DEF TupleClosed
  <2>3. \A j \in 1..m : T[j] = below
    OBVIOUS
  <2> HIDE DEF m, T
  <2>4. ASSUME NEW e \in TupleEdits(Made(t), t, v) PROVE e \in ValuesTo[n]
    <3>1. PICK s : e = List(s) /\ s = [j \in 1..m |-> s[j]] /\ \A j \in 1..m : s[j] \in T[j]
      BY <2>1, <2>2, TupleEditsIn DEF TupleFrom
    <3>2. \A j \in 1..m : s[j] \in below
      BY <2>3, <3>1
    <3>3. s \in [1..m -> below]
      BY <3>1, <3>2
    <3>4. s \in Seq(below)
      BY <2>1, <3>3
    <3> QED
      BY <1>1, <3>1, <3>4
  <2> QED
    BY <2>4, EditsAre
<1>6. Default(Made(t), t) \in ValuesTo[n]
  <2> DEFINE s == [i \in DOMAIN t.elems |-> Made(t)[t.elems[i]].initial]
  <2>1. \A i \in DOMAIN t.elems : Made(t)[t.elems[i]].initial \in below
    BY <1>3 DEF Closed
  <2>2. s \in [1..Len(t.elems) -> below] /\ Len(t.elems) \in Nat
    BY <1>2, <2>1
  <2>3. s \in Seq(below)
    BY <2>2
  <2> QED
    BY <1>1, <2>3, EditsAre
<1> QED
  BY <1>5, <1>6, FitsIf

\* So do those of a map.
LEMMA MapFits ==
  ASSUME NEW t \in Types, t.kind = "map", NEW n \in 0..Nesting, n > 0,
         \A p \in Parts(t) : Closed(Made(t)[p], ValuesTo[n - 1])
  PROVE  Closed(Editor[t], ValuesTo[n])
<1> DEFINE below == ValuesTo[n - 1]
<1>1. \A s \in Seq([key : below, value : below]) : Map(s) \in ValuesTo[n]
  BY TreeFits
<1>2. Closed(Made(t)[t.key], below) /\ Closed(Made(t)[t.value], below)
  BY TypeIs
<1>3. \A v \in ValuesTo[n] : Rows(v) \in Seq([key : below, value : below])
  BY ContentsFit
<1> HIDE DEF below
<1>7. Closed(Made(t)[t.key], below)
  BY <1>2
<1>8. Closed(Made(t)[t.value], below)
  BY <1>2
<1>4. ASSUME NEW v \in ValuesTo[n] PROVE Edits(Made(t), t, v) \subseteq ValuesTo[n]
  <2>3. MapIn(v, below, below)
    BY <1>3 DEF MapIn
  <2>2. \A e \in MapEdits(Made(t), t, v) : MapOf(e, below, below)
    BY ONLY <1>7, <1>8, <2>3, MapEditsIn
  <2>1. \A e \in MapEdits(Made(t), t, v) : e \in ValuesTo[n]
    BY <1>1, <2>2 DEF MapOf
  <2> QED
    BY <2>1, EditsAre
<1>5. Default(Made(t), t) \in ValuesTo[n]
  <2>1. <<>> \in Seq([key : below, value : below])
    OBVIOUS
  <2> QED
    BY <1>1, <2>1, EditsAre
<1> QED
  BY <1>4, <1>5, FitsIf

\* So do those of an option.
LEMMA OptionFits ==
  ASSUME NEW t \in Types, t.kind = "option", NEW n \in 0..Nesting, n > 0,
         \A p \in Parts(t) : Closed(Made(t)[p], ValuesTo[n - 1])
  PROVE  Closed(Editor[t], ValuesTo[n])
<1> DEFINE below == ValuesTo[n - 1]
<1>1. \A b \in BOOLEAN, s \in Seq(below) : Option(b, s) \in ValuesTo[n]
  BY TreeFits
<1>2. Closed(Made(t)[t.inner], below)
  BY TypeIs
<1>3. \A v \in ValuesTo[n] : v.kind = "option" => v.value \in Seq(below)
  BY ContentsFit
<1> HIDE DEF below
<1>4. Option(FALSE, <<>>) \in ValuesTo[n]
  BY <1>1, <<>> \in Seq(below)
<1>5. ASSUME NEW v \in ValuesTo[n] PROVE Edits(Made(t), t, v) \subseteq ValuesTo[n]
  <2>2. OptionIn(v, below)
    BY <1>3 DEF OptionIn
  <2>3. \A e \in OptionEdits(Made(t), t, v) : OptionOf(e, below)
    BY ONLY <1>2, <2>2, OptionEditsIn
  <2>1. \A e \in OptionEdits(Made(t), t, v) : e \in ValuesTo[n]
    BY <1>1, <1>4, <2>3 DEF OptionOf
  <2> QED
    BY <2>1, EditsAre
<1>6. Default(Made(t), t) \in ValuesTo[n]
  BY <1>4, EditsAre
<1> QED
  BY <1>5, <1>6, FitsIf

\* So do those of a result, whichever side it is turned to.
LEMMA ResultFits ==
  ASSUME NEW t \in Types, t.kind = "result", NEW n \in 0..Nesting, n > 0,
         \A p \in Parts(t) : Closed(Made(t)[p], ValuesTo[n - 1])
  PROVE  Closed(Editor[t], ValuesTo[n])
<1> DEFINE below == ValuesTo[n - 1]
<1>1. \A b \in BOOLEAN, s \in Seq(below) : Result(b, s) \in ValuesTo[n]
  BY TreeFits
<1>2. \A b \in BOOLEAN : Closed(Made(t)[Side(t, b)], below)
  BY TypeIs DEF Side
<1>3. \A v \in ValuesTo[n] : v.kind = "result" => v.ok \in BOOLEAN /\ v.value \in Seq(below)
  BY ContentsFit
<1> HIDE DEF below
<1>4. Result(TRUE, <<>>) \in ValuesTo[n]
  BY <1>1, <<>> \in Seq(below)
<1>5. ASSUME NEW v \in ValuesTo[n] PROVE Edits(Made(t), t, v) \subseteq ValuesTo[n]
  <2> DEFINE r == IF v.kind = "result" THEN v ELSE Result(TRUE, <<>>)
  <2>3. r.ok \in BOOLEAN /\ r.value \in Seq(below)
    <3>1. CASE v.kind = "result"
      BY <1>3, <3>1
    <3>2. CASE v.kind # "result"
      BY <3>2, <<>> \in Seq(below) DEF Result
    <3> QED
      BY <3>1, <3>2
  <2>1. r.ok \in BOOLEAN /\ (~r.ok) \in BOOLEAN /\ r.value \in Seq(below)
    <3> HIDE DEF r
    <3> QED
      BY <2>3
  <2>2. ASSUME NEW e \in ResultEdits(Made(t), t, v) PROVE e \in ValuesTo[n]
    <3>1. \/ e = Result(~r.ok, IF r.value # <<>> THEN r.value ELSE <<Made(t)[Side(t, ~r.ok)].initial>>)
          \/ r.value # <<>> /\ \E next \in Made(t)[Side(t, r.ok)].edits[r.value[1]] : e = Result(r.ok, <<next>>)
      BY DEF ResultEdits
    <3> HIDE DEF r
    <3>2. CASE e = Result(~r.ok, IF r.value # <<>> THEN r.value ELSE <<Made(t)[Side(t, ~r.ok)].initial>>)
      <4>1. Made(t)[Side(t, ~r.ok)].initial \in below
        BY <1>2, <2>1 DEF Closed
      <4>2. (IF r.value # <<>> THEN r.value ELSE <<Made(t)[Side(t, ~r.ok)].initial>>) \in Seq(below)
        BY <2>1, <4>1
      <4> QED
        BY <1>1, <2>1, <3>2, <4>2
    <3>3. CASE r.value # <<>> /\ \E next \in Made(t)[Side(t, r.ok)].edits[r.value[1]] : e = Result(r.ok, <<next>>)
      <4>1. PICK next \in Made(t)[Side(t, r.ok)].edits[r.value[1]] : e = Result(r.ok, <<next>>)
        BY <3>3
      <4>2. r.value[1] \in below
        BY <2>1, <3>3
      <4>3. Closed(Made(t)[Side(t, r.ok)], below)
        BY <1>2, <2>1
      <4>4. next \in below
        BY <4>1, <4>2, <4>3 DEF Closed
      <4>5. <<next>> \in Seq(below)
        BY <4>4
      <4> QED
        BY <1>1, <2>1, <4>1, <4>5
    <3> QED
      BY <3>1, <3>2, <3>3
  <2> QED
    BY <2>2, EditsAre
<1>6. Default(Made(t), t) \in ValuesTo[n]
  BY <1>4, EditsAre
<1> QED
  BY <1>5, <1>6, FitsIf

\* The value that a type with fields starts with.
LEMMA DefaultUdtIs ==
  ASSUME NEW t \in Types, t.kind = "struct", NEW part
  PROVE  /\ DefaultUdt(part, t) = Udt("", DefaultUdt(part, t).fields)
         /\ DefaultUdt(part, t).fields = [x \in Names |-> DefaultUdt(part, t).fields[x]]
         /\ \A i \in DOMAIN t.fields : /\ t.fields[i].name \in Names
                                       /\ DefaultUdt(part, t).fields[t.fields[i].name] = part[t.fields[i].type].initial
         /\ \A x \in Names : \/ \E i \in DOMAIN t.fields : x = t.fields[i].name
                             \/ x \notin Declared(t.fields) /\ DefaultUdt(part, t).fields[x] = Undefined
<1> DEFINE f == [x \in Names |-> IF x \in Declared(t.fields) THEN part[Named(t.fields, x).type].initial ELSE Undefined]
<1>1. DefaultUdt(part, t) = Udt("", f)
  BY DEF DefaultUdt
<1>2. t.fields \in Seq(Fields)
  BY TypeIs
<1>3. \A i, j \in DOMAIN t.fields : t.fields[i].name = t.fields[j].name => i = j
  BY ArgumentFormAssumption DEF Distinct
<1>4. ASSUME NEW i \in DOMAIN t.fields
      PROVE  /\ t.fields[i].name \in Names /\ t.fields[i].name \in Declared(t.fields)
             /\ Named(t.fields, t.fields[i].name) = t.fields[i]
  <2>1. t.fields[i] \in Fields
    BY <1>2
  <2>2. t.fields[i].name \in Names
    BY <2>1 DEF Fields
  <2>3. t.fields[i].name \in Declared(t.fields)
    BY DEF Declared
  <2> DEFINE w == Named(t.fields, t.fields[i].name)
  <2>4. w \in {t.fields[j] : j \in DOMAIN t.fields} /\ w.name = t.fields[i].name
    BY DEF Named
  <2>5. w = t.fields[i]
    BY <1>3, <2>4
  <2> QED
    BY <2>2, <2>3, <2>5
<1>5. f = [x \in Names |-> f[x]]
  OBVIOUS
<1>6. \A x \in Names : x \in Declared(t.fields) => \E i \in DOMAIN t.fields : x = t.fields[i].name
  BY DEF Declared
<1>7. \A x \in Names : x \notin Declared(t.fields) => f[x] = Undefined
  OBVIOUS
<1>8. \A i \in DOMAIN t.fields : f[t.fields[i].name] = part[t.fields[i].type].initial
  BY <1>4
<1> HIDE DEF f
<1>9. Udt("", f).fields = f
  BY DEF Udt
<1> QED
  BY <1>1, <1>4, <1>5, <1>6, <1>7, <1>8, <1>9

\* So do those of a struct.
LEMMA StructFits ==
  ASSUME NEW t \in Types, t.kind = "struct", NEW n \in 0..Nesting, n > 0,
         \A p \in Parts(t) : Closed(Made(t)[p], ValuesTo[n - 1])
  PROVE  Closed(Editor[t], ValuesTo[n])
<1> DEFINE below == ValuesTo[n - 1]
           start == DefaultUdt(Made(t), t)
<1>1. \A x \in Names \cup {""}, f \in [Names -> below] : Udt(x, f) \in ValuesTo[n]
  BY TreeFits
<1>2. \A i \in DOMAIN t.fields : t.fields[i].name \in Names /\ Closed(Made(t)[t.fields[i].type], below)
  BY TypeIs, DefaultUdtIs
<1>3. \A v \in ValuesTo[n] : v.kind = "udt" => v.fields \in [Names -> below]
  BY ContentsFit
<1>4. Undefined \in below
  <2>1. n - 1 \in 0..Nesting
    BY ArgumentFormAssumption
  <2> QED
    BY <2>1, LeafFits
<1> HIDE DEF below
<1>5. start.fields \in [Names -> below]
  <2>2. start.fields = [x \in Names |-> start.fields[x]]
    BY DefaultUdtIs
  <2>3. ASSUME NEW x \in Names PROVE start.fields[x] \in below
    <3>1. CASE \E i \in DOMAIN t.fields : x = t.fields[i].name
      <4>1. PICK i \in DOMAIN t.fields : x = t.fields[i].name
        BY <3>1
      <4>2. start.fields[x] = Made(t)[t.fields[i].type].initial
        BY <4>1, DefaultUdtIs, ZenonT(60)
      <4> QED
        BY <1>2, <4>2 DEF Closed
    <3>2. CASE start.fields[x] = Undefined
      BY <1>4, <3>2
    <3> QED
      BY <3>1, <3>2, DefaultUdtIs, ZenonT(60)
  <2> QED
    BY ONLY <2>2, <2>3
<1>6. start \in ValuesTo[n]
  <2>1. start = Udt("", start.fields)
    BY DefaultUdtIs
  <2> HIDE DEF start
  <2> QED
    BY <1>1, <1>5, <2>1
<1> HIDE DEF start
<1>7. ASSUME NEW v \in ValuesTo[n] PROVE Edits(Made(t), t, v) \subseteq ValuesTo[n]
  <2> DEFINE u == IF v.kind = "udt" THEN v ELSE start
             F == [x \in Names |-> below]
  <2>1. u.fields \in [Names -> below]
    BY <1>3, <1>5
  <2> HIDE DEF u
  <2>2. StructIn(u, F)
    BY <2>1 DEF FieldsIn, StructIn
  <2>3. FieldsClosed(Made(t), t, F)
    BY <1>2 DEF FieldsClosed
  <2>4. \A x \in Names : F[x] = below
    OBVIOUS
  <2> HIDE DEF F
  <2>7. \A e \in StructEdits(Made(t), t, u) : StructOf(e, F)
    BY ONLY <2>2, <2>3, StructEditsIn
  <2>5. ASSUME NEW e \in StructEdits(Made(t), t, u) PROVE e \in ValuesTo[n]
    <3>1. PICK f : e = Udt("", f) /\ FieldsIn(f, F)
      BY <2>7 DEF StructOf
    <3>2. f \in [Names -> below]
      BY <2>4, <3>1 DEF FieldsIn
    <3> QED
      BY <1>1, <3>1, <3>2
  <2>6. Edits(Made(t), t, v) = StructEdits(Made(t), t, u)
    BY EditsAre DEF u, start
  <2> QED
    BY <2>5, <2>6
<1>8. Default(Made(t), t) = start
  BY EditsAre DEF start, Udts
<1> QED
  BY <1>6, <1>7, <1>8, FitsIf

\* A variant that is chosen starts as its type does.
LEMMA ChosenIs ==
  ASSUME NEW part, NEW w \in Variants
  PROVE  /\ Chosen(part, w) = Udt(w.name, Chosen(part, w).fields)
         /\ Chosen(part, w).fields = [x \in Names |-> Chosen(part, w).fields[x]]
         /\ \A x \in Names : Chosen(part, w).fields[x] \in
              IF w.type # <<>> THEN {Undefined, part[w.type[1]].initial} ELSE {Undefined}
         /\ w.type # <<>> => Chosen(part, w).fields[w.name] = part[w.type[1]].initial
<1> DEFINE f == [x \in Names |-> IF x = w.name /\ w.type # <<>> THEN part[w.type[1]].initial ELSE Undefined]
<1>1. Chosen(part, w) = Udt(w.name, f)
  BY DEF Chosen
<1>2. w.name \in Names
  BY DEF Variants
<1>3. f = [x \in Names |-> f[x]]
  OBVIOUS
<1>4. \A x \in Names : f[x] \in IF w.type # <<>> THEN {Undefined, part[w.type[1]].initial} ELSE {Undefined}
  OBVIOUS
<1>5. w.type # <<>> => f[w.name] = part[w.type[1]].initial
  BY <1>2
<1> HIDE DEF f
<1>6. Udt(w.name, f).fields = f
  BY DEF Udt
<1> QED
  BY <1>1, <1>3, <1>4, <1>5, <1>6

\* So do those of a union, when a variant is chosen and when its field is edited.
LEMMA UnionFits ==
  ASSUME NEW t \in Types, t.kind = "union", NEW n \in 0..Nesting, n > 0,
         \A p \in Parts(t) : Closed(Made(t)[p], ValuesTo[n - 1])
  PROVE  Closed(Editor[t], ValuesTo[n])
<1> DEFINE below == ValuesTo[n - 1]
           start == DefaultUdt(Made(t), t)
           first == t.variants[1]
           Known(w) == w \in Variants /\ (w.type # <<>> => w.type[1] \in Parts(t))
<1>1. \A x \in Names \cup {""}, f \in [Names -> below] : Udt(x, f) \in ValuesTo[n]
  BY TreeFits
<1>2. Undefined \in below
  <2>1. n - 1 \in 0..Nesting
    BY ArgumentFormAssumption
  <2> QED
    BY <2>1, LeafFits
<1>3. \A p \in Parts(t) : Closed(Made(t)[p], below)
  OBVIOUS
<1>4. \A v \in ValuesTo[n] : v.kind = "udt" => v.fields \in [Names -> below]
  BY ContentsFit
<1> HIDE DEF below
<1>5. ASSUME NEW w, Known(w)
      PROVE  Chosen(Made(t), w) \in ValuesTo[n] /\ Chosen(Made(t), w).fields \in [Names -> below]
  <2> DEFINE f == Chosen(Made(t), w).fields
  <2>1. w \in Variants /\ w.name \in Names
    BY <1>5 DEF Variants
  <2>2. w.type # <<>> => Made(t)[w.type[1]].initial \in below
    BY <1>3, <1>5 DEF Closed
  <2>3. \A x \in Names : Chosen(Made(t), w).fields[x] \in below
    BY <1>2, <2>1, <2>2, ChosenIs
  <2>4. f = [x \in Names |-> f[x]]
    BY <2>1, ChosenIs
  <2>5. Chosen(Made(t), w) = Udt(w.name, f)
    BY <2>1, ChosenIs
  <2> HIDE DEF f
  <2>6. f \in [Names -> below]
    BY ONLY <2>3, <2>4 DEF f
  <2> QED
    BY <1>1, <2>1, <2>5, <2>6 DEF f
<1>6. Known(first)
  BY FirstVariantIs
<1>7. start = Chosen(Made(t), first)
  BY DEF DefaultUdt
<1>8. \A x \in Declared(t.variants) : Known(Named(t.variants, x))
  BY VariantIs
<1>9. start \in ValuesTo[n] /\ start.fields \in [Names -> below]
  BY <1>5, <1>6, <1>7
<1> HIDE DEF start
<1>10. ASSUME NEW v \in ValuesTo[n] PROVE Edits(Made(t), t, v) \subseteq ValuesTo[n]
  <2> DEFINE u == IF v.kind = "udt" THEN v ELSE start
             w == IF u.variant \in Declared(t.variants) THEN Named(t.variants, u.variant) ELSE first
  <2>1. u.fields \in [Names -> below]
    BY <1>4, <1>9
  <2>2. Known(w)
    BY <1>6, <1>8
  <2>3. ASSUME NEW e \in UnionEdits(Made(t), t, u) PROVE e \in ValuesTo[n]
    <3>1. \/ \E x \in Declared(t.variants) : e = Chosen(Made(t), Named(t.variants, x))
          \/ w.type # <<>> /\ \E next \in Made(t)[w.type[1]].edits[FieldShown(Made(t), u, w.name, w.type[1])] :
                                 e = Udt(w.name, [u.fields EXCEPT ![w.name] = next])
      BY DEF UnionEdits
    <3> HIDE DEF u, w, Known
    <3>2. CASE \E x \in Declared(t.variants) : e = Chosen(Made(t), Named(t.variants, x))
      BY <1>5, <1>8, <3>2
    <3>3. CASE w.type # <<>> /\ \E next \in Made(t)[w.type[1]].edits[FieldShown(Made(t), u, w.name, w.type[1])] :
                                   e = Udt(w.name, [u.fields EXCEPT ![w.name] = next])
      <4>1. PICK next \in Made(t)[w.type[1]].edits[FieldShown(Made(t), u, w.name, w.type[1])] :
              e = Udt(w.name, [u.fields EXCEPT ![w.name] = next])
        BY <3>3
      <4>2. w.name \in Names /\ Closed(Made(t)[w.type[1]], below)
        BY <1>3, <2>2, <3>3 DEF Known, Variants
      <4>3. FieldShown(Made(t), u, w.name, w.type[1]) \in below
        BY <2>1, <4>2 DEF FieldShown, Closed
      <4>4. next \in below
        BY <4>1, <4>2, <4>3 DEF Closed
      <4>5. [u.fields EXCEPT ![w.name] = next] \in [Names -> below]
        BY <2>1, <4>2, <4>4
      <4> QED
        BY <1>1, <4>1, <4>2, <4>5
    <3> QED
      BY <3>1, <3>2, <3>3
  <2>4. Edits(Made(t), t, v) = UnionEdits(Made(t), t, u)
    BY EditsAre DEF start
  <2> QED
    BY <2>3, <2>4
<1>11. Default(Made(t), t) = start
  BY EditsAre DEF start, Udts
<1> QED
  BY <1>9, <1>10, <1>11, FitsIf

\* So do those of an enum.
LEMMA EnumFits ==
  ASSUME NEW t \in Types, t.kind = "enum", NEW n \in 0..Nesting, n > 0
  PROVE  Closed(Editor[t], ValuesTo[n])
<1>1. NoFields \in [Names -> ValuesTo[n - 1]]
  <2>1. n - 1 \in 0..Nesting
    BY ArgumentFormAssumption
  <2>2. Undefined \in ValuesTo[n - 1]
    BY <2>1, LeafFits
  <2> QED
    BY <2>2 DEF NoFields
<1>2. \A x \in Names : Udt(x, NoFields) \in ValuesTo[n]
  BY <1>1, TreeFits
<1>3. \A x \in Declared(t.variants) : x \in Names
  <2>1. \A x \in Declared(t.variants) : Named(t.variants, x) \in Variants /\ Named(t.variants, x).name = x
    BY VariantIs
  <2> QED
    BY <2>1 DEF Variants
<1>4. EnumEdits(t) \subseteq ValuesTo[n]
  BY <1>2, <1>3 DEF EnumEdits
<1>5. DefaultUdt(Made(t), t) \in ValuesTo[n]
  <2>1. t.variants[1].name \in Declared(t.variants)
    BY FirstVariantIs
  <2> QED
    BY <1>2, <1>3, <2>1 DEF DefaultUdt
<1>6. Default(Made(t), t) \in ValuesTo[n]
  BY <1>5, EditsAre DEF Udts
<1>7. \A v \in ValuesTo[n] : Edits(Made(t), t, v) \subseteq ValuesTo[n]
  BY <1>4, EditsAre
<1> QED
  BY <1>6, <1>7, FitsIf

\* So do those of every type, by induction on how deep it nests.
LEMMA AllFit == \A t \in Types : StaysAtLevel(t)
<1> DEFINE S == {t \in Types : StaysAtLevel(t)}
<1>1. ASSUME NEW t \in Types, Parts(t) \subseteq S PROVE StaysAtLevel(t)
  <2>1. \A p \in Parts(t) : StaysAtLevel(p)
    BY <1>1
  <2>2. CASE t.kind \in Scalars \cup {"bool", "void"}
    BY <2>2, SimpleFits
  <2>3. CASE t.kind \in Complex
    <3> SUFFICES ASSUME NEW n \in 0..Nesting, Depth[t] <= n PROVE Closed(Editor[t], ValuesTo[n])
      BY DEF StaysAtLevel
    <3>1. n > 0
      BY <2>3, PartFits
    <3>2. \A p \in Parts(t) : Closed(Made(t)[p], ValuesTo[n - 1])
      BY <2>1, <2>3, PartsFit
    <3> HIDE DEF S
    <3> QED
      BY <2>3, <3>1, <3>2, VecFits, TupleFits, MapFits, OptionFits, ResultFits, StructFits, UnionFits, EnumFits DEF Complex, Udts
  <2> QED
    BY <2>2, <2>3, TypeIs
<1>2. \A t \in Types : Parts(t) \subseteq S => t \in S
  BY <1>1
<1> HIDE DEF S
<1>3. Types \subseteq S
  BY <1>2, TypeInduction
<1> QED
  BY <1>3 DEF S

-----------------------------------------------------------------------------
(* What validates is sent in the form of its type                          *)

\* The kinds of types are told apart.
LEMMA KindsDiffer ==
  /\ \A k \in {"bool", "void", "option", "result", "vec", "tuple", "map", "struct", "enum", "union"} : k \notin Scalars
  /\ Udts = {"struct", "enum", "union"}
BY DEF Scalars, Integers, Udts

\* The verdicts on the parts of a value.
VecVerdicts(part, t, v) == [i \in DOMAIN v.items |-> part[t.elem].verdict[v.items[i]]]
TupleVerdicts(part, t, v) == [i \in DOMAIN t.elems |-> part[t.elems[i]].verdict[Item(v.items, i)]]
RowVerdicts(part, t, r) == <<part[t.key].verdict[r.key], part[t.value].verdict[r.value]>>
MapVerdicts(part, t, v) == [i \in DOMAIN v.rows |-> FirstWrong(RowVerdicts(part, t, v.rows[i]))]
StructVerdicts(part, t, v) == [i \in DOMAIN t.fields |-> part[t.fields[i].type].verdict[v.fields[t.fields[i].name]]]

\* What the verdict is, for each kind of type.
LEMMA ValidateIs ==
  ASSUME NEW part, NEW t, NEW v
  PROVE  LET Verdict == Validate(part, t, v) IN
         /\ t.kind = "void" => Verdict = "fine"
         /\ t.kind # "void" /\ v.kind = "undefined" => Verdict = "crash"
         /\ v.kind # "undefined" =>
              /\ t.kind \in Scalars => Verdict = Fine(v.kind = "scalar" /\ v.text \in Admitted(t.kind))
              /\ t.kind = "bool" => Verdict = Fine(v.kind = "bool")
              /\ t.kind = "option" => Verdict = IF v.kind # "option" THEN "error"
                                                ELSE IF ~v.some THEN "fine"
                                                ELSE IF v.value = <<>> THEN "error" ELSE part[t.inner].verdict[v.value[1]]
              /\ t.kind = "result" => Verdict = IF v.kind # "result" THEN "error"
                                                ELSE IF v.value = <<>> THEN "error"
                                                ELSE part[Side(t, v.ok)].verdict[v.value[1]]
              /\ t.kind = "vec" => Verdict = IF v.kind # "list" THEN "error"
                                             ELSE FirstWrong(VecVerdicts(part, t, v))
              /\ t.kind = "tuple" => Verdict = IF v.kind # "list" THEN "error"
                                               ELSE FirstWrong(TupleVerdicts(part, t, v))
              /\ t.kind = "map" => Verdict = IF v.kind # "map" THEN "error"
                                             ELSE FirstWrong(MapVerdicts(part, t, v))
              /\ t.kind \in Udts /\ v.kind # "udt" => Verdict = "error"
              /\ t.kind = "struct" /\ v.kind = "udt" =>
                   Verdict = FirstWrong(StructVerdicts(part, t, v))
              /\ t.kind = "enum" /\ v.kind = "udt" => Verdict = Fine(v.variant \in Declared(t.variants))
              /\ t.kind = "union" /\ v.kind = "udt" =>
                   Verdict = IF v.variant \notin Declared(t.variants) THEN "error"
                             ELSE IF Named(t.variants, v.variant).type = <<>> THEN "fine"
                             ELSE IF v.fields[v.variant] = Undefined THEN "error"
                             ELSE part[Named(t.variants, v.variant).type[1]].verdict[v.fields[v.variant]]
<1>1. CASE t.kind = "void"
  BY <1>1, KindsDiffer DEF Validate
<1>2. CASE t.kind # "void" /\ v.kind = "undefined"
  BY <1>2 DEF Validate
<1>3. CASE t.kind # "void" /\ v.kind # "undefined"
  <2>1. CASE t.kind \in Scalars \cup {"bool", "option", "result", "vec", "tuple", "map"}
    BY <1>3, <2>1, KindsDiffer DEF Validate, VecVerdicts, TupleVerdicts, MapVerdicts, RowVerdicts
  <2>2. CASE t.kind \in Udts
    BY <1>3, <2>2, KindsDiffer DEF Validate, StructVerdicts
  <2> QED
    BY <1>3, <2>1, <2>2, KindsDiffer
<1> QED
  BY <1>1, <1>2, <1>3

\* The verdict on a map in the editor of one.
LEMMA MapVerdict ==
  ASSUME NEW part, NEW t, NEW v, t.kind = "map", v.kind = "map"
  PROVE  Validate(part, t, v) = FirstWrong(MapVerdicts(part, t, v))
<1>1. v.kind # "undefined"
  OBVIOUS
<1>2. Validate(part, t, v) = IF v.kind # "map" THEN "error" ELSE FirstWrong(MapVerdicts(part, t, v))
  BY <1>1, ValidateIs, SMTT(40)
<1> QED
  BY <1>2

\* What is fine in an editor, of the values V, is sent in a form of F that is of the type.
SoundOn(editor, V, F) ==
    \A v \in V : editor.verdict[v] = "fine" => editor.canonical[v] \in F /\ editor.inhabits[editor.canonical[v]]

\* What is left to show of one type.
SentAs(part, t, v, F) == Canonical(part, t, v) \in F /\ Inhabits(part, t, Canonical(part, t, v))

\* The simple forms are of every level, and a form made of forms is one level above them.
LEMMA FormFits ==
  ASSUME NEW n \in 0..Nesting
  PROVE  /\ FormLeaves \subseteq FormsTo[n]
         /\ n > 0 => FormTrees(FormsTo[n - 1]) \subseteq FormsTo[n] /\ FormsTo[n - 1] \subseteq FormsTo[n]
<1>1. FormsTo[n] = IF n = 0 THEN FormLeaves ELSE FormLeaves \cup FormTrees(FormsTo[n - 1])
  BY LevelsAre
<1>2. n > 0 => FormsTo[n - 1] \subseteq FormsTo[n]
  BY LevelsGrow
<1>3. n > 0 => n # 0
  OBVIOUS
<1> QED
  BY ONLY <1>1, <1>2, <1>3

\* A text that its scalar type admits is sent as one.
LEMMA ScalarSound ==
  ASSUME NEW part, NEW t, t.kind \in Scalars, NEW n \in 0..Nesting, NEW v \in ValuesTo[n], Validate(part, t, v) = "fine"
  PROVE  SentAs(part, t, v, FormLeaves)
<1>1. v.kind = "scalar" /\ v.text \in Admitted(t.kind) /\ v.text \in Texts
  BY KindsDiffer, ValidateIs, ValueIs, ZenonT(60) DEF Fine
<1> DEFINE c == [is |-> Tag(t.kind), text |-> v.text]
<1>2. Canonical(part, t, v) = c
  BY KindsDiffer DEF Canonical
<1>3. Inhabits(part, t, c) = (c \in [is : {Tag(t.kind)}, text : Admitted(t.kind)])
  BY KindsDiffer DEF Inhabits
<1>4. Tag(t.kind) \in Scalars
  BY DEF Tag, Scalars
<1>5. c \in FormLeaves
  BY <1>1, <1>4 DEF FormLeaves
<1>6. c \in [is : {Tag(t.kind)}, text : Admitted(t.kind)]
  BY <1>1
<1> QED
  BY <1>2, <1>3, <1>5, <1>6 DEF SentAs

\* A boolean is sent as one.
LEMMA BoolSound ==
  ASSUME NEW part, NEW t, t.kind = "bool", NEW n \in 0..Nesting, NEW v \in ValuesTo[n], Validate(part, t, v) = "fine"
  PROVE  SentAs(part, t, v, FormLeaves)
<1>1. v.kind = "bool" /\ v.value \in BOOLEAN
  BY KindsDiffer, ValidateIs, ValueIs, ZenonT(60) DEF Fine
<1> DEFINE c == [is |-> "bool", value |-> v.value]
<1>2. Canonical(part, t, v) = c
  BY KindsDiffer DEF Canonical
<1>3. Inhabits(part, t, c) = (c \in [is : {"bool"}, value : BOOLEAN])
  BY KindsDiffer DEF Inhabits
<1>4. c \in [is : {"bool"}, value : BOOLEAN]
  BY <1>1
<1> HIDE DEF c
<1> QED
  BY <1>2, <1>3, <1>4 DEF SentAs, FormLeaves

\* Nothing is sent as void.
LEMMA VoidSound ==
  ASSUME NEW part, NEW t, t.kind = "void", NEW v
  PROVE  SentAs(part, t, v, FormLeaves)
<1> DEFINE c == [is |-> "void"]
<1>1. Canonical(part, t, v) = c
  BY KindsDiffer DEF Canonical
<1>2. Inhabits(part, t, c)
  BY KindsDiffer DEF Inhabits
<1>3. c \in FormLeaves
  BY DEF FormLeaves
<1> QED
  BY <1>1, <1>2, <1>3 DEF SentAs

\* A list whose elements are fine is sent as a vector of their forms.
LEMMA VecSound ==
  ASSUME NEW part, NEW t, t.kind = "vec", NEW V, NEW F, SoundOn(part[t.elem], V, F),
         NEW v, v.kind = "list", v.items \in Seq(V), Validate(part, t, v) = "fine"
  PROVE  SentAs(part, t, v, FormTrees(F))
<1> DEFINE m == Len(v.items)
           verdicts == VecVerdicts(part, t, v)
           s == [i \in 1..m |-> part[t.elem].canonical[v.items[i]]]
<1>1. m \in Nat /\ DOMAIN v.items = 1..m /\ \A i \in 1..m : v.items[i] \in V
  OBVIOUS
<1>2. FirstWrong(verdicts) = "fine"
  BY ValidateIs
<1>3. \A i \in 1..m : verdicts[i] = "fine"
  <2>1. DOMAIN verdicts = 1..m
    BY <1>1 DEF VecVerdicts
  <2> HIDE DEF verdicts, m
  <2> QED
    BY <1>1, <1>2, <2>1, FirstWrongIs
<1>4. \A i \in 1..m : s[i] \in F /\ part[t.elem].inhabits[s[i]]
  BY <1>1, <1>3 DEF SoundOn, VecVerdicts
<1>5. Canonical(part, t, v) = Vec(s)
  BY <1>1, KindsDiffer DEF Canonical
<1>6. DOMAIN s = 1..m
  OBVIOUS
<1>7. s \in [1..m -> F]
  BY <1>4
<1> HIDE DEF m, s, verdicts
<1>8. s \in Seq(F)
  BY <1>1, <1>7
<1>9. Inhabits(part, t, Vec(s)) = (\A i \in 1..m : part[t.elem].inhabits[s[i]])
  BY <1>6, KindsDiffer DEF Inhabits, Vec
<1>10. Vec(s) \in FormTrees(F)
  BY <1>8 DEF FormTrees, Vec
<1> QED
  BY <1>4, <1>5, <1>9, <1>10 DEF SentAs

\* A tuple whose items are fine is sent as a vector of as many.
LEMMA TupleSound ==
  ASSUME NEW part, NEW t \in Types, t.kind = "tuple", NEW V, NEW F, \A i \in DOMAIN t.elems : SoundOn(part[t.elems[i]], V, F),
         Undefined \in V, NEW v, v.kind = "list", v.items \in Seq(V), Validate(part, t, v) = "fine"
  PROVE  SentAs(part, t, v, FormTrees(F))
<1> DEFINE m == Len(t.elems)
           verdicts == TupleVerdicts(part, t, v)
           s == [i \in 1..m |-> part[t.elems[i]].canonical[Item(v.items, i)]]
<1>1. t.elems \in Seq(Types)
  BY TypeIs
<1>2. m \in Nat /\ DOMAIN t.elems = 1..m
  BY <1>1
<1>3. \A i : Item(v.items, i) \in V
  BY DEF Item
<1>4. FirstWrong(verdicts) = "fine"
  BY ValidateIs
<1>5. \A i \in 1..m : verdicts[i] = "fine"
  <2>1. DOMAIN verdicts = 1..m
    BY <1>2 DEF TupleVerdicts
  <2> HIDE DEF verdicts, m
  <2> QED
    BY <1>2, <1>4, <2>1, FirstWrongIs
<1>6. \A i \in 1..m : s[i] \in F /\ part[t.elems[i]].inhabits[s[i]]
  BY <1>2, <1>3, <1>5 DEF SoundOn, TupleVerdicts
<1>7. Canonical(part, t, v) = Vec(s)
  BY <1>2, KindsDiffer DEF Canonical
<1>8. s \in [1..m -> F]
  BY <1>6
<1> HIDE DEF m, s, verdicts
<1>9. s \in Seq(F) /\ Len(s) = m
  BY <1>2, <1>8
<1>10. Vec(s) \in FormTrees(F)
  BY <1>9 DEF FormTrees, Vec
<1>11. Inhabits(part, t, Vec(s)) = (Len(s) = Len(t.elems) /\ \A i \in DOMAIN t.elems : part[t.elems[i]].inhabits[s[i]])
  BY KindsDiffer DEF Inhabits, Vec
<1>12. Len(t.elems) = m
  BY DEF m
<1> QED
  BY ONLY <1>2, <1>6, <1>7, <1>9, <1>10, <1>11, <1>12 DEF SentAs

\* A map whose rows are fine is sent as a map of their forms.
LEMMA MapSound ==
  ASSUME NEW part, NEW t, t.kind = "map", NEW V, NEW F, SoundOn(part[t.key], V, F), SoundOn(part[t.value], V, F),
         NEW v, v.kind = "map", v.rows \in Seq([key : V, value : V]), Validate(part, t, v) = "fine"
  PROVE  SentAs(part, t, v, FormTrees(F))
<1> DEFINE m == Len(v.rows)
           Pair(i) == RowVerdicts(part, t, v.rows[i])
           verdicts == MapVerdicts(part, t, v)
           s == [i \in 1..m |-> [key |-> part[t.key].canonical[v.rows[i].key], val |-> part[t.value].canonical[v.rows[i].value]]]
<1>1. m \in Nat /\ DOMAIN v.rows = 1..m
  OBVIOUS
<1>2. ASSUME NEW i \in 1..m PROVE v.rows[i].key \in V /\ v.rows[i].value \in V
  <2>1. v.rows[i] \in [key : V, value : V]
    BY <1>1, SequenceEdits
  <2> QED
    BY <2>1
<1>3. FirstWrong(verdicts) = "fine"
  BY ValidateIs, SMTT(40)
<1>4. \A i \in 1..m : FirstWrong(Pair(i)) = "fine"
  <2>1. DOMAIN verdicts = 1..m
    BY <1>1 DEF MapVerdicts
  <2>2. \A i \in 1..m : verdicts[i] = FirstWrong(Pair(i))
    BY <1>1 DEF MapVerdicts
  <2> HIDE DEF verdicts, m, Pair
  <2> QED
    BY <1>1, <1>3, <2>1, <2>2, FirstWrongIs
<1>5. ASSUME NEW i \in 1..m
      PROVE part[t.key].verdict[v.rows[i].key] = "fine" /\ part[t.value].verdict[v.rows[i].value] = "fine"
  <2>1. DOMAIN Pair(i) = 1..2
    BY DEF RowVerdicts
  <2>2. FirstWrong(Pair(i)) = "fine"
    BY <1>4
  <2>3. Pair(i)[1] = part[t.key].verdict[v.rows[i].key] /\ Pair(i)[2] = part[t.value].verdict[v.rows[i].value]
    BY DEF RowVerdicts
  <2> HIDE DEF Pair, m
  <2>4. \A j \in 1..2 : Pair(i)[j] = "fine"
    BY ONLY <2>1, <2>2, FirstWrongIs, 2 \in Nat
  <2> QED
    BY <2>3, <2>4
<1>6. ASSUME NEW i \in 1..m
      PROVE  /\ s[i] \in [key : F, val : F]
             /\ part[t.key].inhabits[s[i].key] /\ part[t.value].inhabits[s[i].val]
  BY <1>2, <1>5 DEF SoundOn
<1>7. Canonical(part, t, v) = [is |-> "map", rows |-> s]
  BY <1>1, KindsDiffer DEF Canonical
<1>8. s \in [1..m -> [key : F, val : F]] /\ DOMAIN s = 1..m
  BY <1>6
<1> HIDE DEF m, s, verdicts, Pair
<1>9. s \in Seq([key : F, val : F])
  <2> DEFINE R == [key : F, val : F]
  <2>1. s \in [1..m -> R]
    BY <1>8
  <2> HIDE DEF R
  <2>2. s \in Seq(R)
    BY <1>1, <2>1
  <2> QED
    BY <2>2 DEF R
<1>10. [is |-> "map", rows |-> s] \in FormTrees(F)
  BY <1>9 DEF FormTrees
<1>11. Inhabits(part, t, [is |-> "map", rows |-> s])
         = (\A i \in DOMAIN s : part[t.key].inhabits[s[i].key] /\ part[t.value].inhabits[s[i].val])
  BY KindsDiffer DEF Inhabits
<1> QED
  BY <1>6, <1>7, <1>8, <1>10, <1>11 DEF SentAs

\* An option that is fine is sent as what it holds, or as an empty vector.
LEMMA OptionSound ==
  ASSUME NEW part, NEW t, t.kind = "option", NEW V, NEW F, SoundOn(part[t.inner], V, F),
         NEW v, v.kind = "option", v.value \in Seq(V), Validate(part, t, v) = "fine"
  PROVE  SentAs(part, t, v, F \cup FormTrees(F))
<1>1. CASE v.some
  <2> DEFINE c == part[t.inner].canonical[v.value[1]]
  <2>1. v.value # <<>> /\ part[t.inner].verdict[v.value[1]] = "fine"
    BY <1>1, KindsDiffer, ValidateIs
  <2>2. v.value[1] \in V
    BY <2>1
  <2>3. c \in F /\ part[t.inner].inhabits[c]
    BY <2>1, <2>2 DEF SoundOn
  <2>4. Canonical(part, t, v) = c
    BY <1>1, KindsDiffer DEF Canonical
  <2> HIDE DEF c
  <2>5. Inhabits(part, t, c)
    BY <2>3, KindsDiffer DEF Inhabits
  <2> QED
    BY <2>3, <2>4, <2>5 DEF SentAs
<1>2. CASE ~v.some
  <2>1. Canonical(part, t, v) = Vec(<<>>)
    BY <1>2, KindsDiffer DEF Canonical
  <2>2. Inhabits(part, t, Vec(<<>>))
    BY KindsDiffer DEF Inhabits
  <2>3. Vec(<<>>) \in FormTrees(F)
    BY <<>> \in Seq(F) DEF FormTrees, Vec
  <2> QED
    BY <2>1, <2>2, <2>3 DEF SentAs
<1> QED
  BY <1>1, <1>2

\* A result that is fine is sent as its side and what that holds.
LEMMA ResultSound ==
  ASSUME NEW part, NEW t, t.kind = "result", NEW V, NEW F, SoundOn(part[t.ok], V, F), SoundOn(part[t.err], V, F),
         FormLeaves \subseteq F, NEW v, v.kind = "result", v.ok \in BOOLEAN, v.value \in Seq(V), Validate(part, t, v) = "fine"
  PROVE  SentAs(part, t, v, FormTrees(F))
<1> DEFINE p == Side(t, v.ok)
           c == part[p].canonical[v.value[1]]
           s == <<Symbol(IF v.ok THEN "Ok" ELSE "Err"), c>>
<1>1. v.value # <<>> /\ part[p].verdict[v.value[1]] = "fine"
  BY KindsDiffer, ValidateIs, SMTT(40)
<1>2. v.value[1] \in V
  BY <1>1
<1>3. SoundOn(part[p], V, F)
  BY DEF Side
<1>4. c \in F /\ part[p].inhabits[c]
  BY <1>1, <1>2, <1>3 DEF SoundOn
<1>5. Canonical(part, t, v) = Vec(s)
  BY KindsDiffer DEF Canonical
<1>6. IF v.ok THEN part[t.ok].inhabits[c] ELSE part[t.err].inhabits[c]
  BY <1>4 DEF Side
<1> HIDE DEF p, c
<1>7. Symbol("Ok") \in F /\ Symbol("Err") \in F
  BY DEF FormLeaves, Symbol
<1>8. s \in Seq(F)
  BY <1>4, <1>7
<1>9. Vec(s) \in FormTrees(F)
  BY <1>8 DEF FormTrees, Vec
<1>10. Len(s) = 2 /\ s[1] = Symbol(IF v.ok THEN "Ok" ELSE "Err") /\ s[2] = c
  OBVIOUS
<1> HIDE DEF s
<1>11. Inhabits(part, t, Vec(s)) = (/\ Len(s) = 2
                                    /\ \/ s[1] = Symbol("Ok") /\ part[t.ok].inhabits[s[2]]
                                       \/ s[1] = Symbol("Err") /\ part[t.err].inhabits[s[2]])
  BY KindsDiffer DEF Inhabits, Vec
<1>12. Inhabits(part, t, Vec(s))
  BY <1>6, <1>10, <1>11
<1> QED
  BY <1>5, <1>9, <1>12 DEF SentAs

\* A struct whose fields are fine is sent as its name and their forms.
LEMMA StructSound ==
  ASSUME NEW part, NEW t \in Types, t.kind = "struct", NEW V, NEW F,
         \A i \in DOMAIN t.fields : SoundOn(part[t.fields[i].type], V, F), FormLeaves \subseteq F,
         NEW v, v.kind = "udt", v.fields \in [Names -> V], Validate(part, t, v) = "fine"
  PROVE  SentAs(part, t, v, FormTrees(F))
<1> DEFINE m == Len(t.fields)
           verdicts == StructVerdicts(part, t, v)
           c == [i \in 1..m |-> part[t.fields[i].type].canonical[v.fields[t.fields[i].name]]]
           s == <<Symbol(t.name)>> \o c
<1>1. t.fields \in Seq(Fields) /\ t.name \in Names
  BY TypeIs
<1>2. m \in Nat /\ DOMAIN t.fields = 1..m /\ \A i \in 1..m : v.fields[t.fields[i].name] \in V
  <2>1. \A i \in DOMAIN t.fields : t.fields[i].name \in Names
    BY DefaultUdtIs
  <2> QED
    BY <1>1, <2>1
<1>3. FirstWrong(verdicts) = "fine"
  BY KindsDiffer, ValidateIs
<1>4. \A i \in 1..m : verdicts[i] = "fine"
  <2>1. DOMAIN verdicts = 1..m
    BY <1>2 DEF StructVerdicts
  <2> HIDE DEF verdicts, m
  <2> QED
    BY <1>2, <1>3, <2>1, FirstWrongIs
<1>5. \A i \in 1..m : c[i] \in F /\ part[t.fields[i].type].inhabits[c[i]]
  BY <1>2, <1>4 DEF SoundOn, StructVerdicts
<1>6. Canonical(part, t, v) = Vec(s)
  BY <1>2, KindsDiffer DEF Canonical
<1>7. c \in [1..m -> F]
  BY <1>5
<1> HIDE DEF c, verdicts, m
<1>8. c \in Seq(F) /\ Len(c) = m
  BY <1>2, <1>7
<1>9. Symbol(t.name) \in F
  BY <1>1 DEF FormLeaves, Symbol
<1> DEFINE name == Symbol(t.name)
<1> HIDE DEF name
<1>10. <<name>> \o c \in Seq(F) /\ Len(<<name>> \o c) = m + 1 /\ (<<name>> \o c)[1] = name
       /\ \A i \in 1..m : (<<name>> \o c)[i + 1] = c[i]
  <2>1. name \in F
    BY <1>9 DEF name
  <2>2. <<name>> \in Seq(F) /\ Len(<<name>>) = 1
    BY <2>1
  <2> QED
    BY <1>2, <1>8, <2>1, <2>2
<1>11. s \in Seq(F) /\ Len(s) = m + 1 /\ s[1] = Symbol(t.name) /\ \A i \in 1..m : s[i + 1] = c[i]
  BY <1>10 DEF name
<1> HIDE DEF s
<1>12. Vec(s) \in FormTrees(F)
  BY <1>11 DEF FormTrees, Vec
<1>13. Inhabits(part, t, Vec(s)) = (/\ Len(s) = Len(t.fields) + 1 /\ s[1] = Symbol(t.name)
                                    /\ \A i \in DOMAIN t.fields : part[t.fields[i].type].inhabits[s[i + 1]])
  BY KindsDiffer DEF Inhabits, Vec
<1>14. Len(t.fields) = m
  BY DEF m
<1> QED
  BY ONLY <1>2, <1>5, <1>6, <1>11, <1>12, <1>13, <1>14 DEF SentAs

\* A variant that is declared is sent as its symbol.
LEMMA EnumSound ==
  ASSUME NEW part, NEW t \in Types, t.kind = "enum", NEW v, v.kind = "udt", Validate(part, t, v) = "fine"
  PROVE  SentAs(part, t, v, FormLeaves)
<1>1. v.variant \in Declared(t.variants)
  BY KindsDiffer, ValidateIs DEF Fine
<1>2. v.variant \in Names
  BY <1>1, VariantIs DEF Variants
<1>3. Canonical(part, t, v) = Symbol(v.variant)
  BY KindsDiffer DEF Canonical
<1>4. Inhabits(part, t, Symbol(v.variant))
  BY <1>1, KindsDiffer DEF Inhabits
<1>5. Symbol(v.variant) \in FormLeaves
  BY <1>2 DEF FormLeaves, Symbol
<1> QED
  BY <1>3, <1>4, <1>5 DEF SentAs

\* A variant that is fine is sent as its symbol, with what it holds when it holds something.
LEMMA UnionSound ==
  ASSUME NEW part, NEW t \in Types, t.kind = "union", NEW V, NEW F,
         \A p \in Parts(t) : SoundOn(part[p], V, F), FormLeaves \subseteq F,
         NEW v, v.kind = "udt", v.fields \in [Names -> V], Validate(part, t, v) = "fine"
  PROVE  SentAs(part, t, v, F \cup FormTrees(F))
<1> DEFINE x == v.variant
           type == Named(t.variants, x).type
           c == part[type[1]].canonical[v.fields[x]]
           s == <<Symbol(x), c>>
<1>1. x \in Declared(t.variants) /\ (type # <<>> => part[type[1]].verdict[v.fields[x]] = "fine")
  BY KindsDiffer, ValidateIs, SMTT(40)
<1>2. x \in Names /\ (type # <<>> => type[1] \in Parts(t))
  BY <1>1, VariantIs DEF Variants
<1>3. Symbol(x) \in F
  BY <1>2 DEF FormLeaves, Symbol
<1>4. CASE type = <<>>
  <2>1. Canonical(part, t, v) = Symbol(x)
    BY <1>4, KindsDiffer DEF Canonical
  <2>2. Inhabits(part, t, Symbol(x)) <=>
          \E y \in Declared(t.variants) :
            IF Named(t.variants, y).type = <<>> THEN Symbol(x) = Symbol(y)
            ELSE /\ Symbol(x).is = "vec" /\ Len(Symbol(x).items) = 2 /\ Symbol(x).items[1] = Symbol(y)
                 /\ part[Named(t.variants, y).type[1]].inhabits[Symbol(x).items[2]]
    BY KindsDiffer DEF Inhabits
  <2>3. Inhabits(part, t, Symbol(x))
    BY <1>1, <1>4, <2>2
  <2> QED
    BY <1>3, <2>1, <2>3 DEF SentAs
<1>5. CASE type # <<>>
  <2>1. c \in F /\ part[type[1]].inhabits[c]
    BY <1>1, <1>2, <1>5 DEF SoundOn
  <2>2. Canonical(part, t, v) = Vec(s)
    BY <1>5, KindsDiffer DEF Canonical
  <2> HIDE DEF c
  <2>3. s \in Seq(F)
    BY <1>3, <2>1
  <2>4. Vec(s) \in FormTrees(F)
    BY <2>3 DEF FormTrees, Vec
  <2>5. Len(s) = 2 /\ s[1] = Symbol(x) /\ s[2] = c
    OBVIOUS
  <2> HIDE DEF s
  <2>6. Vec(s).is = "vec" /\ Vec(s).items = s
    BY DEF Vec
  <2>7. Inhabits(part, t, Vec(s)) <=>
          \E y \in Declared(t.variants) :
            IF Named(t.variants, y).type = <<>> THEN Vec(s) = Symbol(y)
            ELSE /\ Vec(s).is = "vec" /\ Len(Vec(s).items) = 2 /\ Vec(s).items[1] = Symbol(y)
                 /\ part[Named(t.variants, y).type[1]].inhabits[Vec(s).items[2]]
    BY KindsDiffer DEF Inhabits
  <2>8. Inhabits(part, t, Vec(s))
    BY <1>1, <1>5, <2>1, <2>5, <2>6, <2>7
  <2> QED
    BY <2>2, <2>4, <2>8 DEF SentAs
<1> QED
  BY <1>4, <1>5

Sound(t) == \A n \in 0..Nesting : SoundOn(Editor[t], ValuesTo[n], FormsTo[n])

\* What is fine is sent in a form of its type, by induction on how deep the type nests.
LEMMA AllSound == \A t \in Types : Sound(t)
<1> DEFINE S == {t \in Types : Sound(t)}
<1>1. ASSUME NEW t \in Types, Parts(t) \subseteq S PROVE Sound(t)
  <2>1. \A p \in Parts(t) : Sound(p)
    BY <1>1
  <2> HIDE DEF S
  <2> SUFFICES ASSUME NEW n \in 0..Nesting, NEW v \in ValuesTo[n], Editor[t].verdict[v] = "fine"
               PROVE  Editor[t].canonical[v] \in FormsTo[n] /\ Editor[t].inhabits[Editor[t].canonical[v]]
    BY DEF Sound, SoundOn
  <2> DEFINE part == Made(t)
             V == ValuesTo[n - 1]
             F == FormsTo[n - 1]
  <2>2. v \in Values
    BY LevelsTop
  <2>3. Validate(part, t, v) = "fine" /\ Editor[t].canonical[v] = Canonical(part, t, v)
    BY <2>2, EditorIs
  <2>4. FormLeaves \subseteq FormsTo[n]
    BY FormFits
  <2>5. n > 0 => /\ n - 1 \in 0..Nesting /\ FormLeaves \subseteq F /\ Undefined \in V
                 /\ F \subseteq FormsTo[n] /\ FormTrees(F) \subseteq FormsTo[n]
    <3>1. n > 0 => n - 1 \in 0..Nesting
      BY ArgumentFormAssumption
    <3> QED
      BY <3>1, FormFits, LeafFits
  <2>6. n > 0 => \A p \in Parts(t) : SoundOn(part[p], V, F)
    <3>1. \A p \in Parts(t) : part[p] = Editor[p]
      BY EditorIs
    <3>2. n > 0 => \A p \in Parts(t) : SoundOn(Editor[p], V, F)
      BY <2>1, <2>5 DEF Sound
    <3> QED
      BY <3>1, <3>2
  <2>7. /\ v.kind \in {"option", "result", "list", "map", "udt"} => n > 0
        /\ v.kind = "option" => v.value \in Seq(V)
        /\ v.kind = "result" => v.ok \in BOOLEAN /\ v.value \in Seq(V)
        /\ v.kind = "list" => v.items \in Seq(V)
        /\ v.kind = "map" => v.rows \in Seq([key : V, value : V])
        /\ v.kind = "udt" => v.fields \in [Names -> V]
    BY ValueIs
  <2>8. /\ t.kind # "void" => v.kind # "undefined"
        /\ t.kind = "option" => v.kind = "option"
        /\ t.kind = "result" => v.kind = "result"
        /\ t.kind \in {"vec", "tuple"} => v.kind = "list"
        /\ t.kind = "map" => v.kind = "map"
        /\ t.kind \in Udts => v.kind = "udt"
    BY <2>3, KindsDiffer, ValidateIs
  <2> HIDE DEF part, V, F
  <2>9. SentAs(part, t, v, FormsTo[n])
    <3>1. \A X : X \subseteq FormsTo[n] /\ SentAs(part, t, v, X) => SentAs(part, t, v, FormsTo[n])
      BY DEF SentAs
    <3>2. CASE t.kind \in Scalars \cup {"bool", "void"}
      BY <2>3, <2>4, <3>1, <3>2, ScalarSound, BoolSound, VoidSound
    <3>3. CASE t.kind = "option"
      <4>1. SoundOn(part[t.inner], V, F)
        BY <2>6, <2>7, <2>8, <3>3, TypeIs
      <4>2. SentAs(part, t, v, F \cup FormTrees(F))
        BY <2>3, <2>7, <2>8, <3>3, <4>1, OptionSound
      <4>3. F \cup FormTrees(F) \subseteq FormsTo[n]
        BY <2>5, <2>7, <2>8, <3>3
      <4> QED
        BY <3>1, <4>2, <4>3
    <3>4. CASE t.kind = "result"
      <4>1. SoundOn(part[t.ok], V, F) /\ SoundOn(part[t.err], V, F)
        BY <2>6, <2>7, <2>8, <3>4, TypeIs
      <4>2. FormLeaves \subseteq F /\ FormTrees(F) \subseteq FormsTo[n]
        BY <2>5, <2>7, <2>8, <3>4
      <4>3. SentAs(part, t, v, FormTrees(F))
        BY <2>3, <2>7, <2>8, <3>4, <4>1, <4>2, ResultSound
      <4> QED
        BY <3>1, <4>2, <4>3
    <3>5. CASE t.kind = "vec"
      <4>1. SoundOn(part[t.elem], V, F)
        BY <2>6, <2>7, <2>8, <3>5, TypeIs
      <4>2. FormTrees(F) \subseteq FormsTo[n]
        BY <2>5, <2>7, <2>8, <3>5
      <4>3. SentAs(part, t, v, FormTrees(F))
        BY <2>3, <2>7, <2>8, <3>5, <4>1, VecSound
      <4> QED
        BY <3>1, <4>2, <4>3
    <3>6. CASE t.kind = "tuple"
      <4>1. \A i \in DOMAIN t.elems : SoundOn(part[t.elems[i]], V, F)
        BY <2>6, <2>7, <2>8, <3>6, TypeIs
      <4>2. Undefined \in V /\ FormTrees(F) \subseteq FormsTo[n]
        BY <2>5, <2>7, <2>8, <3>6
      <4>3. SentAs(part, t, v, FormTrees(F))
        BY <2>3, <2>7, <2>8, <3>6, <4>1, <4>2, TupleSound
      <4> QED
        BY <3>1, <4>2, <4>3
    <3>7. CASE t.kind = "map"
      <4>1. SoundOn(part[t.key], V, F) /\ SoundOn(part[t.value], V, F)
        BY <2>6, <2>7, <2>8, <3>7, TypeIs
      <4>2. FormTrees(F) \subseteq FormsTo[n]
        BY <2>5, <2>7, <2>8, <3>7
      <4>3. SentAs(part, t, v, FormTrees(F))
        BY <2>3, <2>7, <2>8, <3>7, <4>1, MapSound
      <4> QED
        BY <3>1, <4>2, <4>3
    <3>8. CASE t.kind = "struct"
      <4>1. \A i \in DOMAIN t.fields : SoundOn(part[t.fields[i].type], V, F)
        BY <2>6, <2>7, <2>8, <3>8, KindsDiffer, TypeIs
      <4>2. FormLeaves \subseteq F /\ FormTrees(F) \subseteq FormsTo[n]
        BY <2>5, <2>7, <2>8, <3>8, KindsDiffer
      <4>3. SentAs(part, t, v, FormTrees(F))
        BY <2>3, <2>7, <2>8, <3>8, <4>1, <4>2, KindsDiffer, StructSound
      <4> QED
        BY <3>1, <4>2, <4>3
    <3>9. CASE t.kind = "enum"
      BY <2>3, <2>4, <2>8, <3>1, <3>9, KindsDiffer, EnumSound
    <3>10. CASE t.kind = "union"
      <4>1. \A p \in Parts(t) : SoundOn(part[p], V, F)
        BY <2>6, <2>7, <2>8, <3>10, KindsDiffer
      <4>2. FormLeaves \subseteq F /\ F \cup FormTrees(F) \subseteq FormsTo[n]
        BY <2>5, <2>7, <2>8, <3>10, KindsDiffer
      <4>3. SentAs(part, t, v, F \cup FormTrees(F))
        BY <2>3, <2>7, <2>8, <3>10, <4>1, <4>2, KindsDiffer, UnionSound
      <4> QED
        BY <3>1, <4>2, <4>3
    <3> QED
      BY <3>2, <3>3, <3>4, <3>5, <3>6, <3>7, <3>8, <3>9, <3>10, KindsDiffer, TypeIs DEF Complex
  <2>10. Canonical(part, t, v) \in Forms
    BY <2>9, LevelsTop DEF SentAs
  <2>11. Editor[t].inhabits[Canonical(part, t, v)] = Inhabits(part, t, Canonical(part, t, v))
    BY <2>10, EditorIs DEF part
  <2> QED
    BY <2>3, <2>9, <2>11 DEF SentAs
<1>2. \A t \in Types : Parts(t) \subseteq S => t \in S
  BY <1>1
<1> HIDE DEF S
<1>3. Types \subseteq S
  BY <1>2, TypeInduction
<1> QED
  BY <1>3 DEF S

-----------------------------------------------------------------------------
(* What the page survives: a set of values in which the controls of a type *)
(* keep every value, and of which none is read that is undefined           *)

NoCrash(editor, S) == \A v \in S : editor.verdict[v] # "crash"

\* The texts that the editor of a list puts into it are among the values of its elements.
Safely(t, S) ==
    /\ S \subseteq Values /\ Closed(Editor[t], S) /\ NoCrash(Editor[t], S)
    /\ t.kind \notin Complex => \A text \in Texts : Scalar(text) \in S
Survives(t) == ~Editor[t].turns => \E S : Safely(t, S)
Safe(t) == CHOOSE S : Safely(t, S)

\* What is edited in a type's controls is a value.
LEMMA ValuesKept ==
  ASSUME NEW t \in Types
  PROVE  Closed(Editor[t], Values) /\ Default(Made(t), t) \in Values
<1>1. Nesting \in 0..Nesting /\ Depth[t] <= Nesting
  BY ArgumentFormAssumption
<1>2. Closed(Editor[t], Values)
  BY <1>1, AllFit DEF StaysAtLevel, Values
<1> QED
  BY <1>2, EditorIs DEF Closed

\* What is left to show of one type.
LEMMA SafelyIf ==
  ASSUME NEW t \in Types, t.kind \in Complex, NEW S, S \subseteq Values,
         Default(Made(t), t) \in S, \A v \in S : Edits(Made(t), t, v) \cap Values \subseteq S,
         \A v \in S : Validate(Made(t), t, v) # "crash"
  PROVE  Safely(t, S)
<1>1. \A v \in S : Editor[t].edits[v] = Edits(Made(t), t, v) /\ Editor[t].verdict[v] = Validate(Made(t), t, v)
  BY EditorIs
<1>2. Closed(Editor[t], Values)
  BY ValuesKept
<1>3. \A v \in S : Editor[t].edits[v] \subseteq Values
  BY <1>2 DEF Closed
<1>4. Editor[t].initial = Default(Made(t), t)
  BY EditorIs
<1>5. Closed(Editor[t], S)
  BY <1>1, <1>3, <1>4 DEF Closed
<1>6. NoCrash(Editor[t], S)
  BY <1>1 DEF NoCrash
<1> QED
  BY <1>5, <1>6 DEF Safely

\* The editors that the parts of t have, as the proofs for each kind use them.
PartSafe(editor, p) == Closed(editor, Safe(p)) /\ NoCrash(editor, Safe(p)) /\ Safe(p) \subseteq Values

\* A type that turns no result round is made of such types, and each of them is safe.
LEMMA PartsSafe ==
  ASSUME NEW t \in Types, ~Editor[t].turns, \A p \in Parts(t) : Survives(p)
  PROVE  /\ t.kind # "result"
         /\ \A p \in Parts(t) : /\ PartSafe(Made(t)[p], p)
                                /\ p.kind \notin Complex => \A text \in Texts : Scalar(text) \in Safe(p)
<1>1. t.kind # "result" /\ \A p \in Parts(t) : ~Editor[p].turns
  BY EditorIs
<1>2. ASSUME NEW p \in Parts(t)
      PROVE  PartSafe(Made(t)[p], p) /\ (p.kind \notin Complex => \A text \in Texts : Scalar(text) \in Safe(p))
  <2>1. \E S : Safely(p, S)
    BY <1>1 DEF Survives
  <2>2. Safely(p, Safe(p))
    BY <2>1 DEF Safe
  <2>3. Made(t)[p] = Editor[p]
    BY EditorIs
  <2> QED
    BY <2>2, <2>3 DEF Safely, PartSafe
<1> QED
  BY <1>1, <1>2

\* A type without parts is safe: every text and either boolean is read.
LEMMA SimpleSafe ==
  ASSUME NEW t \in Types, t.kind \in Scalars \cup {"bool", "void"}
  PROVE  \E S : Safely(t, S)
<1> DEFINE S == {v \in Values : v.kind # "undefined"}
<1>1. Nesting \in 0..Nesting
  BY ArgumentFormAssumption
<1>2. (\A text \in Texts : Scalar(text) \in S) /\ (\A b \in BOOLEAN : Boolean(b) \in S)
  BY <1>1, LeafFits DEF Values, Scalar, Boolean
<1>3. Default(Made(t), t) \in S
  <2>1. Default(Made(t), t) \in {Scalar(""), Boolean(FALSE)}
    BY EditsAre
  <2> QED
    BY <1>2, <2>1 DEF Texts
<1>4. ASSUME NEW v \in S PROVE Edits(Made(t), t, v) \subseteq S
  <2>1. ScalarEdits \subseteq S /\ BoolEdits \subseteq S
    BY <1>2 DEF ScalarEdits, BoolEdits
  <2>2. Edits(Made(t), t, v) \in {ScalarEdits, BoolEdits, {}}
    BY EditsAre
  <2> HIDE DEF S
  <2> QED
    BY <2>1, <2>2
<1>5. ASSUME NEW v \in S PROVE Validate(Made(t), t, v) # "crash"
  BY ValidateIs DEF Fine
<1>6. \A v \in S : Editor[t].edits[v] = Edits(Made(t), t, v) /\ Editor[t].verdict[v] = Validate(Made(t), t, v)
  BY EditorIs
<1>7. Editor[t].initial = Default(Made(t), t)
  BY EditorIs
<1>8. S \subseteq Values
  OBVIOUS
<1> HIDE DEF S
<1>9. Closed(Editor[t], S) /\ NoCrash(Editor[t], S)
  BY <1>3, <1>4, <1>5, <1>6, <1>7 DEF Closed, NoCrash
<1>10. Safely(t, S)
  BY <1>2, <1>8, <1>9 DEF Safely
<1> QED
  BY <1>10

\* The values in which a list of simple or of complex elements is kept.
LEMMA VecSafe ==
  ASSUME NEW t \in Types, t.kind = "vec", PartSafe(Made(t)[t.elem], t.elem),
         t.elem.kind \notin Complex => \A text \in Texts : Scalar(text) \in Safe(t.elem)
  PROVE  \E S : Safely(t, S)
<1> DEFINE part == Made(t)
           T == Safe(t.elem)
           S == {v \in Values : \E s \in Seq(T) : v = List(s)}
<1>1. Closed(part[t.elem], T) /\ NoCrash(part[t.elem], T)
  BY DEF PartSafe
<1>2. ASSUME NEW v \in S PROVE v.kind = "list" /\ v.items \in Seq(T) /\ Items(v) \in Seq(T)
  BY DEF List, Items
<1> HIDE DEF part, T
<1>3. Default(part, t) \in S
  <2>1. Default(part, t) = List(<<>>)
    BY EditsAre
  <2>2. Default(part, t) \in Values
    BY ValuesKept DEF part
  <2> QED
    BY <2>1, <2>2, <<>> \in Seq(T)
<1>4. ASSUME NEW v \in S PROVE Edits(part, t, v) \cap Values \subseteq S
  <2>1. Items(v) \in Seq(T)
    BY <1>2
  <2>2. \A e \in VecEdits(part, t, v) : \E s \in Seq(T) : e = List(s)
    BY <1>1, <2>1, VecEditsIn DEF T
  <2>3. Edits(part, t, v) = VecEdits(part, t, v)
    BY EditsAre
  <2> QED
    BY <2>2, <2>3
<1>5. ASSUME NEW v \in S PROVE Validate(part, t, v) # "crash"
  <2> DEFINE m == Len(v.items)
             verdicts == VecVerdicts(part, t, v)
  <2>1. v.kind = "list" /\ v.items \in Seq(T)
    BY <1>2
  <2>2. m \in Nat /\ DOMAIN v.items = 1..m /\ \A i \in 1..m : v.items[i] \in T
    BY <2>1
  <2>3. DOMAIN verdicts = 1..m /\ \A i \in 1..m : verdicts[i] # "crash"
    BY <1>1, <2>2 DEF VecVerdicts, NoCrash
  <2>4. Validate(part, t, v) = FirstWrong(verdicts)
    BY <2>1, KindsDiffer, ValidateIs
  <2> HIDE DEF m, verdicts
  <2>5. FirstWrong(verdicts) # "crash"
    BY <2>2, <2>3, FirstWrongIs
  <2> QED
    BY <2>4, <2>5
<1>6. S \subseteq Values
  OBVIOUS
<1> HIDE DEF S
<1>7. Safely(t, S)
  BY <1>3, <1>4, <1>5, <1>6, SafelyIf DEF part, Complex
<1> QED
  BY <1>7

\* A tuple is safe when its items are.
LEMMA TupleSafe ==
  ASSUME NEW t \in Types, t.kind = "tuple", \A i \in DOMAIN t.elems : PartSafe(Made(t)[t.elems[i]], t.elems[i])
  PROVE  \E S : Safely(t, S)
<1> DEFINE part == Made(t)
           m == Len(t.elems)
           T == [j \in 1..m |-> Safe(t.elems[j])]
           In(v, s) == v = List(s) /\ s = [j \in 1..m |-> s[j]] /\ \A j \in 1..m : s[j] \in T[j]
           S == {v \in Values : TupleFrom(v, m, T)}
<1>1. m \in Nat /\ DOMAIN t.elems = 1..m
  BY TypeIs
<1>2. \A i \in DOMAIN t.elems : Closed(part[t.elems[i]], T[i]) /\ NoCrash(part[t.elems[i]], T[i])
  BY <1>1 DEF PartSafe
<1> HIDE DEF part, m, T
<1>3. Default(part, t) \in S
  <2> DEFINE s == [i \in DOMAIN t.elems |-> part[t.elems[i]].initial]
  <2>1. Default(part, t) = List(s)
    BY EditsAre
  <2>2. s = [j \in 1..m |-> s[j]] /\ \A j \in 1..m : s[j] \in T[j]
    BY <1>1, <1>2 DEF Closed
  <2> HIDE DEF s
  <2>3. In(Default(part, t), s)
    BY <2>1, <2>2
  <2>4. Default(part, t) \in Values
    BY ValuesKept DEF part
  <2> QED
    BY <2>3, <2>4 DEF TupleFrom
<1>4. ASSUME NEW v \in S PROVE Edits(part, t, v) \cap Values \subseteq S
  <2>1. PICK s : In(v, s)
    BY DEF TupleFrom
  <2>2. Items(v) = s
    BY <2>1 DEF List, Items
  <2>3. TupleIn(v, m, T)
    BY <2>1, <2>2 DEF TupleIn
  <2>4. TupleClosed(part, t, T)
    BY <1>2 DEF TupleClosed
  <2>5. \A e \in TupleEdits(part, t, v) : TupleFrom(e, m, T)
    BY <1>1, <2>3, <2>4, TupleEditsIn
  <2>6. Edits(part, t, v) = TupleEdits(part, t, v)
    BY EditsAre
  <2> QED
    BY <2>5, <2>6
<1>5. ASSUME NEW v \in S PROVE Validate(part, t, v) # "crash"
  <2> DEFINE verdicts == TupleVerdicts(part, t, v)
  <2>1. PICK s : In(v, s)
    BY DEF TupleFrom
  <2>2. v.kind = "list" /\ v.items = s
    BY <2>1 DEF List
  <2>3. \A i \in 1..m : Item(v.items, i) \in T[i]
    BY <2>1, <2>2 DEF Item
  <2>4. DOMAIN verdicts = 1..m /\ \A i \in 1..m : verdicts[i] # "crash"
    BY <1>1, <1>2, <2>3 DEF TupleVerdicts, NoCrash
  <2>5. Validate(part, t, v) = FirstWrong(verdicts)
    BY <2>2, KindsDiffer, ValidateIs
  <2> HIDE DEF verdicts
  <2>6. FirstWrong(verdicts) # "crash"
    BY <1>1, <2>4, FirstWrongIs
  <2> QED
    BY <2>5, <2>6
<1>6. S \subseteq Values
  OBVIOUS
<1> HIDE DEF S
<1>7. Safely(t, S)
  BY <1>3, <1>4, <1>5, <1>6, SafelyIf DEF part, Complex
<1> QED
  BY <1>7

\* A map is safe when its keys and its values are.
LEMMA MapSafe ==
  ASSUME NEW t \in Types, t.kind = "map", PartSafe(Made(t)[t.key], t.key), PartSafe(Made(t)[t.value], t.value)
  PROVE  \E S : Safely(t, S)
<1> DEFINE part == Made(t)
           K == Safe(t.key)
           V == Safe(t.value)
           S == {v \in Values : MapOf(v, K, V)}
<1>1. Closed(part[t.key], K) /\ NoCrash(part[t.key], K) /\ Closed(part[t.value], V) /\ NoCrash(part[t.value], V)
  BY DEF PartSafe
<1> HIDE DEF part, K, V
<1>2. ASSUME NEW v \in S PROVE v.kind = "map" /\ v.rows \in Seq([key : K, value : V]) /\ MapIn(v, K, V)
  <2>1. PICK s \in Seq([key : K, value : V]) : v = Map(s)
    BY DEF MapOf
  <2> QED
    BY <2>1 DEF MapIn, Map, Rows
<1>3. Default(part, t) \in S
  <2>1. Default(part, t) = Map(<<>>)
    BY EditsAre
  <2>2. Default(part, t) \in Values
    BY ValuesKept DEF part
  <2> QED
    BY <2>1, <2>2, <<>> \in Seq([key : K, value : V]) DEF MapOf
<1>4. ASSUME NEW v \in S PROVE Edits(part, t, v) \cap Values \subseteq S
  <2>1. MapIn(v, K, V)
    BY <1>2
  <2>2. \A e \in MapEdits(part, t, v) : MapOf(e, K, V)
    BY <1>1, <2>1, MapEditsIn
  <2>3. Edits(part, t, v) = MapEdits(part, t, v)
    BY EditsAre
  <2> QED
    BY <2>2, <2>3
<1>5. ASSUME NEW v \in S PROVE Validate(part, t, v) # "crash"
  <2> DEFINE m == Len(v.rows)
             Pair(i) == RowVerdicts(part, t, v.rows[i])
             verdicts == MapVerdicts(part, t, v)
  <2>1. v.kind = "map" /\ v.rows \in Seq([key : K, value : V])
    BY <1>2
  <2>2. m \in Nat /\ DOMAIN v.rows = 1..m
    BY <2>1
  <2>3. ASSUME NEW i \in 1..m PROVE FirstWrong(Pair(i)) # "crash"
    <3>1. v.rows[i] \in [key : K, value : V]
      BY <2>1, <2>2, SequenceEdits
    <3>2. v.rows[i].key \in K /\ v.rows[i].value \in V
      BY <3>1
    <3>3. DOMAIN Pair(i) = 1..2 /\ Pair(i)[1] # "crash" /\ Pair(i)[2] # "crash"
      BY <1>1, <3>2 DEF RowVerdicts, NoCrash
    <3> HIDE DEF Pair
    <3>4. \A j \in 1..2 : Pair(i)[j] # "crash"
      BY <3>3
    <3> QED
      BY ONLY <3>3, <3>4, FirstWrongIs, 2 \in Nat
  <2>4. DOMAIN verdicts = 1..m /\ \A i \in 1..m : verdicts[i] # "crash"
    BY <2>2, <2>3 DEF MapVerdicts
  <2>5. Validate(part, t, v) = FirstWrong(verdicts)
    <3>1. v.kind = "map" /\ t.kind = "map"
      BY <2>1
    <3>2. Validate(part, t, v) = FirstWrong(MapVerdicts(part, t, v))
      BY <3>1, MapVerdict, ZenonT(60)
    <3> QED
      BY <3>2
  <2> HIDE DEF verdicts, m, Pair
  <2>6. FirstWrong(verdicts) # "crash"
    BY <2>2, <2>4, FirstWrongIs
  <2> QED
    BY <2>5, <2>6
<1>6. S \subseteq Values
  OBVIOUS
<1> HIDE DEF S
<1>7. Safely(t, S)
  BY <1>3, <1>4, <1>5, <1>6, SafelyIf DEF part, Complex
<1> QED
  BY <1>7

\* An option is safe when what it holds is.
LEMMA OptionSafe ==
  ASSUME NEW t \in Types, t.kind = "option", PartSafe(Made(t)[t.inner], t.inner)
  PROVE  \E S : Safely(t, S)
<1> DEFINE part == Made(t)
           T == Safe(t.inner)
           S == {v \in Values : OptionOf(v, T)}
<1>1. Closed(part[t.inner], T) /\ NoCrash(part[t.inner], T)
  BY DEF PartSafe
<1> HIDE DEF part, T
<1>2. ASSUME NEW v \in S
      PROVE  v.kind = "option" /\ OptionIn(v, T) /\ (v.some => v.value # <<>> /\ v.value[1] \in T)
  <2>1. CASE v = Option(FALSE, <<>>)
    BY <2>1, <<>> \in Seq(T) DEF Option, OptionIn
  <2>2. CASE \E s \in Seq(T) : s # <<>> /\ v = Option(TRUE, s)
    <3>1. PICK s \in Seq(T) : s # <<>> /\ v = Option(TRUE, s)
      BY <2>2
    <3>2. s[1] \in T
      BY <3>1
    <3> QED
      BY <3>1, <3>2 DEF Option, OptionIn
  <2> QED
    BY <2>1, <2>2 DEF OptionOf
<1>3. Default(part, t) \in S
  <2>1. Default(part, t) = Option(FALSE, <<>>)
    BY EditsAre
  <2>2. Default(part, t) \in Values
    BY ValuesKept DEF part
  <2> QED
    BY <2>1, <2>2 DEF OptionOf
<1>4. ASSUME NEW v \in S PROVE Edits(part, t, v) \cap Values \subseteq S
  <2>1. OptionIn(v, T)
    BY <1>2
  <2>2. \A e \in OptionEdits(part, t, v) : OptionOf(e, T)
    BY <1>1, <2>1, OptionEditsIn
  <2>3. Edits(part, t, v) = OptionEdits(part, t, v)
    BY EditsAre
  <2> QED
    BY <2>2, <2>3
<1>5. ASSUME NEW v \in S PROVE Validate(part, t, v) # "crash"
  <2>1. v.kind = "option" /\ (v.some => v.value # <<>> /\ v.value[1] \in T)
    BY <1>2
  <2>2. v.some => part[t.inner].verdict[v.value[1]] # "crash"
    BY <1>1, <2>1 DEF NoCrash
  <2> QED
    BY <2>1, <2>2, KindsDiffer, ValidateIs
<1>6. S \subseteq Values
  OBVIOUS
<1> HIDE DEF S
<1>7. Safely(t, S)
  BY <1>3, <1>4, <1>5, <1>6, SafelyIf DEF part, Complex
<1> QED
  BY <1>7

\* A struct is safe when its fields are.
LEMMA StructSafe ==
  ASSUME NEW t \in Types, t.kind = "struct",
         \A i \in DOMAIN t.fields : PartSafe(Made(t)[t.fields[i].type], t.fields[i].type)
  PROVE  \E S : Safely(t, S)
<1> DEFINE part == Made(t)
           start == DefaultUdt(part, t)
           F == [x \in Names |-> IF \E i \in DOMAIN t.fields : x = t.fields[i].name
                                 THEN Safe(t.fields[CHOOSE i \in DOMAIN t.fields : x = t.fields[i].name].type)
                                 ELSE {Undefined}]
           S == {v \in Values : StructOf(v, F)}
<1>1. t.fields \in Seq(Fields)
  BY TypeIs
<1>2. \A i, j \in DOMAIN t.fields : t.fields[i].name = t.fields[j].name => i = j
  BY ArgumentFormAssumption DEF Distinct
<1>3. \A i \in DOMAIN t.fields : t.fields[i].name \in Names
  BY DefaultUdtIs
<1>4. ASSUME NEW i \in DOMAIN t.fields
      PROVE  F[t.fields[i].name] = Safe(t.fields[i].type)
  <2> DEFINE k == CHOOSE k \in DOMAIN t.fields : t.fields[i].name = t.fields[k].name
  <2>1. k \in DOMAIN t.fields /\ t.fields[i].name = t.fields[k].name
    OBVIOUS
  <2>2. k = i
    BY <1>2, <2>1
  <2> QED
    BY <1>3, <2>2
<1>5. ASSUME NEW i \in DOMAIN t.fields
      PROVE  Closed(part[t.fields[i].type], F[t.fields[i].name]) /\ NoCrash(part[t.fields[i].type], F[t.fields[i].name])
  <2>1. PartSafe(part[t.fields[i].type], t.fields[i].type)
    OBVIOUS
  <2>2. F[t.fields[i].name] = Safe(t.fields[i].type)
    BY <1>4
  <2> HIDE DEF F, part
  <2> QED
    BY <2>1, <2>2 DEF PartSafe
<1>6. \A x \in Names : (~ \E i \in DOMAIN t.fields : x = t.fields[i].name) => F[x] = {Undefined}
  OBVIOUS
<1> HIDE DEF part, F
<1>7. FieldsClosed(part, t, F)
  BY <1>3, <1>5 DEF FieldsClosed
<1>8. StructOf(start, F)
  <2>1. start = Udt("", start.fields) /\ start.fields = [x \in Names |-> start.fields[x]]
    BY DefaultUdtIs
  <2>2. ASSUME NEW x \in Names PROVE start.fields[x] \in F[x]
    <3>1. CASE \E i \in DOMAIN t.fields : x = t.fields[i].name
      <4>1. PICK i \in DOMAIN t.fields : x = t.fields[i].name
        BY <3>1
      <4>2. start.fields[x] = part[t.fields[i].type].initial
        BY <4>1, DefaultUdtIs, ZenonT(60)
      <4> QED
        BY <1>5, <4>1, <4>2 DEF Closed
    <3>2. CASE ~ \E i \in DOMAIN t.fields : x = t.fields[i].name
      <4>1. start.fields[x] = Undefined
        BY <3>2, DefaultUdtIs
      <4> QED
        BY <1>6, <3>2, <4>1
    <3> QED
      BY <3>1, <3>2
  <2> HIDE DEF start
  <2>3. FieldsIn(start.fields, F)
    BY <2>1, <2>2 DEF FieldsIn
  <2> QED
    BY <2>1, <2>3 DEF StructOf
<1>9. ASSUME NEW v \in S PROVE v.kind = "udt" /\ StructIn(v, F)
  <2>1. PICK f : v = Udt("", f) /\ FieldsIn(f, F)
    BY DEF StructOf
  <2> QED
    BY <2>1 DEF StructIn, Udt
<1>10. Default(part, t) \in S
  <2>1. Default(part, t) = start
    BY EditsAre DEF Udts
  <2>2. Default(part, t) \in Values
    BY ValuesKept DEF part
  <2> QED
    BY <1>8, <2>1, <2>2
<1> HIDE DEF start
<1>11. ASSUME NEW v \in S PROVE Edits(part, t, v) \cap Values \subseteq S
  <2>1. v.kind = "udt" /\ StructIn(v, F)
    BY <1>9
  <2>2. \A e \in StructEdits(part, t, v) : StructOf(e, F)
    BY ONLY <1>7, <2>1, StructEditsIn
  <2>3. Edits(part, t, v) = StructEdits(part, t, v)
    BY <2>1, EditsAre
  <2> QED
    BY <2>2, <2>3
<1>12. ASSUME NEW v \in S PROVE Validate(part, t, v) # "crash"
  <2> DEFINE m == Len(t.fields)
             verdicts == StructVerdicts(part, t, v)
  <2>1. v.kind = "udt" /\ StructIn(v, F)
    BY <1>9
  <2>2. m \in Nat /\ DOMAIN t.fields = 1..m
    BY <1>1
  <2>3. \A i \in DOMAIN t.fields : v.fields[t.fields[i].name] \in F[t.fields[i].name]
    BY <1>3, <2>1 DEF StructIn, FieldsIn
  <2>4. DOMAIN verdicts = 1..m /\ \A i \in 1..m : verdicts[i] # "crash"
    BY <1>5, <2>2, <2>3 DEF StructVerdicts, NoCrash
  <2>5. Validate(part, t, v) = FirstWrong(verdicts)
    BY <2>1, KindsDiffer, ValidateIs
  <2> HIDE DEF verdicts, m
  <2>6. FirstWrong(verdicts) # "crash"
    BY <2>2, <2>4, FirstWrongIs
  <2> QED
    BY <2>5, <2>6
<1>13. S \subseteq Values
  OBVIOUS
<1> HIDE DEF S
<1>14. Safely(t, S)
  BY <1>10, <1>11, <1>12, <1>13, SafelyIf DEF part, Complex, Udts
<1> QED
  BY <1>14

\* An enum is safe.
LEMMA EnumSafe ==
  ASSUME NEW t \in Types, t.kind = "enum"
  PROVE  \E S : Safely(t, S)
<1> DEFINE part == Made(t)
           S == {v \in Values : \E x : v = Udt(x, NoFields)}
<1>1. \A v \in S : v.kind = "udt"
  BY DEF Udt
<1>2. Default(part, t) \in S
  <2>1. Default(part, t) = Udt(t.variants[1].name, NoFields)
    BY EditsAre DEF DefaultUdt, Udts
  <2>2. Default(part, t) \in Values
    BY ValuesKept
  <2> QED
    BY <2>1, <2>2
<1>3. ASSUME NEW v \in S PROVE Edits(part, t, v) \cap Values \subseteq S
  <2>1. Edits(part, t, v) = {Udt(x, NoFields) : x \in Declared(t.variants)}
    BY EditsAre DEF EnumEdits
  <2> QED
    BY <2>1
<1>4. ASSUME NEW v \in S PROVE Validate(part, t, v) # "crash"
  <2>1. v.kind = "udt"
    BY <1>1
  <2> QED
    BY <2>1, KindsDiffer, ValidateIs DEF Fine
<1>5. S \subseteq Values
  OBVIOUS
<1> HIDE DEF S
<1>6. Safely(t, S)
  BY <1>2, <1>3, <1>4, <1>5, SafelyIf DEF Complex, Udts
<1> QED
  BY <1>6

\* A variant that is declared, with the value that its type keeps.
UnionOf(e, t) ==
    \E x \in Declared(t.variants) : \E f : /\ e = Udt(x, f)
                                           /\ LET type == Named(t.variants, x).type
                                              IN type # <<>> => f[x] \in Safe(type[1])

\* A union is safe when what its variants hold is.
LEMMA UnionSafe ==
  ASSUME NEW t \in Types, t.kind = "union", \A p \in Parts(t) : PartSafe(Made(t)[p], p)
  PROVE  \E S : Safely(t, S)
<1> DEFINE part == Made(t)
           S == {v \in Values : UnionOf(v, t)}
<1>1. \A p \in Parts(t) : Closed(part[p], Safe(p)) /\ NoCrash(part[p], Safe(p))
  BY DEF PartSafe
<1>2. Nesting \in 0..Nesting
  BY ArgumentFormAssumption
<1> HIDE DEF part
<1>3. ASSUME NEW x \in Declared(t.variants)
      PROVE  LET w == Named(t.variants, x)
             IN w \in Variants /\ w.name = x /\ x \in Names /\ (w.type # <<>> => w.type[1] \in Parts(t))
  BY VariantIs DEF Variants
<1>4. ASSUME NEW x \in Declared(t.variants) PROVE UnionOf(Chosen(part, Named(t.variants, x)), t)
  <2> DEFINE w == Named(t.variants, x)
             f == Chosen(part, w).fields
  <2>1. w \in Variants /\ w.name = x /\ (w.type # <<>> => w.type[1] \in Parts(t))
    BY <1>3
  <2>2. Chosen(part, w) = Udt(x, f) /\ (w.type # <<>> => f[x] = part[w.type[1]].initial)
    BY <2>1, ChosenIs, ZenonT(60)
  <2>3. w.type # <<>> => part[w.type[1]].initial \in Safe(w.type[1])
    BY <1>1, <2>1 DEF Closed
  <2> HIDE DEF f
  <2> QED
    BY <2>2, <2>3 DEF UnionOf
<1>5. ASSUME NEW v \in S
      PROVE  /\ v.kind = "udt" /\ v.variant \in Declared(t.variants)
             /\ v.fields \in [Names -> ValuesTo[Nesting - 1]]
             /\ LET type == Named(t.variants, v.variant).type
                IN type # <<>> => v.fields[v.variant] \in Safe(type[1])
  <2>1. v.kind = "udt" /\ v.variant \in Declared(t.variants)
        /\ LET type == Named(t.variants, v.variant).type
           IN type # <<>> => v.fields[v.variant] \in Safe(type[1])
    <3>1. PICK x \in Declared(t.variants) : \E f : /\ v = Udt(x, f)
                                                   /\ LET type == Named(t.variants, x).type
                                                      IN type # <<>> => f[x] \in Safe(type[1])
      BY DEF UnionOf
    <3>2. PICK f : v = Udt(x, f) /\ LET type == Named(t.variants, x).type IN type # <<>> => f[x] \in Safe(type[1])
      BY <3>1
    <3>3. v.kind = "udt" /\ v.variant = x /\ v.fields = f
      BY <3>2 DEF Udt
    <3> QED
      BY <3>2, <3>3
  <2>2. v \in ValuesTo[Nesting]
    BY DEF Values
  <2>3. v.fields \in [Names -> ValuesTo[Nesting - 1]]
    BY <1>2, <2>1, <2>2, ValueIs
  <2> QED
    BY <2>1, <2>3
<1>6. Default(part, t) \in S
  <2>1. Default(part, t) = DefaultUdt(part, t)
    BY EditsAre DEF Udts
  <2>2. DefaultUdt(part, t) = Chosen(part, t.variants[1])
    BY DEF DefaultUdt
  <2>3. t.variants[1].name \in Declared(t.variants) /\ Named(t.variants, t.variants[1].name) = t.variants[1]
    BY FirstVariantIs
  <2>4. UnionOf(Chosen(part, t.variants[1]), t)
    BY <1>4, <2>3
  <2>5. Default(part, t) \in Values
    BY ValuesKept DEF part
  <2> QED
    BY <2>1, <2>2, <2>4, <2>5
<1>7. ASSUME NEW v \in S PROVE Edits(part, t, v) \cap Values \subseteq S
  <2> DEFINE x == v.variant
             w == Named(t.variants, x)
  <2>1. v.kind = "udt" /\ x \in Declared(t.variants) /\ v.fields \in [Names -> ValuesTo[Nesting - 1]]
        /\ (w.type # <<>> => v.fields[x] \in Safe(w.type[1]))
    BY <1>5
  <2>2. w.name = x /\ x \in Names /\ (w.type # <<>> => w.type[1] \in Parts(t))
    BY <1>3, <2>1
  <2>3. Edits(part, t, v) = UnionEdits(part, t, v)
    BY <2>1, EditsAre
  <2>4. ASSUME NEW e \in UnionEdits(part, t, v) PROVE UnionOf(e, t)
    <3>1. \/ \E y \in Declared(t.variants) : e = Chosen(part, Named(t.variants, y))
          \/ w.type # <<>> /\ \E next \in part[w.type[1]].edits[FieldShown(part, v, w.name, w.type[1])] :
                                 e = Udt(w.name, [v.fields EXCEPT ![w.name] = next])
      BY <2>1 DEF UnionEdits
    <3>2. CASE \E y \in Declared(t.variants) : e = Chosen(part, Named(t.variants, y))
      BY <1>4, <3>2
    <3>3. CASE w.type # <<>> /\ \E next \in part[w.type[1]].edits[FieldShown(part, v, w.name, w.type[1])] :
                                   e = Udt(w.name, [v.fields EXCEPT ![w.name] = next])
      <4>1. PICK next \in part[w.type[1]].edits[FieldShown(part, v, w.name, w.type[1])] :
              e = Udt(w.name, [v.fields EXCEPT ![w.name] = next])
        BY <3>3
      <4>2. Closed(part[w.type[1]], Safe(w.type[1]))
        BY <1>1, <2>2, <3>3
      <4>3. FieldShown(part, v, w.name, w.type[1]) \in Safe(w.type[1])
        BY <2>1, <2>2, <3>3, <4>2 DEF FieldShown, Closed
      <4>4. next \in Safe(w.type[1])
        BY <4>1, <4>2, <4>3 DEF Closed
      <4> DEFINE f == [v.fields EXCEPT ![w.name] = next]
      <4>5. f[x] = next
        BY <2>1, <2>2
      <4>6. e = Udt(x, f)
        BY <2>2, <4>1
      <4> HIDE DEF f
      <4> QED
        BY <2>1, <4>4, <4>5, <4>6 DEF UnionOf
    <3> QED
      BY <3>1, <3>2, <3>3
  <2> QED
    BY <2>3, <2>4
<1>8. ASSUME NEW v \in S PROVE Validate(part, t, v) # "crash"
  <2> DEFINE x == v.variant
             w == Named(t.variants, x)
  <2>1. v.kind = "udt" /\ x \in Declared(t.variants) /\ (w.type # <<>> => v.fields[x] \in Safe(w.type[1]))
    BY <1>5
  <2>2. w.type # <<>> => part[w.type[1]].verdict[v.fields[x]] # "crash"
    BY <1>1, <1>3, <2>1 DEF NoCrash
  <2> QED
    BY <2>1, <2>2, KindsDiffer, ValidateIs, SMTT(40)
<1>9. S \subseteq Values
  OBVIOUS
<1> HIDE DEF S
<1>10. Safely(t, S)
  BY <1>6, <1>7, <1>8, <1>9, SafelyIf DEF part, Complex, Udts
<1> QED
  BY <1>10

\* Every type that turns no result round is safe, by induction on how deep it nests.
LEMMA AllSurvive == \A t \in Types : Survives(t)
<1> DEFINE S == {t \in Types : Survives(t)}
<1>1. ASSUME NEW t \in Types, Parts(t) \subseteq S PROVE Survives(t)
  <2> SUFFICES ASSUME ~Editor[t].turns PROVE \E T : Safely(t, T)
    BY DEF Survives
  <2>1. /\ t.kind # "result"
        /\ \A p \in Parts(t) : /\ PartSafe(Made(t)[p], p)
                               /\ p.kind \notin Complex => \A text \in Texts : Scalar(text) \in Safe(p)
    <3>1. \A p \in Parts(t) : Survives(p)
      BY <1>1
    <3> QED
      BY <3>1, PartsSafe
  <2> HIDE DEF S
  <2>2. CASE t.kind \in Scalars \cup {"bool", "void"}
    BY <2>2, SimpleSafe
  <2>3. CASE t.kind = "vec"
    BY <2>1, <2>3, TypeIs, VecSafe
  <2>4. CASE t.kind = "tuple"
    BY <2>1, <2>4, TypeIs, TupleSafe
  <2>5. CASE t.kind = "map"
    BY <2>1, <2>5, TypeIs, MapSafe
  <2>6. CASE t.kind = "option"
    BY <2>1, <2>6, TypeIs, OptionSafe
  <2>7. CASE t.kind = "struct"
    BY <2>1, <2>7, TypeIs, StructSafe
  <2>8. CASE t.kind = "enum"
    BY <2>8, EnumSafe
  <2>9. CASE t.kind = "union"
    BY <2>1, <2>9, UnionSafe
  <2> QED
    BY <2>1, <2>2, <2>3, <2>4, <2>5, <2>6, <2>7, <2>8, <2>9, TypeIs DEF Complex, Udts
<1>2. \A t \in Types : Parts(t) \subseteq S => t \in S
  BY <1>1
<1> HIDE DEF S
<1>3. Types \subseteq S
  BY <1>2, TypeInduction
<1> QED
  BY <1>3 DEF S

-----------------------------------------------------------------------------
(* What holds of every type *)

\* Whatever the user does in the controls of a type leaves a value there: no
\* onChange of a TypeEditor makes anything that the form could not hold.
THEOREM ControlsKeepValues == \A t \in Types : Closed(Editor[t], Values)
BY ValuesKept

\* What validateValue lets through is sent by canonicalValue in a form of the
\* type that the contract declares, for every type and every value.
THEOREM FineIsSent ==
  \A t \in Types : \A v \in Values :
      Editor[t].verdict[v] = "fine" => Editor[t].canonical[v] \in Forms /\ Editor[t].inhabits[Editor[t].canonical[v]]
<1>1. Nesting \in 0..Nesting
  BY ArgumentFormAssumption
<1> QED
  BY <1>1, AllSound DEF Sound, SoundOn, Values, Forms

\* A type in which no result can be turned round has a set of values that its
\* controls start in and do not leave, and of which none is read undefined.
THEOREM ControlsAreSafe ==
  \A t \in Types : ~Editor[t].turns =>
      \E S \in SUBSET Values : Closed(Editor[t], S) /\ \A v \in S : Editor[t].verdict[v] # "crash"
BY AllSurvive DEF Survives, Safely, NoCrash

-----------------------------------------------------------------------------
(* The form of an argument *)

ArgumentsShape(p) == p.at = "args" /\ DOMAIN p = {"at", "type", "value", "calls"}

\* What is shown is a value; and one that is safe, unless a result may have been turned round.
ArgumentsInv ==
    /\ ArgumentsShape(page) /\ wire = {}
    /\ page.type \in Types /\ page.value \in Values
    /\ ~Editor[page.type].turns => page.value \in Safe(page.type)

\* What a type that turns nothing round keeps its values in.
LEMMA SafeIs ==
  ASSUME NEW t \in Types, ~Editor[t].turns
  PROVE  Closed(Editor[t], Safe(t)) /\ NoCrash(Editor[t], Safe(t))
<1>1. \E S : Safely(t, S)
  BY AllSurvive DEF Survives
<1>2. Safely(t, Safe(t))
  BY <1>1 DEF Safe
<1> QED
  BY <1>2 DEF Safely

\* The form starts with the value of its editor.
LEMMA ArgumentsStart == ArgumentsInit => ArgumentsInv
<1> SUFFICES ASSUME ArgumentsInit PROVE ArgumentsInv
  OBVIOUS
<1>1. PICK t \in ArgumentTypes : page = [at |-> "args", type |-> t, value |-> Editor[t].initial, calls |-> 0]
  BY DEF ArgumentsInit
<1>2. t \in Types
  BY ArgumentFormAssumption
<1>3. page.type = t /\ page.value = Editor[t].initial /\ ArgumentsShape(page)
  BY <1>1 DEF ArgumentsShape
<1>4. Editor[t].initial \in Values
  BY <1>2, ValuesKept DEF Closed
<1>5. ~Editor[t].turns => Editor[t].initial \in Safe(t)
  BY <1>2, SafeIs DEF Closed
<1> QED
  BY <1>2, <1>3, <1>4, <1>5 DEF ArgumentsInit, ArgumentsInv

\* An event in one of its controls leaves a value, and a safe one where it was safe.
LEMMA ArgumentsStep ==
  ASSUME ArgumentsInv, ArgumentsNext
  PROVE  ArgumentsInv'
<1> DEFINE t == page.type
           v == page.value
<1>1. PICK next \in Editor[t].edits[v] : page' = [page EXCEPT !.value = next] /\ wire' = wire
  BY DEF ArgumentsNext, EditArgument, Show
<1>2. t \in Types /\ v \in Values
  BY DEF ArgumentsInv
<1>3. page'.type = t /\ page'.value = next /\ ArgumentsShape(page')
  BY <1>1 DEF ArgumentsInv, ArgumentsShape
<1>4. next \in Values
  BY <1>1, <1>2, ValuesKept DEF Closed
<1>5. ~Editor[t].turns => next \in Safe(t)
  BY <1>1, <1>2, SafeIs DEF Closed, ArgumentsInv
<1>6. wire' = {}
  BY <1>1 DEF ArgumentsInv
<1> HIDE DEF t, v
<1>7. page'.type \in Types /\ page'.value \in Values
  BY <1>2, <1>3, <1>4
<1>8. ~Editor[page'.type].turns => page'.value \in Safe(page'.type)
  BY <1>3, <1>5
<1> QED
  BY <1>3, <1>6, <1>7, <1>8 DEF ArgumentsInv

\* What validates is sent in the form of its type, and what is safe is read.
LEMMA ArgumentsAreSound == ArgumentsInv => ArgumentsHold
<1> SUFFICES ASSUME ArgumentsInv PROVE ArgumentsHold
  OBVIOUS
<1> DEFINE t == page.type
           v == page.value
<1>1. t \in Types /\ v \in Values /\ (~Editor[t].turns => v \in Safe(t))
  BY DEF ArgumentsInv
<1>2. Editor[t].verdict[v] = "fine" => Editor[t].inhabits[Editor[t].canonical[v]]
  BY <1>1, FineIsSent
<1>3. Editor[t].verdict[v] = "crash" => Editor[t].turns
  BY <1>1, SafeIs DEF NoCrash
<1> QED
  BY <1>2, <1>3 DEF ArgumentsHold
=============================================================================
