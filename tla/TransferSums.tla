----------------------------- MODULE TransferSums -----------------------------
(***************************************************************************)
(* The net balance changes of a transaction (asset-transfers.tsx): amounts *)
(* arrive as decimal texts of any number of places, are added as integers  *)
(* with a scale, and what nets to nothing is left out.                     *)
(***************************************************************************)
EXTENDS PageHost, Integers, SequencesExt

CONSTANTS
    Holders,     \* who sends and receives: addresses, "Mint", "Burn", "Network fee"
    Assets,
    MostPlaces,  \* no amount has more decimal places
    Amounts,     \* bound: the texts of amounts, <<integer without the point, places>>
    MaxFlow      \* bound: the transfers of one transaction

ASSUME TransferSumsAssumption ==
    /\ IsFiniteSet(Holders)
    /\ MostPlaces \in Nat /\ Amounts \subseteq Int \X (0..MostPlaces)
    /\ MaxFlow \in Nat

\* A text that is no decimal number, such as one with an exponent.
Malformed == "1e7"

\* Decimal(t): the code's decimal; what it cannot read counts as zero.
Zero == [value |-> 0, scale |-> 0]
Decimal(t) == IF t = <<Malformed>> THEN Zero ELSE [value |-> t[1], scale |-> t[2]]

\* 10 ** n
Tens[n \in 0..MostPlaces] == IF n = 0 THEN 1 ELSE 10 * Tens[n - 1]

Larger(a, b) == IF a < b THEN b ELSE a

\* Mutant: the integers are added as they are, whatever their places
AddUnaligned(x, y) == [scale |-> Larger(x.scale, y.scale), value |-> x.value + y.value]

Add(x, y) ==
    LET scale == Larger(x.scale, y.scale)
    IN [scale |-> scale, value |-> x.value * Tens[scale - x.scale] + y.value * Tens[scale - y.scale]]

\* One transfer is applied to the balance of one holder.
Apply(balances, edge, holder, sign) ==
    LET key == <<holder, edge.asset>>
        old == IF key \in DOMAIN balances THEN balances[key] ELSE Zero
        amount == Decimal(edge.amount)
    IN [k \in DOMAIN balances \cup {key} |->
          IF k = key THEN Add(old, [amount EXCEPT !.value = sign * @]) ELSE balances[k]]

\* The balances after the first i transfers: the sender first, then the receiver.
Balances(flow) ==
    LET after[i \in 0..Len(flow)] ==
          IF i = 0 THEN [k \in {} |-> Zero]
          ELSE Apply(Apply(after[i - 1], flow[i], flow[i].from, -1), flow[i], flow[i].to, 1)
    IN after

\* The rows of the table.
Grouped(flow) ==
    LET all == Balances(flow)[Len(flow)]
    IN [k \in {j \in DOMAIN all : all[j].value # 0} |-> all[k]]

-----------------------------------------------------------------------------
(* The panel shows the rows of the transaction in one of two groupings *)

Edges == [from : Holders, to : Holders, asset : Assets, amount : Amounts \cup {<<Malformed>>}]

SumsInit ==
    /\ \E flow \in SeqOf(Edges, MaxFlow) :
          page = [at |-> "transfers", flow |-> flow, rows |-> Grouped(flow), mode |-> "address", calls |-> 0]
    /\ wire = {} /\ db = None

GroupTransfers(m) == page.at = "transfers" /\ m # page.mode /\ Show([page EXCEPT !.mode = m])

SumsNext == \E m \in {"address", "execution"} : GroupTransfers(m)

-----------------------------------------------------------------------------

\* A decimal in units of the smallest place any amount has.
Units(x) == x.value * Tens[MostPlaces - x.scale]

\* The sum of f over every set of its arguments; the order is nobody's.
One(S) == CHOOSE x \in S : TRUE
Sums(f) ==
    LET sum[S \in SUBSET DOMAIN f] == IF S = {} THEN 0 ELSE f[One(S)] + sum[S \ {One(S)}]
    IN sum

\* What the table says of k; a holder without a row nets to nothing.
Net(rows, k) == IF k \in DOMAIN rows THEN Units(rows[k]) ELSE 0

\* The table says of everyone what came in less what went out, and each asset's
\* changes add up to nothing.
Exact(flow, rows) ==
    LET moved == Sums([i \in DOMAIN flow |-> Units(Decimal(flow[i].amount))])
        In(k)  == {i \in DOMAIN flow : <<flow[i].to, flow[i].asset>> = k}
        Out(k) == {i \in DOMAIN flow : <<flow[i].from, flow[i].asset>> = k}
    IN /\ \A k \in Holders \X Assets : Net(rows, k) = moved[In(k)] - moved[Out(k)]
       /\ \A a \in Assets : Sums([h \in Holders |-> Net(rows, <<h, a>>)])[Holders] = 0

\* However many places the amounts have and in whichever order they are added, a
\* row is exactly what its holder received less what it sent, a holder without a
\* row received as much as it sent, and no asset appears or disappears.
NetsAreExact == page.at = "transfers" => Exact(page.flow, page.rows)
=============================================================================
