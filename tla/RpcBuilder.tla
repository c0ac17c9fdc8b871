------------------------------ MODULE RpcBuilder ------------------------------
(***************************************************************************)
(* The JSON-RPC workbench of a virtual network (rpc-builder.tsx): requests *)
(* are written in documents, of which the last few are kept, and run one   *)
(* at a time; the answer of a request may arrive when another document is  *)
(* open, or when its own has been dropped.                                 *)
(***************************************************************************)
EXTENDS PageHost, SequencesExt

CONSTANTS
    Methods,       \* what a request may ask for
    MaxDocuments   \* how many documents are kept (14 in the code)

ASSUME MaxDocumentsAssumption == MaxDocuments \in Nat \ {0}

\* A body is empty, no request, or the request of a method.
Bodies == Methods \cup {"empty", "broken"}

\* asked: the method last run from the document, for the property only
Document(i, body) == [id |-> i, body |-> body, response |-> None, asked |-> None]

RpcMounted == [at |-> "rpc", view |-> "examples", documents |-> <<>>, chosen |-> 0, running |-> FALSE,
    made |-> 0, calls |-> 0]

RpcInit == page = RpcMounted /\ wire = {} /\ db = None

OnRpc == page.at = "rpc"
Documents == IF OnRpc THEN ToSet(page.documents) ELSE {}

\* A new document comes first and is opened; the last of too many is dropped.
AddDocument(body) ==
    /\ OnRpc /\ page.made <= MaxDocuments   \* bound: one document more than is kept
    /\ LET all == <<Document(page.made + 1, body)>> \o page.documents
       IN Show([page EXCEPT
            !.documents = SubSeq(all, 1, IF Len(all) < MaxDocuments THEN Len(all) ELSE MaxDocuments),
            !.chosen = page.made + 1, !.made = @ + 1, !.view = "request"])

\* Every document whose id is i is patched: one, or none if it was dropped.
Update(p, i, patch) ==
    [p EXCEPT !.documents = [k \in DOMAIN @ |->
        [f \in DOMAIN @[k] |-> IF @[k].id = i /\ f \in DOMAIN patch THEN patch[f] ELSE @[k][f]]]]

Active(d) == OnRpc /\ page.view = "request" /\ d.id = page.chosen

EditBody(b) ==
    \E d \in Documents :
        /\ Active(d) /\ b # d.body
        /\ Show(Update(page, d.id, [body |-> b]))

\* A request that is one, while none is running.
RunRequest ==
    \E d \in Documents :
        /\ Active(d) /\ d.body \in Methods
        /\ ~page.running
        /\ Call([Update(page, d.id, [asked |-> d.body]) EXCEPT !.running = TRUE],
                [op |-> "rpc", document |-> d.id, method |-> d.body, out |-> "sent"])

ServeRpc ==
    \E r \in wire, o \in {"ok", "fail"} :
        /\ r.op = "rpc" /\ r.out = "sent"
        /\ wire' = (wire \ {r}) \cup {[r EXCEPT !.out = o]}
        /\ UNCHANGED <<page, db>>

\* An answer, or an error in its place, is for the document that was open when the
\* request was run.
RpcArrives ==
    \E r \in Answers("rpc") :
        Then([Update(page, r.document, [response |-> r.method]) EXCEPT !.running = FALSE], r, {})

OpenDocument(i) ==
    /\ OnRpc /\ i \in {d.id : d \in Documents}
    /\ Show([page EXCEPT !.chosen = i, !.view = "request"])

ShowExamples == OnRpc /\ page.view # "examples" /\ Show([page EXCEPT !.view = "examples"])
ShowCalls == OnRpc /\ page.view # "logs" /\ Show([page EXCEPT !.view = "logs"])

RpcNext ==
    \/ \E m \in Methods \cup {"empty"} : AddDocument(m)
    \/ \E b \in Bodies : EditBody(b)
    \/ \E i \in 1 .. MaxDocuments + 1 : OpenDocument(i)
    \/ RunRequest \/ ServeRpc \/ RpcArrives \/ ShowExamples \/ ShowCalls

\* Wherever the user has gone while a request ran, its answer is in its own
\* document, or nowhere; and the run button waits for exactly one answer.
AnswersFindTheirDocument ==
    LET running == {r \in wire : r.op = "rpc"}
    IN page.at = "rpc" =>
        /\ \A d \in Documents :
              (~\E r \in running : r.document = d.id) => d.response = d.asked
        /\ Cardinality(running) = IF page.running THEN 1 ELSE 0

RpcTypeOK == page.at = "rpc" =>
    /\ Len(page.documents) <= MaxDocuments
    /\ \A d \in Documents : d.body \in Bodies /\ d.id \in 1 .. page.made
=============================================================================
