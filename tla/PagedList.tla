------------------------------ MODULE PagedList ------------------------------
(***************************************************************************)
(* A list that is read one page at a time: the accounts, the contracts and *)
(* the alert rules of a project.  The server answers a request without a   *)
(* cursor with the first rows of its table and one with a cursor with rows *)
(* that come after it, and gives the cursors of the page's two buttons.    *)
(* Which rows come first is left open, and how many a page has (20 in the *)
(* code): any rows may be a page, and any may come after a cursor.         *)
(***************************************************************************)
EXTENDS PageHost

Reading == [rows : SUBSET db, cursors : SUBSET {"prev", "next"}]

\* without a cursor: nothing comes before, and the rows that did not fit come next
FirstReadings == {p \in Reading :
    /\ "prev" \notin p.cursors
    /\ "next" \in p.cursors <=> p.rows # db
    /\ p.rows = {} => db = {}}

\* With one, "Back" as much as "Next": the rows after it, with the first of them as
\* the cursor back.
LaterReadings == {p \in Reading :
    /\ "prev" \in p.cursors <=> p.rows # {}
    /\ "next" \in p.cursors => p.rows \notin {{}, db}}

\* What the answer to r may hold; one that failed, or is no list, holds nothing.
Readings(r, first, out) ==
    IF out # "ok" \/ r.op \notin first \cup {"turn"} THEN {[rows |-> {}, cursors |-> {}]}
    ELSE IF r.op = "turn" THEN LaterReadings ELSE FirstReadings

\* The page p when the list r has arrived.  It is the whole table if it was read
\* from the start and nothing comes next; no button says so of a later page.
PageRead(p, r) == IF r.out # "ok" THEN p
    ELSE [p EXCEPT !.rows = r.rows, !.cursors = r.cursors, !.stale = r.old,
                   !.whole = r.op # "turn" /\ r.cursors = {}]

\* The list has rows of the server only, and all of them when it is the whole table.
ShowsTable == page.rows \subseteq db /\ (page.whole => page.rows = db)
=============================================================================
