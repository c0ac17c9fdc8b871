----------------------------- MODULE MembersPage -----------------------------
(***************************************************************************)
(* The members of an organization (OrganizationMembersPage of              *)
(* organization-settings-pages.tsx): the list of members and of            *)
(* invitations, the dialogs that invite and edit, and the details of one   *)
(* member, whose dangerous buttons are pressed twice.                      *)
(***************************************************************************)
EXTENDS PageHost

CONSTANTS
    People,       \* those who are, or may become, members
    Registered,   \* those of them who have an account
    Addressed     \* bound: the lists of addresses typed into the dialog

ASSUME RegisteredAssumption == Registered \subseteq People

\* whoever owns the organization at first: the user, or somebody else
Founder == "founder"
ASSUME FounderAssumption == Founder \notin People

Member == [id: People \cup {Founder}, role: {"viewer", "member", "owner"}, status: {"active", "suspended"}, owner: BOOLEAN]
MemberOf(M, i) == {m \in M : m.id = i}

MemberWrites == {"invite", "edit", "status", "revoke", "remove", "owner"}

\* who and the rest: the addresses still to be invited; change: the role and
\* the status a PATCH sends; row: the member in its answer
MemberCall(op, who) == [op |-> op, who |-> who, rest |-> <<>>, out |-> "sent",
    change |-> [role |-> None, status |-> None], row |-> {}, members |-> {}, invited |-> {}, got |-> {}, old |-> FALSE]
MemberList(after) == [MemberCall("all", None) EXCEPT !.rest = after]

\* busy names one button; asked: whom the second press was asked for
MembersMounted(owns) == [at |-> "members", owns |-> owns, members |-> {}, invited |-> {}, stale |-> TRUE,
    detail |-> {}, confirm |-> None, asked |-> None, editing |-> {}, inviting |-> FALSE, busy |-> <<>>, calls |-> 0]

MembersInit ==
    /\ \E owns \in BOOLEAN : page = MembersMounted(owns)
    /\ wire = {MemberList(<<>>)}
    /\ \E known \in SUBSET Registered :
         db = [members |-> [id: {Founder}, role: {"owner"}, status: {"active"}, owner: {TRUE}]
                           \cup [id: known, role: {"member"}, status: {"active"}, owner: {FALSE}],
               invited |-> {}]

-----------------------------------------------------------------------------
(* What is on the screen: the search and the filters only hide rows *)

OnMembers == page.at = "members" /\ page.detail = {} /\ page.editing = {} /\ ~page.inviting
InDetails == page.at = "members" /\ page.detail # {} /\ page.editing = {} /\ ~page.inviting

\* A member, or nobody, is opened, and an effect forgets the first press.
Selects(p, d) == [p EXCEPT !.detail = d, !.confirm = None, !.asked = None]

OpenDetails(m) == OnMembers /\ m \in page.members /\ Show(Selects(page, {m}))
CloseDetails == InDetails /\ Show(Selects(page, {}))

\* Who is offered what: the owner's row is nobody's to change.
Offers(m, action) ==
    /\ ~m.owner
    /\ action \in {"suspend", "owner"} => page.owns
    /\ action = "suspend" => m.status = "active"

Presses(p, action, i) == [p EXCEPT !.confirm = action, !.asked = i]
Ask(action) ==
    /\ InDetails /\ page.confirm # action
    /\ \E m \in page.detail : Offers(m, action) /\ Show(Presses(page, action, m.id))
Confirmed(m, action) == InDetails /\ m \in page.detail /\ Offers(m, action) /\ page.confirm = action

-----------------------------------------------------------------------------
(* loadAll: three reads, of which the lists of members and of invitations   *)
(* are made at times of their own                                           *)

Busy(p, key) == [p EXCEPT !.busy = key]
Free(p) == [p EXCEPT !.busy = <<>>]

\* The one that ends an invitation closes its dialog, even if it failed.
MembersArrive(r, heard) ==
    /\ r \in wire /\ r.op = "all"
    /\ heard => r.got = {"members", "invited"}
    /\ LET read == IF heard THEN [page EXCEPT !.members = r.members, !.invited = r.invited, !.stale = r.old]
                   ELSE [page EXCEPT !.stale = @ \/ r.rest # <<>>]
       IN Then(IF r.rest = <<>> THEN read ELSE [Free(read) EXCEPT !.inviting = FALSE], r, {})

-----------------------------------------------------------------------------
(* Changes of one member.  An answer that was lost or refused is not heard. *)

Missed(r) == [page EXCEPT !.stale = @ \/ r.out = "ok"]

\* the menu of a row, or the details; nothing disables the menu
SetMemberStatus(m) ==
    /\ \/ OnMembers /\ m \in page.members /\ ~m.owner
       \/ InDetails /\ m \in page.detail /\ page.owns /\ ~m.owner /\ page.busy # <<"status", m.id>>
          /\ m.status = "active" => page.confirm = "suspend"
    /\ Call(Busy(page, <<"status", m.id>>),
            [MemberCall("status", m.id) EXCEPT !.change.status = IF m.status = "active" THEN "suspended" ELSE "active"])

\* Bound: no dialog is opened that no call could follow.
OpenEdit(m) == OnMembers /\ m \in page.members /\ page.calls < MaxCalls /\ Show([page EXCEPT !.editing = {m}])
CloseEdit == page.at = "members" /\ page.editing # {} /\ Show([page EXCEPT !.editing = {}])

\* Only what differs from the member as it was when the dialog was opened is sent.
SaveEdit(role, status) ==
    /\ page.at = "members"
    /\ \E m \in page.editing :
         LET change == [role |-> IF role = m.role THEN None ELSE role, status |-> IF status = m.status THEN None ELSE status]
         IN /\ page.busy # <<"edit", m.id>>
            /\ m.owner => role = m.role /\ status = m.status
            /\ IF change = [role |-> None, status |-> None] THEN Show([page EXCEPT !.editing = {}])
               ELSE Call(Busy(page, <<"edit", m.id>>), [MemberCall("edit", m.id) EXCEPT !.change = change])

\* The row is the one of the answer, and so is an open detail of that member.
\* An edit closes whichever member is being edited by then.
MemberPatched(r, heard) ==
    /\ r \in wire /\ r.op \in {"edit", "status"}
    /\ heard => r.out = "ok"
    /\ LET there == MemberOf(page.members, r.who)
           rows == IF there = {} THEN page.members ELSE (page.members \ there) \cup r.row
           listed == [Free(page) EXCEPT !.members = rows, !.stale = @ \/ r.old]
           shown == IF MemberOf(page.detail, r.who) = {} THEN listed ELSE Selects(listed, r.row)
       IN Then(IF ~heard THEN Free(Missed(r))
               ELSE IF r.op = "edit" THEN [shown EXCEPT !.editing = {}] ELSE Presses(shown, None, None), r, {})

RemoveMember(m) ==
    /\ Confirmed(m, "remove") /\ page.busy # <<"remove", m.id>>
    /\ Call(Busy(page, <<"remove", m.id>>), MemberCall("remove", m.id))

\* whichever member is open by then
MemberRemoved(r, heard) ==
    /\ r \in wire /\ r.op = "remove"
    /\ heard => r.out = "ok"
    /\ Then(IF heard THEN Selects([Free(page) EXCEPT !.members = @ \ MemberOf(@, r.who), !.stale = @ \/ r.old], {})
            ELSE Free(Missed(r)), r, {})

TransferOwnership(m) ==
    /\ Confirmed(m, "owner") /\ page.busy # <<"owner", m.id>>
    /\ Call(Busy(page, <<"owner", m.id>>), MemberCall("owner", m.id))

\* The page goes on to offer what only the owner may do.
OwnershipTransferred(r, heard) ==
    /\ r \in wire /\ r.op = "owner"
    /\ heard => r.out = "ok"
    /\ Then(IF heard THEN Selects([Free(page) EXCEPT !.stale = @ \/ r.old,
                                       !.members = {[m EXCEPT !.owner = m.id = r.who] : m \in @}], {})
            ELSE Free(Missed(r)), r, {})

-----------------------------------------------------------------------------
(* Invitations *)

OpenInvite == OnMembers /\ page.calls < MaxCalls /\ Show([page EXCEPT !.inviting = TRUE])
CloseInvite == page.at = "members" /\ page.inviting /\ Show([page EXCEPT !.inviting = FALSE])

\* The addresses are invited one after the other.
SendInvites(to) ==
    /\ page.at = "members" /\ page.inviting /\ to # <<>> /\ page.busy # <<"invite">>
    /\ Call(Busy(page, <<"invite">>), [MemberCall("invite", Head(to)) EXCEPT !.rest = Tail(to)])

\* Somebody with an account is a member at once.  The first failure ends it:
\* the invitations before it are sent, and not on display.
InviteSent(r, heard) ==
    /\ r \in wire /\ r.op = "invite"
    /\ heard => r.out = "ok"
    /\ LET joined == [page EXCEPT !.members = IF r.row = {} THEN @ ELSE (@ \ MemberOf(@, r.who)) \cup r.row,
                                  !.stale = @ \/ r.row = {} \/ r.old]
       IN IF ~heard THEN Then(Free(Missed(r)), r, {})
          ELSE Then(joined, r, {IF r.rest = <<>> THEN MemberList(<<"invite">>)
                                ELSE [MemberCall("invite", Head(r.rest)) EXCEPT !.rest = Tail(r.rest)]})

RevokeInvitation(i) ==
    /\ OnMembers /\ i \in page.invited /\ page.busy # <<"revoke", i>>
    /\ Call(Busy(page, <<"revoke", i>>), MemberCall("revoke", i))

InvitationRevoked(r, heard) ==
    /\ r \in wire /\ r.op = "revoke"
    /\ heard => r.out = "ok"
    /\ Then(IF heard THEN Selects([Free(page) EXCEPT !.invited = @ \ {r.who}, !.stale = @ \/ r.old], {}) ELSE Free(Missed(r)), r, {})

-----------------------------------------------------------------------------
(* The server *)

\* what a change of i, or of everybody, makes of the answers on their way
MembersOutdated(W, i) ==
    {IF r.got # {} \/ (r.out = "ok" /\ i \in {r.who, None}) THEN [r EXCEPT !.old = TRUE] ELSE r : r \in W}

Patched(m, change) ==
    [m EXCEPT !.role = IF change.role = None THEN @ ELSE change.role,
              !.status = IF change.status = None THEN @ ELSE change.status]

ServeMemberWrite(r) ==
    LET who == MemberOf(db.members, r.who)
        known == \E m \in who : ~m.owner
        joins == [id |-> r.who, role |-> "member", status |-> "active", owner |-> FALSE]
        Serves(M, I, row, changed) ==
            /\ db' = [members |-> M, invited |-> I]
            /\ wire' = MembersOutdated(wire \ {r}, changed) \cup {[r EXCEPT !.out = "ok", !.row = row]}
            /\ UNCHANGED page
    IN /\ r.op \in MemberWrites /\ r.out = "sent"
       /\ \/ /\ r.op \in {"edit", "status"} /\ known
             /\ LET row == {Patched(m, r.change) : m \in who}
                IN Serves((db.members \ who) \cup row, db.invited, row, r.who)
          \/ /\ r.op = "remove" /\ known
             /\ Serves(db.members \ who, db.invited, {}, r.who)
          \/ /\ r.op = "owner" /\ page.owns /\ known /\ \E m \in MemberOf(db.members, Founder) : m.owner
             /\ Serves({[m EXCEPT !.owner = m.id = r.who, !.role = IF m.id = r.who THEN "owner" ELSE @] : m \in db.members},
                       db.invited, {}, None)
          \/ /\ r.op = "invite" /\ r.who \in Registered /\ who = {}
             /\ Serves(db.members \cup {joins}, db.invited, {joins}, r.who)
          \/ /\ r.op = "invite" /\ r.who \notin Registered /\ who = {}
             /\ Serves(db.members, db.invited \cup {r.who}, {}, r.who)
          \/ /\ r.op = "revoke" /\ r.who \in db.invited
             /\ Serves(db.members, db.invited \ {r.who}, {}, r.who)

\* Somebody accepts an invitation.
Accepts(i) ==
    /\ i \in db.invited /\ MemberOf(db.members, i) = {}
    /\ db' = [members |-> db.members \cup {[id |-> i, role |-> "member", status |-> "active", owner |-> FALSE]},
              invited |-> db.invited \ {i}]
    /\ wire' = MembersOutdated(wire, i)
    /\ page' = [page EXCEPT !.stale = TRUE]

ServeMembersRead(r, part) ==
    /\ r.op = "all" /\ part \in {"members", "invited"} \ r.got
    /\ wire' = (wire \ {r}) \cup {IF part = "members" THEN [r EXCEPT !.got = @ \cup {part}, !.members = db.members]
                                  ELSE [r EXCEPT !.got = @ \cup {part}, !.invited = db.invited]}
    /\ UNCHANGED <<page, db>>

MembersNext ==
    /\ page.at = "members"
    /\ \/ \E m \in page.members : OpenDetails(m) \/ OpenEdit(m) \/ SetMemberStatus(m)
       \/ \E m \in page.detail : SetMemberStatus(m) \/ RemoveMember(m) \/ TransferOwnership(m)
       \/ \E action \in {"suspend", "remove", "owner"} : Ask(action)
       \/ CloseDetails \/ CloseEdit \/ OpenInvite \/ CloseInvite
       \/ \E role \in {"viewer", "member"}, status \in {"active", "suspended"} : SaveEdit(role, status)
       \/ \E to \in Addressed : SendInvites(to)
       \/ \E i \in page.invited : RevokeInvitation(i)
       \/ \E i \in db.invited : Accepts(i)
       \/ \E r \in wire :
            \/ ServeMemberWrite(r) \/ \E part \in {"members", "invited"} : ServeMembersRead(r, part)
            \/ \E heard \in BOOLEAN :
                 \/ MembersArrive(r, heard) \/ MemberPatched(r, heard) \/ MemberRemoved(r, heard)
                 \/ OwnershipTransferred(r, heard) \/ InviteSent(r, heard) \/ InvitationRevoked(r, heard)

-----------------------------------------------------------------------------
(* Properties *)

MembersTypeOK == page.at = "members" =>
    /\ page.members \subseteq Member /\ db.members \subseteq Member
    /\ page.invited \subseteq People /\ db.invited \subseteq People
    /\ Cardinality(page.detail) <= 1 /\ Cardinality(page.editing) <= 1

\* Members and invitations on display are those of the server, the role of who
\* became the owner excepted, unless a reading crossed a change, somebody else
\* made one, or the answer to a change never came.
MembersAgree == page.at = "members" =>
    LET Known(M) == {[m EXCEPT !.role = IF m.owner THEN "owner" ELSE @] : m \in M}
    IN \/ page.stale \/ InFlight(MemberWrites)
       \/ Known(page.members) = Known(db.members) /\ page.invited = db.invited

\* A button that asks to be pressed again was pressed for the member on display,
\* whatever was opened, closed, changed or removed in between.
AskedForThisOne == page.at = "members" =>
    (page.confirm # None => \E m \in page.detail : m.id = page.asked)
=============================================================================
