----------------------------- MODULE OrgSettings -----------------------------
(***************************************************************************)
(* The settings of an organization (OrganizationSettingsPage of            *)
(* organization-settings-pages.tsx) below the shell that shows its name    *)
(* (OrgShell of org-shell.tsx): renaming, the access tokens, deletion.     *)
(***************************************************************************)
EXTENDS PageHost

CONSTANTS
    Names,      \* names of the organization; its picture goes with it
    Tokens      \* access tokens

Token == [id : Tokens, revoked : BOOLEAN]

SettingWrites == {"rename", "create", "revoke", "delete"}
SettingCall(op) == [op |-> op, n |-> 0, out |-> "sent", name |-> None, token |-> None, rows |-> {}, secret |-> {}, old |-> FALSE]

\* header: the name the shell shows; cached: the name in the list of
\* organizations the dashboard starts from, if it is there
SettingsMounted(cached) == [at |-> "orgsettings", shell |-> "loading", header |-> None, cached |-> cached, saved |-> FALSE,
    tokens |-> {}, stale |-> TRUE, unsure |-> FALSE, secret |-> {}, confirm |-> FALSE, busy |-> <<>>, calls |-> 0]

OrgSettingsInit ==
    /\ \E cached \in Names \cup {None} : page = SettingsMounted(cached)
    /\ wire = {SettingCall("org")}
    /\ \E name \in Names, owner \in BOOLEAN :
         db = [there |-> TRUE, name |-> name, owner |-> owner, tokens |-> {}]

InSettings == page.at = "orgsettings" /\ page.shell = "shown" /\ ~page.confirm

-----------------------------------------------------------------------------
(* The shell *)

\* The settings are mounted, and read the tokens, once the name is known.
OrganizationArrives(r, heard) ==
    /\ r \in wire /\ r.op = "org"
    /\ heard => r.out = "ok"
    /\ IF heard THEN Then([page EXCEPT !.shell = "shown", !.header = r.name, !.unsure = r.old], r, {SettingCall("tokens")})
       ELSE Then([page EXCEPT !.shell = "failed"], r, {})

\* The event that follows a renaming reaches the header and the cached list.
Announce(p, name) == [p EXCEPT !.header = name, !.cached = IF @ = None THEN None ELSE name, !.saved = TRUE]

-----------------------------------------------------------------------------
(* General.  One string tells which button is busy, and whatever ends first  *)
(* frees them all.                                                          *)

Frees(p) == [p EXCEPT !.busy = <<>>]

SaveOrganization(name) ==
    /\ InSettings /\ page.busy # <<"general">>
    /\ Call([page EXCEPT !.busy = <<"general">>], [SettingCall("rename") EXCEPT !.n = page.calls, !.name = name])

OrganizationSaved(r, heard) ==
    /\ r \in wire /\ r.op = "rename"
    /\ heard => r.out = "ok"
    /\ Then(IF heard THEN [Announce(Frees(page), r.name) EXCEPT !.unsure = r.old]
            ELSE [Frees(page) EXCEPT !.unsure = @ \/ r.out = "ok"], r, {})

-----------------------------------------------------------------------------
(* Access tokens *)

\* loadTokens; the one that follows a creation is what its button waits for
TokensArrive(r, heard) ==
    /\ r \in wire /\ r.op = "tokens"
    /\ heard => r.out = "ok"
    /\ LET shown == IF heard THEN [page EXCEPT !.tokens = r.rows, !.stale = r.old] ELSE page
       IN Then(IF r.n = 0 THEN shown ELSE Frees(shown), r, {})

CreateToken ==
    /\ InSettings /\ page.busy # <<"token">>
    /\ Call([page EXCEPT !.busy = <<"token">>], [SettingCall("create") EXCEPT !.n = page.calls])

\* The secret is shown once: that of the token whose answer came last.
TokenCreated(r, heard) ==
    /\ r \in wire /\ r.op = "create"
    /\ heard => r.out = "ok"
    /\ IF heard THEN Then([page EXCEPT !.secret = r.secret, !.stale = TRUE], r, {[SettingCall("tokens") EXCEPT !.n = 1]})
       ELSE Then([Frees(page) EXCEPT !.stale = @ \/ r.out = "ok"], r, {})

RevokeToken(t) ==
    /\ InSettings /\ t \in page.tokens /\ ~t.revoked /\ page.busy # <<"revoke", t.id>>
    /\ Call([page EXCEPT !.busy = <<"revoke", t.id>>], [SettingCall("revoke") EXCEPT !.token = t.id])

MarkRevoked(rows, id) == {[t EXCEPT !.revoked = @ \/ t.id = id] : t \in rows}

TokenRevoked(r, heard) ==
    /\ r \in wire /\ r.op = "revoke"
    /\ heard => r.out = "ok"
    /\ Then(IF heard THEN [Frees(page) EXCEPT !.tokens = MarkRevoked(@, r.token), !.stale = @ \/ r.old]
            ELSE [Frees(page) EXCEPT !.stale = @ \/ r.out = "ok"], r, {})

-----------------------------------------------------------------------------
(* Deletion *)

AskDelete == InSettings /\ db.owner /\ page.busy # <<"delete">> /\ Show([page EXCEPT !.confirm = TRUE])
CancelDelete == page.at = "orgsettings" /\ page.confirm /\ Show([page EXCEPT !.confirm = FALSE])
DeleteOrganization ==
    /\ page.at = "orgsettings" /\ page.confirm
    /\ Call([page EXCEPT !.confirm = FALSE, !.busy = <<"delete">>], SettingCall("delete"))
OrganizationDeleted(r, heard) ==
    /\ r \in wire /\ r.op = "delete"
    /\ heard => r.out = "ok"
    /\ Then(IF heard THEN [page EXCEPT !.shell = "left"] ELSE Frees(page), r, {})

-----------------------------------------------------------------------------
(* The server *)

\* what a change makes of the answers on their way
SettingsOutdated(W, ops) == {IF r.op \in ops /\ r.out = "ok" THEN [r EXCEPT !.old = TRUE] ELSE r : r \in W}

ServeSettings(r) ==
    /\ page.at = "orgsettings" /\ r.out = "sent" /\ db.there
    /\ UNCHANGED page
    /\ \/ /\ r.op \in {"org", "tokens"}
          /\ wire' = (wire \ {r}) \cup {[r EXCEPT !.out = "ok", !.name = db.name, !.rows = db.tokens]}
          /\ UNCHANGED db
       \/ /\ r.op = "rename"
          /\ db' = [db EXCEPT !.name = r.name]
          /\ wire' = SettingsOutdated(wire \ {r}, {"org", "rename"}) \cup {[r EXCEPT !.out = "ok"]}
       \/ /\ r.op = "create"
          /\ \E id \in Tokens \ {t.id : t \in db.tokens} :
               /\ db' = [db EXCEPT !.tokens = @ \cup {[id |-> id, revoked |-> FALSE]}]
               /\ wire' = SettingsOutdated(wire \ {r}, {"tokens"}) \cup {[r EXCEPT !.out = "ok", !.secret = {id}]}
       \/ /\ r.op = "revoke" /\ \E t \in db.tokens : t.id = r.token
          /\ db' = [db EXCEPT !.tokens = {[t EXCEPT !.revoked = @ \/ t.id = r.token] : t \in @}]
          /\ wire' = SettingsOutdated(wire \ {r}, {"tokens"}) \cup {[r EXCEPT !.out = "ok"]}
       \/ /\ r.op = "delete" /\ db.owner
          /\ db' = [db EXCEPT !.there = FALSE]
          /\ wire' = (wire \ {r}) \cup {[r EXCEPT !.out = "ok"]}

OrgSettingsNext ==
    /\ page.at = "orgsettings"
    /\ \/ \E name \in Names : SaveOrganization(name)
       \/ CreateToken \/ \E t \in page.tokens : RevokeToken(t)
       \/ AskDelete \/ CancelDelete \/ DeleteOrganization
       \/ \E r \in wire :
            \/ ServeSettings(r)
            \/ \E heard \in BOOLEAN :
                 \/ OrganizationArrives(r, heard) \/ OrganizationSaved(r, heard) \/ TokensArrive(r, heard)
                 \/ TokenCreated(r, heard) \/ TokenRevoked(r, heard) \/ OrganizationDeleted(r, heard)

-----------------------------------------------------------------------------
(* Properties *)

OrgSettingsTypeOK == page.at = "orgsettings" =>
    /\ page.tokens \subseteq Token /\ db.tokens \subseteq Token
    /\ page.cached \in Names \cup {None} /\ page.header \in Names \cup {None}

\* The name at the top is the stored one, and from the first renaming on so is
\* the one the dashboard will start from, unless two renamings crossed, one is
\* on its way, or its answer never came.
HeaderAgrees == page.at = "orgsettings" =>
    \/ page.shell # "shown" \/ page.unsure \/ InFlight({"rename"})
    \/ page.header = db.name /\ (page.saved => page.cached \in {None, db.name})

\* The tokens on display are the stored ones, a revoked one marked, unless a
\* reading crossed a change, a change is on its way, or its answer never came;
\* a secret on display is that of a token that exists.
TokensAgree == page.at = "orgsettings" =>
    /\ page.stale \/ page.shell = "left" \/ InFlight({"create", "revoke"}) \/ page.tokens = db.tokens
    /\ page.secret \subseteq {t.id : t \in db.tokens}
=============================================================================
