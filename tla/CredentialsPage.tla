--------------------------- MODULE CredentialsPage ---------------------------
(***************************************************************************)
(* The page that lists Credentials and shows, edits, validates, revokes    *)
(* and deletes them (credentials.js).  Its dialogs are parts of the page:  *)
(* while one is open, or waits for an answer, the list can still be used.  *)
(*                                                                         *)
(* What is in the fields of a dialog is named by the Credential it was     *)
(* taken from; None stands for empty fields.                               *)
(***************************************************************************)
EXTENDS FiniteSets, Naturals

CONSTANTS Credentials,
          MaxCalls,       \* bound: requests under way
          MaxPanels,      \* bound: dialogs open at a time
          None

VARIABLES page, calls

vars == <<page, calls>>

States == {"active", "revoked", "deleted"}
Closed == [item |-> None, sending |-> FALSE]

Init ==
  /\ page = [rows |-> [id \in {} |-> "active"],
             edit |-> [shown |-> FALSE, form |-> FALSE, item |-> None, values |-> None,
                       saving |-> FALSE],
             detail |-> [shown |-> FALSE, meta |-> None, fields |-> {}],
             delete |-> Closed, revoke |-> Closed]
  /\ calls = {[kind |-> "list", id |-> None]}

Panels == {panel \in {"edit", "detail"} : page[panel].shown}
          \cup {panel \in {"delete", "revoke"} : page[panel].item # None}
MayOpen(panel) == Cardinality(Panels \cup {panel}) <= MaxPanels

Send(c) == Cardinality(calls) < MaxCalls /\ calls' = calls \cup {c}
Ask(kind, id) == Send([kind |-> kind, id |-> id])

\* A change that succeeded is followed by loading the list again.
AndReload(c, ok) == calls' = (calls \ {c}) \cup
                      IF ok THEN {[kind |-> "list", id |-> None]} ELSE {}

-----------------------------------------------------------------------------
(* The list and the buttons of its rows.                                    *)

LoadCredentials == Ask("list", None) /\ UNCHANGED page

\* If the Credentials or the providers cannot be loaded the old rows stay.
Listed(c, ok, rows) ==
  /\ c.kind = "list" /\ calls' = calls \ {c}
  /\ page' = IF ok THEN [page EXCEPT !.rows = rows] ELSE page

\* Whether validation and revocation are supported the server says.
Offered(id) ==
  {"view"} \cup (IF page.rows[id] = "active" THEN {"validate"} ELSE {})
           \cup (IF page.rows[id] = "active" THEN {"edit"} ELSE {})
           \cup (IF page.rows[id] # "deleted" THEN {"revoke", "delete"} ELSE {})

MayClick(action, id) == id \in DOMAIN page.rows /\ action \in Offered(id)

ValidateCredential(id) == MayClick("validate", id) /\ Ask("validate", id) /\ UNCHANGED page

Validated(c, ok) == c.kind = "validate" /\ AndReload(c, ok) /\ UNCHANGED page

-----------------------------------------------------------------------------
(* The details: two loads that overlap leave the fields of both.            *)

OpenDetail(id) ==
  /\ MayClick("view", id) /\ MayOpen("detail")
  /\ page' = [page EXCEPT !.detail.shown = TRUE, !.detail.meta = None, !.detail.fields = {}]
  /\ Ask("detail", id)

DetailLoaded(c, ok) ==
  /\ c.kind = "detail"
  /\ IF ok
     THEN /\ page' = [page EXCEPT !.detail.meta = c.id, !.detail.fields = @ \cup {c.id}]
          /\ calls' = (calls \ {c}) \cup {[kind |-> "scope", id |-> c.id]}
     ELSE UNCHANGED page /\ calls' = calls \ {c}

ScopeLoaded(c) == c.kind = "scope" /\ calls' = calls \ {c} /\ UNCHANGED page

CloseDetail ==
  /\ page.detail.shown
  /\ page' = [page EXCEPT !.detail.shown = FALSE, !.detail.meta = None, !.detail.fields = {}]
  /\ UNCHANGED calls

-----------------------------------------------------------------------------
(* The edit.                                                                *)

\* The fields are emptied; what is edited changes when the answer comes.
OpenEdit(id) ==
  /\ MayClick("edit", id) /\ MayOpen("edit")
  /\ page' = [page EXCEPT !.edit.shown = TRUE, !.edit.values = None]
  /\ Ask("edit", id)

EditLoaded(c, ok) ==
  /\ c.kind = "edit" /\ calls' = calls \ {c}
  /\ page' = IF ok
             THEN [page EXCEPT !.edit.item = c.id, !.edit.values = c.id, !.edit.form = TRUE]
             ELSE [page EXCEPT !.edit.form = FALSE]

\* Only when something differs; required fields that are there must be filled.
SubmitEdit ==
  /\ page.edit.shown /\ page.edit.form /\ ~page.edit.saving /\ page.edit.item # None
  /\ page' = [page EXCEPT !.edit.saving = TRUE]
  /\ Send([kind |-> "update", id |-> page.edit.item, values |-> page.edit.values])

CloseEdit ==
  /\ page.edit.shown
  /\ page' = [page EXCEPT !.edit.shown = FALSE, !.edit.item = None]
  /\ UNCHANGED calls

\* The answer closes whatever edit is open by then.
Updated(c, ok) ==
  /\ c.kind = "update" /\ AndReload(c, ok)
  /\ page' = IF ok
             THEN [page EXCEPT !.edit.saving = FALSE, !.edit.shown = FALSE, !.edit.item = None]
             ELSE [page EXCEPT !.edit.saving = FALSE]

-----------------------------------------------------------------------------
(* Revoke and delete ask for a confirmation that names the Credential.      *)

Confirmed == {"delete", "revoke"}

OpenConfirmation(action, id) ==
  /\ MayClick(action, id) /\ MayOpen(action)
  /\ page' = [page EXCEPT ![action].item = id]
  /\ UNCHANGED calls

CloseConfirmation(action) ==
  /\ page[action].item # None /\ ~page[action].sending
  /\ page' = [page EXCEPT ![action].item = None]
  /\ UNCHANGED calls

Confirm(action) ==
  /\ page[action].item # None /\ ~page[action].sending
  /\ page' = [page EXCEPT ![action].sending = TRUE]
  /\ Ask(action, page[action].item)

Done(c, ok) ==
  /\ c.kind \in Confirmed /\ AndReload(c, ok)
  /\ page' = [page EXCEPT ![c.kind] = [item |-> IF ok THEN None ELSE @.item,
                                       sending |-> FALSE]]

-----------------------------------------------------------------------------
Next ==
  \/ LoadCredentials \/ CloseDetail \/ SubmitEdit \/ CloseEdit
  \/ \E id \in Credentials :
       \/ ValidateCredential(id) \/ OpenDetail(id) \/ OpenEdit(id)
       \/ \E action \in Confirmed : OpenConfirmation(action, id)
  \/ \E action \in Confirmed : CloseConfirmation(action) \/ Confirm(action)
  \/ \E c \in calls, ok \in BOOLEAN :
       \/ \E list \in SUBSET Credentials : \E rows \in [list -> States] : Listed(c, ok, rows)
       \/ Validated(c, ok) \/ DetailLoaded(c, ok) \/ ScopeLoaded(c)
       \/ EditLoaded(c, ok) \/ Updated(c, ok) \/ Done(c, ok)

Spec == Init /\ [][Next]_vars

-----------------------------------------------------------------------------
\* What is saved to a Credential was taken from its own fields, in whatever
\* order the answers of several edits come: values of one Credential are never
\* written to another.  (They may be blank: an edit that is being loaded has
\* emptied the fields of the one that is open.)
ActsOnWhatIsShown ==
  \A c \in calls : c.kind = "update" => c.values \in {c.id, None}
=============================================================================
