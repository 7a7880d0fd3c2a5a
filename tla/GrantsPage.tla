------------------------------ MODULE GrantsPage ------------------------------
(***************************************************************************)
(* The page that lists, creates, edits and removes the grants of Consumers *)
(* (consumer-grants.js).  A list that arrives draws the form of a new      *)
(* grant again, also while the user fills it in.                           *)
(*                                                                         *)
(* A grant is named by its Consumer and Credential.  The previews that     *)
(* accompany a change are only shown, and left out.                        *)
(***************************************************************************)
EXTENDS FiniteSets, Naturals

CONSTANTS Consumers,
          Credentials,
          Secrets,        \* the names of the secrets of each Credential
          MaxCalls,       \* bound: requests under way
          None

VARIABLES page, calls

vars == <<page, calls>>

Grants == Consumers \X Credentials
Named == UNION {Secrets[k] : k \in Credentials}

NewGrant == [shown |-> FALSE, consumer |-> None, credential |-> None, drawn |-> {},
             names |-> {}, sending |-> FALSE]

Init ==
  /\ page = [loading |-> TRUE, rows |-> {}, consumers |-> {}, credentials |-> {},
             usable |-> {}, create |-> NewGrant,
             edit |-> [item |-> None, named |-> FALSE, saving |-> FALSE]]
  /\ calls = {[kind |-> "list"]}

Send(c) == Cardinality(calls) < MaxCalls /\ calls' = calls \cup {c}

-----------------------------------------------------------------------------
(* The form of a new grant.                                                 *)

\* renderCreateSecrets: a box per secret of the chosen Credential.
SecretsDrawn(form, k, names) ==
  [form EXCEPT !.credential = k, !.drawn = IF k = None THEN {} ELSE Secrets[k], !.names = names]

\* A form that is not shown is drawn when it is opened; only the Consumer stays.
Hidden(p) == [p EXCEPT !.create = [SecretsDrawn(@, None, {}) EXCEPT !.shown = FALSE]]

First(credentials) == IF credentials = {} THEN {None} ELSE credentials

OpenCreate ==
  /\ \E k \in First(page.credentials) :
       page' = [page EXCEPT !.create = [SecretsDrawn(@, k, {}) EXCEPT !.shown = TRUE]]
  /\ UNCHANGED calls

CloseCreate ==
  /\ page.create.shown
  /\ page' = Hidden(page)
  /\ UNCHANGED calls

EnterConsumer(c) ==
  /\ page.create.shown
  /\ page' = [page EXCEPT !.create.consumer = c]
  /\ UNCHANGED calls

ChooseCredential(k) ==
  /\ page.create.shown /\ k \in page.credentials
  /\ page' = [page EXCEPT !.create = SecretsDrawn(@, k, {})]
  /\ UNCHANGED calls

ToggleSecret(name) ==
  /\ page.create.shown /\ name \in page.create.drawn
  /\ page' = [page EXCEPT !.create.names = IF name \in @ THEN @ \ {name} ELSE @ \cup {name}]
  /\ UNCHANGED calls

\* A template may suggest a Consumer and chooses among the secrets that are there.
ApplyProfile(consumer, suggested) ==
  /\ page.create.shown /\ page.create.credential # None
  /\ LET k == page.create.credential
         drawn == SecretsDrawn(page.create, k, suggested \cap Secrets[k])
     IN  page' = [page EXCEPT !.create =
                    [drawn EXCEPT !.consumer = IF consumer = None THEN @ ELSE consumer]]
  /\ UNCHANGED calls

SubmitCreate ==
  /\ page.create.shown /\ ~page.create.sending
  /\ page.create.credential \in page.credentials /\ page.create.names # {}
  /\ page.create.consumer # None                      \* the browser requires it
  /\ page' = [page EXCEPT !.create.sending = TRUE]
  /\ Send([kind |-> "create", names |-> page.create.names,
           grant |-> <<page.create.consumer, page.create.credential>>])

-----------------------------------------------------------------------------
(* The list.                                                                *)

Loading(p) == [p EXCEPT !.loading = TRUE, !.rows = {}]

LoadGrants == ~page.loading /\ page' = Loading(page) /\ Send([kind |-> "list"])

\* Without the tokens, or the Credentials, their lists are empty.
Listed(c, rows, consumers, credentials, usable) ==
  /\ c.kind = "list" /\ calls' = calls \ {c}
  /\ \E k \in First(credentials) :
       page' = [page EXCEPT !.loading = FALSE, !.rows = rows, !.consumers = consumers,
                            !.credentials = credentials, !.usable = usable,
                            !.create = IF @.shown THEN SecretsDrawn(@, k, {}) ELSE @]

ListFailed(c) ==
  /\ c.kind = "list" /\ calls' = calls \ {c}
  /\ page' = [page EXCEPT !.loading = FALSE, !.rows = {}]

\* grantState: a token or Credential that is not listed, or is not what was
\* granted, or is revoked.
Orphaned(g) == g[1] \notin page.consumers \/ g[2] \notin page.usable

\* The answer of a change that succeeded: the dialog is closed and the list loaded.
Reloaded(c, p, ok) ==
  /\ page' = IF ok THEN Loading(p) ELSE p
  /\ calls' = (calls \ {c}) \cup IF ok THEN {[kind |-> "list"]} ELSE {}

Created(c, ok) ==
  /\ c.kind = "create"
  /\ LET p == [page EXCEPT !.create.sending = FALSE]
     IN  Reloaded(c, IF ok THEN Hidden(p) ELSE p, ok)

RemoveGrant(g) ==
  /\ g \in page.rows /\ Orphaned(g)
  /\ Send([kind |-> "remove", grant |-> g]) /\ UNCHANGED page

Removed(c, ok) == c.kind = "remove" /\ Reloaded(c, page, ok)

-----------------------------------------------------------------------------
(* The edit of a grant: some name, or none, is typed.                       *)

OpenEdit(g) ==
  /\ g \in page.rows /\ ~Orphaned(g)
  /\ page' = [page EXCEPT !.edit.item = g, !.edit.named = TRUE]
  /\ UNCHANGED calls

TypeNames ==
  /\ page.edit.item # None
  /\ page' = [page EXCEPT !.edit.named = ~@]
  /\ UNCHANGED calls

SubmitEdit ==
  /\ page.edit.item # None /\ ~page.edit.saving /\ page.edit.named
  /\ page' = [page EXCEPT !.edit.saving = TRUE]
  /\ Send([kind |-> "update", grant |-> page.edit.item])

CloseEdit ==
  /\ page.edit.item # None
  /\ page' = [page EXCEPT !.edit.item = None]
  /\ UNCHANGED calls

Updated(c, ok) ==
  /\ c.kind = "update"
  /\ Reloaded(c, [page EXCEPT !.edit.saving = FALSE, !.edit.item = IF ok THEN None ELSE @], ok)

-----------------------------------------------------------------------------
Next ==
  \/ LoadGrants \/ OpenCreate \/ CloseCreate \/ SubmitCreate \/ TypeNames \/ SubmitEdit \/ CloseEdit
  \/ \E c \in Consumers : EnterConsumer(c)
  \/ \E k \in Credentials : ChooseCredential(k)
  \/ \E name \in Named : ToggleSecret(name)
  \/ \E c \in Consumers \cup {None}, names \in SUBSET Named : ApplyProfile(c, names)
  \/ \E g \in Grants : RemoveGrant(g) \/ OpenEdit(g)
  \/ \E c \in calls :
       \/ ListFailed(c)
       \/ \E ok \in BOOLEAN : Created(c, ok) \/ Removed(c, ok) \/ Updated(c, ok)
       \/ \E rows \in SUBSET Grants, consumers \in SUBSET Consumers,
             credentials \in SUBSET Credentials : \E usable \in SUBSET credentials :
            Listed(c, rows, consumers, credentials, usable)

Spec == Init /\ [][Next]_vars

-----------------------------------------------------------------------------
\* A new grant names only secrets of the Credential it is for, although the
\* list, a template or the user may change the Credential at any moment.
ActsOnWhatIsShown ==
  \A c \in calls : c.kind = "create" => c.names \subseteq Secrets[c.grant[2]]
=============================================================================
