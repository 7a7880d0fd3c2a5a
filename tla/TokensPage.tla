------------------------------ MODULE TokensPage ------------------------------
(***************************************************************************)
(* The page that lists, creates and revokes API tokens (api-tokens.js).    *)
(* The server tells the text of a token once: in the answer to its         *)
(* creation.                                                               *)
(***************************************************************************)
EXTENDS FiniteSets, Naturals

CONSTANTS MaxTokens,      \* bound: tokens that are created
          MaxCalls,       \* bound: requests under way
          None

VARIABLES page, calls

vars == <<page, calls>>

Tokens == 1 .. MaxTokens

Init ==
  /\ page = [rows |-> [t \in {} |-> "active"], create |-> [shown |-> FALSE, sending |-> FALSE],
             plaintext |-> None, revoke |-> [item |-> None, sending |-> FALSE],
             created |-> {}, seen |-> {}]      \* history: created, and shown, tokens
  /\ calls = {[kind |-> "list"]}

Send(c) == Cardinality(calls) < MaxCalls /\ calls' = calls \cup {c}

LoadApiTokens == Send([kind |-> "list"]) /\ UNCHANGED page

\* A list that cannot be loaded is shown as empty.
Listed(c, rows) ==
  /\ c.kind = "list" /\ calls' = calls \ {c}
  /\ page' = [page EXCEPT !.rows = rows]

-----------------------------------------------------------------------------
OpenCreateDialog ==
  /\ page' = [page EXCEPT !.create.shown = TRUE]
  /\ UNCHANGED calls

CloseCreateDialog ==
  /\ page.create.shown
  /\ page' = [page EXCEPT !.create.shown = FALSE]
  /\ UNCHANGED calls

SubmitCreate ==
  /\ page.create.shown /\ ~page.create.sending
  /\ page' = [page EXCEPT !.create.sending = TRUE]
  /\ Send([kind |-> "create"])

\* The dialog is closed and the list loaded before the token is shown.
Created(c, token) ==
  /\ c.kind = "create" /\ token \in (Tokens \ page.created) \cup {None}
  /\ IF token = None
     THEN page' = [page EXCEPT !.create.sending = FALSE] /\ calls' = calls \ {c}
     ELSE /\ page' = [page EXCEPT !.create.shown = FALSE, !.created = @ \cup {token}]
          /\ calls' = (calls \ {c}) \cup {[kind |-> "announce", token |-> token]}

\* Whether the list could be loaded or not.
Announced(c, rows) ==
  /\ c.kind = "announce" /\ calls' = calls \ {c}
  /\ page' = [page EXCEPT !.rows = rows, !.create.sending = FALSE,
                          !.plaintext = c.token, !.seen = @ \cup {c.token}]

CloseCreatedToken ==
  /\ page.plaintext # None
  /\ page' = [page EXCEPT !.plaintext = None]
  /\ UNCHANGED calls

-----------------------------------------------------------------------------
OpenRevokeDialog(t) ==
  /\ t \in DOMAIN page.rows /\ page.rows[t] # "revoked"
  /\ page' = [page EXCEPT !.revoke.item = t]
  /\ UNCHANGED calls

\* Closing it also lets the next revocation be confirmed.
CloseRevokeDialog ==
  /\ page.revoke.item # None
  /\ page' = [page EXCEPT !.revoke = [item |-> None, sending |-> FALSE]]
  /\ UNCHANGED calls

ConfirmRevoke ==
  /\ page.revoke.item # None /\ ~page.revoke.sending
  /\ page' = [page EXCEPT !.revoke.sending = TRUE]
  /\ Send([kind |-> "revoke", token |-> page.revoke.item])

\* Success closes whatever dialog is open, and loads the list.
Revoked(c, ok) ==
  /\ c.kind = "revoke"
  /\ page' = [page EXCEPT !.revoke = [item |-> IF ok THEN None ELSE @.item, sending |-> FALSE]]
  /\ calls' = (calls \ {c}) \cup IF ok THEN {[kind |-> "list"]} ELSE {}

-----------------------------------------------------------------------------
Rows == UNION {[set -> {"active", "revoked"}] : set \in SUBSET page.created}

Next ==
  \/ LoadApiTokens \/ OpenCreateDialog \/ CloseCreateDialog \/ SubmitCreate
  \/ CloseCreatedToken \/ CloseRevokeDialog \/ ConfirmRevoke
  \/ \E t \in Tokens : OpenRevokeDialog(t)
  \/ \E c \in calls :
       \/ \E rows \in Rows : Listed(c, rows) \/ Announced(c, rows)
       \/ \E token \in Tokens \cup {None} : Created(c, token)
       \/ \E ok \in BOOLEAN : Revoked(c, ok)

Spec == Init /\ [][Next]_vars

-----------------------------------------------------------------------------
\* No token the page created stays unseen: its text is shown, or will be when
\* the answer it waits for comes, failed or not.
ActsOnWhatIsShown ==
  page.created \ page.seen \subseteq {c.token : c \in {d \in calls : d.kind = "announce"}}
=============================================================================
