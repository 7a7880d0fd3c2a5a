----------------------------- MODULE TransferPage -----------------------------
(***************************************************************************)
(* The page that exports Credentials and imports them after a preview      *)
(* (credential-transfer.js).  The user goes on editing while a file is     *)
(* read, a preview judged or an import made; answers come in any order.    *)
(*                                                                         *)
(* What the form holds (content, format, password, strategy) is one value. *)
(* Two payloads never share a fingerprint.                                 *)
(***************************************************************************)
EXTENDS FiniteSets, Naturals

CONSTANTS Payloads,       \* what the form, or a file put into it, can hold
          Credentials,
          MaxCalls,       \* bound: requests under way
          None            \* a form without content

VARIABLES page, calls

vars == <<page, calls>>

Init ==
  /\ page = [form |-> None, files |-> {}, preview |-> None, fingerprint |-> None,
             mayImport |-> FALSE, previewing |-> FALSE,
             listed |-> {}, all |-> FALSE, chosen |-> {}, exporting |-> FALSE]
  /\ calls = {[kind |-> "list"]}

Send(c) == Cardinality(calls) < MaxCalls /\ calls' = calls \cup {c}

-----------------------------------------------------------------------------
(* The import.                                                              *)

Reset(p) == [p EXCEPT !.preview = None, !.fingerprint = None, !.mayImport = FALSE]

EditImport(payload) ==
  /\ page' = Reset([page EXCEPT !.form = payload])
  /\ UNCHANGED calls

ReadSelectedImportFile(file) ==
  /\ page' = Reset([page EXCEPT !.files = @ \cup {file}])
  /\ UNCHANGED calls

\* The content arrives later, and the preview is not reset again.
FileRead(file, ok) ==
  /\ file \in page.files
  /\ page' = [page EXCEPT !.files = @ \ {file}, !.form = IF ok THEN file ELSE @]
  /\ UNCHANGED calls

PreviewImport ==
  /\ ~page.previewing
  /\ IF page.form = None
     THEN page' = Reset(page) /\ UNCHANGED calls
     ELSE /\ page' = [page EXCEPT !.previewing = TRUE]
          /\ Send([kind |-> "preview", payload |-> page.form])

\* The preview is shown although the form may hold something else by now.
Previewed(c, ok) ==
  /\ c.kind = "preview" /\ calls' = calls \ {c}
  /\ page' = [(IF ok THEN [page EXCEPT !.preview = c.payload, !.fingerprint = c.payload,
                                       !.mayImport = TRUE]
                     ELSE Reset(page)) EXCEPT !.previewing = FALSE]

ImportUnseen ==                          \* mutant: any preview will do
  /\ page.mayImport
  /\ IF page.form = None
     THEN page' = Reset(page) /\ UNCHANGED calls
     ELSE /\ page' = [page EXCEPT !.mayImport = FALSE]
          /\ Send([kind |-> "import", payload |-> page.form, seen |-> page.preview])

\* The form is read anew and compared with what the preview was asked for.
ImportCredentials ==
  /\ page.mayImport
  /\ IF page.form = None \/ page.form # page.fingerprint
     THEN page' = Reset(page) /\ UNCHANGED calls
     ELSE /\ page' = [page EXCEPT !.mayImport = FALSE]
          /\ Send([kind |-> "import", payload |-> page.form, seen |-> page.preview])

Imported(c, ok) ==
  /\ c.kind = "import"
  /\ page' = Reset([page EXCEPT !.form = IF ok THEN None ELSE @])
  /\ calls' = (calls \ {c}) \cup IF ok THEN {[kind |-> "list"]} ELSE {}

-----------------------------------------------------------------------------
(* The list and the export; drawing the list again clears what was chosen.   *)

LoadCredentials == Send([kind |-> "list"]) /\ UNCHANGED page

\* A list that cannot be loaded is shown as empty.
Listed(c, list) ==
  /\ c.kind = "list" /\ calls' = calls \ {c}
  /\ page' = [page EXCEPT !.listed = list, !.chosen = {}]

ExportAll ==
  /\ page' = [page EXCEPT !.all = ~@, !.chosen = {}]
  /\ UNCHANGED calls

Choose(id) ==
  /\ ~page.all /\ id \in page.listed
  /\ page' = [page EXCEPT !.chosen = IF id \in @ THEN @ \ {id} ELSE @ \cup {id}]
  /\ UNCHANGED calls

ExportCredentials ==
  /\ ~page.exporting /\ (page.all \/ page.chosen # {})
  /\ page' = [page EXCEPT !.exporting = TRUE]
  /\ Send([kind |-> "export", all |-> page.all, ids |-> page.chosen])

Exported(c) ==
  /\ c.kind = "export" /\ calls' = calls \ {c}
  /\ page' = [page EXCEPT !.exporting = FALSE]

-----------------------------------------------------------------------------
Next ==
  \/ \E payload \in Payloads \cup {None} : EditImport(payload)
  \/ \E file \in Payloads :
       ReadSelectedImportFile(file) \/ \E ok \in BOOLEAN : FileRead(file, ok)
  \/ PreviewImport \/ ImportCredentials \/ LoadCredentials \/ ExportAll \/ ExportCredentials
  \/ \E id \in Credentials : Choose(id)
  \/ \E c \in calls :
       \/ \E ok \in BOOLEAN : Previewed(c, ok) \/ Imported(c, ok)
       \/ \E list \in SUBSET Credentials : Listed(c, list)
       \/ Exported(c)

Spec == Init /\ [][Next]_vars

-----------------------------------------------------------------------------
\* What is imported is what the preview on the screen was about when the user
\* asked for the import, whatever was typed or read since the preview was asked
\* for; and no more is exported than what he was shown and chose.
ActsOnWhatIsShown ==
  \A c \in calls : c.kind = "import" => c.payload = c.seen
=============================================================================
