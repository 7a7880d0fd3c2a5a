-------------------------- MODULE CredentialTransfer --------------------------
(***************************************************************************)
(* Credentials that leave in a transfer file and come back: exports,       *)
(* previews and imports, each a request of its own, beside the other       *)
(* changes of the collection.  The readings a request plans from are       *)
(* separate, and everything between two of them may have changed.          *)
(*                                                                         *)
(* A Credential has the account it is for, its other bindings (profile,    *)
(* configuration, OAuth), a key, a generation (0 is the one derived from   *)
(* its identity), a state, a version and whoever wrote its Secret.         *)
(***************************************************************************)
EXTENDS Naturals, Sequences, FiniteSets, SequencesExt

CONSTANTS TransferRequests,  \* concurrent requests
          Initial,       \* the collection before: a sequence of Credentials
          Transfers,     \* files brought along: plain, encrypted or CSV
          Sheets,        \* tables a CSV import may be given
          Strategies,    \* {"skip", "overwrite", "rename"}, or fewer
          Foreign,       \* how many identities files brought along may name
          Unnamed,       \* the account of a Credential without external reference
          MaxKdf,        \* MAX_CONCURRENT_IMPORT_KDF
          Providers,     \* per registered provider: methods, bound, fields
          SecretColumn,  \* columns "secret.x" of a CSV file, each with its name x
          MaxRecords, MaxCreated, MaxChanges, MaxFaults,     \* bounds
          Blank, Nil

NoOne == "others"
Fields == {"acct", "link", "gen", "state", "version", "key", "by"}

ASSUME TransferAssumption ==
  /\ {Foreign, MaxKdf, MaxCreated, MaxChanges, MaxFaults, MaxRecords} \subseteq Nat
  /\ Strategies \subseteq {"skip", "overwrite", "rename"}
  /\ IsFiniteSet(TransferRequests) /\ {Nil, NoOne} \cap TransferRequests = {} /\ Nil \notin Nat
  /\ Initial \in Seq(ToSet(Initial))
  /\ \A c \in ToSet(Initial) : DOMAIN c = Fields /\ c.by \notin TransferRequests
  /\ \A t \in Transfers : IF t.form = "csv" THEN t.sheet.table \in Seq(ToSet(t.sheet.table))
                          ELSE t.records \in Seq(ToSet(t.records))

FirstOf(S) == CHOOSE i \in S : \A j \in S : i <= j
InOrder(S) == [k \in 1 .. Cardinality(S) |-> CHOOSE i \in S : Cardinality({j \in S : j <= i}) = k]

-----------------------------------------------------------------------------
(* A CSV file as the Credentials it stands for: its table, the columns a    *)
(* provider's method knows by other names, the Secrets and the custom       *)
(* values of a row.  A cell is a value or Blank.                            *)

DirectSecrets == {"username", "password", "apiKey", "token"}

\* A table's fields have different keys, and none is called like a "secret." column.
FieldSets == UNION {{Providers[p].fields} \cup {Providers[p].methods[m] : m \in DOMAIN Providers[p].methods} :
                      p \in DOMAIN Providers}
ASSUME TablesAssumption ==
  /\ \A sheet \in Sheets : /\ sheet.table \in Seq(ToSet(sheet.table))
                           /\ \A line \in ToSet(sheet.table) : line \in Seq(ToSet(line))
  /\ \A fields \in FieldSets : \A f \in fields :
       /\ ({f.key} \cup f.aliases) \cap DOMAIN SecretColumn = {}
       /\ \A g \in fields : f.key = g.key => f = g

\* parseCsv: quotes closed, a header, rows of its length, no nameless column; lines
\* that are blank are passed over.
FilledLines(sheet) ==
  {k \in DOMAIN sheet.table : \E i \in DOMAIN sheet.table[k] : sheet.table[k][i] # Blank}
HeaderLine(sheet) == FirstOf(FilledLines(sheet))
Header(sheet) == sheet.table[HeaderLine(sheet)]
Lines(sheet) == FilledLines(sheet) \ {HeaderLine(sheet)}
Parsed(sheet) ==
  /\ sheet.closed /\ Cardinality(FilledLines(sheet)) \in 2 .. MaxRecords + 1
  /\ Blank \notin ToSet(Header(sheet))
  /\ \A k \in Lines(sheet) : Len(sheet.table[k]) = Len(Header(sheet))

HeadersSound(h) ==
  Cardinality(ToSet(h)) = Len(h) /\ {"providerKey", "externalReference"} \subseteq ToSet(h)

PlaceIn(h, c) == CHOOSE k \in DOMAIN h : h[k] = c
\* A row as a function of its columns; a column that is missing is Blank, which
\* no decision but the choice of a column's meaning tells apart.
Row(sheet, k) == [c \in ToSet(Header(sheet)) |-> sheet.table[k][PlaceIn(Header(sheet), c)]]
Cell(row, c) == IF c \in DOMAIN row THEN row[c] ELSE Blank

MethodKnown(p, m) == m \in DOMAIN Providers[p].methods \cap Providers[p].bound
Methodical(p) == DOMAIN Providers[p].methods \cup Providers[p].bound # {}

\* The fields of the method, or those of a provider without methods.
FieldsOf(row) ==
  LET p == Cell(row, "providerKey")
  IN  IF Methodical(p) THEN Providers[p].methods[Cell(row, "credentialMethodKey")]
      ELSE Providers[p].fields
FieldsKnown(row) ==
  LET p == Cell(row, "providerKey")
  IN  /\ p \in DOMAIN Providers
      /\ Methodical(p) => MethodKnown(p, Cell(row, "credentialMethodKey"))

NamesOf(f) == {f.key} \cup f.aliases
Unambiguous(fields) == \A f, g \in fields : f.key # g.key => NamesOf(f) \cap NamesOf(g) = {}

\* The columns that mean a field: its own comes first, then its other names in order.
ColumnsOf(h, f) == ToSet(h) \cap NamesOf(f)
Ahead(h, f, c, d) == d # f.key /\ (c = f.key \/ PlaceIn(h, c) < PlaceIn(h, d))
LastColumn(h, f) == CHOOSE d \in ColumnsOf(h, f) : \A c \in ColumnsOf(h, f) \ {d} : Ahead(h, f, c, d)
\* Blanks may be filled in by a later column, and the same value may be repeated.
Mergeable(h, row, f) ==
  \A c, d \in ColumnsOf(h, f) : Ahead(h, f, c, d) => row[c] \in {Blank, row[d]}

\* normalizeCsvRow: the row with the columns renamed to their fields.
Normalized(h, row, fields) ==
  LET other == UNION {f.aliases \ {f.key} : f \in fields}
      named == {f \in fields : ColumnsOf(h, f) # {}}
  IN  [c \in (DOMAIN row \ other) \cup {f.key : f \in named} |->
         IF \E f \in named : f.key = c
         THEN row[LastColumn(h, CHOOSE f \in named : f.key = c)]
         ELSE row[c]]

SecretKeys(fields) == {f.key : f \in {g \in fields : g.secret}}

\* secretsFromCsvRow: columns "secret.x", and the method's secret fields or, for a
\* provider without fields, the well-known names.
SecretColumns(row, fields) ==
  {c \in DOMAIN row :
     /\ row[c] # Blank
     /\ c \in DOMAIN SecretColumn
              \cup (IF fields = {} THEN DirectSecrets ELSE SecretKeys(fields))}
SecretName(c) == IF c \in DOMAIN SecretColumn THEN SecretColumn[c] ELSE c
SecretsSound(row, fields) ==
  LET cs == SecretColumns(row, fields)
  IN  /\ cs # {} /\ \A c \in cs : SecretName(c) # Blank
      /\ \A c, d \in cs : SecretName(c) = SecretName(d) => c = d
      /\ fields # {} => \A c \in cs : SecretName(c) \in SecretKeys(fields)
Secrets(row, fields) ==
  LET cs == SecretColumns(row, fields)
  IN  [n \in {SecretName(c) : c \in cs} |-> row[CHOOSE c \in cs : SecretName(c) = n]]

CustomOfAnyField(row, fields) ==                     \* mutant: Secrets are custom values too
  {<<f.key, row[f.key]>> : f \in {g \in fields : Cell(row, g.key) # Blank}}
Custom(row, fields) ==
  {<<f.key, row[f.key]>> :
     f \in {g \in fields : /\ ~g.secret /\ Cell(row, g.key) # Blank
                           /\ g.key \notin {"displayName", "description", "scopes"}}}

RowSound(h, row) ==
  /\ FieldsKnown(row) /\ Unambiguous(FieldsOf(row))
  /\ \A f \in FieldsOf(row) : Mergeable(h, row, f)
  /\ LET r == Normalized(h, row, FieldsOf(row))
     IN  /\ Cell(r, "externalReference") # Blank
         /\ "credentialId" \in DOMAIN r => r["credentialId"] # Blank
         /\ SecretsSound(r, FieldsOf(row))

\* A Credential of a CSV row takes neither key nor generation from the file.
CsvCredential(h, row) ==
  LET fields == FieldsOf(row)  r == Normalized(h, row, fields)
  IN  [id |-> Cell(r, "credentialId"), acct |-> Cell(r, "externalReference"),
       secrets |-> Secrets(r, fields), custom |-> Custom(r, fields)]

CsvSound(sheet) ==
  /\ Parsed(sheet) /\ HeadersSound(Header(sheet))
  /\ \A k \in Lines(sheet) : RowSound(Header(sheet), Row(sheet, k))

CsvCredentials(sheet) ==
  [k \in Lines(sheet) |-> CsvCredential(Header(sheet), Row(sheet, k))]

-----------------------------------------------------------------------------
(* The collection, the requests on it and what they have read.              *)

Named == Len(Initial) + Foreign
Ids == 1 .. Named + MaxCreated

Absent == <<>>                              \* where no Credential is stored

VARIABLES store,      \* per identity: a Credential or Absent
          tombs,      \* identities of deleted Credentials
          minted,     \* identities given out so far
          exported,   \* the last export, or Nil
          req,        \* per request: what it is, how far it is, what it has read
          kdf,        \* activeImportKdf
          boundary,   \* the request that is inside the restore boundary
          queue,      \* the request that is inside the collection's queue
          budget      \* changes and faults so far

transferVars == <<store, tombs, minted, exported, req, kdf, boundary, queue, budget>>

Nothing == [i \in Ids |-> Absent]
NoRequest == [kind |-> "none", at |-> "idle", file |-> <<>>, strategy |-> "skip", sealed |-> FALSE,
              base |-> 0, read |-> Nothing, barred |-> {}, ops |-> <<>>, before |-> Nothing]

TransferInit ==
  /\ store = [i \in Ids |-> IF i <= Len(Initial) THEN Initial[i] ELSE Absent]
  /\ tombs = {} /\ minted = Named /\ exported = Nil
  /\ req = [r \in TransferRequests |-> NoRequest]
  /\ kdf = 0 /\ boundary = Nil /\ queue = Nil
  /\ budget = [changes |-> 0, faults |-> 0]

At(r, stage) == req[r].at = stage
Goto(r, stage) == req' = [req EXCEPT ![r].at = stage]
\* Whoever has ended keeps only what became of it.
End(r, how) ==
  req' = [req EXCEPT ![r] = [NoRequest EXCEPT !.at = how, !.strategy = req[r].strategy]]
Fault == budget.faults < MaxFaults /\ budget' = [budget EXCEPT !.faults = @ + 1]
Resting == {"idle", "refused", "imported", "answered", "stuck"}

-----------------------------------------------------------------------------
(* What a file holds.                                                       *)

Present(c) == {i \in Ids : c[i] # Absent}
Listed(c) == InOrder(Present(c))
Exported(i) == [id |-> i, acct |-> store[i].acct, link |-> store[i].link, gen |-> store[i].gen,
                key |-> store[i].key, state |-> store[i].state, version |-> store[i].version]
\* An account that was renamed carries the stamp of the renaming.
Account(a) == <<a, 0>>

FromCsv(sheet) ==
  LET rows == InOrder(Lines(sheet))
  IN  [n \in DOMAIN rows |->
         LET c == CsvCredentials(sheet)[rows[n]]
         IN  [id |-> IF c.id = Blank THEN Nil ELSE c.id, acct |-> Account(c.acct), link |-> Nil,
              gen |-> 0, key |-> Nil, state |-> "live", version |-> 1]]

\* validateEncryptedEnvelope, validatePlainTransferPayload and the limits, which
\* hold a file as a whole back, and the password of an encrypted one.
Acceptable(t) == IF t.form = "csv" THEN CsvSound(t.sheet)
                 ELSE t.sound /\ Len(t.records) <= MaxRecords

\* A record without identity (a CSV row) is given a new one.
Identified(file) ==
  [k \in DOMAIN file |->
     IF file[k].id # Nil THEN file[k]
     ELSE [file[k] EXCEPT !.id = minted + Cardinality({j \in 1 .. k : file[j].id = Nil})]]

\* The identities a request may give out: one for each record, or two.
Needed(file) == 2 * Len(file)

-----------------------------------------------------------------------------
(* Admission: preflightCredentialImport and the conflicts of a record.      *)

SameAccount(a, b) == a.acct = b.acct
Matching(c, rec) == {i \in Present(c) : SameAccount(c[i], rec)}

\* The Credential a record is about, by identity and then by account.
Counterpart(c, rec) ==
  IF rec.id \in Present(c) THEN rec.id
  ELSE IF Matching(c, rec) # {} THEN FirstOf(Matching(c, rec)) ELSE Nil

SameBinding(a, b) == a.acct = b.acct /\ a.link = b.link

\* Conflicts no administrator can resolve.
Blocked(c, barred, rec, strategy) ==
  LET i == Counterpart(c, rec)
  IN  \/ rec.id \in barred /\ rec.id \notin Present(c)
      \/ /\ i # Nil
         /\ \/ c[i].state = "revoked" /\ strategy # "skip"
            \/ i = rec.id /\ (~SameBinding(c[i], rec) \/ c[i].gen # rec.gen)
            \/ i # rec.id /\ c[i].gen # 0 /\ rec.gen # 0 /\ c[i].gen # rec.gen

Admitted(r, c, barred) ==
  \A k \in DOMAIN req[r].file : ~Blocked(c, barred, req[r].file[k], req[r].strategy)

AdmittedAnyState(r, c, barred) == Admitted(r, c, barred)       \* mutant: no digest compared
\* revalidateCredentialImport: admitted still, and in the state that was reviewed.
AdmittedAsReviewed(r, c, barred) ==
  Admitted(r, c, barred) /\ c = req[r].read /\ barred = req[r].barred

-----------------------------------------------------------------------------
(* The plan: what becomes of each record, given those before it.            *)

\* findConflict: a record without an account conflicts by identity only.
ConflictWith(c, rec) ==
  IF rec.id \in Present(c) THEN rec.id
  ELSE IF rec.acct = Unnamed THEN Nil ELSE Counterpart(c, rec)

\* renameCredential: a new identity, key and generation, and another account when
\* that one is taken; the stamp is the time, the same for one plan.
Renamed(c, rec, id, stamp) ==
  [rec EXCEPT !.id = id, !.key = Nil, !.gen = 0, !.version = 1,
              !.acct = IF rec.acct # Unnamed /\ Matching(c, rec) # {}
                       THEN <<rec.acct[1], stamp>> ELSE rec.acct]

Insertion(r, rec) == [acct |-> rec.acct, link |-> rec.link, gen |-> rec.gen, state |-> rec.state,
                      version |-> rec.version, key |-> IF rec.key = Nil THEN rec.id ELSE rec.key,
                      by |-> r]

Planned(r, plan, rec, strategy) ==
  LET conflict == ConflictWith(plan.seen, rec)
      created == IF conflict = Nil THEN rec
                 ELSE Renamed(plan.seen, rec, plan.next, req[r].base)
  IN  CASE conflict # Nil /\ strategy = "skip" -> plan
        [] conflict # Nil /\ strategy = "overwrite" ->
             [plan EXCEPT !.ops = Append(@, [do |-> "overwrite", id |-> conflict, rec |-> rec,
                                            version |-> plan.seen[conflict].version])]
        [] OTHER ->
             [ops |-> Append(plan.ops, [do |-> "create", id |-> created.id, rec |-> created,
                                        version |-> 0]),
              seen |-> [plan.seen EXCEPT ![created.id] = Insertion(r, created)],
              next |-> IF conflict = Nil THEN plan.next ELSE plan.next + 1]

\* The records one after the other.
PlanUpTo(r) ==
  LET plan[k \in 0 .. Len(req[r].file)] ==
        IF k = 0
        THEN [ops |-> <<>>, seen |-> req[r].read, next |-> req[r].base + Len(req[r].file) + 1]
        ELSE Planned(r, plan[k - 1], req[r].file[k], req[r].strategy)
  IN  plan
Plan(r) == PlanUpTo(r)[Len(req[r].file)]

-----------------------------------------------------------------------------
(* TransferRequests.                                                                *)

\* exportCredentials: every Credential at once, then its key and its audit record.
Export(r) ==
  /\ At(r, "idle") /\ queue = Nil
  /\ exported' = [form |-> "encrypted", sound |-> TRUE, right |-> TRUE,
                  records |-> [k \in DOMAIN Listed(store) |-> Exported(Listed(store)[k])]]
  /\ End(r, "answered")
  /\ UNCHANGED <<store, tombs, minted, kdf, boundary, queue, budget>>

\* A preview or an import begins: what needs no password is read at once.
Submit(r, kind, t, strategy) ==
  /\ At(r, "idle") /\ (kind = "preview" => strategy = "skip")
  /\ LET records == CASE t.form # "csv" -> t.records
                       [] t.form = "csv" /\ Acceptable(t) -> FromCsv(t.sheet)
                       [] OTHER -> <<>>
         begun == [NoRequest EXCEPT !.kind = kind, !.strategy = strategy, !.base = minted,
                               !.file = Identified(records)]
     IN  /\ minted + Needed(records) \in 0 .. Named + MaxCreated
         /\ \/ /\ t.form = "encrypted" /\ t.sound /\ kdf < MaxKdf
               /\ kdf' = kdf + 1 /\ minted' = minted + Needed(records)
               /\ req' = [req EXCEPT ![r] = [begun EXCEPT !.at = "derive", !.sealed = t.right]]
            \/ /\ t.form # "encrypted" /\ Acceptable(t)
               /\ req' = [req EXCEPT ![r] = [begun EXCEPT !.at = "list"]]
               /\ minted' = minted + Needed(records) /\ UNCHANGED kdf
            \/ /\ IF t.form = "encrypted" THEN ~t.sound \/ kdf >= MaxKdf ELSE ~Acceptable(t)
               /\ req' = [req EXCEPT ![r] = [NoRequest EXCEPT !.kind = kind, !.at = "refused"]]
               /\ UNCHANGED <<kdf, minted>>
  /\ UNCHANGED <<store, tombs, exported, boundary, queue, budget>>

\* deriveTransferKey gives its place back whether it succeeds or not.
GivenBackOnSuccess(r) == IF req[r].sealed THEN kdf - 1 ELSE kdf       \* mutant
GivenBack(r) == kdf - 1

Derive(r) ==
  /\ At(r, "derive") /\ kdf' = GivenBack(r)
  /\ IF req[r].sealed /\ Len(req[r].file) <= MaxRecords THEN Goto(r, "list") ELSE End(r, "refused")
  /\ UNCHANGED <<store, tombs, minted, exported, boundary, queue, budget>>

List(r) ==
  /\ At(r, "list") /\ queue = Nil
  /\ req' = [req EXCEPT ![r].read = store, ![r].at = "tombs"]
  /\ UNCHANGED <<store, tombs, minted, exported, kdf, boundary, queue, budget>>

\* The tombstones are read on their own; then the preflight, the plan and the
\* first revalidation, which sees what the preflight saw.  A skipped record
\* that is blocked holds the others back all the same.
ReadTombstones(r) ==
  /\ At(r, "tombs") /\ queue = Nil
  /\ LET ops == Plan(r).ops
     IN  IF req[r].kind = "preview" THEN End(r, "answered")
         ELSE IF ~Admitted(r, req[r].read, tombs) THEN End(r, "refused")
         ELSE IF ops = <<>> THEN End(r, "imported")
         ELSE req' = [req EXCEPT ![r].barred = tombs, ![r].ops = ops, ![r].at = "enter"]
  /\ UNCHANGED <<store, tombs, minted, exported, kdf, boundary, queue, budget>>

EnterBoundary(r) ==
  /\ At(r, "enter") /\ boundary = Nil
  /\ boundary' = r /\ Goto(r, "prepare")
  /\ UNCHANGED <<store, tombs, minted, exported, kdf, queue, budget>>

Overwrites(r) == {o \in ToSet(req[r].ops) : o.do = "overwrite"}

\* importCredentialBatch compares each overwrite with what is stored: its version
\* and the whole binding, key and generation included.
Preparable(r) ==
  /\ \A o \in Overwrites(r) :
       /\ store[o.id] # Absent /\ store[o.id].version = o.version
       /\ SameBinding(store[o.id], o.rec) /\ store[o.id].key = o.rec.key
       /\ store[o.id].gen = o.rec.gen
       /\ o.rec.gen = 0 => o.rec.id = o.id
  /\ Cardinality(Overwrites(r)) = Cardinality({o.id : o \in Overwrites(r)})

Refuse(r) == End(r, "refused") /\ boundary' = Nil

Prepare(r) ==
  /\ At(r, "prepare") /\ queue = Nil
  /\ \/ Preparable(r) /\ Goto(r, "commit") /\ UNCHANGED boundary
     \/ ~Preparable(r) /\ Refuse(r)
  /\ UNCHANGED <<store, tombs, minted, exported, kdf, queue, budget>>

Apply(r, c, o) ==
  IF o.do = "create" THEN Insertion(r, o.rec)
  ELSE [c EXCEPT !.state = o.rec.state, !.version = o.version + 1, !.by = r]

\* A batch has one operation for an identity.
Applied(r) ==
  LET ops == ToSet(req[r].ops)
  IN  [i \in Ids |-> IF \E o \in ops : o.id = i THEN Apply(r, store[i], CHOOSE o \in ops : o.id = i)
                     ELSE store[i]]

\* applyBatch: no identity twice, none that exists or is barred, no change since
\* the plan, no key twice; beforeCommit then revalidates the review.
Applicable(r) ==
  /\ \A j, k \in DOMAIN req[r].ops : req[r].ops[j].id = req[r].ops[k].id => j = k
  /\ \A o \in ToSet(req[r].ops) :
       IF o.do = "create" THEN store[o.id] = Absent /\ o.id \notin tombs
       ELSE store[o.id] # Absent /\ store[o.id].version = o.version
  /\ \A i, j \in Present(Applied(r)) : Applied(r)[i].key = Applied(r)[j].key => i = j

Commit(r) ==
  /\ At(r, "commit") /\ queue = Nil
  /\ \/ /\ Applicable(r) /\ AdmittedAsReviewed(r, store, tombs)
        /\ store' = Applied(r) /\ queue' = r
        /\ req' = [req EXCEPT ![r].before = store, ![r].at = "record"]
        /\ UNCHANGED boundary
     \/ ~(Applicable(r) /\ AdmittedAsReviewed(r, store, tombs)) /\ Refuse(r) /\ UNCHANGED <<store, queue>>
  /\ UNCHANGED <<tombs, minted, exported, kdf, budget>>

\* The Secret versions, and inside their commit the audit record.
Record(r) ==
  /\ At(r, "record")
  /\ \/ End(r, "imported") /\ queue' = Nil /\ boundary' = Nil /\ UNCHANGED budget
     \/ Fault /\ Goto(r, "undo") /\ UNCHANGED <<queue, boundary>>
  /\ UNCHANGED <<store, tombs, minted, exported, kdf>>

BeforeLastRecord(r) ==                               \* mutant: what was created stays
  [i \in Ids |-> IF req[r].before[i] = Absent THEN store[i] ELSE req[r].before[i]]
BeforeBatch(r) == req[r].before

\* The batch is put back, or cannot be and the caller is told of that.
UndoBatch(r) ==
  /\ At(r, "undo") /\ queue' = Nil /\ boundary' = Nil
  /\ \/ store' = BeforeBatch(r) /\ End(r, "refused")
     \/ End(r, "stuck") /\ UNCHANGED store
  /\ UNCHANGED <<tombs, minted, exported, kdf, budget>>

Step(r) == \/ Derive(r) \/ List(r) \/ ReadTombstones(r) \/ EnterBoundary(r)
           \/ Prepare(r) \/ Commit(r) \/ Record(r) \/ UndoBatch(r)

-----------------------------------------------------------------------------
(* Other operations on the collection, one queued mutation each.            *)

Change == queue = Nil /\ budget.changes < MaxChanges
          /\ budget' = [budget EXCEPT !.changes = @ + 1]
Others == UNCHANGED <<exported, req, kdf, boundary, queue>>

Edit(i) ==
  /\ Change /\ store[i] # Absent /\ store[i].state = "live"
  /\ \E state \in {"live", "revoked"} :
       store' = [store EXCEPT ![i].version = @ + 1, ![i].state = state, ![i].by = NoOne]
  /\ UNCHANGED <<tombs, minted>> /\ Others

\* Registration compares no accounts: two Credentials of one account may exist.
Register(acct) ==
  /\ Change /\ minted + 1 \in Ids
  /\ minted' = minted + 1
  /\ store' = [store EXCEPT ![minted + 1] =
                 [acct |-> acct, link |-> Nil, gen |-> 0, state |-> "live", version |-> 1,
                  key |-> minted + 1, by |-> NoOne]]
  /\ UNCHANGED tombs /\ Others

Delete(i) ==
  /\ Change /\ store[i] # Absent
  /\ store' = [store EXCEPT ![i] = Absent] /\ tombs' = tombs \cup {i}
  /\ UNCHANGED minted /\ Others

Files == Transfers \cup IF exported = Nil THEN {} ELSE {exported}

TransferNext ==
  \/ \E r \in TransferRequests :
       \/ Step(r) \/ Export(r)
       \/ \E kind \in {"preview", "import"}, t \in Files, s \in Strategies : Submit(r, kind, t, s)
  \/ \E i \in Ids : Edit(i) \/ Delete(i)
  \/ \E acct \in {Initial[k].acct : k \in DOMAIN Initial} : Register(acct)

TransferSpec == TransferInit /\ [][TransferNext]_transferVars

-----------------------------------------------------------------------------
Ambiguous(c) == {a \in {c[i].acct : i \in Present(c)} \ {Unnamed} :
                   Cardinality({i \in Present(c) : c[i].acct = a}) > 1}

\* An import that skips or overwrites never leaves two Credentials for an account
\* that had one, neither with what is stored nor among its own records, whatever
\* is registered, deleted or imported between its readings and its commit; and
\* an import that renames leaves alone what was stored.
AccountsStayDistinct ==
  [][\A r \in TransferRequests : (At(r, "commit") /\ req'[r].at = "record") =>
       IF req[r].strategy = "rename"
       THEN \A i \in Present(store) : store'[i] = store[i]
       ELSE Ambiguous(store') \subseteq Ambiguous(store)]_transferVars

\* In every table an import accepts, whatever its columns are called, the cells of
\* a provider's secret field and of a "secret." column become Secrets, and none that
\* stands only there a custom value, which lists and exports show in the clear.
SecretHeaders(row, fields) ==
  {c \in DOMAIN row : c \in DOMAIN SecretColumn \/ \E f \in fields : f.secret /\ c \in NamesOf(f)}
CellsOf(row, columns) == {row[c] : c \in columns} \ {Blank}
\* What becomes of a table depends on the table only: it is asked once.
Untouched == budget.changes = 0 /\ \A r \in TransferRequests : At(r, "idle")
CsvSecretsStaySecret ==
  Untouched => \A sheet \in Sheets : CsvSound(sheet) =>
    \A k \in Lines(sheet) :
      LET row == Row(sheet, k)
          rec == CsvCredentials(sheet)[k]
          secret == SecretHeaders(row, FieldsOf(row))
      IN  /\ CellsOf(row, secret) \subseteq Range(rec.secrets)
          /\ {v[2] : v \in rec.custom}
               \cap (CellsOf(row, secret) \ CellsOf(row, DOMAIN row \ secret)) = {}

\* An answered request holds nothing: no queue, no boundary and no place of the
\* key derivations, which are as many as are under way; and if the answer is an
\* error, nothing of its import is stored, unless undoing it failed as well.
AnsweredHoldsNothing ==
  /\ kdf = Cardinality({r \in TransferRequests : At(r, "derive")})
  /\ \A r \in TransferRequests : req[r].at \in Resting =>
       /\ r \notin {boundary, queue}
       /\ At(r, "refused") => \A i \in Present(store) : store[i].by # r
=============================================================================
