--------------------------- MODULE CredentialData ---------------------------
(***************************************************************************)
(* The values the Credential collection is made of, and the rules between  *)
(* two of them that the collection enforces.                               *)
(***************************************************************************)
CONSTANTS Ids,        \* Credential identities (credentialId)
          Keys,       \* public Credential keys (credentialKey)
          Bindings,   \* provider, method, profile and account bindings
          Secrets,    \* secret material
          Versions,   \* optimistic concurrency versions
          NoKey,      \* the key of a record written before keys existed
          None        \* no Credential is stored under this identity

ASSUME CredentialDataAssumption ==
  /\ NoKey \notin Keys
  /\ None \notin [key: Keys \cup {NoKey}, bind: Bindings, secret: Secrets,
                  state: {"live", "revoked", "deleted"}, version: Versions]

\* "live" stands for registered, validated, active, expiring and expired,
\* which no registry decision tells apart.
Terminal == {"revoked", "deleted"}
States == Terminal \cup {"live"}

Credential == [key: Keys \cup {NoKey}, bind: Bindings, secret: Secrets,
               state: States, version: Versions]

Collection == [Ids -> Credential \cup {None}]
Empty == [i \in Ids |-> None]

Stored(c) == {i \in Ids : c[i] # None}

\* assertUniqueCredentialKeys over parsed records; a record without a key is
\* given a fresh one whenever it is parsed, so it collides with nothing.
UniqueKeys(c) ==
  \A i, j \in Stored(c) : (c[i].key = c[j].key /\ c[i].key # NoKey) => i = j

\* How a stored Credential may change: a terminal state is final and a key,
\* once assigned, is never exchanged.
Successor(old, new) ==
  /\ old.state \in Terminal => new.state = old.state
  /\ old.key \in {NoKey, new.key}

LawfulAt(i, old, new, barred) ==
  \/ new[i] = old[i]
  \/ old[i] = None /\ new[i] # None /\ i \notin barred
  \/ old[i] # None /\ new[i] # None /\ Successor(old[i], new[i])

Lawful(old, new, barred) == \A i \in Ids : LawfulAt(i, old, new, barred)
=============================================================================
