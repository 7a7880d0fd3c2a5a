----------------------------- MODULE ConsumerPage -----------------------------
(***************************************************************************)
(* The page on which a Consumer enters its token, sees its Credentials and *)
(* resolves chosen secrets (consumer.js).  Resolves and discoveries answer *)
(* in any order while the user chooses something else.                     *)
(*                                                                         *)
(* The generation of a resolve is raised by every change; here a resolve   *)
(* carries whether it was raised since (`current').                        *)
(***************************************************************************)
EXTENDS FiniteSets, Naturals

CONSTANTS Consumers,      \* the tokens
          Credentials,
          Names,          \* names of secrets
          MaxCalls,       \* bound: requests under way
          None

VARIABLES page, calls

vars == <<page, calls>>

Init ==
  /\ page = [typed |-> None, token |-> None, discovering |-> FALSE,
             listed |-> {}, selected |-> None, names |-> {}, drawn |-> FALSE,
             resolving |-> FALSE, results |-> None, revealed |-> {}]
  /\ calls = {}

Send(c) == Cardinality(calls) < MaxCalls /\ calls' = calls \cup {c}

\* resetResolveState; the resolves under way are of an older generation.
Unresolved(p) == [p EXCEPT !.results = None, !.revealed = {}, !.resolving = FALSE,
                           !.names = {}]
Outdated(set) == {IF c.kind = "resolve" THEN [c EXCEPT !.current = FALSE] ELSE c : c \in set}

Cleared(p) == [Unresolved(p) EXCEPT !.selected = None, !.listed = {}, !.drawn = FALSE]

-----------------------------------------------------------------------------
TypeToken(token) ==
  /\ token # page.typed
  /\ page' = [page EXCEPT !.typed = token]
  /\ UNCHANGED calls

\* Test connection: nothing of the former token stays on the screen.
Discover ==
  /\ ~page.discovering
  /\ IF page.typed = None
     THEN page' = [Cleared(page) EXCEPT !.token = None] /\ calls' = Outdated(calls)
     ELSE /\ Cardinality(calls) < MaxCalls
          /\ page' = [Unresolved(page) EXCEPT !.token = page.typed, !.discovering = TRUE,
                                              !.drawn = FALSE]
          /\ calls' = Outdated(calls) \cup {[kind |-> "discover"]}

\* What was selected stays selected if it is still there.
Discovered(c, list) ==
  /\ c.kind = "discover" /\ calls' = calls \ {c}
  /\ page' = [page EXCEPT !.discovering = FALSE, !.listed = list, !.drawn = TRUE,
                          !.selected = IF @ \in list THEN @ ELSE None]

DiscoveryFailed(c) ==
  /\ c.kind = "discover" /\ calls' = Outdated(calls \ {c})
  /\ page' = [Cleared(page) EXCEPT !.discovering = FALSE]

SelectCredential(credential) ==
  /\ page.drawn /\ credential \in page.listed /\ credential # page.selected
  /\ page' = [Unresolved(page) EXCEPT !.selected = credential]
  /\ calls' = Outdated(calls)

ToggleName(name) ==
  /\ page.drawn /\ page.selected # None
  /\ page' = [page EXCEPT !.names = IF name \in @ THEN @ \ {name} ELSE @ \cup {name}]
  /\ UNCHANGED calls

Resolve ==
  /\ page.drawn /\ page.selected # None /\ page.names # {} /\ ~page.resolving
  /\ page' = [page EXCEPT !.resolving = TRUE]
  /\ Send([kind |-> "resolve", current |-> TRUE, token |-> page.token,
           credential |-> page.selected, names |-> page.names])

\* An answer that is not of this Credential, not active or of other names counts
\* as a failure.
Resolved(c, ok) ==
  /\ c.kind = "resolve" /\ calls' = calls \ {c}
  /\ page' = IF ~c.current THEN page
             ELSE [page EXCEPT !.resolving = FALSE, !.revealed = {},
                     !.results = IF ok THEN [token |-> c.token, credential |-> c.credential,
                                             names |-> c.names]
                                 ELSE None]

\* Revealed by a click; hidden by another or after five seconds.
Reveal(name) ==
  /\ page.results # None /\ name \in page.results.names
  /\ page' = [page EXCEPT !.revealed = IF name \in @ THEN @ \ {name} ELSE @ \cup {name}]
  /\ UNCHANGED calls

-----------------------------------------------------------------------------
Next ==
  \/ \E token \in Consumers \cup {None} : TypeToken(token)
  \/ Discover \/ Resolve
  \/ \E credential \in Credentials : SelectCredential(credential)
  \/ \E name \in Names : ToggleName(name) \/ Reveal(name)
  \/ \E c \in calls :
       \/ \E list \in SUBSET Credentials : Discovered(c, list)
       \/ DiscoveryFailed(c)
       \/ \E ok \in BOOLEAN : Resolved(c, ok)

Spec == Init /\ [][Next]_vars

-----------------------------------------------------------------------------
\* The secrets on the screen are those of the selected Credential, resolved
\* with the token whose Credentials are listed; a resolve that was overtaken by
\* another selection or token shows nothing.
ActsOnWhatIsShown ==
  page.results # None => /\ page.results.credential = page.selected
                         /\ page.results.token = page.token
                         /\ page.revealed \subseteq page.results.names
=============================================================================
