------------------------------ MODULE MCWebPages ------------------------------
(***************************************************************************)
(* The pages of the browser, one open at a time.  Pages share nothing but  *)
(* the server, whose answers each module leaves open, so what holds of     *)
(* each page alone holds of any number of pages.                           *)
(*                                                                         *)
(* Two Credentials with a secret in common and one of its own: enough for  *)
(* an answer, a selection or a form that belongs to the other one.         *)
(***************************************************************************)
EXTENDS Naturals, TLC

CONSTANTS Consumers, Grantees, Credentials, Names, Secrets, Payloads,
          MaxCreated, MaxTokens, MaxCalls, MaxActs, MaxPanels, Nil

VARIABLES tab,                                   \* which page is open
          page, calls,                           \* its state and its requests
          login, panel, server, proof, acts      \* of the wizard only

pagesVars == <<tab, page, calls, login, panel, server, proof, acts>>
wizardOnly == <<login, panel, server, proof, acts>>

Wizard == INSTANCE AdminWizard WITH None <- Nil
Transfer == INSTANCE TransferPage WITH None <- Nil
Registry == INSTANCE CredentialsPage WITH None <- Nil
Grants == INSTANCE GrantsPage WITH Consumers <- Grantees, None <- Nil
Tokens == INSTANCE TokensPage WITH None <- Nil
Consumer == INSTANCE ConsumerPage WITH None <- Nil

\* Nil is none of the grants the wizard asks for, and there is a token to begin with.
Configurations == [consumer : Consumers \cup {Nil}, credential : Nat,
                   provider : Wizard!Providers \cup {Nil}, names : SUBSET Names]
ASSUME PagesAssumption == Nil \notin Configurations /\ Consumers # {} /\ MaxCreated \in Nat

PagesInit ==
  \/ tab = "wizard" /\ Wizard!Init
  \/ /\ \/ tab = "transfer" /\ Transfer!Init
        \/ tab = "credentials" /\ Registry!Init
        \/ tab = "grants" /\ Grants!Init
        \/ tab = "tokens" /\ Tokens!Init
        \/ tab = "consumer" /\ Consumer!Init
     /\ login = Nil /\ panel = Nil /\ server = Nil /\ proof = Nil /\ acts = Nil

PagesNext ==
  /\ UNCHANGED tab
  /\ \/ tab = "wizard" /\ Wizard!Next
     \/ /\ \/ tab = "transfer" /\ Transfer!Next
           \/ tab = "credentials" /\ Registry!Next
           \/ tab = "grants" /\ Grants!Next
           \/ tab = "tokens" /\ Tokens!Next
           \/ tab = "consumer" /\ Consumer!Next
        /\ UNCHANGED wizardOnly

PagesSpec == PagesInit /\ [][PagesNext]_pagesVars

-----------------------------------------------------------------------------
\* The wizard announces only what a real resolve has just proved (AdminWizard).
CompleteWasVerified == tab = "wizard" => Wizard!CompleteWasVerified

\* Late or overtaken answers never make a page act on, or show, something else
\* than what the user sees there: an import that was not previewed, the values of
\* another Credential, secrets of another Credential or token, secrets the
\* Credential of a grant does not have; and no new token is lost.
ActsOnWhatIsShown ==
  CASE tab = "transfer"    -> Transfer!ActsOnWhatIsShown
    [] tab = "credentials" -> Registry!ActsOnWhatIsShown
    [] tab = "grants"      -> Grants!ActsOnWhatIsShown
    [] tab = "tokens"      -> Tokens!ActsOnWhatIsShown
    [] tab = "consumer"    -> Consumer!ActsOnWhatIsShown
    [] OTHER               -> TRUE

-----------------------------------------------------------------------------
CONSTANTS k1, k2, n1, n2

MCSecrets == k1 :> {n1} @@ k2 :> {n1, n2}
=============================================================================
