------------------------- MODULE MCCredentialTransfer -------------------------
EXTENDS CredentialTransfer

MCInitial == <<[acct |-> Account("a"), link |-> Nil, gen |-> 0, state |-> "live", version |-> 1,
                key |-> 1, by |-> NoOne]>>

Rec(id, acct, gen) == [id |-> id, acct |-> Account(acct), link |-> Nil, gen |-> gen, key |-> id,
                       state |-> "live", version |-> 1]
Plain(records) == [form |-> "plain", sound |-> TRUE, records |-> records]
Csv(closed, table) == [form |-> "csv", sheet |-> [closed |-> closed, table |-> table]]

Head1 == <<"providerKey", "externalReference", "credentialMethodKey", "key">>
Field(key, aliases, secret) == [key |-> key, aliases |-> aliases, secret |-> secret]
MCProviders == [p |-> [methods |-> [m |-> {Field("apiKey", {"key"}, TRUE), Field("org", {}, FALSE)}],
                       bound |-> {"m"}, fields |-> {}],
                q |-> [methods |-> <<>>, bound |-> {}, fields |-> {}]]
MCSecretColumn == [secret |-> "apiKey"]

MCTransfers ==
  {Plain(<<Rec(1, "a", 0), Rec(2, "b", 0)>>),          \* one that is known and one that is not
   Plain(<<Rec(2, "b", 0), Rec(3, "b", 0)>>),          \* the same account twice
   Plain(<<Rec(2, "a", 0)>>),                          \* a known account
   Plain(<<Rec(1, "a", 1)>>),                          \* of another generation
   [form |-> "encrypted", sound |-> TRUE, right |-> FALSE, records |-> <<>>],
   Csv(TRUE, <<Head1, <<"p", "a", "m", "s">>, <<"p", "b", "m", "s">>>>),
   Csv(TRUE, <<Head1, <<"p", "a", "n", "s">>>>)}

\* Every choice and order of two further columns, and of what is in them.
Columns == {"apiKey", "key", "org", "secret"}
MCSheets ==
  {[closed |-> TRUE, table |-> <<<<"providerKey", "externalReference", "credentialMethodKey", c, d>>,
                                 <<p, "a", "m", v, w>>>>] :
     p \in {"p", "q"}, c \in Columns, d \in Columns, v \in {"s", "t", Blank}, w \in {"s", "u", Blank}}

Symmetry == Permutations(TransferRequests)
=============================================================================
