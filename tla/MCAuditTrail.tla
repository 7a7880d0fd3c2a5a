------------------------------ MODULE MCAuditTrail ------------------------------
EXTENDS AuditTrail, TLC

Keys(k) == [keys |-> k, active |-> Nil]
MCConfs == {Keys(<<"k">>), Keys(<<"k", "l">>), Keys(2 :> "l"),
            [keys |-> <<"k", "unfit">>, active |-> 2]}

MCListed == <<"audit-log.json", "credentials.json">>
MCEarlier == {[t |-> 1, n |-> 1], [t |-> Nil, n |-> 2]}

Kept(ver, key, body) == [sealed |-> TRUE, intact |-> TRUE, known |-> TRUE, ver |-> ver, key |-> key,
                         body |-> body]
Plain(known, body) == [sealed |-> FALSE, intact |-> TRUE, known |-> known, ver |-> Nil,
                       key |-> Nil, body |-> body]
Disk(log, credentials, definitions) ==
  (Log :> log) @@ ("credentials.json" :> credentials)
    @@ ("custom-provider-definitions.json" :> definitions)
MCDisks == {Disk(Kept(Nil, "k", MCEarlier), Plain(TRUE, {}), Kept(1, "k", {})),
            Disk(Nil, Kept(2, "l", {}), Nil),
            Disk(Plain(TRUE, Broken), Kept(1, "k", {}), Nil),
            Disk(Plain(FALSE, MCEarlier), Nil, Nil),
            Disk(Kept(1, "k", MCEarlier), [Kept(1, "k", {}) EXCEPT !.intact = FALSE], Nil)}

\* Neither invariant says anything of the log after two processes wrote at once.
Apart == ~overlapped
=============================================================================
