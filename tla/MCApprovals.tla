---------------------------- MODULE MCApprovals ----------------------------
(* One member with an agent, an admin and two owners; merging, registering a
   webhook and erasing, under the seeded rules and under stricter ones. *)
EXTENDS Approvals, TLC

CONSTANTS own1, own2

Delegation(p, r, product) == [sub |-> p, orgRole |-> r, teamRole |-> None, product |-> product]
Con(actor, p, a) == [actor |-> actor, sub |-> p, agent |-> a, binds |-> TRUE]
Nessie(p, r, actor, a) ==
    [app |-> "nessie", delegation |-> Delegation(p, r, "nessie"), context |-> Con(actor, p, a)]
\* The last is a person's delegation beside another person's context.
MCRequests ==
    {Nessie("mem", "member", "agent", "bot"),
     Nessie(own1, "owner", "human", None),
     Nessie(own2, "owner", "human", None),
     [app |-> None, delegation |-> Delegation("adm", "admin", "direct"), context |-> None],
     [Nessie("mem", "member", "human", None) EXCEPT !.delegation.sub = "adm"]}
MCArgs == {"merge", "webhook"}
MCToolOf(a) == a
MCNeeds(a) == {[action |-> a, scopes |-> {"team"}, sensitivity |-> None]}

Rule(a, e, ap, b) == [action |-> a, effect |-> e, approval |-> ap, priority |-> 0,
                      scope |-> "team", sensitivity |-> None, bindings |-> b]
Role(S) == {<<"role", r>> : r \in S}
Seeded ==
    {Rule("merge", "deny", TRUE, Role({"member"})),
     Rule("merge", "allow", FALSE, Role({"admin", "owner"})),
     Rule("webhook", "deny", FALSE, Role({"member"})),
     Rule("webhook", "allow", TRUE, Role({"admin", "owner"})),
     Rule("erase", "deny", TRUE, Role({"member", "admin"})),
     Rule("erase", "allow", TRUE, Role({"owner"})),
     Rule("webhook", "allow", FALSE, {<<"agent", "direct", "*">>}),
     Rule("merge", "allow", FALSE, {<<"agent", "nessie", "*">>}),
     Rule("webhook", "allow", FALSE, {<<"agent", "nessie", "*">>})}
MCRuleSets == {Seeded, Seeded \cup {Rule("merge", "deny", FALSE, {<<"human", "mem">>})}}
Owners == Permutations({own1, own2})
=============================================================================
