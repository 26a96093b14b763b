------------------------------- MODULE Policy -------------------------------
(***************************************************************************)
(* Policy evaluation (api/src/services/policy.ts).  Rules are immutable    *)
(* once a team is seeded.  A rule or a request names its resource and      *)
(* action together ("merge.merge"); a binding is <<"human", person>>,      *)
(* <<"role", role>> or <<"agent", app, agent>>, where the agent may be "*".*)
(***************************************************************************)
EXTENDS Inbound, FiniteSets

CONSTANTS
    DefaultDenied,  \* actions nobody has without a rule
    GrantedToDirect \* actions a direct client needs a rule of its own for

HardDeny == [allowed |-> FALSE, approval |-> FALSE]

\* The rules that speak of a request.
Scoped(rules, req) ==
    {r \in rules : /\ r.action = req.action
                   /\ r.scope \in req.scopes
                   /\ r.sensitivity \in {None, req.sensitivity}}

BoundTo(rules, ids) == {r \in rules : r.bindings \cap ids # {}}

\* A deny beats an allow, a deny without approval beats one with; among the
\* allows those of the highest priority say whether approval is needed.
DecideByRules(rules) ==
    LET denies == {r \in rules : r.effect = "deny"}
        allows == rules \ denies
        top    == {r \in allows : \A o \in allows : o.priority <= r.priority}
    IN  IF denies # {}
        THEN [allowed |-> FALSE, approval |-> \A r \in denies : r.approval]
        ELSE IF allows = {} THEN HardDeny
        ELSE [allowed |-> TRUE, approval |-> \E r \in top : r.approval]

HumanIds(ctx) ==
    {<<"human", ctx.who>>} \cup (IF ctx.role = None THEN {} ELSE {<<"role", ctx.role>>})

AgentIds(ctx) == {<<"agent", ctx.app, ctx.agent>>, <<"agent", ctx.app, "*">>}

DirectIds == {<<"agent", "direct", "*">>}

HumanSide(ctx, scoped) ==
    DecideByRules(BoundTo(scoped, HumanIds(ctx)))

\* Mutant: either side's permission is enough.
EitherSide(a, b, otherwise) == IF a.allowed THEN a ELSE b

\* Two sides must both agree; what either wants approved needs approval.
Both(a, b, otherwise) ==
    IF a = HardDeny \/ b = HardDeny THEN HardDeny
    ELSE IF ~a.allowed \/ ~b.allowed THEN otherwise
    ELSE [allowed |-> TRUE, approval |-> a.approval \/ b.approval]

\* The person's own decision, with the default where no rule names them.
PersonMay(ctx, rules, req) ==
    LET scoped == Scoped(rules, req)
    IN  IF BoundTo(scoped, HumanIds(ctx)) # {} THEN HumanSide(ctx, scoped)
        ELSE [allowed |-> req.action \notin DefaultDenied, approval |-> FALSE]

EvaluatePolicy(ctx, rules, req) ==
    LET scoped == Scoped(rules, req)
        agent  == DecideByRules(BoundTo(scoped, AgentIds(ctx)))
    IN  IF ctx.who = None THEN HardDeny
        ELSE IF ctx.app = "direct" /\ req.action \in GrantedToDirect
        THEN Both(HumanSide(ctx, scoped), DecideByRules(BoundTo(scoped, DirectIds)), HardDeny)
        ELSE IF ctx.agent = None THEN PersonMay(ctx, rules, req)
        ELSE Both(PersonMay(ctx, rules, req), agent, [allowed |-> FALSE, approval |-> TRUE])

\* An operation that asks for several permissions is refused by the first hard
\* denial, and otherwise needs approval if any of them does.
Verdict(ctx, rules, reqs) ==
    LET ds == {EvaluatePolicy(ctx, rules, q) : q \in reqs}
    IN  IF HardDeny \in ds THEN "denied"
        ELSE IF \E d \in ds : ~d.allowed \/ d.approval THEN "approval"
        ELSE "ok"

\* The same for a tool whose operation accepts an approval in place of the
\* policy's requirement (erasure, suppressions, webhooks).
VerdictApproved(ctx, rules, reqs) ==
    LET ds == {EvaluatePolicy(ctx, rules, q) : q \in reqs}
    IN  IF \A d \in ds : d.allowed THEN "ok"
        ELSE IF HardDeny \in ds THEN "denied" ELSE "approval"
=============================================================================
