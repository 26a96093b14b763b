----------------------------- MODULE Approvals -----------------------------
(***************************************************************************)
(* Tool calls from the HTTP request to the mutation: authentication and    *)
(* the replay bound (plugins/mcp-http.ts, services/principals.ts), policy, *)
(* and approvals (services/approvals.ts, mcp/tools/approval.ts).           *)
(*                                                                         *)
(* A delivery is one arrival of a message at the server; a client may      *)
(* deliver a message again.  `calls` is indexed by deliveries, and a       *)
(* delivery that asks for approval gives its number to the row it creates  *)
(* and to the token of its challenge.                                      *)
(***************************************************************************)
EXTENDS Policy

CONSTANTS
    Requests,       \* the tokens requests arrive with
    Args,           \* the argument lists used, each of one tool
    ToolOf(_),      \* its tool
    Needs(_),       \* the permissions its operation asks for
    OwnerApproved,  \* tools only an owner may approve
    OwnerRun,       \* tools only an owner may run
    OwnerAsks,      \* of these the ones a non-owner is refused outright
    Lifting,        \* tools whose operation takes an approval for the policy's
    ReplayBounded,  \* tools whose request id is consumed once
    RuleSets,       \* the rules a team may have
    MaxDeliveries, MaxOpenCalls, MaxClock, \* bounds
    MaxTeamPending, MaxRequesterPending,
    Life,           \* how long a delegation token is valid
    ReplayTtl,      \* how long a request id is remembered
    ApprovalTtl     \* how long an approval can be answered

VARIABLES
    rules,      \* the team's policy rules
    now,        \* the clock
    calls,      \* [delivery -> its call]
    seen,       \* seen_request_ids: [id, until]
    approvals        \* [delivery -> approval_requests row]

vars == <<rules, now, calls, seen, approvals>>

Delivery == 1 .. MaxDeliveries
Arrived == {d \in Delivery : calls[d] # None}
Asked == {r \in Delivery : approvals[r] # None}
In(pc) == {d \in Arrived : calls[d].pc = pc}
Over == {"executed", "refused", "challenged"}
Tool(d) == ToolOf(calls[d].args)

-----------------------------------------------------------------------------
(* What a call and an approval are made of *)

Contexts == {Authenticate(req, ToolOf(args)) : req \in Requests, args \in Args}
People == {c.who : c \in Contexts}

Call ==
    [pc : {"verified", "asking", "placing", "challenged", "answering", "prepared", "executed"},
     id : Delivery, ctx : Contexts, exp : Nat, at : Nat \cup {None}, args : Args,
     answer : [to : Delivery, yes : BOOLEAN] \cup {None}, row : Delivery \cup {None},
     asker : People \cup {None}, due : Nat \cup {None}]

Approval ==
    [args : Args, requester : People, role : {"owner", "admin"}, token : Delivery, exp : Nat,
     status : {"pending", "expired", "rejected", "consumed"}, resolver : People \cup {None}]

\* A request id is remembered for as long as its token verifies (principals.ts:14).
ASSUME ApprovalsAssumption ==
    /\ {MaxDeliveries, Life, ReplayTtl, ApprovalTtl, MaxTeamPending} \subseteq Nat
    /\ Life <= ReplayTtl
    /\ None \notin Nat \cup Call \cup Approval \cup [to : Delivery, yes : BOOLEAN] \cup {[pc |-> "refused"]}

-----------------------------------------------------------------------------

Satisfies(role, required) == role = "owner" \/ (required = "admin" /\ role = "admin")

RequiredRole(tool) == IF tool \in OwnerApproved THEN "owner" ELSE "admin"

Init ==
    /\ rules \in RuleSets
    /\ now = 0
    /\ calls = [d \in Delivery |-> None]
    /\ seen = {}
    /\ approvals = [r \in Delivery |-> None]

Tick == /\ now < MaxClock
        /\ now' = now + 1
        /\ UNCHANGED <<rules, calls, seen, approvals>>

\* A call that ended without an effect is of no more interest.
Ended == [pc |-> "refused"]
Refuse(d) == calls' = [calls EXCEPT ![d] = Ended]

-----------------------------------------------------------------------------
(* Arrival *)

\* Answers refer to the challenge another delivery was given.
Answers == {[to |-> d, yes |-> b] : d \in In("challenged"), b \in BOOLEAN}

\* The token names the call and must not have run out.
Verified(exp) == now < exp

\* authenticate: a new message, signed now, or one that was delivered before.
Arrive(d) ==
    /\ d \notin Arrived
    /\ \A e \in 1 .. d - 1 : e \in Arrived
    /\ Cardinality({e \in Arrived : calls[e].pc \notin Over}) < MaxOpenCalls
    /\ \/ \E req \in Requests, args \in Args, answer \in Answers \cup {None} :
             LET ctx == Authenticate(req, ToolOf(args))
             IN  calls' = [calls EXCEPT ![d] =
                   IF ctx = Nobody THEN Ended ELSE
                   [pc |-> "verified", id |-> d, ctx |-> ctx, exp |-> now + Life, at |-> None,
                    args |-> IF answer = None THEN args ELSE calls[answer.to].args,
                    answer |-> answer, row |-> None, asker |-> None, due |-> None]]
       \/ \E e \in Arrived \ In("refused") :
             /\ calls[e].id = e
             /\ Verified(calls[e].exp)
             /\ calls' = [calls EXCEPT ![d] =
                  [calls[e] EXCEPT !.pc = "verified", !.at = None, !.row = None,
                                   !.asker = None, !.due = None]]
    /\ UNCHANGED <<rules, now, seen, approvals>>

\* Mutant: request ids are forgotten a tick early.
ForgottenEarly == {s \in seen : s.until > now + 1}

\* consumeRequestId: what has run out is forgotten first.
Remembered == {s \in seen : s.until > now}

Unseen(d) == Tool(d) \in ReplayBounded => \A s \in Remembered : s.id # calls[d].id

Consumed(d) ==
    IF Tool(d) \in ReplayBounded
    THEN Remembered \cup {[id |-> calls[d].id, until |-> now + ReplayTtl]}
    ELSE seen

-----------------------------------------------------------------------------
(* Authorization of the tool's operation, without and with an approval *)

\* Erasure turns everyone but owners away; a webhook asks an owner to approve.
RunVerdict(ctx, args, approved) ==
    LET tool == ToolOf(args)
        v    == IF approved /\ tool \in Lifting
                THEN VerdictApproved(ctx, rules, Needs(args))
                ELSE Verdict(ctx, rules, Needs(args))
    IN  IF tool \notin OwnerRun \/ ctx.role = "owner" THEN v
        ELSE IF tool \in OwnerAsks THEN "denied"
        ELSE IF \E q \in Needs(args) : EvaluatePolicy(ctx, rules, q).approval
        THEN "approval" ELSE "denied"

\* buildActorContext, the replay bound, and the first attempt of withApproval:
\* the call runs, is refused, asks for approval, or answers a challenge.
Admit(d) ==
    /\ d \in In("verified")
    /\ IF ~Unseen(d)
       THEN Refuse(d) /\ seen' = Remembered
       ELSE /\ seen' = Consumed(d)
            /\ LET c == calls[d]
                   v == RunVerdict(c.ctx, c.args, FALSE)
                   pc == IF c.answer # None THEN "answering"
                         ELSE IF v = "ok" THEN "executed" ELSE "asking"
               IN  IF c.answer = None /\ v = "denied" THEN Refuse(d)
                   ELSE calls' = [calls EXCEPT ![d].pc = pc, ![d].at = now]
    /\ UNCHANGED <<rules, now, approvals>>

-----------------------------------------------------------------------------
(* Asking: requireApproval *)

IsPending(r) == approvals[r].status = "pending"

\* The pending approvals whose time is over become expired, whatever they ask for.
Expire(at) ==
    [r \in Delivery |-> IF r \in Asked /\ IsPending(r) /\ approvals[r].exp <= at
                        THEN [approvals[r] EXCEPT !.status = "expired"] ELSE approvals[r]]

StillPending(at) == {r \in Asked : IsPending(r) /\ approvals[r].exp > at}

Duplicates(d) == {r \in StillPending(calls[d].at) : approvals[r].args = calls[d].args}

\* Mutant: requests do not wait for each other.
LockIgnored == TRUE

\* The team's advisory lock; decisions do not take it.
TeamLockFree == In("placing") = {}

\* Expired approvals are marked, and the duplicate or the room for a row is found.
FindDuplicate(d) ==
    /\ d \in In("asking")
    /\ TeamLockFree
    /\ LET at   == calls[d].at
           dups == Duplicates(d)
           mine == {r \in StillPending(at) : approvals[r].requester = calls[d].ctx.who}
           full == \/ Cardinality(StillPending(at)) >= MaxTeamPending
                   \/ Cardinality(mine) >= MaxRequesterPending
           found == IF dups = {} THEN d ELSE CHOOSE r \in dups : \A s \in dups : r <= s
       IN  IF dups = {} /\ full THEN Refuse(d) /\ approvals' = approvals
           ELSE /\ calls' = [calls EXCEPT ![d].pc = "placing", ![d].row = found]
                /\ approvals' = Expire(at)
    /\ UNCHANGED <<rules, now, seen>>

\* The update names the row by its id alone: it changes requester, token and
\* expiry of a row that was decided since it was found.
PlacedRow(d) ==
    LET c   == calls[d]
        new == [args |-> c.args, requester |-> c.ctx.who, role |-> RequiredRole(Tool(d)),
                token |-> d, exp |-> c.at + ApprovalTtl, status |-> "pending", resolver |-> None]
    IN  IF c.row = d THEN new
        ELSE [new EXCEPT !.status = approvals[c.row].status, !.resolver = approvals[c.row].resolver]

PlaceApproval(d) ==
    /\ d \in In("placing")
    /\ approvals' = [approvals EXCEPT ![calls[d].row] = PlacedRow(d)]
    /\ calls' = [calls EXCEPT ![d].pc = "challenged", ![d].due = calls[d].at + ApprovalTtl]
    /\ UNCHANGED <<rules, now, seen>>

-----------------------------------------------------------------------------
(* Answering: prepareApproval, consumeApproval, rejectApproval *)

Challenge(d) == calls[calls[d].answer.to]

\* verifyApprovalState: the sealed challenge, against this call.
ChallengeHolds(d) ==
    /\ Challenge(d).due > calls[d].at
    /\ Challenge(d).ctx.app = calls[d].ctx.app
    /\ Challenge(d).args = calls[d].args

\* Mutant: the statement names the row by id and status alone.
DecidableById(d, r) == approvals[r].status = "pending"

\* The condition of the statements that decide a row.
Decidable(d, r) ==
    /\ approvals[r].args = calls[d].args
    /\ approvals[r].token = calls[d].answer.to
    /\ Satisfies(calls[d].ctx.role, approvals[r].role)
    /\ approvals[r].requester # calls[d].ctx.who
    /\ approvals[r].status = "pending"
    /\ approvals[r].exp > calls[d].at

Resolved(d, r, status) ==
    [approvals EXCEPT ![r].status = status, ![r].resolver = calls[d].ctx.who]

\* An answer that is not an approval rejects the row, if it may.
RejectApproval(d) ==
    /\ d \in In("answering")
    /\ ~calls[d].answer.yes
    /\ LET r == Challenge(d).row
       IN  IF ChallengeHolds(d) /\ Decidable(d, r)
           THEN approvals' = Resolved(d, r, "rejected")
           ELSE approvals' = approvals
    /\ Refuse(d)
    /\ UNCHANGED <<rules, now, seen>>

\* The approver must be another person than the challenge names.
MayPrepare(d, r) ==
    /\ ChallengeHolds(d)
    /\ calls[d].ctx.who # Challenge(d).ctx.who
    /\ approvals[r].requester = Challenge(d).ctx.who
    /\ Decidable(d, r)

\* The row is read and the operation authorized for the approver, outside the
\* transaction that will consume it.
Prepare(d) ==
    /\ d \in In("answering")
    /\ calls[d].answer.yes
    /\ LET r == Challenge(d).row
       IN  IF MayPrepare(d, r) /\ RunVerdict(calls[d].ctx, approvals[r].args, TRUE) = "ok"
           THEN calls' = [calls EXCEPT ![d].pc = "prepared", ![d].row = r,
                                       ![d].args = approvals[r].args]
           ELSE Refuse(d)
    /\ UNCHANGED <<rules, now, seen, approvals>>

\* The transaction of the operation consumes the row first; it aborts when that
\* fails, and may fail for reasons of its own.
Execute(d) ==
    /\ d \in In("prepared")
    /\ Decidable(d, calls[d].row)
    /\ approvals' = Resolved(d, calls[d].row, "consumed")
    /\ calls' = [calls EXCEPT ![d].pc = "executed", ![d].asker = approvals[calls[d].row].requester]
    /\ UNCHANGED <<rules, now, seen>>

Abort(d) ==
    /\ d \in In("prepared")
    /\ Refuse(d)
    /\ UNCHANGED <<rules, now, seen, approvals>>

Next ==
    \/ Tick
    \/ \E d \in Delivery :
          \/ Arrive(d) \/ Admit(d) \/ FindDuplicate(d) \/ PlaceApproval(d)
          \/ RejectApproval(d) \/ Prepare(d) \/ Execute(d) \/ Abort(d)

Spec == Init /\ [][Next]_vars

-----------------------------------------------------------------------------
(* Properties *)

Approved == {d \in In("executed") : calls[d].answer # None}

\* Every approval carries at most one execution, by someone other than the person
\* it was asked for at that moment and of the role its tool demands, however
\* requests, repeated requests, answers and failures interleave.
ApprovalIsSecondPerson ==
    /\ \A d, e \in Approved : d # e => calls[d].row # calls[e].row
    /\ \A d \in Approved : /\ calls[d].ctx.who # calls[d].asker
                           /\ Satisfies(calls[d].ctx.role, RequiredRole(Tool(d)))

\* No two approvals of the same call are open at once, and a team never has more
\* open approvals than it may have, although several requests look for a
\* duplicate and for room at the same time.
PendingBounded ==
    /\ Cardinality(StillPending(now)) <= MaxTeamPending
    /\ \A r, s \in {q \in Asked : IsPending(q)} : approvals[r].args = approvals[s].args => r = s

\* Whatever runs was open to the person it runs for: nothing they are denied
\* outright, nothing that needs approval without one, and an agent or a direct
\* client adds nothing to what its person may do.
PersonNotExceeded ==
    \A d \in In("executed") : \A q \in Needs(calls[d].args) :
       LET p == PersonMay(calls[d].ctx, rules, q)
       IN  p.allowed /\ (p.approval => d \in Approved)

\* A message delivered again does not run a destructive tool again, unless it
\* was admitted after the token it was verified by had run out.
RepeatsRunOnce ==
    \A d, e \in In("executed") \cup In("challenged") \cup In("prepared") :
       /\ d # e
       /\ calls[d].id = calls[e].id
       /\ Tool(d) \in ReplayBounded
       => \E f \in {d, e} : calls[f].at >= calls[f].exp

\* auth-and-tenancy.md 4: the approver differs from the person the request is on
\* behalf of.  The row that records a consumed approval must say so.
ResolverIsNotRequester ==
    \A r \in Asked : approvals[r].status = "consumed" => approvals[r].resolver # approvals[r].requester
=============================================================================
