------------------------------ MODULE Inbound ------------------------------
(***************************************************************************)
(* Who a request speaks for (packages/mcp-inbound, services/context.ts).   *)
(* A request carries an app key or a direct client's bearer, a delegation  *)
(* that names a person, and a context the app signed.  Signatures are      *)
(* taken as valid; what the claims must agree on is modelled.              *)
(***************************************************************************)
EXTENDS Team, Integers

CONSTANTS
    SubjectTools    \* tools an app may call for the data subject itself

Nobody == [who |-> None, role |-> None, app |-> None, agent |-> None]

\* resolveRole: an owner of the organisation, or the role in the active team.
ResolveRole(del) ==
    LET r == IF del.teamRole # None THEN del.teamRole ELSE del.orgRole
    IN  IF del.orgRole = "owner" THEN "owner"
        ELSE IF r \in {"admin", "member"} THEN r ELSE None

\* A context names an agent, or a person positively, or the data subject alone.
WellFormed(con) ==
    \/ con.actor = "agent" /\ con.agent # None /\ con.sub # None
    \/ con.actor = "human" /\ con.agent = None /\ con.sub # None
    \/ con.actor = "subject" /\ con.agent = None /\ con.sub = None

AuthenticateDirect(del) ==
    IF del # None /\ del.product = "direct"
    THEN [who |-> del.sub, role |-> ResolveRole(del), app |-> "direct", agent |-> None]
    ELSE Nobody

\* The subject's own act: no delegation, one tool of the app's list, this call.
AuthenticateSubject(app, con, tool) ==
    IF con.actor = "subject" /\ WellFormed(con) /\ con.binds /\ tool \in SubjectTools
    THEN [Nobody EXCEPT !.app = app]
    ELSE Nobody

\* The principal a request's tokens agree on, or Nobody.
Authenticate(req, tool) ==
    LET del == req.delegation
        con == req.context
    IN  IF req.app = None THEN AuthenticateDirect(del)
        ELSE IF con = None THEN Nobody
        ELSE IF del = None THEN AuthenticateSubject(req.app, con, tool)
        ELSE IF /\ del.product = req.app
                /\ con.actor # "subject"
                /\ WellFormed(con)
                /\ con.binds
                /\ con.sub = del.sub
        THEN [who |-> del.sub, role |-> ResolveRole(del), app |-> req.app, agent |-> con.agent]
        ELSE Nobody
=============================================================================
