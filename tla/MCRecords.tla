----------------------------- MODULE MCRecords -----------------------------
(* Records as calls write them, every kind of request, with and without an
   expected version, on two records and two values; and, apart from that,
   three people with two emails and a phone, and what is submitted about them. *)
EXTENDS RecordStore, Intake, TLC

\* A behaviour is about one of the two: their states do not meet.
VARIABLE focus

Request(op, id, data, first, expect) ==
    [op |-> op, id |-> id, data |-> data, first |-> first, expect |-> expect]
MCIntent == {Request("create", None, {"x"}, None, None),
             Request("update", 1, {"y"}, None, None),
             Request("update", 1, {"x"}, None, 2),
             Request("assert", None, {"x", "y"}, "y", None),
             Request("assert", None, {"x"}, "x", 1),
             Request("delete", 1, {}, None, None),
             Request("delete", 2, {}, None, 1),
             Request("restore", 1, {}, None, None)}
Symmetry == Permutations(Callers)

Somebody(vals, name) ==
    [NoPerson EXCEPT !.status = "live", !.vals = vals, !.name = name, !.state = "not_confirmed"]
MCPerson == 1 .. 3
MCStarts ==
    {[p \in MCPerson |-> IF p = 1 THEN Somebody({"a@x", "b@x"}, "Ann")
                         ELSE IF p = 2 THEN Somebody({"555"}, None) ELSE NoPerson]}
Form(email, phone, name, act) == [email |-> email, phone |-> phone, name |-> name, act |-> act]
Act(caller, state, at, email) == [caller |-> caller, state |-> state, at |-> at, email |-> email]
MCSubmissions ==
    {Form("a@x", None, "Anna", None),
     Form("a@x", "555", "Ann", Act("subject", "not_confirmed", 2, "a@x")),
     Form("b@x", "555", "Bo", None),
     Form("c@x", None, "Bob", None)}
MCActs ==
    {Act("subject", "declined", 1, "a@x"), Act("person", "confirmed", 2, "b@x")}
\* For ObjectionHolds: an objection, and a confirmation that was late.
MCLateActs ==
    {Act("subject", "declined", 2, "c@x"), Act("subject", "confirmed", 1, "c@x")}

MCInit == focus \in {"store", "intake"} /\ Init /\ IntakeInit
MCNext == \/ focus = "store" /\ Next /\ UNCHANGED <<intakeVars, focus>>
          \/ focus = "intake" /\ IntakeNext /\ UNCHANGED <<vars, focus>>
MCSpec == MCInit /\ [][MCNext]_<<vars, intakeVars, focus>>
=============================================================================
