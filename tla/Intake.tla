------------------------------- MODULE Intake -------------------------------
(***************************************************************************)
(* People and what reaches them from outside: submissions of forms         *)
(* (services/intake*.ts), the proposals they leave (proposal-store.ts,     *)
(* proposal-decide.ts), consent acts (consent.ts), the state of each email *)
(* and phone (contact-points), merges and erasure (compliance/erase.ts).   *)
(*                                                                         *)
(* A person holds a set of emails and phones, and a name for the single-   *)
(* valued attributes.  What holds the team's topology lock is one step,    *)
(* except a submission, which reads before it places: a rejection takes no *)
(* lock and may come between.  Decisions and consent acts read first and   *)
(* write later.  Direct writes of the consent attributes are left out.     *)
(***************************************************************************)
EXTENDS Consent, FiniteSets, Sequences

CONSTANTS
    Person, Phone,
    Submissions,        \* the submissions: [email, phone, name, act]
    Acts,               \* the acts of consent_set
    Starts,             \* the people a team may have
    PerQueue, PerTeam,  \* PENDING_PER_QUEUE, PENDING_PER_TEAM
    MaxRows, MaxSubmits, MaxActs, MaxEdits, MaxCalls, MaxInFlight     \* bounds

VARIABLES
    people,     \* [person -> record]
    points,     \* record_contact_points: [person -> [value -> state]]
    rows,       \* record_proposals, in the order they were created
    order,      \* submitted_seq: {<<r, q>> : r was submitted before q}, of open rows
    entries,    \* suppression_entries
    sub,        \* the submission that holds the topology lock
    acting,     \* consent calls that have read: they hold their email's lock
    deciding,   \* decisions that have read their row
    spent,      \* [submits, acts, edits] so far
    waived,     \* history: emails of which a colleague took an entry away
    newest      \* history: [email -> the act about it with the latest time]

intakeVars == <<people, points, rows, order, entries, sub, acting, deciding, spent, waived, newest>>

Contact == Email \cup Phone
NoPoints == [v \in Contact |-> None]
NoPerson == [status |-> "absent", into |-> None, vals |-> {}, name |-> None,
             state |-> None, at |-> None, via |-> None]

ConsentStates == {"not_confirmed", "confirmed", "declined"}
ConsentActs == [caller : {"subject", "person", "agent"}, state : ConsentStates, at : Nat, email : Email]
Names == {None} \cup {s.name : s \in Submissions} \cup UNION {{start[p].name : p \in Person} : start \in Starts}
PersonState ==
    [status : {"absent", "live", "merged", "erased"}, into : Person \cup {None},
     vals : SUBSET Contact, name : Names, state : ConsentStates \cup {None},
     at : Nat \cup {None}, via : Email \cup {None}]

\* What people submit and do, and the people a team starts with: nobody is merged or erased, has
\* acted by an email, or shares one.
ASSUME IntakeAssumption ==
    /\ Person \subseteq Nat /\ PerQueue \in Nat /\ PerTeam \in Nat
    /\ None \notin Nat \cup Contact \cup ConsentStates \cup {"opt_out", "hold", "complaint", "erasure"}
    /\ Acts \subseteq ConsentActs
    /\ Submissions \subseteq [email : Email, phone : Phone \cup {None}, name : Names, act : ConsentActs \cup {None}]
    /\ \A s \in Submissions : s.act # None => s.act.email = s.email
    /\ Starts \subseteq [Person -> PersonState]
    /\ \A start \in Starts, p \in Person :
         /\ start[p].status \in {"absent", "live"} /\ start[p].into = None /\ start[p].via = None
         /\ start[p].state = None => start[p].at = None
         /\ \A q \in Person \ {p} : start[p].vals \cap start[q].vals \cap Email = {}

LivePeople == {p \in Person : people[p].status = "live"}
HoldersOf(v) == {p \in LivePeople : v \in people[p].vals}
Fresh == {p \in Person : people[p].status = "absent"}
Least(S) == CHOOSE p \in S : \A q \in S : p <= q

\* Unique keys: an email has one live holder.
Takes(p, v) == v \in Email => HoldersOf(v) \subseteq {p}

IntakeInit ==
    /\ people \in Starts
    /\ points = [p \in Person |-> NoPoints]
    /\ rows = <<>>
    /\ order = {}
    /\ entries = NoEntries
    /\ sub = None
    /\ acting = {}
    /\ deciding = {}
    /\ spent = [submits |-> 0, acts |-> 0, edits |-> 0]
    /\ waived = {}
    /\ newest = [e \in Email |-> [at |-> 0, state |-> None]]

CallsLeft == spent.submits + spent.acts + spent.edits < MaxCalls

-----------------------------------------------------------------------------
(* Contact points *)

MergedInto(p) == {l \in Person : people[l].into = p}

\* Mutant: the rows of merged records are not looked at.
OwnArchived(p) == {v \in Contact : points[p][v] = "archived"}

\* contactPointRows: a person's own row, or that of a record merged into it.
ArchivedOn(p) ==
    {v \in Contact : \/ points[p][v] = "archived"
                     \/ points[p][v] = None /\ \E l \in MergedInto(p) : points[l][v] = "archived"}

\* archivedHolders: every live person an archived row leads to.
ArchivedHolders(v) ==
    {p \in LivePeople : \E q \in {p} \cup MergedInto(p) : points[q][v] = "archived"}

\* syncContactPoints: what a write adds is held, what it drops loses its row
\* unless archived.
Synced(p, before, after) ==
    [v \in Contact |-> IF v \in after \ before THEN "held"
                       ELSE IF v \in before \ after /\ points[p][v] = "held" THEN None
                       ELSE points[p][v]]

-----------------------------------------------------------------------------
(* Proposals *)

Open(P, r) == P.rows[r].status \in {"pending", "superseded"}

OpenRows(P) == {r \in 1 .. Len(P.rows) : Open(P, r)}

\* The newest open row of the same queue and value, if there is one.
FindOpen(P, new) ==
    LET same == {r \in OpenRows(P) : P.rows[r].queue = new.queue /\ P.rows[r].value = new.value}
    IN  IF same = {} THEN None ELSE CHOOSE r \in same : \A q \in same \ {r} : <<q, r>> \in P.order

\* Mutant: a row that was open when it was found is open.
StillThere(P, r) == TRUE

\* collapse: pending again, and the newest of its queue; the status is checked
\* again by the statement.
Collapsible(P, r) == Open(P, r)

Without(seq, R) == {x \in seq : x[1] \notin R /\ x[2] \notin R}

Newest(P, r) == Without(P.order, {r}) \cup ((OpenRows(P) \ {r}) \X {r})

Place(P, found, new) ==
    IF found # None /\ Collapsible(P, found)
    THEN [rows |-> [P.rows EXCEPT ![found] = [@ EXCEPT !.status = "pending", !.cands = new.cands]],
          order |-> Newest(P, found)]
    ELSE [rows |-> Append(P.rows, new), order |-> Newest(P, Len(P.rows) + 1)]

PendingOf(P, R) == {r \in R : P.rows[r].status = "pending"}
Queued(P, queue) == {r \in 1 .. Len(P.rows) : P.rows[r].queue = queue}

\* The oldest beyond a window: as many others as it has room for came later.
Beyond(P, R, window) == {r \in R : Cardinality({q \in R : <<r, q>> \in P.order}) >= window}

SupersededIn(P, R) ==
    [rows |-> [r \in 1 .. Len(P.rows) |->
        IF r \in R THEN [P.rows[r] EXCEPT !.status = "superseded"] ELSE P.rows[r]],
     order |-> P.order]

\* Mutant: only the queue's window is kept.
QueueWindow(P, queue) ==
    SupersededIn(P, Beyond(P, PendingOf(P, Queued(P, queue)), PerQueue))

\* supersedeOverflow: the queue just written to, then the team.
SupersedeOverflow(P, queue) ==
    LET Q == SupersededIn(P, Beyond(P, PendingOf(P, Queued(P, queue)), PerQueue))
    IN  SupersededIn(Q, Beyond(Q, PendingOf(Q, 1 .. Len(Q.rows)), PerTeam))

Proposed(P, found, new) == SupersedeOverflow(Place(P, found, new), new.queue)

Amendment(p, name) ==
    [queue |-> <<p>>, value |-> name, on |-> p, sub |-> None, cands |-> {},
     status |-> "pending", result |-> None]

Match(s, cands) ==
    [queue |-> <<s.email, s.phone>>, value |-> s.name, on |-> None, sub |-> s, cands |-> cands,
     status |-> "pending", result |-> None]

Store == [rows |-> rows, order |-> order]

-----------------------------------------------------------------------------
(* What a submission does *)

Identifiers(s) == {s.email, s.phone} \ {None}

\* findCandidates, by active and by archived values.
Active(s) == UNION {HoldersOf(v) : v \in Identifiers(s)}
Candidates(s) == Active(s) \cup UNION {ArchivedHolders(v) : v \in Identifiers(s)}

\* One person, by an active value.
Certain(s) == \E p \in Active(s) : Candidates(s) = {p}

\* via (history): the email of the act, for as long as the person holds it.
StillVia(email, vals) == IF email \in vals THEN email ELSE None

WithConsent(person, act) ==
    [person EXCEPT !.state = act.state, !.at = act.at, !.via = StillVia(act.email, person.vals)]

\* createPerson
NewPerson(s) ==
    LET p == [NoPerson EXCEPT !.status = "live", !.vals = Identifiers(s), !.name = s.name]
    IN  IF s.act = None THEN [p EXCEPT !.state = "not_confirmed"] ELSE WithConsent(p, s.act)

\* planPairChanges: empty fields are filled, items added beside the stored ones;
\* what is archived on the person stays archived.
Filled(p, s) == people[p].vals \cup (Identifiers(s) \ ArchivedOn(p))
Amends(p, s) == people[p].name # None /\ s.name \notin {None, people[p].name}

\* pairWithRecord; consent only when the person held the email before.
Paired(p, s) ==
    LET filled == [people[p] EXCEPT !.vals = Filled(p, s),
                                    !.name = IF @ = None THEN s.name ELSE @]
    IN  IF s.act # None /\ p \in HoldersOf(s.email) /\ ConsentWrites(s.act, people[p])
        THEN WithConsent(filled, s.act) ELSE filled

\* Whether the act of a submission reaches a record.
Wrote(s) ==
    \/ Candidates(s) = {}
    \/ \E p \in HoldersOf(s.email) : ConsentWrites(s.act, people[p])

\* The proposal the submission leaves: an amendment, a match, or none.
Leaves(s) ==
    IF Candidates(s) = {} THEN None
    ELSE IF ~Certain(s) THEN Match(s, Candidates(s))
    ELSE LET p == CHOOSE q \in Active(s) : TRUE
         IN  IF Amends(p, s) THEN Amendment(p, s.name) ELSE None

Busy(e) == \E c \in acting : c.act.email = e

\* Mutant: a write locks the email it was called for only.
NoKeysLocked(vals, own) == TRUE

\* syncUniqueKeys locks every key the written record holds.
KeysFree(vals, own) == \A e \in (vals \cap Email) \ own : ~Busy(e)

Noted(act) ==
    IF act.at > newest[act.email].at
    THEN [newest EXCEPT ![act.email] = [at |-> act.at, state |-> act.state]] ELSE newest

\* reserve, lockLinkTopology, lockKeys, and the look for an open proposal.
SubmitFinds(s) ==
    /\ sub = None
    /\ CallsLeft /\ spent.submits < MaxSubmits
    /\ ~Busy(s.email)
    /\ Candidates(s) = {} => Fresh # {}
    /\ LET new == Leaves(s)
       IN  sub' = [s |-> s, new |-> new, found |-> IF new = None THEN None ELSE FindOpen(Store, new)]
    /\ spent' = [spent EXCEPT !.submits = @ + 1]
    /\ UNCHANGED <<people, points, rows, order, entries, acting, deciding, waived, newest>>

\* write, effects and audit, and commit.
SubmitWrites ==
    /\ sub # None
    /\ LET s    == sub.s
           P    == IF sub.new = None THEN Store ELSE Proposed(Store, sub.found, sub.new)
           p    == IF Candidates(s) = {} THEN Least(Fresh) ELSE CHOOSE q \in Active(s) : TRUE
           new  == IF Candidates(s) = {} THEN NewPerson(s) ELSE Paired(p, s)
           after == IF Candidates(s) = {} \/ Certain(s) THEN [people EXCEPT ![p] = new]
                    ELSE [q \in Person |->   \* consentWithoutPairing
                       IF s.act # None /\ q \in HoldersOf(s.email) /\ ConsentWrites(s.act, people[q])
                       THEN WithConsent(people[q], s.act) ELSE people[q]]
       IN  /\ Len(P.rows) <= MaxRows
           /\ \A q \in Person : after[q] # people[q] => KeysFree(after[q].vals, {})
           /\ rows' = P.rows /\ order' = P.order
           /\ people' = after
           /\ points' = [q \in Person |-> Synced(q, people[q].vals, after[q].vals)]
           /\ entries' = IF s.act = None THEN entries
                         ELSE SettleConsentSuppression(entries, s.act, Wrote(s))
           /\ waived' = IF s.act # None /\ s.act.state = "declined"
                        THEN waived \ {s.email} ELSE waived
           /\ newest' = IF s.act = None THEN newest ELSE Noted(s.act)
    /\ sub' = None
    /\ UNCHANGED <<acting, deciding, spent>>

\* A collision, or the victim of a deadlock.
SubmitFails ==
    /\ sub # None
    /\ sub' = None
    /\ UNCHANGED <<people, points, rows, order, entries, acting, deciding, spent, waived, newest>>

-----------------------------------------------------------------------------
(* crm_consent_set *)

\* setConsent up to what it read: the email's key lock, its holder, and the
\* consent the record holds.  A colleague may not see the record.
ConsentReads(act, create) ==
    /\ MaySet(act)
    /\ CallsLeft /\ spent.acts < MaxActs
    /\ ~Busy(act.email)
    /\ sub # None => sub.s.email # act.email
    /\ \E sees \in IF act.caller = "subject" THEN {TRUE} ELSE BOOLEAN :
         LET at == IF sees THEN HoldersOf(act.email) ELSE {}
             p  == IF at = {} THEN None ELSE CHOOSE q \in at : TRUE
         IN  acting' = acting \cup
               {[act |-> act, create |-> create, on |-> p,
                 writes |-> IF p = None THEN FALSE ELSE ConsentWrites(act, people[p])]}
    /\ spent' = [spent EXCEPT !.acts = @ + 1]
    /\ UNCHANGED <<people, points, rows, order, entries, sub, deciding, waived, newest>>

\* Nothing is written to a record: a refusal reaches the suppression store.
Keeps(c) == IF c.on = None THEN ~c.create ELSE ~c.writes

\* writeMatched and writeUnmatched: the record is written as it is found then.
ConsentWritesRecord(c) ==
    LET e == c.act.email
        p == IF c.on = None THEN Least(Fresh) ELSE c.on
        new == IF c.on = None
               THEN WithConsent([NoPerson EXCEPT !.status = "live", !.vals = {e}], c.act)
               ELSE WithConsent(people[p], c.act)
    IN  /\ sub = None
        /\ IF c.on = None THEN HoldersOf(e) = {} /\ Fresh # {} ELSE p \in LivePeople
        /\ KeysFree(new.vals, {e})
        /\ people' = [people EXCEPT ![p] = new]
        /\ entries' = SettleConsentSuppression(entries, c.act, TRUE)

ConsentFinishes(c) ==
    /\ \/ /\ Keeps(c)
          /\ people' = people
          /\ entries' = SettleConsentSuppression(entries, c.act, FALSE)
       \/ ~Keeps(c) /\ ConsentWritesRecord(c)
    /\ acting' = acting \ {c}
    /\ newest' = Noted(c.act)
    /\ waived' = IF c.act.state = "declined" THEN waived \ {c.act.email} ELSE waived
    /\ UNCHANGED <<points, rows, order, sub, deciding, spent>>

\* Another holder of the email, a record that is gone, a refused permission, or
\* the victim of a deadlock: the call locked its key before the topology.
ConsentFails(c) ==
    /\ acting' = acting \ {c}
    /\ UNCHANGED <<people, points, rows, order, entries, sub, deciding, spent, waived, newest>>

-----------------------------------------------------------------------------
(* crm_proposal_decide *)

\* decideProposal: the row, and the live record of an amendment.  An approval
\* of a match names a person or nobody.
DecideReads(r) ==
    /\ Open(Store, r)
    /\ Cardinality(deciding) < MaxInFlight
    /\ \E yes \in BOOLEAN, with \in IF rows[r].on = None THEN LivePeople \cup {None} ELSE {rows[r].on} :
          /\ rows[r].on # None => rows[r].on \in LivePeople
          /\ deciding' = deciding \cup
               {[row |-> r, yes |-> yes, with |-> IF yes THEN with ELSE None,
                 saw |-> IF rows[r].on = None THEN None ELSE people[rows[r].on]]}
    /\ UNCHANGED <<people, points, rows, order, entries, sub, acting, spent, waived, newest>>

\* Mutant: the row is settled by its id.
SettledById(P, r, status, result) ==
    [rows |-> [P.rows EXCEPT ![r] = [@ EXCEPT !.status = status, !.result = result]],
     order |-> Without(P.order, {r})]

\* settle: nothing, if another decision was first.
Settled(P, r, status, result) ==
    IF Open(P, r)
    THEN [rows |-> [P.rows EXCEPT ![r] = [@ EXCEPT !.status = status, !.result = result]],
          order |-> Without(P.order, {r})]
    ELSE None

\* Takes no lock of the team.
Reject(d) ==
    LET P == Settled(Store, d.row, "rejected", None)
    IN  /\ ~d.yes
        /\ P # None
        /\ rows' = P.rows /\ order' = P.order
        /\ UNCHANGED <<people, points>>

\* The version read guards the write: people[p] is as it was.
ApproveAmendment(d) ==
    LET p == rows[d.row].on
        P == Settled(Store, d.row, "approved", p)
    IN  /\ d.yes /\ p # None /\ sub = None
        /\ people[p] = d.saw
        /\ KeysFree(people[p].vals, {})
        /\ P # None
        /\ rows' = P.rows /\ order' = P.order
        /\ people' = [people EXCEPT ![p].name = rows[d.row].value]
        /\ points' = points

\* The stored submission, without its consent, creates the person or is paired
\* with the one the reviewer chose; its amendments are placed; then it settles.
ApproveMatch(d) ==
    LET s   == [rows[d.row].sub EXCEPT !.act = None]
        p   == IF d.with = None THEN Least(Fresh) ELSE d.with
        new == IF d.with = None THEN NewPerson(s) ELSE Paired(p, s)
        am  == Amendment(p, s.name)
        P   == IF d.with # None /\ Amends(p, s)
               THEN Proposed(Store, FindOpen(Store, am), am) ELSE Store
        Q   == Settled(P, d.row, "approved", p)
    IN  /\ d.yes /\ rows[d.row].on = None /\ sub = None
        /\ KeysFree(new.vals \cup {s.email}, {})
        /\ IF d.with = None
           THEN Fresh # {} /\ \A v \in Identifiers(s) : Takes(p, v)
           ELSE p \in LivePeople /\ \A v \in Filled(p, s) : Takes(p, v)
        /\ Q # None
        /\ Len(Q.rows) <= MaxRows
        /\ rows' = Q.rows /\ order' = Q.order
        /\ people' = [people EXCEPT ![p] = new]
        /\ points' = [points EXCEPT ![p] = Synced(p, people[p].vals, new.vals)]

Decide(d) ==
    /\ \/ Reject(d)
       \/ rows[d.row].status # "gone" /\ (ApproveAmendment(d) \/ ApproveMatch(d))
    /\ deciding' = deciding \ {d}
    /\ UNCHANGED <<entries, sub, acting, spent, waived, newest>>

\* The transaction rolls back, or the person may not decide.
DecideFails(d) ==
    /\ deciding' = deciding \ {d}
    /\ UNCHANGED <<people, points, rows, order, entries, sub, acting, spent, waived, newest>>

-----------------------------------------------------------------------------
(* People's own changes, one at a time under the topology lock *)

Edit == /\ sub = None
        /\ CallsLeft /\ spent.edits < MaxEdits
        /\ spent' = [spent EXCEPT !.edits = @ + 1]
        /\ UNCHANGED <<sub, acting, deciding, newest>>

SetValues(p, vals) ==
    /\ KeysFree(vals, {})
    /\ people' = [people EXCEPT ![p].vals = vals, ![p].via = StillVia(@, vals)]
    /\ UNCHANGED <<rows, order, entries, waived>>

\* A record update adds or drops an email or phone; its contact points follow.
UpdateValues(p, v) ==
    /\ Edit
    /\ p \in LivePeople
    /\ Takes(p, v)
    /\ LET vals == IF v \in people[p].vals THEN people[p].vals \ {v} ELSE people[p].vals \cup {v}
       IN  SetValues(p, vals) /\ points' = [points EXCEPT ![p] = Synced(p, people[p].vals, vals)]

\* replace_others: v stays, the other values of its attribute are archived.
ReplaceOthers(p, v) ==
    /\ Edit
    /\ p \in LivePeople
    /\ v \in people[p].vals
    /\ LET kind   == IF v \in Email THEN Email ELSE Phone
           others == (people[p].vals \cap kind) \ {v}
       IN  /\ SetValues(p, people[p].vals \ others)
           /\ points' = [points EXCEPT ![p] =
                [w \in Contact |-> IF w \in others THEN "archived" ELSE @[w]]]

\* restore: an archived value is active again; the row of a merged record is
\* copied, never moved.
RestoreValue(p, v) ==
    /\ Edit
    /\ p \in LivePeople
    /\ v \in ArchivedOn(p) \ people[p].vals
    /\ Takes(p, v)
    /\ SetValues(p, people[p].vals \cup {v})
    /\ points' = [points EXCEPT ![p][v] = "held"]

\* What the survivor has not is filled from the other: also the state of consent and its time.
Joined(kept, lost) ==
    [kept EXCEPT !.vals = @ \cup lost.vals,
                 !.name = IF @ = None THEN lost.name ELSE @,
                 !.state = IF @ = None THEN lost.state ELSE @,
                 !.at = IF @ = None THEN lost.at ELSE @,
                 !.via = IF kept.state = None THEN lost.via ELSE @]

\* Merging joins the values; contact-point rows and proposals stay where they are.
Merge(l, s) ==
    /\ Edit
    /\ {l, s} \subseteq LivePeople /\ l # s
    /\ KeysFree(people[s].vals \cup people[l].vals, {})
    /\ people' = [p \in Person |->
         IF p = s THEN Joined(people[s], people[l])
         ELSE IF p = l THEN [people[l] EXCEPT !.status = "merged", !.into = s]
         ELSE IF people[p].into = l THEN [people[p] EXCEPT !.into = s]
         ELSE people[p]]
    /\ UNCHANGED <<points, rows, order, entries, waived>>

\* Mutant: only the proposals to the record go.
NamesOnly(r, p) == rows[r].on = p

\* The proposals that hold values submitted about the record.
HoldsValuesOf(r, p) == rows[r].on = p \/ rows[r].result = p \/ p \in rows[r].cands

\* eraseRecord: suppression first, then the record, its points and proposals.
Erase(p, suppress) ==
    /\ Edit
    /\ p \in LivePeople
    /\ entries' = IF suppress
                  THEN SuppressContacts(entries, Email \cap
                         (people[p].vals \cup {v \in Contact : points[p][v] = "archived"}))
                  ELSE entries
    /\ people' = [people EXCEPT ![p] = [NoPerson EXCEPT !.status = "erased"]]
    /\ points' = [points EXCEPT ![p] = NoPoints]
    /\ LET gone == {r \in 1 .. Len(rows) : HoldsValuesOf(r, p)}
       IN  /\ rows' = [r \in 1 .. Len(rows) |->
                         IF r \in gone THEN [rows[r] EXCEPT !.status = "gone"] ELSE rows[r]]
           /\ order' = Without(order, gone)
    /\ waived' = waived

\* The suppression tools: an entry is added over the one there was, taken away
\* by an owner, or runs out.
Suppressions(e) ==
    /\ CallsLeft /\ spent.edits < MaxEdits
    /\ spent' = [spent EXCEPT !.edits = @ + 1]
    /\ \/ \E c \in Channel, reason \in {"complaint", "hold"} :
             /\ entries' = AddSuppression(entries, e, c, reason)
             /\ waived' = IF entries[e][c] # None THEN waived \cup {e} ELSE waived
       \/ \E c \in Channel : entries[e][c] # None
             /\ entries' = RemoveSuppression(entries, e, c)
             /\ waived' = waived \cup {e}
    /\ UNCHANGED <<people, points, rows, order, sub, acting, deciding, newest>>

Expires(e) ==
    /\ \E c \in Channel : entries[e][c] = "hold"
    /\ entries' = ExpireSuppression(entries, e)
    /\ UNCHANGED <<people, points, rows, order, sub, acting, deciding, spent, waived, newest>>

-----------------------------------------------------------------------------
Submits == SubmitWrites \/ SubmitFails \/ \E s \in Submissions : SubmitFinds(s)

IntakeNext ==
    \/ Submits
    \/ \E act \in Acts, create \in BOOLEAN : ConsentReads(act, create)
    \/ \E c \in acting : ConsentFinishes(c) \/ ConsentFails(c)
    \/ \E r \in 1 .. Len(rows) : DecideReads(r)
    \/ \E d \in deciding : Decide(d) \/ DecideFails(d)
    \/ \E p \in Person : \/ \E v \in Contact : UpdateValues(p, v) \/ ReplaceOthers(p, v) \/ RestoreValue(p, v)
                         \/ \E q \in Person : Merge(p, q)
                         \/ \E suppress \in BOOLEAN : Erase(p, suppress)
    \/ \E e \in Email : Suppressions(e) \/ Expires(e)

IntakeSpec == IntakeInit /\ [][IntakeNext]_intakeVars

-----------------------------------------------------------------------------
(* Properties *)

Pending == {r \in 1 .. Len(rows) : rows[r].status = "pending"}

\* One open row stands for all identical submissions, a queue and the team never
\* hold more pending rows than their windows, whatever is decided meanwhile.
OpenRowsBounded ==
    /\ Cardinality(Pending) <= PerTeam
    /\ \A r \in Pending : Cardinality({q \in Pending : rows[q].queue = rows[r].queue}) <= PerQueue
    /\ \A r, q \in 1 .. Len(rows) :
         /\ Open(Store, r) /\ Open(Store, q)
         /\ rows[r].queue = rows[q].queue /\ rows[r].value = rows[q].value
         => r = q

\* What a person decided stays decided, with the record it was decided for: no
\* later submission, decision or window reopens it; only erasure removes it.
DecisionIsFinal ==
    [][\A r \in 1 .. Len(rows) : rows[r].status \in {"approved", "rejected"} =>
          rows'[r] = rows[r] \/ rows'[r] = [rows[r] EXCEPT !.status = "gone"]]_intakeVars

\* When a person is erased no proposal holds values submitted about them, and
\* none comes back, whatever was being decided or submitted at that moment.
ErasedLeavesNothing ==
    \A p \in Person : people[p].status = "erased" =>
       /\ \A r \in 1 .. Len(rows) : rows[r].status # "gone" =>
            p \notin {rows[r].on, rows[r].result} \cup rows[r].cands
       /\ points[p] = NoPoints

\* A submission takes nothing away from anybody, and brings back no email or
\* phone that was archived on the person or on a record merged into them.
SubmissionsOnlyAdd ==
    [][Submits => \A p \in LivePeople :
          /\ people[p].vals \subseteq people'[p].vals
          /\ people[p].name \in {None, people'[p].name}
          /\ \A v \in people'[p].vals \ people[p].vals, q \in {p} \cup MergedInto(p) :
               points[q][v] = "archived" => points[p][v] = "held"]_intakeVars

\* A person who declined by an email they have held ever since is suppressed for
\* it, until a colleague takes that entry away, whatever acts, merges and forms follow.
RefusalHolds ==
    \A p \in LivePeople :
       people[p].state = "declined" /\ people[p].via \notin waived \cup {None}
       => EmailSuppressed(entries, people[p].via)

\* The consent of a person changes by newer acts only, although calls about two
\* emails they hold read it at the same time.
NewestActWins ==
    [][\A p \in LivePeople :
          /\ people'[p].status = "live" /\ people'[p].via # None
          /\ people[p].at # None
          /\ people'[p].at # people[p].at \/ people'[p].state # people[p].state
          => people'[p].at > people[p].at]_intakeVars

\* consent-act.ts: an objection holds whatever order the acts arrive in.
ObjectionHolds ==
    \A e \in Email \ waived : newest[e].state = "declined" => EmailSuppressed(entries, e)
=============================================================================
