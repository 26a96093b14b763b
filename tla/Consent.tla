------------------------------ MODULE Consent ------------------------------
(***************************************************************************)
(* One marketing-consent act (services/consent-act.ts) and the suppression *)
(* store it keeps in step (consent-suppression.ts, compliance.ts).  An act *)
(* is [caller, state, at, email]; the store maps an email to the entry of  *)
(* each channel, which is a reason or None.  "opt_out" stands for an       *)
(* objection by opt-out, "hold" for an entry that expires, "complaint" for *)
(* any other permanent entry that is not an erasure.                       *)
(***************************************************************************)
EXTENDS Team, Integers

CONSTANT Email

Channel == {"all", "email"}
NoEntries == [e \in Email |-> [c \in Channel |-> None]]

\* callerOf, and the refusals of setConsent: an agent records refusals only.
MaySet(act) == act.caller = "agent" => act.state = "declined"

\* Only a newer act is written; a record may hold a state without a time.
Supersedes(act, stored) == stored.state = None \/ stored.at = None \/ act.at > stored.at

\* Anyone can type an address into a form.
UnverifiedOverDeclined(act, stored) ==
    act.caller = "subject" /\ act.state = "not_confirmed" /\ stored.state = "declined"

ConsentWrites(act, stored) ==
    stored.state = None \/ (Supersedes(act, stored) /\ ~UnverifiedOverDeclined(act, stored))

LiftsOptOut(act) == ~(act.caller = "subject" /\ act.state = "not_confirmed")

\* applyConsentSuppression: a refusal replaces an opt-out or an expiring entry
\* and never a permanent one; any other state removes opt-outs only.
ApplyConsentSuppression(entries, email, state) ==
    LET of == entries[email] IN
    [entries EXCEPT ![email] =
       IF state = "declined"
       THEN [of EXCEPT !["email"] = IF @ \in {None, "hold", "opt_out"} THEN "opt_out" ELSE @]
       ELSE [c \in Channel |-> IF of[c] = "opt_out" THEN None ELSE of[c]]]

\* Mutant: a refusal that is not written does not reach the store.
SettleWritten(entries, act, written) ==
    IF written /\ (act.state = "declined" \/ LiftsOptOut(act))
    THEN ApplyConsentSuppression(entries, act.email, act.state)
    ELSE entries

\* settleConsentSuppression: what is written adds or lifts; a refusal that is
\* kept back, or that no record takes, still adds.
SettleConsentSuppression(entries, act, written) ==
    IF written /\ (act.state = "declined" \/ LiftsOptOut(act))
    THEN ApplyConsentSuppression(entries, act.email, act.state)
    ELSE IF act.state = "declined"
    THEN ApplyConsentSuppression(entries, act.email, "declined")
    ELSE entries

\* addSuppression: the entry of the channel is replaced, whatever it was.
AddSuppression(entries, email, channel, reason) == [entries EXCEPT ![email][channel] = reason]

\* removeSuppression, behind an owner's approval.
RemoveSuppression(entries, email, channel) == [entries EXCEPT ![email][channel] = None]

\* The time of expiring entries is over.
ExpireSuppression(entries, email) ==
    [entries EXCEPT ![email] = [c \in Channel |-> IF @[c] = "hold" THEN None ELSE @[c]]]

\* suppressContacts: erasure suppresses every address on all channels.
SuppressContacts(entries, emails) ==
    [e \in Email |-> IF e \in emails THEN [entries[e] EXCEPT !["all"] = "erasure"] ELSE entries[e]]

\* emailSuppressed: any entry that has not run out.
EmailSuppressed(entries, email) == \E c \in Channel : entries[email][c] # None
=============================================================================
