---------------------------- MODULE TenancyProofs ----------------------------
(***************************************************************************)
(* What holds of Tenancy for every set of organisations, teams and calls   *)
(* and any number of moves: a team is provisioned once, transactions that  *)
(* extend the chain of an organisation keep it verifiable, a write to the  *)
(* feed goes where the team is, and a move that no write of the team has   *)
(* overlapped leaves no listed row behind.                                 *)
(***************************************************************************)
EXTENDS Tenancy, TLAPS, FiniteSetTheorems, WellFoundedInduction

-----------------------------------------------------------------------------
(* Logs                                                                    *)

LogRow == [team : Team \cup {None}, org : Org \cup {None}, prev : Entry \cup {0}, hashed : Org \cup {None},
           event : {"none", "provisioned", "write", "reparented"}]
Log == [Entry -> LogRow]

\* The first N places of a log are taken.
Filled(log, N) ==
    /\ N \in Nat /\ N <= MaxEntries
    /\ \A n \in Entry : IF n <= N THEN log[n].event # "none" /\ log[n].org \in Org ELSE log[n] = NoEntry

\* The rows of an organisation are one chain from its first row on.
Chain(log, o) ==
    /\ \A n \in EntriesOf(log, o) : /\ log[n].hashed = o
                                    /\ log[n].prev \in EntriesOf(log, o) \cup {0} /\ log[n].prev < n
    /\ \A n, m \in EntriesOf(log, o) : log[n].prev = log[m].prev => n = m
    /\ EntriesOf(log, o) # {} => \E n \in EntriesOf(log, o) : log[n].prev = 0

\* A row that follows p extends the chain.
Extends(log, p, o) ==
    p \in EntriesOf(log, o) \cup {0} /\ \A m \in EntriesOf(log, o) : log[m].prev # p

LEMMA EntriesAre ==
    ASSUME NEW log \in Log, NEW N, Filled(log, N)
    PROVE  /\ Written(log) = 1 .. N /\ Cardinality(Written(log)) = N
           /\ \A o \in Org : EntriesOf(log, o) = {n \in Entry : log[n].org = o}
<1>1. N \in Nat /\ N <= MaxEntries /\ MaxEntries \in Nat
    BY TenancyAssumption DEF Filled, TenancyAssumption
<1>2. \A n \in Entry : n \in Written(log) <=> n <= N
    BY DEF Filled, Written, NoEntry
<1>3. Written(log) = 1 .. N
    BY <1>1, <1>2 DEF Entry, Written
<1>4. Cardinality(1 .. N) = N
    BY <1>1, FS_Interval
<1>5. \A n \in Entry, o \in Org : log[n].org = o => n \in Written(log)
    BY TenancyAssumption DEF TenancyAssumption, Written, NoEntry
<1> QED BY <1>3, <1>4, <1>5 DEF EntriesOf, Written

\* A largest row of a set of rows.
LEMMA LastEntry ==
    ASSUME NEW E \in SUBSET Entry, E # {}
    PROVE  \E n \in E : \A m \in E : m <= n
<1> DEFINE S == {MaxEntries - n : n \in E}
<1>1. MaxEntries \in Nat
    BY TenancyAssumption DEF TenancyAssumption
<1>2. S \in SUBSET Nat /\ S # {}
    <2>1. \A n \in Entry : MaxEntries - n \in Nat
        BY <1>1 DEF Entry
    <2>2. \A n \in E : MaxEntries - n \in Nat
        BY <2>1
    <2> QED BY <2>2
<1>3. PICK x \in S : \A y \in S : ~ (<<y, x>> \in OpToRel(<, Nat))
    BY <1>2, NatLessThanWellFounded, WFMin
<1>4. \A y \in S : ~ (y < x)
    BY <1>2, <1>3 DEF OpToRel
<1>5. PICK n \in E : x = MaxEntries - n
    OBVIOUS
<1>6. ASSUME NEW m \in E PROVE m <= n
    <2>1. ~ (MaxEntries - m < MaxEntries - n)
        BY <1>4, <1>5
    <2> QED BY <1>1, <2>1 DEF Entry
<1> QED BY <1>6

\* The head that writeAudit finds extends the chain: the last row of a chain is a head.
LEMMA HeadExtends ==
    ASSUME NEW log \in Log, NEW o, Chain(log, o)
    PROVE  Extends(log, Head(log, o), o)
<1>1. CASE Heads(log, o) # {}
    BY <1>1 DEF Head, Heads, Extends
<1>2. CASE Heads(log, o) = {}
    <2>1. Head(log, o) = 0
        BY <1>2 DEF Head
    <2>2. EntriesOf(log, o) = {}
        <3> SUFFICES ASSUME EntriesOf(log, o) # {} PROVE FALSE
            OBVIOUS
        <3>1. EntriesOf(log, o) \in SUBSET Entry
            BY DEF EntriesOf, Written
        <3>2. PICK n \in EntriesOf(log, o) : \A m \in EntriesOf(log, o) : m <= n
            BY <3>1, LastEntry
        <3>3. ASSUME NEW m \in EntriesOf(log, o) PROVE log[m].prev # n
            <4>1. log[m].prev < m /\ m <= n /\ m \in Entry /\ n \in Entry
                BY <3>1, <3>2 DEF Chain
            <4>2. log[m].prev \in Nat
                BY <4>1 DEF Log, LogRow, Entry
            <4> QED BY <4>1, <4>2 DEF Entry
        <3> QED BY <1>2, <3>3 DEF Heads
    <2> QED BY <2>1, <2>2 DEF Extends
<1> QED BY <1>1, <1>2

LEMMA HeadType ==
    ASSUME NEW log \in Log, NEW o
    PROVE  Head(log, o) \in Entry \cup {0}
<1> QED BY DEF Head, Heads, EntriesOf, Written

Grown(new, log, N, o, t, p, ev) ==
    /\ log \in Log /\ Filled(log, N) /\ N + 1 <= MaxEntries
    /\ o \in Org /\ t \in Team /\ p \in Entry \cup {0} /\ ev \in {"provisioned", "write", "reparented"}
    /\ new = Append(log, o, t, p, ev)

\* A row at the end of a log.
LEMMA AppendIs ==
    ASSUME NEW new, NEW log, NEW N, NEW o, NEW t, NEW p, NEW ev, Grown(new, log, N, o, t, p, ev)
    PROVE  /\ new \in Log /\ Filled(new, N + 1) /\ N + 1 \in Entry
           /\ new[N + 1] = [team |-> t, org |-> o, prev |-> p, hashed |-> o, event |-> ev]
           /\ \A n \in Entry \ {N + 1} : new[n] = log[n]
           /\ EntriesOf(new, o) = EntriesOf(log, o) \cup {N + 1}
           /\ \A q \in Org \ {o} : EntriesOf(new, q) = EntriesOf(log, q)
           /\ \A q \in Org : N + 1 \notin EntriesOf(log, q) /\ \A n \in EntriesOf(log, q) : n <= N
<1> DEFINE x == [team |-> t, org |-> o, prev |-> p, hashed |-> o, event |-> ev]
<1>0. /\ log \in Log /\ Filled(log, N) /\ N + 1 <= MaxEntries
      /\ o \in Org /\ t \in Team /\ p \in Entry \cup {0} /\ ev \in {"provisioned", "write", "reparented"}
    BY DEF Grown
<1>1. N \in Nat /\ MaxEntries \in Nat /\ N + 1 \in Entry
    BY <1>0, TenancyAssumption DEF Filled, TenancyAssumption, Entry
<1>2. x \in LogRow /\ x.event # "none" /\ x.org = o
    BY <1>0 DEF LogRow
<1>3. new = [log EXCEPT ![N + 1] = x]
    BY <1>0, EntriesAre DEF Append, Grown
<1> HIDE DEF x
<1>4. new \in Log /\ new[N + 1] = x /\ \A n \in Entry \ {N + 1} : new[n] = log[n]
    BY <1>0, <1>1, <1>2, <1>3 DEF Log
<1>5. Filled(new, N + 1)
    <2>1. ASSUME NEW n \in Entry
          PROVE  IF n <= N + 1 THEN new[n].event # "none" /\ new[n].org \in Org ELSE new[n] = NoEntry
        <3>1. CASE n = N + 1
            BY <1>0, <1>1, <1>2, <1>4, <3>1
        <3>2. CASE n # N + 1
            <4>1. (n <= N + 1 <=> n <= N) /\ new[n] = log[n]
                BY <1>1, <1>4, <3>2 DEF Entry
            <4> QED BY <1>0, <4>1 DEF Filled
        <3> QED BY <3>1, <3>2
    <2> QED BY <1>0, <1>1, <2>1 DEF Filled
<1>6. \A q \in Org : /\ EntriesOf(log, q) = {n \in Entry : log[n].org = q}
                     /\ EntriesOf(new, q) = {n \in Entry : new[n].org = q}
    BY <1>0, <1>4, <1>5, EntriesAre
<1>7. \A q \in Org : N + 1 \notin EntriesOf(log, q) /\ \A n \in EntriesOf(log, q) : n <= N
    <2>1. Written(log) = 1 .. N
        BY <1>0, EntriesAre
    <2> QED BY <1>1, <2>1 DEF EntriesOf
<1>8. EntriesOf(new, o) = EntriesOf(log, o) \cup {N + 1}
    BY <1>0, <1>1, <1>2, <1>4, <1>6
<1>9. \A q \in Org \ {o} : EntriesOf(new, q) = EntriesOf(log, q)
    <2>1. ASSUME NEW q \in Org \ {o}, NEW n \in Entry PROVE new[n].org = q <=> log[n].org = q
        <3>1. CASE n = N + 1
            <4>1. N + 1 \notin EntriesOf(log, q)
                BY <1>7
            <4> QED BY <1>2, <1>4, <1>6, <3>1, <4>1
        <3> QED BY <1>4, <3>1
    <2> QED BY <1>6, <2>1
<1> QED BY <1>1, <1>4, <1>5, <1>7, <1>8, <1>9 DEF x

\* It extends a chain that its predecessor ends, and touches no other.
LEMMA ChainGrows ==
    ASSUME NEW new, NEW log, NEW N, NEW o, NEW t, NEW p, NEW ev, Grown(new, log, N, o, t, p, ev)
    PROVE  /\ Chain(log, o) /\ Extends(log, p, o) => Chain(new, o)
           /\ \A q \in Org \ {o} : /\ Chain(log, q) => Chain(new, q)
                                   /\ \A h : Extends(log, h, q) => Extends(new, h, q)
<1>0. log \in Log /\ Filled(log, N) /\ o \in Org /\ p \in Entry \cup {0}
    BY DEF Grown
<1>1. /\ new \in Log /\ N + 1 \in Entry
      /\ new[N + 1] = [team |-> t, org |-> o, prev |-> p, hashed |-> o, event |-> ev]
      /\ \A n \in Entry \ {N + 1} : new[n] = log[n]
      /\ EntriesOf(new, o) = EntriesOf(log, o) \cup {N + 1}
      /\ \A q \in Org \ {o} : EntriesOf(new, q) = EntriesOf(log, q)
      /\ \A q \in Org : N + 1 \notin EntriesOf(log, q) /\ \A n \in EntriesOf(log, q) : n <= N
    BY AppendIs
<1>2. \A q \in Org : EntriesOf(log, q) \subseteq Entry
    BY DEF EntriesOf, Written
<1>3. \A q \in Org, n \in Entry : n \in EntriesOf(log, q) => new[n] = log[n]
    BY <1>1
<1>4. ASSUME Chain(log, o), Extends(log, p, o) PROVE Chain(new, o)
    <2> PICK E : E = EntriesOf(log, o)
        OBVIOUS
    <2>1. /\ E \subseteq Entry /\ N + 1 \notin E /\ \A n \in E : new[n] = log[n]
          /\ EntriesOf(new, o) = E \cup {N + 1}
        BY <1>0, <1>1, <1>2, <1>3
    <2>2. new[N + 1].prev = p /\ new[N + 1].hashed = o /\ p \in E \cup {0} /\ \A m \in E : log[m].prev # p
        BY <1>0, <1>1, <1>4 DEF Extends
    <2>3. p < N + 1
        BY <1>0, <1>1, <2>2 DEF Filled, Entry
    <2>4. \A n \in E \cup {N + 1} : new[n].hashed = o /\ new[n].prev \in E \cup {0, N + 1} /\ new[n].prev < n
        BY <1>4, <2>1, <2>2, <2>3 DEF Chain
    <2>5. \A n, m \in E \cup {N + 1} : new[n].prev = new[m].prev => n = m
        BY <1>4, <2>1, <2>2 DEF Chain
    <2>6. \E n \in E \cup {N + 1} : new[n].prev = 0
        <3>1. CASE E = {}
            BY <2>2, <3>1
        <3>2. CASE E # {}
            BY <1>4, <2>1, <3>2 DEF Chain
        <3> QED BY <3>1, <3>2
    <2> QED BY <2>1, <2>4, <2>5, <2>6 DEF Chain
<1>5. ASSUME NEW q \in Org \ {o}
      PROVE  /\ Chain(log, q) => Chain(new, q)
             /\ \A h : Extends(log, h, q) => Extends(new, h, q)
    <2>1. EntriesOf(new, q) = EntriesOf(log, q) /\ \A n \in EntriesOf(log, q) : new[n] = log[n]
        BY <1>1, <1>2, <1>3
    <2> QED BY <2>1 DEF Chain, Extends
<1> QED BY <1>4, <1>5

\* What verify-audit-chain.mjs asks for.
LEMMA ChainVerifies ==
    ASSUME NEW o, Chain(audit, o)
    PROVE  Verifies(o)
<1>1. ASSUME EntriesOf(audit, o) # {} PROVE Cardinality({n \in EntriesOf(audit, o) : audit[n].prev = 0}) = 1
    <2>1. PICK n \in EntriesOf(audit, o) : audit[n].prev = 0
        BY <1>1 DEF Chain
    <2>2. {m \in EntriesOf(audit, o) : audit[m].prev = 0} = {n}
        BY <2>1 DEF Chain
    <2> QED BY <2>2, FS_Singleton
<1> QED BY <1>1 DEF Verifies, Chain

-----------------------------------------------------------------------------
(* The invariant                                                           *)

CallRow == [pc : {"idle", "resolve", "open", "fed", "audited"}, team : Team \cup {None}, org : Org \cup {None},
            prev : Entry \cup {0}]
RowOf == [team : Team \cup {None}, org : Org \cup {None}]
JobRow == [status : {"absent", "queued", "running", "completed", "failed"}, source : Org \cup {None}]
RunState == [pc : {"idle", "rows", "entries", "finish"}, rows : SUBSET Call, entries : SUBSET Entry]

Types ==
    /\ home \in [Team -> Org]
    /\ team \in [Team -> Org \cup {None}]
    /\ call \in [Call -> CallRow] /\ row \in [Call -> RowOf]
    /\ audit \in Log /\ \E N \in 0 .. MaxEntries : Filled(audit, N)
    /\ job \in [JobKey -> JobRow] /\ run \in [JobKey -> RunState]
    /\ touched \subseteq Org

\* What a call that has begun may rely on when it is at x.
CallOk(c, x) ==
    /\ x.pc # "idle" => x.team \in Team /\ x.org \in Org /\ row[c] = NoRow
    /\ x.pc \in {"fed", "audited"} /\ c \notin Feedless => team[x.team] = x.org
    /\ x.pc = "audited" /\ x.org \notin touched => Extends(audit, x.prev, x.org)
CallsOk ==
    /\ \A c \in Call : CallOk(c, call[c])
    /\ \A c, d \in Call : call[c].pc = "audited" /\ call[d].pc = "audited" /\ call[c].org = call[d].org => c = d

\* A run of a team goes alone, and what it will move is what its job named.
RunOk(k, j, r) ==
    /\ r.pc = "idle" => r = NoRun
    /\ r.pc # "idle" => j.status = "running"
    /\ r.pc \in {"rows", "entries"} => r.entries = {} /\ team[k[1]] # k[2]
    /\ r.entries # {} => team[k[1]] # k[2]
    /\ \A n \in r.entries : audit[n].team = k[1] /\ audit[n].org = j.source
    /\ \A c \in r.rows : row[c].team = k[1] /\ row[c].org = j.source
    /\ j.status # "absent" => team[k[1]] # None /\ j.source \in Org
RunsOk ==
    /\ \A k \in JobKey : RunOk(k, job[k], run[k])
    /\ \A k, l \in JobKey : k[1] = l[1] /\ run[k].pc # "idle" /\ run[l].pc # "idle" => k = l

Provisions(t, n) == audit[n].team = t /\ audit[n].event = "provisioned"
ProvisionedBy(t) ==
    IF team[t] = None THEN \A n \in Entry : ~Provisions(t, n)
    ELSE \E n \in Entry : \A m \in Entry : Provisions(t, m) <=> m = n

Chains == \A o \in Org \ touched : Chain(audit, o)

TenancyInv == Types /\ CallsOk /\ RunsOk /\ Chains /\ \A t \in Team : ProvisionedBy(t)

-----------------------------------------------------------------------------
(* Calls                                                                   *)

\* Call c goes on to x, and nothing else that counts changes.
CallMoves(c, x) ==
    /\ c \in Call /\ x \in CallRow /\ call' = [call EXCEPT ![c] = x]
    /\ UNCHANGED <<team, row, audit, job, run, touched>> /\ home' \in [Team -> Org]
    /\ CallOk(c, x)
    /\ x.pc = "audited" => \A d \in Call \ {c} : call[d].pc = "audited" => call[d].org # x.org

LEMMA CallMovesStep ==
    ASSUME TenancyInv, NEW c, NEW x, CallMoves(c, x)
    PROVE  TenancyInv'
<1>1. /\ c \in Call /\ x \in CallRow /\ call' = [call EXCEPT ![c] = x]
      /\ UNCHANGED <<team, row, audit, job, run, touched>> /\ home' \in [Team -> Org]
    BY DEF CallMoves
<1>2. call' \in [Call -> CallRow] /\ call'[c] = x /\ \A d \in Call \ {c} : call'[d] = call[d]
    BY <1>1 DEF TenancyInv, Types
<1>3. Types'
    BY <1>1, <1>2 DEF TenancyInv, Types, Filled
<1>4. \A d \in Call : \A y : CallOk(d, y) => CallOk(d, y)'
    BY <1>1 DEF CallOk, Extends, EntriesOf, Written
<1>5. CallsOk'
    <2>1. ASSUME NEW d \in Call PROVE CallOk(d, call[d])'
        <3> PICK y : y = call'[d]
            OBVIOUS
        <3>1. CallOk(d, y)
            BY <1>2 DEF CallMoves, TenancyInv, CallsOk
        <3>2. CallOk(d, y)'
            BY <1>4, <3>1
        <3> QED BY <3>2 DEF CallOk
    <2>2. ASSUME NEW d \in Call, NEW e \in Call, call'[d].pc = "audited", call'[e].pc = "audited", call'[d].org = call'[e].org
          PROVE  d = e
        <3>1. CASE d # c /\ e # c
            BY <1>2, <2>2, <3>1 DEF TenancyInv, CallsOk
        <3>2. CASE d = c \/ e = c
            BY <1>2, <2>2, <3>2 DEF CallMoves
        <3> QED BY <3>1, <3>2
    <2> QED BY <2>1, <2>2 DEF CallsOk
<1>6. RunsOk' /\ Chains' /\ \A t \in Team : ProvisionedBy(t)'
    BY <1>1 DEF TenancyInv, RunsOk, RunOk, Chains, Chain, EntriesOf, Written, ProvisionedBy, Provisions
<1> QED BY <1>3, <1>5, <1>6 DEF TenancyInv

\* A call goes on, or ends.
LEMMA GoesOn ==
    ASSUME TenancyInv, NEW c \in Call, NEW pc \in {"resolve", "open", "fed"}, Goto(c, pc), call[c].pc # "idle",
           UNCHANGED <<team, row, audit, job, run, touched, home>>,
           pc = "fed" => c \in Feedless \/ TeamRowFits(c)
    PROVE  TenancyInv'
<1> PICK x : x = [call[c] EXCEPT !.pc = pc]
    OBVIOUS
<1>1. x \in CallRow /\ x.pc = pc /\ x.team = call[c].team /\ x.org = call[c].org
    <2>1. call[c] \in CallRow
        BY DEF TenancyInv, Types
    <2> QED BY <2>1 DEF CallRow
<1>2. call' = [call EXCEPT ![c] = x]
    BY DEF Goto
<1>3. CallOk(c, x)
    BY <1>1 DEF TenancyInv, CallsOk, CallOk, TeamRowFits
<1>4. CallMoves(c, x)
    BY <1>1, <1>2, <1>3 DEF CallMoves, TenancyInv, Types
<1> QED BY <1>4, CallMovesStep

LEMMA CallEnds ==
    ASSUME TenancyInv, NEW c \in Call, EndCall(c), UNCHANGED <<team, row, audit, job, run, touched, home>>
    PROVE  TenancyInv'
<1> PICK x : x = NoCall
    OBVIOUS
<1>1. x \in CallRow /\ x.pc = "idle"
    BY DEF NoCall, CallRow
<1>2. call' = [call EXCEPT ![c] = x]
    BY DEF EndCall
<1>3. CallMoves(c, x)
    BY <1>1, <1>2 DEF CallMoves, CallOk, TenancyInv, Types
<1> QED BY <1>3, CallMovesStep

LEMMA BeginStep ==
    ASSUME TenancyInv, NEW c \in Call, Begin(c)
    PROVE  TenancyInv'
<1> PICK t \in Team : call' = [call EXCEPT ![c] = [NoCall EXCEPT !.pc = "resolve", !.team = t, !.org = home[t]]]
    BY DEF Begin
<1> PICK x : x = [NoCall EXCEPT !.pc = "resolve", !.team = t, !.org = home[t]]
    OBVIOUS
<1>1. home[t] \in Org
    BY DEF TenancyInv, Types
<1>2. x \in CallRow /\ x.pc = "resolve" /\ x.team = t /\ x.org = home[t]
    <2>1. NoCall \in CallRow
        BY DEF NoCall, CallRow
    <2> QED BY <1>1, <2>1 DEF CallRow
<1>3. row[c] = NoRow /\ UNCHANGED <<team, row, audit, job, run, touched, home>>
    BY DEF Begin, authority
<1>4. CallMoves(c, x)
    BY <1>1, <1>2, <1>3 DEF CallMoves, CallOk, TenancyInv, Types
<1> QED BY <1>4, CallMovesStep

LEMMA AuditLockStep ==
    ASSUME TenancyInv, NEW c \in Call, AuditLock(c)
    PROVE  TenancyInv'
<1> PICK o, p : o = call[c].org /\ p = Head(audit, o)
    OBVIOUS
<1> PICK x : x = [call[c] EXCEPT !.pc = "audited", !.prev = p]
    OBVIOUS
<1>1. /\ call[c].pc = "fed" /\ ChainFree(o) /\ call' = [call EXCEPT ![c] = x]
      /\ UNCHANGED <<team, row, audit, job, run, touched, home>>
    BY DEF AuditLock, authority
<1>2. p \in Entry \cup {0}
    BY HeadType DEF TenancyInv, Types
<1>3. x \in CallRow /\ x.pc = "audited" /\ x.team = call[c].team /\ x.org = o /\ x.prev = p
    <2>1. call[c] \in CallRow
        BY DEF TenancyInv, Types
    <2> QED BY <1>2, <2>1 DEF CallRow
<1>4. ASSUME o \notin touched PROVE Extends(audit, p, o)
    <2>1. o \in Org
        BY <1>1 DEF TenancyInv, CallsOk, CallOk
    <2> PICK log : log = audit
        OBVIOUS
    <2>2. log \in Log /\ Chain(log, o) /\ p = Head(log, o)
        BY <1>4, <2>1 DEF TenancyInv, Types, Chains
    <2>3. Extends(log, p, o)
        BY <2>2, HeadExtends
    <2> QED BY <2>3
<1>5. CallOk(c, x)
    BY <1>1, <1>3, <1>4 DEF TenancyInv, CallsOk, CallOk
<1>6. \A d \in Call \ {c} : call[d].pc = "audited" => call[d].org # o
    BY <1>1 DEF ChainFree
<1>7. CallMoves(c, x)
    BY <1>1, <1>3, <1>5, <1>6 DEF CallMoves, TenancyInv, Types
<1> QED BY <1>7, CallMovesStep

-----------------------------------------------------------------------------
(* A row more in the log                                                   *)

\* What is appended for another event than provisioning leaves the rest as it is.
LEMMA LogGrows ==
    ASSUME TenancyInv, NEW N, NEW o, NEW t, NEW p, NEW ev, Grown(audit', audit, N, o, t, p, ev),
           o \notin touched => Extends(audit, p, o), touched' = touched
    PROVE  /\ audit' \in Log /\ (\E M \in 0 .. MaxEntries : Filled(audit, M))' /\ Chains'
           /\ \A q \in Org \ {o} : \A h : Extends(audit, h, q) => Extends(audit', h, q)
           /\ \A n \in Entry : audit[n].org \in Org => audit'[n] = audit[n]
           /\ \A u \in Team, n \in Entry : Provisions(u, n)' <=> Provisions(u, n) \/ (n = N + 1 /\ u = t /\ ev = "provisioned")
           /\ N + 1 \in Entry
<1> PICK log, new : log = audit /\ new = audit'
    OBVIOUS
<1>0. Grown(new, log, N, o, t, p, ev) /\ o \in Org /\ Filled(log, N)
    BY DEF Grown
<1>1. /\ new \in Log /\ Filled(new, N + 1) /\ N + 1 \in Entry
      /\ new[N + 1] = [team |-> t, org |-> o, prev |-> p, hashed |-> o, event |-> ev]
      /\ \A n \in Entry \ {N + 1} : new[n] = log[n]
    BY <1>0, AppendIs
<1>2. /\ Chain(log, o) /\ Extends(log, p, o) => Chain(new, o)
      /\ \A q \in Org \ {o} : /\ Chain(log, q) => Chain(new, q)
                              /\ \A h : Extends(log, h, q) => Extends(new, h, q)
    BY <1>0, ChainGrows
<1>3. Chains'
    <2>1. ASSUME NEW q \in Org \ touched PROVE Chain(new, q)
        BY <1>2 DEF TenancyInv, Chains
    <2>2. \A q \in Org \ touched : Chain(audit', q)
        BY <2>1
    <2> QED BY <2>2 DEF Chains, Chain, EntriesOf, Written
<1>4. N \in Nat /\ N + 1 \in 0 .. MaxEntries /\ ~(N + 1 <= N)
    BY <1>0, <1>1 DEF Filled, Entry
<1>5. log[N + 1] = NoEntry
    BY <1>0, <1>1, <1>4 DEF Filled
<1>6. \A n \in Entry : audit[n].org \in Org => audit'[n] = audit[n]
    BY <1>1, <1>5, TenancyAssumption DEF NoEntry, TenancyAssumption
<1>7. \A u \in Team, n \in Entry : Provisions(u, n)' <=> Provisions(u, n) \/ (n = N + 1 /\ u = t /\ ev = "provisioned")
    <2>1. ASSUME NEW u \in Team PROVE ~Provisions(u, N + 1) /\ (Provisions(u, N + 1)' <=> u = t /\ ev = "provisioned")
        BY <1>1, <1>5 DEF Provisions, NoEntry
    <2>2. \A u \in Team, n \in Entry \ {N + 1} : Provisions(u, n)' <=> Provisions(u, n)
        BY <1>1 DEF Provisions
    <2> QED BY <2>1, <2>2
<1>8. (\E M \in 0 .. MaxEntries : Filled(audit, M))'
    <2>1. Filled(audit', N + 1)
        BY <1>1
    <2> QED BY <1>4, <2>1 DEF Filled
<1> QED BY <1>1, <1>2, <1>3, <1>6, <1>7, <1>8

\* There is room for the row.
LEMMA RoomIs ==
    ASSUME Types, RoomFor(1)
    PROVE  \E N \in Nat : Filled(audit, N) /\ N + 1 <= MaxEntries
<1> PICK N \in 0 .. MaxEntries : Filled(audit, N)
    BY DEF Types
<1>1. Cardinality(Written(audit)) = N
    BY EntriesAre DEF Types
<1> QED BY <1>1 DEF RoomFor

LEMMA CommitStep ==
    ASSUME TenancyInv, NEW c \in Call, Commit(c)
    PROVE  TenancyInv'
<1> PICK t, o, p : t = call[c].team /\ o = call[c].org /\ p = call[c].prev
    OBVIOUS
<1>1. /\ call[c].pc = "audited" /\ RoomFor(1) /\ call' = [call EXCEPT ![c] = NoCall]
      /\ row' = [row EXCEPT ![c] = [team |-> t, org |-> o]]
      /\ audit' = Append(audit, o, t, p, "write")
      /\ UNCHANGED <<home, team, job, run, touched>>
    BY DEF Commit, EndCall, authority
<1>2. /\ t \in Team /\ o \in Org /\ row[c] = NoRow /\ p \in Entry \cup {0}
      /\ o \notin touched => Extends(audit, p, o)
    BY <1>1 DEF TenancyInv, CallsOk, CallOk, Types, CallRow
<1> PICK N \in Nat : Filled(audit, N) /\ N + 1 <= MaxEntries
    BY <1>1, RoomIs DEF TenancyInv
<1>3. Grown(audit', audit, N, o, t, p, "write")
    BY <1>1, <1>2 DEF Grown, TenancyInv, Types
<1>4. /\ audit' \in Log /\ (\E M \in 0 .. MaxEntries : Filled(audit, M))' /\ Chains'
      /\ \A q \in Org \ {o} : \A h : Extends(audit, h, q) => Extends(audit', h, q)
      /\ \A n \in Entry : audit[n].org \in Org => audit'[n] = audit[n]
      /\ \A u \in Team, n \in Entry : Provisions(u, n)' <=> Provisions(u, n)
    BY <1>1, <1>2, <1>3, LogGrows
<1>5. /\ call' \in [Call -> CallRow] /\ call'[c].pc = "idle" /\ \A d \in Call \ {c} : call'[d] = call[d]
      /\ row' \in [Call -> RowOf] /\ \A d \in Call \ {c} : row'[d] = row[d]
    BY <1>1, <1>2 DEF TenancyInv, Types, NoCall, CallRow, RowOf
<1>6. Types'
    BY <1>1, <1>4, <1>5 DEF TenancyInv, Types
<1>7. CallsOk'
    <2>1. ASSUME NEW d \in Call PROVE CallOk(d, call[d])'
        <3>1. CASE d = c
            BY <1>5, <3>1 DEF CallOk
        <3>2. CASE d # c
            <4>1. call[d].pc = "audited" => call[d].org \in Org \ {o}
                BY <1>1, <3>2 DEF TenancyInv, CallsOk, CallOk
            <4>2. CallOk(d, call[d])
                BY DEF TenancyInv, CallsOk
            <4>3. call[d].pc = "audited" /\ call[d].org \notin touched => Extends(audit', call[d].prev, call[d].org)
                BY <1>4, <4>1, <4>2 DEF CallOk
            <4> QED BY <1>1, <1>5, <3>2, <4>2, <4>3 DEF CallOk, Extends, EntriesOf, Written
        <3> QED BY <3>1, <3>2
    <2>2. \A d, e \in Call : call'[d].pc = "audited" /\ call'[e].pc = "audited" /\ call'[d].org = call'[e].org => d = e
        BY <1>5 DEF TenancyInv, CallsOk
    <2> QED BY <2>1, <2>2 DEF CallsOk
<1>8. RunsOk'
    <2>1. ASSUME NEW k \in JobKey PROVE RunOk(k, job[k], run[k])'
        <3>1. RunOk(k, job[k], run[k]) /\ run[k] \in RunState
            BY DEF TenancyInv, RunsOk, Types
        <3>2. run[k].pc # "idle" => job[k].source \in Org
            BY <3>1 DEF RunOk
        <3>3. (run[k].rows = {} /\ run[k].entries = {}) \/ job[k].source \in Org
            BY <3>1, <3>2 DEF RunOk, NoRun
        <3>4. \A n \in run[k].entries : audit'[n].team = k[1] /\ audit'[n].org = job[k].source
            BY <1>4, <3>1, <3>3 DEF RunOk, RunState
        <3>5. \A d \in run[k].rows : row'[d].team = k[1] /\ row'[d].org = job[k].source
            <4>1. c \notin run[k].rows
                BY <1>2, <3>1, <3>3, TenancyAssumption DEF RunOk, NoRow, TenancyAssumption
            <4> QED BY <1>5, <3>1, <4>1 DEF RunOk, RunState
        <3> QED BY <1>1, <3>1, <3>4, <3>5 DEF RunOk
    <2> QED BY <1>1, <2>1 DEF TenancyInv, RunsOk
<1>9. \A u \in Team : ProvisionedBy(u)'
    BY <1>1, <1>4 DEF TenancyInv, ProvisionedBy
<1> QED BY <1>4, <1>6, <1>7, <1>8, <1>9 DEF TenancyInv

-----------------------------------------------------------------------------
(* Teams and jobs                                                          *)

LEMMA ProvisionStep ==
    ASSUME TenancyInv, NEW c \in Call, NEW t, NEW o, t = call[c].team, o = call[c].org, call[c].pc = "resolve",
           Provision(c, t, o), UNCHANGED <<home, row, run, touched>>
    PROVE  TenancyInv'
<1> PICK p : p = Head(audit, o)
    OBVIOUS
<1>1. /\ t \in Team /\ o \in Org /\ team[t] = None /\ ChainFree(o) /\ RoomFor(1) /\ job' = job
      /\ team' = [team EXCEPT ![t] = o]
      /\ audit' = Append(audit, o, t, p, "provisioned")
      /\ call' = [call EXCEPT ![c].pc = "open"]
    BY DEF Provision, Unprovisioned, Goto, TenancyInv, CallsOk, CallOk
<1>2. p \in Entry \cup {0}
    BY HeadType DEF TenancyInv, Types
<1>3. ASSUME o \notin touched PROVE Extends(audit, p, o)
    <2> PICK log : log = audit
        OBVIOUS
    <2>1. log \in Log /\ Chain(log, o) /\ p = Head(log, o)
        BY <1>1, <1>3 DEF TenancyInv, Types, Chains
    <2>2. Extends(log, p, o)
        BY <2>1, HeadExtends
    <2> QED BY <2>2
<1> PICK N \in Nat : Filled(audit, N) /\ N + 1 <= MaxEntries
    BY <1>1, RoomIs DEF TenancyInv
<1>4. Grown(audit', audit, N, o, t, p, "provisioned")
    BY <1>1, <1>2 DEF Grown, TenancyInv, Types
<1>5. /\ audit' \in Log /\ (\E M \in 0 .. MaxEntries : Filled(audit, M))' /\ Chains'
      /\ \A q \in Org \ {o} : \A h : Extends(audit, h, q) => Extends(audit', h, q)
      /\ \A n \in Entry : audit[n].org \in Org => audit'[n] = audit[n]
      /\ \A u \in Team, n \in Entry : Provisions(u, n)' <=> Provisions(u, n) \/ (n = N + 1 /\ u = t)
      /\ N + 1 \in Entry
    BY <1>3, <1>4, LogGrows
<1>6. /\ call' \in [Call -> CallRow] /\ call'[c].pc = "open" /\ call'[c].team = t /\ call'[c].org = o
      /\ \A d \in Call \ {c} : call'[d] = call[d]
    BY <1>1 DEF TenancyInv, Types, CallRow
<1>7. team' \in [Team -> Org \cup {None}] /\ team'[t] = o /\ \A u \in Team \ {t} : team'[u] = team[u]
    BY <1>1 DEF TenancyInv, Types
<1>8. Types'
    BY <1>1, <1>5, <1>6, <1>7 DEF TenancyInv, Types
<1>9. o # None
    BY <1>1, TenancyAssumption DEF TenancyAssumption
<1>10. CallsOk'
    <2>1. ASSUME NEW d \in Call PROVE CallOk(d, call[d])'
        <3>1. CASE d = c
            BY <1>1, <1>6, <3>1 DEF CallOk, TenancyInv, CallsOk
        <3>2. CASE d # c
            <4>1. CallOk(d, call[d])
                BY DEF TenancyInv, CallsOk
            <4>2. call[d].pc = "audited" => call[d].org \in Org \ {o}
                BY <1>1, <4>1 DEF ChainFree, CallOk
            <4>3. call[d].pc = "audited" /\ call[d].org \notin touched => Extends(audit', call[d].prev, call[d].org)
                BY <1>5, <4>1, <4>2 DEF CallOk
            <4>4. call[d].pc \in {"fed", "audited"} /\ d \notin Feedless => team'[call[d].team] = call[d].org
                BY <1>1, <1>7, <4>1, TenancyAssumption DEF CallOk, TenancyAssumption
            <4> QED BY <1>6, <3>2, <4>1, <4>3, <4>4 DEF CallOk, Extends, EntriesOf, Written
        <3> QED BY <3>1, <3>2
    <2>2. \A d, e \in Call : call'[d].pc = "audited" /\ call'[e].pc = "audited" /\ call'[d].org = call'[e].org => d = e
        BY <1>6 DEF TenancyInv, CallsOk
    <2> QED BY <2>1, <2>2 DEF CallsOk
<1>11. RunsOk'
    <2>1. ASSUME NEW k \in JobKey PROVE RunOk(k, job[k], run[k])'
        <3>1. RunOk(k, job[k], run[k]) /\ run[k] \in RunState /\ k[1] \in Team
            BY DEF TenancyInv, RunsOk, Types, JobKey
        <3>2. CASE k[1] = t
            <4>1. job[k].status = "absent" /\ run[k] = NoRun
                BY <1>1, <3>1, <3>2 DEF RunOk
            <4> QED BY <1>1, <4>1 DEF RunOk, NoRun
        <3>3. CASE k[1] # t
            <4>1. team'[k[1]] = team[k[1]]
                BY <1>7, <3>1, <3>3
            <4>2. \A n \in run[k].entries : audit'[n].team = k[1] /\ audit'[n].org = job[k].source
                BY <1>5, <3>1 DEF RunOk, RunState, NoRun
            <4> QED BY <1>1, <3>1, <4>1, <4>2 DEF RunOk
        <3> QED BY <3>2, <3>3
    <2> QED BY <1>1, <2>1 DEF TenancyInv, RunsOk
<1>12. ASSUME NEW u \in Team PROVE ProvisionedBy(u)'
    <2>1. ProvisionedBy(u)
        BY DEF TenancyInv
    <2>2. CASE u = t
        <3>1. \A n \in Entry : Provisions(u, n)' <=> n = N + 1
            BY <1>1, <1>5, <2>1, <2>2 DEF ProvisionedBy
        <3> QED BY <1>5, <1>7, <1>9, <2>2, <3>1 DEF ProvisionedBy
    <2>3. CASE u # t
        <3>1. team'[u] = team[u] /\ \A n \in Entry : Provisions(u, n)' <=> Provisions(u, n)
            BY <1>5, <1>7, <2>3
        <3> QED BY <2>1, <3>1 DEF ProvisionedBy
    <2> QED BY <2>2, <2>3
<1> QED BY <1>5, <1>8, <1>10, <1>11, <1>12 DEF TenancyInv

\* A job or its run goes on; calls go on without it or end.
JobMoves(k, j, r) ==
    /\ k \in JobKey /\ j \in JobRow /\ r \in RunState
    /\ job' = [job EXCEPT ![k] = j] /\ run' = [run EXCEPT ![k] = r]
    /\ UNCHANGED <<home, team, row, audit, touched>>
    /\ call' \in [Call -> CallRow] /\ \A c \in Call : call'[c] = call[c] \/ call'[c].pc = "idle"
    /\ RunOk(k, j, r)
    /\ r.pc # "idle" => run[k].pc # "idle" \/ TeamFree(k[1])

LEMMA JobMovesStep ==
    ASSUME TenancyInv, NEW k, NEW j, NEW r, JobMoves(k, j, r)
    PROVE  TenancyInv'
<1>1. /\ k \in JobKey /\ j \in JobRow /\ r \in RunState
      /\ job' = [job EXCEPT ![k] = j] /\ run' = [run EXCEPT ![k] = r]
      /\ UNCHANGED <<home, team, row, audit, touched>>
      /\ call' \in [Call -> CallRow] /\ \A c \in Call : call'[c] = call[c] \/ call'[c].pc = "idle"
    BY DEF JobMoves
<1>2. /\ job' \in [JobKey -> JobRow] /\ run' \in [JobKey -> RunState] /\ job'[k] = j /\ run'[k] = r
      /\ \A l \in JobKey \ {k} : job'[l] = job[l] /\ run'[l] = run[l]
    BY <1>1 DEF TenancyInv, Types
<1>3. Types'
    BY <1>1, <1>2 DEF TenancyInv, Types, Filled
<1>4. CallsOk'
    <2>1. ASSUME NEW c \in Call PROVE CallOk(c, call[c])'
        <3>1. CallOk(c, call[c])
            BY DEF TenancyInv, CallsOk
        <3>2. CASE call'[c] = call[c]
            BY <1>1, <3>1, <3>2 DEF CallOk, Extends, EntriesOf, Written
        <3>3. CASE call'[c].pc = "idle"
            BY <3>3 DEF CallOk
        <3> QED BY <1>1, <3>2, <3>3
    <2>2. \A c, d \in Call : call'[c].pc = "audited" /\ call'[d].pc = "audited" /\ call'[c].org = call'[d].org => c = d
        <3>1. \A c \in Call : call'[c].pc = "audited" => call'[c] = call[c]
            BY <1>1
        <3> QED BY <3>1 DEF TenancyInv, CallsOk
    <2> QED BY <2>1, <2>2 DEF CallsOk
<1>5. RunsOk'
    <2>1. ASSUME NEW l \in JobKey PROVE RunOk(l, job[l], run[l])'
        <3> PICK i, q : i = job'[l] /\ q = run'[l]
            OBVIOUS
        <3>1. RunOk(l, i, q)
            BY <1>2 DEF JobMoves, TenancyInv, RunsOk
        <3>2. RunOk(l, i, q)'
            BY <1>1, <3>1 DEF RunOk
        <3> QED BY <3>2 DEF RunOk
    <2>2. ASSUME NEW l \in JobKey, NEW m \in JobKey, l[1] = m[1], run'[l].pc # "idle", run'[m].pc # "idle"
          PROVE  l = m
        <3>1. CASE l # k /\ m # k
            BY <1>2, <2>2, <3>1 DEF TenancyInv, RunsOk
        <3>2. CASE run[k].pc # "idle" \/ r.pc = "idle"
            BY <1>2, <2>2, <3>2 DEF TenancyInv, RunsOk
        <3>3. CASE TeamFree(k[1])
            BY <1>2, <2>2, <3>3 DEF TeamFree, TenancyInv, RunsOk
        <3> QED BY <3>1, <3>2, <3>3 DEF JobMoves
    <2> QED BY <2>1, <2>2 DEF RunsOk
<1>6. Chains' /\ \A t \in Team : ProvisionedBy(t)'
    BY <1>1 DEF TenancyInv, Chains, Chain, EntriesOf, Written, ProvisionedBy, Provisions
<1> QED BY <1>3, <1>4, <1>5, <1>6 DEF TenancyInv

LEMMA ReparentStep ==
    ASSUME TenancyInv, NEW c \in Call, NEW t, NEW o, t = call[c].team, o = call[c].org, call[c].pc = "resolve",
           Reparent(c, t, o), UNCHANGED <<home, row, run, touched>>
    PROVE  TenancyInv'
<1> PICK k, s : k = <<t, o>> /\ s = team[t]
    OBVIOUS
<1> DEFINE j == [status |-> "queued", source |-> s]
<1>1. t \in Team /\ o \in Org /\ k \in JobKey /\ k[1] = t /\ s \in Org /\ s # None /\ job[k].status = "absent"
    BY DEF Reparent, TenancyInv, CallsOk, CallOk, Types, JobKey
<1>2. j \in JobRow /\ j.status = "queued" /\ j.source = s
    BY <1>1 DEF JobRow
<1>3. run[k] = NoRun /\ run[k] \in RunState /\ NoRun.pc = "idle" /\ NoRun.entries = {} /\ NoRun.rows = {}
    BY <1>1 DEF TenancyInv, RunsOk, RunOk, Types, NoRun
<1>4. /\ job' = [job EXCEPT ![k] = j] /\ run' = [run EXCEPT ![k] = run[k]]
      /\ UNCHANGED <<home, team, row, audit, touched>> /\ call' = [call EXCEPT ![c] = NoCall]
    BY DEF Reparent, EndCall, TenancyInv, Types
<1>5. call' \in [Call -> CallRow] /\ \A d \in Call : call'[d] = call[d] \/ call'[d].pc = "idle"
    BY <1>4 DEF TenancyInv, Types, NoCall, CallRow
<1> HIDE DEF j
<1>6. RunOk(k, j, run[k])
    BY <1>1, <1>2, <1>3 DEF RunOk
<1> PICK i, r : i = j /\ r = run[k]
    OBVIOUS
<1>7. JobMoves(k, i, r)
    BY <1>1, <1>2, <1>3, <1>4, <1>5, <1>6 DEF JobMoves
<1> QED BY <1>7, JobMovesStep

LEMMA ResolveLockedStep ==
    ASSUME TenancyInv, NEW c \in Call, ResolveLocked(c)
    PROVE  TenancyInv'
<1> PICK t, o : t = call[c].team /\ o = call[c].org
    OBVIOUS
<1>1. /\ call[c].pc = "resolve" /\ UNCHANGED <<home, row, run, touched>>
      /\ Resolve(c, t, o) \/ Provision(c, t, o) \/ Reparent(c, t, o) \/ RefuseCall(c, t, o)
    BY DEF ResolveLocked, authority
<1>2. CASE Resolve(c, t, o)
    BY <1>1, <1>2, GoesOn DEF Resolve
<1>3. CASE RefuseCall(c, t, o)
    BY <1>1, <1>3, CallEnds DEF RefuseCall
<1> QED BY <1>1, <1>2, <1>3, ProvisionStep, ReparentStep

\* Everything of a call.
LEMMA CallSteps ==
    ASSUME TenancyInv, NEW c \in Call, Begin(c) \/ CallStep(c)
    PROVE  TenancyInv'
<1>1. CASE ResolveCached(c)
    BY <1>1, GoesOn DEF ResolveCached, authority
<1>2. CASE Feed(c)
    BY <1>2, GoesOn DEF Feed, authority
<1>3. CASE Abort(c)
    BY <1>3, CallEnds DEF Abort, authority
<1> QED BY <1>1, <1>2, <1>3, BeginStep, ResolveLockedStep, AuditLockStep, CommitStep DEF CallStep

-----------------------------------------------------------------------------
(* Runs                                                                    *)

LEMMA StartStep ==
    ASSUME TenancyInv, NEW k \in JobKey, Start(k)
    PROVE  TenancyInv'
<1> PICK pc : pc = IF team[k[1]] = k[2] THEN "finish" ELSE "rows"
    OBVIOUS
<1> PICK j, r : j = [job[k] EXCEPT !.status = "running"] /\ r = [run[k] EXCEPT !.pc = pc]
    OBVIOUS
<1>1. RunOk(k, job[k], run[k]) /\ job[k] \in JobRow /\ run[k] \in RunState
    BY DEF TenancyInv, RunsOk, Types
<1>2. /\ job[k].status = "queued" /\ TeamFree(k[1])
      /\ job' = [job EXCEPT ![k] = j] /\ run' = [run EXCEPT ![k] = r]
      /\ UNCHANGED <<home, team, row, audit, touched, call>>
    BY DEF Start, authority
<1>3. run[k] = NoRun
    BY <1>1, <1>2 DEF RunOk
<1>4. j \in JobRow /\ j.status = "running" /\ j.source = job[k].source
    BY <1>1 DEF JobRow
<1>5. r \in RunState /\ r.pc = pc /\ r.rows = {} /\ r.entries = {}
    BY <1>1, <1>3 DEF RunState, NoRun
<1>6. RunOk(k, j, r)
    BY <1>1, <1>2, <1>4, <1>5 DEF RunOk
<1>7. JobMoves(k, j, r)
    BY <1>2, <1>4, <1>5, <1>6 DEF JobMoves, TenancyInv, Types
<1> QED BY <1>7, JobMovesStep

LEMMA RewriteRowsStep ==
    ASSUME TenancyInv, NEW k \in JobKey, RewriteRows(k)
    PROVE  TenancyInv'
<1> PICK S : S = ListedRows(k)
    OBVIOUS
<1> PICK j, r : j = job[k] /\ r = [run[k] EXCEPT !.pc = "entries", !.rows = S]
    OBVIOUS
<1>1. RunOk(k, job[k], run[k]) /\ job[k] \in JobRow /\ run[k] \in RunState
    BY DEF TenancyInv, RunsOk, Types
<1>2. /\ run[k].pc = "rows" /\ job' = [job EXCEPT ![k] = j] /\ run' = [run EXCEPT ![k] = r]
      /\ UNCHANGED <<home, team, row, audit, touched, call>>
    BY DEF RewriteRows, authority, TenancyInv, Types
<1>3. S \subseteq Call /\ \A c \in S : row[c].team = k[1] /\ row[c].org = job[k].source
    BY DEF ListedRows
<1>4. r \in RunState /\ r.pc = "entries" /\ r.rows = S /\ r.entries = run[k].entries
    BY <1>1, <1>3 DEF RunState
<1>5. RunOk(k, j, r)
    BY <1>1, <1>2, <1>3, <1>4 DEF RunOk
<1>6. JobMoves(k, j, r)
    BY <1>1, <1>2, <1>4, <1>5 DEF JobMoves, TenancyInv, Types
<1> QED BY <1>6, JobMovesStep

LEMMA RewriteAuditStep ==
    ASSUME TenancyInv, NEW k \in JobKey, RewriteAudit(k)
    PROVE  TenancyInv'
<1> PICK S : S = {n \in EntriesOf(audit, job[k].source) : audit[n].team = k[1]}
    OBVIOUS
<1> PICK j, r : j = job[k] /\ r = [run[k] EXCEPT !.pc = "finish", !.entries = S]
    OBVIOUS
<1>1. RunOk(k, job[k], run[k]) /\ job[k] \in JobRow /\ run[k] \in RunState
    BY DEF TenancyInv, RunsOk, Types
<1>2. /\ run[k].pc = "entries" /\ job' = [job EXCEPT ![k] = j] /\ run' = [run EXCEPT ![k] = r]
      /\ UNCHANGED <<home, team, row, audit, touched, call>>
    BY DEF RewriteAudit, authority, TenancyInv, Types
<1>3. S \subseteq Entry /\ \A n \in S : audit[n].team = k[1] /\ audit[n].org = job[k].source
    BY DEF EntriesOf, Written
<1>4. r \in RunState /\ r.pc = "finish" /\ r.entries = S /\ r.rows = run[k].rows
    BY <1>1, <1>3 DEF RunState
<1>5. RunOk(k, j, r)
    BY <1>1, <1>2, <1>3, <1>4 DEF RunOk
<1>6. JobMoves(k, j, r)
    BY <1>1, <1>2, <1>4, <1>5 DEF JobMoves, TenancyInv, Types
<1> QED BY <1>6, JobMovesStep

\* A run that fails is undone, and a completed job may go.
LEMMA RunDiesStep ==
    ASSUME TenancyInv, NEW k \in JobKey, Purge(k) \/ FailRun(k, "queued") \/ FailRun(k, "failed")
    PROVE  TenancyInv'
<1>0. RunOk(k, job[k], run[k]) /\ job[k] \in JobRow /\ run[k] \in RunState
    BY DEF TenancyInv, RunsOk, Types
<1> PICK r : r = NoRun
    OBVIOUS
<1>1. r \in RunState /\ r.pc = "idle" /\ r.rows = {} /\ r.entries = {} /\ NoJob \in JobRow /\ NoJob.status = "absent"
    BY DEF NoRun, RunState, NoJob, JobRow
<1>2. CASE Purge(k)
    <2> PICK j : j = NoJob
        OBVIOUS
    <2>1. job[k].status = "completed" /\ job' = [job EXCEPT ![k] = j] /\ UNCHANGED <<home, team, row, audit, touched, call, run>>
        BY <1>2 DEF Purge, authority
    <2>2. run[k] = r
        BY <1>0, <2>1 DEF RunOk
    <2>3. JobMoves(k, j, r)
        BY <1>1, <2>1, <2>2 DEF JobMoves, RunOk, TenancyInv, Types
    <2> QED BY <2>3, JobMovesStep
<1>3. ASSUME NEW status \in {"queued", "failed"}, FailRun(k, status) PROVE TenancyInv'
    <2> PICK j : j = [job[k] EXCEPT !.status = status]
        OBVIOUS
    <2>1. job' = [job EXCEPT ![k] = j] /\ run' = [run EXCEPT ![k] = r] /\ UNCHANGED <<home, team, row, audit, touched, call>>
        BY <1>3 DEF FailRun, authority
    <2>2. run[k].pc # "idle" \/ run[k].pc = "finish"
        BY <1>3 DEF FailRun
    <2>3. job[k].status = "running"
        BY <1>0, <2>2 DEF RunOk
    <2>4. j \in JobRow /\ j.status = status /\ j.source = job[k].source
        BY <1>0 DEF JobRow
    <2>5. RunOk(k, j, r)
        BY <1>0, <1>1, <2>3, <2>4 DEF RunOk
    <2>6. JobMoves(k, j, r)
        BY <1>1, <2>1, <2>4, <2>5 DEF JobMoves, TenancyInv, Types
    <2> QED BY <2>6, JobMovesStep
<1> QED BY <1>2, <1>3

-----------------------------------------------------------------------------
(* The move                                                                *)

\* What RewriteAudit found stands under the other organisation; organisations that stay
\* untouched keep their rows.
LEMMA RewrittenIs ==
    ASSUME TenancyInv, NEW k \in JobKey, NEW N, Filled(audit, N), NEW log, log = Rewritten(k)
    PROVE  /\ log \in Log /\ Filled(log, N)
           /\ \A n \in Entry : log[n].team = audit[n].team /\ log[n].event = audit[n].event
           /\ \A n \in Entry \ run[k].entries : log[n] = audit[n]
           /\ \A o \in Org : run[k].entries = {} \/ o \notin {k[2], job[k].source} =>
                  (Chain(audit, o) => Chain(log, o)) /\ \A h : Extends(audit, h, o) => Extends(log, h, o)
<1>1. RunOk(k, job[k], run[k]) /\ run[k] \in RunState /\ k[2] \in Org /\ audit \in Log
    BY DEF TenancyInv, RunsOk, Types, JobKey
<1>2. ASSUME NEW n \in Entry
      PROVE  /\ log[n] \in LogRow
             /\ log[n].team = audit[n].team /\ log[n].event = audit[n].event
             /\ n \notin run[k].entries => log[n] = audit[n]
             /\ n \in run[k].entries => log[n].org = k[2]
    <2>1. audit[n] \in LogRow
        BY <1>1 DEF Log
    <2>2. log[n] = IF n \in run[k].entries THEN [audit[n] EXCEPT !.org = k[2]] ELSE audit[n]
        BY DEF Rewritten
    <2>3. /\ [audit[n] EXCEPT !.org = k[2]] \in LogRow
          /\ [audit[n] EXCEPT !.org = k[2]].team = audit[n].team
          /\ [audit[n] EXCEPT !.org = k[2]].event = audit[n].event
          /\ [audit[n] EXCEPT !.org = k[2]].org = k[2]
        BY <1>1, <2>1 DEF LogRow
    <2> QED BY <2>1, <2>2, <2>3
<1>3. log \in Log
    <2>1. log = [n \in Entry |-> log[n]]
        BY DEF Rewritten
    <2> QED BY <1>2, <2>1 DEF Log
<1>4. Filled(log, N)
    <2>1. ASSUME NEW n \in Entry
          PROVE  IF n <= N THEN log[n].event # "none" /\ log[n].org \in Org ELSE log[n] = NoEntry
        <3>1. CASE n \in run[k].entries
            <4>1. audit[n].org \in Org
                BY <1>1, <3>1 DEF RunOk, NoRun
            <4>2. n <= N
                BY <4>1, TenancyAssumption DEF Filled, NoEntry, TenancyAssumption
            <4> QED BY <1>1, <1>2, <3>1, <4>2 DEF Filled
        <3>2. CASE n \notin run[k].entries
            BY <1>2, <3>2 DEF Filled
        <3> QED BY <3>1, <3>2
    <2> QED BY <2>1 DEF Filled
<1>5. ASSUME NEW o \in Org, run[k].entries = {} \/ o \notin {k[2], job[k].source}
      PROVE  (Chain(audit, o) => Chain(log, o)) /\ \A h : Extends(audit, h, o) => Extends(log, h, o)
    <2> PICK old : old = audit
        OBVIOUS
    <2>1. EntriesOf(log, o) = {n \in Entry : log[n].org = o}
        BY <1>3, <1>4, EntriesAre
    <2>2. old \in Log /\ Filled(old, N)
        BY <1>1
    <2>3. EntriesOf(old, o) = {n \in Entry : old[n].org = o}
        BY <2>2, EntriesAre
    <2>4. \A n \in Entry : (log[n].org = o <=> old[n].org = o) /\ (old[n].org = o => log[n] = old[n])
        BY <1>1, <1>2, <1>5 DEF RunOk
    <2>5. EntriesOf(log, o) = EntriesOf(old, o) /\ \A n \in EntriesOf(old, o) : log[n] = old[n]
        BY <2>1, <2>3, <2>4
    <2> QED BY <2>5 DEF Chain, Extends
<1> QED BY <1>2, <1>3, <1>4, <1>5

LEMMA FinishStep ==
    ASSUME TenancyInv, NEW k \in JobKey, Finish(k)
    PROVE  TenancyInv'
<1> PICK t, o, log : t = k[1] /\ o = k[2] /\ log = Rewritten(k)
    OBVIOUS
<1> PICK p, j, r : p = Head(log, o) /\ j = [job[k] EXCEPT !.status = "completed"] /\ r = NoRun
    OBVIOUS
<1> PICK new : new = audit'
    OBVIOUS
<1>1. /\ run[k].pc = "finish"
      /\ team[t] = o \/ RowFree(t)
      /\ ChainFree(o) /\ RoomFor(1)
      /\ row' = [c \in Call |-> IF c \in run[k].rows THEN [row[c] EXCEPT !.org = o] ELSE row[c]]
      /\ new = Append(log, o, t, p, "reparented")
      /\ team' = [team EXCEPT ![t] = o]
      /\ touched' = touched \cup {q \in {team[t], job[k].source, o} : team[t] # o}
      /\ job' = [job EXCEPT ![k] = j] /\ run' = [run EXCEPT ![k] = r]
      /\ UNCHANGED <<home, call>>
    BY DEF Finish, authority
<1>2. /\ t \in Team /\ o \in Org /\ o # None /\ job[k] \in JobRow /\ run[k] \in RunState /\ RunOk(k, job[k], run[k])
      /\ job[k].status = "running" /\ job[k].source \in Org /\ team[t] \in Org /\ team[t] # None
    <2>1. k \in Team \X Org /\ k[1] \in Team /\ k[2] \in Org
        BY DEF JobKey
    <2>2. RunOk(k, job[k], run[k]) /\ job[k] \in JobRow /\ run[k] \in RunState
        BY DEF TenancyInv, RunsOk, Types
    <2>3. run[k].pc = "finish"
        BY <1>1
    <2>4. job[k].status = "running"
        BY <2>2, <2>3 DEF RunOk
    <2>5. job[k].source \in Org /\ team[k[1]] # None
        BY <2>2, <2>4 DEF RunOk
    <2>6. team[k[1]] \in Org
        BY <2>1, <2>5 DEF TenancyInv, Types
    <2>7. o # None
        BY <2>1, TenancyAssumption DEF TenancyAssumption
    <2> QED BY <2>1, <2>2, <2>4, <2>5, <2>6, <2>7
<1> PICK N \in Nat : Filled(audit, N) /\ N + 1 <= MaxEntries
    BY <1>1, RoomIs DEF TenancyInv
<1>3. /\ log \in Log /\ Filled(log, N)
      /\ \A n \in Entry : log[n].team = audit[n].team /\ log[n].event = audit[n].event
      /\ \A n \in Entry \ run[k].entries : log[n] = audit[n]
      /\ \A q \in Org : run[k].entries = {} \/ q \notin {k[2], job[k].source} =>
             (Chain(audit, q) => Chain(log, q)) /\ \A h : Extends(audit, h, q) => Extends(log, h, q)
    BY RewrittenIs
<1>4. p \in Entry \cup {0} /\ Grown(new, log, N, o, t, p, "reparented")
    BY <1>1, <1>2, <1>3, HeadType DEF Grown
<1>5. /\ new \in Log /\ Filled(new, N + 1) /\ N + 1 \in Entry
      /\ new[N + 1] = [team |-> t, org |-> o, prev |-> p, hashed |-> o, event |-> "reparented"]
      /\ \A n \in Entry \ {N + 1} : new[n] = log[n]
    BY <1>4, AppendIs
<1>6. /\ Chain(log, o) /\ Extends(log, p, o) => Chain(new, o)
      /\ \A q \in Org \ {o} : /\ Chain(log, q) => Chain(new, q)
                              /\ \A h : Extends(log, h, q) => Extends(new, h, q)
    BY <1>4, ChainGrows
\* An organisation that stays untouched loses and gets no row by the rewriting.
<1>7. ASSUME NEW q \in Org \ touched'
      PROVE  /\ q \notin touched /\ Chain(log, q) /\ \A h : Extends(audit, h, q) => Extends(log, h, q)
    <2>1. q \notin touched /\ (team[t] # o => q \notin {o, job[k].source})
        BY <1>1
    <2>2. run[k].entries = {} \/ q \notin {k[2], job[k].source}
        BY <1>2, <2>1 DEF RunOk
    <2> QED BY <1>3, <2>1, <2>2 DEF TenancyInv, Chains
<1>8. Chains'
    <2>1. ASSUME NEW q \in Org \ touched' PROVE Chain(new, q)
        <3>1. CASE q = o
            <4>1. Chain(log, o) /\ Extends(log, p, o)
                BY <1>3, <1>7, <3>1, HeadExtends
            <4> QED BY <1>6, <3>1, <4>1
        <3>2. CASE q # o
            BY <1>6, <1>7, <3>2
        <3> QED BY <3>1, <3>2
    <2> QED BY <2>1 DEF Chains, Chain, EntriesOf, Written
<1>9. /\ team' \in [Team -> Org \cup {None}] /\ team'[t] = o /\ \A u \in Team \ {t} : team'[u] = team[u]
      /\ touched' \subseteq Org
    BY <1>1, <1>2 DEF TenancyInv, Types
<1>10. /\ row' \in [Call -> RowOf]
       /\ \A c \in Call \ run[k].rows : row'[c] = row[c]
    <2>1. \A c \in Call : row[c] \in RowOf /\ [row[c] EXCEPT !.org = o] \in RowOf
        BY <1>2 DEF TenancyInv, Types, RowOf
    <2> QED BY <1>1, <2>1
<1>11. /\ j \in JobRow /\ j.status = "completed" /\ j.source = job[k].source
       /\ r \in RunState /\ r.pc = "idle" /\ r.rows = {} /\ r.entries = {}
    BY <1>2 DEF JobRow, RunState, NoRun
<1>12. /\ job' \in [JobKey -> JobRow] /\ run' \in [JobKey -> RunState] /\ job'[k] = j /\ run'[k] = r
       /\ \A l \in JobKey \ {k} : job'[l] = job[l] /\ run'[l] = run[l]
    BY <1>1, <1>11 DEF TenancyInv, Types
<1>13. Types'
    <2>1. N + 1 \in 0 .. MaxEntries
        BY <1>5 DEF Entry
    <2> QED BY <1>1, <1>5, <1>9, <1>10, <1>12, <2>1 DEF TenancyInv, Types, Filled
<1>14. CallsOk'
    <2>1. ASSUME NEW c \in Call PROVE CallOk(c, call[c])'
        <3>1. CallOk(c, call[c])
            BY DEF TenancyInv, CallsOk
        <3>2. call[c].pc # "idle" => row'[c] = NoRow
            <4>1. row[c] = NoRow => c \notin run[k].rows
                BY <1>2, TenancyAssumption DEF RunOk, NoRow, TenancyAssumption
            <4> QED BY <1>10, <3>1, <4>1 DEF CallOk
        <3>3. call[c].pc \in {"fed", "audited"} /\ c \notin Feedless => team'[call[c].team] = call[c].org
            <4>1. call[c].pc \in {"fed", "audited"} /\ c \notin Feedless => call[c].team # t \/ team[t] = o
                BY <1>1 DEF RowFree, Writing
            <4> QED BY <1>9, <3>1, <4>1 DEF CallOk
        <3>4. call[c].pc = "audited" /\ call[c].org \notin touched' => Extends(new, call[c].prev, call[c].org)
            <4>1. call[c].pc = "audited" => call[c].org \in Org \ {o}
                BY <1>1, <3>1 DEF ChainFree, CallOk
            <4> QED BY <1>6, <1>7, <3>1, <4>1 DEF CallOk
        <3> QED BY <1>1, <3>1, <3>2, <3>3, <3>4 DEF CallOk, Extends, EntriesOf, Written
    <2> QED BY <1>1, <2>1 DEF TenancyInv, CallsOk
<1>15. RunsOk'
    <2>1. ASSUME NEW l \in JobKey PROVE RunOk(l, job[l], run[l])'
        <3>1. RunOk(l, job[l], run[l]) /\ run[l] \in RunState /\ l[1] \in Team
            BY DEF TenancyInv, RunsOk, Types, JobKey
        <3>2. team[l[1]] # None => team'[l[1]] # None
            BY <1>2, <1>9, <3>1
        <3>3. CASE l = k
            BY <1>2, <1>9, <1>11, <1>12, <3>3 DEF RunOk
        <3>4. CASE l # k /\ run[l].pc = "idle"
            <4>1. run'[l] = run[l] /\ job'[l] = job[l] /\ run[l].entries = {} /\ run[l].rows = {}
                BY <1>12, <3>1, <3>4 DEF RunOk, NoRun
            <4> QED BY <3>1, <3>2, <3>4, <4>1 DEF RunOk
        <3>5. CASE l # k /\ run[l].pc # "idle"
            <4>1. l[1] # t /\ run'[l] = run[l] /\ job'[l] = job[l] /\ team'[l[1]] = team[l[1]]
                <5>1. l[1] # k[1]
                    <6>1. run[k].pc # "idle"
                        BY <1>1
                    <6>2. \A a, b \in JobKey : a[1] = b[1] /\ run[a].pc # "idle" /\ run[b].pc # "idle" => a = b
                        BY DEF TenancyInv, RunsOk
                    <6> QED BY <3>5, <6>1, <6>2
                <5>2. l[1] # t
                    BY <5>1
                <5> QED BY <1>9, <1>12, <3>1, <3>5, <5>2
            <4>2. ASSUME NEW n \in run[l].entries PROVE new[n].team = l[1] /\ new[n].org = job[l].source
                <5>1. n \in Entry /\ audit[n].team = l[1] /\ audit[n].org = job[l].source /\ job[l].source \in Org
                    BY <3>1, <3>5 DEF RunOk, RunState
                <5>2. n \notin run[k].entries
                    BY <1>2, <4>1, <5>1 DEF RunOk
                <5>3. n <= N
                    BY <5>1, TenancyAssumption DEF Filled, NoEntry, TenancyAssumption
                <5>4. n # N + 1
                    BY <5>1, <5>3 DEF Entry
                <5> QED BY <1>3, <1>5, <5>1, <5>2, <5>4
            <4>3. ASSUME NEW c \in run[l].rows PROVE row'[c].team = l[1] /\ row'[c].org = job[l].source
                <5>1. c \in Call /\ row[c].team = l[1] /\ row[c].org = job[l].source
                    BY <3>1 DEF RunOk, RunState
                <5>2. c \notin run[k].rows
                    BY <1>2, <4>1, <5>1 DEF RunOk
                <5> QED BY <1>10, <5>1, <5>2
            <4> QED BY <3>1, <3>5, <4>1, <4>2, <4>3 DEF RunOk
        <3> QED BY <3>3, <3>4, <3>5
    <2>2. \A l, m \in JobKey : l[1] = m[1] /\ run'[l].pc # "idle" /\ run'[m].pc # "idle" => l = m
        BY <1>11, <1>12 DEF TenancyInv, RunsOk
    <2> QED BY <2>1, <2>2 DEF RunsOk
<1>16. ASSUME NEW u \in Team PROVE ProvisionedBy(u)'
    <2>1. ASSUME NEW n \in Entry PROVE Provisions(u, n)' <=> Provisions(u, n)
        <3>1. CASE n = N + 1
            <4>1. ~(N + 1 <= N)
                OBVIOUS
            <4>2. audit[N + 1] = NoEntry
                BY <1>5, <4>1 DEF Filled
            <4> QED BY <1>5, <3>1, <4>2 DEF Provisions, NoEntry
        <3>2. CASE n # N + 1
            BY <1>3, <1>5, <3>2 DEF Provisions
        <3> QED BY <3>1, <3>2
    <2>2. team'[u] = None <=> team[u] = None
        BY <1>2, <1>9
    <2> QED BY <2>1, <2>2 DEF TenancyInv, ProvisionedBy
<1> QED BY <1>8, <1>13, <1>14, <1>15, <1>16 DEF TenancyInv

-----------------------------------------------------------------------------
(* The theorems                                                            *)

LEMMA TenancyInit == Init => TenancyInv
<1> SUFFICES ASSUME Init PROVE TenancyInv
    OBVIOUS
<1>1. /\ NoCall \in CallRow /\ NoCall.pc = "idle" /\ NoRow \in RowOf
      /\ NoEntry \in LogRow /\ NoEntry.event = "none"
      /\ NoJob \in JobRow /\ NoJob.status = "absent"
      /\ NoRun \in RunState /\ NoRun.pc = "idle" /\ NoRun.rows = {} /\ NoRun.entries = {}
    BY DEF NoCall, CallRow, NoRow, RowOf, NoEntry, LogRow, NoJob, JobRow, NoRun, RunState
<1>2. audit \in Log /\ Filled(audit, 0) /\ 0 \in 0 .. MaxEntries
    <2>1. \A n \in Entry : ~(n <= 0)
        BY DEF Entry
    <2> QED BY <1>1, <2>1, TenancyAssumption DEF TenancyAssumption, Init, Log, Filled
<1>3. Types
    BY <1>1, <1>2 DEF Init, Types
<1>4. CallsOk /\ RunsOk
    BY <1>1 DEF Init, CallsOk, CallOk, RunsOk, RunOk
<1>5. \A o \in Org : EntriesOf(audit, o) = {}
    BY DEF Init, EntriesOf, Written
<1>6. Chains
    BY <1>5 DEF Chains, Chain
<1>7. \A t \in Team : ProvisionedBy(t)
    BY <1>1 DEF Init, ProvisionedBy, Provisions
<1> QED BY <1>3, <1>4, <1>6, <1>7 DEF TenancyInv

LEMMA TenancyStep == TenancyInv /\ [Next]_vars => TenancyInv'
<1> SUFFICES ASSUME TenancyInv, [Next]_vars PROVE TenancyInv'
    OBVIOUS
<1>1. ASSUME UNCHANGED <<team, call, row, audit, job, run, touched>>, home' \in [Team -> Org] PROVE TenancyInv'
    BY <1>1 DEF TenancyInv, Types, Filled, CallsOk, CallOk, Extends, RunsOk, RunOk, Chains, Chain, EntriesOf, Written,
                ProvisionedBy, Provisions
<1>2. CASE UNCHANGED vars
    BY <1>1, <1>2 DEF vars, authority, TenancyInv, Types
<1>3. CASE \E t \in Team : MoveAtUOA(t)
    BY <1>1, <1>3 DEF MoveAtUOA, TenancyInv, Types
<1>4. CASE \E c \in Call : Begin(c) \/ CallStep(c)
    BY <1>4, CallSteps
<1>5. CASE \E k \in JobKey : RunStep(k) \/ Purge(k)
    BY <1>5, StartStep, RewriteRowsStep, RewriteAuditStep, FinishStep, RunDiesStep DEF RunStep
<1> QED BY <1>2, <1>3, <1>4, <1>5 DEF Next

LEMMA TenancyAlways == Spec => []TenancyInv
<1> QED BY TenancyInit, TenancyStep, PTL DEF Spec

\* However many transactions of however many teams extend the chain of an organisation at the same time, and whatever
\* calls and runs die, the chain verifies, as long as no team has left or joined the organisation.
THEOREM ChainsVerify == Spec => []UntouchedChainVerifies
<1>1. TenancyInv => UntouchedChainVerifies
    BY ChainVerifies DEF TenancyInv, Chains, UntouchedChainVerifies
<1> QED BY <1>1, TenancyAlways, PTL

\* First calls race, cached or not, before and after moves: a team is provisioned by exactly one of them.
THEOREM TeamProvisionedOnce == Spec => []ProvisionedOnce
<1>1. TenancyInv => ProvisionedOnce
    <2> SUFFICES ASSUME TenancyInv, NEW t \in Team
                 PROVE  Cardinality({n \in Written(audit) : audit[n].team = t /\ audit[n].event = "provisioned"})
                            = (IF team[t] = None THEN 0 ELSE 1)
        BY DEF ProvisionedOnce
    <2> DEFINE S == {n \in Written(audit) : audit[n].team = t /\ audit[n].event = "provisioned"}
    <2>1. \A n \in Entry : n \in S <=> Provisions(t, n)
        BY DEF Provisions, Written, NoEntry
    <2>2. S \subseteq Entry
        BY DEF Written
    <2>3. CASE team[t] = None
        <3>1. S = {}
            BY <2>1, <2>2, <2>3 DEF TenancyInv, ProvisionedBy
        <3> QED BY <2>3, <3>1, FS_EmptySet
    <2>4. CASE team[t] # None
        <3>1. PICK n \in Entry : \A m \in Entry : Provisions(t, m) <=> m = n
            BY <2>4 DEF TenancyInv, ProvisionedBy
        <3>2. S = {n}
            BY <2>1, <2>2, <3>1
        <3> QED BY <2>4, <3>2, FS_Singleton
    <2> QED BY <2>3, <2>4
<1> QED BY <1>1, TenancyAlways, PTL

\* A call that resolved its tenant before its team moved writes nothing to the feed of the organisation it left.
THEOREM FeedStaysWithTeam == Spec => FeedFollowsTeam
<1>1. TenancyInv /\ [Next]_vars =>
          [\A c \in Call \ Feedless : row'[c] # row[c] /\ row[c] = NoRow => row'[c].org = team[row'[c].team]]_vars
    <2> SUFFICES ASSUME TenancyInv, [Next]_vars, NEW c \in Call \ Feedless, row'[c] # row[c], row[c] = NoRow
                 PROVE  row'[c].org = team[row'[c].team]
        OBVIOUS
    <2>1. ASSUME NEW d \in Call, Commit(d) PROVE row'[c].org = team[row'[c].team]
        <3>1. d = c /\ row'[c] = [team |-> call[c].team, org |-> call[c].org]
            BY <2>1 DEF Commit, TenancyInv, Types
        <3>2. call[c].pc = "audited"
            BY <2>1, <3>1 DEF Commit
        <3> QED BY <3>1, <3>2 DEF TenancyInv, CallsOk, CallOk
    <2>2. ASSUME NEW k \in JobKey, Finish(k) PROVE FALSE
        <3>1. RunOk(k, job[k], run[k]) /\ run[k].pc = "finish"
            BY <2>2 DEF Finish, TenancyInv, RunsOk
        <3>2. c \notin run[k].rows
            BY <3>1, TenancyAssumption DEF RunOk, NoRow, TenancyAssumption
        <3> QED BY <2>2, <3>2 DEF Finish
    <2>3. row' # row
        OBVIOUS
    <2> QED BY <2>1, <2>2, <2>3 DEF Next, vars, CallStep, RunStep, MoveAtUOA, Begin, ResolveCached, ResolveLocked, Feed,
               AuditLock, Abort, Start, RewriteRows, RewriteAudit, FailRun, Purge
<1> QED BY <1>1, TenancyAlways, PTL DEF Spec, FeedFollowsTeam

-----------------------------------------------------------------------------
(* Quiet moves                                                             *)

\* A run of a team that no call has written to since it began finds the team where its job says, and once it
\* has rewritten the rows it holds all those of the listed tables.
RunWhole(k) ==
    k[1] \notin mixed /\ run[k].pc # "idle" =>
        /\ team[k[1]] \in {job[k].source, k[2]}
        /\ run[k].pc \in {"entries", "finish"} /\ team[k[1]] # k[2] =>
               \A c \in Call \ Unlisted : row[c] # NoRow /\ row[c].team = k[1] => c \in run[k].rows

RowsTyped == \A c \in Call : row[c] # NoRow => row[c].team \in Team /\ row[c].org \in Org

QuietInv == RowsTyped /\ QuietMovesAreWhole /\ \A k \in JobKey : RunWhole(k)

\* Steps that move no team and commit no row.
LEMMA QuietElsewhere ==
    ASSUME QuietInv, UNCHANGED <<team, row>>, mixed \subseteq mixed',
           \A k \in JobKey : (run'[k] = run[k] /\ (run[k].pc # "idle" => job'[k] = job[k])) \/ RunWhole(k)'
    PROVE  QuietInv'
<1>1. RowsTyped' /\ QuietMovesAreWhole'
    BY DEF QuietInv, RowsTyped, QuietMovesAreWhole
<1>2. ASSUME NEW k \in JobKey PROVE RunWhole(k)'
    BY <1>2 DEF QuietInv, RunWhole
<1> QED BY <1>1, <1>2 DEF QuietInv

LEMMA QuietLocked ==
    ASSUME TenancyInv, QuietInv, NEW c \in Call, ResolveLocked(c)
    PROVE  QuietInv'
<1> PICK t, o : t = call[c].team /\ o = call[c].org
    OBVIOUS
<1>1. /\ call[c].pc = "resolve" /\ TeamFree(t)
      /\ Resolve(c, t, o) \/ Provision(c, t, o) \/ Reparent(c, t, o) \/ RefuseCall(c, t, o)
      /\ UNCHANGED <<row, run, mixed>>
    BY DEF ResolveLocked
<1>2. t \in Team /\ o \in Org
    BY <1>1 DEF TenancyInv, CallsOk, CallOk
<1>3. CASE Resolve(c, t, o) \/ RefuseCall(c, t, o)
    BY <1>1, <1>3, QuietElsewhere DEF Resolve, RefuseCall
<1>4. CASE Reparent(c, t, o)
    <2>1. UNCHANGED team /\ <<t, o>> \in JobKey /\ \A k \in JobKey : k # <<t, o>> => job'[k] = job[k]
        BY <1>2, <1>4 DEF Reparent, JobKey, TenancyInv, Types
    <2>2. run[<<t, o>>].pc = "idle"
        BY <1>1, <2>1 DEF TeamFree
    <2> QED BY <1>1, <2>1, <2>2, QuietElsewhere
<1>5. CASE Provision(c, t, o)
    <2>1. team[t] = None /\ team' = [team EXCEPT ![t] = o] /\ UNCHANGED job
        BY <1>5 DEF Provision, Unprovisioned
    <2>2. \A u \in Team : u # t => team'[u] = team[u]
        BY <2>1 DEF TenancyInv, Types
    <2>3. \A d \in Call \ Unlisted : row[d] # NoRow /\ row[d].team \notin mixed => row[d].team # t
        BY <2>1, TenancyAssumption DEF TenancyAssumption, QuietInv, QuietMovesAreWhole, RowsTyped
    <2>4. RowsTyped' /\ QuietMovesAreWhole'
        BY <1>1, <2>2, <2>3 DEF QuietInv, QuietMovesAreWhole, RowsTyped
    <2>5. ASSUME NEW k \in JobKey PROVE RunWhole(k)'
        <3>1. CASE k[1] = t
            BY <1>1, <3>1 DEF TeamFree, RunWhole
        <3>2. CASE k[1] # t
            <4>1. team'[k[1]] = team[k[1]]
                BY <2>2, <3>2 DEF JobKey
            <4> QED BY <1>1, <2>1, <4>1 DEF QuietInv, RunWhole
        <3> QED BY <3>1, <3>2
    <2> QED BY <2>4, <2>5 DEF QuietInv
<1> QED BY <1>1, <1>3, <1>4, <1>5

LEMMA QuietCommit ==
    ASSUME TenancyInv, QuietInv, NEW c \in Call, Commit(c)
    PROVE  QuietInv'
<1> PICK t, o : t = call[c].team /\ o = call[c].org
    OBVIOUS
<1>1. /\ call[c].pc = "audited" /\ row' = [row EXCEPT ![c] = [team |-> t, org |-> o]]
      /\ mixed' = mixed \cup Mixing(c) /\ UNCHANGED <<team, job, run>>
    BY DEF Commit
<1>2. t \in Team /\ o \in Org
    BY <1>1 DEF TenancyInv, CallsOk, CallOk
<1>3. row'[c] = [team |-> t, org |-> o] /\ \A d \in Call : d # c => row'[d] = row[d]
    BY <1>1 DEF TenancyInv, Types
<1>4. t \notin mixed' => TeamFree(t) /\ team[t] = o
    BY <1>1 DEF Mixing
<1>5. RowsTyped'
    BY <1>2, <1>3 DEF QuietInv, RowsTyped
<1>6. QuietMovesAreWhole'
    <2> SUFFICES ASSUME NEW d \in Call \ Unlisted, row'[d] # NoRow, row'[d].team \notin mixed'
                 PROVE  row'[d].org = team'[row'[d].team]
        BY DEF QuietMovesAreWhole
    <2>1. CASE d = c
        BY <1>1, <1>3, <1>4, <2>1
    <2>2. CASE d # c
        BY <1>1, <1>3, <2>2 DEF QuietInv, QuietMovesAreWhole
    <2> QED BY <2>1, <2>2
<1>7. ASSUME NEW k \in JobKey PROVE RunWhole(k)'
    <2>1. CASE k[1] = t
        BY <1>1, <1>4, <2>1 DEF TeamFree, RunWhole
    <2>2. CASE k[1] # t
        BY <1>1, <1>3, <2>2 DEF QuietInv, RunWhole
    <2> QED BY <2>1, <2>2
<1> QED BY <1>5, <1>6, <1>7 DEF QuietInv

LEMMA QuietStart ==
    ASSUME TenancyInv, QuietInv, NEW k \in JobKey, Start(k)
    PROVE  QuietInv'
<1>1. /\ job' = [job EXCEPT ![k].status = "running"]
      /\ run' = [run EXCEPT ![k].pc = IF team[k[1]] = k[2] THEN "finish" ELSE "rows"]
      /\ mixed \subseteq mixed' /\ (team[k[1]] \notin {job[k].source, k[2]} => k[1] \in mixed')
      /\ UNCHANGED <<team, row>>
    BY DEF Start
<1>2. /\ job'[k].source = job[k].source /\ run'[k].pc = (IF team[k[1]] = k[2] THEN "finish" ELSE "rows")
      /\ \A l \in JobKey : l # k => job'[l] = job[l] /\ run'[l] = run[l]
    <2>1. job[k] \in JobRow /\ run[k] \in RunState
        BY DEF TenancyInv, Types
    <2> QED BY <1>1, <2>1 DEF TenancyInv, Types, JobRow, RunState
<1>3. RunWhole(k)'
    BY <1>1, <1>2 DEF RunWhole
<1> QED BY <1>1, <1>2, <1>3, QuietElsewhere

LEMMA QuietRewrite ==
    ASSUME TenancyInv, QuietInv, NEW k \in JobKey, RewriteRows(k) \/ RewriteAudit(k)
    PROVE  QuietInv'
<1>1. UNCHANGED <<team, row, job, mixed>>
    BY DEF RewriteRows, RewriteAudit
<1>2. \A l \in JobKey : l # k => run'[l] = run[l]
    BY DEF RewriteRows, RewriteAudit, TenancyInv, Types
<1>3. run \in [JobKey -> RunState]
    BY DEF TenancyInv, Types
<1>4. CASE RewriteRows(k)
    <2>1. run[k].pc = "rows" /\ run'[k].pc = "entries" /\ run'[k].rows = ListedRows(k)
        BY <1>3, <1>4 DEF RewriteRows, RunState
    <2>2. ASSUME k[1] \notin mixed
          PROVE  /\ team[k[1]] \in {job[k].source, k[2]}
                 /\ team[k[1]] # k[2] =>
                        \A c \in Call \ Unlisted : row[c] # NoRow /\ row[c].team = k[1] => c \in ListedRows(k)
        <3>1. team[k[1]] \in {job[k].source, k[2]}
            BY <2>1, <2>2 DEF QuietInv, RunWhole
        <3>2. ASSUME NEW c \in Call \ Unlisted, row[c] # NoRow, row[c].team = k[1], team[k[1]] # k[2]
              PROVE  c \in ListedRows(k)
            <4>1. row[c].org = job[k].source
                BY <2>2, <3>1, <3>2 DEF QuietInv, QuietMovesAreWhole
            <4>2. row[c] \in RowOf
                BY DEF TenancyInv, Types
            <4> QED BY <3>2, <4>1, <4>2 DEF ListedRows, RowOf
        <3> QED BY <3>1, <3>2
    <2>3. RunWhole(k)'
        BY <1>1, <2>1, <2>2 DEF RunWhole
    <2> QED BY <1>1, <1>2, <2>3, QuietElsewhere
<1>5. CASE RewriteAudit(k)
    <2>1. run[k].pc = "entries" /\ run'[k].pc = "finish" /\ run'[k].rows = run[k].rows
        BY <1>3, <1>5 DEF RewriteAudit, RunState
    <2>2. RunWhole(k)'
        BY <1>1, <2>1 DEF QuietInv, RunWhole
    <2> QED BY <1>1, <1>2, <2>2, QuietElsewhere
<1> QED BY <1>4, <1>5

LEMMA QuietFinish ==
    ASSUME TenancyInv, QuietInv, NEW k \in JobKey, Finish(k)
    PROVE  QuietInv'
<1>1. /\ run[k].pc = "finish"
      /\ row' = [c \in Call |-> IF c \in run[k].rows THEN [row[c] EXCEPT !.org = k[2]] ELSE row[c]]
      /\ team' = [team EXCEPT ![k[1]] = k[2]]
      /\ run' = [run EXCEPT ![k] = NoRun] /\ job' = [job EXCEPT ![k].status = "completed"] /\ UNCHANGED mixed
    BY DEF Finish
<1>2. k[1] \in Team /\ k[2] \in Org
    BY DEF JobKey
<1>3. team'[k[1]] = k[2] /\ \A t \in Team : t # k[1] => team'[t] = team[t]
    BY <1>1, <1>2 DEF TenancyInv, Types
<1>4. \A c \in run[k].rows : row[c].team = k[1] /\ row[c].org = job[k].source
    BY DEF TenancyInv, RunsOk, RunOk
<1>5. job[k].source \in Org
    BY <1>1 DEF TenancyInv, RunsOk, RunOk
<1>6. \A c \in Call : /\ c \in run[k].rows => row[c] # NoRow /\ row'[c].team = k[1] /\ row'[c].org = k[2]
                      /\ c \notin run[k].rows => row'[c] = row[c]
    <2>1. \A c \in Call : row[c] \in RowOf
        BY DEF TenancyInv, Types
    <2>2. \A c \in run[k].rows : row[c] # NoRow
        BY <1>4, <1>5, TenancyAssumption DEF TenancyAssumption, NoRow
    <2> QED BY <1>1, <1>4, <2>1, <2>2 DEF RowOf
<1>7. RowsTyped'
    BY <1>2, <1>6 DEF QuietInv, RowsTyped
<1>8. QuietMovesAreWhole'
    <2> SUFFICES ASSUME NEW c \in Call \ Unlisted, row'[c] # NoRow, row'[c].team \notin mixed'
                 PROVE  row'[c].org = team'[row'[c].team]
        BY DEF QuietMovesAreWhole
    <2>1. CASE c \in run[k].rows
        BY <1>3, <1>6, <2>1
    <2>2. CASE c \notin run[k].rows
        <3>1. row'[c] = row[c] /\ row[c].team \in Team /\ row[c].org = team[row[c].team]
            BY <1>1, <1>6, <2>2 DEF QuietInv, RowsTyped, QuietMovesAreWhole
        <3>2. CASE row[c].team # k[1]
            BY <1>3, <3>1, <3>2
        <3>3. CASE row[c].team = k[1]
            <4>1. team[k[1]] = k[2]
                BY <1>1, <2>2, <3>1, <3>3 DEF QuietInv, RunWhole
            <4> QED BY <1>3, <3>1, <3>3, <4>1
        <3> QED BY <3>2, <3>3
    <2> QED BY <2>1, <2>2
<1>9. ASSUME NEW l \in JobKey PROVE RunWhole(l)'
    <2>1. CASE l[1] = k[1]
        <3>1. run'[l].pc = "idle"
            <4>1. CASE l = k
                BY <1>1, <4>1 DEF TenancyInv, Types, NoRun
            <4>2. CASE l # k
                BY <1>1, <2>1, <4>2 DEF TenancyInv, Types, RunsOk, RunState
            <4> QED BY <4>1, <4>2
        <3> QED BY <3>1 DEF RunWhole
    <2>2. CASE l[1] # k[1]
        <3>1. l # k /\ run'[l] = run[l] /\ job'[l] = job[l] /\ team'[l[1]] = team[l[1]]
            BY <1>1, <1>3, <2>2 DEF TenancyInv, Types, JobKey
        <3>2. \A c \in Call : row'[c].team = l[1] => row'[c] = row[c]
            BY <1>6, <2>2
        <3> QED BY <1>1, <3>1, <3>2 DEF QuietInv, RunWhole
    <2> QED BY <2>1, <2>2
<1> QED BY <1>7, <1>8, <1>9 DEF QuietInv

LEMMA QuietDies ==
    ASSUME TenancyInv, QuietInv, NEW k \in JobKey, (\E s : FailRun(k, s)) \/ Purge(k)
    PROVE  QuietInv'
<1>1. UNCHANGED <<team, row, mixed>> /\ \A l \in JobKey : l # k => run'[l] = run[l] /\ job'[l] = job[l]
    BY DEF FailRun, Purge, TenancyInv, Types
<1>2. run'[k].pc = "idle"
    <2>1. CASE \E s : FailRun(k, s)
        BY <2>1 DEF FailRun, TenancyInv, Types, NoRun
    <2>2. CASE Purge(k)
        BY <2>2 DEF Purge, TenancyInv, Types, RunsOk, RunOk, RunState
    <2> QED BY <2>1, <2>2
<1>3. RunWhole(k)'
    BY <1>2 DEF RunWhole
<1> QED BY <1>1, <1>3, QuietElsewhere

LEMMA QuietStep == TenancyInv /\ QuietInv /\ [Next]_vars => QuietInv'
<1> SUFFICES ASSUME TenancyInv, QuietInv, [Next]_vars PROVE QuietInv'
    OBVIOUS
<1>1. ASSUME UNCHANGED <<team, row, job, run>>, mixed \subseteq mixed' PROVE QuietInv'
    BY <1>1, QuietElsewhere
<1>2. CASE UNCHANGED vars
    BY <1>1, <1>2 DEF vars
<1>3. CASE \E t \in Team : MoveAtUOA(t)
    BY <1>1, <1>3 DEF MoveAtUOA
<1>4. ASSUME NEW c \in Call, Begin(c) \/ CallStep(c) PROVE QuietInv'
    BY <1>1, <1>4, QuietLocked, QuietCommit DEF CallStep, Begin, ResolveCached, Feed, AuditLock, Abort
<1>5. ASSUME NEW k \in JobKey, RunStep(k) \/ Purge(k) PROVE QuietInv'
    BY <1>5, QuietStart, QuietRewrite, QuietFinish, QuietDies DEF RunStep
<1> QED BY <1>2, <1>3, <1>4, <1>5 DEF Next

\* A job that finds its team where it was enqueued for, with no write of the team in flight, moves all of it: every
\* row of a listed table is in the organisation of its team, whatever other teams do, however often a run dies
\* half-way and is retried, and wherever the team is moved after that.
THEOREM QuietMoveIsWhole == Spec => []QuietMovesAreWhole
<1>1. Init => QuietInv
    BY DEF Init, QuietInv, RowsTyped, QuietMovesAreWhole, RunWhole, NoRun
<1>2. QuietInv => QuietMovesAreWhole
    BY DEF QuietInv
<1> QED BY <1>1, <1>2, QuietStep, TenancyAlways, PTL DEF Spec
====
