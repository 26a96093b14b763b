-------------------------- MODULE ChangeFeedProofs --------------------------
(***************************************************************************)
(* What holds of ChangeFeed for any number of writes, webhooks, buckets,   *)
(* batch and page sizes: the feed is numbered in commit order, no webhook  *)
(* skips an event its receiver has not accepted, and a pull consumer is    *)
(* given every row it wants exactly once.                                  *)
(***************************************************************************)
EXTENDS ChangeFeed, TLAPS, FiniteSetTheorems, WellFoundedInduction

-----------------------------------------------------------------------------
(* The least elements and the top of a set of numbers.                     *)

LEMMA SmallestExists ==
    ASSUME NEW S \in SUBSET Nat, S # {}
    PROVE  \E x \in S : \A y \in S : x <= y
<1>1. PICK x \in S : \A y \in S : ~ (<<y, x>> \in OpToRel(<, Nat))
    BY NatLessThanWellFounded, WFMin
<1>2. \A y \in S : ~ (y < x)
    BY <1>1 DEF OpToRel
<1> QED BY <1>2

\* A bounded set of numbers that is not empty has its top in it.
LEMMA TopIsTop ==
    ASSUME NEW S \in SUBSET Nat, S # {}, NEW n \in Nat, \A s \in S : s <= n
    PROVE  Top(S) \in S /\ \A t \in S : t <= Top(S)
<1> DEFINE U == {m \in Nat : \A s \in S : s <= m}
<1>1. PICK m \in U : \A u \in U : m <= u
    BY SmallestExists
<1>2. m \in S
    <2> SUFFICES ASSUME m \notin S PROVE FALSE
        OBVIOUS
    <2>1. \A s \in S : s \in Nat /\ s < m
        OBVIOUS
    <2>2. m - 1 \in Nat
        <3>1. m \in Nat
            BY <1>1
        <3>2. PICK s \in S : TRUE
            OBVIOUS
        <3> QED BY <2>1, <3>1, <3>2
    <2>3. m - 1 \in U
        BY <1>1, <2>1, <2>2
    <2> QED BY <1>1, <2>3
<1> QED BY <1>2 DEF Top

LEMMA TopOfOne == ASSUME NEW a \in Nat PROVE Top({a}) = a
BY TopIsTop

LEMMA TopOfTwo == ASSUME NEW a \in Nat, NEW b \in Nat, a <= b PROVE Top({a, b}) = b
BY TopIsTop

\* Whatever lies below a least element is one, too.
LEMMA LeastDown ==
    ASSUME NEW n \in Nat, NEW S \in SUBSET Nat, IsFiniteSet(S),
           NEW s \in Least(n, S), NEW t \in S, t <= s
    PROVE  t \in Least(n, S)
<1>0. s \in S /\ s \in Nat /\ t \in Nat /\ \A u \in S : u \in Nat
    BY DEF Least
<1> DEFINE Below(x) == {u \in S : u < x}
<1>1. Below(t) \subseteq Below(s) /\ Below(s) \subseteq S /\ Below(t) \subseteq S
    <2>1. \A u \in S : u < t => u < s
        BY <1>0
    <2> QED BY <2>1
<1>2. Cardinality(Below(s)) < n
    BY DEF Least
<1> HIDE DEF Below
<1>3. IsFiniteSet(Below(s)) /\ IsFiniteSet(Below(t))
    BY <1>1, FS_Subset
<1>4. Cardinality(Below(t)) <= Cardinality(Below(s))
    BY <1>1, <1>3, FS_Subset
<1>5. Cardinality(Below(t)) \in Nat /\ Cardinality(Below(s)) \in Nat
    BY <1>3, FS_CardinalityType
<1>6. Cardinality(Below(t)) < n
    BY <1>4, <1>5, <1>2
<1> QED BY <1>6 DEF Least, Below

LEMMA LeastSubset == ASSUME NEW n, NEW S PROVE Least(n, S) \subseteq S
BY DEF Least

LEMMA LeastNonempty ==
    ASSUME NEW n \in Nat \ {0}, NEW S \in SUBSET Nat, S # {}
    PROVE  Least(n, S) # {}
<1>1. PICK x \in S : \A y \in S : x <= y
    BY SmallestExists
<1>2. \A u \in S : u \in Nat /\ x \in Nat /\ ~(u < x)
    BY <1>1
<1>3. {u \in S : u < x} = {}
    BY <1>2
<1>4. Cardinality({u \in S : u < x}) < n
    BY <1>3, FS_EmptySet
<1> QED BY <1>4 DEF Least

\* A set that is small enough is all of its least elements.
LEMMA LeastAll ==
    ASSUME NEW n \in Nat, NEW S \in SUBSET Nat, IsFiniteSet(S), Cardinality(S) <= n
    PROVE  Least(n, S) = S
<1> SUFFICES ASSUME NEW s \in S PROVE Cardinality({u \in S : u < s}) < n
    BY DEF Least
<1> DEFINE B == {u \in S : u < s}
<1>1. B \subseteq S /\ s \notin B /\ s \in S
    OBVIOUS
<1> HIDE DEF B
<1>2. /\ IsFiniteSet(B)
      /\ Cardinality(B) <= Cardinality(S)
      /\ Cardinality(B) # Cardinality(S)
    BY <1>1, FS_Subset
<1>3. Cardinality(B) \in Nat /\ Cardinality(S) \in Nat
    BY <1>2, FS_CardinalityType
<1>4. Cardinality(B) < n
    BY <1>2, <1>3
<1> QED BY <1>4 DEF B

-----------------------------------------------------------------------------
(* The feed.                                                               *)

LEMMA SeqsFinite == Seqs \in SUBSET Nat /\ IsFiniteSet(Seqs)
<1>1. Cardinality(Writer) \in Nat
    BY FeedAssumption, FS_CardinalityType DEF FeedAssumption
<1> QED BY <1>1, FS_Interval DEF Seqs

Transaction == [pc : {"new", "open", "allocated", "effects", "committed", "aborted"},
                bucket : Nat, seq : Nat, enqueues : BOOLEAN]

FeedTyped == /\ bucket \in Nat
             /\ feedSeq \in Nat
             /\ log \in [Seqs -> Writer \cup {None}]
             /\ tx \in [Writer -> Transaction]

\* Only one write holds a number, and it is the next one.
NextHeld == /\ \A w \in Writer : Holding(w) => tx[w].seq = feedSeq + 1
            /\ \A v, w \in Writer : Holding(v) /\ Holding(w) => v = w
            /\ \A s \in Seqs : log[s] # None <=> s <= feedSeq

FeedInv == FeedTyped /\ NextHeld

LEMMA InitFeed == Init => FeedInv
<1>1. \A s \in Seqs : s \in Nat /\ s > 0
    BY FeedAssumption, FS_CardinalityType DEF Seqs, FeedAssumption
<1> QED BY <1>1 DEF Init, FeedInv, FeedTyped, NextHeld, NewTx, Transaction, Holding

\* While no write holds a number the next one follows the committed one.
LEMMA NextSeqIsNext ==
    ASSUME FeedInv, NEW w \in Writer, tx[w].pc = "open", TeamRowFree(w)
    PROVE  NextSeq = feedSeq + 1
<1>1. {u \in Writer : Holding(u)} = {}
    BY DEF TeamRowFree, Holding
<1>2. {feedSeq} \cup {tx[v].seq : v \in {u \in Writer : Holding(u)}} = {feedSeq}
    BY <1>1
<1> QED BY <1>2, TopOfOne DEF NextSeq, FeedInv, FeedTyped

\* What a step does to the feed: it commits one write, or leaves the rows as they are.
FeedStep == \/ \E w \in Writer : Commit(w)
            \/ UNCHANGED feedVars

LEMMA CommitFeed ==
    ASSUME FeedInv, NEW w \in Writer, Commit(w)
    PROVE  /\ feedSeq' = feedSeq + 1
           /\ log' = [log EXCEPT ![feedSeq + 1] = w]
           /\ FeedInv'
<1>1. tx[w].seq = feedSeq + 1 /\ Holding(w)
    BY DEF Commit, Holding, FeedInv, NextHeld
<1>2. feedSeq' = feedSeq + 1
    <2>1. Top({feedSeq, feedSeq + 1}) = feedSeq + 1
        BY TopOfTwo DEF FeedInv, FeedTyped
    <2> QED BY <1>1, <2>1 DEF Commit
<1>3. log' = [log EXCEPT ![feedSeq + 1] = w]
    BY <1>1 DEF Commit
<1>4. FeedTyped'
    <2>1. [NewTx EXCEPT !.pc = "committed"] \in Transaction
        BY DEF NewTx, Transaction
    <2>2. tx' = [tx EXCEPT ![w] = [NewTx EXCEPT !.pc = "committed"]] /\ UNCHANGED bucket
        BY DEF Commit
    <2>3. tx' \in [Writer -> Transaction]
        BY <2>1, <2>2 DEF FeedInv, FeedTyped
    <2>4. log' \in [Seqs -> Writer \cup {None}]
        BY <1>3 DEF FeedInv, FeedTyped
    <2> QED BY <1>2, <2>2, <2>3, <2>4 DEF FeedInv, FeedTyped
<1>5. \A v \in Writer : ~Holding(v)'
    <2> TAKE v \in Writer
    <2>1. CASE v = w
        BY <2>1 DEF Commit, Holding, FeedInv, FeedTyped, NewTx
    <2>2. CASE v # w
        <3>1. ~Holding(v) /\ tx'[v] = tx[v]
            BY <1>1, <2>2 DEF Commit, FeedInv, FeedTyped, NextHeld
        <3> QED BY <3>1 DEF Holding
    <2> QED BY <2>1, <2>2
<1>6. \A s \in Seqs : log'[s] # None <=> s <= feedSeq'
    <2> TAKE s \in Seqs
    <2>1. s \in Nat /\ feedSeq \in Nat /\ w # None
        BY SeqsFinite, FeedAssumption DEF FeedInv, FeedTyped, FeedAssumption
    <2>2. log[s] # None <=> s <= feedSeq
        BY DEF FeedInv, NextHeld
    <2>3. CASE s = feedSeq + 1
        BY <1>2, <1>3, <2>1, <2>3 DEF FeedInv, FeedTyped
    <2>4. CASE s # feedSeq + 1
        <3>1. log'[s] = log[s]
            BY <1>3, <2>4 DEF FeedInv, FeedTyped
        <3> QED BY <1>2, <2>1, <2>2, <2>4, <3>1
    <2> QED BY <2>3, <2>4
<1> QED BY <1>2, <1>3, <1>4, <1>5, <1>6 DEF FeedInv, NextHeld

LEMMA FeedKeeps ==
    ASSUME FeedInv, [Next]_vars
    PROVE  FeedInv' /\ FeedStep
<1>1. ASSUME bucket' \in Nat, UNCHANGED <<feedVars, tx>> PROVE FeedInv' /\ FeedStep
    BY <1>1 DEF FeedInv, FeedTyped, NextHeld, Holding, FeedStep, feedVars
<1>2. CASE Tick
    BY <1>1, <1>2 DEF Tick, FeedInv, FeedTyped
<1>3. CASE Seen \/ Pull
    BY <1>1, <1>3 DEF Seen, Pull, FeedInv, FeedTyped
<1>4. ASSUME NEW w \in Writer, Begin(w) PROVE FeedInv' /\ FeedStep
    <2>1. tx' \in [Writer -> Transaction]
        BY <1>4 DEF Begin, FeedInv, FeedTyped, Transaction
    <2>2. \A v \in Writer : (Holding(v)' <=> Holding(v)) /\ tx'[v].seq = tx[v].seq
        BY <1>4 DEF Begin, FeedInv, FeedTyped, Transaction, Holding
    <2> QED BY <1>4, <2>1, <2>2 DEF Begin, FeedInv, FeedTyped, NextHeld, FeedStep, feedVars
<1>5. ASSUME NEW w \in Writer, Allocate(w) PROVE FeedInv' /\ FeedStep
    <2>1. NextSeq = feedSeq + 1
        BY <1>5, NextSeqIsNext DEF Allocate
    <2>2. tx' = [tx EXCEPT ![w] = [tx[w] EXCEPT !.pc = "allocated", !.seq = feedSeq + 1]]
        BY <1>5, <2>1 DEF Allocate, FeedInv, FeedTyped
    <2>3. [tx[w] EXCEPT !.pc = "allocated", !.seq = feedSeq + 1] \in Transaction
        <3>1. tx[w] \in Transaction /\ feedSeq + 1 \in Nat
            BY DEF FeedInv, FeedTyped
        <3> QED BY <3>1 DEF Transaction
    <2>4. tx' \in [Writer -> Transaction] /\ tx'[w].seq = feedSeq + 1
        BY <2>2, <2>3 DEF FeedInv, FeedTyped, Transaction
    <2>5. \A v \in Writer : Holding(v)' => v = w
        BY <1>5, <2>2 DEF Allocate, TeamRowFree, Holding, FeedInv, FeedTyped
    <2> QED BY <1>5, <2>4, <2>5 DEF Allocate, FeedInv, FeedTyped, NextHeld, FeedStep, feedVars
<1>6. ASSUME NEW w \in Writer, Effects(w) PROVE FeedInv' /\ FeedStep
    <2> DEFINE e == /\ w \notin SchemaWriter
                    /\ ActiveHooks # {}
                    /\ job[DeliverKey(tx[w].bucket)].status = "absent"
    <2>1. tx' = [tx EXCEPT ![w] = [tx[w] EXCEPT !.pc = "effects", !.enqueues = e]]
        BY <1>6 DEF Effects, FeedInv, FeedTyped
    <2>2. e \in BOOLEAN
        OBVIOUS
    <2> HIDE DEF e
    <2>3. [tx[w] EXCEPT !.pc = "effects", !.enqueues = e] \in Transaction
        BY <2>2 DEF FeedInv, FeedTyped, Transaction
    <2>4. tx' \in [Writer -> Transaction] /\ tx'[w].seq = tx[w].seq
        BY <2>1, <2>3 DEF FeedInv, FeedTyped, Transaction
    <2>5. \A v \in Writer : (Holding(v)' <=> Holding(v)) /\ tx'[v].seq = tx[v].seq
        BY <1>6, <2>1, <2>4 DEF Effects, Holding, FeedInv, FeedTyped, Transaction
    <2> QED BY <1>6, <2>4, <2>5 DEF Effects, FeedInv, FeedTyped, NextHeld, FeedStep, feedVars
<1>7. ASSUME NEW w \in Writer, Commit(w) PROVE FeedInv' /\ FeedStep
    BY <1>7, CommitFeed DEF FeedStep
<1>8. ASSUME NEW w \in Writer, Rollback(w) PROVE FeedInv' /\ FeedStep
    <2>1. [NewTx EXCEPT !.pc = "aborted"] \in Transaction
        BY DEF NewTx, Transaction
    <2>2. tx' = [tx EXCEPT ![w] = [NewTx EXCEPT !.pc = "aborted"]]
        BY <1>8 DEF Rollback
    <2>3. \A v \in Writer : Holding(v)' => v # w /\ tx'[v] = tx[v] /\ Holding(v)
        BY <2>2 DEF Holding, FeedInv, FeedTyped, NewTx
    <2> QED BY <1>8, <2>1, <2>2, <2>3 DEF Rollback, FeedInv, FeedTyped, NextHeld, FeedStep, feedVars
<1>9. ASSUME NEW h \in Hook, Register(h) \/ Toggle(h) \/ Delete(h) PROVE FeedInv' /\ FeedStep
    BY <1>1, <1>9 DEF Register, Toggle, Delete, FeedInv, FeedTyped
<1>10. ASSUME NEW k \in JobKey, BecomeDue(k) \/ Start(k) \/ Deliver(k) \/ RunLost(k)
       PROVE  FeedInv' /\ FeedStep
    BY <1>1, <1>10
    DEF BecomeDue, Start, Deliver, Done, OpenHook, NoRows, Accept, Refuse, CommitHook, RunLost, FeedInv, FeedTyped
<1>11. CASE UNCHANGED vars
    BY <1>1, <1>11 DEF vars, FeedInv, FeedTyped, feedVars
<1> QED BY <1>2, <1>3, <1>4, <1>5, <1>6, <1>7, <1>8, <1>9, <1>10, <1>11 DEF Next

-----------------------------------------------------------------------------
(* Webhooks.                                                               *)

RunRow == [pc : {"idle", "next", "batch", "commit"}, todo : SUBSET Hook, hook : Hook \cup {0},
           last : Nat, batches : Nat, wrote : BOOLEAN, off : BOOLEAN]
HookRow == [status : {"none", "active", "inactive", "deleted"}, from : Nat, last : Nat, refused : Nat]

HooksTyped == /\ hook \in [Hook -> HookRow]
              /\ received \in [Hook -> SUBSET Seqs]
              /\ run \in [JobKey -> RunRow]

\* The receiver of webhook h has accepted what it wants of the rows up to n.
Covered(h, n) == \A s \in Seqs : hook[h].from < s /\ s <= n /\ log[s] \notin Unwanted => s \in received[h]

HookOK(h) == /\ hook[h].from <= hook[h].last /\ hook[h].last <= feedSeq
             /\ Covered(h, hook[h].last)
             /\ \A s \in received[h] : hook[h].from < s
             /\ hook[h].status = "none" => received[h] = {}

\* An open delivery transaction is ahead of the row, but not of the feed.
RunOK(k) == /\ run[k].pc \in {"batch", "commit"} <=> run[k].hook # 0
            /\ run[k].hook # 0 => /\ hook[run[k].hook].status # "none"
                                  /\ hook[run[k].hook].last <= run[k].last
                                  /\ run[k].last <= feedSeq
                                  /\ Covered(run[k].hook, run[k].last)

\* The advisory lock of a webhook.
Exclusive == \A k, l \in JobKey : run[k].hook # 0 /\ run[k].hook = run[l].hook => k = l

HookInv == HooksTyped /\ (\A h \in Hook : HookOK(h)) /\ (\A k \in JobKey : RunOK(k)) /\ Exclusive

LEMMA InitHooks == Init => HookInv
<1> SUFFICES ASSUME Init PROVE HookInv
    OBVIOUS
<1>1. IdleRun \in RunRow
    BY DEF IdleRun, RunRow
<1>2. \A k \in JobKey : run[k] = IdleRun /\ run[k].hook = 0 /\ run[k].pc = "idle"
    BY DEF Init, IdleRun
<1>3. \A h \in Hook : /\ hook[h] = [status |-> "none", from |-> 0, last |-> 0, refused |-> 0]
                      /\ received[h] = {}
    BY DEF Init
<1>4. HooksTyped
    BY <1>1 DEF Init, HooksTyped, HookRow
<1>5. \A h \in Hook : HookOK(h)
    <2>1. feedSeq = 0 /\ \A s \in Seqs : s \in Nat
        BY SeqsFinite DEF Init
    <2> QED BY <1>3, <2>1 DEF HookOK, Covered
<1> QED BY <1>2, <1>4, <1>5 DEF HookInv, RunOK, Exclusive

\* The rows up to the committed sequence never change.
LEMMA FeedStepKeepsRows ==
    ASSUME FeedInv, FeedStep
    PROVE  /\ feedSeq' \in Nat /\ feedSeq <= feedSeq'
           /\ \A s \in Seqs : s <= feedSeq => log'[s] = log[s]
<1>1. feedSeq \in Nat /\ \A s \in Seqs : s \in Nat
    BY SeqsFinite DEF FeedInv, FeedTyped
<1>2. ASSUME NEW w \in Writer, Commit(w)
      PROVE  /\ feedSeq' \in Nat /\ feedSeq <= feedSeq'
             /\ \A s \in Seqs : s <= feedSeq => log'[s] = log[s]
    <2>1. feedSeq' = feedSeq + 1 /\ log' = [log EXCEPT ![feedSeq + 1] = w]
        BY <1>2, CommitFeed
    <2>2. \A s \in Seqs : s <= feedSeq => s # feedSeq + 1
        BY <1>1
    <2> QED BY <1>1, <2>1, <2>2 DEF FeedInv, FeedTyped
<1> QED BY <1>1, <1>2 DEF FeedStep, feedVars

\* Steps that touch no webhook and no run.
LEMMA HooksUntouched ==
    ASSUME FeedInv, HookInv, FeedStep, UNCHANGED <<hookVars, run>>
    PROVE  HookInv'
<1>1. /\ feedSeq \in Nat /\ feedSeq' \in Nat /\ feedSeq <= feedSeq'
      /\ \A s \in Seqs : s \in Nat
      /\ \A s \in Seqs : s <= feedSeq => log'[s] = log[s]
    BY FeedStepKeepsRows, SeqsFinite DEF FeedInv, FeedTyped
<1>2. ASSUME NEW h \in Hook PROVE HookOK(h)'
    <2>1. hook[h].last \in Nat /\ hook[h].last <= feedSeq /\ HookOK(h)
        BY DEF HookInv, HooksTyped, HookRow, HookOK
    <2>2. \A s \in Seqs : s <= hook[h].last => log'[s] = log[s]
        BY <1>1, <2>1
    <2> QED BY <1>1, <2>1, <2>2 DEF HookOK, Covered, hookVars
<1>3. ASSUME NEW k \in JobKey PROVE RunOK(k)'
    <2>1. run[k].last \in Nat /\ RunOK(k)
        BY DEF HookInv, HooksTyped, RunRow
    <2>2. CASE run[k].hook = 0
        BY <2>1, <2>2 DEF RunOK
    <2>3. CASE run[k].hook # 0
        <3>1. run[k].last <= feedSeq
            BY <2>1, <2>3 DEF RunOK
        <3>2. \A s \in Seqs : s <= run[k].last => log'[s] = log[s]
            BY <1>1, <2>1, <3>1
        <3> QED BY <1>1, <2>1, <2>3, <3>1, <3>2 DEF RunOK, Covered, hookVars
    <2> QED BY <2>2, <2>3
<1> QED BY <1>2, <1>3 DEF HookInv, HooksTyped, Exclusive, hookVars

\* A run k goes on as r, and its receiver may have accepted more: r must be in order.
LEMMA RunChange ==
    ASSUME FeedInv, HookInv, UNCHANGED feedVars,
           NEW k \in JobKey, NEW r \in RunRow, run' = [run EXCEPT ![k] = r],
           hook' \in [Hook -> HookRow],
           \A h \in Hook : /\ hook'[h].from = hook[h].from /\ hook'[h].last = hook[h].last
                           /\ hook'[h].status = "none" <=> hook[h].status = "none",
           received' \in [Hook -> SUBSET Seqs],
           \A h \in Hook : /\ received[h] \subseteq received'[h]
                           /\ \A s \in received'[h] : hook[h].from < s
                           /\ hook[h].status = "none" => received'[h] = {},
           r.pc \in {"batch", "commit"} <=> r.hook # 0,
           r.hook # 0 => /\ \A l \in JobKey \ {k} : run[l].hook # r.hook
                         /\ hook[r.hook].status # "none"
                         /\ hook[r.hook].last <= r.last /\ r.last <= feedSeq
                         /\ \A s \in Seqs : hook[r.hook].from < s /\ s <= r.last /\ log[s] \notin Unwanted
                                            => s \in received'[r.hook]
    PROVE  HookInv'
<1>1. HooksTyped'
    BY DEF HookInv, HooksTyped
<1>2. ASSUME NEW h \in Hook PROVE HookOK(h)'
    BY DEF HookInv, HookOK, Covered, feedVars
<1>3. ASSUME NEW l \in JobKey PROVE RunOK(l)'
    <2>1. CASE l = k
        <3>1. run'[l] = r
            BY <2>1 DEF HookInv, HooksTyped
        <3>2. r.hook # 0 => r.hook \in Hook
            BY DEF RunRow
        <3> QED BY <3>1, <3>2 DEF RunOK, Covered, feedVars
    <2>2. CASE l # k
        <3>1. run'[l] = run[l] /\ RunOK(l)
            BY <2>2 DEF HookInv, HooksTyped
        <3>2. run[l].hook # 0 => run[l].hook \in Hook
            BY DEF HookInv, HooksTyped, RunRow
        <3> QED BY <3>1, <3>2 DEF RunOK, Covered, feedVars
    <2> QED BY <2>1, <2>2
<1>4. Exclusive'
    <2>1. \A l \in JobKey : run'[l] = IF l = k THEN r ELSE run[l]
        BY DEF HookInv, HooksTyped
    <2> QED BY <2>1 DEF HookInv, Exclusive
<1> QED BY <1>1, <1>2, <1>3, <1>4 DEF HookInv

LEMMA IdleInOrder == IdleRun \in RunRow /\ IdleRun.hook = 0 /\ IdleRun.pc = "idle"
BY DEF IdleRun, RunRow

\* A run that gives up or ends leaves its webhook as it was.
LEMMA RunEnds ==
    ASSUME FeedInv, HookInv, UNCHANGED feedVars,
           NEW k \in JobKey, NEW r \in RunRow, run' = [run EXCEPT ![k] = r],
           r.hook = 0, r.pc \in {"idle", "next"},
           hook' \in [Hook -> HookRow],
           \A h \in Hook : /\ hook'[h].from = hook[h].from /\ hook'[h].last = hook[h].last
                           /\ hook'[h].status = "none" <=> hook[h].status = "none",
           received' \in [Hook -> SUBSET Seqs],
           \A h \in Hook : /\ received[h] \subseteq received'[h]
                           /\ \A s \in received'[h] : hook[h].from < s
                           /\ hook[h].status = "none" => received'[h] = {}
    PROVE  HookInv'
BY RunChange

\* Nothing is received and no webhook row changes.
LEMMA SameHooks ==
    ASSUME HookInv, UNCHANGED hookVars
    PROVE  /\ hook' \in [Hook -> HookRow]
           /\ \A h \in Hook : /\ hook'[h].from = hook[h].from /\ hook'[h].last = hook[h].last
                              /\ hook'[h].status = "none" <=> hook[h].status = "none"
           /\ received' \in [Hook -> SUBSET Seqs]
           /\ \A h \in Hook : /\ received[h] \subseteq received'[h]
                              /\ \A s \in received'[h] : hook[h].from < s
                              /\ hook[h].status = "none" => received'[h] = {}
BY DEF HookInv, HooksTyped, HookOK, hookVars

\* A run that has its webhook open, and the batch it sends next.
LEMMA OpenRun ==
    ASSUME HookInv, NEW k \in JobKey, run[k].pc \in {"batch", "commit"}
    PROVE  /\ run[k] \in RunRow
           /\ run[k].hook \in Hook /\ run[k].hook # 0
           /\ RunOK(k) /\ HookOK(run[k].hook)
           /\ hook[run[k].hook].status # "none"
           /\ hook[run[k].hook].last <= run[k].last /\ run[k].last <= feedSeq
           /\ Covered(run[k].hook, run[k].last)
           /\ \A l \in JobKey \ {k} : run[l].hook # run[k].hook
<1>1. run[k] \in RunRow /\ RunOK(k)
    BY DEF HookInv, HooksTyped
<1>2. run[k].hook # 0
    BY <1>1 DEF RunOK
<1>3. run[k].hook \in Hook
    BY <1>1, <1>2 DEF RunRow
<1> QED BY <1>1, <1>2, <1>3 DEF HookInv, RunOK, Exclusive

LEMMA BatchRows ==
    ASSUME FeedInv, HookInv, NEW k \in JobKey
    PROVE  /\ Batch(k) \subseteq {s \in Seqs : log[s] # None /\ s > run[k].last}
           /\ Batch(k) \in SUBSET Nat
           /\ \A s \in Batch(k) : s <= feedSeq
           /\ \A t \in Seqs, s \in Batch(k) : run[k].last < t /\ t <= s => t \in Batch(k)
<1> DEFINE S == {s \in Seqs : log[s] # None /\ s > run[k].last}
<1>1. S \in SUBSET Nat /\ IsFiniteSet(S)
    <2>1. S \subseteq Seqs
        OBVIOUS
    <2> HIDE DEF S
    <2> QED BY <2>1, SeqsFinite, FS_Subset
<1>2. Batch(k) \subseteq S
    BY LeastSubset DEF Batch
<1>3. \A s \in S : s <= feedSeq
    BY DEF FeedInv, NextHeld
<1>4. ASSUME NEW t \in Seqs, NEW s \in Batch(k), run[k].last < t, t <= s
      PROVE  t \in Batch(k)
    <2>1. s \in S /\ s <= feedSeq
        BY <1>2, <1>3
    <2>2. t \in Nat /\ s \in Nat /\ feedSeq \in Nat /\ run[k].last \in Nat
        BY SeqsFinite, <1>1, <2>1 DEF FeedInv, FeedTyped, HookInv, HooksTyped, RunRow
    <2>3. t <= feedSeq
        BY <1>4, <2>1, <2>2
    <2>4. t \in S
        BY <1>4, <2>2, <2>3 DEF FeedInv, NextHeld
    <2>5. s \in Least(BatchSize, S)
        BY DEF Batch
    <2>6. BatchSize \in Nat
        BY FeedAssumption DEF FeedAssumption
    <2> HIDE DEF S
    <2>7. t \in Least(BatchSize, S)
        BY <1>1, <1>4, <2>4, <2>5, <2>6, LeastDown
    <2> QED BY <2>7 DEF Batch, S
<1> QED BY <1>1, <1>2, <1>3, <1>4

LEMMA StartKeeps ==
    ASSUME FeedInv, HookInv, NEW k \in JobKey, Start(k) \/ Done(k) \/ OpenHook(k) \/ NoRows(k)
    PROVE  HookInv'
<1>0. run[k] \in RunRow /\ run \in [JobKey -> RunRow] /\ RunOK(k)
    BY DEF HookInv, HooksTyped
<1>1. CASE Start(k)
    <2> DEFINE r == [IdleRun EXCEPT !.pc = "next", !.todo = ActiveHooks]
    <2>1. r \in RunRow /\ r.hook = 0 /\ r.pc = "next"
        BY DEF IdleRun, RunRow, ActiveHooks
    <2>2. run' = [run EXCEPT ![k] = r] /\ UNCHANGED <<feedVars, hookVars>>
        BY <1>1 DEF Start
    <2> HIDE DEF r
    <2> QED BY <2>1, <2>2, SameHooks, RunEnds
<1>2. CASE Done(k)
    <2>1. run' = [run EXCEPT ![k] = IdleRun] /\ UNCHANGED <<feedVars, hookVars>>
        BY <1>2 DEF Done
    <2> QED BY <2>1, IdleInOrder, SameHooks, RunEnds
<1>3. CASE OpenHook(k)
    <2>1. PICK h \in Least(1, run[k].todo) :
            /\ HookFree(k, h)
            /\ run' = IF hook[h].status = "active" /\ fresh
                      THEN [run EXCEPT ![k].pc = "batch", ![k].hook = h, ![k].last = hook[h].last]
                      ELSE [run EXCEPT ![k].todo = @ \ {h}]
        BY <1>3 DEF OpenHook
    <2>2. h \in Hook
        BY <1>0, LeastSubset DEF RunRow
    <2>3. /\ run[k].pc = "next" /\ UNCHANGED <<feedVars, hookVars>>
          /\ run[k].hook = 0
        BY <1>0, <1>3 DEF OpenHook, RunOK
    <2>4. CASE hook[h].status = "active" /\ fresh
        <3> DEFINE r == [run[k] EXCEPT !.pc = "batch", !.hook = h, !.last = hook[h].last]
        <3>1. run' = [run EXCEPT ![k] = r]
            BY <1>0, <2>1, <2>4
        <3>2. hook[h] \in HookRow /\ HookOK(h) /\ h # 0
            BY <2>2, FeedAssumption DEF HookInv, HooksTyped, FeedAssumption
        <3>3. hook[h].last \in Nat
            BY <3>2 DEF HookRow
        <3>4. r \in RunRow
            BY <1>0, <2>2, <3>3 DEF RunRow
        <3>5. r.pc = "batch" /\ r.hook = h /\ r.last = hook[h].last
            BY <1>0 DEF RunRow
        <3>6. \A l \in JobKey \ {k} : run[l].hook # h
            BY <2>1 DEF HookFree
        <3>7. hook[h].last <= feedSeq /\ Covered(h, hook[h].last) /\ received' = received
            BY <2>3, <3>2 DEF HookOK, hookVars
        <3>8. hook[h].last <= hook[h].last
            BY <3>3
        <3>9. \A s \in Seqs : hook[h].from < s /\ s <= hook[h].last /\ log[s] \notin Unwanted
                              => s \in received'[h]
            BY <3>7 DEF Covered
        <3> HIDE DEF r
        <3> QED BY <2>2, <2>3, <2>4, <3>1, <3>2, <3>4, <3>5, <3>6, <3>7, <3>8, <3>9, SameHooks, RunChange
    <2>5. CASE ~(hook[h].status = "active" /\ fresh)
        <3> DEFINE r == [run[k] EXCEPT !.todo = @ \ {h}]
        <3>1. run' = [run EXCEPT ![k] = r]
            BY <1>0, <2>1, <2>5
        <3>2. r \in RunRow /\ r.pc = "next" /\ r.hook = 0
            BY <1>0, <2>3 DEF RunRow
        <3> HIDE DEF r
        <3> QED BY <2>3, <3>1, <3>2, SameHooks, RunEnds
    <2> QED BY <2>4, <2>5
<1>4. CASE NoRows(k)
    <2> DEFINE r == [run[k] EXCEPT !.pc = "commit"]
    <2>1. run' = [run EXCEPT ![k] = r] /\ UNCHANGED <<feedVars, hookVars>> /\ run[k].pc = "batch"
        BY <1>0, <1>4 DEF NoRows, Delivering
    <2>2. r \in RunRow /\ r.pc = "commit" /\ r.hook = run[k].hook /\ r.last = run[k].last
        BY <1>0 DEF RunRow
    <2>3. received' = received
        BY <2>1 DEF hookVars
    <2> HIDE DEF r
    <2>4. r.hook # 0 /\ \A s \in Seqs :
            hook[r.hook].from < s /\ s <= r.last /\ log[s] \notin Unwanted => s \in received'[r.hook]
        BY <2>1, <2>2, <2>3, OpenRun DEF Covered
    <2>5. /\ hook[r.hook].status # "none"
          /\ hook[r.hook].last <= r.last /\ r.last <= feedSeq
          /\ \A l \in JobKey \ {k} : run[l].hook # r.hook
        BY <2>1, <2>2, OpenRun
    <2> QED BY <2>1, <2>2, <2>4, <2>5, SameHooks, RunChange
<1> QED BY <1>1, <1>2, <1>3, <1>4

LEMMA RequeueRun ==
    ASSUME HookInv, NEW k \in JobKey, Requeue(k)
    PROVE  run' = [run EXCEPT ![k] = IdleRun]
BY DEF Requeue

\* What a receiver accepts lies after its registration.
LEMMA ReceiverAccepts ==
    ASSUME FeedInv, HookInv, NEW k \in JobKey, Delivering(k),
           received' = [received EXCEPT ![run[k].hook] = @ \cup Events(Batch(k))]
    PROVE  /\ received' \in [Hook -> SUBSET Seqs]
           /\ received'[run[k].hook] = received[run[k].hook] \cup Events(Batch(k))
           /\ \A h \in Hook : /\ received[h] \subseteq received'[h]
                              /\ \A s \in received'[h] : hook[h].from < s
                              /\ hook[h].status = "none" => received'[h] = {}
<1> DEFINE o == run[k].hook
           E == Events(Batch(k))
<1>1. /\ o \in Hook /\ HookOK(o) /\ hook[o].status # "none" /\ hook[o].last <= run[k].last
      /\ run[k].last \in Nat
    BY OpenRun DEF Delivering, RunRow
<1>2. E \subseteq Seqs /\ \A s \in E : s > run[k].last
    BY BatchRows DEF Events
<1>3. hook[o].from \in Nat /\ hook[o].last \in Nat
    BY <1>1 DEF HookInv, HooksTyped, HookRow
<1>4. \A s \in E : hook[o].from < s
    <2>1. \A s \in Seqs : s \in Nat
        BY SeqsFinite
    <2>2. hook[o].from <= hook[o].last
        BY <1>1 DEF HookOK
    <2> HIDE DEF E, o
    <2> QED BY <1>1, <1>2, <1>3, <2>1, <2>2
<1>5. received \in [Hook -> SUBSET Seqs] /\ received' = [received EXCEPT ![o] = received[o] \cup E]
    BY DEF HookInv, HooksTyped
<1>6. \A h \in Hook : /\ \A s \in received[h] : hook[h].from < s
                      /\ hook[h].status = "none" => received[h] = {}
    BY DEF HookInv, HookOK
<1> HIDE DEF E, o
<1>7. \A h \in Hook : received'[h] = IF h = o THEN received[o] \cup E ELSE received[h]
    BY <1>5
<1>8. received' \in [Hook -> SUBSET Seqs]
    BY <1>1, <1>2, <1>5
<1>9. \A h \in Hook : /\ received[h] \subseteq received'[h]
                      /\ \A s \in received'[h] : hook[h].from < s
                      /\ hook[h].status = "none" => received'[h] = {}
    BY <1>1, <1>4, <1>6, <1>7
<1>10. received'[o] = received[o] \cup E
    BY <1>1, <1>7
<1> QED BY <1>8, <1>9, <1>10 DEF E, o

LEMMA AcceptKeeps ==
    ASSUME FeedInv, HookInv, NEW k \in JobKey, Accept(k)
    PROVE  HookInv'
<1>1. /\ Delivering(k) /\ Batch(k) # {} /\ UNCHANGED <<feedVars, hook>>
      /\ received' = [received EXCEPT ![run[k].hook] = @ \cup Events(Batch(k))]
    BY DEF Accept
<1>2. /\ hook' \in [Hook -> HookRow]
      /\ \A h \in Hook : /\ hook'[h].from = hook[h].from /\ hook'[h].last = hook[h].last
                         /\ hook'[h].status = "none" <=> hook[h].status = "none"
    BY <1>1 DEF HookInv, HooksTyped
<1>3. CASE Requeue(k)
    BY <1>1, <1>2, <1>3, IdleInOrder, RequeueRun, ReceiverAccepts, RunEnds
<1>4. CASE Advance(k)
    <2> DEFINE o == run[k].hook
               n == Top(Batch(k))
               p == IF Cardinality(Batch(k)) < BatchSize \/ run[k].batches + 1 = MaxBatches
                    THEN "commit" ELSE "batch"
               r == [run[k] EXCEPT !.last = n, !.wrote = TRUE, !.batches = @ + 1, !.pc = p]
    <2>0. /\ run[k] \in RunRow /\ run[k].last \in Nat /\ run[k].batches \in Nat /\ o # 0 /\ o \in Hook
          /\ hook[o].status # "none" /\ hook[o].last <= run[k].last /\ Covered(o, run[k].last)
          /\ \A l \in JobKey \ {k} : run[l].hook # o
        BY <1>1, OpenRun DEF Delivering, RunRow
    <2>1. n \in Batch(k) /\ \A t \in Batch(k) : t <= n
        BY <1>1, BatchRows, TopIsTop DEF FeedInv, FeedTyped
    <2>2. n \in Nat /\ n > run[k].last /\ n <= feedSeq
        BY <2>1, BatchRows
    <2>3. run' = [run EXCEPT ![k] = r]
        BY <1>4 DEF Advance, HookInv, HooksTyped
    <2>4. p \in {"commit", "batch"}
        OBVIOUS
    <2> HIDE DEF n, p
    <2>5. r \in RunRow /\ r.hook = o /\ r.last = n /\ r.pc = p
        <3>1. run[k].batches + 1 \in Nat /\ o = run[k].hook
            BY <2>0
        <3>2. r = [run[k] EXCEPT !.last = n, !.wrote = TRUE, !.batches = run[k].batches + 1, !.pc = p]
            OBVIOUS
        <3> HIDE DEF r, o
        <3> QED BY <2>0, <2>2, <2>4, <3>1, <3>2 DEF RunRow
    <2>6. hook[o].last <= n
        BY <2>0, <2>2 DEF HookInv, HooksTyped, HookRow
    <2>7. ASSUME NEW s \in Seqs, hook[o].from < s, s <= n, log[s] \notin Unwanted
          PROVE  s \in received'[o]
        <3>1. received'[o] = received[o] \cup Events(Batch(k))
            BY <1>1, ReceiverAccepts
        <3>2. s \in Nat
            BY SeqsFinite
        <3>3. CASE s <= run[k].last
            BY <2>0, <2>7, <3>1, <3>3 DEF Covered
        <3>4. CASE run[k].last < s
            <4>1. s \in Batch(k)
                BY <2>1, <2>7, <3>4, BatchRows
            <4> QED BY <2>7, <3>1, <4>1 DEF Events
        <3> QED BY <2>0, <3>2, <3>3, <3>4
    <2> HIDE DEF r, o
    <2>8. \A s \in Seqs : hook[r.hook].from < s /\ s <= r.last /\ log[s] \notin Unwanted
                          => s \in received'[r.hook]
        BY <2>5, <2>7
    <2>9. /\ received' \in [Hook -> SUBSET Seqs]
          /\ \A h \in Hook : /\ received[h] \subseteq received'[h]
                             /\ \A s \in received'[h] : hook[h].from < s
                             /\ hook[h].status = "none" => received'[h] = {}
        BY <1>1, ReceiverAccepts
    <2> QED BY <1>1, <1>2, <2>0, <2>2, <2>3, <2>4, <2>5, <2>6, <2>8, <2>9, RunChange
<1> QED BY <1>3, <1>4 DEF Accept

LEMMA RefuseKeeps ==
    ASSUME FeedInv, HookInv, NEW k \in JobKey, Refuse(k)
    PROVE  HookInv'
<1> DEFINE o == run[k].hook
<1>1. /\ Delivering(k) /\ UNCHANGED <<feedVars, received>>
      /\ hook' = [hook EXCEPT ![o].refused = @ + 1]
      /\ AfterRefusal(k, o, Top(Batch(k)))
    BY DEF Refuse
<1>2. o \in Hook /\ hook[o] \in HookRow
    BY <1>1, OpenRun DEF Delivering, HookInv, HooksTyped
<1>3. [hook[o] EXCEPT !.refused = @ + 1] \in HookRow
    BY <1>2 DEF HookRow
<1>4. /\ hook' \in [Hook -> HookRow]
      /\ \A h \in Hook : /\ hook'[h].from = hook[h].from /\ hook'[h].last = hook[h].last
                         /\ hook'[h].status = hook[h].status
    BY <1>1, <1>2, <1>3 DEF HookInv, HooksTyped, HookRow
<1>5. /\ received' \in [Hook -> SUBSET Seqs]
      /\ \A h \in Hook : /\ received[h] \subseteq received'[h]
                         /\ \A s \in received'[h] : hook[h].from < s
                         /\ hook[h].status = "none" => received'[h] = {}
    BY <1>1 DEF HookInv, HooksTyped, HookOK
<1>6. CASE Requeue(k)
    BY <1>1, <1>4, <1>5, <1>6, IdleInOrder, RequeueRun, RunEnds
<1>7. CASE run' = [run EXCEPT ![k].off = TRUE, ![k].pc = "commit"]
    <2> DEFINE r == [run[k] EXCEPT !.off = TRUE, !.pc = "commit"]
    <2>1. run[k] \in RunRow /\ run' = [run EXCEPT ![k] = r]
        BY <1>7 DEF HookInv, HooksTyped
    <2>2. r \in RunRow /\ r.pc = "commit" /\ r.hook = o /\ r.last = run[k].last
        BY <2>1 DEF RunRow
    <2>3. /\ o # 0 /\ hook[o].status # "none" /\ hook[o].last <= run[k].last /\ run[k].last <= feedSeq
          /\ Covered(o, run[k].last)
          /\ \A l \in JobKey \ {k} : run[l].hook # o
        BY <1>1, OpenRun DEF Delivering
    <2> HIDE DEF r, o
    <2>4. \A s \in Seqs : hook[r.hook].from < s /\ s <= r.last /\ log[s] \notin Unwanted
                          => s \in received'[r.hook]
        BY <1>1, <2>2, <2>3 DEF Covered
    <2> QED BY <1>1, <1>4, <1>5, <2>1, <2>2, <2>3, <2>4, RunChange
<1> QED BY <1>1, <1>6, <1>7 DEF AfterRefusal

LEMMA RunLostKeeps ==
    ASSUME FeedInv, HookInv, NEW k \in JobKey, RunLost(k)
    PROVE  HookInv'
<1>1. run' = [run EXCEPT ![k] = IdleRun] /\ UNCHANGED <<feedVars, hook>>
    BY RequeueRun DEF RunLost
<1>2. /\ hook' \in [Hook -> HookRow]
      /\ \A h \in Hook : /\ hook'[h].from = hook[h].from /\ hook'[h].last = hook[h].last
                         /\ hook'[h].status = "none" <=> hook[h].status = "none"
    BY <1>1 DEF HookInv, HooksTyped
<1>3. CASE UNCHANGED received
    BY <1>1, <1>3, IdleInOrder, SameHooks, RunEnds DEF hookVars
<1>4. CASE Delivering(k) /\ received' = [received EXCEPT ![run[k].hook] = @ \cup Events(Batch(k))]
    BY <1>1, <1>2, <1>4, IdleInOrder, ReceiverAccepts, RunEnds
<1> QED BY <1>3, <1>4 DEF RunLost

\* One webhook is registered, switched or moved: what else must hold of its new row.
LEMMA HookChange ==
    ASSUME FeedInv, HookInv, UNCHANGED <<feedVars, received>>,
           NEW o \in Hook, NEW row \in HookRow, hook' = [hook EXCEPT ![o] = row],
           row.from <= row.last, row.last <= feedSeq,
           hook[o].status # "none" => row.from = hook[o].from /\ row.status # "none",
           \A s \in Seqs : row.from < s /\ s <= row.last /\ log[s] \notin Unwanted => s \in received[o],
           row.status = "none" => received[o] = {},
           run' \in [JobKey -> RunRow],
           \A k \in JobKey : \/ run'[k] = run[k] /\ run[k].hook # o
                             \/ run'[k] = run[k] /\ run[k].hook = o /\ row.last = hook[o].last
                             \/ run'[k].hook = 0 /\ run'[k].pc = "next"
    PROVE  HookInv'
<1>0. \A h \in Hook : hook'[h] = IF h = o THEN row ELSE hook[h]
    BY DEF HookInv, HooksTyped
<1>1. HooksTyped'
    BY DEF HookInv, HooksTyped
<1>2. ASSUME NEW h \in Hook PROVE HookOK(h)'
    <2>1. CASE h # o
        BY <1>0, <2>1 DEF HookInv, HookOK, Covered, feedVars
    <2>2. CASE h = o
        <3>1. hook'[o] = row /\ received'[o] = received[o] /\ HookOK(o) /\ UNCHANGED <<feedSeq, log>>
            BY <1>0 DEF HookInv, feedVars
        <3>2. \A s \in received[o] : row.from < s
            <4>1. CASE hook[o].status = "none"
                BY <3>1, <4>1 DEF HookOK
            <4>2. CASE hook[o].status # "none"
                BY <3>1, <4>2 DEF HookOK
            <4> QED BY <4>1, <4>2
        <3> QED BY <2>2, <3>1, <3>2 DEF HookOK, Covered
    <2> QED BY <2>1, <2>2
<1>3. ASSUME NEW k \in JobKey PROVE RunOK(k)'
    <2>0. RunOK(k) /\ run[k] \in RunRow /\ UNCHANGED <<feedSeq, log, received>>
        BY DEF HookInv, HooksTyped, feedVars
    <2>1. CASE run'[k].hook = 0 /\ run'[k].pc = "next"
        BY <2>1 DEF RunOK
    <2>2. CASE run'[k] = run[k] /\ run[k].hook # o
        <3>1. run[k].hook # 0 => hook'[run[k].hook] = hook[run[k].hook]
            BY <1>0, <2>0, <2>2 DEF RunRow
        <3> QED BY <2>0, <2>2, <3>1 DEF RunOK, Covered
    <2>3. CASE run'[k] = run[k] /\ run[k].hook = o /\ row.last = hook[o].last
        <3>1. o # 0
            BY FeedAssumption DEF FeedAssumption
        <3>2. hook[o].status # "none" /\ hook[o].last <= run[k].last
            BY <2>0, <2>3, <3>1 DEF RunOK
        <3>3. hook'[o].from = hook[o].from /\ hook'[o].status # "none" /\ hook'[o].last = hook[o].last
            BY <1>0, <2>3, <3>2
        <3> QED BY <2>0, <2>3, <3>1, <3>2, <3>3 DEF RunOK, Covered
    <2> QED BY <2>1, <2>2, <2>3
<1>4. Exclusive'
    <2>1. \A k \in JobKey : run'[k].hook = 0 \/ run'[k].hook = run[k].hook
        OBVIOUS
    <2> QED BY <2>1 DEF HookInv, Exclusive
<1> QED BY <1>1, <1>2, <1>3, <1>4 DEF HookInv

LEMMA AdminKeeps ==
    ASSUME FeedInv, HookInv, NEW o \in Hook, Register(o) \/ Toggle(o) \/ Delete(o)
    PROVE  HookInv'
<1>1. /\ UNCHANGED <<feedVars, received, run>> /\ feedSeq \in Nat
      /\ run \in [JobKey -> RunRow] /\ hook[o] \in HookRow /\ HookOK(o)
    BY DEF Register, Toggle, Delete, HookInv, HooksTyped, FeedInv, FeedTyped
<1>2. CASE Register(o)
    <2>1. PICK row \in HookRow : /\ hook' = [hook EXCEPT ![o] = row]
                                /\ row.from = feedSeq /\ row.last = feedSeq /\ row.status = "active"
        <3>1. [status |-> "active", from |-> feedSeq, last |-> feedSeq, refused |-> 0] \in HookRow
            BY <1>1 DEF HookRow
        <3> QED BY <1>2, <3>1 DEF Register
    <2>2. hook[o].status = "none"
        BY <1>2 DEF Register
    <2>3. \A k \in JobKey : run[k].hook # o
        <3>1. o # 0
            BY FeedAssumption DEF FeedAssumption
        <3> QED BY <2>2, <3>1 DEF HookInv, RunOK
    <2>4. /\ row.from <= row.last /\ row.last <= feedSeq
          /\ \A s \in Seqs : row.from < s /\ s <= row.last /\ log[s] \notin Unwanted => s \in received[o]
        BY <1>1, <2>1, SeqsFinite
    <2>5. \A k \in JobKey : run'[k] = run[k] /\ run[k].hook # o
        BY <1>1, <2>3
    <2>6. run' \in [JobKey -> RunRow] /\ UNCHANGED <<feedVars, received>>
        BY <1>1
    <2>7. \A k \in JobKey : \/ run'[k] = run[k] /\ run[k].hook # o
                            \/ run'[k] = run[k] /\ run[k].hook = o /\ row.last = hook[o].last
                            \/ run'[k].hook = 0 /\ run'[k].pc = "next"
        BY <2>5
    <2>8. /\ hook[o].status # "none" => row.from = hook[o].from /\ row.status # "none"
          /\ row.status = "none" => received[o] = {}
        BY <2>1, <2>2
    <2>9. row \in HookRow /\ hook' = [hook EXCEPT ![o] = row]
        BY <2>1
    <2> QED BY <2>1, <2>2, <2>4, <2>6, <2>7, <2>8, <2>9, HookChange
<1>3. ASSUME NEW row \in HookRow, hook' = [hook EXCEPT ![o] = row], row.status # "none",
             row.from = hook[o].from, row.last = hook[o].last
      PROVE  HookInv'
    BY <1>1, <1>3, HookChange DEF HookOK, Covered
<1>4. CASE Toggle(o) \/ Delete(o)
    <2>1. PICK st \in {"active", "inactive", "deleted"}, n \in Nat :
            hook' = [hook EXCEPT ![o] = [hook[o] EXCEPT !.status = st, !.refused = n]]
        <3>1. CASE hook' = [hook EXCEPT ![o].status = "inactive"]
            BY <1>1, <3>1 DEF HookRow, HookInv, HooksTyped
        <3>2. CASE hook' = [hook EXCEPT ![o].status = "active", ![o].refused = 0]
            BY <1>1, <3>2 DEF HookRow, HookInv, HooksTyped
        <3>3. CASE hook' = [hook EXCEPT ![o].status = "deleted"]
            BY <1>1, <3>3 DEF HookRow, HookInv, HooksTyped
        <3> QED BY <1>4, <3>1, <3>2, <3>3 DEF Toggle, Delete
    <2>2. [hook[o] EXCEPT !.status = st, !.refused = n] \in HookRow
        BY <1>1, <2>1 DEF HookRow
    <2>3. /\ [hook[o] EXCEPT !.status = st, !.refused = n].from = hook[o].from
          /\ [hook[o] EXCEPT !.status = st, !.refused = n].last = hook[o].last
          /\ [hook[o] EXCEPT !.status = st, !.refused = n].status # "none"
        BY <1>1, <2>1 DEF HookRow
    <2> QED BY <1>3, <2>1, <2>2, <2>3
<1> QED BY <1>2, <1>4

LEMMA CommitHookKeeps ==
    ASSUME FeedInv, HookInv, NEW k \in JobKey, CommitHook(k)
    PROVE  /\ HookInv'
           /\ \A h \in Hook : hook'[h].last >= hook[h].last
<1> DEFINE o == run[k].hook
           row == [hook[o] EXCEPT !.last = IF run[k].wrote THEN run[k].last ELSE @,
                                  !.status = IF run[k].off THEN "inactive" ELSE @,
                                  !.refused = IF run[k].wrote THEN 0 ELSE @]
<1>1. /\ UNCHANGED <<feedVars, received>> /\ run' = [run EXCEPT ![k] = NextHook(k)]
      /\ run[k].pc = "commit"
    BY DEF CommitHook
<1>2. /\ o \in Hook /\ o # 0 /\ HookOK(o) /\ hook[o].status # "none" /\ run[k] \in RunRow
      /\ hook[o].last <= run[k].last /\ run[k].last <= feedSeq
      /\ Covered(o, run[k].last)
      /\ \A l \in JobKey \ {k} : run[l].hook # o
    BY <1>1, OpenRun
<1>3. hook[o] \in HookRow /\ feedSeq \in Nat /\ run[k].last \in Nat /\ hook[o].last \in Nat
      /\ hook[o].from \in Nat
    BY <1>2 DEF HookInv, HooksTyped, HookRow, RunRow, FeedInv, FeedTyped
<1>4. hook' = [hook EXCEPT ![o] = row]
    BY <1>2 DEF CommitHook, HookInv, HooksTyped
<1>5. /\ row \in HookRow /\ row.from = hook[o].from
      /\ row.status = IF run[k].off THEN "inactive" ELSE hook[o].status
      /\ row.last = IF run[k].wrote THEN run[k].last ELSE hook[o].last
    BY <1>2, <1>3 DEF HookRow
<1>6. NextHook(k) \in RunRow /\ NextHook(k).hook = 0 /\ NextHook(k).pc = "next"
    BY <1>2 DEF NextHook, IdleRun, RunRow
<1>7. \A l \in JobKey : \/ run'[l] = run[l] /\ run[l].hook # o
                        \/ run'[l].hook = 0 /\ run'[l].pc = "next"
    BY <1>1, <1>2, <1>6 DEF HookInv, HooksTyped
<1>8. run' \in [JobKey -> RunRow]
    BY <1>1, <1>6 DEF HookInv, HooksTyped
<1> HIDE DEF o, row
<1>9. /\ row.from <= row.last /\ row.last <= feedSeq /\ row.last >= hook[o].last
      /\ \A s \in Seqs : row.from < s /\ s <= row.last /\ log[s] \notin Unwanted => s \in received[o]
    BY <1>2, <1>3, <1>5 DEF HookOK, Covered
<1>10. HookInv'
    BY <1>1, <1>2, <1>4, <1>5, <1>7, <1>8, <1>9, HookChange
<1>11. \A h \in Hook : hook'[h].last >= hook[h].last
    <2>1. \A h \in Hook : hook[h].last \in Nat
        BY DEF HookInv, HooksTyped, HookRow
    <2> QED BY <1>4, <1>9, <2>1 DEF HookInv, HooksTyped
<1> QED BY <1>10, <1>11

LEMMA HooksKeep ==
    ASSUME FeedInv, HookInv, [Next]_vars
    PROVE  HookInv'
<1>1. FeedStep
    BY FeedKeeps
<1>2. CASE Tick \/ Seen \/ Pull \/ UNCHANGED vars
    BY <1>1, <1>2, HooksUntouched DEF Tick, Seen, Pull, vars, hookVars
<1>3. ASSUME NEW w \in Writer, Begin(w) \/ Allocate(w) \/ Effects(w) \/ Commit(w) \/ Rollback(w)
      PROVE  HookInv'
    BY <1>1, <1>3, HooksUntouched DEF Begin, Allocate, Effects, Commit, Rollback
<1>4. ASSUME NEW h \in Hook, Register(h) \/ Toggle(h) \/ Delete(h) PROVE HookInv'
    BY <1>4, AdminKeeps
<1>5. ASSUME NEW k \in JobKey, BecomeDue(k) PROVE HookInv'
    BY <1>1, <1>5, HooksUntouched DEF BecomeDue
<1>6. ASSUME NEW k \in JobKey, Start(k) \/ Deliver(k) \/ RunLost(k) PROVE HookInv'
    BY <1>6, StartKeeps, AcceptKeeps, RefuseKeeps, CommitHookKeeps, RunLostKeeps DEF Deliver
<1> QED BY <1>2, <1>3, <1>4, <1>5, <1>6 DEF Next

LEMMA FeedAndHooks == Spec => [](FeedInv /\ HookInv)
BY InitFeed, InitHooks, FeedKeeps, HooksKeep, PTL DEF Spec

\* Sequence numbers follow commit order, without a gap, and no write in flight holds one that
\* is already behind a reader: writeChangeRows locks the team row until the commit.
THEOREM FeedIsCommitOrdered == Spec => []CommitOrdered
<1>1. FeedInv => CommitOrdered
    BY DEF FeedInv, FeedTyped, NextHeld, CommitOrdered
<1> QED BY <1>1, FeedAndHooks, PTL

\* However many delivery runs, deaths of workers, refusals and administrative acts interleave,
\* a webhook's cursor passes no event its receiver has not accepted.
THEOREM NoEventSkipped == Spec => []NothingSkipped
<1>1. FeedInv /\ HookInv => NothingSkipped
    BY DEF HookInv, HookOK, Covered, NothingSkipped, Events
<1> QED BY <1>1, FeedAndHooks, PTL

\* The advisory lock of a webhook and the re-read under it keep its cursor from moving back.
THEOREM WebhookCursorAdvances == Spec => CursorAdvances
<1>1. FeedInv /\ HookInv /\ [Next]_vars => [\A h \in Hook : hook'[h].last >= hook[h].last]_hook
    <2> SUFFICES ASSUME FeedInv, HookInv, [Next]_vars, hook' # hook
                 PROVE  \A h \in Hook : hook'[h].last >= hook[h].last
        OBVIOUS
    <2>0. \A h \in Hook : hook[h] \in HookRow /\ hook[h].last \in Nat
        BY DEF HookInv, HooksTyped, HookRow
    <2>1. ASSUME NEW o \in Hook, Register(o) PROVE \A h \in Hook : hook'[h].last >= hook[h].last
        <3>1. hook[o].last <= feedSeq /\ feedSeq \in Nat
            BY DEF HookInv, HookOK, FeedInv, FeedTyped
        <3> QED BY <2>0, <2>1, <3>1 DEF Register, HookInv, HooksTyped
    <2>2. ASSUME NEW o \in Hook, Toggle(o) \/ Delete(o) PROVE \A h \in Hook : hook'[h].last >= hook[h].last
        <3>1. \A h \in Hook : hook'[h].last = hook[h].last
            BY <2>0, <2>2 DEF Toggle, Delete, HookInv, HooksTyped, HookRow
        <3> QED BY <2>0, <3>1
    <2>3. ASSUME NEW k \in JobKey, Refuse(k) PROVE \A h \in Hook : hook'[h].last >= hook[h].last
        <3>1. \A h \in Hook : hook'[h].last = hook[h].last
            BY <2>0, <2>3 DEF Refuse, HookInv, HooksTyped, HookRow
        <3> QED BY <2>0, <3>1
    <2>4. ASSUME NEW k \in JobKey, CommitHook(k) PROVE \A h \in Hook : hook'[h].last >= hook[h].last
        BY <2>4, CommitHookKeeps
    <2> QED BY <2>1, <2>2, <2>3, <2>4
        DEF Next, vars, hookVars, Tick, Seen, Pull, Begin, Allocate, Effects, Commit, Rollback, BecomeDue,
            Start, Deliver, Done, OpenHook, NoRows, Accept, RunLost
<1> QED BY <1>1, FeedAndHooks, PTL DEF Spec, CursorAdvances

-----------------------------------------------------------------------------
(* The pull consumer.                                                      *)

PullInv == /\ cursor \in Nat /\ cursor <= feedSeq
           /\ pulled \in [Seqs -> Nat]
           /\ PulledOnce

LEMMA InitPull == Init => PullInv
<1>1. \A s \in Seqs : s \in Nat /\ ~(s <= 0)
    BY FeedAssumption, FS_CardinalityType DEF Seqs, FeedAssumption
<1> QED BY <1>1 DEF Init, PullInv, PulledOnce

\* A page returns exactly the wanted rows up to its next_cursor, which is a row it scanned or
\* the head of the feed.
LEMMA PageIsPrefix ==
    ASSUME NEW avail, avail \subseteq Seqs, NEW head \in Nat, \A s \in avail : s <= head
    PROVE  LET rel == Events(Least(ScanBudget, avail))
           IN avail # {} =>
                /\ NextCursor(rel, avail, head) \in avail \cup {head}
                /\ \A s \in avail : s \in Least(PageLimit, rel)
                                    <=> s <= NextCursor(rel, avail, head) /\ log[s] \notin Unwanted
<1> DEFINE scan == Least(ScanBudget, avail)
           rel == Events(scan)
           page == Least(PageLimit, rel)
           n == NextCursor(rel, avail, head)
<1> SUFFICES ASSUME avail # {}
             PROVE  /\ n \in avail \cup {head}
                    /\ \A s \in avail : s \in page <=> s <= n /\ log[s] \notin Unwanted
    OBVIOUS
<1>1. /\ ScanBudget \in Nat \ {0} /\ PageLimit \in Nat \ {0}
      /\ \A s \in Seqs : s \in Nat
    BY FeedAssumption, SeqsFinite DEF FeedAssumption
<1>2. avail \in SUBSET Nat /\ IsFiniteSet(avail)
    BY <1>1, SeqsFinite, FS_Subset
<1>3. scan \subseteq avail /\ scan # {}
    BY <1>1, <1>2, LeastSubset, LeastNonempty
<1>4. \A s \in avail, t \in scan : s <= t => s \in scan
    BY <1>1, <1>2, LeastDown
<1>5. rel \subseteq scan /\ \A s \in avail : s \in rel <=> s \in scan /\ log[s] \notin Unwanted
    BY <1>3 DEF Events
<1>6. rel \in SUBSET Nat /\ IsFiniteSet(rel) /\ scan \in SUBSET Nat
    BY <1>2, <1>3, <1>5, FS_Subset
<1>7. page \subseteq rel
    BY LeastSubset
<1>8. \A s \in rel, t \in page : s <= t => s \in page
    BY <1>1, <1>6, LeastDown
<1>9. CASE Cardinality(rel) > PageLimit
    <2>1. n = Top(page)
        BY <1>9 DEF NextCursor
    <2>2. page # {}
        <3>1. rel # {}
            BY <1>1, <1>9, FS_EmptySet
        <3> QED BY <1>1, <1>6, <3>1, LeastNonempty
    <2>3. page \in SUBSET Nat /\ \A s \in page : s <= head
        BY <1>3, <1>5, <1>6, <1>7
    <2> HIDE DEF n, page, rel, scan
    <2>4. n \in page /\ \A s \in page : s <= n
        BY <2>1, <2>2, <2>3, TopIsTop
    <2>5. n \in rel /\ n \in scan /\ n \in avail
        BY <1>3, <1>5, <1>7, <2>4
    <2>6. ASSUME NEW s \in avail PROVE s \in page <=> s <= n /\ log[s] \notin Unwanted
        BY <1>4, <1>5, <1>7, <1>8, <2>4, <2>5
    <2> QED BY <2>5, <2>6
<1>10. CASE ~(Cardinality(rel) > PageLimit)
    <2>1. page = rel
        <3>1. Cardinality(rel) <= PageLimit
            BY <1>1, <1>6, <1>10, FS_CardinalityType
        <3> HIDE DEF rel
        <3> QED BY <1>1, <1>6, <3>1, LeastAll
    <2>2. CASE Cardinality(avail) < ScanBudget
        <3>1. n = head
            BY <1>10, <2>2 DEF NextCursor
        <3>2. scan = avail
            <4>1. Cardinality(avail) <= ScanBudget
                BY <1>1, <1>2, <2>2, FS_CardinalityType
            <4> QED BY <1>1, <1>2, <4>1, LeastAll
        <3> HIDE DEF n, page, rel, scan
        <3> QED BY <1>5, <2>1, <3>1, <3>2
    <2>3. CASE ~(Cardinality(avail) < ScanBudget)
        <3>1. n = Top(scan)
            BY <1>10, <2>3 DEF NextCursor
        <3> HIDE DEF n, page, rel, scan
        <3>2. \A s \in scan : s <= head
            BY <1>3
        <3>3. n \in scan /\ \A s \in scan : s <= n
            BY <1>3, <1>6, <3>1, <3>2, TopIsTop
        <3>4. ASSUME NEW s \in avail PROVE s \in page <=> s <= n /\ log[s] \notin Unwanted
            BY <1>3, <1>4, <1>5, <2>1, <3>3
        <3> QED BY <1>3, <3>3, <3>4
    <2> QED BY <2>2, <2>3
<1> QED BY <1>9, <1>10

LEMMA PullKeeps ==
    ASSUME FeedInv, PullInv, Pull
    PROVE  PullInv'
<1>1. PICK head \in cursor .. feedSeq :
        LET avail == {s \in Seqs : log[s] # None /\ cursor < s /\ s <= head}
            rel == Events(Least(ScanBudget, avail))
        IN /\ avail # {}
           /\ pulled' = [s \in Seqs |-> pulled[s] + IF s \in Least(PageLimit, rel) THEN 1 ELSE 0]
           /\ cursor' = NextCursor(rel, avail, head)
           /\ UNCHANGED <<bucket, feedVars, tx, job, run, hookVars, fresh>>
    BY DEF Pull
<1> DEFINE avail == {s \in Seqs : log[s] # None /\ cursor < s /\ s <= head}
           rel == Events(Least(ScanBudget, avail))
           page == Least(PageLimit, rel)
<1>2. /\ head \in Nat /\ head <= feedSeq /\ cursor <= head /\ cursor \in Nat /\ feedSeq \in Nat
      /\ \A s \in Seqs : s \in Nat
      /\ \A s \in Seqs : log[s] # None <=> s <= feedSeq
      /\ UNCHANGED <<feedSeq, log>>
    BY <1>1, SeqsFinite DEF PullInv, FeedInv, FeedTyped, NextHeld, feedVars
<1>3. /\ avail \subseteq Seqs /\ \A s \in avail : s <= head /\ cursor < s
      /\ \A s \in Seqs : cursor < s /\ s <= head => s \in avail
    BY <1>2
<1>4. /\ pulled' = [s \in Seqs |-> pulled[s] + IF s \in page THEN 1 ELSE 0]
      /\ cursor' = NextCursor(rel, avail, head)
      /\ avail # {}
    BY <1>1
<1>5. page \subseteq avail
    BY LeastSubset DEF Events
<1> HIDE DEF avail
<1>6. /\ cursor' \in avail \cup {head}
      /\ \A s \in avail : s \in page <=> s <= cursor' /\ log[s] \notin Unwanted
    BY <1>2, <1>3, <1>4, PageIsPrefix
<1> HIDE DEF page, rel
<1>7. cursor' \in Nat /\ cursor <= cursor' /\ cursor' <= head /\ cursor' <= feedSeq
    <2>1. \A s \in avail : s \in Nat /\ cursor <= s /\ s <= head /\ s <= feedSeq
        BY <1>2, <1>3
    <2> QED BY <1>2, <1>6, <2>1
<1>8. pulled' \in [Seqs -> Nat]
    BY <1>4 DEF PullInv
<1>9. ASSUME NEW s \in Seqs
      PROVE  pulled'[s] = IF s <= cursor' /\ log[s] # None /\ log[s] \notin Unwanted THEN 1 ELSE 0
    <2>0. /\ pulled[s] \in Nat
          /\ pulled[s] = IF s <= cursor /\ log[s] # None /\ log[s] \notin Unwanted THEN 1 ELSE 0
          /\ pulled'[s] = pulled[s] + IF s \in page THEN 1 ELSE 0
          /\ s \in Nat
        BY <1>2, <1>4 DEF PullInv, PulledOnce
    <2>1. CASE s <= cursor
        <3>1. s \notin page
            BY <1>2, <1>3, <1>5, <2>0, <2>1
        <3>2. s <= cursor'
            BY <1>2, <1>7, <2>0, <2>1
        <3> QED BY <2>0, <2>1, <3>1, <3>2
    <2>2. CASE cursor < s /\ s <= head
        <3>1. s \in avail /\ log[s] # None /\ ~(s <= cursor)
            BY <1>2, <1>3, <2>0, <2>2
        <3>2. s \in page <=> s <= cursor' /\ log[s] \notin Unwanted
            BY <1>6, <3>1
        <3> QED BY <2>0, <3>1, <3>2
    <2>3. CASE head < s
        <3>1. s \notin page /\ ~(s <= cursor) /\ ~(s <= cursor')
            BY <1>2, <1>3, <1>5, <1>7, <2>0, <2>3
        <3> QED BY <2>0, <3>1
    <2> QED BY <1>2, <2>0, <2>1, <2>2, <2>3
<1> QED BY <1>2, <1>7, <1>8, <1>9 DEF PullInv, PulledOnce

LEMMA PullsKeep ==
    ASSUME FeedInv, PullInv, [Next]_vars
    PROVE  PullInv'
<1>1. CASE Pull
    BY <1>1, PullKeeps
<1>2. ASSUME UNCHANGED pullVars PROVE PullInv'
    <2>1. /\ FeedStep /\ cursor \in Nat /\ feedSeq \in Nat /\ \A s \in Seqs : s \in Nat
        BY FeedKeeps, SeqsFinite DEF PullInv, FeedInv, FeedTyped
    <2>2. CASE UNCHANGED feedVars
        BY <1>2, <2>2 DEF PullInv, PulledOnce, pullVars, feedVars
    <2>3. ASSUME NEW w \in Writer, Commit(w) PROVE PullInv'
        <3>1. feedSeq' = feedSeq + 1 /\ log' = [log EXCEPT ![feedSeq + 1] = w]
            BY <2>3, CommitFeed
        <3>2. \A s \in Seqs : s <= cursor => log'[s] = log[s]
            BY <2>1, <3>1 DEF PullInv, FeedInv, FeedTyped
        <3>3. PulledOnce'
            BY <1>2, <3>2 DEF PullInv, PulledOnce, pullVars
        <3> QED BY <1>2, <2>1, <3>1, <3>3 DEF PullInv, pullVars
    <2> QED BY <2>1, <2>2, <2>3 DEF FeedStep
<1>3. Pull \/ UNCHANGED pullVars
    BY DEF Next, vars, pullVars, Tick, Seen, Begin, Allocate, Effects, Commit, Rollback, Register, Toggle,
           Delete, BecomeDue, Start, Deliver, Done, OpenHook, NoRows, Accept, Refuse, CommitHook, RunLost
<1> QED BY <1>1, <1>2, <1>3

\* Paging through crm_changes_since with next_cursor loses and repeats no row, for any page
\* size and scan budget and whatever commits in between.
THEOREM EveryRowPulledOnce == Spec => []PulledOnce
<1>1. PullInv => PulledOnce
    BY DEF PullInv
<1> QED BY <1>1, FeedAndHooks, InitPull, PullsKeep, PTL DEF Spec
=============================================================================
