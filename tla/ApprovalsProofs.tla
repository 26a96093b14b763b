---------------------------- MODULE ApprovalsProofs ----------------------------
(***************************************************************************)
(* What holds of Approvals for every set of callers, tools and rules and   *)
(* any number of deliveries: an approval carries one execution, by a       *)
(* second person, a message delivered again does not run again, and no     *)
(* call does what the person it runs for may not.                          *)
(***************************************************************************)
EXTENDS Approvals, FiniteSetTheorems, TLAPS, WellFoundedInduction

LEMMA SmallestDelivery ==
    ASSUME NEW S \in SUBSET Delivery, S # {}
    PROVE  \E x \in S : \A y \in S : x <= y
<1>0. S \subseteq Nat
    BY ApprovalsAssumption DEF Delivery, ApprovalsAssumption
<1>1. PICK x \in S : \A y \in S : ~ (<<y, x>> \in OpToRel(<, Nat))
    BY <1>0, NatLessThanWellFounded, WFMin
<1>2. \A y \in S : ~ (y < x)
    BY <1>0, <1>1 DEF OpToRel
<1> QED BY <1>0, <1>2

-----------------------------------------------------------------------------
(* Types                                                                   *)

TypeOK ==
    /\ now \in Nat
    /\ calls \in [Delivery -> Call \cup {Ended, None}]
    /\ approvals \in [Delivery -> Approval \cup {None}]
    /\ seen \subseteq [id : Delivery, until : Nat]

Stages == {"verified", "asking", "placing", "challenged", "answering", "prepared", "executed"}

LEMMA CallsTyped ==
    ASSUME TypeOK, NEW d \in Delivery
    PROVE  /\ \A pc \in Stages : d \in In(pc) => calls[d] \in Call /\ calls[d].pc = pc
           /\ d \in Arrived \ In("refused") => calls[d] \in Call
           /\ calls[d] \in Call => d \in Arrived \ In("refused") /\ calls[d] # None
<1>1. calls[d] \in Call \cup {Ended, None}
    BY DEF TypeOK
<1>2. Ended.pc = "refused" /\ Ended \notin Call
    BY DEF Ended, Call
<1>3. calls[d] \in Call => calls[d] # None /\ calls[d].pc # "refused"
    BY ApprovalsAssumption DEF ApprovalsAssumption, Call
<1> QED BY <1>1, <1>2, <1>3 DEF In, Arrived, Stages

LEMMA AskedTyped ==
    ASSUME TypeOK
    PROVE  Asked = {r \in Delivery : approvals[r] \in Approval}
BY ApprovalsAssumption DEF TypeOK, Asked, ApprovalsAssumption

-----------------------------------------------------------------------------
(* The invariant.  A row belongs to the delivery that created it and was   *)
(* challenged with it; who was challenged, prepared or approved with a row *)
(* names one that exists.                                                  *)

IsCall(e, pcs) == calls[e] \in Call /\ calls[e].pc \in pcs
IsApproved(e) == IsCall(e, {"executed"}) /\ calls[e].answer # None
Own(r) == IsCall(r, {"challenged"}) /\ calls[r].row = r

CallOk(e) ==
    /\ IsCall(e, Stages \ {"verified"}) => calls[e].at \in Nat
    /\ IsCall(e, {"answering", "prepared"}) => calls[e].answer # None
    /\ IsCall(e, {"placing"}) => calls[e].row \in Delivery /\ (calls[e].row = e \/ Own(calls[e].row))
    /\ IsCall(e, {"challenged", "prepared"}) \/ IsApproved(e) => calls[e].row \in Delivery /\ Own(calls[e].row)
    /\ IsCall(e, Stages) /\ calls[e].answer # None => IsCall(calls[e].answer.to, {"challenged"})
    /\ IsApproved(e) => /\ approvals[calls[e].row].status = "consumed"
                        /\ calls[e].ctx.who # calls[e].asker
                        /\ Satisfies(calls[e].ctx.role, RequiredRole(ToolOf(calls[e].args)))

RowOk(r) ==
    /\ approvals[r] \in Approval <=> Own(r)
    /\ approvals[r] \in Approval => approvals[r].role = RequiredRole(ToolOf(approvals[r].args))

OncePerRow == \A d, e \in Delivery : IsApproved(d) /\ IsApproved(e) /\ d # e => calls[d].row # calls[e].row

ApprovalInv ==
    /\ TypeOK
    /\ \A e \in Delivery : CallOk(e) /\ RowOk(e)
    /\ OncePerRow

\* What is consumed stays so, and the row of a call that goes on is no other call's.
LEMMA OthersKeep ==
    ASSUME ApprovalInv, NEW d \in Delivery, NEW c, calls' = [calls EXCEPT ![d] = c],
           ~IsCall(d, {"challenged"}),
           \A r \in Delivery : approvals[r] \in Approval /\ approvals[r].status = "consumed"
                                   => approvals'[r].status = "consumed"
    PROVE  /\ \A r \in Delivery : IsCall(r, {"challenged"}) => IsCall(r, {"challenged"})'
           /\ \A r \in Delivery : Own(r) => Own(r)'
           /\ \A e \in Delivery \ {d} : CallOk(e)' /\ calls'[e] = calls[e] /\ (IsApproved(e)' <=> IsApproved(e))
           /\ calls'[d] = c
<1>1. \A e \in Delivery \ {d} : calls'[e] = calls[e]
    BY DEF ApprovalInv, TypeOK
<1>2. calls'[d] = c
    BY DEF ApprovalInv, TypeOK
<1>3. \A r \in Delivery : (IsCall(r, {"challenged"}) => IsCall(r, {"challenged"})') /\ (Own(r) => Own(r)')
    BY <1>1 DEF Own, IsCall
<1>4. ASSUME NEW e \in Delivery \ {d} PROVE CallOk(e)' /\ (IsApproved(e)' <=> IsApproved(e))
    <2>1. CallOk(e) /\ calls'[e] = calls[e] /\ (\A r \in Delivery : RowOk(r))
        BY <1>1 DEF ApprovalInv
    <2>2. \A pcs : IsCall(e, pcs)' <=> IsCall(e, pcs)
        BY <2>1 DEF IsCall
    <2>3. IsApproved(e)' <=> IsApproved(e)
        BY <2>1 DEF IsApproved, IsCall
    <2>4. IsCall(e, Stages) /\ calls[e].answer # None => calls[e].answer.to \in Delivery
        BY DEF IsCall, Call
    <2>5. (IsCall(e, {"placing"}) => calls[e].row \in Delivery /\ (calls[e].row = e \/ Own(calls[e].row)))'
        BY <2>1, <1>3 DEF CallOk, IsCall
    <2>6. (IsCall(e, {"challenged", "prepared"}) \/ IsApproved(e) => calls[e].row \in Delivery /\ Own(calls[e].row))'
        BY <2>1, <2>3, <1>3 DEF CallOk, IsCall
    <2>7. (IsCall(e, Stages) /\ calls[e].answer # None => IsCall(calls[e].answer.to, {"challenged"}))'
        BY <2>1, <2>4, <1>3 DEF CallOk, IsCall, Stages
    <2>8. IsApproved(e)' => /\ approvals'[calls'[e].row].status = "consumed"
                            /\ calls'[e].ctx.who # calls'[e].asker
                            /\ Satisfies(calls'[e].ctx.role, RequiredRole(ToolOf(calls'[e].args)))
        <3>1. IsApproved(e) => /\ calls[e].row \in Delivery /\ Own(calls[e].row)
                               /\ approvals[calls[e].row].status = "consumed"
                               /\ calls[e].ctx.who # calls[e].asker
                               /\ Satisfies(calls[e].ctx.role, RequiredRole(ToolOf(calls[e].args)))
            BY <2>1 DEF CallOk
        <3>2. IsApproved(e) => approvals[calls[e].row] \in Approval
            BY <2>1, <3>1 DEF RowOk
        <3> QED BY <2>1, <2>3, <3>1, <3>2
    <2>9. /\ (IsCall(e, Stages \ {"verified"}) => calls[e].at \in Nat)'
          /\ (IsCall(e, {"answering", "prepared"}) => calls[e].answer # None)'
        BY <2>1 DEF CallOk, IsCall
    <2> QED BY <2>3, <2>5, <2>6, <2>7, <2>8, <2>9 DEF CallOk
<1> QED BY <1>1, <1>2, <1>3, <1>4

\* A step of a call that neither runs with an approval nor places one.
LEMMA PlainStep ==
    ASSUME ApprovalInv, NEW d \in Delivery, NEW c \in Call \cup {Ended}, calls' = [calls EXCEPT ![d] = c],
           ~IsCall(d, {"challenged"}), TypeOK', CallOk(d)', ~IsApproved(d)', ~IsCall(d, {"challenged"})',
           \A r \in Delivery : /\ approvals'[r] \in Approval <=> approvals[r] \in Approval
                               /\ approvals[r] \in Approval =>
                                    /\ approvals'[r].args = approvals[r].args
                                    /\ approvals'[r].role = approvals[r].role
                                    /\ approvals[r].status = "consumed" => approvals'[r].status = "consumed"
    PROVE  ApprovalInv'
<1>1. /\ \A r \in Delivery : Own(r) => Own(r)'
      /\ \A e \in Delivery \ {d} : CallOk(e)' /\ calls'[e] = calls[e] /\ (IsApproved(e)' <=> IsApproved(e))
    BY OthersKeep
<1>2. ASSUME NEW r \in Delivery PROVE RowOk(r)'
    <2>1. Own(r)' <=> Own(r)
        <3>1. CASE r = d
            BY <3>1 DEF Own
        <3>2. CASE r # d
            BY <1>1, <3>2 DEF Own, IsCall
        <3> QED BY <3>1, <3>2
    <2>2. RowOk(r)
        BY DEF ApprovalInv
    <2> QED BY <2>1, <2>2 DEF RowOk
<1>3. OncePerRow'
    BY <1>1 DEF ApprovalInv, OncePerRow
<1> QED BY <1>1, <1>2, <1>3 DEF ApprovalInv

-----------------------------------------------------------------------------
(* The steps                                                               *)

LEMMA NotCalled ==
    ASSUME TypeOK, NEW d \in Delivery, d \notin Arrived \/ d \in In("refused")
    PROVE  \A pcs : ~IsCall(d, pcs)
BY CallsTyped DEF IsCall

LEMMA CalledAt ==
    ASSUME TypeOK, NEW pc \in Stages, NEW d \in In(pc)
    PROVE  d \in Delivery /\ calls[d] \in Call /\ calls[d].pc = pc
BY CallsTyped DEF In, Arrived

\* A call that is refused, and one that arrives or is admitted, changes no row.
LEMMA RefusedStep ==
    ASSUME ApprovalInv, NEW d \in Delivery, Refuse(d), ~IsCall(d, {"challenged"}),
           approvals' \in [Delivery -> Approval \cup {None}], seen' \subseteq [id : Delivery, until : Nat],
           now' = now,
           \A r \in Delivery : /\ approvals'[r] \in Approval <=> approvals[r] \in Approval
                               /\ approvals[r] \in Approval =>
                                    /\ approvals'[r].args = approvals[r].args
                                    /\ approvals'[r].role = approvals[r].role
                                    /\ approvals[r].status = "consumed" => approvals'[r].status = "consumed"
    PROVE  ApprovalInv'
<1>1. calls' = [calls EXCEPT ![d] = Ended] /\ Ended \notin Call
    BY DEF Refuse, Ended, Call
<1>2. calls'[d] = Ended /\ TypeOK'
    BY <1>1 DEF ApprovalInv, TypeOK
<1>3. \A pcs : ~IsCall(d, pcs)'
    BY <1>1, <1>2 DEF IsCall
<1>4. CallOk(d)' /\ ~IsApproved(d)'
    BY <1>3 DEF CallOk, IsApproved
<1> QED BY <1>1, <1>2, <1>3, <1>4, PlainStep

Admitted(e) == IsCall(e, Stages \ {"verified"})

\* What an admitted call does later changes neither its message nor what is remembered.
GoneOn(d) ==
    /\ UNCHANGED <<now, seen>> /\ Admitted(d)
    /\ \A e \in Delivery \ {d} : calls'[e] = calls[e]
    /\ \/ calls'[d] = Ended
       \/ /\ Admitted(d)' /\ calls'[d].id = calls[d].id /\ calls'[d].exp = calls[d].exp
          /\ calls'[d].args = calls[d].args /\ calls'[d].at = calls[d].at

LEMMA RefusedOn ==
    ASSUME ApprovalInv, NEW d \in Delivery, Refuse(d), Admitted(d), UNCHANGED <<now, seen>>
    PROVE  GoneOn(d)
<1>1. calls' = [calls EXCEPT ![d] = Ended] /\ DOMAIN calls = Delivery
    BY DEF Refuse, ApprovalInv, TypeOK
<1> QED BY <1>1 DEF GoneOn

LEMMA CarriedOn ==
    ASSUME ApprovalInv, NEW d \in Delivery, Admitted(d), UNCHANGED <<now, seen>>,
           NEW c \in Call, calls' = [calls EXCEPT ![d] = c], c.pc \in Stages \ {"verified"},
           c.id = calls[d].id, c.exp = calls[d].exp, c.args = calls[d].args, c.at = calls[d].at
    PROVE  GoneOn(d)
<1>1. DOMAIN calls = Delivery
    BY DEF ApprovalInv, TypeOK
<1>2. calls'[d] = c /\ \A e \in Delivery \ {d} : calls'[e] = calls[e]
    BY <1>1
<1>3. Admitted(d)'
    BY <1>2 DEF Admitted, IsCall
<1> QED BY <1>2, <1>3 DEF GoneOn

\* The message of a delivery is new or that of an earlier delivery.
MessageOf(c, d) ==
    \/ c.id = d /\ c.exp = now + Life
    \/ \E e \in Delivery : /\ calls[e] \in Call
                           /\ c.id = calls[e].id /\ c.exp = calls[e].exp /\ c.args = calls[e].args

\* The call a delivery starts, whether its message is new or was delivered before.
LEMMA ArrivedCall ==
    ASSUME ApprovalInv, NEW d \in Delivery, Arrive(d)
    PROVE  \E c \in Call \cup {Ended} :
              /\ calls' = [calls EXCEPT ![d] = c]
              /\ c \in Call => /\ c.pc = "verified" /\ MessageOf(c, d)
                               /\ c.answer # None => c.answer.to \in In("challenged")
<1>1. ASSUME NEW req \in Requests, NEW args \in Args, NEW answer \in Answers \cup {None},
             NEW ctx, ctx = Authenticate(req, ToolOf(args)),
             calls' = [calls EXCEPT ![d] =
                   IF ctx = Nobody THEN Ended ELSE
                   [pc |-> "verified", id |-> d, ctx |-> ctx, exp |-> now + Life, at |-> None,
                    args |-> IF answer = None THEN args ELSE calls[answer.to].args,
                    answer |-> answer, row |-> None, asker |-> None, due |-> None]]
      PROVE  \E c \in Call \cup {Ended} :
                /\ calls' = [calls EXCEPT ![d] = c]
                /\ c \in Call => /\ c.pc = "verified" /\ MessageOf(c, d)
                                 /\ c.answer # None => c.answer.to \in In("challenged")
    <2> DEFINE c == [pc |-> "verified", id |-> d, ctx |-> ctx, exp |-> now + Life, at |-> None,
                     args |-> IF answer = None THEN args ELSE calls[answer.to].args,
                     answer |-> answer, row |-> None, asker |-> None, due |-> None]
    <2>1. now + Life \in Nat
        BY ApprovalsAssumption DEF ApprovalsAssumption, ApprovalInv, TypeOK
    <2>2. ctx \in Contexts
        BY <1>1 DEF Contexts
    <2>3. answer # None => /\ answer \in [to : Delivery, yes : BOOLEAN] /\ answer.to \in In("challenged")
                           /\ calls[answer.to].args \in Args
        <3>1. \A e \in In("challenged") : e \in Delivery /\ calls[e].args \in Args
            BY CalledAt DEF ApprovalInv, Stages, Call
        <3> QED BY <3>1 DEF Answers
    <2>4. c \in Call
        BY <2>1, <2>2, <2>3 DEF Call
    <2>5. c.pc = "verified" /\ c.answer = answer /\ MessageOf(c, d)
        BY DEF MessageOf
    <2> HIDE DEF c
    <2>6. CASE ctx = Nobody
        <3>1. calls' = [calls EXCEPT ![d] = Ended] /\ Ended \notin Call
            BY <1>1, <2>6 DEF Ended, Call
        <3> QED BY <3>1
    <2>7. CASE ctx # Nobody
        <3>1. calls' = [calls EXCEPT ![d] = c]
            BY <1>1, <2>7 DEF c
        <3> QED BY <2>3, <2>4, <2>5, <3>1
    <2> QED BY <2>6, <2>7
<1>2. ASSUME NEW e \in Arrived \ In("refused"),
             calls' = [calls EXCEPT ![d] = [calls[e] EXCEPT !.pc = "verified", !.at = None, !.row = None,
                                                           !.asker = None, !.due = None]]
      PROVE  \E c \in Call \cup {Ended} :
                /\ calls' = [calls EXCEPT ![d] = c]
                /\ c \in Call => /\ c.pc = "verified" /\ MessageOf(c, d)
                                 /\ c.answer # None => c.answer.to \in In("challenged")
    <2> DEFINE c == [calls[e] EXCEPT !.pc = "verified", !.at = None, !.row = None, !.asker = None, !.due = None]
    <2>1. e \in Delivery /\ calls[e] \in Call
        BY CallsTyped DEF ApprovalInv, Arrived
    <2>2. c \in Call /\ c.pc = "verified" /\ c.answer = calls[e].answer /\ MessageOf(c, d)
        BY <2>1 DEF Call, MessageOf
    <2> HIDE DEF c
    <2>3. IsCall(e, Stages) /\ CallOk(e)
        BY <2>1 DEF IsCall, Call, Stages, ApprovalInv
    <2>4. c.answer # None => c.answer.to \in In("challenged")
        <3>1. c.answer # None => c.answer.to \in Delivery
            BY <2>2 DEF Call
        <3>2. c.answer # None => IsCall(c.answer.to, {"challenged"})
            BY <2>2, <2>3 DEF CallOk
        <3>3. c.answer # None => c.answer.to \in Arrived \ In("refused")
            BY <3>1, <3>2, CallsTyped DEF IsCall, ApprovalInv
        <3> QED BY <3>2, <3>3 DEF IsCall, In
    <2>5. calls' = [calls EXCEPT ![d] = c]
        BY <1>2 DEF c
    <2> QED BY <2>2, <2>4, <2>5
<1> QED BY <1>1, <1>2 DEF Arrive

LEMMA ArriveStep ==
    ASSUME ApprovalInv, NEW d \in Delivery, Arrive(d)
    PROVE  ApprovalInv'
<1>1. PICK c \in Call \cup {Ended} :
              /\ calls' = [calls EXCEPT ![d] = c]
              /\ c \in Call => c.pc = "verified" /\ (c.answer # None => c.answer.to \in In("challenged"))
    BY ArrivedCall
<1>2. UNCHANGED <<now, seen, approvals>> /\ d \notin Arrived
    BY DEF Arrive
<1>3. TypeOK' /\ calls'[d] = c
    BY <1>1, <1>2 DEF ApprovalInv, TypeOK
<1>4. \A pcs : ~IsCall(d, pcs)
    BY <1>2, NotCalled DEF ApprovalInv
<1>5. \A r \in Delivery : IsCall(r, {"challenged"}) => IsCall(r, {"challenged"})'
    BY <1>1, <1>2, <1>4, OthersKeep
<1>6. IsCall(d, Stages)' /\ c.answer # None => IsCall(c.answer.to, {"challenged"})'
    <2> SUFFICES ASSUME IsCall(d, Stages)', c.answer # None PROVE IsCall(c.answer.to, {"challenged"})'
        OBVIOUS
    <2>1. c.answer.to \in In("challenged")
        BY <1>1, <1>3 DEF IsCall
    <2>2. c.answer.to \in Delivery /\ IsCall(c.answer.to, {"challenged"})
        BY <2>1, CalledAt DEF IsCall, Stages, ApprovalInv
    <2> QED BY <1>5, <2>2
<1>7. CallOk(d)' /\ ~IsApproved(d)' /\ ~IsCall(d, {"challenged"})'
    BY <1>1, <1>3, <1>6 DEF CallOk, IsApproved, IsCall
<1> QED BY <1>1, <1>2, <1>3, <1>4, <1>7, PlainStep

LEMMA SeenTyped ==
    ASSUME TypeOK, NEW d \in Delivery, calls[d] \in Call
    PROVE  Remembered \subseteq [id : Delivery, until : Nat] /\ Consumed(d) \subseteq [id : Delivery, until : Nat]
<1>1. now + ReplayTtl \in Nat /\ calls[d].id \in Delivery
    BY ApprovalsAssumption DEF ApprovalsAssumption, TypeOK, Call
<1>2. Remembered \subseteq [id : Delivery, until : Nat]
    BY DEF Remembered, TypeOK
<1>3. [id |-> calls[d].id, until |-> now + ReplayTtl] \in [id : Delivery, until : Nat]
    BY <1>1
<1> QED BY <1>2, <1>3 DEF Consumed, TypeOK

\* The call after it was admitted, unless it was refused.
LEMMA AdmittedCall ==
    ASSUME ApprovalInv, NEW d \in Delivery, Admit(d), ~Refuse(d)
    PROVE  \E c \in Call :
              /\ calls' = [calls EXCEPT ![d] = c]
              /\ Unseen(d) /\ seen' = Consumed(d)
              /\ c.pc \in {"answering", "asking", "executed"} /\ c.at = now
              /\ c.id = calls[d].id /\ c.exp = calls[d].exp /\ c.args = calls[d].args
              /\ c.answer = calls[d].answer /\ (c.answer # None <=> c.pc = "answering")
<1>1. calls[d] \in Call /\ calls[d].pc = "verified"
    BY CalledAt DEF Admit, Stages, ApprovalInv
<1>2. PICK pc \in {"answering", "asking", "executed"} :
              /\ calls' = [calls EXCEPT ![d].pc = pc, ![d].at = now]
              /\ calls[d].answer # None <=> pc = "answering"
              /\ Unseen(d) /\ seen' = Consumed(d)
    BY DEF Admit
<1> DEFINE c == [calls[d] EXCEPT !.pc = pc, !.at = now]
<1>3. c \in Call
    BY <1>1, <1>2 DEF Call, ApprovalInv, TypeOK
<1>4. /\ c.pc = pc /\ c.at = now /\ c.answer = calls[d].answer
      /\ c.id = calls[d].id /\ c.exp = calls[d].exp /\ c.args = calls[d].args
    BY <1>1 DEF Call
<1>5. calls' = [calls EXCEPT ![d] = c]
    BY <1>2 DEF ApprovalInv, TypeOK
<1> QED BY <1>2, <1>3, <1>4, <1>5

LEMMA AdmitStep ==
    ASSUME ApprovalInv, NEW d \in Delivery, Admit(d)
    PROVE  ApprovalInv'
<1>1. calls[d] \in Call /\ calls[d].pc = "verified"
    BY CalledAt DEF Admit, Stages, ApprovalInv
<1>2. seen' \subseteq [id : Delivery, until : Nat] /\ UNCHANGED <<now, approvals>>
    BY <1>1, SeenTyped DEF Admit, ApprovalInv
<1>3. ~IsCall(d, {"challenged"})
    BY <1>1 DEF IsCall
<1>4. CASE Refuse(d)
    BY <1>2, <1>3, <1>4, RefusedStep DEF ApprovalInv, TypeOK
<1>5. CASE ~Refuse(d)
    <2>1. PICK c \in Call :
              /\ calls' = [calls EXCEPT ![d] = c]
              /\ c.pc \in {"answering", "asking", "executed"} /\ c.at = now
              /\ c.id = calls[d].id /\ c.exp = calls[d].exp /\ c.args = calls[d].args
              /\ c.answer = calls[d].answer /\ (c.answer # None <=> c.pc = "answering")
        BY <1>5, AdmittedCall
    <2>2. TypeOK' /\ calls'[d] = c
        BY <1>2, <2>1 DEF ApprovalInv, TypeOK
    <2>3. \A r \in Delivery : IsCall(r, {"challenged"}) => IsCall(r, {"challenged"})'
        BY <1>2, <1>3, <2>1, OthersKeep
    <2>4. c.answer # None => c.answer.to \in Delivery /\ IsCall(c.answer.to, {"challenged"})
        <3>1. CallOk(d) /\ IsCall(d, Stages)
            BY <1>1 DEF ApprovalInv, IsCall, Stages
        <3>2. c.answer # None => c.answer.to \in Delivery
            BY DEF Call
        <3> QED BY <2>1, <3>1, <3>2 DEF CallOk
    <2>5. CallOk(d)' /\ ~IsApproved(d)' /\ ~IsCall(d, {"challenged"})'
        <3>1. now \in Nat
            BY DEF ApprovalInv, TypeOK
        <3> QED BY <2>1, <2>2, <2>3, <2>4, <3>1 DEF CallOk, IsApproved, IsCall
    <2> QED BY <1>2, <1>3, <2>1, <2>2, <2>5, PlainStep
<1> QED BY <1>4, <1>5

\* The row a request finds, or its own number when there is none.
LEMMA FoundRow ==
    ASSUME TypeOK, NEW d \in Delivery, NEW found,
           found = IF Duplicates(d) = {} THEN d ELSE CHOOSE r \in Duplicates(d) : \A s \in Duplicates(d) : r <= s
    PROVE  found \in Delivery /\ (found = d \/ approvals[found] \in Approval)
<1>1. Duplicates(d) \subseteq Delivery /\ \A r \in Duplicates(d) : approvals[r] \in Approval
    BY AskedTyped DEF Duplicates, StillPending
<1>2. Duplicates(d) # {} => found \in Duplicates(d)
    BY <1>1, SmallestDelivery
<1> QED BY <1>1, <1>2

LEMMA FindStep ==
    ASSUME ApprovalInv, NEW d \in Delivery, FindDuplicate(d)
    PROVE  ApprovalInv' /\ GoneOn(d)
<1>1. calls[d] \in Call /\ calls[d].pc = "asking" /\ ~IsCall(d, {"challenged"}) /\ Admitted(d)
    BY CalledAt DEF FindDuplicate, Stages, ApprovalInv, IsCall, Admitted
<1>2. /\ Expire(calls[d].at) \in [Delivery -> Approval \cup {None}]
      /\ \A r \in Delivery : /\ Expire(calls[d].at)[r] \in Approval <=> approvals[r] \in Approval
                             /\ approvals[r] \in Approval =>
                                  /\ Expire(calls[d].at)[r].args = approvals[r].args
                                  /\ Expire(calls[d].at)[r].role = approvals[r].role
                                  /\ approvals[r].status = "consumed" => Expire(calls[d].at)[r].status = "consumed"
    <2>1. ASSUME NEW r \in Delivery
          PROVE  /\ Expire(calls[d].at)[r] \in Approval <=> approvals[r] \in Approval
                 /\ Expire(calls[d].at)[r] \in Approval \cup {None}
                 /\ approvals[r] \in Approval =>
                        /\ Expire(calls[d].at)[r].args = approvals[r].args
                        /\ Expire(calls[d].at)[r].role = approvals[r].role
                        /\ approvals[r].status = "consumed" => Expire(calls[d].at)[r].status = "consumed"
        <3>1. CASE r \in Asked /\ IsPending(r) /\ approvals[r].exp <= calls[d].at
            <4>1. Expire(calls[d].at)[r] = [approvals[r] EXCEPT !.status = "expired"]
                BY <3>1 DEF Expire
            <4>2. approvals[r] \in Approval /\ approvals[r].status = "pending"
                BY <3>1, AskedTyped DEF IsPending, ApprovalInv
            <4> QED BY <4>1, <4>2 DEF Approval
        <3>2. CASE ~(r \in Asked /\ IsPending(r) /\ approvals[r].exp <= calls[d].at)
            <4>1. Expire(calls[d].at)[r] = approvals[r]
                BY <3>2 DEF Expire
            <4> QED BY <4>1 DEF ApprovalInv, TypeOK
        <3> QED BY <3>1, <3>2
    <2> QED BY <2>1 DEF Expire
<1>3. CASE Refuse(d)
    <2>1. approvals' = approvals \/ approvals' = Expire(calls[d].at)
        BY DEF FindDuplicate
    <2>2. UNCHANGED <<now, seen>> /\ seen' \subseteq [id : Delivery, until : Nat]
        BY DEF FindDuplicate, ApprovalInv, TypeOK
    <2>3. CASE approvals' = approvals
        BY <1>1, <1>3, <2>2, <2>3, RefusedStep, RefusedOn DEF ApprovalInv, TypeOK
    <2>4. CASE approvals' = Expire(calls[d].at)
        BY <1>1, <1>2, <1>3, <2>2, <2>4, RefusedStep, RefusedOn
    <2> QED BY <2>1, <2>3, <2>4
<1>4. CASE ~Refuse(d)
    <2>1. PICK found :
            /\ found = IF Duplicates(d) = {} THEN d
                       ELSE CHOOSE r \in Duplicates(d) : \A s \in Duplicates(d) : r <= s
            /\ calls' = [calls EXCEPT ![d].pc = "placing", ![d].row = found]
            /\ approvals' = Expire(calls[d].at) /\ UNCHANGED <<now, seen>>
        BY <1>4 DEF FindDuplicate
    <2>2. found \in Delivery /\ (found = d \/ approvals[found] \in Approval)
        BY <2>1, FoundRow DEF ApprovalInv
    <2> DEFINE c == [calls[d] EXCEPT !.pc = "placing", !.row = found]
    <2>3. c \in Call /\ c.pc = "placing" /\ c.row = found /\ c.answer = calls[d].answer /\ c.at = calls[d].at
          /\ c.id = calls[d].id /\ c.exp = calls[d].exp /\ c.args = calls[d].args
        BY <1>1, <2>2 DEF Call
    <2>4. calls' = [calls EXCEPT ![d] = c]
        <3>1. calls' = [calls EXCEPT ![d].pc = "placing", ![d].row = found]
            BY <2>1
        <3>2. d \in DOMAIN calls
            BY DEF ApprovalInv, TypeOK
        <3> QED BY <3>1, <3>2
    <2> HIDE DEF c
    <2>5. TypeOK' /\ calls'[d] = c
        BY <1>2, <2>1, <2>3, <2>4 DEF ApprovalInv, TypeOK
    <2>6. /\ \A r \in Delivery : IsCall(r, {"challenged"}) => IsCall(r, {"challenged"})'
          /\ \A r \in Delivery : Own(r) => Own(r)'
        BY <1>1, <1>2, <2>1, <2>4, OthersKeep
    <2>7. c.answer # None => c.answer.to \in Delivery /\ IsCall(c.answer.to, {"challenged"})
        <3>1. CallOk(d) /\ IsCall(d, Stages)
            BY <1>1 DEF ApprovalInv, IsCall, Stages
        <3>2. c.answer # None => c.answer.to \in Delivery
            BY <2>3 DEF Call
        <3> QED BY <2>3, <3>1, <3>2 DEF CallOk
    <2>8. found = d \/ Own(found)'
        BY <2>2, <2>6 DEF ApprovalInv, RowOk
    <2>9. CallOk(d)' /\ ~IsApproved(d)' /\ ~IsCall(d, {"challenged"})'
        <3>1. calls[d].at \in Nat
            BY <1>1 DEF ApprovalInv, CallOk, IsCall, Stages
        <3> QED BY <3>1, <2>2, <2>3, <2>5, <2>6, <2>7, <2>8 DEF CallOk, IsApproved, IsCall
    <2>10. GoneOn(d)
        BY <1>1, <2>1, <2>3, <2>4, CarriedOn DEF Stages
    <2> QED BY <1>1, <1>2, <2>1, <2>3, <2>4, <2>5, <2>9, <2>10, PlainStep
<1> QED BY <1>3, <1>4

\* The row that is placed: a new one, or the found one with another requester and token.
LEMMA PlacedTyped ==
    ASSUME TypeOK, NEW d \in In("placing"), CallOk(d),
           calls[d].row = d \/ approvals[calls[d].row] \in Approval
    PROVE  /\ PlacedRow(d) \in Approval
           /\ PlacedRow(d).role = RequiredRole(ToolOf(calls[d].args)) /\ PlacedRow(d).args = calls[d].args
           /\ calls[d].row # d => PlacedRow(d).status = approvals[calls[d].row].status
<1>1. calls[d] \in Call /\ d \in Delivery
    BY CalledAt DEF Stages
<1> DEFINE new == [args |-> calls[d].args, requester |-> calls[d].ctx.who, role |-> RequiredRole(Tool(d)),
                   token |-> d, exp |-> calls[d].at + ApprovalTtl, status |-> "pending", resolver |-> None]
<1>2. calls[d].at + ApprovalTtl \in Nat
    <2>1. calls[d].at \in Nat
        BY <1>1, CalledAt DEF CallOk, IsCall, Stages
    <2> QED BY <2>1, ApprovalsAssumption DEF ApprovalsAssumption
<1>3. calls[d].args \in Args /\ calls[d].ctx.who \in People /\ RequiredRole(Tool(d)) \in {"owner", "admin"}
    BY <1>1 DEF Call, People, RequiredRole
<1>4. new \in Approval
    BY <1>1, <1>2, <1>3 DEF Approval
<1>5. new.role = RequiredRole(ToolOf(calls[d].args)) /\ new.args = calls[d].args
    BY DEF Tool
<1>6. CASE calls[d].row = d
    BY <1>4, <1>5, <1>6 DEF PlacedRow
<1>7. CASE calls[d].row # d
    <2> PICK old : old = approvals[calls[d].row]
        OBVIOUS
    <2>1. PlacedRow(d) = [new EXCEPT !.status = old.status, !.resolver = old.resolver]
        BY <1>7 DEF PlacedRow
    <2>2. old \in Approval
        BY <1>7
    <2> HIDE DEF new
    <2> QED BY <1>4, <1>5, <2>1, <2>2 DEF Approval
<1> QED BY <1>6, <1>7

LEMMA PlaceStep ==
    ASSUME ApprovalInv, NEW d \in Delivery, PlaceApproval(d)
    PROVE  ApprovalInv' /\ GoneOn(d)
<1>1. d \in In("placing") /\ calls[d] \in Call /\ calls[d].pc = "placing" /\ calls[d].at \in Nat
    <2>1. d \in In("placing") /\ calls[d] \in Call /\ calls[d].pc = "placing"
        BY CalledAt DEF PlaceApproval, Stages, ApprovalInv
    <2> QED BY <2>1 DEF ApprovalInv, CallOk, IsCall, Stages
<1> PICK row : row = calls[d].row
    OBVIOUS
<1>2. row \in Delivery /\ (row = d \/ Own(row)) /\ (row # d => approvals[row] \in Approval)
    <2>1. CallOk(d) /\ IsCall(d, {"placing"})
        BY <1>1 DEF ApprovalInv, IsCall
    <2> QED BY <2>1 DEF CallOk, ApprovalInv, RowOk
<1> PICK a, due : a = PlacedRow(d) /\ due = calls[d].at + ApprovalTtl
    OBVIOUS
<1>3. /\ a \in Approval /\ a.role = RequiredRole(ToolOf(a.args))
      /\ row # d => a.status = approvals[row].status
    BY <1>1, <1>2, PlacedTyped DEF ApprovalInv
<1>4. due \in Nat
    BY <1>1, ApprovalsAssumption DEF ApprovalsAssumption
<1>5. /\ approvals' = [approvals EXCEPT ![row] = a]
      /\ calls' = [calls EXCEPT ![d].pc = "challenged", ![d].due = due]
      /\ UNCHANGED <<now, seen>>
    BY DEF PlaceApproval
<1> DEFINE c == [calls[d] EXCEPT !.pc = "challenged", !.due = due]
<1>6. c \in Call /\ c.pc = "challenged" /\ c.row = row /\ c.answer = calls[d].answer /\ c.at = calls[d].at
      /\ c.id = calls[d].id /\ c.exp = calls[d].exp /\ c.args = calls[d].args
    BY <1>1, <1>4 DEF Call
<1>7. calls' = [calls EXCEPT ![d] = c]
    <2>1. d \in DOMAIN calls
        BY DEF ApprovalInv, TypeOK
    <2> QED BY <1>5, <2>1
<1> HIDE DEF c
<1>8. TypeOK' /\ calls'[d] = c
    BY <1>2, <1>3, <1>5, <1>6, <1>7 DEF ApprovalInv, TypeOK
<1>9. approvals'[row] = a /\ \A r \in Delivery \ {row} : approvals'[r] = approvals[r]
    BY <1>2, <1>5 DEF ApprovalInv, TypeOK
<1>10. ~Own(d) /\ ~IsCall(d, {"challenged"}) /\ approvals[d] \notin Approval /\ Own(row)'
    <2>1. ~Own(d) /\ ~IsCall(d, {"challenged"})
        BY <1>1 DEF Own, IsCall
    <2>2. approvals[d] \notin Approval
        BY <2>1 DEF ApprovalInv, RowOk
    <2>3. ASSUME row = d PROVE Own(row)'
        BY <1>6, <1>8, <2>3 DEF Own, IsCall
    <2>4. ASSUME row # d PROVE Own(row)'
        <3>1. calls'[row] = calls[row]
            BY <1>2, <1>7, <2>4 DEF ApprovalInv, TypeOK
        <3> QED BY <1>2, <2>4, <3>1 DEF Own, IsCall
    <2> QED BY <2>1, <2>2, <2>3, <2>4
<1>11. \A r \in Delivery : approvals[r] \in Approval /\ approvals[r].status = "consumed"
                               => approvals'[r].status = "consumed"
    BY <1>2, <1>3, <1>9, <1>10
<1>12. /\ \A r \in Delivery : IsCall(r, {"challenged"}) => IsCall(r, {"challenged"})'
       /\ \A r \in Delivery : Own(r) => Own(r)'
       /\ \A e \in Delivery \ {d} : CallOk(e)' /\ calls'[e] = calls[e] /\ (IsApproved(e)' <=> IsApproved(e))
    BY <1>7, <1>10, <1>11, OthersKeep
<1>13. CallOk(d)' /\ ~IsApproved(d)'
    <2>1. c.answer # None => c.answer.to \in Delivery /\ IsCall(c.answer.to, {"challenged"})
        <3>1. CallOk(d) /\ IsCall(d, Stages)
            BY <1>1 DEF ApprovalInv, IsCall, Stages
        <3>2. c.answer # None => c.answer.to \in Delivery
            BY <1>6 DEF Call
        <3> QED BY <1>6, <3>1, <3>2 DEF CallOk
    <2> QED BY <1>1, <1>2, <1>6, <1>8, <1>10, <1>12, <2>1 DEF CallOk, IsApproved, IsCall
<1>14. ASSUME NEW r \in Delivery PROVE RowOk(r)'
    <2>1. CASE r = row
        <3>1. approvals'[r] = a /\ Own(r)'
            BY <1>9, <1>10, <2>1
        <3> QED BY <1>3, <3>1 DEF RowOk
    <2>2. CASE r # row
        <3>1. approvals'[r] = approvals[r] /\ RowOk(r)
            BY <1>9, <2>2 DEF ApprovalInv
        <3>2. Own(r)' <=> Own(r)
            <4>1. CASE r = d
                <5>1. c.row # r
                    BY <1>6, <2>2
                <5> QED BY <1>8, <1>10, <4>1, <5>1 DEF Own
            <4>2. CASE r # d
                BY <1>12, <4>2 DEF Own, IsCall
            <4> QED BY <4>1, <4>2
        <3> QED BY <3>1, <3>2 DEF RowOk
    <2> QED BY <2>1, <2>2
<1>15. OncePerRow'
    BY <1>12, <1>13 DEF ApprovalInv, OncePerRow
<1>16. GoneOn(d)
    BY <1>1, <1>5, <1>6, <1>7, CarriedOn DEF Admitted, IsCall, Stages
<1> QED BY <1>8, <1>12, <1>13, <1>14, <1>15, <1>16 DEF ApprovalInv

\* Only a call that answers names a challenge, and the row of the challenge exists.
LEMMA ChallengeRow ==
    ASSUME ApprovalInv, NEW d \in In("answering"), calls[d].answer # None
    PROVE  Challenge(d).row \in Delivery /\ Own(Challenge(d).row) /\ approvals[Challenge(d).row] \in Approval
<1>1. calls[d] \in Call /\ IsCall(d, Stages) /\ d \in Delivery
    BY CalledAt DEF ApprovalInv, Stages, IsCall
<1> PICK e : e = calls[d].answer.to
    OBVIOUS
<1>2. e \in Delivery
    BY <1>1 DEF Call
<1>3. IsCall(e, {"challenged"})
    BY <1>1 DEF ApprovalInv, CallOk
<1>4. CallOk(e) /\ IsCall(e, {"challenged", "prepared"})
    BY <1>2, <1>3 DEF ApprovalInv, IsCall
<1>5. calls[e].row \in Delivery /\ Own(calls[e].row)
    BY <1>4 DEF CallOk
<1> QED BY <1>5 DEF Challenge, ApprovalInv, RowOk

LEMMA RejectStep ==
    ASSUME ApprovalInv, NEW d \in Delivery, RejectApproval(d)
    PROVE  ApprovalInv' /\ GoneOn(d)
<1>1. d \in In("answering") /\ calls[d] \in Call /\ ~IsCall(d, {"challenged"}) /\ Admitted(d)
    BY CalledAt DEF RejectApproval, Stages, ApprovalInv, IsCall, Admitted
<1>2. Refuse(d) /\ UNCHANGED <<now, seen>> /\ seen' \subseteq [id : Delivery, until : Nat]
    BY DEF RejectApproval, ApprovalInv, TypeOK
<1>0. GoneOn(d)
    BY <1>1, <1>2, RefusedOn
<1> PICK r : r = Challenge(d).row
    OBVIOUS
<1>3. CASE approvals' = approvals
    BY <1>0, <1>1, <1>2, <1>3, RefusedStep DEF ApprovalInv, TypeOK
<1>4. CASE Decidable(d, r) /\ approvals' = Resolved(d, r, "rejected")
    <2> PICK a, who : a = approvals[r] /\ who = calls[d].ctx.who
        OBVIOUS
    <2>1. who \in People
        BY <1>1 DEF People, Call
    <2>2. a.status = "pending"
        BY <1>4 DEF Decidable
    <2>3. DOMAIN approvals = Delivery
        BY DEF ApprovalInv, TypeOK
    <2>4. CASE r \in Delivery /\ a \in Approval
        <3> PICK b : b = [a EXCEPT !.status = "rejected", !.resolver = who]
            OBVIOUS
        <3>1. b \in Approval /\ b.args = a.args /\ b.role = a.role
            BY <2>1, <2>4 DEF Approval
        <3>2. approvals' = [approvals EXCEPT ![r] = b]
            BY <1>4, <2>3 DEF Resolved
        <3>3. approvals' \in [Delivery -> Approval \cup {None}]
            BY <3>1, <3>2 DEF ApprovalInv, TypeOK
        <3>4. approvals'[r] = b /\ \A q \in Delivery \ {r} : approvals'[q] = approvals[q]
            BY <2>3, <2>4, <3>2
        <3> QED BY <1>0, <1>1, <1>2, <2>2, <2>4, <3>1, <3>3, <3>4, RefusedStep
    <2>5. calls[d].answer # None
        <3>1. IsCall(d, {"answering", "prepared"})
            BY <1>1 DEF IsCall, In
        <3> QED BY <3>1 DEF ApprovalInv, CallOk
    <2> QED BY <1>1, <2>4, <2>5, ChallengeRow
<1> QED BY <1>3, <1>4 DEF RejectApproval

LEMMA PrepareStep ==
    ASSUME ApprovalInv, NEW d \in Delivery, Prepare(d) \/ Abort(d)
    PROVE  ApprovalInv' /\ GoneOn(d)
<1>1. calls[d] \in Call /\ calls[d].pc \in {"answering", "prepared"} /\ ~IsCall(d, {"challenged"}) /\ Admitted(d)
    BY CalledAt DEF Prepare, Abort, Stages, ApprovalInv, IsCall, Admitted
<1>2. UNCHANGED <<now, seen, approvals>>
    BY DEF Prepare, Abort
<1>3. CASE Refuse(d)
    BY <1>1, <1>2, <1>3, RefusedStep, RefusedOn DEF ApprovalInv, TypeOK
<1>4. CASE ~Refuse(d)
    <2>1. PICK r, args : /\ r = Challenge(d).row /\ args = approvals[r].args
                         /\ calls' = [calls EXCEPT ![d].pc = "prepared", ![d].row = r, ![d].args = args]
                         /\ Decidable(d, r) /\ d \in In("answering")
        BY <1>4 DEF Prepare, Abort, MayPrepare
    <2>2. args = calls[d].args
        BY <2>1 DEF Decidable
    <2>3. IsCall(d, {"answering", "prepared"}) /\ IsCall(d, Stages) /\ CallOk(d)
        BY <1>1 DEF IsCall, Stages, ApprovalInv
    <2>4. calls[d].answer # None /\ calls[d].at \in Nat
        BY <1>1, <2>3 DEF CallOk, IsCall, Stages
    <2>5. r \in Delivery /\ Own(r)
        BY <2>1, <2>4, ChallengeRow
    <2> DEFINE c == [calls[d] EXCEPT !.pc = "prepared", !.row = r, !.args = args]
    <2>6. c \in Call /\ c.pc = "prepared" /\ c.row = r /\ c.answer = calls[d].answer /\ c.at = calls[d].at
          /\ c.id = calls[d].id /\ c.exp = calls[d].exp /\ c.args = calls[d].args
        BY <1>1, <2>2, <2>5 DEF Call
    <2>7. calls' = [calls EXCEPT ![d] = c]
        <3>1. calls' = [calls EXCEPT ![d].pc = "prepared", ![d].row = r, ![d].args = args]
            BY <2>1
        <3>2. d \in DOMAIN calls
            BY DEF ApprovalInv, TypeOK
        <3> QED BY <3>1, <3>2
    <2> HIDE DEF c
    <2>8. TypeOK' /\ calls'[d] = c
        BY <1>2, <2>6, <2>7 DEF ApprovalInv, TypeOK
    <2>9. /\ \A q \in Delivery : IsCall(q, {"challenged"}) => IsCall(q, {"challenged"})'
          /\ \A q \in Delivery : Own(q) => Own(q)'
        BY <1>1, <1>2, <2>7, OthersKeep
    <2>10. c.answer.to \in Delivery /\ IsCall(c.answer.to, {"challenged"})
        <3>1. c.answer.to \in Delivery
            BY <2>4, <2>6 DEF Call
        <3> QED BY <2>3, <2>4, <2>6, <3>1 DEF CallOk
    <2>11. CallOk(d)' /\ ~IsApproved(d)' /\ ~IsCall(d, {"challenged"})'
        BY <2>4, <2>5, <2>6, <2>8, <2>9, <2>10 DEF CallOk, IsApproved, IsCall
    <2>12. GoneOn(d)
        BY <1>1, <1>2, <2>6, <2>7, CarriedOn DEF Stages
    <2> QED BY <1>1, <1>2, <2>6, <2>7, <2>8, <2>11, <2>12, PlainStep
<1> QED BY <1>3, <1>4

\* The step that consumes the row: it was pending, so nobody has run with it.
LEMMA ExecuteStep ==
    ASSUME ApprovalInv, NEW d \in Delivery, Execute(d)
    PROVE  ApprovalInv' /\ GoneOn(d)
<1>1. calls[d] \in Call /\ calls[d].pc = "prepared" /\ ~IsCall(d, {"challenged"}) /\ ~IsApproved(d)
    BY CalledAt DEF Execute, Stages, ApprovalInv, IsCall, IsApproved
<1>2. IsCall(d, {"challenged", "prepared"}) /\ IsCall(d, {"answering", "prepared"}) /\ IsCall(d, Stages) /\ CallOk(d)
    BY <1>1 DEF IsCall, Stages, ApprovalInv
<1> PICK r, a, who : r = calls[d].row /\ a = approvals[r] /\ who = calls[d].ctx.who
    OBVIOUS
<1>3. r \in Delivery /\ Own(r) /\ calls[d].answer # None /\ calls[d].at \in Nat
    BY <1>1, <1>2 DEF CallOk, IsCall, Stages
<1>4. a \in Approval /\ a.role = RequiredRole(ToolOf(a.args))
    BY <1>3 DEF ApprovalInv, RowOk
<1>5. /\ Decidable(d, r) /\ UNCHANGED <<now, seen>>
      /\ approvals' = [approvals EXCEPT ![r].status = "consumed", ![r].resolver = who]
      /\ calls' = [calls EXCEPT ![d].pc = "executed", ![d].asker = a.requester]
    BY DEF Execute, Resolved
<1>6. /\ a.status = "pending" /\ a.requester # who /\ a.args = calls[d].args
      /\ Satisfies(calls[d].ctx.role, RequiredRole(ToolOf(calls[d].args)))
    BY <1>4, <1>5 DEF Decidable
<1>7. who \in People /\ a.requester \in People
    BY <1>1, <1>4 DEF People, Call, Approval
<1> DEFINE c == [calls[d] EXCEPT !.pc = "executed", !.asker = a.requester]
           b == [a EXCEPT !.status = "consumed", !.resolver = who]
<1>8. /\ c \in Call /\ c.pc = "executed" /\ c.row = r /\ c.answer = calls[d].answer /\ c.at = calls[d].at
      /\ c.asker = a.requester /\ c.ctx = calls[d].ctx /\ c.args = calls[d].args
      /\ c.id = calls[d].id /\ c.exp = calls[d].exp
    BY <1>1, <1>7 DEF Call
<1>9. b \in Approval /\ b.status = "consumed" /\ b.role = a.role /\ b.args = a.args
    BY <1>4, <1>7 DEF Approval
<1>10. calls' = [calls EXCEPT ![d] = c]
    <2>1. d \in DOMAIN calls
        BY DEF ApprovalInv, TypeOK
    <2> QED BY <1>5, <2>1
<1>11. approvals' = [approvals EXCEPT ![r] = b]
    <2>1. r \in DOMAIN approvals
        BY <1>3 DEF ApprovalInv, TypeOK
    <2> QED BY <1>5, <2>1
<1> HIDE DEF c, b
<1>12. TypeOK' /\ calls'[d] = c
    <2>1. calls' \in [Delivery -> Call \cup {Ended, None}] /\ calls'[d] = c
        BY <1>8, <1>10 DEF ApprovalInv, TypeOK
    <2>2. approvals' \in [Delivery -> Approval \cup {None}]
        BY <1>3, <1>9, <1>11 DEF ApprovalInv, TypeOK
    <2> QED BY <1>5, <2>1, <2>2 DEF ApprovalInv, TypeOK
<1>13. approvals'[r] = b /\ \A q \in Delivery \ {r} : approvals'[q] = approvals[q]
    BY <1>3, <1>11 DEF ApprovalInv, TypeOK
<1>14. /\ \A q \in Delivery : IsCall(q, {"challenged"}) => IsCall(q, {"challenged"})'
       /\ \A q \in Delivery : Own(q) => Own(q)'
       /\ \A e \in Delivery \ {d} : CallOk(e)' /\ calls'[e] = calls[e] /\ (IsApproved(e)' <=> IsApproved(e))
    <2>1. \A q \in Delivery : approvals[q] \in Approval /\ approvals[q].status = "consumed"
                                  => approvals'[q].status = "consumed"
        BY <1>9, <1>13
    <2> QED BY <1>1, <1>10, <2>1, OthersKeep
<1>15. c.answer.to \in Delivery /\ IsCall(c.answer.to, {"challenged"})
    <2>1. c.answer.to \in Delivery
        BY <1>3, <1>8 DEF Call
    <2> QED BY <1>2, <1>3, <1>8, <2>1 DEF CallOk
<1>16. CallOk(d)'
    <2>1. approvals'[r].status = "consumed"
        BY <1>9, <1>13
    <2> QED BY <1>3, <1>6, <1>8, <1>12, <1>14, <1>15, <2>1 DEF CallOk, IsApproved, IsCall
<1>17. ASSUME NEW q \in Delivery PROVE RowOk(q)'
    <2>1. Own(q)' <=> Own(q)
        <3>1. CASE q = d
            BY <1>1, <1>8, <1>12, <3>1 DEF Own, IsCall
        <3>2. CASE q # d
            BY <1>14, <3>2 DEF Own, IsCall
        <3> QED BY <3>1, <3>2
    <2>2. CASE q = r
        <3>1. approvals'[q] = b /\ Own(q)'
            BY <1>3, <1>13, <1>14, <2>2
        <3> QED BY <1>4, <1>9, <3>1 DEF RowOk
    <2>3. CASE q # r
        <3>1. approvals'[q] = approvals[q] /\ RowOk(q)
            BY <1>13, <2>3 DEF ApprovalInv
        <3> QED BY <2>1, <3>1 DEF RowOk
    <2> QED BY <2>2, <2>3
<1>18. OncePerRow'
    <2>1. ASSUME NEW e \in Delivery \ {d}, IsApproved(e) PROVE calls[e].row # r
        <3>1. CallOk(e)
            BY DEF ApprovalInv
        <3>2. approvals[calls[e].row].status = "consumed"
            BY <2>1, <3>1 DEF CallOk
        <3> QED BY <1>6, <3>2
    <2>2. calls'[d].row = r
        BY <1>8, <1>12
    <2> QED BY <1>14, <2>1, <2>2 DEF ApprovalInv, OncePerRow
<1>19. GoneOn(d)
    BY <1>1, <1>5, <1>8, <1>10, CarriedOn DEF Admitted, IsCall, Stages
<1> QED BY <1>12, <1>14, <1>16, <1>17, <1>18, <1>19 DEF ApprovalInv

LEMMA ApprovalInvStep == ApprovalInv /\ [Next]_vars => ApprovalInv'
<1> SUFFICES ASSUME ApprovalInv, [Next]_vars PROVE ApprovalInv'
    OBVIOUS
<1>1. ASSUME UNCHANGED <<calls, seen, approvals>>, now' \in Nat PROVE ApprovalInv'
    BY <1>1 DEF ApprovalInv, TypeOK, CallOk, RowOk, OncePerRow, Own, IsApproved, IsCall
<1>2. CASE Tick
    BY <1>1, <1>2 DEF Tick, ApprovalInv, TypeOK
<1>3. CASE UNCHANGED vars
    BY <1>1, <1>3 DEF vars, ApprovalInv, TypeOK
<1> QED BY <1>2, <1>3, ArriveStep, AdmitStep, FindStep, PlaceStep, RejectStep, PrepareStep, ExecuteStep DEF Next

LEMMA InitApprovals == Init => ApprovalInv
<1> SUFFICES ASSUME Init PROVE ApprovalInv
    OBVIOUS
<1>1. None \notin Call \cup Approval
    BY ApprovalsAssumption DEF ApprovalsAssumption
<1>2. TypeOK
    BY DEF Init, TypeOK
<1> QED BY <1>1, <1>2 DEF Init, ApprovalInv, CallOk, RowOk, OncePerRow, Own, IsApproved, IsCall

LEMMA SecondPerson == ApprovalInv => ApprovalIsSecondPerson
<1> SUFFICES ASSUME ApprovalInv PROVE ApprovalIsSecondPerson
    OBVIOUS
<1>1. ASSUME NEW d \in Approved PROVE d \in Delivery /\ IsApproved(d) /\ CallOk(d)
    <2>1. d \in In("executed") /\ calls[d].answer # None
        BY DEF Approved
    <2>2. d \in Delivery /\ calls[d] \in Call /\ calls[d].pc = "executed"
        BY <2>1, CalledAt DEF ApprovalInv, Stages
    <2> QED BY <2>1, <2>2 DEF IsApproved, IsCall, ApprovalInv
<1> QED BY <1>1 DEF ApprovalIsSecondPerson, ApprovalInv, OncePerRow, CallOk, Tool

\* However requests, repeated requests, answers, failures and the passage of time interleave, an
\* approval is consumed by one execution, of a person other than the requester the row then named,
\* whose role satisfies what the tool demands (consumeApproval, approvals.ts).
THEOREM OneExecutionBySecondPerson == Spec => []ApprovalIsSecondPerson
BY InitApprovals, ApprovalInvStep, SecondPerson, PTL DEF Spec

-----------------------------------------------------------------------------
(* Messages delivered again.  What was admitted is remembered by its id    *)
(* for as long as its token verifies.                                      *)

Bounded(e) == Admitted(e) /\ ToolOf(calls[e].args) \in ReplayBounded

TokensShort == \A e \in Delivery : calls[e] \in Call => calls[e].exp <= now + Life /\ calls[calls[e].id] # None

SameMessage == \A e, f \in Delivery :
    calls[e] \in Call /\ calls[f] \in Call /\ calls[e].id = calls[f].id
        => calls[e].exp = calls[f].exp /\ calls[e].args = calls[f].args

AdmittedRemembered == \A e \in Delivery : Bounded(e) =>
    \/ calls[e].exp <= now
    \/ \E s \in seen : s.id = calls[e].id /\ calls[e].exp <= s.until

OnceAdmitted == \A e, f \in Delivery :
    Bounded(e) /\ Bounded(f) /\ e # f /\ calls[e].id = calls[f].id
        => calls[e].at >= calls[e].exp \/ calls[f].at >= calls[f].exp

ReplayInv == TokensShort /\ SameMessage /\ AdmittedRemembered /\ OnceAdmitted

LEMMA GoneOnReplays ==
    ASSUME ApprovalInv, ReplayInv, NEW d \in Delivery, GoneOn(d)
    PROVE  ReplayInv'
<1>1. \A e \in Delivery : calls'[e] \in Call =>
          /\ calls[e] \in Call /\ calls'[e].id = calls[e].id /\ calls'[e].exp = calls[e].exp
          /\ calls'[e].args = calls[e].args /\ calls'[e].at = calls[e].at
          /\ Admitted(e)' => Admitted(e)
    <2>1. Ended \notin Call
        BY DEF Ended, Call
    <2> QED BY <2>1 DEF GoneOn, Admitted, IsCall
<1>2. \A e \in Delivery : Bounded(e)' => Bounded(e) /\ calls'[e] \in Call
    BY <1>1 DEF Bounded, Admitted, IsCall
<1>3. \A e \in Delivery : calls[e] # None => calls'[e] # None
    <2>1. Ended # None /\ (calls'[d] \in Call => calls'[d] # None)
        BY ApprovalsAssumption DEF ApprovalsAssumption, Ended
    <2> QED BY <2>1 DEF GoneOn, Admitted, IsCall
<1>4. TokensShort'
    <2>1. \A e \in Delivery : calls[e] \in Call => calls[e].id \in Delivery
        BY DEF Call
    <2> QED BY <1>1, <1>3, <2>1 DEF TokensShort, ReplayInv, GoneOn
<1>5. SameMessage'
    BY <1>1 DEF SameMessage, ReplayInv
<1>6. AdmittedRemembered'
    BY <1>1, <1>2 DEF AdmittedRemembered, ReplayInv, GoneOn
<1>7. OnceAdmitted'
    BY <1>1, <1>2 DEF OnceAdmitted, ReplayInv
<1> QED BY <1>4, <1>5, <1>6, <1>7 DEF ReplayInv

LEMMA ArriveReplays ==
    ASSUME ApprovalInv, ReplayInv, NEW d \in Delivery, Arrive(d)
    PROVE  ReplayInv'
<1>1. PICK c \in Call \cup {Ended} :
              /\ calls' = [calls EXCEPT ![d] = c]
              /\ c \in Call => c.pc = "verified" /\ MessageOf(c, d)
    BY ArrivedCall
<1>2. UNCHANGED <<now, seen>> /\ calls[d] = None
    BY DEF Arrive, Arrived
<1>3. calls'[d] = c /\ \A e \in Delivery \ {d} : calls'[e] = calls[e]
    BY <1>1 DEF ApprovalInv, TypeOK
<1>4. c # None /\ None \notin Call
    BY ApprovalsAssumption DEF ApprovalsAssumption, Ended
<1>5. \A e \in Delivery : calls[e] \in Call => e # d /\ calls[e].id \in Delivery /\ calls[e].id # d
    BY <1>2, <1>4 DEF ReplayInv, TokensShort, Call
<1>6. \A e \in Delivery : Bounded(e)' => Bounded(e) /\ e # d
    BY <1>1, <1>3 DEF Bounded, Admitted, IsCall
<1>7. c \in Call => \/ c.id = d /\ c.exp = now + Life
                    \/ \E e \in Delivery \ {d} :
                          /\ calls[e] \in Call /\ calls'[e] = calls[e]
                          /\ c.id = calls[e].id /\ c.exp = calls[e].exp /\ c.args = calls[e].args
    BY <1>1, <1>3, <1>5 DEF MessageOf
<1>8. TokensShort'
    <2> SUFFICES ASSUME NEW e \in Delivery, calls'[e] \in Call
                 PROVE  calls'[e].exp <= now + Life /\ calls'[calls'[e].id] # None
        BY <1>2 DEF TokensShort
    <2>1. \A f \in Delivery : calls[f] \in Call =>
              calls[f].exp <= now + Life /\ calls'[calls[f].id] # None
        BY <1>3, <1>5 DEF ReplayInv, TokensShort
    <2>2. now + Life <= now + Life
        BY ApprovalsAssumption DEF ApprovalsAssumption, ApprovalInv, TypeOK
    <2> QED BY <1>3, <1>4, <1>7, <2>1, <2>2
<1>9. SameMessage'
    <2>1. ASSUME NEW f \in Delivery \ {d}, calls[f] \in Call, c \in Call, c.id = calls[f].id
          PROVE  c.exp = calls[f].exp /\ c.args = calls[f].args
        BY <1>5, <1>7, <2>1 DEF ReplayInv, SameMessage
    <2> QED BY <1>3, <2>1 DEF ReplayInv, SameMessage
<1>10. AdmittedRemembered' /\ OnceAdmitted'
    BY <1>2, <1>3, <1>6 DEF ReplayInv, AdmittedRemembered, OnceAdmitted
<1> QED BY <1>8, <1>9, <1>10 DEF ReplayInv

\* The two delivered with one id: the later is admitted only when its token has run out.
LEMMA AdmitReplays ==
    ASSUME ApprovalInv, ReplayInv, NEW d \in Delivery, Admit(d)
    PROVE  ReplayInv'
<1>1. calls[d] \in Call /\ calls[d].pc = "verified"
    BY CalledAt DEF Admit, Stages, ApprovalInv
<1>2. UNCHANGED now /\ Remembered \subseteq seen' /\ now \in Nat
    BY DEF Admit, Consumed, Remembered, ApprovalInv, TypeOK
<1>3. Ended # None /\ Ended \notin Call /\ None \notin Call
    BY ApprovalsAssumption DEF ApprovalsAssumption, Ended, Call
<1>4. ASSUME NEW e \in Delivery, Bounded(e)
      PROVE  \/ calls[e].exp <= now
             \/ \E s \in Remembered : s.id = calls[e].id /\ calls[e].exp <= s.until
    <2>1. CASE \E s \in seen : s.id = calls[e].id /\ calls[e].exp <= s.until
        <3>1. PICK s \in seen : s.id = calls[e].id /\ calls[e].exp <= s.until
            BY <2>1
        <3>2. s.until \in Nat /\ calls[e].exp \in Nat
            BY <1>4 DEF ApprovalInv, TypeOK, Bounded, Admitted, IsCall, Call
        <3>3. CASE s.until > now
            BY <3>1, <3>3 DEF Remembered
        <3>4. CASE s.until <= now
            BY <1>2, <3>1, <3>2, <3>4
        <3> QED BY <1>2, <3>2, <3>3, <3>4
    <2> QED BY <1>4, <2>1 DEF ReplayInv, AdmittedRemembered
<1>5. CASE Refuse(d)
    <2>1. calls'[d] = Ended /\ \A e \in Delivery \ {d} : calls'[e] = calls[e]
        BY <1>5 DEF Refuse, ApprovalInv, TypeOK
    <2>2. \A e \in Delivery : calls'[e] \in Call => e # d /\ calls'[e] = calls[e]
        BY <1>3, <2>1
    <2>3. \A e \in Delivery : Bounded(e)' => Bounded(e) /\ calls'[e] = calls[e]
        BY <2>2 DEF Bounded, Admitted, IsCall
    <2>4. TokensShort' /\ SameMessage'
        <3>1. \A e \in Delivery : calls[e] # None => calls'[e] # None
            BY <1>3, <2>1
        <3>2. \A e \in Delivery : calls[e] \in Call => calls[e].id \in Delivery
            BY DEF Call
        <3>3. TokensShort'
            BY <1>2, <2>2, <3>1, <3>2 DEF ReplayInv, TokensShort
        <3> QED BY <2>2, <3>3 DEF ReplayInv, SameMessage
    <2>5. AdmittedRemembered'
        BY <1>2, <1>4, <2>3 DEF AdmittedRemembered
    <2>6. OnceAdmitted'
        BY <2>3 DEF ReplayInv, OnceAdmitted
    <2> QED BY <2>4, <2>5, <2>6 DEF ReplayInv
<1>6. CASE ~Refuse(d)
    <2>1. PICK c \in Call :
              /\ calls' = [calls EXCEPT ![d] = c]
              /\ Unseen(d) /\ seen' = Consumed(d) /\ c.at = now
              /\ c.id = calls[d].id /\ c.exp = calls[d].exp /\ c.args = calls[d].args
        BY <1>6, AdmittedCall
    <2>2. calls'[d] = c /\ \A e \in Delivery \ {d} : calls'[e] = calls[e]
        BY <2>1 DEF ApprovalInv, TypeOK
    <2>3. \A e \in Delivery : calls'[e] \in Call =>
              /\ calls[e] \in Call /\ calls'[e].id = calls[e].id /\ calls'[e].exp = calls[e].exp
              /\ calls'[e].args = calls[e].args
        BY <1>1, <2>1, <2>2
    <2>4. \A e \in Delivery : calls[e] # None => calls'[e] # None
        BY <1>3, <2>1, <2>2
    <2>5. TokensShort'
        <3>1. \A e \in Delivery : calls[e] \in Call => calls[e].id \in Delivery
            BY DEF Call
        <3> QED BY <1>2, <2>3, <2>4, <3>1 DEF ReplayInv, TokensShort
    <2>6. SameMessage'
        BY <2>3 DEF ReplayInv, SameMessage
    <2>7. \A e \in Delivery \ {d} : Bounded(e)' <=> Bounded(e)
        BY <2>2 DEF Bounded, Admitted, IsCall
    <2>8. ASSUME Tool(d) \in ReplayBounded
          PROVE  \E s \in seen' : s.id = c.id /\ c.exp <= s.until
        <3>1. [id |-> calls[d].id, until |-> now + ReplayTtl] \in seen'
            BY <2>1, <2>8 DEF Consumed
        <3>2. c.exp <= now + Life
            BY <1>1, <2>1 DEF ReplayInv, TokensShort
        <3>3. c.exp <= now + ReplayTtl
            BY <1>2, <3>2, ApprovalsAssumption DEF ApprovalsAssumption, Call
        <3> QED BY <2>1, <3>1, <3>3
    <2>9. AdmittedRemembered'
        <3> SUFFICES ASSUME NEW e \in Delivery, Bounded(e)'
                     PROVE  \/ calls'[e].exp <= now
                            \/ \E s \in seen' : s.id = calls'[e].id /\ calls'[e].exp <= s.until
            BY <1>2 DEF AdmittedRemembered
        <3>1. CASE e = d
            BY <2>1, <2>2, <2>8, <3>1 DEF Bounded, Tool
        <3>2. CASE e # d
            BY <1>2, <1>4, <2>2, <2>7, <3>2
        <3> QED BY <3>1, <3>2
    <2>10. ASSUME NEW e \in Delivery \ {d}, Bounded(e), calls[e].id = c.id
           PROVE  c.at >= c.exp
        <3>1. calls[e] \in Call /\ calls[e].exp = c.exp /\ calls[e].args = c.args
            BY <1>1, <2>1, <2>10 DEF ReplayInv, SameMessage, Bounded, Admitted, IsCall
        <3>2. Tool(d) \in ReplayBounded
            BY <2>1, <2>10, <3>1 DEF Bounded, Tool
        <3>3. \A s \in Remembered : s.id # calls[d].id
            BY <2>1, <3>2 DEF Unseen
        <3>4. calls[e].exp <= now
            BY <1>4, <2>1, <2>10, <3>3
        <3> QED BY <1>2, <2>1, <3>1, <3>4 DEF Call
    <2>11. OnceAdmitted'
        <3>1. ASSUME NEW e \in Delivery, NEW f \in Delivery, Bounded(e)', Bounded(f)', e # f,
                     calls'[e].id = calls'[f].id
              PROVE  calls'[e].at >= calls'[e].exp \/ calls'[f].at >= calls'[f].exp
            <4>1. CASE e = d
                BY <2>2, <2>7, <2>10, <3>1, <4>1
            <4>2. CASE f = d
                BY <2>2, <2>7, <2>10, <3>1, <4>2
            <4>3. CASE e # d /\ f # d
                BY <2>2, <2>7, <3>1, <4>3 DEF ReplayInv, OnceAdmitted
            <4> QED BY <4>1, <4>2, <4>3
        <3> QED BY <3>1 DEF OnceAdmitted
    <2> QED BY <2>5, <2>6, <2>9, <2>11 DEF ReplayInv
<1> QED BY <1>5, <1>6

LEMMA TickReplays ==
    ASSUME ApprovalInv, ReplayInv, UNCHANGED <<calls, seen>>, now' = now \/ now' = now + 1
    PROVE  ReplayInv'
<1>1. \A e \in Delivery : calls[e] \in Call => calls[e].exp \in Nat
    BY DEF Call
<1>2. now \in Nat /\ Life \in Nat /\ \A x \in Nat : (x <= now => x <= now') /\ (x <= now + Life => x <= now' + Life)
    BY ApprovalsAssumption DEF ApprovalsAssumption, ApprovalInv, TypeOK
<1>3. TokensShort'
    BY <1>1, <1>2 DEF ReplayInv, TokensShort
<1>4. AdmittedRemembered'
    BY <1>1, <1>2 DEF ReplayInv, AdmittedRemembered, Bounded, Admitted, IsCall
<1> QED BY <1>3, <1>4 DEF ReplayInv, SameMessage, OnceAdmitted, Bounded, Admitted, IsCall

LEMMA ReplayInvStep == ApprovalInv /\ ReplayInv /\ [Next]_vars => ReplayInv'
<1> SUFFICES ASSUME ApprovalInv, ReplayInv, [Next]_vars PROVE ReplayInv'
    OBVIOUS
<1>1. CASE Tick \/ UNCHANGED vars
    BY <1>1, TickReplays DEF Tick, vars
<1>2. ASSUME NEW d \in Delivery,
             \/ FindDuplicate(d) \/ PlaceApproval(d) \/ RejectApproval(d)
             \/ Prepare(d) \/ Execute(d) \/ Abort(d)
      PROVE  ReplayInv'
    BY <1>2, FindStep, PlaceStep, RejectStep, PrepareStep, ExecuteStep, GoneOnReplays
<1> QED BY <1>1, <1>2, ArriveReplays, AdmitReplays DEF Next

LEMMA InitReplays == Init => ReplayInv
<1>1. None \notin Call
    BY ApprovalsAssumption DEF ApprovalsAssumption
<1> QED BY <1>1 DEF Init, ReplayInv, TokensShort, SameMessage, AdmittedRemembered, OnceAdmitted,
                     Bounded, Admitted, IsCall

LEMMA RepeatsOnce == ApprovalInv /\ ReplayInv => RepeatsRunOnce
<1> SUFFICES ASSUME ApprovalInv, ReplayInv,
                    NEW d \in In("executed") \cup In("challenged") \cup In("prepared"),
                    NEW e \in In("executed") \cup In("challenged") \cup In("prepared"),
                    d # e, calls[d].id = calls[e].id, Tool(d) \in ReplayBounded
             PROVE  \E f \in {d, e} : calls[f].at >= calls[f].exp
    BY DEF RepeatsRunOnce
<1>1. Admitted(d) /\ Admitted(e) /\ d \in Delivery /\ e \in Delivery
    BY CalledAt DEF ApprovalInv, Stages, Admitted, IsCall
<1>2. Bounded(d) /\ Bounded(e)
    BY <1>1 DEF Bounded, Tool, ReplayInv, SameMessage, Admitted, IsCall
<1> QED BY <1>1, <1>2 DEF ReplayInv, OnceAdmitted

\* For every number of deliveries of a message and any delays, of two of them at most one is admitted
\* to a replay-bounded tool before the token it carries has run out, because the id is remembered at
\* least as long as the token verifies (consumeRequestId, principals.ts).
THEOREM RepeatedMessageRunsOnce == Spec => []RepeatsRunOnce
BY InitApprovals, ApprovalInvStep, InitReplays, ReplayInvStep, RepeatsOnce, PTL DEF Spec

-----------------------------------------------------------------------------
(* Open approvals.  One request at a time places a row, and what it found  *)
(* when it looked for a duplicate and for room is still so when it does.   *)

Pending == {r \in Delivery : approvals[r] \in Approval /\ approvals[r].status = "pending"}

Placing(e) == IsCall(e, {"placing"})

PlaceOk(e) ==
    \/ /\ calls[e].row = e
       /\ Cardinality(Pending) < MaxTeamPending
       /\ \A r \in Pending : approvals[r].args # calls[e].args
    \/ /\ approvals[calls[e].row] \in Approval
       /\ approvals[calls[e].row].args = calls[e].args

PendingInv ==
    /\ \A d, e \in Delivery : Placing(d) /\ Placing(e) => d = e
    /\ \A e \in Delivery : Placing(e) => PlaceOk(e)
    /\ Cardinality(Pending) <= MaxTeamPending
    /\ \A r, s \in Pending : approvals[r].args = approvals[s].args => r = s

LEMMA PendingFinite == IsFiniteSet(Pending) /\ Cardinality(Pending) \in Nat
<1>1. IsFiniteSet(Delivery)
    BY FS_Interval, ApprovalsAssumption DEF Delivery, ApprovalsAssumption
<1>2. Pending \subseteq Delivery
    BY DEF Pending
<1>3. IsFiniteSet(Pending)
    BY <1>1, <1>2, FS_Subset
<1> QED BY <1>3, FS_CardinalityType

LEMMA FewerPending ==
    ASSUME NEW S, S \subseteq Pending
    PROVE  IsFiniteSet(S) /\ Cardinality(S) \in Nat /\ Cardinality(S) <= Cardinality(Pending)
<1>1. IsFiniteSet(S) /\ Cardinality(S) <= Cardinality(Pending)
    BY PendingFinite, FS_Subset
<1> QED BY <1>1, FS_CardinalityType

LEMMA PendingTyped ==
    ASSUME TypeOK
    PROVE  Pending = {r \in Asked : IsPending(r)}
BY AskedTyped DEF Pending, IsPending

\* The rows keep their arguments and none becomes pending.
Fewer ==
    \A r \in Delivery : /\ approvals'[r] \in Approval <=> approvals[r] \in Approval
                        /\ approvals[r] \in Approval =>
                             /\ approvals'[r].args = approvals[r].args
                             /\ approvals'[r].status = "pending" => approvals[r].status = "pending"

LEMMA FewerStep ==
    ASSUME PendingInv, ApprovalInv, Fewer, NEW d \in Delivery,
           \A e \in Delivery \ {d} : calls'[e] = calls[e],
           Placing(d)' => calls'[d] = calls[d]
    PROVE  PendingInv'
<1> PICK P : P = Pending'
    OBVIOUS
<1>1. P \subseteq Pending /\ \A r \in P : r \in Delivery /\ approvals[r] \in Approval /\ approvals'[r].args = approvals[r].args
    BY DEF Fewer, Pending
<1>2. Cardinality(P) \in Nat /\ Cardinality(P) <= Cardinality(Pending) /\ Cardinality(Pending) \in Nat
    BY <1>1, FewerPending, PendingFinite
<1>3. \A e \in Delivery : Placing(e)' => calls'[e] = calls[e] /\ Placing(e)
    BY DEF Placing, IsCall
<1>4. MaxTeamPending \in Nat
    BY ApprovalsAssumption DEF ApprovalsAssumption
<1>5. ASSUME NEW e \in Delivery, Placing(e)' PROVE PlaceOk(e)'
    <2>1. calls'[e] = calls[e] /\ PlaceOk(e) /\ calls[e].row \in Delivery
        BY <1>3, <1>5 DEF PendingInv, ApprovalInv, CallOk, Placing
    <2>2. CASE /\ calls[e].row = e
               /\ Cardinality(Pending) < MaxTeamPending
               /\ \A r \in Pending : approvals[r].args # calls[e].args
        <3>1. Cardinality(P) < MaxTeamPending
            BY <1>2, <1>4, <2>2
        <3>2. \A r \in P : approvals'[r].args # calls'[e].args
            BY <1>1, <2>1, <2>2
        <3> QED BY <2>1, <2>2, <3>1, <3>2 DEF PlaceOk
    <2>3. CASE /\ approvals[calls[e].row] \in Approval
               /\ approvals[calls[e].row].args = calls[e].args
        BY <2>1, <2>3 DEF PlaceOk, Fewer
    <2> QED BY <2>1, <2>2, <2>3 DEF PlaceOk
<1>6. Cardinality(P) <= MaxTeamPending
    BY <1>2, <1>4 DEF PendingInv
<1>7. \A r, s \in P : approvals'[r].args = approvals'[s].args => r = s
    BY <1>1 DEF PendingInv
<1>8. \A e, f \in Delivery : Placing(e)' /\ Placing(f)' => e = f
    BY <1>3 DEF PendingInv
<1> QED BY <1>5, <1>6, <1>7, <1>8 DEF PendingInv

\* What an expiry leaves pending was pending and runs longer.
LEMMA ExpiredRows ==
    ASSUME TypeOK, NEW at \in Nat, NEW r \in Delivery
    PROVE  /\ Expire(at)[r] \in Approval <=> approvals[r] \in Approval
           /\ approvals[r] \in Approval =>
                /\ Expire(at)[r].args = approvals[r].args
                /\ Expire(at)[r].status = "pending" => r \in StillPending(at)
<1>1. CASE r \in Asked /\ IsPending(r) /\ approvals[r].exp <= at
    <2>1. Expire(at)[r] = [approvals[r] EXCEPT !.status = "expired"]
        BY <1>1 DEF Expire
    <2>2. approvals[r] \in Approval
        BY <1>1, AskedTyped
    <2> QED BY <2>1, <2>2 DEF Approval
<1>2. CASE ~(r \in Asked /\ IsPending(r) /\ approvals[r].exp <= at)
    <2>1. Expire(at)[r] = approvals[r]
        BY <1>2 DEF Expire
    <2>2. approvals[r] \in Approval => r \in Asked /\ approvals[r].exp \in Nat
        BY AskedTyped DEF Approval
    <2> QED BY <1>2, <2>1, <2>2 DEF StillPending, IsPending
<1> QED BY <1>1, <1>2

\* The pending rows of a team are those its lock holder counted; one that is found is for the same call.
LEMMA FindPending ==
    ASSUME ApprovalInv, PendingInv, NEW d \in Delivery, FindDuplicate(d)
    PROVE  PendingInv'
<1> PICK at : at = calls[d].at
    OBVIOUS
<1>1. calls[d] \in Call /\ calls[d].pc = "asking" /\ at \in Nat /\ DOMAIN calls = Delivery
    <2>1. calls[d] \in Call /\ calls[d].pc = "asking" /\ DOMAIN calls = Delivery
        BY CalledAt DEF FindDuplicate, Stages, ApprovalInv, TypeOK
    <2> QED BY <2>1 DEF ApprovalInv, CallOk, IsCall, Stages
<1>2. \A r \in Delivery : /\ Expire(at)[r] \in Approval <=> approvals[r] \in Approval
                          /\ approvals[r] \in Approval =>
                               /\ Expire(at)[r].args = approvals[r].args
                               /\ Expire(at)[r].status = "pending" => r \in StillPending(at)
    BY <1>1, ExpiredRows DEF ApprovalInv
<1>3. StillPending(at) = {r \in Pending : approvals[r].exp > at}
    BY PendingTyped DEF StillPending, ApprovalInv
<1>4. Fewer
    <2>1. approvals' = approvals \/ approvals' = Expire(at)
        BY DEF FindDuplicate
    <2>2. \A r \in StillPending(at) : approvals[r].status = "pending"
        BY <1>3 DEF Pending
    <2> QED BY <1>2, <2>1, <2>2 DEF Fewer
<1>5. CASE Refuse(d)
    <2>1. calls' = [calls EXCEPT ![d] = Ended] /\ Ended \notin Call
        BY <1>5 DEF Refuse, Ended, Call
    <2>2. calls'[d] = Ended /\ \A e \in Delivery \ {d} : calls'[e] = calls[e]
        BY <1>1, <2>1
    <2>3. ~Placing(d)'
        BY <2>1, <2>2 DEF Placing, IsCall
    <2> QED BY <1>4, <2>2, <2>3, FewerStep
<1>6. CASE ~Refuse(d)
    <2>1. PICK found :
            /\ found = IF Duplicates(d) = {} THEN d
                       ELSE CHOOSE r \in Duplicates(d) : \A s \in Duplicates(d) : r <= s
            /\ Duplicates(d) = {} => ~(Cardinality(StillPending(at)) >= MaxTeamPending)
            /\ calls' = [calls EXCEPT ![d].pc = "placing", ![d].row = found]
            /\ approvals' = Expire(at) /\ In("placing") = {}
        BY <1>6 DEF FindDuplicate, TeamLockFree
    <2> PICK c : c = [calls[d] EXCEPT !.pc = "placing", !.row = found]
        OBVIOUS
    <2>2. c.pc = "placing" /\ c.row = found /\ c.args = calls[d].args
        BY <1>1 DEF Call
    <2>3. calls'[d] = c /\ \A e \in Delivery \ {d} : calls'[e] = calls[e]
        BY <1>1, <2>1
    <2>4. \A e \in Delivery : Placing(e)' => e = d
        <3>1. \A e \in Delivery : ~Placing(e)
            BY <2>1, CallsTyped DEF In, Arrived, Placing, IsCall, ApprovalInv
        <3> QED BY <2>3, <3>1 DEF Placing, IsCall
    <2> PICK P : P = Pending'
        OBVIOUS
    <2>5. P \subseteq StillPending(at) /\ \A r \in P : r \in Delivery /\ approvals[r] \in Approval /\ approvals'[r].args = approvals[r].args
        BY <1>2, <2>1 DEF Pending
    <2>6. /\ Cardinality(P) \in Nat /\ Cardinality(P) <= Cardinality(Pending) /\ Cardinality(Pending) \in Nat
          /\ Cardinality(P) <= Cardinality(StillPending(at)) /\ Cardinality(StillPending(at)) \in Nat
        <3>1. StillPending(at) \subseteq Pending /\ P \subseteq Pending
            BY <1>3, <2>5
        <3>2. IsFiniteSet(StillPending(at)) /\ Cardinality(StillPending(at)) \in Nat
            BY <3>1, FewerPending
        <3>3. Cardinality(P) \in Nat /\ Cardinality(P) <= Cardinality(Pending) /\ Cardinality(Pending) \in Nat
            BY <3>1, FewerPending, PendingFinite
        <3>4. Cardinality(P) <= Cardinality(StillPending(at))
            BY <2>5, <3>2, FS_Subset
        <3> QED BY <3>2, <3>3, <3>4
    <2>7. MaxTeamPending \in Nat
        BY ApprovalsAssumption DEF ApprovalsAssumption
    <2>8. PlaceOk(d)'
        <3>1. CASE Duplicates(d) = {}
            <4>1. Cardinality(P) < MaxTeamPending
                BY <2>1, <2>6, <2>7, <3>1
            <4>2. \A r \in P : approvals'[r].args # c.args
                BY <2>2, <2>5, <3>1 DEF Duplicates
            <4> QED BY <2>1, <2>2, <2>3, <3>1, <4>1, <4>2 DEF PlaceOk
        <3>2. CASE Duplicates(d) # {}
            <4>1. Duplicates(d) \subseteq Delivery
                BY <1>3 DEF Duplicates, Pending
            <4>2. found \in Duplicates(d)
                BY <2>1, <3>2, <4>1, SmallestDelivery
            <4>3. found \in Delivery /\ approvals[found] \in Approval /\ approvals[found].args = calls[d].args
                BY <1>3, <4>2 DEF Duplicates, Pending
            <4> QED BY <1>2, <2>1, <2>2, <2>3, <4>3 DEF PlaceOk
        <3> QED BY <3>1, <3>2
    <2>9. Cardinality(P) <= MaxTeamPending
        BY <2>6, <2>7 DEF PendingInv
    <2>10. \A r, s \in P : approvals'[r].args = approvals'[s].args => r = s
        BY <1>3, <2>5 DEF PendingInv
    <2> QED BY <2>4, <2>8, <2>9, <2>10 DEF PendingInv
<1> QED BY <1>5, <1>6

\* A row is placed where the one request that places found room for it, or where it found its own call.
LEMMA PlacePending ==
    ASSUME ApprovalInv, PendingInv, NEW d \in Delivery, PlaceApproval(d)
    PROVE  PendingInv'
<1>1. d \in In("placing") /\ calls[d] \in Call /\ Placing(d) /\ CallOk(d) /\ PlaceOk(d) /\ DOMAIN calls = Delivery
    <2>1. d \in In("placing") /\ calls[d] \in Call /\ Placing(d)
        BY CalledAt DEF PlaceApproval, Stages, ApprovalInv, Placing, IsCall
    <2> QED BY <2>1 DEF ApprovalInv, TypeOK, PendingInv
<1> PICK row, a, due : row = calls[d].row /\ a = PlacedRow(d) /\ due = calls[d].at + ApprovalTtl
    OBVIOUS
<1>2. row \in Delivery /\ (row # d => approvals[row] \in Approval)
    BY <1>1 DEF CallOk, ApprovalInv, RowOk, Placing
<1>3. a \in Approval /\ a.args = calls[d].args /\ (row # d => a.status = approvals[row].status)
    BY <1>1, <1>2, PlacedTyped DEF ApprovalInv
<1>4. /\ approvals' = [approvals EXCEPT ![row] = a]
      /\ calls' = [calls EXCEPT ![d].pc = "challenged", ![d].due = due]
    BY DEF PlaceApproval
<1>5. approvals'[row] = a /\ \A r \in Delivery \ {row} : approvals'[r] = approvals[r]
    BY <1>2, <1>4 DEF ApprovalInv, TypeOK
<1>6. \A e \in Delivery : ~Placing(e)'
    <2> PICK c : c = [calls[d] EXCEPT !.pc = "challenged", !.due = due]
        OBVIOUS
    <2>1. c.pc = "challenged"
        BY <1>1 DEF Call
    <2>2. calls'[d] = c /\ \A e \in Delivery \ {d} : calls'[e] = calls[e]
        BY <1>1, <1>4
    <2> QED BY <1>1, <2>1, <2>2 DEF Placing, IsCall, PendingInv
<1>7. approvals[d] \notin Approval
    BY <1>1 DEF ApprovalInv, RowOk, Own, Placing, IsCall
<1> PICK P : P = Pending'
    OBVIOUS
<1>8. CASE row = d
    <2>1. Cardinality(Pending) < MaxTeamPending /\ \A r \in Pending : approvals[r].args # calls[d].args
        BY <1>1, <1>7, <1>8 DEF PlaceOk
    <2>2. P \subseteq Pending \cup {d} /\ d \notin Pending
        BY <1>5, <1>7, <1>8 DEF Pending
    <2>3. Cardinality(P) <= Cardinality(Pending) + 1 /\ Cardinality(P) \in Nat
        <3>1. IsFiniteSet(Pending \cup {d}) /\ Cardinality(Pending \cup {d}) = Cardinality(Pending) + 1
            BY <2>2, PendingFinite, FS_AddElement
        <3>2. IsFiniteSet(P) /\ Cardinality(P) <= Cardinality(Pending \cup {d})
            BY <2>2, <3>1, FS_Subset
        <3> QED BY <3>1, <3>2, FS_CardinalityType
    <2>4. Cardinality(P) <= MaxTeamPending
        <3>1. MaxTeamPending \in Nat /\ Cardinality(Pending) \in Nat
            BY PendingFinite, ApprovalsAssumption DEF ApprovalsAssumption
        <3> QED BY <2>1, <2>3, <3>1
    <2>5. \A r, s \in P : approvals'[r].args = approvals'[s].args => r = s
        <3>1. \A r \in P \ {d} : r \in Pending /\ approvals'[r].args = approvals[r].args
            BY <1>5, <1>8, <2>2 DEF Pending
        <3> QED BY <1>3, <1>5, <1>8, <2>1, <3>1 DEF PendingInv
    <2> QED BY <1>6, <2>4, <2>5 DEF PendingInv
<1>9. CASE row # d
    <2>1. /\ \A r \in Delivery : /\ approvals'[r] \in Approval <=> approvals[r] \in Approval
                                 /\ approvals[r] \in Approval => approvals'[r].status = approvals[r].status
          /\ \A r \in Delivery \ {row} : approvals'[r].args = approvals[r].args
        BY <1>2, <1>3, <1>5, <1>9
    <2>2. approvals[row].args = calls[d].args /\ approvals'[row].args = calls[d].args
        BY <1>1, <1>3, <1>5, <1>9 DEF PlaceOk
    <2>3. Fewer
        BY <2>1, <2>2 DEF Fewer
    <2>4. \A e \in Delivery \ {d} : calls'[e] = calls[e]
        BY <1>1, <1>4
    <2> QED BY <1>6, <2>3, <2>4, FewerStep
<1> QED BY <1>8, <1>9

LEMMA PlainPending ==
    ASSUME ApprovalInv, PendingInv, NEW d \in Delivery, Arrive(d) \/ Admit(d) \/ Prepare(d) \/ Abort(d)
    PROVE  PendingInv'
<1>1. approvals' = approvals /\ DOMAIN calls = Delivery
    BY DEF Arrive, Admit, Prepare, Abort, ApprovalInv, TypeOK
<1>2. Fewer
    BY <1>1 DEF Fewer
<1>3. PICK c : calls' = [calls EXCEPT ![d] = c] /\ c.pc # "placing"
    <2>1. CASE Refuse(d)
        <3>1. calls' = [calls EXCEPT ![d] = Ended] /\ Ended.pc # "placing"
            BY <2>1 DEF Refuse, Ended
        <3> QED BY <3>1
    <2>2. CASE Arrive(d)
        <3>1. PICK c \in Call \cup {Ended} : calls' = [calls EXCEPT ![d] = c] /\ (c \in Call => c.pc = "verified")
            BY <2>2, ArrivedCall
        <3>2. c.pc # "placing"
            BY <3>1 DEF Ended
        <3> QED BY <3>1, <3>2
    <2>3. CASE Admit(d) /\ ~Refuse(d)
        BY <2>3, AdmittedCall
    <2>4. CASE (Prepare(d) \/ Abort(d)) /\ ~Refuse(d)
        <3>1. PICK r, args : calls' = [calls EXCEPT ![d].pc = "prepared", ![d].row = r, ![d].args = args]
            BY <2>4 DEF Prepare, Abort
        <3>2. calls[d] \in Call
            BY <2>4, CalledAt DEF Prepare, Abort, Stages, ApprovalInv
        <3> PICK c : c = [calls[d] EXCEPT !.pc = "prepared", !.row = r, !.args = args]
            OBVIOUS
        <3>3. c.pc = "prepared" /\ calls' = [calls EXCEPT ![d] = c]
            BY <1>1, <3>1, <3>2 DEF Call
        <3> QED BY <3>3
    <2> QED BY <2>1, <2>2, <2>3, <2>4
<1>4. calls'[d] = c /\ \A e \in Delivery \ {d} : calls'[e] = calls[e]
    BY <1>1, <1>3
<1>5. ~Placing(d)'
    BY <1>3, <1>4 DEF Placing, IsCall
<1> QED BY <1>2, <1>4, <1>5, FewerStep

LEMMA DecidedPending ==
    ASSUME ApprovalInv, PendingInv, NEW d \in Delivery, RejectApproval(d) \/ Execute(d)
    PROVE  PendingInv'
<1>1. calls[d] \in Call /\ calls[d].pc \in {"answering", "prepared"} /\ CallOk(d) /\ DOMAIN calls = Delivery
    BY CalledAt DEF RejectApproval, Execute, Stages, ApprovalInv, TypeOK
<1>2. IsCall(d, {"answering", "prepared"}) /\ (calls[d].pc = "prepared" => IsCall(d, {"challenged", "prepared"}))
    BY <1>1 DEF IsCall
<1>3. PICK c : calls' = [calls EXCEPT ![d] = c] /\ c.pc # "placing"
    <2>1. CASE RejectApproval(d)
        <3>1. calls' = [calls EXCEPT ![d] = Ended] /\ Ended.pc # "placing"
            BY <2>1 DEF RejectApproval, Refuse, Ended
        <3> QED BY <3>1
    <2>2. CASE Execute(d)
        <3>1. PICK asker : calls' = [calls EXCEPT ![d].pc = "executed", ![d].asker = asker]
            BY <2>2 DEF Execute
        <3> PICK c : c = [calls[d] EXCEPT !.pc = "executed", !.asker = asker]
            OBVIOUS
        <3>2. c.pc = "executed" /\ calls' = [calls EXCEPT ![d] = c]
            BY <1>1, <3>1 DEF Call
        <3> QED BY <3>2
    <2> QED BY <2>1, <2>2
<1>4. calls'[d] = c /\ \A e \in Delivery \ {d} : calls'[e] = calls[e]
    BY <1>1, <1>3
<1>5. ~Placing(d)'
    BY <1>3, <1>4 DEF Placing, IsCall
<1>6. CASE approvals' = approvals
    BY <1>4, <1>5, <1>6, FewerStep DEF Fewer
<1>7. CASE approvals' # approvals
    <2>1. PICK r \in Delivery, status \in {"rejected", "consumed"} :
             approvals[r] \in Approval /\ approvals' = Resolved(d, r, status)
        <3>1. CASE RejectApproval(d)
            <4>1. approvals' = Resolved(d, Challenge(d).row, "rejected") /\ d \in In("answering")
                BY <1>7, <3>1 DEF RejectApproval
            <4>2. Challenge(d).row \in Delivery /\ approvals[Challenge(d).row] \in Approval
                BY <1>1, <1>2, <4>1, ChallengeRow DEF CallOk
            <4> QED BY <4>1, <4>2
        <3>2. CASE Execute(d)
            <4>1. approvals' = Resolved(d, calls[d].row, "consumed") /\ calls[d].pc = "prepared"
                BY <3>2, CalledAt DEF Execute, ApprovalInv, Stages
            <4>2. calls[d].row \in Delivery /\ approvals[calls[d].row] \in Approval
                BY <1>1, <1>2, <4>1 DEF CallOk, ApprovalInv, RowOk
            <4> QED BY <4>1, <4>2
        <3> QED BY <3>1, <3>2
    <2> PICK a, who, b : a = approvals[r] /\ who = calls[d].ctx.who /\ b = [a EXCEPT !.status = status, !.resolver = who]
        OBVIOUS
    <2>2. a \in Approval /\ who \in People
        BY <1>1, <2>1 DEF Call, People
    <2>3. b \in Approval /\ b.args = a.args /\ b.status = status
        BY <2>2 DEF Approval
    <2>4. approvals' = [approvals EXCEPT ![r] = b] /\ DOMAIN approvals = Delivery
        BY <2>1 DEF Resolved, ApprovalInv, TypeOK
    <2>5. approvals'[r] = b /\ \A q \in Delivery \ {r} : approvals'[q] = approvals[q]
        BY <2>4
    <2>6. Fewer
        BY <2>1, <2>2, <2>3, <2>5 DEF Fewer
    <2> QED BY <1>4, <1>5, <2>6, FewerStep
<1> QED BY <1>6, <1>7

LEMMA PendingInvStep == ApprovalInv /\ PendingInv /\ [Next]_vars => PendingInv'
<1> SUFFICES ASSUME ApprovalInv, PendingInv, [Next]_vars PROVE PendingInv'
    OBVIOUS
<1>1. ASSUME UNCHANGED <<calls, approvals>> PROVE PendingInv'
    <2>1. Pending' = Pending
        BY <1>1 DEF Pending
    <2> QED BY <1>1, <2>1 DEF PendingInv, Placing, IsCall, PlaceOk
<1>2. CASE Tick \/ UNCHANGED vars
    BY <1>1, <1>2 DEF Tick, vars
<1> QED BY <1>2, PlainPending, FindPending, PlacePending, DecidedPending DEF Next

LEMMA InitPending == Init => PendingInv
<1> SUFFICES ASSUME Init PROVE PendingInv
    OBVIOUS
<1>1. None \notin Call \cup Approval /\ MaxTeamPending \in Nat
    BY ApprovalsAssumption DEF ApprovalsAssumption
<1>2. Pending = {} /\ \A e \in Delivery : ~Placing(e)
    BY <1>1 DEF Init, Pending, Placing, IsCall
<1> QED BY <1>1, <1>2, FS_EmptySet DEF PendingInv

LEMMA Bounds == ApprovalInv /\ PendingInv => PendingBounded
<1> SUFFICES ASSUME ApprovalInv, PendingInv PROVE PendingBounded
    OBVIOUS
<1>1. Pending = {q \in Asked : IsPending(q)}
    BY PendingTyped DEF ApprovalInv
<1>2. StillPending(now) \subseteq Pending
    BY <1>1 DEF StillPending
<1>3. Cardinality(StillPending(now)) \in Nat /\ Cardinality(StillPending(now)) <= Cardinality(Pending) /\ Cardinality(Pending) \in Nat
    BY <1>2, FewerPending, PendingFinite
<1>4. Cardinality(StillPending(now)) <= MaxTeamPending
    BY <1>3, ApprovalsAssumption DEF PendingInv, ApprovalsAssumption
<1> QED BY <1>1, <1>4 DEF PendingInv, PendingBounded

\* For any number of deliveries that ask at the same time, a team has no more open approvals than
\* MAX_TEAM_PENDING and no two of them are of the same call (requireApproval, approvals.ts):
\* the advisory lock keeps what a request counted true until its row is placed.
THEOREM PendingStaysBounded == Spec => []PendingBounded
<1>1. Init => ApprovalInv /\ PendingInv
    BY InitApprovals, InitPending
<1>2. ApprovalInv /\ PendingInv /\ [Next]_vars => (ApprovalInv /\ PendingInv)'
    BY ApprovalInvStep, PendingInvStep
<1> QED BY <1>1, <1>2, Bounds, PTL DEF Spec

-----------------------------------------------------------------------------
(* What runs was open to the person it runs for.  The rules are those the  *)
(* verdict was given under, as they never change.                          *)

\* No decision about an agent or a direct client adds to what its person may do.
LEMMA PersonBounds ==
    ASSUME NEW ctx, NEW rs, NEW q, EvaluatePolicy(ctx, rs, q).allowed
    PROVE  /\ PersonMay(ctx, rs, q).allowed
           /\ PersonMay(ctx, rs, q).approval => EvaluatePolicy(ctx, rs, q).approval
<1> PICK scoped, agent, direct, human, person, e :
        /\ scoped = Scoped(rs, q) /\ human = HumanSide(ctx, scoped)
        /\ agent = DecideByRules(BoundTo(scoped, AgentIds(ctx)))
        /\ direct = DecideByRules(BoundTo(scoped, DirectIds))
        /\ person = PersonMay(ctx, rs, q) /\ e = EvaluatePolicy(ctx, rs, q)
    OBVIOUS
<1>1. \A a, b, o : /\ ~o.allowed
                   /\ Both(a, b, o).allowed
                   => a.allowed /\ a # HardDeny /\ (a.approval => Both(a, b, o).approval)
    BY DEF Both, HardDeny
<1>2. e = IF ctx.who = None THEN HardDeny
          ELSE IF ctx.app = "direct" /\ q.action \in GrantedToDirect THEN Both(human, direct, HardDeny)
          ELSE IF ctx.agent = None THEN person
          ELSE Both(person, agent, [allowed |-> FALSE, approval |-> TRUE])
    BY DEF EvaluatePolicy
<1>3. e.allowed /\ ~HardDeny.allowed
    BY DEF HardDeny
<1>4. human # HardDeny => person = human
    <2>1. BoundTo(scoped, HumanIds(ctx)) = {} => human = HardDeny
        BY DEF HumanSide, DecideByRules
    <2> QED BY <2>1 DEF PersonMay
<1>5. CASE e = Both(human, direct, HardDeny)
    <2>1. human.allowed /\ human # HardDeny /\ (human.approval => e.approval)
        BY <1>1, <1>3, <1>5
    <2> QED BY <1>4, <2>1
<1>6. CASE e = Both(person, agent, [allowed |-> FALSE, approval |-> TRUE])
    <2>1. person.allowed /\ (person.approval => e.approval)
        BY <1>1, <1>3, <1>6
    <2> QED BY <2>1
<1>7. CASE e = person
    BY <1>3, <1>7
<1> QED BY <1>2, <1>3, <1>5, <1>6, <1>7

\* A verdict that lets a call run lets its person do all of it, and without an approval none of it asks for one.
LEMMA VerdictBounds ==
    ASSUME NEW ctx, NEW args, NEW approved \in BOOLEAN, RunVerdict(ctx, args, approved) = "ok", NEW q \in Needs(args)
    PROVE  PersonMay(ctx, rules, q).allowed /\ (PersonMay(ctx, rules, q).approval => approved)
<1> PICK ds : ds = {EvaluatePolicy(ctx, rules, p) : p \in Needs(args)}
    OBVIOUS
<1>1. \/ approved /\ VerdictApproved(ctx, rules, Needs(args)) = "ok"
      \/ Verdict(ctx, rules, Needs(args)) = "ok"
    BY DEF RunVerdict
<1>2. \/ approved /\ \A d \in ds : d.allowed
      \/ \A d \in ds : d.allowed /\ ~d.approval
    BY <1>1 DEF VerdictApproved, Verdict
<1>3. EvaluatePolicy(ctx, rules, q) \in ds
    OBVIOUS
<1> QED BY <1>2, <1>3, PersonBounds

Permitted(c) == RunVerdict(c.ctx, c.args, c.answer # None) = "ok"

PermitInv == \A e \in Delivery : IsCall(e, {"prepared", "executed"}) => Permitted(calls[e])

LEMMA PermitStep ==
    ASSUME ApprovalInv, PermitInv, NEW d \in Delivery, NEW c, calls' = [calls EXCEPT ![d] = c], rules' = rules,
           c \in Call /\ c.pc \in {"prepared", "executed"} => Permitted(c)
    PROVE  PermitInv'
<1>1. calls'[d] = c /\ \A e \in Delivery \ {d} : calls'[e] = calls[e]
    BY DEF ApprovalInv, TypeOK
<1>2. \A call : Permitted(call)' <=> Permitted(call)
    BY DEF Permitted, RunVerdict
<1> QED BY <1>1, <1>2 DEF PermitInv, IsCall

LEMMA RefusedPermits ==
    ASSUME ApprovalInv, PermitInv, NEW d \in Delivery, Refuse(d), rules' = rules
    PROVE  PermitInv'
<1>1. calls' = [calls EXCEPT ![d] = Ended] /\ Ended.pc = "refused"
    BY DEF Refuse, Ended
<1> QED BY <1>1, PermitStep

\* A first attempt runs by its verdict without an approval.
LEMMA AdmitPermits ==
    ASSUME ApprovalInv, PermitInv, NEW d \in Delivery, Admit(d)
    PROVE  PermitInv'
<1>1. rules' = rules
    BY DEF Admit
<1>2. CASE Refuse(d)
    BY <1>1, <1>2, RefusedPermits
<1>3. CASE ~Refuse(d)
    <2>1. calls[d] \in Call
        BY CalledAt DEF Admit, Stages, ApprovalInv
    <2> PICK v, pc : /\ v = RunVerdict(calls[d].ctx, calls[d].args, FALSE)
                     /\ pc = IF calls[d].answer # None THEN "answering" ELSE IF v = "ok" THEN "executed" ELSE "asking"
        OBVIOUS
    <2>2. /\ calls' = [calls EXCEPT ![d].pc = pc, ![d].at = now]
          /\ pc \in {"prepared", "executed"} => calls[d].answer = None /\ v = "ok"
        BY <1>3 DEF Admit
    <2> PICK c : c = [calls[d] EXCEPT !.pc = pc, !.at = now]
        OBVIOUS
    <2>3. calls' = [calls EXCEPT ![d] = c]
        BY <2>2 DEF ApprovalInv, TypeOK
    <2>4. c.pc = pc /\ c.ctx = calls[d].ctx /\ c.args = calls[d].args /\ c.answer = calls[d].answer
        BY <2>1 DEF Call
    <2>5. (c.answer # None) = FALSE => (Permitted(c) <=> RunVerdict(c.ctx, c.args, FALSE) = "ok")
        BY DEF Permitted
    <2>6. c.pc \in {"prepared", "executed"} => Permitted(c)
        BY <2>2, <2>4, <2>5
    <2> QED BY <1>1, <2>3, <2>6, PermitStep
<1> QED BY <1>2, <1>3

\* An approved one is prepared by the verdict for its approver, and is run unchanged.
LEMMA ApprovedPermits ==
    ASSUME ApprovalInv, PermitInv, NEW d \in Delivery, Prepare(d) \/ Execute(d)
    PROVE  PermitInv'
<1>1. rules' = rules
    BY DEF Prepare, Execute
<1>2. CASE Refuse(d)
    BY <1>1, <1>2, RefusedPermits
<1>3. CASE Prepare(d) /\ ~Refuse(d)
    <2>1. calls[d] \in Call /\ calls[d].answer # None
        <3>1. calls[d] \in Call /\ calls[d].pc = "answering" /\ CallOk(d)
            BY <1>3, CalledAt DEF Prepare, Stages, ApprovalInv
        <3> QED BY <3>1 DEF CallOk, IsCall
    <2>2. PICK r, args : /\ RunVerdict(calls[d].ctx, args, TRUE) = "ok"
                         /\ calls' = [calls EXCEPT ![d].pc = "prepared", ![d].row = r, ![d].args = args]
        BY <1>3 DEF Prepare
    <2> PICK c : c = [calls[d] EXCEPT !.pc = "prepared", !.row = r, !.args = args]
        OBVIOUS
    <2>3. calls' = [calls EXCEPT ![d] = c]
        BY <2>2 DEF ApprovalInv, TypeOK
    <2>4. c.ctx = calls[d].ctx /\ c.args = args /\ c.answer = calls[d].answer
        BY <2>1 DEF Call
    <2>5. (c.answer # None) = TRUE => (Permitted(c) <=> RunVerdict(c.ctx, c.args, TRUE) = "ok")
        BY DEF Permitted
    <2>6. Permitted(c)
        BY <2>1, <2>2, <2>4, <2>5
    <2> QED BY <1>1, <2>3, <2>6, PermitStep
<1>4. CASE Execute(d)
    <2>1. calls[d] \in Call /\ Permitted(calls[d])
        <3>1. calls[d] \in Call /\ calls[d].pc = "prepared"
            BY <1>4, CalledAt DEF Execute, Stages, ApprovalInv
        <3> QED BY <3>1 DEF PermitInv, IsCall
    <2>2. PICK asker : calls' = [calls EXCEPT ![d].pc = "executed", ![d].asker = asker]
        BY <1>4 DEF Execute
    <2> PICK c : c = [calls[d] EXCEPT !.pc = "executed", !.asker = asker]
        OBVIOUS
    <2>3. calls' = [calls EXCEPT ![d] = c]
        BY <2>2 DEF ApprovalInv, TypeOK
    <2>4. c.ctx = calls[d].ctx /\ c.args = calls[d].args /\ c.answer = calls[d].answer
        BY <2>1 DEF Call
    <2>5. Permitted(c)
        BY <2>1, <2>4 DEF Permitted
    <2> QED BY <1>1, <2>3, <2>5, PermitStep
<1> QED BY <1>2, <1>3, <1>4

LEMMA OtherPermits ==
    ASSUME ApprovalInv, PermitInv, NEW d \in Delivery,
           Arrive(d) \/ FindDuplicate(d) \/ PlaceApproval(d) \/ RejectApproval(d) \/ Abort(d)
    PROVE  PermitInv'
<1>1. rules' = rules
    BY DEF Arrive, FindDuplicate, PlaceApproval, RejectApproval, Abort
<1>2. CASE Refuse(d)
    BY <1>1, <1>2, RefusedPermits
<1>3. CASE Arrive(d)
    <2>1. PICK c \in Call \cup {Ended} : calls' = [calls EXCEPT ![d] = c] /\ (c \in Call => c.pc = "verified")
        BY <1>3, ArrivedCall
    <2> QED BY <1>1, <2>1, PermitStep
<1>4. CASE (FindDuplicate(d) \/ PlaceApproval(d)) /\ ~Refuse(d)
    <2>1. PICK row, due : \/ calls' = [calls EXCEPT ![d].pc = "placing", ![d].row = row]
                          \/ calls' = [calls EXCEPT ![d].pc = "challenged", ![d].due = due]
        BY <1>4 DEF FindDuplicate, PlaceApproval
    <2>2. calls[d] \in Call
        BY <1>4, CalledAt DEF FindDuplicate, PlaceApproval, Stages, ApprovalInv
    <2> PICK a, b : /\ a = [calls[d] EXCEPT !.pc = "placing", !.row = row]
                    /\ b = [calls[d] EXCEPT !.pc = "challenged", !.due = due]
        OBVIOUS
    <2>3. a.pc = "placing" /\ b.pc = "challenged"
        BY <2>2 DEF Call
    <2>4. calls' = [calls EXCEPT ![d] = a] \/ calls' = [calls EXCEPT ![d] = b]
        BY <2>1 DEF ApprovalInv, TypeOK
    <2> QED BY <1>1, <2>3, <2>4, PermitStep
<1> QED BY <1>2, <1>3, <1>4 DEF RejectApproval, Abort

LEMMA PermitInvStep == ApprovalInv /\ PermitInv /\ [Next]_vars => PermitInv'
<1> SUFFICES ASSUME ApprovalInv, PermitInv, [Next]_vars PROVE PermitInv'
    OBVIOUS
<1>1. CASE Tick \/ UNCHANGED vars
    <2>1. calls' = calls /\ rules' = rules
        BY <1>1 DEF Tick, vars
    <2>2. \A call : Permitted(call)' <=> Permitted(call)
        BY <2>1 DEF Permitted, RunVerdict
    <2> QED BY <2>1, <2>2 DEF PermitInv, IsCall
<1> QED BY <1>1, AdmitPermits, ApprovedPermits, OtherPermits DEF Next

\* Under every set of rules, whatever tool runs was open to the person it runs for: a policy never lets an
\* agent or a direct client do what its person may not, and what needs approval runs only with one
\* (evaluatePolicy, policy.ts; withApproval, mcp/tools/approval.ts).
THEOREM PersonStaysBound == Spec => []PersonNotExceeded
<1>1. Init => ApprovalInv /\ PermitInv
    <2>1. Init => PermitInv
        BY ApprovalsAssumption DEF Init, PermitInv, IsCall, ApprovalsAssumption
    <2> QED BY <2>1, InitApprovals
<1>2. ApprovalInv /\ PermitInv /\ [Next]_vars => (ApprovalInv /\ PermitInv)'
    BY ApprovalInvStep, PermitInvStep
<1>3. ApprovalInv /\ PermitInv => PersonNotExceeded
    <2> SUFFICES ASSUME ApprovalInv, PermitInv, NEW d \in In("executed"), NEW q \in Needs(calls[d].args)
                 PROVE  LET p == PersonMay(calls[d].ctx, rules, q)
                        IN  p.allowed /\ (p.approval => d \in Approved)
        BY DEF PersonNotExceeded
    <2>1. d \in Delivery /\ calls[d] \in Call /\ calls[d].pc = "executed"
        BY CalledAt DEF Stages, ApprovalInv
    <2>2. RunVerdict(calls[d].ctx, calls[d].args, calls[d].answer # None) = "ok"
        BY <2>1 DEF PermitInv, IsCall, Permitted
    <2>3. /\ PersonMay(calls[d].ctx, rules, q).allowed
          /\ PersonMay(calls[d].ctx, rules, q).approval => calls[d].answer # None
        BY <2>2, VerdictBounds
    <2> QED BY <2>3 DEF Approved
<1> QED BY <1>1, <1>2, <1>3, PTL DEF Spec
====
