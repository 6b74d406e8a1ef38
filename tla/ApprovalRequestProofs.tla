----------------------- MODULE ApprovalRequestProofs -----------------------
(***************************************************************************)
(* Proofs about the decision of an approval request.                       *)
(***************************************************************************)
EXTENDS ApprovalRequest, FiniteSetTheorems, TLAPS

\* What a decider holds is fit to be written: the approvals it loaded are of
\* approvers that may approve, and so is the one it is about to add.
Fit(d, u) ==
  /\ d.before \cap Askers = {}
  /\ d.pc = "loaded" /\ d.verb = "approve" => u \notin Askers

IInv ==
  /\ TypeOK
  /\ request.status = "approved" => Satisfied(request.approvedBy)
  /\ request.approvedBy \cap Askers = {}
  /\ \A u \in Approvers : Fit(decider[u], u)

\* The counts of isApprovalSatisfied ask for what the types mean.
LEMMA SatisfiedIsQuorum ==
  ASSUME NEW approvals \in SUBSET Approvers, request.kind \in Kinds,
         Satisfied(approvals)
  PROVE  Quorum(request.kind, approvals)
<1> DEFINE others == Approvers \ approvals
<1>1. /\ IsFiniteSet(Approvers) /\ IsFiniteSet(approvals) /\ IsFiniteSet(others)
      /\ Cardinality(Approvers) \in Nat /\ Cardinality(approvals) \in Nat /\ Cardinality(others) \in Nat
  BY FS_Subset, FS_Difference, FS_CardinalityType, ApproversAssumption DEF ApproversAssumption
<1>2. CASE request.kind = "any"
  BY <1>1, <1>2, FS_EmptySet DEF Satisfied, Quorum
<1>3. CASE request.kind = "all"
  <2>1. Cardinality(approvals) >= Cardinality(Approvers)
    BY <1>3 DEF Satisfied
  <2>2. approvals = Approvers
    BY <1>1, <2>1, FS_Subset
  <2> QED BY <1>3, <2>2 DEF Quorum
<1>4. CASE request.kind = "majority"
  <2>1. 2 * Cardinality(approvals) > Cardinality(Approvers)
    BY <1>4 DEF Satisfied
  <2>2. Cardinality(others) = Cardinality(Approvers) - Cardinality(Approvers \cap approvals)
    BY <1>1, FS_Difference
  <2>3. Approvers \cap approvals = approvals
    OBVIOUS
  <2>4. Cardinality(others) = Cardinality(Approvers) - Cardinality(approvals)
    BY <2>2, <2>3
  <2>5. ASSUME NEW a \in Nat, NEW n \in Nat, 2 * a > n PROVE a > n - a
    BY <2>5
  <2>6. Cardinality(approvals) > Cardinality(Approvers) - Cardinality(approvals)
    BY <1>1, <2>1, <2>5
  <2> QED BY <1>4, <2>4, <2>6 DEF Quorum
<1> QED BY <1>2, <1>3, <1>4 DEF Kinds

THEOREM Invariance == Spec => []IInv
<1>1. Init => IInv
  <2> SUFFICES ASSUME Init PROVE IInv
    OBVIOUS
  <2>1. /\ request \in [kind: Kinds, article: BOOLEAN, status: Statuses,
                        approvedBy: SUBSET Approvers, rejectedBy: Approvers \cup {Nobody}]
        /\ request.status = "pending" /\ request.approvedBy = {}
    BY DEF Init, Statuses
  <2>2. TypeOK /\ \A u \in Approvers : Fit(decider[u], u)
    BY <2>1 DEF Init, TypeOK, Fit, Idle
  <2> QED BY <2>1, <2>2 DEF IInv
<1>2. IInv /\ [Next]_vars => IInv'
  <2> SUFFICES ASSUME IInv, [Next]_vars PROVE IInv'
    OBVIOUS
  <2> USE DEF IInv, TypeOK, Statuses
  <2>1. CASE UNCHANGED vars
    BY <2>1 DEF vars, Satisfied, Fit
  <2>2. ASSUME NEW u \in Approvers, NEW verb \in {"approve", "reject"}, Load(u, verb) PROVE IInv'
    BY <2>2 DEF Load, MayDecide, Satisfied, Fit
  <2>3. ASSUME NEW u \in Approvers, Approve(u) PROVE IInv'
    <3> DEFINE approvals == decider[u].before \cup {u}
    <3>1. approvals \in SUBSET Approvers /\ approvals \cap Askers = {}
      BY <2>3 DEF Approve, Fit
    <3>2. request' = [request EXCEPT !.approvedBy = approvals,
                                     !.status = IF Satisfied(approvals) THEN "approved" ELSE "pending"]
      BY <2>3 DEF Approve
    <3>3. request'.kind = request.kind /\ request'.approvedBy = approvals
      BY <3>2
    <3>4. request'.status = "approved" => Satisfied(approvals)
      BY <3>2
    <3>5. request'.status = "approved" => Satisfied(request.approvedBy)'
      BY <3>3, <3>4 DEF Satisfied
    <3>6. TypeOK'
      <4>1. (IF Satisfied(approvals) THEN "approved" ELSE "pending") \in Statuses
        OBVIOUS
      <4>2. request' \in [kind: Kinds, article: BOOLEAN, status: Statuses,
                          approvedBy: SUBSET Approvers, rejectedBy: Approvers \cup {Nobody}]
        BY <3>1, <3>2, <4>1
      <4> QED BY <2>3, <4>2 DEF Approve
    <3>7. \A v \in Approvers : Fit(decider'[v], v)
      BY <2>3 DEF Approve, Fit
    <3> QED BY <3>1, <3>3, <3>5, <3>6, <3>7
  <2>4. ASSUME NEW u \in Approvers, Reject(u) PROVE IInv'
    BY <2>4 DEF Reject, Satisfied, Fit
  <2>5. ASSUME NEW u \in Approvers, Follow(u) PROVE IInv'
    BY <2>5 DEF Follow, Target, Satisfied, Fit, Idle
  <2>6. ASSUME NEW u \in Approvers, StayPut(u) PROVE IInv'
    <3>1. request' = request /\ place' = place /\ leaving' = leaving /\ canceller' = canceller
      BY <2>6 DEF StayPut
    <3>2. /\ decider' = [decider EXCEPT ![u] = decider'[u]]
          /\ decider'[u] \in [pc: {"idle", "refused"}, verb: {"approve", "reject"}, before: SUBSET Approvers]
          /\ decider'[u].before \in {{}, decider[u].before}
      BY <2>6 DEF StayPut, Idle
    <3>3. decider' \in [Approvers -> [pc: {"idle", "loaded", "decided", "refused"},
                                      verb: {"approve", "reject"}, before: SUBSET Approvers]]
      BY <3>2
    <3>4. \A v \in Approvers : Fit(decider'[v], v)
      BY <3>2 DEF Fit
    <3> QED BY <3>1, <3>3, <3>4 DEF Satisfied
  <2>7. ASSUME NEW u \in Approvers, GiveBack(u) PROVE IInv'
    BY <2>7 DEF GiveBack, Satisfied, Fit, Idle
  <2>8. CASE Leave
    BY <2>8 DEF Leave, Satisfied, Fit
  <2>9. CASE Withdraw
    BY <2>9 DEF Withdraw, Satisfied, Fit
  <2>10. CASE LoadToCancel
    BY <2>10 DEF LoadToCancel, Satisfied, Fit
  <2>11. CASE Cancel
    BY <2>11 DEF Cancel, Satisfied, Fit
  <2> QED BY <2>1, <2>2, <2>3, <2>4, <2>5, <2>6, <2>7, <2>8, <2>9, <2>10, <2>11 DEF Next
<1> QED BY <1>1, <1>2, PTL DEF Spec

\* Every variable of the decision keeps its type.
THEOREM TypesHold == Spec => []TypeOK
<1>1. IInv => TypeOK
  BY DEF IInv
<1> QED BY <1>1, Invariance, PTL

\* For any number of approvers and askers, and however their calls overlap, a
\* request shown as approved carries what its approval_type asks for.
THEOREM ApprovedMeansQuorum == Spec => []ApprovedByQuorum
<1>1. IInv => ApprovedByQuorum
  BY SatisfiedIsQuorum DEF IInv, TypeOK, ApprovedByQuorum
<1> QED BY <1>1, Invariance, PTL
=============================================================================
