--------------------------- MODULE ApprovalsProofs ---------------------------
(* Theorems about Approvals, for any number of events, requests, names,       *)
(* limits and faults.  The processes that apply plans are two, as in the      *)
(* code.                                                                      *)
EXTENDS Approvals, TLAPS, FiniteSetTheorems

Place    == {"idle", "request", "check", "create", "count", "cool", "advance"}
Applying == {"check", "create", "count", "cool"}

ReqTyped ==
    /\ status \in [Request -> ReqStatus] /\ event \in [Request -> Nat]
    /\ asked \in [Request -> Name \cup {None}] /\ edited \in [Request -> Name \cup {None}]
ProcsTyped ==
    pc \in [Process -> Place] /\ plan \in [Process -> Name \cup {None}]
FlowsTyped ==
    /\ active \in [Name -> BOOLEAN] /\ completed \in [Name -> BOOLEAN]
    /\ cooling \in [Name -> BOOLEAN]
CountsTyped ==
    /\ cursor \in Nat /\ quota \in Nat /\ thisHour \in Nat /\ faults \in Nat
    /\ granted \in [Name -> Nat] /\ started \in [External -> Nat]
ApprTypeOK == ReqTyped /\ ProcsTyped /\ FlowsTyped /\ CountsTyped

\* A row that is inserted has a plan; a process that is not idle has one; the
\* listener never applies a plan that needs an approval.
RowsOK == \A r \in Request : status[r] # "absent" => asked[r] \in Name /\ event[r] > 0
PlansOK ==
    /\ \A p \in Process : pc[p] \in Applying \cup {"request"} => plan[p] \in Name
    /\ pc["listener"] \in Applying => plan["listener"] \notin External
    /\ pc["api"] \notin {"request", "advance"}

\* An approval that is not used up yet is in the hands of the API.
ToStart(n) == IF pc["api"] \in {"check", "create"} /\ plan["api"] = n THEN 1 ELSE 0
GateOK == \A n \in External : started[n] + ToStart(n) <= granted[n]

\* The requests of an event: none before its turn, and before the listener is
\* through with it one for each fault only.
Of(e) == {r \in Request : event[r] = e}
AskedOK ==
    \A e \in Event :
        /\ e > cursor + 1 => Of(e) = {}
        /\ e = cursor + 1 /\ pc["listener"] # "advance" => Cardinality(Of(e)) <= faults
        /\ Cardinality(Of(e)) <= 1 + faults
OnePending ==
    \A r, s \in Request :
        /\ status[r] = "pending" /\ status[s] = "pending"
        /\ event[r] = event[s] /\ asked[r] = asked[s]
        => r = s

\* The counter misses what is about to be counted and what a fault kept from it;
\* the limit is exceeded by a process that checked beside the other one.
At(p, label) == IF pc[p] = label THEN 1 ELSE 0
QuotaOK ==
    /\ thisHour <= quota + (At("listener", "count") + At("api", "count")) + faults
    /\ thisHour + (At("listener", "create") + At("api", "create")) <= HourlyLimit + 1 + faults
    /\ \A p \in Process : pc[p] = "create" => HourlyLimit > 0

ApprInv == ApprTypeOK /\ RowsOK /\ PlansOK /\ GateOK /\ AskedOK /\ OnePending /\ QuotaOK

-----------------------------------------------------------------------------
\* Nobody has asked anything yet.
LEMMA ApprInvInit == ApprInit => ApprInv
<1> SUFFICES ASSUME ApprInit PROVE ApprInv
  OBVIOUS
<1>1. ApprTypeOK
  BY DEF ApprInit, ApprTypeOK, ReqTyped, ProcsTyped, FlowsTyped, CountsTyped, ReqStatus, Place,
     None
<1>2. RowsOK /\ PlansOK /\ GateOK /\ OnePending
  BY ApprovalAssumption DEF ApprInit, RowsOK, PlansOK, GateOK, ToStart, OnePending, Process,
     Applying
<1>3. AskedOK
  <2>1. \A e \in Event : Of(e) = {}
    BY DEF ApprInit, Of, Event
  <2>. QED  BY <2>1, FS_EmptySet DEF ApprInit, AskedOK
<1>4. QuotaOK
  BY ApprovalAssumption DEF ApprInit, QuotaOK, At, Process
<1>. QED  BY <1>1, <1>2, <1>3, <1>4 DEF ApprInv

\* The parts of the invariant that a step cannot disturb when it leaves these
\* variables alone.
LEMMA RequestsKept ==
    ASSUME ApprInv, UNCHANGED reqVars PROVE ReqTyped' /\ RowsOK' /\ OnePending'
BY DEF ApprInv, ApprTypeOK, ReqTyped, RowsOK, OnePending, reqVars

LEMMA AskedKept ==
    ASSUME ApprInv, faults' \in Nat, faults' >= faults, UNCHANGED <<cursor, event>>,
           pc'["listener"] # "advance" /\ pc["listener"] = "advance" => faults' > faults
    PROVE  AskedOK'
<1> SUFFICES ASSUME NEW e \in Event
             PROVE  /\ e > cursor' + 1 => Of(e)' = {}
                    /\ e = cursor' + 1 /\ pc'["listener"] # "advance"
                          => Cardinality(Of(e)') <= faults'
                    /\ Cardinality(Of(e)') <= 1 + faults'
  BY DEF AskedOK
<1>1. Of(e)' = Of(e) /\ cursor' = cursor
  BY DEF Of
<1>2. Cardinality(Of(e)) \in Nat
  <2>1. IsFiniteSet(Request)
    BY ApprovalAssumption, FS_Interval DEF Request
  <2>. QED  BY <2>1, FS_Subset, FS_CardinalityType DEF Of
<1>3. faults \in Nat
  BY DEF ApprInv, ApprTypeOK, CountsTyped
<1>. QED  BY <1>1, <1>2, <1>3 DEF ApprInv, AskedOK

\* One lemma for each action.
LEMMA PlanEventInv ==
    ASSUME ApprInv, NEW n \in Name \cup {None}, PlanEvent(n) PROVE ApprInv'
<1>1. ApprTypeOK'
  BY DEF PlanEvent, Settled, Goto, ApprInv, ApprTypeOK, ReqTyped, ProcsTyped, FlowsTyped,
     CountsTyped, reqVars, flowVars, safeVars, histVars, Place
<1>2. PlansOK'
  BY DEF PlanEvent, Settled, Goto, ApprInv, ApprTypeOK, ProcsTyped, PlansOK, Process, Applying,
     NeedsApproval
<1>3. GateOK'
  BY DEF PlanEvent, Settled, Goto, ApprInv, ApprTypeOK, ProcsTyped, GateOK, ToStart, histVars,
     Process
<1>4. AskedOK'
  BY AskedKept DEF PlanEvent, ApprInv, ApprTypeOK, CountsTyped, reqVars
<1>5. QuotaOK'
  BY DEF PlanEvent, Settled, Goto, ApprInv, ApprTypeOK, ProcsTyped, CountsTyped, QuotaOK, At,
     Process, safeVars, histVars
<1>. QED  BY <1>1, <1>2, <1>3, <1>4, <1>5, RequestsKept DEF ApprInv, PlanEvent

LEMMA RequestApprovalInv ==
    ASSUME ApprInv, RequestApproval PROVE ApprInv'
<1> DEFINE e == cursor + 1
           n == plan["listener"]
<1>1. /\ pc["listener"] = "request" /\ n \in Name /\ e \in Nat /\ e > 0
      /\ pc' = [pc EXCEPT !["listener"] = "advance"]
      /\ plan' = [plan EXCEPT !["listener"] = None]
      /\ UNCHANGED <<cursor, edited, flowVars, safeVars, histVars, faults>>
  BY DEF RequestApproval, Settled, Goto, ApprInv, PlansOK, ApprTypeOK, CountsTyped, Process,
     reqVars
<1>2. ProcsTyped' /\ FlowsTyped' /\ CountsTyped'
  BY <1>1 DEF ApprInv, ApprTypeOK, ProcsTyped, FlowsTyped, CountsTyped, flowVars, safeVars,
     histVars, Place, Process
<1>3. PlansOK'
  BY <1>1 DEF ApprInv, ApprTypeOK, ProcsTyped, PlansOK, Process, Applying
<1>4. GateOK' /\ QuotaOK'
  BY <1>1 DEF ApprInv, ApprTypeOK, ProcsTyped, GateOK, ToStart, QuotaOK, At, Process, safeVars,
     histVars
<1>5. CASE UNCHANGED reqVars
  <2>1. AskedOK'
    BY <1>1, <1>5, AskedKept DEF ApprInv, ApprTypeOK, CountsTyped, reqVars
  <2>. QED  BY <1>2, <1>3, <1>4, <1>5, <2>1, RequestsKept DEF ApprInv, ApprTypeOK
<1>6. ASSUME NEW r \in Request, IsNext(r), PendingWith(e, n) = {},
             status' = [status EXCEPT ![r] = "pending"],
             event' = [event EXCEPT ![r] = e],
             asked' = [asked EXCEPT ![r] = n]
      PROVE  ApprInv'
  <2>1. ReqTyped' /\ RowsOK'
    BY <1>1, <1>6 DEF ApprInv, ApprTypeOK, ReqTyped, RowsOK, ReqStatus
  <2>2. OnePending'
    BY <1>6 DEF ApprInv, ApprTypeOK, ReqTyped, OnePending, PendingWith, SameHash
  <2>3. AskedOK'
    <3> SUFFICES ASSUME NEW f \in Event
                 PROVE  /\ f > cursor' + 1 => Of(f)' = {}
                        /\ f = cursor' + 1 /\ pc'["listener"] # "advance"
                              => Cardinality(Of(f)') <= faults'
                        /\ Cardinality(Of(f)') <= 1 + faults'
      BY DEF AskedOK
    <3>1. f # e => Of(f)' \subseteq Of(f)
      BY <1>6 DEF Of, ApprInv, ApprTypeOK, ReqTyped
    <3>2. Of(e)' \subseteq Of(e) \cup {r}
      BY <1>1, <1>6 DEF Of, ApprInv, ApprTypeOK, ReqTyped
    <3>3. IsFiniteSet(Of(f)) /\ IsFiniteSet(Of(e))
      <4>1. IsFiniteSet(Request)
        BY ApprovalAssumption, FS_Interval DEF Request
      <4>. QED  BY <4>1, FS_Subset DEF Of
    <3>4. /\ f > cursor + 1 => Of(f) = {}
          /\ Cardinality(Of(f)) <= 1 + faults
          /\ f = e => Cardinality(Of(f)) <= faults
      BY <1>1 DEF ApprInv, AskedOK
    <3>5. faults \in Nat /\ cursor \in Nat /\ cursor' = cursor /\ faults' = faults
          /\ pc'["listener"] = "advance"
      BY <1>1 DEF ApprInv, ApprTypeOK, CountsTyped, ProcsTyped, Process
    <3>6. CASE f # e
      <4>1. Cardinality(Of(f)') <= Cardinality(Of(f)) /\ Cardinality(Of(f)') \in Nat
            /\ Cardinality(Of(f)) \in Nat
        BY <3>1, <3>3, <3>6, FS_Subset, FS_CardinalityType
      <4>. QED  BY <3>1, <3>4, <3>5, <3>6, <4>1 DEF Event
    <3>7. CASE f = e
      <4>1. /\ IsFiniteSet(Of(e) \cup {r})
            /\ Cardinality(Of(e) \cup {r}) <= Cardinality(Of(e)) + 1
        <5>1. /\ IsFiniteSet(Of(e) \cup {r}) /\ Cardinality(Of(e)) \in Nat
              /\ Cardinality(Of(e) \cup {r}) = IF r \in Of(e) THEN Cardinality(Of(e))
                                                ELSE Cardinality(Of(e)) + 1
          BY <3>3, FS_AddElement, FS_CardinalityType
        <5>. QED  BY <5>1
      <4>2. Cardinality(Of(e)') <= Cardinality(Of(e)) + 1 /\ Cardinality(Of(e)') \in Nat
            /\ Cardinality(Of(e)) \in Nat
        BY <3>2, <3>3, <4>1, FS_Subset, FS_CardinalityType
      <4>. QED  BY <3>4, <3>5, <3>7, <4>2 DEF Event
    <3>. QED  BY <3>6, <3>7
  <2>. QED  BY <1>2, <1>3, <1>4, <2>1, <2>2, <2>3 DEF ApprInv, ApprTypeOK
<1>. QED  BY <1>5, <1>6 DEF RequestApproval

LEMMA AdvanceInv ==
    ASSUME ApprInv, Advance PROVE ApprInv'
<1>1. ApprTypeOK'
  <2>1. ProcsTyped'
    BY DEF Advance, Goto, ApprInv, ApprTypeOK, ProcsTyped, Place
  <2>2. ReqTyped' /\ FlowsTyped' /\ CountsTyped'
    BY DEF Advance, ApprInv, ApprTypeOK, ReqTyped, FlowsTyped, CountsTyped, reqVars, flowVars,
       safeVars, histVars
  <2>. QED  BY <2>1, <2>2 DEF ApprTypeOK
<1>2. PlansOK'
  BY DEF Advance, Goto, ApprInv, ApprTypeOK, ProcsTyped, PlansOK, Process, Applying
<1>3. GateOK'
  BY DEF Advance, Goto, ApprInv, ApprTypeOK, ProcsTyped, GateOK, ToStart, histVars, Process
<1>4. AskedOK'
  <2> SUFFICES ASSUME NEW e \in Event
               PROVE  /\ e > cursor' + 1 => Of(e)' = {}
                      /\ e = cursor' + 1 /\ pc'["listener"] # "advance"
                            => Cardinality(Of(e)') <= faults'
                      /\ Cardinality(Of(e)') <= 1 + faults'
    BY DEF AskedOK
  <2>1. /\ Of(e)' = Of(e) /\ cursor' = cursor + 1 /\ faults' = faults
        /\ cursor \in Nat /\ faults \in Nat
    BY DEF Advance, Of, reqVars, ApprInv, ApprTypeOK, CountsTyped
  <2>2. Cardinality({}) = 0
    BY FS_EmptySet
  <2>3. (e > cursor + 1 => Of(e) = {}) /\ Cardinality(Of(e)) <= 1 + faults
    BY DEF ApprInv, AskedOK
  <2>. QED  BY <2>1, <2>2, <2>3 DEF Event
<1>5. QuotaOK'
  BY DEF Advance, Goto, ApprInv, ApprTypeOK, ProcsTyped, CountsTyped, QuotaOK, At, Process,
     safeVars, histVars
<1>. QED  BY <1>1, <1>2, <1>3, <1>4, <1>5, RequestsKept DEF ApprInv, Advance

LEMMA ApproveInv ==
    ASSUME ApprInv, NEW r \in Request, Approve(r) PROVE ApprInv'
<1> DEFINE n == EffectivePlan(r)
<1>1. n \in Name
  BY DEF Approve, EffectivePlan, ApprInv, ApprTypeOK, ReqTyped, RowsOK
<1>2. /\ pc["api"] = "idle"
      /\ pc' = [pc EXCEPT !["api"] = "check"] /\ plan' = [plan EXCEPT !["api"] = n]
      /\ granted' = [granted EXCEPT ![n] = @ + 1]
      /\ status' = [status EXCEPT ![r] = "approved"]
      /\ UNCHANGED <<cursor, event, asked, edited, flowVars, safeVars, started, thisHour, faults>>
  BY DEF Approve, Goto
<1> HIDE DEF n
<1>3. ApprTypeOK'
  <2>1. ReqTyped' /\ ProcsTyped'
    BY <1>1, <1>2 DEF ApprInv, ApprTypeOK, ReqTyped, ProcsTyped, Place, ReqStatus
  <2>2. FlowsTyped' /\ CountsTyped'
    BY <1>1, <1>2 DEF ApprInv, ApprTypeOK, FlowsTyped, CountsTyped, flowVars, safeVars
  <2>. QED  BY <2>1, <2>2 DEF ApprTypeOK
<1>4. RowsOK' /\ OnePending'
  BY <1>2 DEF Approve, ApprInv, ApprTypeOK, ReqTyped, RowsOK, OnePending
<1>5. PlansOK'
  BY <1>1, <1>2 DEF ApprInv, ApprTypeOK, ProcsTyped, PlansOK, Process, Applying
<1>6. GateOK'
  <2> SUFFICES ASSUME NEW m \in External PROVE (started[m] + ToStart(m) <= granted[m])'
    BY DEF GateOK
  <2>1. m \in Name /\ started[m] \in Nat /\ granted[m] \in Nat
    BY ApprovalAssumption DEF ApprInv, ApprTypeOK, CountsTyped
  <2>2. started[m] <= granted[m]
    BY <1>2, <2>1 DEF ApprInv, GateOK, ToStart
  <2>3. ToStart(m)' = IF n = m THEN 1 ELSE 0
    BY <1>2 DEF ToStart, ApprInv, ApprTypeOK, ProcsTyped, Process
  <2>4. granted'[m] = IF n = m THEN granted[m] + 1 ELSE granted[m]
    BY <1>2, <2>1 DEF ApprInv, ApprTypeOK, CountsTyped
  <2>. QED  BY <1>2, <2>1, <2>2, <2>3, <2>4
<1>7. AskedOK'
  BY <1>2, AskedKept DEF ApprInv, ApprTypeOK, CountsTyped, ProcsTyped, Process
<1>8. QuotaOK'
  BY <1>2 DEF ApprInv, ApprTypeOK, ProcsTyped, CountsTyped, QuotaOK, At, Process, safeVars
<1>. QED  BY <1>3, <1>4, <1>5, <1>6, <1>7, <1>8 DEF ApprInv

LEMMA OperatorInv ==
    ASSUME ApprInv, NEW r \in Request,
           Reject(r) \/ RetryApproval(r) \/ \E n \in Name : EditProposal(r, n)
    PROVE  ApprInv'
<1>1. UNCHANGED <<cursor, event, asked, procVars, flowVars, safeVars, histVars, faults>>
  BY DEF Reject, RetryApproval, EditProposal
<1>2. /\ status' \in {status, [status EXCEPT ![r] = "rejected"], [status EXCEPT ![r] = "pending"]}
      /\ \/ edited' = edited
         \/ \E n \in Name : edited' = [edited EXCEPT ![r] = n]
      /\ status[r] # "absent"
  BY DEF Reject, RetryApproval, EditProposal
<1>3. ReqTyped' /\ RowsOK'
  BY <1>1, <1>2 DEF ApprInv, ApprTypeOK, ReqTyped, ReqStatus, RowsOK
<1>4. ApprTypeOK'
  BY <1>1, <1>3 DEF ApprInv, ApprTypeOK, ProcsTyped, FlowsTyped, CountsTyped, procVars, flowVars,
     safeVars, histVars
<1>5. OnePending'
  <2>1. CASE RetryApproval(r)
    BY <2>1 DEF RetryApproval, ApprInv, ApprTypeOK, ReqTyped, OnePending, PendingWith, SameHash
  <2>2. CASE Reject(r)
    BY <2>2 DEF Reject, ApprInv, ApprTypeOK, ReqTyped, OnePending
  <2>3. CASE \E n \in Name : EditProposal(r, n)
    BY <2>3 DEF EditProposal, ApprInv, OnePending
  <2>. QED  BY <2>1, <2>2, <2>3
<1>6. PlansOK' /\ GateOK' /\ QuotaOK'
  BY <1>1 DEF ApprInv, PlansOK, GateOK, ToStart, QuotaOK, At, procVars, safeVars, histVars
<1>7. AskedOK'
  BY <1>1, AskedKept DEF ApprInv, ApprTypeOK, CountsTyped, procVars
<1>. QED  BY <1>3, <1>4, <1>5, <1>6, <1>7 DEF ApprInv

LEMMA CheckSafetyInv ==
    ASSUME ApprInv, NEW p \in Process, CheckSafety(p) PROVE ApprInv'
<1>1. ApprTypeOK'
  BY DEF CheckSafety, Settled, Goto, ApprInv, ApprTypeOK, ReqTyped, ProcsTyped, FlowsTyped,
     CountsTyped, reqVars, flowVars, safeVars, histVars, Place
<1>2. PlansOK'
  BY DEF CheckSafety, Settled, Goto, ApprInv, ApprTypeOK, ProcsTyped, PlansOK, Process, Applying
<1>3. GateOK'
  BY ApprovalAssumption DEF CheckSafety, Settled, Goto, ApprInv, ApprTypeOK, ProcsTyped, GateOK,
     ToStart, histVars, Process, CountsTyped
<1>4. AskedOK'
  BY AskedKept DEF CheckSafety, Settled, Goto, ApprInv, ApprTypeOK, CountsTyped, ProcsTyped,
     Process, reqVars
<1>5. QuotaOK'
  BY ApprovalAssumption DEF CheckSafety, Safe, Settled, Goto, ApprInv, ApprTypeOK, ProcsTyped,
     CountsTyped, QuotaOK, At, Process, safeVars, histVars
<1>. QED  BY <1>1, <1>2, <1>3, <1>4, <1>5, RequestsKept DEF ApprInv, CheckSafety

LEMMA CreateWorkflowInv ==
    ASSUME ApprInv, NEW p \in Process, CreateWorkflow(p) PROVE ApprInv'
<1> DEFINE n == plan[p]
<1>1. /\ n \in Name /\ pc[p] = "create"
      /\ UNCHANGED <<cursor, reqVars, completed, safeVars, granted, faults>>
  BY DEF CreateWorkflow, ApprInv, PlansOK, Applying
<1>2. p = "listener" => n \notin External
  BY <1>1 DEF ApprInv, PlansOK, Applying
<1>3. CASE WorkflowExists(n)
  <2>1. Settled(p) /\ UNCHANGED <<active, started, thisHour>>
    BY <1>3 DEF CreateWorkflow
  <2>2. ApprTypeOK'
    BY <1>1, <2>1 DEF Settled, Goto, ApprInv, ApprTypeOK, ReqTyped, ProcsTyped, FlowsTyped,
       CountsTyped, reqVars, safeVars, Place
  <2>3. PlansOK'
    BY <2>1 DEF Settled, Goto, ApprInv, ApprTypeOK, ProcsTyped, PlansOK, Process, Applying
  <2>4. GateOK'
    BY ApprovalAssumption, <1>1, <2>1 DEF Settled, Goto, ApprInv, ApprTypeOK, ProcsTyped, GateOK,
       ToStart, Process, CountsTyped
  <2>5. QuotaOK'
    BY ApprovalAssumption, <1>1, <2>1 DEF Settled, Goto, ApprInv, ApprTypeOK, ProcsTyped,
       CountsTyped, QuotaOK, At, Process, safeVars
  <2>6. AskedOK'
    BY <1>1, <2>1, AskedKept DEF Settled, Goto, ApprInv, ApprTypeOK, CountsTyped, ProcsTyped,
       Process, reqVars
  <2>. QED  BY <1>1, <2>2, <2>3, <2>4, <2>5, <2>6, RequestsKept DEF ApprInv
<1>4. CASE ~WorkflowExists(n)
  <2>1. /\ active' = [active EXCEPT ![n] = TRUE]
        /\ started' = [m \in External |-> started[m] + IF m = n THEN 1 ELSE 0]
        /\ thisHour' = thisHour + 1
        /\ pc' = [pc EXCEPT ![p] = "count"] /\ plan' = plan
    BY <1>4 DEF CreateWorkflow, Goto
  <2> HIDE DEF n
  <2>2. ApprTypeOK'
    <3>1. started' \in [External -> Nat]
      BY <2>1 DEF ApprInv, ApprTypeOK, CountsTyped
    <3>. QED  BY <1>1, <2>1, <3>1 DEF ApprInv, ApprTypeOK, ReqTyped, ProcsTyped, FlowsTyped,
                 CountsTyped, reqVars, safeVars, Place
  <2>3. PlansOK'
    BY <1>1, <2>1 DEF ApprInv, ApprTypeOK, ProcsTyped, PlansOK, Process, Applying
  <2>4. GateOK'
    <3> SUFFICES ASSUME NEW m \in External PROVE (started[m] + ToStart(m) <= granted[m])'
      BY DEF GateOK
    <3>1. started[m] \in Nat /\ granted[m] \in Nat
      BY ApprovalAssumption DEF ApprInv, ApprTypeOK, CountsTyped
    <3>2. started[m] + ToStart(m) <= granted[m]
      BY DEF ApprInv, GateOK
    <3>3. started'[m] = (IF m = n THEN started[m] + 1 ELSE started[m]) /\ granted' = granted
      BY <1>1, <2>1, <3>1
    <3>4. CASE m = n
      <4>1. p = "api"
        BY <1>2, <3>4 DEF Process
      <4>2. ToStart(m) = 1
        BY <1>1, <3>4, <4>1 DEF ToStart, n
      <4>3. ToStart(m)' = 0
        BY <1>1, <2>1, <4>1 DEF ToStart, ApprInv, ApprTypeOK, ProcsTyped
      <4>. QED  BY <3>1, <3>2, <3>3, <3>4, <4>2, <4>3
    <3>5. CASE m # n
      <4>1. ToStart(m)' = ToStart(m) \/ ToStart(m)' = 0
        BY <2>1 DEF ToStart, ApprInv, ApprTypeOK, ProcsTyped, Process
      <4>2. ToStart(m) \in {0, 1}
        BY DEF ToStart
      <4>. QED  BY <3>1, <3>2, <3>3, <3>5, <4>1, <4>2
    <3>. QED  BY <3>4, <3>5
  <2>5. QuotaOK'
    BY ApprovalAssumption, <1>1, <2>1 DEF ApprInv, ApprTypeOK, ProcsTyped, CountsTyped, QuotaOK,
       At, Process, safeVars
  <2>6. AskedOK'
    BY <1>1, <2>1, AskedKept DEF ApprInv, ApprTypeOK, CountsTyped, ProcsTyped, Process, reqVars
  <2>. QED  BY <1>1, <2>2, <2>3, <2>4, <2>5, <2>6, RequestsKept DEF ApprInv
<1>. QED  BY <1>3, <1>4

LEMMA RecordExecutionInv ==
    ASSUME ApprInv, NEW p \in Process, CountExecution(p) \/ StartCooldown(p) PROVE ApprInv'
<1>1. ApprTypeOK'
  <2>1. ProcsTyped'
    BY DEF CountExecution, StartCooldown, Settled, Goto, ApprInv, ApprTypeOK, ProcsTyped, Place
  <2>2. FlowsTyped'
    BY DEF CountExecution, StartCooldown, ApprInv, ApprTypeOK, FlowsTyped, flowVars
  <2>3. ReqTyped' /\ CountsTyped'
    BY DEF CountExecution, StartCooldown, ApprInv, ApprTypeOK, ReqTyped, CountsTyped, reqVars,
       histVars
  <2>. QED  BY <2>1, <2>2, <2>3 DEF ApprTypeOK
<1>2. PlansOK'
  BY DEF CountExecution, StartCooldown, Settled, Goto, ApprInv, ApprTypeOK, ProcsTyped, PlansOK,
     Process, Applying
<1>3. GateOK'
  BY ApprovalAssumption DEF CountExecution, StartCooldown, Settled, Goto, ApprInv, ApprTypeOK,
     ProcsTyped, GateOK, ToStart, histVars, Process
<1>4. AskedOK'
  BY AskedKept DEF CountExecution, StartCooldown, Settled, Goto, ApprInv, ApprTypeOK, CountsTyped,
     ProcsTyped, Process, reqVars
<1>5. QuotaOK'
  BY ApprovalAssumption DEF CountExecution, StartCooldown, Settled, Goto, ApprInv, ApprTypeOK,
     ProcsTyped, CountsTyped, QuotaOK, At, Process, histVars
<1>. QED  BY <1>1, <1>2, <1>3, <1>4, <1>5, RequestsKept DEF ApprInv, CountExecution, StartCooldown

LEMMA FaultInv ==
    ASSUME ApprInv, NEW p \in Process, Refused(p) \/ Crash(p) PROVE ApprInv'
<1>1. ApprTypeOK'
  BY DEF Refused, Crash, Settled, Goto, ApprInv, ApprTypeOK, ReqTyped, ProcsTyped, FlowsTyped,
     CountsTyped, reqVars, flowVars, safeVars, histVars, Place
<1>2. PlansOK'
  BY DEF Refused, Crash, Settled, Goto, ApprInv, ApprTypeOK, ProcsTyped, PlansOK, Process,
     Applying
<1>3. GateOK'
  BY ApprovalAssumption DEF Refused, Crash, Settled, Goto, ApprInv, ApprTypeOK, ProcsTyped,
     GateOK, ToStart, histVars, Process, CountsTyped
<1>4. AskedOK'
  BY AskedKept DEF Refused, Crash, Settled, Goto, ApprInv, ApprTypeOK, CountsTyped, ProcsTyped,
     Process, reqVars
<1>5. QuotaOK'
  BY ApprovalAssumption DEF Refused, Crash, Settled, Goto, ApprInv, ApprTypeOK, ProcsTyped,
     CountsTyped, QuotaOK, At, Process, safeVars, histVars
<1>. QED  BY <1>1, <1>2, <1>3, <1>4, <1>5, RequestsKept DEF ApprInv, Refused, Crash

LEMMA WorldInv ==
    ASSUME ApprInv, NewHour \/ \E n \in Name : CooldownElapses(n) \/ WorkflowEnds(n)
    PROVE  ApprInv'
<1>1. /\ UNCHANGED <<cursor, reqVars, procVars, granted, started, faults>>
      /\ \/ thisHour' = thisHour /\ quota' = quota
         \/ thisHour' = 0 /\ quota' = 0
  BY DEF NewHour, CooldownElapses, WorkflowEnds, safeVars, histVars
<1>2. ApprTypeOK'
  <2>1. FlowsTyped'
    BY DEF NewHour, CooldownElapses, WorkflowEnds, ApprInv, ApprTypeOK, FlowsTyped, flowVars,
       safeVars
  <2>. QED  BY <1>1, <2>1 DEF ApprInv, ApprTypeOK, ReqTyped, ProcsTyped, CountsTyped, reqVars,
               procVars
<1>3. PlansOK' /\ GateOK'
  BY <1>1 DEF ApprInv, PlansOK, GateOK, ToStart, procVars
<1>4. AskedOK'
  BY <1>1, AskedKept DEF ApprInv, ApprTypeOK, CountsTyped, procVars, reqVars
<1>5. QuotaOK'
  BY ApprovalAssumption, <1>1 DEF ApprInv, ApprTypeOK, CountsTyped, QuotaOK, At, Process, procVars
<1>. QED  BY <1>1, <1>2, <1>3, <1>4, <1>5, RequestsKept DEF ApprInv

\* Every step keeps the invariant.
LEMMA ApprInvNext == ApprInv /\ [ApprNext]_apprVars => ApprInv'
<1> SUFFICES ASSUME ApprInv, [ApprNext]_apprVars PROVE ApprInv'
  OBVIOUS
<1>1. CASE UNCHANGED apprVars
  <2>1. ApprTypeOK' /\ PlansOK' /\ GateOK' /\ QuotaOK'
    BY <1>1 DEF ApprInv, ApprTypeOK, ReqTyped, ProcsTyped, FlowsTyped, CountsTyped, PlansOK,
       GateOK, ToStart, QuotaOK, At, apprVars, reqVars, procVars, flowVars, safeVars, histVars
  <2>2. AskedOK'
    BY <1>1, AskedKept DEF ApprInv, ApprTypeOK, CountsTyped, apprVars, reqVars, procVars
  <2>. QED  BY <1>1, <2>1, <2>2, RequestsKept DEF ApprInv, apprVars
<1>2. CASE ListenerStep
  BY <1>2, PlanEventInv, RequestApprovalInv, AdvanceInv, CheckSafetyInv, CreateWorkflowInv,
     RecordExecutionInv DEF ListenerStep, ApplyStep, Process
<1>3. CASE OperatorStep
  BY <1>3, ApproveInv, OperatorInv DEF OperatorStep
<1>4. CASE ApplyStep("api")
  BY <1>4, CheckSafetyInv, CreateWorkflowInv, RecordExecutionInv DEF ApplyStep, Process
<1>5. CASE \E p \in Process : Refused(p) \/ Crash(p)
  BY <1>5, FaultInv
<1>6. CASE NewHour \/ \E n \in Name : CooldownElapses(n) \/ WorkflowEnds(n)
  BY <1>6, WorldInv
<1>. QED  BY <1>1, <1>2, <1>3, <1>4, <1>5, <1>6 DEF ApprNext

-----------------------------------------------------------------------------
\* Type correctness of the requests, the processes, the workflows and the counters.
THEOREM ApprTypeCorrect == ApprSpec => []ApprTypeOK
<1>1. ApprInv => ApprTypeOK
  BY DEF ApprInv
<1>. QED  BY ApprInvInit, ApprInvNext, <1>1, PTL DEF ApprSpec

\* What publishes outside was approved as often as it was created: neither the
\* replay of an event nor a retry, an edit or a crash turns one approval into two
\* workflows (apply_proposal and approve).
THEOREM ExternalGatedHolds == ApprSpec => []ExternalGated
<1>1. ApprInv => ExternalGated
  <2> SUFFICES ASSUME ApprInv, NEW n \in External PROVE started[n] <= granted[n]
    BY DEF ExternalGated
  <2>1. started[n] \in Nat /\ granted[n] \in Nat
    BY ApprovalAssumption DEF ApprInv, ApprTypeOK, CountsTyped
  <2>. QED  BY <2>1 DEF ApprInv, GateOK, ToStart
<1>. QED  BY ApprInvInit, ApprInvNext, <1>1, PTL DEF ApprSpec

\* An event asks for one approval and for one more at each fault, and no two
\* requests for the same plan of it are pending (create_approval_request, the
\* cursor of the event loop and idx_approval_pending_unique).
THEOREM RequestsNotRepeatedHolds == ApprSpec => []RequestsNotRepeated
<1>1. ApprInv => RequestsNotRepeated
  BY DEF ApprInv, RequestsNotRepeated, AskedOK, Of, OnePending
<1>. QED  BY ApprInvInit, ApprInvNext, <1>1, PTL DEF ApprSpec

\* In one hour no more workflows are created than the limit, one for the process
\* that checked beside the other and one for each fault (validate_autonomous_execution
\* and record_execution, in transactions of their own).
THEOREM HourlyLimitHolds == ApprSpec => []QuotaHolds
<1>1. Cardinality(Process) = 2
  <2>1. Cardinality({"listener"}) = 1 /\ IsFiniteSet({"listener"})
    BY FS_Singleton
  <2>2. Process = {"listener"} \cup {"api"} /\ "api" \notin {"listener"}
    BY DEF Process
  <2>. QED  BY <2>1, <2>2, FS_AddElement
<1>2. ApprInv => QuotaHolds
  <2> SUFFICES ASSUME ApprInv PROVE QuotaHolds
    OBVIOUS
  <2>1. thisHour \in Nat /\ faults \in Nat /\ HourlyLimit \in Nat
    BY ApprovalAssumption DEF ApprInv, ApprTypeOK, CountsTyped
  <2>2. thisHour <= HourlyLimit + 1 + faults
    BY <2>1 DEF ApprInv, QuotaOK, At
  <2>. QED  BY <1>1, <2>1, <2>2 DEF QuotaHolds
<1>. QED  BY ApprInvInit, ApprInvNext, <1>2, PTL DEF ApprSpec
=============================================================================
