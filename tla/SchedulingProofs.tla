-------------------------- MODULE SchedulingProofs --------------------------
(* Theorems about Scheduling, for any number of entries, names, times and     *)
(* faults.  The firing processes are two, as in the code.                     *)
EXTENDS Scheduling, TLAPS, FiniteSetTheorems

Place == {"idle", "move", "cancel", "loop", "insert", "mark", "followup"}

RowsTyped ==
    /\ status \in [Entry -> SchedStatus] /\ at \in [Entry -> Nat]
    /\ name \in [Entry -> Name \cup {None}]
    /\ recurring \in [Entry -> BOOLEAN] /\ linked \in [Entry -> BOOLEAN]
FlowsTyped ==
    active \in [Name -> BOOLEAN] /\ completed \in [Name -> BOOLEAN]
ProcsTyped ==
    /\ pc \in [Firer -> Place] /\ cur \in [Firer -> Entry \cup {NoEntry}]
    /\ batch \in [Firer -> SUBSET Entry] /\ made \in [Firer -> BOOLEAN]
ReadTyped == read \in [Firer -> [Entry -> Nat]]
CountsTyped ==
    now \in Nat /\ faults \in Nat /\ runs \in [Entry -> Nat] /\ follow \in [Entry -> Nat]
SchedTypeOK == RowsTyped /\ FlowsTyped /\ ProcsTyped /\ ReadTyped /\ CountsTyped

Unfired(e) == status[e] \in {"absent", "pending"}

\* Where a process stands, what it has in its hands and what it knows of it.
PlaceOK(p) ==
    /\ pc[p] \in {"idle", "loop"} <=> cur[p] = NoEntry
    /\ pc[p] \in {"idle", "move", "cancel"} => batch[p] = {}
    /\ cur[p] \notin batch[p]
    /\ \A e \in Entry : e \in batch[p] \/ cur[p] = e => status[e] # "absent"
    /\ pc[p] = "followup" => ~Unfired(cur[p])
    /\ made[p] => pc[p] \in {"mark", "followup"} /\ runs[cur[p]] > 0

\* What a process may still do to an entry it has read: run it, mark it, go on.
ToRun(p, e)    == IF e \in batch[p] \/ (cur[p] = e /\ pc[p] = "insert") THEN 1 ELSE 0
ToMark(p, e)   == IF cur[p] = e /\ pc[p] = "mark" THEN 1 ELSE 0
ToFollow(p, e) == IF e \in batch[p] \/ (cur[p] = e /\ pc[p] \in {"insert", "mark", "followup"})
                  THEN 1 ELSE 0

\* An entry that is still to fire was run once for each fault, and by those who
\* are about to mark it; once it has fired only those who read it before run it.
RunsOK(e) ==
    /\ Unfired(e) => runs[e] <= faults + (ToMark("worker", e) + ToMark("api", e))
    /\ runs[e] + (ToRun("worker", e) + ToRun("api", e)) <= 2 + faults

FollowOK(e) ==
    /\ Unfired(e) => follow[e] = 0
    /\ follow[e] + (ToFollow("worker", e) + ToFollow("api", e)) <= 2

\* A recurring entry that fired has its followup, or a process about to make it,
\* and one that is linked has run.
ChainOK(e) ==
    status[e] = "fired" /\ recurring[e] /\ faults = 0
    => follow[e] > 0 \/ \E p \in Firer : cur[p] = e /\ pc[p] = "followup"
LinkOK(e) == linked[e] => runs[e] > 0

EntryOK(e) == RunsOK(e) /\ FollowOK(e) /\ ChainOK(e) /\ LinkOK(e)

SchedInv == SchedTypeOK /\ (\A p \in Firer : PlaceOK(p)) /\ \A e \in Entry : EntryOK(e)

\* A step that moves one process at most and takes no entry back.
MovesOnly(p) ==
    \A q \in Firer \ {p} :
        /\ pc'[q] = pc[q] /\ cur'[q] = cur[q] /\ batch'[q] = batch[q] /\ made'[q] = made[q]
GoesForward ==
    /\ faults' >= faults
    /\ \A e \in Entry : /\ status[e] # "absent" => status'[e] # "absent"
                        /\ ~Unfired(e) => ~Unfired(e)'
                        /\ runs'[e] >= runs[e]

\* What such a step of p may do to an entry: run it if p had it to run or it was
\* still to fire, and follow it if p had it to follow.
RunsStep(p, e) ==
    /\ Unfired(e)' => /\ Unfired(e)
                      /\ runs'[e] + ToMark(p, e) <= runs[e] + ToMark(p, e)' + (faults' - faults)
    /\ \/ runs'[e] + ToRun(p, e)' <= runs[e] + ToRun(p, e) + (faults' - faults)
       \/ Unfired(e) /\ runs'[e] + ToRun(p, e)' + ToMark(p, e) <= runs[e] + 1
FollowStep(p, e) ==
    /\ Unfired(e)' => Unfired(e) /\ follow'[e] = follow[e]
    /\ \/ follow'[e] + ToFollow(p, e)' <= follow[e] + ToFollow(p, e)
       \/ Unfired(e) /\ follow'[e] = follow[e]

\* A step that does no more than this keeps the invariant.
LEMMA OneStep ==
    ASSUME SchedInv, SchedTypeOK', NEW p \in Firer, MovesOnly(p), GoesForward, PlaceOK(p)',
           \A e \in Entry : RunsStep(p, e) /\ FollowStep(p, e) /\ ChainOK(e)' /\ LinkOK(e)'
    PROVE  SchedInv'
<1>1. PICK q \in Firer : q # p /\ \A f \in Firer : f = p \/ f = q
  BY DEF Firer
<1>2. PlaceOK(q)'
  <2>1. /\ pc'[q] = pc[q] /\ cur'[q] = cur[q] /\ batch'[q] = batch[q] /\ made'[q] = made[q]
        /\ PlaceOK(q)
    BY <1>1 DEF MovesOnly, SchedInv
  <2>2. cur[q] = NoEntry \/ cur[q] \in Entry
    BY DEF SchedInv, SchedTypeOK, ProcsTyped
  <2>3. \A e \in Entry : runs[e] > 0 => runs'[e] > 0
    BY DEF GoesForward, SchedInv, SchedTypeOK, CountsTyped
  <2>4. ~Unfired(cur[q]) /\ cur[q] \in Entry => ~Unfired(cur[q])'
    BY <2>1 DEF GoesForward
  <2>. QED  BY <2>1, <2>2, <2>3, <2>4 DEF GoesForward, PlaceOK
<1>3. ASSUME NEW e \in Entry PROVE RunsOK(e)' /\ FollowOK(e)'
  <2>1. /\ ToRun("worker", e) + ToRun("api", e) = ToRun(p, e) + ToRun(q, e)
        /\ ToMark("worker", e) + ToMark("api", e) = ToMark(p, e) + ToMark(q, e)
        /\ ToFollow("worker", e) + ToFollow("api", e) = ToFollow(p, e) + ToFollow(q, e)
        /\ (ToRun("worker", e) + ToRun("api", e) = ToRun(p, e) + ToRun(q, e))'
        /\ (ToMark("worker", e) + ToMark("api", e) = ToMark(p, e) + ToMark(q, e))'
        /\ (ToFollow("worker", e) + ToFollow("api", e) = ToFollow(p, e) + ToFollow(q, e))'
    BY <1>1 DEF Firer, ToRun, ToMark, ToFollow
  <2>2. /\ ToRun(p, e) \in {0, 1} /\ ToMark(p, e) \in {0, 1} /\ ToFollow(p, e) \in {0, 1}
        /\ ToRun(p, e)' \in {0, 1} /\ ToMark(p, e)' \in {0, 1} /\ ToFollow(p, e)' \in {0, 1}
        /\ ToRun(q, e) \in {0, 1} /\ ToMark(q, e) \in {0, 1} /\ ToFollow(q, e) \in {0, 1}
    BY DEF ToRun, ToMark, ToFollow
  <2>3. /\ ToRun(q, e)' = ToRun(q, e) /\ ToMark(q, e)' = ToMark(q, e)
        /\ ToFollow(q, e)' = ToFollow(q, e)
    BY <1>1 DEF MovesOnly, ToRun, ToMark, ToFollow
  <2>4. ToRun(q, e) + ToMark(q, e) <= 1
    BY DEF SchedInv, PlaceOK, ToRun, ToMark
  <2>5. runs[e] \in Nat /\ runs'[e] \in Nat /\ follow[e] \in Nat /\ follow'[e] \in Nat
        /\ faults \in Nat /\ faults' \in Nat /\ faults' >= faults
    BY DEF SchedInv, SchedTypeOK, CountsTyped, GoesForward
  <2>6. RunsOK(e)'
    <3>1. RunsStep(p, e) /\ RunsOK(e)
      BY DEF SchedInv, EntryOK
    <3>2. Unfired(e)' => runs'[e] <= faults' + (ToMark(p, e)' + ToMark(q, e))
      BY <2>1, <2>2, <2>5, <3>1 DEF RunsStep, RunsOK
    <3>3. runs'[e] + (ToRun(p, e)' + ToRun(q, e)) <= 2 + faults'
      BY <2>1, <2>2, <2>4, <2>5, <3>1 DEF RunsStep, RunsOK
    <3>. QED  BY <2>1, <2>3, <3>2, <3>3 DEF RunsOK
  <2>7. FollowOK(e)'
    <3>1. FollowStep(p, e) /\ FollowOK(e)
      BY DEF SchedInv, EntryOK
    <3>2. Unfired(e)' => follow'[e] = 0
      BY <3>1 DEF FollowStep, FollowOK
    <3>3. follow'[e] + (ToFollow(p, e)' + ToFollow(q, e)) <= 2
      BY <2>1, <2>2, <2>5, <3>1 DEF FollowStep, FollowOK
    <3>. QED  BY <2>1, <2>3, <3>2, <3>3 DEF FollowOK
  <2>. QED  BY <2>6, <2>7
<1>. QED  BY <1>1, <1>2, <1>3 DEF SchedInv, EntryOK

\* A process that is through with an entry has nothing in its hands but its batch.
LEMMA LeaveEntryEffect ==
    ASSUME ProcsTyped, ReadTyped, NEW p \in Firer, cur[p] \in Entry, LeaveEntry(p),
           UNCHANGED batch
    PROVE  /\ ProcsTyped' /\ ReadTyped' /\ MovesOnly(p)
           /\ pc'[p] = "loop" /\ cur'[p] = NoEntry /\ ~made'[p]
BY DEF ProcsTyped, ReadTyped, LeaveEntry, Goto, Place, MovesOnly

\* One lemma for each action: what it does is a step of one process at most that
\* goes forward, and does no more to an entry than RunsStep and FollowStep say.
LEMMA CreateScheduleInv ==
    ASSUME SchedInv, NEW e \in Entry, NEW n \in Name, NEW t \in now .. MaxTime,
           NEW r \in BOOLEAN, CreateSchedule(e, n, t, r)
    PROVE  SchedInv'
<1> USE DEF SchedInv, SchedTypeOK, NoEntry
<1>1. SchedTypeOK'
  <2>1. RowsTyped'
    <3>1. t \in Nat /\ n \in Name \cup {None}
      BY ScheduleAssumption DEF CountsTyped
    <3>. QED  BY <3>1 DEF CreateSchedule, Store, RowsTyped, SchedStatus
  <2>2. FlowsTyped'
    BY DEF CreateSchedule, Store, IsNext, Absent, FlowsTyped, flowVars
  <2>3. ProcsTyped' /\ ReadTyped'
    BY DEF CreateSchedule, Store, IsNext, Absent, ProcsTyped, ReadTyped, procVars, Place, Firer,
       RowsTyped
  <2>4. CountsTyped'
    BY DEF CreateSchedule, Store, IsNext, Absent, CountsTyped, histVars
  <2>. QED  BY <2>1, <2>2, <2>3, <2>4
<1>2. MovesOnly("worker") /\ GoesForward
  BY DEF MovesOnly, GoesForward, CreateSchedule, Store, IsNext, Absent, procVars, rowVars,
     histVars, ProcsTyped, RowsTyped, CountsTyped, Unfired, Firer, PlaceOK
<1>3. PlaceOK("worker")'
  BY DEF PlaceOK, CreateSchedule, Store, IsNext, Absent, rowVars, procVars, histVars, RowsTyped,
     ProcsTyped, Unfired, Firer, Entry
<1>4. \A f \in Entry : RunsStep("worker", f)
  BY DEF RunsStep, CreateSchedule, Store, IsNext, Absent, rowVars, procVars, histVars, RowsTyped,
     ProcsTyped, CountsTyped, Unfired, ToRun, ToMark, Firer, Entry, PlaceOK
<1>5. \A f \in Entry : FollowStep("worker", f)
  BY DEF FollowStep, CreateSchedule, Store, IsNext, Absent, rowVars, procVars, histVars,
     RowsTyped, ProcsTyped, CountsTyped, Unfired, ToFollow, Firer, Entry, PlaceOK
<1>6. \A f \in Entry : ChainOK(f)' /\ LinkOK(f)'
  BY DEF EntryOK, ChainOK, LinkOK, CreateSchedule, Store, IsNext, Absent, rowVars, procVars,
     histVars, RowsTyped, ProcsTyped, CountsTyped, Firer, Entry, PlaceOK
<1>. QED  BY <1>1, <1>2, <1>3, <1>4, <1>5, <1>6, OneStep DEF Firer

LEMMA BeginEditInv ==
    ASSUME SchedInv, NEW e \in Entry, NEW label \in {"move", "cancel"}, BeginEdit(e, label)
    PROVE  SchedInv'
<1> USE DEF SchedInv, SchedTypeOK, NoEntry
<1>1. SchedTypeOK'
  <2>1. RowsTyped'
    BY DEF BeginEdit, Goto, RowsTyped, rowVars
  <2>2. FlowsTyped'
    BY DEF BeginEdit, Goto, FlowsTyped, flowVars
  <2>3. ProcsTyped' /\ ReadTyped'
    BY DEF BeginEdit, Goto, ProcsTyped, ReadTyped, procVars, Place, Firer, RowsTyped
  <2>4. CountsTyped'
    BY DEF BeginEdit, Goto, CountsTyped, histVars
  <2>. QED  BY <2>1, <2>2, <2>3, <2>4
<1>2. MovesOnly("api") /\ GoesForward
  BY DEF MovesOnly, GoesForward, BeginEdit, Goto, procVars, rowVars, histVars, ProcsTyped,
     RowsTyped, CountsTyped, Unfired, Firer, PlaceOK
<1>3. PlaceOK("api")'
  BY DEF PlaceOK, BeginEdit, Goto, rowVars, procVars, histVars, RowsTyped, ProcsTyped, Unfired,
     Firer, Entry
<1>4. \A f \in Entry : RunsStep("api", f)
  BY DEF RunsStep, BeginEdit, Goto, rowVars, procVars, histVars, RowsTyped, ProcsTyped,
     CountsTyped, Unfired, ToRun, ToMark, Firer, Entry, PlaceOK
<1>5. \A f \in Entry : FollowStep("api", f)
  BY DEF FollowStep, BeginEdit, Goto, rowVars, procVars, histVars, RowsTyped, ProcsTyped,
     CountsTyped, Unfired, ToFollow, Firer, Entry, PlaceOK
<1>6. \A f \in Entry : ChainOK(f)' /\ LinkOK(f)'
  BY DEF EntryOK, ChainOK, LinkOK, BeginEdit, Goto, rowVars, procVars, histVars, RowsTyped,
     ProcsTyped, CountsTyped, Firer, Entry, PlaceOK
<1>. QED  BY <1>1, <1>2, <1>3, <1>4, <1>5, <1>6, OneStep DEF Firer

LEMMA MoveScheduleInv ==
    ASSUME SchedInv, NEW t \in now .. MaxTime, MoveSchedule(t)
    PROVE  SchedInv'
<1> USE DEF SchedInv, SchedTypeOK, NoEntry
<1>1. SchedTypeOK'
  <2>1. RowsTyped'
    <3>1. t \in Nat
      BY ScheduleAssumption DEF CountsTyped
    <3>. QED  BY <3>1 DEF MoveSchedule, EditDone, RowsTyped
  <2>2. FlowsTyped'
    BY DEF MoveSchedule, EditDone, Goto, FlowsTyped, flowVars
  <2>3. ProcsTyped' /\ ReadTyped'
    BY DEF MoveSchedule, EditDone, Goto, ProcsTyped, ReadTyped, procVars, Place, Firer, RowsTyped
  <2>4. CountsTyped'
    BY DEF MoveSchedule, EditDone, Goto, CountsTyped, histVars
  <2>. QED  BY <2>1, <2>2, <2>3, <2>4
<1>2. MovesOnly("api") /\ GoesForward
  BY DEF MovesOnly, GoesForward, MoveSchedule, EditDone, Goto, procVars, rowVars, histVars,
     ProcsTyped, RowsTyped, CountsTyped, Unfired, Firer, PlaceOK
<1>3. PlaceOK("api")'
  BY DEF PlaceOK, MoveSchedule, EditDone, Goto, rowVars, procVars, histVars, RowsTyped,
     ProcsTyped, Unfired, Firer, Entry
<1>4. \A f \in Entry : RunsStep("api", f)
  BY DEF RunsStep, MoveSchedule, EditDone, Goto, rowVars, procVars, histVars, RowsTyped,
     ProcsTyped, CountsTyped, Unfired, ToRun, ToMark, Firer, Entry, PlaceOK
<1>5. \A f \in Entry : FollowStep("api", f)
  BY DEF FollowStep, MoveSchedule, EditDone, Goto, rowVars, procVars, histVars, RowsTyped,
     ProcsTyped, CountsTyped, Unfired, ToFollow, Firer, Entry, PlaceOK
<1>6. \A f \in Entry : ChainOK(f)' /\ LinkOK(f)'
  BY DEF EntryOK, ChainOK, LinkOK, MoveSchedule, EditDone, Goto, rowVars, procVars, histVars,
     RowsTyped, ProcsTyped, CountsTyped, Firer, Entry, PlaceOK
<1>. QED  BY <1>1, <1>2, <1>3, <1>4, <1>5, <1>6, OneStep DEF Firer

LEMMA CancelScheduleInv ==
    ASSUME SchedInv, CancelSchedule
    PROVE  SchedInv'
<1> USE DEF SchedInv, SchedTypeOK, NoEntry
<1>1. SchedTypeOK'
  <2>1. RowsTyped'
    BY DEF CancelSchedule, EditDone, Goto, RowsTyped, SchedStatus
  <2>2. FlowsTyped'
    BY DEF CancelSchedule, EditDone, Goto, FlowsTyped, flowVars
  <2>3. ProcsTyped' /\ ReadTyped'
    BY DEF CancelSchedule, EditDone, Goto, ProcsTyped, ReadTyped, procVars, Place, Firer,
       RowsTyped
  <2>4. CountsTyped'
    BY DEF CancelSchedule, EditDone, Goto, CountsTyped, histVars
  <2>. QED  BY <2>1, <2>2, <2>3, <2>4
<1>2. MovesOnly("api") /\ GoesForward
  BY DEF MovesOnly, GoesForward, CancelSchedule, EditDone, Goto, procVars, rowVars, histVars,
     ProcsTyped, RowsTyped, CountsTyped, Unfired, Firer, PlaceOK
<1>3. PlaceOK("api")'
  BY DEF PlaceOK, CancelSchedule, EditDone, Goto, rowVars, procVars, histVars, RowsTyped,
     ProcsTyped, Unfired, Firer, Entry
<1>4. \A f \in Entry : RunsStep("api", f)
  BY DEF RunsStep, CancelSchedule, EditDone, Goto, rowVars, procVars, histVars, RowsTyped,
     ProcsTyped, CountsTyped, Unfired, ToRun, ToMark, Firer, Entry, PlaceOK
<1>5. \A f \in Entry : FollowStep("api", f)
  BY DEF FollowStep, CancelSchedule, EditDone, Goto, rowVars, procVars, histVars, RowsTyped,
     ProcsTyped, CountsTyped, Unfired, ToFollow, Firer, Entry, PlaceOK
<1>6. \A f \in Entry : ChainOK(f)' /\ LinkOK(f)'
  BY DEF EntryOK, ChainOK, LinkOK, CancelSchedule, EditDone, Goto, rowVars, procVars, histVars,
     RowsTyped, ProcsTyped, CountsTyped, Firer, Entry, PlaceOK
<1>. QED  BY <1>1, <1>2, <1>3, <1>4, <1>5, <1>6, OneStep DEF Firer

LEMMA PollDueInv ==
    ASSUME SchedInv, NEW p \in Firer, PollDue(p)
    PROVE  SchedInv'
<1> USE DEF SchedInv, SchedTypeOK, NoEntry
<1>1. SchedTypeOK'
  <2>1. RowsTyped'
    BY DEF PollDue, Due, Goto, RowsTyped, rowVars
  <2>2. FlowsTyped'
    BY DEF PollDue, Due, Goto, FlowsTyped, flowVars
  <2>3. ProcsTyped' /\ ReadTyped'
    BY DEF PollDue, Due, Goto, ProcsTyped, ReadTyped, procVars, Place, Firer, RowsTyped
  <2>4. CountsTyped'
    BY DEF PollDue, Due, Goto, CountsTyped, histVars
  <2>. QED  BY <2>1, <2>2, <2>3, <2>4
<1>2. MovesOnly(p) /\ GoesForward
  BY DEF MovesOnly, GoesForward, PollDue, Due, Goto, procVars, rowVars, histVars, ProcsTyped,
     RowsTyped, CountsTyped, Unfired, Firer, PlaceOK
<1>3. PlaceOK(p)'
  BY DEF PlaceOK, PollDue, Due, Goto, rowVars, procVars, histVars, RowsTyped, ProcsTyped, Unfired,
     Firer, Entry
<1>4. \A f \in Entry : RunsStep(p, f)
  BY DEF RunsStep, PollDue, Due, Goto, rowVars, procVars, histVars, RowsTyped, ProcsTyped,
     CountsTyped, Unfired, ToRun, ToMark, Firer, Entry, PlaceOK
<1>5. \A f \in Entry : FollowStep(p, f)
  BY DEF FollowStep, PollDue, Due, Goto, rowVars, procVars, histVars, RowsTyped, ProcsTyped,
     CountsTyped, Unfired, ToFollow, Firer, Entry, PlaceOK
<1>6. \A f \in Entry : ChainOK(f)' /\ LinkOK(f)'
  BY DEF EntryOK, ChainOK, LinkOK, PollDue, Due, Goto, rowVars, procVars, histVars, RowsTyped,
     ProcsTyped, CountsTyped, Firer, Entry, PlaceOK
<1>. QED  BY <1>1, <1>2, <1>3, <1>4, <1>5, <1>6, OneStep DEF Firer

LEMMA CheckNameInv ==
    ASSUME SchedInv, NEW p \in Firer, NEW e \in Entry, CheckName(p, e)
    PROVE  SchedInv'
<1> USE DEF SchedInv, SchedTypeOK, NoEntry
<1>1. SchedTypeOK'
  <2>1. RowsTyped'
    BY DEF CheckName, Goto, RowsTyped, rowVars
  <2>2. FlowsTyped'
    BY DEF CheckName, Goto, FlowsTyped, flowVars
  <2>3. ProcsTyped' /\ ReadTyped'
    BY DEF CheckName, Goto, ProcsTyped, ReadTyped, procVars, Place, Firer, RowsTyped
  <2>4. CountsTyped'
    BY DEF CheckName, Goto, CountsTyped, histVars
  <2>. QED  BY <2>1, <2>2, <2>3, <2>4
<1>2. MovesOnly(p) /\ GoesForward
  BY DEF MovesOnly, GoesForward, CheckName, Goto, procVars, rowVars, histVars, ProcsTyped,
     RowsTyped, CountsTyped, Unfired, Firer, PlaceOK
<1>3. PlaceOK(p)'
  BY DEF PlaceOK, CheckName, Goto, rowVars, procVars, histVars, RowsTyped, ProcsTyped, Unfired,
     Firer, Entry
<1>4. \A f \in Entry : RunsStep(p, f)
  BY DEF RunsStep, CheckName, Goto, rowVars, procVars, histVars, RowsTyped, ProcsTyped,
     CountsTyped, Unfired, ToRun, ToMark, Firer, Entry, PlaceOK
<1>5. \A f \in Entry : FollowStep(p, f)
  BY DEF FollowStep, CheckName, Goto, rowVars, procVars, histVars, RowsTyped, ProcsTyped,
     CountsTyped, Unfired, ToFollow, Firer, Entry, PlaceOK
<1>6. \A f \in Entry : ChainOK(f)' /\ LinkOK(f)'
  BY DEF EntryOK, ChainOK, LinkOK, CheckName, Goto, rowVars, procVars, histVars, RowsTyped,
     ProcsTyped, CountsTyped, Firer, Entry, PlaceOK
<1>. QED  BY <1>1, <1>2, <1>3, <1>4, <1>5, <1>6, OneStep DEF Firer

LEMMA InsertWorkflowInv ==
    ASSUME SchedInv, NEW p \in Firer, InsertWorkflow(p)
    PROVE  SchedInv'
<1> USE DEF SchedInv, SchedTypeOK, NoEntry
<1>1. SchedTypeOK'
  <2>1. RowsTyped'
    BY DEF InsertWorkflow, Goto, RowsTyped, rowVars
  <2>2. FlowsTyped'
    BY DEF InsertWorkflow, Goto, FlowsTyped
  <2>3. ProcsTyped' /\ ReadTyped'
    BY DEF InsertWorkflow, Goto, ProcsTyped, ReadTyped, procVars, Place, Firer, RowsTyped
  <2>4. CountsTyped'
    <3>1. cur[p] \in Entry
      BY DEF InsertWorkflow, PlaceOK, ProcsTyped
    <3>2. runs' = [runs EXCEPT ![cur[p]] = @ + 1] \/ runs' = runs
      BY DEF InsertWorkflow
    <3>3. UNCHANGED <<now, faults, follow>>
      BY DEF InsertWorkflow
    <3>. QED  BY <3>1, <3>2, <3>3 DEF CountsTyped
  <2>. QED  BY <2>1, <2>2, <2>3, <2>4
<1>2. MovesOnly(p) /\ GoesForward
  BY DEF MovesOnly, GoesForward, InsertWorkflow, Goto, procVars, rowVars, histVars, ProcsTyped,
     RowsTyped, CountsTyped, Unfired, Firer, PlaceOK
<1>3. PlaceOK(p)'
  <2>1. /\ cur[p] \in Entry /\ pc'[p] = "mark" /\ UNCHANGED <<status, batch, cur>>
    BY DEF InsertWorkflow, Goto, rowVars, PlaceOK, ProcsTyped
  <2>2. made'[p] => runs'[cur[p]] > 0
    <3>1. CASE active[name[cur[p]]]
      BY <3>1 DEF InsertWorkflow, ProcsTyped
    <3>2. CASE ~active[name[cur[p]]]
      <4>1. runs' = [runs EXCEPT ![cur[p]] = @ + 1]
        BY <3>2 DEF InsertWorkflow
      <4>. QED  BY <2>1, <4>1 DEF CountsTyped
    <3>. QED  BY <3>1, <3>2
  <2>3. PlaceOK(p)
    OBVIOUS
  <2>. QED  BY <2>1, <2>2, <2>3 DEF PlaceOK, Entry
<1>4. \A f \in Entry : RunsStep(p, f)
  BY DEF RunsStep, InsertWorkflow, Goto, rowVars, procVars, histVars, RowsTyped, ProcsTyped,
     CountsTyped, Unfired, ToRun, ToMark, Firer, Entry, PlaceOK
<1>5. \A f \in Entry : FollowStep(p, f)
  BY DEF FollowStep, InsertWorkflow, Goto, rowVars, procVars, histVars, RowsTyped, ProcsTyped,
     CountsTyped, Unfired, ToFollow, Firer, Entry, PlaceOK
<1>6. \A f \in Entry : ChainOK(f)' /\ LinkOK(f)'
  BY DEF EntryOK, ChainOK, LinkOK, InsertWorkflow, Goto, rowVars, procVars, histVars, RowsTyped,
     ProcsTyped, CountsTyped, Firer, Entry, PlaceOK
<1>. QED  BY <1>1, <1>2, <1>3, <1>4, <1>5, <1>6, OneStep DEF Firer

LEMMA EndPollInv ==
    ASSUME SchedInv, NEW p \in Firer, EndPoll(p)
    PROVE  SchedInv'
<1> USE DEF SchedInv, SchedTypeOK, NoEntry
<1>1. SchedTypeOK'
  <2>1. RowsTyped'
    BY DEF EndPoll, Goto, RowsTyped, rowVars
  <2>2. FlowsTyped'
    BY DEF EndPoll, Goto, FlowsTyped, flowVars
  <2>3. ProcsTyped' /\ ReadTyped'
    BY DEF EndPoll, Goto, ProcsTyped, ReadTyped, procVars, Place, Firer, RowsTyped
  <2>4. CountsTyped'
    BY DEF EndPoll, Goto, CountsTyped, histVars
  <2>. QED  BY <2>1, <2>2, <2>3, <2>4
<1>2. MovesOnly(p) /\ GoesForward
  BY DEF MovesOnly, GoesForward, EndPoll, Goto, procVars, rowVars, histVars, ProcsTyped,
     RowsTyped, CountsTyped, Unfired, Firer, PlaceOK
<1>3. PlaceOK(p)'
  BY DEF PlaceOK, EndPoll, Goto, rowVars, procVars, histVars, RowsTyped, ProcsTyped, Unfired,
     Firer, Entry
<1>4. \A f \in Entry : RunsStep(p, f)
  BY DEF RunsStep, EndPoll, Goto, rowVars, procVars, histVars, RowsTyped, ProcsTyped, CountsTyped,
     Unfired, ToRun, ToMark, Firer, Entry, PlaceOK
<1>5. \A f \in Entry : FollowStep(p, f)
  BY DEF FollowStep, EndPoll, Goto, rowVars, procVars, histVars, RowsTyped, ProcsTyped,
     CountsTyped, Unfired, ToFollow, Firer, Entry, PlaceOK
<1>6. \A f \in Entry : ChainOK(f)' /\ LinkOK(f)'
  BY DEF EntryOK, ChainOK, LinkOK, EndPoll, Goto, rowVars, procVars, histVars, RowsTyped,
     ProcsTyped, CountsTyped, Firer, Entry, PlaceOK
<1>. QED  BY <1>1, <1>2, <1>3, <1>4, <1>5, <1>6, OneStep DEF Firer

LEMMA FirerCrashInv ==
    ASSUME SchedInv, NEW p \in Firer, FirerCrash(p)
    PROVE  SchedInv'
<1> USE DEF SchedInv, SchedTypeOK, NoEntry
<1>1. SchedTypeOK'
  <2>1. RowsTyped'
    BY DEF FirerCrash, Goto, RowsTyped, rowVars
  <2>2. FlowsTyped'
    BY DEF FirerCrash, Goto, FlowsTyped, flowVars
  <2>3. ProcsTyped' /\ ReadTyped'
    BY DEF FirerCrash, Goto, ProcsTyped, ReadTyped, procVars, Place, Firer, RowsTyped
  <2>4. CountsTyped'
    BY DEF FirerCrash, Goto, CountsTyped, histVars
  <2>. QED  BY <2>1, <2>2, <2>3, <2>4
<1>2. MovesOnly(p) /\ GoesForward
  BY DEF MovesOnly, GoesForward, FirerCrash, Goto, procVars, rowVars, histVars, ProcsTyped,
     RowsTyped, CountsTyped, Unfired, Firer, PlaceOK
<1>3. PlaceOK(p)'
  BY DEF PlaceOK, FirerCrash, Goto, rowVars, procVars, histVars, RowsTyped, ProcsTyped, Unfired,
     Firer, Entry
<1>4. \A f \in Entry : RunsStep(p, f)
  BY DEF RunsStep, FirerCrash, Goto, rowVars, procVars, histVars, RowsTyped, ProcsTyped,
     CountsTyped, Unfired, ToRun, ToMark, Firer, Entry, PlaceOK
<1>5. \A f \in Entry : FollowStep(p, f)
  BY DEF FollowStep, FirerCrash, Goto, rowVars, procVars, histVars, RowsTyped, ProcsTyped,
     CountsTyped, Unfired, ToFollow, Firer, Entry, PlaceOK
<1>6. \A f \in Entry : ChainOK(f)' /\ LinkOK(f)'
  BY DEF EntryOK, ChainOK, LinkOK, FirerCrash, Goto, rowVars, procVars, histVars, RowsTyped,
     ProcsTyped, CountsTyped, Firer, Entry, PlaceOK
<1>. QED  BY <1>1, <1>2, <1>3, <1>4, <1>5, <1>6, OneStep DEF Firer

LEMMA WorkflowEndsInv ==
    ASSUME SchedInv, NEW n \in Name, WorkflowEnds(n)
    PROVE  SchedInv'
<1> USE DEF SchedInv, SchedTypeOK, NoEntry
<1>1. SchedTypeOK'
  <2>1. RowsTyped'
    BY DEF WorkflowEnds, RowsTyped, rowVars
  <2>2. FlowsTyped'
    BY DEF WorkflowEnds, FlowsTyped
  <2>3. ProcsTyped' /\ ReadTyped'
    BY DEF WorkflowEnds, ProcsTyped, ReadTyped, procVars, Place, Firer, RowsTyped
  <2>4. CountsTyped'
    BY DEF WorkflowEnds, CountsTyped, histVars
  <2>. QED  BY <2>1, <2>2, <2>3, <2>4
<1>2. MovesOnly("worker") /\ GoesForward
  BY DEF MovesOnly, GoesForward, WorkflowEnds, procVars, rowVars, histVars, ProcsTyped, RowsTyped,
     CountsTyped, Unfired, Firer, PlaceOK
<1>3. PlaceOK("worker")'
  BY DEF PlaceOK, WorkflowEnds, rowVars, procVars, histVars, RowsTyped, ProcsTyped, Unfired,
     Firer, Entry
<1>4. \A f \in Entry : RunsStep("worker", f)
  BY DEF RunsStep, WorkflowEnds, rowVars, procVars, histVars, RowsTyped, ProcsTyped, CountsTyped,
     Unfired, ToRun, ToMark, Firer, Entry, PlaceOK
<1>5. \A f \in Entry : FollowStep("worker", f)
  BY DEF FollowStep, WorkflowEnds, rowVars, procVars, histVars, RowsTyped, ProcsTyped,
     CountsTyped, Unfired, ToFollow, Firer, Entry, PlaceOK
<1>6. \A f \in Entry : ChainOK(f)' /\ LinkOK(f)'
  BY DEF EntryOK, ChainOK, LinkOK, WorkflowEnds, rowVars, procVars, histVars, RowsTyped,
     ProcsTyped, CountsTyped, Firer, Entry, PlaceOK
<1>. QED  BY <1>1, <1>2, <1>3, <1>4, <1>5, <1>6, OneStep DEF Firer

LEMMA TickInv ==
    ASSUME SchedInv, Tick
    PROVE  SchedInv'
<1> USE DEF SchedInv, SchedTypeOK, NoEntry
<1>1. SchedTypeOK'
  <2>1. RowsTyped'
    BY DEF Tick, RowsTyped, rowVars
  <2>2. FlowsTyped'
    BY DEF Tick, FlowsTyped, flowVars
  <2>3. ProcsTyped' /\ ReadTyped'
    BY DEF Tick, ProcsTyped, ReadTyped, procVars, Place, Firer, RowsTyped
  <2>4. CountsTyped'
    BY DEF Tick, CountsTyped, histVars
  <2>. QED  BY <2>1, <2>2, <2>3, <2>4
<1>2. MovesOnly("worker") /\ GoesForward
  BY DEF MovesOnly, GoesForward, Tick, procVars, rowVars, histVars, ProcsTyped, RowsTyped,
     CountsTyped, Unfired, Firer, PlaceOK
<1>3. PlaceOK("worker")'
  BY DEF PlaceOK, Tick, rowVars, procVars, histVars, RowsTyped, ProcsTyped, Unfired, Firer, Entry
<1>4. \A f \in Entry : RunsStep("worker", f)
  BY DEF RunsStep, Tick, rowVars, procVars, histVars, RowsTyped, ProcsTyped, CountsTyped, Unfired,
     ToRun, ToMark, Firer, Entry, PlaceOK
<1>5. \A f \in Entry : FollowStep("worker", f)
  BY DEF FollowStep, Tick, rowVars, procVars, histVars, RowsTyped, ProcsTyped, CountsTyped,
     Unfired, ToFollow, Firer, Entry, PlaceOK
<1>6. \A f \in Entry : ChainOK(f)' /\ LinkOK(f)'
  BY DEF EntryOK, ChainOK, LinkOK, Tick, rowVars, procVars, histVars, RowsTyped, ProcsTyped,
     CountsTyped, Firer, Entry, PlaceOK
<1>. QED  BY <1>1, <1>2, <1>3, <1>4, <1>5, <1>6, OneStep DEF Firer

LEMMA MarkFiredInv ==
    ASSUME SchedInv, NEW p \in Firer, MarkFired(p)
    PROVE  SchedInv'
<1> USE DEF SchedInv, SchedTypeOK, NoEntry
<1> DEFINE c == cur[p]
<1>1. /\ c \in Entry /\ c \notin batch[p] /\ pc[p] = "mark"
      /\ made[p] => runs[c] > 0
  BY DEF MarkFired, PlaceOK, ProcsTyped
<1>2. /\ status' = [status EXCEPT ![c] = "fired"] /\ linked' = [linked EXCEPT ![c] = made[p]]
      /\ UNCHANGED <<at, name, recurring, flowVars, batch, now, histVars, faults>>
  BY DEF MarkFired
<1>3. /\ ProcsTyped' /\ ReadTyped' /\ MovesOnly(p)
      /\ \/ pc'[p] = "followup" /\ cur'[p] = c /\ made'[p] = made[p]
         \/ pc'[p] = "loop" /\ cur'[p] = NoEntry /\ ~made'[p] /\ ~recurring[c]
  <2>1. CASE recurring[c]
    BY <1>2, <2>1 DEF MarkFired, AfterMark, Goto, ProcsTyped, ReadTyped, MovesOnly, Place
  <2>2. CASE ~recurring[c]
    BY <1>1, <1>2, <2>2, LeaveEntryEffect DEF MarkFired, AfterMark
  <2>. QED  BY <2>1, <2>2
<1>4. SchedTypeOK'
  BY <1>2, <1>3 DEF RowsTyped, FlowsTyped, CountsTyped, ProcsTyped, flowVars, histVars,
     SchedStatus
<1>5. GoesForward
  BY <1>2 DEF GoesForward, RowsTyped, CountsTyped, histVars, Unfired
<1>6. PlaceOK(p)'
  <2>1. batch'[p] = batch[p] /\ batch[p] \subseteq Entry /\ NoEntry \notin Entry
    BY <1>2 DEF ProcsTyped, Entry
  <2>2. /\ \A e \in batch[p] : status'[e] # "absent"
        /\ status'[c] = "fired" /\ runs' = runs
    BY <1>1, <1>2, <2>1 DEF PlaceOK, RowsTyped, histVars
  <2>. QED  BY <1>1, <1>3, <2>1, <2>2 DEF PlaceOK, Unfired
<1>7. ASSUME NEW e \in Entry PROVE RunsStep(p, e) /\ FollowStep(p, e)
  <2>1. /\ runs'[e] = runs[e] /\ follow'[e] = follow[e] /\ faults' = faults
        /\ runs[e] \in Nat /\ follow[e] \in Nat /\ faults \in Nat
        /\ Unfired(e)' => Unfired(e) /\ e # c
    BY <1>2 DEF CountsTyped, RowsTyped, histVars, Unfired
  <2>2. /\ ToRun(p, e)' = ToRun(p, e) /\ ToRun(p, e) \in {0, 1}
        /\ ToFollow(p, e)' <= ToFollow(p, e)
        /\ ToFollow(p, e)' \in {0, 1} /\ ToFollow(p, e) \in {0, 1}
        /\ e # c => ToMark(p, e)' = ToMark(p, e) /\ ToMark(p, e) \in {0, 1}
    BY <1>1, <1>2, <1>3 DEF ToRun, ToFollow, ToMark, Entry
  <2>. QED  BY <2>1, <2>2 DEF RunsStep, FollowStep
<1>8. ASSUME NEW e \in Entry PROVE ChainOK(e)' /\ LinkOK(e)'
  <2>1. CASE e = c
    BY <1>1, <1>2, <1>3, <2>1 DEF ChainOK, LinkOK, RowsTyped, histVars
  <2>2. CASE e # c
    <3>1. ChainOK(e) /\ LinkOK(e) /\ status'[e] = status[e] /\ linked'[e] = linked[e]
      BY <1>2, <2>2 DEF EntryOK, RowsTyped
    <3>2. \A f \in Firer : cur[f] = e /\ pc[f] = "followup" => cur'[f] = e /\ pc'[f] = "followup"
      BY <1>1, <1>3, <2>2 DEF MovesOnly
    <3>. QED  BY <1>2, <3>1, <3>2 DEF ChainOK, LinkOK, histVars
  <2>. QED  BY <2>1, <2>2
<1>. QED  BY <1>3, <1>4, <1>5, <1>6, <1>7, <1>8, OneStep

LEMMA CreateFollowupInv ==
    ASSUME SchedInv, NEW p \in Firer, CreateFollowup(p)
    PROVE  SchedInv'
<1> USE DEF SchedInv, SchedTypeOK, NoEntry
<1> DEFINE c == cur[p]
<1>1. c \in Entry /\ c \notin batch[p] /\ pc[p] = "followup" /\ ~Unfired(c)
  BY DEF CreateFollowup, PlaceOK, ProcsTyped
<1>2. /\ follow' = [follow EXCEPT ![c] = @ + 1]
      /\ UNCHANGED <<flowVars, batch, now, runs, faults>>
  BY DEF CreateFollowup
<1>3. /\ ProcsTyped' /\ ReadTyped' /\ MovesOnly(p)
      /\ pc'[p] = "loop" /\ cur'[p] = NoEntry /\ ~made'[p]
  BY <1>1, <1>2, LeaveEntryEffect DEF CreateFollowup
<1>4. /\ RowsTyped' /\ linked' = linked
      /\ \A e \in Entry : \/ status'[e] = status[e] /\ recurring'[e] = recurring[e]
                          \/ status[e] = "absent" /\ status'[e] = "pending" /\ e # c
  <2>1. CASE UNCHANGED rowVars
    BY <2>1 DEF rowVars, RowsTyped
  <2>2. ASSUME NEW f \in Entry, IsNext(f), Store(f, name[c], NextOccurrence(read[p][c]), TRUE)
        PROVE  /\ RowsTyped' /\ linked' = linked
               /\ \A e \in Entry : \/ status'[e] = status[e] /\ recurring'[e] = recurring[e]
                                   \/ status[e] = "absent" /\ status'[e] = "pending" /\ e # c
    <3>1. name[c] \in Name \cup {None} /\ NextOccurrence(read[p][c]) \in Nat
      BY <1>1 DEF RowsTyped, ReadTyped, NextOccurrence
    <3>2. status[f] = "absent" /\ f # c
      BY <1>1, <2>2 DEF IsNext, Absent, Unfired
    <3>. QED  BY <2>2, <3>1, <3>2 DEF Store, RowsTyped, SchedStatus
  <2>. QED  BY <2>1, <2>2 DEF CreateFollowup
<1>5. SchedTypeOK'
  BY <1>1, <1>2, <1>3, <1>4 DEF FlowsTyped, CountsTyped, flowVars
<1>6. GoesForward
  BY <1>2, <1>4 DEF GoesForward, CountsTyped, Unfired
<1>7. PlaceOK(p)'
  <2>1. batch'[p] = batch[p] /\ batch[p] \subseteq Entry /\ NoEntry \notin Entry
    BY <1>2 DEF ProcsTyped, Entry
  <2>2. \A e \in batch[p] : status'[e] # "absent"
    BY <1>4, <2>1 DEF PlaceOK
  <2>. QED  BY <1>3, <2>1, <2>2 DEF PlaceOK
<1>8. ASSUME NEW e \in Entry PROVE RunsStep(p, e) /\ FollowStep(p, e)
  <2>1. /\ runs'[e] = runs[e] /\ faults' = faults /\ runs[e] \in Nat /\ faults \in Nat
        /\ follow[e] \in Nat /\ follow'[e] = IF e = c THEN follow[e] + 1 ELSE follow[e]
        /\ Unfired(e)' => Unfired(e) /\ e # c
    BY <1>1, <1>2, <1>4 DEF CountsTyped, Unfired
  <2>2. /\ ToRun(p, e)' = ToRun(p, e) /\ ToRun(p, e) \in {0, 1}
        /\ ToMark(p, e)' = ToMark(p, e) /\ ToMark(p, e) \in {0, 1}
        /\ e # c => ToFollow(p, e)' = ToFollow(p, e) /\ ToFollow(p, e) \in {0, 1}
        /\ e = c => ToFollow(p, e)' = 0 /\ ToFollow(p, e) = 1
    BY <1>1, <1>2, <1>3 DEF ToRun, ToFollow, ToMark, Entry
  <2>. QED  BY <2>1, <2>2 DEF RunsStep, FollowStep
<1>9. ASSUME NEW e \in Entry PROVE ChainOK(e)' /\ LinkOK(e)'
  <2>1. ChainOK(e) /\ LinkOK(e)
    BY DEF EntryOK
  <2>2. status'[e] = "fired" => status[e] = "fired" /\ recurring'[e] = recurring[e]
    BY <1>4
  <2>3. follow'[e] = IF e = c THEN follow[e] + 1 ELSE follow[e]
    BY <1>1, <1>2 DEF CountsTyped
  <2>4. \A f \in Firer : e # c /\ cur[f] = e /\ pc[f] = "followup"
           => cur'[f] = e /\ pc'[f] = "followup"
    BY <1>3 DEF MovesOnly
  <2>. QED  BY <1>1, <1>2, <1>4, <2>1, <2>2, <2>3, <2>4 DEF ChainOK, LinkOK, CountsTyped
<1>. QED  BY <1>3, <1>5, <1>6, <1>7, <1>8, <1>9, OneStep

LEMMA RefusedInv ==
    ASSUME SchedInv, NEW p \in Firer, Refused(p)
    PROVE  SchedInv'
<1> USE DEF SchedInv, SchedTypeOK, NoEntry
<1> DEFINE c == cur[p]
<1>1. c \in Entry /\ c \notin batch[p] /\ pc[p] \in {"insert", "mark", "followup"}
        /\ status[c] # "absent"
  BY DEF Refused, PlaceOK, ProcsTyped
<1>2. /\ status' \in {status, [status EXCEPT ![c] = "failed"]} /\ faults' = faults + 1
      /\ UNCHANGED <<at, name, recurring, linked, flowVars, batch, now, histVars>>
  BY DEF Refused
<1>3. /\ ProcsTyped' /\ ReadTyped' /\ MovesOnly(p)
      /\ pc'[p] = "loop" /\ cur'[p] = NoEntry /\ ~made'[p]
  BY <1>1, <1>2, LeaveEntryEffect DEF Refused
<1>4. SchedTypeOK'
  BY <1>2, <1>3 DEF RowsTyped, FlowsTyped, CountsTyped, flowVars, histVars, SchedStatus
<1>5. \A e \in Entry : status'[e] = status[e] \/ (e = c /\ status'[e] = "failed")
  BY <1>1, <1>2 DEF RowsTyped
<1>6. GoesForward
  BY <1>1, <1>2, <1>5 DEF GoesForward, CountsTyped, histVars, Unfired
<1>7. PlaceOK(p)'
  <2>1. batch'[p] = batch[p] /\ batch[p] \subseteq Entry /\ NoEntry \notin Entry
    BY <1>2 DEF ProcsTyped, Entry
  <2>2. \A e \in batch[p] : status'[e] # "absent"
    BY <1>5, <2>1 DEF PlaceOK
  <2>. QED  BY <1>3, <2>1, <2>2 DEF PlaceOK
<1>8. ASSUME NEW e \in Entry PROVE RunsStep(p, e) /\ FollowStep(p, e)
  <2>1. /\ runs'[e] = runs[e] /\ follow'[e] = follow[e] /\ faults' = faults + 1
        /\ runs[e] \in Nat /\ follow[e] \in Nat /\ faults \in Nat
        /\ Unfired(e)' => Unfired(e)
    BY <1>2, <1>5 DEF CountsTyped, histVars, Unfired
  <2>2. /\ ToRun(p, e)' <= ToRun(p, e) /\ ToRun(p, e) \in {0, 1} /\ ToRun(p, e)' \in {0, 1}
        /\ ToMark(p, e)' = 0 /\ ToMark(p, e) \in {0, 1}
        /\ ToFollow(p, e)' <= ToFollow(p, e)
        /\ ToFollow(p, e)' \in {0, 1} /\ ToFollow(p, e) \in {0, 1}
    BY <1>1, <1>2, <1>3 DEF ToRun, ToFollow, ToMark, Entry
  <2>. QED  BY <2>1, <2>2 DEF RunsStep, FollowStep
<1>9. ASSUME NEW e \in Entry PROVE ChainOK(e)' /\ LinkOK(e)'
  BY <1>2 DEF EntryOK, ChainOK, LinkOK, CountsTyped, histVars
<1>. QED  BY <1>3, <1>4, <1>6, <1>7, <1>8, <1>9, OneStep

\* The invariant holds of an empty calendar with both processes idle.
LEMMA SchedInvInit == SchedInit => SchedInv
<1> SUFFICES ASSUME SchedInit PROVE SchedInv
  OBVIOUS
<1>1. SchedTypeOK
  BY DEF SchedInit, SchedTypeOK, RowsTyped, FlowsTyped, ProcsTyped, ReadTyped, CountsTyped, Place,
     SchedStatus, NoEntry
<1>2. \A p \in Firer : PlaceOK(p)
  BY DEF SchedInit, PlaceOK, NoEntry, Entry
<1>3. \A e \in Entry : EntryOK(e)
  BY DEF SchedInit, EntryOK, RunsOK, FollowOK, ChainOK, LinkOK, ToRun, ToMark, ToFollow, Firer,
     NoEntry, Entry
<1>. QED  BY <1>1, <1>2, <1>3 DEF SchedInv

LEMMA SchedInvNext == SchedInv /\ [SchedNext]_schedVars => SchedInv'
<1> SUFFICES ASSUME SchedInv, [SchedNext]_schedVars PROVE SchedInv'
  OBVIOUS
<1>1. CASE UNCHANGED schedVars
  <2> USE <1>1 DEF schedVars, rowVars, flowVars, procVars, histVars, SchedInv
  <2>1. SchedTypeOK'
    BY DEF SchedTypeOK, RowsTyped, FlowsTyped, ProcsTyped, ReadTyped, CountsTyped
  <2>2. \A p \in Firer : PlaceOK(p)'
    BY DEF PlaceOK, Unfired
  <2>3. \A e \in Entry : EntryOK(e)'
    BY DEF EntryOK, RunsOK, FollowOK, ChainOK, LinkOK, ToRun, ToMark, ToFollow, Unfired
  <2>. QED  BY <2>1, <2>2, <2>3
<1>2. ASSUME NEW e \in Entry, NEW n \in Name, NEW t \in now .. MaxTime, NEW r \in BOOLEAN,
             CreateSchedule(e, n, t, r)
      PROVE  SchedInv'
  BY <1>2, CreateScheduleInv
<1>3. ASSUME NEW e \in Entry, NEW label \in {"move", "cancel"}, BeginEdit(e, label)
      PROVE  SchedInv'
  BY <1>3, BeginEditInv
<1>4. CASE EditStep
  BY <1>4, MoveScheduleInv, CancelScheduleInv DEF EditStep
<1>5. ASSUME NEW p \in Firer, PollDue(p) \/ FireStep(p) \/ Refused(p) \/ FirerCrash(p)
      PROVE  SchedInv'
  BY <1>5, PollDueInv, CheckNameInv, InsertWorkflowInv, MarkFiredInv, CreateFollowupInv,
     EndPollInv, RefusedInv, FirerCrashInv DEF FireStep
<1>6. ASSUME NEW n \in Name, WorkflowEnds(n) PROVE SchedInv'
  BY <1>6, WorkflowEndsInv
<1>7. CASE Tick
  BY <1>7, TickInv
<1>. QED  BY <1>1, <1>2, <1>3, <1>4, <1>5, <1>6, <1>7 DEF SchedNext

-----------------------------------------------------------------------------
\* Type correctness of the calendar, its firing processes and their history.
THEOREM SchedTypeCorrect == SchedSpec => []SchedTypeOK
<1>1. SchedInv => SchedTypeOK
  BY DEF SchedInv
<1>. QED  BY SchedInvInit, SchedInvNext, <1>1, PTL DEF SchedSpec

\* However the worker's loop, the API's request, the operator and the faults
\* interleave: fire_due_schedules runs an entry once for each process and once more
\* for each fault, and _maybe_create_followup forks its chain once for each process.
THEOREM FiringsBoundedHolds == SchedSpec => []FiringsBounded
<1>1. SchedInv => FiringsBounded
  <2> SUFFICES ASSUME SchedInv, NEW e \in Entry
               PROVE  runs[e] <= Cardinality(Firer) + faults /\ follow[e] <= Cardinality(Firer)
    BY DEF FiringsBounded
  <2>1. Cardinality(Firer) = 2
    <3>1. Cardinality({"worker"}) = 1 /\ IsFiniteSet({"worker"})
      BY FS_Singleton
    <3>2. Cardinality({"worker"} \cup {"api"}) = 2
      BY <3>1, FS_AddElement
    <3>3. Firer = {"worker"} \cup {"api"}
      BY DEF Firer
    <3>. QED  BY <3>2, <3>3
  <2>2. RunsOK(e) /\ FollowOK(e) /\ runs[e] \in Nat /\ follow[e] \in Nat /\ faults \in Nat
    BY DEF SchedInv, EntryOK, SchedTypeOK, CountsTyped
  <2>3. /\ ToRun("worker", e) + ToRun("api", e) \in Nat
        /\ ToFollow("worker", e) + ToFollow("api", e) \in Nat
    BY DEF ToRun, ToFollow
  <2>. QED  BY <2>1, <2>2, <2>3 DEF RunsOK, FollowOK
<1>. QED  BY SchedInvInit, SchedInvNext, <1>1, PTL DEF SchedSpec

\* A recurring entry that fired has its followup once nobody works on it, unless a
\* fault hit (_mark_fired and _maybe_create_followup, two writes).
THEOREM ChainKeptHolds == SchedSpec => []ChainKept
<1>1. SchedInv => ChainKept
  BY DEF SchedInv, EntryOK, ChainOK, ChainKept
<1>. QED  BY SchedInvInit, SchedInvNext, <1>1, PTL DEF SchedSpec

\* The workflow_id that _mark_fired writes is one that create_workflow made for the
\* entry, and an entry that is still to fire has no followup.
THEOREM LinkTruthfulHolds == SchedSpec => []LinkTruthful
<1>1. SchedInv => LinkTruthful
  BY DEF SchedInv, EntryOK, LinkOK, FollowOK, LinkTruthful, Unfired
<1>. QED  BY SchedInvInit, SchedInvNext, <1>1, PTL DEF SchedSpec

\* What a process has read is in its hands, and a poll reads nothing that is held.
LEMMA HeldKept ==
    ASSUME SchedInv, [SchedNext]_schedVars, NEW e \in Entry, Held(e), ~InHand(e)
    PROVE  /\ runs'[e] = runs[e]
           /\ status'[e] = status[e] \/ status'[e] = "cancelled"
           /\ Held(e)' => ~InHand(e)'
<1> USE DEF SchedInv, SchedTypeOK, Held, InHand, Fires, NoEntry
<1>1. e # NoEntry /\ status[e] \notin {"absent", "fired", "failed"} /\ e \notin Due
  BY DEF Due, RowsTyped, CountsTyped, Entry
<1>2. \A p \in Firer : /\ e \notin batch[p]
                       /\ cur[p] = e => pc[p] \in {"move", "cancel"}
  OBVIOUS
<1> DEFINE Keeps == /\ runs'[e] = runs[e]
                    /\ status'[e] = status[e] \/ status'[e] = "cancelled"
                    /\ Held(e)' => ~InHand(e)'
<1> SUFFICES Keeps
  OBVIOUS
<1>3. ASSUME runs'[e] = runs[e], status'[e] = status[e] \/ status'[e] = "cancelled",
             \A p \in Firer : /\ e \notin batch'[p]
                              /\ cur'[p] = e => \/ cur[p] = e /\ pc'[p] = pc[p]
                                                \/ pc'[p] \in {"move", "cancel"}
      PROVE  Keeps
  BY <1>2, <1>3
<1> HIDE DEF Keeps
<1>4. CASE UNCHANGED schedVars
  BY <1>2, <1>3, <1>4 DEF schedVars, rowVars, procVars, histVars
<1>5. ASSUME NEW f \in Entry, NEW n \in Name, NEW t \in now .. MaxTime, NEW r \in BOOLEAN,
             CreateSchedule(f, n, t, r)
      PROVE  Keeps
  BY <1>1, <1>2, <1>3, <1>5 DEF CreateSchedule, Store, IsNext, Absent, procVars, histVars,
     RowsTyped
<1>6. ASSUME NEW f \in Entry, NEW label \in {"move", "cancel"}, BeginEdit(f, label) PROVE Keeps
  BY <1>2, <1>3, <1>6 DEF BeginEdit, Goto, rowVars, histVars, ProcsTyped
<1>7. CASE EditStep
  BY <1>1, <1>2, <1>3, <1>7 DEF EditStep, MoveSchedule, CancelSchedule, EditDone, Goto, histVars,
     ProcsTyped, RowsTyped
<1>8. ASSUME NEW p \in Firer, PollDue(p) PROVE Keeps
  BY <1>1, <1>2, <1>3, <1>8 DEF PollDue, Goto, rowVars, histVars, ProcsTyped
<1>9. ASSUME NEW p \in Firer, FireStep(p) \/ Refused(p) PROVE Keeps
  <2>2. ASSUME NEW f \in Entry, CheckName(p, f) PROVE Keeps
    BY <1>2, <1>3, <2>2 DEF CheckName, Goto, rowVars, histVars, ProcsTyped
  <2>3. CASE InsertWorkflow(p)
    BY <1>2, <1>3, <2>3 DEF InsertWorkflow, Goto, rowVars, ProcsTyped, CountsTyped
  <2>4. ASSUME AfterMark(p, recurring[cur[p]]) \/ LeaveEntry(p), UNCHANGED batch,
               pc[p] \in {"insert", "mark", "followup"}
        PROVE  \A q \in Firer : /\ e \notin batch'[q]
                                /\ cur'[q] = e => cur[q] = e /\ pc'[q] = pc[q]
    BY <1>1, <1>2, <2>4 DEF AfterMark, LeaveEntry, Goto, ProcsTyped
  <2>5. CASE MarkFired(p)
    BY <1>2, <1>3, <2>4, <2>5 DEF MarkFired, histVars, RowsTyped
  <2>6. CASE CreateFollowup(p)
    BY <1>1, <1>2, <1>3, <2>4, <2>6 DEF CreateFollowup, Store, IsNext, Absent, rowVars, RowsTyped
  <2>7. CASE EndPoll(p)
    BY <1>2, <1>3, <2>7 DEF EndPoll, Goto, rowVars, histVars, ProcsTyped
  <2>8. CASE Refused(p)
    BY <1>2, <1>3, <2>4, <2>8 DEF Refused, histVars, RowsTyped
  <2>. QED  BY <1>9, <2>2, <2>3, <2>5, <2>6, <2>7, <2>8 DEF FireStep
<1>10. ASSUME NEW p \in Firer, FirerCrash(p) PROVE Keeps
  BY <1>1, <1>2, <1>3, <1>10 DEF FirerCrash, Goto, rowVars, histVars, ProcsTyped
<1>11. ASSUME NEW n \in Name, WorkflowEnds(n) PROVE Keeps
  BY <1>2, <1>3, <1>11 DEF WorkflowEnds, rowVars, procVars, histVars
<1>12. CASE Tick
  BY <1>2, <1>3, <1>12 DEF Tick, rowVars, procVars, histVars
<1>. QED  BY <1>4, <1>5, <1>6, <1>7, <1>8, <1>9, <1>10, <1>11, <1>12 DEF SchedNext

\* What the operator cancelled or moved into the future, when no process had it in
\* its hands, is not fired: every poll from then on reads the edit.
THEOREM EditsHoldHolds == SchedSpec => EditsHold
<1>1. SchedInv /\ [SchedNext]_schedVars =>
         [\A e \in Entry :
             Held(e) /\ ~InHand(e)
             => /\ runs'[e] = runs[e]
                /\ status'[e] = status[e] \/ status'[e] = "cancelled"
                /\ Held(e)' => ~InHand(e)']_schedVars
  BY HeldKept
<1>. QED  BY SchedInvInit, SchedInvNext, <1>1, PTL DEF SchedSpec, EditsHold
=============================================================================
