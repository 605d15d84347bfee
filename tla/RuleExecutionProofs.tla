------------------------- MODULE RuleExecutionProofs -------------------------
(* Theorems about RuleExecution, for any rule and any number of faults.  The  *)
(* node kinds and the processes are those of the code.                        *)
EXTENDS RuleExecution, TLAPS

\* The node after the checkpoint, and whether the graph stops there.
Ahead  == NextNode(cp.at)
AtStop == StopsAt(cp)

EntryStatus == {"none", "pending", "due", "fired", "handled", "failed", "cancelled"}
Aside       == {"idle", "patch", "handled", "fire", "cancel", "move"}
Stopped     == {"read", "ask", "write", "close"}

RuleTypeOK ==
    /\ rule \in [kinds : SUBSET Kind, approval : BOOLEAN, delay : {"none", "timing", "config"},
                 tenant : Nat]
    /\ row \in RowStatus /\ ended \in BOOLEAN /\ approved \in BOOLEAN /\ elapsed \in BOOLEAN
    /\ entry \in EntryStatus /\ ahead \in Nat
    /\ cp \in Graph /\ mem \in [Process -> Graph]
    /\ pc \in [Process -> Aside \cup {"invoke", "save"} \cup Stopped]
    /\ effects \in [Effect -> Nat] /\ faults \in [Process -> Nat]

\* The row is the lock: each process runs the graph only under a status of its own,
\* and no other process changes that status.
RowOf(p) == IF p = "listener" THEN "running"
            ELSE IF p = "worker" THEN "waiting_timer" ELSE "waiting_human"
Running(p) == pc[p] \in {"invoke", "save"} \cup Stopped

\* A process may be at such a place outside the graph.
AsideOK(p, label) ==
    /\ label \in {"patch", "fire"} => p # "listener"
    /\ label = "handled" => p = "worker"
    /\ label \in {"cancel", "move"} => p = "api"

\* What it runs is the checkpoint or what follows it; what it has read of the
\* checkpoint is right, but for a fault.
HandOK(p) ==
    /\ AsideOK(p, pc[p])
    /\ Running(p) \/ pc[p] = "patch" => row = RowOf(p)
    /\ pc[p] \in {"invoke", "read"} => mem[p] = cp
    /\ pc[p] \in {"ask", "write", "close"} => mem[p] = cp \/ (faults[p] > 0 /\ mem[p] = Unread(p))
    /\ pc[p] \in {"invoke", "save"} => cp.at # Finalize
    /\ pc[p] = "save" => mem[p].at = Ahead
    /\ pc[p] \in Stopped => AtStop
    /\ pc[p] = "close" => cp.at = Finalize
    /\ pc[p] = "write" => cp.at # Finalize \/ faults[p] > 0

\* What the listener runs is undecided and unresolved, what the API runs is decided;
\* the worker and the API run what is past the wait.
ListenerOK ==
    Running("listener") =>
        /\ cp.decision = "none" /\ ~cp.resolved
        /\ mem["listener"].decision = "none" /\ ~mem["listener"].resolved
        /\ mem["listener"].at = 1 /\ rule.delay # "none" => mem["listener"].timer
        /\ mem["listener"].at = 9 => mem["listener"].status \in Terminal
        /\ pc["listener"] = "invoke" => ~AtStop
WaitOK ==
    /\ row = "absent" => cp = NewGraph /\ mem["listener"] = NewGraph
    /\ row \in {"waiting_timer", "waiting_human"} => Ahead > 1
    /\ \A p \in {"worker", "api"} : Running(p) => mem[p].status # "waiting_timer"
    /\ pc["api"] \in {"invoke", "save"} => Decided(mem["api"])

\* Before the delay is over, only the listener has run, and only the wait, unless a
\* fault let it write that the graph waits for a human, who then decided.
TimeOK ==
    pc["worker"] # "idle" \/ pc["api"] = "fire" \/ entry \in {"due", "fired", "handled", "failed"}
      => elapsed
DelayOK ==
    /\ rule.delay = "config" => "wait" \in rule.kinds
    /\ rule.delay = "timing" /\ ~elapsed =>
          /\ cp.decision = "none" =>
                /\ Unacted /\ ~Running("api")
                /\ row \in {"absent", "running", "waiting_timer", "waiting_human", "failed"}
                /\ Running("listener") => cp.at <= 1 /\ mem["listener"].at <= 1
          /\ row = "waiting_human" \/ cp.decision # "none" => faults["listener"] > 0

\* An effect that took place is one the checkpoint has, one about to be
\* checkpointed, or one that a fault repeats; a dead execution repeats nothing.
Rank(k) == IF k = "create_coupon" THEN 3 ELSE IF k = "publish" THEN 6 ELSE 7
Done(k) == IF cp.at >= Rank(k) \/ \E p \in Process : pc[p] = "save" /\ mem[p].at >= Rank(k)
           THEN 1 ELSE 0
Live    == row \notin Terminal /\ (row = "running" => Running("listener"))
EffectOK(k) ==
    /\ effects[k] <= 1 + (faults["worker"] + faults["api"])
    /\ Live => effects[k] <= Done(k) + (faults["worker"] + faults["api"])

\* Without an approval and without a fault of the worker, the listener and the
\* worker stop at the risk check, and what the API runs was rejected.
GateOK ==
    "approval" \in Selected /\ faults["worker"] = 0 /\ ~approved =>
        /\ effects["publish"] = 0
        /\ "publish" \in Selected =>
              /\ row = "waiting_timer" /\ ~Running("worker") => cp.at = 1
              /\ \A p \in {"listener", "worker"} :
                    /\ Running(p) => mem[p].at <= 4
                    /\ pc[p] = "invoke" => mem[p].at # 4
              /\ pc["api"] \in {"invoke", "save"} => mem["api"].decision = "rejected"

\* Without any fault the row says where the graph stands, and each process has run
\* as far as its stop.
Settled ==
    /\ row = "running" => Running("listener")
    /\ row = "waiting_human" /\ ~Running("api") => Ahead = 5 /\ ~Decided(cp)
    /\ row = "waiting_timer" /\ ~Running("worker") => cp.at = 1 /\ ~cp.resolved /\ ~Decided(cp)
    /\ row \in {"completed", "cancelled"} => cp.at = Finalize /\ cp.status = row
    /\ ended <=> row \in Terminal
Stopping ==
    /\ Running("worker") => ~Decided(mem["worker"])
    /\ pc["worker"] \in {"save"} \cup Stopped => mem["worker"].at > 1
    /\ pc["api"] = "invoke" => Ahead >= 5
    /\ pc["api"] \in {"save"} \cup Stopped => mem["api"].at >= 5
    /\ \A p \in Process : Running(p) /\ mem[p].at = Finalize => mem[p].status \in Terminal

RuleInv ==
    /\ RuleTypeOK
    /\ \A p \in Process : HandOK(p)
    /\ ListenerOK /\ WaitOK /\ TimeOK /\ DelayOK
    /\ \A k \in Effect : EffectOK(k)
    /\ GateOK
    /\ Faultless => Settled /\ Stopping
-----------------------------------------------------------------------------
\* Where _CANONICAL_ORDER has each kind.
LEMMA Positions ==
    /\ DOMAIN Canonical = 1 .. 8 /\ Finalize = 9
    /\ \A i \in Nat : /\ IsKind(i, "wait") <=> i = 1
                      /\ IsKind(i, "generate_content") <=> i = 2
                      /\ IsKind(i, "create_coupon") <=> i = 3
                      /\ IsKind(i, "risk_check") <=> i = 4
                      /\ IsKind(i, "approval") <=> i = 5
                      /\ IsKind(i, "publish") <=> i = 6
                      /\ IsKind(i, "notify_customer") <=> i = 7
<1>1. DOMAIN Canonical = 1 .. 8 /\ Finalize = 9
  BY DEF Canonical, Finalize
<1>2. /\ Canonical[1] = "wait" /\ Canonical[2] = "generate_content"
      /\ Canonical[3] = "create_coupon" /\ Canonical[4] = "risk_check"
      /\ Canonical[5] = "approval" /\ Canonical[6] = "publish"
      /\ Canonical[7] = "notify_customer" /\ Canonical[8] = "monitor"
  BY DEF Canonical
<1>3. ASSUME NEW i \in 1 .. 8
      PROVE  i = 1 \/ i = 2 \/ i = 3 \/ i = 4 \/ i = 5 \/ i = 6 \/ i = 7 \/ i = 8
  OBVIOUS
<1>4. 1 \in 1 .. 8 /\ 2 \in 1 .. 8 /\ 3 \in 1 .. 8 /\ 4 \in 1 .. 8 /\ 5 \in 1 .. 8 /\ 6 \in 1 .. 8
        /\ 7 \in 1 .. 8
  OBVIOUS
<1>. QED  BY <1>1, <1>2, <1>3, <1>4 DEF IsKind

\* Some number of a set of positions is the least.
LEMMA LeastExists ==
    ASSUME NEW S \in SUBSET (1 .. 9), S # {}
    PROVE  Min(S) \in S /\ \A j \in S : Min(S) <= j
<1>1. \A i \in S : i \in {1, 2, 3, 4, 5, 6, 7, 8, 9}
  OBVIOUS
<1>2. \E i \in S : \A j \in S : i <= j
  <2>1. CASE S \cap {1, 2, 3} # {}
    <3>1. CASE 1 \in S
      BY <1>1, <3>1
    <3>2. CASE 1 \notin S /\ 2 \in S
      BY <1>1, <3>2
    <3>. QED  BY <1>1, <2>1, <3>1, <3>2
  <2>2. CASE S \cap {1, 2, 3} = {} /\ S \cap {4, 5, 6} # {}
    <3>1. CASE 4 \in S
      BY <1>1, <2>2, <3>1
    <3>2. CASE 4 \notin S /\ 5 \in S
      BY <1>1, <2>2, <3>2
    <3>. QED  BY <1>1, <2>2, <3>1, <3>2
  <2>3. CASE S \cap {1, 2, 3, 4, 5, 6} = {}
    <3>1. CASE 7 \in S
      BY <1>1, <2>3, <3>1
    <3>2. CASE 7 \notin S /\ 8 \in S
      BY <1>1, <2>3, <3>2
    <3>3. CASE 7 \notin S /\ 8 \notin S
      <4>1. \A i \in S : i = 9
        BY <1>1, <2>3, <3>3
      <4>2. 9 \in S
        BY <4>1
      <4>. QED  BY <4>1, <4>2
    <3>. QED  BY <3>1, <3>2, <3>3
  <2>. QED  BY <2>1, <2>2, <2>3
<1>. QED  BY <1>2 DEF Min

\* The next node comes later, is one that is selected or the last one, and passes
\* over no selected one.
LEMMA NextNodeIs ==
    ASSUME NEW i \in 0 .. 9
    PROVE  /\ NextNode(i) \in 1 .. 9
           /\ NextNode(i) >= i /\ (i < 9 => NextNode(i) > i)
           /\ NextNode(i) < 9 => Canonical[NextNode(i)] \in Selected
           /\ \A j \in 1 .. 8 : j > i /\ Canonical[j] \in Selected => NextNode(i) <= j
<1> DEFINE S == {j \in DOMAIN Canonical : j > i /\ Canonical[j] \in Selected} \cup {Finalize}
<1>1. S \in SUBSET (1 .. 9) /\ 9 \in S
  BY Positions
<1>2. NextNode(i) \in S /\ \A j \in S : NextNode(i) <= j
  BY <1>1, LeastExists DEF NextNode
<1>. QED  BY <1>1, <1>2, Positions

\* The same of the numbers a proof about a rule meets: a stop lies before the
\* approval, after a wait under timing, or at the end.
LEMMA StopIs ==
    ASSUME NEW g \in Graph
    PROVE  StopsAt(g) <=> \/ g.at = 9
                          \/ NextNode(g.at) = 5
                          \/ g.at = 1 /\ rule.delay = "timing"
<1>1. g.at \in 0 .. 9
  BY Positions DEF Graph
<1>2. NextNode(g.at) \in Nat
  BY <1>1, NextNodeIs
<1>. QED  BY <1>1, <1>2, Positions DEF StopsAt

\* Publishing selects its content and its risk check; a delay under timing and a
\* wait of its own select the wait.
LEMMA Brought ==
    ASSUME RuleTypeOK
    PROVE  /\ "publish" \in Selected => "risk_check" \in Selected
           /\ rule.delay = "timing" => "wait" \in Selected
           /\ "wait" \in rule.kinds => "wait" \in Selected
BY DEF Selected, RuleTypeOK

\* What a node leaves of the state: where it is, and whether it is decided, resolved
\* or at its end.
NodeDone(g, i, h) ==
    /\ h \in Graph /\ h.at = i /\ h.resolved = g.resolved
    /\ h.decision = IF i = 5 /\ ~Decided(g) THEN "pending" ELSE g.decision
    /\ i = 1 /\ ~g.resolved /\ rule.delay # "none" => h.timer
    /\ i # 1 /\ g.status # "waiting_timer" => h.status # "waiting_timer"
    /\ i = 9 => h.status \in Terminal

\* Every node leaves such a state.
LEMMA NodeLeaves ==
    ASSUME NEW g \in Graph, NEW i \in 1 .. 9, NEW published \in {"none", "ok", "failed"},
           RuleTypeOK
    PROVE  NodeDone(g, i, AfterNode(g, i, published))
<1>1. i \in Nat /\ i \in 0 .. Finalize /\ Finalize = 9
  BY Positions
<1>2. /\ IsKind(i, "wait") <=> i = 1
      /\ IsKind(i, "approval") <=> i = 5
      /\ IsKind(i, "publish") <=> i = 6
  BY <1>1, Positions
<1> DEFINE h == AfterNode(g, i, published)
<1> SUFFICES NodeDone(g, i, h)
  OBVIOUS
<1>3. \A s \in RowStatus \ {"absent"} : \A r \in BOOLEAN :
         /\ [g EXCEPT !.at = i] \in Graph
         /\ [g EXCEPT !.at = i, !.status = s] \in Graph
         /\ [g EXCEPT !.at = i, !.status = s, !.timer = r] \in Graph
         /\ [g EXCEPT !.at = i, !.status = s, !.decision = "pending"] \in Graph
         /\ [g EXCEPT !.at = i, !.publish = published, !.status = s] \in Graph
  BY <1>1 DEF Graph
<1>4. /\ {"running", "waiting_timer", "waiting_human", "cancelled", "failed", "completed"}
             \subseteq RowStatus \ {"absent"}
      /\ Terminal \subseteq RowStatus \ {"absent"}
      /\ g.status \in RowStatus \ {"absent"}
  BY DEF RowStatus, Terminal, Graph
<1>5. CASE i = 1
  <2>1. \/ g.resolved /\ h = [g EXCEPT !.at = i, !.status = "running"]
        \/ ~g.resolved /\ rule.delay = "none" /\ h = [g EXCEPT !.at = i]
        \/ ~g.resolved /\ h = [g EXCEPT !.at = i, !.status = "waiting_timer", !.timer = TRUE]
    BY <1>1, <1>2, <1>5 DEF AfterNode
  <2> HIDE DEF h
  <2>2. h \in Graph
    <3>1. /\ [g EXCEPT !.at = i] \in Graph
          /\ [g EXCEPT !.at = i, !.status = "running"] \in Graph
          /\ [g EXCEPT !.at = i, !.status = "waiting_timer", !.timer = TRUE] \in Graph
      BY <1>3, <1>4
    <3>. QED  BY <2>1, <3>1
  <2>3. /\ DOMAIN g = {"at", "decision", "status", "resolved", "timer", "publish"}
        /\ g = [at |-> g.at, decision |-> g.decision, status |-> g.status,
                resolved |-> g.resolved, timer |-> g.timer, publish |-> g.publish]
    BY DEF Graph
  <2>4. h.at = i /\ h.resolved = g.resolved /\ h.decision = g.decision
    BY <2>1, <2>3
  <2>5. ~g.resolved /\ rule.delay # "none" => h.timer
    BY <2>1, <2>3
  <2>. QED  BY <1>5, <2>2, <2>4, <2>5 DEF NodeDone
<1>6. CASE i = 5
  <2>1. \/ Decided(g) /\ h = [g EXCEPT !.at = i]
        \/ ~Decided(g)
              /\ h = [g EXCEPT !.at = i, !.status = "waiting_human", !.decision = "pending"]
    BY <1>1, <1>2, <1>6 DEF AfterNode
  <2> HIDE DEF h
  <2>2. h \in Graph
    <3>1. /\ [g EXCEPT !.at = i] \in Graph
          /\ [g EXCEPT !.at = i, !.status = "waiting_human", !.decision = "pending"] \in Graph
      BY <1>3, <1>4
    <3>. QED  BY <2>1, <3>1
  <2>3. /\ DOMAIN g = {"at", "decision", "status", "resolved", "timer", "publish"}
        /\ g = [at |-> g.at, decision |-> g.decision, status |-> g.status,
                resolved |-> g.resolved, timer |-> g.timer, publish |-> g.publish]
    BY DEF Graph
  <2>4. /\ h.at = i /\ h.resolved = g.resolved /\ h.status \in {g.status, "waiting_human"}
        /\ h.decision = IF ~Decided(g) THEN "pending" ELSE g.decision
    BY <2>1, <2>3
  <2>. QED  BY <1>6, <2>2, <2>4 DEF NodeDone
<1>7. CASE i = 6
  <2>1. \E s \in {g.status, "cancelled"} :
           h = [g EXCEPT !.at = i, !.publish = published, !.status = s]
    <3> DEFINE s == IF g.decision = "rejected" THEN "cancelled" ELSE g.status
    <3>1. h = [g EXCEPT !.at = i, !.publish = published, !.status = s]
      BY <1>1, <1>2, <1>7 DEF AfterNode
    <3>2. s \in {g.status, "cancelled"}
      OBVIOUS
    <3>. QED  BY <3>1, <3>2
  <2> HIDE DEF h
  <2>2. h \in Graph
    <3>1. PICK s \in RowStatus \ {"absent"} :
             h = [g EXCEPT !.at = i, !.publish = published, !.status = s]
      BY <1>4, <2>1
    <3>. QED  BY <1>3, <3>1
  <2>3. /\ DOMAIN g = {"at", "decision", "status", "resolved", "timer", "publish"}
        /\ g = [at |-> g.at, decision |-> g.decision, status |-> g.status,
                resolved |-> g.resolved, timer |-> g.timer, publish |-> g.publish]
    BY DEF Graph
  <2>. QED  BY <1>7, <2>1, <2>2, <2>3 DEF NodeDone, Decided
<1>8. CASE i = 9
  <2>1. \E s \in Terminal : h = [g EXCEPT !.at = i, !.status = s]
    <3> DEFINE s == IF g.decision = "rejected" THEN "cancelled"
                    ELSE IF g.publish = "failed" THEN "failed" ELSE "completed"
    <3>1. h = [g EXCEPT !.at = i, !.status = s]
      BY <1>1, <1>2, <1>8 DEF AfterNode
    <3>2. s \in Terminal
      BY DEF Terminal
    <3>. QED  BY <3>1, <3>2
  <2> HIDE DEF h
  <2>2. h \in Graph
    BY <1>3, <1>4, <2>1
  <2>3. /\ DOMAIN g = {"at", "decision", "status", "resolved", "timer", "publish"}
        /\ g = [at |-> g.at, decision |-> g.decision, status |-> g.status,
                resolved |-> g.resolved, timer |-> g.timer, publish |-> g.publish]
    BY DEF Graph
  <2>. QED  BY <1>8, <2>1, <2>2, <2>3 DEF NodeDone, Decided, Terminal
<1>9. CASE i \notin {1, 5, 6, 9}
  <2>1. h = [g EXCEPT !.at = i]
    BY <1>1, <1>2, <1>9 DEF AfterNode
  <2> HIDE DEF h
  <2>2. h \in Graph
    BY <1>3, <1>4, <2>1
  <2>3. /\ DOMAIN g = {"at", "decision", "status", "resolved", "timer", "publish"}
        /\ g = [at |-> g.at, decision |-> g.decision, status |-> g.status,
                resolved |-> g.resolved, timer |-> g.timer, publish |-> g.publish]
    BY DEF Graph
  <2>. QED  BY <1>9, <2>1, <2>2, <2>3 DEF NodeDone, Decided
<1>. QED  BY <1>5, <1>6, <1>7, <1>8, <1>9

\* The rule is not edited: where the graph stops depends on the checkpoint alone.
LEMMA CheckpointIs ==
    ASSUME rule' = rule, NEW g \in Graph, cp' = g
    PROVE  Selected' = Selected /\ Ahead' = NextNode(g.at) /\ (AtStop' <=> StopsAt(g))
<1>1. Selected' = Selected
  BY DEF Selected
<1>2. Ahead' = NextNode(g.at)
  BY <1>1 DEF NextNode, Ahead
<1>3. AtStop' <=> StopsAt(g)
  BY <1>2 DEF StopsAt, AtStop, Ahead
<1>. QED  BY <1>1, <1>2, <1>3

\* Who runs the graph, or is about to, is alone.
LEMMA Alone ==
    ASSUME RuleInv, NEW p \in Process, Running(p) \/ pc[p] = "patch"
    PROVE  row = RowOf(p) /\ \A q \in Process \ {p} : ~Running(q) /\ pc[q] # "patch"
BY DEF RuleInv, HandOK, RowOf, Process

\* The row of a process that runs is its own, and no process runs in a row that is
\* absent or has ended.
LEMMA HandsMoved ==
    ASSUME RuleInv, NEW p \in Process, HandOK(p)',
           \A q \in Process \ {p} : ~Running(q) /\ pc[q] # "patch" /\ pc'[q] = pc[q]
    PROVE  \A q \in Process : HandOK(q)'
BY DEF RuleInv, HandOK, Running, Stopped, AsideOK

\* No rule has been started yet.
LEMMA RuleInvInit == RuleInit => RuleInv
<1> SUFFICES ASSUME RuleInit PROVE RuleInv
  OBVIOUS
<1>1. /\ NewGraph \in Graph /\ NewGraph.at = 0 /\ NewGraph.decision = "none"
      /\ ~NewGraph.resolved /\ NewGraph.status = "running"
  BY Positions DEF NewGraph, Graph, RowStatus, Terminal
<1>2. RuleTypeOK
  BY <1>1, RuleAssumption DEF RuleInit, RuleTypeOK, RowStatus, EntryStatus, Aside
<1>3. \A p \in Process : HandOK(p)
  BY DEF RuleInit, HandOK, Running, Stopped, AsideOK
<1>4. ListenerOK /\ WaitOK /\ TimeOK /\ DelayOK
  BY <1>1 DEF RuleInit, ListenerOK, WaitOK, TimeOK, DelayOK, Running, Stopped, Unacted, Process
<1>5. \A k \in Effect : EffectOK(k)
  BY DEF RuleInit, EffectOK, Done, Process
<1>6. GateOK
  BY DEF RuleInit, GateOK, Running, Stopped, Process, Effect
<1>7. Settled /\ Stopping
  BY DEF RuleInit, Settled, Stopping, Running, Stopped, Process, Terminal
<1>. QED  BY <1>2, <1>3, <1>4, <1>5, <1>6, <1>7 DEF RuleInv

\* One lemma for each action.  The listener inserts the row and invokes the graph.
LEMMA StartExecutionInv ==
    ASSUME RuleInv, StartExecution PROVE RuleInv'
<1> USE DEF RuleInv
<1>1. /\ row = "absent" /\ row' = "running" /\ cp = NewGraph /\ mem["listener"] = NewGraph
      /\ pc' = [pc EXCEPT !["listener"] = IF StopsAt(cp) THEN "read" ELSE "invoke"]
      /\ UNCHANGED <<rule, ended, cp, entry, ahead, elapsed, mem, effects, approved, faults>>
  BY DEF StartExecution, Goto, WaitOK
<1>2. cp \in Graph /\ Selected' = Selected /\ Ahead' = Ahead /\ (AtStop' <=> StopsAt(cp))
  BY <1>1, CheckpointIs DEF RuleTypeOK, Ahead
<1>3. /\ cp.at = 0 /\ cp.decision = "none" /\ ~cp.resolved
      /\ \A q \in Process : ~Running(q) /\ pc[q] # "patch"
  BY <1>1 DEF NewGraph, HandOK, RowOf
<1>4. /\ pc'["listener"] \in {"read", "invoke"} /\ Running("listener")'
      /\ pc'["listener"] = "invoke" <=> ~StopsAt(cp)
      /\ \A q \in Process \ {"listener"} : pc'[q] = pc[q] /\ ~Running(q)'
  BY <1>1, <1>3 DEF RuleTypeOK, Running, Stopped, Process
<1>5. RuleTypeOK'
  BY <1>1 DEF RuleTypeOK, RowStatus, Aside, Stopped
<1>6. \A q \in Process : HandOK(q)'
  <2>1. HandOK("listener")'
    BY <1>1, <1>2, <1>3, <1>4, Positions DEF HandOK, RowOf, AsideOK, Running, Stopped
  <2>. QED  BY <1>3, <1>4, <2>1, HandsMoved DEF Process
<1>7. ListenerOK' /\ WaitOK'
  BY <1>1, <1>2, <1>3, <1>4 DEF ListenerOK, WaitOK, Process
<1>8. TimeOK' /\ DelayOK'
  BY <1>1, <1>3, <1>4 DEF TimeOK, DelayOK, Unacted, Process
<1>9. ASSUME NEW k \in Effect PROVE EffectOK(k)'
  <2>1. Live
    BY <1>1 DEF Live, Terminal
  <2>2. Done(k)' = Done(k)
    BY <1>1, <1>3, <1>4 DEF Done, Running, Stopped
  <2>. QED  BY <1>1, <2>1, <2>2 DEF EffectOK
<1>10. GateOK'
  BY <1>1, <1>2, <1>3, <1>4 DEF GateOK, Process
<1>11. Faultless' => Settled' /\ Stopping'
  BY <1>1, <1>3, <1>4, Positions DEF Faultless, Settled, Stopping, Terminal, Process, Running, Stopped
<1>. QED  BY <1>5, <1>6, <1>7, <1>8, <1>9, <1>10, <1>11

\* The checkpoint catches up with what the process has in memory.
LEMMA SaveCheckpointInv ==
    ASSUME RuleInv, NEW p \in Process, SaveCheckpoint(p) PROVE RuleInv'
<1> USE DEF RuleInv
<1> DEFINE g == mem[p]
<1>1. /\ pc[p] = "save" /\ Running(p) /\ cp' = g /\ g \in Graph
      /\ pc' = [pc EXCEPT ![p] = IF StopsAt(g) THEN "read" ELSE "invoke"]
      /\ UNCHANGED <<rule, row, ended, entry, ahead, elapsed, mem, effects, approved, faults>>
  BY DEF SaveCheckpoint, Goto, RuleTypeOK, Running, Stopped
<1>2. Selected' = Selected /\ Ahead' = NextNode(g.at) /\ (AtStop' <=> StopsAt(g))
  BY <1>1, CheckpointIs
<1>3. /\ g.at = Ahead /\ cp.at \in 0 .. 8 /\ cp.at < g.at /\ g.at \in 1 .. 9
      /\ NextNode(g.at) \in 1 .. 9 /\ NextNode(g.at) >= g.at
      /\ g.at < 9 => NextNode(g.at) > g.at
  <2>1. g.at = Ahead /\ cp.at \in 0 .. 9 /\ cp.at # 9
    BY <1>1, Positions DEF HandOK, RuleTypeOK, Graph
  <2>2. Ahead \in 1 .. 9 /\ Ahead > cp.at
    BY <2>1, NextNodeIs DEF Ahead
  <2>. QED  BY <2>1, <2>2, NextNodeIs
<1>4. row = RowOf(p) /\ \A q \in Process \ {p} : ~Running(q) /\ pc[q] # "patch"
  BY <1>1, Alone
<1>5. /\ pc'[p] \in {"read", "invoke"} /\ (pc'[p] = "invoke" <=> ~StopsAt(g))
      /\ \A q \in Process \ {p} : pc'[q] = pc[q]
      /\ \A q \in Process : Running(q)' <=> Running(q)
  BY <1>1 DEF RuleTypeOK, Running, Stopped
<1>6. RuleTypeOK'
  BY <1>1 DEF RuleTypeOK, Aside, Stopped
<1>7. \A q \in Process : HandOK(q)'
  <2>1. StopsAt(g) <=> g.at = 9 \/ NextNode(g.at) = 5 \/ (g.at = 1 /\ rule.delay = "timing")
    BY <1>1, StopIs
  <2>2. HandOK(p)'
    BY <1>1, <1>2, <1>4, <1>5, <2>1, Positions DEF HandOK, RowOf, AsideOK, Stopped
  <2>. QED  BY <1>4, <1>5, <2>2, HandsMoved
<1>8. ListenerOK' /\ WaitOK'
  <2>1. row # "absent"
    BY <1>4 DEF RowOf
  <2>2. Ahead' > 1
    BY <1>2, <1>3
  <2>3. WaitOK'
    BY <1>1, <1>4, <1>5, <2>1, <2>2 DEF WaitOK, Process, Decided, Running, Stopped
  <2>4. CASE p = "listener"
    BY <1>1, <1>2, <1>5, <2>3, <2>4 DEF ListenerOK, Process
  <2>5. CASE p # "listener"
    BY <1>4, <1>5, <2>3, <2>5 DEF ListenerOK, Process
  <2>. QED  BY <2>3, <2>4, <2>5
<1>9. TimeOK' /\ DelayOK'
  <2>1. TimeOK'
    BY <1>1, <1>5 DEF TimeOK, Process
  <2>2. CASE p = "listener"
    BY <1>1, <1>4, <1>5, <2>1, <2>2 DEF DelayOK, ListenerOK, Unacted, Process
  <2>3. CASE p # "listener"
    <3>1. CASE rule.delay = "timing" /\ ~elapsed
      <4>1. p = "api"
        BY <1>1, <2>3, <3>1 DEF TimeOK, Process
      <4>2. g.decision # "none"
        BY <1>1, <4>1 DEF WaitOK, Decided
      <4>3. faults["listener"] > 0
        BY <1>4, <3>1, <4>1 DEF DelayOK, RowOf
      <4>. QED  BY <1>1, <2>1, <4>2, <4>3 DEF DelayOK
    <3>2. CASE ~(rule.delay = "timing" /\ ~elapsed)
      BY <1>1, <2>1, <3>2 DEF DelayOK
    <3>. QED  BY <3>1, <3>2
  <2>. QED  BY <2>2, <2>3
<1>10. ASSUME NEW k \in Effect PROVE EffectOK(k)'
  <2>1. Live' => Live
    BY <1>1, <1>5 DEF Live, Process
  <2>2. \A q \in Process \ {p} : pc[q] # "save"
    BY <1>4 DEF Running, Stopped
  <2>3. Rank(k) \in Nat
    BY DEF Rank
  <2>4. Done(k) = 1 => Done(k)' = 1
    BY <1>1, <1>3, <2>2, <2>3 DEF Done
  <2>5. Done(k) \in {0, 1} /\ Done(k)' \in {0, 1}
    BY DEF Done
  <2>6. effects[k] \in Nat /\ faults["worker"] + faults["api"] \in Nat
    BY DEF RuleTypeOK, Process
  <2>. QED  BY <1>1, <2>1, <2>4, <2>5, <2>6 DEF EffectOK
<1>11. GateOK'
  <2> SUFFICES ASSUME "approval" \in Selected, faults["worker"] = 0, ~approved
               PROVE  /\ effects["publish"] = 0
                      /\ "publish" \in Selected =>
                          /\ row = "waiting_timer" /\ ~Running("worker")' => cp'.at = 1
                          /\ \A q \in {"listener", "worker"} :
                                /\ Running(q)' => mem[q].at <= 4
                                /\ pc'[q] = "invoke" => mem[q].at # 4
                          /\ pc'["api"] \in {"invoke", "save"} => mem["api"].decision = "rejected"
    BY <1>1, <1>2 DEF GateOK
  <2>1. row = "waiting_timer" => p = "worker"
    BY <1>4 DEF RowOf
  <2>2. g.at = 4 => StopsAt(g)
    <3>1. 5 \in 1 .. 8 /\ 4 \in 0 .. 9 /\ Canonical[5] = "approval"
      BY DEF Canonical
    <3>2. NextNode(4) <= 5 /\ NextNode(4) > 4 /\ NextNode(4) \in 1 .. 9
      BY <3>1, NextNodeIs
    <3>. QED  BY <1>1, <3>2, StopIs
  <2>3. \A q \in {"listener", "worker"} : pc'[q] = "invoke" => mem[q].at # 4
    <3> SUFFICES ASSUME NEW q \in {"listener", "worker"}, pc'[q] = "invoke" PROVE mem[q].at # 4
      OBVIOUS
    <3>1. q = p
      BY <1>4, <1>5 DEF Running, Stopped, Process
    <3>. QED  BY <1>5, <2>2, <3>1
  <2>. QED  BY <1>1, <1>5, <2>1, <2>3 DEF GateOK, Process
<1>12. Faultless' => Settled' /\ Stopping'
  <2> SUFFICES ASSUME Faultless PROVE Settled' /\ Stopping'
    BY <1>1 DEF Faultless
  <2>1. Settled'
    <3>1. /\ row = "running" => p = "listener"
          /\ row = "waiting_human" => p = "api"
          /\ row = "waiting_timer" => p = "worker"
          /\ row \notin Terminal
      BY <1>4 DEF RowOf, Terminal, Process
    <3>. QED  BY <1>1, <1>5, <3>1 DEF Settled, Terminal
  <2>2. /\ pc'["api"] = "invoke" => Ahead' >= 5
        /\ pc'["api"] \in {"save"} \cup Stopped => mem'["api"].at >= 5
    <3>1. CASE p = "api"
      <4>1. g.at >= 5
        BY <1>1, <3>1 DEF Stopping
      <4>. QED  BY <1>1, <1>2, <1>3, <3>1, <4>1
    <3>2. CASE p # "api"
      BY <1>4, <1>5, <3>2 DEF Running, Stopped, Process
    <3>. QED  BY <3>1, <3>2
  <2>3. pc'["worker"] \in {"save"} \cup Stopped => mem'["worker"].at > 1
    BY <1>1, <1>4, <1>5 DEF Stopping, Running, Stopped, Process
  <2>. QED  BY <1>1, <1>5, <2>1, <2>2, <2>3 DEF Stopping, Process, Decided
<1>. QED  BY <1>6, <1>7, <1>8, <1>9, <1>10, <1>11, <1>12

\* One node runs: what is selected lies behind the checkpoint or ahead of it.
LEMMA RunNodeInv ==
    ASSUME RuleInv, NEW p \in Process, RunNode(p) PROVE RuleInv'
<1> USE DEF RuleInv
<1> DEFINE i == NextNode(cp.at)
<1>1. /\ pc[p] = "invoke" /\ Running(p) /\ mem[p] = cp /\ cp \in Graph /\ cp.at \in 0 .. 8
      /\ pc' = [pc EXCEPT ![p] = "save"]
      /\ UNCHANGED <<rule, row, ended, cp, ahead, elapsed, approved>>
  <2>1. /\ pc[p] = "invoke" /\ mem[p] = cp
        /\ cp \in Graph /\ cp.at # Finalize /\ cp.at \in 0 .. Finalize
    BY DEF RunNode, HandOK, RuleTypeOK, Graph
  <2>. QED  BY <2>1, Positions DEF RunNode, Goto, Running, Stopped
<1>2. i \in 1 .. 9 /\ i > cp.at /\ i = Ahead
  BY <1>1, NextNodeIs DEF Ahead
<1>3. PICK h : /\ NodeDone(cp, i, h)
               /\ mem' = [mem EXCEPT ![p] = h]
  <2>1. PICK published \in {"none", "ok", "failed"} :
           Hold(p, AfterNode(cp, i, IF published = "none" THEN cp.publish ELSE published))
    BY <1>1 DEF RunNode
  <2>2. (IF published = "none" THEN cp.publish ELSE published) \in {"none", "ok", "failed"}
    BY <1>1 DEF Graph
  <2>. QED  BY <1>1, <1>2, <2>1, <2>2, NodeLeaves DEF Hold
<1>4. effects' = [k \in Effect |-> IF k \in EffectOf(cp, i) THEN effects[k] + 1 ELSE effects[k]]
  BY <1>1 DEF RunNode
<1>5. \/ entry' = entry /\ faults' = faults
      \/ i = 1 /\ entry' = "pending" /\ faults' = faults
      \/ i = 1 /\ entry' = entry /\ faults' = [faults EXCEPT ![p] = @ + 1]
  <2>1. IsKind(i, "wait") <=> i = 1
    BY <1>2, Positions
  <2>. QED  BY <1>1, <2>1 DEF RunNode, Fails
<1>6. Selected' = Selected /\ Ahead' = Ahead /\ (AtStop' <=> AtStop)
  BY <1>1, CheckpointIs DEF Ahead, AtStop
<1>7. row = RowOf(p) /\ \A q \in Process \ {p} : ~Running(q) /\ pc[q] # "patch"
  BY <1>1, Alone
<1>8. /\ pc'[p] = "save" /\ mem'[p] = h /\ h \in Graph /\ h.at = i
      /\ \A q \in Process \ {p} : pc'[q] = pc[q] /\ mem'[q] = mem[q]
      /\ \A q \in Process : Running(q)' <=> Running(q)
      /\ \A q \in Process : pc'[q] # "idle" => pc[q] # "idle"
  BY <1>1, <1>3 DEF RuleTypeOK, Running, Stopped, NodeDone
<1>9. p # "listener" => i > 1 /\ entry' = entry /\ faults' = faults
  <2>1. p # "listener" => Ahead > 1
    BY <1>7 DEF WaitOK, RowOf, Process
  <2>. QED  BY <1>2, <1>5, <2>1
<1>10. faults'["worker"] = faults["worker"] /\ faults'["api"] = faults["api"]
  BY <1>5, <1>9 DEF RuleTypeOK, Process
<1> HIDE DEF i
<1>11. RuleTypeOK'
  <2>1. effects' \in [Effect -> Nat] /\ faults' \in [Process -> Nat]
    BY <1>4, <1>5 DEF RuleTypeOK
  <2>. QED  BY <1>1, <1>3, <1>5, <1>8, <2>1 DEF RuleTypeOK, Aside, Stopped, EntryStatus
<1>12. \A q \in Process : HandOK(q)'
  <2>1. HandOK(p)'
    BY <1>1, <1>2, <1>6, <1>7, <1>8, Positions DEF HandOK, RowOf, AsideOK, Stopped
  <2>. QED  BY <1>7, <1>8, <2>1, HandsMoved
<1>13. ListenerOK' /\ WaitOK'
  <2>1. row # "absent" /\ (row \in {"waiting_timer", "waiting_human"} => Ahead' > 1)
    BY <1>6, <1>7 DEF RowOf, WaitOK
  <2>2. WaitOK'
    BY <1>1, <1>3, <1>7, <1>8, <1>9, <2>1 DEF WaitOK, NodeDone, Process, Decided, Running, Stopped
  <2>3. CASE p = "listener"
    <3>1. i # 5
      BY <1>1, <1>2, <2>3, StopIs DEF ListenerOK, AtStop, Ahead
    <3>. QED  BY <1>1, <1>3, <1>6, <1>8, <2>2, <2>3, <3>1 DEF ListenerOK, NodeDone, Process
  <2>4. CASE p # "listener"
    BY <1>7, <1>8, <2>2, <2>4 DEF ListenerOK, Process
  <2>. QED  BY <2>2, <2>3, <2>4
<1>14. TimeOK' /\ DelayOK'
  <2>1. ASSUME rule.delay = "timing", ~elapsed, cp.decision = "none"
        PROVE  Unacted' /\ p = "listener" /\ cp.at = 0 /\ mem'["listener"].at <= 1
    <3>1. p = "listener" /\ cp.at <= 1
      BY <1>1, <1>7, <2>1 DEF DelayOK, TimeOK, RowOf, Process
    <3>2. cp.at = 0
      BY <1>1, <2>1, <3>1, StopIs DEF ListenerOK, AtStop
    <3>3. i = 1
      <4>1. 1 \in 1 .. 8 /\ Canonical[1] = "wait"
        BY DEF Canonical
      <4>. QED  BY <1>1, <1>2, <2>1, <3>2, <4>1, NextNodeIs, Brought DEF i
    <3>4. EffectOf(cp, i) = {}
      BY <3>3, Positions DEF EffectOf, Effect
    <3>. QED  BY <1>4, <1>8, <2>1, <3>1, <3>2, <3>3, <3>4 DEF DelayOK, Unacted
  <2>2. entry' \in {"due", "fired", "handled", "failed"} => entry \in {"due", "fired", "handled", "failed"}
    BY <1>5
  <2>3. TimeOK'
    BY <1>1, <1>8, <2>2 DEF TimeOK, Process
  <2>4. faults["listener"] > 0 => faults'["listener"] > 0
    BY <1>5 DEF RuleTypeOK, Process
  <2>5. DelayOK'
    BY <1>1, <1>7, <1>8, <2>1, <2>4 DEF DelayOK, RowOf, Process
  <2>. QED  BY <2>3, <2>5
<1>15. ASSUME NEW k \in Effect PROVE EffectOK(k)'
  <2>1. Live
    BY <1>1, <1>7 DEF Live, RowOf, Terminal
  <2>2. \A q \in Process : pc[q] # "save"
    BY <1>1, <1>7 DEF Running, Stopped
  <2>3. k \in EffectOf(cp, i) => Rank(k) = i
    BY <1>2, Positions DEF EffectOf, Effect, Rank
  <2>4. effects'[k] = IF k \in EffectOf(cp, i) THEN effects[k] + 1 ELSE effects[k]
    BY <1>4
  <2>5. /\ Done(k) \in {0, 1} /\ Done(k)' \in {0, 1}
        /\ Done(k) = 1 => Done(k)' = 1
        /\ Rank(k) = i => Done(k) = 0 /\ Done(k)' = 1
    BY <1>1, <1>2, <1>8, <2>2 DEF Done
  <2>6. effects[k] \in Nat /\ faults["worker"] + faults["api"] \in Nat
    BY DEF RuleTypeOK, Process
  <2>. QED  BY <1>10, <2>1, <2>3, <2>4, <2>5, <2>6 DEF EffectOK
<1>16. GateOK'
  <2> SUFFICES ASSUME "approval" \in Selected, faults["worker"] = 0, ~approved
               PROVE  /\ effects'["publish"] = 0
                      /\ "publish" \in Selected =>
                          /\ row = "waiting_timer" /\ ~Running("worker")' => cp.at = 1
                          /\ \A q \in {"listener", "worker"} :
                                /\ Running(q)' => mem'[q].at <= 4
                                /\ pc'[q] = "invoke" => mem'[q].at # 4
                          /\ pc'["api"] \in {"invoke", "save"} => mem'["api"].decision = "rejected"
    BY <1>1, <1>6, <1>10 DEF GateOK
  <2>1. GateOK /\ effects["publish"] = 0 /\ "publish" \in Effect
    BY DEF GateOK, Effect
  <2>2. CASE "publish" \notin Selected
    <3>1. i # 6
      <4>1. Canonical[6] = "publish"
        BY DEF Canonical
      <4>. QED  BY <1>1, <1>2, <2>2, <4>1, NextNodeIs DEF i
    <3>2. "publish" \notin EffectOf(cp, i)
      BY <1>2, <3>1, Positions DEF EffectOf
    <3>. QED  BY <1>4, <2>1, <2>2, <3>2
  <2>3. CASE "publish" \in Selected /\ p \in {"listener", "worker"}
    <3>1. cp.at <= 3
      BY <1>1, <2>1, <2>3 DEF GateOK
    <3>2. i <= 4
      <4>1. 4 \in 1 .. 8 /\ Canonical[4] = "risk_check"
        BY DEF Canonical
      <4>. QED  BY <1>1, <2>3, <3>1, <4>1, NextNodeIs, Brought DEF i
    <3>3. "publish" \notin EffectOf(cp, i)
      BY <1>2, <3>2, Positions DEF EffectOf
    <3>. QED  BY <1>1, <1>4, <1>7, <1>8, <2>1, <2>3, <3>2, <3>3 DEF GateOK, Process
  <2>4. CASE "publish" \in Selected /\ p = "api"
    <3>1. cp.decision = "rejected"
      BY <1>1, <2>1, <2>4 DEF GateOK
    <3>2. "publish" \notin EffectOf(cp, i)
      BY <3>1 DEF EffectOf
    <3>3. h.decision = "rejected"
      BY <1>3, <3>1 DEF NodeDone, Decided
    <3>. QED  BY <1>1, <1>4, <1>7, <1>8, <2>1, <2>4, <3>2, <3>3 DEF GateOK, Process
  <2>. QED  BY <2>2, <2>3, <2>4 DEF Process
<1>17. Faultless' => Settled' /\ Stopping'
  <2> SUFFICES ASSUME Faultless' PROVE Settled' /\ Stopping'
    OBVIOUS
  <2>1. Faultless /\ Settled /\ Stopping
    <3>1. faults' # [faults EXCEPT ![p] = @ + 1]
      BY DEF Faultless, RuleTypeOK
    <3>. QED  BY <1>5, <3>1 DEF Faultless
  <2>2. Settled'
    BY <1>1, <1>6, <1>8, <2>1 DEF Settled, Terminal, Decided, Process
  <2>3. Running("worker")' => ~Decided(mem'["worker"])
    BY <1>1, <1>3, <1>8, <1>9, <2>1 DEF Stopping, NodeDone, Decided, Process
  <2>4. pc'["worker"] \in {"save"} \cup Stopped => mem'["worker"].at > 1
    BY <1>2, <1>8, <1>9, <2>1 DEF Stopping, Process
  <2>5. /\ pc'["api"] = "invoke" => Ahead' >= 5
        /\ pc'["api"] \in {"save"} \cup Stopped => mem'["api"].at >= 5
    BY <1>1, <1>2, <1>6, <1>8, <2>1 DEF Stopping, Process
  <2>6. \A q \in Process : Running(q)' /\ mem'[q].at = Finalize => mem'[q].status \in Terminal
    BY <1>3, <1>8, <2>1, Positions DEF Stopping, NodeDone
  <2>. QED  BY <2>2, <2>3, <2>4, <2>5, <2>6 DEF Stopping, Decided
<1>. QED  BY <1>11, <1>12, <1>13, <1>14, <1>15, <1>16, <1>17


\* What WriteRow writes, and of what: the checkpoint or, after a fault, nothing.
Says(p) == IF pc[p] = "close" THEN Closing(p, mem[p]) ELSE Outcome(p, mem[p])

\* Waiting for a timer only where the listener stopped after the wait, and without a
\* fault what says where the graph stands.
RowSays(p, r) ==
    /\ r \in RowStatus \ {"absent"}
    /\ r = "waiting_timer" => p = "listener" /\ cp.at = 1
    /\ Ahead > 1
    /\ rule.delay = "timing" /\ ~elapsed /\ cp.decision = "none" =>
          r = "waiting_timer" \/ (r = "waiting_human" /\ faults["listener"] > 0)
RowSaysWhere(r) ==
    /\ r # "running"
    /\ r = "waiting_human" => Ahead = 5 /\ ~Decided(cp)
    /\ r = "waiting_timer" => ~cp.resolved /\ ~Decided(cp)
    /\ r \in {"completed", "cancelled"} => cp.at = 9 /\ cp.status = r
    /\ r \in Terminal <=> cp.at = 9

\* The statuses the three callers derive say this.
LEMMA OutcomeIs ==
    ASSUME RuleInv, NEW p \in Process, pc[p] \in {"write", "close"}
    PROVE  RowSays(p, Says(p)) /\ (Faultless => RowSaysWhere(Says(p)))
<1> USE DEF RuleInv
<1> DEFINE r == Says(p)
<1> SUFFICES RowSays(p, r) /\ (Faultless => RowSaysWhere(r))
  OBVIOUS
<1>1. /\ Running(p) /\ cp \in Graph /\ cp.at \in 0 .. 9
      /\ AtStop /\ Ahead \in 1 .. 9 /\ Ahead >= cp.at /\ (cp.at < 9 => Ahead > cp.at)
  <2>1. cp \in Graph /\ cp.at \in 0 .. 9 /\ AtStop
    BY Positions DEF RuleTypeOK, Graph, HandOK, Stopped
  <2>. QED  BY <2>1, NextNodeIs DEF Running, Stopped, Ahead
<1>2. row = RowOf(p)
  BY <1>1, Alone
<1>3. cp.at = 9 \/ Ahead = 5 \/ (cp.at = 1 /\ rule.delay = "timing")
  BY <1>1, StopIs DEF AtStop, Ahead
<1>4. PICK g : g = mem[p]
  OBVIOUS
<1>5. /\ g \in Graph /\ (g = cp \/ (faults[p] > 0 /\ g = Unread(p)))
      /\ pc[p] = "close" => cp.at = 9
      /\ pc[p] = "write" /\ faults[p] = 0 => cp.at # 9
  BY <1>4, Positions DEF HandOK, RuleTypeOK
<1>6. /\ g = Unread(p) => /\ g.at = 0 /\ g.decision = "none" /\ g.status \in {"running", "completed"}
                          /\ ~g.timer
      /\ g.at \in Nat /\ (IsKind(g.at, "wait") <=> g.at = 1)
      /\ g.status \in RowStatus \ {"absent"}
      /\ {"completed", "waiting_timer", "waiting_human"} \subseteq RowStatus \ {"absent"}
  <2>1. g.at \in Nat /\ g.status \in RowStatus \ {"absent"}
    BY <1>5, Positions DEF Graph
  <2>. QED  BY <2>1, Positions DEF Unread, NewGraph, RowStatus, Terminal
<1>7. Faultless => g = cp /\ (pc[p] = "close" <=> cp.at = 9) /\ (cp.at = 9 => cp.status \in Terminal)
  <2>1. Faultless => g = cp /\ (pc[p] = "close" <=> cp.at = 9)
    BY <1>5 DEF Faultless
  <2>. QED  BY <1>1, <1>4, <2>1, Positions DEF Stopping
<1>8. Ahead > 1
  BY <1>1, <1>3
<1>9. CASE p = "listener"
  <2>1. /\ cp.decision = "none" /\ ~cp.resolved /\ ~g.resolved
        /\ g.at = 1 /\ rule.delay # "none" => g.timer
        /\ g.at = 9 => g.status \in Terminal
        /\ g.status = "waiting_timer" => g.at # 9
    BY <1>1, <1>4, <1>9 DEF ListenerOK, Terminal
  <2>2. rule.delay = "timing" /\ ~elapsed => cp.at = 1
    <3>1. 1 \in 1 .. 8 /\ Canonical[1] = "wait" /\ 0 \in 0 .. 9
      BY DEF Canonical
    <3>2. rule.delay = "timing" => NextNode(0) <= 1 /\ NextNode(0) \in 1 .. 9
      BY <3>1, NextNodeIs, Brought
    <3>3. rule.delay = "timing" /\ ~elapsed => cp.at <= 1
      BY <1>1, <1>9, <2>1 DEF DelayOK
    <3>. QED  BY <1>1, <1>3, <3>2, <3>3 DEF Ahead
  <2>3. \/ pc[p] = "close" /\ r \in {g.status, "completed"} /\ (g.status # "running" => r = g.status)
        \/ pc[p] = "write" /\ g.at = 1 /\ g.timer /\ r = "waiting_timer"
        \/ pc[p] = "write" /\ ~(g.at = 1 /\ g.timer) /\ r = "waiting_human"
    BY <1>4, <1>6, <1>9, <2>1 DEF Says, Outcome, Closing
  <2> HIDE DEF r
  <2>4. r \in RowStatus \ {"absent"}
    BY <1>6, <2>3
  <2>5. r = "waiting_timer" => cp.at = 1
    <3>1. CASE g = cp
      BY <1>5, <2>1, <2>3, <3>1
    <3>2. CASE g = Unread(p)
      BY <1>6, <2>3, <3>2
    <3>. QED  BY <1>5, <3>1, <3>2
  <2>6. rule.delay = "timing" /\ ~elapsed => r = "waiting_timer" \/ (r = "waiting_human" /\ faults["listener"] > 0)
    BY <1>5, <1>9, <2>1, <2>2, <2>3
  <2>7. RowSays(p, r)
    BY <1>8, <1>9, <2>4, <2>5, <2>6 DEF RowSays
  <2>8. Faultless => RowSaysWhere(r)
    BY <1>1, <1>3, <1>7, <2>1, <2>3 DEF RowSaysWhere, Terminal, Decided
  <2>. QED  BY <2>7, <2>8
<1>10. CASE p = "worker"
  <2>1. g.status # "waiting_timer" /\ (Faultless => ~Decided(g) /\ g.at > 1)
    BY <1>1, <1>4, <1>10 DEF WaitOK, Stopping, Stopped
  <2>2. elapsed
    BY <1>10 DEF TimeOK
  <2>3. \/ pc[p] = "close" /\ r \in {g.status, "completed"} /\ (g.status # "running" => r = g.status)
        \/ pc[p] = "write" /\ Decided(g) /\ r = g.status
        \/ pc[p] = "write" /\ ~Decided(g) /\ r = "waiting_human"
    BY <1>4, <1>10 DEF Says, Outcome, Closing
  <2> HIDE DEF r
  <2>4. RowSays(p, r)
    BY <1>6, <1>8, <1>10, <2>1, <2>2, <2>3 DEF RowSays
  <2>5. Faultless => RowSaysWhere(r)
    BY <1>1, <1>3, <1>7, <2>1, <2>3 DEF RowSaysWhere, Terminal
  <2>. QED  BY <2>4, <2>5
<1>11. CASE p = "api"
  <2>1. g.status # "waiting_timer" /\ (Faultless => g.at >= 5)
    BY <1>1, <1>4, <1>11 DEF WaitOK, Stopping, Stopped
  <2>2. ~(rule.delay = "timing" /\ ~elapsed /\ cp.decision = "none")
    BY <1>1, <1>11 DEF DelayOK
  <2>3. r = g.status
    BY <1>4, <1>11 DEF Says, Outcome, Closing
  <2> HIDE DEF r
  <2>4. RowSays(p, r)
    BY <1>6, <1>8, <1>11, <2>1, <2>2, <2>3 DEF RowSays
  <2>5. Faultless => RowSaysWhere(r)
    BY <1>1, <1>3, <1>7, <2>1, <2>3 DEF RowSaysWhere, Terminal
  <2>. QED  BY <2>4, <2>5
<1>. QED  BY <1>9, <1>10, <1>11 DEF Process

\* The row is written, and the process is through.
LEMMA WriteRowInv ==
    ASSUME RuleInv, NEW p \in Process, WriteRow(p) PROVE RuleInv'
<1> USE DEF RuleInv
<1> DEFINE r == Says(p)
<1>1. /\ pc[p] \in {"write", "close"} /\ Running(p) /\ cp \in Graph /\ cp.at \in 0 .. 9
      /\ row' = r /\ ended' = (ended \/ pc[p] = "close")
      /\ pc[p] = "close" => cp.at = 9
      /\ pc[p] = "write" /\ faults[p] = 0 => cp.at # 9
      /\ pc' = [pc EXCEPT ![p] = IF p = "worker" THEN "handled" ELSE "idle"]
      /\ UNCHANGED <<rule, cp, entry, ahead, elapsed, mem, effects, approved, faults>>
  <2>1. /\ pc[p] \in {"write", "close"} /\ cp \in Graph /\ cp.at \in 0 .. 9
        /\ pc[p] = "close" => cp.at = 9
        /\ pc[p] = "write" /\ faults[p] = 0 => cp.at # 9
    BY Positions DEF WriteRow, HandOK, RuleTypeOK, Graph
  <2>. QED  BY <2>1 DEF WriteRow, Goto, Running, Stopped, Says
<1>2. RowSays(p, r) /\ (Faultless => RowSaysWhere(r))
  BY <1>1, OutcomeIs
<1>3. row = RowOf(p) /\ \A q \in Process \ {p} : ~Running(q) /\ pc[q] # "patch"
  BY <1>1, Alone
<1>4. Selected' = Selected /\ Ahead' = Ahead /\ (AtStop' <=> AtStop)
  BY <1>1, CheckpointIs DEF Ahead, AtStop
<1>5. /\ (pc'[p] = "handled" /\ p = "worker") \/ pc'[p] = "idle"
      /\ \A q \in Process \ {p} : pc'[q] = pc[q]
      /\ \A q \in Process : /\ ~Running(q)' /\ pc'[q] # "patch"
                            /\ pc'[q] # "idle" => pc[q] # "idle"
  BY <1>1, <1>3 DEF RuleTypeOK, Running, Stopped
<1> HIDE DEF r
<1>6. RuleTypeOK'
  <2>1. r \in RowStatus /\ ended' \in BOOLEAN
    BY <1>1, <1>2 DEF RowSays
  <2>. QED  BY <1>1, <2>1 DEF RuleTypeOK, Aside
<1>7. \A q \in Process : HandOK(q)'
  <2>1. HandOK(p)'
    BY <1>5 DEF HandOK, AsideOK, Stopped
  <2>. QED  BY <1>3, <1>5, <2>1, HandsMoved
<1>8. ListenerOK' /\ WaitOK'
  BY <1>1, <1>2, <1>4, <1>5 DEF ListenerOK, WaitOK, RowSays, Process
<1>9. TimeOK' /\ DelayOK'
  <2>1. TimeOK'
    BY <1>1, <1>5 DEF TimeOK, Process
  <2>2. DelayOK'
    BY <1>1, <1>2, <1>5 DEF DelayOK, Unacted, RowSays, Process
  <2>. QED  BY <2>1, <2>2
<1>10. ASSUME NEW k \in Effect PROVE EffectOK(k)'
  <2>1. Live
    BY <1>1, <1>3 DEF Live, RowOf, Terminal
  <2>2. Done(k)' = Done(k)
    BY <1>1, <1>3, <1>5 DEF Done, Running, Stopped
  <2>. QED  BY <1>1, <2>1, <2>2 DEF EffectOK
<1>11. GateOK'
  BY <1>1, <1>2, <1>4, <1>5 DEF GateOK, RowSays, Process, Running, Stopped
<1>12. Faultless' => Settled' /\ Stopping'
  <2> SUFFICES ASSUME Faultless PROVE Settled' /\ Stopping'
    BY <1>1 DEF Faultless
  <2>1. ~ended /\ (pc[p] = "close" <=> cp.at = 9)
    BY <1>1, <1>3 DEF Settled, RowOf, Terminal, Faultless
  <2>2. Settled'
    BY <1>1, <1>2, <1>4, <2>1, Positions DEF Settled, RowSays, RowSaysWhere, Decided, Terminal
  <2>. QED  BY <1>5, <2>2 DEF Stopping, Running, Stopped, Process
<1>. QED  BY <1>6, <1>7, <1>8, <1>9, <1>10, <1>11, <1>12

\* The execution fails: nobody runs it any more.
LEMMA InvokeRaisesInv ==
    ASSUME RuleInv, NEW p \in Process, InvokeRaises(p) PROVE RuleInv'
<1> USE DEF RuleInv
<1>1. /\ Running(p) /\ row' = "failed" /\ ended' = TRUE /\ cp \in Graph
      /\ pc' = [pc EXCEPT ![p] = IF p = "worker" THEN "handled" ELSE "idle"]
      /\ UNCHANGED <<rule, cp, entry, ahead, elapsed, mem, effects, approved, faults>>
  BY DEF InvokeRaises, Goto, Running, Stopped, RuleTypeOK
<1>2. \A q \in Process \ {p} : ~Running(q) /\ pc[q] # "patch"
  BY <1>1, Alone
<1>3. Selected' = Selected /\ Ahead' = Ahead /\ (AtStop' <=> AtStop)
  BY <1>1, CheckpointIs DEF Ahead, AtStop
<1>4. /\ (pc'[p] = "handled" /\ p = "worker") \/ pc'[p] = "idle"
      /\ \A q \in Process \ {p} : pc'[q] = pc[q]
      /\ \A q \in Process : /\ ~Running(q)' /\ pc'[q] # "patch"
                            /\ pc'[q] # "idle" => pc[q] # "idle"
  BY <1>1, <1>2 DEF RuleTypeOK, Running, Stopped
<1>5. RuleTypeOK'
  BY <1>1 DEF RuleTypeOK, RowStatus, Terminal, Aside, Stopped
<1>6. \A q \in Process : HandOK(q)'
  <2>1. HandOK(p)'
    BY <1>4 DEF HandOK, AsideOK, Stopped
  <2>. QED  BY <1>2, <1>4, <2>1, HandsMoved
<1>7. ListenerOK' /\ WaitOK' /\ TimeOK' /\ DelayOK'
  BY <1>1, <1>4 DEF ListenerOK, WaitOK, TimeOK, DelayOK, Unacted, Process
<1>8. \A k \in Effect : EffectOK(k)'
  BY <1>1 DEF EffectOK, Live, Terminal
<1>9. GateOK'
  BY <1>1, <1>3, <1>4 DEF GateOK, Process, Running, Stopped
<1>10. Faultless' => Settled' /\ Stopping'
  <2>1. Settled'
    BY <1>1 DEF Settled, Terminal
  <2>2. Stopping'
    BY <1>4 DEF Stopping, Running, Stopped, Process
  <2>. QED  BY <2>1, <2>2
<1>. QED  BY <1>5, <1>6, <1>7, <1>8, <1>9, <1>10

\* The snapshot is what the process has in memory already, or a fault hides it; the
\* same goes for whether the graph has finished.
LEMMA LookedInv ==
    ASSUME RuleInv, NEW p \in Process, ReadSnapshot(p) \/ AskFinished(p) PROVE RuleInv'
<1> USE DEF RuleInv
<1>1. PICK g \in Graph, label \in {"ask", "write", "close"} :
      /\ pc[p] \in {"read", "ask"} /\ Running(p) /\ AtStop /\ cp \in Graph
      /\ mem' = [mem EXCEPT ![p] = g] /\ pc' = [pc EXCEPT ![p] = label]
      /\ faults' = faults \/ faults' = [faults EXCEPT ![p] = @ + 1]
      /\ g = mem[p] \/ (g = Unread(p) /\ faults' = [faults EXCEPT ![p] = @ + 1])
      /\ mem[p] = cp \/ (faults[p] > 0 /\ mem[p] = Unread(p))
      /\ label = "close" => cp.at = Finalize
      /\ label = "write" => cp.at # Finalize \/ faults' = [faults EXCEPT ![p] = @ + 1]
      /\ UNCHANGED <<rule, row, ended, cp, entry, ahead, elapsed, effects, approved>>
  <2>1. /\ mem[p] \in Graph /\ Unread(p) \in Graph /\ cp \in Graph
        /\ mem = [mem EXCEPT ![p] = mem[p]]
    <3>1. 0 \in 0 .. Finalize /\ {"completed", "running"} \subseteq RowStatus \ {"absent"}
      BY Positions DEF RowStatus, Terminal
    <3>2. Unread(p) \in Graph
      BY <3>1 DEF Unread, NewGraph, Graph
    <3>. QED  BY <3>2 DEF RuleTypeOK
  <2>2. CASE ReadSnapshot(p)
    <3>1. pc[p] = "read" /\ Running(p) /\ AtStop /\ mem[p] = cp
      BY <2>2 DEF ReadSnapshot, HandOK, Running, Stopped
    <3>. QED  BY <2>1, <2>2, <3>1 DEF ReadSnapshot, Hold, Fails, Goto, execVars
  <2>3. CASE AskFinished(p)
    <3>1. /\ pc[p] = "ask" /\ Running(p) /\ AtStop
          /\ mem[p] = cp \/ (faults[p] > 0 /\ mem[p] = Unread(p))
      BY <2>3 DEF AskFinished, HandOK, Running, Stopped
    <3>. QED  BY <2>1, <2>3, <3>1 DEF AskFinished, Fails, Goto, execVars
  <2>. QED  BY <2>2, <2>3
<1>2. row = RowOf(p) /\ \A q \in Process \ {p} : ~Running(q) /\ pc[q] # "patch"
  BY <1>1, Alone
<1>3. Selected' = Selected /\ Ahead' = Ahead /\ (AtStop' <=> AtStop)
  BY <1>1, CheckpointIs DEF Ahead, AtStop
<1>4. /\ pc'[p] = label /\ mem'[p] = g
      /\ \A q \in Process \ {p} : pc'[q] = pc[q] /\ mem'[q] = mem[q] /\ faults'[q] = faults[q]
      /\ \A q \in Process : (Running(q)' <=> Running(q)) /\ (pc'[q] # "idle" => pc[q] # "idle")
  BY <1>1 DEF RuleTypeOK, Running, Stopped
<1>5. /\ faults'[p] \in {faults[p], faults[p] + 1} /\ faults[p] \in Nat
      /\ faults' = [faults EXCEPT ![p] = @ + 1] => faults'[p] > 0
      /\ faults' \in [Process -> Nat]
  BY <1>1 DEF RuleTypeOK
<1>6. /\ Unread(p).at = 0 /\ Unread(p).decision = "none" /\ ~Unread(p).resolved
      /\ Unread(p).status # "waiting_timer"
  BY DEF Unread, NewGraph
<1>7. RuleTypeOK'
  BY <1>1, <1>5 DEF RuleTypeOK, Stopped
<1>8. \A q \in Process : HandOK(q)'
  <2>1. HandOK(p)'
    BY <1>1, <1>2, <1>3, <1>4, <1>5 DEF HandOK, RowOf, AsideOK, Unread, Stopped
  <2>. QED  BY <1>2, <1>4, <2>1, HandsMoved
<1>9. ListenerOK' /\ WaitOK' /\ TimeOK' /\ DelayOK'
  <2>1. g = mem[p] \/ g = Unread(p)
    BY <1>1
  <2>2. ListenerOK'
    BY <1>1, <1>2, <1>3, <1>4, <1>6, <2>1 DEF ListenerOK, Process
  <2>3. WaitOK'
    BY <1>1, <1>2, <1>3, <1>4, <1>6, <2>1 DEF WaitOK, RowOf, Process
  <2>4. TimeOK'
    BY <1>1, <1>4 DEF TimeOK, Process
  <2>5. faults["listener"] > 0 => faults'["listener"] > 0
    BY <1>4, <1>5 DEF RuleTypeOK, Process
  <2>6. DelayOK'
    BY <1>1, <1>2, <1>4, <1>6, <2>1, <2>5 DEF DelayOK, Unacted, Process
  <2>. QED  BY <2>2, <2>3, <2>4, <2>6
<1>10. ASSUME NEW k \in Effect PROVE EffectOK(k)'
  <2>1. (Live' <=> Live) /\ Done(k)' = Done(k)
    BY <1>1, <1>2, <1>4 DEF Live, Done, Process, Running, Stopped
  <2>2. /\ effects[k] \in Nat /\ faults["worker"] + faults["api"] \in Nat
        /\ faults["worker"] + faults["api"] <= faults'["worker"] + faults'["api"]
        /\ faults'["worker"] + faults'["api"] \in Nat
    BY <1>4, <1>5 DEF RuleTypeOK, Process
  <2>3. Done(k) \in Nat
    BY DEF Done
  <2>. QED  BY <1>1, <2>1, <2>2, <2>3 DEF EffectOK
<1>11. GateOK'
  <2>1. faults'["worker"] = 0 => faults["worker"] = 0
    BY <1>4, <1>5 DEF RuleTypeOK, Process
  <2>2. g = mem[p] \/ g = Unread(p)
    BY <1>1
  <2>. QED  BY <1>1, <1>3, <1>4, <1>6, <2>1, <2>2 DEF GateOK, Process
<1>12. Faultless' => Settled' /\ Stopping'
  <2> SUFFICES ASSUME Faultless' PROVE Settled' /\ Stopping'
    OBVIOUS
  <2>1. Faultless /\ faults' = faults /\ g = mem[p] /\ mem' = mem
    <3>1. faults' # [faults EXCEPT ![p] = @ + 1]
      BY <1>5 DEF Faultless
    <3>. QED  BY <1>1, <3>1 DEF Faultless, RuleTypeOK
  <2>2. Settled'
    BY <1>1, <1>3, <1>4, <2>1 DEF Settled, Decided, Process
  <2>3. Stopping'
    BY <1>1, <1>3, <1>4, <2>1 DEF Stopping, Decided, Process, Stopped
  <2>. QED  BY <2>2, <2>3
<1>. QED  BY <1>7, <1>8, <1>9, <1>10, <1>11, <1>12

\* What a process had run past the checkpoint is forgotten, and a fault pays for it.
LEMMA InterruptedInv ==
    ASSUME RuleInv, NEW p \in Process, Interrupted(p) PROVE RuleInv'
<1> USE DEF RuleInv
<1>1. /\ pc' = [pc EXCEPT ![p] = "idle"] /\ faults' = [faults EXCEPT ![p] = @ + 1] /\ cp \in Graph
      /\ UNCHANGED <<rule, row, ended, cp, entry, ahead, elapsed, mem, effects, approved>>
  BY DEF Interrupted, Fails, Goto, RuleTypeOK, execVars
<1>2. Selected' = Selected /\ Ahead' = Ahead /\ (AtStop' <=> AtStop)
  BY <1>1, CheckpointIs DEF Ahead, AtStop
<1>3. /\ pc'[p] = "idle" /\ ~Running(p)'
      /\ \A q \in Process \ {p} : pc'[q] = pc[q] /\ (Running(q)' <=> Running(q))
      /\ \A q \in Process : pc'[q] # "idle" => pc[q] # "idle"
  BY <1>1 DEF RuleTypeOK, Running, Stopped
<1>4. /\ faults[p] \in Nat /\ faults'[p] = faults[p] + 1
      /\ \A q \in Process \ {p} : faults'[q] = faults[q]
  BY <1>1 DEF RuleTypeOK
<1>5. RuleTypeOK'
  BY <1>1 DEF RuleTypeOK, Aside, Stopped
<1>6. \A q \in Process : HandOK(q)'
  <2>1. HandOK(p)'
    BY <1>3 DEF HandOK, AsideOK, Stopped
  <2>2. ASSUME NEW q \in Process \ {p} PROVE HandOK(q)'
    <3>1. pc'[q] = pc[q] /\ faults'[q] = faults[q]
      BY <1>1, <1>3 DEF RuleTypeOK
    <3>. QED  BY <1>1, <1>2, <3>1 DEF HandOK, AsideOK, RowOf, Running, Stopped, Unread
  <2>. QED  BY <2>1, <2>2
<1>7. ListenerOK' /\ WaitOK' /\ TimeOK' /\ DelayOK'
  <2>1. ListenerOK'
    BY <1>1, <1>2, <1>3 DEF ListenerOK, Process
  <2>2. WaitOK'
    BY <1>1, <1>2, <1>3 DEF WaitOK, Decided, Process
  <2>3. TimeOK'
    BY <1>1, <1>3 DEF TimeOK, Process
  <2>4. faults["listener"] > 0 => faults'["listener"] > 0
    BY <1>4 DEF RuleTypeOK, Process
  <2>5. DelayOK'
    BY <1>1, <1>3, <2>4 DEF DelayOK, Unacted, Process
  <2>. QED  BY <2>1, <2>2, <2>3, <2>5
<1>8. ASSUME NEW k \in Effect PROVE EffectOK(k)'
  <2> DEFINE f == faults["worker"] + faults["api"]
  <2>1. effects[k] \in Nat /\ f \in Nat /\ f' \in Nat
    BY <1>1 DEF RuleTypeOK, Process
  <2>2. f' = IF p = "listener" THEN f ELSE f + 1
    BY <1>4 DEF RuleTypeOK, Process
  <2>3. Done(k) \in {0, 1} /\ Done(k)' \in {0, 1}
    BY DEF Done
  <2>4. effects[k] <= 1 + f /\ (Live => effects[k] <= Done(k) + f)
    BY DEF EffectOK
  <2>5. CASE p # "listener"
    <3>1. Live' => Live
      BY <1>1, <1>3, <2>5 DEF Live, Process
    <3>. QED  BY <1>1, <2>1, <2>2, <2>3, <2>4, <2>5, <3>1 DEF EffectOK
  <2>6. CASE p = "listener"
    <3>1. Live' => row # "running"
      BY <1>1, <1>3, <2>6 DEF Live
    <3>2. row # "running" => pc["listener"] # "save"
      BY DEF HandOK, RowOf, Running, Stopped, Process
    <3>3. Live' => Live /\ Done(k)' = Done(k)
      BY <1>1, <1>3, <2>6, <3>1, <3>2 DEF Live, Done, Process
    <3>. QED  BY <1>1, <2>1, <2>2, <2>4, <2>6, <3>3 DEF EffectOK
  <2>. QED  BY <2>5, <2>6
<1>9. GateOK'
  BY <1>1, <1>2, <1>3, <1>4 DEF GateOK, Process
<1>10. ~Faultless'
  BY <1>4 DEF Faultless
<1>. QED  BY <1>5, <1>6, <1>7, <1>8, <1>9, <1>10

\* A process that does not run the graph takes a step outside it: it polls, fires,
\* moves, cancels or marks the entry, or looks at the row; or time passes.
LEMMA AsideInv ==
    ASSUME RuleInv, NEW p \in Process, NEW label \in Aside,
           pc' = [pc EXCEPT ![p] = label] \/ pc' = pc,
           ~Running(p), pc[p] # "patch", AsideOK(p, label), label = "patch" => row = RowOf(p),
           faults' = faults \/ faults' = [faults EXCEPT ![p] = @ + 1],
           entry' \in EntryStatus, ahead' \in Nat, elapsed' \in BOOLEAN, elapsed => elapsed',
           TimeOK', UNCHANGED <<rule, row, ended, cp, mem, effects, approved>>
    PROVE  RuleInv'
<1> USE DEF RuleInv
<1>1. cp \in Graph /\ Selected' = Selected /\ Ahead' = Ahead /\ (AtStop' <=> AtStop)
  BY CheckpointIs DEF Ahead, AtStop, RuleTypeOK
<1>2. /\ pc'[p] = label \/ pc'[p] = pc[p]
      /\ \A q \in Process \ {p} : pc'[q] = pc[q] /\ faults'[q] = faults[q]
      /\ \A q \in Process : Running(q)' <=> Running(q)
      /\ \A q \in Process : Running(q) => pc'[q] = pc[q]
      /\ \A x \in {"invoke", "save"} \cup Stopped : \A q \in Process : pc'[q] = x <=> pc[q] = x
  BY DEF RuleTypeOK, Running, Process, Aside, Stopped
<1>3. /\ faults' \in [Process -> Nat] /\ \A q \in Process : faults[q] \in Nat /\ faults[q] <= faults'[q]
      /\ Faultless' => Faultless
  BY DEF RuleTypeOK, Faultless
<1>4. RuleTypeOK'
  BY <1>3 DEF RuleTypeOK
<1>5. \A q \in Process : HandOK(q)'
  <2>1. ~Running(p)' /\ AsideOK(p, pc'[p]) /\ (pc'[p] = "patch" => row = RowOf(p))
    BY <1>2 DEF HandOK
  <2>2. HandOK(p)'
    BY <2>1 DEF HandOK, AsideOK, RowOf, Running, Stopped
  <2>3. ASSUME NEW q \in Process \ {p} PROVE HandOK(q)'
    <3>1. pc'[q] = pc[q] /\ mem'[q] = mem[q] /\ faults'[q] = faults[q]
      BY <1>2
    <3>. QED  BY <1>1, <3>1 DEF HandOK, AsideOK, RowOf, Running, Stopped, Unread
  <2>. QED  BY <2>2, <2>3
<1>6. ListenerOK' /\ WaitOK' /\ DelayOK'
  <2>1. faults["listener"] > 0 => faults'["listener"] > 0
    BY <1>3 DEF Process
  <2>2. ListenerOK' /\ WaitOK'
    BY <1>1, <1>2 DEF ListenerOK, WaitOK, Process, Decided
  <2>. QED  BY <1>1, <1>2, <2>1, <2>2 DEF DelayOK, Unacted, Process
<1>7. ASSUME NEW k \in Effect PROVE EffectOK(k)'
  <2>1. (Live' <=> Live) /\ Done(k)' = Done(k)
    BY <1>1, <1>2 DEF Live, Done, Process
  <2>2. /\ effects[k] \in Nat /\ Done(k) \in {0, 1}
        /\ faults["worker"] + faults["api"] \in Nat /\ faults'["worker"] + faults'["api"] \in Nat
        /\ faults["worker"] + faults["api"] <= faults'["worker"] + faults'["api"]
    BY <1>3 DEF RuleTypeOK, Process, Done
  <2>. QED  BY <2>1, <2>2 DEF EffectOK
<1>8. GateOK'
  <2>1. faults'["worker"] = 0 => faults["worker"] = 0
    BY <1>3 DEF Process
  <2>. QED  BY <1>1, <1>2, <2>1 DEF GateOK, Process
<1>9. Faultless' => Settled' /\ Stopping'
  <2> SUFFICES ASSUME Faultless' PROVE Settled' /\ Stopping'
    OBVIOUS
  <2>1. Settled'
    BY <1>1, <1>2, <1>3 DEF Settled, Decided, Process
  <2>2. Stopping'
    BY <1>1, <1>2, <1>3 DEF Stopping, Decided, Process, Stopped
  <2>. QED  BY <2>1, <2>2
<1>. QED  BY <1>4, <1>5, <1>6, <1>7, <1>8, <1>9

\* What becomes of the entry, and the looks at the row.
LEMMA EntryInv ==
    ASSUME RuleInv,
           \/ DelayElapses \/ OthersFire \/ Edited \/ ResumeAfterWait \/ MarkHandled
           \/ ResumeExecution
           \/ \E p \in Process : PollEntry(p) \/ Fire(p)
           \/ \E edit \in {"cancel", "move"} : EditEntry(edit)
    PROVE  RuleInv'
<1> USE DEF RuleInv
<1> DEFINE Outside(p, label) ==
       /\ pc' = [pc EXCEPT ![p] = label] \/ pc' = pc
       /\ ~Running(p) /\ pc[p] # "patch" /\ AsideOK(p, label) /\ (label = "patch" => row = RowOf(p))
       /\ faults' = faults \/ faults' = [faults EXCEPT ![p] = @ + 1]
       /\ entry' \in EntryStatus /\ ahead' \in Nat /\ elapsed' \in BOOLEAN /\ (elapsed => elapsed')
       /\ TimeOK' /\ UNCHANGED <<rule, row, ended, cp, mem, effects, approved>>
<1>1. ASSUME NEW p \in Process, NEW label \in Aside, Outside(p, label) PROVE RuleInv'
  BY <1>1, AsideInv
<1>2. /\ entry \in EntryStatus /\ ahead \in Nat /\ elapsed \in BOOLEAN /\ ScanLimit \in Nat
      /\ pc \in [Process -> Aside \cup {"invoke", "save"} \cup Stopped] /\ TimeOK
      /\ {"worker", "api"} \subseteq Process
      /\ Aside = {"idle", "patch", "handled", "fire", "cancel", "move"}
      /\ \A p \in Process : AsideOK(p, "idle")
      /\ \A p \in Process : pc[p] \in Aside /\ pc[p] # "patch" => ~Running(p)
  BY RuleAssumption DEF RuleTypeOK, Process, Aside, AsideOK, Running, Stopped
<1>3. CASE \E p \in Process : PollEntry(p)
  <2>1. PICK p \in {"worker", "api"} : PollEntry(p)
    BY <1>3 DEF PollEntry
  <2>2. pc[p] = "idle" /\ pc' = [pc EXCEPT ![p] = "fire"] /\ entry = "due" /\ AsideOK(p, "fire")
    BY <2>1 DEF PollEntry, Goto, AsideOK
  <2>3. Outside(p, "fire")
    BY <1>2, <2>1, <2>2 DEF PollEntry, TimeOK, execVars, Aside
  <2>. QED  BY <1>1, <1>2, <2>3
<1>4. CASE \E p \in Process : Fire(p)
  <2>1. PICK p \in Process : Fire(p)
    BY <1>4
  <2>2. /\ pc[p] = "fire" /\ pc' = [pc EXCEPT ![p] = "idle"] /\ p \in {"worker", "api"}
        /\ entry' \in EntryStatus
        /\ faults' = faults \/ faults' = [faults EXCEPT ![p] = @ + 1]
    BY <1>2, <2>1 DEF Fire, Goto, Fails, EntryStatus, HandOK, AsideOK, Process
  <2>3. elapsed
    BY <1>2, <2>2 DEF TimeOK
  <2>4. /\ elapsed' = elapsed /\ ahead' = ahead
        /\ UNCHANGED <<rule, row, ended, cp, mem, effects, approved>>
    BY <2>1 DEF Fire, execVars
  <2>5. TimeOK'
    BY <2>3, <2>4 DEF TimeOK
  <2>6. Outside(p, "idle")
    BY <1>2, <2>2, <2>4, <2>5
  <2>. QED  BY <1>1, <1>2, <2>6
<1>5. CASE DelayElapses
  <2>1. PICK p \in Process : ~Running(p) /\ pc[p] # "patch"
    <3>1. "worker" \in Process /\ "listener" \in Process
      BY DEF Process
    <3>. QED  BY <3>1, Alone
  <2>2. Outside(p, "idle")
    BY <1>2, <1>5, <2>1 DEF DelayElapses, TimeOK, EntryStatus, execVars
  <2>. QED  BY <1>1, <1>2, <2>2
<1>6. CASE OthersFire
  <2>1. PICK p \in Process : ~Running(p) /\ pc[p] # "patch"
    <3>1. "worker" \in Process /\ "listener" \in Process
      BY DEF Process
    <3>. QED  BY <3>1, Alone
  <2>2. Outside(p, "idle")
    BY <1>2, <1>6, <2>1 DEF OthersFire, TimeOK, execVars
  <2>. QED  BY <1>1, <1>2, <2>2
<1>7. CASE \E edit \in {"cancel", "move"} : EditEntry(edit)
  <2>1. PICK edit \in {"cancel", "move"} : EditEntry(edit)
    BY <1>7
  <2>2. pc["api"] = "idle" /\ pc' = [pc EXCEPT !["api"] = edit] /\ AsideOK("api", edit)
    BY <2>1 DEF EditEntry, Goto, AsideOK
  <2>3. Outside("api", edit)
    BY <1>2, <2>1, <2>2 DEF EditEntry, TimeOK, execVars
  <2>. QED  BY <1>1, <1>2, <2>3
<1>8. CASE Edited
  <2>1. /\ pc["api"] \in {"cancel", "move"} /\ pc' = [pc EXCEPT !["api"] = "idle"]
        /\ entry' \in EntryStatus /\ ahead' \in Nat /\ elapsed' \in BOOLEAN /\ (elapsed => elapsed')
        /\ entry' \in {"due", "fired", "handled", "failed"} => elapsed'
    <3>1. CASE CancelEntry
      BY <1>2, <3>1 DEF CancelEntry, Goto, EntryStatus, TimeOK
    <3>2. CASE MoveEntry
      <4>1. /\ entry' \in {"pending", "due"} \/ entry' = entry
            /\ ahead' \in Nat /\ elapsed' = (elapsed \/ entry' = "due")
        BY <1>2, <3>2 DEF MoveEntry
      <4>2. entry' \in EntryStatus
        BY <1>2, <4>1 DEF EntryStatus
      <4>3. entry' \in {"due", "fired", "handled", "failed"} => elapsed'
        BY <1>2, <4>1 DEF TimeOK
      <4>. QED  BY <1>2, <3>2, <4>1, <4>2, <4>3 DEF MoveEntry, Goto
    <3>. QED  BY <1>8, <3>1, <3>2 DEF Edited
  <2>2. TimeOK'
    BY <1>2, <2>1 DEF TimeOK
  <2>3. Outside("api", "idle")
    BY <1>2, <1>8, <2>1, <2>2 DEF Edited, CancelEntry, MoveEntry, execVars
  <2>. QED  BY <1>1, <1>2, <2>3
<1>9. CASE ResumeAfterWait
  <2>1. PICK label \in {"patch", "handled"} :
           /\ pc' = [pc EXCEPT !["worker"] = label] /\ (label = "patch" => row = RowOf("worker"))
           /\ AsideOK("worker", label)
    BY <1>9 DEF ResumeAfterWait, Goto, RowOf, AsideOK
  <2>2. Outside("worker", label)
    BY <1>2, <1>9, <2>1 DEF ResumeAfterWait, TimeOK, execVars
  <2>. QED  BY <1>1, <1>2, <2>2
<1>10. CASE MarkHandled
  <2>1. pc["worker"] = "handled" /\ pc' = [pc EXCEPT !["worker"] = "idle"]
    BY <1>10 DEF MarkHandled, Goto
  <2>2. Outside("worker", "idle")
    BY <1>2, <1>10, <2>1 DEF MarkHandled, TimeOK, EntryStatus, execVars
  <2>. QED  BY <1>1, <1>2, <2>2
<1>11. CASE ResumeExecution
  <2>1. /\ pc["api"] = "idle" /\ pc' = [pc EXCEPT !["api"] = "patch"] /\ row = RowOf("api")
        /\ AsideOK("api", "patch")
    BY <1>11 DEF ResumeExecution, Goto, RowOf, AsideOK
  <2>2. Outside("api", "patch")
    BY <1>2, <1>11, <2>1 DEF ResumeExecution, TimeOK, execVars
  <2>. QED  BY <1>1, <1>2, <2>2
<1>. QED  BY <1>3, <1>4, <1>5, <1>6, <1>7, <1>8, <1>9, <1>10, <1>11

\* A resume patches the checkpoint and invokes the graph.
LEMMA PatchInv ==
    ASSUME RuleInv, PatchAfterWait \/ \E d \in {"approved", "rejected"} : PatchDecision(d)
    PROVE  RuleInv'
<1> USE DEF RuleInv
<1>1. PICK p \in {"worker", "api"}, g \in Graph :
        /\ pc[p] = "patch" /\ cp' = g /\ mem' = [mem EXCEPT ![p] = g]
        /\ pc' = [pc EXCEPT ![p] = IF cp.at = 9 THEN "read" ELSE "invoke"]
        /\ g.at = cp.at /\ g.status = "running"
        /\ p = "worker" => g.decision = cp.decision /\ approved' = approved
        /\ p = "api" => g.decision \in {"approved", "rejected"}
        /\ p = "api" => approved' = (approved \/ g.decision = "approved")
        /\ UNCHANGED <<rule, row, ended, entry, ahead, elapsed, effects, faults>>
  <2>1. CASE PatchAfterWait
    <3> DEFINE g == [cp EXCEPT !.status = "running", !.resolved = TRUE]
    <3>1. g \in Graph /\ g.at = cp.at /\ g.status = "running" /\ g.decision = cp.decision
      BY DEF RuleTypeOK, Graph, RowStatus, Terminal
    <3> HIDE DEF g
    <3>2. cp' = g /\ mem' = [mem EXCEPT !["worker"] = g]
      BY <2>1 DEF PatchAfterWait, Hold, g
    <3>. QED  BY <2>1, <3>1, <3>2, Positions DEF PatchAfterWait, Goto
  <2>2. CASE \E d \in {"approved", "rejected"} : PatchDecision(d)
    <3> PICK d \in {"approved", "rejected"} : PatchDecision(d)
      BY <2>2
    <3> DEFINE g == [cp EXCEPT !.decision = d, !.status = "running"]
    <3>1. g \in Graph /\ g.at = cp.at /\ g.status = "running" /\ g.decision = d
      BY DEF RuleTypeOK, Graph, RowStatus, Terminal
    <3> HIDE DEF g
    <3>2. cp' = g /\ mem' = [mem EXCEPT !["api"] = g]
      BY DEF PatchDecision, Hold, g
    <3>. QED  BY <3>1, <3>2, Positions DEF PatchDecision, Goto
  <2>. QED  BY <2>1, <2>2
<1>2. /\ p \in Process /\ pc'[p] \in {"read", "invoke"} /\ (pc'[p] = "read" <=> cp.at = 9)
      /\ Running(p)' /\ ~Running(p) /\ mem'[p] = g
      /\ \A q \in Process \ {p} : pc'[q] = pc[q] /\ mem'[q] = mem[q]
  BY <1>1 DEF RuleTypeOK, Running, Stopped, Process
<1>3. row = RowOf(p) /\ \A q \in Process \ {p} : ~Running(q) /\ pc[q] # "patch" /\ ~Running(q)'
  <2>1. row = RowOf(p) /\ \A q \in Process \ {p} : ~Running(q) /\ pc[q] # "patch"
    BY <1>1, <1>2, Alone
  <2>. QED  BY <1>2, <2>1 DEF Running, Stopped
<1>4. Selected' = Selected /\ Ahead' = Ahead /\ (AtStop' <=> StopsAt(g))
  BY <1>1, CheckpointIs DEF Ahead
<1>5. RuleTypeOK'
  <2>1. approved' \in BOOLEAN
    BY <1>1 DEF RuleTypeOK
  <2>. QED  BY <1>1, <2>1 DEF RuleTypeOK, Aside, Stopped
<1>6. \A q \in Process : HandOK(q)'
  <2>1. cp.at = 9 => StopsAt(g)
    BY <1>1, StopIs
  <2>2. HandOK(p)'
    BY <1>1, <1>2, <1>3, <1>4, <2>1, Positions DEF HandOK, RowOf, AsideOK, Stopped
  <2>. QED  BY <1>2, <1>3, <2>2, HandsMoved
<1>7. ListenerOK' /\ WaitOK' /\ TimeOK' /\ DelayOK'
  <2>1. row # "absent"
    BY <1>3 DEF RowOf
  <2>2. ListenerOK'
    BY <1>2, <1>3 DEF ListenerOK, Process
  <2>3. WaitOK'
    BY <1>1, <1>2, <1>3, <1>4, <2>1 DEF WaitOK, Decided, Process, Running, Stopped
  <2>4. TimeOK'
    BY <1>1, <1>2 DEF TimeOK, Process
  <2>5. CASE p = "worker"
    <3>1. elapsed
      BY <1>1, <2>5 DEF TimeOK
    <3>. QED  BY <1>1, <2>2, <2>3, <2>4, <3>1 DEF DelayOK
  <2>6. CASE p = "api"
    <3>1. g.decision # "none"
      BY <1>1, <2>6
    <3>2. rule.delay = "timing" /\ ~elapsed => faults["listener"] > 0
      BY <1>3, <2>6 DEF DelayOK, RowOf
    <3>. QED  BY <1>1, <2>2, <2>3, <2>4, <3>1, <3>2 DEF DelayOK
  <2>. QED  BY <1>1, <2>5, <2>6
<1>8. ASSUME NEW k \in Effect PROVE EffectOK(k)'
  <2>1. Live'
    BY <1>1, <1>3 DEF Live, RowOf, Terminal
  <2>2. Live
    BY <1>1, <1>3 DEF Live, RowOf, Terminal
  <2>3. \A q \in Process : pc[q] # "save" /\ pc'[q] # "save"
    BY <1>1, <1>2, <1>3 DEF Running, Stopped
  <2>4. Done(k)' = Done(k)
    BY <1>1, <2>3 DEF Done
  <2>. QED  BY <1>1, <2>1, <2>2, <2>4 DEF EffectOK
<1>9. GateOK'
  <2>1. row = "waiting_timer" <=> p = "worker"
    BY <1>1, <1>3 DEF RowOf
  <2>2. ~approved' => ~approved
    BY <1>1 DEF RuleTypeOK
  <2>3. CASE p = "worker"
    BY <1>1, <1>2, <1>3, <1>4, <2>2, <2>3, <2>1 DEF GateOK, Process, Running, Stopped
  <2>4. CASE p = "api"
    <3>1. /\ ~Running("worker")' /\ ~Running("listener")'
          /\ pc'["worker"] # "invoke" /\ pc'["listener"] # "invoke"
      BY <1>3, <2>4 DEF Process, Running, Stopped
    <3>2. ~approved' => mem'["api"].decision = "rejected"
      BY <1>1, <1>2, <2>4 DEF RuleTypeOK
    <3>3. row' # "waiting_timer" /\ effects' = effects /\ faults' = faults
      BY <1>1, <2>1, <2>4
    <3>. QED  BY <1>4, <2>2, <3>1, <3>2, <3>3 DEF GateOK
  <2>. QED  BY <2>3, <2>4
<1>10. Faultless' => Settled' /\ Stopping'
  <2> SUFFICES ASSUME Faultless PROVE Settled' /\ Stopping'
    BY <1>1 DEF Faultless
  <2>1. /\ row = "waiting_timer" <=> p = "worker"
        /\ row = "waiting_human" <=> p = "api"
        /\ row \notin {"running", "completed", "cancelled"}
    BY <1>1, <1>3 DEF RowOf
  <2>2. Settled'
    BY <1>1, <1>2, <2>1 DEF Settled, Terminal
  <2>3. CASE p = "worker"
    <3>1. cp.at = 1 /\ ~Decided(cp)
      BY <1>2, <2>1, <2>3 DEF Settled
    <3>. QED  BY <1>1, <1>2, <1>3, <2>2, <2>3, <3>1, Positions DEF Stopping, Decided, Process,
                 Running, Stopped
  <2>4. CASE p = "api"
    <3>1. Ahead = 5
      BY <1>2, <2>1, <2>4 DEF Settled
    <3>2. cp.at # 9
      <4>1. 9 \in 0 .. 9
        OBVIOUS
      <4>2. NextNode(9) >= 9 /\ NextNode(9) \in 1 .. 9
        BY <4>1, NextNodeIs
      <4>. QED  BY <3>1, <4>2 DEF Ahead
    <3>. QED  BY <1>1, <1>2, <1>3, <1>4, <2>2, <2>4, <3>1, <3>2, Positions DEF Stopping, Decided,
                 Process, Running, Stopped
  <2>. QED  BY <2>3, <2>4
<1>. QED  BY <1>5, <1>6, <1>7, <1>8, <1>9, <1>10

\* Every step keeps the invariant.
LEMMA RuleInvNext == RuleInv /\ [RuleNext]_ruleVars => RuleInv'
<1> SUFFICES ASSUME RuleInv, [RuleNext]_ruleVars PROVE RuleInv'
  OBVIOUS
<1>1. CASE UNCHANGED ruleVars
  <2> USE <1>1 DEF RuleInv, ruleVars
  <2>1. cp \in Graph /\ Selected' = Selected /\ Ahead' = Ahead /\ (AtStop' <=> AtStop)
    BY CheckpointIs DEF Ahead, AtStop, RuleTypeOK
  <2>2. RuleTypeOK' /\ (\A q \in Process : HandOK(q)')
    BY <2>1 DEF RuleTypeOK, HandOK, Running, Stopped
  <2>3. ListenerOK' /\ WaitOK' /\ TimeOK' /\ DelayOK' /\ (\A k \in Effect : EffectOK(k)')
    BY <2>1 DEF ListenerOK, WaitOK, TimeOK, DelayOK, Unacted, EffectOK, Live, Done, Running, Stopped
  <2>4. GateOK' /\ (Faultless' => Settled' /\ Stopping')
    BY <2>1 DEF GateOK, Faultless, Settled, Stopping, Running, Stopped, Decided
  <2>. QED  BY <2>2, <2>3, <2>4
<1>2. CASE StartExecution
  BY <1>2, StartExecutionInv
<1>3. ASSUME NEW p \in Process, RunStep(p) \/ Interrupted(p) PROVE RuleInv'
  BY <1>3, RunNodeInv, SaveCheckpointInv, InvokeRaisesInv, LookedInv, WriteRowInv,
     InterruptedInv DEF RunStep
<1>4. CASE DelayElapses \/ PollEntry("api") \/ Firing \/ OthersFire \/ Edited
  BY <1>4, EntryInv DEF Firing, Process
<1>5. CASE \E edit \in {"cancel", "move"} : EditEntry(edit)
  BY <1>5, EntryInv
<1>6. CASE WorkerNext \/ ResumeExecution \/ \E d \in {"approved", "rejected"} : PatchDecision(d)
  BY <1>6, EntryInv, PatchInv DEF WorkerNext
<1>. QED  BY <1>1, <1>2, <1>3, <1>4, <1>5, <1>6 DEF RuleNext

-----------------------------------------------------------------------------
\* Type correctness of the rule, the three places its execution is kept in and the
\* processes that run it.
THEOREM RuleTypeCorrect == RuleSpec => []RuleTypeOK
<1>1. RuleInv => RuleTypeOK
  BY DEF RuleInv
<1>. QED  BY RuleInvInit, RuleInvNext, <1>1, PTL DEF RuleSpec

\* The three processes never run the graph at once: each runs it only under a status
\* of the row that the others leave alone (the checks of start_execution,
\* resume_after_wait and resume_execution).
OneRuns == \A p, q \in Process : Running(p) /\ Running(q) => p = q

\* The row of the execution is its lock.
THEOREM OneRunsHolds == RuleSpec => []OneRuns
<1>1. RuleInv => OneRuns
  BY Alone DEF OneRuns
<1>. QED  BY RuleInvInit, RuleInvNext, <1>1, PTL DEF RuleSpec

\* Whatever faults hit the listener and the API, nothing that needs an approval is
\* published without one, unless a fault hit the worker too (build_graph's stop before
\* the approval, resume_execution, publish_node).
THEOREM ApprovalGateHolds == RuleSpec => []ApprovalGate
<1>1. RuleInv => ApprovalGate
  <2> SUFFICES ASSUME RuleInv PROVE ApprovalGate
    OBVIOUS
  <2>1. faults["worker"] \in Nat /\ effects["publish"] \in Nat
    BY DEF RuleInv, RuleTypeOK, Process, Effect
  <2>. QED  BY <2>1 DEF RuleInv, GateOK, ApprovalGate
<1>. QED  BY RuleInvInit, RuleInvNext, <1>1, PTL DEF RuleSpec

\* An outward effect takes place once, and once more only for a fault of a process
\* that resumes the graph from a checkpoint the effect is not in.
THEOREM EffectsOnceHolds == RuleSpec => []EffectsOnce
<1>1. RuleInv => EffectsOnce
  <2> SUFFICES ASSUME RuleInv, NEW k \in Effect
               PROVE  effects[k] <= 1 + faults["worker"] + faults["api"]
    BY DEF EffectsOnce
  <2>1. faults["worker"] \in Nat /\ faults["api"] \in Nat /\ effects[k] \in Nat
    BY DEF RuleInv, RuleTypeOK, Process
  <2>. QED  BY <2>1 DEF RuleInv, EffectOK
<1>. QED  BY RuleInvInit, RuleInvNext, <1>1, PTL DEF RuleSpec

\* Nothing happens outside before the delay of the rule's timing is over (wait_node
\* and the stop after it), but by the decision of an operator, after a fault of the
\* listener (resume_execution; _read_snapshot and _graph_is_finished of start_execution).
THEOREM DelayRespectedHolds == RuleSpec => []DelayRespected
<1>1. RuleInv => DelayRespected
  BY DEF RuleInv, DelayOK, DelayRespected
<1>. QED  BY RuleInvInit, RuleInvNext, <1>1, PTL DEF RuleSpec

\* At rest and without a fault, rule_executions.status and ended_at say where the
\* graph stands.
THEOREM RowMatchesGraphHolds == RuleSpec => []RowMatchesGraph
<1>1. RuleInv => RowMatchesGraph
  <2> SUFFICES ASSUME RuleInv, Quiet, Faultless PROVE RowMatchesGraph
    BY DEF RowMatchesGraph
  <2>1. \A p \in Process : ~Running(p)
    BY DEF Quiet, Running, Stopped
  <2>2. cp.at \in 0 .. 9 /\ Ahead \in 1 .. 9
    <3>1. cp.at \in 0 .. 9
      BY Positions DEF RuleInv, RuleTypeOK, Graph
    <3>. QED  BY <3>1, NextNodeIs DEF Ahead
  <2>3. /\ IsKind(NextNode(cp.at), "approval") <=> Ahead = 5
        /\ IsKind(cp.at, "wait") <=> cp.at = 1
    BY <2>2, Positions DEF Ahead
  <2>. QED  BY <2>1, <2>3 DEF RuleInv, Settled, RowMatchesGraph, Process
<1>. QED  BY RuleInvInit, RuleInvNext, <1>1, PTL DEF RuleSpec

\* The verdict of an execution is final: no process writes the row once it has ended.
THEOREM VerdictStaysHolds == RuleSpec => VerdictStays
<1>1. RuleInv /\ [RuleNext]_ruleVars => [(row \in Terminal) => row' = row]_ruleVars
  <2> SUFFICES ASSUME RuleInv, RuleNext, row \in Terminal PROVE row' = row
    BY DEF ruleVars
  <2>1. \A p \in Process : ~Running(p) /\ pc[p] # "patch"
    BY DEF RuleInv, HandOK, RowOf, Terminal
  <2>2. CASE StartExecution
    BY <2>2 DEF StartExecution, Terminal
  <2>3. ASSUME NEW p \in Process, RunStep(p) \/ Interrupted(p) PROVE row' = row
    BY <2>1, <2>3 DEF RunStep, RunNode, SaveCheckpoint, InvokeRaises, ReadSnapshot, AskFinished,
       WriteRow, Interrupted, Running, execVars, Stopped
  <2>4. CASE \/ DelayElapses \/ PollEntry("api") \/ Firing \/ OthersFire \/ Edited
             \/ WorkerNext \/ ResumeExecution \/ \E edit \in {"cancel", "move"} : EditEntry(edit)
    BY <2>4 DEF DelayElapses, PollEntry, Firing, Fire, OthersFire, Edited, CancelEntry, MoveEntry,
       WorkerNext, ResumeAfterWait, PatchAfterWait, MarkHandled, ResumeExecution, EditEntry, execVars
  <2>5. CASE \E d \in {"approved", "rejected"} : PatchDecision(d)
    BY <2>5 DEF PatchDecision
  <2>. QED  BY <2>2, <2>3, <2>4, <2>5 DEF RuleNext
<1>. QED  BY RuleInvInit, RuleInvNext, <1>1, PTL DEF RuleSpec, VerdictStays
=============================================================================
