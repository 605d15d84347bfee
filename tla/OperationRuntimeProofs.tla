------------------------- MODULE OperationRuntimeProofs -------------------------
(***************************************************************************)
(* Theorems about OperationRuntime, for operations, clients, queues and    *)
(* answers of any number and length.  The invariant OpsInv says of a log   *)
(* that `done' ends it once the operation is completed (LogOK), and of a   *)
(* live stream what its queue holds of the log it has not shown (QueueOK). *)
(***************************************************************************)
EXTENDS OperationRuntime, TLAPS, SequenceTheorems

Event      == {"message", "operation", "tool", "pending", "chunk", "done"}
TaskState  == {"none", "interpret", "tools", "handler", "answer", "done", "dead", "cancelled"}
Viewer     == [op : Operation \cup {NoOp}, mode : {"off", "replay", "live", "ended", "gone"},
               last : Nat, upto : Nat, from : Nat, queue : Seq(Nat), lossy : BOOLEAN]

OpsTypeOK ==
    /\ opStatus \in [Operation -> {"none", "running", "completed"}]
    /\ opTask \in [Operation -> TaskState]
    /\ opLog \in [Operation -> Seq(Event)]
    /\ viewer \in [Client -> Viewer]

\* An operation has a log once it is created, and `done' ends it, once it is completed.
LogOK(o) ==
    LET n == Len(opLog[o]) IN
    /\ opStatus[o] = "none" => opTask[o] = "none" /\ n = 0
    /\ opTask[o] \in OnItsWay => opStatus[o] = "running"
    /\ opStatus[o] = "completed" <=> n > 0 /\ opLog[o][n] = "done"
    /\ \A i \in 1 .. n : opLog[o][i] = "done" => i = n

\* The last event a stream has shown or left out.
Shown(v) == IF v.last >= v.from THEN v.last ELSE v.from - 1

\* What a stream is about to show, n events being logged.
QueueOK(v, n) ==
    /\ v.last <= n /\ v.from <= n + 1 /\ Len(v.queue) <= QueueCap
    /\ \A i \in 1 .. Len(v.queue) : v.last < v.queue[i] /\ v.queue[i] <= n
    /\ \A i, j \in 1 .. Len(v.queue) : i < j => v.queue[i] < v.queue[j]
    /\ ~v.lossy => /\ Len(v.queue) = n - Shown(v)
                   /\ \A i \in 1 .. Len(v.queue) : v.queue[i] = Shown(v) + i

ViewerOK(c) ==
    LET v == viewer[c]
        n == Len(opLog[v.op])
    IN  /\ v.mode \in {"replay", "live", "ended"} => v.op \in Operation /\ opStatus[v.op] # "none"
        /\ v.mode = "replay" => /\ c \notin Creator /\ v.last <= v.upto /\ v.upto <= n
                                /\ v.queue = <<>> /\ ~v.lossy
        /\ v.mode = "live" => (c \in Creator => v.from <= 1) /\ QueueOK(v, n)
        /\ v.mode = "ended" =>
              /\ opStatus[v.op] = "completed"
              /\ v.last = n \/ (c \notin Creator /\ v.upto < n /\ v.from = n + 1)
              /\ v.upto = n => v.last = n

OpsInv ==
    /\ OpsTypeOK
    /\ \A o \in Operation : LogOK(o)
    /\ \A c \in Client : ViewerOK(c)

\* A stream's queue after the events n + 1 .. n + k have been put on it: those that
\* fit, in order, and none of them unless it overflows is missing.
LEMMA PutKeeps ==
    ASSUME NEW v \in Viewer, NEW n \in Nat, NEW k \in Nat \ {0}, QueueOK(v, n)
    PROVE  LET w == Put(v, n + 1, n + k)
           IN  /\ w \in Viewer /\ QueueOK(w, n + k) /\ w.op = v.op /\ w.mode = v.mode
               /\ w.last = v.last /\ w.upto = v.upto /\ w.from = v.from
<1> DEFINE room == QueueCap - Len(v.queue)
           end == IF k <= room THEN n + k ELSE n + room
           more == [i \in 1 .. end - n |-> n + i]
           queue == v.queue \o more
           lossy == v.lossy \/ end < n + k
           w == [v EXCEPT !.queue = queue, !.lossy = lossy]
<1>1. /\ v.queue \in Seq(Nat) /\ Len(v.queue) \in Nat /\ v.last \in Nat /\ v.from \in Nat
      /\ QueueCap \in Nat /\ Len(v.queue) <= QueueCap
  BY RuntimeAssumption DEF Viewer, QueueOK
<1>2. /\ room \in Nat /\ end \in Nat /\ n <= end /\ end <= n + k /\ end - n <= room
      /\ end - n \in Nat
  <2>1. room \in Nat
    BY <1>1
  <2> HIDE DEF room
  <2>2. CASE k <= room
    BY <2>1, <2>2
  <2>3. CASE ~(k <= room)
    BY <2>1, <2>3
  <2>. QED  BY <2>1, <2>2, <2>3
<1>3. (n + k) - (n + 1) + 1 = k /\ (n + 1) + room - 1 = n + room /\ end - (n + 1) + 1 = end - n
      /\ \A i \in Nat : (n + 1) + i - 1 = n + i
  BY <1>1, <1>2
<1>4. Put(v, n + 1, n + k) = w
  <2>1. (IF (n + k) - (n + 1) + 1 <= room THEN n + k ELSE (n + 1) + room - 1) = end
    BY <1>3
  <2>2. [i \in 1 .. end - (n + 1) + 1 |-> (n + 1) + i - 1] = more
    BY <1>2, <1>3
  <2> HIDE DEF room, end, more
  <2>. QED  BY <2>1, <2>2 DEF Put, room
<1> HIDE DEF room
<1>5. more \in Seq(Nat) /\ Len(more) = end - n /\ \A i \in 1 .. end - n : more[i] = n + i
  BY <1>2
<1> HIDE DEF more, end
<1>6. /\ queue \in Seq(Nat) /\ Len(queue) = Len(v.queue) + (end - n)
      /\ \A i \in 1 .. Len(v.queue) : queue[i] = v.queue[i]
      /\ \A i \in 1 .. end - n : queue[Len(v.queue) + i] = n + i
  <2>1. /\ queue \in Seq(Nat) /\ Len(queue) = Len(v.queue) + Len(more)
        /\ \A i \in 1 .. Len(v.queue) + Len(more) :
              queue[i] = IF i <= Len(v.queue) THEN v.queue[i] ELSE more[i - Len(v.queue)]
    <3>1. v.queue \in Seq(Nat) /\ more \in Seq(Nat)
      BY <1>1, <1>5
    <3>. QED  BY <3>1, ConcatProperties, ZenonT(60)
  <2>2. ASSUME NEW i \in 1 .. end - n PROVE queue[Len(v.queue) + i] = n + i
    <3> DEFINE j == Len(v.queue) + i
    <3>1. j \in 1 .. Len(v.queue) + Len(more) /\ ~(j <= Len(v.queue)) /\ j - Len(v.queue) = i
      BY <1>1, <1>2, <1>5
    <3> HIDE DEF j, queue
    <3>2. queue[j] = more[i]
      BY <2>1, <3>1
    <3>. QED  BY <1>5, <3>2 DEF j
  <2>3. ASSUME NEW i \in 1 .. Len(v.queue) PROVE queue[i] = v.queue[i]
    <3>1. i \in 1 .. Len(v.queue) + Len(more) /\ i <= Len(v.queue)
      BY <1>1, <1>2, <1>5
    <3> HIDE DEF queue
    <3>. QED  BY <2>1, <3>1
  <2>. QED  BY <1>5, <2>1, <2>2, <2>3
<1> HIDE DEF queue
<1>7. lossy \in BOOLEAN /\ (~lossy => ~v.lossy /\ end = n + k)
  BY <1>2 DEF Viewer
<1> HIDE DEF lossy
<1>8. /\ w \in Viewer /\ w.op = v.op /\ w.mode = v.mode /\ w.last = v.last /\ w.upto = v.upto
      /\ w.from = v.from /\ w.queue = queue /\ w.lossy = lossy
  BY <1>6, <1>7 DEF Viewer
<1> HIDE DEF w
<1>9. Shown(w) = Shown(v)
  BY <1>8 DEF Shown
<1>10. PICK m \in Nat : m = Len(v.queue)
  BY <1>1
<1>11. PICK d \in Nat : d = end - n
  BY <1>2
<1>12. ASSUME NEW i \in 1 .. Len(queue)
       PROVE  \/ i \in 1 .. m /\ queue[i] = v.queue[i]
              \/ \E x \in 1 .. d : i = m + x /\ queue[i] = n + x
  <2>0. Len(queue) = m + d
    BY <1>6, <1>10, <1>11
  <2>1. CASE i <= m
    BY <1>6, <1>10, <2>0, <2>1
  <2>2. CASE ~(i <= m)
    <3>1. PICK x \in 1 .. d : i = m + x
      <4>1. i - m \in 1 .. d /\ m + (i - m) = i
        BY <2>0, <2>2
      <4>. QED  BY <4>1
    <3>2. queue[i] = n + x
      BY <1>6, <1>10, <1>11, <3>1
    <3>. QED  BY <3>1, <3>2
  <2>. QED  BY <2>1, <2>2
<1>13. /\ w.last <= n + k /\ w.from <= (n + k) + 1 /\ Len(queue) <= QueueCap
  <2>1. v.last <= n /\ v.from <= n + 1
    BY DEF QueueOK
  <2>2. w.last <= n + k /\ w.from <= (n + k) + 1
    BY <1>1, <1>8, <2>1
  <2>3. m + d <= QueueCap
    BY <1>1, <1>2, <1>10, <1>11 DEF room
  <2>. QED  BY <1>6, <1>10, <1>11, <2>2, <2>3
<1>14. n + d <= n + k
  BY <1>2, <1>11
<1>15. ASSUME NEW i \in 1 .. Len(queue) PROVE v.last < queue[i] /\ queue[i] <= n + k
  <2>1. \A j \in 1 .. m : v.queue[j] \in Nat /\ v.last < v.queue[j] /\ v.queue[j] <= n
    BY <1>1, <1>10 DEF QueueOK
  <2>2. v.last <= n
    BY DEF QueueOK
  <2>3. CASE i \in 1 .. m /\ queue[i] = v.queue[i]
    <3>1. v.queue[i] \in Nat /\ v.last < v.queue[i] /\ v.queue[i] <= n
      BY <2>1, <2>3
    <3>. QED  BY <2>3, <3>1
  <2>4. CASE \E x \in 1 .. d : i = m + x /\ queue[i] = n + x
    <3>1. PICK x \in 1 .. d : queue[i] = n + x
      BY <2>4
    <3>2. v.last < n + x /\ n + x <= n + k
      BY <1>1, <1>14, <2>2
    <3>. QED  BY <3>1, <3>2
  <2>. QED  BY <1>12, <2>3, <2>4
<1>16. ASSUME NEW i \in 1 .. Len(queue), NEW j \in 1 .. Len(queue), i < j PROVE queue[i] < queue[j]
  <2>1. \A x \in 1 .. m : v.queue[x] \in Nat /\ v.queue[x] <= n
    BY <1>1, <1>10 DEF QueueOK
  <2>2. \A x, y \in 1 .. m : x < y => v.queue[x] < v.queue[y]
    BY <1>10 DEF QueueOK
  <2>3. i \in Nat /\ j \in Nat
    BY <1>6
  <2>4. CASE i \in 1 .. m /\ queue[i] = v.queue[i]
    <3>1. v.queue[i] \in Nat /\ v.queue[i] <= n
      BY <2>1, <2>4
    <3>2. CASE j \in 1 .. m /\ queue[j] = v.queue[j]
      <4>1. v.queue[i] < v.queue[j]
        BY <1>16, <2>2, <2>4, <3>2
      <4>. QED  BY <2>4, <3>2, <4>1
    <3>3. CASE \E x \in 1 .. d : j = m + x /\ queue[j] = n + x
      <4>1. PICK x \in 1 .. d : queue[j] = n + x
        BY <3>3
      <4>2. v.queue[i] < n + x
        BY <3>1
      <4>. QED  BY <2>4, <4>1, <4>2
    <3>. QED  BY <1>12, <3>2, <3>3
  <2>5. CASE \E x \in 1 .. d : i = m + x /\ queue[i] = n + x
    <3>1. PICK x \in 1 .. d : i = m + x /\ queue[i] = n + x
      BY <2>5
    <3>2. PICK y \in 1 .. d : j = m + y /\ queue[j] = n + y
      <4>1. ~(j \in 1 .. m)
        BY <1>16, <2>3, <3>1
      <4>. QED  BY <1>12, <4>1
    <3>3. n + x < n + y
      BY <1>16, <3>1, <3>2
    <3>. QED  BY <3>1, <3>2, <3>3
  <2>. QED  BY <1>12, <2>4, <2>5
<1>17. ASSUME ~lossy
       PROVE  /\ Len(queue) = (n + k) - Shown(v)
              /\ \A i \in 1 .. Len(queue) : queue[i] = Shown(v) + i
  <2>1. /\ m = n - Shown(v) /\ d = k
        /\ \A i \in 1 .. m : v.queue[i] = Shown(v) + i
    BY <1>7, <1>17, <1>10, <1>11, <1>2 DEF QueueOK
  <2>2. Shown(v) \in Int
    BY <1>1 DEF Shown
  <2>3. Len(queue) = (n + k) - Shown(v)
    <3>1. Len(queue) = m + d
      BY <1>6, <1>10, <1>11
    <3>2. m + d = (n + k) - Shown(v)
      BY <2>1, <2>2
    <3>. QED  BY <3>1, <3>2
  <2>4. ASSUME NEW i \in 1 .. Len(queue) PROVE queue[i] = Shown(v) + i
    <3>1. CASE i \in 1 .. m /\ queue[i] = v.queue[i]
      BY <2>1, <3>1
    <3>2. CASE \E x \in 1 .. d : i = m + x /\ queue[i] = n + x
      <4>1. PICK x \in 1 .. d : i = m + x /\ queue[i] = n + x
        BY <3>2
      <4>2. n + x = Shown(v) + (m + x)
        BY <2>1, <2>2
      <4>. QED  BY <4>1, <4>2
    <3>. QED  BY <1>12, <3>1, <3>2
  <2>. QED  BY <2>3, <2>4
<1>18. QueueOK(w, n + k)
  BY <1>8, <1>9, <1>13, <1>15, <1>16, <1>17 DEF QueueOK
<1>. QED  BY <1>4, <1>8, <1>18

\* Events emitted by a running operation keep the invariant: they follow a log
\* without `done', and go to the streams that are live on it.
LEMMA EmitKeeps ==
    ASSUME OpsInv, NEW o \in Operation, NEW events \in Seq(Event), Len(events) > 0,
           opTask[o] \in OnItsWay, Emit(o, events),
           NEW st \in {"running", "completed"}, NEW tk \in TaskState,
           opStatus' = [opStatus EXCEPT ![o] = st], opTask' = [opTask EXCEPT ![o] = tk],
           tk \in OnItsWay => st = "running",
           st = "completed" <=> events[Len(events)] = "done",
           \A i \in 1 .. Len(events) : events[i] = "done" => i = Len(events)
    PROVE  OpsInv'
<1>1. /\ opStatus \in [Operation -> {"none", "running", "completed"}]
      /\ opTask \in [Operation -> TaskState] /\ opLog \in [Operation -> Seq(Event)]
      /\ viewer \in [Client -> Viewer]
  BY DEF OpsInv, OpsTypeOK
<1>2. /\ \A x \in Operation : LogOK(x)
      /\ \A c \in Client : ViewerOK(c)
  BY DEF OpsInv
<1> DEFINE log == opLog[o] \o events
<1>3. PICK n \in Nat : n = Len(opLog[o])
  BY <1>1
<1>4. PICK k \in Nat \ {0} : k = Len(events)
  OBVIOUS
<1>5. /\ log \in Seq(Event) /\ Len(log) = n + k
      /\ \A i \in 1 .. n : log[i] = opLog[o][i]
      /\ \A i \in 1 .. k : log[n + i] = events[i]
  <2>1. opLog[o] \in Seq(Event)
    BY <1>1
  <2>2. /\ log \in Seq(Event) /\ Len(log) = n + k
        /\ \A i \in 1 .. n + k : log[i] = IF i <= n THEN opLog[o][i] ELSE events[i - n]
    <3>1. /\ log \in Seq(Event) /\ Len(log) = Len(opLog[o]) + Len(events)
          /\ \A i \in 1 .. Len(opLog[o]) + Len(events) :
                log[i] = IF i <= Len(opLog[o]) THEN opLog[o][i] ELSE events[i - Len(opLog[o])]
      BY <2>1, ConcatProperties, ZenonT(60)
    <3>. QED  BY <1>3, <1>4, <3>1, Zenon
  <2> HIDE DEF log
  <2>3. ASSUME NEW i \in 1 .. n PROVE log[i] = opLog[o][i]
    BY <2>2
  <2>4. ASSUME NEW i \in 1 .. k PROVE log[n + i] = events[i]
    <3>1. n + i \in 1 .. n + k /\ ~(n + i <= n) /\ (n + i) - n = i
      OBVIOUS
    <3>. QED  BY <2>2, <3>1
  <2>. QED  BY <2>2, <2>3, <2>4
<1>6. opLog' = [opLog EXCEPT ![o] = log]
  BY DEF Emit
<1>7. \A c \in Client : viewer'[c] = IF viewer[c].mode = "live" /\ viewer[c].op = o
                                     THEN Put(viewer[c], n + 1, n + k) ELSE viewer[c]
  BY <1>3, <1>4 DEF Emit, Live
<1>8. viewer' = [c \in Client |-> viewer'[c]]
  BY DEF Emit
<1> HIDE DEF log
<1>9. opStatus[o] = "running" /\ \A i \in 1 .. n : opLog[o][i] # "done"
  <2>1. LogOK(o)
    BY <1>2
  <2>2. opStatus[o] = "running"
    BY <2>1 DEF LogOK
  <2>3. ~(n > 0 /\ opLog[o][n] = "done") /\ \A i \in 1 .. n : opLog[o][i] = "done" => i = n
    BY <1>3, <2>1, <2>2 DEF LogOK
  <2>. QED  BY <2>2, <2>3
<1>10. \A x \in Operation : opLog'[x] = (IF x = o THEN log ELSE opLog[x])
                            /\ opStatus'[x] = (IF x = o THEN st ELSE opStatus[x])
                            /\ opTask'[x] = (IF x = o THEN tk ELSE opTask[x])
  BY <1>1, <1>6
<1>11. LogOK(o)'
  <2>1. opLog'[o] = log /\ opStatus'[o] = st /\ opTask'[o] = tk
    BY <1>10
  <2>2. st = "completed" <=> log[n + k] = "done"
    BY <1>4, <1>5
  <2>3. ASSUME NEW i \in 1 .. n + k, log[i] = "done" PROVE i = n + k
    <3>1. ~(i \in 1 .. n)
      BY <1>5, <1>9, <2>3
    <3>2. PICK j \in 1 .. k : i = n + j
      <4>1. i - n \in 1 .. k /\ n + (i - n) = i
        BY <3>1
      <4>. QED  BY <4>1
    <3>3. events[j] = "done"
      BY <1>5, <2>3, <3>2
    <3>. QED  BY <1>4, <3>2, <3>3
  <2>4. n + k > 0
    OBVIOUS
  <2>. QED  BY <1>5, <2>1, <2>2, <2>3, <2>4 DEF LogOK
<1>12. ASSUME NEW x \in Operation, x # o PROVE LogOK(x)'
  <2>1. LogOK(x)
    BY <1>2
  <2>. QED  BY <1>10, <1>12, <2>1 DEF LogOK
<1>13. ASSUME NEW c \in Client, viewer[c].mode = "live", viewer[c].op = o
       PROVE  viewer'[c] \in Viewer /\ ViewerOK(c)'
  <2>1. viewer[c] \in Viewer /\ (c \in Creator => viewer[c].from <= 1) /\ QueueOK(viewer[c], n)
    BY <1>1, <1>2, <1>3, <1>13 DEF ViewerOK
  <2>2. viewer'[c] = Put(viewer[c], n + 1, n + k)
    BY <1>7, <1>13
  <2> DEFINE w == Put(viewer[c], n + 1, n + k)
  <2>3. /\ w \in Viewer /\ QueueOK(w, n + k) /\ w.op = o /\ w.mode = "live"
        /\ w.from = viewer[c].from
    <3>1. PICK u \in Viewer : u = viewer[c]
      BY <2>1
    <3>2. QueueOK(u, n) /\ u.op = o /\ u.mode = "live"
      BY <1>13, <2>1, <3>1
    <3>. QED  BY <3>1, <3>2, PutKeeps
  <2>4. PICK v : v = viewer'[c]
    OBVIOUS
  <2>5. v \in Viewer /\ QueueOK(v, n + k) /\ v.op = o /\ v.mode = "live" /\ v.from = viewer[c].from
    BY <2>2, <2>3, <2>4
  <2>6. (Len(opLog[o]))' = n + k /\ opStatus'[o] # "none"
    BY <1>5, <1>10
  <2>7. QueueOK(viewer[c], Len(opLog[viewer[c].op]))'
    BY <2>4, <2>5, <2>6 DEF QueueOK, Shown
  <2>. QED  BY <2>1, <2>4, <2>5, <2>6, <2>7 DEF ViewerOK
<1>14. ASSUME NEW c \in Client, ~(viewer[c].mode = "live" /\ viewer[c].op = o)
       PROVE  viewer'[c] \in Viewer /\ ViewerOK(c)'
  <2>1. viewer'[c] = viewer[c] /\ viewer[c] \in Viewer /\ ViewerOK(c)
    BY <1>1, <1>2, <1>7, <1>14
  <2>2. CASE viewer[c].op \in Operation /\ viewer[c].op # o
    <3>1. opLog'[viewer[c].op] = opLog[viewer[c].op] /\ opStatus'[viewer[c].op] = opStatus[viewer[c].op]
      BY <1>10, <2>2
    <3>. QED  BY <2>1, <3>1 DEF ViewerOK, QueueOK, Shown
  <2>3. CASE viewer[c].op = o
    <3>1. viewer[c].mode # "live" /\ viewer[c].mode # "ended"
      BY <1>9, <1>14, <2>1, <2>3 DEF ViewerOK
    <3>2. viewer[c].upto \in Nat
      BY <2>1 DEF Viewer
    <3>3. Len(opLog'[o]) = n + k /\ opStatus'[o] # "none"
      BY <1>5, <1>10
    <3>. QED  BY <1>3, <2>1, <2>3, <3>1, <3>2, <3>3 DEF ViewerOK
  <2>4. CASE viewer[c].op \notin Operation
    BY <2>1, <2>4 DEF ViewerOK
  <2>. QED  BY <2>2, <2>3, <2>4
<1>15. OpsTypeOK'
  <2>1. viewer' \in [Client -> Viewer]
    BY <1>8, <1>13, <1>14
  <2>. QED  BY <1>1, <1>5, <1>6, <2>1 DEF OpsTypeOK
<1>. QED  BY <1>11, <1>12, <1>13, <1>14, <1>15 DEF OpsInv

\* A stream that is not open.
LEMMA NoViewerOK ==
    /\ NoViewer \in Viewer /\ NoViewer.op = NoOp /\ NoViewer.mode = "off" /\ NoViewer.last = 0
    /\ NoViewer.upto = 0 /\ NoViewer.from = 0 /\ NoViewer.queue = <<>> /\ NoViewer.lossy = FALSE
  BY DEF NoViewer, Viewer

\* Nothing is created, nobody listens.
LEMMA OpsInitOK == OpsInit => OpsInv
<1> SUFFICES ASSUME OpsInit PROVE OpsInv
  OBVIOUS
<1> USE DEF OpsInit
<1>1. NoViewer \in Viewer /\ NoViewer.mode = "off"
  BY NoViewerOK
<1>2. OpsTypeOK
  BY <1>1 DEF OpsTypeOK, TaskState
<1>3. ASSUME NEW o \in Operation PROVE LogOK(o)
  BY DEF LogOK, OnItsWay
<1>4. ASSUME NEW c \in Client PROVE ViewerOK(c)
  BY <1>1 DEF ViewerOK
<1>. QED  BY <1>2, <1>3, <1>4 DEF OpsInv

\* A new operation has no log and no stream but its creator's.
LEMMA CreateKeeps ==
    ASSUME OpsInv, NEW o \in Operation, NEW c \in Client, NEW r \in Request,
           CreateOperation(o, c, r)
    PROVE  OpsInv'
<1>1. /\ opStatus \in [Operation -> {"none", "running", "completed"}]
      /\ opTask \in [Operation -> TaskState] /\ opLog \in [Operation -> Seq(Event)]
      /\ viewer \in [Client -> Viewer]
  BY DEF OpsInv, OpsTypeOK
<1>2. /\ \A x \in Operation : LogOK(x)
      /\ \A d \in Client : ViewerOK(d)
  BY DEF OpsInv
<1> DEFINE v == [NoViewer EXCEPT !.op = o, !.mode = "live", !.from = 1]
<1>3. /\ v \in Viewer /\ v.op = o /\ v.mode = "live" /\ v.from = 1 /\ v.last = 0
      /\ v.queue = <<>> /\ v.lossy = FALSE
  BY NoViewerOK DEF Viewer
<1>4. /\ opStatus[o] = "none" /\ opLog' = opLog /\ viewer' = [viewer EXCEPT ![c] = v]
      /\ opStatus' = [opStatus EXCEPT ![o] = "running"]
      /\ opTask' = [opTask EXCEPT ![o] = "interpret"]
  BY DEF CreateOperation
<1> HIDE DEF v
<1>5. Len(opLog[o]) = 0
  <2>1. LogOK(o)
    BY <1>2
  <2>. QED  BY <1>4, <2>1 DEF LogOK
<1>6. OpsTypeOK'
  BY <1>1, <1>3, <1>4 DEF OpsTypeOK, TaskState
<1>7. ASSUME NEW x \in Operation PROVE LogOK(x)'
  <2>1. LogOK(x)
    BY <1>2
  <2>2. CASE x = o
    BY <1>1, <1>4, <1>5, <2>1, <2>2 DEF LogOK, OnItsWay
  <2>3. CASE x # o
    <3>1. opStatus'[x] = opStatus[x] /\ opTask'[x] = opTask[x] /\ opLog'[x] = opLog[x]
      BY <1>1, <1>4, <2>3
    <3>. QED  BY <2>1, <3>1 DEF LogOK
  <2>. QED  BY <2>2, <2>3
<1>8. ViewerOK(c)'
  <2>1. viewer'[c] = v /\ opLog'[o] = opLog[o] /\ opStatus'[o] = "running"
    BY <1>1, <1>4
  <2>2. QueueOK(v, 0)
    <3>1. Len(v.queue) = 0 /\ Shown(v) = 0
      BY <1>3 DEF Shown
    <3>. QED  BY <1>3, <3>1, RuntimeAssumption DEF QueueOK
  <2>3. QueueOK(viewer[c], Len(opLog[viewer[c].op]))'
    <3>1. (Len(opLog[viewer[c].op]))' = 0
      BY <1>3, <1>4, <1>5, <2>1
    <3>. QED  BY <2>1, <2>2, <3>1 DEF QueueOK, Shown
  <2>. QED  BY <1>3, <2>1, <2>3 DEF ViewerOK
<1>9. ASSUME NEW d \in Client, d # c PROVE ViewerOK(d)'
  <2>1. viewer'[d] = viewer[d] /\ opLog' = opLog /\ ViewerOK(d)
    BY <1>1, <1>2, <1>4, <1>9
  <2>2. viewer[d].mode \in {"replay", "live", "ended"} => opStatus'[viewer[d].op] = opStatus[viewer[d].op]
    BY <1>1, <1>4, <2>1 DEF ViewerOK
  <2>. QED  BY <2>1, <2>2 DEF ViewerOK, QueueOK, Shown
<1>. QED  BY <1>6, <1>7, <1>8, <1>9 DEF OpsInv

\* The coroutine's steps: each emits events after the log, or none.
LEMMA RunKeeps ==
    ASSUME OpsInv, NEW o \in Operation, RunOperation(o) \/ ToolRaises(o)
    PROVE  OpsInv'
<1>1. /\ opStatus \in [Operation -> {"none", "running", "completed"}]
      /\ opTask \in [Operation -> TaskState] /\ opLog \in [Operation -> Seq(Event)]
      /\ viewer \in [Client -> Viewer]
  BY DEF OpsInv, OpsTypeOK
<1>2. /\ \A x \in Operation : LogOK(x)
      /\ \A d \in Client : ViewerOK(d)
  BY DEF OpsInv
<1>3. opTask[o] \in OnItsWay
  BY DEF RunOperation, AskClarification, Plan, StartTool, EndTool, EndApprovalTool, ToolRaises,
     BeginAnswer, EmitChunk, Complete, OnItsWay
<1>4. opStatus[o] = "running" /\ opStatus = [opStatus EXCEPT ![o] = "running"]
  <2>1. LogOK(o)
    BY <1>2
  <2>. QED  BY <1>1, <1>3, <2>1 DEF LogOK
<1>7. ASSUME NEW e \in Event \ {"done"}, NEW tk \in TaskState, Emit(o, <<e>>),
             opStatus' = opStatus, opTask' = [opTask EXCEPT ![o] = tk]
      PROVE  OpsInv'
  <2>1. PICK s : s = <<e>>
    OBVIOUS
  <2>2. s \in Seq(Event) /\ Len(s) = 1 /\ s[1] # "done"
    BY <2>1
  <2>3. /\ Len(s) > 0 /\ ("running" = "completed" <=> s[Len(s)] = "done")
        /\ \A i \in 1 .. Len(s) : s[i] = "done" => i = Len(s)
    BY <2>2
  <2>4. Emit(o, s) /\ opStatus' = [opStatus EXCEPT ![o] = "running"]
    BY <1>4, <1>7, <2>1
  <2>. QED  BY <1>3, <1>7, <2>2, <2>3, <2>4, EmitKeeps, Zenon
<1>8. ASSUME NEW e \in Event \ {"done"}, NEW f \in Event, NEW st \in {"running", "completed"},
             st = "completed" <=> f = "done", NEW tk \in TaskState, tk \in OnItsWay => st = "running",
             Emit(o, <<e, f>>), opStatus' = [opStatus EXCEPT ![o] = st],
             opTask' = [opTask EXCEPT ![o] = tk]
      PROVE  OpsInv'
  <2>1. PICK s : s = <<e, f>>
    OBVIOUS
  <2>2. s \in Seq(Event) /\ Len(s) = 2 /\ s[1] # "done" /\ s[2] = f
    BY <2>1
  <2>3. /\ Len(s) > 0 /\ (st = "completed" <=> s[Len(s)] = "done")
        /\ \A i \in 1 .. Len(s) : s[i] = "done" => i = Len(s)
    BY <1>8, <2>2
  <2>4. Emit(o, s)
    BY <1>8, <2>1
  <2>. QED  BY <1>3, <1>8, <2>2, <2>3, <2>4, EmitKeeps, Zenon
<1>9. /\ {"message", "operation", "tool", "pending", "chunk"} = Event \ {"done"}
      /\ {"interpret", "tools", "handler", "answer", "done", "dead"} \subseteq TaskState
  BY DEF Event, TaskState
<1>10. CASE AskClarification(o)
  <2>1. \E tk \in {"done", "dead"} : opTask' = [opTask EXCEPT ![o] = tk]
    BY <1>10 DEF AskClarification
  <2>2. Emit(o, <<"message">>) /\ opStatus' = opStatus
    BY <1>10 DEF AskClarification
  <2>. QED  BY <1>7, <1>9, <2>1, <2>2
<1>11. CASE Plan(o)
  <2>1. Emit(o, <<"operation">>) /\ opStatus' = opStatus /\ opTask' = [opTask EXCEPT ![o] = "tools"]
    BY <1>11 DEF Plan
  <2>. QED  BY <1>7, <1>9, <2>1
<1>12. CASE StartTool(o)
  <2>1. Emit(o, <<"tool">>) /\ opStatus' = opStatus /\ opTask' = [opTask EXCEPT ![o] = "handler"]
    BY <1>12 DEF StartTool
  <2>. QED  BY <1>7, <1>9, <2>1
<1>13. CASE EndTool(o)
  <2>1. opStatus' = opStatus /\ opTask' = [opTask EXCEPT ![o] = "tools"]
    BY <1>13 DEF EndTool
  <2>2. Emit(o, <<"tool">>) \/ Emit(o, <<"tool", "pending">>)
    <3>1. \E b \in BOOLEAN : Emit(o, IF b THEN <<"tool", "pending">> ELSE <<"tool">>)
      <4>1. PICK told : /\ told \in {<<"tool">>, <<"tool", "pending">>} /\ Emit(o, told)
        BY <1>13 DEF EndTool
      <4>. QED  BY <4>1
    <3>. QED  BY <3>1
  <2>. QED  BY <1>4, <1>7, <1>8, <1>9, <2>1, <2>2
<1>14. CASE EndApprovalTool(o)
  <2>1. /\ opStatus' = opStatus
        /\ \/ Emit(o, <<"tool", "pending">>) /\ opTask' = [opTask EXCEPT ![o] = "tools"]
           \/ Emit(o, <<"tool">>) /\ opTask' = [opTask EXCEPT ![o] = "dead"]
    BY <1>14 DEF EndApprovalTool
  <2>. QED  BY <1>4, <1>7, <1>8, <1>9, <2>1
<1>15. CASE EmitChunk(o)
  <2>1. Emit(o, <<"chunk">>) /\ opStatus' = opStatus /\ opTask' = opTask
    BY <1>15 DEF EmitChunk
  <2>2. opTask[o] \in TaskState /\ opTask = [opTask EXCEPT ![o] = opTask[o]]
    BY <1>1
  <2>. QED  BY <1>7, <1>9, <2>1, <2>2
<1>16. CASE Complete(o)
  <2>1. /\ Emit(o, <<"message", "done">>) /\ opStatus' = [opStatus EXCEPT ![o] = "completed"]
        /\ opTask' = [opTask EXCEPT ![o] = "done"]
    BY <1>16 DEF Complete
  <2>2. "done" \in TaskState /\ "message" \in Event \ {"done"} /\ "done" \in Event
    BY DEF TaskState, Event
  <2>3. "done" \notin OnItsWay
    BY DEF OnItsWay
  <2>. QED  BY <1>8, <2>1, <2>2, <2>3
<1>17. CASE BeginAnswer(o) \/ ToolRaises(o)
  <2>1. PICK tk \in {"answer", "dead"} : opTask' = [opTask EXCEPT ![o] = tk]
    BY <1>17 DEF BeginAnswer, ToolRaises
  <2>2. opStatus' = opStatus /\ opLog' = opLog /\ viewer' = viewer
    BY <1>17 DEF BeginAnswer, ToolRaises
  <2>3. OpsTypeOK'
    BY <1>1, <2>1, <2>2 DEF OpsTypeOK, TaskState
  <2>4. ASSUME NEW x \in Operation PROVE LogOK(x)'
    <3>1. LogOK(x) /\ (opTask'[x] = opTask[x] \/ x = o)
      BY <1>1, <1>2, <2>1
    <3>. QED  BY <1>4, <2>2, <3>1 DEF LogOK
  <2>5. ASSUME NEW c \in Client PROVE ViewerOK(c)'
    <3>1. ViewerOK(c)
      BY <1>2
    <3>. QED  BY <2>2, <3>1 DEF ViewerOK, QueueOK, Shown
  <2>. QED  BY <2>3, <2>4, <2>5 DEF OpsInv
<1>. QED  BY <1>10, <1>11, <1>12, <1>13, <1>14, <1>15, <1>16, <1>17 DEF RunOperation

\* Streams: a replay is opened and sent, a subscription follows it, a live stream
\* shows the head of its queue, a client leaves.
LEMMA StreamKeeps ==
    ASSUME OpsInv, NEW c \in Client,
           Stream(c) \/ Disconnect(c) \/ \E o \in Operation : OpenReplay(c, o)
    PROVE  OpsInv'
<1>1. /\ opStatus \in [Operation -> {"none", "running", "completed"}]
      /\ opTask \in [Operation -> TaskState] /\ opLog \in [Operation -> Seq(Event)]
      /\ viewer \in [Client -> Viewer]
  BY DEF OpsInv, OpsTypeOK
<1>2. /\ \A x \in Operation : LogOK(x)
      /\ \A d \in Client : ViewerOK(d)
  BY DEF OpsInv
<1>3. opStatus' = opStatus /\ opLog' = opLog
  BY DEF Stream, ReplayEvent, AttachLive, StreamEvent, Disconnect, OpenReplay, opsRest
<1>12. /\ opTask' \in [Operation -> TaskState]
       /\ \A x \in Operation : \/ opTask'[x] = opTask[x]
                               \/ opTask[x] \in OnItsWay /\ opTask'[x] = "cancelled"
  <2>1. \/ opTask' = opTask
        \/ /\ Disconnect(c) /\ opTask[viewer[c].op] \in OnItsWay
           /\ opTask' = [opTask EXCEPT ![viewer[c].op] = "cancelled"]
    BY DEF Stream, ReplayEvent, AttachLive, StreamEvent, Disconnect, OpenReplay, opsRest
  <2>. QED  BY <1>1, <2>1 DEF TaskState
\* It is enough to say of the stream's new record what the invariant says of it.
<1>4. ASSUME NEW w \in Viewer, viewer' = [viewer EXCEPT ![c] = w], ViewerOK(c)'
      PROVE  OpsInv'
  <2>1. OpsTypeOK'
    BY <1>1, <1>3, <1>4, <1>12 DEF OpsTypeOK
  <2>2. ASSUME NEW x \in Operation PROVE LogOK(x)'
    <3>1. LogOK(x)
      BY <1>2
    <3>2. CASE opTask'[x] = opTask[x]
      BY <1>3, <3>1, <3>2 DEF LogOK
    <3>3. CASE opTask[x] \in OnItsWay /\ opTask'[x] = "cancelled"
      BY <1>3, <3>1, <3>3 DEF LogOK, OnItsWay
    <3>. QED  BY <1>12, <3>2, <3>3
  <2>3. ASSUME NEW d \in Client, d # c PROVE ViewerOK(d)'
    <3>1. viewer'[d] = viewer[d] /\ ViewerOK(d)
      BY <1>1, <1>2, <1>4, <2>3
    <3>. QED  BY <1>3, <3>1 DEF ViewerOK, QueueOK, Shown
  <2>. QED  BY <1>4, <2>1, <2>2, <2>3 DEF OpsInv
<1>5. PICK v \in Viewer : v = viewer[c]
  BY <1>1
<1>6. /\ v.last \in Nat /\ v.upto \in Nat /\ v.from \in Nat /\ v.queue \in Seq(Nat)
  BY <1>5 DEF Viewer
<1>7. CASE \E o \in Operation : OpenReplay(c, o)
  <2>1. PICK o \in Operation : OpenReplay(c, o)
    BY <1>7
  <2>2. PICK n \in Nat : n = Len(opLog[o])
    BY <1>1
  <2>3. PICK w : w = [NoViewer EXCEPT !.op = o, !.mode = "replay", !.upto = n]
    OBVIOUS
  <2>4. /\ w \in Viewer /\ w.op = o /\ w.mode = "replay" /\ w.upto = n /\ w.last = 0
        /\ w.queue = <<>> /\ ~w.lossy
    BY <2>3, NoViewerOK DEF Viewer
  <2>5. c \notin Creator /\ opStatus[o] # "none" /\ viewer' = [viewer EXCEPT ![c] = w]
    BY <2>1, <2>2, <2>3 DEF OpenReplay
  <2>6. viewer'[c] = w
    BY <1>1, <2>5
  <2>7. ViewerOK(c)'
    BY <1>3, <2>2, <2>4, <2>5, <2>6 DEF ViewerOK
  <2>. QED  BY <1>4, <2>4, <2>5, <2>7
<1>8. CASE Disconnect(c)
  <2>1. PICK w : w = [NoViewer EXCEPT !.mode = "gone"]
    OBVIOUS
  <2>2. w \in Viewer /\ w.mode = "gone"
    BY <2>1, NoViewerOK DEF Viewer
  <2>3. viewer' = [viewer EXCEPT ![c] = w]
    BY <1>8, <2>1 DEF Disconnect
  <2>4. ViewerOK(c)'
    <3>1. viewer'[c] = w
      BY <1>1, <2>3
    <3>. QED  BY <2>2, <3>1 DEF ViewerOK
  <2>. QED  BY <1>4, <2>2, <2>3, <2>4
<1>9. CASE ReplayEvent(c)
  <2>1. v.mode = "replay" /\ v.last < v.upto
    BY <1>5, <1>9 DEF ReplayEvent
  <2>2. PICK w : w = [v EXCEPT !.last = v.last + 1]
    OBVIOUS
  <2>3. v.last + 1 \in Nat /\ v.last + 1 <= v.upto
    BY <1>6, <2>1
  <2>4. /\ w \in Viewer /\ w.op = v.op /\ w.mode = "replay" /\ w.upto = v.upto
        /\ w.last = v.last + 1 /\ w.queue = v.queue /\ w.lossy = v.lossy
    BY <2>1, <2>2, <2>3 DEF Viewer
  <2>5. viewer' = [viewer EXCEPT ![c] = w]
    BY <1>1, <1>5, <1>9, <2>2 DEF ReplayEvent
  <2>6. ViewerOK(c)'
    <3>1. viewer'[c] = w /\ ViewerOK(c)
      BY <1>1, <1>2, <2>5
    <3>. QED  BY <1>3, <1>5, <2>1, <2>3, <2>4, <3>1 DEF ViewerOK
  <2>. QED  BY <1>4, <2>4, <2>5, <2>6
<1>10. CASE AttachLive(c)
  <2>1. v.mode = "replay" /\ v.last = v.upto
    BY <1>5, <1>10 DEF AttachLive
  <2>2. /\ c \notin Creator /\ v.op \in Operation /\ opStatus[v.op] # "none"
        /\ v.queue = <<>> /\ ~v.lossy /\ v.upto <= Len(opLog[v.op])
    BY <1>2, <1>5, <2>1 DEF ViewerOK
  <2>3. PICK n \in Nat : n = Len(opLog[v.op])
    BY <1>1, <2>2
  <2>4. PICK m \in {"live", "ended"} : m = IF opStatus[v.op] = "running" THEN "live" ELSE "ended"
    OBVIOUS
  <2>5. PICK w : w = [v EXCEPT !.mode = m, !.from = n + 1]
    OBVIOUS
  <2>6. /\ w \in Viewer /\ w.op = v.op /\ w.mode = m /\ w.upto = v.upto /\ w.last = v.last
        /\ w.from = n + 1 /\ w.queue = <<>> /\ ~w.lossy
    <3>1. n + 1 \in Nat
      OBVIOUS
    <3>. QED  BY <2>2, <2>4, <2>5, <3>1 DEF Viewer
  <2>7. viewer' = [viewer EXCEPT ![c] = w]
    BY <1>1, <1>5, <1>10, <2>3, <2>4, <2>5 DEF AttachLive
  <2>8. viewer'[c] = w /\ Len(opLog'[v.op]) = n
    BY <1>1, <1>3, <2>3, <2>7
  <2>9. QueueOK(w, n)
    <3>1. Shown(w) = n
      <4>1. ~(w.last >= w.from)
        BY <1>6, <2>1, <2>2, <2>3, <2>6
      <4>. QED  BY <2>6, <4>1 DEF Shown
    <3>2. Len(w.queue) = 0
      BY <2>6
    <3>. QED  BY <1>6, <2>1, <2>2, <2>3, <2>6, <3>1, <3>2, RuntimeAssumption DEF QueueOK
  <2>10. QueueOK(viewer[c], Len(opLog[viewer[c].op]))'
    BY <2>6, <2>8, <2>9 DEF QueueOK, Shown
  <2>11. m = "ended" => opStatus[v.op] = "completed"
    BY <1>1, <2>2, <2>4
  <2>12. v.upto < n \/ v.last = n
    BY <1>6, <2>1, <2>2, <2>3
  <2>13. ViewerOK(c)'
    BY <1>3, <2>1, <2>2, <2>4, <2>6, <2>8, <2>10, <2>11, <2>12 DEF ViewerOK
  <2>. QED  BY <1>4, <2>6, <2>7, <2>13
<1>11. CASE StreamEvent(c)
  <2>1. v.mode = "live" /\ v.queue # <<>>
    BY <1>5, <1>11 DEF StreamEvent
  <2>2. v.op \in Operation /\ opStatus[v.op] # "none" /\ QueueOK(v, Len(opLog[v.op])) /\ LogOK(v.op)
    BY <1>2, <1>5, <2>1 DEF ViewerOK
  <2>3. PICK n \in Nat : n = Len(opLog[v.op])
    BY <1>1, <2>2
  <2>4. PICK e : e = v.queue[1]
    OBVIOUS
  <2>5. PICK l \in Nat : l = Len(v.queue)
    BY <1>6
  <2>6. PICK rest : rest = Tail(v.queue)
    OBVIOUS
  <2>7. /\ l > 0 /\ e \in Nat /\ Head(v.queue) = e /\ rest \in Seq(Nat) /\ Len(rest) = l - 1
        /\ l - 1 \in Nat
        /\ \A i \in 1 .. l - 1 : rest[i] = v.queue[i + 1] /\ rest[i] \in Nat /\ i + 1 \in 1 .. l
    <3>1. l > 0 /\ e \in Nat /\ Head(v.queue) = e
      BY <1>6, <2>1, <2>4, <2>5
    <3>2. rest \in Seq(Nat) /\ Len(rest) = l - 1 /\ \A i \in 1 .. Len(rest) : rest[i] = v.queue[i + 1]
      BY <1>6, <2>1, <2>5, <2>6, HeadTailProperties, Zenon
    <3>. QED  BY <3>1, <3>2
  <2>8. v.last < e /\ e <= n /\ l <= QueueCap
    BY <2>2, <2>3, <2>4, <2>5, <2>7 DEF QueueOK
  <2>9. PICK w : w = [v EXCEPT !.queue = IF opLog[v.op][e] = "done" THEN <<>> ELSE rest,
                               !.last = e, !.upto = 0, !.from = 0,
                               !.mode = IF opLog[v.op][e] = "done" THEN "ended" ELSE "live"]
    OBVIOUS
  <2>10. /\ w \in Viewer /\ w.op = v.op /\ w.last = e /\ w.upto = 0 /\ w.from = 0
         /\ w.lossy = v.lossy
         /\ opLog[v.op][e] = "done" => w.mode = "ended"
         /\ opLog[v.op][e] # "done" => w.mode = "live" /\ w.queue = rest
    <3>1. <<>> \in Seq(Nat)
      OBVIOUS
    <3>. QED  BY <2>7, <2>9, <3>1 DEF Viewer
  <2>11. viewer' = [viewer EXCEPT ![c] = w]
    <3>1. viewer[c] = v /\ Head(v.queue) = e /\ Tail(v.queue) = rest
      BY <1>5, <2>6, <2>7
    <3>2. viewer' = [viewer EXCEPT ![c] = [viewer[c] EXCEPT
              !.queue = IF opLog[viewer[c].op][Head(viewer[c].queue)] = "done" THEN <<>>
                        ELSE Tail(viewer[c].queue),
              !.last = Head(viewer[c].queue), !.upto = 0, !.from = 0,
              !.mode = IF opLog[viewer[c].op][Head(viewer[c].queue)] = "done" THEN "ended"
                       ELSE "live"]]
      BY <1>1, <1>11 DEF StreamEvent
    <3>. QED  BY <2>9, <3>1, <3>2
  <2>12. viewer'[c] = w /\ Len(opLog'[v.op]) = n
    BY <1>1, <1>3, <2>3, <2>11
  <2>13. CASE opLog[v.op][e] = "done"
    <3>1. e \in 1 .. n
      BY <1>6, <2>7, <2>8
    <3>2. e = n /\ opStatus[v.op] = "completed"
      <4>1. e = n
        BY <2>2, <2>3, <2>13, <3>1 DEF LogOK
      <4>. QED  BY <2>2, <2>3, <2>13, <3>1, <4>1 DEF LogOK
    <3>3. ViewerOK(c)'
      BY <1>3, <2>2, <2>10, <2>12, <2>13, <3>2 DEF ViewerOK
    <3>. QED  BY <1>4, <2>10, <2>11, <3>3
  <2>14. CASE opLog[v.op][e] # "done"
    <3>1. w.mode = "live" /\ w.queue = rest
      BY <2>10, <2>14
    <3>2. ASSUME NEW i \in 1 .. l - 1 PROVE e < rest[i] /\ rest[i] <= n
      <4>1. i + 1 \in 1 .. l /\ 1 \in 1 .. l /\ 1 < i + 1 /\ rest[i] = v.queue[i + 1]
        BY <2>7
      <4>2. v.queue[1] < v.queue[i + 1] /\ v.queue[i + 1] <= n
        BY <2>2, <2>3, <2>5, <4>1 DEF QueueOK
      <4>. QED  BY <2>4, <4>1, <4>2
    <3>3. ASSUME NEW i \in 1 .. l - 1, NEW j \in 1 .. l - 1, i < j PROVE rest[i] < rest[j]
      <4>1. i + 1 \in 1 .. l /\ j + 1 \in 1 .. l /\ i + 1 < j + 1
        BY <3>3
      <4>2. v.queue[i + 1] < v.queue[j + 1]
        BY <2>2, <2>3, <2>5, <4>1 DEF QueueOK
      <4>. QED  BY <2>7, <4>2
    <3>4. ASSUME ~v.lossy PROVE l - 1 = n - e /\ \A i \in 1 .. l - 1 : rest[i] = e + i
      <4>1. PICK s \in Int : s = Shown(v)
        BY <1>6 DEF Shown
      <4>2. l = n - s /\ \A i \in 1 .. l : v.queue[i] = s + i
        BY <2>2, <2>3, <2>5, <3>4, <4>1 DEF QueueOK
      <4>3. e = s + 1
        BY <2>4, <2>7, <4>2
      <4>4. l - 1 = n - e
        BY <4>2, <4>3
      <4>5. ASSUME NEW i \in 1 .. l - 1 PROVE rest[i] = e + i
        <5>1. rest[i] = s + (i + 1)
          BY <2>7, <4>2
        <5>. QED  BY <4>3, <5>1
      <4>. QED  BY <4>4, <4>5
    <3>5. Shown(w) = e
      BY <2>7, <2>10 DEF Shown
    <3>6. l - 1 <= QueueCap
      BY <2>8, RuntimeAssumption
    <3>7. QueueOK(w, n)
      <4>1. w.last <= n /\ w.from <= n + 1 /\ Len(w.queue) <= QueueCap
        BY <2>7, <2>8, <2>10, <3>1, <3>6
      <4>2. Len(w.queue) = l - 1 /\ w.queue = rest /\ w.last = e /\ w.lossy = v.lossy
        BY <2>7, <2>10, <3>1
      <4>3. /\ \A i \in 1 .. Len(w.queue) : w.last < w.queue[i] /\ w.queue[i] <= n
            /\ \A i, j \in 1 .. Len(w.queue) : i < j => w.queue[i] < w.queue[j]
        BY <3>2, <3>3, <4>2
      <4>4. ~w.lossy => /\ Len(w.queue) = n - Shown(w)
                        /\ \A i \in 1 .. Len(w.queue) : w.queue[i] = Shown(w) + i
        BY <3>4, <3>5, <4>2
      <4>. QED  BY <4>1, <4>3, <4>4 DEF QueueOK
    <3>8. QueueOK(viewer[c], Len(opLog[viewer[c].op]))'
      BY <2>10, <2>12, <3>7 DEF QueueOK, Shown
    <3>9. ViewerOK(c)'
      BY <1>3, <2>2, <2>10, <2>12, <3>1, <3>8 DEF ViewerOK
    <3>. QED  BY <1>4, <2>10, <2>11, <3>9
  <2>. QED  BY <2>13, <2>14
<1>. QED  BY <1>7, <1>8, <1>9, <1>10, <1>11 DEF Stream

LEMMA OpsStep == OpsInv /\ [OpsNext]_opsVars => OpsInv'
<1> SUFFICES ASSUME OpsInv, [OpsNext]_opsVars PROVE OpsInv'
  OBVIOUS
<1>1. CASE \E o \in Operation, c \in Client, r \in Request : CreateOperation(o, c, r)
  BY <1>1, CreateKeeps
<1>2. CASE \E o \in Operation : RunOperation(o) \/ ToolRaises(o)
  BY <1>2, RunKeeps
<1>3. CASE \/ \E c \in Client, o \in Operation : OpenReplay(c, o)
           \/ \E c \in Client : Stream(c) \/ Disconnect(c)
  BY <1>3, StreamKeeps
<1>4. CASE UNCHANGED opsVars
  <2>1. opStatus' = opStatus /\ opTask' = opTask /\ opLog' = opLog /\ viewer' = viewer
    BY <1>4 DEF opsVars
  <2>2. OpsTypeOK'
    BY <2>1 DEF OpsInv, OpsTypeOK
  <2>3. ASSUME NEW o \in Operation PROVE LogOK(o)'
    BY <2>1 DEF OpsInv, LogOK
  <2>4. ASSUME NEW c \in Client PROVE ViewerOK(c)'
    BY <2>1 DEF OpsInv, ViewerOK, QueueOK, Shown
  <2>. QED  BY <2>2, <2>3, <2>4 DEF OpsInv
<1>. QED  BY <1>1, <1>2, <1>3, <1>4 DEF OpsNext

\* What LogOK and ViewerOK give of the streams.
LEMMA OpsGives == OpsInv => EventsAccounted /\ EndsHonestly
<1> SUFFICES ASSUME OpsInv PROVE EventsAccounted /\ EndsHonestly
  OBVIOUS
<1>1. viewer \in [Client -> Viewer] /\ opLog \in [Operation -> Seq(Event)]
      /\ \A c \in Client : ViewerOK(c)
  BY DEF OpsInv, OpsTypeOK
<1>2. ASSUME NEW c \in Client, viewer[c].mode = "live"
      PROVE  LET v == viewer[c]
                 n == Len(opLog[v.op])
                 shown == IF v.last >= v.from THEN v.last ELSE v.from - 1
             IN  /\ c \in Creator => v.from <= 1
                 /\ ~v.lossy => v.queue = [i \in 1 .. n - shown |-> shown + i]
                 /\ Len(v.queue) <= QueueCap
                 /\ \A i, j \in DOMAIN v.queue : i < j => v.last < v.queue[i] /\ v.queue[i] < v.queue[j]
  <2>1. PICK v \in Viewer : v = viewer[c]
    BY <1>1
  <2>2. v.op \in Operation /\ (c \in Creator => v.from <= 1) /\ QueueOK(v, Len(opLog[v.op]))
    BY <1>1, <1>2, <2>1 DEF ViewerOK
  <2>3. PICK n \in Nat : n = Len(opLog[v.op])
    BY <1>1, <2>2
  <2>4. v.queue \in Seq(Nat) /\ v.last \in Nat /\ v.from \in Nat
    BY DEF Viewer
  <2>5. DOMAIN v.queue = 1 .. Len(v.queue) /\ Len(v.queue) \in Nat
    BY <2>4
  <2>6. PICK s \in Int : s = Shown(v)
    BY <2>4 DEF Shown
  <2>7. ASSUME ~v.lossy PROVE v.queue = [i \in 1 .. n - s |-> s + i]
    <3>1. Len(v.queue) = n - s /\ \A i \in 1 .. Len(v.queue) : v.queue[i] = s + i
      BY <2>2, <2>3, <2>6, <2>7 DEF QueueOK
    <3>2. v.queue = [i \in 1 .. Len(v.queue) |-> v.queue[i]]
      BY <2>4
    <3>3. [i \in 1 .. Len(v.queue) |-> v.queue[i]] = [i \in 1 .. Len(v.queue) |-> s + i]
      BY <3>1, Zenon
    <3>. QED  BY <3>1, <3>2, <3>3
  <2>8. /\ Len(v.queue) <= QueueCap
        /\ \A i, j \in DOMAIN v.queue : i < j => v.last < v.queue[i] /\ v.queue[i] < v.queue[j]
    BY <2>2, <2>3, <2>5 DEF QueueOK
  <2>. QED  BY <2>1, <2>2, <2>3, <2>6, <2>7, <2>8 DEF Shown
<1>3. EventsAccounted
  BY <1>2 DEF EventsAccounted
<1>4. EndsHonestly
  BY <1>1 DEF EndsHonestly, ViewerOK
<1>. QED  BY <1>3, <1>4

\* run_operation, the store's queues and stream_replay_and_live only ever leave
\* statuses, coroutines, logs and streams of these shapes.
THEOREM OpsTypeCorrect == OpsSpec => []OpsTypeOK
<1>1. OpsInv => OpsTypeOK
  BY DEF OpsInv
<1>. QED  BY <1>1, OpsInitOK, OpsStep, PTL DEF OpsSpec

\* A live stream whose queue never overflowed has shown and holds every event of
\* its operation since it subscribed, in order and none twice; one that overflowed
\* still holds the rest in order.
THEOREM EventsAccountedHolds == OpsSpec => []EventsAccounted
  BY OpsInitOK, OpsStep, OpsGives, PTL DEF OpsSpec

\* A stream that ends by itself has shown `done', the last event of the log,
\* unless the operation ended between its replay and its subscription.
THEOREM EndsHonestlyHolds == OpsSpec => []EndsHonestly
  BY OpsInitOK, OpsStep, OpsGives, PTL DEF OpsSpec
=============================================================================
