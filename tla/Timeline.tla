------------------------------ MODULE Timeline ------------------------------
(***************************************************************************)
(* The shop's timeline and the listener that follows it.  An operation of  *)
(* the shop commits its rows and then emits its events, each in a          *)
(* transaction of its own, from the API's process or the simulator's.  The *)
(* listener takes the events past its cursor in order: it copies the row   *)
(* an event is about, runs the rules that match it and perhaps the         *)
(* planner, marks the event and moves the cursor, whatever went wrong: a   *)
(* listener interrupted from its terminal moves it too, one killed not.    *)
(***************************************************************************)
EXTENDS Naturals, Sequences, Functions

CONSTANTS
    Item, Order,  \* rows of the shop the listener keeps a copy of
    Remark,       \* rows it does not copy: reviews, questions, campaigns
    Writer,       \* operations of the shop under way at once
    Structured,   \* structured rules that match an event, first in its duties
    Duties,       \* those, the DSL rules that match it, and the planner
    MaxChanges,   \* bound: rows written by the shop
    MaxEchoes,    \* bound: events emitted by tools
    MaxCutOffs    \* bound: times the work on an event is cut off or interrupted

ASSUME TimelineAssumption ==
    Structured \in Nat /\ Duties \in Nat /\ Structured <= Duties

Copied == Item \cup Order
Thing  == Copied \cup Remark
Echo   == "echo"
ASSUME EchoAssumption == Echo \notin Thing

VARIABLES
    shop,         \* version of each row of the shop, 0 before it exists
    writer,       \* events each operation has still to emit
    timeline,     \* events: the row and the version they tell of
    cursor,       \* last_cursor of the listener
    copy,         \* version of each row the listener has
    listener,     \* what the listener is at: event, duty, row
    work,         \* the event after the cursor: its mark, and as ghosts its duties
                  \*   tried, structured rules passed over, error not recorded,
                  \*   interrupted, times cut off; a mark behind the cursor is not
                  \*   read again
    cutOffs,      \* times the work on an event was cut off or interrupted
    missed        \* ghost: rows whose version is never told of, or to no avail

timelineVars == <<shop, writer, timeline, cursor, copy, listener, work, cutOffs, missed>>
shopSide     == <<shop, writer>>
listenerSide == <<cursor, copy, listener, work, cutOffs>>

Event   == DOMAIN timeline
Resting == [at |-> "poll", event |-> 0, duty |-> 0, got |-> 0]

Tell(s, version) == [about |-> s, version |-> version]
Latest(told)     == told.about \in Copied /\ told.version = shop[told.about]

NoWork == [mark |-> "pending", tried |-> [d \in 1 .. Duties |-> 0], passedOver |-> FALSE, unrecorded |-> FALSE,
           interrupted |-> FALSE, cut |-> 0]

TimelineInit ==
    /\ shop = [s \in Thing |-> 0] /\ copy = [s \in Copied |-> 0] /\ missed = {}
    /\ writer = [w \in Writer |-> <<>>]
    /\ timeline = <<>> /\ cursor = 0 /\ listener = Resting
    /\ work = NoWork /\ cutOffs = 0

(***************************************************************************)
(* The shop                                                                *)
(***************************************************************************)
\* A new order changes its item's row as well; a delay, the order's alone.
Operation ==
    {<<s>> : s \in Item \cup Remark \cup {o \in Order : shop[o] > 0}}
    \cup {<<o, i>> : o \in {o \in Order : shop[o] = 0}, i \in {i \in Item : shop[i] > 0}}

\* How much was written and how often tools spoke, for the bounds.
Changes == FoldFunction(+, 0, shop)
Echoes  == Len(SelectSeq(timeline, LAMBDA e : e.about = Echo))

Write(w, op, told) ==
    /\ writer[w] = <<>> /\ Changes + Len(op) <= MaxChanges
    /\ shop' = [s \in Thing |-> IF s \in Range(op) THEN shop[s] + 1 ELSE shop[s]]
    /\ writer' = [writer EXCEPT ![w] = [n \in 1 .. told |-> Tell(op[n], shop'[op[n]])]]
    /\ missed' = missed \ Range(op)
    /\ UNCHANGED <<timeline, listenerSide>>

\* Slip: an order's event is emitted, its item's is forgotten.
ChangeTellingOne(w) == \E op \in Operation : Write(w, op, 1)

\* The rows of an operation, in one transaction.
Change(w) == \E op \in Operation : Write(w, op, Len(op))

\* emit_timeline_event: SQLite's writers follow one another, so that an event's
\* number never appears after a greater one.
Emit(w) ==
    /\ writer[w] # <<>>
    /\ timeline' = Append(timeline, Head(writer[w]))
    /\ writer' = [writer EXCEPT ![w] = Tail(@)]
    /\ UNCHANGED <<shop, listenerSide, missed>>

\* The process dies, or the emit is refused: the rest is never told.
WriterDies(w) ==
    /\ writer[w] # <<>>
    /\ missed' = missed \cup {told.about : told \in {t \in Range(writer[w]) : Latest(t)}}
    /\ writer' = [writer EXCEPT ![w] = <<>>]
    /\ UNCHANGED <<shop, timeline, listenerSide>>

\* A tool tells of itself, in an event about nothing.
EmitToolEvent ==
    /\ Echoes < MaxEchoes
    /\ timeline' = Append(timeline, Tell(Echo, 0))
    /\ UNCHANGED <<shopSide, listenerSide, missed>>

(***************************************************************************)
(* The listener                                                            *)
(***************************************************************************)
This       == timeline[listener.event]
GoOn(at)   == listener' = [listener EXCEPT !.at = at]
SetMark(m) == work' = [work EXCEPT !.mark = m]

\* What an event asks for first: nothing, if a tool emitted it.
FirstStep(e) ==
    CASE timeline[e].about = Echo      -> "marking"
      [] timeline[e].about \in Copied  -> "fetching"
      [] OTHER                         -> "duties"

\* A batch holds what follows the cursor; reading it one event at a time is the
\* same, as what the listener reads of an event never changes.
PollTimeline ==
    /\ listener.at = "poll" /\ cursor < Len(timeline)
    /\ listener' = [Resting EXCEPT !.at = FirstStep(cursor + 1), !.event = cursor + 1, !.duty = 1]
    /\ UNCHANGED <<shopSide, timeline, cursor, copy, work, cutOffs, missed>>

Fetch ==
    /\ listener.at = "fetching"
    /\ listener' = [listener EXCEPT !.at = "copying", !.got = shop[This.about]]
    /\ UNCHANGED <<shopSide, timeline, cursor, copy, work, cutOffs, missed>>

\* upsert_store, upsert_item, upsert_order replace the row of the copy.
Upsert ==
    /\ listener.at = "copying"
    /\ copy' = [copy EXCEPT ![This.about] = listener.got]
    /\ GoOn("duties")
    /\ UNCHANGED <<shopSide, timeline, cursor, work, cutOffs, missed>>

AfterDuty == [listener EXCEPT !.duty = @ + 1, !.at = IF listener.duty = Duties THEN "marking" ELSE @]

\* A rule's actions, or the planner.  What a structured rule raises ends that
\* rule alone, what the others raise ends the event.
TryDuty ==
    /\ listener.at = "duties" /\ listener.duty <= Duties
    /\ work' = [work EXCEPT !.tried[listener.duty] = @ + 1]
    /\ \/ listener' = AfterDuty
       \/ listener.duty > Structured /\ GoOn("recording")
    /\ UNCHANGED <<shopSide, timeline, cursor, copy, cutOffs, missed>>

\* The structured rules cannot be read: the event goes on without them.
PassOver ==
    /\ listener.at = "duties" /\ listener.duty = 1 /\ Structured > 0
    /\ work' = [work EXCEPT !.passedOver = TRUE]
    /\ listener' = [listener EXCEPT !.duty = Structured + 1,
                                    !.at = IF Structured = Duties THEN "marking" ELSE @]
    /\ UNCHANGED <<shopSide, timeline, cursor, copy, cutOffs, missed>>

\* The work on an event ends where it is; a row not copied yet stays as it is.
BreakOff(next) ==
    /\ GoOn(next)
    /\ missed' = IF listener.at \in {"fetching", "copying"} /\ Latest(This)
                 THEN missed \cup {This.about} ELSE missed
    /\ UNCHANGED <<shopSide, timeline, cursor, copy>>

\* Any other exception of process_event, its last write included.
Raise ==
    /\ listener.at \in {"fetching", "copying", "duties", "marking"}
    /\ BreakOff("recording")
    /\ UNCHANGED <<work, cutOffs>>

\* A KeyboardInterrupt is no Exception: nothing is recorded, the finally moves the
\* cursor, and the listener stops.  The next one starts behind the event.
Interrupted ==
    /\ listener.at \in {"fetching", "copying", "duties", "marking", "recording"}
    /\ cutOffs < MaxCutOffs /\ cutOffs' = cutOffs + 1
    /\ work' = [work EXCEPT !.interrupted = TRUE]
    /\ BreakOff("moving")

Mark ==
    /\ listener.at = "marking"
    /\ SetMark("processed") /\ GoOn("moving")
    /\ UNCHANGED <<shopSide, timeline, cursor, copy, cutOffs, missed>>

\* The error is recorded, or that write is refused too: the cursor moves anyway.
RecordError ==
    /\ listener.at = "recording"
    /\ SetMark("error") \/ work' = [work EXCEPT !.unrecorded = TRUE]
    /\ GoOn("moving")
    /\ UNCHANGED <<shopSide, timeline, cursor, copy, cutOffs, missed>>

MoveTo(number) ==
    /\ listener.at = "moving"
    /\ cursor' = number /\ work' = NoWork
    /\ listener' = Resting
    /\ UNCHANGED <<shopSide, timeline, copy, cutOffs, missed>>

\* Slip: the cursor moves to the end of the batch.
MoveCursorToEnd == MoveTo(Len(timeline))

\* set_cursor, in a finally: an event that raised is left behind like any other.
MoveCursor == MoveTo(listener.event)

\* The listener is killed, or set_cursor is refused and the batch left: the event is
\* taken up once more from its start.
CutOff ==
    /\ listener.at # "poll" /\ cutOffs < MaxCutOffs
    /\ cutOffs' = cutOffs + 1 /\ work' = [work EXCEPT !.cut = @ + 1, !.interrupted = FALSE]
    /\ listener' = Resting
    /\ UNCHANGED <<shopSide, timeline, cursor, copy, missed>>

TimelineNext ==
    \/ \E w \in Writer : Change(w) \/ Emit(w) \/ WriterDies(w)
    \/ EmitToolEvent
    \/ PollTimeline \/ Fetch \/ Upsert \/ TryDuty \/ PassOver \/ Raise \/ Interrupted
    \/ Mark \/ RecordError \/ MoveCursor \/ CutOff

TimelineSpec == TimelineInit /\ [][TimelineNext]_timelineVars

(***************************************************************************)
(* Properties                                                              *)
(***************************************************************************)
\* The listener's copy of a row is the shop's, or the version it lacks is still
\* to be told of, or is told of by an event past the cursor, or was missed: its
\* writer died before the event, or the work on the event ended in an error or an
\* interrupt before the copy.
CopyCatchesUp ==
    \A s \in Copied :
        \/ copy[s] = shop[s] \/ s \in missed
        \/ \E w \in Writer : Tell(s, shop[s]) \in Range(writer[w])
        \/ \E e \in Event : e > cursor /\ timeline[e] = Tell(s, shop[s])

\* The cursor passes an event that had all its duties tried, none more than once
\* for each time the work was begun, or that shows its error, unless the error
\* could not be recorded or the listener was interrupted in it; and one a tool
\* emitted with none of them tried.
TakenUp(e) ==
    LET of == IF e = cursor + 1 THEN work ELSE NoWork IN
    /\ \A d \in 1 .. Duties : of.tried[d] <= IF timeline[e].about = Echo THEN 0 ELSE 1 + of.cut
    /\ \/ of.mark = "error" \/ of.unrecorded \/ of.interrupted
       \/ /\ of.mark = "processed"
          /\ \A d \in 1 .. Duties :
                 of.tried[d] = 0 => timeline[e].about = Echo \/ (of.passedOver /\ d <= Structured)

EventsTakenUp ==
    [][\A e \in Event : cursor < e /\ e <= cursor' => TakenUp(e)]_timelineVars
=============================================================================
