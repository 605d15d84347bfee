--------------------------- MODULE StorePublishing ---------------------------
(***************************************************************************)
(* Store automation and the publication of scheduled posts: the HTTP       *)
(* handlers over the documents of one workspace, and the browser tabs that *)
(* sweep the calendar for posts that are due.                              *)
(*                                                                         *)
(* A handler's session reads a snapshot (REPEATABLE READ, taken when it    *)
(* looks the user up) and commits whole payloads computed from it, in one  *)
(* transaction: a request is a Begin and a Finish, and between the two any *)
(* other request may commit.  claim-publish alone locks the row it reads.  *)
(***************************************************************************)
EXTENDS Naturals, FiniteSets

CONSTANTS
    Store,      \* stores that may be created
    Flow,       \* ids of workflows; a workflow and its scheduled post are one id
    Manual,     \* ids of posts the operator plans by hand
    User,       \* requests of operators that may be open at once
    Tab,        \* browser tabs that sweep the calendar
    MaxCalls    \* requests of operators in one behaviour

ASSUME SocialAssumption ==
    User \cap Tab = {} /\ Flow \cap Manual = {} /\ IsFiniteSet(Tab)

Post == Flow \cup Manual
Caller == User \cup Tab

VARIABLES
    db,         \* the documents: .store, .flow, .owner (of a workflow), .post
    call,       \* the request a caller has open, with its snapshot
    tab,        \* what a tab is doing with which post
    calls,      \* requests of operators so far
    sent,       \* deliveries of each post
    armed,      \* times a request put the post back to pending by name
    revived,    \* times a request put it back to pending out of its snapshot
    lost        \* documents some commit overwrote without having read them

socialVars == <<db, call, tab, calls, sent, armed, revived, lost>>

NoCall == [kind |-> "none"]
Idle   == [at |-> "idle"]
Ended  == {"cancelled", "published"}

\* The row of a post exists.
IsRow(d, p) == d.post[p].pub \notin {"none", "deleted"}

FlowsOf(d, s)  == {w \in Flow : d.flow[w] # "none" /\ d.owner[w] = s}
ActiveOf(d, s) == {w \in FlowsOf(d, s) : d.flow[w] = "scheduled"}

SocialInit ==
    /\ db = [store |-> [s \in Store |-> "none"],
             flow  |-> [w \in Flow |-> "none"],
             owner |-> [w \in Flow |-> "none"],
             post  |-> [p \in Post |-> [pub |-> "none", appr |-> "none"]]]
    /\ call = [c \in Caller |-> NoCall]
    /\ tab = [t \in Tab |-> Idle]
    /\ calls = 0 /\ lost = {}
    /\ sent = [p \in Post |-> 0] /\ armed = sent /\ revived = sent

(***************************************************************************)
(* What a handler commits, computed from its snapshot s: the rows written  *)
(* and the documents they are written with.  A handler that refuses or has *)
(* nothing to do writes no row.                                            *)
(***************************************************************************)
Writes(rows, docs) == [rows |-> rows, docs |-> docs]
Nothing(s) == Writes({}, s)

WithPayload(s, ps, payload) ==
    [s EXCEPT !.post = [p \in DOMAIN @ |-> IF p \in ps THEN payload ELSE @[p]]]

Cancelled(s, ws, ps) ==
    [WithPayload(s, ps, [pub |-> "failed", appr |-> "rejected"]) EXCEPT
        !.flow = [w \in Flow |-> IF w \in ws THEN "cancelled" ELSE @[w]]]

Rows(ws, ps) == ({"flow"} \X ws) \cup ({"post"} \X ps)

NewFlow(s, st, w) ==
    Writes({<<"store", st>>} \cup Rows({w}, {w}),
           [WithPayload(s, {w}, [pub |-> "pending", appr |-> "approved"])
               EXCEPT !.store[st] = "approved", !.flow[w] = "scheduled",
                      !.owner[w] = st])

\* Slip: the handler does not look for a workflow that is still active.
ApproveUnchecked(s, st, w) == IF s.store[st] = "none" THEN Nothing(s) ELSE NewFlow(s, st, w)

ApproveStore(s, st, w) ==
    IF s.store[st] = "none" \/ ActiveOf(s, st) # {} THEN Nothing(s)
    ELSE NewFlow(s, st, w)

RejectStore(s, st) ==
    LET ws == ActiveOf(s, st)
        ps == {w \in ws : IsRow(s, w) /\ s.post[w].pub # "published"}
    IN  IF s.store[st] = "none" THEN Nothing(s)
        ELSE Writes({<<"store", st>>} \cup Rows(ws, ps),
                    [Cancelled(s, ws, ps) EXCEPT !.store[st] = "rejected"])

Dispatch(s, w, due) ==
    IF s.flow[w] \in Ended \cup {"none"} THEN Nothing(s)
    ELSE IF s.store[s.owner[w]] = "rejected"
         THEN LET ps == {p \in {w} : IsRow(s, p)}
              IN  Writes(Rows({w}, ps), Cancelled(s, {w}, ps))
    ELSE IF due /\ IsRow(s, w)
         THEN Writes(Rows({w}, {w}),
                     [s EXCEPT !.flow[w] = "published", !.post[w].pub = "published"])
    ELSE Nothing(s)

\* A patch merges the fields it names into the payload it read.
Patches ==
    [media      |-> {<<>>},
     reject     |-> {[appr |-> "rejected"]},
     approve    |-> {[pub |-> "pending", appr |-> "approved"]},
     move       |-> {[pub |-> "pending"]},
     edit       |-> [pub : {"pending"}, appr : {"pending", "approved"}],
     publishing |-> {[pub |-> "publishing"]},
     published  |-> {[pub |-> "published"]},
     failed     |-> {[pub |-> "failed"]}]

Patched(payload, patch) ==
    [f \in DOMAIN payload |-> IF f \in DOMAIN patch THEN patch[f] ELSE payload[f]]

PatchPost(s, p, patch) ==
    IF ~IsRow(s, p) THEN Nothing(s)
    ELSE Writes({<<"post", p>>}, WithPayload(s, {p}, Patched(s.post[p], patch)))

(***************************************************************************)
(* Requests                                                                *)
(***************************************************************************)
\* A patch reads its post, the handlers of store automation every row they
\* look at.
Snapshot(what, on) == IF what = "patch" THEN [post |-> [p \in {on} |-> db.post[p]]] ELSE db

Open(c, what, on, patch) ==
    /\ call[c] = NoCall
    /\ call' = [call EXCEPT ![c] = [kind |-> what, on |-> on, patch |-> patch,
                                    snap |-> Snapshot(what, on), late |-> {}]]

\* Every open request has now read something older than these rows.
Overtake(calling, rows) ==
    [c \in Caller |->
        IF calling[c] = NoCall THEN NoCall
        ELSE [calling[c] EXCEPT !.late = @ \cup
                IF calling[c].kind = "patch"
                THEN rows \cap {<<"post", calling[c].on>>} ELSE rows]]

\* An update of a row that was deleted meanwhile fails the transaction.
RowGone(c, rows) ==
    \E p \in Post : <<"post", p>> \in rows /\ IsRow(call[c].snap, p) /\ ~IsRow(db, p)

Overlay(rows, docs) ==
    [store |-> [s \in Store |-> IF <<"store", s>> \in rows THEN docs.store[s] ELSE db.store[s]],
     flow  |-> [w \in Flow |-> IF <<"flow", w>> \in rows THEN docs.flow[w] ELSE db.flow[w]],
     owner |-> [w \in Flow |-> IF <<"flow", w>> \in rows THEN docs.owner[w] ELSE db.owner[w]],
     post  |-> [p \in Post |-> IF <<"post", p>> \in rows THEN docs.post[p] ELSE db.post[p]]]

\* What the commit of c counts as: re-armed by name, or out of the snapshot.
Arms(c, p) == call[c].kind # "patch" \/ "pub" \in DOMAIN call[c].patch

Commit(c, wr) ==
    LET rows == IF RowGone(c, wr.rows) THEN {} ELSE wr.rows
        Pending(p) == <<"post", p>> \in rows /\ wr.docs.post[p].pub = "pending"
    IN  /\ db' = Overlay(rows, wr.docs)
        /\ lost' = lost \cup (rows \cap call[c].late)
        /\ call' = Overtake([call EXCEPT ![c] = NoCall], rows)
        /\ armed' = [p \in Post |-> IF Pending(p) /\ Arms(c, p) THEN armed[p] + 1 ELSE armed[p]]
        /\ revived' = [p \in Post |->
              IF Pending(p) /\ ~Arms(c, p) /\ db.post[p].pub # "pending"
              THEN revived[p] + 1 ELSE revived[p]]

Answer(c) ==
    LET q == call[c] IN
    CASE q.kind = "approve"  -> \/ \E w \in Flow : db.flow[w] = "none"
                                     /\ Commit(c, ApproveStore(q.snap, q.on, w))
                                \/ Commit(c, Nothing(q.snap))   \* no caption or image
      [] q.kind = "reject"   -> Commit(c, RejectStore(q.snap, q.on))
      [] q.kind = "dispatch" -> \E due \in BOOLEAN : Commit(c, Dispatch(q.snap, q.on, due))
      [] q.kind = "patch"    -> Commit(c, PatchPost(q.snap, q.on, q.patch))

OperatorMayCall == calls < MaxCalls /\ calls' = calls + 1

\* An operator sends a request that reads before it writes; approving needs a
\* workflow id of the bound that no open approval may take.
Ask(u) ==
    /\ OperatorMayCall
    /\ \/ \E s \in Store :
            /\ db.store[s] # "none"
            /\ \/ /\ Cardinality({w \in Flow : db.flow[w] = "none"})
                       > Cardinality({v \in User : call[v] # NoCall /\ call[v].kind = "approve"})
                  /\ Open(u, "approve", s, <<>>)
               \/ Open(u, "reject", s, <<>>)
       \/ \E w \in Flow : db.flow[w] # "none" /\ Open(u, "dispatch", w, <<>>)
       \/ \E p \in Post : /\ IsRow(db, p)
                          /\ \E kind \in {"media", "reject", "approve", "move", "edit"} :
                                \E patch \in Patches[kind] : Open(u, "patch", p, patch)
    /\ UNCHANGED <<db, tab, sent, armed, revived, lost>>

Finish(u) ==
    /\ call[u] # NoCall
    /\ Answer(u)
    /\ UNCHANGED <<tab, calls, sent>>

\* Requests whose write does not depend on what they read: a new store, a post
\* planned by hand, the deletion of a post.
WriteNow(docs, row, arms) ==
    /\ OperatorMayCall
    /\ db' = docs
    /\ call' = Overtake(call, {row})
    /\ armed' = [p \in Post |-> IF p \in arms THEN armed[p] + 1 ELSE armed[p]]
    /\ UNCHANGED <<tab, sent, revived, lost>>

CreateStore(s) ==
    /\ db.store[s] = "none"
    /\ WriteNow([db EXCEPT !.store[s] = "pending_approval"], <<"store", s>>, {})

PlanPost(p) ==
    /\ p \in Manual /\ db.post[p].pub = "none"
    /\ \E payload \in Patches.edit :
          WriteNow([db EXCEPT !.post[p] = payload], <<"post", p>>, {p})

DeletePost(p) ==
    /\ IsRow(db, p)
    /\ WriteNow([db EXCEPT !.post[p].pub = "deleted"], <<"post", p>>, {})

(***************************************************************************)
(* A tab sweeps its copy of the calendar                                   *)
(***************************************************************************)
SetTab(t, at) == tab' = [tab EXCEPT ![t].at = at]
Leave(t)      == tab' = [tab EXCEPT ![t] = Idle]

\* The copy shows a post that is due, approved and not yet published.
Look(t, p) ==
    /\ tab[t] = Idle /\ call[t] = NoCall
    /\ IsRow(db, p) /\ db.post[p] = [pub |-> "pending", appr |-> "approved"]
    /\ tab' = [tab EXCEPT ![t] = [at |-> "due", post |-> p]]
    /\ UNCHANGED <<db, call, calls, sent, armed, revived, lost>>

\* Slip: the claim looks for a published post only.
ClaimPublished(p) == IsRow(db, p) /\ db.post[p].pub # "published"

MayClaim(p) == IsRow(db, p) /\ db.post[p].pub \notin {"published", "publishing", "failed"}

Claim(t) ==
    /\ tab[t].at = "due"
    /\ LET p == tab[t].post IN
       IF MayClaim(p)
       THEN /\ db' = [db EXCEPT !.post[p].pub = "publishing"]
            /\ call' = Overtake(call, {<<"post", p>>})
            /\ SetTab(t, "claimed")
       ELSE Leave(t) /\ UNCHANGED <<db, call>>
    /\ UNCHANGED <<calls, sent, armed, revived, lost>>

\* The tab patches the post; after the claim it goes on when the answer is
\* there, after the delivery there is nothing left to do.
TabPatches == [claimed |-> "publishing", delivered |-> "published", refused |-> "failed"]

TabPatch(t) ==
    /\ tab[t].at \in DOMAIN TabPatches
    /\ \E patch \in Patches[TabPatches[tab[t].at]] :
          Open(t, "patch", tab[t].post, patch)
    /\ IF tab[t].at = "claimed" THEN SetTab(t, "marking") ELSE Leave(t)
    /\ UNCHANGED <<db, calls, sent, armed, revived, lost>>

TabAnswer(t) ==
    /\ call[t] # NoCall
    /\ LET wr == PatchPost(call[t].snap, call[t].on, call[t].patch)
           fails == wr.rows = {} \/ RowGone(t, wr.rows)
       IN  /\ Commit(t, wr)
           /\ IF tab[t].at = "marking" /\ ~fails THEN SetTab(t, "posting") ELSE Leave(t)
    /\ UNCHANGED <<calls, sent>>

\* Slip: an answer that cannot be read is taken for a success.
DeliverBlind(t) ==
    /\ tab[t].at = "posting"
    /\ \E delivered \in BOOLEAN :
          sent' = [sent EXCEPT ![tab[t].post] = IF delivered THEN @ + 1 ELSE @]
    /\ SetTab(t, "delivered")
    /\ UNCHANGED <<db, call, calls, armed, revived, lost>>

\* POST /post: the post reaches the network or not; the answer says so, cannot
\* be read (the tab then marks a failure), or never comes (it marks nothing).
Deliver(t) ==
    /\ tab[t].at = "posting"
    /\ \E delivered \in BOOLEAN :
          /\ sent' = [sent EXCEPT ![tab[t].post] = IF delivered THEN @ + 1 ELSE @]
          /\ \/ SetTab(t, IF delivered THEN "delivered" ELSE "refused")
             \/ SetTab(t, "refused")
             \/ Leave(t)
    /\ UNCHANGED <<db, call, calls, armed, revived, lost>>

\* The tab is closed; a request it has sent is served all the same.
CloseTab(t) ==
    /\ tab[t] # Idle
    /\ Leave(t)
    /\ UNCHANGED <<db, call, calls, sent, armed, revived, lost>>

SocialNext ==
    \/ \E u \in User : Ask(u) \/ Finish(u)
    \/ \E s \in Store : CreateStore(s)
    \/ \E p \in Post : PlanPost(p) \/ DeletePost(p)
    \/ \E t \in Tab : \/ \E p \in Post : Look(t, p)
                      \/ Claim(t) \/ TabPatch(t) \/ TabAnswer(t)
                      \/ Deliver(t) \/ CloseTab(t)

SocialSpec == SocialInit /\ [][SocialNext]_socialVars

(***************************************************************************)
(* Properties                                                              *)
(***************************************************************************)
\* As long as no commit overwrote a store's document that it had not read, the
\* store has at most one active workflow, and none once it is rejected, whatever
\* happened to the documents of its workflows.
StoresConsistent ==
    \A s \in Store : <<"store", s>> \notin lost =>
        /\ Cardinality(ActiveOf(db, s)) <= 1
        /\ db.store[s] = "rejected" => ActiveOf(db, s) = {}

\* However many tabs sweep, a post is delivered once for every time it was put
\* back to pending: by name, or by a patch that wrote an older payload back.
SentOncePerArming == \A p \in Post : sent[p] <= armed[p] + revived[p]

\* As long as no commit overwrote it unread, a post shown as published was
\* delivered, or its workflow was dispatched.
PublishedWasSent ==
    \A p \in Post : db.post[p].pub = "published" /\ <<"post", p>> \notin lost =>
        sent[p] > 0 \/ (p \in Flow /\ db.flow[p] = "published")

=============================================================================
