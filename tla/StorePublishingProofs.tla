------------------------- MODULE StorePublishingProofs -------------------------
(***************************************************************************)
(* Theorems about StorePublishing, for stores, workflows, posts, requests  *)
(* and tabs of any number.  The invariant SocialInv says what a request's  *)
(* snapshot still tells of the documents although others commit meanwhile  *)
(* (SnapshotOK, PatchedOK), and counts the posts under way against the     *)
(* times they were armed (ArmedOK).  A commit is one lemma (CommitKeeps):  *)
(* of the rows a handler writes, RowsOK is all it needs, and RowsOK is     *)
(* proved of each handler apart.                                           *)
(***************************************************************************)
EXTENDS StorePublishing, TLAPS, FiniteSetTheorems

StoreState == {"none", "pending_approval", "approved", "rejected"}
FlowState  == {"none", "scheduled", "cancelled", "published"}
PubState   == {"none", "deleted", "pending", "publishing", "published", "failed"}
ApprState  == {"none", "pending", "approved", "rejected"}
Payload    == [pub : PubState, appr : ApprState]
Docs       == [store : [Store -> StoreState], flow : [Flow -> FlowState],
               owner : [Flow -> Store \cup {"none"}], post : [Post -> Payload]]
RowName    == ({"store"} \X Store) \cup ({"flow"} \X Flow) \cup ({"post"} \X Post)

\* A patch names a status of a row that there is, or an approval, or both.
Live       == PubState \ {"none", "deleted"}
PatchOf    == {<<>>} \cup [appr : ApprState] \cup [pub : Live] \cup [pub : Live, appr : ApprState]

StoreCall == [kind : {"approve", "reject"}, on : Store, patch : {<<>>}, snap : Docs,
              late : SUBSET RowName]
FlowCall  == [kind : {"dispatch"}, on : Flow, patch : {<<>>}, snap : Docs,
              late : SUBSET RowName]
FullCall  == StoreCall \cup FlowCall
PatchCall == UNION {[kind : {"patch"}, on : {p}, patch : PatchOf, snap : [post : [{p} -> Payload]],
                     late : SUBSET RowName] : p \in Post}
Calling    == [Caller -> {NoCall} \cup FullCall \cup PatchCall]

AtPost     == {"due", "claimed", "marking", "posting", "delivered", "refused"}
TabState   == {Idle} \cup [at : AtPost, post : Post]

SocialTypeOK ==
    /\ db \in Docs /\ lost \subseteq RowName
    /\ call \in Calling
    /\ \A t \in Tab : call[t] \in {NoCall} \cup PatchCall
    /\ tab \in [Tab -> TabState]
    /\ sent \in [Post -> Nat] /\ armed \in [Post -> Nat] /\ revived \in [Post -> Nat]

\* A workflow and its post come about together.
Paired(d) == \A w \in Flow : d.flow[w] = "none" <=> d.post[w].pub = "none"

\* At most one workflow of a store is active, none of one rejected, as long as its
\* document was never overwritten unread.
StoreOK(s) ==
    <<"store", s>> \notin lost =>
        /\ \A v, w \in ActiveOf(db, s) : v = w
        /\ db.store[s] = "rejected" => ActiveOf(db, s) = {}

\* What is published in d was delivered or dispatched.
SentIn(d) ==
    \A p \in Post : d.post[p].pub = "published" /\ <<"post", p>> \notin lost =>
        sent[p] > 0 \/ (p \in Flow /\ d.flow[p] = "published")

\* What a snapshot d read, with the rows that changed since, says of the documents.
SnapshotOK(d, late) ==
    /\ Paired(d) /\ SentIn(d)
    /\ \A p \in Post : d.post[p].pub = "deleted" => db.post[p].pub = "deleted"
    /\ \A w \in Flow : d.flow[w] # "none" => db.flow[w] # "none" /\ db.owner[w] = d.owner[w]
    /\ \A s \in Store : <<"store", s>> \notin late => ActiveOf(db, s) \subseteq ActiveOf(d, s)

PatchedOK(q) ==
    /\ <<"post", q.on>> \notin q.late => db.post[q.on] = q.snap.post[q.on]
    /\ "pub" \in DOMAIN q.patch /\ q.patch.pub = "published" => sent[q.on] > 0

CallsOK ==
    \A c \in Caller : /\ call[c] \in FullCall => SnapshotOK(call[c].snap, call[c].late)
                      /\ call[c] \in PatchCall => PatchedOK(call[c])

DocsOK == Paired(db) /\ SentIn(db) /\ \A s \in Store : StoreOK(s)

TabsOK == \A t \in Tab : tab[t].at = "delivered" => sent[tab[t].post] > 0

\* The tabs that have claimed a post and not delivered it yet.
Busy(p) == {t \in Tab : tab[t].at \in {"claimed", "marking", "posting"} /\ tab[t].post = p}

\* Each time a post is put back to pending it is pending, or claimed, or delivered once.
Pend(p) == IF db.post[p].pub = "pending" THEN 1 ELSE 0

ArmedOK == \A p \in Post : sent[p] + Cardinality(Busy(p)) + Pend(p) <= armed[p] + revived[p]

SocialInv == SocialTypeOK /\ DocsOK /\ CallsOK /\ TabsOK /\ ArmedOK

\* What the kind of a request says of its fields.
LEMMA FullIs ==
    ASSUME NEW q \in FullCall
    PROVE  /\ q.kind \in {"approve", "reject", "dispatch"} /\ q.snap \in Docs /\ q.late \subseteq RowName
           /\ q.kind \in {"approve", "reject"} => q.on \in Store
           /\ q.kind = "dispatch" => q.on \in Flow
           /\ q # NoCall /\ q \notin PatchCall
<1>1. \/ /\ q.kind \in {"approve", "reject"} /\ q.on \in Store /\ q.snap \in Docs
         /\ q.late \in SUBSET RowName
      \/ q.kind = "dispatch" /\ q.on \in Flow /\ q.snap \in Docs /\ q.late \in SUBSET RowName
  BY DEF FullCall, StoreCall, FlowCall
<1>2. NoCall.kind = "none"
  BY DEF NoCall
<1>3. ASSUME q \in PatchCall PROVE q.kind = "patch"
  <2>1. PICK p \in Post : q \in [kind : {"patch"}, on : {p}, patch : PatchOf,
                                 snap : [post : [{p} -> Payload]], late : SUBSET RowName]
    BY <1>3 DEF PatchCall
  <2>. QED  BY <2>1
<1>. QED  BY <1>1, <1>2, <1>3

\* What a patch under way has read, and of which post.
LEMMA PatchIs ==
    ASSUME NEW q \in PatchCall
    PROVE  /\ q.kind = "patch" /\ q.on \in Post /\ q.patch \in PatchOf /\ q.late \subseteq RowName
           /\ q.snap.post \in [{q.on} -> Payload] /\ q.snap.post[q.on] \in Payload
           /\ q # NoCall /\ q \notin FullCall
<1>1. PICK p \in Post : q \in [kind : {"patch"}, on : {p}, patch : PatchOf,
                               snap : [post : [{p} -> Payload]], late : SUBSET RowName]
  BY DEF PatchCall
<1>2. /\ q.kind = "patch" /\ q.on = p /\ q.patch \in PatchOf /\ q.late \in SUBSET RowName
      /\ q.snap \in [post : [{p} -> Payload]]
  BY <1>1
<1>3. NoCall.kind = "none"
  BY DEF NoCall
<1>4. q \in FullCall => q.kind \in {"approve", "reject", "dispatch"}
  BY FullIs
<1>. QED  BY <1>2, <1>3, <1>4

\* A request that rows have overtaken is what it was but for those.
LEMMA LateIs ==
    ASSUME NEW q \in FullCall \cup PatchCall, NEW R \in SUBSET RowName
    PROVE  LET later == [q EXCEPT !.late = @ \cup R]
           IN  /\ q \in FullCall => later \in FullCall
               /\ q \in PatchCall => later \in PatchCall
               /\ later.kind = q.kind /\ later.on = q.on /\ later.patch = q.patch
               /\ later.snap = q.snap /\ later.late = q.late \cup R
<1> DEFINE later == [q EXCEPT !.late = @ \cup R]
<1>1. CASE q \in StoreCall
  <2>1. q \in FullCall /\ q \notin PatchCall
    BY <1>1, FullIs DEF FullCall
  <2>2. /\ later \in StoreCall /\ later.kind = q.kind /\ later.on = q.on /\ later.patch = q.patch
        /\ later.snap = q.snap /\ later.late = q.late \cup R
    BY <1>1 DEF StoreCall
  <2>. QED  BY <2>1, <2>2 DEF FullCall
<1>2. CASE q \in FlowCall
  <2>1. q \in FullCall /\ q \notin PatchCall
    BY <1>2, FullIs DEF FullCall
  <2>2. /\ later \in FlowCall /\ later.kind = q.kind /\ later.on = q.on /\ later.patch = q.patch
        /\ later.snap = q.snap /\ later.late = q.late \cup R
    BY <1>2 DEF FlowCall
  <2>. QED  BY <2>1, <2>2 DEF FullCall
<1>3. CASE q \in PatchCall
  <2>1. PICK p \in Post : q \in [kind : {"patch"}, on : {p}, patch : PatchOf,
                                 snap : [post : [{p} -> Payload]], late : SUBSET RowName]
    BY <1>3 DEF PatchCall
  <2>2. /\ later \in [kind : {"patch"}, on : {p}, patch : PatchOf,
                      snap : [post : [{p} -> Payload]], late : SUBSET RowName]
        /\ later.kind = q.kind /\ later.on = q.on /\ later.patch = q.patch
        /\ later.snap = q.snap /\ later.late = q.late \cup R
    BY <2>1
  <2>3. q \notin FullCall
    BY <1>3, PatchIs
  <2>. QED  BY <2>2, <2>3 DEF PatchCall
<1>. QED  BY <1>1, <1>2, <1>3 DEF FullCall

\* The open requests, overtaken by rows, keep what they have read.
LEMMA OvertakeIs ==
    ASSUME NEW calling \in Calling, NEW R \in SUBSET RowName
    PROVE  /\ Overtake(calling, R) \in Calling
           /\ \A c \in Caller :
                LET q == calling[c]
                    o == Overtake(calling, R)[c]
                IN  /\ q = NoCall => o = NoCall
                    /\ q \in FullCall => o \in FullCall /\ o.snap = q.snap /\ o.late = q.late \cup R
                    /\ q \in PatchCall => /\ o \in PatchCall /\ o.snap = q.snap /\ o.on = q.on
                                          /\ o.patch = q.patch
                                          /\ o.late = q.late \cup (R \cap {<<"post", q.on>>})
<1> SUFFICES ASSUME NEW c \in Caller
             PROVE  LET q == calling[c]
                        o == Overtake(calling, R)[c]
                    IN  /\ o \in {NoCall} \cup FullCall \cup PatchCall
                        /\ q = NoCall => o = NoCall
                        /\ q \in FullCall => o \in FullCall /\ o.snap = q.snap /\ o.late = q.late \cup R
                        /\ q \in PatchCall => /\ o \in PatchCall /\ o.snap = q.snap /\ o.on = q.on
                                              /\ o.patch = q.patch
                                              /\ o.late = q.late \cup (R \cap {<<"post", q.on>>})
  BY DEF Overtake, Calling
<1> DEFINE q == calling[c]
           more == IF q.kind = "patch" THEN R \cap {<<"post", q.on>>} ELSE R
<1>1. Overtake(calling, R)[c] = IF q = NoCall THEN NoCall ELSE [q EXCEPT !.late = @ \cup more]
  BY DEF Overtake
<1>2. q \in {NoCall} \cup FullCall \cup PatchCall
  BY DEF Calling
<1>3. more \in SUBSET RowName
  OBVIOUS
<1>4. q \in FullCall => more = R /\ q # NoCall /\ q \notin PatchCall
  BY FullIs
<1>5. q \in PatchCall => more = R \cap {<<"post", q.on>>} /\ q # NoCall /\ q \notin FullCall
  BY PatchIs
<1> HIDE DEF q, more
<1>6. CASE q = NoCall
  BY <1>1, <1>4, <1>5, <1>6 DEF q
<1>7. CASE q \in FullCall
  BY <1>1, <1>3, <1>4, <1>7, LateIs DEF q
<1>8. CASE q \in PatchCall
  BY <1>1, <1>3, <1>5, <1>8, LateIs DEF q
<1>. QED  BY <1>2, <1>6, <1>7, <1>8

\* The step overtakes the open requests with the rows R, some requests being
\* answered: what the others have read stays what they may act on.
LEMMA CallsKept ==
    ASSUME SocialInv, NEW R \in SUBSET RowName, NEW calling \in Calling,
           \A c \in Caller : calling[c] \in {NoCall, call[c]},
           call' = Overtake(calling, R), lost \subseteq lost',
           \A p \in Post : sent[p] > 0 => sent'[p] > 0,
           \A p \in Post : db.post[p].pub = "deleted" => db'.post[p].pub = "deleted",
           \A p \in Post : <<"post", p>> \notin R => db'.post[p] = db.post[p],
           \A w \in Flow : db.flow[w] # "none" => db'.flow[w] # "none" /\ db'.owner[w] = db.owner[w],
           \A s \in Store : <<"store", s>> \notin R => ActiveOf(db', s) \subseteq ActiveOf(db, s)
    PROVE  CallsOK' /\ call' \in Calling /\ \A t \in Tab : call'[t] \in {NoCall} \cup PatchCall
<1>1. /\ call' \in Calling
      /\ \A c \in Caller :
           /\ calling[c] = NoCall => call'[c] = NoCall
           /\ calling[c] \in FullCall => /\ call'[c] \in FullCall /\ call'[c].snap = calling[c].snap
                                         /\ call'[c].late = calling[c].late \cup R
           /\ calling[c] \in PatchCall =>
                 /\ call'[c] \in PatchCall /\ call'[c].snap = calling[c].snap
                 /\ call'[c].on = calling[c].on /\ call'[c].patch = calling[c].patch
                 /\ call'[c].late = calling[c].late \cup (R \cap {<<"post", calling[c].on>>})
  BY OvertakeIs
<1>2. ASSUME NEW t \in Tab PROVE call'[t] \in {NoCall} \cup PatchCall
  <2>1. t \in Caller /\ call[t] \in {NoCall} \cup PatchCall
    BY DEF Caller, SocialInv, SocialTypeOK
  <2>. QED  BY <1>1, <2>1
<1>3. ASSUME NEW d, NEW old \in SUBSET RowName, SnapshotOK(d, old)
      PROVE  SnapshotOK(d, old \cup R)'
  <2>1. SentIn(d)'
    BY <1>3 DEF SnapshotOK, SentIn
  <2>2. \A s \in Store : <<"store", s>> \notin old \cup R => ActiveOf(db', s) \subseteq ActiveOf(d, s)
    BY <1>3 DEF SnapshotOK
  <2>3. /\ \A p \in Post : d.post[p].pub = "deleted" => db'.post[p].pub = "deleted"
        /\ \A w \in Flow : d.flow[w] # "none" => db'.flow[w] # "none" /\ db'.owner[w] = d.owner[w]
    BY <1>3 DEF SnapshotOK
  <2>. QED  BY <1>3, <2>1, <2>2, <2>3 DEF SnapshotOK, Paired
<1>4. ASSUME NEW c \in Caller, call'[c] \in FullCall
      PROVE  SnapshotOK(call[c].snap, call[c].late)'
  <2>1. /\ calling[c] \in FullCall /\ calling[c] = call[c]
        /\ call'[c].snap = call[c].snap /\ call'[c].late = call[c].late \cup R
    <3>1. NoCall \notin FullCall /\ calling[c] \notin PatchCall
      BY <1>1, <1>4, FullIs, PatchIs
    <3>2. calling[c] \in {NoCall} \cup FullCall \cup PatchCall
      BY DEF Calling
    <3>. QED  BY <1>1, <1>4, <3>1, <3>2
  <2>2. SnapshotOK(call[c].snap, call[c].late) /\ call[c].late \in SUBSET RowName
    BY <2>1, FullIs DEF SocialInv, CallsOK
  <2> DEFINE snap == call[c].snap  late == call[c].late
  <2> HIDE DEF snap, late
  <2>6. PICK d : d = snap
    OBVIOUS
  <2>7. PICK old \in SUBSET RowName : old = late
    BY <2>2 DEF late
  <2>3. d = call[c].snap /\ old = call[c].late /\ SnapshotOK(d, old)
    BY <2>2, <2>6, <2>7 DEF snap, late
  <2>4. SnapshotOK(d, old \cup R)'
    BY <1>3, <2>3
  <2>5. d = call'[c].snap /\ old \cup R = call'[c].late
    BY <2>1, <2>3
  <2>. QED  BY <2>4, <2>5 DEF SnapshotOK, SentIn, Paired, ActiveOf, FlowsOf
<1>5. ASSUME NEW c \in Caller, call'[c] \in PatchCall
      PROVE  PatchedOK(call[c])'
  <2>1. /\ calling[c] \in PatchCall /\ calling[c] = call[c]
        /\ call'[c].snap = call[c].snap /\ call'[c].on = call[c].on /\ call'[c].patch = call[c].patch
        /\ call'[c].late = call[c].late \cup (R \cap {<<"post", call[c].on>>})
    <3>1. NoCall \notin PatchCall /\ calling[c] \notin FullCall
      BY <1>1, <1>5, FullIs, PatchIs
    <3>2. calling[c] \in {NoCall} \cup FullCall \cup PatchCall
      BY DEF Calling
    <3>. QED  BY <1>1, <1>5, <3>1, <3>2
  <2>2. PatchedOK(call[c]) /\ call[c].on \in Post
    BY <2>1, PatchIs DEF SocialInv, CallsOK
  <2>. QED  BY <2>1, <2>2 DEF PatchedOK
<1>. QED  BY <1>1, <1>2, <1>4, <1>5 DEF CallsOK

\* What a commit of the rows R out of the documents D has to be like: a post is
\* written over a row that there is, or with its new workflow; one written as
\* published was sent or dispatched; a workflow is new, of a store that had none
\* active, or it ends; a rejected store's active workflows are cancelled.
RowsOK(c, R, D) ==
    /\ \A p \in Post : <<"post", p>> \in R =>
         /\ D.post[p] \in Payload /\ IsRow(D, p)
         /\ IsRow(db, p) \/ (p \in Flow /\ db.flow[p] = "none" /\ <<"flow", p>> \in R)
         /\ D.post[p].pub = "published" /\ <<"post", p>> \notin call[c].late =>
              \/ sent[p] > 0
              \/ p \in Flow /\ <<"flow", p>> \in R /\ D.flow[p] = "published"
              \/ db.post[p].pub = "published" /\ <<"flow", p>> \notin R
    /\ \A w \in Flow : <<"flow", w>> \in R =>
         \/ /\ D.flow[w] = "scheduled" /\ db.flow[w] = "none" /\ <<"post", w>> \in R
            /\ D.owner[w] \in Store /\ <<"store", D.owner[w]>> \in R
            /\ D.store[D.owner[w]] = "approved"
            /\ \A v \in Flow : <<"flow", v>> \in R => v = w
            /\ <<"store", D.owner[w]>> \notin call[c].late => ActiveOf(db, D.owner[w]) = {}
         \/ /\ D.flow[w] \in Ended /\ db.flow[w] # "none" /\ D.owner[w] = db.owner[w]
            /\ D.flow[w] = "published" \/ db.flow[w] # "published" \/ <<"post", w>> \in R
                 \/ <<"post", w>> \in lost \/ db.post[w].pub # "published" \/ sent[w] > 0
    /\ \A s \in Store : <<"store", s>> \in R =>
         /\ D.store[s] \in {"approved", "rejected"}
         /\ D.store[s] = "rejected" /\ <<"store", s>> \notin call[c].late =>
              \A w \in ActiveOf(db, s) : <<"flow", w>> \in R /\ D.flow[w] = "cancelled"

\* The documents after a commit, each by each.
LEMMA OverlayIs ==
    ASSUME SocialTypeOK, NEW R \in SUBSET RowName, NEW D, NEW c, RowsOK(c, R, D),
           db' = Overlay(R, D)
    PROVE  /\ db' \in Docs
           /\ \A s \in Store : db'.store[s] = IF <<"store", s>> \in R THEN D.store[s] ELSE db.store[s]
           /\ \A w \in Flow : /\ db'.flow[w] = IF <<"flow", w>> \in R THEN D.flow[w] ELSE db.flow[w]
                              /\ db'.owner[w] = IF <<"flow", w>> \in R THEN D.owner[w] ELSE db.owner[w]
           /\ \A p \in Post : db'.post[p] = IF <<"post", p>> \in R THEN D.post[p] ELSE db.post[p]
<1>1. /\ DOMAIN db' = {"store", "flow", "owner", "post"}
      /\ db'.store = [s \in Store |-> IF <<"store", s>> \in R THEN D.store[s] ELSE db.store[s]]
      /\ db'.flow = [w \in Flow |-> IF <<"flow", w>> \in R THEN D.flow[w] ELSE db.flow[w]]
      /\ db'.owner = [w \in Flow |-> IF <<"flow", w>> \in R THEN D.owner[w] ELSE db.owner[w]]
      /\ db'.post = [p \in Post |-> IF <<"post", p>> \in R THEN D.post[p] ELSE db.post[p]]
      /\ db' = [store |-> db'.store, flow |-> db'.flow, owner |-> db'.owner, post |-> db'.post]
  BY DEF Overlay
<1>2. /\ db.store \in [Store -> StoreState] /\ db.flow \in [Flow -> FlowState]
      /\ db.owner \in [Flow -> Store \cup {"none"}] /\ db.post \in [Post -> Payload]
  BY DEF SocialTypeOK, Docs
<1>3. db'.store \in [Store -> StoreState]
  BY <1>1, <1>2 DEF RowsOK, StoreState
<1>4. db'.flow \in [Flow -> FlowState]
  <2>1. \A w \in Flow : <<"flow", w>> \in R => D.flow[w] \in FlowState
    BY DEF RowsOK, FlowState, Ended
  <2>. QED  BY <1>1, <1>2, <2>1
<1>5. db'.owner \in [Flow -> Store \cup {"none"}]
  <2>1. \A w \in Flow : <<"flow", w>> \in R => D.owner[w] \in Store \cup {"none"}
    BY <1>2 DEF RowsOK
  <2>. QED  BY <1>1, <1>2, <2>1
<1>6. db'.post \in [Post -> Payload]
  <2>1. \A p \in Post : <<"post", p>> \in R => D.post[p] \in Payload
    BY DEF RowsOK
  <2>. QED  BY <1>1, <1>2, <2>1
<1>7. db' \in Docs
  BY <1>1, <1>3, <1>4, <1>5, <1>6 DEF Docs
<1>. QED  BY <1>1, <1>7

\* A commit of such rows keeps the documents, and what the open requests have read.
LEMMA CommitKeeps ==
    ASSUME SocialInv, NEW c \in Caller, call[c] # NoCall, NEW R \in SUBSET RowName, NEW D,
           RowsOK(c, R, D), db' = Overlay(R, D), lost' = lost \cup (R \cap call[c].late),
           call' = Overtake([call EXCEPT ![c] = NoCall], R), UNCHANGED sent
    PROVE  /\ db' \in Docs /\ lost' \subseteq RowName /\ DocsOK' /\ CallsOK' /\ call' \in Calling
           /\ \A t \in Tab : call'[t] \in {NoCall} \cup PatchCall
<1>1. SocialTypeOK /\ DocsOK /\ db \in Docs
  BY DEF SocialInv, SocialTypeOK
<1>2. /\ db' \in Docs
      /\ \A s \in Store : db'.store[s] = IF <<"store", s>> \in R THEN D.store[s] ELSE db.store[s]
      /\ \A w \in Flow : /\ db'.flow[w] = IF <<"flow", w>> \in R THEN D.flow[w] ELSE db.flow[w]
                         /\ db'.owner[w] = IF <<"flow", w>> \in R THEN D.owner[w] ELSE db.owner[w]
      /\ \A p \in Post : db'.post[p] = IF <<"post", p>> \in R THEN D.post[p] ELSE db.post[p]
  BY <1>1, OverlayIs
<1>3. lost' \subseteq RowName /\ lost \subseteq lost'
  BY <1>1 DEF SocialTypeOK
<1>4. \A p \in Post : db.post[p].pub = "deleted" => db'.post[p].pub = "deleted"
  <2> SUFFICES ASSUME NEW p \in Post, db.post[p].pub = "deleted", <<"post", p>> \in R PROVE FALSE
    BY <1>2
  <2>1. p \in Flow /\ db.flow[p] = "none"
    BY DEF RowsOK, IsRow
  <2>. QED  BY <1>1, <2>1 DEF DocsOK, Paired
<1>5. \A w \in Flow : db.flow[w] # "none" => db'.flow[w] # "none" /\ db'.owner[w] = db.owner[w]
  BY <1>2 DEF RowsOK, Ended
<1>6. ASSUME NEW w \in Flow, db'.flow[w] = "scheduled"
      PROVE  \/ /\ <<"flow", w>> \in R /\ db.flow[w] = "none" /\ <<"post", w>> \in R
                /\ db'.owner[w] \in Store /\ <<"store", db'.owner[w]>> \in R
                /\ db'.store[db'.owner[w]] = "approved"
                /\ \A v \in Flow : <<"flow", v>> \in R => v = w
                /\ <<"store", db'.owner[w]>> \notin call[c].late => ActiveOf(db, db'.owner[w]) = {}
             \/ <<"flow", w>> \notin R /\ db.flow[w] = "scheduled" /\ db.owner[w] = db'.owner[w]
  <2>1. CASE <<"flow", w>> \in R
    <3>1. db'.flow[w] = D.flow[w] /\ db'.owner[w] = D.owner[w] /\ D.flow[w] \notin Ended
      BY <1>2, <1>6, <2>1 DEF Ended
    <3>2. /\ db.flow[w] = "none" /\ <<"post", w>> \in R
          /\ D.owner[w] \in Store /\ <<"store", D.owner[w]>> \in R
          /\ D.store[D.owner[w]] = "approved"
          /\ \A v \in Flow : <<"flow", v>> \in R => v = w
          /\ <<"store", D.owner[w]>> \notin call[c].late => ActiveOf(db, D.owner[w]) = {}
      BY <2>1, <3>1 DEF RowsOK
    <3>. QED  BY <1>2, <2>1, <3>1, <3>2
  <2>2. CASE <<"flow", w>> \notin R
    BY <1>2, <1>6, <2>2
  <2>. QED  BY <2>1, <2>2
<1>7. \A s \in Store : <<"store", s>> \notin R => ActiveOf(db', s) \subseteq ActiveOf(db, s)
  BY <1>6 DEF ActiveOf, FlowsOf
<1>8. CallsOK' /\ call' \in Calling /\ \A t \in Tab : call'[t] \in {NoCall} \cup PatchCall
  <2>1. /\ [call EXCEPT ![c] = NoCall] \in Calling
        /\ \A d \in Caller : [call EXCEPT ![c] = NoCall][d] \in {NoCall, call[d]}
    BY <1>1 DEF SocialTypeOK, Calling
  <2> DEFINE calling == [call EXCEPT ![c] = NoCall]
  <2> HIDE DEF calling
  <2>2. calling \in Calling /\ (\A d \in Caller : calling[d] \in {NoCall, call[d]})
        /\ call' = Overtake(calling, R)
    BY <2>1 DEF calling
  <2>3. \A p \in Post : sent[p] > 0 => sent'[p] > 0
    OBVIOUS
  <2>4. \A p \in Post : <<"post", p>> \notin R => db'.post[p] = db.post[p]
    BY <1>2
  <2>. QED  BY <1>3, <1>4, <1>5, <1>7, <2>2, <2>3, <2>4, CallsKept
<1>9. Paired(db')
  <2> SUFFICES ASSUME NEW w \in Flow PROVE db'.flow[w] = "none" <=> db'.post[w].pub = "none"
    BY DEF Paired
  <2>1. w \in Post /\ (db.flow[w] = "none" <=> db.post[w].pub = "none")
    BY <1>1 DEF Post, DocsOK, Paired
  <2>2. <<"flow", w>> \in R => db'.flow[w] # "none" /\ (db.flow[w] = "none" => <<"post", w>> \in R)
    BY <1>2 DEF RowsOK, Ended
  <2>3. <<"post", w>> \in R => /\ db'.post[w].pub # "none"
                               /\ db.flow[w] # "none" \/ <<"flow", w>> \in R
    BY <1>2, <2>1 DEF RowsOK, IsRow
  <2>. QED  BY <1>2, <2>1, <2>2, <2>3
<1>10. SentIn(db)'
  <2> SUFFICES ASSUME NEW p \in Post, db'.post[p].pub = "published", <<"post", p>> \notin lost',
                      ~(sent[p] > 0)
               PROVE  p \in Flow /\ db'.flow[p] = "published"
    BY DEF SentIn
  <2>1. db.post[p].pub = "published" => p \in Flow /\ db.flow[p] = "published"
    BY <1>1, <1>3 DEF DocsOK, SentIn
  <2>2. CASE <<"post", p>> \in R
    <3>1. <<"post", p>> \notin call[c].late /\ D.post[p].pub = "published"
      BY <1>2, <2>2
    <3>2. \/ p \in Flow /\ <<"flow", p>> \in R /\ D.flow[p] = "published"
          \/ db.post[p].pub = "published" /\ <<"flow", p>> \notin R
      BY <2>2, <3>1 DEF RowsOK
    <3>. QED  BY <1>2, <2>1, <3>2
  <2>3. CASE <<"post", p>> \notin R
    <3>1. db.post[p].pub = "published" /\ p \in Flow /\ db.flow[p] = "published"
      BY <1>2, <2>1, <2>3
    <3>2. <<"flow", p>> \in R => D.flow[p] = "published"
      BY <1>3, <2>3, <3>1 DEF RowsOK
    <3>. QED  BY <1>2, <3>1, <3>2
  <2>. QED  BY <2>2, <2>3
<1>11. ASSUME NEW s \in Store PROVE StoreOK(s)'
  <2> SUFFICES ASSUME <<"store", s>> \notin lost'
               PROVE  /\ \A v, w \in ActiveOf(db', s) : v = w
                      /\ db'.store[s] = "rejected" => ActiveOf(db', s) = {}
    BY DEF StoreOK
  <2>1. /\ \A v, w \in ActiveOf(db, s) : v = w
        /\ db.store[s] = "rejected" => ActiveOf(db, s) = {}
    BY <1>1, <1>3 DEF DocsOK, StoreOK
  <2>2. \A w \in ActiveOf(db', s) : w \in Flow /\ db'.flow[w] = "scheduled" /\ db'.owner[w] = s
    BY DEF ActiveOf, FlowsOf
  <2>3. CASE <<"store", s>> \notin R
    BY <1>2, <1>7, <2>1, <2>3
  <2>4. CASE <<"store", s>> \in R
    <3>1. <<"store", s>> \notin call[c].late
      BY <2>4
    <3>2. ASSUME NEW w \in ActiveOf(db', s)
          PROVE
            \/ <<"flow", w>> \in R /\ ActiveOf(db, s) = {} /\ db'.store[s] = "approved"
                 /\ \A v \in Flow : <<"flow", v>> \in R => v = w
            \/ <<"flow", w>> \notin R /\ w \in ActiveOf(db, s)
      <4>1. w \in Flow /\ db'.flow[w] = "scheduled" /\ db'.owner[w] = s
        BY <2>2
      <4>2. db.flow[w] = "scheduled" /\ db.owner[w] = s => w \in ActiveOf(db, s)
        BY <4>1 DEF ActiveOf, FlowsOf
      <4>. QED  BY <1>6, <3>1, <4>1, <4>2
    <3>3. db'.store[s] = "rejected" => \A w \in ActiveOf(db, s) : <<"flow", w>> \in R
      BY <1>2, <2>4, <3>1 DEF RowsOK
    <3>4. \A v, w \in ActiveOf(db', s) : v = w
      BY <2>1, <2>2, <3>2
    <3>. QED  BY <3>2, <3>3, <3>4
  <2>. QED  BY <2>3, <2>4
<1>12. DocsOK'
  BY <1>9, <1>10, <1>11 DEF DocsOK, Paired
<1>. QED  BY <1>2, <1>3, <1>8, <1>12

\* A commit of no rows is always in order.
LEMMA NoRows == ASSUME NEW c, NEW D PROVE RowsOK(c, {}, D)
BY DEF RowsOK

\* What a request to a store or a workflow has read.
LEMMA ReadIs ==
    ASSUME SocialInv, NEW c \in Caller, call[c] \in FullCall
    PROVE  /\ call[c].snap \in Docs /\ SnapshotOK(call[c].snap, call[c].late)
           /\ Paired(db) /\ db \in Docs
BY FullIs DEF SocialInv, CallsOK, SocialTypeOK, DocsOK

\* The rows an approval writes.
LEMMA ApproveRows ==
    ASSUME SocialInv, NEW c \in Caller, call[c] \in FullCall, call[c].kind = "approve",
           NEW w \in Flow, db.flow[w] = "none"
    PROVE  LET wr == ApproveStore(call[c].snap, call[c].on, w)
           IN  wr.rows \in SUBSET RowName /\ RowsOK(c, wr.rows, wr.docs)
<1> DEFINE s == call[c].snap  st == call[c].on  wr == ApproveStore(s, st, w)
           R == {<<"store", st>>} \cup Rows({w}, {w})
           D == NewFlow(s, st, w).docs
<1>1. s \in Docs /\ SnapshotOK(s, call[c].late) /\ st \in Store
  BY ReadIs, FullIs
<1>2. CASE s.store[st] = "none" \/ ActiveOf(s, st) # {}
  <2>1. wr.rows = {}
    BY <1>2 DEF ApproveStore, Nothing, Writes
  <2>. QED  BY <2>1, NoRows
<1>3. CASE ~(s.store[st] = "none" \/ ActiveOf(s, st) # {})
  <2>1. wr.rows = R /\ wr.docs = D
    BY <1>3 DEF ApproveStore, NewFlow, Writes
  <2>2. /\ D.store[st] = "approved" /\ D.flow[w] = "scheduled" /\ D.owner[w] = st
        /\ D.post[w] = [pub |-> "pending", appr |-> "approved"]
    BY <1>1 DEF NewFlow, Writes, WithPayload, Docs, Post
  <2>3. R = {<<"store", st>>, <<"flow", w>>, <<"post", w>>}
    BY DEF Rows
  <2>4. ActiveOf(s, st) = {} /\ (<<"store", st>> \notin call[c].late => ActiveOf(db, st) = {})
    BY <1>1, <1>3 DEF SnapshotOK
  <2>5. w \in Post /\ R \in SUBSET RowName
    <3>1. w \in Post
      BY DEF Post
    <3>2. <<"store", st>> \in RowName /\ <<"flow", w>> \in RowName /\ <<"post", w>> \in RowName
      BY <1>1, <3>1 DEF RowName
    <3>. QED  BY <2>3, <3>1, <3>2
  <2> HIDE DEF D, R, st
  <2>6. RowsOK(c, R, D)
    <3>1. /\ D.post[w] \in Payload /\ IsRow(D, w) /\ D.post[w].pub # "published"
      BY <2>2 DEF Payload, PubState, ApprState, IsRow
    <3>. QED  BY <1>1, <2>2, <2>3, <2>4, <2>5, <3>1 DEF RowsOK
  <2>. QED  BY <2>1, <2>5, <2>6 DEF st
<1>. QED  BY <1>2, <1>3

\* The documents with the payload of some posts replaced.
LEMMA PayloadIs ==
    ASSUME NEW s \in Docs, NEW ps \in SUBSET Post, NEW payload \in Payload
    PROVE  LET D == WithPayload(s, ps, payload)
           IN  /\ D \in Docs /\ D.store = s.store /\ D.flow = s.flow /\ D.owner = s.owner
               /\ \A p \in Post : D.post[p] = IF p \in ps THEN payload ELSE s.post[p]
<1> DEFINE f == [p \in DOMAIN s.post |-> IF p \in ps THEN payload ELSE s.post[p]]
<1>1. f \in [Post -> Payload] /\ \A p \in Post : f[p] = IF p \in ps THEN payload ELSE s.post[p]
  BY DEF Docs
<1>2. WithPayload(s, ps, payload) = [s EXCEPT !.post = f]
  BY DEF WithPayload, Docs
<1> HIDE DEF f
<1>. QED  BY <1>1, <1>2 DEF Docs

\* Workflows of a snapshot are ended and their posts marked.
LEMMA CancelledIs ==
    ASSUME NEW s \in Docs, NEW ws \in SUBSET Flow, NEW ps \in SUBSET Post
    PROVE  LET D == Cancelled(s, ws, ps)
           IN  /\ D \in Docs /\ D.store = s.store /\ D.owner = s.owner
               /\ \A w \in ws : D.flow[w] = "cancelled"
               /\ \A p \in ps : D.post[p] = [pub |-> "failed", appr |-> "rejected"]
<1> DEFINE E == WithPayload(s, ps, [pub |-> "failed", appr |-> "rejected"])
           g == [w \in Flow |-> IF w \in ws THEN "cancelled" ELSE E.flow[w]]
<1>1. [pub |-> "failed", appr |-> "rejected"] \in Payload
  BY DEF Payload, PubState, ApprState
<1>2. /\ E \in Docs /\ E.store = s.store /\ E.flow = s.flow /\ E.owner = s.owner
      /\ \A p \in ps : E.post[p] = [pub |-> "failed", appr |-> "rejected"]
  BY <1>1, PayloadIs
<1>3. Cancelled(s, ws, ps) = [E EXCEPT !.flow = g]
  BY DEF Cancelled
<1> HIDE DEF E
<1>4. g \in [Flow -> FlowState] /\ \A w \in ws : g[w] = "cancelled"
  BY <1>2 DEF Docs, FlowState
<1> HIDE DEF g
<1>. QED  BY <1>2, <1>3, <1>4 DEF Docs

\* The rows of workflows and of posts.
LEMMA RowsAre ==
    ASSUME NEW ws \in SUBSET Flow, NEW ps \in SUBSET Post
    PROVE  /\ Rows(ws, ps) \in SUBSET RowName
           /\ \A x : <<"flow", x>> \in Rows(ws, ps) <=> x \in ws
           /\ \A x : <<"post", x>> \in Rows(ws, ps) <=> x \in ps
           /\ \A x : <<"store", x>> \notin Rows(ws, ps)
BY DEF Rows, RowName

\* Workflow w is ended out of a snapshot in which it was not published.
LEMMA EndedFlow ==
    ASSUME SocialInv, NEW c \in Caller, call[c] \in FullCall, NEW w \in Flow,
           call[c].snap.flow[w] \notin {"none", "published"},
           NEW R, <<"post", w>> \in R \/ ~IsRow(call[c].snap, w) \/ call[c].snap.post[w].pub = "published"
    PROVE  /\ db.flow[w] # "none" /\ call[c].snap.owner[w] = db.owner[w]
           /\ <<"post", w>> \in R \/ <<"post", w>> \in lost \/ db.post[w].pub # "published" \/ sent[w] > 0
<1> DEFINE s == call[c].snap
<1>1. SnapshotOK(s, call[c].late) /\ w \in Post
  BY ReadIs DEF Post
<1>2. db.flow[w] # "none" /\ s.owner[w] = db.owner[w]
  BY <1>1 DEF SnapshotOK
<1>3. CASE s.post[w].pub = "published"
  BY <1>1, <1>2, <1>3 DEF SnapshotOK, SentIn
<1>4. CASE ~IsRow(s, w)
  <2>1. s.post[w].pub # "none"
    BY <1>1 DEF SnapshotOK, Paired
  <2>2. db.post[w].pub = "deleted"
    BY <1>1, <1>4, <2>1 DEF IsRow, SnapshotOK
  <2>. QED  BY <1>2, <2>2
<1>. QED  BY <1>2, <1>3, <1>4

\* The rows a rejection writes.
LEMMA RejectRows ==
    ASSUME SocialInv, NEW c \in Caller, call[c] \in FullCall, call[c].kind = "reject"
    PROVE  LET wr == RejectStore(call[c].snap, call[c].on)
           IN  /\ wr.rows \in SUBSET RowName
               /\ ~RowGone(c, wr.rows) => RowsOK(c, wr.rows, wr.docs)
<1> DEFINE s == call[c].snap  st == call[c].on  wr == RejectStore(s, st)
           ws == ActiveOf(s, st)
           ps == {w \in ws : IsRow(s, w) /\ s.post[w].pub # "published"}
           R == {<<"store", st>>} \cup Rows(ws, ps)
           D == [Cancelled(s, ws, ps) EXCEPT !.store[st] = "rejected"]
<1>1. s \in Docs /\ SnapshotOK(s, call[c].late) /\ st \in Store
  BY ReadIs, FullIs
<1>2. CASE s.store[st] = "none"
  <2>1. wr.rows = {}
    BY <1>2 DEF RejectStore, Nothing, Writes
  <2>. QED  BY <2>1, NoRows
<1>3. CASE s.store[st] # "none"
  <2>1. wr.rows = R /\ wr.docs = D
    BY <1>3 DEF RejectStore, Writes
  <2>2. ws \in SUBSET Flow /\ ps \in SUBSET Post /\ ps \subseteq ws
    BY DEF ActiveOf, FlowsOf, Post
  <2>3. /\ \A w \in ws : D.flow[w] = "cancelled" /\ D.owner[w] = s.owner[w]
        /\ \A p \in ps : D.post[p] = [pub |-> "failed", appr |-> "rejected"]
        /\ D.store[st] = "rejected"
    <3> DEFINE E == Cancelled(s, ws, ps)
    <3>1. /\ E \in Docs /\ E.store = s.store /\ E.owner = s.owner
          /\ \A w \in ws : E.flow[w] = "cancelled"
          /\ \A p \in ps : E.post[p] = [pub |-> "failed", appr |-> "rejected"]
      BY <1>1, <2>2, CancelledIs
    <3>2. D = [E EXCEPT !.store[st] = "rejected"]
      OBVIOUS
    <3> HIDE DEF E, D, ws, ps, st
    <3>. QED  BY <1>1, <3>1, <3>2 DEF Docs
  <2>4. /\ R \in SUBSET RowName /\ <<"store", st>> \in R
        /\ \A x : <<"flow", x>> \in R <=> x \in ws
        /\ \A x : <<"post", x>> \in R <=> x \in ps
        /\ \A x : <<"store", x>> \in R => x = st
    BY <1>1, <2>2, RowsAre DEF RowName
  <2>5. \A w \in ws : s.flow[w] = "scheduled"
    BY DEF ActiveOf
  <2>6. \A p \in ps : IsRow(s, p)
    OBVIOUS
  <2>7. \A w \in ws : w \in ps \/ ~IsRow(s, w) \/ s.post[w].pub = "published"
    OBVIOUS
  <2>8. <<"store", st>> \notin call[c].late => ActiveOf(db, st) \subseteq ws
    BY <1>1 DEF SnapshotOK
  <2> HIDE DEF D, R, ws, ps
  <2>9. ASSUME ~RowGone(c, R) PROVE RowsOK(c, R, D)
    <3>1. ASSUME NEW p \in Post, <<"post", p>> \in R
          PROVE  /\ D.post[p] \in Payload /\ IsRow(D, p) /\ IsRow(db, p)
                 /\ D.post[p].pub # "published"
      <4>1. D.post[p] = [pub |-> "failed", appr |-> "rejected"] /\ IsRow(s, p)
        BY <2>3, <2>4, <2>6, <3>1
      <4>2. IsRow(db, p)
        BY <2>9, <3>1, <4>1 DEF RowGone
      <4>. QED  BY <4>1, <4>2 DEF IsRow, Payload, PubState, ApprState
    <3>2. ASSUME NEW w \in Flow, <<"flow", w>> \in R
          PROVE  /\ D.flow[w] \in Ended /\ db.flow[w] # "none" /\ D.owner[w] = db.owner[w]
                 /\ <<"post", w>> \in R \/ <<"post", w>> \in lost \/ db.post[w].pub # "published"
                      \/ sent[w] > 0
      <4>1. /\ w \in ws /\ s.flow[w] \notin {"none", "published"}
            /\ <<"post", w>> \in R \/ ~IsRow(s, w) \/ s.post[w].pub = "published"
        BY <2>4, <2>5, <2>7, <3>2
      <4>. QED  BY <2>3, <4>1, EndedFlow DEF Ended
    <3>3. \A w \in ActiveOf(db, st) : w \in ws => <<"flow", w>> \in R /\ D.flow[w] = "cancelled"
      BY <2>3, <2>4
    <3>. QED  BY <2>3, <2>4, <2>8, <3>1, <3>2, <3>3 DEF RowsOK
  <2>. QED  BY <2>1, <2>4, <2>9
<1>. QED  BY <1>2, <1>3

\* The rows a dispatch writes.
LEMMA DispatchRows ==
    ASSUME SocialInv, NEW c \in Caller, call[c] \in FullCall, call[c].kind = "dispatch",
           NEW due \in BOOLEAN
    PROVE  LET wr == Dispatch(call[c].snap, call[c].on, due)
           IN  /\ wr.rows \in SUBSET RowName
               /\ ~RowGone(c, wr.rows) => RowsOK(c, wr.rows, wr.docs)
<1> DEFINE s == call[c].snap  w == call[c].on  wr == Dispatch(s, w, due)
<1>1. s \in Docs /\ SnapshotOK(s, call[c].late) /\ w \in Flow /\ w \in Post
  BY ReadIs, FullIs DEF Post
<1>2. ASSUME NEW R, NEW D, NEW ps \in SUBSET {w}, R = Rows({w}, ps), ~RowGone(c, R),
             s.flow[w] \notin Ended \cup {"none"}, \A p \in ps : IsRow(s, p),
             \A p \in ps : D.post[p] \in Payload /\ IsRow(D, p),
             D.flow[w] \in Ended, D.owner[w] = s.owner[w],
             \A p \in ps : D.post[p].pub = "published" => D.flow[w] = "published",
             ps = {w} \/ ~IsRow(s, w)
      PROVE  R \in SUBSET RowName /\ RowsOK(c, R, D)
  <2>1. /\ R \in SUBSET RowName
        /\ \A x : <<"flow", x>> \in R <=> x = w
        /\ \A x : <<"post", x>> \in R <=> x \in ps
        /\ \A x : <<"store", x>> \notin R
    BY <1>1, <1>2, RowsAre
  <2>2. <<"post", w>> \in R \/ ~IsRow(s, w)
    BY <1>2, <2>1
  <2>3. /\ db.flow[w] # "none" /\ s.owner[w] = db.owner[w]
        /\ <<"post", w>> \in R \/ <<"post", w>> \in lost \/ db.post[w].pub # "published" \/ sent[w] > 0
    BY <1>1, <1>2, <2>2, EndedFlow DEF Ended
  <2>4. \A p \in ps : IsRow(db, p) /\ p = w
    BY <1>1, <1>2, <2>1 DEF RowGone
  <2> HIDE DEF s, w
  <2>. QED  BY <1>1, <1>2, <2>1, <2>3, <2>4 DEF RowsOK
<1>3. CASE s.flow[w] \in Ended \cup {"none"}
  <2>1. wr.rows = {}
    BY <1>3 DEF Dispatch, Nothing, Writes
  <2>. QED  BY <2>1, NoRows
<1>4. CASE s.flow[w] \notin Ended \cup {"none"} /\ s.store[s.owner[w]] = "rejected"
  <2> DEFINE ps == {p \in {w} : IsRow(s, p)}
             R == Rows({w}, ps)
             D == Cancelled(s, {w}, ps)
  <2>1. wr.rows = R /\ wr.docs = D
    BY <1>4 DEF Dispatch, Writes
  <2>2. {w} \in SUBSET Flow /\ ps \in SUBSET {w} /\ ps \in SUBSET Post
    BY <1>1
  <2>3. /\ D.owner = s.owner /\ D.flow[w] = "cancelled"
        /\ \A p \in ps : D.post[p] = [pub |-> "failed", appr |-> "rejected"]
    BY <1>1, <2>2, CancelledIs
  <2>4. /\ \A p \in ps : IsRow(s, p)
        /\ ps = {w} \/ ~IsRow(s, w)
    OBVIOUS
  <2>5. R \in SUBSET RowName
    BY <2>2, RowsAre
  <2> HIDE DEF D
  <2>6. \A p \in ps : D.post[p] \in Payload /\ IsRow(D, p) /\ D.post[p].pub # "published"
    BY <2>3 DEF IsRow, Payload, PubState, ApprState
  <2>7. R = Rows({w}, ps) /\ D.flow[w] \in Ended /\ D.owner[w] = s.owner[w]
    BY <2>3 DEF Ended
  <2> HIDE DEF ps, R
  <2>8. ~RowGone(c, R) => RowsOK(c, R, D)
    BY <1>2, <1>4, <2>2, <2>4, <2>6, <2>7
  <2>. QED  BY <2>1, <2>5, <2>8
<1>5. CASE s.flow[w] \notin Ended \cup {"none"} /\ s.store[s.owner[w]] # "rejected"
  <2>1. CASE ~(due /\ IsRow(s, w))
    <3>1. wr.rows = {}
      BY <1>5, <2>1 DEF Dispatch, Nothing, Writes
    <3>. QED  BY <3>1, NoRows
  <2>2. CASE due /\ IsRow(s, w)
    <3> DEFINE R == Rows({w}, {w})
               D == [s EXCEPT !.flow[w] = "published", !.post[w].pub = "published"]
    <3>1. wr.rows = R /\ wr.docs = D
      BY <1>5, <2>2 DEF Dispatch, Writes
    <3>2. /\ D.owner[w] = s.owner[w] /\ D.flow[w] = "published"
          /\ D.post[w] \in Payload /\ D.post[w].pub = "published"
      BY <1>1 DEF Docs, Payload, PubState
    <3>3. R \in SUBSET RowName
      BY <1>1, RowsAre
    <3> HIDE DEF D
    <3>4. IsRow(D, w) /\ D.flow[w] \in Ended
      BY <3>2 DEF IsRow, Ended
    <3>5. ~RowGone(c, R) => RowsOK(c, R, D)
      BY <1>2, <1>5, <2>2, <3>2, <3>4
    <3>. QED  BY <3>1, <3>3, <3>5
  <2>. QED  BY <2>1, <2>2
<1>. QED  BY <1>3, <1>4, <1>5

\* A patch gives a row the status it names, or leaves it the one it has.
LEMMA PatchedIs ==
    ASSUME NEW payload \in Payload, payload.pub \in Live, NEW patch \in PatchOf
    PROVE  /\ Patched(payload, patch) \in Payload /\ Patched(payload, patch).pub \in Live
           /\ Patched(payload, patch).pub = IF "pub" \in DOMAIN patch THEN patch.pub ELSE payload.pub
<1>1. /\ "pub" \in DOMAIN patch => patch.pub \in Live
      /\ "appr" \in DOMAIN patch => patch.appr \in ApprState
  BY DEF PatchOf
<1>2. /\ DOMAIN payload = {"pub", "appr"} /\ payload.pub \in PubState /\ payload.appr \in ApprState
  BY DEF Payload
<1> DEFINE pub == IF "pub" \in DOMAIN patch THEN patch.pub ELSE payload.pub
           appr == IF "appr" \in DOMAIN patch THEN patch.appr ELSE payload.appr
<1>3. Patched(payload, patch) = [pub |-> pub, appr |-> appr]
  BY <1>2 DEF Patched
<1>4. pub \in Live /\ pub \in PubState /\ appr \in ApprState
  BY <1>1, <1>2 DEF Live
<1> HIDE DEF pub, appr
<1>5. Patched(payload, patch) \in Payload /\ Patched(payload, patch).pub = pub
  BY <1>3, <1>4 DEF Payload
<1>. QED  BY <1>4, <1>5 DEF pub

\* The row a patch writes.
LEMMA PatchRows ==
    ASSUME SocialInv, NEW c \in Caller, call[c] \in PatchCall
    PROVE  LET wr == PatchPost(call[c].snap, call[c].on, call[c].patch)
           IN  /\ wr.rows \in SUBSET RowName
               /\ ~RowGone(c, wr.rows) => RowsOK(c, wr.rows, wr.docs)
<1> DEFINE q == call[c]  s == q.snap  p == q.on  wr == PatchPost(s, p, q.patch)
           payload == Patched(s.post[p], q.patch)
           R == {<<"post", p>>}
           D == WithPayload(s, {p}, payload)
<1>1. /\ p \in Post /\ q.patch \in PatchOf /\ s.post \in [{p} -> Payload] /\ s.post[p] \in Payload
      /\ PatchedOK(q)
  BY PatchIs DEF SocialInv, CallsOK
<1>2. CASE ~IsRow(s, p)
  <2>1. wr.rows = {}
    BY <1>2 DEF PatchPost, Nothing, Writes
  <2>. QED  BY <2>1, NoRows
<1>3. CASE IsRow(s, p)
  <2>1. wr.rows = R /\ wr.docs = D /\ R \in SUBSET RowName
    BY <1>1, <1>3 DEF PatchPost, Writes, RowName
  <2>2. s.post[p].pub \in Live
    BY <1>1, <1>3 DEF IsRow, Payload, Live
  <2>3. /\ payload \in Payload /\ payload.pub \in Live
        /\ payload.pub = IF "pub" \in DOMAIN q.patch THEN q.patch.pub ELSE s.post[p].pub
    BY <1>1, <2>2, PatchedIs
  <2>4. DOMAIN s = {"post"}
    <3>1. PICK x \in Post : q \in [kind : {"patch"}, on : {x}, patch : PatchOf,
                                   snap : [post : [{x} -> Payload]], late : SUBSET RowName]
      BY DEF PatchCall
    <3>. QED  BY <3>1
  <2> HIDE DEF payload
  <2>5. D.post[p] = payload
    BY <1>1, <2>4 DEF WithPayload
  <2> HIDE DEF D
  <2>6. ASSUME ~RowGone(c, R) PROVE RowsOK(c, R, D)
    <3>1. IsRow(db, p)
      BY <1>1, <1>3, <2>6 DEF RowGone
    <3>2. D.post[p] \in Payload /\ IsRow(D, p)
      BY <2>3, <2>5 DEF IsRow, Live
    <3>3. payload.pub = "published" /\ <<"post", p>> \notin q.late =>
              sent[p] > 0 \/ db.post[p].pub = "published"
      BY <1>1, <2>3 DEF PatchedOK
    <3>4. \A x \in Post : <<"post", x>> \in R => x = p
      OBVIOUS
    <3>5. \A x : <<"flow", x>> \notin R /\ <<"store", x>> \notin R
      OBVIOUS
    <3> HIDE DEF R
    <3>. QED  BY <2>5, <3>1, <3>2, <3>3, <3>4, <3>5 DEF RowsOK
  <2>. QED  BY <2>1, <2>6
<1>. QED  BY <1>2, <1>3

\* The tabs that have claimed a post can be counted.
LEMMA BusyFinite ==
    ASSUME NEW p
    PROVE  IsFiniteSet(Busy(p)) /\ Cardinality(Busy(p)) \in Nat
<1>1. IsFiniteSet(Tab) /\ Busy(p) \subseteq Tab
  BY SocialAssumption DEF Busy
<1>. QED  BY <1>1, FS_Subset, FS_CardinalityType

\* A step in which no tab takes a post up, delivers it, or puts it back unarmed.
LEMMA ArmedKept ==
    ASSUME SocialInv, \A p \in Post : sent'[p] = sent[p], \A p \in Post : Busy(p)' \subseteq Busy(p),
           armed' \in [Post -> Nat], revived' \in [Post -> Nat],
           \A p \in Post : \/ db'.post[p].pub # "pending" /\ armed'[p] + revived'[p] = armed[p] + revived[p]
                           \/ db'.post[p].pub = db.post[p].pub /\ armed'[p] + revived'[p] = armed[p] + revived[p]
                           \/ armed'[p] + revived'[p] = armed[p] + revived[p] + 1
    PROVE  ArmedOK'
<1> SUFFICES ASSUME NEW p \in Post
             PROVE  sent'[p] + Cardinality(Busy(p)') + Pend(p)' <= armed'[p] + revived'[p]
  BY DEF ArmedOK
<1>1. sent[p] + Cardinality(Busy(p)) + Pend(p) <= armed[p] + revived[p]
  BY DEF SocialInv, ArmedOK
<1>2. /\ Cardinality(Busy(p)') \in Nat /\ Cardinality(Busy(p)) \in Nat
      /\ Cardinality(Busy(p)') <= Cardinality(Busy(p))
  <2>1. IsFiniteSet(Busy(p)) /\ Busy(p)' \subseteq Busy(p)
    BY BusyFinite
  <2>2. IsFiniteSet(Busy(p)') /\ Cardinality(Busy(p)') <= Cardinality(Busy(p))
    BY <2>1, FS_Subset
  <2>. QED  BY <2>1, <2>2, FS_CardinalityType
<1>3. /\ Pend(p) \in {0, 1} /\ Pend(p)' \in {0, 1}
      /\ db'.post[p].pub # "pending" => Pend(p)' = 0
      /\ db'.post[p].pub = db.post[p].pub => Pend(p)' = Pend(p)
  BY DEF Pend
<1>4. /\ sent[p] \in Nat /\ armed[p] \in Nat /\ revived[p] \in Nat /\ armed'[p] \in Nat
      /\ revived'[p] \in Nat /\ sent'[p] = sent[p]
  BY DEF SocialInv, SocialTypeOK
<1>. QED  BY <1>1, <1>2, <1>3, <1>4

\* A request is answered by a commit of such rows, or of none.
LEMMA CommitInv ==
    ASSUME SocialInv, NEW c \in Caller, call[c] # NoCall, NEW wr, Commit(c, wr),
           wr.rows \in SUBSET RowName, ~RowGone(c, wr.rows) => RowsOK(c, wr.rows, wr.docs),
           UNCHANGED sent, tab' \in [Tab -> TabState], \A p \in Post : Busy(p)' \subseteq Busy(p),
           \A t \in Tab : tab'[t].at = "delivered" => tab'[t] = tab[t]
    PROVE  SocialInv'
<1> DEFINE R == IF RowGone(c, wr.rows) THEN {} ELSE wr.rows
           D == wr.docs
           Pending(p) == <<"post", p>> \in R /\ D.post[p].pub = "pending"
<1>1. R \in SUBSET RowName /\ RowsOK(c, R, D)
  BY NoRows
<1>2. /\ db' = Overlay(R, D) /\ lost' = lost \cup (R \cap call[c].late)
      /\ call' = Overtake([call EXCEPT ![c] = NoCall], R)
      /\ armed' = [p \in Post |-> IF Pending(p) /\ Arms(c, p) THEN armed[p] + 1 ELSE armed[p]]
      /\ revived' = [p \in Post |->
            IF Pending(p) /\ ~Arms(c, p) /\ db.post[p].pub # "pending"
            THEN revived[p] + 1 ELSE revived[p]]
  BY DEF Commit
<1>3. SocialTypeOK
  BY DEF SocialInv
<1> HIDE DEF R, D
<1>4. /\ db' \in Docs /\ lost' \subseteq RowName /\ DocsOK' /\ CallsOK' /\ call' \in Calling
      /\ \A t \in Tab : call'[t] \in {NoCall} \cup PatchCall
  BY <1>1, <1>2, CommitKeeps
<1>5. armed' \in [Post -> Nat] /\ revived' \in [Post -> Nat]
  <2>1. armed \in [Post -> Nat] /\ revived \in [Post -> Nat]
    BY <1>3 DEF SocialTypeOK
  <2> HIDE DEF Pending
  <2>. QED  BY <1>2, <2>1
<1>6. SocialTypeOK'
  BY <1>3, <1>4, <1>5 DEF SocialTypeOK
<1>7. \A p \in Post : db'.post[p] = IF <<"post", p>> \in R THEN D.post[p] ELSE db.post[p]
  BY <1>1, <1>2, <1>3, OverlayIs
<1>8. ArmedOK'
  <2>1. ASSUME NEW p \in Post
        PROVE  \/ db'.post[p].pub # "pending" /\ armed'[p] + revived'[p] = armed[p] + revived[p]
               \/ db'.post[p].pub = db.post[p].pub /\ armed'[p] + revived'[p] = armed[p] + revived[p]
               \/ armed'[p] + revived'[p] = armed[p] + revived[p] + 1
    <3>1. armed[p] \in Nat /\ revived[p] \in Nat
      BY <1>3 DEF SocialTypeOK
    <3>2. /\ armed'[p] = IF Pending(p) /\ Arms(c, p) THEN armed[p] + 1 ELSE armed[p]
          /\ revived'[p] = IF Pending(p) /\ ~Arms(c, p) /\ db.post[p].pub # "pending"
                           THEN revived[p] + 1 ELSE revived[p]
      BY <1>2
    <3>3. ~Pending(p) => db'.post[p].pub # "pending" \/ db'.post[p] = db.post[p]
      BY <1>7
    <3>4. Pending(p) => db'.post[p].pub = "pending"
      BY <1>7
    <3> HIDE DEF Pending
    <3>. QED  BY <3>1, <3>2, <3>3, <3>4
  <2>. QED  BY <1>5, <2>1, ArmedKept
<1>9. TabsOK'
  BY DEF TabsOK, SocialInv
<1>. QED  BY <1>4, <1>6, <1>8, <1>9 DEF SocialInv

\* There is no store, no post and no open request at first.
LEMMA SocialInvInit == SocialInit => SocialInv
<1> SUFFICES ASSUME SocialInit PROVE SocialInv
  OBVIOUS
<1>1. db \in Docs
  BY DEF SocialInit, Docs, StoreState, FlowState, Payload, PubState, ApprState
<1>2. /\ call \in Calling /\ tab \in [Tab -> TabState] /\ \A t \in Tab : call[t] = NoCall
      /\ \A c \in Caller : call[c] = NoCall
      /\ \A t \in Tab : tab[t] = Idle
  BY DEF SocialInit, Calling, TabState, Caller
<1>3. SocialTypeOK
  BY <1>1, <1>2 DEF SocialInit, SocialTypeOK
<1>4. DocsOK
  BY DEF SocialInit, DocsOK, Paired, SentIn, StoreOK, ActiveOf, FlowsOf, Post
<1>5. CallsOK
  BY <1>2, FullIs, PatchIs DEF CallsOK
<1>6. TabsOK /\ \A p \in Post : Busy(p) = {}
  BY <1>2 DEF TabsOK, Busy, Idle
<1>7. ArmedOK
  <2>1. ASSUME NEW p \in Post
        PROVE  /\ sent[p] = 0 /\ armed[p] = 0 /\ revived[p] = 0
               /\ Pend(p) = 0 /\ Cardinality(Busy(p)) = 0
    <3>1. sent[p] = 0 /\ armed[p] = 0 /\ revived[p] = 0 /\ db.post[p].pub # "pending"
      BY DEF SocialInit
    <3>2. Cardinality(Busy(p)) = 0
      BY <1>6, FS_EmptySet
    <3>. QED  BY <3>1, <3>2 DEF Pend
  <2>. QED  BY <2>1 DEF ArmedOK
<1>. QED  BY <1>3, <1>4, <1>5, <1>6, <1>7 DEF SocialInv

\* A request is opened on what is there now.
LEMMA OpenKeeps ==
    ASSUME SocialInv, NEW c \in Caller, NEW q \in FullCall \cup PatchCall,
           call' = [call EXCEPT ![c] = q], UNCHANGED <<db, lost, sent>>,
           q \in FullCall => SnapshotOK(q.snap, q.late), q \in PatchCall => PatchedOK(q),
           c \in Tab => q \in PatchCall
    PROVE  CallsOK' /\ call' \in Calling /\ \A t \in Tab : call'[t] \in {NoCall} \cup PatchCall
<1>1. /\ call' \in Calling
      /\ \A d \in Caller : call'[d] = IF d = c THEN q ELSE call[d]
  BY DEF SocialInv, SocialTypeOK, Calling
<1>2. \A t \in Tab : t \in Caller /\ call[t] \in {NoCall} \cup PatchCall
  BY DEF SocialInv, SocialTypeOK, Caller
<1>3. ASSUME NEW d \in Caller
      PROVE  /\ call'[d] \in FullCall => SnapshotOK(call'[d].snap, call'[d].late)
             /\ call'[d] \in PatchCall => PatchedOK(call'[d])
  BY <1>1 DEF SocialInv, CallsOK
<1>4. ASSUME NEW d \in Caller, call'[d] \in FullCall PROVE SnapshotOK(call[d].snap, call[d].late)'
  BY <1>3, <1>4 DEF SnapshotOK, Paired, SentIn, ActiveOf, FlowsOf
<1>5. ASSUME NEW d \in Caller, call'[d] \in PatchCall PROVE PatchedOK(call[d])'
  BY <1>3, <1>5 DEF PatchedOK
<1>. QED  BY <1>1, <1>2, <1>4, <1>5 DEF CallsOK

\* The documents are as they were.
LEMMA DocsKept == ASSUME SocialInv, UNCHANGED <<db, lost, sent>> PROVE DocsOK'
BY DEF SocialInv, DocsOK, Paired, SentIn, StoreOK, ActiveOf, FlowsOf

\* An operator's request to a store or a workflow reads every document.
LEMMA OpenFull ==
    ASSUME SocialInv, NEW c \in User, NEW what \in {"approve", "reject", "dispatch"}, NEW on,
           what \in {"approve", "reject"} => on \in Store, what = "dispatch" => on \in Flow,
           Open(c, what, on, <<>>), UNCHANGED <<db, lost, sent>>
    PROVE  CallsOK' /\ call' \in Calling /\ \A t \in Tab : call'[t] \in {NoCall} \cup PatchCall
<1> DEFINE q == [kind |-> what, on |-> on, patch |-> <<>>, snap |-> db, late |-> {}]
<1>1. call' = [call EXCEPT ![c] = q] /\ c \in Caller /\ c \notin Tab
  BY SocialAssumption DEF Open, Snapshot, Caller
<1>2. q \in FullCall /\ q.snap = db /\ q.late = {}
  BY DEF FullCall, StoreCall, FlowCall, SocialInv, SocialTypeOK
<1>3. q \notin PatchCall
  BY <1>2, FullIs
<1>4. SnapshotOK(db, {})
  BY DEF SnapshotOK, SocialInv, DocsOK
<1> HIDE DEF q
<1>. QED  BY <1>1, <1>2, <1>3, <1>4, OpenKeeps

\* A patch reads the post it is of.
LEMMA OpenPatch ==
    ASSUME SocialInv, NEW c \in Caller, NEW on \in Post, NEW patch \in PatchOf,
           "pub" \in DOMAIN patch /\ patch.pub = "published" => sent[on] > 0,
           Open(c, "patch", on, patch), UNCHANGED <<db, lost, sent>>
    PROVE  CallsOK' /\ call' \in Calling /\ \A t \in Tab : call'[t] \in {NoCall} \cup PatchCall
<1> DEFINE snap == [post |-> [p \in {on} |-> db.post[p]]]
           q == [kind |-> "patch", on |-> on, patch |-> patch, snap |-> snap, late |-> {}]
<1>1. call' = [call EXCEPT ![c] = q]
  BY DEF Open, Snapshot
<1>2. db.post[on] \in Payload
  BY DEF SocialInv, SocialTypeOK, Docs
<1>3. snap \in [post : [{on} -> Payload]] /\ snap.post[on] = db.post[on]
  BY <1>2
<1> HIDE DEF snap
<1>4. /\ q \in [kind : {"patch"}, on : {on}, patch : PatchOf, snap : [post : [{on} -> Payload]],
                late : SUBSET RowName]
      /\ q.snap = snap /\ q.on = on /\ q.patch = patch
  BY <1>3
<1>5. q \in PatchCall
  BY <1>4 DEF PatchCall
<1>6. q \notin FullCall
  BY <1>5, PatchIs
<1>7. PatchedOK(q)
  BY <1>3, <1>4 DEF PatchedOK
<1> HIDE DEF q
<1>. QED  BY <1>1, <1>5, <1>6, <1>7, OpenKeeps

\* What each kind of patch names.
LEMMA PatchesAre ==
    ASSUME NEW kind \in DOMAIN Patches, NEW patch \in Patches[kind]
    PROVE  /\ patch \in PatchOf
           /\ kind # "published" /\ "pub" \in DOMAIN patch => patch.pub # "published"
<1>1. kind \in {"media", "reject", "approve", "move", "edit", "publishing", "published", "failed"}
  BY DEF Patches
<1>2. CASE kind = "media"
  BY <1>2 DEF Patches, PatchOf
<1>3. CASE kind = "reject"
  <2>1. patch = [appr |-> "rejected"]
    BY <1>3 DEF Patches
  <2>. QED  BY <1>3, <2>1 DEF PatchOf, ApprState
<1>4. CASE kind = "approve"
  <2>1. patch = [pub |-> "pending", appr |-> "approved"]
    BY <1>4 DEF Patches
  <2>. QED  BY <1>4, <2>1 DEF PatchOf, ApprState, Live, PubState
<1>5. CASE kind = "edit"
  <2>1. patch \in [pub : {"pending"}, appr : {"pending", "approved"}]
    BY <1>5 DEF Patches
  <2>. QED  BY <1>5, <2>1 DEF PatchOf, ApprState, Live, PubState
<1>6. CASE kind \in {"move", "publishing", "published", "failed"}
  <2>1. \E status \in {"pending", "publishing", "published", "failed"} :
            patch = [pub |-> status] /\ (kind # "published" => status # "published")
    BY <1>6 DEF Patches
  <2>. QED  BY <2>1 DEF PatchOf, Live, PubState
<1>. QED  BY <1>1, <1>2, <1>3, <1>4, <1>5, <1>6

\* A step that writes one post's row at once: plans it, deletes it or claims it.
LEMMA PostWrite ==
    ASSUME SocialInv, NEW p \in Post, NEW new \in Payload, new.pub \notin {"none", "published"},
           db.post[p].pub # "deleted", p \in Flow => db.post[p].pub # "none",
           db' = [db EXCEPT !.post[p] = new], call' = Overtake(call, {<<"post", p>>}),
           UNCHANGED <<sent, lost>>
    PROVE  /\ db' \in Docs /\ DocsOK' /\ CallsOK' /\ call' \in Calling
           /\ \A t \in Tab : call'[t] \in {NoCall} \cup PatchCall
           /\ \A x \in Post : db'.post[x] = IF x = p THEN new ELSE db.post[x]
<1>1. db \in Docs
  BY DEF SocialInv, SocialTypeOK
<1>2. /\ db' \in Docs
      /\ db'.store = db.store /\ db'.flow = db.flow /\ db'.owner = db.owner
      /\ \A x \in Post : db'.post[x] = IF x = p THEN new ELSE db.post[x]
  BY <1>1 DEF Docs
<1>3. DocsOK'
  <2>1. Paired(db')
    BY <1>2 DEF SocialInv, DocsOK, Paired, Post
  <2>2. SentIn(db)'
    BY <1>2 DEF SocialInv, DocsOK, SentIn
  <2>3. \A s \in Store : StoreOK(s)'
    BY <1>2 DEF SocialInv, DocsOK, StoreOK, ActiveOf, FlowsOf
  <2>. QED  BY <2>1, <2>2, <2>3 DEF DocsOK, Paired
<1>4. CallsOK' /\ call' \in Calling /\ \A t \in Tab : call'[t] \in {NoCall} \cup PatchCall
  <2> DEFINE R == {<<"post", p>>}
  <2>1. R \in SUBSET RowName /\ call \in Calling /\ \A c \in Caller : call[c] \in {NoCall, call[c]}
    BY DEF RowName, SocialInv, SocialTypeOK
  <2>2. \A x \in Post : db.post[x].pub = "deleted" => db'.post[x].pub = "deleted"
    BY <1>2
  <2>3. \A x \in Post : <<"post", x>> \notin R => db'.post[x] = db.post[x]
    BY <1>2
  <2>4. \A w \in Flow : db.flow[w] # "none" => db'.flow[w] # "none" /\ db'.owner[w] = db.owner[w]
    BY <1>2
  <2>5. \A s \in Store : <<"store", s>> \notin R => ActiveOf(db', s) \subseteq ActiveOf(db, s)
    BY <1>2 DEF ActiveOf, FlowsOf
  <2>6. /\ call' = Overtake(call, R) /\ lost \subseteq lost'
        /\ \A x \in Post : sent[x] > 0 => sent'[x] > 0
    OBVIOUS
  <2> HIDE DEF R
  <2>. QED  BY <2>1, <2>2, <2>3, <2>4, <2>5, <2>6, CallsKept
<1>. QED  BY <1>2, <1>3, <1>4

\* An operator sends a request.
LEMMA AskInv == ASSUME SocialInv, NEW u \in User, Ask(u) PROVE SocialInv'
<1>1. UNCHANGED <<db, tab, sent, armed, revived, lost>> /\ u \in Caller
  BY DEF Ask, Caller
<1>2. \/ \E s \in Store : Open(u, "approve", s, <<>>) \/ Open(u, "reject", s, <<>>)
      \/ \E w \in Flow : Open(u, "dispatch", w, <<>>)
      \/ \E p \in Post : \E kind \in {"media", "reject", "approve", "move", "edit"} :
            \E patch \in Patches[kind] : Open(u, "patch", p, patch)
  BY DEF Ask
<1>3. CallsOK' /\ call' \in Calling /\ \A t \in Tab : call'[t] \in {NoCall} \cup PatchCall
  <2>1. ASSUME NEW s \in Store, Open(u, "approve", s, <<>>) \/ Open(u, "reject", s, <<>>)
        PROVE  CallsOK' /\ call' \in Calling /\ \A t \in Tab : call'[t] \in {NoCall} \cup PatchCall
    BY <1>1, <2>1, OpenFull
  <2>2. ASSUME NEW w \in Flow, Open(u, "dispatch", w, <<>>)
        PROVE  CallsOK' /\ call' \in Calling /\ \A t \in Tab : call'[t] \in {NoCall} \cup PatchCall
    BY <1>1, <2>2, OpenFull
  <2>3. ASSUME NEW p \in Post, NEW kind \in {"media", "reject", "approve", "move", "edit"},
               NEW patch \in Patches[kind], Open(u, "patch", p, patch)
        PROVE  CallsOK' /\ call' \in Calling /\ \A t \in Tab : call'[t] \in {NoCall} \cup PatchCall
    <3>1. kind \in DOMAIN Patches /\ kind # "published"
      BY DEF Patches
    <3>2. patch \in PatchOf /\ ("pub" \in DOMAIN patch => patch.pub # "published")
      BY <3>1, PatchesAre
    <3>. QED  BY <1>1, <2>3, <3>2, OpenPatch
  <2>. QED  BY <1>2, <2>1, <2>2, <2>3
<1>4. DocsOK'
  BY <1>1, DocsKept
<1>5. SocialTypeOK' /\ TabsOK'
  BY <1>1, <1>3 DEF SocialInv, SocialTypeOK, TabsOK
<1>6. ArmedOK'
  BY <1>1 DEF SocialInv, ArmedOK, Busy, Pend
<1>. QED  BY <1>3, <1>4, <1>5, <1>6 DEF SocialInv

\* An operator's request is answered: the commit of its handler.
LEMMA FinishInv == ASSUME SocialInv, NEW u \in User, Finish(u) PROVE SocialInv'
<1>1. /\ UNCHANGED <<tab, sent>> /\ u \in Caller /\ call[u] # NoCall
      /\ call[u] \in FullCall \cup PatchCall /\ Answer(u)
  BY DEF Finish, Caller, SocialInv, SocialTypeOK, Calling
<1>2. /\ tab' \in [Tab -> TabState] /\ \A p \in Post : Busy(p)' \subseteq Busy(p)
      /\ \A t \in Tab : tab'[t].at = "delivered" => tab'[t] = tab[t]
  BY <1>1 DEF SocialInv, SocialTypeOK, Busy
<1>3. ASSUME NEW wr, Commit(u, wr), wr.rows \in SUBSET RowName,
             ~RowGone(u, wr.rows) => RowsOK(u, wr.rows, wr.docs)
      PROVE  SocialInv'
  BY <1>1, <1>2, <1>3, CommitInv
<1>4. CASE call[u] \in FullCall /\ call[u].kind = "approve"
  <2>1. \/ \E w \in Flow : db.flow[w] = "none"
                             /\ Commit(u, ApproveStore(call[u].snap, call[u].on, w))
        \/ Commit(u, Nothing(call[u].snap))
    BY <1>1, <1>4 DEF Answer
  <2>2. ASSUME NEW w \in Flow, db.flow[w] = "none",
               Commit(u, ApproveStore(call[u].snap, call[u].on, w))
        PROVE  SocialInv'
    BY <1>1, <1>3, <1>4, <2>2, ApproveRows
  <2>3. CASE Commit(u, Nothing(call[u].snap))
    <3>1. Nothing(call[u].snap).rows = {}
      BY DEF Nothing, Writes
    <3>. QED  BY <1>3, <2>3, <3>1, NoRows
  <2>. QED  BY <2>1, <2>2, <2>3
<1>5. CASE call[u] \in FullCall /\ call[u].kind = "reject"
  <2>1. Commit(u, RejectStore(call[u].snap, call[u].on))
    BY <1>1, <1>5 DEF Answer
  <2>. QED  BY <1>1, <1>3, <1>5, <2>1, RejectRows
<1>6. CASE call[u] \in FullCall /\ call[u].kind = "dispatch"
  <2>1. PICK due \in BOOLEAN : Commit(u, Dispatch(call[u].snap, call[u].on, due))
    BY <1>1, <1>6 DEF Answer
  <2>. QED  BY <1>1, <1>3, <1>6, <2>1, DispatchRows
<1>7. CASE call[u] \in PatchCall
  <2>1. Commit(u, PatchPost(call[u].snap, call[u].on, call[u].patch))
    BY <1>1, <1>7, PatchIs DEF Answer
  <2>. QED  BY <1>1, <1>3, <1>7, <2>1, PatchRows
<1>. QED  BY <1>1, <1>4, <1>5, <1>6, <1>7, FullIs

\* A store is created.
LEMMA CreateStoreInv == ASSUME SocialInv, NEW s \in Store, CreateStore(s) PROVE SocialInv'
<1> DEFINE R == {<<"store", s>>}
<1>1. /\ db' = [db EXCEPT !.store[s] = "pending_approval"] /\ call' = Overtake(call, R)
      /\ armed' = [p \in Post |-> IF p \in {} THEN armed[p] + 1 ELSE armed[p]]
      /\ db.store[s] = "none" /\ UNCHANGED <<tab, sent, revived, lost>>
  BY DEF CreateStore, WriteNow
<1>2. /\ db \in Docs /\ armed \in [Post -> Nat] /\ call \in Calling
      /\ R \in SUBSET RowName
  BY DEF SocialInv, SocialTypeOK, RowName
<1>3. /\ db' \in Docs
      /\ db'.post = db.post /\ db'.flow = db.flow /\ db'.owner = db.owner
      /\ \A x \in Store : db'.store[x] = IF x = s THEN "pending_approval" ELSE db.store[x]
      /\ armed' = armed
  BY <1>1, <1>2 DEF Docs, StoreState
<1> HIDE DEF R
<1>4. CallsOK' /\ call' \in Calling /\ \A t \in Tab : call'[t] \in {NoCall} \cup PatchCall
  <2>1. /\ \A x \in Post : sent[x] > 0 => sent'[x] > 0
        /\ \A c \in Caller : call[c] \in {NoCall, call[c]}
        /\ lost \subseteq lost'
    BY <1>1
  <2>2. /\ \A x \in Post : db.post[x].pub = "deleted" => db'.post[x].pub = "deleted"
        /\ \A x \in Post : <<"post", x>> \notin R => db'.post[x] = db.post[x]
        /\ \A w \in Flow : db.flow[w] # "none" => db'.flow[w] # "none" /\ db'.owner[w] = db.owner[w]
    BY <1>3
  <2>3. \A x \in Store : <<"store", x>> \notin R => ActiveOf(db', x) \subseteq ActiveOf(db, x)
    BY <1>3 DEF ActiveOf, FlowsOf
  <2>. QED  BY <1>1, <1>2, <2>1, <2>2, <2>3, CallsKept
<1>5. DocsOK'
  <2>1. Paired(db')
    BY <1>3 DEF SocialInv, DocsOK, Paired
  <2>2. SentIn(db)'
    BY <1>1, <1>3 DEF SocialInv, DocsOK, SentIn
  <2>3. \A x \in Store : StoreOK(x)'
    BY <1>1, <1>3 DEF SocialInv, DocsOK, StoreOK, ActiveOf, FlowsOf
  <2>. QED  BY <2>1, <2>2, <2>3 DEF DocsOK, Paired
<1>6. SocialTypeOK' /\ TabsOK'
  BY <1>1, <1>3, <1>4 DEF SocialInv, SocialTypeOK, TabsOK
<1>7. ArmedOK'
  BY <1>1, <1>3 DEF SocialInv, ArmedOK, Busy, Pend
<1>. QED  BY <1>4, <1>5, <1>6, <1>7 DEF SocialInv

\* A post is planned by hand, and so armed.
LEMMA PlanPostInv == ASSUME SocialInv, NEW p \in Post, PlanPost(p) PROVE SocialInv'
<1>1. PICK payload \in Patches.edit :
         /\ db' = [db EXCEPT !.post[p] = payload] /\ call' = Overtake(call, {<<"post", p>>})
         /\ armed' = [x \in Post |-> IF x \in {p} THEN armed[x] + 1 ELSE armed[x]]
  BY DEF PlanPost, WriteNow
<1>2. UNCHANGED <<tab, sent, revived, lost>> /\ p \notin Flow /\ db.post[p].pub = "none"
  BY SocialAssumption DEF PlanPost, WriteNow
<1>3. payload \in Payload /\ payload.pub = "pending"
  BY DEF Patches, Payload, PubState, ApprState
<1>4. /\ db' \in Docs /\ DocsOK' /\ CallsOK' /\ call' \in Calling
      /\ \A t \in Tab : call'[t] \in {NoCall} \cup PatchCall
      /\ \A x \in Post : db'.post[x] = IF x = p THEN payload ELSE db.post[x]
  BY <1>1, <1>2, <1>3, PostWrite
<1>5. /\ armed \in [Post -> Nat] /\ revived \in [Post -> Nat]
      /\ armed' \in [Post -> Nat] /\ \A x \in Post : armed'[x] = IF x = p THEN armed[x] + 1 ELSE armed[x]
  BY <1>1 DEF SocialInv, SocialTypeOK
<1>6. SocialTypeOK' /\ TabsOK'
  BY <1>2, <1>4, <1>5 DEF SocialInv, SocialTypeOK, TabsOK
<1>7. ArmedOK'
  <2>1. \A x \in Post : Busy(x)' \subseteq Busy(x)
    BY <1>2 DEF Busy
  <2>2. ASSUME NEW x \in Post
        PROVE  \/ db'.post[x].pub = db.post[x].pub /\ armed'[x] + revived'[x] = armed[x] + revived[x]
               \/ armed'[x] + revived'[x] = armed[x] + revived[x] + 1
    BY <1>2, <1>4, <1>5
  <2>3. revived' \in [Post -> Nat] /\ \A x \in Post : sent'[x] = sent[x]
    BY <1>2, <1>5
  <2>. QED  BY <1>5, <2>1, <2>2, <2>3, ArmedKept
<1>. QED  BY <1>4, <1>6, <1>7 DEF SocialInv

\* A post is deleted, whatever is under way with it.
LEMMA DeletePostInv == ASSUME SocialInv, NEW p \in Post, DeletePost(p) PROVE SocialInv'
<1> DEFINE new == [db.post[p] EXCEPT !.pub = "deleted"]
<1>1. /\ db' = [db EXCEPT !.post[p].pub = "deleted"] /\ call' = Overtake(call, {<<"post", p>>})
      /\ armed' = [x \in Post |-> IF x \in {} THEN armed[x] + 1 ELSE armed[x]]
      /\ UNCHANGED <<tab, sent, revived, lost>> /\ IsRow(db, p)
  BY DEF DeletePost, WriteNow
<1>2. /\ db \in Docs /\ armed \in [Post -> Nat] /\ revived \in [Post -> Nat]
  BY DEF SocialInv, SocialTypeOK
<1>3. new \in Payload /\ new.pub = "deleted" /\ db' = [db EXCEPT !.post[p] = new]
  BY <1>1, <1>2 DEF Docs, Payload, PubState
<1>4. db.post[p].pub \notin {"none", "deleted"} /\ armed' = armed
  BY <1>1, <1>2 DEF IsRow
<1> HIDE DEF new
<1>5. /\ db' \in Docs /\ DocsOK' /\ CallsOK' /\ call' \in Calling
      /\ \A t \in Tab : call'[t] \in {NoCall} \cup PatchCall
      /\ \A x \in Post : db'.post[x] = IF x = p THEN new ELSE db.post[x]
  BY <1>1, <1>3, <1>4, PostWrite
<1>6. SocialTypeOK' /\ TabsOK'
  BY <1>1, <1>2, <1>4, <1>5 DEF SocialInv, SocialTypeOK, TabsOK
<1>7. ArmedOK'
  <2>1. \A x \in Post : Busy(x)' \subseteq Busy(x)
    BY <1>1 DEF Busy
  <2>2. \A x \in Post : db'.post[x].pub # "pending" \/ db'.post[x] = db.post[x]
    BY <1>3, <1>5
  <2>. QED  BY <1>1, <1>2, <1>4, <2>1, <2>2, ArmedKept
<1>. QED  BY <1>5, <1>6, <1>7 DEF SocialInv

\* Where a tab is, and where it goes.
LEMMA TabIs ==
    ASSUME SocialTypeOK, NEW t \in Tab
    PROVE  /\ tab[t].at # "idle" => tab[t] \in [at : AtPost, post : Post]
           /\ tab[t] = Idle => tab[t].at = "idle"
           /\ tab[t] # Idle => tab[t].at \in AtPost
           /\ t \in Caller
BY DEF SocialTypeOK, TabState, Idle, AtPost, Caller

\* A tab goes on with its post.
LEMMA SetTabIs ==
    ASSUME SocialTypeOK, NEW t \in Tab, tab[t].at # "idle", NEW at \in AtPost, SetTab(t, at)
    PROVE  /\ tab' \in [Tab -> TabState] /\ tab'[t].at = at /\ tab'[t].post = tab[t].post
           /\ \A x \in Tab : x # t => tab'[x] = tab[x]
<1>1. tab[t] \in [at : AtPost, post : Post] /\ tab \in [Tab -> TabState]
  BY TabIs DEF SocialTypeOK
<1> DEFINE there == [tab[t] EXCEPT !.at = at]
<1>2. there \in [at : AtPost, post : Post] /\ there.at = at /\ there.post = tab[t].post
  BY <1>1
<1>3. tab' = [tab EXCEPT ![t] = there]
  BY DEF SetTab
<1> HIDE DEF there
<1>. QED  BY <1>1, <1>2, <1>3 DEF TabState

\* A tab is done with its post.
LEMMA LeaveIs ==
    ASSUME SocialTypeOK, NEW t \in Tab, Leave(t)
    PROVE  /\ tab' \in [Tab -> TabState] /\ tab'[t] = Idle /\ tab'[t].at = "idle"
           /\ \A x \in Tab : x # t => tab'[x] = tab[x]
BY DEF SocialTypeOK, Leave, TabState, Idle

\* A step of a tab that touches neither documents nor requests nor counts, and takes
\* no post up.
LEMMA TabMoves ==
    ASSUME SocialInv, tab' \in [Tab -> TabState], \A p \in Post : Busy(p)' \subseteq Busy(p),
           \A t \in Tab : tab'[t].at = "delivered" => tab'[t] = tab[t],
           UNCHANGED <<db, call, sent, armed, revived, lost>>
    PROVE  SocialInv'
<1>1. DocsOK'
  BY DocsKept
<1>2. CallsOK'
  BY DEF SocialInv, CallsOK, SnapshotOK, PatchedOK, Paired, SentIn, ActiveOf, FlowsOf
<1>3. SocialTypeOK' /\ TabsOK'
  BY DEF SocialInv, SocialTypeOK, TabsOK
<1>4. armed' \in [Post -> Nat] /\ revived' \in [Post -> Nat]
  BY DEF SocialInv, SocialTypeOK
<1>5. ArmedOK'
  BY <1>4, ArmedKept
<1>. QED  BY <1>1, <1>2, <1>3, <1>5 DEF SocialInv

\* A tab finds a post due.
LEMMA LookInv == ASSUME SocialInv, NEW t \in Tab, NEW p \in Post, Look(t, p) PROVE SocialInv'
<1> DEFINE there == [at |-> "due", post |-> p]
<1>1. /\ tab' = [tab EXCEPT ![t] = there] /\ UNCHANGED <<db, call, sent, armed, revived, lost>>
      /\ tab[t] = Idle
  BY DEF Look
<1>2. there \in TabState /\ there.at = "due"
  BY DEF TabState, AtPost
<1> HIDE DEF there
<1>3. tab' \in [Tab -> TabState] /\ \A x \in Tab : tab'[x] = IF x = t THEN there ELSE tab[x]
  BY <1>1, <1>2 DEF SocialInv, SocialTypeOK
<1>4. \A x \in Post : Busy(x)' \subseteq Busy(x)
  BY <1>2, <1>3 DEF Busy
<1>. QED  BY <1>1, <1>2, <1>3, <1>4, TabMoves

\* A tab leaves its post as it is.
LEMMA CloseTabInv == ASSUME SocialInv, NEW t \in Tab, Leave(t),
                            UNCHANGED <<db, call, sent, armed, revived, lost>>
                     PROVE  SocialInv'
<1>1. /\ tab' \in [Tab -> TabState] /\ tab'[t].at = "idle"
      /\ \A x \in Tab : x # t => tab'[x] = tab[x]
  BY LeaveIs DEF SocialInv
<1>2. \A x \in Post : Busy(x)' \subseteq Busy(x)
  BY <1>1 DEF Busy
<1>. QED  BY <1>1, <1>2, TabMoves

\* A claim turns what is pending into what is under way, in one locked step.
LEMMA ClaimInv == ASSUME SocialInv, NEW t \in Tab, Claim(t) PROVE SocialInv'
<1>1. /\ tab[t].at = "due" /\ UNCHANGED <<sent, armed, revived, lost>> /\ SocialTypeOK
  BY DEF Claim, SocialInv
<1>2. PICK p \in Post : p = tab[t].post
  BY <1>1, TabIs
<1> DEFINE new == [db.post[p] EXCEPT !.pub = "publishing"]
<1>3. CASE ~MayClaim(p)
  <2>1. Leave(t) /\ UNCHANGED <<db, call>>
    BY <1>2, <1>3 DEF Claim
  <2>. QED  BY <1>1, <2>1, CloseTabInv
<1>4. CASE MayClaim(p)
  <2>1. /\ db' = [db EXCEPT !.post[p].pub = "publishing"]
        /\ call' = Overtake(call, {<<"post", p>>}) /\ SetTab(t, "claimed")
    BY <1>2, <1>4 DEF Claim
  <2>2. db \in Docs /\ db.post[p] \in Payload
    BY <1>1, <1>2 DEF SocialTypeOK, Docs
  <2>3. db.post[p].pub = "pending"
    BY <1>4, <2>2 DEF MayClaim, IsRow, Payload, PubState
  <2>4. new \in Payload /\ new.pub = "publishing" /\ db' = [db EXCEPT !.post[p] = new]
    BY <1>2, <2>1, <2>2 DEF Docs, Payload, PubState
  <2> HIDE DEF new
  <2>5. /\ db' \in Docs /\ DocsOK' /\ CallsOK' /\ call' \in Calling
        /\ \A x \in Tab : call'[x] \in {NoCall} \cup PatchCall
        /\ \A x \in Post : db'.post[x] = IF x = p THEN new ELSE db.post[x]
    BY <1>1, <2>1, <2>3, <2>4, PostWrite
  <2>6. /\ tab' \in [Tab -> TabState] /\ tab'[t].at = "claimed" /\ tab'[t].post = p
        /\ \A x \in Tab : x # t => tab'[x] = tab[x]
    BY <1>1, <1>2, <2>1, SetTabIs DEF AtPost
  <2>7. SocialTypeOK' /\ TabsOK'
    BY <1>1, <2>5, <2>6 DEF SocialInv, SocialTypeOK, TabsOK
  <2>8. /\ Busy(p)' = Busy(p) \cup {t} /\ t \notin Busy(p)
        /\ \A x \in Post : x # p => Busy(x)' = Busy(x)
    BY <1>1, <1>2, <2>6 DEF Busy
  <2>9. ArmedOK'
    <3> SUFFICES ASSUME NEW x \in Post
                 PROVE  sent[x] + Cardinality(Busy(x)') + Pend(x)' <= armed[x] + revived[x]
      BY <1>1 DEF ArmedOK
    <3>1. sent[x] + Cardinality(Busy(x)) + Pend(x) <= armed[x] + revived[x]
      BY DEF SocialInv, ArmedOK
    <3>2. CASE x = p
      <4>1. Pend(x) = 1 /\ Pend(x)' = 0
        BY <2>3, <2>4, <2>5, <3>2 DEF Pend
      <4>2. IsFiniteSet(Busy(x)) /\ Cardinality(Busy(x)) \in Nat
        BY BusyFinite
      <4>5. Busy(x)' = Busy(x) \cup {t} /\ t \notin Busy(x)
        BY <2>8, <3>2
      <4>3. Cardinality(Busy(x)') = Cardinality(Busy(x)) + 1
        BY <4>2, <4>5, FS_AddElement
      <4>4. sent[x] \in Nat /\ armed[x] \in Nat /\ revived[x] \in Nat
        BY <1>1 DEF SocialTypeOK
      <4>. QED  BY <3>1, <4>1, <4>2, <4>3, <4>4
    <3>3. CASE x # p
      BY <2>5, <2>8, <3>1, <3>3 DEF Pend
    <3>. QED  BY <3>2, <3>3
  <2>. QED  BY <2>5, <2>7, <2>9 DEF SocialInv
<1>. QED  BY <1>3, <1>4

\* A tab sends the status it has reached.
LEMMA TabPatchInv == ASSUME SocialInv, NEW t \in Tab, TabPatch(t) PROVE SocialInv'
<1> DEFINE p == tab[t].post
<1>1. /\ tab[t].at \in {"claimed", "delivered", "refused"} /\ SocialTypeOK
      /\ UNCHANGED <<db, sent, armed, revived, lost>>
  BY DEF TabPatch, TabPatches, SocialInv
<1>2. p \in Post /\ t \in Caller
  BY <1>1, TabIs
<1>3. PICK kind \in {"publishing", "published", "failed"} :
        /\ kind = TabPatches[tab[t].at] /\ (kind = "published" => tab[t].at = "delivered")
  BY <1>1 DEF TabPatches
<1>4. PICK patch \in Patches[kind] : Open(t, "patch", p, patch)
  BY <1>3 DEF TabPatch
<1>5. patch \in PatchOf /\ (kind # "published" /\ "pub" \in DOMAIN patch => patch.pub # "published")
  <2>1. kind \in DOMAIN Patches
    BY DEF Patches
  <2>. QED  BY <2>1, PatchesAre
<1>6. kind = "published" => sent[p] > 0
  BY <1>3 DEF SocialInv, TabsOK
<1>7. CallsOK' /\ call' \in Calling /\ \A x \in Tab : call'[x] \in {NoCall} \cup PatchCall
  <2> HIDE DEF p
  <2>. QED  BY <1>1, <1>2, <1>4, <1>5, <1>6, OpenPatch
<1>8. /\ tab' \in [Tab -> TabState] /\ tab'[t].at \in {"marking", "idle"}
      /\ tab'[t].at = "marking" => tab[t].at = "claimed" /\ tab'[t].post = p
      /\ \A x \in Tab : x # t => tab'[x] = tab[x]
  <2>1. CASE tab[t].at = "claimed"
    <3>1. SetTab(t, "marking")
      BY <2>1 DEF TabPatch
    <3>. QED  BY <1>1, <2>1, <3>1, SetTabIs DEF AtPost
  <2>2. CASE tab[t].at # "claimed"
    <3>1. Leave(t)
      BY <2>2 DEF TabPatch
    <3>. QED  BY <1>1, <3>1, LeaveIs
  <2>. QED  BY <2>1, <2>2
<1>9. \A x \in Post : Busy(x)' \subseteq Busy(x)
  BY <1>8 DEF Busy
<1>10. DocsOK'
  BY <1>1, DocsKept
<1>11. SocialTypeOK' /\ TabsOK'
  BY <1>1, <1>7, <1>8 DEF SocialInv, SocialTypeOK, TabsOK
<1>12. ArmedOK'
  BY <1>1, <1>9, ArmedKept DEF SocialTypeOK
<1>. QED  BY <1>7, <1>10, <1>11, <1>12 DEF SocialInv

\* A tab's patch is answered.
LEMMA TabAnswerInv == ASSUME SocialInv, NEW t \in Tab, TabAnswer(t) PROVE SocialInv'
<1> DEFINE wr == PatchPost(call[t].snap, call[t].on, call[t].patch)
<1>1. /\ call[t] # NoCall /\ call[t] \in PatchCall /\ t \in Caller /\ SocialTypeOK
      /\ Commit(t, wr) /\ UNCHANGED sent
  BY DEF TabAnswer, SocialInv, SocialTypeOK, Caller
<1>2. /\ wr.rows \in SUBSET RowName
      /\ ~RowGone(t, wr.rows) => RowsOK(t, wr.rows, wr.docs)
  BY <1>1, PatchRows
<1>3. \/ tab[t].at = "marking" /\ SetTab(t, "posting")
      \/ Leave(t)
  BY DEF TabAnswer
<1> HIDE DEF wr
<1>4. /\ tab' \in [Tab -> TabState] /\ tab'[t].at \in {"posting", "idle"}
      /\ tab'[t].at = "posting" => tab[t].at = "marking" /\ tab'[t].post = tab[t].post
      /\ \A x \in Tab : x # t => tab'[x] = tab[x]
  <2>1. CASE tab[t].at = "marking" /\ SetTab(t, "posting")
    BY <1>1, <2>1, SetTabIs DEF AtPost
  <2>2. CASE Leave(t)
    BY <1>1, <2>2, LeaveIs
  <2>. QED  BY <1>3, <2>1, <2>2
<1>5. \A x \in Post : Busy(x)' \subseteq Busy(x)
  BY <1>4 DEF Busy
<1>6. \A x \in Tab : tab'[x].at = "delivered" => tab'[x] = tab[x]
  BY <1>4
<1>. QED  BY <1>1, <1>2, <1>4, <1>5, <1>6, CommitInv

\* A delivery turns what is under way into what was sent.
LEMMA DeliverInv == ASSUME SocialInv, NEW t \in Tab, Deliver(t) PROVE SocialInv'
<1>1. /\ tab[t].at = "posting" /\ SocialTypeOK /\ UNCHANGED <<db, call, armed, revived, lost>>
  BY DEF Deliver, SocialInv
<1>2. PICK p \in Post : p = tab[t].post /\ sent \in [Post -> Nat]
  BY <1>1, TabIs DEF SocialTypeOK
<1>3. PICK delivered \in BOOLEAN :
        /\ sent' = [sent EXCEPT ![p] = IF delivered THEN sent[p] + 1 ELSE sent[p]]
        /\ \/ SetTab(t, IF delivered THEN "delivered" ELSE "refused")
           \/ SetTab(t, "refused")
           \/ Leave(t)
  BY <1>2 DEF Deliver
<1>4. /\ sent' \in [Post -> Nat]
      /\ \A x \in Post : sent'[x] = IF x = p /\ delivered THEN sent[x] + 1 ELSE sent[x]
  BY <1>2, <1>3
<1>5. /\ tab' \in [Tab -> TabState] /\ tab'[t].at \in {"delivered", "refused", "idle"}
      /\ tab'[t].at = "delivered" => delivered /\ tab'[t].post = p
      /\ \A x \in Tab : x # t => tab'[x] = tab[x]
  <2>1. CASE delivered /\ SetTab(t, "delivered")
    BY <1>1, <1>2, <2>1, SetTabIs DEF AtPost
  <2>2. CASE SetTab(t, "refused")
    BY <1>1, <1>2, <2>2, SetTabIs DEF AtPost
  <2>3. CASE Leave(t)
    BY <1>1, <2>3, LeaveIs
  <2>. QED  BY <1>3, <2>1, <2>2, <2>3
<1>6. \A x \in Post : sent[x] > 0 => sent'[x] > 0
  BY <1>2, <1>4
<1>7. CallsOK'
  <2>1. ASSUME NEW c \in Caller, call[c] \in FullCall PROVE SnapshotOK(call[c].snap, call[c].late)'
    <3>1. SnapshotOK(call[c].snap, call[c].late)
      BY <2>1 DEF SocialInv, CallsOK
    <3>2. SentIn(call[c].snap)'
      BY <1>1, <1>6, <3>1 DEF SnapshotOK, SentIn
    <3>. QED  BY <1>1, <3>1, <3>2 DEF SnapshotOK, Paired, ActiveOf, FlowsOf
  <2>2. ASSUME NEW c \in Caller, call[c] \in PatchCall PROVE PatchedOK(call[c])'
    <3>1. PatchedOK(call[c]) /\ call[c].on \in Post
      BY <2>2, PatchIs DEF SocialInv, CallsOK
    <3>. QED  BY <1>1, <1>6, <3>1 DEF PatchedOK
  <2>. QED  BY <1>1, <2>1, <2>2 DEF CallsOK
<1>8. DocsOK'
  BY <1>1, <1>6 DEF SocialInv, DocsOK, Paired, SentIn, StoreOK, ActiveOf, FlowsOf
<1>9. SocialTypeOK'
  BY <1>1, <1>4, <1>5 DEF SocialTypeOK
<1>10. TabsOK'
  <2> SUFFICES ASSUME NEW x \in Tab, tab'[x].at = "delivered" PROVE sent'[tab'[x].post] > 0
    BY DEF TabsOK
  <2>1. CASE x = t
    BY <1>2, <1>4, <1>5, <2>1
  <2>2. CASE x # t
    <3>1. tab'[x] = tab[x] /\ tab[x].post \in Post
      BY <1>1, <1>5, <2>2, TabIs
    <3>. QED  BY <1>6, <3>1 DEF SocialInv, TabsOK
  <2>. QED  BY <2>1, <2>2
<1>11. ArmedOK'
  <2>1. /\ Busy(p)' = Busy(p) \ {t} /\ t \in Busy(p)
        /\ \A x \in Post : x # p => Busy(x)' = Busy(x)
    <3>1. \A x \in Post : t \in Busy(x) <=> x = p
      BY <1>1, <1>2 DEF Busy
    <3>2. \A x \in Post : Busy(x)' = Busy(x) \ {t}
      BY <1>5 DEF Busy
    <3>. QED  BY <1>2, <3>1, <3>2
  <2> SUFFICES ASSUME NEW x \in Post
               PROVE  sent'[x] + Cardinality(Busy(x)') + Pend(x)' <= armed[x] + revived[x]
    BY <1>1 DEF ArmedOK
  <2>2. sent[x] + Cardinality(Busy(x)) + Pend(x) <= armed[x] + revived[x]
    BY DEF SocialInv, ArmedOK
  <2>3. Pend(x)' = Pend(x) /\ Pend(x) \in Nat
    BY <1>1 DEF Pend
  <2>4. CASE x = p
    <3>1. IsFiniteSet(Busy(x)) /\ Cardinality(Busy(x)) \in Nat
      BY BusyFinite
    <3>4. Busy(x)' = Busy(x) \ {t} /\ t \in Busy(x)
      BY <2>1, <2>4
    <3>2. Cardinality(Busy(x)') = Cardinality(Busy(x)) - 1
      BY <3>1, <3>4, FS_RemoveElement
    <3>3. sent[x] \in Nat /\ armed[x] \in Nat /\ revived[x] \in Nat /\ sent'[x] <= sent[x] + 1
          /\ sent'[x] \in Nat
      BY <1>1, <1>4 DEF SocialTypeOK
    <3>. QED  BY <2>2, <2>3, <3>1, <3>2, <3>3
  <2>5. CASE x # p
    BY <1>4, <2>1, <2>2, <2>3, <2>5
  <2>. QED  BY <2>4, <2>5
<1>. QED  BY <1>7, <1>8, <1>9, <1>10, <1>11 DEF SocialInv

\* Every step of an operator's request and of a tab keeps the invariant.
LEMMA SocialInvNext == SocialInv /\ [SocialNext]_socialVars => SocialInv'
<1> SUFFICES ASSUME SocialInv, [SocialNext]_socialVars PROVE SocialInv'
  OBVIOUS
<1>1. CASE UNCHANGED socialVars
  <2>1. UNCHANGED <<db, call, tab, sent, armed, revived, lost>>
    BY <1>1 DEF socialVars
  <2>2. /\ tab' \in [Tab -> TabState] /\ \A p \in Post : Busy(p)' \subseteq Busy(p)
        /\ \A t \in Tab : tab'[t].at = "delivered" => tab'[t] = tab[t]
    BY <2>1 DEF SocialInv, SocialTypeOK, Busy
  <2>. QED  BY <2>1, <2>2, TabMoves
<1>2. ASSUME NEW u \in User, Ask(u) \/ Finish(u) PROVE SocialInv'
  BY <1>2, AskInv, FinishInv
<1>3. ASSUME NEW s \in Store, CreateStore(s) PROVE SocialInv'
  BY <1>3, CreateStoreInv
<1>4. ASSUME NEW p \in Post, PlanPost(p) \/ DeletePost(p) PROVE SocialInv'
  BY <1>4, PlanPostInv, DeletePostInv
<1>5. ASSUME NEW t \in Tab, NEW p \in Post, Look(t, p) PROVE SocialInv'
  BY <1>5, LookInv
<1>6. ASSUME NEW t \in Tab, Claim(t) \/ TabPatch(t) \/ TabAnswer(t) \/ Deliver(t) PROVE SocialInv'
  BY <1>6, ClaimInv, TabPatchInv, TabAnswerInv, DeliverInv
<1>7. ASSUME NEW t \in Tab, CloseTab(t) PROVE SocialInv'
  BY <1>7, CloseTabInv DEF CloseTab
<1>. QED  BY <1>1, <1>2, <1>3, <1>4, <1>5, <1>6, <1>7 DEF SocialNext

\* Type correctness of the documents, the open requests and the tabs.
THEOREM SocialTypeCorrect == SocialSpec => []SocialTypeOK
<1>1. SocialInv => SocialTypeOK
  BY DEF SocialInv
<1>. QED  BY SocialInvInit, SocialInvNext, <1>1, PTL DEF SocialSpec

\* A store has at most one active workflow, and none once it is rejected, as long
\* as no commit overwrote its own document unread (approve and reject of
\* social_media.py), even if one overwrote a workflow of it.
THEOREM StoresConsistentHolds == SocialSpec => []StoresConsistent
<1>1. SocialInv => StoresConsistent
  <2> SUFFICES ASSUME SocialInv, NEW s \in Store, <<"store", s>> \notin lost
               PROVE  /\ Cardinality(ActiveOf(db, s)) <= 1
                      /\ db.store[s] = "rejected" => ActiveOf(db, s) = {}
    BY DEF StoresConsistent
  <2>1. /\ \A v, w \in ActiveOf(db, s) : v = w
        /\ db.store[s] = "rejected" => ActiveOf(db, s) = {}
    BY DEF SocialInv, DocsOK, StoreOK
  <2>2. CASE ActiveOf(db, s) = {}
    BY <2>2, FS_EmptySet
  <2>3. CASE ActiveOf(db, s) # {}
    <3>1. PICK w \in ActiveOf(db, s) : ActiveOf(db, s) = {w}
      BY <2>1, <2>3
    <3>2. Cardinality(ActiveOf(db, s)) = 1
      BY <3>1, FS_Singleton
    <3>. QED  BY <2>1, <3>2
  <2>. QED  BY <2>1, <2>2, <2>3
<1>. QED  BY SocialInvInit, SocialInvNext, <1>1, PTL DEF SocialSpec

\* However many tabs sweep, a post is delivered once for every time it was put back
\* to pending (claim-publish and the sweep of social-media-auto-publish.js).
THEOREM SentOncePerArmingHolds == SocialSpec => []SentOncePerArming
<1>1. SocialInv => SentOncePerArming
  <2> SUFFICES ASSUME SocialInv, NEW p \in Post PROVE sent[p] <= armed[p] + revived[p]
    BY DEF SentOncePerArming
  <2>1. sent[p] + Cardinality(Busy(p)) + Pend(p) <= armed[p] + revived[p]
    BY DEF SocialInv, ArmedOK
  <2>2. /\ sent[p] \in Nat /\ armed[p] \in Nat /\ revived[p] \in Nat /\ Pend(p) \in Nat
        /\ Cardinality(Busy(p)) \in Nat
    BY BusyFinite DEF SocialInv, SocialTypeOK, Pend
  <2>. QED  BY <2>1, <2>2
<1>. QED  BY SocialInvInit, SocialInvNext, <1>1, PTL DEF SocialSpec

\* A post shown as published was delivered or its workflow dispatched, unless a
\* commit overwrote it unread (the patches and the dispatch of the HTTP handlers).
THEOREM PublishedWasSentHolds == SocialSpec => []PublishedWasSent
<1>1. SocialInv => PublishedWasSent
  BY DEF SocialInv, DocsOK, SentIn, PublishedWasSent
<1>. QED  BY SocialInvInit, SocialInvNext, <1>1, PTL DEF SocialSpec
=============================================================================
