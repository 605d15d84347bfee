-------------------------- MODULE GraphPublishing --------------------------
(***************************************************************************)
(* One request to put a post on Instagram and Facebook.  The wanted        *)
(* targets are served one after the other and each fails by itself.  On    *)
(* Instagram a piece is a container made first, waited for while Graph     *)
(* works on it, and then published; Graph may answer any call with an      *)
(* error, and an answer may be lost after the call took effect.            *)
(***************************************************************************)
EXTENDS Naturals, Sequences

CONSTANTS MaxPhotos  \* bound: photos of a post
ASSUME GraphAssumption == MaxPhotos \in Nat

VARIABLES
    post,             \* the request: its photos and videos
    todo,             \* targets still to be served, the one at work first
    at,               \* where its function is
    box,              \* Graph's state of the container at hand
    live,             \* how often each piece of each target was published
    results, errors,  \* targets the answer will name
    lost              \* ghost: pieces whose publication was not answered

graphVars == <<post, todo, at, box, live, results, errors, lost>>
answer    == <<results, errors>>

\* A video is a reel of its own in the feed, several photos are an album, and
\* each photo or video is a story of its own.
Reel          == Head(todo) = "feed" /\ post.videos = 1
Children(t)   == IF t # "story" /\ post.videos = 0 /\ post.photos > 1 THEN post.photos ELSE 0
PieceCount(t) == IF t = "story" THEN post.photos + post.videos ELSE 1

Start == [step |-> "make", piece |-> 1, child |-> 1, spare |-> 1, again |-> FALSE]

GraphInit ==
    /\ post = [photos |-> 0, videos |-> 0] /\ todo = <<>> /\ at = Start /\ box = "none"
    /\ results = {} /\ errors = {} /\ lost = {} /\ live = <<>>

\* The wanted targets, in the order they are served.
InOrder(wanted) ==
    LET IfWanted(t) == IF t \in wanted THEN <<t>> ELSE <<>>
    IN  IfWanted("feed") \o IfWanted("story") \o IfWanted("page")

\* The endpoint sorts the media and knows which targets are wanted.
AskToPost ==
    /\ post.photos + post.videos = 0
    /\ post' \in {p \in [photos : 0 .. MaxPhotos, videos : 0 .. 1] : p.photos + p.videos > 0}
    /\ \E wanted \in SUBSET {"feed", "story", "page"} :
           /\ todo' = InOrder(wanted)
           /\ live' = [t \in wanted |-> [p \in 1 .. PieceCount(t)' |-> 0]]
    /\ UNCHANGED <<at, box, answer, lost>>

(***************************************************************************)
(* How a target ends                                                       *)
(***************************************************************************)
Leave == todo' = Tail(todo) /\ at' = Start /\ box' = "none"

\* The exception reaches the endpoint, which goes on with the next target.
Fail == Leave /\ errors' = errors \cup {Head(todo)} /\ UNCHANGED results

\* Stories follow one another; the answer has all of them or none.
PieceDone ==
    IF at.piece < PieceCount(Head(todo))
    THEN at' = [Start EXCEPT !.piece = at.piece + 1] /\ box' = "none" /\ UNCHANGED <<todo, answer>>
    ELSE Leave /\ results' = results \cup {Head(todo)} /\ UNCHANGED errors

\* A precondition is refused, Graph answers with an error, a call fails before
\* it took effect, the container is of no use or the wait for it too long.
GraphRaises ==
    /\ todo # <<>> /\ Fail
    /\ UNCHANGED <<post, live, lost>>

(***************************************************************************)
(* Containers                                                              *)
(***************************************************************************)
IsChild == at.child <= Children(Head(todo))

\* A slide of the carousel is followed by the next, or by the carousel.
StepOn ==
    IF IsChild THEN at' = [Start EXCEPT !.child = at.child + 1] /\ box' = "none"
    ELSE at' = [at EXCEPT !.step = "publish", !.spare = 1] /\ UNCHANGED box

\* Facebook keeps an album's photos unpublished; its posts need no container.
Make ==
    /\ todo # <<>> /\ at.step = "make"
    /\ IF Head(todo) = "page" THEN StepOn
       ELSE at' = [at EXCEPT !.step = "wait"] /\ box' = "working"
    /\ UNCHANGED <<post, todo, live, answer, lost>>

\* Graph works on a container; an error may pass.
Process ==
    /\ \/ box = "working" /\ box' \in {"FINISHED", "ERROR", "EXPIRED"}
       \/ box = "ERROR" /\ box' = "FINISHED"
    /\ UNCHANGED <<post, todo, at, live, answer, lost>>

Ready ==
    /\ at.step = "wait" /\ box = "FINISHED"
    /\ StepOn
    /\ UNCHANGED <<post, todo, live, answer, lost>>

\* The first error is waited out, unless it is of the permanent kind.  A reel
\* whose wait ended so is made once more, to be kept out of the feed.
SeeError ==
    /\ at.step = "wait" /\ box = "ERROR"
    /\ \/ at.spare > 0 /\ at' = [at EXCEPT !.spare = 0] /\ UNCHANGED box
       \/ Reel /\ ~at.again /\ at' = [Start EXCEPT !.again = TRUE] /\ box' = "none"
    /\ UNCHANGED <<post, todo, live, answer, lost>>

(***************************************************************************)
(* Publication                                                             *)
(***************************************************************************)
PutOut == live' = [live EXCEPT ![Head(todo)][at.piece] = @ + 1] /\ UNCHANGED post

\* Slip: like a reel's error, a lost answer is met with another container.
UnansweredMadeAnew ==
    /\ PutOut /\ lost' = lost \cup {<<Head(todo), at.piece>>}
    /\ IF at.again THEN Fail
       ELSE /\ at' = [Start EXCEPT !.piece = at.piece, !.again = TRUE] /\ box' = "none"
            /\ UNCHANGED <<todo, answer>>

\* The call times out after Graph has published the piece.
Unanswered == PutOut /\ lost' = lost \cup {<<Head(todo), at.piece>>} /\ Fail

\* Graph may find a container that is FINISHED not ready; one more try is made.
NotReady ==
    /\ Head(todo) # "page" /\ at.spare > 0 /\ at' = [at EXCEPT !.spare = 0]
    /\ UNCHANGED <<post, todo, box, live, answer, lost>>

Publish ==
    /\ at.step = "publish"
    /\ \/ PutOut /\ PieceDone /\ UNCHANGED lost
       \/ Unanswered
       \/ NotReady

GraphNext == AskToPost \/ Make \/ Process \/ Ready \/ SeeError \/ Publish \/ GraphRaises

GraphSpec == GraphInit /\ [][GraphNext]_graphVars

(***************************************************************************)
(* Properties                                                              *)
(***************************************************************************)
\* What the endpoint answers is so on the accounts.  It has a result or an error
\* for every wanted target: of one with a result, every piece is out once; of
\* one with an error, the stories before the failed one, and that piece only if
\* Graph's answer was lost.
PostsAsAnswered ==
    todo = <<>> =>
        \A t \in DOMAIN live :
            LET Out(n) == /\ \A p \in 1 .. n - 1 : live[t][p] = 1
                          /\ \A p \in n + 1 .. PieceCount(t) : live[t][p] = 0
            IN CASE t \in results -> \A p \in 1 .. PieceCount(t) : live[t][p] = 1
                 [] OTHER         -> /\ t \in errors
                                     /\ \E p \in 1 .. PieceCount(t) :
                                            /\ Out(p)
                                            /\ live[t][p] = IF <<t, p>> \in lost THEN 1 ELSE 0
=============================================================================
