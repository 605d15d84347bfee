------------------------------ MODULE Campaigns ------------------------------
(***************************************************************************)
(* The campaign lifecycle.  The planner and the operator create campaigns, *)
(* the workflow worker launches them, the task executor completes them and *)
(* the operator pauses and archives them: processes of their own, which    *)
(* read the row, check it and write it in separate transactions.           *)
(***************************************************************************)
CONSTANTS
    Campaign,      \* campaigns that may be created
    Actor          \* requests under way at once, of any process

VARIABLES
    campaign,      \* the rows: status, and whether started_at and ended_at are set
    request        \* what each request is at, and what it has read

campaignVars == <<campaign, request>>

NoRow == [status |-> "none", started |-> FALSE, ended |-> FALSE]
Quiet == [op |-> "none"]

ValidTransitions ==
    [draft     |-> {"scheduled", "live", "archived"},
     scheduled |-> {"live", "paused", "archived"},
     live      |-> {"paused", "completed", "archived"},
     paused    |-> {"live", "completed", "archived"},
     completed |-> {"archived"},
     archived  |-> {}]

Target == [launch |-> "live", pause |-> "paused", complete |-> "completed",
           archive |-> "archived"]

CampaignInit ==
    /\ campaign = [k \in Campaign |-> NoRow]
    /\ request = [a \in Actor |-> Quiet]

\* A campaign whose time lies ahead starts scheduled, any other as a draft.
CreateCampaign(k) ==
    /\ campaign[k] = NoRow
    /\ \E status \in {"draft", "scheduled"} :
          campaign' = [campaign EXCEPT ![k].status = status]
    /\ UNCHANGED request

Goto(a, at) == request' = [request EXCEPT ![a].at = at]
Return(a)   == request' = [request EXCEPT ![a] = Quiet]

\* Slip: only the launch of a draft sets the start.
DatesOfDraft(op, row) ==
    CASE op = "launch"   -> [started |-> row.status = "draft" /\ ~row.started, ended |-> FALSE]
      [] op = "complete" -> [started |-> FALSE, ended |-> ~row.ended]
      [] op = "archive"  -> [started |-> FALSE,
                             ended |-> ~row.ended /\ row.status \notin {"draft", "scheduled"}]
      [] OTHER           -> [started |-> FALSE, ended |-> FALSE]

\* The dates the transition will set, decided on the first row read.
Dates(op, row) ==
    CASE op = "launch"   -> [started |-> ~row.started, ended |-> FALSE]
      [] op = "complete" -> [started |-> FALSE, ended |-> ~row.ended]
      [] op = "archive"  -> [started |-> FALSE,
                             ended |-> ~row.ended /\ row.status \notin {"draft", "scheduled"}]
      [] OTHER           -> [started |-> FALSE, ended |-> FALSE]

Settled(op, status) ==
    CASE op = "complete" -> status \in {"completed", "archived"}
      [] OTHER           -> status = Target[op]

\* launch, complete and archive read the row themselves, and return it if there
\* is nothing to do; pause leaves all reading to _transition.
CallCampaign(a, k, op) ==
    /\ request[a] = Quiet /\ campaign[k] # NoRow
    /\ op # "pause" => ~Settled(op, campaign[k].status)
    /\ request' = [request EXCEPT ![a] = [op |-> op, on |-> k, at |-> "checking",
                                          dates |-> Dates(op, campaign[k])]]
    /\ UNCHANGED campaign

\* _transition reads the row again: a no-op, a refusal, or the update to come.
CheckTransition(a) ==
    /\ request[a] # Quiet /\ request[a].at = "checking"
    /\ IF Target[request[a].op] \in ValidTransitions[campaign[request[a].on].status]
       THEN Goto(a, "writing")
       ELSE Return(a)
    /\ UNCHANGED campaign

\* The update does not look at the status it replaces.
WriteTransition(a) ==
    /\ request[a] # Quiet /\ request[a].at = "writing"
    /\ LET r == request[a] IN
       campaign' = [campaign EXCEPT
          ![r.on] = [status  |-> Target[r.op],
                     started |-> @.started \/ r.dates.started,
                     ended   |-> @.ended \/ r.dates.ended]]
    /\ Return(a)

CampaignNext ==
    \/ \E k \in Campaign : CreateCampaign(k)
    \/ \E a \in Actor : \/ \E k \in Campaign, op \in DOMAIN Target : CallCampaign(a, k, op)
                        \/ CheckTransition(a) \/ WriteTransition(a)

CampaignSpec == CampaignInit /\ [][CampaignNext]_campaignVars

(***************************************************************************)
(* Properties                                                              *)
(***************************************************************************)
\* Whatever overtakes what: a live campaign has a start and a completed one has
\* an end, although the dates are decided on a row read before the check's.
DatesKept ==
    \A k \in Campaign :
        /\ campaign[k].status = "live" => campaign[k].started
        /\ campaign[k].status = "completed" => campaign[k].ended
=============================================================================
