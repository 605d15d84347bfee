----------------------------- MODULE RuleVersions -----------------------------
(***************************************************************************)
(* One structured rule and its versions.  A change of content made in a    *)
(* conversation reads the row, reads its version, retires the row and      *)
(* inserts the next version, each in a transaction of its own, while the   *)
(* operator switches rows on and off, deletes them, or edits them too.     *)
(***************************************************************************)
EXTENDS Naturals, Sequences, FiniteSets

CONSTANTS
    Edit,       \* edits under way at once
    MaxRows     \* bound: rows the rule may grow to

VARIABLES
    row,        \* the rows, in the order of their ids
    edit,       \* what each edit is at, and what it has read
    forks,      \* ghost: versions made from a row that had been replaced
    cut         \* ghost: current rows deleted, or retired by an edit that died

versionVars == <<row, edit, forks, cut>>

Row == DOMAIN row
NoEdit == [at |-> "none", of |-> 0, version |-> 0, enabled |-> FALSE, replaces |-> FALSE]

NewRow(parent, version, enabled) ==
    [parent |-> parent, version |-> version, enabled |-> enabled,
     current |-> TRUE, exists |-> TRUE]

VersionsInit ==
    /\ row = <<NewRow(0, 1, TRUE)>>
    /\ edit = [e \in Edit |-> NoEdit]
    /\ forks = 0 /\ cut = 0

\* apply_edit reads the row it was told of: the number may be an old version's.
BeginEdit(e) ==
    /\ edit[e] = NoEdit
    /\ \E r \in Row :
          /\ row[r].exists
          /\ edit' = [edit EXCEPT ![e] =
                        [NoEdit EXCEPT !.at = "read", !.of = r, !.enabled = row[r].enabled]]
    /\ UNCHANGED <<row, forks, cut>>

\* A row deleted meanwhile counts as version 1.
ReadOldVersion(e) ==
    /\ edit[e].at = "read"
    /\ LET old == row[edit[e].of] IN
       edit' = [edit EXCEPT ![e].at = "retire",
                            ![e].version = IF old.exists THEN old.version ELSE 1]
    /\ UNCHANGED <<row, forks, cut>>

Account(e, r) ==
    /\ edit' = [edit EXCEPT ![e].at = "insert", ![e].replaces = row[r].exists /\ row[r].current]
    /\ UNCHANGED <<forks, cut>>

\* Slip: the old row is switched off and stays current.
RetireSwitchedOff(e) ==
    /\ edit[e].at = "retire"
    /\ LET r == edit[e].of IN
       /\ row' = IF row[r].exists THEN [row EXCEPT ![r].enabled = FALSE] ELSE row
       /\ Account(e, r)

Retire(e) ==
    /\ edit[e].at = "retire"
    /\ LET r == edit[e].of IN
       /\ row' = IF row[r].exists
                 THEN [row EXCEPT ![r].current = FALSE, ![r].enabled = FALSE] ELSE row
       /\ Account(e, r)

Insert(e) ==
    /\ edit[e].at = "insert" /\ Len(row) < MaxRows
    /\ row' = Append(row, NewRow(edit[e].of, edit[e].version + 1, edit[e].enabled))
    /\ forks' = IF edit[e].replaces THEN forks ELSE forks + 1
    /\ edit' = [edit EXCEPT ![e] = NoEdit]
    /\ UNCHANGED cut

\* A transaction fails, or the process dies: what was done before it stays.
EditDies(e) ==
    /\ edit[e] # NoEdit
    /\ cut' = IF edit[e].at = "insert" /\ edit[e].replaces THEN cut + 1 ELSE cut
    /\ edit' = [edit EXCEPT ![e] = NoEdit]
    /\ UNCHANGED <<row, forks>>

\* set_enabled, of any row, from the screen, a conversation or the resolver of
\* conflicts.
SetEnabled(r) ==
    /\ row[r].exists
    /\ row' = [row EXCEPT ![r].enabled = ~@]
    /\ UNCHANGED <<edit, forks, cut>>

DeleteRule(r) ==
    /\ row[r].exists
    /\ row' = [row EXCEPT ![r].exists = FALSE]
    /\ cut' = IF row[r].current THEN cut + 1 ELSE cut
    /\ UNCHANGED <<edit, forks>>

VersionsNext ==
    \/ \E e \in Edit : BeginEdit(e) \/ ReadOldVersion(e) \/ Retire(e) \/ Insert(e) \/ EditDies(e)
    \/ \E r \in Row : SetEnabled(r) \/ DeleteRule(r)

VersionsSpec == VersionsInit /\ [][VersionsNext]_versionVars

(***************************************************************************)
(* Properties                                                              *)
(***************************************************************************)
Current == {r \in Row : row[r].exists /\ row[r].current}

\* The matcher takes current rows that are enabled, so what a rule does twice or
\* not at all is decided here: however edits, switches and deletions interleave,
\* a rule has one current version, one more for each version made from a row
\* that had been replaced, and one less for each that was cut off; and a row
\* and the one made from it are never current together.
VersionsAccounted ==
    /\ Cardinality(Current) + cut + Cardinality({e \in Edit : edit[e].replaces}) = 1 + forks
    /\ \A r \in Row, s \in Current : row[s].parent = r => r \notin Current
=============================================================================
