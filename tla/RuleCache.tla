------------------------------ MODULE RuleCache ------------------------------
(***************************************************************************)
(* The compiled rules of a tenant and the cache one process keeps of them. *)
(* A reader takes the cache's version without the lock, looks the entry up *)
(* under it, loads the rules outside it and stores them with the version   *)
(* it took; an edit writes the table and then invalidates, which bumps the *)
(* version only if there was an entry to delete.  What is invalidated is   *)
(* the tenant the request names, which need not be the rule's owner.       *)
(***************************************************************************)
EXTENDS Naturals

CONSTANTS
    Reader,     \* threads of the process that ask for the rules
    Editor,     \* threads of the process that edit them
    MaxEdits    \* bound: edits of the rules, by any process, and versions

VARIABLES
    rules,      \* what the table holds, as the number of edits made to it
    entry,      \* the cache's entry, or NoEntry
    version,    \* _CACHE_VERSION of the tenant
    reader,     \* what each reader is at, and what it has read
    editor      \* how many invalidations each editor has still to make

cacheVars == <<rules, entry, version, reader, editor>>

NoEntry == [rules |-> 0, version |-> 0, missed |-> TRUE, cached |-> FALSE]
Done    == [at |-> "done", version |-> 0, rules |-> 0, missed |-> FALSE]

CacheInit ==
    /\ rules = 0 /\ entry = NoEntry /\ version = 0
    /\ reader = [r \in Reader |-> Done]
    /\ editor = [e \in Editor |-> 0]

\* get_compiled_rules takes the version, outside the lock.
ReadVersion(r) ==
    /\ reader[r].at = "done"
    /\ reader' = [reader EXCEPT ![r] = [Done EXCEPT !.at = "lookup", !.version = version]]
    /\ UNCHANGED <<rules, entry, version, editor>>

LookUp(r) ==
    /\ reader[r].at = "lookup"
    /\ reader' = [reader EXCEPT ![r].at =
                     IF entry.cached /\ entry.version = reader[r].version THEN "done" ELSE "loading"]
    /\ UNCHANGED <<rules, entry, version, editor>>

Load(r) ==
    /\ reader[r].at = "loading"
    /\ reader' = [reader EXCEPT ![r].at = "storing", ![r].rules = rules]
    /\ UNCHANGED <<rules, entry, version, editor>>

\* Slip: an entry is stored with the version of the moment.
StoreAsNew(r) ==
    /\ reader[r].at = "storing"
    /\ entry' = [rules |-> reader[r].rules, version |-> version,
                 missed |-> reader[r].missed, cached |-> TRUE]
    /\ reader' = [reader EXCEPT ![r] = Done]
    /\ UNCHANGED <<rules, version, editor>>

\* What was loaded is stored with the version taken before the load.
Store(r) ==
    /\ reader[r].at = "storing"
    /\ entry' = [rules |-> reader[r].rules, version |-> reader[r].version,
                 missed |-> reader[r].missed, cached |-> TRUE]
    /\ reader' = [reader EXCEPT ![r] = Done]
    /\ UNCHANGED <<rules, version, editor>>

\* upsert_rule and set_rule_enabled commit their write and then invalidate once;
\* remove_rule, an import and an applied request do so twice.
EditRules(e) ==
    /\ editor[e] = 0 /\ rules < MaxEdits
    /\ rules' = rules + 1
    /\ \E owed \in 1 .. 2 : editor' = [editor EXCEPT ![e] = owed]
    /\ UNCHANGED <<entry, version, reader>>

\* What was loaded and has become stale no invalidation reaches, unless an entry
\* is there for it to bump the version.
Missed(rs) ==
    [r \in Reader |-> [rs[r] EXCEPT !.missed = @ \/ (rs[r].at = "storing" /\ rs[r].rules # rules')]]

Invalidate(e) ==
    /\ editor[e] > 0
    /\ editor' = [editor EXCEPT ![e] = @ - 1]
    /\ entry' = NoEntry
    /\ UNCHANGED rules
    /\ IF entry.cached THEN version' = version + 1 /\ UNCHANGED reader
       ELSE reader' = Missed(reader) /\ UNCHANGED version

\* remove_rule takes the tenant from the request: with this tenant's id another
\* tenant's rule is deleted, and it is this tenant that is invalidated.
DeleteForOther(e) ==
    /\ editor[e] = 0 /\ version < MaxEdits
    /\ editor' = [editor EXCEPT ![e] = 2]
    /\ UNCHANGED <<rules, entry, version, reader>>

\* An edit that invalidates nothing here: a rule of this tenant deleted with the
\* id of another, or any edit made by another process, which has its own cache.
EditUnheard ==
    /\ rules < MaxEdits
    /\ rules' = rules + 1
    /\ reader' = Missed(reader)
    /\ entry' = [entry EXCEPT !.missed = TRUE]
    /\ UNCHANGED <<version, editor>>

CacheNext ==
    \/ \E r \in Reader : ReadVersion(r) \/ LookUp(r) \/ Load(r) \/ Store(r)
    \/ \E e \in Editor : EditRules(e) \/ Invalidate(e) \/ DeleteForOther(e)
    \/ EditUnheard

CacheSpec == CacheInit /\ [][CacheNext]_cacheVars

(***************************************************************************)
(* Properties                                                              *)
(***************************************************************************)
\* With every invalidation made, what a reader would find in the cache is what
\* the table holds, but for three gaps: an edit in another process, a deletion
\* under another tenant's id, and an invalidation that found nothing to delete
\* while rules loaded before the edit were still to be stored.
CacheFresh ==
    entry.cached /\ entry.version = version /\ ~entry.missed /\ (\A e \in Editor : editor[e] = 0)
    => entry.rules = rules
=============================================================================
