-------------------------- MODULE RegistryContract --------------------------
(***************************************************************************)
(* What the tenant registry is to the handlers that only read it (auth.rs, *)
(* state.rs): a table that an operator changes one site at a time, and a   *)
(* snapshot that is some content which the table has had in this life of   *)
(* the process, whole, but perhaps long ago.  No reloads, failures or      *)
(* tokens: SiteRegistry has those, and implements this.  The registry of   *)
(* Content is this one.                                                    *)
(***************************************************************************)
CONSTANTS Sites,       \* site ids
          Entries,     \* what the readers look at of a row
          NewEntries   \* the rows that a site can be created with

Registries == UNION {[S -> Entries] : S \in SUBSET Sites}

VARIABLES
    open,       \* AppState.open_mode
    table,      \* the sites table
    cache,      \* the snapshot behind SiteCache
    past        \* what the table has held in this life of the process

vars == <<open, table, cache, past>>

Init ==
    /\ open \in BOOLEAN
    /\ table = [s \in {} |-> s]
    /\ cache = table
    /\ past = {table}

\* An operator's request: only the row of s changes, and never in open mode.
Change(s) ==
    /\ ~open
    /\ table' \in Registries
    /\ DOMAIN table \ {s} = DOMAIN table' \ {s}
    /\ \A x \in DOMAIN table \ {s} : table'[x] = table[x]
    /\ s \in DOMAIN table' \ DOMAIN table => table'[s] \in NewEntries
    /\ past' = past \cup {table'}
    /\ UNCHANGED <<open, cache>>

\* A reload installs what its SELECT has read, however long ago.
Reload ==
    /\ cache' \in past
    /\ UNCHANGED <<open, table, past>>

\* The process ends and starts again, and loads before it serves.
Restart ==
    /\ open' \in BOOLEAN
    /\ cache' = table
    /\ past' = {table}
    /\ UNCHANGED table

Next == (\E s \in Sites : Change(s)) \/ Reload \/ Restart

Spec == Init /\ [][Next]_vars
=============================================================================
