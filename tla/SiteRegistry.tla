---------------------------- MODULE SiteRegistry ----------------------------
(***************************************************************************)
(* The tenant registry: the `sites` table, its in-memory snapshot          *)
(* (server/src/sites.rs), the operator handlers that change the table and  *)
(* then reload the snapshot (sites_api.rs), the 60 s refresh task and the  *)
(* start-up of main.rs, and what a bearer token or a site id means under   *)
(* the snapshot (auth.rs).                                                 *)
(*                                                                         *)
(* A reload is a SELECT and, later, a cache write: two of them may overlap, *)
(* and a handler can be dropped between them.                              *)
(***************************************************************************)
EXTENDS Integers, FiniteSets

CONSTANTS Sites,      \* site ids
          Tokens,     \* the tokens generate_token can return, all distinct
          Handlers,   \* slots for concurrent operator requests
          Tick,       \* the 60 s refresh task
          None        \* no token

ASSUME TickIsNoHandler == Tick \notin Handlers
ASSUME NoneIsNoToken == None \notin Tokens

Refreshers == Handlers \cup {Tick}

\* A registry is a function from the registered sites to their rows.
Row        == [tok : Tokens, active : BOOLEAN]
Registries == UNION {[S -> Row] : S \in SUBSET Sites}
Nobody     == [s \in {} |-> None]

VARIABLES
    up,         \* the process serves
    open,       \* AppState.open_mode: no ADMIN_TOKEN at start-up
    table,      \* the sites table
    cache,      \* the snapshot behind SiteCache
    pc,         \* pc[w]: "idle", "loading" (before the SELECT) or "loaded" (after it)
    snap,       \* snap[w]: what w's SELECT returned, Nobody unless "loaded"
    site,       \* site[w]: the sites w changed and has not yet answered for
    old,        \* old[w]: the tokens the caller of w wants dead
    \* history, read by the properties only
    minted,     \* the tokens handed out so far, and the site each was made for
    stale,      \* stale[w]: sites changed since w's SELECT
    lapsed,     \* sites whose last change the snapshot may miss, nobody working on it
    emptied,    \* the table was empty at some time in this life of the process
    revoked     \* tokens whose rotation or deletion was answered, its reload done

mem     == <<cache, pc, snap, site, old>>
history == <<minted, stale, lapsed, emptied, revoked>>
vars    == <<up, open, table, cache, pc, snap, site, old,
             minted, stale, lapsed, emptied, revoked>>

TypeOK ==
    /\ up \in BOOLEAN
    /\ open \in BOOLEAN
    /\ table \in Registries
    /\ cache \in Registries
    /\ pc \in [Refreshers -> {"idle", "loading", "loaded"}]
    /\ snap \in [Refreshers -> Registries]
    /\ site \in [Refreshers -> SUBSET Sites]
    /\ old \in [Refreshers -> SUBSET Tokens]
    /\ minted \in UNION {[T -> Sites] : T \in SUBSET Tokens}
    /\ stale \in [Refreshers -> SUBSET Sites]
    /\ lapsed \subseteq Sites
    /\ emptied \in BOOLEAN
    /\ revoked \subseteq Tokens

-----------------------------------------------------------------------------
(* What a snapshot says *)

Registered(reg) == DOMAIN reg
TokensOf(reg)   == {reg[s].tok : s \in Registered(reg)}

\* Registry::is_active: an empty registry admits every site.
IsActive(reg, s) == Registered(reg) = {} \/ (s \in Registered(reg) /\ reg[s].active)

\* Registry::site_for_token: the sites a token speaks for, at most one.
SitesForToken(reg, t) == {s \in Registered(reg) : reg[s].tok = t /\ reg[s].active}

\* Registry with the row of s replaced or added, or with s removed.
Upsert(reg, s, row) == [x \in Registered(reg) \cup {s} |-> IF x = s THEN row ELSE reg[x]]
Remove(reg, s)      == [x \in Registered(reg) \ {s} |-> reg[x]]

-----------------------------------------------------------------------------
Init ==
    /\ up = TRUE
    /\ open \in BOOLEAN
    /\ table = Nobody
    /\ cache = Nobody
    /\ pc = [w \in Refreshers |-> "idle"]
    /\ snap = [w \in Refreshers |-> Nobody]
    /\ site = [w \in Refreshers |-> {}]
    /\ old = [w \in Refreshers |-> {}]
    /\ minted = [t \in {} |-> None]
    /\ stale = [w \in Refreshers |-> {}]
    /\ lapsed = {}
    /\ emptied = TRUE
    /\ revoked = {}

-----------------------------------------------------------------------------
(* Operator requests: one statement that changes the table, then a reload.   *)
(* Refused requests (400, 401, 403, 404, 409) change nothing and reload      *)
(* nothing.                                                                  *)

\* require_operator: never passed in open mode.
Admitted(h) == up /\ ~open /\ h \in Handlers /\ pc[h] = "idle"

\* The statement commits: h must reload, and every reload whose SELECT ran before
\* is now behind on s.
Commit(h, s, reg, dead) ==
    /\ table' = reg
    /\ pc' = [pc EXCEPT ![h] = "loading"]
    /\ site' = [site EXCEPT ![h] = {s}]
    /\ old' = [old EXCEPT ![h] = dead]
    /\ stale' = [w \in Refreshers |-> IF pc[w] = "loaded" THEN stale[w] \cup {s} ELSE stale[w]]
    /\ emptied' = (emptied \/ Registered(reg) = {})
    /\ UNCHANGED <<up, open, cache, snap, lapsed, revoked>>

\* Variants, not the code: definitions named X_Y are slips in X that the checks must
\* notice (PROJECT.json, "mutants").
Fresh_NotInTable(t) == t \in Tokens \ TokensOf(table)

\* 256 random bits are never drawn twice.
Fresh(t)   == t \in Tokens \ DOMAIN minted
Mint(t, s) == minted' = [x \in DOMAIN minted \cup {t} |-> IF x = t THEN s ELSE minted[x]]

Create(h, s, t) ==
    /\ Admitted(h)
    /\ s \in Sites \ Registered(table)
    /\ Fresh(t)
    /\ Mint(t, s)
    /\ Commit(h, s, Upsert(table, s, [tok |-> t, active |-> TRUE]), {})

\* PATCH: `active` keeps its value when the body does not name it.
Update(h, s, active) ==
    /\ Admitted(h)
    /\ s \in Registered(table)
    /\ Commit(h, s, Upsert(table, s, [table[s] EXCEPT !.active = active]), {})
    /\ UNCHANGED minted

RotateToken(h, s, t) ==
    /\ Admitted(h)
    /\ s \in Registered(table)
    /\ Fresh(t)
    /\ Mint(t, s)
    /\ Commit(h, s, Upsert(table, s, [table[s] EXCEPT !.tok = t]), {table[s].tok})

\* A tenant that still owns content is refused by the foreign keys (409), so this
\* may or may not be possible for a site.
DeleteSite(h, s) ==
    /\ Admitted(h)
    /\ s \in Registered(table)
    /\ Commit(h, s, Remove(table, s), {table[s].tok})
    /\ UNCHANGED minted

-----------------------------------------------------------------------------
(* Reloading: sites::refresh *)

TickFires ==
    /\ up
    /\ pc[Tick] = "idle"
    /\ pc' = [pc EXCEPT ![Tick] = "loading"]
    /\ UNCHANGED <<up, open, table, cache, snap, site, old, history>>

\* The SELECT takes its snapshot of the table.
Load(w) ==
    /\ pc[w] = "loading"
    /\ pc' = [pc EXCEPT ![w] = "loaded"]
    /\ snap' = [snap EXCEPT ![w] = table]
    /\ stale' = [stale EXCEPT ![w] = {}]
    /\ UNCHANGED <<up, open, table, cache, site, old, minted, lapsed, emptied, revoked>>

\* w is done: it forgets its snapshot and what it had to answer for.
Finish(w) ==
    /\ pc' = [pc EXCEPT ![w] = "idle"]
    /\ snap' = [snap EXCEPT ![w] = Nobody]
    /\ site' = [site EXCEPT ![w] = {}]
    /\ old' = [old EXCEPT ![w] = {}]

Install_IgnoresEmpty(w) ==
    /\ pc[w] = "loaded"
    /\ cache' = IF Registered(snap[w]) = {} THEN cache ELSE snap[w]
    /\ lapsed' = stale[w]
    /\ revoked' = revoked \cup old[w]
    /\ stale' = [stale EXCEPT ![w] = {}]
    /\ Finish(w)
    /\ UNCHANGED <<up, open, table, minted, emptied>>

\* The cache write; a handler then answers with success.
Install(w) ==
    /\ pc[w] = "loaded"
    /\ cache' = snap[w]
    /\ lapsed' = stale[w]
    /\ revoked' = revoked \cup old[w]
    /\ stale' = [stale EXCEPT ![w] = {}]
    /\ Finish(w)
    /\ UNCHANGED <<up, open, table, minted, emptied>>

LoadFails_Clears(w) ==
    /\ pc[w] # "idle"
    /\ cache' = Nobody
    /\ lapsed' = lapsed \cup site[w]
    /\ stale' = [stale EXCEPT ![w] = {}]
    /\ Finish(w)
    /\ UNCHANGED <<up, open, table, minted, emptied, revoked>>

\* The SELECT or its reply fails: the previous snapshot stays, the error is only
\* logged, and a handler answers with success all the same.
LoadFails(w) ==
    /\ pc[w] # "idle"
    /\ lapsed' = lapsed \cup site[w]
    /\ stale' = [stale EXCEPT ![w] = {}]
    /\ Finish(w)
    /\ UNCHANGED <<up, open, table, cache, minted, emptied, revoked>>

\* The handler never answers with success: the reply to its own statement was lost
\* (it answers 500 at once), or the TimeoutLayer or the client's disconnect drops it.
Cancel(h) ==
    /\ h \in Handlers
    /\ pc[h] # "idle"
    /\ lapsed' = lapsed \cup site[h]
    /\ stale' = [stale EXCEPT ![h] = {}]
    /\ Finish(h)
    /\ UNCHANGED <<up, open, table, cache, minted, emptied, revoked>>

-----------------------------------------------------------------------------
(* The process *)

Stop ==
    /\ up
    /\ up' = FALSE
    /\ cache' = Nobody
    /\ pc' = [w \in Refreshers |-> "idle"]
    /\ snap' = [w \in Refreshers |-> Nobody]
    /\ site' = [w \in Refreshers |-> {}]
    /\ old' = [w \in Refreshers |-> {}]
    /\ stale' = [w \in Refreshers |-> {}]
    /\ UNCHANGED <<open, table, minted, lapsed, emptied, revoked>>

\* main: no listener before the registry is loaded; the configuration may differ
\* from the last start.
Start ==
    /\ ~up
    /\ up' = TRUE
    /\ open' \in BOOLEAN
    /\ cache' = table
    /\ lapsed' = {}
    /\ emptied' = (Registered(table) = {})
    /\ UNCHANGED <<table, pc, snap, site, old, minted, stale, revoked>>

Operator(h) ==
    \/ \E s \in Sites, t \in Tokens : Create(h, s, t) \/ RotateToken(h, s, t)
    \/ \E s \in Sites, active \in BOOLEAN : Update(h, s, active)
    \/ \E s \in Sites : DeleteSite(h, s)
    \/ Cancel(h)

Refresh(w) == Load(w) \/ Install(w) \/ LoadFails(w)

Next == \/ \E h \in Handlers : Operator(h)
        \/ \E w \in Refreshers : Refresh(w)
        \/ TickFires
        \/ Stop
        \/ Start

Spec == Init /\ [][Next]_vars

\* The interval ticks, the runtime polls what is ready, and the database answers
\* again and again: not every SELECT of the refresh task fails.
Fairness ==
    /\ WF_vars(TickFires)
    /\ \A w \in Refreshers : WF_vars(Refresh(w))
    /\ SF_vars(Load(Tick))
    /\ SF_vars(Install(Tick))

FairSpec == Spec /\ Fairness

\* The fair steps of the refresh task are possible whenever their guards hold.  True of
\* every reachable state (it can be added to the INVARIANTS of a run); the provers take
\* it as a hypothesis, since they cannot look into ENABLED.
Ready ==
    /\ up /\ pc[Tick] = "idle" => ENABLED <<TickFires>>_vars
    /\ pc[Tick] = "loading" => ENABLED <<Load(Tick)>>_vars
    /\ pc[Tick] = "loaded" => ENABLED <<Install(Tick)>>_vars

-----------------------------------------------------------------------------
(* Properties *)

\* Where two registries disagree.
Differ(a, b) == {s \in Sites : \/ (s \in Registered(a)) # (s \in Registered(b))
                               \/ s \in Registered(a) /\ s \in Registered(b) /\ a[s] # b[s]}

Changing == UNION {site[w] : w \in Refreshers}

\* The snapshot differs from the table only at a site whose change is still being
\* answered for, or whose change was passed over: its own reload failed or was
\* dropped, or a reload with an older SELECT was installed last.  Without overlap
\* and failure, every answered change is visible (sites_api.rs:5-7, 103-105).
CacheLagsOnlyByLapse ==
    up => Differ(cache, table) \subseteq lapsed \cup Changing

\* Whatever is stale, a token speaks for no site but the one it was made for, and for
\* one at most: snapshots are whole SELECTs, tokens are never reused, not even by a
\* site that is deleted and created again.
TokenNeverCrossesTenant ==
    \A t \in Tokens : \A s \in SitesForToken(cache, t) :
        t \in DOMAIN minted /\ minted[t] = s

\* A token whose rotation or deletion was answered after a reload that worked is dead,
\* unless its site was passed over later, or changes again right now.
DeadTokenNeedsLapse ==
    \A t \in revoked : SitesForToken(cache, t) \subseteq lapsed \cup Changing

\* "A transient DB blip must never un-gate ingest" (sites.rs:173-174): a running
\* server admits every site only if its table really was empty in its lifetime.
UngatedOnlyIfEmptied ==
    up /\ Registered(cache) = {} => emptied

\* Once the operator is quiet the snapshot becomes the table and stays so: the
\* periodic refresh picks up every change that was passed over.
QuietCacheConverges ==
    <>[](\A h \in Handlers : pc[h] = "idle") => <>[](up => cache = table)

\* sites_api.rs:5-7: "Every mutation refreshes the in-memory registry before
\* responding, so a rotated token is dead on this node before the new one reaches
\* the caller".  Stated only for the answers before which that refresh succeeded.
RotatedTokenIsDead == \A t \in revoked : SitesForToken(cache, t) = {}

-----------------------------------------------------------------------------
(* The inductive invariant behind the properties (proved in                  *)
(* SiteRegistryProofs)                                                       *)

\* Every token of a registry was made for the site that has it.
AtHome(reg) ==
    \A s \in Registered(reg) : reg[s].tok \in DOMAIN minted /\ minted[reg[s].tok] = s

TokensAtHome == AtHome(table) /\ AtHome(cache) /\ \A w \in Refreshers : AtHome(snap[w])

\* Who works on what: nothing when idle, nothing at all when down.
WorkShape ==
    /\ \A w \in Refreshers : pc[w] = "idle" => site[w] = {} /\ old[w] = {}
    /\ ~up => cache = Nobody /\ \A w \in Refreshers : pc[w] = "idle"

\* A SELECT misses only what changed after it.
SnapshotLag ==
    \A w \in Refreshers : pc[w] = "loaded" => Differ(snap[w], table) \subseteq stale[w]

\* A replaced token never comes back to the table.
DeadTokens ==
    \A t \in revoked \cup UNION {old[w] : w \in Refreshers} :
        t \in DOMAIN minted /\ t \notin TokensOf(table)

\* An empty registry was read from an empty table of this life.
EmptySeen ==
    up => /\ Registered(table) = {} => emptied
          /\ Registered(cache) = {} => emptied
          /\ \A w \in Refreshers : pc[w] = "loaded" /\ Registered(snap[w]) = {} => emptied

RegistryInv ==
    TypeOK /\ TokensAtHome /\ WorkShape /\ CacheLagsOnlyByLapse /\ SnapshotLag /\ DeadTokens
    /\ EmptySeen
=============================================================================
