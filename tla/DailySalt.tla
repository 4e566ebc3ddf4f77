----------------------------- MODULE DailySalt -----------------------------
(***************************************************************************)
(* The salt of the anonymous visitor hash (server/src/salt.rs): the        *)
(* daily_salts table, the in-memory cache, /collect handlers that load or   *)
(* create today's salt with other handlers doing the same, the prunes on   *)
(* the way, at start-up and every hour (main.rs), and the turn of the UTC  *)
(* day between any two steps.  The SHA-256 of a hash is abstracted to the  *)
(* salt it was made with.                                                  *)
(***************************************************************************)
EXTENDS Integers, FiniteSets

CONSTANTS Collectors,  \* slots for concurrent /collect handlers
          Pruner,      \* the hourly task of main.rs
          Salts,       \* the salts thread_rng can draw, never the same twice
          NoSalt,      \* nothing
          MaxDay       \* bound: the days of a run are 0..MaxDay

ASSUME PrunerIsNoCollector == Pruner \notin Collectors
ASSUME NoSaltIsNone == NoSalt \notin Salts
ASSUME MaxDayNat == MaxDay \in Nat

Days  == 0..MaxDay
Tasks == Collectors \cup {Pruner}

VARIABLES
    today,   \* the UTC day of the clock
    up,      \* the process runs
    salts,   \* the daily_salts table: a function from its days to their salts
    cache,   \* the SaltCache: [day, salt], with NoSalt for None
    pc,      \* pc[c]: "idle", or the step of current_salt that c awaits next
    at,      \* at[c]: the `today` that c computed when it began
    got,     \* got[c]: the salt c has SELECTed
    \* history, read by the properties only
    drawn,   \* the salts that have been stored
    used     \* used[d]: the salts visitors of day d were hashed with

vars == <<today, up, salts, cache, pc, at, got, drawn, used>>

Empty == [day |-> 0, salt |-> NoSalt]

TypeOK ==
    /\ today \in Days
    /\ up \in BOOLEAN
    /\ salts \in UNION {[D -> Salts] : D \in SUBSET Days}
    /\ cache \in [day : Days, salt : Salts \cup {NoSalt}]
    /\ pc \in [Tasks -> {"idle", "insert", "select", "prune", "store"}]
    /\ at \in [Tasks -> Days]
    /\ got \in [Tasks -> Salts \cup {NoSalt}]
    /\ drawn \subseteq Salts
    /\ used \in [Days -> SUBSET Salts]

Init ==
    /\ today = 0
    /\ up = TRUE
    /\ salts = [d \in {} |-> NoSalt]
    /\ cache = Empty
    /\ pc = [c \in Tasks |-> "idle"]
    /\ at = [c \in Tasks |-> 0]
    /\ got = [c \in Tasks |-> NoSalt]
    /\ drawn = {}
    /\ used = [d \in Days |-> {}]

-----------------------------------------------------------------------------
(* current_salt *)

Stored == DOMAIN salts
Hash(d, s) == used' = [used EXCEPT ![d] = @ \cup {s}]
GoTo(c, step) == pc' = [pc EXCEPT ![c] = step]
Finish(c) == /\ GoTo(c, "idle")
             /\ at' = [at EXCEPT ![c] = 0]
             /\ got' = [got EXCEPT ![c] = NoSalt]

\* Variants, not the code: definitions named X_Y are slips in X that the checks must
\* notice (PROJECT.json, "mutants").
\* What a prune with the day d leaves: d and the day before.
Kept(d) == {e \in Stored : e >= d - 1}
Prune(d) == salts' = [e \in Kept(d) |-> salts[e]]

Hit_AnyDay == cache.salt # NoSalt

\* A cache hit: the handler never waits.
Hit == cache.salt # NoSalt /\ cache.day = today

HashFromCache(c) ==
    /\ up /\ c \in Collectors /\ pc[c] = "idle"
    /\ Hit
    /\ Hash(today, cache.salt)
    /\ UNCHANGED <<today, up, salts, cache, pc, at, got, drawn>>

Begin(c) ==
    /\ up /\ c \in Collectors /\ pc[c] = "idle"
    /\ ~Hit
    /\ GoTo(c, "insert")
    /\ at' = [at EXCEPT ![c] = today]
    /\ UNCHANGED <<today, up, salts, cache, got, drawn, used>>

Insert_Overwrites(c) ==
    /\ pc[c] = "insert"
    /\ \E s \in Salts \ drawn :
          /\ salts' = [d \in Stored \cup {at[c]} |-> IF d = at[c] THEN s ELSE salts[d]]
          /\ drawn' = drawn \cup {s}
    /\ GoTo(c, "select")
    /\ UNCHANGED <<today, up, cache, at, got, used>>

\* INSERT ... ON CONFLICT DO NOTHING: the first candidate of a day wins.
Insert(c) ==
    /\ pc[c] = "insert"
    /\ \/ /\ at[c] \in Stored
          /\ UNCHANGED <<salts, drawn>>
       \/ \E s \in Salts \ drawn :
             /\ at[c] \notin Stored
             /\ salts' = [d \in Stored \cup {at[c]} |-> IF d = at[c] THEN s ELSE salts[d]]
             /\ drawn' = drawn \cup {s}
    /\ GoTo(c, "select")
    /\ UNCHANGED <<today, up, cache, at, got, used>>

\* SELECT the winner; no row is an error, see Fail.
Select(c) ==
    /\ pc[c] = "select"
    /\ at[c] \in Stored
    /\ got' = [got EXCEPT ![c] = salts[at[c]]]
    /\ GoTo(c, "prune")
    /\ UNCHANGED <<today, up, salts, cache, at, drawn, used>>

PruneInline(c) ==
    /\ c \in Collectors /\ pc[c] = "prune"
    /\ Prune(at[c])
    /\ GoTo(c, "store")
    /\ UNCHANGED <<today, up, cache, at, got, drawn, used>>

\* The cache is filled last, and the visitor is hashed with the handler's own day.
Store(c) ==
    /\ pc[c] = "store"
    /\ cache' = [day |-> at[c], salt |-> got[c]]
    /\ Hash(at[c], got[c])
    /\ Finish(c)
    /\ UNCHANGED <<today, up, salts, drawn>>

\* A statement fails or its reply is lost, or the handler is dropped: the event goes
\* without a hash.  A failed prune of the hourly task is only logged.
Fail(c) ==
    /\ pc[c] # "idle"
    /\ Finish(c)
    /\ UNCHANGED <<today, up, salts, cache, drawn, used>>

-----------------------------------------------------------------------------
(* The hourly prune, the clock, the process *)

PruneTick_OnlyWithTraffic ==
    /\ up /\ pc[Pruner] = "idle"
    /\ today \in Stored
    /\ \E d \in Stored : d < today - 1
    /\ GoTo(Pruner, "prune")
    /\ at' = [at EXCEPT ![Pruner] = today]
    /\ UNCHANGED <<today, up, salts, cache, got, drawn, used>>

PruneTick ==
    /\ up /\ pc[Pruner] = "idle"
    /\ \E d \in Stored : d < today - 1   \* otherwise the DELETE finds nothing
    /\ GoTo(Pruner, "prune")
    /\ at' = [at EXCEPT ![Pruner] = today]
    /\ UNCHANGED <<today, up, salts, cache, got, drawn, used>>

PruneHourly ==
    /\ pc[Pruner] = "prune"
    /\ Prune(at[Pruner])
    /\ Finish(Pruner)
    /\ UNCHANGED <<today, up, cache, drawn, used>>

\* The TimeoutLayer (15 s) ends every handler that began before midnight long before the
\* next one.  Nothing bounds the hourly task that way.
NextDay ==
    /\ today < MaxDay
    /\ \A c \in Collectors : pc[c] # "idle" => at[c] = today
    /\ today' = today + 1
    /\ UNCHANGED <<up, salts, cache, pc, at, got, drawn, used>>

Stop ==
    /\ up
    /\ up' = FALSE
    /\ cache' = Empty
    /\ pc' = [c \in Tasks |-> "idle"]
    /\ at' = [c \in Tasks |-> 0]
    /\ got' = [c \in Tasks |-> NoSalt]
    /\ UNCHANGED <<today, salts, drawn, used>>

\* main prunes before it serves; a failure is fatal.
Start ==
    /\ ~up
    /\ up' = TRUE
    /\ Prune(today)
    /\ UNCHANGED <<today, cache, pc, at, got, drawn, used>>

CurrentSalt(c) == \/ HashFromCache(c) \/ Begin(c) \/ Insert(c) \/ Select(c)
                  \/ PruneInline(c) \/ Store(c)

Next == \/ \E c \in Collectors : CurrentSalt(c)
        \/ \E c \in Tasks : Fail(c)
        \/ PruneTick \/ PruneHourly
        \/ NextDay \/ Stop \/ Start

Spec == Init /\ [][Next]_vars

\* The interval ticks every hour and not every DELETE of the hourly task fails.
FairSpec == Spec /\ WF_vars(PruneTick) /\ SF_vars(PruneHourly)

\* The fair steps of the hourly task are possible whenever their guards hold.  True of
\* every reachable state (it can be added to the INVARIANTS of a run); the provers take
\* it as a hypothesis, since they cannot look into ENABLED.
Ready ==
    /\ up /\ pc[Pruner] = "idle" /\ (\E d \in Stored : d < today - 1)
          => ENABLED <<PruneTick>>_vars
    /\ pc[Pruner] = "prune" => ENABLED <<PruneHourly>>_vars

-----------------------------------------------------------------------------
(* Properties *)

\* All visitors of a day are hashed with one salt, whichever handler created it and
\* however inserts, prunes, failures, midnights and restarts interleave; otherwise the
\* day's distinct-visitor count would count a visitor twice (salt.rs, current_salt).
OneSaltPerDay == \A d \in Days : Cardinality(used[d]) <= 1

\* No salt serves two days, so hashes of different days cannot be linked: not even when
\* a handler that began before midnight fills the cache after it.
SaltsRotate == \A d, e \in Days : d # e => used[d] \cap used[e] = {}

\* What the cache offers for a hit today is what the table would answer: the cache never
\* shadows the day's winner.
CacheAgreesWithTable ==
    Hit => today \in Stored /\ cache.salt = salts[today]

\* A prune never removes a salt of today or yesterday ("keeps only today + yesterday",
\* tests/api.rs:843): a handler of either day still finds its row.
RecentSaltsStay == [][\A d \in Stored : d >= today - 1 => d \in DOMAIN salts']_vars

\* A salt that is too old leaves the table while the server runs, even if nobody visits
\* (salt.rs:60-61: "even if no fresh session-enabled traffic arrives").
OldSaltsLeave == \A d \in Days : (d \in Stored /\ d < today - 1) ~> (d \notin Stored \/ ~up)

-----------------------------------------------------------------------------
(* The inductive invariant behind the properties (proved in DailySaltProofs) *)

\* Handlers belong to today or yesterday; once past the SELECT they hold the winner.
TaskShape ==
    /\ ~up => \A c \in Tasks : pc[c] = "idle"
    /\ pc[Pruner] \in {"idle", "prune"}
    /\ pc[Pruner] = "prune" => at[Pruner] <= today
    /\ \A c \in Collectors :
          /\ pc[c] # "idle" => at[c] \in {today - 1, today}
          /\ pc[c] \in {"prune", "store"} => at[c] \in Stored /\ got[c] = salts[at[c]]

\* A recent cache entry is the winner of its day.
CacheShape ==
    cache.salt # NoSalt /\ cache.day >= today - 1 =>
        cache.day \in Stored /\ cache.salt = salts[cache.day]

\* A recent day was hashed with its stored salt only; an old one with one salt.
UsedShape ==
    \A d \in Days : /\ d >= today - 1 => \A s \in used[d] : d \in Stored /\ s = salts[d]
                    /\ \A s, t \in used[d] : s = t

\* Every stored salt was drawn for its day alone.
DrawnShape ==
    /\ \A d \in Stored : salts[d] \in drawn
    /\ \A d \in Days : used[d] \subseteq drawn
    /\ \A d, e \in Stored : salts[d] = salts[e] => d = e
    /\ \A d \in Days, e \in Stored : salts[e] \in used[d] => d = e

SaltInv == TypeOK /\ TaskShape /\ CacheShape /\ UsedShape /\ DrawnShape /\ SaltsRotate
=============================================================================
