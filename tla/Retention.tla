----------------------------- MODULE Retention -----------------------------
(***************************************************************************)
(* The table analytics_events over time: events are stamped by /collect with *)
(* the client's clamped clock, wait for the writer and are inserted; the      *)
(* retention task of server/src/main.rs removes what is too old, a chunk at a *)
(* time (server/src/db.rs, prune_events), while the writer goes on and the    *)
(* reports of Statistics are asked for.                                      *)
(***************************************************************************)
EXTENDS Statistics

CONSTANTS Skews,         \* how far a client's clock may be off
          Past, Future,  \* TS_MAX_PAST_MS, TS_MAX_FUTURE_MS, in ticks
          KeepFor,       \* RETENTION_DAYS, in ticks
          Chunk,         \* PRUNE_CHUNK
          Requests,      \* the parameters that /stats/* is asked with
          Start, MaxNow  \* bounds: the clock runs from Start to MaxNow

ASSUME SkewsInt == Skews \subseteq Int
ASSUME LimitsNat == {Past, Future, KeepFor} \subseteq Nat
ASSUME ChunkPositive == Chunk \in Nat \ {0}
ASSUME ClockInt == Start \in Int /\ MaxNow \in Int
ASSUME RequestsTyped == \A q \in Requests : q.days \in Int
ASSUME NoneIsNoTime == None \notin Int

VARIABLES
    now,     \* the server's clock
    queue,   \* events that /collect has stamped and the writer has not inserted
    rows,    \* the table analytics_events
    cutoff,  \* the cutoff of the sweep that is running, None between two sweeps
    pruned   \* history: the rows that sweeps have removed

vars == <<now, queue, rows, cutoff, pruned>>

Stamped == [event : Events, ts : Int, salted : Int]

TypeOK ==
    /\ now \in Int
    /\ queue \subseteq Stamped
    /\ rows \subseteq Rows
    /\ cutoff \in Int \cup {None}
    /\ pruned \subseteq Rows

Init ==
    /\ now = Start
    /\ queue = {}
    /\ rows = {}
    /\ cutoff = None
    /\ pruned = {}

Tick ==
    /\ now < MaxNow
    /\ now' = now + 1
    /\ UNCHANGED <<queue, rows, cutoff, pruned>>

-----------------------------------------------------------------------------
(* The write path; Ingest has its details *)

Known == {r.event : r \in queue \cup rows \cup pruned}

\* clamp_ts, and the salt of the server's day.
Collect(e, skew) ==
    /\ e \notin Known
    /\ queue' = queue \cup {[event  |-> e,
                             ts     |-> Clamp(now + skew, now - Past, now + Future),
                             salted |-> now \div Day]}
    /\ UNCHANGED <<now, rows, cutoff, pruned>>

\* One INSERT of the writer, however long its events have waited.
InsertEvents(batch) ==
    /\ batch # {}
    /\ rows' = rows \cup {[event |-> b.event, ts |-> b.ts, received |-> now, salted |-> b.salted] : b \in batch}
    /\ queue' = queue \ batch
    /\ UNCHANGED <<now, cutoff, pruned>>

-----------------------------------------------------------------------------
(* The retention task *)

SweepTick_WithTraffic ==
    /\ cutoff = None
    /\ queue # {}
    /\ cutoff' = now - KeepFor
    /\ UNCHANGED <<now, queue, rows, pruned>>

SweepTick ==
    /\ cutoff = None
    /\ cutoff' = now - KeepFor
    /\ UNCHANGED <<now, queue, rows, pruned>>

Old_OrEqual(c) == {r \in rows : r.ts <= c}

Old(c) == {r \in rows : r.ts < c}

\* WHERE ts < $1 ORDER BY ts LIMIT $2: rows of equal age are taken in any order.
Oldest(c) ==
    {S \in SUBSET Old(c) :
        /\ Cardinality(S) = IF Cardinality(Old(c)) < Chunk THEN Cardinality(Old(c)) ELSE Chunk
        /\ \A r \in S, o \in Old(c) \ S : r.ts <= o.ts}

Delete(S) ==
    /\ rows' = rows \ S
    /\ pruned' = pruned \cup S
    /\ UNCHANGED <<now, queue>>

DeleteChunk_FullIsLast ==
    /\ cutoff # None
    /\ \E S \in Oldest(cutoff) :
        /\ Delete(S)
        /\ cutoff' = IF Cardinality(S) <= Chunk THEN None ELSE cutoff

\* The loop ends with the first chunk that is not full.
DeleteChunk ==
    /\ cutoff # None
    /\ \E S \in Oldest(cutoff) :
        /\ Delete(S)
        /\ cutoff' = IF Cardinality(S) < Chunk THEN None ELSE cutoff

\* The DELETE fails, or its reply is lost: the task warns and waits for its next tick.
DeleteErr ==
    /\ cutoff # None
    /\ \E S \in Oldest(cutoff) \cup {{}} : Delete(S)
    /\ cutoff' = None

\* The process ends, between two chunks or within one, and starts again.
Crash ==
    /\ queue' = {}
    /\ cutoff' = None
    /\ UNCHANGED <<now, rows, pruned>>

Next ==
    \/ Tick
    \/ \E e \in Events, skew \in Skews : Collect(e, skew)
    \/ \E batch \in SUBSET queue : InsertEvents(batch)
    \/ SweepTick
    \/ DeleteChunk
    \/ DeleteErr
    \/ Crash

Spec == Init /\ [][Next]_vars

\* The interval fires, and a database that fails again and again answers again and again.
FairSpec == Spec /\ WF_vars(SweepTick) /\ SF_vars(DeleteChunk)

\* The fair steps of the retention task are possible whenever their guards hold.  True of
\* every reachable state (it can be added to the INVARIANTS of a run); the provers take it
\* as a hypothesis, since they cannot look into ENABLED.
Ready ==
    /\ cutoff = None => ENABLED <<SweepTick>>_vars
    /\ cutoff # None => ENABLED <<DeleteChunk>>_vars

-----------------------------------------------------------------------------
(* Properties *)

Sites == {Payload[e].site : e \in Events}

OfSite(S, site)  == {r \in S : Col(r, "site") = site}
EverStored(site) == OfSite(rows \cup pruned, site)

\* db.rs:200, "retention lines up with what the API can still report": a report on a
\* window within the retention is the one that a table would give in which nothing was
\* ever removed and which holds this site's rows alone.  So is a digest, if the retention
\* covers its two weeks; /realtime, which goes by another clock, is told of its site only.
ReportsWhole ==
    /\ \A q \in Requests :
        Span(q.days) <= KeepFor => Answers(q, rows, now) = Answers(q, EverStored(q.site), now)
    /\ \A site \in Sites :
        2 * Week <= KeepFor => Digest(rows, site, now) = Digest(EverStored(site), site, now)
    /\ \A q \in Requests :
        Realtime(rows, q.site, q.minutes, now) = Realtime(OfSite(rows, q.site), q.site, q.minutes, now)

\* stats.rs:88, digest.rs:38: the two windows of a comparison count every pageview and
\* every event of the doubled window once, whatever tick it falls on.
CompareCountsOnce ==
    \A q \in Requests :
        LET span     == Span(q.days)
            compared == Compared(rows, q.site, span, now)
            doubled  == Summary(rows, q.site, now - 2 * span, now)
        IN  /\ compared.current.pageviews + compared.previous.pageviews = doubled.pageviews
            /\ compared.current.events + compared.previous.events = doubled.events

\* Four statements count the same pageviews, grouped by hour, by day, by channel and not
\* at all, and two count the visitors of a day.
BreakdownsAgree(scoped, summary) ==
    LET byHour == Timeseries(scoped, Hour)
        byDay  == Timeseries(scoped, Day)
        met    == {b \in DOMAIN byDay : byDay[b].uniques > 0}
    IN  /\ Total([b \in DOMAIN byHour |-> byHour[b].pageviews]) = summary.pageviews
        /\ Total([b \in DOMAIN byDay |-> byDay[b].pageviews]) = summary.pageviews
        /\ Total(Channels(scoped)) = summary.pageviews
        /\ summary.avgDailyVisitors = <<Total([b \in met |-> byDay[b].uniques]), Cardinality(met)>>

\* db.rs:273, 294: the day of a bucket is the day of the salt, so that where the clients'
\* clocks agree with the server's day, a visitor counted on a day is one visitor hash.
VisitorDaysAgree(summary) == summary.avgDailyVisitors[1] = summary.bounceRate[2]

OnTheDay == {r \in rows : r.ts \div Day = r.salted}

\* The reports of one site over one window do not contradict each other.
ReportsAgree ==
    \A q \in Requests :
        LET from == From(q.days, now)
        IN  /\ BreakdownsAgree(Scoped(rows, q.site, from, now), Summary(rows, q.site, from, now))
            /\ VisitorDaysAgree(Summary(OnTheDay, q.site, from, now))

\* db.rs:193, "in chunks, until none remain": a sweep that ends by itself leaves no row
\* that is older than its cutoff, those that came in while it ran included.
SweepLeavesNothingOld == [][DeleteChunk /\ cutoff' = None => \A r \in rows' : r.ts >= cutoff]_vars

\* deploy/dullahan.env.example:24: a row that is older than the retention leaves the
\* table, although single sweeps fail, are cut off, or overtaken by late events.
OldRowsLeave ==
    \A e \in Events : (\E r \in rows : r.event = e /\ r.ts < now - KeepFor)
                          ~> (\A r \in rows : r.event # e)
=============================================================================
