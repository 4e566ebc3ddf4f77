----------------------------- MODULE Statistics -----------------------------
(***************************************************************************)
(* What `/stats/*` (server/src/stats.rs) and the weekly digest answer from a *)
(* table of events: the aggregates of server/src/db.rs and the channels of   *)
(* server/src/channels.rs, as operators of the table, the request and the    *)
(* clock.  The module has no state; Retention has the table.                 *)
(*                                                                         *)
(* Time is counted in ticks, texts are values that are equal or not, a       *)
(* referrer is the sequence of its host's labels.  An average is the pair of  *)
(* a sum and a number, <<0, 0>> where SQL gives NULL.                        *)
(***************************************************************************)
EXTENDS Integers, Sequences, FiniteSetsExt

CONSTANTS Payload,    \* Payload[e]: the columns of event e that no clock decides
          None,       \* NULL
          Blank,      \* a text without a visible character
          Hour, Day,  \* an hour and a UTC day, in ticks
          MaxDays,    \* the cap of `days`: 365
          MaxLimit,   \* the cap of `limit`: 100
          MaxMinutes, \* the cap of `minutes`: 60, in ticks
          Week,       \* digest.rs, WEEK_MS
          PaidMedia, SearchLabels, SocialLabels, SocialHosts  \* channels.rs

ASSUME DayPositive == Day \in Nat \ {0}
ASSUME MaxDaysPositive == MaxDays \in Nat \ {0}
ASSUME WeekNat == Week \in Nat

Events == DOMAIN Payload

\* analytics_events: ts is the client's clock after clamp_ts, received the database's at
\* the INSERT, salted the day of the salt in the visitor hash.
Rows == [event : Events, ts : Int, received : Int, salted : Int]

Col(r, c) == Payload[r.event][c]

\* salt.rs, visitor_hash: one value per visitor, site and salt; none without sessions.
Hash(r) == IF Col(r, "visitor") = None THEN None
           ELSE <<Col(r, "visitor"), Col(r, "site"), r.salted>>

Clamp(x, lo, hi) == IF x < lo THEN lo ELSE IF x > hi THEN hi ELSE x

Span(days) == Clamp(days, 1, MaxDays) * Day

\* WHERE site_id = $1 AND ts BETWEEN $2 AND $3
Scoped(rows, site, from, to) == {r \in rows : Col(r, "site") = site /\ from <= r.ts /\ r.ts <= to}

OfType(rows, type) == {r \in rows : Col(r, "type") = type}
Pageviews(rows)    == OfType(rows, "pageview")
Visits(rows)       == {r \in Pageviews(rows) : Hash(r) # None}
Hashes(rows)       == {Hash(r) : r \in rows}

Total(f) == MapThenSumSet(LAMBDA k : f[k], DOMAIN f)

Average(f) == <<Total(f), Cardinality(DOMAIN f)>>

\* SELECT key, COUNT( * ) ... GROUP BY key
CountBy(key(_), rows) ==
    [k \in {key(r) : r \in rows} |-> Cardinality({r \in rows : key(r) = k})]

\* ORDER BY count DESC LIMIT: which of several equal counts are left out is not decided.
TopRows(counts, limit) ==
    {Restrict(counts, K) : K \in {L \in SUBSET DOMAIN counts :
        /\ Cardinality(L) = Min({limit, Cardinality(DOMAIN counts)})
        /\ \A k \in L, j \in DOMAIN counts \ L : counts[k] >= counts[j]}}

-----------------------------------------------------------------------------
(* The summary *)

BucketOf_Local(ts, length) == (ts + 1) \div length

BucketOf(ts, length) == ts \div length

\* Distinct visitors of every UTC day that has one, averaged over those days.
AvgDailyVisitors(scoped) ==
    LET visits == Visits(scoped)
    IN  Average([d \in {BucketOf(r.ts, Day) : r \in visits} |->
                    Cardinality(Hashes({r \in visits : BucketOf(r.ts, Day) = d}))])

\* The share of visitor hashes with one pageview.
BounceRate(scoped) ==
    LET visits == Visits(scoped)
    IN  Average([h \in Hashes(visits) |->
                    IF Cardinality({r \in visits : Hash(r) = h}) = 1 THEN 1 ELSE 0])

AvgTimeOnPage(scoped) ==
    Average([r \in OfType(scoped, "pageleave") |-> Col(r, "dur")])

\* GROUP BY path ORDER BY COUNT( * ) DESC LIMIT 1
MostViewed(scoped) == TopRows(CountBy(LAMBDA r : Col(r, "path"), Pageviews(scoped)), 1)

\* Reads the base table: the CTE carries no paths.
TopPath(rows, site, from, to) == MostViewed(Scoped(rows, site, from, to))

Summary(rows, site, from, to) ==
    LET scoped == Scoped(rows, site, from, to)
    IN  [pageviews        |-> Cardinality(Pageviews(scoped)),
         events           |-> Cardinality(OfType(scoped, "event")),
         avgTimeOnPage    |-> AvgTimeOnPage(scoped),
         avgDailyVisitors |-> AvgDailyVisitors(scoped),
         topPath          |-> TopPath(rows, site, from, to),
         bounceRate       |-> BounceRate(scoped)]

-----------------------------------------------------------------------------
(* The other queries by client time *)

\* uniques is 0 where the answer leaves it out.
Timeseries(scoped, length) ==
    LET views     == Pageviews(scoped)
        bucket(r) == BucketOf(r.ts, length)
        within(b) == {r \in views : bucket(r) = b}
    IN  [b \in {bucket(r) : r \in views} |->
            [pageviews |-> Cardinality(within(b)),
             uniques   |-> Cardinality(Hashes(Visits(within(b))))]]

Dimensions == {"path", "referrer", "country", "device", "utm_source", "utm_medium", "utm_campaign"}

\* A dimension outside the list is a 400.
Top(scoped, dim, limit) ==
    IF dim \notin Dimensions THEN {"400"}
    ELSE LET key(r) == Col(r, dim)
         IN  TopRows(CountBy(key, {r \in Pageviews(scoped) : key(r) # None}),
                     Clamp(limit, 1, MaxLimit))

\* With `by`, the values of one property of one event; `by` without `name` is a 400.
CustomEvents(scoped, name, by, limit) ==
    IF by # None /\ name = None THEN {"400"}
    ELSE LET key(r) == IF by = None THEN Col(r, "name") ELSE Col(r, "props")[by]
             rows   == {r \in OfType(scoped, "event") : by = None \/ Col(r, "name") = name}
         IN  TopRows(CountBy(key, {r \in rows : key(r) # None}), Clamp(limit, 1, MaxLimit))

Present(text) == text \notin {None, Blank}

\* The labels of a host that are a brand's; the first of them decides.
Brands(host) == {i \in DOMAIN host : host[i] \in SearchLabels \cup SocialLabels}

\* channels.rs, classify, for the four columns that it is given.
Classify(referrer, source, medium, campaign) ==
    IF medium \in PaidMedia THEN "Paid"
    ELSE IF Present(source) \/ Present(medium) \/ Present(campaign) THEN "Campaign"
    ELSE IF ~Present(referrer) THEN "Direct"
    ELSE IF referrer \in SocialHosts THEN "Social"
    ELSE IF Brands(referrer) = {} THEN "Referral"
    ELSE IF referrer[Min(Brands(referrer))] \in SearchLabels THEN "Organic Search"
    ELSE "Social"

\* The database counts by the four columns, the server adds the counts up by channel.
Channels(scoped) ==
    LET key(r)     == <<Col(r, "referrer"), Col(r, "utm_source"), Col(r, "utm_medium"), Col(r, "utm_campaign")>>
        groups     == CountBy(key, Pageviews(scoped))
        channel(k) == Classify(k[1], k[2], k[3], k[4])
    IN  [c \in {channel(k) : k \in DOMAIN groups} |->
            Total(Restrict(groups, {k \in DOMAIN groups : channel(k) = c}))]

-----------------------------------------------------------------------------
(* The answers *)

\* stats.rs, range and summary: the window that ends now, and the equal one before it.
From(days, now) == now - Span(days)

PreviousTo_Shared(from) == from

\* Both windows are inclusive, so the earlier one ends one tick before the later begins.
PreviousTo(from) == from - 1

PctChange(current, previous) == IF previous = 0 THEN None ELSE <<current - previous, previous>>

\* Of two averages; there is none from or to a window without visitors.
PctChangeAverage(current, previous) ==
    IF 0 \in {current[2], previous[1]} THEN None
    ELSE <<current[1] * previous[2] - previous[1] * current[2], previous[1] * current[2]>>

\* The two windows of a comparison over `span`, and what changed between them.
Compared(rows, site, span, now) ==
    LET from     == now - span
        current  == Summary(rows, site, from, now)
        previous == Summary(rows, site, from - span, PreviousTo(from))
    IN  [current  |-> current,
         previous |-> previous,
         change   |-> [pageviews |-> PctChange(current.pageviews, previous.pageviews),
                       events    |-> PctChange(current.events, previous.events),
                     avgDailyVisitors |->
                         PctChangeAverage(current.avgDailyVisitors, previous.avgDailyVisitors)]]

\* digest.rs, compute: a comparison of two weeks and four lists.
Digest(rows, site, now) ==
    LET scoped == Scoped(rows, site, now - Week, now)
    IN  [compared  |-> Compared(rows, site, Week, now),
         pages     |-> Top(scoped, "path", 5),
         referrers |-> Top(scoped, "referrer", 5),
         countries |-> Top(scoped, "country", 5),
         devices   |-> Top(scoped, "device", 3)]

\* What each endpoint answers to the parameters q.
Answers(q, rows, now) ==
    LET from   == From(q.days, now)
        scoped == Scoped(rows, q.site, from, now)
    IN  [summary    |-> Summary(rows, q.site, from, now),
         timeseries |-> Timeseries(scoped, IF q.bucket = "hour" THEN Hour ELSE Day),
         top        |-> Top(scoped, q.dim, q.limit),
         events     |-> CustomEvents(scoped, q.name, q.by, q.limit),
         channels   |-> Channels(scoped)]

\* The rows of the last minutes by the database's clock, of pages that keep a session.
Live(rows, site, minutes, now) ==
    {r \in rows : /\ Col(r, "site") = site
                  /\ r.received > now - Clamp(minutes, 1, MaxMinutes)
                  /\ Col(r, "view") # None}

\* Page-visits, not visitors, in all and for each page; the text decides between equals.
Realtime(rows, site, minutes, now) ==
    LET live     == Live(rows, site, minutes, now)
        views(S) == Cardinality({Col(r, "view") : r \in S})
        pages    == {Col(r, "path") : r \in live}
    IN  [active |-> views(live),
         pages  |-> TopRows([p \in pages |-> views({r \in live : Col(r, "path") = p})], 10)]
=============================================================================
