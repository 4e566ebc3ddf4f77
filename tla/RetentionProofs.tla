-------------------------- MODULE RetentionProofs --------------------------
(* What is proved of Retention, for every set of events and requests, every  *)
(* retention, chunk and clock.                                               *)
EXTENDS Retention, FiniteSetTheorems, WellFoundedInduction, TLAPS

-----------------------------------------------------------------------------
(* The table and the clock *)

\* The cutoff of a sweep was taken from a clock that has not gone back, and what sweeps
\* have removed is older than the retention.
PrunedInv ==
    /\ TypeOK
    /\ IsFiniteSet(queue) /\ IsFiniteSet(rows)
    /\ cutoff # None => cutoff <= now - KeepFor
    /\ \A r \in pruned : r.ts < now - KeepFor

LEMMA ClampInt == ASSUME NEW x \in Int, NEW lo \in Int, NEW hi \in Int PROVE Clamp(x, lo, hi) \in Int
  BY DEF Clamp

LEMMA ConstantsTyped == /\ Past \in Nat /\ Future \in Nat /\ KeepFor \in Nat
                        /\ Chunk \in Nat /\ Chunk > 0 /\ Day \in Nat /\ Day > 0
                        /\ MaxDays \in Nat /\ MaxDays > 0
                        /\ Start \in Int /\ MaxNow \in Int /\ Skews \subseteq Int
                        /\ None \notin Int
  BY LimitsNat, ChunkPositive, DayPositive, MaxDaysPositive, ClockInt, SkewsInt, NoneIsNoTime

\* A DELETE takes rows of the table that are older than its cutoff.
LEMMA OldestAreOld == ASSUME NEW c, NEW S \in Oldest(c) PROVE S \subseteq rows /\ \A r \in S : r.ts < c
  BY DEF Oldest, Old

LEMMA InitPruned == Init => PrunedInv
  BY ConstantsTyped, FS_EmptySet DEF Init, PrunedInv, TypeOK

LEMMA DeletePruned ==
  ASSUME PrunedInv, cutoff # None, NEW S \in SUBSET rows, \A r \in S : r.ts < cutoff, Delete(S),
         cutoff' \in {None, cutoff}
  PROVE  PrunedInv'
<1>1. IsFiniteSet(rows \ S) BY FS_Difference DEF PrunedInv
<1>2. TypeOK' BY DEF PrunedInv, TypeOK, Delete
<1>3. \A r \in S : r.ts < now - KeepFor
  <2> SUFFICES ASSUME NEW r \in S PROVE r.ts < now - KeepFor OBVIOUS
  <2>1. r.ts \in Int /\ cutoff \in Int /\ now \in Int BY DEF PrunedInv, TypeOK, Rows
  <2>2. r.ts < cutoff /\ cutoff <= now - KeepFor BY DEF PrunedInv
  <2> QED BY <2>1, <2>2, ConstantsTyped
<1>4. (\A r \in pruned : r.ts < now - KeepFor)' BY <1>3 DEF PrunedInv, Delete
<1> QED BY <1>1, <1>2, <1>4 DEF PrunedInv, Delete

LEMMA StepPruned == PrunedInv /\ [Next]_vars => PrunedInv'
<1> SUFFICES ASSUME PrunedInv, [Next]_vars PROVE PrunedInv' OBVIOUS
<1> USE ConstantsTyped
<1>1. CASE Tick
  <2>1. now' = now + 1 /\ now \in Int BY <1>1 DEF Tick, PrunedInv, TypeOK
  <2>2. TypeOK' BY <1>1, <2>1 DEF Tick, PrunedInv, TypeOK
  <2>3. ASSUME NEW r \in pruned PROVE r.ts < now' - KeepFor
    <3>1. r.ts \in Int /\ r.ts < now - KeepFor BY DEF PrunedInv, TypeOK, Rows
    <3> QED BY <2>1, <3>1
  <2>4. cutoff # None => cutoff <= now' - KeepFor BY <2>1 DEF PrunedInv, TypeOK
  <2> QED BY <1>1, <2>2, <2>3, <2>4 DEF Tick, PrunedInv
<1>2. ASSUME NEW e \in Events, NEW skew \in Skews, Collect(e, skew) PROVE PrunedInv'
  <2> DEFINE b == [event |-> e, ts |-> Clamp(now + skew, now - Past, now + Future), salted |-> now \div Day]
  <2>1. now \in Int /\ now + skew \in Int /\ now - Past \in Int /\ now + Future \in Int
    BY DEF PrunedInv, TypeOK
  <2>2. now \div Day \in Int BY <2>1
  <2>3. b \in Stamped BY <2>1, <2>2, ClampInt DEF Stamped
  <2>4. queue' = queue \cup {b} BY <1>2 DEF Collect
  <2>5. IsFiniteSet(queue') BY <2>4, FS_AddElement DEF PrunedInv
  <2> QED BY <1>2, <2>3, <2>4, <2>5 DEF Collect, PrunedInv, TypeOK
<1>3. ASSUME NEW batch \in SUBSET queue, InsertEvents(batch) PROVE PrunedInv'
  <2> DEFINE row(b) == [event |-> b.event, ts |-> b.ts, received |-> now, salted |-> b.salted]
  <2>1. IsFiniteSet(batch) BY FS_Subset DEF PrunedInv
  <2>2. IsFiniteSet({row(b) : b \in batch})
    <3> DEFINE f == [b \in batch |-> row(b)]
    <3>1. f \in Surjection(batch, {row(b) : b \in batch}) BY DEF Surjection
    <3> HIDE DEF f
    <3> QED BY <2>1, <3>1, FS_Surjection
  <2>3. \A b \in batch : row(b) \in Rows BY DEF PrunedInv, TypeOK, Stamped, Rows
  <2>4. rows' = rows \cup {row(b) : b \in batch} BY <1>3 DEF InsertEvents
  <2>5. IsFiniteSet(rows') BY <2>2, <2>4, FS_Union DEF PrunedInv
  <2>6. IsFiniteSet(queue') BY <1>3, FS_Subset DEF InsertEvents, PrunedInv
  <2>7. TypeOK' BY <1>3, <2>3, <2>4 DEF InsertEvents, PrunedInv, TypeOK
  <2> QED BY <1>3, <2>5, <2>6, <2>7 DEF InsertEvents, PrunedInv
<1>4. CASE SweepTick
  BY <1>4 DEF SweepTick, PrunedInv, TypeOK
<1>5. CASE DeleteChunk
  <2>1. PICK S \in Oldest(cutoff) : Delete(S) /\ cutoff' \in {None, cutoff} BY <1>5 DEF DeleteChunk
  <2> QED BY <1>5, <2>1, OldestAreOld, DeletePruned DEF DeleteChunk
<1>6. CASE DeleteErr
  <2>1. PICK S \in Oldest(cutoff) \cup {{}} : Delete(S) /\ cutoff' = None BY <1>6 DEF DeleteErr
  <2>2. S \subseteq rows /\ \A r \in S : r.ts < cutoff BY <2>1, OldestAreOld
  <2> QED BY <1>6, <2>1, <2>2, DeletePruned DEF DeleteErr
<1>7. CASE Crash
  BY <1>7, FS_EmptySet DEF Crash, PrunedInv, TypeOK
<1>8. CASE UNCHANGED vars
  BY <1>8 DEF vars, PrunedInv, TypeOK
<1> QED BY <1>1, <1>2, <1>3, <1>4, <1>5, <1>6, <1>7, <1>8 DEF Next

\* Every reachable state has a typed, finite table, a cutoff that is not ahead of the
\* clock's, and has lost only rows that were older than the retention.
THEOREM PrunedInductive == Spec => []PrunedInv
<1>1. Init => PrunedInv BY InitPruned
<1>2. PrunedInv /\ [Next]_vars => PrunedInv' BY StepPruned
<1> QED BY <1>1, <1>2, PTL DEF Spec

\* No step leads out of the types: a stamp is a number however far the client's clock is
\* off, and a sweep that runs has a cutoff.
THEOREM RetentionTyped == Spec => []TypeOK
<1>1. PrunedInv => TypeOK BY DEF PrunedInv
<1> QED BY <1>1, PrunedInductive, PTL

-----------------------------------------------------------------------------
(* Reports and the retention *)

\* A window within the retention holds the same rows whatever was removed.
LEMMA ScopedWhole ==
  ASSUME PrunedInv, NEW site, NEW from \in Int, from >= now - KeepFor, NEW to \in Int
  PROVE  Scoped(rows, site, from, to) = Scoped(EverStored(site), site, from, to)
<1>1. ASSUME NEW r \in pruned PROVE ~(from <= r.ts)
  <2>1. r.ts \in Int /\ now \in Int BY DEF PrunedInv, TypeOK, Rows
  <2>2. r.ts < now - KeepFor BY DEF PrunedInv
  <2> QED BY <2>1, <2>2, ConstantsTyped
<1> QED BY <1>1 DEF Scoped, EverStored, OfSite

\* A summary is a function of the rows in its window: top_path, which reads the table
\* again, included.
LEMMA SummaryOfScoped ==
  ASSUME NEW A, NEW B, NEW site, NEW from, NEW to,
         Scoped(A, site, from, to) = Scoped(B, site, from, to)
  PROVE  Summary(A, site, from, to) = Summary(B, site, from, to)
  BY DEF Summary, TopPath

LEMMA SpanPositive == ASSUME NEW d \in Int PROVE Span(d) \in Nat /\ Span(d) > 0
<1> DEFINE c == Clamp(d, 1, MaxDays)
<1>1. c \in Nat /\ c > 0 BY ConstantsTyped DEF Clamp
<1> HIDE DEF c
<1>2. c * Day \in Nat /\ c * Day > 0 BY <1>1, ConstantsTyped
<1> QED BY <1>2 DEF Span, c

\* What /stats/* answers from the pruned table, it would answer from the whole one.
LEMMA AnswersWhole ==
  ASSUME PrunedInv, NEW q \in Requests, Span(q.days) <= KeepFor
  PROVE  Answers(q, rows, now) = Answers(q, EverStored(q.site), now)
<1> DEFINE from == From(q.days, now)
<1>1. now \in Int /\ Span(q.days) \in Nat BY RequestsTyped, SpanPositive DEF PrunedInv, TypeOK
<1>2. from \in Int /\ from >= now - KeepFor BY <1>1, ConstantsTyped DEF From
<1> HIDE DEF from
<1>3. Scoped(rows, q.site, from, now) = Scoped(EverStored(q.site), q.site, from, now)
  BY <1>1, <1>2, ScopedWhole
<1>4. Summary(rows, q.site, from, now) = Summary(EverStored(q.site), q.site, from, now)
  BY <1>3, SummaryOfScoped
<1> QED BY <1>3, <1>4 DEF Answers, from

\* The same for a digest, both of whose weeks the retention covers.
LEMMA DigestWhole ==
  ASSUME PrunedInv, NEW site, 2 * Week <= KeepFor
  PROVE  Digest(rows, site, now) = Digest(EverStored(site), site, now)
<1> DEFINE S == EverStored(site)
<1> DEFINE from == now - Week
<1> DEFINE before == from - Week
<1>1. now \in Int /\ Week \in Nat BY WeekNat DEF PrunedInv, TypeOK
<1>2. /\ from \in Int /\ from >= now - KeepFor
      /\ before \in Int /\ before >= now - KeepFor
      /\ PreviousTo(from) \in Int
  BY <1>1, ConstantsTyped DEF PreviousTo
<1> HIDE DEF from, before
<1>3. Scoped(rows, site, from, now) = Scoped(S, site, from, now)
  BY <1>1, <1>2, ScopedWhole
<1>4. Scoped(rows, site, before, PreviousTo(from)) = Scoped(S, site, before, PreviousTo(from))
  BY <1>1, <1>2, ScopedWhole
<1> HIDE DEF S
<1>5. Summary(rows, site, from, now) = Summary(S, site, from, now)
  BY <1>3, SummaryOfScoped
<1>6. Summary(rows, site, before, PreviousTo(from)) = Summary(S, site, before, PreviousTo(from))
  BY <1>4, SummaryOfScoped
<1>7. Compared(rows, site, Week, now) = Compared(S, site, Week, now)
  BY <1>5, <1>6 DEF Compared, from, before
<1>8. Scoped(rows, site, now - Week, now) = Scoped(S, site, now - Week, now)
  BY <1>3 DEF from
<1> QED BY <1>7, <1>8 DEF Digest, S

\* /realtime reads the rows of its site only.
LEMMA RealtimeOfSite ==
  ASSUME NEW site, NEW minutes
  PROVE  Realtime(rows, site, minutes, now) = Realtime(OfSite(rows, site), site, minutes, now)
<1>1. Live(rows, site, minutes, now) = Live(OfSite(rows, site), site, minutes, now)
  BY DEF Live, OfSite
<1> QED BY <1>1 DEF Realtime

\* Retention never shows in a report whose window it covers, and no report tells of
\* another tenant's rows, for every table, request, retention and size of the chunks.
THEOREM ReportsTheorem == Spec => []ReportsWhole
<1>1. PrunedInv => ReportsWhole
  BY AnswersWhole, DigestWhole, RealtimeOfSite DEF ReportsWhole
<1> QED BY <1>1, PrunedInductive, PTL

-----------------------------------------------------------------------------
(* The two windows of a comparison *)

LEMMA PageviewsOfSummary ==
  ASSUME NEW A, NEW site, NEW from, NEW to
  PROVE  /\ Summary(A, site, from, to).pageviews = Cardinality(OfType(Scoped(A, site, from, to), "pageview"))
         /\ Summary(A, site, from, to).events = Cardinality(OfType(Scoped(A, site, from, to), "event"))
  BY DEF Summary, Pageviews

\* The windows share no tick and leave none out, for rows of any type.
LEMMA WindowsAddUp ==
  ASSUME PrunedInv, NEW site, NEW type, NEW span \in Nat, span > 0
  PROVE  Cardinality(OfType(Scoped(rows, site, now - span, now), type))
           + Cardinality(OfType(Scoped(rows, site, (now - span) - span, PreviousTo(now - span)), type))
         = Cardinality(OfType(Scoped(rows, site, now - 2 * span, now), type))
<1> DEFINE later   == OfType(Scoped(rows, site, now - span, now), type)
<1> DEFINE earlier == OfType(Scoped(rows, site, (now - span) - span, PreviousTo(now - span)), type)
<1> DEFINE both    == OfType(Scoped(rows, site, now - 2 * span, now), type)
<1>1. now \in Int BY DEF PrunedInv, TypeOK
<1>2. \A r \in rows : r.ts \in Int BY DEF PrunedInv, TypeOK, Rows
<1>3. /\ later \subseteq rows
      /\ earlier \subseteq rows
  BY DEF OfType, Scoped
<1>4. IsFiniteSet(later) /\ IsFiniteSet(earlier) BY <1>3, FS_Subset DEF PrunedInv
<1>5. \A r \in rows : (now - 2 * span <= r.ts /\ r.ts <= now)
          <=> \/ now - span <= r.ts /\ r.ts <= now
              \/ (now - span) - span <= r.ts /\ r.ts <= (now - span) - 1
  BY <1>1, <1>2
<1>6. both = later \cup earlier BY <1>5 DEF OfType, Scoped, PreviousTo
<1>7. \A r \in rows : ~(now - span <= r.ts /\ r.ts <= (now - span) - 1) BY <1>1, <1>2
<1>8. later \cap earlier = {} BY <1>7 DEF OfType, Scoped, PreviousTo
<1> HIDE DEF later, earlier, both
<1>9. Cardinality(later \cup earlier) = Cardinality(later) + Cardinality(earlier) - Cardinality({})
  BY <1>4, <1>8, FS_Union
<1>10. Cardinality(later) \in Nat /\ Cardinality(earlier) \in Nat BY <1>4, FS_CardinalityType
<1>11. Cardinality(both) = Cardinality(later) + Cardinality(earlier)
  BY <1>6, <1>9, <1>10, FS_EmptySet
<1> QED BY <1>11 DEF later, earlier, both

\* A comparison counts every row of its two windows once, for every span and table.
THEOREM CompareTheorem == Spec => []CompareCountsOnce
<1>1. ASSUME PrunedInv, NEW q \in Requests
      PROVE  LET span     == Span(q.days)
                 compared == Compared(rows, q.site, span, now)
                 doubled  == Summary(rows, q.site, now - 2 * span, now)
             IN  /\ compared.current.pageviews + compared.previous.pageviews = doubled.pageviews
                 /\ compared.current.events + compared.previous.events = doubled.events
  <2> DEFINE span == Span(q.days)
  <2>1. span \in Nat /\ span > 0 BY RequestsTyped, SpanPositive
  <2> HIDE DEF span
  <2>2. /\ Compared(rows, q.site, span, now).current = Summary(rows, q.site, now - span, now)
        /\ Compared(rows, q.site, span, now).previous
             = Summary(rows, q.site, (now - span) - span, PreviousTo(now - span))
    BY DEF Compared
  <2>3. /\ Compared(rows, q.site, span, now).current.pageviews
             + Compared(rows, q.site, span, now).previous.pageviews
             = Summary(rows, q.site, now - 2 * span, now).pageviews
        /\ Compared(rows, q.site, span, now).current.events
             + Compared(rows, q.site, span, now).previous.events
             = Summary(rows, q.site, now - 2 * span, now).events
    BY <1>1, <2>1, <2>2, PageviewsOfSummary, WindowsAddUp
  <2> QED BY <2>3 DEF span
<1>2. PrunedInv => CompareCountsOnce BY <1>1 DEF CompareCountsOnce
<1> QED BY <1>2, PrunedInductive, PTL

-----------------------------------------------------------------------------
(* What a sweep leaves *)

\* A chunk that is not full is all there is.
LEMMA ShortChunkIsAll ==
  ASSUME PrunedInv, NEW c, NEW S \in Oldest(c), Cardinality(S) < Chunk
  PROVE  S = Old(c)
<1>1. IsFiniteSet(Old(c)) BY FS_Subset DEF PrunedInv, Old
<1>2. Cardinality(Old(c)) \in Nat BY <1>1, FS_CardinalityType
<1>3. S \in SUBSET Old(c) BY DEF Oldest
<1>4. Cardinality(S) = IF Cardinality(Old(c)) < Chunk THEN Cardinality(Old(c)) ELSE Chunk
  BY DEF Oldest
<1>5. Cardinality(S) = Cardinality(Old(c)) BY <1>2, <1>4, ConstantsTyped
<1> QED BY <1>1, <1>3, <1>5, FS_Subset

\* A sweep that ends by itself ends with a table that has nothing older than its cutoff,
\* for every size of the chunks, whatever the writer inserted meanwhile.
THEOREM SweepTheorem == Spec => SweepLeavesNothingOld
<1>1. ASSUME PrunedInv, DeleteChunk, cutoff' = None
      PROVE  \A r \in rows' : r.ts >= cutoff
  <2>1. PICK S \in Oldest(cutoff) :
             Delete(S) /\ cutoff' = IF Cardinality(S) < Chunk THEN None ELSE cutoff
    BY <1>1 DEF DeleteChunk
  <2>2. cutoff # None BY <1>1 DEF DeleteChunk
  <2>3. S = Old(cutoff) BY <1>1, <2>1, <2>2, ShortChunkIsAll
  <2>4. rows' = rows \ Old(cutoff) BY <2>1, <2>3 DEF Delete
  <2>5. ASSUME NEW r \in rows' PROVE r.ts >= cutoff
    <3>1. r \in rows /\ ~(r.ts < cutoff) BY <2>4, <2>5 DEF Old
    <3>2. r.ts \in Int /\ cutoff \in Int BY <1>1, <2>2, <3>1 DEF PrunedInv, TypeOK, Rows
    <3> QED BY <3>1, <3>2
  <2> QED BY <2>5
<1>2. PrunedInv => [DeleteChunk /\ cutoff' = None => \A r \in rows' : r.ts >= cutoff]_vars
  BY <1>1
<1> QED BY <1>2, PrunedInductive, PTL DEF SweepLeavesNothingOld

-----------------------------------------------------------------------------
(* Sums *)

\* A sum is any measure of the subsets of its domain that each element adds its own
\* value to: the order in which the elements are added up does not matter.
LEMMA SumIsMeasure ==
  ASSUME NEW f, IsFiniteSet(DOMAIN f), NEW g \in [SUBSET DOMAIN f -> Int], g[{}] = 0,
         \A s \in SUBSET DOMAIN f : \A x \in s : g[s] = f[x] + g[s \ {x}]
  PROVE  Total(f) = g[DOMAIN f]
<1> DEFINE S == DOMAIN f
<1> DEFINE pick(s) == CHOOSE x \in s : TRUE
<1> DEFINE Sums(h) == h = [s \in SUBSET S |-> IF s = {} THEN 0 ELSE f[pick(s)] + h[s \ {pick(s)}]]
<1> DEFINE sums == CHOOSE h : Sums(h)
<1>1. \A s \in SUBSET S : s # {} => pick(s) \in s OBVIOUS
<1>2. Sums(g)
  <2>1. \A s \in SUBSET S : g[s] = IF s = {} THEN 0 ELSE f[pick(s)] + g[s \ {pick(s)}]
    BY <1>1
  <2>2. g = [s \in SUBSET S |-> g[s]] OBVIOUS
  <2> HIDE DEF pick
  <2> QED BY <2>1, <2>2
<1>3. Sums(sums)
  <2> HIDE DEF Sums
  <2> QED BY <1>2 DEF sums
<1>4. Total(f) = sums[S]
  BY DEF Total, MapThenSumSet, MapThenFoldSet
<1> HIDE DEF sums
<1>5. \A s \in SUBSET S : sums[s] = IF s = {} THEN 0 ELSE f[pick(s)] + sums[s \ {pick(s)}]
  <2> HIDE DEF pick
  <2> QED BY <1>3
<1> HIDE DEF pick
<1>6. \A s \in SUBSET S : sums[s] = g[s]
  <2> SUFFICES ASSUME NEW t \in SUBSET S, sums[t] # g[t] PROVE FALSE OBVIOUS
  <2> DEFINE D == {Cardinality(s) : s \in {u \in SUBSET S : sums[u] # g[u]}}
  <2>1. \A s \in SUBSET S : IsFiniteSet(s) /\ Cardinality(s) \in Nat
    BY FS_Subset, FS_CardinalityType
  <2>2. D \subseteq Nat /\ D # {} BY <2>1
  <2> HIDE DEF D
  <2>3. PICK d \in D : \A e \in D : <<e, d>> \notin OpToRel(<, Nat)
    BY <2>2, WFMin, NatLessThanWellFounded
  <2>4. PICK s \in SUBSET S : Cardinality(s) = d /\ sums[s] # g[s] BY <2>3 DEF D
  <2>5. s # {} BY <1>5, <2>4
  <2> DEFINE x == pick(s)
  <2>6. x \in s BY <1>1, <2>5
  <2> HIDE DEF x
  <2>7. Cardinality(s \ {x}) = d - 1 /\ d \in Nat /\ d - 1 \in Nat /\ s \ {x} \in SUBSET S
    <3>1. IsFiniteSet(s) /\ d \in Nat BY <2>1, <2>4
    <3>2. Cardinality(s \ {x}) = d - 1 BY <2>4, <2>6, <3>1, FS_RemoveElement
    <3> QED BY <2>1, <3>1, <3>2
  <2>8. <<d - 1, d>> \in OpToRel(<, Nat) BY <2>7 DEF OpToRel
  <2>9. sums[s \ {x}] = g[s \ {x}] BY <2>1, <2>3, <2>7, <2>8 DEF D
  <2>10. sums[s] = f[x] + sums[s \ {x}] BY <1>5, <2>5 DEF x
  <2>11. g[s] = f[x] + g[s \ {x}] BY <2>6
  <2> QED BY <2>4, <2>9, <2>10, <2>11
<1> QED BY <1>4, <1>6

\* A GROUP BY loses and repeats nothing: the groups' counts add up to the whole.
LEMMA GroupsAddUp ==
  ASSUME NEW V, IsFiniteSet(V), NEW key, NEW f,
         \A v \in V : key[v] \in DOMAIN f, IsFiniteSet(DOMAIN f),
         \A k \in DOMAIN f : f[k] = Cardinality({v \in V : key[v] = k})
  PROVE  Total(f) = Cardinality(V)
<1> DEFINE S == DOMAIN f
<1> DEFINE within(s) == {v \in V : key[v] \in s}
<1> DEFINE g == [s \in SUBSET S |-> Cardinality(within(s))]
<1>1. \A s : IsFiniteSet(within(s)) /\ Cardinality(within(s)) \in Nat
  <2> SUFFICES ASSUME NEW s PROVE IsFiniteSet(within(s)) /\ Cardinality(within(s)) \in Nat
    OBVIOUS
  <2>1. within(s) \in SUBSET V OBVIOUS
  <2> HIDE DEF within
  <2> QED BY <2>1, FS_Subset, FS_CardinalityType
<1>2. g \in [SUBSET S -> Int] BY <1>1
<1>3. g[{}] = 0
  <2>1. within({}) = {} OBVIOUS
  <2>2. g[{}] = Cardinality(within({})) OBVIOUS
  <2> QED BY <2>1, <2>2, FS_EmptySet
<1>4. ASSUME NEW s \in SUBSET S, NEW x \in s PROVE g[s] = f[x] + g[s \ {x}]
  <2> DEFINE one  == within({x})
  <2> DEFINE rest == within(s \ {x})
  <2>1. f[x] = Cardinality(one)
    <3>1. one = {v \in V : key[v] = x} OBVIOUS
    <3> HIDE DEF one
    <3> QED BY <3>1
  <2>2. within(s) = one \cup rest /\ one \cap rest = {} OBVIOUS
  <2>3. g[s] = Cardinality(within(s)) /\ g[s \ {x}] = Cardinality(rest) OBVIOUS
  <2>4. /\ IsFiniteSet(one) /\ IsFiniteSet(rest)
        /\ Cardinality(one) \in Nat /\ Cardinality(rest) \in Nat
    BY <1>1
  <2> HIDE DEF one, rest, within, g
  <2>5. Cardinality(one \cup rest) = Cardinality(one) + Cardinality(rest) - Cardinality({})
    BY <2>2, <2>4, FS_Union
  <2> QED BY <2>1, <2>2, <2>3, <2>4, <2>5, FS_EmptySet
<1>5. g[S] = Cardinality(within(S)) /\ within(S) = V
  <2>1. within(S) = V OBVIOUS
  <2>2. S \in SUBSET S OBVIOUS
  <2> HIDE DEF within, S
  <2> QED BY <2>1, <2>2
<1> HIDE DEF g, within
<1>6. Total(f) = g[S] BY <1>2, <1>3, <1>4, SumIsMeasure
<1> QED BY <1>5, <1>6

\* The keys of a finite table are finitely many.
LEMMA KeysFinite ==
  ASSUME NEW V, IsFiniteSet(V), NEW key
  PROVE  IsFiniteSet({key[v] : v \in V})
<1> DEFINE f == [v \in V |-> key[v]]
<1>1. f \in Surjection(V, {key[v] : v \in V}) BY DEF Surjection
<1> HIDE DEF f
<1> QED BY <1>1, FS_Surjection

-----------------------------------------------------------------------------
(* The reports agree *)

\* The rows of a report are finitely many.
LEMMA ScopedFinite ==
  ASSUME NEW T \in SUBSET rows, PrunedInv, NEW site, NEW from, NEW to
  PROVE  LET scoped == Scoped(T, site, from, to)
         IN  /\ scoped \subseteq rows
             /\ IsFiniteSet(Pageviews(scoped)) /\ IsFiniteSet(Visits(scoped))
<1> DEFINE scoped == Scoped(T, site, from, to)
<1>1. scoped \subseteq rows BY DEF Scoped
<1>2. Pageviews(scoped) \subseteq rows /\ Visits(scoped) \subseteq rows
  BY <1>1 DEF Visits, Pageviews, OfType
<1> HIDE DEF scoped
<1>3. IsFiniteSet(Pageviews(scoped)) /\ IsFiniteSet(Visits(scoped))
  BY <1>2, FS_Subset DEF PrunedInv
<1> QED BY <1>1, <1>3 DEF scoped

\* The pageviews of a time series add up to those of its window, for every bucket length.
LEMMA TimeseriesAddsUp ==
  ASSUME NEW scoped, IsFiniteSet(Pageviews(scoped)), NEW length
  PROVE  LET series == Timeseries(scoped, length)
         IN  Total([b \in DOMAIN series |-> series[b].pageviews]) = Cardinality(Pageviews(scoped))
<1> DEFINE V == Pageviews(scoped)
<1> DEFINE key == [r \in V |-> BucketOf(r.ts, length)]
<1> DEFINE series == Timeseries(scoped, length)
<1> DEFINE f == [b \in DOMAIN series |-> series[b].pageviews]
<1>1. DOMAIN series = {BucketOf(r.ts, length) : r \in V} BY DEF Timeseries
<1>2. DOMAIN f = {key[r] : r \in V} BY <1>1
<1>3. \A b \in DOMAIN f : f[b] = Cardinality({r \in V : key[r] = b})
  <2> SUFFICES ASSUME NEW b \in DOMAIN series
               PROVE  series[b].pageviews = Cardinality({r \in V : key[r] = b})
    OBVIOUS
  <2>1. series[b].pageviews = Cardinality({r \in V : BucketOf(r.ts, length) = b})
    BY <1>1 DEF Timeseries
  <2>2. {r \in V : BucketOf(r.ts, length) = b} = {r \in V : key[r] = b} OBVIOUS
  <2> QED BY <2>1, <2>2
<1> HIDE DEF key, f, series
<1>4. IsFiniteSet(DOMAIN f) BY <1>2, KeysFinite
<1>5. Total(f) = Cardinality(V) BY <1>2, <1>3, <1>4, GroupsAddUp
<1> QED BY <1>5 DEF f, series

\* The pageviews of the channels add up to those of the window: the database counts by
\* four columns, the server adds the counts up, and neither loses a view.
LEMMA ChannelsAddUp ==
  ASSUME NEW scoped, IsFiniteSet(Pageviews(scoped))
  PROVE  Total(Channels(scoped)) = Cardinality(Pageviews(scoped))
<1> DEFINE V == Pageviews(scoped)
<1> DEFINE source(r)  == <<Col(r, "referrer"), Col(r, "utm_source"), Col(r, "utm_medium"), Col(r, "utm_campaign")>>
<1> DEFINE channel(k) == Classify(k[1], k[2], k[3], k[4])
<1> DEFINE groups == CountBy(source, V)
<1> DEFINE within(c) == {k \in DOMAIN groups : channel(k) = c}
<1> DEFINE C == {channel(k) : k \in DOMAIN groups}
<1> DEFINE byChannel == [c \in C |-> Total(Restrict(groups, within(c)))]
<1>1. Channels(scoped) = byChannel BY DEF Channels
<1> HIDE DEF source, channel
<1>2. /\ DOMAIN groups = {source(r) : r \in V}
      /\ \A k \in DOMAIN groups : groups[k] = Cardinality({r \in V : source(r) = k})
  BY DEF CountBy
<1>3. IsFiniteSet(DOMAIN groups)
  <2> DEFINE key == [r \in V |-> source(r)]
  <2>1. DOMAIN groups = {key[r] : r \in V} BY <1>2
  <2> HIDE DEF key, groups
  <2> QED BY <2>1, KeysFinite
<1> HIDE DEF groups
<1>4. ASSUME NEW c PROVE Total(Restrict(groups, within(c))) = Cardinality({r \in V : channel(source(r)) = c})
  <2> DEFINE W   == {r \in V : channel(source(r)) = c}
  <2> DEFINE key == [r \in W |-> source(r)]
  <2> DEFINE f   == Restrict(groups, within(c))
  <2>1. DOMAIN f = within(c) /\ \A k \in within(c) : f[k] = groups[k] BY DEF Restrict
  <2>2. within(c) \in SUBSET DOMAIN groups OBVIOUS
  <2>3. IsFiniteSet(DOMAIN f)
    <3> HIDE DEF f, within
    <3> QED BY <1>3, <2>1, <2>2, FS_Subset
  <2>4. IsFiniteSet(W)
    <3>1. W \in SUBSET V OBVIOUS
    <3> HIDE DEF W
    <3> QED BY <3>1, FS_Subset
  <2>5. \A r \in W : key[r] \in DOMAIN f BY <1>2, <2>1
  <2>6. ASSUME NEW k \in DOMAIN f PROVE f[k] = Cardinality({r \in W : key[r] = k})
    <3>1. k \in DOMAIN groups /\ channel(k) = c /\ f[k] = groups[k] BY <2>1
    <3>2. {r \in W : key[r] = k} = {r \in V : source(r) = k} BY <3>1
    <3> QED BY <1>2, <3>1, <3>2
  <2> HIDE DEF W, key, f
  <2>7. Total(f) = Cardinality(W) BY <2>3, <2>4, <2>5, <2>6, GroupsAddUp
  <2> QED BY <2>7 DEF f, W
<1> DEFINE key == [r \in V |-> channel(source(r))]
<1>5. DOMAIN byChannel = C OBVIOUS
<1>6. C = {key[r] : r \in V} BY <1>2
<1>7. ASSUME NEW c \in C PROVE byChannel[c] = Cardinality({r \in V : key[r] = c})
  <2>1. byChannel[c] = Total(Restrict(groups, within(c))) OBVIOUS
  <2>2. {r \in V : key[r] = c} = {r \in V : channel(source(r)) = c} OBVIOUS
  <2> HIDE DEF byChannel, key, within
  <2> QED BY <1>4, <2>1, <2>2
<1> HIDE DEF byChannel, key, C
<1>8. IsFiniteSet(C) BY <1>6, KeysFinite
<1>9. Total(byChannel) = Cardinality(V) BY <1>5, <1>6, <1>7, <1>8, GroupsAddUp
<1> QED BY <1>1, <1>9

\* What a time series says of a day's visitors, the average of the summary is made of.
LEMMA AverageOfSeries ==
  ASSUME NEW scoped, IsFiniteSet(Visits(scoped))
  PROVE  LET byDay == Timeseries(scoped, Day)
             met   == {b \in DOMAIN byDay : byDay[b].uniques > 0}
         IN  AvgDailyVisitors(scoped) = <<Total([b \in met |-> byDay[b].uniques]), Cardinality(met)>>
<1> DEFINE visits == Visits(scoped)
<1> DEFINE of(d) == {r \in visits : BucketOf(r.ts, Day) = d}
<1> DEFINE days  == {BucketOf(r.ts, Day) : r \in visits}
<1> DEFINE byDay == Timeseries(scoped, Day)
<1> DEFINE met   == {b \in DOMAIN byDay : byDay[b].uniques > 0}
<1>1. DOMAIN byDay = {BucketOf(r.ts, Day) : r \in Pageviews(scoped)} BY DEF Timeseries
<1>2. ASSUME NEW b \in DOMAIN byDay PROVE byDay[b].uniques = Cardinality(Hashes(of(b)))
  <2>1. byDay[b].uniques = Cardinality(Hashes(Visits({r \in Pageviews(scoped) : BucketOf(r.ts, Day) = b})))
    BY <1>1 DEF Timeseries
  <2>2. Visits({r \in Pageviews(scoped) : BucketOf(r.ts, Day) = b}) = of(b)
    BY DEF Visits, Pageviews, OfType
  <2> QED BY <2>1, <2>2
<1>3. \A d : of(d) # {} <=> d \in days OBVIOUS
<1>4. days \subseteq DOMAIN byDay BY <1>1 DEF Visits
<1>5. \A d : IsFiniteSet(Hashes(of(d))) /\ Cardinality(Hashes(of(d))) \in Nat
             /\ (Cardinality(Hashes(of(d))) > 0 <=> of(d) # {})
  <2> SUFFICES ASSUME NEW d
               PROVE  IsFiniteSet(Hashes(of(d))) /\ Cardinality(Hashes(of(d))) \in Nat
                      /\ (Cardinality(Hashes(of(d))) > 0 <=> of(d) # {})
    OBVIOUS
  <2> DEFINE R   == of(d)
  <2> DEFINE key == [r \in R |-> Hash(r)]
  <2>1. R \in SUBSET visits OBVIOUS
  <2> HIDE DEF R
  <2>2. IsFiniteSet(R) BY <2>1, FS_Subset
  <2>3. Hashes(R) = {key[r] : r \in R} BY DEF Hashes
  <2> HIDE DEF key
  <2>4. IsFiniteSet(Hashes(R)) BY <2>2, <2>3, KeysFinite
  <2>5. Cardinality(Hashes(R)) \in Nat /\ (Cardinality(Hashes(R)) = 0 <=> Hashes(R) = {})
    BY <2>4, FS_CardinalityType, FS_EmptySet
  <2>6. Hashes(R) = {} <=> R = {} BY <2>3
  <2> QED BY <2>4, <2>5, <2>6 DEF R
<1> HIDE DEF of
<1>6. met = days BY <1>2, <1>3, <1>4, <1>5
<1>7. [b \in met |-> byDay[b].uniques] = [d \in days |-> Cardinality(Hashes(of(d)))]
  <2> HIDE DEF days, byDay, met
  <2>1. \A b \in met : byDay[b].uniques = Cardinality(Hashes(of(b))) BY <1>2 DEF met
  <2> QED BY <1>6, <2>1
<1>8. AvgDailyVisitors(scoped) = Average([d \in days |-> Cardinality(Hashes(of(d)))])
  BY DEF AvgDailyVisitors, of
<1> HIDE DEF days, met, byDay
<1>9. AvgDailyVisitors(scoped) = <<Total([b \in met |-> byDay[b].uniques]), Cardinality(met)>>
  BY <1>6, <1>7, <1>8 DEF Average
<1> QED BY <1>9 DEF met, byDay

\* Where the clocks agree on the day, the hashes of a window are those of its days: none
\* belongs to two days.
LEMMA HashesOfDays ==
  ASSUME NEW scoped, IsFiniteSet(Visits(scoped)), \A r \in scoped : r.ts \div Day = r.salted
  PROVE  AvgDailyVisitors(scoped)[1] = BounceRate(scoped)[2]
<1> DEFINE visits == Visits(scoped)
<1> DEFINE V == Hashes(visits)
<1> DEFINE key == [h \in V |-> h[3]]
<1> DEFINE f == [d \in {BucketOf(r.ts, Day) : r \in visits} |->
                    Cardinality(Hashes({r \in visits : BucketOf(r.ts, Day) = d}))]
<1>1. AvgDailyVisitors(scoped)[1] = Total(f) BY DEF AvgDailyVisitors, Average
<1>2. BounceRate(scoped)[2] = Cardinality(V) BY DEF BounceRate, Average
<1>3. ASSUME NEW r \in visits PROVE Hash(r)[3] = BucketOf(r.ts, Day)
  <2>1. r \in scoped /\ Hash(r) # None BY DEF Visits, Pageviews, OfType
  <2>2. Hash(r) = <<Col(r, "visitor"), Col(r, "site"), r.salted>> BY <2>1 DEF Hash
  <2> QED BY <2>1, <2>2 DEF BucketOf
<1> HIDE DEF visits
<1>4. \A h : h \in V <=> \E r \in visits : Hash(r) = h BY DEF Hashes
<1>5. \A h \in V : key[h] \in DOMAIN f BY <1>3, <1>4
<1>6. ASSUME NEW d \in DOMAIN f PROVE f[d] = Cardinality({h \in V : key[h] = d})
  <2>1. Hashes({r \in visits : BucketOf(r.ts, Day) = d}) = {h \in V : key[h] = d}
    BY <1>3, <1>4 DEF Hashes
  <2> QED BY <2>1
<1>7. IsFiniteSet(V)
  <2> DEFINE hash == [r \in visits |-> Hash(r)]
  <2>1. V = {hash[r] : r \in visits} BY DEF Hashes
  <2> HIDE DEF hash, V
  <2> QED BY <2>1, KeysFinite DEF visits
<1>8. IsFiniteSet(DOMAIN f)
  <2> DEFINE day == [r \in visits |-> BucketOf(r.ts, Day)]
  <2>1. DOMAIN f = {day[r] : r \in visits} OBVIOUS
  <2> HIDE DEF day, f
  <2> QED BY <2>1, KeysFinite DEF visits
<1> HIDE DEF V, key, f
<1>9. Total(f) = Cardinality(V) BY <1>5, <1>6, <1>7, <1>8, GroupsAddUp
<1> QED BY <1>1, <1>2, <1>9

\* The reports of one site over one window never contradict each other, for every table,
\* request, length of an hour and a day, and list of channels.
THEOREM AgreeTheorem == Spec => []ReportsAgree
<1>1. ASSUME PrunedInv, NEW q \in Requests
      PROVE  LET from == From(q.days, now)
             IN  /\ BreakdownsAgree(Scoped(rows, q.site, from, now), Summary(rows, q.site, from, now))
                 /\ VisitorDaysAgree(Summary(OnTheDay, q.site, from, now))
  <2> DEFINE from   == From(q.days, now)
  <2> DEFINE scoped == Scoped(rows, q.site, from, now)
  <2> DEFINE onDay  == Scoped(OnTheDay, q.site, from, now)
  <2> HIDE DEF from
  <2>1. IsFiniteSet(Pageviews(scoped)) /\ IsFiniteSet(Visits(scoped)) BY <1>1, ScopedFinite
  <2>2. Summary(rows, q.site, from, now).pageviews = Cardinality(Pageviews(scoped))
        /\ Summary(rows, q.site, from, now).avgDailyVisitors = AvgDailyVisitors(scoped)
    BY DEF Summary
  <2>3. IsFiniteSet(Visits(onDay)) /\ \A r \in onDay : r.ts \div Day = r.salted
    <3>1. OnTheDay \in SUBSET rows /\ \A r \in OnTheDay : r.ts \div Day = r.salted BY DEF OnTheDay
    <3>2. onDay \subseteq OnTheDay BY DEF Scoped
    <3> QED BY <1>1, <3>1, <3>2, ScopedFinite
  <2>4. Summary(OnTheDay, q.site, from, now).avgDailyVisitors = AvgDailyVisitors(onDay)
        /\ Summary(OnTheDay, q.site, from, now).bounceRate = BounceRate(onDay)
    BY DEF Summary
  <2> HIDE DEF scoped, onDay
  <2>5. BreakdownsAgree(scoped, Summary(rows, q.site, from, now))
    BY <2>1, <2>2, TimeseriesAddsUp, ChannelsAddUp, AverageOfSeries DEF BreakdownsAgree
  <2>6. VisitorDaysAgree(Summary(OnTheDay, q.site, from, now))
    BY <2>3, <2>4, HashesOfDays DEF VisitorDaysAgree
  <2> QED BY <2>5, <2>6 DEF from, scoped, onDay
<1>2. PrunedInv => ReportsAgree BY <1>1 DEF ReportsAgree
<1> QED BY <1>2, PrunedInductive, PTL

-----------------------------------------------------------------------------
(* Liveness: old rows leave, however often a sweep fails or is cut off       *)

\* An event is stored once, and what a sweep has removed does not come back.
Once ==
    /\ \A b, c \in queue : b.event = c.event => b = c
    /\ \A r, s \in rows : r.event = s.event => r = s
    /\ \A b \in queue : \A r \in rows \cup pruned : b.event # r.event
    /\ \A r \in rows : \A p \in pruned : r.event # p.event

LEMMA StepOnce == Once /\ [Next]_vars => Once'
<1> SUFFICES ASSUME Once, [Next]_vars PROVE Once' OBVIOUS
<1> USE DEF Once
<1>1. ASSUME NEW e \in Events, NEW skew \in Skews, Collect(e, skew) PROVE Once'
  <2>1. PICK b : queue' = queue \cup {b} /\ b.event = e
    <3> DEFINE stamped == [event |-> e, ts |-> Clamp(now + skew, now - Past, now + Future),
                           salted |-> now \div Day]
    <3>1. queue' = queue \cup {stamped} BY <1>1 DEF Collect
    <3>2. stamped.event = e OBVIOUS
    <3> QED BY <3>1, <3>2
  <2>2. \A r \in queue \cup rows \cup pruned : r.event # e BY <1>1 DEF Collect, Known
  <2>3. rows' = rows /\ pruned' = pruned BY <1>1 DEF Collect
  <2> QED BY <2>1, <2>2, <2>3
<1>2. ASSUME NEW batch \in SUBSET queue, InsertEvents(batch) PROVE Once'
  <2> DEFINE row(b) == [event |-> b.event, ts |-> b.ts, received |-> now, salted |-> b.salted]
  <2>1. rows' = rows \cup {row(b) : b \in batch} BY <1>2 DEF InsertEvents
  <2>2. queue' = queue \ batch /\ pruned' = pruned BY <1>2 DEF InsertEvents
  <2>3. \A b \in batch : row(b).event = b.event OBVIOUS
  <2> HIDE DEF row
  <2>4. ASSUME NEW r \in rows', r \notin rows PROVE \E b \in batch : r = row(b) /\ r.event = b.event
    BY <2>1, <2>3, <2>4
  <2>5. \A r, s \in rows' : r.event = s.event => r = s
    <3> SUFFICES ASSUME NEW r \in rows', NEW s \in rows', r.event = s.event PROVE r = s OBVIOUS
    <3>1. CASE r \in rows /\ s \in rows BY <3>1
    <3>2. CASE r \notin rows /\ s \in rows BY <2>4, <3>2
    <3>3. CASE r \in rows /\ s \notin rows BY <2>4, <3>3
    <3>4. CASE r \notin rows /\ s \notin rows BY <2>4, <3>4
    <3> QED BY <3>1, <3>2, <3>3, <3>4
  <2>6. \A b \in queue' : \A r \in rows' \cup pruned' : b.event # r.event
    <3> SUFFICES ASSUME NEW b \in queue', NEW r \in rows' \cup pruned' PROVE b.event # r.event
      OBVIOUS
    <3>1. CASE r \in rows \cup pruned BY <2>2, <3>1
    <3>2. CASE r \in rows' /\ r \notin rows BY <2>2, <2>4, <3>2
    <3> QED BY <2>2, <3>1, <3>2
  <2>7. \A r \in rows' : \A p \in pruned' : r.event # p.event
    <3> SUFFICES ASSUME NEW r \in rows', NEW p \in pruned' PROVE r.event # p.event OBVIOUS
    <3>1. CASE r \in rows BY <2>2, <3>1
    <3>2. CASE r \notin rows BY <2>2, <2>4, <3>2
    <3> QED BY <3>1, <3>2
  <2> QED BY <2>2, <2>5, <2>6, <2>7
<1>3. ASSUME NEW S \in SUBSET rows, Delete(S) PROVE Once' BY <1>3 DEF Delete
<1>4. CASE DeleteChunk BY <1>3, <1>4, OldestAreOld DEF DeleteChunk
<1>5. CASE DeleteErr
  <2>1. PICK S \in Oldest(cutoff) \cup {{}} : Delete(S) BY <1>5 DEF DeleteErr
  <2>2. S \subseteq rows BY OldestAreOld
  <2> QED BY <1>3, <2>1, <2>2
<1>6. CASE Tick \/ SweepTick \/ Crash \/ UNCHANGED vars
  BY <1>6 DEF Tick, SweepTick, Crash, vars
<1> QED BY <1>1, <1>2, <1>4, <1>5, <1>6 DEF Next

\* Nothing that a sweep has removed is ever stored again, and no event is stored twice.
LEMMA OnceInductive == Spec => []Once
<1>1. Init => Once BY DEF Init, Once
<1> QED BY <1>1, StepOnce, PTL DEF Spec

Gone(e) == \A r \in rows : r.event # e

\* The events that no sweep has removed.
Spared == Events \ {r.event : r \in pruned}

\* e is too old, and n events are left that sweeps may have to remove before it.
Overdue(e, n) ==
    /\ \E r \in rows : r.event = e /\ r.ts < now - KeepFor
    /\ n = Cardinality(Spared)

Nearer(e, n) == Gone(e) \/ \E m \in 0..n-1 : Overdue(e, m)

Between  == cutoff = None
Sweeping == cutoff # None

\* The sweep that is running takes e for old.
Sees(e) == Sweeping /\ \E r \in rows : r.event = e /\ r.ts < cutoff

\* A deletion brings every overdue event nearer to its own.
LEMMA DeletionNears ==
    ASSUME IsFiniteSet(Events), PrunedInv, Once, NEW e \in Events, NEW n \in Nat, Overdue(e, n),
           NEW S \in SUBSET rows, S # {}, Delete(S)
    PROVE  Nearer(e, n)'
<1>1. PICK r \in rows : r.event = e /\ r.ts < now - KeepFor BY DEF Overdue
<1>2. CASE r \in S
  <2>1. rows' = rows \ S BY DEF Delete
  <2>2. Gone(e)' BY <1>1, <1>2, <2>1 DEF Gone, Once
  <2> QED BY <2>2 DEF Nearer
<1>3. CASE r \notin S
  <2>1. PICK s \in S : TRUE OBVIOUS
  <2>2. s.event \in Spared BY DEF Spared, Once, PrunedInv, TypeOK, Rows
  <2>3. Spared' \subseteq Spared /\ s.event \notin Spared' BY DEF Spared, Delete
  <2>4. IsFiniteSet(Spared) BY FS_Subset DEF Spared
  <2> HIDE DEF Spared
  <2>5. /\ Cardinality(Spared') \in Nat /\ Cardinality(Spared) \in Nat
        /\ Cardinality(Spared') < Cardinality(Spared)
    <3>1. IsFiniteSet(Spared') /\ Cardinality(Spared') <= Cardinality(Spared)
          /\ (Cardinality(Spared') = Cardinality(Spared) => Spared' = Spared)
      BY <2>3, <2>4, FS_Subset
    <3>2. Cardinality(Spared') \in Nat /\ Cardinality(Spared) \in Nat
      BY <2>4, <3>1, FS_CardinalityType
    <3> QED BY <2>2, <2>3, <3>1, <3>2
  <2>6. Overdue(e, Cardinality(Spared))' BY <1>1, <1>3 DEF Overdue, Delete
  <2>7. Cardinality(Spared') \in 0..n-1 BY <2>5 DEF Overdue
  <2> QED BY <2>6, <2>7 DEF Nearer, Overdue
<1> QED BY <1>2, <1>3

\* An overdue event stays so unless it comes nearer, and from a sweep that does not see it
\* the task comes to none that does not.
LEMMA OverdueSteps ==
    ASSUME IsFiniteSet(Events), PrunedInv, Once, NEW e \in Events, NEW n \in Nat, Overdue(e, n),
           [Next]_vars
    PROVE  /\ Overdue(e, n)' \/ Nearer(e, n)'
           /\ (Between \/ Sees(e))' \/ (Sweeping /\ ~Sees(e)) \/ Nearer(e, n)'
           /\ SweepTick => Sweeping'
           /\ DeleteChunk => Sweeping /\ (Nearer(e, n)' \/ (Between' /\ ~Sees(e)))
<1> USE ConstantsTyped
<1>1. PICK r \in rows : r.event = e /\ r.ts < now - KeepFor BY DEF Overdue
<1>2. r.ts \in Int /\ now \in Int BY DEF PrunedInv, TypeOK, Rows
<1>3. ASSUME pruned' = pruned, r \in rows', now' \in {now, now + 1} PROVE Overdue(e, n)'
  <2>1. Spared' = Spared BY <1>3 DEF Spared
  <2>2. r.ts < now' - KeepFor BY <1>1, <1>2, <1>3
  <2> QED BY <1>1, <1>3, <2>1, <2>2 DEF Overdue
<1>4. ASSUME cutoff' = cutoff, rows \subseteq rows' PROVE Sees(e) => Sees(e)'
  BY <1>4 DEF Sees, Sweeping
<1>5. CASE SweepTick
  <2>1. cutoff' = now - KeepFor /\ rows' = rows /\ now' = now /\ pruned' = pruned
    BY <1>5 DEF SweepTick
  <2>2. Sweeping' /\ Sees(e)' BY <1>1, <1>2, <2>1 DEF Sees, Sweeping
  <2>3. Overdue(e, n)' BY <1>3, <2>1
  <2>4. ~Sweeping BY <1>5 DEF SweepTick, Sweeping
  <2> QED BY <2>2, <2>3, <2>4 DEF DeleteChunk, Sweeping
<1>6. ASSUME NEW S \in SUBSET rows, Delete(S), S # {} PROVE Nearer(e, n)'
  BY <1>6, DeletionNears
<1>7. CASE DeleteChunk
  <2>1. PICK S \in Oldest(cutoff) :
            Delete(S) /\ cutoff' = IF Cardinality(S) < Chunk THEN None ELSE cutoff
    BY <1>7 DEF DeleteChunk
  <2>2. Sweeping BY <1>7 DEF DeleteChunk, Sweeping
  <2>3. S \subseteq rows BY OldestAreOld
  <2>4. CASE S # {} BY <1>6, <1>7, <2>1, <2>2, <2>3, <2>4 DEF SweepTick, Sweeping
  <2>5. CASE S = {}
    <3>1. Cardinality(S) = 0 BY <2>5, FS_EmptySet
    <3>2. Between' BY <2>1, <3>1 DEF Between
    <3>3. IsFiniteSet(Old(cutoff)) BY FS_Subset DEF PrunedInv, Old
    <3>4. Cardinality(Old(cutoff)) = 0
      <4>1. 0 = IF Cardinality(Old(cutoff)) < Chunk THEN Cardinality(Old(cutoff)) ELSE Chunk
        BY <3>1 DEF Oldest
      <4> QED BY <4>1
    <3>5. Old(cutoff) = {} BY <3>3, <3>4, FS_EmptySet
    <3>6. ~Sees(e) BY <3>5 DEF Sees, Old
    <3>7. Overdue(e, n)' BY <1>3, <2>1, <2>5 DEF Delete
    <3> QED BY <1>7, <2>2, <3>2, <3>6, <3>7 DEF SweepTick, Sweeping
  <2> QED BY <2>4, <2>5
<1>8. CASE DeleteErr
  <2>1. PICK S \in Oldest(cutoff) \cup {{}} : Delete(S) BY <1>8 DEF DeleteErr
  <2>2. S \subseteq rows BY OldestAreOld
  <2>3. Between' /\ cutoff # None BY <1>8 DEF DeleteErr, Between
  <2>4. S = {} => Overdue(e, n)' BY <1>3, <2>1 DEF Delete
  <2>5. S # {} => Nearer(e, n)' BY <1>6, <2>1, <2>2
  <2>6. ASSUME DeleteChunk PROVE Nearer(e, n)' \/ (Between' /\ ~Sees(e)) BY <1>7, <2>6
  <2> QED BY <1>7, <2>3, <2>4, <2>5 DEF SweepTick, Sweeping
<1>9. CASE Tick \/ (\E x \in Events, skew \in Skews : Collect(x, skew))
           \/ (\E batch \in SUBSET queue : InsertEvents(batch)) \/ UNCHANGED vars
  <2>1. cutoff' = cutoff /\ pruned' = pruned /\ rows \subseteq rows' /\ now' \in {now, now + 1}
    BY <1>9 DEF Tick, Collect, InsertEvents, vars
  <2> QED BY <1>3, <1>4, <1>5, <1>7, <2>1 DEF Between, Sweeping, Sees
<1>10. CASE Crash
  <2>1. Between' /\ Overdue(e, n)' BY <1>3, <1>10 DEF Crash, Between
  <2> QED BY <1>5, <1>7, <2>1
<1> QED BY <1>5, <1>7, <1>8, <1>9, <1>10 DEF Next

(* An event that is older than the retention comes nearer to its removal,    *)
(* again and again, whatever is inserted meanwhile and however often the     *)
(* sweep fails or is cut off: the number of events that could be removed     *)
(* before it falls until it is gone.                                         *)
THEOREM SweepProgress ==
    ASSUME IsFiniteSet(Events)
    PROVE  FairSpec /\ []Ready =>
               \A e \in Events : \A n \in Nat :
                   Overdue(e, n) ~> (Gone(e) \/ \E m \in 0..n-1 : Overdue(e, m))
<1>1. ASSUME NEW e \in Events, NEW n \in Nat
      PROVE  FairSpec /\ []Ready => (Overdue(e, n) ~> Nearer(e, n))
  <2> DEFINE O == Overdue(e, n)
             G == Nearer(e, n)
             S == Sees(e)
  <2>1. PrunedInv /\ Once /\ O /\ [Next]_vars
          => (O' \/ G') /\ ((Between \/ S)' \/ (Sweeping /\ ~S) \/ G')
    BY OverdueSteps
  <2>2. PrunedInv /\ Once /\ O /\ [Next]_vars /\ <<SweepTick>>_vars => Sweeping'
    BY OverdueSteps
  <2>3. PrunedInv /\ Once /\ O /\ [Next]_vars /\ <<DeleteChunk>>_vars
          => Sweeping /\ (G' \/ (Between' /\ ~S))
    BY OverdueSteps
  <2>4. Between /\ Ready => ENABLED <<SweepTick>>_vars BY DEF Between, Ready
  <2>5. Sweeping /\ Ready => ENABLED <<DeleteChunk>>_vars BY DEF Sweeping, Ready
  <2>6. S => Sweeping BY DEF Sees
  <2>7. Between <=> ~Sweeping BY DEF Between, Sweeping
  <2> HIDE DEF O, G, S
  <2>8. FairSpec /\ []Ready => (O ~> G)
    BY <2>1, <2>2, <2>3, <2>4, <2>5, <2>6, <2>7, PrunedInductive, OnceInductive, PTL
       DEF FairSpec, Spec
  <2> QED BY <2>8 DEF O, G
<1>2. FairSpec /\ []Ready => \A e \in Events : \A n \in Nat : (Overdue(e, n) ~> Nearer(e, n))
  BY <1>1
<1> QED BY <1>2 DEF Nearer
=============================================================================
