------------------------- MODULE SiteRegistryProofs -------------------------
(* Proofs about SiteRegistry, for every set of sites, tokens and handlers.   *)
EXTENDS SiteRegistry, TLAPS

\* A function from some sites to rows is a registry.
LEMMA RegistryIntro ==
    ASSUME NEW D, D \subseteq Sites, NEW f, f \in [D -> Row] PROVE f \in Registries
BY DEF Registries

\* A registry is a function from some sites to rows.
LEMMA RegistryElim ==
    ASSUME NEW reg \in Registries
    PROVE  /\ Registered(reg) \subseteq Sites
           /\ \A s \in Registered(reg) : reg[s] \in Row /\ reg[s].tok \in Tokens
BY DEF Registries, Registered, Row

\* The empty registry is a registry without sites.
LEMMA NobodyShape == Nobody \in Registries /\ Registered(Nobody) = {}
<1>1. Nobody \in [{} -> Row] BY DEF Nobody
<1> QED BY <1>1, RegistryIntro DEF Nobody, Registered

\* What adding or replacing a row does to a registry.
LEMMA UpsertShape ==
    ASSUME NEW reg \in Registries, NEW s \in Sites, NEW row \in Row
    PROVE  /\ Upsert(reg, s, row) \in Registries
           /\ Registered(Upsert(reg, s, row)) = Registered(reg) \cup {s}
           /\ Upsert(reg, s, row)[s] = row
           /\ \A x \in Registered(reg) \ {s} : Upsert(reg, s, row)[x] = reg[x]
           /\ Differ(Upsert(reg, s, row), reg) \subseteq {s}
<1> DEFINE D == Registered(reg) \cup {s}
           f == Upsert(reg, s, row)
<1>1. D \subseteq Sites BY RegistryElim
<1>2. f \in [D -> Row] BY RegistryElim DEF Upsert
<1>3. f \in Registries BY <1>1, <1>2, RegistryIntro
<1>4. Registered(f) = D BY <1>2 DEF Registered
<1>5. f[s] = row /\ \A x \in Registered(reg) \ {s} : f[x] = reg[x] BY DEF Upsert
<1>6. Differ(f, reg) \subseteq {s} BY <1>4, <1>5 DEF Differ
<1> QED BY <1>3, <1>4, <1>5, <1>6

\* What removing a row does to a registry.
LEMMA RemoveShape ==
    ASSUME NEW reg \in Registries, NEW s \in Sites
    PROVE  /\ Remove(reg, s) \in Registries
           /\ Registered(Remove(reg, s)) = Registered(reg) \ {s}
           /\ \A x \in Registered(reg) \ {s} : Remove(reg, s)[x] = reg[x]
           /\ Differ(Remove(reg, s), reg) \subseteq {s}
<1> DEFINE D == Registered(reg) \ {s}
           f == Remove(reg, s)
<1>1. D \subseteq Sites BY RegistryElim
<1>2. f \in [D -> Row] BY RegistryElim DEF Remove
<1>3. f \in Registries BY <1>1, <1>2, RegistryIntro
<1>4. Registered(f) = D BY <1>2 DEF Registered
<1>5. \A x \in Registered(reg) \ {s} : f[x] = reg[x] BY DEF Remove
<1>6. Differ(f, reg) \subseteq {s} BY <1>4, <1>5 DEF Differ
<1> QED BY <1>3, <1>4, <1>5, <1>6

Mints == UNION {[T -> Sites] : T \in SUBSET Tokens}

\* A fresh token is recorded for its site and no earlier record changes.
LEMMA MintShape ==
    ASSUME minted \in Mints, NEW s \in Sites, NEW t, Fresh(t), Mint(t, s)
    PROVE  /\ minted' \in Mints
           /\ t \in Tokens /\ t \notin DOMAIN minted
           /\ DOMAIN minted' = DOMAIN minted \cup {t} /\ minted'[t] = s
           /\ \A x \in DOMAIN minted : minted'[x] = minted[x]
<1>1. t \in Tokens /\ t \notin DOMAIN minted BY DEF Fresh
<1>2. DOMAIN minted \subseteq Tokens /\ \A x \in DOMAIN minted : minted[x] \in Sites
  BY DEF Mints
<1>3. minted' \in [DOMAIN minted \cup {t} -> Sites] BY <1>2 DEF Mint
<1>4. minted' \in Mints BY <1>1, <1>2, <1>3 DEF Mints
<1> QED BY <1>1, <1>4 DEF Mint

\* The handlers and the refresh task are the refreshers.
LEMMA TickShape == Handlers \subseteq Refreshers /\ Tick \in Refreshers
BY DEF Refreshers

-----------------------------------------------------------------------------
\* A statement that changes one site, revives no token, and replaces the tokens in
\* `dead`, keeps the invariant.
LEMMA CommitKeepsInv ==
    ASSUME RegistryInv, NEW h, Admitted(h), NEW s \in Sites, NEW reg \in Registries,
           NEW dead, dead \subseteq DOMAIN minted,
           Commit(h, s, reg, dead),
           minted' \in Mints, DOMAIN minted \subseteq DOMAIN minted',
           \A t \in DOMAIN minted : minted'[t] = minted[t],
           \A x \in Registered(reg) : reg[x].tok \in DOMAIN minted' /\ minted'[reg[x].tok] = x,
           Differ(reg, table) \subseteq {s},
           dead \cap TokensOf(reg) = {},
           TokensOf(reg) \cap DOMAIN minted \subseteq TokensOf(table)
    PROVE  RegistryInv'
<1> USE DEF RegistryInv
<1>1. /\ h \in Refreshers /\ up /\ pc[h] = "idle" /\ site[h] = {}
      /\ DOMAIN minted \subseteq Tokens
  BY TickShape DEF Admitted, WorkShape, TypeOK
<1>2. /\ table' = reg /\ UNCHANGED <<up, open, cache, snap, lapsed, revoked>>
      /\ pc' = [pc EXCEPT ![h] = "loading"]
      /\ site' = [site EXCEPT ![h] = {s}]
      /\ old' = [old EXCEPT ![h] = dead]
      /\ stale' = [w \in Refreshers |-> IF pc[w] = "loaded" THEN stale[w] \cup {s} ELSE stale[w]]
      /\ emptied' = (emptied \/ Registered(reg) = {})
  BY DEF Commit
<1>3. TypeOK'
  <2>1. pc' \in [Refreshers -> {"idle", "loading", "loaded"}] BY <1>2 DEF TypeOK
  <2>2. site' \in [Refreshers -> SUBSET Sites] /\ old' \in [Refreshers -> SUBSET Tokens]
    BY <1>1, <1>2 DEF TypeOK
  <2>3. stale' \in [Refreshers -> SUBSET Sites] BY <1>2 DEF TypeOK
  <2>4. emptied' \in BOOLEAN BY <1>2
  <2> QED BY <1>2, <2>1, <2>2, <2>3, <2>4 DEF TypeOK, Mints
<1>4. TokensAtHome' BY <1>2 DEF TokensAtHome, AtHome, Registered
<1>5. WorkShape' BY <1>1, <1>2 DEF WorkShape, TypeOK
<1>6. /\ \A x \in Sites : x \in Differ(cache, reg) => x \in Differ(cache, table) \/ x = s
      /\ \A w \in Refreshers, x \in Sites :
            x \in Differ(snap[w], reg) => x \in Differ(snap[w], table) \/ x = s
  BY DEF Differ
<1>7. CacheLagsOnlyByLapse'
  <2>1. \A w \in Refreshers : w # h => site'[w] = site[w] BY <1>2 DEF TypeOK
  <2>2. site'[h] = {s} BY <1>1, <1>2 DEF TypeOK
  <2>3. Changing \subseteq Changing' /\ s \in Changing'
    BY <1>1, <2>1, <2>2 DEF Changing
  <2>4. Differ(cache, table)' = Differ(cache, reg) BY <1>2 DEF Differ, Registered
  <2> QED BY <1>1, <1>2, <1>6, <2>3, <2>4 DEF CacheLagsOnlyByLapse, Differ
<1>8. SnapshotLag'
  <2>1. ASSUME NEW w \in Refreshers, pc'[w] = "loaded"
        PROVE  Differ(snap'[w], table') \subseteq stale'[w]
    <3>1. w # h /\ pc[w] = "loaded" BY <1>1, <1>2, <2>1 DEF TypeOK
    <3>2. stale'[w] = stale[w] \cup {s} BY <1>2, <3>1
    <3>3. Differ(snap[w], table) \subseteq stale[w] BY <3>1 DEF SnapshotLag
    <3>4. Differ(snap'[w], table') = Differ(snap[w], reg) BY <1>2
    <3>5. Differ(snap[w], reg) \subseteq Sites BY DEF Differ
    <3> QED BY <1>6, <3>2, <3>3, <3>4, <3>5
  <2> QED BY <2>1 DEF SnapshotLag, Differ, Registered
<1>9. DeadTokens'
  <2>1. ASSUME NEW t, t \in revoked' \cup UNION {old'[w] : w \in Refreshers}
        PROVE  t \in DOMAIN minted' /\ t \notin TokensOf(reg)
    <3>1. \A w \in Refreshers : w # h => old'[w] = old[w] BY <1>2 DEF TypeOK
    <3>2. old'[h] = dead BY <1>1, <1>2 DEF TypeOK
    <3>3. t \in dead \/ t \in revoked \cup UNION {old[w] : w \in Refreshers}
      BY <1>2, <2>1, <3>1, <3>2
    <3> QED BY <3>3 DEF DeadTokens
  <2> QED BY <1>2, <2>1 DEF DeadTokens, TokensOf, Registered
<1>10. EmptySeen'
  <2>1. emptied => emptied' BY <1>2
  <2>2. Registered(reg) = {} => emptied' BY <1>2
  <2>3. \A w \in Refreshers : pc'[w] = "loaded" => pc[w] = "loaded" BY <1>1, <1>2 DEF TypeOK
  <2> QED BY <1>2, <2>1, <2>2, <2>3 DEF EmptySeen, Registered
<1> QED BY <1>3, <1>4, <1>5, <1>7, <1>8, <1>9, <1>10

\* Creating, rotating, updating and deleting are such statements.
LEMMA CreateKeepsInv ==
    ASSUME RegistryInv, NEW h, NEW s \in Sites, NEW t \in Tokens, Create(h, s, t)
    PROVE  RegistryInv'
<1> DEFINE row == [tok |-> t, active |-> TRUE]
           reg == Upsert(table, s, row)
<1>0. TypeOK /\ TokensAtHome BY DEF RegistryInv
<1>1. /\ Admitted(h) /\ s \notin Registered(table) /\ Fresh(t) /\ Mint(t, s)
      /\ Commit(h, s, reg, {})
  BY DEF Create
<1>2. row \in Row /\ row.tok = t /\ table \in Registries /\ minted \in Mints
  BY <1>0 DEF Row, TypeOK, Mints
<1> HIDE DEF row
<1>3. /\ reg \in Registries /\ Registered(reg) = Registered(table) \cup {s} /\ reg[s] = row
      /\ \A x \in Registered(table) \ {s} : reg[x] = table[x]
      /\ Differ(reg, table) \subseteq {s}
  BY <1>2, UpsertShape
<1>4. /\ minted' \in Mints /\ t \notin DOMAIN minted
      /\ DOMAIN minted' = DOMAIN minted \cup {t} /\ minted'[t] = s
      /\ \A x \in DOMAIN minted : minted'[x] = minted[x]
  BY <1>1, <1>2, MintShape
<1>5. reg[s].tok = t BY <1>2, <1>3
<1>6. \A x \in Registered(reg) : reg[x].tok \in DOMAIN minted' /\ minted'[reg[x].tok] = x
  BY <1>0, <1>3, <1>4, <1>5 DEF TokensAtHome, AtHome
<1>7. TokensOf(reg) \cap DOMAIN minted \subseteq TokensOf(table)
  BY <1>3, <1>4, <1>5 DEF TokensOf
<1> HIDE DEF reg
<1> QED BY <1>1, <1>3, <1>4, <1>6, <1>7, CommitKeepsInv

\* Rotation keeps the invariant: the replaced token is in no row any more, and the new
\* one was never handed out.
LEMMA RotateKeepsInv ==
    ASSUME RegistryInv, NEW h, NEW s \in Sites, NEW t \in Tokens, RotateToken(h, s, t)
    PROVE  RegistryInv'
<1> DEFINE row == [table[s] EXCEPT !.tok = t]
           reg == Upsert(table, s, row)
           dead == {table[s].tok}
<1>0. TypeOK /\ TokensAtHome BY DEF RegistryInv
<1>1. /\ Admitted(h) /\ s \in Registered(table) /\ Fresh(t) /\ Mint(t, s)
      /\ Commit(h, s, reg, dead)
  BY DEF RotateToken
<1>2. table \in Registries /\ minted \in Mints BY <1>0 DEF TypeOK, Mints
<1>3. row \in Row /\ row.tok = t BY <1>1, <1>2, RegistryElim DEF Row
<1>4. /\ reg \in Registries /\ Registered(reg) = Registered(table) \cup {s} /\ reg[s] = row
      /\ \A x \in Registered(table) \ {s} : reg[x] = table[x]
      /\ Differ(reg, table) \subseteq {s}
  BY <1>2, <1>3, UpsertShape
<1>5. /\ minted' \in Mints /\ t \notin DOMAIN minted
      /\ DOMAIN minted' = DOMAIN minted \cup {t} /\ minted'[t] = s
      /\ \A x \in DOMAIN minted : minted'[x] = minted[x]
  BY <1>1, <1>2, MintShape
<1>6. reg[s].tok = t BY <1>3, <1>4
<1>7. \A x \in Registered(table) :
         table[x].tok \in DOMAIN minted /\ minted[table[x].tok] = x
  BY <1>0 DEF TokensAtHome, AtHome
<1>8. \A x \in Registered(reg) : reg[x].tok \in DOMAIN minted' /\ minted'[reg[x].tok] = x
  BY <1>4, <1>5, <1>6, <1>7
<1>9. TokensOf(reg) \cap DOMAIN minted \subseteq TokensOf(table)
  BY <1>4, <1>5, <1>6 DEF TokensOf
<1>10. dead \subseteq DOMAIN minted BY <1>1, <1>7
<1>11. dead \cap TokensOf(reg) = {}
  BY <1>1, <1>4, <1>5, <1>6, <1>7 DEF TokensOf
<1> HIDE DEF reg, dead
<1> QED BY <1>1, <1>4, <1>5, <1>8, <1>9, <1>10, <1>11, CommitKeepsInv

\* A PATCH keeps the invariant: no token changes.
LEMMA UpdateKeepsInv ==
    ASSUME RegistryInv, NEW h, NEW s \in Sites, NEW active \in BOOLEAN, Update(h, s, active)
    PROVE  RegistryInv'
<1> DEFINE row == [table[s] EXCEPT !.active = active]
           reg == Upsert(table, s, row)
<1>0. TypeOK /\ TokensAtHome BY DEF RegistryInv
<1>1. /\ Admitted(h) /\ s \in Registered(table) /\ minted' = minted
      /\ Commit(h, s, reg, {})
  BY DEF Update
<1>2. table \in Registries /\ minted \in Mints BY <1>0 DEF TypeOK, Mints
<1>3. row \in Row /\ row.tok = table[s].tok BY <1>1, <1>2, RegistryElim DEF Row
<1>4. /\ reg \in Registries /\ Registered(reg) = Registered(table) \cup {s} /\ reg[s] = row
      /\ \A x \in Registered(table) \ {s} : reg[x] = table[x]
      /\ Differ(reg, table) \subseteq {s}
  BY <1>2, <1>3, UpsertShape
<1>5. \A x \in Registered(reg) : x \in Registered(table) /\ reg[x].tok = table[x].tok
  BY <1>1, <1>3, <1>4
<1>6. \A x \in Registered(reg) : reg[x].tok \in DOMAIN minted' /\ minted'[reg[x].tok] = x
  BY <1>0, <1>1, <1>5 DEF TokensAtHome, AtHome
<1>7. TokensOf(reg) \cap DOMAIN minted \subseteq TokensOf(table) BY <1>5 DEF TokensOf
<1> HIDE DEF reg
<1> QED BY <1>1, <1>2, <1>4, <1>6, <1>7, CommitKeepsInv

\* A deletion keeps the invariant: the dead token was in one row only.
LEMMA DeleteKeepsInv ==
    ASSUME RegistryInv, NEW h, NEW s \in Sites, DeleteSite(h, s)
    PROVE  RegistryInv'
<1> DEFINE reg == Remove(table, s)
           dead == {table[s].tok}
<1>0. TypeOK /\ TokensAtHome BY DEF RegistryInv
<1>1. /\ Admitted(h) /\ s \in Registered(table) /\ minted' = minted
      /\ Commit(h, s, reg, dead)
  BY DEF DeleteSite
<1>2. table \in Registries /\ minted \in Mints BY <1>0 DEF TypeOK, Mints
<1>3. /\ reg \in Registries /\ Registered(reg) = Registered(table) \ {s}
      /\ \A x \in Registered(table) \ {s} : reg[x] = table[x]
      /\ Differ(reg, table) \subseteq {s}
  BY <1>2, RemoveShape
<1>4. \A x \in Registered(table) :
         table[x].tok \in DOMAIN minted /\ minted[table[x].tok] = x
  BY <1>0 DEF TokensAtHome, AtHome
<1>5. \A x \in Registered(reg) : reg[x].tok \in DOMAIN minted' /\ minted'[reg[x].tok] = x
  BY <1>1, <1>3, <1>4
<1>6. TokensOf(reg) \cap DOMAIN minted \subseteq TokensOf(table) BY <1>3 DEF TokensOf
<1>7. dead \subseteq DOMAIN minted /\ dead \cap TokensOf(reg) = {}
  BY <1>1, <1>3, <1>4 DEF TokensOf
<1> HIDE DEF reg, dead
<1> QED BY <1>1, <1>2, <1>3, <1>5, <1>6, <1>7, CommitKeepsInv

-----------------------------------------------------------------------------
\* What it means that w is done.
LEMMA FinishShape ==
    ASSUME RegistryInv, NEW w \in Refreshers, Finish(w)
    PROVE  /\ pc'[w] = "idle" /\ snap'[w] = Nobody /\ site'[w] = {} /\ old'[w] = {}
           /\ \A v \in Refreshers : v # w =>
                 pc'[v] = pc[v] /\ snap'[v] = snap[v] /\ site'[v] = site[v] /\ old'[v] = old[v]
           /\ pc' \in [Refreshers -> {"idle", "loading", "loaded"}]
           /\ snap' \in [Refreshers -> Registries]
           /\ site' \in [Refreshers -> SUBSET Sites]
           /\ old' \in [Refreshers -> SUBSET Tokens]
BY NobodyShape DEF RegistryInv, TypeOK, Finish

\* Install, LoadFails and Cancel end a reload: the cache becomes what was loaded, or
\* stays, and then w's own sites are passed over.
LEMMA EndKeepsInv ==
    ASSUME RegistryInv, NEW w \in Refreshers, pc[w] # "idle", Finish(w),
           \/ pc[w] = "loaded" /\ cache' = snap[w] /\ lapsed' = stale[w]
           \/ cache' = cache /\ lapsed' = lapsed \cup site[w],
           revoked \subseteq revoked', revoked' \subseteq revoked \cup old[w],
           stale' = [stale EXCEPT ![w] = {}],
           UNCHANGED <<up, open, table, minted, emptied>>
    PROVE  RegistryInv'
<1> USE DEF RegistryInv
<1>1. /\ pc'[w] = "idle" /\ snap'[w] = Nobody /\ site'[w] = {} /\ old'[w] = {}
      /\ \A v \in Refreshers : v # w =>
            pc'[v] = pc[v] /\ snap'[v] = snap[v] /\ site'[v] = site[v] /\ old'[v] = old[v]
  BY FinishShape
<1>2. up /\ stale'[w] = {} /\ \A v \in Refreshers : v # w => stale'[v] = stale[v]
  BY DEF WorkShape, TypeOK
<1>3. TypeOK'
  <2>1. /\ pc' \in [Refreshers -> {"idle", "loading", "loaded"}]
        /\ snap' \in [Refreshers -> Registries]
        /\ site' \in [Refreshers -> SUBSET Sites]
        /\ old' \in [Refreshers -> SUBSET Tokens]
    BY FinishShape
  <2>2. cache' \in Registries /\ lapsed' \subseteq Sites /\ revoked' \subseteq Tokens
        /\ stale' \in [Refreshers -> SUBSET Sites]
    BY DEF TypeOK
  <2> QED BY <2>1, <2>2 DEF TypeOK
<1>4. TokensAtHome'
  <2>1. AtHome(cache)' BY DEF TokensAtHome, AtHome
  <2>2. AtHome(table)' BY DEF TokensAtHome, AtHome
  <2>3. ASSUME NEW v \in Refreshers PROVE AtHome(snap[v])'
    <3>1. CASE v = w BY <1>1, <3>1, NobodyShape DEF AtHome
    <3>2. CASE v # w BY <1>1, <3>2 DEF TokensAtHome, AtHome
    <3> QED BY <3>1, <3>2
  <2> QED BY <2>1, <2>2, <2>3 DEF TokensAtHome
<1>5. WorkShape' BY <1>1, <1>2 DEF WorkShape
<1>6. CacheLagsOnlyByLapse'
  <2>1. Changing \subseteq Changing' \cup site[w] BY <1>1 DEF Changing
  <2>2. CASE cache' = cache /\ lapsed' = lapsed \cup site[w]
    <3>1. Differ(cache', table') = Differ(cache, table) BY <2>2
    <3> QED BY <1>2, <2>1, <2>2, <3>1 DEF CacheLagsOnlyByLapse, Differ, Registered
  <2>3. CASE pc[w] = "loaded" /\ cache' = snap[w] /\ lapsed' = stale[w]
    <3>1. Differ(snap[w], table) \subseteq stale[w] BY <2>3 DEF SnapshotLag
    <3>2. Differ(cache', table') = Differ(snap[w], table) BY <2>3
    <3> QED BY <2>3, <3>1, <3>2 DEF CacheLagsOnlyByLapse, Differ, Registered
  <2> QED BY <2>2, <2>3
<1>7. SnapshotLag'
  <2>1. ASSUME NEW v \in Refreshers, pc'[v] = "loaded"
        PROVE  Differ(snap'[v], table') \subseteq stale'[v]
    <3>1. v # w BY <1>1, <2>1
    <3> QED BY <1>1, <1>2, <2>1, <3>1 DEF SnapshotLag
  <2> QED BY <2>1 DEF SnapshotLag, Differ, Registered
<1>8. DeadTokens'
  <2>1. ASSUME NEW t, t \in revoked' \cup UNION {old'[v] : v \in Refreshers}
        PROVE  t \in revoked \cup UNION {old[v] : v \in Refreshers}
    BY <1>1, <2>1
  <2> QED BY <2>1 DEF DeadTokens, TokensOf, Registered
<1>9. EmptySeen'
  <2>1. Registered(cache') = {} => emptied BY <1>2 DEF EmptySeen
  <2>2. ASSUME NEW v \in Refreshers, pc'[v] = "loaded", Registered(snap'[v]) = {}
        PROVE  emptied
    <3>1. v # w BY <1>1, <2>2
    <3> QED BY <1>1, <1>2, <2>2, <3>1 DEF EmptySeen
  <2> QED BY <1>2, <2>1, <2>2 DEF EmptySeen, Registered
<1> QED BY <1>3, <1>4, <1>5, <1>6, <1>7, <1>8, <1>9

\* A SELECT keeps the invariant: its snapshot is the table of that moment.
LEMMA LoadKeepsInv == ASSUME RegistryInv, NEW w \in Refreshers, Load(w) PROVE RegistryInv'
<1> USE DEF RegistryInv
<1>1. /\ pc[w] = "loading" /\ pc' = [pc EXCEPT ![w] = "loaded"]
      /\ snap' = [snap EXCEPT ![w] = table]
      /\ stale' = [stale EXCEPT ![w] = {}]
      /\ UNCHANGED <<up, open, table, cache, site, old, minted, lapsed, emptied, revoked>>
  BY DEF Load
<1>2. /\ snap'[w] = table /\ pc'[w] = "loaded" /\ stale'[w] = {}
      /\ \A v \in Refreshers : v # w =>
            snap'[v] = snap[v] /\ pc'[v] = pc[v] /\ stale'[v] = stale[v]
  BY <1>1 DEF TypeOK
<1>3. TypeOK' BY <1>1 DEF TypeOK
<1>4. TokensAtHome' BY <1>1, <1>2 DEF TokensAtHome, AtHome, Registered
<1>5. WorkShape' BY <1>1, <1>2 DEF WorkShape
<1>6. CacheLagsOnlyByLapse' BY <1>1 DEF CacheLagsOnlyByLapse, Changing, Differ, Registered
<1>7. SnapshotLag'
  <2>1. ASSUME NEW v \in Refreshers, pc'[v] = "loaded"
        PROVE  Differ(snap'[v], table') \subseteq stale'[v]
    <3>1. CASE v = w BY <1>1, <1>2, <3>1 DEF Differ
    <3>2. CASE v # w BY <1>1, <1>2, <2>1, <3>2 DEF SnapshotLag
    <3> QED BY <3>1, <3>2
  <2> QED BY <2>1 DEF SnapshotLag, Differ, Registered
<1>8. DeadTokens' BY <1>1 DEF DeadTokens, TokensOf, Registered
<1>9. EmptySeen' BY <1>1, <1>2 DEF EmptySeen, Registered
<1> QED BY <1>3, <1>4, <1>5, <1>6, <1>7, <1>8, <1>9

\* RegistryInv holds initially.
LEMMA RegistryInit == Init => RegistryInv
<1> SUFFICES ASSUME Init PROVE RegistryInv OBVIOUS
<1> USE NobodyShape DEF Init
<1>1. TypeOK
  <2>1. minted \in [{} -> Sites] OBVIOUS
  <2>2. minted \in UNION {[T -> Sites] : T \in SUBSET Tokens} BY <2>1
  <2> QED BY <2>2 DEF TypeOK
<1>2. TokensAtHome BY DEF TokensAtHome, AtHome
<1>3. WorkShape BY DEF WorkShape
<1>4. Differ(Nobody, Nobody) = {} BY DEF Differ
<1>5. CacheLagsOnlyByLapse /\ SnapshotLag BY <1>4 DEF CacheLagsOnlyByLapse, SnapshotLag
<1>6. DeadTokens BY DEF DeadTokens
<1>7. EmptySeen BY DEF EmptySeen
<1> QED BY <1>1, <1>2, <1>3, <1>5, <1>6, <1>7 DEF RegistryInv

\* Every step keeps RegistryInv: one case per action.
LEMMA RegistryStep == ASSUME RegistryInv, [Next]_vars PROVE RegistryInv'
<1>1. ASSUME NEW h \in Handlers, Operator(h) PROVE RegistryInv'
  <2>1. CASE Cancel(h) BY <1>1, <2>1, TickShape, EndKeepsInv DEF Cancel
  <2> QED BY <1>1, <2>1, CreateKeepsInv, RotateKeepsInv, UpdateKeepsInv, DeleteKeepsInv
          DEF Operator
<1>2. ASSUME NEW w \in Refreshers, Refresh(w) PROVE RegistryInv'
  <2>1. CASE Load(w) BY <2>1, LoadKeepsInv
  <2>2. CASE Install(w) BY <2>2, EndKeepsInv DEF Install
  <2>3. CASE LoadFails(w) BY <2>3, EndKeepsInv DEF LoadFails
  <2> QED BY <1>2, <2>1, <2>2, <2>3 DEF Refresh
<1> USE DEF RegistryInv
<1>3. CASE TickFires
  <2>1. /\ up /\ pc[Tick] = "idle" /\ pc' = [pc EXCEPT ![Tick] = "loading"]
        /\ UNCHANGED <<up, open, table, cache, snap, site, old,
                       minted, stale, lapsed, emptied, revoked>>
    BY <1>3 DEF TickFires, history
  <2>2. TypeOK' BY <2>1 DEF TypeOK
  <2>3. \A v \in Refreshers : pc'[v] = "loaded" => pc[v] = "loaded" BY <2>1 DEF TypeOK
  <2>4. TokensAtHome' BY <2>1 DEF TokensAtHome, AtHome, Registered
  <2>5. WorkShape' BY <2>1, TickShape DEF WorkShape, TypeOK
  <2>6. CacheLagsOnlyByLapse' BY <2>1 DEF CacheLagsOnlyByLapse, Changing, Differ, Registered
  <2>7. SnapshotLag' BY <2>1, <2>3 DEF SnapshotLag, Differ, Registered
  <2>8. DeadTokens' BY <2>1 DEF DeadTokens, TokensOf, Registered
  <2>9. EmptySeen' BY <2>1, <2>3 DEF EmptySeen, Registered
  <2> QED BY <2>2, <2>4, <2>5, <2>6, <2>7, <2>8, <2>9
<1>4. CASE Stop
  <2>1. TypeOK' BY <1>4, NobodyShape DEF Stop, TypeOK
  <2>2. TokensAtHome' BY <1>4, NobodyShape DEF Stop, TokensAtHome, AtHome, Registered
  <2>3. WorkShape' BY <1>4 DEF Stop, WorkShape
  <2>4. CacheLagsOnlyByLapse' /\ SnapshotLag' /\ EmptySeen'
    BY <1>4 DEF Stop, CacheLagsOnlyByLapse, SnapshotLag, EmptySeen
  <2>5. DeadTokens' BY <1>4 DEF Stop, DeadTokens, TokensOf, Registered
  <2> QED BY <2>1, <2>2, <2>3, <2>4, <2>5
<1>5. CASE Start
  <2>1. TypeOK' BY <1>5 DEF Start, TypeOK
  <2>2. TokensAtHome' BY <1>5 DEF Start, TokensAtHome, AtHome, Registered
  <2>3. WorkShape' BY <1>5 DEF Start, WorkShape
  <2>4. \A w \in Refreshers : pc'[w] = "idle" BY <1>5 DEF Start, WorkShape
  <2>5. CacheLagsOnlyByLapse' BY <1>5 DEF Start, CacheLagsOnlyByLapse, Differ
  <2>6. SnapshotLag' BY <2>4 DEF SnapshotLag
  <2>7. DeadTokens' BY <1>5 DEF Start, DeadTokens, TokensOf, Registered
  <2>8. EmptySeen' BY <1>5, <2>4 DEF Start, EmptySeen, Registered
  <2> QED BY <2>1, <2>2, <2>3, <2>5, <2>6, <2>7, <2>8
<1>6. CASE UNCHANGED vars
  BY <1>6 DEF vars, TypeOK, TokensAtHome, AtHome, WorkShape, CacheLagsOnlyByLapse, Changing,
              SnapshotLag, DeadTokens, EmptySeen, Differ, Registered, TokensOf
<1> QED BY <1>1, <1>2, <1>3, <1>4, <1>5, <1>6 DEF Next

(* The invariant behind the registry's guarantees is inductive.             *)
THEOREM RegistryInductive == Spec => []RegistryInv
BY RegistryInit, RegistryStep, PTL DEF Spec

(* The snapshot lags the table only where a change is under way or was       *)
(* passed over by a failed, dropped or overtaken reload.                     *)
THEOREM LagTheorem == Spec => []CacheLagsOnlyByLapse
<1>1. RegistryInv => CacheLagsOnlyByLapse BY DEF RegistryInv
<1> QED BY <1>1, RegistryInductive, PTL

(* Stale or not, a token speaks only for the site it was made for.           *)
THEOREM TenantTheorem == Spec => []TokenNeverCrossesTenant
<1>1. RegistryInv => TokenNeverCrossesTenant
  BY DEF RegistryInv, TokensAtHome, AtHome, TokenNeverCrossesTenant, SitesForToken
<1> QED BY <1>1, RegistryInductive, PTL

(* A revoked token works again only where its site was passed over.          *)
THEOREM DeadTokenTheorem == Spec => []DeadTokenNeedsLapse
<1>1. ASSUME RegistryInv, NEW t \in revoked, NEW s \in SitesForToken(cache, t)
      PROVE  s \in lapsed \cup Changing
  <2>1. s \in Registered(cache) /\ cache[s].tok = t BY DEF SitesForToken
  <2>2. s \in Sites BY <1>1, <2>1, RegistryElim DEF RegistryInv, TypeOK
  <2>3. t \notin TokensOf(table) BY <1>1 DEF RegistryInv, DeadTokens
  <2>4. s \in Differ(cache, table) BY <2>1, <2>2, <2>3 DEF Differ, TokensOf
  <2>5. up BY <1>1, <2>1, NobodyShape DEF RegistryInv, WorkShape
  <2> QED BY <1>1, <2>4, <2>5 DEF RegistryInv, CacheLagsOnlyByLapse
<1>2. RegistryInv => DeadTokenNeedsLapse BY <1>1 DEF DeadTokenNeedsLapse
<1> QED BY <1>2, RegistryInductive, PTL

(* No failure, overlap or restart un-gates ingest while tenants are          *)
(* registered throughout.                                                    *)
THEOREM GateTheorem == Spec => []UngatedOnlyIfEmptied
<1>1. RegistryInv => UngatedOnlyIfEmptied BY DEF RegistryInv, EmptySeen, UngatedOnlyIfEmptied
<1> QED BY <1>1, RegistryInductive, PTL

-----------------------------------------------------------------------------
(* Liveness.  The provers cannot look into ENABLED, so what the theorem      *)
(* takes from outside is that the fair steps of the refresh task are         *)
(* possible when their guards hold; the rest of fairness is proved.          *)

Quiet == \A h \in Handlers : pc[h] = "idle"
Same  == up => cache = table

\* The refresh task holds no SELECT that is older than the last change.
Current == pc[Tick] = "loaded" => snap[Tick] = table

Ticking == pc[Tick] = "idle"
Loading == pc[Tick] = "loading"
Loaded  == pc[Tick] = "loaded"

\* With no operator at work the table stands, and only the refresh task reloads.
LEMMA QuietSteps ==
    ASSUME RegistryInv, Quiet, Quiet', [Next]_vars
    PROVE  /\ Current => Current'
           /\ Same /\ Current => Same'
           /\ Ticking \/ Loading \/ Loaded
           /\ TickFires => Ticking /\ Loading'
           /\ Load(Tick) => Loading /\ Loaded'
           /\ Install(Tick) => Loaded /\ Ticking' /\ (Current => Same')
<1> USE DEF RegistryInv
<1>1. Tick \in Refreshers /\ \A h \in Handlers : h \in Refreshers /\ h # Tick
  BY TickShape, TickIsNoHandler
<1>2. \A h \in Handlers : ~Operator(h) \/ Cancel(h)
  <2>1. ASSUME NEW h \in Handlers, NEW s, NEW reg, NEW dead, Commit(h, s, reg, dead)
        PROVE  FALSE
    <3>1. pc'[h] = "loading" BY <1>1, <2>1 DEF Commit, TypeOK
    <3> QED BY <3>1 DEF Quiet
  <2> QED BY <2>1 DEF Operator, Create, RotateToken, Update, DeleteSite
<1>3. \A h \in Handlers : ~Cancel(h) /\ ~Refresh(h)
  BY DEF Cancel, Refresh, Load, Install, LoadFails, Quiet
<1>4. Load(Tick) => Loading /\ Loaded' /\ table' = table /\ snap'[Tick] = table
                    /\ up' = up /\ cache' = cache
  BY <1>1 DEF Load, Loading, Loaded, TypeOK
<1>5. Install(Tick) => Loaded /\ Ticking' /\ table' = table /\ cache' = snap[Tick]
  BY <1>1, FinishShape DEF Install, Loaded, Ticking
<1>6. LoadFails(Tick) => Ticking' /\ table' = table /\ up' = up /\ cache' = cache
  BY <1>1, FinishShape DEF LoadFails, Ticking
<1>7. TickFires => Ticking /\ Loading' /\ table' = table /\ up' = up /\ cache' = cache
  BY <1>1 DEF TickFires, Ticking, Loading, TypeOK
<1>8. Stop \/ Start => Ticking' /\ Same'
  BY <1>1 DEF Stop, Start, WorkShape, Ticking, Same
<1>9. UNCHANGED vars => (Current' <=> Current) /\ (Same' <=> Same)
  BY DEF vars, Current, Same
<1>10. Load(Tick) \/ Install(Tick) \/ LoadFails(Tick) \/ TickFires \/ Stop \/ Start
       \/ UNCHANGED vars
  BY <1>2, <1>3 DEF Next, Refresh, Refreshers
<1>11. Install(Tick) /\ Current => Same' BY <1>5 DEF Current, Loaded, Same
<1>12. Ticking' \/ Loading' => Current' BY DEF Ticking, Loading, Current
<1>13. Load(Tick) => Current' BY <1>4 DEF Current
<1>14. Current => Current' BY <1>5, <1>6, <1>7, <1>8, <1>9, <1>10, <1>12, <1>13
<1>15. Load(Tick) \/ LoadFails(Tick) \/ TickFires => (Same => Same')
  BY <1>4, <1>6, <1>7 DEF Same
<1>16. Same /\ Current => Same' BY <1>8, <1>9, <1>10, <1>11, <1>15
<1>17. Ticking \/ Loading \/ Loaded BY <1>1 DEF TypeOK, Ticking, Loading, Loaded
<1> QED BY <1>4, <1>5, <1>7, <1>11, <1>14, <1>16, <1>17

(* When operators stop changing sites, the snapshot becomes the table and    *)
(* stays it: the periodic refresh picks up whatever a failed, dropped or     *)
(* overtaken reload has passed over.                                         *)
THEOREM ConvergenceTheorem == FairSpec /\ []Ready => QuietCacheConverges
<1>1. RegistryInv /\ Quiet /\ Quiet' /\ [Next]_vars
        => /\ Current => Current'
           /\ Same /\ Current => Same'
           /\ Ticking \/ Loading \/ Loaded
  BY QuietSteps
<1>2. RegistryInv /\ Quiet /\ Quiet' /\ [Next]_vars /\ <<TickFires>>_vars
        => Ticking /\ Loading'
  BY QuietSteps
<1>3. RegistryInv /\ Quiet /\ Quiet' /\ [Next]_vars /\ <<Load(Tick)>>_vars
        => Loading /\ Loaded'
  BY QuietSteps
<1>4. RegistryInv /\ Quiet /\ Quiet' /\ [Next]_vars /\ <<Install(Tick)>>_vars
        => Loaded /\ Ticking' /\ (Current => Same')
  BY QuietSteps
<1>5. ~Current => Loaded BY DEF Current, Loaded
<1>6. Ticking => Current BY DEF Ticking, Current
<1>7. ~(Ticking /\ Loading) /\ ~(Loading /\ Loaded) /\ ~(Ticking /\ Loaded)
  BY DEF Ticking, Loading, Loaded
<1>8. Ready => /\ ~Same /\ Ticking => ENABLED <<TickFires>>_vars
               /\ Loading => ENABLED <<Load(Tick)>>_vars
               /\ Loaded => ENABLED <<Install(Tick)>>_vars
  BY DEF Ready, Same, Ticking, Loading, Loaded
<1>9. FairSpec /\ []Ready => (<>[]Quiet => <>[]Same)
  BY <1>1, <1>2, <1>3, <1>4, <1>5, <1>6, <1>7, <1>8, RegistryInductive, PTL
     DEF FairSpec, Fairness, Spec
<1> QED BY <1>9 DEF QuietCacheConverges, Quiet, Same

-----------------------------------------------------------------------------
(* Refinement of RegistryContract: what the registry is to the handlers that *)
(* read it.  The contract remembers what the table has held in this life of  *)
(* the process; so does `past`, a history variable.                          *)

VARIABLE past

\* What a reader looks at of a registry: who is registered, and active.
Actives(reg) == [s \in Registered(reg) |-> reg[s].active]

\* Between two lives of the process a reader would find what the next one loads.
Seen == IF up THEN cache ELSE table

Contract == INSTANCE RegistryContract
            WITH Entries <- BOOLEAN, NewEntries <- {TRUE},
                 table <- Actives(table), cache <- Actives(Seen)

Remember ==
    past' = IF up' # up THEN {Actives(table')} ELSE past \cup {Actives(table')}

HistorySpec ==
    /\ Init /\ past = {Actives(table)}
    /\ [][Next /\ Remember]_<<vars, past>>

\* No snapshot, installed or in flight, mixes two contents of the table, and none is of
\* an earlier life.
WholeSnapshots ==
    /\ Actives(table) \in past
    /\ up => Actives(cache) \in past
    /\ \A w \in Refreshers : pc[w] = "loaded" => Actives(snap[w]) \in past

\* A registry seen by its readers.
LEMMA ActivesShape ==
    ASSUME NEW reg \in Registries
    PROVE  /\ Actives(reg) \in Contract!Registries
           /\ DOMAIN Actives(reg) = Registered(reg)
           /\ \A s \in Registered(reg) : Actives(reg)[s] = reg[s].active
<1>1. Registered(reg) \subseteq Sites /\ \A s \in Registered(reg) : reg[s].active \in BOOLEAN
  BY RegistryElim DEF Row
<1>2. Actives(reg) \in [Registered(reg) -> BOOLEAN] BY <1>1 DEF Actives
<1> QED BY <1>1, <1>2 DEF Actives, Contract!Registries

\* A statement that changes one site is the contract's Change.
LEMMA CommitIsChange ==
    ASSUME RegistryInv, NEW h, Admitted(h), NEW s \in Sites, NEW reg \in Registries, NEW dead,
           Commit(h, s, reg, dead), Remember,
           Differ(reg, table) \subseteq {s},
           s \in Registered(reg) \ Registered(table) => reg[s].active = TRUE
    PROVE  Contract!Change(s)
<1>1. /\ table' = reg /\ ~open /\ up /\ up' = up /\ open' = open /\ cache' = cache
      /\ table \in Registries
  BY DEF Commit, Admitted, RegistryInv, TypeOK
<1>2. past' = past \cup {Actives(table')} BY <1>1 DEF Remember
<1>3. Actives(Seen)' = Actives(Seen) BY <1>1 DEF Seen, Actives, Registered
<1>4. Actives(table') \in Contract!Registries BY <1>1, ActivesShape
<1>5. /\ Registered(reg) \subseteq Sites /\ Registered(table) \subseteq Sites
      /\ \A x \in Sites \ {s} : (x \in Registered(reg)) = (x \in Registered(table))
      /\ \A x \in Registered(table) \ {s} : reg[x] = table[x]
  BY <1>1, RegistryElim DEF Differ
<1>6. DOMAIN Actives(table) \ {s} = DOMAIN Actives(table') \ {s}
  BY <1>1, <1>5, ActivesShape
<1>7. \A x \in DOMAIN Actives(table) \ {s} : Actives(table')[x] = Actives(table)[x]
  BY <1>1, <1>5, ActivesShape
<1>8. s \in DOMAIN Actives(table') \ DOMAIN Actives(table) => Actives(table')[s] \in {TRUE}
  BY <1>1, ActivesShape
<1>9. Actives(table)' = Actives(table') BY DEF Actives, Registered
<1> QED BY <1>1, <1>2, <1>3, <1>4, <1>6, <1>7, <1>8, <1>9 DEF Contract!Change

\* The operator's four statements are changes.
LEMMA OperatorChanges ==
    ASSUME RegistryInv, Remember, NEW h \in Handlers, Operator(h), ~Cancel(h)
    PROVE  \E s \in Sites : Contract!Change(s)
<1>0. table \in Registries BY DEF RegistryInv, TypeOK
<1>1. ASSUME NEW s \in Sites, NEW t \in Tokens, Create(h, s, t) PROVE Contract!Change(s)
  <2> DEFINE row == [tok |-> t, active |-> TRUE]
  <2>1. row \in Row /\ row.active = TRUE BY DEF Row
  <2> HIDE DEF row
  <2>2. Admitted(h) /\ Commit(h, s, Upsert(table, s, row), {}) BY <1>1 DEF Create, row
  <2> QED BY <1>0, <2>1, <2>2, UpsertShape, CommitIsChange
<1>2. ASSUME NEW s \in Sites, NEW t \in Tokens, RotateToken(h, s, t) PROVE Contract!Change(s)
  <2> DEFINE row == [table[s] EXCEPT !.tok = t]
             dead == {table[s].tok}
             reg == Upsert(table, s, row)
  <2>1. s \in Registered(table) BY <1>2 DEF RotateToken
  <2>2. row \in Row BY <1>0, <2>1, RegistryElim DEF Row
  <2>3. Admitted(h) /\ Commit(h, s, reg, dead) BY <1>2 DEF RotateToken
  <2> HIDE DEF row, dead
  <2> QED BY <1>0, <2>1, <2>2, <2>3, UpsertShape, CommitIsChange
<1>3. ASSUME NEW s \in Sites, NEW active \in BOOLEAN, Update(h, s, active)
      PROVE  Contract!Change(s)
  <2> DEFINE row == [table[s] EXCEPT !.active = active]
  <2>1. s \in Registered(table) BY <1>3 DEF Update
  <2>2. row \in Row BY <1>0, <2>1, RegistryElim DEF Row
  <2> HIDE DEF row
  <2>3. Admitted(h) /\ Commit(h, s, Upsert(table, s, row), {}) BY <1>3 DEF Update, row
  <2> QED BY <1>0, <2>1, <2>2, <2>3, UpsertShape, CommitIsChange
<1>4. ASSUME NEW s \in Sites, DeleteSite(h, s) PROVE Contract!Change(s)
  <2> DEFINE dead == {table[s].tok}
             reg == Remove(table, s)
  <2>1. Admitted(h) /\ Commit(h, s, reg, dead) BY <1>4 DEF DeleteSite
  <2>2. s \notin Registered(reg) BY <1>0, RemoveShape
  <2> HIDE DEF dead
  <2> QED BY <1>0, <2>1, <2>2, RemoveShape, CommitIsChange
<1> QED BY <1>1, <1>2, <1>3, <1>4 DEF Operator

\* Outside a stop or a start, what is in the table is remembered, and nothing is forgotten.
LEMMA NothingForgotten ==
    ASSUME WholeSnapshots, Remember, up' = up
    PROVE  past \subseteq past' /\ Actives(table') \in past'
BY DEF Remember

\* While the table stays, past stays too.
LEMMA PastStays ==
    ASSUME WholeSnapshots, Remember, up' = up, table' = table PROVE past' = past
BY DEF Remember, WholeSnapshots

\* Snapshots stay whole: a SELECT reads the table of its moment, a cache write installs
\* such a SELECT, and a stop drops them all.
LEMMA WholeStep ==
    ASSUME RegistryInv, WholeSnapshots, Next, Remember PROVE WholeSnapshots'
<1> USE DEF RegistryInv
<1>1. ASSUME NEW h, NEW s, NEW reg, NEW dead, h \in Handlers, Commit(h, s, reg, dead)
      PROVE  WholeSnapshots'
  <2>1. up' = up /\ cache' = cache /\ snap' = snap BY <1>1 DEF Commit
  <2>2. \A w \in Refreshers : pc'[w] = "loaded" => pc[w] = "loaded"
    BY <1>1 DEF Commit, TypeOK
  <2>3. past \subseteq past' /\ Actives(table') \in past' BY <2>1, NothingForgotten
  <2> QED BY <2>1, <2>2, <2>3 DEF WholeSnapshots, Actives, Registered
<1>2. ASSUME NEW w \in Refreshers, Finish(w), up' = up, table' = table,
             cache' = cache \/ (pc[w] = "loaded" /\ cache' = snap[w])
      PROVE  WholeSnapshots'
  <2>1. past' = past BY <1>2, PastStays
  <2>2. /\ pc'[w] = "idle"
        /\ \A v \in Refreshers : v # w => pc'[v] = pc[v] /\ snap'[v] = snap[v]
    BY <1>2, FinishShape
  <2>3. up' => Actives(cache') \in past' BY <1>2, <2>1 DEF WholeSnapshots, WorkShape
  <2>4. \A v \in Refreshers : pc'[v] = "loaded" => Actives(snap'[v]) \in past'
    BY <2>1, <2>2 DEF WholeSnapshots
  <2> QED BY <1>2, <2>1, <2>3, <2>4 DEF WholeSnapshots, Actives, Registered
<1>3. ASSUME NEW w \in Refreshers, Load(w) PROVE WholeSnapshots'
  <2>1. up' = up /\ table' = table /\ cache' = cache BY <1>3 DEF Load
  <2>2. past' = past BY <2>1, PastStays
  <2>3. /\ snap'[w] = table
        /\ \A v \in Refreshers : v # w => pc'[v] = pc[v] /\ snap'[v] = snap[v]
    BY <1>3 DEF Load, TypeOK
  <2> QED BY <2>1, <2>2, <2>3 DEF WholeSnapshots, Actives, Registered
<1>4. CASE TickFires
  <2>1. up' = up /\ table' = table /\ cache' = cache /\ snap' = snap BY <1>4 DEF TickFires
  <2>2. \A w \in Refreshers : pc'[w] = "loaded" => pc[w] = "loaded"
    BY <1>4 DEF TickFires, TypeOK
  <2>3. past' = past BY <2>1, PastStays
  <2> QED BY <2>1, <2>2, <2>3 DEF WholeSnapshots, Actives, Registered
<1>5. CASE Stop \/ Start
  <2>1. up' # up /\ table' = table /\ (up' => cache' = table) BY <1>5 DEF Stop, Start
  <2>2. past' = {Actives(table')} BY <2>1 DEF Remember
  <2>3. \A w \in Refreshers : pc'[w] = "idle" BY <1>5 DEF Stop, Start, WorkShape
  <2> QED BY <2>1, <2>2, <2>3 DEF WholeSnapshots, Actives, Registered
<1>6. ASSUME NEW h \in Handlers, Operator(h) PROVE WholeSnapshots'
  <2>1. CASE Cancel(h) BY <1>2, <2>1, TickShape DEF Cancel
  <2> QED BY <1>1, <1>6, <2>1 DEF Operator, Create, RotateToken, Update, DeleteSite
<1>7. ASSUME NEW w \in Refreshers, Refresh(w) PROVE WholeSnapshots'
  BY <1>2, <1>3, <1>7 DEF Refresh, Install, LoadFails
<1> QED BY <1>4, <1>5, <1>6, <1>7 DEF Next

\* A step of the registry is a step of the contract, or none.
LEMMA RegistryContractStep ==
    ASSUME RegistryInv, WholeSnapshots, Next, Remember
    PROVE  Contract!Next \/ UNCHANGED Contract!vars
<1> USE DEF RegistryInv
<1>1. ASSUME up' = up, UNCHANGED <<open, table, cache>> PROVE UNCHANGED Contract!vars
  <2>1. past' = past BY <1>1, PastStays
  <2> QED BY <1>1, <2>1 DEF Contract!vars, Seen, Actives, Registered
<1>2. ASSUME NEW w \in Refreshers, Install(w) PROVE Contract!Reload
  <2>1. pc[w] = "loaded" /\ cache' = snap[w] /\ UNCHANGED <<up, open, table>>
    BY <1>2 DEF Install
  <2>2. up BY <2>1 DEF WorkShape
  <2>3. past' = past BY <2>1, PastStays
  <2>4. Actives(Seen)' = Actives(snap[w]) BY <2>1, <2>2 DEF Seen, Actives, Registered
  <2>5. Actives(Seen)' \in past BY <2>1, <2>4 DEF WholeSnapshots
  <2> QED BY <2>1, <2>3, <2>5 DEF Contract!Reload, Actives, Registered
<1>3. CASE Stop \/ Start
  <2>1. /\ up' # up /\ table' = table /\ (up' => cache' = table) /\ open' \in BOOLEAN
    BY <1>3 DEF Stop, Start, TypeOK
  <2>2. past' = {Actives(table')} BY <2>1 DEF Remember
  <2>3. Seen' = table BY <2>1 DEF Seen
  <2>4. Actives(table)' = Actives(table) /\ Actives(Seen)' = Actives(table)
    BY <2>1, <2>3 DEF Actives, Registered
  <2>5. Contract!Restart BY <2>1, <2>2, <2>4 DEF Contract!Restart
  <2> QED BY <2>5 DEF Contract!Next
<1>4. ASSUME NEW h \in Handlers, Operator(h) PROVE Contract!Next \/ UNCHANGED Contract!vars
  <2>1. CASE Cancel(h) BY <1>1, <2>1 DEF Cancel
  <2>2. CASE ~Cancel(h) BY <1>4, <2>2, OperatorChanges DEF Contract!Next
  <2> QED BY <2>1, <2>2
<1>5. ASSUME NEW w \in Refreshers, Refresh(w) PROVE Contract!Next \/ UNCHANGED Contract!vars
  <2>1. CASE Load(w) BY <1>1, <2>1 DEF Load
  <2>2. CASE Install(w) BY <1>2, <2>2 DEF Contract!Next
  <2>3. CASE LoadFails(w) BY <1>1, <2>3 DEF LoadFails
  <2> QED BY <1>5, <2>1, <2>2, <2>3 DEF Refresh
<1>6. CASE TickFires BY <1>1, <1>6 DEF TickFires
<1> QED BY <1>3, <1>4, <1>5, <1>6 DEF Next

(* The snapshot that handlers read, and every one on its way, is one that a  *)
(* SELECT of this life of the process returned: never a mixture.             *)
THEOREM SnapshotsWhole == HistorySpec => []WholeSnapshots
<1>1. Init /\ past = {Actives(table)} => WholeSnapshots
  BY DEF Init, WholeSnapshots
<1>2. ASSUME RegistryInv, WholeSnapshots, [Next /\ Remember]_<<vars, past>>
      PROVE  WholeSnapshots'
  <2>1. CASE Next /\ Remember BY <1>2, <2>1, WholeStep
  <2>2. CASE UNCHANGED <<vars, past>>
    BY <1>2, <2>2 DEF vars, WholeSnapshots, Actives, Registered
  <2> QED BY <1>2, <2>1, <2>2
<1>3. HistorySpec => Spec
  <2>1. [Next /\ Remember]_<<vars, past>> => [Next]_vars OBVIOUS
  <2> QED BY <2>1, PTL DEF HistorySpec, Spec
<1> QED BY <1>1, <1>2, <1>3, RegistryInductive, PTL DEF HistorySpec

(* Reloads that overlap, fail and lag, tokens and restarts: to a reader of    *)
(* the snapshot all of it is RegistryContract.                               *)
THEOREM RegistryRefinement == HistorySpec => Contract!Spec
<1>1. Init /\ past = {Actives(table)} => Contract!Init
  <2> SUFFICES ASSUME Init, past = {Actives(table)} PROVE Contract!Init OBVIOUS
  <2>1. up /\ open \in BOOLEAN /\ table = Nobody /\ cache = Nobody BY DEF Init
  <2>2. Actives(table) = [s \in {} |-> s] BY <2>1, NobodyShape DEF Actives
  <2>3. Actives(Seen) = Actives(table) BY <2>1 DEF Seen
  <2> QED BY <2>1, <2>2, <2>3 DEF Contract!Init
<1>2. ASSUME RegistryInv, WholeSnapshots, [Next /\ Remember]_<<vars, past>>
      PROVE  [Contract!Next]_(Contract!vars)
  <2>1. CASE Next /\ Remember BY <1>2, <2>1, RegistryContractStep
  <2>2. CASE UNCHANGED <<vars, past>>
    BY <2>2 DEF vars, Contract!vars, Seen, Actives, Registered
  <2> QED BY <1>2, <2>1, <2>2
<1>3. HistorySpec => Spec
  <2>1. [Next /\ Remember]_<<vars, past>> => [Next]_vars OBVIOUS
  <2> QED BY <2>1, PTL DEF HistorySpec, Spec
<1> QED BY <1>1, <1>2, <1>3, RegistryInductive, SnapshotsWhole, PTL
        DEF HistorySpec, Contract!Spec
=============================================================================
