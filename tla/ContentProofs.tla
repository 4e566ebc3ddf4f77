--------------------------- MODULE ContentProofs ---------------------------
(* Proofs about Content, for any tenants, rows, slugs and requests.          *)
EXTENDS Content, TLAPS

-----------------------------------------------------------------------------
(* Tables and what a statement does to one *)

\* A table holds rows under ids of its own.
LEMMA TableShape ==
    ASSUME NEW I, NEW tab \in Tables(I)
    PROVE  /\ DOMAIN tab \subseteq I
           /\ tab \in [DOMAIN tab -> Row]
           /\ \A i \in DOMAIN tab : tab[i] \in Row
BY DEF Tables

\* Rows under ids of the table make a table.
LEMMA TableMade ==
    ASSUME NEW I, NEW J, J \subseteq I, NEW f, f \in [J -> Row]
    PROVE  f \in Tables(I)
BY DEF Tables

\* Everything a statement of request x that turns tab into new must respect.
Respects(I, tab, x, new) ==
    /\ new \in Tables(I)
    /\ OneRowPer(tab) => OneRowPer(new)
    /\ Owners(new) \subseteq Owners(tab) \cup DOMAIN table
    /\ \A s \in Sites \ {x.site} : Rows(new, s) = Rows(tab, s) /\ Edited(new, s) = Edited(tab, s)

\* Doing nothing respects everything.
LEMMA NothingRespects ==
    ASSUME NEW I, NEW tab \in Tables(I), NEW x
    PROVE  Respects(I, tab, x, tab)
BY DEF Respects

\* Two tables with the same rows of s, under the same ids, agree on s.
LEMMA SameRows ==
    ASSUME NEW I, NEW tab \in Tables(I), NEW new \in Tables(I), NEW s,
           {i \in DOMAIN new : new[i].site = s} = {i \in DOMAIN tab : tab[i].site = s},
           \A i \in DOMAIN tab : tab[i].site = s => new[i] = tab[i]
    PROVE  Rows(new, s) = Rows(tab, s) /\ Edited(new, s) = Edited(tab, s)
<1>1. Rows(new, s) = Rows(tab, s) BY DEF Rows
<1>2. Edited(new, s) = Edited(tab, s) BY DEF Edited
<1> QED BY <1>1, <1>2

\* The INSERT.
LEMMA CreatedRespects ==
    ASSUME NEW I, NEW tab \in Tables(I), NEW x \in Context, NEW i \in I \ DOMAIN tab,
           NEW slug \in Slugs \cup {Bad}, NEW draft \in BOOLEAN
    PROVE  /\ Respects(I, tab, x, Created(tab, x, i, slug, draft))
           /\ ~CanWrite(x) => Created(tab, x, i, slug, draft) = tab
<1> DEFINE new == Created(tab, x, i, slug, draft)
           row == [site |-> x.site, slug |-> slug, draft |-> draft, views |-> 0]
<1>1. CASE CreateStatus(tab, x, slug) # 201
  <2>1. new = tab BY <1>1 DEF Created
  <2> QED BY <2>1, NothingRespects
<1>2. CASE CreateStatus(tab, x, slug) = 201
  <2>1. /\ CanWrite(x) /\ slug \in Slugs /\ Found(tab, x, slug) = {} /\ x.site \in DOMAIN table
    BY <1>2 DEF CreateStatus
  <2>2. row \in Row BY <2>1, MaxViewsNat DEF Row, Context
  <2>3. /\ DOMAIN new = DOMAIN tab \cup {i} /\ new[i] = row
        /\ \A j \in DOMAIN tab : new[j] = tab[j]
        /\ new \in [DOMAIN tab \cup {i} -> Row]
    BY <1>2, <2>2, TableShape DEF Created, Put
  <2>4. new \in Tables(I) BY <2>3, TableShape, TableMade
  <2>5. OneRowPer(tab) => OneRowPer(new) BY <2>1, <2>3 DEF OneRowPer, Found
  <2>6. Owners(new) \subseteq Owners(tab) \cup DOMAIN table BY <2>1, <2>3 DEF Owners
  <2>7. ASSUME NEW s \in Sites \ {x.site}
        PROVE  Rows(new, s) = Rows(tab, s) /\ Edited(new, s) = Edited(tab, s)
    <3>1. {j \in DOMAIN new : new[j].site = s} = {j \in DOMAIN tab : tab[j].site = s}
      BY <2>3
    <3> QED BY <2>3, <2>4, <3>1, SameRows
  <2> QED BY <2>1, <2>4, <2>5, <2>6, <2>7 DEF Respects
<1> QED BY <1>1, <1>2

\* The UPDATE of a PATCH.
LEMMA UpdatedRespects ==
    ASSUME NEW I, NEW tab \in Tables(I), NEW x \in Context, NEW i \in I,
           NEW slug \in Slugs \cup {Bad, Keep}, NEW draft \in BOOLEAN \cup {Keep}
    PROVE  /\ Respects(I, tab, x, Updated(tab, x, i, slug, draft))
           /\ ~CanWrite(x) => Updated(tab, x, i, slug, draft) = tab
<1> DEFINE new == Updated(tab, x, i, slug, draft)
<1>1. CASE UpdateStatus(tab, x, i, slug) # 200
  <2>1. new = tab BY <1>1 DEF Updated
  <2> QED BY <2>1, NothingRespects
<1>2. CASE UpdateStatus(tab, x, i, slug) = 200
  <2>1. /\ CanWrite(x) /\ slug \in Slugs \cup {Keep}
        /\ i \in DOMAIN tab /\ tab[i].site = x.site
        /\ Found(tab, x, slug) \subseteq {i}
    BY <1>2 DEF UpdateStatus, Owned
  <2>2. PICK row \in Row : /\ row.site = x.site
                           /\ row.slug = IF slug = Keep THEN tab[i].slug ELSE slug
                           /\ new = [tab EXCEPT ![i] = row]
    <3> DEFINE row == [tab[i] EXCEPT !.slug = IF slug = Keep THEN @ ELSE slug,
                                     !.draft = IF draft = Keep THEN @ ELSE draft]
    <3>1. tab[i] \in Row BY <2>1, TableShape
    <3>2. row \in Row /\ row.site = x.site
          /\ row.slug = IF slug = Keep THEN tab[i].slug ELSE slug
      BY <2>1, <3>1 DEF Row
    <3>3. new = [tab EXCEPT ![i] = row] BY <1>2, <2>1, <3>1, TableShape DEF Updated, Row
    <3> QED BY <3>2, <3>3
  <2>3. /\ DOMAIN new = DOMAIN tab /\ new[i] = row
        /\ \A j \in DOMAIN tab \ {i} : new[j] = tab[j]
        /\ new \in [DOMAIN tab -> Row]
    BY <2>1, <2>2, TableShape
  <2>4. new \in Tables(I) BY <2>3, TableShape, TableMade
  <2>5. OneRowPer(tab) => OneRowPer(new)
    <3>1. ASSUME OneRowPer(tab), NEW j \in DOMAIN tab \ {i},
                 tab[j].site = x.site, tab[j].slug = row.slug
          PROVE  FALSE
      <4>1. CASE slug = Keep BY <2>1, <2>2, <3>1, <4>1 DEF OneRowPer
      <4>2. CASE slug # Keep BY <2>1, <2>2, <3>1, <4>2 DEF Found
      <4> QED BY <4>1, <4>2
    <3> QED BY <2>1, <2>2, <2>3, <3>1 DEF OneRowPer
  <2>6. Owners(new) \subseteq Owners(tab) \cup DOMAIN table BY <2>1, <2>2, <2>3 DEF Owners
  <2>7. ASSUME NEW s \in Sites \ {x.site}
        PROVE  Rows(new, s) = Rows(tab, s) /\ Edited(new, s) = Edited(tab, s)
    <3>1. {j \in DOMAIN new : new[j].site = s} = {j \in DOMAIN tab : tab[j].site = s}
      BY <2>1, <2>2, <2>3
    <3>2. \A j \in DOMAIN tab : tab[j].site = s => new[j] = tab[j] BY <2>1, <2>3
    <3> QED BY <2>4, <3>1, <3>2, SameRows
  <2> QED BY <2>1, <2>4, <2>5, <2>6, <2>7 DEF Respects
<1> QED BY <1>1, <1>2

\* The DELETE.
LEMMA DeletedRespects ==
    ASSUME NEW I, NEW tab \in Tables(I), NEW x \in Context, NEW i \in I
    PROVE  /\ Respects(I, tab, x, Deleted(tab, x, i))
           /\ ~CanWrite(x) => Deleted(tab, x, i) = tab
<1> DEFINE new == Deleted(tab, x, i)
<1>1. CASE DeleteStatus(tab, x, i) # 204
  <2>1. new = tab BY <1>1 DEF Deleted
  <2> QED BY <2>1, NothingRespects
<1>2. CASE DeleteStatus(tab, x, i) = 204
  <2>1. CanWrite(x) /\ i \in DOMAIN tab /\ tab[i].site = x.site
    BY <1>2 DEF DeleteStatus, Owned
  <2>2. /\ DOMAIN new = DOMAIN tab \ {i}
        /\ \A j \in DOMAIN new : new[j] = tab[j]
        /\ new \in [DOMAIN tab \ {i} -> Row]
    BY <1>2, TableShape DEF Deleted, Without
  <2>3. new \in Tables(I) BY <2>2, TableShape, TableMade
  <2>4. OneRowPer(tab) => OneRowPer(new) BY <2>2 DEF OneRowPer
  <2>5. Owners(new) \subseteq Owners(tab) BY <2>2 DEF Owners
  <2>6. ASSUME NEW s \in Sites \ {x.site}
        PROVE  Rows(new, s) = Rows(tab, s) /\ Edited(new, s) = Edited(tab, s)
    <3>1. {j \in DOMAIN new : new[j].site = s} = {j \in DOMAIN tab : tab[j].site = s}
      BY <2>1, <2>2
    <3>2. \A j \in DOMAIN tab : tab[j].site = s => new[j] = tab[j] BY <2>1, <2>2
    <3> QED BY <2>3, <3>1, <3>2, SameRows
  <2> QED BY <2>1, <2>3, <2>4, <2>5, <2>6 DEF Respects
<1> QED BY <1>1, <1>2

\* The UPDATE of a view ping: only counters change.
LEMMA ViewedRespects ==
    ASSUME NEW I, NEW tab \in Tables(I), NEW x \in Context, NEW slug, Room(tab)
    PROVE  /\ Respects(I, tab, x, Viewed(tab, x, slug))
           /\ \A s : Edited(Viewed(tab, x, slug), s) = Edited(tab, s)
<1> DEFINE new == Viewed(tab, x, slug)
<1>1. ASSUME NEW j \in DOMAIN tab
      PROVE  /\ new[j] \in Row
             /\ new[j].site = tab[j].site /\ new[j].slug = tab[j].slug
             /\ new[j].draft = tab[j].draft
             /\ tab[j].site # x.site => new[j] = tab[j]
  <2>1. tab[j] \in Row /\ tab[j].views + 1 \in 0..MaxViews
    BY TableShape, MaxViewsNat DEF Room, Row
  <2> QED BY <2>1 DEF Viewed, Found, Row
<1>2. DOMAIN new = DOMAIN tab /\ new \in [DOMAIN tab -> Row] BY <1>1 DEF Viewed
<1>3. new \in Tables(I) BY <1>2, TableShape, TableMade
<1>4. OneRowPer(tab) => OneRowPer(new) BY <1>1, <1>2 DEF OneRowPer
<1>5. Owners(new) \subseteq Owners(tab) BY <1>1, <1>2 DEF Owners
<1>6. ASSUME NEW s PROVE Edited(new, s) = Edited(tab, s) BY <1>1, <1>2 DEF Edited
<1>7. ASSUME NEW s \in Sites \ {x.site} PROVE Rows(new, s) = Rows(tab, s)
  <2>1. {j \in DOMAIN new : new[j].site = s} = {j \in DOMAIN tab : tab[j].site = s}
    BY <1>1, <1>2
  <2> QED BY <1>1, <1>2, <1>3, <2>1, SameRows
<1> QED BY <1>3, <1>4, <1>5, <1>6, <1>7 DEF Respects

-----------------------------------------------------------------------------
(* The steps *)

\* A request in flight is a context.
LEMMA CtxShape == TypeOK => DOMAIN ctx \subseteq Requests /\ \A r \in DOMAIN ctx : ctx[r] \in Context
BY DEF TypeOK

\* Only its id is fresh, or everything is refused: a handler of blog.rs.
LEMMA PostStep ==
    ASSUME TypeOK, NEW r \in Requests, PostHandlers(r)
    PROVE  /\ r \in DOMAIN ctx /\ ctx[r] \in Context
           /\ Answered(r) /\ UNCHANGED <<registry, products, docs>>
           /\ Respects(PostIds, posts, ctx[r], posts')
           /\ CanWrite(ctx[r]) \/ \A s : Edited(posts', s) = Edited(posts, s)
<1> USE CtxShape DEF Queried
<1>0. posts \in Tables(PostIds) BY DEF TypeOK
<1>1. CASE \E slug \in Slugs \cup {Bad}, draft \in BOOLEAN : CreatePost(r, slug, draft)
  BY <1>0, <1>1, CreatedRespects DEF CreatePost
<1>2. CASE \E i \in PostIds, slug \in Slugs \cup {Bad, Keep}, draft \in BOOLEAN \cup {Keep} :
             UpdatePost(r, i, slug, draft)
  BY <1>0, <1>2, UpdatedRespects DEF UpdatePost
<1>3. CASE \E i \in PostIds : DeletePost(r, i)
  BY <1>0, <1>3, DeletedRespects DEF DeletePost
<1>4. CASE \E slug \in Slugs : ViewPost(r, slug)
  BY <1>0, <1>4, ViewedRespects DEF ViewPost
<1> QED BY <1>1, <1>2, <1>3, <1>4 DEF PostHandlers

\* The same of a handler of products.rs.
LEMMA ProductStep ==
    ASSUME TypeOK, NEW r \in Requests, ProductHandlers(r)
    PROVE  /\ r \in DOMAIN ctx /\ ctx[r] \in Context
           /\ Answered(r) /\ UNCHANGED <<registry, posts, docs>>
           /\ Respects(ProductIds, products, ctx[r], products')
           /\ CanWrite(ctx[r]) \/ \A s : Edited(products', s) = Edited(products, s)
<1> USE CtxShape DEF Queried
<1>0. products \in Tables(ProductIds) BY DEF TypeOK
<1>1. CASE \E slug \in Slugs \cup {Bad}, draft \in BOOLEAN : CreateProduct(r, slug, draft)
  BY <1>0, <1>1, CreatedRespects DEF CreateProduct
<1>2. CASE \E i \in ProductIds, slug \in Slugs \cup {Bad, Keep}, draft \in BOOLEAN \cup {Keep} :
             UpdateProduct(r, i, slug, draft)
  BY <1>0, <1>2, UpdatedRespects DEF UpdateProduct
<1>3. CASE \E i \in ProductIds : DeleteProduct(r, i)
  BY <1>0, <1>3, DeletedRespects DEF DeleteProduct
<1>4. CASE \E slug \in Slugs : ViewProduct(r, slug)
  BY <1>0, <1>4, ViewedRespects DEF ViewProduct
<1> QED BY <1>1, <1>2, <1>3, <1>4 DEF ProductHandlers

\* What a handler of site_config.rs does: one document of one registered site, written by
\* a request that was authorized.
WritesConfig(r) ==
    /\ r \in DOMAIN ctx /\ ctx[r] \in Context /\ CanWrite(ctx[r])
    /\ Answered(r) /\ UNCHANGED <<registry, posts, products>>
    /\ docs' \in UNION {[S -> Docs] : S \in SUBSET Sites}
    /\ DOMAIN docs' \subseteq DOMAIN docs \cup DOMAIN table
    /\ \A s \in Sites \ {ctx[r].site} :
          {docs'[y] : y \in DOMAIN docs' \cap {s}} = {docs[y] : y \in DOMAIN docs \cap {s}}

\* A handler of site_config.rs.
LEMMA ConfigStep ==
    ASSUME TypeOK, ScopesHonest, NEW r \in Requests, ConfigHandlers(r)
    PROVE  WritesConfig(r)
<1> USE CtxShape DEF Pathed
<1>0. PICK S \in SUBSET Sites : docs \in [S -> Docs] BY DEF TypeOK
<1>1. CASE DeleteConfig(r)
  <2>1. docs' \in [S \ {ctx[r].site} -> Docs] BY <1>0, <1>1 DEF DeleteConfig, Without
  <2>2. /\ DOMAIN docs' = S \ {ctx[r].site}
        /\ \A y \in DOMAIN docs' : docs'[y] = docs[y]
    BY <1>0, <1>1 DEF DeleteConfig, Without
  <2>3. S \ {ctx[r].site} \in SUBSET Sites OBVIOUS
  <2>4. \A s \in Sites \ {ctx[r].site} :
          {docs'[y] : y \in DOMAIN docs' \cap {s}} = {docs[y] : y \in DOMAIN docs \cap {s}}
    BY <1>0, <2>2
  <2> QED BY <1>0, <1>1, <2>1, <2>2, <2>3, <2>4 DEF DeleteConfig, ScopesHonest, WritesConfig
<1>2. ASSUME NEW d \in Docs, PutConfig(r, d) PROVE WritesConfig(r)
  <2> DEFINE t == ctx[r].site
  <2>0. t \in Sites BY <1>2 DEF PutConfig, Context
  <2>1. CASE t \notin DOMAIN table
    BY <1>0, <1>2, <2>1 DEF PutConfig, ScopesHonest, WritesConfig
  <2>2. CASE t \in DOMAIN table
    <3>1. docs' \in [S \cup {t} -> Docs] BY <1>0, <1>2, <2>2 DEF PutConfig, Put
    <3>2. /\ DOMAIN docs' = S \cup {t}
          /\ \A y \in S \ {t} : docs'[y] = docs[y]
      BY <1>0, <1>2, <2>2 DEF PutConfig, Put
    <3>3. S \cup {t} \in SUBSET Sites BY <2>0
    <3>4. \A s \in Sites \ {t} :
            {docs'[y] : y \in DOMAIN docs' \cap {s}} = {docs[y] : y \in DOMAIN docs \cap {s}}
      BY <1>0, <3>2
    <3> QED
      BY <1>0, <1>2, <2>2, <3>1, <3>2, <3>3, <3>4 DEF PutConfig, ScopesHonest, WritesConfig
  <2> QED BY <2>1, <2>2
<1> QED BY <1>1, <1>2 DEF ConfigHandlers

-----------------------------------------------------------------------------
(* The inductive invariant *)

\* Answering or dropping a request leaves the others as they were.
LEMMA AnsweredKeeps ==
    ASSUME TypeOK, NEW r, Answered(r)
    PROVE  /\ ctx' \in UNION {[R -> Context] : R \in SUBSET Requests}
           /\ DOMAIN ctx' = DOMAIN ctx \ {r}
           /\ \A q \in DOMAIN ctx' : ctx'[q] = ctx[q]
<1>1. PICK R \in SUBSET Requests : ctx \in [R -> Context] BY DEF TypeOK
<1>2. ctx' \in [R \ {r} -> Context] BY <1>1 DEF Answered, Without
<1>3. DOMAIN ctx' = DOMAIN ctx \ {r} /\ \A q \in DOMAIN ctx' : ctx'[q] = ctx[q]
  BY <1>1 DEF Answered, Without
<1>4. R \ {r} \in SUBSET Requests OBVIOUS
<1> QED BY <1>2, <1>3, <1>4

\* A newly authorized request joins the others.
LEMMA BeginKeeps ==
    ASSUME TypeOK, NEW r \in Requests, NEW x \in Context, Begin(r, x)
    PROVE  /\ ctx' \in UNION {[R -> Context] : R \in SUBSET Requests}
           /\ DOMAIN ctx' = DOMAIN ctx \cup {r} /\ ctx'[r] = x
           /\ \A q \in DOMAIN ctx \ {r} : ctx'[q] = ctx[q]
<1>1. PICK R \in SUBSET Requests : ctx \in [R -> Context] BY DEF TypeOK
<1>2. ctx' \in [R \cup {r} -> Context] BY <1>1 DEF Begin, Put
<1>3. R \cup {r} \in SUBSET Requests OBVIOUS
<1> QED BY <1>1, <1>2, <1>3 DEF Begin, Put

\* Writing and removing a registration.
LEMMA PutShape ==
    ASSUME NEW f \in Registries, NEW s \in Sites, NEW v \in BOOLEAN
    PROVE  Put(f, s, v) \in Registries /\ DOMAIN Put(f, s, v) = DOMAIN f \cup {s}
<1>1. PICK S \in SUBSET Sites : f \in [S -> BOOLEAN] BY DEF Registries
<1>2. Put(f, s, v) \in [S \cup {s} -> BOOLEAN] BY <1>1 DEF Put
<1>3. S \cup {s} \in SUBSET Sites OBVIOUS
<1> QED BY <1>1, <1>2, <1>3 DEF Registries

LEMMA WithoutShape ==
    ASSUME NEW f \in Registries, NEW s
    PROVE  Without(f, s) \in Registries /\ DOMAIN Without(f, s) = DOMAIN f \ {s}
<1>1. PICK S \in SUBSET Sites : f \in [S -> BOOLEAN] BY DEF Registries
<1>2. Without(f, s) \in [S \ {s} -> BOOLEAN] BY <1>1 DEF Without
<1>3. S \ {s} \in SUBSET Sites OBVIOUS
<1> QED BY <1>1, <1>2, <1>3 DEF Registries

\* An authorized request has the scope that its token has.
LEMMA ScopeOfBearer ==
    ASSUME NEW b \in Bearers
    PROVE  /\ ScopeOf(b) \in Scopes
           /\ IF open THEN ScopeOf(b) = Unconfigured ELSE ScopeOf(b) \in {b, Anonymous}
BY DEF ScopeOf, Scopes, Bearers

\* At the start nothing is stored.
LEMMA ContentInit == Init => IInv
<1> SUFFICES ASSUME Init PROVE IInv OBVIOUS
<1>1. /\ Empty \in [{} -> BOOLEAN] /\ Empty \in [{} -> Row] /\ Empty \in [{} -> Docs]
      /\ Empty \in [{} -> Context] /\ DOMAIN Empty = {}
  BY DEF Empty
<1>2. TypeOK BY <1>1 DEF Init, TypeOK, Registries, Tables
<1>3. NoOrphans /\ OneRowPerSlug /\ ScopesHonest
  BY <1>1 DEF Init, NoOrphans, Owners, OneRowPerSlug, OneRowPer, ScopesHonest
<1> QED BY <1>2, <1>3 DEF IInv

\* Every step keeps the invariant.
LEMMA ContentStep == IInv /\ [Next]_vars => IInv'
<1> SUFFICES ASSUME IInv, [Next]_vars PROVE IInv' OBVIOUS
<1> USE DEF IInv
<1>1. ASSUME NEW r \in Requests, NEW b \in Bearers, NEW s \in Sites, NEW x \in Context,
             x.bearer = b, x.scope = ScopeOf(b), x.via = "path" => CanWrite(x),
             Begin(r, x), UNCHANGED <<registry, content>>
      PROVE  IInv'
  <2>1. TypeOK' BY <1>1, BeginKeeps DEF TypeOK, registry, content
  <2>2. ScopesHonest'
    <3>1. open' = open /\ ctx'[r] = x /\ DOMAIN ctx' = DOMAIN ctx \cup {r}
          /\ \A q \in DOMAIN ctx \ {r} : ctx'[q] = ctx[q]
      BY <1>1, BeginKeeps DEF registry
    <3>2. IF open THEN x.scope = Unconfigured ELSE x.scope \in {x.bearer, Anonymous}
      BY <1>1, ScopeOfBearer
    <3>3. ASSUME NEW q \in DOMAIN ctx'
          PROVE  /\ IF open' THEN ctx'[q].scope = Unconfigured
                    ELSE ctx'[q].scope \in {ctx'[q].bearer, Anonymous}
                 /\ ctx'[q].via = "path" => ctx'[q].scope \in {Operator, ctx'[q].site}
      <4>1. CASE q = r BY <1>1, <3>1, <3>2, <4>1 DEF CanWrite
      <4>2. CASE q # r BY <3>1, <3>3, <4>2 DEF ScopesHonest, CanWrite
      <4> QED BY <4>1, <4>2
    <3> QED BY <3>3 DEF ScopesHonest, CanWrite
  <2> QED BY <1>1, <2>1, <2>2 DEF NoOrphans, Owners, OneRowPerSlug, OneRowPer, registry, content
<1>2. ASSUME NEW r \in Requests, Arrives(r) PROVE IInv'
  <2>1. PICK b \in Bearers, s \in Sites : Extract(r, b, s) \/ AuthorizePath(r, b, s)
    BY <1>2 DEF Arrives
  <2>2. ScopeOf(b) \in Scopes BY ScopeOfBearer
  <2>3. CASE Extract(r, b, s) BY <1>1, <2>2, <2>3 DEF Extract, Context
  <2>4. CASE AuthorizePath(r, b, s) BY <1>1, <2>2, <2>4 DEF AuthorizePath, Context
  <2> QED BY <2>1, <2>3, <2>4
<1>3. ASSUME NEW r \in Requests, Answered(r), UNCHANGED registry PROVE ScopesHonest'
  BY <1>3, AnsweredKeeps DEF ScopesHonest, registry, CanWrite
<1>4. ASSUME NEW r \in Requests, Release(r) PROVE IInv'
  <2>1. TypeOK' BY <1>4, AnsweredKeeps DEF Release, TypeOK, registry, content
  <2> QED BY <1>3, <1>4, <2>1
          DEF Release, NoOrphans, Owners, OneRowPerSlug, OneRowPer, registry, content
<1>5. ASSUME NEW r \in Requests, PostHandlers(r) PROVE IInv'
  <2>1. TypeOK' BY <1>5, PostStep, AnsweredKeeps DEF TypeOK, Respects, registry
  <2>2. NoOrphans' BY <1>5, PostStep DEF NoOrphans, Respects, registry, Owners
  <2>3. OneRowPerSlug' BY <1>5, PostStep DEF OneRowPerSlug, Respects, OneRowPer
  <2> QED BY <1>3, <1>5, PostStep, <2>1, <2>2, <2>3
<1>6. ASSUME NEW r \in Requests, ProductHandlers(r) PROVE IInv'
  <2>1. TypeOK' BY <1>6, ProductStep, AnsweredKeeps DEF TypeOK, Respects, registry
  <2>2. NoOrphans' BY <1>6, ProductStep DEF NoOrphans, Respects, registry, Owners
  <2>3. OneRowPerSlug' BY <1>6, ProductStep DEF OneRowPerSlug, Respects, OneRowPer
  <2> QED BY <1>3, <1>6, ProductStep, <2>1, <2>2, <2>3
<1>7. ASSUME NEW r \in Requests, ConfigHandlers(r) PROVE IInv'
  <2>1. TypeOK' BY <1>7, ConfigStep, AnsweredKeeps DEF TypeOK, WritesConfig, registry
  <2>2. NoOrphans' BY <1>7, ConfigStep DEF NoOrphans, WritesConfig, registry, Owners
  <2>3. OneRowPerSlug' BY <1>7, ConfigStep DEF OneRowPerSlug, WritesConfig, OneRowPer
  <2> QED BY <1>3, <1>7, ConfigStep, <2>1, <2>2, <2>3 DEF WritesConfig
<1>8. ASSUME NEW s \in Sites, NEW active \in BOOLEAN, CreateSite(s) \/ UpdateSite(s, active)
      PROVE  IInv'
  <2>1. PICK v \in BOOLEAN : table' = Put(table, s, v) BY <1>8 DEF CreateSite, UpdateSite
  <2>2. table \in Registries BY DEF TypeOK
  <2>3. table' \in Registries /\ DOMAIN table \subseteq DOMAIN table' BY <2>1, <2>2, PutShape
  <2>4. UNCHANGED <<open, cache, content, ctx>> BY <1>8 DEF CreateSite, UpdateSite
  <2> QED BY <2>3, <2>4 DEF TypeOK, NoOrphans, Owners, OneRowPerSlug, OneRowPer,
                            ScopesHonest, CanWrite, content
<1>9. ASSUME NEW s \in Sites, DeleteSite(s) PROVE IInv'
  <2>1. table' \in Registries /\ DOMAIN table' = DOMAIN table \ {s}
    BY <1>9, WithoutShape DEF DeleteSite, TypeOK
  <2> QED BY <1>9, <2>1 DEF DeleteSite, TypeOK, NoOrphans, Owners, OneRowPerSlug, OneRowPer,
                            ScopesHonest, CanWrite, content
<1>10. CASE Reload
  <2>1. cache' \in Registries BY <1>10 DEF Reload, Loadable, TypeOK
  <2> QED BY <1>10, <2>1 DEF Reload, TypeOK, NoOrphans, Owners, OneRowPerSlug, OneRowPer,
                             ScopesHonest, CanWrite, content
<1>11. CASE Restart
  <2>1. ctx' \in [{} -> Context] /\ DOMAIN ctx' = {} BY <1>11 DEF Restart, Empty
  <2>2. TypeOK' BY <1>11, <2>1 DEF Restart, TypeOK, content
  <2>3. ScopesHonest' BY <2>1 DEF ScopesHonest
  <2>4. NoOrphans' /\ OneRowPerSlug'
    BY <1>11 DEF Restart, NoOrphans, Owners, OneRowPerSlug, OneRowPer, content
  <2> QED BY <2>2, <2>3, <2>4
<1>12. CASE UNCHANGED vars
  BY <1>12 DEF vars, TypeOK, NoOrphans, Owners, OneRowPerSlug, OneRowPer, ScopesHonest, CanWrite
<1> QED BY <1>2, <1>4, <1>5, <1>6, <1>7, <1>8, <1>9, <1>10, <1>11, <1>12 DEF Next, Environment

\* The state stays well typed.
THEOREM ContentTypeCorrect == Spec => []TypeOK
<1>1. IInv => TypeOK BY DEF IInv
<1> QED BY <1>1, ContentInit, ContentStep, PTL DEF Spec

\* Content never outlives its tenant.
THEOREM ContentHasOwner == Spec => []NoOrphans
<1>1. IInv => NoOrphans BY DEF IInv
<1> QED BY <1>1, ContentInit, ContentStep, PTL DEF Spec

\* A public address names one row.
THEOREM AddressesUnambiguous == Spec => []OneRowPerSlug
<1>1. IInv => OneRowPerSlug BY DEF IInv
<1> QED BY <1>1, ContentInit, ContentStep, PTL DEF Spec

-----------------------------------------------------------------------------
(* Tenant isolation *)

\* What TenantIsolation asks of a step.
Isolated ==
    \A s \in Sites : Stored(s)' # Stored(s) =>
        \E r \in DOMAIN ctx \ DOMAIN ctx' :
            /\ ctx[r].site = s
            /\ Written(s)' # Written(s) => ~open /\ ctx[r].bearer \in {Operator, s}

\* Whoever may write a site brought its token or the operator's.
LEMMA WriterIsEntitled ==
    ASSUME TypeOK, ScopesHonest, NEW r \in DOMAIN ctx, CanWrite(ctx[r])
    PROVE  ~open /\ ctx[r].bearer \in {Operator, ctx[r].site}
<1>1. ctx[r].site \in Sites BY CtxShape DEF Context
<1>2. ctx[r].scope \notin {Unconfigured, Anonymous} BY <1>1, ScopesDistinct DEF CanWrite
<1> QED BY <1>2 DEF ScopesHonest, CanWrite

\* A step that changes no table is isolated.
LEMMA QuietIsolated == ASSUME UNCHANGED content PROVE Isolated
BY DEF Isolated, Stored, Written, content

\* Every step is isolated.
LEMMA StepIsolated == IInv /\ [Next]_vars => Isolated
<1> SUFFICES ASSUME IInv, [Next]_vars PROVE Isolated OBVIOUS
<1> USE DEF IInv
<1>1. ASSUME NEW r \in Requests, PostHandlers(r) PROVE Isolated
  <2>1. r \in DOMAIN ctx \ DOMAIN ctx' BY <1>1, PostStep, AnsweredKeeps
  <2>2. ASSUME NEW s \in Sites, s # ctx[r].site PROVE Stored(s)' = Stored(s)
    BY <1>1, <2>2, PostStep DEF Respects, Stored
  <2>3. ASSUME ~CanWrite(ctx[r]), NEW s PROVE Written(s)' = Written(s)
    BY <1>1, <2>3, PostStep DEF Written
  <2> QED BY <2>1, <2>2, <2>3, WriterIsEntitled DEF Isolated
<1>2. ASSUME NEW r \in Requests, ProductHandlers(r) PROVE Isolated
  <2>1. r \in DOMAIN ctx \ DOMAIN ctx' BY <1>2, ProductStep, AnsweredKeeps
  <2>2. ASSUME NEW s \in Sites, s # ctx[r].site PROVE Stored(s)' = Stored(s)
    BY <1>2, <2>2, ProductStep DEF Respects, Stored
  <2>3. ASSUME ~CanWrite(ctx[r]), NEW s PROVE Written(s)' = Written(s)
    BY <1>2, <2>3, ProductStep DEF Written
  <2> QED BY <2>1, <2>2, <2>3, WriterIsEntitled DEF Isolated
<1>3. ASSUME NEW r \in Requests, ConfigHandlers(r) PROVE Isolated
  <2>1. WritesConfig(r) BY <1>3, ConfigStep
  <2>2. r \in DOMAIN ctx \ DOMAIN ctx' BY <2>1, AnsweredKeeps DEF WritesConfig
  <2>3. ASSUME NEW s \in Sites, s # ctx[r].site PROVE Stored(s)' = Stored(s)
    BY <2>1, <2>3 DEF WritesConfig, Stored
  <2> QED BY <2>1, <2>2, <2>3, WriterIsEntitled DEF Isolated, WritesConfig
<1>4. ASSUME NEW r \in Requests, Arrives(r) \/ Release(r) PROVE Isolated
  BY <1>4, QuietIsolated DEF Arrives, Extract, AuthorizePath, Release
<1>5. CASE Environment
  BY <1>5, QuietIsolated DEF Environment, CreateSite, UpdateSite, DeleteSite, Reload, Restart
<1>6. CASE UNCHANGED vars BY <1>6, QuietIsolated DEF vars, content
<1> QED BY <1>1, <1>2, <1>3, <1>4, <1>5, <1>6 DEF Next

\* What a tenant stores changes only for a request that named it, and beyond a view
\* counter only for one that brought its token or the operator's, never in open mode.
THEOREM TenantsIsolated == Spec => TenantIsolation
<1>1. IInv /\ [Next]_vars => [Isolated]_vars BY StepIsolated
<1> QED BY <1>1, ContentInit, ContentStep, PTL DEF Spec, TenantIsolation, Isolated

-----------------------------------------------------------------------------
(* What an answer can depend on *)

\* Two tables that agree on what x can find and on what it owns tell x the same.
LEMMA SameTold ==
    ASSUME NEW I, NEW x, NEW t1, NEW t2,
           \A slug \in Slugs : Shown(t1, x, slug) = Shown(t2, x, slug),
           \A all \in BOOLEAN : Listed(t1, x, all) = Listed(t2, x, all),
           CanWrite(x) => /\ Owned(t1, x) = Owned(t2, x)
                          /\ \A slug : Found(t1, x, slug) = Found(t2, x, slug)
    PROVE  Told(t1, I, x) = Told(t2, I, x)
<1>1. \A slug : CreateStatus(t1, x, slug) = CreateStatus(t2, x, slug) BY DEF CreateStatus
<1>2. \A i, slug : UpdateStatus(t1, x, i, slug) = UpdateStatus(t2, x, i, slug)
  BY DEF UpdateStatus
<1>3. \A i : DeleteStatus(t1, x, i) = DeleteStatus(t2, x, i) BY DEF DeleteStatus
<1>4. [slug \in Slugs |-> Shown(t1, x, slug)] = [slug \in Slugs |-> Shown(t2, x, slug)] OBVIOUS
<1>5. [all \in BOOLEAN |-> Listed(t1, x, all)] = [all \in BOOLEAN |-> Listed(t2, x, all)]
  OBVIOUS
<1>6. [slug \in Slugs \cup {Bad} |-> CreateStatus(t1, x, slug)]
        = [slug \in Slugs \cup {Bad} |-> CreateStatus(t2, x, slug)]
  BY <1>1
<1>7. [i \in I |-> [slug \in Slugs \cup {Bad, Keep} |-> UpdateStatus(t1, x, i, slug)]]
        = [i \in I |-> [slug \in Slugs \cup {Bad, Keep} |-> UpdateStatus(t2, x, i, slug)]]
  BY <1>2
<1>8. [i \in I |-> DeleteStatus(t1, x, i)] = [i \in I |-> DeleteStatus(t2, x, i)] BY <1>3
<1> QED BY <1>4, <1>5, <1>6, <1>7, <1>8 DEF Told

\* The rows of other tenants do not matter to x.
LEMMA OthersDoNotMatter ==
    ASSUME NEW I, NEW tab \in Tables(I), NEW x
    PROVE  Told(tab, I, x) = Told(Only(tab, Owned(tab, x)), I, x)
<1> DEFINE own == Only(tab, Owned(tab, x))
<1>1. DOMAIN own = Owned(tab, x) /\ \A i \in DOMAIN own : own[i] = tab[i]
      /\ Owned(tab, x) \subseteq DOMAIN tab
  BY DEF Only, Owned
<1>2. Owned(own, x) = Owned(tab, x) BY <1>1 DEF Owned
<1>3. ASSUME NEW slug PROVE Found(own, x, slug) = Found(tab, x, slug)
  BY <1>1 DEF Found, Owned
<1>4. ASSUME NEW slug PROVE Shown(own, x, slug) = Shown(tab, x, slug)
  BY <1>1, <1>3 DEF Shown, Found, Owned
<1>5. ASSUME NEW all PROVE Listed(own, x, all) = Listed(tab, x, all)
  BY <1>1, <1>2 DEF Listed
<1> QED BY <1>2, <1>3, <1>4, <1>5, SameTold

\* Drafts do not matter to an x that may not read them.
LEMMA DraftsDoNotMatter ==
    ASSUME NEW I, NEW tab \in Tables(I), NEW x, ~CanReadPrivate(x)
    PROVE  Told(tab, I, x) = Told(Published(tab), I, x)
<1> DEFINE pub == Published(tab)
<1>0. \A i \in DOMAIN tab : tab[i].draft \in BOOLEAN BY TableShape DEF Row
<1>1. DOMAIN pub = {i \in DOMAIN tab : ~tab[i].draft} /\ \A i \in DOMAIN pub : pub[i] = tab[i]
  BY DEF Published, Only
<1>2. ~CanWrite(x) BY DEF CanReadPrivate, CanWrite
<1>3. ASSUME NEW slug PROVE Shown(pub, x, slug) = Shown(tab, x, slug)
  BY <1>0, <1>1 DEF Shown, Found
<1>4. ASSUME NEW all PROVE Listed(pub, x, all) = Listed(tab, x, all)
  BY <1>0, <1>1 DEF Listed, Owned
<1> QED BY <1>2, <1>3, <1>4, SameTold

\* No answer betrays a row of another tenant.
THEOREM OthersStayInvisible == Spec => []OthersInvisible
<1>1. TypeOK => OthersInvisible BY OthersDoNotMatter DEF TypeOK, OthersInvisible
<1> QED BY <1>1, ContentTypeCorrect, PTL

\* No answer betrays a draft to a caller who may not read it.
THEOREM DraftsStayInvisible == Spec => []DraftsInvisible
<1>1. TypeOK => DraftsInvisible BY DraftsDoNotMatter DEF TypeOK, DraftsInvisible
<1> QED BY <1>1, ContentTypeCorrect, PTL

-----------------------------------------------------------------------------
(* Composition with the registry.  SiteRegistryProofs shows that to a reader *)
(* SiteRegistry is RegistryContract; here the contract takes the place of    *)
(* Environment.                                                              *)

VARIABLE past

Registry == INSTANCE RegistryContract WITH Entries <- BOOLEAN, NewEntries <- {TRUE}

Handling(r) ==
    Arrives(r) \/ Release(r) \/ PostHandlers(r) \/ ProductHandlers(r) \/ ConfigHandlers(r)

\* A step of the registry beside the content: a new process knows no request of the old
\* one, and the foreign keys let no owner of content go.
RegistryMoves ==
    /\ \/ Registry!Restart /\ ctx' = Empty
       \/ (Registry!Reload \/ \E s \in Sites : Registry!Change(s)) /\ UNCHANGED ctx
    /\ NoOrphans'
    /\ UNCHANGED content

Composed ==
    /\ Init /\ Registry!Init
    /\ [][(\E r \in Requests : Handling(r) /\ UNCHANGED past) \/ RegistryMoves]_<<vars, past>>

\* What the table has held is a registry, and in open mode it is the table.
PastShape ==
    /\ table \in Registries
    /\ past \subseteq Registries
    /\ open => past = {table}

\* A change of one site is the operator's creation, edit or deletion, or nothing.
LEMMA ChangeIsOperators ==
    ASSUME table \in Registries, NEW s \in Sites, Registry!Change(s), NoOrphans',
           UNCHANGED <<content, ctx>>
    PROVE  Environment \/ UNCHANGED vars
<1>1. /\ ~open /\ table' \in Registries /\ open' = open /\ cache' = cache
      /\ DOMAIN table \ {s} = DOMAIN table' \ {s}
      /\ \A x \in DOMAIN table \ {s} : table'[x] = table[x]
      /\ s \in DOMAIN table' \ DOMAIN table => table'[s] = TRUE
  BY DEF Registry!Change, Registry!Registries, Registries
<1>2. PICK S \in SUBSET Sites : table \in [S -> BOOLEAN] BY DEF Registries
<1>3. PICK T \in SUBSET Sites : table' \in [T -> BOOLEAN] BY <1>1 DEF Registries
<1>4. CASE s \in T
  <2>1. table' = Put(table, s, table'[s])
    <3>1. T = S \cup {s} BY <1>1, <1>2, <1>3, <1>4
    <3>2. \A x \in T : table'[x] = IF x = s THEN table'[s] ELSE table[x]
      BY <1>1, <1>2, <1>3
    <3> QED BY <1>2, <1>3, <3>1, <3>2 DEF Put
  <2>2. CASE s \in S
    <3>1. table'[s] \in BOOLEAN BY <1>3, <1>4
    <3>2. UpdateSite(s, table'[s]) BY <1>1, <1>2, <2>1, <2>2 DEF UpdateSite
    <3> QED BY <3>1, <3>2 DEF Environment
  <2>3. CASE s \notin S
    <3>1. table'[s] = TRUE BY <1>1, <1>2, <1>3, <1>4, <2>3
    <3>2. CreateSite(s) BY <1>1, <1>2, <2>1, <2>3, <3>1 DEF CreateSite
    <3> QED BY <3>2 DEF Environment
  <2> QED BY <2>2, <2>3
<1>5. CASE s \notin T
  <2>1. T = S \ {s} BY <1>1, <1>2, <1>3, <1>5
  <2>2. table' = Without(table, s) BY <1>1, <1>2, <1>3, <2>1 DEF Without
  <2>3. CASE s \in S
    <3>1. s \notin Owners(posts) \cup Owners(products) \cup DOMAIN docs
      BY <1>3, <1>5 DEF NoOrphans, Owners, content
    <3>2. DeleteSite(s) BY <1>1, <1>2, <2>2, <2>3, <3>1 DEF DeleteSite
    <3> QED BY <3>2 DEF Environment
  <2>4. CASE s \notin S
    <3>1. T = S BY <2>1, <2>4
    <3>2. table' = table BY <1>1, <1>2, <1>3, <2>4, <3>1
    <3> QED BY <1>1, <3>2 DEF vars, content
  <2> QED BY <2>3, <2>4
<1> QED BY <1>4, <1>5

\* Whatever the registry does is something that the model's Environment does.
LEMMA RegistryIsEnvironment ==
    ASSUME PastShape, RegistryMoves PROVE Environment \/ UNCHANGED vars
<1>1. CASE Registry!Restart /\ ctx' = Empty
  <2>1. Restart BY <1>1 DEF Registry!Restart, Restart, RegistryMoves
  <2> QED BY <2>1 DEF Environment
<1>2. CASE Registry!Reload /\ UNCHANGED ctx
  <2>1. cache' \in Loadable BY <1>2 DEF Registry!Reload, Loadable, PastShape
  <2>2. Reload BY <1>2, <2>1 DEF Registry!Reload, Reload, RegistryMoves
  <2> QED BY <2>2 DEF Environment
<1>3. ASSUME NEW s \in Sites, Registry!Change(s), UNCHANGED ctx
      PROVE  Environment \/ UNCHANGED vars
  BY <1>3, ChangeIsOperators DEF RegistryMoves, PastShape
<1> QED BY <1>1, <1>2, <1>3 DEF RegistryMoves

\* PastShape is inductive.
LEMMA PastStep ==
    ASSUME PastShape,
           \/ \E r \in Requests : Handling(r) /\ UNCHANGED past
           \/ RegistryMoves
           \/ UNCHANGED <<vars, past>>
    PROVE  PastShape'
<1>1. ASSUME NEW r \in Requests, Handling(r), UNCHANGED past PROVE PastShape'
  <2>1. UNCHANGED <<open, table>>
    BY <1>1 DEF Handling, Arrives, Extract, AuthorizePath, Release, PostHandlers, CreatePost,
                UpdatePost, DeletePost, ViewPost, ProductHandlers, CreateProduct,
                UpdateProduct, DeleteProduct, ViewProduct, ConfigHandlers, PutConfig,
                DeleteConfig, registry
  <2> QED BY <1>1, <2>1 DEF PastShape
<1>2. CASE RegistryMoves
  <2>1. CASE Registry!Restart BY <2>1 DEF Registry!Restart, PastShape
  <2>2. CASE Registry!Reload BY <2>2 DEF Registry!Reload, PastShape
  <2>3. ASSUME NEW s \in Sites, Registry!Change(s) PROVE PastShape'
    BY <2>3 DEF Registry!Change, Registry!Registries, Registries, PastShape
  <2> QED BY <1>2, <2>1, <2>2, <2>3 DEF RegistryMoves
<1>3. CASE UNCHANGED <<vars, past>> BY <1>3 DEF vars, PastShape
<1> QED BY <1>1, <1>2, <1>3

(* The content endpoints over any registry that keeps its contract are       *)
(* Content: tenancy, ownership and invisibility hold of the composed system. *)
THEOREM ContentOverRegistry == Composed => Spec
<1> DEFINE Move == (\E r \in Requests : Handling(r) /\ UNCHANGED past) \/ RegistryMoves
<1>1. Init /\ Registry!Init => PastShape
  <2> SUFFICES ASSUME Init, Registry!Init PROVE PastShape OBVIOUS
  <2>1. table \in [{} -> BOOLEAN] BY DEF Registry!Init
  <2> QED BY <2>1 DEF Registry!Init, PastShape, Registries
<1>2. PastShape /\ [Move]_<<vars, past>> => PastShape' BY PastStep
<1>3. PastShape /\ [Move]_<<vars, past>> => [Next]_vars
  <2>1. ASSUME NEW r \in Requests, Handling(r) PROVE Next BY <2>1 DEF Handling, Next
  <2>2. ASSUME PastShape, RegistryMoves PROVE Next \/ UNCHANGED vars
    BY <2>2, RegistryIsEnvironment DEF Next
  <2> QED BY <2>1, <2>2
<1> QED BY <1>1, <1>2, <1>3, PTL DEF Composed, Spec
=============================================================================
