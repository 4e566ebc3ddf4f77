------------------------------ MODULE Content ------------------------------
(***************************************************************************)
(* Tenant content: blog posts (server/src/blog.rs), products (products.rs) *)
(* and site configurations (site_config.rs), with the authorization that   *)
(* decides who may see and change them (auth.rs).                          *)
(*                                                                         *)
(* A request is authorized against the registry snapshot first (Extract,   *)
(* AuthorizePath) and runs its SQL statement later: the body is still being *)
(* received and a connection acquired in between, so the snapshot, the     *)
(* tables and the registry may all have changed by then.                   *)
(*                                                                         *)
(* The registry is SiteRegistry's, seen from here: which sites are         *)
(* registered and active, and a snapshot of that.  A token is named by the *)
(* site it was made for (TokenNeverCrossesTenant there).                   *)
(***************************************************************************)
EXTENDS Integers

CONSTANTS Sites,        \* site ids
          PostIds,      \* uuids of blog posts
          ProductIds,   \* uuids of products
          Slugs,        \* valid slugs
          Bad,          \* a body the handler refuses: bad slug, empty title, price < 0, ...
          Keep,         \* a field that a PATCH omits
          Docs,         \* configuration documents
          Requests,     \* slots for concurrent requests
          Operator,     \* the ADMIN_TOKEN, and its scope
          Anonymous,    \* no usable token, and its scope
          Unconfigured, \* the scope of everybody in open mode
          MaxViews      \* bound on a view counter

ASSUME ScopesDistinct ==
    /\ {Operator, Anonymous, Unconfigured} \cap Sites = {}
    /\ Operator # Anonymous /\ Operator # Unconfigured /\ Anonymous # Unconfigured
ASSUME BodiesDistinct == Bad # Keep /\ {Bad, Keep} \cap Slugs = {} /\ Keep \notin BOOLEAN
ASSUME MaxViewsNat == MaxViews \in Nat

Bearers    == Sites \cup {Operator, Anonymous}
Scopes     == Bearers \cup {Unconfigured}
Row        == [site : Sites, slug : Slugs, draft : BOOLEAN, views : 0..MaxViews]
Tables(I)  == UNION {[J -> Row] : J \in SUBSET I}
Registries == UNION {[S -> BOOLEAN] : S \in SUBSET Sites}

\* What a handler holds of a request: its SiteScope, or the path segment and scope of
\* the site_config handlers, and (history) the token it came with.
Context == [bearer : Bearers, scope : Scopes, site : Sites, via : {"query", "path"}]

VARIABLES
    open,       \* AppState.open_mode
    table,      \* the sites table: the registered sites, and whether they are active
    cache,      \* the snapshot of it behind SiteCache
    posts,      \* blog_posts, by id
    products,   \* products, by id
    docs,       \* site_config, by site
    ctx         \* the authorized requests whose statement has not run, by slot

registry == <<open, table, cache>>
content  == <<posts, products, docs>>
vars     == <<open, table, cache, posts, products, docs, ctx>>

TypeOK ==
    /\ open \in BOOLEAN
    /\ table \in Registries
    /\ cache \in Registries
    /\ posts \in Tables(PostIds)
    /\ products \in Tables(ProductIds)
    /\ docs \in UNION {[S -> Docs] : S \in SUBSET Sites}
    /\ ctx \in UNION {[R -> Context] : R \in SUBSET Requests}

Empty == [i \in {} |-> FALSE]

Put(f, k, v)   == [x \in DOMAIN f \cup {k} |-> IF x = k THEN v ELSE f[x]]
Without(f, k)  == [x \in DOMAIN f \ {k} |-> f[x]]

Init ==
    /\ open \in BOOLEAN
    /\ table = Empty
    /\ cache = Empty
    /\ posts = Empty
    /\ products = Empty
    /\ docs = Empty
    /\ ctx = Empty

-----------------------------------------------------------------------------
(* Authorization *)

Active(reg) == {s \in DOMAIN reg : reg[s]}

\* Registry::is_active: an empty registry admits every site.
IsActive(s) == DOMAIN cache = {} \/ s \in Active(cache)

\* resolve_scope.  The token of a suspended site is an unrecognized one.
ScopeOf(b) == IF open THEN Unconfigured
              ELSE IF b \in {Operator} \cup Active(cache) THEN b ELSE Anonymous

Covers(scope, s) == scope \in {Unconfigured, Operator, Anonymous, s}

CanReadPrivate(x) == x.scope \in {Unconfigured, Operator, x.site}

\* Variants, not the code: definitions named X_Y are slips in X that the checks must
\* notice (PROJECT.json, "mutants").
CanWrite_OpenMode(x) == x.scope \in {Unconfigured, Operator, x.site}

CanWrite(x) == x.scope \in {Operator, x.site}

Begin(r, x) == r \in Requests \ DOMAIN ctx /\ ctx' = Put(ctx, r, x)
Answered(r) == ctx' = Without(ctx, r)

\* SiteScope::from_request_parts; a refusal (400, 403) leaves no trace.
Extract(r, b, s) ==
    /\ Covers(ScopeOf(b), s)
    /\ IsActive(s)
    /\ Begin(r, [bearer |-> b, scope |-> ScopeOf(b), site |-> s, via |-> "query"])
    /\ UNCHANGED <<registry, content>>

\* The site_config writers authorize against the path: no admission check.
AuthorizePath(r, b, s) ==
    LET x == [bearer |-> b, scope |-> ScopeOf(b), site |-> s, via |-> "path"]
    IN  /\ CanWrite(x)
        /\ Begin(r, x)
        /\ UNCHANGED <<registry, content>>

\* A request whose answer changes nothing: a read (its answer is Shown or Listed), or a
\* request that the TimeoutLayer or its client dropped before its statement ran.
Release(r) ==
    /\ r \in DOMAIN ctx
    /\ Answered(r)
    /\ UNCHANGED <<registry, content>>

-----------------------------------------------------------------------------
(* The statements, on the table tab for the request x.  Posts and products   *)
(* have the same ones.                                                       *)

Found_AnySite(tab, x, slug) == {i \in DOMAIN tab : tab[i].slug = slug}

Found(tab, x, slug) == {i \in DOMAIN tab : tab[i].site = x.site /\ tab[i].slug = slug}

Owned_ById(tab, x) == DOMAIN tab

Owned(tab, x) == {i \in DOMAIN tab : tab[i].site = x.site}

\* GET by slug: the row found and shown, nothing for a 404.
Shown(tab, x, slug) ==
    {i \in Found(tab, x, slug) : tab[i].draft => CanReadPrivate(x)}

Listed_OnRequest(tab, x, all) == {i \in Owned(tab, x) : tab[i].draft => all}

\* GET of the list: `status=all` asks for the drafts too.
Listed(tab, x, all) ==
    {i \in Owned(tab, x) : tab[i].draft => (all /\ CanReadPrivate(x))}

CreateStatus_NoForeignKey(tab, x, slug) ==
    IF ~CanWrite(x) THEN 401
    ELSE IF slug = Bad THEN 400
    ELSE IF Found(tab, x, slug) # {} THEN 409 ELSE 201

\* POST: checks first, then the unique (site_id, slug) and the foreign key decide.
CreateStatus(tab, x, slug) ==
    IF ~CanWrite(x) THEN 401
    ELSE IF slug = Bad THEN 400
    ELSE IF Found(tab, x, slug) # {} THEN 409
    ELSE IF x.site \notin DOMAIN table THEN 400 ELSE 201

Created(tab, x, i, slug, draft) ==
    IF CreateStatus(tab, x, slug) = 201
    THEN Put(tab, i, [site |-> x.site, slug |-> slug, draft |-> draft, views |-> 0])
    ELSE tab

UpdateStatus_NoUnique(tab, x, i, slug) ==
    IF ~CanWrite(x) THEN 401
    ELSE IF slug = Bad THEN 400
    ELSE IF i \notin Owned(tab, x) THEN 404 ELSE 200

\* PATCH: an id of another tenant is no id at all.
UpdateStatus(tab, x, i, slug) ==
    IF ~CanWrite(x) THEN 401
    ELSE IF slug = Bad THEN 400
    ELSE IF i \notin Owned(tab, x) THEN 404
    ELSE IF Found(tab, x, slug) \ {i} # {} THEN 409 ELSE 200

Updated(tab, x, i, slug, draft) ==
    IF UpdateStatus(tab, x, i, slug) = 200
    THEN [tab EXCEPT ![i].slug = IF slug = Keep THEN @ ELSE slug,
                     ![i].draft = IF draft = Keep THEN @ ELSE draft]
    ELSE tab

DeleteStatus(tab, x, i) ==
    IF ~CanWrite(x) THEN 401 ELSE IF i \notin Owned(tab, x) THEN 404 ELSE 204

Deleted(tab, x, i) == IF DeleteStatus(tab, x, i) = 204 THEN Without(tab, i) ELSE tab

\* The view ping, always 204, of a published row.
Viewed(tab, x, slug) ==
    [i \in DOMAIN tab |-> IF i \in Found(tab, x, slug) /\ ~tab[i].draft
                          THEN [tab[i] EXCEPT !.views = @ + 1] ELSE tab[i]]

\* No counter of tab is at the bound.
Room(tab) == \A i \in DOMAIN tab : tab[i].views < MaxViews

-----------------------------------------------------------------------------
(* The handlers that change content *)

Queried(r) == r \in DOMAIN ctx /\ ctx[r].via = "query"

CreatePost(r, slug, draft) ==
    /\ Queried(r)
    /\ \E i \in PostIds \ DOMAIN posts : posts' = Created(posts, ctx[r], i, slug, draft)
    /\ Answered(r)
    /\ UNCHANGED <<registry, products, docs>>

UpdatePost(r, i, slug, draft) ==
    /\ Queried(r)
    /\ posts' = Updated(posts, ctx[r], i, slug, draft)
    /\ Answered(r)
    /\ UNCHANGED <<registry, products, docs>>

DeletePost(r, i) ==
    /\ Queried(r)
    /\ posts' = Deleted(posts, ctx[r], i)
    /\ Answered(r)
    /\ UNCHANGED <<registry, products, docs>>

ViewPost(r, slug) ==
    /\ Queried(r)
    /\ Room(posts)
    /\ posts' = Viewed(posts, ctx[r], slug)
    /\ Answered(r)
    /\ UNCHANGED <<registry, products, docs>>

CreateProduct(r, slug, draft) ==
    /\ Queried(r)
    /\ \E i \in ProductIds \ DOMAIN products :
           products' = Created(products, ctx[r], i, slug, draft)
    /\ Answered(r)
    /\ UNCHANGED <<registry, posts, docs>>

UpdateProduct(r, i, slug, draft) ==
    /\ Queried(r)
    /\ products' = Updated(products, ctx[r], i, slug, draft)
    /\ Answered(r)
    /\ UNCHANGED <<registry, posts, docs>>

DeleteProduct(r, i) ==
    /\ Queried(r)
    /\ products' = Deleted(products, ctx[r], i)
    /\ Answered(r)
    /\ UNCHANGED <<registry, posts, docs>>

ViewProduct(r, slug) ==
    /\ Queried(r)
    /\ Room(products)
    /\ products' = Viewed(products, ctx[r], slug)
    /\ Answered(r)
    /\ UNCHANGED <<registry, posts, docs>>

Pathed(r) == r \in DOMAIN ctx /\ ctx[r].via = "path"

\* PUT: the upsert, or a 400 from the foreign key.
PutConfig(r, d) ==
    /\ Pathed(r)
    /\ docs' = IF ctx[r].site \in DOMAIN table THEN Put(docs, ctx[r].site, d) ELSE docs
    /\ Answered(r)
    /\ UNCHANGED <<registry, posts, products>>

DeleteConfig(r) ==
    /\ Pathed(r)
    /\ docs' = Without(docs, ctx[r].site)
    /\ Answered(r)
    /\ UNCHANGED <<registry, posts, products>>

-----------------------------------------------------------------------------
(* The registry and the process around the handlers.  How reloads overlap,   *)
(* fail and lag is SiteRegistry's subject; what comes of it is here (proved  *)
(* in SiteRegistryProofs and ContentProofs, by way of RegistryContract).     *)

Owners(tab) == {tab[i].site : i \in DOMAIN tab}

CreateSite(s) ==
    /\ ~open
    /\ s \in Sites \ DOMAIN table
    /\ table' = Put(table, s, TRUE)
    /\ UNCHANGED <<open, cache, content, ctx>>

UpdateSite(s, active) ==
    /\ ~open
    /\ s \in DOMAIN table
    /\ table' = Put(table, s, active)
    /\ UNCHANGED <<open, cache, content, ctx>>

DeleteSite_PostsOnly(s) ==
    /\ ~open
    /\ s \in DOMAIN table \ Owners(posts)
    /\ table' = Without(table, s)
    /\ UNCHANGED <<open, cache, content, ctx>>

\* ON DELETE RESTRICT: a tenant that still owns content stays (409).
DeleteSite(s) ==
    /\ ~open
    /\ s \in DOMAIN table \ (Owners(posts) \cup Owners(products) \cup DOMAIN docs)
    /\ table' = Without(table, s)
    /\ UNCHANGED <<open, cache, content, ctx>>

\* What a SELECT of this life of the process can have read: in open mode, in which nobody
\* changes the table, nothing but the table; else any content that it can have had.
Loadable == IF open THEN {table} ELSE Registries

\* A reload installs what its SELECT has read, however long ago.
Reload ==
    /\ cache' \in Loadable
    /\ UNCHANGED <<open, table, content, ctx>>

\* The process ends and starts again, with or without an ADMIN_TOKEN.
Restart ==
    /\ open' \in BOOLEAN
    /\ cache' = table
    /\ ctx' = Empty
    /\ UNCHANGED <<table, content>>

-----------------------------------------------------------------------------
Arrives(r) ==
    \E b \in Bearers, s \in Sites : Extract(r, b, s) \/ AuthorizePath(r, b, s)

PostHandlers(r) ==
    \/ \E slug \in Slugs \cup {Bad}, draft \in BOOLEAN : CreatePost(r, slug, draft)
    \/ \E i \in PostIds, slug \in Slugs \cup {Bad, Keep}, draft \in BOOLEAN \cup {Keep} :
           UpdatePost(r, i, slug, draft)
    \/ \E i \in PostIds : DeletePost(r, i)
    \/ \E slug \in Slugs : ViewPost(r, slug)

ProductHandlers(r) ==
    \/ \E slug \in Slugs \cup {Bad}, draft \in BOOLEAN : CreateProduct(r, slug, draft)
    \/ \E i \in ProductIds, slug \in Slugs \cup {Bad, Keep}, draft \in BOOLEAN \cup {Keep} :
           UpdateProduct(r, i, slug, draft)
    \/ \E i \in ProductIds : DeleteProduct(r, i)
    \/ \E slug \in Slugs : ViewProduct(r, slug)

ConfigHandlers(r) == DeleteConfig(r) \/ \E d \in Docs : PutConfig(r, d)

Environment ==
    \/ \E s \in Sites : CreateSite(s) \/ DeleteSite(s)
    \/ \E s \in Sites, active \in BOOLEAN : UpdateSite(s, active)
    \/ Reload
    \/ Restart

Next ==
    \/ \E r \in Requests :
           Arrives(r) \/ Release(r) \/ PostHandlers(r) \/ ProductHandlers(r) \/ ConfigHandlers(r)
    \/ Environment

Spec == Init /\ [][Next]_vars

-----------------------------------------------------------------------------
(* Properties *)

\* Content belongs to a registered tenant, however creation, the stale snapshot and
\* the removal of tenants interleave (migration 0001, blog.rs:278-282).
NoOrphans == Owners(posts) \cup Owners(products) \cup DOMAIN docs \subseteq DOMAIN table

OneRowPer(tab) ==
    \A i, j \in DOMAIN tab : tab[i].site = tab[j].site /\ tab[i].slug = tab[j].slug => i = j

\* A public address of a tenant names one row, through creations and renames
\* (migration 0001, `UNIQUE (site_id, slug)`).
OneRowPerSlug == OneRowPer(posts) /\ OneRowPer(products)

\* What the tenant s has stored, with the view counters and without them.
Rows(tab, s)   == [i \in {j \in DOMAIN tab : tab[j].site = s} |-> tab[i]]
Stored(s)      == <<Rows(posts, s), Rows(products, s), {docs[x] : x \in DOMAIN docs \cap {s}}>>
Edited(tab, s) == {<<i, tab[i].slug, tab[i].draft>> : i \in {j \in DOMAIN tab : tab[j].site = s}}
Written(s)     == <<Edited(posts, s), Edited(products, s), {docs[x] : x \in DOMAIN docs \cap {s}}>>

\* "Two independent gates, both mandatory" (blog.rs:19-22): what a tenant stores changes
\* only by the statement of a request for that tenant, and but for a view counter only if
\* the request came with the tenant's own token or the operator's, in open mode never.
TenantIsolation ==
    [][\A s \in Sites : Stored(s)' # Stored(s) =>
          \E r \in DOMAIN ctx \ DOMAIN ctx' :
              /\ ctx[r].site = s
              /\ Written(s)' # Written(s) => ~open /\ ctx[r].bearer \in {Operator, s}]_vars

\* Everything the content endpoints may tell the caller x about the table tab, whose ids
\* are in ids.
Told(tab, ids, x) ==
    <<[slug \in Slugs |-> Shown(tab, x, slug)],
      [all \in BOOLEAN |-> Listed(tab, x, all)],
      [slug \in Slugs \cup {Bad} |-> CreateStatus(tab, x, slug)],
      [i \in ids |-> [slug \in Slugs \cup {Bad, Keep} |-> UpdateStatus(tab, x, i, slug)]],
      [i \in ids |-> DeleteStatus(tab, x, i)]>>

Only(tab, I) == [i \in I |-> tab[i]]

\* "The response must not confirm that the id exists under some other tenant"
\* (blog.rs:299-302): no answer depends on a row of another tenant.
OthersInvisible ==
    \A r \in DOMAIN ctx :
        LET x == ctx[r]
        IN  /\ Told(posts, PostIds, x) = Told(Only(posts, Owned(posts, x)), PostIds, x)
            /\ Told(products, ProductIds, x)
                 = Told(Only(products, Owned(products, x)), ProductIds, x)

Published(tab) == Only(tab, {i \in DOMAIN tab : ~tab[i].draft})

\* Whoever may not read a tenant's private content gets the answers of a server without
\* drafts: not even the total of a list or a conflict betrays one (blog.rs:145-146).
DraftsInvisible ==
    \A r \in DOMAIN ctx :
        LET x == ctx[r]
        IN  ~CanReadPrivate(x) =>
                /\ Told(posts, PostIds, x) = Told(Published(posts), PostIds, x)
                /\ Told(products, ProductIds, x) = Told(Published(products), ProductIds, x)
-----------------------------------------------------------------------------
(* The inductive invariant behind the properties (proved in ContentProofs)   *)

\* A request in flight has the scope its token had under some snapshot: its own, or
\* none; and the site_config writers have been authorized.
ScopesHonest ==
    \A r \in DOMAIN ctx :
        LET x == ctx[r]
        IN  /\ IF open THEN x.scope = Unconfigured ELSE x.scope \in {x.bearer, Anonymous}
            /\ x.via = "path" => CanWrite(x)

IInv == TypeOK /\ NoOrphans /\ OneRowPerSlug /\ ScopesHonest
=============================================================================
