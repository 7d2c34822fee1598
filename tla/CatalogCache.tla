---------------------------- MODULE CatalogCache ----------------------------
(***************************************************************************)
(* CatalogService and CatalogRepository: the price list in the database,   *)
(* the copy of it in Redis that GET /catalog serves, and the requests that *)
(* change the one and delete the other.  A request may be cut off at any   *)
(* point: its worker dies, or the database or Redis raises.                *)
(***************************************************************************)
EXTENDS Integers, Sequences

CONSTANTS
  Sessions,       \* the server's workers, one request each
  CategoryNames, ItemNames, Prices,
  MaxItems,       \* bound: rows of service_items
  NoCatalog       \* no copy in Redis

VARIABLES
  categories,  \* the names in the categories table; no request removes one
  items,       \* the service_items table, in the order of the inserts
  cached,      \* the key catalog:full in Redis
  session,     \* the request each worker is busy with
  outdated     \* history: the copy was read before a change it lacks, or the
               \* request that was to delete it was cut off

vars == <<categories, items, cached, session, outdated>>
-----------------------------------------------------------------------------
Items == [category : CategoryNames, name : ItemNames, price : Prices, active : BOOLEAN]

\* get_full_catalog, one SELECT: the categories with their active items.
Catalog ==
  [categories |-> categories,
   items |-> {items[i] : i \in {j \in DOMAIN items : items[j].active}}]

Catalogs == [categories : SUBSET CategoryNames, items : SUBSET Items]

Idle == [step |-> "idle"]

Requests ==
  {Idle, [step |-> "committed"]}
    \cup [step : {"adding category"}, name : CategoryNames]
    \cup [step : {"adding item"}, row : Items]
    \cup [step : {"checked", "updating"}, item : 1 .. MaxItems, row : Items, new : Items]
    \cup [step : {"removing"}, item : 1 .. MaxItems]
    \cup [step : {"missed"}]
    \cup [step : {"read"}, catalog : Catalogs]

TypeOK ==
  /\ categories \subseteq CategoryNames
  /\ items \in Seq(Items) /\ Len(items) <= MaxItems
  /\ cached = NoCatalog \/ cached \in [catalog : Catalogs, expires : BOOLEAN]
  /\ session \in [Sessions -> Requests]
  /\ outdated \in BOOLEAN

Init ==
  /\ categories = {}
  /\ items = << >>
  /\ cached = NoCatalog
  /\ session = [s \in Sessions |-> Idle]
  /\ outdated = FALSE
-----------------------------------------------------------------------------
Become(s, request) == session' = [session EXCEPT ![s] = request]

\* A check failed, a row is gone or a constraint refused the commit: an error
\* response, and nothing is changed.
Refuse(s) == Become(s, Idle) /\ UNCHANGED <<categories, items>>

\* uq_service_items_category_name, and get_item_by_name_in_category: a removed
\* item keeps its name.  An update may keep its own.
NameFree(row, except) ==
  \A i \in DOMAIN items \ except : <<items[i].category, items[i].name>> # <<row.category, row.name>>

\* Mutation: the whole row is written back.
WrittenWhole(row, loaded, new) == new

\* The unit of work writes the attributes that were changed, over the row as it
\* is by now.
Written(row, loaded, new) ==
  [a \in DOMAIN row |-> IF loaded[a] = new[a] THEN row[a] ELSE new[a]]

\* Mutation: a change does not delete the copy.
AfterChangeNothing(s) == Become(s, Idle)

\* A change is committed, and the worker goes on to _invalidate_cache.
AfterChange(s) == Become(s, [step |-> "committed"])
-----------------------------------------------------------------------------
\* add_category
AddCategoryCheck(s, name) ==
  /\ session[s] = Idle
  /\ name \notin categories
  /\ Become(s, [step |-> "adding category", name |-> name])
  /\ UNCHANGED <<categories, items, cached, outdated>>

AddCategoryCommit(s) ==
  /\ session[s].step = "adding category"
  /\ \/ /\ session[s].name \notin categories
        /\ categories' = categories \cup {session[s].name}
        /\ AfterChange(s)
        /\ UNCHANGED items
     \/ /\ session[s].name \in categories
        /\ Refuse(s)
  /\ UNCHANGED <<cached, outdated>>

\* add_item
AddItemCheck(s, category, name, price) ==
  LET row == [category |-> category, name |-> name, price |-> price, active |-> TRUE]
  IN  /\ session[s] = Idle
      /\ category \in categories
      /\ NameFree(row, {})
      /\ Become(s, [step |-> "adding item", row |-> row])
      /\ UNCHANGED <<categories, items, cached, outdated>>

AddItemCommit(s) ==
  /\ session[s].step = "adding item"
  /\ \/ /\ NameFree(session[s].row, {})
        /\ Len(items) < MaxItems
        /\ items' = Append(items, session[s].row)
        /\ AfterChange(s)
        /\ UNCHANGED categories
     \/ /\ ~NameFree(session[s].row, {})
        /\ Refuse(s)
  /\ UNCHANGED <<cached, outdated>>

\* update_item: the item is read, the new values are checked, the item is looked
\* up again, and what differs from the first read is written.
UpdateCheck(s, i, new) ==
  /\ session[s] = Idle
  /\ i \in DOMAIN items
  /\ items[i].active
  /\ new.category \in categories
  /\ NameFree(new, {i})
  /\ Become(s, [step |-> "checked", item |-> i, row |-> items[i], new |-> new])
  /\ UNCHANGED <<categories, items, cached, outdated>>

UpdateLoad(s) ==
  /\ session[s].step = "checked"
  /\ IF items[session[s].item].active
     THEN session' = [session EXCEPT ![s].step = "updating"]
     ELSE Become(s, Idle)
  /\ UNCHANGED <<categories, items, cached, outdated>>

UpdateCommit(s) ==
  /\ session[s].step = "updating"
  /\ LET i == session[s].item
         row == Written(items[i], session[s].row, session[s].new)
     IN  \/ /\ NameFree(row, {i})
            /\ items' = [items EXCEPT ![i] = row]
            /\ AfterChange(s)
            /\ UNCHANGED categories
         \/ /\ ~NameFree(row, {i})
            /\ Refuse(s)
  /\ UNCHANGED <<cached, outdated>>

\* remove_item, a soft delete.
RemoveLoad(s, i) ==
  /\ session[s] = Idle
  /\ i \in DOMAIN items
  /\ items[i].active
  /\ Become(s, [step |-> "removing", item |-> i])
  /\ UNCHANGED <<categories, items, cached, outdated>>

RemoveCommit(s) ==
  /\ session[s].step = "removing"
  /\ items' = [items EXCEPT ![session[s].item].active = FALSE]
  /\ AfterChange(s)
  /\ UNCHANGED <<categories, cached, outdated>>

\* _invalidate_cache: only catalog:full of its three keys is ever set.
Invalidate(s) ==
  /\ session[s].step = "committed"
  /\ cached' = NoCatalog
  /\ outdated' = FALSE
  /\ Become(s, Idle)
  /\ UNCHANGED <<categories, items>>
-----------------------------------------------------------------------------
\* fetch_full_catalog: a miss, the SELECT, and the copy for the next readers.
Miss(s) ==
  /\ session[s] = Idle
  /\ cached = NoCatalog
  /\ Become(s, [step |-> "missed"])
  /\ UNCHANGED <<categories, items, cached, outdated>>

Read(s) ==
  /\ session[s].step = "missed"
  /\ Become(s, [step |-> "read", catalog |-> Catalog])
  /\ UNCHANGED <<categories, items, cached, outdated>>

\* Mutation: the copy is set without a time to live.
SetExForGood(catalog) == [catalog |-> catalog, expires |-> FALSE]

SetEx(catalog) == [catalog |-> catalog, expires |-> TRUE]

Fill(s) ==
  /\ session[s].step = "read"
  /\ cached' = SetEx(session[s].catalog)
  /\ outdated' = (session[s].catalog # Catalog)
  /\ Become(s, Idle)
  /\ UNCHANGED <<categories, items>>

\* Redis drops the copy when its hour is over.
Expire ==
  /\ cached # NoCatalog
  /\ cached.expires
  /\ cached' = NoCatalog
  /\ outdated' = FALSE
  /\ UNCHANGED <<categories, items, session>>

\* The request is cut off.
Die(s) ==
  /\ session[s] # Idle
  /\ outdated' = (outdated \/ session[s].step = "committed")
  /\ Become(s, Idle)
  /\ UNCHANGED <<categories, items, cached>>

Next ==
  \/ \E s \in Sessions :
       \/ \E name \in CategoryNames : AddCategoryCheck(s, name)
       \/ \E category \in CategoryNames, name \in ItemNames, price \in Prices :
            AddItemCheck(s, category, name, price)
       \/ \E i \in 1 .. MaxItems, new \in Items : UpdateCheck(s, i, new)
       \/ \E i \in 1 .. MaxItems : RemoveLoad(s, i)
       \/ AddCategoryCommit(s) \/ AddItemCommit(s)
       \/ UpdateLoad(s) \/ UpdateCommit(s) \/ RemoveCommit(s)
       \/ Invalidate(s)
       \/ Miss(s) \/ Read(s) \/ Fill(s)
       \/ Die(s)
  \/ Expire

\* Redis expires every key that has a time to live.
Fairness == WF_vars(Expire)

Spec == Init /\ [][Next]_vars /\ Fairness
-----------------------------------------------------------------------------
\* Readers are served an old price list only while a change is between its
\* commit and its _invalidate_cache, or if the copy was read before a change and
\* set after it, or if a request was cut off before it could invalidate: never
\* because a change forgets the copy.
StaleNeedsRace ==
  cached # NoCatalog =>
    \/ cached.catalog = Catalog
    \/ outdated
    \/ \E s \in Sessions : session[s].step = "committed"

\* However a copy became stale, it does not stay: CATALOG_TTL ends it, if no
\* change does.
StaleExpires ==
  (cached # NoCatalog /\ cached.catalog # Catalog)
    ~> (cached = NoCatalog \/ cached.catalog = Catalog)

\* A removed item never returns to the price list; and it keeps its row, and so
\* blocks its old name, unless an update that had read it while it was on the
\* list commits after the removal: that update may rename it, and frees the name.
RemovedIsForever ==
  [][\A i \in DOMAIN items : ~items[i].active =>
       /\ ~items'[i].active
       /\ \/ items'[i] = items[i]
          \/ \E s \in Sessions :
               /\ session[s].step = "updating"
               /\ session[s].item = i
               /\ session[s].row.active
               /\ session'[s].step = "committed"]_vars
=============================================================================
