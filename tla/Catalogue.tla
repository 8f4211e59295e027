----------------------------- MODULE Catalogue -----------------------------
(***************************************************************************)
(* A product lives in Postgres, in the hot cache of Redis, and in the      *)
(* search index of Meilisearch.  Readers fill the cache; the admin's       *)
(* writes commit to Postgres, push the product to the index and evict it   *)
(* from the cache, one awaited call after the other; the reindex reads all *)
(* active products at once and pushes them in chunks.                      *)
(*                                                                         *)
(* Meilisearch answers a push as soon as it has queued it and works its    *)
(* queue off in order.  A document is the row it was built from; in_stock  *)
(* and the joined category are left out.                                   *)
(***************************************************************************)
EXTENDS Integers, Sequences, FiniteSets

CONSTANTS
  Products,     \* product ids
  Names,        \* values of the columns a PATCH sets, is_active apart
  Readers,      \* slots for GET /products/{id} that missed the cache
  Writers,      \* slots for POST, PATCH and DELETE of a product
  Jobs,         \* slots for reindex runs, by endpoint or by script
  Chunk,        \* how many documents a reindex pushes at a time
  MaxStarts,    \* how many writes and reindex runs there are (a bound)
  MaxFaults,    \* how many of them fail or die half way (a bound)
  Absent        \* no row, no key, no document

\* The columns of a product that the modelled requests tell apart.
Row == [name : Names, active : BOOLEAN]

ASSUME CatalogueAssumption ==
  /\ Absent \notin Row /\ Absent \notin Products
  /\ Chunk \in Nat \ {0} /\ MaxStarts \in Nat /\ MaxFaults \in Nat

VARIABLES
  db,         \* Postgres: the row of each product
  cache,      \* Redis hot:product:<id>
  queue,      \* Meilisearch: tasks it has accepted
  index,      \* Meilisearch: the products index
  reader,     \* readers between their SELECT and their SET
  writer,     \* where each write is, and its session's copy of the row
  job,        \* documents each reindex has still to push
  starts, faults,
  doubtful,   \* history: products whose last push overlapped others, or failed
  mayBeStale  \* history: products whose cache entry no pending DEL will remove

searchVars == <<queue, index, doubtful>>
cacheVars == <<cache, reader, mayBeStale>>
bounds == <<starts, faults>>
vars == <<db, searchVars, cacheVars, writer, job, bounds>>

Columns == {"name", "active"}

\* What a PATCH may set; DELETE sets active to FALSE.
Payloads ==
  {[name |-> n] : n \in Names} \cup {[active |-> b] : b \in BOOLEAN}
    \cup {[name |-> n, active |-> b] : n \in Names, b \in BOOLEAN}

\* What the index should hold of a row: soft-deleted products are not in it.
Doc(row) == IF row # Absent /\ row.active THEN row ELSE Absent

IdleReader == [at |-> "idle", product |-> Absent, row |-> Absent, overtaken |-> FALSE]

IdleWriter ==
  [at |-> "idle", product |-> Absent, row |-> Absent, changes |-> {},
   evicts |-> FALSE, clean |-> TRUE]

IdleJob == [at |-> "idle", docs |-> <<>>, clean |-> {}]

\* The seed script fills Postgres only; the first reindex is still to come.
Init ==
  /\ db \in [Products -> {Absent} \cup [name : Names, active : {TRUE}]]
  /\ cache = [p \in Products |-> Absent]
  /\ queue = <<>>
  /\ index = [p \in Products |-> Absent]
  /\ reader = [r \in Readers |-> IdleReader]
  /\ writer = [w \in Writers |-> IdleWriter]
  /\ job = [j \in Jobs |-> IdleJob]
  /\ starts = 0 /\ faults = 0
  /\ doubtful = {p \in Products : db[p] # Absent}
  /\ mayBeStale = {}

-----------------------------------------------------------------------------
(* GET /products/{id}                                                      *)

\* GET misses, or fails and is taken for a miss; a product that does not exist is
\* a 404 and caches nothing.  A hit changes nothing and is not an action.
Select(r, p) ==
  /\ reader[r].at = "idle"
  /\ db[p] # Absent
  /\ reader' = [reader EXCEPT ![r] =
       [at |-> "set", product |-> p, row |-> db[p], overtaken |-> FALSE]]
  /\ UNCHANGED <<db, searchVars, cache, mayBeStale, writer, job, bounds>>

\* Writers that have committed a change of p and will evict it.
Evicting(p) ==
  {w \in Writers : /\ writer[w].product = p /\ writer[w].evicts
                   /\ writer[w].at \in {"sync", "evict"}}

\* SET with the TTL.
SetCache(r) ==
  LET p == reader[r].product IN
  /\ reader[r].at = "set"
  /\ cache' = [cache EXCEPT ![p] = reader[r].row]
  /\ mayBeStale' = IF reader[r].overtaken /\ Evicting(p) = {}
                   THEN mayBeStale \cup {p} ELSE mayBeStale \ {p}
  /\ reader' = [reader EXCEPT ![r] = IdleReader]
  /\ UNCHANGED <<db, searchVars, writer, job, bounds>>

\* SET fails: logged, and the product is served all the same.
SetFails(r) ==
  /\ reader[r].at = "set"
  /\ reader' = [reader EXCEPT ![r] = IdleReader]
  /\ UNCHANGED <<db, searchVars, cache, mayBeStale, writer, job, bounds>>

\* Mutant: SET without ex.
NeverExpires(p) == FALSE /\ UNCHANGED vars

\* The TTL runs from the SET; hits do not renew it.
Expires(p) ==
  /\ cache[p] # Absent
  /\ cache' = [cache EXCEPT ![p] = Absent]
  /\ mayBeStale' = mayBeStale \ {p}
  /\ UNCHANGED <<db, searchVars, reader, writer, job, bounds>>

-----------------------------------------------------------------------------
(* POST, PATCH and DELETE                                                  *)

\* Others that have still to push a version of p they may already hold.
Pushing(p) == {w \in Writers : writer[w].product = p /\ writer[w].at \in {"commit", "sync"}}
Holding(p) == {j \in Jobs : p \in DOMAIN job[j].docs}

\* History: a writer that starts to work on p overlaps those.
Overlap(w, p, new) ==
  /\ writer' = [v \in Writers |->
       IF v = w THEN [new EXCEPT !.clean = (Pushing(p) = {} /\ Holding(p) = {})]
       ELSE IF v \in Pushing(p) THEN [writer[v] EXCEPT !.clean = FALSE] ELSE writer[v]]
  /\ job' = [j \in Jobs |-> [job[j] EXCEPT !.clean = @ \ {p}]]

Start ==
  /\ starts < MaxStarts
  /\ starts' = starts + 1

\* POST: the new row is committed, active; nothing can be cached of it yet.
Create(w, p, n) ==
  LET row == [name |-> n, active |-> TRUE] IN
  /\ writer[w].at = "idle" /\ db[p] = Absent
  /\ Start
  /\ db' = [db EXCEPT ![p] = row]
  /\ Overlap(w, p, [IdleWriter EXCEPT !.at = "sync", !.product = p, !.row = row])
  /\ UNCHANGED <<searchVars, cacheVars, faults>>

\* db.get and the assignments: the session's copy has the payload's values, and only
\* columns whose value differs will be in the UPDATE.
Load(w, p, u) ==
  LET row == [c \in Columns |-> IF c \in DOMAIN u THEN u[c] ELSE db[p][c]] IN
  /\ writer[w].at = "idle" /\ db[p] # Absent
  /\ Start
  /\ Overlap(w, p, [IdleWriter EXCEPT !.at = "commit", !.product = p, !.row = row,
                      !.evicts = TRUE, !.changes = {c \in Columns : row[c] # db[p][c]}])
  /\ UNCHANGED <<db, searchVars, cacheVars, faults>>

\* UPDATE of the changed columns and COMMIT.
Commit(w) ==
  LET p == writer[w].product
      row == [c \in Columns |-> IF c \in writer[w].changes THEN writer[w].row[c] ELSE db[p][c]]
  IN /\ writer[w].at = "commit"
     /\ db' = [db EXCEPT ![p] = row]
     /\ writer' = [writer EXCEPT ![w].at = "sync", ![w].changes = {}]
     /\ reader' = [r \in Readers |->
          IF reader[r].product = p /\ row # db[p]
          THEN [reader[r] EXCEPT !.overtaken = TRUE] ELSE reader[r]]
     /\ UNCHANGED <<searchVars, cache, mayBeStale, job, bounds>>

\* History: the push of writer w is the last one for its product.
Pushed(w) ==
  doubtful' = IF writer[w].clean THEN doubtful \ {writer[w].product}
              ELSE doubtful \cup {writer[w].product}

\* What is left to do after the push: PATCH and DELETE evict, POST is over.
Synced(w) ==
  IF writer[w].evicts
  THEN [IdleWriter EXCEPT !.at = "evict", !.product = writer[w].product, !.evicts = TRUE]
  ELSE IdleWriter

\* Mutant: soft-deleted products are pushed like any other.
SyncIgnoresActive(w) ==
  LET p == writer[w].product IN
  /\ writer[w].at = "sync"
  /\ queue' = Append(queue, [by |-> Absent, docs |-> [q \in {p} |-> writer[w].row]])
  /\ Pushed(w)
  /\ writer' = [writer EXCEPT ![w] = Synced(w)]
  /\ UNCHANGED <<db, index, cacheVars, job, bounds>>

\* _sync_to_search: the SELECT finds the product in the session's identity map, so
\* what is pushed, or deleted, is the session's copy and not the row.
Sync(w) ==
  LET p == writer[w].product IN
  /\ writer[w].at = "sync"
  /\ queue' = Append(queue, [by |-> Absent, docs |-> [q \in {p} |-> Doc(writer[w].row)]])
  /\ Pushed(w)
  /\ writer' = [writer EXCEPT ![w] = Synced(w)]
  /\ UNCHANGED <<db, index, cacheVars, job, bounds>>

\* Mutant: the handler forgets the cache.
EvictNothing(w) ==
  /\ writer[w].at = "evict"
  /\ mayBeStale' = mayBeStale \ {writer[w].product}
  /\ writer' = [writer EXCEPT ![w] = IdleWriter]
  /\ UNCHANGED <<db, searchVars, cache, reader, job, bounds>>

\* DEL of the cache key.
Evict(w) ==
  LET p == writer[w].product IN
  /\ writer[w].at = "evict"
  /\ cache' = [cache EXCEPT ![p] = Absent]
  /\ mayBeStale' = mayBeStale \ {p}
  /\ writer' = [writer EXCEPT ![w] = IdleWriter]
  /\ UNCHANGED <<db, searchVars, reader, job, bounds>>

Fault ==
  /\ faults < MaxFaults
  /\ faults' = faults + 1

\* The transaction fails; the push raises and ends the request before the cache is
\* evicted, though the task may have been queued; the DEL fails, which is only
\* logged; or the API dies on the way.
WriteBreaksOff(w) ==
  LET p == writer[w].product IN
  /\ writer[w].at # "idle"
  /\ Fault
  /\ \/ UNCHANGED queue
     \/ /\ writer[w].at = "sync"
        /\ queue' = Append(queue, [by |-> Absent, docs |-> [q \in {p} |-> Doc(writer[w].row)]])
  /\ doubtful' = IF writer[w].at = "sync" THEN doubtful \cup {p} ELSE doubtful
  /\ mayBeStale' = IF Evicting(p) = {w}
                   THEN mayBeStale \cup {p} ELSE mayBeStale
  /\ writer' = [writer EXCEPT ![w] = IdleWriter]
  /\ UNCHANGED <<db, index, cache, reader, job, starts>>

-----------------------------------------------------------------------------
(* The reindex, and Meilisearch                                            *)

\* SELECT of the active products.
ReindexSelect(j) ==
  LET live == {p \in Products : Doc(db[p]) # Absent} IN
  /\ job[j].at = "idle"
  /\ Start
  /\ job' = [i \in Jobs |->
       IF i = j THEN [at |-> "push", docs |-> [p \in live |-> db[p]],
                      clean |-> {p \in live : Pushing(p) = {} /\ Holding(p) = {}}]
       ELSE [job[i] EXCEPT !.clean = @ \ live]]
  /\ writer' = [w \in Writers |->
       IF writer[w].product \in live THEN [writer[w] EXCEPT !.clean = FALSE] ELSE writer[w]]
  /\ UNCHANGED <<db, searchVars, cacheVars, faults>>

\* Pushes the next chunk.
ReindexPush(j) ==
  /\ job[j].at = "push"
  /\ \E chunk \in SUBSET DOMAIN job[j].docs :
       /\ chunk # {} /\ Cardinality(chunk) <= Chunk
       /\ Cardinality(chunk) = Chunk \/ chunk = DOMAIN job[j].docs
       /\ queue' = Append(queue, [by |-> j, docs |-> [p \in chunk |-> job[j].docs[p]]])
       /\ doubtful' = (doubtful \ (chunk \cap job[j].clean)) \cup (chunk \ job[j].clean)
       /\ job' = [job EXCEPT ![j] =
            [at |-> "wait", docs |-> [p \in DOMAIN @.docs \ chunk |-> @.docs[p]],
             clean |-> @.clean \ chunk]]
  /\ UNCHANGED <<db, index, cacheVars, writer, bounds>>

\* The task of the chunk is done: on to the next one.
ReindexWait(j) ==
  /\ job[j].at = "wait"
  /\ \A i \in 1 .. Len(queue) : queue[i].by # j
  /\ job' = [job EXCEPT ![j].at = "push"]
  /\ UNCHANGED <<db, searchVars, cacheVars, writer, bounds>>

ReindexDone(j) ==
  /\ job[j].at = "push" /\ DOMAIN job[j].docs = {}
  /\ job' = [job EXCEPT ![j] = IdleJob]
  /\ UNCHANGED <<db, searchVars, cacheVars, writer, bounds>>

\* A wait times out, a push raises, or the API dies with its background task.
ReindexBreaksOff(j) ==
  /\ job[j].at # "idle"
  /\ Fault
  /\ job' = [job EXCEPT ![j] = IdleJob]
  /\ UNCHANGED <<db, searchVars, cacheVars, writer, starts>>

\* Meilisearch works off the oldest task: documents are added, replaced or deleted.
WorkOff ==
  /\ queue # <<>>
  /\ LET docs == Head(queue).docs IN
       index' = [p \in Products |-> IF p \in DOMAIN docs THEN docs[p] ELSE index[p]]
  /\ queue' = Tail(queue)
  /\ UNCHANGED <<db, doubtful, cacheVars, writer, job, bounds>>

-----------------------------------------------------------------------------
Read(r) == (\E p \in Products : Select(r, p)) \/ SetCache(r) \/ SetFails(r)

Write(w) ==
  \/ \E p \in Products, n \in Names : Create(w, p, n)
  \/ \E p \in Products, u \in Payloads : Load(w, p, u)
  \/ Commit(w)
  \/ Sync(w)
  \/ Evict(w)
  \/ WriteBreaksOff(w)

Reindex(j) ==
  \/ ReindexSelect(j)
  \/ ReindexPush(j)
  \/ ReindexWait(j)
  \/ ReindexDone(j)
  \/ ReindexBreaksOff(j)

Next ==
  \/ \E r \in Readers : Read(r)
  \/ \E w \in Writers : Write(w)
  \/ \E j \in Jobs : Reindex(j)
  \/ \E p \in Products : Expires(p)
  \/ WorkOff

\* Redis expires every entry in the end; whether requests go on is left open.
Fairness == \A p \in Products : WF_vars(Expires(p))

Spec == Init /\ [][Next]_vars /\ Fairness

-----------------------------------------------------------------------------
(* Properties                                                              *)

\* "Writes (PATCH / DELETE) invalidate the key explicitly so a stale entry can't
\* outlive its underlying row" holds but for two cases: the write broke off before
\* its DEL, or a reader that had read the old row stored it after the DEL.
StaleOnlyByRace ==
  \A p \in Products :
    cache[p] # Absent /\ cache[p] # db[p]
      => Evicting(p) # {} \/ p \in mayBeStale

\* Once writes stop, no stale entry comes back for good, however reads, failures and
\* evictions interleaved before: the TTL outlasts no fill for ever.
CacheConverges == \A p \in Products : <>[](cache[p] \in {Absent, db[p]})

Quiet ==
  /\ queue = <<>>
  /\ \A w \in Writers : writer[w].at \notin {"commit", "sync"}
  /\ \A j \in Jobs : job[j].at = "idle"

\* At rest the index holds the row of every active product and nothing of the others,
\* through reindex runs, tasks queued behind each other and failures, unless the last
\* push of the product failed or overlapped another write or reindex of it.
SearchAgrees ==
  Quiet => \A p \in Products \ doubtful : index[p] = Doc(db[p])
=============================================================================
