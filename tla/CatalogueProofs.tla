-------------------------- MODULE CatalogueProofs --------------------------
(***************************************************************************)
(* What holds of the hot cache and of the search index for any number of   *)
(* products, readers, writers, reindex runs and failures.                  *)
(***************************************************************************)
EXTENDS Catalogue, SequenceTheorems, TLAPS

-----------------------------------------------------------------------------
(* The invariants.                                                         *)

MaybeRow == Row \cup {Absent}

Docs == UNION {[S -> MaybeRow] : S \in SUBSET Products}

Task == [by : Jobs \cup {Absent}, docs : Docs]

Reading == [at : {"idle", "set"}, product : Products \cup {Absent}, row : MaybeRow,
            overtaken : BOOLEAN]

Writing == [at : {"idle", "commit", "sync", "evict"}, product : Products \cup {Absent},
            row : MaybeRow, changes : SUBSET Columns, evicts : BOOLEAN, clean : BOOLEAN]

Indexing == [at : {"idle", "push", "wait"}, docs : Docs, clean : SUBSET Products]

CatTypeOK ==
  /\ db \in [Products -> MaybeRow]
  /\ cache \in [Products -> MaybeRow]
  /\ queue \in Seq(Task)
  /\ index \in [Products -> MaybeRow]
  /\ reader \in [Readers -> Reading]
  /\ writer \in [Writers -> Writing]
  /\ job \in [Jobs -> Indexing]
  /\ doubtful \subseteq Products
  /\ mayBeStale \subseteq Products

\* A busy writer has a row of its product, which exists; only PATCH and DELETE commit.
WriterOK(w) ==
  /\ writer[w].at # "idle" => writer[w].product \in Products /\ db[writer[w].product] # Absent
  /\ writer[w].at \in {"commit", "sync"} => writer[w].row \in Row
  /\ writer[w].at = "commit" => writer[w].evicts

\* A reader that no commit has overtaken holds the row as it is.
ReaderOK(r) ==
  reader[r].at = "set" =>
    /\ reader[r].product \in Products /\ db[reader[r].product] # Absent
    /\ reader[r].overtaken \/ reader[r].row = db[reader[r].product]

StaleInv ==
  /\ \A w \in Writers : WriterOK(w)
  /\ \A r \in Readers : ReaderOK(r)
  /\ \A p \in Products : db[p] = Absent => cache[p] = Absent
  /\ StaleOnlyByRace

\* Once the queue is worked off, the index holds d of product p.
LastPush(p, d) ==
  \/ /\ index[p] = d
     /\ \A i \in 1 .. Len(queue) : p \notin DOMAIN queue[i].docs
  \/ \E i \in 1 .. Len(queue) :
       /\ p \in DOMAIN queue[i].docs /\ queue[i].docs[p] = d
       /\ \A k \in i + 1 .. Len(queue) : p \notin DOMAIN queue[k].docs

\* The clean one among several is alone with its product and has its row.
CleanWriter(w) ==
  (writer[w].at \in {"commit", "sync"} /\ writer[w].clean) =>
    /\ Pushing(writer[w].product) = {w}
    /\ \A j \in Jobs : writer[w].product \notin job[j].clean
    /\ writer[w].at = "sync" => writer[w].row = db[writer[w].product]
    /\ \A c \in Columns \ writer[w].changes :
         writer[w].row[c] = db[writer[w].product][c]

CleanJob(j) ==
  \A p \in job[j].clean :
    /\ Pushing(p) = {}
    /\ p \in DOMAIN job[j].docs /\ job[j].docs[p] = db[p] /\ Doc(db[p]) = db[p]

Syncing(p) == {w \in Writers : writer[w].product = p /\ writer[w].at = "sync"}

PushInv ==
  /\ \A w \in Writers : CleanWriter(w)
  /\ \A j \in Jobs : CleanJob(j)
  /\ \A p \in Products \ doubtful : Syncing(p) = {} => LastPush(p, Doc(db[p]))


-----------------------------------------------------------------------------
(* Type correctness.                                                       *)

LEMMA DocsOf == ASSUME NEW S \in SUBSET Products PROVE [S -> MaybeRow] \subseteq Docs
  BY DEF Docs

LEMMA DocsAre ==
  ASSUME NEW f \in Docs
  PROVE  DOMAIN f \subseteq Products /\ f \in [DOMAIN f -> MaybeRow]
<1>1. PICK S \in SUBSET Products : f \in [S -> MaybeRow]
  BY Zenon DEF Docs
<1> QED
  BY <1>1

LEMMA NoDocs == <<>> \in Docs /\ DOMAIN <<>> = {}
<1>1. <<>> \in Seq(MaybeRow) /\ Len(<<>>) = 0
  BY EmptySeq
<1>2. <<>> \in [{} -> MaybeRow]
  BY <1>1, LenProperties
<1> QED
  BY <1>2, DocsOf

LEMMA IdleTypes == IdleReader \in Reading /\ IdleWriter \in Writing /\ IdleJob \in Indexing
  BY NoDocs DEF IdleReader, Reading, IdleWriter, Writing, IdleJob, Indexing, MaybeRow

LEMMA DocType == ASSUME NEW row \in MaybeRow PROVE Doc(row) \in MaybeRow
  BY DEF Doc, MaybeRow

LEMMA CatTypeInit == Init => CatTypeOK
<1> SUFFICES ASSUME Init PROVE CatTypeOK
  OBVIOUS
<1>1. [name : Names, active : {TRUE}] \subseteq Row
  BY DEF Row
<1>2. queue \in Seq(Task)
  BY EmptySeq DEF Init
<1> QED
  BY <1>1, <1>2, IdleTypes DEF Init, CatTypeOK, MaybeRow

\* The task that pushes what writer w has of its product.
PushTask(w) ==
  [by |-> Absent, docs |-> [q \in {writer[w].product} |-> Doc(writer[w].row)]]

LEMMA PushTaskType ==
  ASSUME CatTypeOK, NEW w \in Writers, writer[w].product \in Products
  PROVE  PushTask(w) \in Task
<1>1. Doc(writer[w].row) \in MaybeRow
  BY DocType DEF CatTypeOK, Writing
<1>2. [q \in {writer[w].product} |-> Doc(writer[w].row)] \in [{writer[w].product} -> MaybeRow]
  BY <1>1
<1>3. [q \in {writer[w].product} |-> Doc(writer[w].row)] \in Docs
  BY <1>2, DocsOf
<1> QED
  BY <1>3 DEF PushTask, Task

\* Two states of a writer that differ in its history only.
Alike(x, y) ==
  /\ x.at = y.at /\ x.product = y.product /\ x.row = y.row
  /\ x.changes = y.changes /\ x.evicts = y.evicts

LEMMA WriterMarked ==
  ASSUME NEW x \in Writing, NEW b \in BOOLEAN
  PROVE  /\ [x EXCEPT !.clean = b] \in Writing
         /\ Alike([x EXCEPT !.clean = b], x)
         /\ [x EXCEPT !.clean = b].clean = b
BY DEF Writing, Alike

LEMMA JobMarked ==
  ASSUME NEW x \in Indexing, NEW S PROVE [x EXCEPT !.clean = @ \ S] \in Indexing
BY DEF Indexing

LEMMA OverlapType ==
  ASSUME CatTypeOK, NEW w \in Writers, NEW p \in Products, NEW new \in Writing,
         Overlap(w, p, new)
  PROVE  writer' \in [Writers -> Writing] /\ job' \in [Jobs -> Indexing]
<1>1. [new EXCEPT !.clean = (Pushing(p) = {} /\ Holding(p) = {})] \in Writing
  BY WriterMarked
<1>2. \A v \in Writers : [writer[v] EXCEPT !.clean = FALSE] \in Writing
  BY WriterMarked DEF CatTypeOK
<1>3. \A j \in Jobs : [job[j] EXCEPT !.clean = @ \ {p}] \in Indexing
  BY JobMarked DEF CatTypeOK
<1>4. \A v \in Writers : writer[v] \in Writing
  BY DEF CatTypeOK
<1> QED
  BY <1>1, <1>2, <1>3, <1>4 DEF Overlap

LEMMA LoadedRow ==
  ASSUME NEW old \in Row, NEW u \in Payloads
  PROVE  [c \in Columns |-> IF c \in DOMAIN u THEN u[c] ELSE old[c]] \in Row
BY DEF Columns, Payloads, Row

LEMMA MergedRow ==
  ASSUME NEW old \in Row, NEW new \in Row, NEW changes \in SUBSET Columns
  PROVE  [c \in Columns |-> IF c \in changes THEN new[c] ELSE old[c]] \in Row
BY DEF Columns, Row

LEMMA CatTypeStep == CatTypeOK /\ StaleInv /\ [Next]_vars => CatTypeOK'
<1> SUFFICES ASSUME CatTypeOK, StaleInv, [Next]_vars PROVE CatTypeOK'
  OBVIOUS
<1> USE DEF searchVars, cacheVars, bounds
<1>1. CASE UNCHANGED vars
  BY <1>1 DEF vars, CatTypeOK
<1>2. ASSUME NEW r \in Readers, NEW p \in Products, Select(r, p) PROVE CatTypeOK'
  BY <1>2 DEF Select, CatTypeOK, Reading
<1>3. ASSUME NEW r \in Readers, SetCache(r) \/ SetFails(r) PROVE CatTypeOK'
  <2>1. reader[r].product \in Products /\ reader[r].row \in MaybeRow
    BY <1>3 DEF SetCache, SetFails, StaleInv, ReaderOK, CatTypeOK, Reading
  <2>2. reader' \in [Readers -> Reading]
    BY <1>3, IdleTypes DEF SetCache, SetFails, CatTypeOK
  <2>3. cache' \in [Products -> MaybeRow] /\ mayBeStale' \subseteq Products
    BY <1>3, <2>1 DEF SetCache, SetFails, CatTypeOK
  <2> QED
    BY <1>3, <2>2, <2>3 DEF SetCache, SetFails, CatTypeOK
<1>4. ASSUME NEW p \in Products, Expires(p) PROVE CatTypeOK'
  BY <1>4 DEF Expires, CatTypeOK, MaybeRow
<1>5. ASSUME NEW w \in Writers, NEW p \in Products, NEW n \in Names, Create(w, p, n)
      PROVE  CatTypeOK'
  <2>1. [name |-> n, active |-> TRUE] \in Row
    BY DEF Row
  <2>2. [IdleWriter EXCEPT !.at = "sync", !.product = p,
                           !.row = [name |-> n, active |-> TRUE]] \in Writing
    BY <2>1, IdleTypes DEF Writing, MaybeRow
  <2>3. db' \in [Products -> MaybeRow]
    BY <1>5, <2>1 DEF Create, CatTypeOK, MaybeRow
  <2> QED
    BY <1>5, <2>2, <2>3, OverlapType DEF Create, CatTypeOK
<1>6. ASSUME NEW w \in Writers, NEW p \in Products, NEW u \in Payloads, Load(w, p, u)
      PROVE  CatTypeOK'
  <2> DEFINE row == [c \in Columns |-> IF c \in DOMAIN u THEN u[c] ELSE db[p][c]]
  <2>1. row \in Row
    BY <1>6, LoadedRow DEF Load, CatTypeOK, MaybeRow
  <2> HIDE DEF row
  <2>2. [IdleWriter EXCEPT !.at = "commit", !.product = p, !.row = row, !.evicts = TRUE,
                           !.changes = {c \in Columns : row[c] # db[p][c]}] \in Writing
    BY <2>1, IdleTypes DEF Writing, MaybeRow
  <2>3. Overlap(w, p, [IdleWriter EXCEPT !.at = "commit", !.product = p, !.row = row,
                   !.evicts = TRUE, !.changes = {c \in Columns : row[c] # db[p][c]}])
    BY <1>6 DEF Load, row
  <2> QED
    BY <1>6, <2>2, <2>3, OverlapType DEF Load, CatTypeOK
<1>7. ASSUME NEW w \in Writers, Commit(w) PROVE CatTypeOK'
  <2> DEFINE p == writer[w].product
             row == [c \in Columns |-> IF c \in writer[w].changes THEN writer[w].row[c] ELSE db[p][c]]
  <2>1. p \in Products /\ db[p] \in Row /\ writer[w].row \in Row
    BY <1>7 DEF Commit, StaleInv, WriterOK, CatTypeOK, MaybeRow
  <2>2. row \in Row
    <3>1. writer[w].changes \in SUBSET Columns
      BY DEF CatTypeOK, Writing
    <3> QED
      BY <2>1, <3>1, MergedRow
  <2>3. db' = [db EXCEPT ![p] = row]
    BY <1>7 DEF Commit
  <2> HIDE DEF row
  <2>4. db' \in [Products -> MaybeRow]
    BY <2>2, <2>3 DEF CatTypeOK, MaybeRow
  <2>5. writer' \in [Writers -> Writing]
    <3>1. [writer[w] EXCEPT !.at = "sync", !.changes = {}] \in Writing
      BY DEF CatTypeOK, Writing
    <3>2. writer' = [writer EXCEPT ![w] = [writer[w] EXCEPT !.at = "sync", !.changes = {}]]
      BY <1>7 DEF Commit, CatTypeOK
    <3> QED
      BY <3>1, <3>2 DEF CatTypeOK
  <2>6. reader' \in [Readers -> Reading]
    <3>1. \A r \in Readers : [reader[r] EXCEPT !.overtaken = TRUE] \in Reading
      BY DEF CatTypeOK, Reading
    <3> QED
      BY <1>7, <3>1 DEF Commit, CatTypeOK
  <2> QED
    BY <1>7, <2>4, <2>5, <2>6 DEF Commit, CatTypeOK
<1>8. ASSUME NEW w \in Writers, Sync(w) PROVE CatTypeOK'
  <2>1. writer[w].product \in Products /\ PushTask(w) \in Task
    BY <1>8, PushTaskType DEF Sync, StaleInv, WriterOK
  <2>2. queue' = Append(queue, PushTask(w))
    BY <1>8 DEF Sync, PushTask
  <2>3. queue' \in Seq(Task)
    BY <2>1, <2>2, AppendProperties DEF CatTypeOK
  <2>4. Synced(w) \in Writing
    BY <2>1, IdleTypes DEF Synced, Writing
  <2> QED
    BY <1>8, <2>1, <2>3, <2>4 DEF Sync, Pushed, CatTypeOK
<1>9. ASSUME NEW w \in Writers, Evict(w) PROVE CatTypeOK'
  BY <1>9, IdleTypes DEF Evict, CatTypeOK, MaybeRow
<1>10. ASSUME NEW w \in Writers, WriteBreaksOff(w) PROVE CatTypeOK'
  <2>1. writer[w].product \in Products /\ PushTask(w) \in Task
    BY <1>10, PushTaskType DEF WriteBreaksOff, StaleInv, WriterOK
  <2>2. queue' = queue \/ queue' = Append(queue, PushTask(w))
    BY <1>10 DEF WriteBreaksOff, PushTask
  <2>3. queue' \in Seq(Task)
    BY <2>1, <2>2, AppendProperties DEF CatTypeOK
  <2> QED
    BY <1>10, <2>1, <2>3, IdleTypes DEF WriteBreaksOff, CatTypeOK
<1>11. ASSUME NEW j \in Jobs, ReindexSelect(j) PROVE CatTypeOK'
  <2> DEFINE live == {p \in Products : Doc(db[p]) # Absent}
  <2>1. [p \in live |-> db[p]] \in Docs
    <3>1. [p \in live |-> db[p]] \in [live -> MaybeRow]
      BY DEF CatTypeOK
    <3> QED
      BY <3>1, DocsOf
  <2>2. [at |-> "push", docs |-> [p \in live |-> db[p]],
         clean |-> {p \in live : Pushing(p) = {} /\ Holding(p) = {}}] \in Indexing
    BY <2>1 DEF Indexing
  <2>3. \A i \in Jobs : [job[i] EXCEPT !.clean = @ \ live] \in Indexing
    BY JobMarked DEF CatTypeOK
  <2>4. \A w \in Writers : [writer[w] EXCEPT !.clean = FALSE] \in Writing
    BY WriterMarked DEF CatTypeOK
  <2>5. job' \in [Jobs -> Indexing]
    BY <1>11, <2>2, <2>3 DEF ReindexSelect
  <2>6. writer' \in [Writers -> Writing]
    BY <1>11, <2>4 DEF ReindexSelect, CatTypeOK
  <2> QED
    BY <1>11, <2>5, <2>6 DEF ReindexSelect, CatTypeOK
<1>12. ASSUME NEW j \in Jobs, ReindexPush(j) PROVE CatTypeOK'
  <2>1. PICK chunk \in SUBSET DOMAIN job[j].docs :
          /\ queue' = Append(queue, [by |-> j, docs |-> [p \in chunk |-> job[j].docs[p]]])
          /\ doubtful' = (doubtful \ (chunk \cap job[j].clean)) \cup (chunk \ job[j].clean)
          /\ job' = [job EXCEPT ![j] =
               [at |-> "wait", docs |-> [p \in DOMAIN @.docs \ chunk |-> @.docs[p]],
                clean |-> @.clean \ chunk]]
    BY <1>12 DEF ReindexPush
  <2>2. job[j].docs \in Docs /\ job[j].clean \subseteq Products
    BY DEF CatTypeOK, Indexing
  <2>3. job[j].docs \in [DOMAIN job[j].docs -> MaybeRow] /\ DOMAIN job[j].docs \subseteq Products
    BY <2>2, DocsAre
  <2>4. \A S \in SUBSET DOMAIN job[j].docs : [p \in S |-> job[j].docs[p]] \in Docs
    <3> TAKE S \in SUBSET DOMAIN job[j].docs
    <3>1. [p \in S |-> job[j].docs[p]] \in [S -> MaybeRow]
      BY <2>3
    <3> QED
      BY <2>3, <3>1, DocsOf
  <2>5. queue' \in Seq(Task)
    <3>1. [by |-> j, docs |-> [p \in chunk |-> job[j].docs[p]]] \in Task
      BY <2>4 DEF Task
    <3> QED
      BY <2>1, <3>1, AppendProperties DEF CatTypeOK
  <2>6. job' \in [Jobs -> Indexing]
    BY <2>1, <2>2, <2>4 DEF CatTypeOK, Indexing
  <2>7. doubtful' \subseteq Products
    BY <2>1, <2>3 DEF CatTypeOK
  <2> QED
    BY <1>12, <2>5, <2>6, <2>7 DEF ReindexPush, CatTypeOK
<1>13. ASSUME NEW j \in Jobs, ReindexWait(j) \/ ReindexDone(j) \/ ReindexBreaksOff(j)
       PROVE  CatTypeOK'
  <2>1. job' \in [Jobs -> Indexing]
    BY <1>13, IdleTypes DEF ReindexWait, ReindexDone, ReindexBreaksOff, CatTypeOK, Indexing
  <2> QED
    BY <1>13, <2>1 DEF ReindexWait, ReindexDone, ReindexBreaksOff, CatTypeOK
<1>14. CASE WorkOff
  <2>1. Head(queue) \in Task /\ Tail(queue) \in Seq(Task)
    BY <1>14, HeadTailProperties DEF WorkOff, CatTypeOK
  <2>2. Head(queue).docs \in [DOMAIN Head(queue).docs -> MaybeRow]
    BY <2>1, DocsAre DEF Task
  <2>3. index' \in [Products -> MaybeRow]
    BY <1>14, <2>2 DEF WorkOff, CatTypeOK
  <2> QED
    BY <1>14, <2>1, <2>3 DEF WorkOff, CatTypeOK
<1> QED
  BY <1>1, <1>2, <1>3, <1>4, <1>5, <1>6, <1>7, <1>8, <1>9, <1>10, <1>11, <1>12, <1>13, <1>14
  DEF Next, Read, Write, Reindex

-----------------------------------------------------------------------------
(* Stale cache entries.                                                    *)

LEMMA OverlapEffect ==
  ASSUME CatTypeOK, NEW w \in Writers, NEW p \in Products, NEW new \in Writing,
         Overlap(w, p, new)
  PROVE  Alike(writer'[w], new) /\ \A v \in Writers \ {w} : Alike(writer'[v], writer[v])
<1>1. writer'[w] = [new EXCEPT !.clean = (Pushing(p) = {} /\ Holding(p) = {})]
  BY DEF Overlap
<1>2. \A v \in Writers \ {w} :
        writer'[v] = writer[v] \/ writer'[v] = [writer[v] EXCEPT !.clean = FALSE]
  BY DEF Overlap
<1>3. Alike(writer'[w], new)
  BY <1>1, WriterMarked
<1>4. ASSUME NEW v \in Writers \ {w} PROVE Alike(writer'[v], writer[v])
  <2>1. writer[v] \in Writing
    BY DEF CatTypeOK
  <2> QED
    BY <1>2, <2>1, WriterMarked, ZenonT(40) DEF Alike
<1> QED
  BY <1>3, <1>4

\* A step that changes no row, no cache entry and no reader, and writers in their
\* history only, keeps StaleInv.
LEMMA StaleKept ==
  ASSUME StaleInv, UNCHANGED <<db, cache, reader, mayBeStale>>,
         \A w \in Writers : Alike(writer'[w], writer[w])
  PROVE  StaleInv'
<1>1. \A w \in Writers : WriterOK(w)'
  BY DEF StaleInv, WriterOK, Alike
<1>2. \A r \in Readers : ReaderOK(r)'
  BY DEF StaleInv, ReaderOK
<1>3. \A p \in Products : Evicting(p)' = Evicting(p)
  BY DEF Evicting, Alike
<1> QED
  BY <1>1, <1>2, <1>3 DEF StaleInv, StaleOnlyByRace

LEMMA StaleStart ==
  ASSUME CatTypeOK, StaleInv, NEW w \in Writers, NEW p \in Products, writer[w].at = "idle",
         NEW new \in Writing, Overlap(w, p, new), new.product = p, new.row \in Row,
         new.at = "commit" => new.evicts,
         UNCHANGED <<cache, reader, mayBeStale>>,
         \/ UNCHANGED db /\ db[p] # Absent
         \/ db[p] = Absent /\ \E row \in Row : db' = [db EXCEPT ![p] = row]
  PROVE  StaleInv'
<1>1. Alike(writer'[w], new) /\ \A v \in Writers \ {w} : Alike(writer'[v], writer[v])
  BY OverlapEffect
<1>2. /\ \A q \in Products \ {p} : db'[q] = db[q]
      /\ db'[p] # Absent
      /\ db[p] # Absent => db'[p] = db[p]
  BY CatalogueAssumption DEF CatTypeOK
<1>3. \A v \in Writers : WriterOK(v)'
  BY <1>1, <1>2 DEF StaleInv, WriterOK, Alike
<1>4. \A r \in Readers : ReaderOK(r)'
  BY <1>2 DEF StaleInv, ReaderOK
<1>5. \A q \in Products : Evicting(q) \subseteq Evicting(q)'
  BY <1>1 DEF Evicting, Alike
<1> QED
  BY <1>2, <1>3, <1>4, <1>5 DEF StaleInv, StaleOnlyByRace

LEMMA StaleStep == CatTypeOK /\ StaleInv /\ [Next]_vars => StaleInv'
<1> SUFFICES ASSUME CatTypeOK, StaleInv, [Next]_vars PROVE StaleInv'
  OBVIOUS
<1> USE DEF searchVars, cacheVars, bounds
<1>1. ASSUME UNCHANGED <<db, writer, cache, reader, mayBeStale>> PROVE StaleInv'
  BY <1>1, StaleKept DEF Alike
<1>2. ASSUME NEW r \in Readers, NEW p \in Products, Select(r, p) PROVE StaleInv'
  <2>1. /\ reader'[r] = [at |-> "set", product |-> p, row |-> db[p], overtaken |-> FALSE]
        /\ \A s \in Readers \ {r} : reader'[s] = reader[s]
    BY <1>2 DEF Select, CatTypeOK
  <2>2. \A s \in Readers : ReaderOK(s)'
    BY <1>2, <2>1 DEF Select, StaleInv, ReaderOK
  <2> QED
    BY <1>2, <2>2 DEF Select, StaleInv, WriterOK, StaleOnlyByRace, Evicting
<1>3. ASSUME NEW r \in Readers, SetCache(r) \/ SetFails(r) PROVE StaleInv'
  <2> DEFINE p == reader[r].product
  <2>1. UNCHANGED <<db, writer>>
    BY <1>3 DEF SetCache, SetFails
  <2>2. \A s \in Readers : ReaderOK(s)'
    <3>1. /\ reader'[r] = IdleReader
          /\ \A s \in Readers \ {r} : reader'[s] = reader[s]
      BY <1>3 DEF SetCache, SetFails, CatTypeOK
    <3> QED
      BY <2>1, <3>1 DEF StaleInv, ReaderOK, IdleReader
  <2>3. \A w \in Writers : WriterOK(w)'
    BY <2>1 DEF StaleInv, WriterOK
  <2>4. \A q \in Products : Evicting(q)' = Evicting(q)
    BY <2>1 DEF Evicting
  <2>5. CASE SetFails(r)
    BY <2>1, <2>2, <2>3, <2>4, <2>5 DEF SetFails, StaleInv, StaleOnlyByRace
  <2>6. CASE SetCache(r)
    <3>1. p \in Products /\ db[p] # Absent /\ (reader[r].overtaken \/ reader[r].row = db[p])
      BY <2>6 DEF SetCache, StaleInv, ReaderOK
    <3>2. /\ cache' = [cache EXCEPT ![p] = reader[r].row]
          /\ mayBeStale' = IF reader[r].overtaken /\ Evicting(p) = {}
                           THEN mayBeStale \cup {p} ELSE mayBeStale \ {p}
      BY <2>6 DEF SetCache
    <3>3. \A q \in Products \ {p} : cache'[q] = cache[q] /\ (q \in mayBeStale => q \in mayBeStale')
      BY <3>2 DEF CatTypeOK
    <3>4. cache'[p] = db[p] \/ Evicting(p) # {} \/ p \in mayBeStale'
      BY <3>1, <3>2 DEF CatTypeOK
    <3> HIDE DEF p
    <3> QED
      BY <2>1, <2>2, <2>3, <2>4, <3>1, <3>3, <3>4 DEF StaleInv, StaleOnlyByRace
  <2> QED
    BY <1>3, <2>5, <2>6
<1>4. ASSUME NEW p \in Products, Expires(p) PROVE StaleInv'
  <2>1. /\ cache'[p] = Absent
        /\ \A q \in Products \ {p} : cache'[q] = cache[q] /\ (q \in mayBeStale => q \in mayBeStale')
    BY <1>4 DEF Expires, CatTypeOK
  <2> QED
    BY <1>4, <2>1 DEF Expires, StaleInv, StaleOnlyByRace, WriterOK, ReaderOK, Evicting
<1>5. ASSUME NEW w \in Writers, NEW p \in Products, NEW n \in Names, Create(w, p, n)
      PROVE  StaleInv'
  <2>1. [name |-> n, active |-> TRUE] \in Row
    BY DEF Row
  <2>2. [IdleWriter EXCEPT !.at = "sync", !.product = p,
                           !.row = [name |-> n, active |-> TRUE]] \in Writing
    BY <2>1, IdleTypes DEF Writing, MaybeRow
  <2> QED
    BY <1>5, <2>1, <2>2, StaleStart DEF Create, IdleWriter
<1>6. ASSUME NEW w \in Writers, NEW p \in Products, NEW u \in Payloads, Load(w, p, u)
      PROVE  StaleInv'
  <2> DEFINE row == [c \in Columns |-> IF c \in DOMAIN u THEN u[c] ELSE db[p][c]]
             new == [IdleWriter EXCEPT !.at = "commit", !.product = p, !.row = row,
                       !.evicts = TRUE, !.changes = {c \in Columns : row[c] # db[p][c]}]
  <2>1. row \in Row
    BY <1>6, LoadedRow DEF Load, CatTypeOK, MaybeRow
  <2>2. Overlap(w, p, new)
    BY <1>6 DEF Load
  <2> HIDE DEF row
  <2>3. new \in Writing /\ new.product = p /\ new.row = row /\ new.evicts
    BY <2>1, IdleTypes DEF Writing, MaybeRow, IdleWriter
  <2> HIDE DEF new
  <2> QED
    BY <1>6, <2>1, <2>2, <2>3, StaleStart DEF Load
<1>7. ASSUME NEW w \in Writers, Commit(w) PROVE StaleInv'
  <2> DEFINE p == writer[w].product
             row == [c \in Columns |-> IF c \in writer[w].changes THEN writer[w].row[c] ELSE db[p][c]]
  <2>1. p \in Products /\ db[p] \in Row /\ writer[w].row \in Row /\ writer[w].evicts
    BY <1>7 DEF Commit, StaleInv, WriterOK, CatTypeOK, MaybeRow
  <2>2. row \in Row
    <3>1. writer[w].changes \in SUBSET Columns
      BY DEF CatTypeOK, Writing
    <3> QED
      BY <2>1, <3>1, MergedRow
  <2>3. /\ db' = [db EXCEPT ![p] = row]
        /\ reader' = [r \in Readers |->
             IF reader[r].product = p /\ row # db[p]
             THEN [reader[r] EXCEPT !.overtaken = TRUE] ELSE reader[r]]
        /\ UNCHANGED <<cache, mayBeStale>>
    BY <1>7 DEF Commit
  <2>4. writer' = [writer EXCEPT ![w].at = "sync", ![w].changes = {}]
    BY <1>7 DEF Commit
  <2> HIDE DEF row
  <2>5. db'[p] = row /\ row # Absent /\ \A q \in Products \ {p} : db'[q] = db[q]
    BY <2>1, <2>2, <2>3, CatalogueAssumption DEF CatTypeOK
  <2>6. /\ writer'[w].at = "sync" /\ writer'[w].product = p
        /\ writer'[w].row = writer[w].row /\ writer'[w].evicts
        /\ \A v \in Writers \ {w} : writer'[v] = writer[v]
    BY <2>1, <2>4 DEF CatTypeOK, Writing
  <2>7. \A v \in Writers : WriterOK(v)'
    BY <2>1, <2>5, <2>6 DEF StaleInv, WriterOK
  <2>8. \A r \in Readers :
          /\ reader'[r].at = reader[r].at /\ reader'[r].product = reader[r].product
          /\ reader'[r].row = reader[r].row
          /\ reader'[r].overtaken \/ reader'[r] = reader[r]
          /\ reader[r].product = p /\ row # db[p] => reader'[r].overtaken
    BY <2>3 DEF CatTypeOK, Reading
  <2>9. \A r \in Readers : ReaderOK(r)'
    BY <2>1, <2>5, <2>8 DEF StaleInv, ReaderOK
  <2>10. \A q \in Products : Evicting(q) \subseteq Evicting(q)' /\ (q = p => Evicting(q)' # {})
    BY <1>7, <2>6 DEF Evicting, Commit
  <2>11. UNCHANGED <<cache, mayBeStale>>
    BY <2>3
  <2> HIDE DEF p
  <2>12. StaleOnlyByRace'
    BY <2>5, <2>10, <2>11 DEF StaleInv, StaleOnlyByRace
  <2>13. \A q \in Products : db'[q] = Absent => cache'[q] = Absent
    BY <2>5, <2>11 DEF StaleInv
  <2> QED
    BY <2>7, <2>9, <2>12, <2>13 DEF StaleInv
<1>8. ASSUME NEW w \in Writers, Sync(w) PROVE StaleInv'
  <2>1. /\ UNCHANGED <<db, cache, reader, mayBeStale>>
        /\ writer'[w] = Synced(w) /\ \A v \in Writers \ {w} : writer'[v] = writer[v]
    BY <1>8 DEF Sync, CatTypeOK
  <2>2. \A v \in Writers : WriterOK(v)'
    BY <1>8, <2>1 DEF StaleInv, WriterOK, Sync, Synced, IdleWriter
  <2>3. \A q \in Products : Evicting(q) = Evicting(q)'
    BY <1>8, <2>1 DEF Evicting, Sync, Synced, IdleWriter
  <2> QED
    BY <2>1, <2>2, <2>3 DEF StaleInv, StaleOnlyByRace, ReaderOK
<1>9. ASSUME NEW w \in Writers, Evict(w) PROVE StaleInv'
  <2> DEFINE p == writer[w].product
  <2>1. p \in Products
    BY <1>9 DEF Evict, StaleInv, WriterOK
  <2>2. /\ UNCHANGED <<db, reader>>
        /\ cache'[p] = Absent
        /\ \A q \in Products \ {p} : cache'[q] = cache[q] /\ (q \in mayBeStale => q \in mayBeStale')
    BY <1>9, <2>1 DEF Evict, CatTypeOK
  <2>3. writer'[w] = IdleWriter /\ \A v \in Writers \ {w} : writer'[v] = writer[v]
    BY <1>9 DEF Evict, CatTypeOK
  <2>4. \A v \in Writers : WriterOK(v)'
    BY <2>2, <2>3 DEF StaleInv, WriterOK, IdleWriter
  <2>5. \A q \in Products \ {p} : Evicting(q) = Evicting(q)'
    BY <2>3, CatalogueAssumption DEF Evicting, IdleWriter
  <2> HIDE DEF p
  <2> QED
    BY <2>1, <2>2, <2>4, <2>5 DEF StaleInv, StaleOnlyByRace, ReaderOK
<1>10. ASSUME NEW w \in Writers, WriteBreaksOff(w) PROVE StaleInv'
  <2> DEFINE p == writer[w].product
  <2>1. p \in Products
    BY <1>10 DEF WriteBreaksOff, StaleInv, WriterOK
  <2>2. /\ UNCHANGED <<db, cache, reader>>
        /\ mayBeStale' = IF Evicting(p) = {w} THEN mayBeStale \cup {p} ELSE mayBeStale
    BY <1>10 DEF WriteBreaksOff
  <2>3. writer'[w] = IdleWriter /\ \A v \in Writers \ {w} : writer'[v] = writer[v]
    BY <1>10 DEF WriteBreaksOff, CatTypeOK
  <2>4. \A v \in Writers : WriterOK(v)'
    BY <2>2, <2>3 DEF StaleInv, WriterOK, IdleWriter
  <2>5. \A q \in Products : Evicting(q)' = Evicting(q) \ {w}
    BY <2>3 DEF Evicting, IdleWriter
  <2>6. \A q \in Products \ {p} : w \notin Evicting(q)
    BY DEF Evicting
  <2>7. \A r \in Readers : ReaderOK(r)'
    BY <2>2 DEF StaleInv, ReaderOK
  <2> HIDE DEF p
  <2> QED
    BY <2>1, <2>2, <2>4, <2>5, <2>6, <2>7 DEF StaleInv, StaleOnlyByRace
<1>11. ASSUME NEW j \in Jobs, ReindexSelect(j) PROVE StaleInv'
  <2>1. \A w \in Writers : Alike(writer'[w], writer[w])
    BY <1>11 DEF ReindexSelect, Alike, CatTypeOK, Writing
  <2> QED
    BY <1>11, <2>1, StaleKept DEF ReindexSelect
<1>12. ASSUME NEW j \in Jobs,
              ReindexPush(j) \/ ReindexWait(j) \/ ReindexDone(j) \/ ReindexBreaksOff(j)
       PROVE  StaleInv'
  BY <1>1, <1>12 DEF ReindexPush, ReindexWait, ReindexDone, ReindexBreaksOff
<1>13. CASE WorkOff \/ UNCHANGED vars
  BY <1>1, <1>13 DEF WorkOff, vars
<1> QED
  BY <1>2, <1>3, <1>4, <1>5, <1>6, <1>7, <1>8, <1>9, <1>10, <1>11, <1>12, <1>13
  DEF Next, Read, Write, Reindex

LEMMA StaleInit == Init => StaleInv
  BY DEF Init, StaleInv, WriterOK, ReaderOK, StaleOnlyByRace, IdleWriter, IdleReader

\* Type correctness of the catalogue, its cache, the index and its task queue.
THEOREM CatTypeCorrect == Spec => []CatTypeOK
BY CatTypeInit, StaleInit, CatTypeStep, StaleStep, PTL DEF Spec

\* A cache entry is stale only while a write has still to evict it, because a write
\* broke off before it did, or because a reader stored, after the eviction, a row it
\* had read before the commit.
THEOREM StaleByRaceOnly == Spec => []StaleOnlyByRace
<1>1. StaleInv => StaleOnlyByRace
  BY DEF StaleInv
<1> QED
  BY <1>1, CatTypeInit, StaleInit, CatTypeStep, StaleStep, PTL DEF Spec

-----------------------------------------------------------------------------
(* The search index.                                                       *)

\* A task at the end of the queue decides on its own products and no others.
LEMMA LastPushAppend ==
  ASSUME CatTypeOK, NEW task \in Task, queue' = Append(queue, task), index' = index,
         NEW p \in Products, NEW d
  PROVE  /\ p \in DOMAIN task.docs /\ task.docs[p] = d => LastPush(p, d)'
         /\ p \notin DOMAIN task.docs /\ LastPush(p, d) => LastPush(p, d)'
<1>1. /\ Len(queue) \in Nat /\ Len(queue') = Len(queue) + 1
      /\ \A i \in 1 .. Len(queue) : queue'[i] = queue[i]
      /\ queue'[Len(queue) + 1] = task
  BY AppendProperties, LenProperties DEF CatTypeOK
<1>2. ASSUME p \in DOMAIN task.docs, task.docs[p] = d PROVE LastPush(p, d)'
  <2>1. Len(queue) + 1 \in 1 .. Len(queue')
    BY <1>1
  <2>2. Len(queue) + 1 + 1 .. Len(queue') = {}
    BY <1>1
  <2> QED
    BY <1>1, <1>2, <2>1, <2>2 DEF LastPush
<1>3. ASSUME p \notin DOMAIN task.docs, LastPush(p, d) PROVE LastPush(p, d)'
  <2>1. \A i \in 1 .. Len(queue') : i \in 1 .. Len(queue) \/ queue'[i] = task
    BY <1>1
  <2>2. CASE index[p] = d /\ \A i \in 1 .. Len(queue) : p \notin DOMAIN queue[i].docs
    BY <1>1, <1>3, <2>1, <2>2 DEF LastPush
  <2>3. ASSUME NEW i \in 1 .. Len(queue), p \in DOMAIN queue[i].docs, queue[i].docs[p] = d,
               \A k \in i + 1 .. Len(queue) : p \notin DOMAIN queue[k].docs
        PROVE  LastPush(p, d)'
    <3>1. i \in 1 .. Len(queue') /\ queue'[i] = queue[i]
      BY <1>1
    <3>2. \A k \in i + 1 .. Len(queue') : p \notin DOMAIN queue'[k].docs
      <4> TAKE k \in i + 1 .. Len(queue')
      <4>1. CASE k \in i + 1 .. Len(queue)
        BY <1>1, <2>3, <4>1
      <4>2. CASE k = Len(queue) + 1
        BY <1>1, <1>3, <4>2
      <4> QED
        BY <1>1, <4>1, <4>2
    <3> QED
      BY <2>3, <3>1, <3>2 DEF LastPush
  <2> QED
    BY <1>3, <2>2, <2>3 DEF LastPush
<1> QED
  BY <1>2, <1>3

\* Working off the oldest task changes nothing about what comes out in the end.
LEMMA LastPushWorkOff ==
  ASSUME CatTypeOK, WorkOff, NEW p \in Products, NEW d, LastPush(p, d)
  PROVE  LastPush(p, d)'
<1>1. /\ Len(queue) \in Nat \ {0} /\ queue' = Tail(queue) /\ Len(queue') = Len(queue) - 1
      /\ \A i \in 1 .. Len(queue') : queue'[i] = queue[i + 1]
  <2>1. queue # <<>> /\ queue \in Seq(Task) /\ queue' = Tail(queue)
    BY DEF WorkOff, CatTypeOK
  <2> QED
    BY <2>1, HeadTailProperties, LenProperties, EmptySeq
<1>2. Head(queue) = queue[1]
  BY DEF WorkOff, CatTypeOK
<1>3. index'[p] = IF p \in DOMAIN queue[1].docs THEN queue[1].docs[p] ELSE index[p]
  BY <1>2 DEF WorkOff
<1>4. CASE index[p] = d /\ \A i \in 1 .. Len(queue) : p \notin DOMAIN queue[i].docs
  BY <1>1, <1>3, <1>4 DEF LastPush
<1>5. ASSUME NEW i \in 1 .. Len(queue), p \in DOMAIN queue[i].docs, queue[i].docs[p] = d,
             \A k \in i + 1 .. Len(queue) : p \notin DOMAIN queue[k].docs
      PROVE  LastPush(p, d)'
  <2>1. \A k \in i .. Len(queue') : p \notin DOMAIN queue'[k].docs
    BY <1>1, <1>5
  <2>2. CASE i = 1
    BY <1>1, <1>3, <1>5, <2>1, <2>2 DEF LastPush
  <2>3. CASE i # 1
    <3>1. i - 1 \in 1 .. Len(queue') /\ queue'[i - 1] = queue[i]
      BY <1>1, <2>3
    <3>2. \A k \in (i - 1) + 1 .. Len(queue') : p \notin DOMAIN queue'[k].docs
      BY <2>1
    <3> QED
      BY <1>5, <3>1, <3>2 DEF LastPush
  <2> QED
    BY <2>2, <2>3
<1> QED
  BY <1>4, <1>5 DEF LastPush

\* Who holds a version of a product, before and after a writer starts on p.
LEMMA PushStart ==
  ASSUME CatTypeOK, StaleInv, PushInv, NEW w \in Writers, NEW p \in Products,
         writer[w].at = "idle",
         NEW new \in Writing, Overlap(w, p, new), new.product = p,
         UNCHANGED searchVars,
         \A q \in Products \ {p} : db'[q] = db[q],
         \A c \in Columns \ new.changes : new.row[c] = db'[p][c],
         \/ new.at = "commit" /\ UNCHANGED db
         \/ new.at = "sync" /\ new.row = db'[p]
  PROVE  PushInv'
<1> USE DEF searchVars
<1>1. /\ Alike(writer'[w], new)
      /\ \A v \in Writers \ {w} : Alike(writer'[v], writer[v])
  BY OverlapEffect
<1>2. writer'[w].clean => Pushing(p) = {}
  BY WriterMarked DEF Overlap
<1>3. \A v \in Writers \ {w} :
        writer'[v].clean => writer[v].clean /\ v \notin Pushing(p)
  <2>1. \A v \in Writers : writer[v] \in Writing
    BY DEF CatTypeOK
  <2> QED
    BY <2>1, WriterMarked DEF Overlap
<1>4. \A j \in Jobs : /\ job'[j].clean = job[j].clean \ {p}
                       /\ job'[j].docs = job[j].docs
  BY DEF Overlap, CatTypeOK, Indexing
<1>5. \A q \in Products :
        Pushing(q)' = IF q = p THEN Pushing(q) \cup {w} ELSE Pushing(q)
  BY <1>1 DEF Pushing, Alike
<1>6. \A q \in Products :
        Syncing(q)' = IF q = p /\ new.at = "sync" THEN Syncing(q) \cup {w} ELSE Syncing(q)
  BY <1>1 DEF Syncing, Alike
<1>7. \A v \in Writers : CleanWriter(v)'
  <2>1. CleanWriter(w)'
    BY <1>1, <1>2, <1>4, <1>5 DEF CleanWriter, Alike
  <2>2. ASSUME NEW v \in Writers \ {w}, writer'[v].at \in {"commit", "sync"}, writer'[v].clean
        PROVE  CleanWriter(v)'
    <3>1. /\ writer[v].at \in {"commit", "sync"} /\ writer[v].clean
          /\ writer[v].product # p /\ Alike(writer'[v], writer[v])
      BY <1>1, <1>3, <2>2 DEF Alike, Pushing
    <3>2. CleanWriter(v)
      BY DEF PushInv
    <3>3. writer[v].product \in Products
      BY <3>1 DEF StaleInv, WriterOK
    <3> QED
      BY <1>4, <1>5, <3>1, <3>2, <3>3 DEF CleanWriter, Alike
  <2> QED
    BY <2>1, <2>2 DEF CleanWriter
<1>8. \A j \in Jobs : CleanJob(j)'
  BY <1>4, <1>5 DEF PushInv, CleanJob, CatTypeOK, Indexing
<1>9. \A q \in Products \ doubtful' : Syncing(q)' = {} => LastPush(q, Doc(db[q]))'
  BY <1>6 DEF PushInv, LastPush
<1> QED
  BY <1>7, <1>8, <1>9 DEF PushInv

\* A writer that has pushed, or given up, leaves the others as clean as they were.
LEMMA PushLeave ==
  ASSUME CatTypeOK, StaleInv, PushInv, NEW w \in Writers, writer[w].at \in {"commit", "sync", "evict"},
         \A v \in Writers \ {w} : writer'[v] = writer[v],
         writer'[w].at \in {"evict", "idle"},
         UNCHANGED <<db, job>>
  PROVE  /\ \A v \in Writers : CleanWriter(v)'
         /\ \A j \in Jobs : CleanJob(j)'
<1>1. \A q \in Products : Pushing(q)' = Pushing(q) \ {w}
  BY DEF Pushing
<1>2. ASSUME NEW v \in Writers \ {w}, writer[v].at \in {"commit", "sync"}, writer[v].clean
      PROVE  CleanWriter(v)'
  <2>1. writer[v].product \in Products
    BY <1>2 DEF StaleInv, WriterOK
  <2>2. v \in Pushing(writer[v].product) /\ CleanWriter(v)
    BY <1>2 DEF Pushing, PushInv
  <2>3. Pushing(writer[v].product)' = {v}
    BY <1>1, <1>2, <2>1, <2>2 DEF CleanWriter
  <2> QED
    BY <1>2, <2>2, <2>3 DEF CleanWriter
<1>3. \A v \in Writers : CleanWriter(v)'
  BY <1>2 DEF CleanWriter
<1>4. \A j \in Jobs : CleanJob(j)'
  BY <1>1 DEF PushInv, CleanJob, CatTypeOK, Indexing
<1> QED
  BY <1>3, <1>4

LEMMA PushKept ==
  ASSUME PushInv, UNCHANGED <<db, searchVars, writer, job>>
  PROVE  PushInv'
BY DEF PushInv, CleanWriter, CleanJob, Pushing, Syncing, LastPush, searchVars

LEMMA PushStep == CatTypeOK /\ StaleInv /\ PushInv /\ [Next]_vars => PushInv'
<1> SUFFICES ASSUME CatTypeOK, StaleInv, PushInv, [Next]_vars PROVE PushInv'
  OBVIOUS
<1> USE DEF searchVars, cacheVars, bounds
<1>1. ASSUME NEW r \in Readers, Read(r) PROVE PushInv'
  BY <1>1, PushKept DEF Read, Select, SetCache, SetFails
<1>2. ASSUME NEW p \in Products, Expires(p) PROVE PushInv'
  BY <1>2, PushKept DEF Expires
<1>3. CASE UNCHANGED vars
  BY <1>3, PushKept DEF vars
<1>4. ASSUME NEW w \in Writers, NEW p \in Products, NEW n \in Names, Create(w, p, n)
      PROVE  PushInv'
  <2> DEFINE row == [name |-> n, active |-> TRUE]
             new == [IdleWriter EXCEPT !.at = "sync", !.product = p, !.row = row]
  <2>1. row \in Row
    BY DEF Row
  <2>2. Overlap(w, p, new) /\ db' = [db EXCEPT ![p] = row]
    BY <1>4 DEF Create
  <2> HIDE DEF row
  <2>3. new \in Writing /\ new.product = p /\ new.row = row /\ new.at = "sync"
    BY <2>1, IdleTypes DEF Writing, MaybeRow, IdleWriter
  <2>4. db'[p] = row /\ \A q \in Products \ {p} : db'[q] = db[q]
    BY <2>2 DEF CatTypeOK
  <2> HIDE DEF new
  <2> QED
    BY <1>4, <2>2, <2>3, <2>4, PushStart DEF Create
<1>5. ASSUME NEW w \in Writers, NEW p \in Products, NEW u \in Payloads, Load(w, p, u)
      PROVE  PushInv'
  <2> DEFINE row == [c \in Columns |-> IF c \in DOMAIN u THEN u[c] ELSE db[p][c]]
             new == [IdleWriter EXCEPT !.at = "commit", !.product = p, !.row = row,
                       !.evicts = TRUE, !.changes = {c \in Columns : row[c] # db[p][c]}]
  <2>1. row \in Row
    BY <1>5, LoadedRow DEF Load, CatTypeOK, MaybeRow
  <2>2. Overlap(w, p, new) /\ UNCHANGED db
    BY <1>5 DEF Load
  <2> HIDE DEF row
  <2>3. /\ new \in Writing /\ new.product = p /\ new.row = row /\ new.at = "commit"
        /\ new.changes = {c \in Columns : row[c] # db[p][c]}
    BY <2>1, IdleTypes DEF Writing, MaybeRow, IdleWriter
  <2> HIDE DEF new
  <2> QED
    BY <1>5, <2>2, <2>3, PushStart DEF Load
<1>6. ASSUME NEW w \in Writers, Commit(w) PROVE PushInv'
  <2> DEFINE p == writer[w].product
             row == [c \in Columns |-> IF c \in writer[w].changes THEN writer[w].row[c] ELSE db[p][c]]
  <2>1. p \in Products /\ writer[w].at = "commit"
    BY <1>6 DEF Commit, StaleInv, WriterOK
  <2>2. \A c \in Columns : row[c] = IF c \in writer[w].changes THEN writer[w].row[c] ELSE db[p][c]
    OBVIOUS
  <2>3. db' = [db EXCEPT ![p] = row]
    BY <1>6 DEF Commit
  <2>4. writer' = [writer EXCEPT ![w].at = "sync", ![w].changes = {}]
    BY <1>6 DEF Commit
  <2>5. writer[w].clean => writer[w].row = row
    <3>1. writer[w].row \in Row /\ db[p] \in Row /\ writer[w].changes \in SUBSET Columns
      BY <2>1 DEF StaleInv, WriterOK, CatTypeOK, MaybeRow, Writing
    <3>2. row \in Row
      BY <3>1, MergedRow
    <3>3. ASSUME writer[w].clean PROVE \A c \in Columns : writer[w].row[c] = row[c]
      BY <2>1, <2>2, <3>3 DEF PushInv, CleanWriter
    <3> HIDE DEF row
    <3> QED
      BY <3>1, <3>2, <3>3 DEF Row, Columns
  <2> HIDE DEF row
  <2>6. db'[p] = row /\ \A q \in Products \ {p} : db'[q] = db[q]
    BY <2>1, <2>3 DEF CatTypeOK
  <2>7. /\ writer'[w].at = "sync" /\ writer'[w].product = p /\ writer'[w].changes = {}
        /\ writer'[w].row = writer[w].row /\ writer'[w].clean = writer[w].clean
        /\ \A v \in Writers \ {w} : writer'[v] = writer[v]
    BY <2>1, <2>4 DEF CatTypeOK, Writing
  <2>8. \A q \in Products :
          /\ Pushing(q)' = Pushing(q)
          /\ q # p => Syncing(q)' = Syncing(q)
          /\ q = p => Syncing(q)' # {} /\ w \in Pushing(q)
    BY <2>1, <2>7 DEF Pushing, Syncing
  <2>9. UNCHANGED <<queue, index, doubtful, job>>
    BY <1>6 DEF Commit
  <2>10. CleanWriter(w)'
    <3>1. ASSUME writer[w].clean PROVE writer'[w].row = db'[p]
      BY <2>5, <2>6, <2>7, <3>1
    <3>2. CleanWriter(w)
      BY DEF PushInv
    <3> QED
      BY <2>1, <2>7, <2>8, <2>9, <3>1, <3>2 DEF CleanWriter
  <2>11. ASSUME NEW v \in Writers \ {w}, writer[v].at \in {"commit", "sync"}, writer[v].clean
         PROVE  CleanWriter(v)'
    <3>1. CleanWriter(v) /\ writer[v].product \in Products
      BY <2>11 DEF PushInv, StaleInv, WriterOK
    <3>2. writer[v].product # p
      BY <2>1, <2>8, <2>11, <3>1 DEF CleanWriter
    <3> QED
      BY <2>6, <2>7, <2>8, <2>9, <2>11, <3>1, <3>2 DEF CleanWriter
  <2>12. \A v \in Writers : CleanWriter(v)'
    BY <2>7, <2>10, <2>11 DEF CleanWriter
  <2>13. \A j \in Jobs : CleanJob(j)'
    <3> TAKE j \in Jobs
    <3>1. \A q \in job[j].clean : q \in Products /\ q # p
      BY <2>1, <2>8 DEF PushInv, CleanJob, CatTypeOK, Indexing
    <3> QED
      BY <2>6, <2>8, <2>9, <3>1 DEF PushInv, CleanJob
  <2> HIDE DEF p
  <2>14. ASSUME NEW q \in Products, q \notin doubtful', Syncing(q)' = {},
                NEW d, d = Doc(db'[q])
         PROVE  LastPush(q, d)'
    <3>1. q # p /\ Syncing(q) = {} /\ db'[q] = db[q]
      BY <2>6, <2>8, <2>14
    <3>2. LastPush(q, d)
      BY <2>9, <2>14, <3>1 DEF PushInv
    <3> QED
      BY <2>9, <3>2 DEF LastPush
  <2> QED
    BY <2>12, <2>13, <2>14 DEF PushInv, LastPush
<1>7. ASSUME NEW w \in Writers, Sync(w) PROVE PushInv'
  <2> DEFINE p == writer[w].product
             row == writer[w].row
  <2>1. p \in Products /\ PushTask(w) \in Task /\ writer[w].at = "sync"
    BY <1>7, PushTaskType DEF Sync, StaleInv, WriterOK
  <2>2. queue' = Append(queue, PushTask(w)) /\ UNCHANGED <<db, job, index>>
    BY <1>7 DEF Sync, PushTask
  <2>3. /\ writer'[w].at \in {"evict", "idle"}
        /\ \A v \in Writers \ {w} : writer'[v] = writer[v]
    BY <1>7 DEF Sync, Synced, IdleWriter, CatTypeOK
  <2>4. (\A v \in Writers : CleanWriter(v)') /\ (\A j \in Jobs : CleanJob(j)')
    BY <2>1, <2>2, <2>3, PushLeave
  <2>5. DOMAIN PushTask(w).docs = {p} /\ PushTask(w).docs[p] = Doc(row)
    BY DEF PushTask
  <2>6. p \notin doubtful' => row = db[p]
    BY <1>7, <2>1 DEF Sync, Pushed, PushInv, CleanWriter
  <2>7. \A q \in Products : q # p => Syncing(q)' = Syncing(q) /\ (q \in doubtful' <=> q \in doubtful)
    BY <1>7, <2>1, <2>3 DEF Sync, Pushed, Syncing
  <2> HIDE DEF p, row
  <2>8. ASSUME NEW q \in Products, q \notin doubtful', Syncing(q)' = {},
               NEW d, d = Doc(db'[q])
        PROVE  LastPush(q, d)'
    <3>1. CASE q = p
      BY <2>1, <2>2, <2>5, <2>6, <2>8, <3>1, LastPushAppend
    <3>2. CASE q # p
      <4>1. LastPush(q, d)
        BY <2>2, <2>7, <2>8, <3>2 DEF PushInv
      <4> QED
        BY <2>1, <2>2, <2>5, <3>2, <4>1, LastPushAppend
    <3> QED
      BY <3>1, <3>2
  <2> QED
    BY <2>4, <2>8 DEF PushInv, LastPush
<1>8. ASSUME NEW w \in Writers, Evict(w) PROVE PushInv'
  <2>1. /\ writer[w].at = "evict" /\ writer'[w].at = "idle"
        /\ \A v \in Writers \ {w} : writer'[v] = writer[v]
        /\ UNCHANGED <<db, queue, index, doubtful, job>>
    BY <1>8 DEF Evict, IdleWriter, CatTypeOK
  <2>2. (\A v \in Writers : CleanWriter(v)') /\ (\A j \in Jobs : CleanJob(j)')
    BY <2>1, PushLeave
  <2>3. \A q \in Products : Syncing(q)' = Syncing(q)
    BY <2>1 DEF Syncing
  <2> QED
    BY <2>1, <2>2, <2>3 DEF PushInv, LastPush
<1>9. ASSUME NEW w \in Writers, WriteBreaksOff(w) PROVE PushInv'
  <2> DEFINE p == writer[w].product
  <2>1. p \in Products /\ PushTask(w) \in Task /\ writer[w].at \in {"commit", "sync", "evict"}
    BY <1>9, PushTaskType DEF WriteBreaksOff, StaleInv, WriterOK, CatTypeOK, Writing
  <2>2. /\ UNCHANGED <<db, job, index>>
        /\ \/ UNCHANGED queue
           \/ writer[w].at = "sync" /\ queue' = Append(queue, PushTask(w))
        /\ doubtful' = IF writer[w].at = "sync" THEN doubtful \cup {p} ELSE doubtful
    BY <1>9 DEF WriteBreaksOff, PushTask
  <2>3. writer'[w].at = "idle" /\ \A v \in Writers \ {w} : writer'[v] = writer[v]
    BY <1>9 DEF WriteBreaksOff, IdleWriter, CatTypeOK
  <2>4. (\A v \in Writers : CleanWriter(v)') /\ (\A j \in Jobs : CleanJob(j)')
    BY <2>1, <2>2, <2>3, PushLeave
  <2>5. DOMAIN PushTask(w).docs = {p}
    BY DEF PushTask
  <2>6. \A q \in Products : q # p \/ writer[w].at # "sync" => Syncing(q)' = Syncing(q)
    BY <2>1, <2>3 DEF Syncing
  <2> HIDE DEF p
  <2>7. ASSUME NEW q \in Products, q \notin doubtful', Syncing(q)' = {},
               NEW d, d = Doc(db'[q])
        PROVE  LastPush(q, d)'
    <3>1. q # p \/ writer[w].at # "sync"
      BY <2>2, <2>7
    <3>2. LastPush(q, d)
      BY <2>2, <2>6, <2>7, <3>1 DEF PushInv
    <3>3. CASE UNCHANGED queue
      BY <2>2, <3>2, <3>3 DEF LastPush
    <3>4. CASE writer[w].at = "sync" /\ queue' = Append(queue, PushTask(w))
      BY <2>1, <2>2, <2>5, <3>1, <3>2, <3>4, LastPushAppend
    <3> QED
      BY <2>2, <3>3, <3>4
  <2> QED
    BY <2>4, <2>7 DEF PushInv, LastPush
<1>10. ASSUME NEW j \in Jobs, ReindexSelect(j) PROVE PushInv'
  <2> DEFINE live == {p \in Products : Doc(db[p]) # Absent}
  <2>1. /\ job'[j] = [at |-> "push", docs |-> [p \in live |-> db[p]],
                      clean |-> {p \in live : Pushing(p) = {} /\ Holding(p) = {}}]
        /\ \A i \in Jobs \ {j} : job'[i] = [job[i] EXCEPT !.clean = @ \ live]
        /\ UNCHANGED <<db, queue, index, doubtful>>
    BY <1>10 DEF ReindexSelect
  <2>2. \A w \in Writers :
          /\ Alike(writer'[w], writer[w])
          /\ writer'[w].clean => writer[w].clean /\ writer[w].product \notin live
    <3>1. \A w \in Writers : writer[w] \in Writing
      BY DEF CatTypeOK
    <3> QED
      BY <1>10, <3>1, WriterMarked DEF ReindexSelect, Alike
  <2>3. \A q \in Products : Doc(db[q]) # Absent => Doc(db[q]) = db[q]
    BY DEF Doc
  <2>4. \A q \in Products : Pushing(q)' = Pushing(q) /\ Syncing(q)' = Syncing(q)
    BY <2>2 DEF Pushing, Syncing, Alike
  <2>5. \A i \in Jobs \ {j} : job'[i].clean = job[i].clean \ live /\ job'[i].docs = job[i].docs
    <3>1. \A i \in Jobs : job[i] \in Indexing
      BY DEF CatTypeOK
    <3> QED
      BY <2>1, <3>1 DEF Indexing
  <2>6. \A p \in live : p \in Products /\ Doc(db[p]) = db[p]
    BY <2>3
  <2>7. \A i \in Jobs : CleanJob(i)'
    <3>1. CleanJob(j)'
      BY <2>1, <2>4, <2>6 DEF CleanJob
    <3>2. ASSUME NEW i \in Jobs \ {j} PROVE CleanJob(i)'
      BY <2>1, <2>4, <2>5 DEF PushInv, CleanJob, CatTypeOK, Indexing
    <3> QED
      BY <3>1, <3>2
  <2>8. job'[j].clean \subseteq live
    BY <2>1
  <2> HIDE DEF live
  <2>9. \A w \in Writers : CleanWriter(w)'
    <3> SUFFICES ASSUME NEW w \in Writers, writer'[w].at \in {"commit", "sync"}, writer'[w].clean
                 PROVE  CleanWriter(w)'
      BY DEF CleanWriter
    <3>1. /\ writer[w].at \in {"commit", "sync"} /\ writer[w].clean
          /\ writer[w].product \notin live /\ CleanWriter(w)
      BY <2>2 DEF Alike, PushInv
    <3>2. writer[w].product \in Products
      BY <3>1 DEF StaleInv, WriterOK
    <3>3. \A i \in Jobs : writer[w].product \notin job'[i].clean
      BY <2>5, <2>8, <3>1 DEF CleanWriter
    <3> QED
      BY <2>1, <2>2, <2>4, <3>1, <3>2, <3>3 DEF CleanWriter, Alike
  <2> QED
    BY <2>1, <2>4, <2>7, <2>9 DEF PushInv, LastPush
<1>11. ASSUME NEW j \in Jobs, ReindexPush(j) PROVE PushInv'
  <2>1. PICK chunk \in SUBSET DOMAIN job[j].docs :
          /\ queue' = Append(queue, [by |-> j, docs |-> [p \in chunk |-> job[j].docs[p]]])
          /\ doubtful' = (doubtful \ (chunk \cap job[j].clean)) \cup (chunk \ job[j].clean)
          /\ job' = [job EXCEPT ![j] =
               [at |-> "wait", docs |-> [p \in DOMAIN @.docs \ chunk |-> @.docs[p]],
                clean |-> @.clean \ chunk]]
    BY <1>11 DEF ReindexPush
  <2> DEFINE task == [by |-> j, docs |-> [p \in chunk |-> job[j].docs[p]]]
  <2>2. task \in Task
    <3>1. job[j].docs \in [DOMAIN job[j].docs -> MaybeRow] /\ DOMAIN job[j].docs \subseteq Products
      BY DocsAre DEF CatTypeOK, Indexing
    <3>2. [p \in chunk |-> job[j].docs[p]] \in [chunk -> MaybeRow]
      BY <3>1
    <3>3. [p \in chunk |-> job[j].docs[p]] \in Docs
      BY <3>1, <3>2, DocsOf
    <3> QED
      BY <3>3 DEF Task
  <2>3. DOMAIN task.docs = chunk /\ \A p \in chunk : task.docs[p] = job[j].docs[p]
    OBVIOUS
  <2>4. queue' = Append(queue, task) /\ UNCHANGED <<db, index, writer>>
    BY <1>11, <2>1 DEF ReindexPush
  <2> HIDE DEF task
  <2>5. /\ job'[j].clean = job[j].clean \ chunk
        /\ \A p \in job'[j].clean :
             p \in DOMAIN job[j].docs => p \in DOMAIN job'[j].docs /\ job'[j].docs[p] = job[j].docs[p]
        /\ \A i \in Jobs \ {j} : job'[i] = job[i]
    BY <2>1 DEF CatTypeOK, Indexing
  <2>6. \A q \in Products : Pushing(q)' = Pushing(q) /\ Syncing(q)' = Syncing(q)
    BY <2>4 DEF Pushing, Syncing
  <2>7. \A i \in Jobs : CleanJob(i)'
    <3>1. \A i \in Jobs : job[i].clean \subseteq Products
      BY DEF CatTypeOK, Indexing
    <3> QED
      BY <2>4, <2>5, <2>6, <3>1 DEF PushInv, CleanJob
  <2>8. \A w \in Writers : CleanWriter(w)'
    BY <2>4, <2>5 DEF PushInv, CleanWriter, Pushing
  <2>9. ASSUME NEW q \in Products, q \notin doubtful', Syncing(q)' = {},
               NEW d, d = Doc(db'[q])
        PROVE  LastPush(q, d)'
    <3>1. CASE q \in chunk
      <4>1. q \in job[j].clean
        BY <2>1, <2>9, <3>1
      <4>2. job[j].docs[q] = d
        BY <2>4, <2>9, <4>1 DEF PushInv, CleanJob
      <4> QED
        BY <2>2, <2>3, <2>4, <3>1, <4>2, LastPushAppend
    <3>2. CASE q \notin chunk
      <4>1. LastPush(q, d)
        BY <2>1, <2>4, <2>6, <2>9, <3>2 DEF PushInv
      <4> QED
        BY <2>2, <2>3, <2>4, <3>2, <4>1, LastPushAppend
    <3> QED
      BY <3>1, <3>2
  <2> QED
    BY <2>7, <2>8, <2>9 DEF PushInv, LastPush
<1>12. ASSUME NEW j \in Jobs, ReindexWait(j) \/ ReindexDone(j) \/ ReindexBreaksOff(j)
       PROVE  PushInv'
  <2>1. /\ UNCHANGED <<db, queue, index, doubtful, writer>>
        /\ \A i \in Jobs \ {j} : job'[i] = job[i]
        /\ \/ job'[j].clean = {}
           \/ job'[j].clean = job[j].clean /\ job'[j].docs = job[j].docs
    BY <1>12 DEF ReindexWait, ReindexDone, ReindexBreaksOff, IdleJob, CatTypeOK, Indexing
  <2> QED
    BY <2>1 DEF PushInv, CleanWriter, CleanJob, Pushing, Syncing, LastPush
<1>13. CASE WorkOff
  <2>1. UNCHANGED <<db, doubtful, writer, job>>
    BY <1>13 DEF WorkOff
  <2>2. (\A w \in Writers : CleanWriter(w)') /\ (\A j \in Jobs : CleanJob(j)')
    BY <2>1 DEF PushInv, CleanWriter, CleanJob, Pushing
  <2>3. ASSUME NEW q \in Products, q \notin doubtful', Syncing(q)' = {},
               NEW d, d = Doc(db'[q])
        PROVE  LastPush(q, d)'
    <3>1. LastPush(q, d)
      BY <2>1, <2>3 DEF PushInv, Syncing
    <3> QED
      BY <1>13, <3>1, LastPushWorkOff
  <2> QED
    BY <2>2, <2>3 DEF PushInv, LastPush
<1> QED
  BY <1>1, <1>2, <1>3, <1>4, <1>5, <1>6, <1>7, <1>8, <1>9, <1>10, <1>11, <1>12, <1>13
  DEF Next, Write, Reindex

LEMMA PushInit == Init => PushInv
<1> SUFFICES ASSUME Init PROVE PushInv
  OBVIOUS
<1>1. \A w \in Writers : CleanWriter(w)
  BY DEF Init, CleanWriter, IdleWriter
<1>2. \A j \in Jobs : CleanJob(j)
  BY DEF Init, CleanJob, IdleJob
<1>3. \A p \in Products \ doubtful : LastPush(p, Doc(db[p]))
  BY EmptySeq DEF Init, LastPush, Doc
<1> QED
  BY <1>1, <1>2, <1>3 DEF PushInv

\* At rest the index holds what the table holds of every product, unless the last push
\* of the product failed or overlapped another write or reindex of it: for any number
\* of products, writers, reindex runs, chunks and queued tasks.
THEOREM SearchIsRight == Spec => []SearchAgrees
<1>1. PushInv => SearchAgrees
  <2> SUFFICES ASSUME PushInv, Quiet, NEW p \in Products, p \notin doubtful
               PROVE  index[p] = Doc(db[p])
    BY DEF SearchAgrees
  <2>1. Syncing(p) = {} /\ Len(queue) = 0
    BY EmptySeq DEF Quiet, Syncing
  <2> QED
    BY <2>1 DEF PushInv, LastPush
<1> QED
  BY <1>1, CatTypeInit, StaleInit, PushInit, CatTypeStep, StaleStep, PushStep, PTL DEF Spec
=============================================================================
