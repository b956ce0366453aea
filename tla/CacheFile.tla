------------------------------ MODULE CacheFile ------------------------------
(***************************************************************************)
(* The file behind the explore cache: api_impl::db (cpp/src/api.cpp) and   *)
(* the part of LMDB that it and the explore controller call                *)
(* (vendors/lmdb/libraries/liblmdb/mdb.c): open, a read or a write         *)
(* transaction, close.  ExploreController takes a read and a save for one  *)
(* step each; this module says when that is right.                         *)
(*                                                                         *)
(* A version of the database is one page, its root: a write transaction    *)
(* never changes the root in place, it takes another page, and the page of *)
(* the version before goes to the free list of the version it makes.  Two  *)
(* meta pages name, by turns, the newest version and the one before.       *)
(* Readers publish the version they read in a table in shared memory, and  *)
(* a writer takes a page of the free list only if no reader can need it.   *)
(*                                                                         *)
(* The environment is either opened for each access, as api_impl::db does, *)
(* or (Shared) once for all threads, as lmdb.h asks.  All threads belong   *)
(* to one process, which may be killed; the machine may lose power, and    *)
(* with it every page not yet synced.                                      *)
(*                                                                         *)
(* pc[w] of a thread:                                                      *)
(*   closed, opening   no environment; between setup_locks and share_locks *)
(*   open, ended       no transaction, before and after it                 *)
(*   slot, store, check, copy, reading   mdb_txn_renew0 of a reader        *)
(*   alloc, flush, sync, meta, publish   a writer up to mdb_txn_commit     *)
(***************************************************************************)
EXTENDS Naturals, FiniteSets

CONSTANTS
  Worker,    \* threads that read and write the cache
  NoWorker,  \* not a thread
  Shared,    \* the environment is opened once for all of them
  MaxPage,   \* the map holds the pages 2..MaxPage besides the two meta pages
  MaxTxn,    \* bound: a write begins only below this transaction
  MaxReader  \* bound: the size of the reader table

ASSUME CacheFileAssumption ==
  /\ NoWorker \notin Worker
  /\ Shared \in BOOLEAN
  /\ MaxPage \in Nat /\ MaxPage >= 2
  /\ MaxTxn \in Nat
  /\ MaxReader \in Nat \ {0}

VARIABLES
  page,     \* the pages of the file as every thread sees them
  disk,     \* the pages as they are after a loss of power
  metas,    \* the two meta pages, written through to the disk
  txnid,    \* mti_txnid: the last transaction published
  holder,   \* who holds the writer mutex
  slots,    \* mti_readers: the reader table
  readers,  \* mti_numreaders: the slots ever used
  pc,       \* where each thread is
  id,       \* mt_txnid of its transaction
  snap,     \* the meta page that its transaction copied
  slot,     \* its slot in the table, 0 if none
  touched,  \* me_close_readers: the slots that its close looks at
  target    \* the page that its write transaction took

table == <<slots, readers, slot, touched>>
file == <<page, disk, metas>>
vars == <<page, disk, metas, txnid, holder, slots, readers, pc, id, snap, slot,
          touched, target>>

Page == 2..MaxPage
NoPage == 0     \* P_INVALID: the root of an empty database
Idle == MaxTxn + 1  \* mr_txnid of a slot between transactions: the largest id

\* What a version holds, named by the transaction that wrote it and its thread.
Content == [txn: Nat, by: Worker \cup {NoWorker}]
Empty == [txn |-> 0, by |-> NoWorker]

FreeRecord == [txn: Nat, page: Page]
Meta == [txn: Nat, root: Page \cup {NoPage}, last: Nat,
         free: SUBSET FreeRecord, data: Content]
FirstMeta == [txn |-> 0, root |-> NoPage, last |-> 1, free |-> {}, data |-> Empty]

Slot == [used: BOOLEAN, txn: 0..Idle]
FreeSlot == [used |-> FALSE, txn |-> Idle]

Closed == {"closed", "opening"}

CacheFileTypeOK ==
  /\ page \in [Page -> Content] /\ disk \in [Page -> Content]
  /\ metas \in [{0, 1} -> Meta]
  /\ txnid \in 0..MaxTxn
  /\ holder \in Worker \cup {NoWorker}
  /\ slots \in [1..MaxReader -> Slot]
  /\ readers \in 0..MaxReader
  /\ pc \in [Worker -> Closed \cup {"open", "ended", "slot", "store", "check",
                "copy", "reading", "alloc", "flush", "sync", "meta", "publish"}]
  /\ id \in [Worker -> 0..MaxTxn]
  /\ snap \in [Worker -> Meta]
  /\ slot \in [Worker -> 0..MaxReader] /\ touched \in [Worker -> 0..MaxReader]
  /\ target \in [Worker -> Page \cup {NoPage}]

\* The file as mdb_env_init_meta made it.
Init ==
  /\ page = [p \in Page |-> Empty] /\ disk = page
  /\ metas = [i \in {0, 1} |-> FirstMeta]
  /\ txnid = 0
  /\ holder = NoWorker
  /\ slots = [i \in 1..MaxReader |-> FreeSlot]
  /\ readers = 0
  /\ pc = [w \in Worker |-> "closed"]
  /\ id = [w \in Worker |-> 0]
  /\ snap = [w \in Worker |-> FirstMeta]
  /\ slot = [w \in Worker |-> 0]
  /\ touched = [w \in Worker |-> 0]
  /\ target = [w \in Worker |-> NoPage]

\* The threads of a new process.
NewProcess ==
  /\ txnid' = 0
  /\ holder' = NoWorker
  /\ slots' = [i \in 1..MaxReader |-> FreeSlot]
  /\ readers' = 0
  /\ pc' = [w \in Worker |-> "closed"]
  /\ id' = [w \in Worker |-> 0]
  /\ snap' = [w \in Worker |-> FirstMeta]
  /\ slot' = [w \in Worker |-> 0]
  /\ touched' = [w \in Worker |-> 0]
  /\ target' = [w \in Worker |-> NoPage]

Step(w, from, to) == pc[w] = from /\ pc' = [pc EXCEPT ![w] = to]

\* The threads that have the environment of w.
Sharing(w) == IF Shared THEN Worker ELSE {w}

\* Where a thread is when its transaction is over.
Over == IF Shared THEN "open" ELSE "ended"

\* mdb_env_pick_meta: the newer of the two.
Newest(m) == IF m[0].txn < m[1].txn THEN m[1] ELSE m[0]

\* The meta page of a transaction: txnid & 1.
Turn(t) == t % 2

-----------------------------------------------------------------------------
(* Open and close *)

\* mdb_env_setup_locks: the lock on the file is the process's own, so every
\* open of the process gets it exclusively and starts the table afresh.
SetupLocks(w) ==
  /\ \A v \in Sharing(w) : pc[v] = "closed"
  /\ pc' = [v \in Worker |-> IF v \in Sharing(w) THEN "opening" ELSE pc[v]]
  /\ txnid' = 0
  /\ holder' = NoWorker
  /\ readers' = 0
  /\ UNCHANGED <<file, slots, id, snap, slot, touched, target>>

\* Variant of ShareLocks: the last transaction is not looked up.
ShareLocksFresh(w) ==
  /\ \A v \in Sharing(w) : pc[v] = "opening"
  /\ pc' = [v \in Worker |-> IF v \in Sharing(w) THEN "open" ELSE pc[v]]
  /\ UNCHANGED <<file, txnid, holder, table, id, snap, target>>

\* mdb_env_share_locks: the last transaction is that of the newer meta page.
ShareLocks(w) ==
  /\ \A v \in Sharing(w) : pc[v] = "opening"
  /\ pc' = [v \in Worker |-> IF v \in Sharing(w) THEN "open" ELSE pc[v]]
  /\ txnid' = Newest(metas).txn
  /\ UNCHANGED <<file, holder, table, id, snap, target>>

\* mdb_env_close: the slots of this process among those that the environment
\* looks at are given up, whoever uses them.
Close(w) ==
  /\ \A v \in Sharing(w) : pc[v] = Over
  /\ pc' = [v \in Worker |-> IF v \in Sharing(w) THEN "closed" ELSE pc[v]]
  /\ slots' = [i \in DOMAIN slots |->
                 IF \E v \in Sharing(w) : i <= touched[v]
                   THEN [slots[i] EXCEPT !.used = FALSE] ELSE slots[i]]
  /\ slot' = [v \in Worker |-> IF v \in Sharing(w) THEN 0 ELSE slot[v]]
  /\ touched' = [v \in Worker |-> IF v \in Sharing(w) THEN 0 ELSE touched[v]]
  /\ UNCHANGED <<file, txnid, holder, readers, id, snap, target>>

-----------------------------------------------------------------------------
(* A read: mdb_txn_begin(MDB_RDONLY), the cursor, mdb_txn_abort *)

\* A thread that has a slot from an earlier transaction uses it again.
BeginRead(w) ==
  /\ Step(w, "open", IF slot[w] # 0 THEN "store" ELSE "slot")
  /\ id' = [id EXCEPT ![w] = txnid]
  /\ UNCHANGED <<file, txnid, holder, table, snap, target>>

\* The first free slot is claimed under the reader mutex.
ClaimSlot(w) ==
  LET free == {i \in 1..readers : ~slots[i].used}
      n == readers + 1 IN
  \E i \in free \cup {n} :
    /\ \A j \in free : i <= j
    /\ i <= MaxReader
    /\ Step(w, "slot", "store")
    /\ slots' = [slots EXCEPT ![i] = [used |-> TRUE, txn |-> Idle]]
    /\ readers' = IF i = n THEN n ELSE readers
    /\ slot' = [slot EXCEPT ![w] = i]
    /\ touched' = [touched EXCEPT ![w] = readers']
    /\ id' = [id EXCEPT ![w] = txnid]
    /\ UNCHANGED <<file, txnid, holder, snap, target>>

\* mr_txnid = mti_txnid: read into id[w] the step before, stored now ...
StoreTxn(w) ==
  /\ Step(w, "store", "check")
  /\ slots' = [slots EXCEPT ![slot[w]].txn = id[w]]
  /\ UNCHANGED <<file, txnid, holder, readers, slot, touched, id, snap, target>>

\* ... and compared, until no write was published in between.
CheckTxn(w) ==
  /\ Step(w, "check", IF slots[slot[w]].txn = txnid THEN "copy" ELSE "store")
  /\ id' = [id EXCEPT ![w] = txnid]
  /\ UNCHANGED <<file, txnid, holder, table, snap, target>>

\* The meta page of that transaction, which a writer may have replaced.
CopyMeta(w) ==
  /\ Step(w, "copy", "reading")
  /\ snap' = [snap EXCEPT ![w] = metas[Turn(id[w])]]
  /\ UNCHANGED <<file, txnid, holder, table, id, target>>

\* mdb_txn_abort: the slot is kept for the next transaction of the thread.
EndRead(w) ==
  /\ Step(w, "reading", Over)
  /\ slots' = [slots EXCEPT ![slot[w]].txn = Idle]
  /\ UNCHANGED <<file, txnid, holder, readers, slot, touched, id, snap, target>>

-----------------------------------------------------------------------------
(* A write: mdb_txn_begin, mdb_put, mdb_txn_commit *)

\* Variant of BeginWrite: the writer mutex is not waited for.
BeginWriteAtOnce(w) ==
  /\ txnid < MaxTxn
  /\ Step(w, "open", "alloc")
  /\ holder' = w
  /\ id' = [id EXCEPT ![w] = txnid + 1]
  /\ snap' = [snap EXCEPT ![w] = metas[Turn(txnid)]]
  /\ UNCHANGED <<file, txnid, table, target>>

\* The writer mutex is taken and the newest meta page copied.
BeginWrite(w) ==
  /\ txnid < MaxTxn
  /\ holder = NoWorker
  /\ Step(w, "open", "alloc")
  /\ holder' = w
  /\ id' = [id EXCEPT ![w] = txnid + 1]
  /\ snap' = [snap EXCEPT ![w] = metas[Turn(txnid)]]
  /\ UNCHANGED <<file, txnid, table, target>>

\* UNLOCK_MUTEX of a mutex that was made afresh in between may free it.
Unlock(w) ==
  holder' \in {NoWorker} \cup (IF holder # w THEN {holder} ELSE {})

\* Variant of Needed: the readers are not asked.
NeededByCommit(w) == {id[w] - 1}

\* mdb_find_oldest: the versions that the last commit or a reader needs.
Needed(w) ==
  {id[w] - 1} \cup {slots[i].txn : i \in {j \in 1..readers : slots[j].used}}

\* The records of the free list that mdb_page_alloc may take: older than all that
\* is needed, the oldest first.
Reusable(w) ==
  LET old == {r \in snap[w].free : \A t \in Needed(w) : r.txn < t} IN
  {r \in old : \A s \in old : r.txn <= s.txn}

\* Variant of Allocate: the size of the map is not looked at.
AllocateBeyond(w) ==
  /\ Step(w, "alloc", "flush")
  /\ target' = [target EXCEPT ![w] = snap[w].last + 1]
  /\ snap' = [snap EXCEPT ![w].last = snap[w].last + 1]
  /\ UNCHANGED <<file, txnid, holder, table, id>>

\* The page for the new root: one of the free list, or a new one.  The page of
\* the old root and what the record leaves go to the free list.
Allocate(w) ==
  /\ Step(w, "alloc", "flush")
  /\ LET m == snap[w]
         freed == IF m.root = NoPage THEN {} ELSE {[txn |-> id[w], page |-> m.root]} IN
     \/ \E r \in Reusable(w) :
          /\ target' = [target EXCEPT ![w] = r.page]
          /\ snap' = [snap EXCEPT ![w].free = (m.free \ {r}) \cup freed]
     \/ /\ Reusable(w) = {}
        /\ m.last < MaxPage
        /\ target' = [target EXCEPT ![w] = m.last + 1]
        /\ snap' = [snap EXCEPT ![w].free = m.free \cup freed, ![w].last = m.last + 1]
  /\ UNCHANGED <<file, txnid, holder, table, id>>

\* MDB_MAP_FULL: the transaction is aborted.
MapFull(w) ==
  /\ Step(w, "alloc", Over)
  /\ Reusable(w) = {} /\ snap[w].last >= MaxPage
  /\ Unlock(w)
  /\ UNCHANGED <<file, txnid, table, id, snap, target>>

\* mdb_page_flush.
Flush(w) ==
  /\ Step(w, "flush", "sync")
  /\ page' = [page EXCEPT ![target[w]] = [txn |-> id[w], by |-> w]]
  /\ UNCHANGED <<disk, metas, txnid, holder, table, id, snap, target>>

\* Variant of Sync: nothing is synced.
SyncNothing(w) ==
  /\ Step(w, "sync", "meta")
  /\ UNCHANGED <<file, txnid, holder, table, id, snap, target>>

\* mdb_env_sync.
Sync(w) ==
  /\ Step(w, "sync", "meta")
  /\ disk' = page
  /\ UNCHANGED <<page, metas, txnid, holder, table, id, snap, target>>

\* Variant of WriteMeta: the meta page of the last transaction is written over.
WriteMetaInPlace(w) ==
  /\ Step(w, "meta", "publish")
  /\ metas' = [metas EXCEPT ![Turn(txnid)] =
                 [txn |-> id[w], root |-> target[w], last |-> snap[w].last,
                  free |-> snap[w].free, data |-> [txn |-> id[w], by |-> w]]]
  /\ UNCHANGED <<page, disk, txnid, holder, table, id, snap, target>>

\* mdb_env_write_meta: the other meta page is written, and synced, ...
WriteMeta(w) ==
  /\ Step(w, "meta", "publish")
  /\ metas' = [metas EXCEPT ![Turn(id[w])] =
                 [txn |-> id[w], root |-> target[w], last |-> snap[w].last,
                  free |-> snap[w].free, data |-> [txn |-> id[w], by |-> w]]]
  /\ UNCHANGED <<page, disk, txnid, holder, table, id, snap, target>>

\* ... the transaction is published, and mdb_txn_end unlocks the writer mutex.
Publish(w) ==
  /\ Step(w, "publish", Over)
  /\ txnid' = id[w]
  /\ Unlock(w)
  /\ UNCHANGED <<file, table, id, snap, target>>

-----------------------------------------------------------------------------
(* Faults *)

\* The process is killed; what it wrote to the file stays.
Kill ==
  /\ \E w \in Worker : pc[w] # "closed"
  /\ NewProcess
  /\ UNCHANGED file

\* The machine stops: each page not synced is there or not.
PowerLoss ==
  /\ \E kept \in SUBSET {p \in Page : page[p] # disk[p]} :
       page' = [p \in Page |-> IF p \in kept THEN page[p] ELSE disk[p]]
  /\ disk' = page'
  /\ NewProcess
  /\ UNCHANGED metas

-----------------------------------------------------------------------------
Read(w) ==
  BeginRead(w) \/ ClaimSlot(w) \/ StoreTxn(w) \/ CheckTxn(w) \/ CopyMeta(w) \/ EndRead(w)

Write(w) ==
  \/ BeginWrite(w) \/ Allocate(w) \/ MapFull(w)
  \/ Flush(w) \/ Sync(w) \/ WriteMeta(w) \/ Publish(w)

Next ==
  \/ \E w \in Worker : SetupLocks(w) \/ ShareLocks(w) \/ Close(w) \/ Read(w) \/ Write(w)
  \/ Kill
  \/ PowerLoss

CacheFileSpec == Init /\ [][Next]_vars

\* Accesses of the threads that do not overlap: from the open to the close, one
\* thread at a time.
Apart == \A v, w \in Worker : pc[v] # "closed" /\ pc[w] # "closed" => v = w

ApartSpec == Init /\ [][Next /\ Apart']_vars

-----------------------------------------------------------------------------
(* Properties *)

\* A reader has one version from beginning to end: what writers do meanwhile
\* never touches the page of that version, and the version is not older than
\* the last one published when the read began.
SnapshotKept ==
  \A w \in Worker :
    pc[w] = "reading" =>
      /\ snap[w].root # NoPage => page[snap[w].root] = snap[w].data
      /\ snap[w].txn >= id[w]

\* Whenever the power goes, the newer meta page names a page that is on the
\* disk as its transaction wrote it.
CrashSafe ==
  LET m == Newest(metas) IN
  m.root # NoPage => disk[m.root] = m.data

\* What the file holds only ever goes on to the next transaction: a commit is
\* neither lost in a crash nor, after the file is opened again, written over.
NothingLost ==
  [][LET old == Newest(metas).data
         new == Newest(metas').data IN
     new # old => new.txn = old.txn + 1]_vars

\* At most one thread is between the begin and the end of a write.
OneWriter ==
  \A v, w \in Worker :
    {pc[v], pc[w]} \subseteq {"alloc", "flush", "sync", "meta", "publish"} => v = w

\* The versions as the pages of the file hold them: what is on the disk of the
\* newer and of the older meta page, and what a reader finds.
Holds(pages, m) == IF m.root = NoPage THEN Empty ELSE pages[m.root]

Older(m) == IF m[0].txn < m[1].txn THEN m[0] ELSE m[1]

ReadOf(w) ==
  LET busy == pc[w] \in {"slot", "store", "check", "copy", "reading"} IN
  [busy |-> busy,
   from |-> IF busy THEN id[w] ELSE 0,
   found |-> IF pc[w] = "reading" THEN {Holds(page, snap[w])} ELSE {}]

Store == INSTANCE VersionStore WITH
  Client <- Worker,
  First <- Empty,
  newest <- Holds(disk, Newest(metas)),
  previous <- Holds(disk, Older(metas)),
  returned <- txnid,
  read <- [w \in Worker |-> ReadOf(w)]

\* What LMDB does with pages, slots and locks is a store that is read and written
\* in one step each, and that a crash leaves as it is: a read finds and keeps one
\* version, not older than the saves that returned before it began.
StoreKept == Store!StoreSpec
=============================================================================
