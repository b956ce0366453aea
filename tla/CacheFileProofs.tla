--------------------------- MODULE CacheFileProofs ---------------------------
(***************************************************************************)
(* For any number of threads, pages and transactions a reader keeps its    *)
(* version, there is one writer, and what was committed survives a loss of *)
(* power (FileInv); and the file implements the store of VersionStore      *)
(* (StoreInv).                                                             *)
(*                                                                         *)
(* Every theorem has a hypothesis, Orderly: all threads have one           *)
(* environment, as lmdb.h asks (Shared), or each access has its own, as    *)
(* api_impl::db gives it (api.cpp:19-24), and no two of them overlap       *)
(* (Apart).  The second is the program as long as one request runs at a    *)
(* time; the program does nothing to keep accesses apart, and the run      *)
(* cache_writers shows what becomes of OneWriter when two overlap.         *)
(***************************************************************************)
EXTENDS CacheFile, TLAPS

Writing == {"alloc", "flush", "sync", "meta", "publish"}
Drafting == {"flush", "sync", "meta"}

N == Newest(metas)

\* One environment for all threads, or no two accesses at once.
Orderly == Shared \/ Apart

\* The threads that share an environment have it together or not at all, and who
\* writes holds the mutex.
Session ==
  /\ Shared =>
       \A v, w \in Worker : /\ pc[v] = "closed" => pc[w] = "closed"
                            /\ pc[v] = "opening" => pc[w] = "opening"
  /\ \A w \in Worker : pc[w] \in Writing => holder = w

\* A version does not list its own page as free, nor one page twice.
GoodMeta(m) ==
  /\ m.last >= 1
  /\ m.root # NoPage => m.root <= m.last
  /\ \A r \in m.free : r.page <= m.last /\ r.page # m.root
  /\ \A r, s \in m.free : r.page = s.page => r = s
  /\ m.data.txn = m.txn
  /\ m.txn <= MaxTxn

\* The page of m is not lost to the version new.
Kept(m, new) ==
  \/ m.root = NoPage
  \/ m.root = new.root
  \/ \E r \in new.free : r.page = m.root /\ r.txn > m.txn

\* Both meta pages name versions that are in the file and on the disk.
Durable ==
  /\ metas[0].txn % 2 = 0
  /\ metas[1].txn % 2 = 1 \/ metas[1].txn = 0
  /\ \A i \in {0, 1} :
       /\ GoodMeta(metas[i])
       /\ metas[i].txn + 1 >= N.txn
       /\ Kept(metas[i], N)
       /\ metas[i].root # NoPage =>
            page[metas[i].root] = metas[i].data /\ disk[metas[i].root] = metas[i].data

\* The last transaction published is the newest, or the one before while its
\* writer has yet to publish.
Published ==
  /\ \A w \in Worker : pc[w] \notin Closed =>
       /\ metas[Turn(txnid)].txn = txnid
       /\ txnid = N.txn \/ \E v \in Worker : pc[v] = "publish"
  /\ \A w \in Worker :
       /\ pc[w] \in Writing => id[w] = txnid + 1
       /\ pc[w] \in Writing \ {"publish"} => txnid = N.txn
       /\ pc[w] = "publish" => id[w] = N.txn

\* The version that a writer makes.
Draft(w) ==
  [txn |-> id[w], root |-> target[w], last |-> snap[w].last,
   free |-> snap[w].free, data |-> [txn |-> id[w], by |-> w]]

\* It is good, and loses no page of a version that is still there.
Drafted ==
  \A w \in Worker :
    /\ pc[w] = "alloc" => snap[w] = N
    /\ pc[w] \in Drafting =>
         /\ target[w] # NoPage
         /\ GoodMeta(Draft(w))
         /\ \A i \in {0, 1} : Kept(metas[i], Draft(w)) /\ metas[i].root # target[w]
         /\ \A v \in Worker : pc[v] = "reading" =>
              Kept(snap[v], Draft(w)) /\ snap[v].root # target[w]
    /\ pc[w] \in {"sync", "meta"} => page[target[w]] = Draft(w).data
    /\ pc[w] = "meta" => disk[target[w]] = Draft(w).data

\* Each reader has a slot of its own, and publishes there what it reads.
Registered ==
  \A w \in Worker :
    /\ slot[w] # 0 => slot[w] <= readers /\ slots[slot[w]].used
    /\ \A v \in Worker : slot[v] = slot[w] /\ slot[w] # 0 => v = w
    /\ pc[w] \in Closed => slot[w] = 0
    /\ pc[w] \in {"store", "check", "copy", "reading"} => slot[w] # 0
    /\ pc[w] \in {"copy", "reading"} => slots[slot[w]].txn = id[w]

\* What a reader has copied is in the file.
Reading ==
  \A w \in Worker :
    /\ pc[w] = "copy" => metas[Turn(id[w])].txn >= id[w]
    /\ pc[w] = "reading" =>
         /\ snap[w].txn >= id[w] /\ snap[w].txn <= N.txn
         /\ Kept(snap[w], N)
         /\ snap[w].root # NoPage => page[snap[w].root] = snap[w].data

FileInv ==
  /\ CacheFileTypeOK
  /\ Session
  /\ Durable
  /\ Published
  /\ Drafted
  /\ Registered
  /\ Reading

-----------------------------------------------------------------------------
(* Facts about the types and the meta pages *)

LEMMA TypeFacts ==
  ASSUME CacheFileTypeOK
  PROVE  /\ metas[0] \in Meta /\ metas[1] \in Meta
         /\ N \in {metas[0], metas[1]}
         /\ metas[0].txn \in Nat /\ metas[1].txn \in Nat /\ N.txn \in Nat
         /\ N.txn >= metas[0].txn /\ N.txn >= metas[1].txn
         /\ txnid \in Nat
         /\ \A w \in Worker : id[w] \in Nat /\ snap[w] \in Meta
<1>1. metas[0] \in Meta /\ metas[1] \in Meta
  BY DEF CacheFileTypeOK
<1>2. metas[0].txn \in Nat /\ metas[1].txn \in Nat
  BY <1>1 DEF Meta
<1>3. CASE metas[0].txn < metas[1].txn
  <2>1. N = metas[1]
    BY <1>3 DEF N, Newest
  <2> QED BY <1>1, <1>2, <1>3, <2>1, CacheFileAssumption DEF CacheFileTypeOK
<1>4. CASE ~(metas[0].txn < metas[1].txn)
  <2>1. N = metas[0]
    BY <1>4 DEF N, Newest
  <2> QED BY <1>1, <1>2, <1>4, <2>1, CacheFileAssumption DEF CacheFileTypeOK
<1> QED BY <1>3, <1>4

LEMMA Turns ==
  ASSUME NEW t \in Nat PROVE Turn(t) \in {0, 1} /\ Turn(t + 1) # Turn(t)
BY DEF Turn

\* The newest version is where its number says.
LEMMA TurnNewest ==
  ASSUME CacheFileTypeOK, Durable PROVE metas[Turn(N.txn)] = N
<1>1. metas[0].txn \in Nat /\ metas[1].txn \in Nat
  BY TypeFacts
<1>2. CASE metas[0].txn < metas[1].txn
  <2>1. N = metas[1] /\ metas[1].txn % 2 = 1
    BY <1>1, <1>2 DEF N, Newest, Durable
  <2> QED BY <2>1 DEF Turn
<1>3. CASE ~(metas[0].txn < metas[1].txn)
  <2>1. N = metas[0] /\ metas[0].txn % 2 = 0
    BY <1>1, <1>3 DEF N, Newest, Durable
  <2> QED BY <2>1 DEF Turn
<1> QED BY <1>2, <1>3

\* Two writers would both hold the mutex.
LEMMA Alone ==
  ASSUME Session, NEW w \in Worker, pc[w] \in Writing
  PROVE  \A v \in Worker \ {w} : pc[v] \notin Writing
BY DEF Session

\* Nobody is in the environment they share when someone is not.
LEMMA Together ==
  ASSUME Session, Shared, NEW w \in Worker
  PROVE  /\ pc[w] \in Closed => \A v \in Worker : pc[v] = pc[w]
         /\ pc[w] \notin Closed => \A v \in Worker : pc[v] \notin Closed
BY DEF Session, Closed

-----------------------------------------------------------------------------
(* What a step leaves alone *)

LEMMA DurableKept == ASSUME Durable, UNCHANGED file PROVE Durable' /\ N' = N
BY DEF file, Durable, N, Newest, Kept, GoodMeta

LEMMA DraftedKept ==
  ASSUME Drafted, UNCHANGED file,
         \A w \in Worker :
           pc'[w] \in Drafting \cup {"alloc", "reading"} =>
             pc'[w] = pc[w] /\ id'[w] = id[w] /\ snap'[w] = snap[w]
             /\ target'[w] = target[w]
  PROVE  Drafted'
<1>1. N' = N
  BY DEF file, N, Newest
<1>2. \A w \in Worker : pc'[w] \in Drafting => Draft(w)' = Draft(w)
  BY DEF Draft
<1>3. \A w \in Worker : pc'[w] = "reading" => snap'[w] = snap[w] /\ pc[w] = "reading"
  OBVIOUS
<1>4. UNCHANGED <<page, disk, metas>>
  BY DEF file
<1> SUFFICES ASSUME NEW w \in Worker, pc'[w] \in Drafting \cup {"alloc"}
             PROVE  /\ pc'[w] = "alloc" => snap'[w] = N'
                    /\ pc'[w] \in Drafting =>
                         /\ target'[w] # NoPage
                         /\ GoodMeta(Draft(w)')
                         /\ \A i \in {0, 1} : Kept(metas[i], Draft(w)')
                                            /\ metas[i].root # target'[w]
                         /\ \A v \in Worker : pc'[v] = "reading" =>
                              Kept(snap'[v], Draft(w)') /\ snap'[v].root # target'[w]
                    /\ pc'[w] \in {"sync", "meta"} => page[target'[w]] = Draft(w)'.data
                    /\ pc'[w] = "meta" => disk[target'[w]] = Draft(w)'.data
  BY <1>4 DEF Drafted, Drafting, Kept, GoodMeta
<1> QED BY <1>1, <1>2, <1>3, <1>4 DEF Drafted, Drafting

LEMMA RegisteredKept ==
  ASSUME Registered, UNCHANGED table,
         \A w \in Worker :
           /\ pc'[w] \in Closed => pc[w] \in Closed
           /\ pc'[w] \in {"store", "check"} => slot[w] # 0
           /\ pc'[w] \in {"copy", "reading"} =>
                pc[w] \in {"copy", "reading"} /\ id'[w] = id[w]
  PROVE  Registered'
BY DEF table, Registered

LEMMA ReadingKept ==
  ASSUME Reading, UNCHANGED file,
         \A w \in Worker :
           /\ pc'[w] \in {"copy", "reading"} => pc'[w] = pc[w] /\ id'[w] = id[w]
           /\ pc'[w] = "reading" => snap'[w] = snap[w]
  PROVE  Reading'
<1>1. N' = N
  BY DEF file, N, Newest
<1> QED BY <1>1 DEF file, Reading, Kept

-----------------------------------------------------------------------------
(* The beginning, and a new process *)

LEMMA InitInv == Init => FileInv
<1> SUFFICES ASSUME Init PROVE FileInv
  OBVIOUS
<1>1. FirstMeta \in Meta /\ Empty \in Content
  BY DEF FirstMeta, Meta, Empty, Content
<1>2. CacheFileTypeOK
  <2>1. FreeSlot \in Slot
    BY CacheFileAssumption DEF FreeSlot, Slot, Idle
  <2> QED BY <1>1, <2>1, CacheFileAssumption DEF Init, CacheFileTypeOK, Closed
<1>3. N = FirstMeta
  BY DEF Init, N, Newest
<1>4. Durable
  BY <1>3, CacheFileAssumption DEF Init, Durable, GoodMeta, Kept, FirstMeta, Empty
<1>5. Session /\ Published /\ Drafted /\ Registered /\ Reading
  BY DEF Init, Session, Published, Drafted, Registered, Reading, Closed, Writing,
         Drafting
<1> QED BY <1>2, <1>4, <1>5 DEF FileInv

LEMMA NewProcessInv ==
  ASSUME FileInv, NewProcess, Durable', metas' = metas,
         page' \in [Page -> Content], disk' \in [Page -> Content]
  PROVE  FileInv'
<1>1. FirstMeta \in Meta /\ Empty \in Content
  BY DEF FirstMeta, Meta, Empty, Content
<1>2. CacheFileTypeOK'
  <2>1. FreeSlot \in Slot
    BY CacheFileAssumption DEF FreeSlot, Slot, Idle
  <2> QED BY <1>1, <2>1, CacheFileAssumption
          DEF NewProcess, FileInv, CacheFileTypeOK, Closed
<1>3. Session' /\ Published' /\ Drafted' /\ Registered' /\ Reading'
  BY DEF NewProcess, Session, Published, Drafted, Registered, Reading, Closed,
         Writing, Drafting
<1> QED BY <1>2, <1>3 DEF FileInv

LEMMA KillInv == FileInv /\ Kill => FileInv'
<1> SUFFICES ASSUME FileInv, Kill PROVE FileInv'
  OBVIOUS
<1>1. NewProcess /\ UNCHANGED file
  BY DEF Kill
<1>2. Durable'
  BY <1>1, DurableKept DEF FileInv
<1>3. page' \in [Page -> Content] /\ disk' \in [Page -> Content] /\ metas' = metas
  BY <1>1 DEF file, FileInv, CacheFileTypeOK
<1> QED BY <1>1, <1>2, <1>3, NewProcessInv

\* Whatever became of the pages not synced, those of the meta pages were.
LEMMA PowerLossInv == FileInv /\ PowerLoss => FileInv'
<1> SUFFICES ASSUME FileInv, PowerLoss PROVE FileInv'
  OBVIOUS
<1>1. NewProcess /\ metas' = metas /\ disk' = page'
  BY DEF PowerLoss
<1>2. PICK kept \in SUBSET {p \in Page : page[p] # disk[p]} :
        page' = [p \in Page |-> IF p \in kept THEN page[p] ELSE disk[p]]
  BY DEF PowerLoss
<1>3. page' \in [Page -> Content]
  BY <1>2 DEF FileInv, CacheFileTypeOK
<1>4. \A p \in Page : page[p] = disk[p] => page'[p] = page[p]
  BY <1>2
<1>5. \A i \in {0, 1} : metas[i].root \in Page \cup {NoPage}
  BY TypeFacts DEF FileInv, Meta
<1>6. Durable'
  BY <1>1, <1>4, <1>5 DEF FileInv, Durable, N, Newest, Kept, GoodMeta
<1> QED BY <1>1, <1>3, <1>6, NewProcessInv

-----------------------------------------------------------------------------
(* Open and close *)

\* Whoever opens the file finds it closed by everyone, ...
LEMMA Opening ==
  ASSUME CacheFileTypeOK, Orderly', NEW w \in Worker, SetupLocks(w)
  PROVE  /\ \A v \in Worker : pc[v] = "closed" /\ pc'[v] \in Closed
         /\ Shared => \A v \in Worker : pc'[v] = "opening"
         /\ pc' \in [Worker -> Closed]
<1>1. /\ \A v \in Sharing(w) : pc[v] = "closed"
      /\ pc' = [v \in Worker |-> IF v \in Sharing(w) THEN "opening" ELSE pc[v]]
  BY DEF SetupLocks
<1>2. CASE Shared
  BY <1>1, <1>2 DEF Sharing, Closed
<1>3. CASE ~Shared
  <2>1. pc[w] = "closed" /\ pc'[w] = "opening"
    BY <1>1, <1>3 DEF Sharing
  <2>2. \A v \in Worker \ {w} : pc'[v] = pc[v] /\ pc'[v] = "closed"
    BY <1>1, <1>3, <2>1 DEF Sharing, Orderly, Apart
  <2> QED BY <1>1, <1>3, <2>1, <2>2 DEF Closed
<1> QED BY <1>2, <1>3

\* ... has it alone if it is its own, ...
LEMMA Opened ==
  ASSUME CacheFileTypeOK, Orderly, NEW w \in Worker, ShareLocks(w)
  PROVE  /\ \A v \in Worker : pc[v] \in Closed /\ pc'[v] \in {"closed", "open"}
         /\ Shared => \A v \in Worker : pc'[v] = "open"
         /\ pc' \in [Worker -> {"closed", "open"}]
<1>1. /\ \A v \in Sharing(w) : pc[v] = "opening"
      /\ pc' = [v \in Worker |-> IF v \in Sharing(w) THEN "open" ELSE pc[v]]
  BY DEF ShareLocks
<1>2. CASE Shared
  BY <1>1, <1>2 DEF Sharing, Closed
<1>3. CASE ~Shared
  <2>1. pc[w] = "opening" /\ pc'[w] = "open"
    BY <1>1, <1>3 DEF Sharing
  <2>2. \A v \in Worker \ {w} : pc'[v] = pc[v] /\ pc[v] = "closed"
    BY <1>1, <1>3, <2>1 DEF Sharing, Orderly, Apart
  <2> QED BY <1>1, <1>3, <2>1, <2>2 DEF Closed
<1> QED BY <1>2, <1>3

\* ... and leaves it with nobody in a transaction.
LEMMA Closing ==
  ASSUME CacheFileTypeOK, Orderly, Registered, NEW w \in Worker, Close(w)
  PROVE  /\ \A v \in Worker : /\ pc[v] \in {"closed", "open", "ended"}
                             /\ pc'[v] = "closed" /\ slot'[v] = 0
         /\ pc' \in [Worker -> {"closed"}]
         /\ slot' \in [Worker -> {0}]
         /\ touched' \in [Worker -> 0..MaxReader]
<1>1. /\ \A v \in Sharing(w) : pc[v] \in {"open", "ended"}
      /\ pc' = [v \in Worker |-> IF v \in Sharing(w) THEN "closed" ELSE pc[v]]
      /\ slot' = [v \in Worker |-> IF v \in Sharing(w) THEN 0 ELSE slot[v]]
      /\ touched' = [v \in Worker |-> IF v \in Sharing(w) THEN 0 ELSE touched[v]]
  BY DEF Close, Over
<1>2. touched' \in [Worker -> 0..MaxReader]
  BY <1>1, CacheFileAssumption DEF CacheFileTypeOK
<1>3. CASE Shared
  BY <1>1, <1>2, <1>3 DEF Sharing
<1>4. CASE ~Shared
  <2>1. pc[w] \in {"open", "ended"} /\ pc'[w] = "closed" /\ slot'[w] = 0
    BY <1>1, <1>4 DEF Sharing
  <2>2. \A v \in Worker \ {w} : /\ pc'[v] = pc[v] /\ pc[v] = "closed"
                              /\ slot'[v] = slot[v] /\ slot[v] = 0
    BY <1>1, <1>4, <2>1 DEF Sharing, Orderly, Apart, Registered, Closed
  <2> QED BY <1>1, <1>2, <2>1, <2>2
<1> QED BY <1>3, <1>4

LEMMA SetupLocksInv ==
  ASSUME FileInv, Orderly', NEW w \in Worker, SetupLocks(w) PROVE FileInv'
<1>1. /\ \A v \in Worker : pc[v] = "closed" /\ pc'[v] \in Closed
      /\ Shared => \A v \in Worker : pc'[v] = "opening"
      /\ pc' \in [Worker -> Closed]
      /\ txnid' = 0 /\ holder' = NoWorker /\ readers' = 0
      /\ UNCHANGED <<file, slots, id, snap, slot, touched, target>>
  BY Opening DEF FileInv, SetupLocks
<1>2. CacheFileTypeOK'
  BY <1>1, CacheFileAssumption DEF FileInv, CacheFileTypeOK, file
<1>3. Session' /\ Published'
  BY <1>1 DEF Session, Published, Closed, Writing
<1>4. Durable'
  BY <1>1, DurableKept DEF FileInv
<1>5. Drafted'
  BY <1>1 DEF Drafted, Drafting, Closed
<1>6. Registered'
  BY <1>1 DEF FileInv, Registered, Closed
<1>7. Reading'
  BY <1>1 DEF Reading, Closed
<1> QED BY <1>2, <1>3, <1>4, <1>5, <1>6, <1>7 DEF FileInv

LEMMA ShareLocksInv ==
  ASSUME FileInv, Orderly, NEW w \in Worker, ShareLocks(w) PROVE FileInv'
<1>1. /\ \A v \in Worker : pc[v] \in Closed /\ pc'[v] \in {"closed", "open"}
      /\ Shared => \A v \in Worker : pc'[v] = "open"
      /\ pc' \in [Worker -> {"closed", "open"}]
      /\ txnid' = N.txn
      /\ UNCHANGED <<file, holder, table, id, snap, target>>
  BY Opened DEF FileInv, ShareLocks, N
<1>2. N.txn \in 0..MaxTxn /\ metas[Turn(N.txn)] = N
  BY TypeFacts, TurnNewest, CacheFileAssumption DEF FileInv, Durable, GoodMeta
<1>3. CacheFileTypeOK'
  BY <1>1, <1>2 DEF FileInv, CacheFileTypeOK, file, table, Closed
<1>4. Durable' /\ N' = N
  BY <1>1, DurableKept DEF FileInv
<1>5. Session'
  BY <1>1 DEF Session, Writing
<1>6. Published'
  BY <1>1, <1>2, <1>4 DEF Published, Writing, file
<1>7. Drafted'
  BY <1>1 DEF Drafted, Drafting
<1>8. Registered'
  BY <1>1, RegisteredKept DEF FileInv, Closed
<1>9. Reading'
  BY <1>1 DEF Reading
<1> QED BY <1>3, <1>4, <1>5, <1>6, <1>7, <1>8, <1>9 DEF FileInv

LEMMA CloseInv ==
  ASSUME FileInv, Orderly, NEW w \in Worker, Close(w) PROVE FileInv'
<1>1. /\ \A v \in Worker : pc'[v] = "closed" /\ slot'[v] = 0
      /\ pc' \in [Worker -> {"closed"}]
      /\ slot' \in [Worker -> {0}]
      /\ touched' \in [Worker -> 0..MaxReader]
      /\ UNCHANGED <<file, txnid, holder, readers, id, snap, target>>
  BY Closing DEF FileInv, Close
<1>2. slots' \in [1..MaxReader -> Slot]
  <2>1. slots \in [1..MaxReader -> Slot]
    BY DEF FileInv, CacheFileTypeOK
  <2>2. ASSUME NEW s \in Slot PROVE [s EXCEPT !.used = FALSE] \in Slot
    BY DEF Slot
  <2>3. slots' = [i \in 1..MaxReader |->
                    IF \E v \in Sharing(w) : i <= touched[v]
                      THEN [slots[i] EXCEPT !.used = FALSE] ELSE slots[i]]
    BY <2>1 DEF Close
  <2>4. \A i \in 1..MaxReader : slots'[i] \in Slot
    BY <2>1, <2>2, <2>3
  <2> QED BY <2>3, <2>4
<1>3. CacheFileTypeOK'
  BY <1>1, <1>2, CacheFileAssumption DEF FileInv, CacheFileTypeOK, file, Closed
<1>4. Durable'
  BY <1>1, DurableKept DEF FileInv
<1>5. Session' /\ Published' /\ Drafted' /\ Registered' /\ Reading'
  BY <1>1 DEF Session, Published, Drafted, Registered, Reading, Closed, Writing,
              Drafting
<1> QED BY <1>3, <1>4, <1>5 DEF FileInv

-----------------------------------------------------------------------------
(* A read *)

\* Where a step takes one thread, within the environment.
LEMMA SessionKept ==
  ASSUME CacheFileTypeOK, Session, NEW w \in Worker, NEW to,
         pc' = [pc EXCEPT ![w] = to],
         pc[w] \notin Closed, to \notin Closed,
         \/ UNCHANGED holder /\ (to \in Writing => pc[w] \in Writing)
         \/ (\A v \in Worker \ {w} : pc[v] \notin Writing)
            /\ (to \in Writing => holder' = w)
  PROVE  Session'
<1>1. /\ pc'[w] = to
      /\ \A v \in Worker \ {w} : pc'[v] = pc[v]
  BY DEF CacheFileTypeOK
<1>2. Shared => \A v \in Worker : pc'[v] \notin Closed
  BY <1>1, Together
<1> QED BY <1>1, <1>2 DEF Session, Closed

\* Nothing of the writers' changes.
LEMMA PublishedKept ==
  ASSUME Published, CacheFileTypeOK, Session, NEW w \in Worker, NEW to,
         pc' = [pc EXCEPT ![w] = to],
         pc[w] \notin Closed \cup Writing, to \notin Closed \cup Writing,
         UNCHANGED <<file, txnid>>, \A v \in Worker \ {w} : id'[v] = id[v]
  PROVE  Published'
<1>1. /\ pc'[w] = to
      /\ \A v \in Worker \ {w} : pc'[v] = pc[v]
  BY DEF CacheFileTypeOK
<1>2. N' = N
  BY DEF file, N, Newest
<1>4. \A v \in Worker : pc[v] = "publish" => pc'[v] = "publish"
  BY <1>1 DEF Writing
<1>5. metas' = metas /\ txnid' = txnid
  BY DEF file
<1>6. metas'[Turn(txnid')].txn = txnid'
  BY <1>5 DEF Published
<1>7. txnid' = N'.txn \/ \E v \in Worker : pc'[v] = "publish"
  BY <1>2, <1>4, <1>5 DEF Published
<1>8. ASSUME NEW v \in Worker, pc'[v] \in Writing
      PROVE  /\ id'[v] = txnid' + 1
             /\ pc'[v] # "publish" => txnid' = N'.txn
             /\ pc'[v] = "publish" => id'[v] = N'.txn
  <2>1. v # w
    BY <1>1, <1>8
  <2> QED BY <1>1, <1>2, <1>5, <1>8, <2>1 DEF Published
<1> QED BY <1>6, <1>7, <1>8 DEF Published, Writing

LEMMA BeginReadInv ==
  ASSUME FileInv, NEW w \in Worker, BeginRead(w) PROVE FileInv'
<1> DEFINE to == IF slot[w] # 0 THEN "store" ELSE "slot"
<1>1. /\ pc[w] = "open" /\ pc' = [pc EXCEPT ![w] = to]
      /\ id' = [id EXCEPT ![w] = txnid]
      /\ UNCHANGED <<file, txnid, holder, table, snap, target>>
  BY DEF BeginRead, Step
<1>2. to \in {"store", "slot"} /\ (to = "store" => slot[w] # 0)
  OBVIOUS
<1> HIDE DEF to
<1>3. /\ CacheFileTypeOK /\ Session
      /\ pc'[w] = to /\ \A v \in Worker \ {w} : pc'[v] = pc[v] /\ id'[v] = id[v]
  BY <1>1, <1>2 DEF FileInv, CacheFileTypeOK, Closed
<1>4. CacheFileTypeOK'
  BY <1>1, <1>2 DEF FileInv, CacheFileTypeOK, file, table
<1>5. Session'
  BY <1>1, <1>2, <1>3, SessionKept DEF Closed, Writing
<1>6. Durable'
  BY <1>1, DurableKept DEF FileInv
<1>7. Published'
  BY <1>1, <1>2, <1>3, PublishedKept DEF FileInv, Closed, Writing
<1>8. Drafted'
  BY <1>1, <1>2, <1>3, DraftedKept DEF FileInv, Drafting
<1>9. Registered'
  <2>1. \A v \in Worker :
          /\ pc'[v] \in Closed => pc[v] \in Closed
          /\ pc'[v] \in {"store", "check"} => slot[v] # 0
          /\ pc'[v] \in {"copy", "reading"} =>
               pc[v] \in {"copy", "reading"} /\ id'[v] = id[v]
    BY <1>1, <1>2, <1>3 DEF FileInv, Registered, Closed
  <2> QED BY <1>1, <2>1, RegisteredKept DEF FileInv
<1>10. Reading'
  BY <1>1, <1>2, <1>3, ReadingKept DEF FileInv
<1> QED BY <1>4, <1>5, <1>6, <1>7, <1>8, <1>9, <1>10 DEF FileInv

\* The slot that a reader claims is nobody's.
LEMMA ClaimSlotInv ==
  ASSUME FileInv, NEW w \in Worker, ClaimSlot(w) PROVE FileInv'
<1> DEFINE free == {i \in 1..readers : ~slots[i].used}
<1>1. PICK i \in free \cup {readers + 1} :
        /\ i <= MaxReader
        /\ pc[w] = "slot" /\ pc' = [pc EXCEPT ![w] = "store"]
        /\ slots' = [slots EXCEPT ![i] = [used |-> TRUE, txn |-> Idle]]
        /\ readers' = IF i = readers + 1 THEN readers + 1 ELSE readers
        /\ slot' = [slot EXCEPT ![w] = i]
        /\ touched' = [touched EXCEPT ![w] = readers']
        /\ id' = [id EXCEPT ![w] = txnid]
        /\ UNCHANGED <<file, txnid, holder, snap, target>>
  BY DEF ClaimSlot, Step
<1>2. /\ pc'[w] = "store" /\ slot'[w] = i
      /\ \A v \in Worker \ {w} : pc'[v] = pc[v] /\ id'[v] = id[v] /\ slot'[v] = slot[v]
  BY <1>1 DEF FileInv, CacheFileTypeOK
<1>3. /\ readers \in Nat /\ i \in 1..MaxReader /\ i <= readers'
      /\ readers' \in 0..MaxReader /\ readers' >= readers
      /\ slots'[i].used /\ \A j \in 1..MaxReader \ {i} : slots'[j] = slots[j]
  BY <1>1, CacheFileAssumption DEF FileInv, CacheFileTypeOK
<1>4. CacheFileTypeOK'
  <2>1. [used |-> TRUE, txn |-> Idle] \in Slot
    BY CacheFileAssumption DEF Slot, Idle
  <2> QED BY <1>1, <1>3, <2>1 DEF FileInv, CacheFileTypeOK, file
<1>5. Session'
  BY <1>1, SessionKept DEF FileInv, Closed, Writing
<1>6. Durable'
  BY <1>1, DurableKept DEF FileInv
<1>7. Published'
  BY <1>1, <1>2, PublishedKept DEF FileInv, Closed, Writing
<1>8. Drafted'
  BY <1>1, <1>2, DraftedKept DEF FileInv, Drafting
<1>9. Registered'
  <2>1. \A v \in Worker \ {w} : slot[v] # i
    <3>1. ASSUME NEW v \in Worker \ {w}, slot[v] = i PROVE FALSE
      <4>1. slot[v] <= readers /\ slots[slot[v]].used
        BY <1>3, <3>1 DEF FileInv, Registered
      <4> QED BY <1>1, <1>3, <3>1, <4>1
    <3> QED BY <3>1
  <2>2. ASSUME NEW v \in Worker \ {w}, slot[v] # 0
        PROVE  slot'[v] <= readers' /\ slots'[slot'[v]] = slots[slot[v]]
    <3>1. slot[v] \in 1..MaxReader /\ slot[v] <= readers
      BY <2>2 DEF FileInv, Registered, CacheFileTypeOK
    <3> QED BY <1>2, <1>3, <2>1, <2>2, <3>1
  <2> QED BY <1>2, <1>3, <2>1, <2>2 DEF FileInv, Registered, Closed
<1>10. Reading'
  BY <1>1, <1>2, ReadingKept DEF FileInv
<1> QED BY <1>4, <1>5, <1>6, <1>7, <1>8, <1>9, <1>10 DEF FileInv

\* A step on the slot of w leaves the slots of others alone.
LEMMA OwnSlot ==
  ASSUME CacheFileTypeOK, Registered, NEW w \in Worker, slot[w] # 0, NEW t \in 0..Idle,
         slots' = [slots EXCEPT ![slot[w]].txn = t]
  PROVE  /\ slots' \in [1..MaxReader -> Slot]
         /\ slots'[slot[w]].txn = t /\ slots'[slot[w]].used
         /\ \A v \in Worker \ {w} : slot[v] # 0 => slots'[slot[v]] = slots[slot[v]]
<1>1. slots \in [1..MaxReader -> Slot] /\ \A v \in Worker : slot[v] \in 0..MaxReader
  BY DEF CacheFileTypeOK
<1>2. slot[w] \in 1..MaxReader
  BY <1>1
<1>3. slots' = [slots EXCEPT ![slot[w]] = [slots[slot[w]] EXCEPT !.txn = t]]
  OBVIOUS
<1>4. [slots[slot[w]] EXCEPT !.txn = t] \in Slot
  BY <1>1, <1>2 DEF Slot
<1>5. /\ slots'[slot[w]] = [slots[slot[w]] EXCEPT !.txn = t]
      /\ \A j \in 1..MaxReader : j # slot[w] => slots'[j] = slots[j]
  BY <1>1, <1>2, <1>3
<1>6. slots'[slot[w]].txn = t /\ slots'[slot[w]].used = slots[slot[w]].used
  BY <1>1, <1>2, <1>5 DEF Slot
<1>7. ASSUME NEW v \in Worker \ {w}, slot[v] # 0 PROVE slots'[slot[v]] = slots[slot[v]]
  BY <1>1, <1>5, <1>7 DEF Registered
<1> QED BY <1>1, <1>2, <1>3, <1>4, <1>6, <1>7 DEF Registered

LEMMA StoreTxnInv ==
  ASSUME FileInv, NEW w \in Worker, StoreTxn(w) PROVE FileInv'
<1>1. /\ pc[w] = "store" /\ pc' = [pc EXCEPT ![w] = "check"]
      /\ slots' = [slots EXCEPT ![slot[w]].txn = id[w]]
      /\ UNCHANGED <<file, txnid, holder, readers, slot, touched, id, snap, target>>
  BY DEF StoreTxn, Step
<1>2. /\ pc'[w] = "check" /\ \A v \in Worker \ {w} : pc'[v] = pc[v]
      /\ slot[w] # 0 /\ id[w] \in 0..Idle
  BY <1>1, CacheFileAssumption DEF FileInv, CacheFileTypeOK, Registered, Idle
<1>3. /\ slots' \in [1..MaxReader -> Slot] /\ slots'[slot[w]].used
      /\ \A v \in Worker \ {w} : slot[v] # 0 => slots'[slot[v]] = slots[slot[v]]
  BY <1>1, <1>2, OwnSlot DEF FileInv
<1>4. CacheFileTypeOK'
  BY <1>1, <1>3 DEF FileInv, CacheFileTypeOK, file
<1>5. Session'
  BY <1>1, SessionKept DEF FileInv, Closed, Writing
<1>6. Durable'
  BY <1>1, DurableKept DEF FileInv
<1>7. Published'
  BY <1>1, PublishedKept DEF FileInv, Closed, Writing
<1>8. Drafted'
  BY <1>1, <1>2, DraftedKept DEF FileInv, Drafting
<1>9. Registered'
  BY <1>1, <1>2, <1>3 DEF FileInv, Registered, Closed
<1>10. Reading'
  BY <1>1, <1>2, ReadingKept DEF FileInv
<1> QED BY <1>4, <1>5, <1>6, <1>7, <1>8, <1>9, <1>10 DEF FileInv

\* What a reader has published is the last transaction, whose meta page is there.
LEMMA CheckTxnInv ==
  ASSUME FileInv, NEW w \in Worker, CheckTxn(w) PROVE FileInv'
<1> DEFINE to == IF slots[slot[w]].txn = txnid THEN "copy" ELSE "store"
<1>1. /\ pc[w] = "check" /\ pc' = [pc EXCEPT ![w] = to]
      /\ id' = [id EXCEPT ![w] = txnid]
      /\ UNCHANGED <<file, txnid, holder, table, snap, target>>
  BY DEF CheckTxn, Step
<1>2. to \in {"copy", "store"} /\ (to = "copy" => slots[slot[w]].txn = txnid)
  OBVIOUS
<1> HIDE DEF to
<1>3. /\ pc'[w] = to /\ id'[w] = txnid
      /\ \A v \in Worker \ {w} : pc'[v] = pc[v] /\ id'[v] = id[v]
      /\ slot[w] # 0 /\ metas[Turn(txnid)].txn = txnid /\ txnid \in Nat
  BY <1>1, TypeFacts DEF FileInv, CacheFileTypeOK, Closed, Registered, Published
<1>4. CacheFileTypeOK'
  BY <1>1, <1>2 DEF FileInv, CacheFileTypeOK, file, table
<1>5. Session'
  BY <1>1, <1>2, SessionKept DEF FileInv, Closed, Writing
<1>6. Durable' /\ N' = N
  BY <1>1, DurableKept DEF FileInv
<1>7. Published'
  BY <1>1, <1>2, <1>3, PublishedKept DEF FileInv, Closed, Writing
<1>8. Drafted'
  BY <1>1, <1>2, <1>3, DraftedKept DEF FileInv, Drafting
<1>9. Registered'
  BY <1>1, <1>2, <1>3 DEF FileInv, Registered, Closed, table
<1>10. Reading'
  BY <1>1, <1>2, <1>3, <1>6 DEF FileInv, Reading, file, Kept
<1> QED BY <1>4, <1>5, <1>6, <1>7, <1>8, <1>9, <1>10 DEF FileInv

\* Either meta page will do: the writer at work keeps the pages of both.
LEMMA CopyMetaInv ==
  ASSUME FileInv, NEW w \in Worker, CopyMeta(w) PROVE FileInv'
<1> DEFINE m == metas[Turn(id[w])]
<1>1. /\ pc[w] = "copy" /\ pc' = [pc EXCEPT ![w] = "reading"]
      /\ snap' = [snap EXCEPT ![w] = m]
      /\ UNCHANGED <<file, txnid, holder, table, id, target>>
  BY DEF CopyMeta, Step
<1>2. m \in {metas[0], metas[1]} /\ m \in Meta /\ m.txn >= id[w] /\ m.txn <= N.txn
  BY <1>1, TypeFacts, Turns DEF FileInv, Reading
<1>3. /\ Kept(m, N)
      /\ m.root # NoPage => page[m.root] = m.data
  BY <1>2 DEF FileInv, Durable
<1> HIDE DEF m
<1>4. /\ pc'[w] = "reading" /\ snap'[w] = m
      /\ \A v \in Worker \ {w} : pc'[v] = pc[v] /\ snap'[v] = snap[v]
  BY <1>1 DEF FileInv, CacheFileTypeOK
<1>5. CacheFileTypeOK'
  BY <1>1, <1>2 DEF FileInv, CacheFileTypeOK, file, table
<1>6. Session'
  BY <1>1, SessionKept DEF FileInv, Closed, Writing
<1>7. Durable' /\ N' = N
  BY <1>1, DurableKept DEF FileInv
<1>8. Published'
  BY <1>1, PublishedKept DEF FileInv, Closed, Writing
<1>9. Drafted'
  <2>1. \A v \in Worker : pc'[v] \in Drafting \cup {"alloc"} =>
          /\ v # w /\ pc'[v] = pc[v] /\ snap'[v] = snap[v] /\ Draft(v)' = Draft(v)
    BY <1>1, <1>4 DEF Drafting, Draft
  <2>2. \A v \in Worker : pc[v] \in Drafting => Kept(m, Draft(v)) /\ m.root # target[v]
    BY <1>2 DEF FileInv, Drafted
  <2>3. ASSUME NEW v \in Worker, pc[v] \in Drafting, v # w,
               NEW u \in Worker, pc'[u] = "reading"
        PROVE  Kept(snap'[u], Draft(v)) /\ snap'[u].root # target[v]
    <3>1. CASE u = w
      BY <1>4, <2>2, <2>3, <3>1
    <3>2. CASE u # w
      BY <1>4, <2>3, <3>2 DEF FileInv, Drafted
    <3> QED BY <3>1, <3>2
  <2>4. UNCHANGED <<page, disk, metas, target>>
    BY <1>1 DEF file
  <2> SUFFICES ASSUME NEW v \in Worker, pc'[v] \in Drafting \cup {"alloc"}
               PROVE  /\ pc'[v] = "alloc" => snap'[v] = N'
                      /\ pc'[v] \in Drafting =>
                           /\ target'[v] # NoPage
                           /\ GoodMeta(Draft(v)')
                           /\ \A i \in {0, 1} : Kept(metas[i], Draft(v)')
                                              /\ metas[i].root # target'[v]
                           /\ \A u \in Worker : pc'[u] = "reading" =>
                                Kept(snap'[u], Draft(v)') /\ snap'[u].root # target'[v]
                      /\ pc'[v] \in {"sync", "meta"} => page[target'[v]] = Draft(v)'.data
                      /\ pc'[v] = "meta" => disk[target'[v]] = Draft(v)'.data
    BY <2>4 DEF Drafted, Drafting, Kept, GoodMeta
  <2> QED BY <1>7, <2>1, <2>3, <2>4 DEF FileInv, Drafted, Drafting
<1>10. Registered'
  BY <1>1, <1>4 DEF FileInv, Registered, Closed, table
<1>11. Reading'
  BY <1>1, <1>2, <1>3, <1>4, <1>7 DEF FileInv, Reading, file, Kept
<1> QED BY <1>5, <1>6, <1>7, <1>8, <1>9, <1>10, <1>11 DEF FileInv

LEMMA EndReadInv ==
  ASSUME FileInv, NEW w \in Worker, EndRead(w) PROVE FileInv'
<1> DEFINE to == Over
<1>1. /\ pc[w] = "reading" /\ pc' = [pc EXCEPT ![w] = to]
      /\ slots' = [slots EXCEPT ![slot[w]].txn = Idle]
      /\ UNCHANGED <<file, txnid, holder, readers, slot, touched, id, snap, target>>
  BY DEF EndRead, Step
<1>0. to \in {"open", "ended"}
  BY DEF Over
<1> HIDE DEF to
<1>2. /\ pc'[w] = to /\ \A v \in Worker \ {w} : pc'[v] = pc[v]
      /\ slot[w] # 0 /\ Idle \in 0..Idle
  BY <1>0, <1>1, CacheFileAssumption DEF FileInv, CacheFileTypeOK, Registered, Idle
<1>3. /\ slots' \in [1..MaxReader -> Slot] /\ slots'[slot[w]].used
      /\ \A v \in Worker \ {w} : slot[v] # 0 => slots'[slot[v]] = slots[slot[v]]
  BY <1>0, <1>1, <1>2, OwnSlot DEF FileInv
<1>4. CacheFileTypeOK'
  BY <1>0, <1>1, <1>3 DEF FileInv, CacheFileTypeOK, file
<1>5. Session'
  BY <1>0, <1>1, SessionKept DEF FileInv, Closed, Writing
<1>6. Durable'
  BY <1>0, <1>1, DurableKept DEF FileInv
<1>7. Published'
  BY <1>0, <1>1, PublishedKept DEF FileInv, Closed, Writing
<1>8. Drafted'
  BY <1>0, <1>1, <1>2, DraftedKept DEF FileInv, Drafting
<1>9. Registered'
  BY <1>0, <1>1, <1>2, <1>3 DEF FileInv, Registered, Closed
<1>10. Reading'
  BY <1>0, <1>1, <1>2, ReadingKept DEF FileInv
<1> QED BY <1>4, <1>5, <1>6, <1>7, <1>8, <1>9, <1>10 DEF FileInv

-----------------------------------------------------------------------------
(* A write *)

LEMMA BeginWriteInv ==
  ASSUME FileInv, NEW w \in Worker, BeginWrite(w) PROVE FileInv'
<1>1. /\ pc[w] = "open" /\ pc' = [pc EXCEPT ![w] = "alloc"]
      /\ txnid < MaxTxn /\ holder = NoWorker /\ holder' = w
      /\ id' = [id EXCEPT ![w] = txnid + 1]
      /\ snap' = [snap EXCEPT ![w] = metas[Turn(txnid)]]
      /\ UNCHANGED <<file, txnid, table, target>>
  BY DEF BeginWrite, Step
<1>2. \A v \in Worker : pc[v] \notin Writing
  BY <1>1, CacheFileAssumption DEF FileInv, Session
<1>3. /\ pc'[w] = "alloc" /\ id'[w] = txnid + 1 /\ snap'[w] = metas[Turn(txnid)]
      /\ \A v \in Worker \ {w} : pc'[v] = pc[v] /\ id'[v] = id[v] /\ snap'[v] = snap[v]
  BY <1>1 DEF FileInv, CacheFileTypeOK
<1>4. txnid = N.txn /\ metas[Turn(txnid)].txn = txnid
  BY <1>1, <1>2 DEF FileInv, Published, Closed, Writing
<1>5. metas[Turn(txnid)] = N /\ N \in Meta /\ txnid \in Nat
  BY <1>4, TurnNewest, TypeFacts DEF FileInv
<1>6. CacheFileTypeOK'
  BY <1>1, <1>5, CacheFileAssumption DEF FileInv, CacheFileTypeOK, file, table
<1>7. Session'
  BY <1>1, <1>2, SessionKept DEF FileInv, Closed
<1>8. Durable' /\ N' = N
  BY <1>1, DurableKept DEF FileInv
<1>9. Published'
  BY <1>1, <1>2, <1>3, <1>4, <1>8 DEF Published, Writing, file
<1>10. Drafted'
  BY <1>2, <1>3, <1>5, <1>8 DEF Drafted, Drafting, Writing
<1>11. Registered'
  BY <1>1, <1>3 DEF FileInv, Registered, Closed, table
<1>12. Reading'
  BY <1>1, <1>3, ReadingKept DEF FileInv
<1> QED BY <1>6, <1>7, <1>8, <1>9, <1>10, <1>11, <1>12 DEF FileInv

\* A step of the writer between its begin and its end.
LEMMA WriterStep ==
  ASSUME FileInv, NEW w \in Worker, pc[w] \in Writing
  PROVE  /\ \A to : pc' = [pc EXCEPT ![w] = to] =>
              pc'[w] = to /\ \A v \in Worker \ {w} : pc'[v] = pc[v]
         /\ \A v \in Worker \ {w} : pc[v] \notin Writing
         /\ holder = w
<1>1. pc = [v \in Worker |-> pc[v]]
  BY DEF FileInv, CacheFileTypeOK
<1> QED BY <1>1, Alone DEF FileInv, Session

\* Unlock frees the mutex, and another thread may be its holder by then only if
\* it was made afresh.
LEMMA MapFullInv ==
  ASSUME FileInv, NEW w \in Worker, MapFull(w) PROVE FileInv'
<1> DEFINE to == Over
<1>1. /\ pc[w] = "alloc" /\ pc' = [pc EXCEPT ![w] = to]
      /\ holder' \in {NoWorker, holder}
      /\ UNCHANGED <<file, txnid, table, id, snap, target>>
  BY DEF MapFull, Step, Unlock
<1>0. to \in {"open", "ended"}
  BY DEF Over
<1> HIDE DEF to
<1>2. /\ pc'[w] = to /\ \A v \in Worker \ {w} : pc'[v] = pc[v]
      /\ \A v \in Worker \ {w} : pc[v] \notin Writing
  BY <1>0, <1>1, WriterStep DEF Writing
<1>3. CacheFileTypeOK'
  BY <1>0, <1>1 DEF FileInv, CacheFileTypeOK, file, table
<1>4. Session'
  BY <1>0, <1>1, <1>2, SessionKept DEF FileInv, Closed, Writing
<1>5. Durable' /\ N' = N
  BY <1>0, <1>1, DurableKept DEF FileInv
<1>6. Published'
  BY <1>0, <1>1, <1>2, <1>5 DEF FileInv, Published, Closed, Writing, file
<1>7. Drafted'
  BY <1>0, <1>1, <1>2, DraftedKept DEF FileInv, Drafting
<1>8. Registered'
  BY <1>0, <1>1, <1>2 DEF FileInv, Registered, Closed, table
<1>9. Reading'
  BY <1>0, <1>1, <1>2, ReadingKept DEF FileInv
<1> QED BY <1>3, <1>4, <1>5, <1>6, <1>7, <1>8, <1>9 DEF FileInv

LEMMA PublishInv ==
  ASSUME FileInv, NEW w \in Worker, Publish(w) PROVE FileInv'
<1> DEFINE to == Over
<1>1. /\ pc[w] = "publish" /\ pc' = [pc EXCEPT ![w] = to]
      /\ txnid' = id[w] /\ holder' \in {NoWorker, holder}
      /\ UNCHANGED <<file, table, id, snap, target>>
  BY DEF Publish, Step, Unlock
<1>0. to \in {"open", "ended"}
  BY DEF Over
<1> HIDE DEF to
<1>2. /\ pc'[w] = to /\ \A v \in Worker \ {w} : pc'[v] = pc[v]
      /\ \A v \in Worker \ {w} : pc[v] \notin Writing
  BY <1>0, <1>1, WriterStep DEF Writing
<1>3. CacheFileTypeOK'
  BY <1>0, <1>1 DEF FileInv, CacheFileTypeOK, file, table
<1>4. Session'
  BY <1>0, <1>1, <1>2, SessionKept DEF FileInv, Closed, Writing
<1>5. Durable' /\ N' = N
  BY <1>0, <1>1, DurableKept DEF FileInv
<1>6. Published'
  <2>1. id[w] = N.txn /\ metas[Turn(N.txn)] = N
    BY <1>0, <1>1, TurnNewest DEF FileInv, Published
  <2> QED BY <1>0, <1>1, <1>2, <1>5, <2>1 DEF Published, Writing, file
<1>7. Drafted'
  BY <1>0, <1>1, <1>2, DraftedKept DEF FileInv, Drafting
<1>8. Registered'
  BY <1>0, <1>1, <1>2 DEF FileInv, Registered, Closed, table
<1>9. Reading'
  BY <1>0, <1>1, <1>2, ReadingKept DEF FileInv
<1> QED BY <1>3, <1>4, <1>5, <1>6, <1>7, <1>8, <1>9 DEF FileInv

\* What Allocate does to the free list, whether it takes a record or a new page.
LEMMA AllocateFacts ==
  ASSUME FileInv, NEW w \in Worker, Allocate(w)
  PROVE  \E taken \in SUBSET N.free :
           /\ \A q \in taken : \A t \in Needed(w) : q.txn < t
           /\ snap'[w] \in Meta /\ target'[w] \in Page
           /\ snap'[w].free = (N.free \ taken) \cup
                (IF N.root = NoPage THEN {} ELSE {[txn |-> id[w], page |-> N.root]})
           /\ snap'[w].last >= N.last
           /\ \/ taken = {} /\ target'[w] = N.last + 1 /\ snap'[w].last = N.last + 1
              \/ \E q \in taken : taken = {q} /\ target'[w] = q.page
           /\ \A v \in Worker \ {w} : snap'[v] = snap[v] /\ target'[v] = target[v]
<1> DEFINE freed == IF N.root = NoPage THEN {} ELSE {[txn |-> id[w], page |-> N.root]}
<1>1. snap[w] = N /\ N \in Meta /\ id[w] \in Nat
  BY TypeFacts DEF Allocate, Step, FileInv, Drafted
<1>2. /\ snap \in [Worker -> Meta] /\ target \in [Worker -> Page \cup {NoPage}]
  BY DEF FileInv, CacheFileTypeOK
<1>3. N.free \in SUBSET FreeRecord /\ N.last \in Nat /\ N.last >= 1
      /\ N.root \in Page \cup {NoPage}
  BY <1>1, TypeFacts DEF Meta, FileInv, Durable, GoodMeta
<1>4. freed \in SUBSET FreeRecord
  <2>1. CASE N.root = NoPage
    BY <2>1
  <2>2. CASE N.root # NoPage
    <3>1. [txn |-> id[w], page |-> N.root] \in FreeRecord
      BY <1>1, <1>3, <2>2 DEF FreeRecord
    <3> QED BY <2>2, <3>1
  <2> QED BY <2>1, <2>2
<1> HIDE DEF freed
<1>5. ASSUME NEW f \in SUBSET FreeRecord, NEW l \in Nat
      PROVE  LET m == [N EXCEPT !.free = f, !.last = l] IN
             m \in Meta /\ m.free = f /\ m.last = l
  BY <1>1 DEF Meta
<1>6. ASSUME NEW f \in SUBSET FreeRecord
      PROVE  LET m == [N EXCEPT !.free = f] IN
             m \in Meta /\ m.free = f /\ m.last = N.last
  BY <1>1 DEF Meta
<1>7. \/ \E q \in Reusable(w) :
          /\ target' = [target EXCEPT ![w] = q.page]
          /\ snap' = [snap EXCEPT ![w] = [N EXCEPT !.free = (N.free \ {q}) \cup freed]]
      \/ /\ N.last < MaxPage
         /\ target' = [target EXCEPT ![w] = N.last + 1]
         /\ snap' = [snap EXCEPT ![w] =
                       [N EXCEPT !.free = N.free \cup freed, !.last = N.last + 1]]
  BY <1>1, <1>2 DEF Allocate, freed
<1>8. ASSUME NEW q \in Reusable(w),
             target' = [target EXCEPT ![w] = q.page],
             snap' = [snap EXCEPT ![w] = [N EXCEPT !.free = (N.free \ {q}) \cup freed]]
      PROVE  /\ q \in N.free /\ \A t \in Needed(w) : q.txn < t
             /\ snap'[w] \in Meta /\ target'[w] = q.page /\ q.page \in Page
             /\ snap'[w].free = (N.free \ {q}) \cup freed
             /\ snap'[w].last = N.last
             /\ \A v \in Worker \ {w} : snap'[v] = snap[v] /\ target'[v] = target[v]
  <2>1. q \in N.free /\ \A t \in Needed(w) : q.txn < t
    BY <1>1 DEF Reusable
  <2>2. q.page \in Page
    BY <1>3, <2>1 DEF FreeRecord
  <2>3. snap'[w] = [N EXCEPT !.free = (N.free \ {q}) \cup freed]
    BY <1>2, <1>8
  <2>4. (N.free \ {q}) \cup freed \in SUBSET FreeRecord
    BY <1>3, <1>4
  <2> QED BY <1>2, <1>6, <1>8, <2>1, <2>2, <2>3, <2>4
<1>9. ASSUME N.last < MaxPage,
             target' = [target EXCEPT ![w] = N.last + 1],
             snap' = [snap EXCEPT ![w] =
                       [N EXCEPT !.free = N.free \cup freed, !.last = N.last + 1]]
      PROVE  /\ snap'[w] \in Meta /\ target'[w] = N.last + 1 /\ N.last + 1 \in Page
             /\ snap'[w].free = N.free \cup freed
             /\ snap'[w].last = N.last + 1
             /\ \A v \in Worker \ {w} : snap'[v] = snap[v] /\ target'[v] = target[v]
  <2>1. snap'[w] = [N EXCEPT !.free = N.free \cup freed, !.last = N.last + 1]
    BY <1>2, <1>9
  <2>2. N.free \cup freed \in SUBSET FreeRecord /\ N.last + 1 \in Nat
    BY <1>3, <1>4
  <2>3. N.last + 1 \in Page
    BY <1>3, <1>9, CacheFileAssumption DEF Page
  <2> QED BY <1>2, <1>5, <1>9, <2>1, <2>2, <2>3
<1>10. CASE \E q \in Reusable(w) :
              /\ target' = [target EXCEPT ![w] = q.page]
              /\ snap' = [snap EXCEPT ![w] = [N EXCEPT !.free = (N.free \ {q}) \cup freed]]
  <2>1. PICK q \in Reusable(w) :
              /\ target' = [target EXCEPT ![w] = q.page]
              /\ snap' = [snap EXCEPT ![w] = [N EXCEPT !.free = (N.free \ {q}) \cup freed]]
    BY <1>10
  <2>2. /\ q \in N.free /\ \A t \in Needed(w) : q.txn < t
        /\ snap'[w] \in Meta /\ target'[w] = q.page /\ q.page \in Page
        /\ snap'[w].free = (N.free \ {q}) \cup freed
        /\ snap'[w].last = N.last
        /\ \A v \in Worker \ {w} : snap'[v] = snap[v] /\ target'[v] = target[v]
    BY <1>8, <2>1
  <2>3. {q} \in SUBSET N.free /\ N.last >= N.last
    BY <1>3, <2>2
  <2> USE <2>3
  <2> WITNESS {q} \in SUBSET N.free
  <2> QED BY <2>2 DEF freed
<1>11. CASE /\ N.last < MaxPage
            /\ target' = [target EXCEPT ![w] = N.last + 1]
            /\ snap' = [snap EXCEPT ![w] =
                          [N EXCEPT !.free = N.free \cup freed, !.last = N.last + 1]]
  <2>1. /\ snap'[w] \in Meta /\ target'[w] = N.last + 1 /\ N.last + 1 \in Page
        /\ snap'[w].free = (N.free \ {}) \cup freed
        /\ snap'[w].last = N.last + 1 /\ N.last + 1 >= N.last
        /\ \A v \in Worker \ {w} : snap'[v] = snap[v] /\ target'[v] = target[v]
    BY <1>3, <1>9, <1>11
  <2> WITNESS {} \in SUBSET N.free
  <2> QED BY <2>1 DEF freed
<1> QED BY <1>7, <1>10, <1>11

\* A version that is still there, to the knowledge of the reader table, keeps its
\* page whatever the writer takes.
LEMMA AllocateKeeps ==
  ASSUME FileInv, NEW w \in Worker, Allocate(w),
         NEW s \in Meta, Kept(s, N), s.txn <= N.txn,
         \E t \in Needed(w) : t <= s.txn + 1
  PROVE  \/ s.root = NoPage
         \/ \E r \in snap'[w].free : r.page = s.root /\ r.txn > s.txn
<1> DEFINE freed == IF N.root = NoPage THEN {} ELSE {[txn |-> id[w], page |-> N.root]}
<1>1. PICK taken \in SUBSET N.free :
        /\ \A q \in taken : \A t \in Needed(w) : q.txn < t
        /\ snap'[w].free = (N.free \ taken) \cup freed
  BY AllocateFacts
<1>2. id[w] = N.txn + 1 /\ N.txn \in Nat /\ N.free \in SUBSET FreeRecord
      /\ s.txn \in Nat
  BY TypeFacts DEF Allocate, Step, FileInv, Published, Writing, Meta
<1>3. CASE s.root # NoPage /\ s.root = N.root
  <2>1. [txn |-> id[w], page |-> N.root] \in freed
    BY <1>3
  <2> HIDE DEF freed
  <2>2. [txn |-> id[w], page |-> N.root] \in snap'[w].free
    BY <1>1, <2>1
  <2> QED BY <1>2, <1>3, <2>2
<1> HIDE DEF freed
<1>4. ASSUME NEW r \in N.free, r.page = s.root, r.txn > s.txn
      PROVE  \E q \in snap'[w].free : q.page = s.root /\ q.txn > s.txn
  <2>1. PICK t \in Needed(w) : t <= s.txn + 1
    OBVIOUS
  <2>2. r.txn \in Nat
    BY <1>2 DEF FreeRecord
  <2>3. t \in Nat
    <3>1. CASE t = id[w] - 1
      BY <1>2, <3>1
    <3>2. ASSUME NEW i \in 1..readers, t = slots[i].txn PROVE t \in Nat
      <4>1. slots[i] \in Slot
        BY CacheFileAssumption DEF FileInv, CacheFileTypeOK
      <4> QED BY <3>2, <4>1, CacheFileAssumption DEF Slot, Idle
    <3> QED BY <2>1, <3>1, <3>2 DEF Needed
  <2>4. ~(r.txn < t)
    BY <1>2, <1>4, <2>1, <2>2, <2>3
  <2>5. r \notin taken
    BY <1>1, <2>4
  <2> QED BY <1>1, <1>4, <2>5
<1> QED BY <1>3, <1>4 DEF Kept

LEMMA AllocateInv ==
  ASSUME FileInv, NEW w \in Worker, Allocate(w) PROVE FileInv'
<1> DEFINE m == snap'[w]
           t == target'[w]
           freed == IF N.root = NoPage THEN {} ELSE {[txn |-> id[w], page |-> N.root]}
<1>1. /\ pc[w] = "alloc" /\ pc' = [pc EXCEPT ![w] = "flush"]
      /\ UNCHANGED <<file, txnid, holder, table, id>>
  BY DEF Allocate, Step
<1>2. /\ pc'[w] = "flush" /\ \A v \in Worker \ {w} : pc'[v] = pc[v]
      /\ \A v \in Worker \ {w} : pc[v] \notin Writing
  BY <1>1, WriterStep DEF Writing
<1>3. PICK taken \in SUBSET N.free :
        /\ m \in Meta /\ t \in Page
        /\ m.free = (N.free \ taken) \cup freed
        /\ m.last >= N.last
        /\ \/ taken = {} /\ t = N.last + 1 /\ m.last = N.last + 1
           \/ \E q \in taken : taken = {q} /\ t = q.page
        /\ \A v \in Worker \ {w} : snap'[v] = snap[v] /\ target'[v] = target[v]
  BY AllocateFacts
<1>4. /\ id[w] = N.txn + 1 /\ N.txn \in Nat /\ N \in Meta /\ id[w] <= MaxTxn
      /\ N.free \in SUBSET FreeRecord /\ N.last \in Nat
      /\ N.root \in Page \cup {NoPage} /\ GoodMeta(N)
  <2>1. N \in Meta /\ N.txn \in Nat
    BY TypeFacts DEF FileInv
  <2>2. GoodMeta(N)
    BY TypeFacts DEF FileInv, Durable
  <2>3. id[w] = N.txn + 1
    BY <1>1 DEF FileInv, Published, Writing
  <2>4. id[w] <= MaxTxn
    BY CacheFileAssumption DEF FileInv, CacheFileTypeOK
  <2> QED BY <2>1, <2>2, <2>3, <2>4 DEF Meta
<1>5. Durable' /\ N' = N
  BY <1>1, DurableKept DEF FileInv
<1>6. CacheFileTypeOK'
  <2>1. /\ snap' = [snap EXCEPT ![w] = m] /\ target' = [target EXCEPT ![w] = t]
    BY DEF Allocate, FileInv, CacheFileTypeOK
  <2> HIDE DEF m, t
  <2> QED BY <1>1, <1>3, <2>1 DEF FileInv, CacheFileTypeOK, file, table
<1>7. Session'
  BY <1>1, <1>2, SessionKept DEF FileInv, Closed, Writing
<1>8. Published'
  BY <1>1, <1>2, <1>5 DEF FileInv, Published, Closed, Writing, file
<1>9. \A s \in {metas[0], metas[1]} :
        s.root = NoPage \/ \E r \in m.free : r.page = s.root /\ r.txn > s.txn
  <2> SUFFICES ASSUME NEW s \in {metas[0], metas[1]}
               PROVE  s.root = NoPage \/ \E r \in m.free : r.page = s.root /\ r.txn > s.txn
    OBVIOUS
  <2>1. s \in Meta /\ s.txn <= N.txn /\ s.txn \in Nat
    BY TypeFacts DEF FileInv
  <2>2. Kept(s, N) /\ s.txn + 1 >= N.txn
    BY DEF FileInv, Durable
  <2>3. id[w] - 1 \in Needed(w) /\ id[w] - 1 <= s.txn + 1
    BY <1>4, <2>1, <2>2 DEF Needed
  <2> QED BY <2>1, <2>2, <2>3, AllocateKeeps
<1>10. \A v \in Worker : pc[v] = "reading" =>
         \/ snap[v].root = NoPage
         \/ \E r \in m.free : r.page = snap[v].root /\ r.txn > snap[v].txn
  <2> SUFFICES ASSUME NEW v \in Worker, pc[v] = "reading"
               PROVE  \/ snap[v].root = NoPage
                      \/ \E r \in m.free : r.page = snap[v].root /\ r.txn > snap[v].txn
    OBVIOUS
  <2>1. snap[v] \in Meta /\ snap[v].txn \in Nat /\ id[v] \in Nat
    BY TypeFacts DEF FileInv, Meta
  <2>2. Kept(snap[v], N) /\ snap[v].txn <= N.txn /\ snap[v].txn >= id[v]
    BY DEF FileInv, Reading
  <2>3. slot[v] \in 1..readers /\ slots[slot[v]].used /\ slots[slot[v]].txn = id[v]
    BY DEF FileInv, Registered, CacheFileTypeOK
  <2>4. id[v] \in Needed(w) /\ id[v] <= snap[v].txn + 1
    BY <2>1, <2>2, <2>3 DEF Needed
  <2> QED BY <2>1, <2>2, <2>4, AllocateKeeps
<1>11. \A r \in m.free : r.page <= m.last /\ r.page # t
  <2>1. m.last \in Nat /\ \A r \in N.free : r.page \in Page /\ r.page <= N.last /\ r.page # N.root
    BY <1>3, <1>4 DEF Meta, FreeRecord, GoodMeta
  <2>2. \A r \in N.free \ taken : r.page <= m.last /\ r.page # t
    BY <1>3, <1>4, <2>1 DEF GoodMeta, Page
  <2>3. \A r \in freed : r.page <= m.last /\ r.page # t
    <3> SUFFICES ASSUME N.root # NoPage PROVE N.root <= m.last /\ N.root # t
      OBVIOUS
    <3> HIDE DEF m, t, freed
    <3> QED BY <1>3, <1>4, <2>1 DEF GoodMeta, Page
  <2> HIDE DEF m, t, freed
  <2> QED BY <1>3, <2>2, <2>3
<1>12. \A r, s \in m.free : r.page = s.page => r = s
  <2>1. \A r \in freed : r = [txn |-> id[w], page |-> N.root] /\ N.root # NoPage
    OBVIOUS
  <2> HIDE DEF m, t, freed
  <2>2. \A r \in N.free, s \in freed : r.page # s.page
    BY <1>4, <2>1 DEF GoodMeta
  <2> QED BY <1>3, <1>4, <2>1, <2>2 DEF GoodMeta
<1>13. GoodMeta(Draft(w)')
  <2>1. /\ Draft(w)'.last = m.last /\ Draft(w)'.root = t /\ Draft(w)'.free = m.free
        /\ Draft(w)'.txn = id[w] /\ Draft(w)'.data.txn = id[w]
    BY <1>1 DEF Draft
  <2> HIDE DEF m, t, freed
  <2>2. m.last >= 1 /\ t <= m.last
    <3>1. m.last \in Nat /\ \A r \in N.free : r.page \in Page /\ r.page <= N.last
      BY <1>3, <1>4 DEF Meta, FreeRecord, GoodMeta
    <3> QED BY <1>3, <1>4, <3>1 DEF GoodMeta, Page
  <2> QED BY <1>4, <1>11, <1>12, <2>1, <2>2 DEF GoodMeta
<1>14. Drafted'
  <2>1. /\ Draft(w)'.root = t /\ Draft(w)'.free = m.free
        /\ t # NoPage
    BY <1>1, <1>3, CacheFileAssumption DEF Draft, Page, NoPage
  <2>2. \A v \in Worker : pc'[v] = "reading" => v # w /\ pc[v] = "reading" /\ snap'[v] = snap[v]
    BY <1>2, <1>3
  <2> HIDE DEF m, freed
  <2>3. \A i \in {0, 1} : Kept(metas[i], Draft(w)') /\ metas[i].root # t
    BY <1>9, <1>11, <2>1 DEF Kept
  <2>4. \A v \in Worker : pc'[v] = "reading" =>
          Kept(snap'[v], Draft(w)') /\ snap'[v].root # t
    BY <1>10, <1>11, <2>1, <2>2 DEF Kept
  <2>5. \A v \in Worker : pc'[v] \in Writing => v = w
    BY <1>2
  <2>6. metas' = metas
    BY <1>1 DEF file
  <2> QED BY <1>2, <1>13, <2>1, <2>3, <2>4, <2>5, <2>6
          DEF Drafted, Drafting, Writing, Kept, GoodMeta
<1>15. Registered'
  BY <1>1, <1>2 DEF FileInv, Registered, Closed, table
<1>16. Reading'
  <2>1. \A v \in Worker : pc'[v] \in {"copy", "reading"} => v # w
    BY <1>2
  <2> QED BY <1>1, <1>2, <1>3, <2>1, ReadingKept DEF FileInv
<1> QED BY <1>5, <1>6, <1>7, <1>8, <1>14, <1>15, <1>16 DEF FileInv

\* The page that the writer writes belongs to no version that is still there.
LEMMA FlushInv ==
  ASSUME FileInv, NEW w \in Worker, Flush(w) PROVE FileInv'
<1> DEFINE t == target[w]
           data == [txn |-> id[w], by |-> w]
<1>1. /\ pc[w] = "flush" /\ pc' = [pc EXCEPT ![w] = "sync"]
      /\ page' = [page EXCEPT ![t] = data]
      /\ UNCHANGED <<disk, metas, txnid, holder, table, id, snap, target>>
  BY DEF Flush, Step
<1>2. /\ pc'[w] = "sync" /\ \A v \in Worker \ {w} : pc'[v] = pc[v]
      /\ \A v \in Worker \ {w} : pc[v] \notin Writing
  BY <1>1, WriterStep DEF Writing
<1>3. /\ t \in Page /\ data \in Content
      /\ \A i \in {0, 1} : metas[i].root # t
      /\ \A v \in Worker : pc[v] = "reading" => snap[v].root # t
  BY <1>1 DEF FileInv, Drafted, Drafting, CacheFileTypeOK, Content
<1>4. page \in [Page -> Content] /\ N' = N
  BY <1>1 DEF FileInv, CacheFileTypeOK, N, Newest
<1> HIDE DEF t, data
<1>5. page'[t] = data /\ \A p \in Page : p # t => page'[p] = page[p]
  BY <1>1, <1>3, <1>4
<1>6. CacheFileTypeOK'
  BY <1>1, <1>3 DEF FileInv, CacheFileTypeOK, table
<1>7. Session'
  BY <1>1, <1>2, SessionKept DEF FileInv, Closed, Writing
<1>8. Durable'
  <2>1. \A i \in {0, 1} : metas[i].root \in Page \cup {NoPage}
    BY TypeFacts DEF FileInv, Meta
  <2> QED BY <1>1, <1>3, <1>4, <1>5, <2>1 DEF FileInv, Durable, Kept, GoodMeta
<1>9. Published'
  BY <1>1, <1>2, <1>4 DEF FileInv, Published, Closed, Writing
<1>10. Drafted'
  <2>1. \A v \in Worker : pc'[v] \in Writing => v = w
    BY <1>2
  <2>2. Draft(w)' = Draft(w) /\ Draft(w).data = data
    BY <1>1 DEF Draft, data
  <2>3. \A v \in Worker : pc'[v] = "reading" => pc[v] = "reading"
    BY <1>2
  <2> QED BY <1>1, <1>2, <1>5, <2>1, <2>2, <2>3
          DEF FileInv, Drafted, Drafting, Writing, Kept, GoodMeta, t
<1>11. Registered'
  BY <1>1, <1>2 DEF FileInv, Registered, Closed, table
<1>12. Reading'
  <2>1. \A v \in Worker : snap[v].root \in Page \cup {NoPage}
    BY TypeFacts DEF FileInv, Meta
  <2>2. \A v \in Worker : pc'[v] \in {"copy", "reading"} => pc'[v] = pc[v]
    BY <1>2
  <2> QED BY <1>1, <1>3, <1>4, <1>5, <2>1, <2>2 DEF FileInv, Reading, Kept
<1> QED BY <1>6, <1>7, <1>8, <1>9, <1>10, <1>11, <1>12 DEF FileInv

LEMMA SyncInv ==
  ASSUME FileInv, NEW w \in Worker, Sync(w) PROVE FileInv'
<1>1. /\ pc[w] = "sync" /\ pc' = [pc EXCEPT ![w] = "meta"]
      /\ disk' = page
      /\ UNCHANGED <<page, metas, txnid, holder, table, id, snap, target>>
  BY DEF Sync, Step
<1>2. /\ pc'[w] = "meta" /\ \A v \in Worker \ {w} : pc'[v] = pc[v]
      /\ \A v \in Worker \ {w} : pc[v] \notin Writing
  BY <1>1, WriterStep DEF Writing
<1>3. N' = N
  BY <1>1 DEF N, Newest
<1>4. CacheFileTypeOK'
  BY <1>1 DEF FileInv, CacheFileTypeOK, table
<1>5. Session'
  BY <1>1, <1>2, SessionKept DEF FileInv, Closed, Writing
<1>6. Durable'
  BY <1>1, <1>3 DEF FileInv, Durable, Kept, GoodMeta
<1>7. Published'
  BY <1>1, <1>2, <1>3 DEF FileInv, Published, Closed, Writing
<1>8. Drafted'
  <2>1. \A v \in Worker : pc'[v] \in Writing => v = w
    BY <1>2
  <2>2. Draft(w)' = Draft(w)
    BY <1>1 DEF Draft
  <2>3. \A v \in Worker : pc'[v] = "reading" => pc[v] = "reading"
    BY <1>2
  <2> QED BY <1>1, <1>2, <2>1, <2>2, <2>3
          DEF FileInv, Drafted, Drafting, Writing, Kept, GoodMeta
<1>9. Registered'
  BY <1>1, <1>2 DEF FileInv, Registered, Closed, table
<1>10. Reading'
  <2>1. \A v \in Worker : pc'[v] \in {"copy", "reading"} => pc'[v] = pc[v]
    BY <1>2
  <2> QED BY <1>1, <1>3, <2>1 DEF FileInv, Reading, Kept
<1> QED BY <1>4, <1>5, <1>6, <1>7, <1>8, <1>9, <1>10 DEF FileInv

\* The draft becomes the newest version, in the place of the older of the two.
LEMMA WriteMetaFacts ==
  ASSUME FileInv, NEW w \in Worker, WriteMeta(w)
  PROVE  /\ metas' = [metas EXCEPT ![Turn(id[w])] = Draft(w)]
         /\ Draft(w) \in Meta /\ N' = Draft(w) /\ id[w] = N.txn + 1
         /\ \A i \in {0, 1} : metas'[i] = Draft(w) \/ (metas'[i] = metas[i] /\ metas[i] = N)
         /\ metas'[Turn(id[w])] = Draft(w) /\ metas'[Turn(txnid)] = N
<1>1. pc[w] = "meta" /\ metas' = [metas EXCEPT ![Turn(id[w])] = Draft(w)]
  BY DEF WriteMeta, Step, Draft
<1>2. id[w] = N.txn + 1 /\ txnid = N.txn /\ metas[Turn(txnid)] = N /\ txnid \in Nat
  BY <1>1, TurnNewest, TypeFacts DEF FileInv, Published, Writing
<1>3. Turn(id[w]) \in {0, 1} /\ Turn(txnid) \in {0, 1} /\ Turn(id[w]) # Turn(txnid)
  BY <1>2, Turns
<1>4. Draft(w) \in Meta
  <2>1. target[w] \in Page \cup {NoPage} /\ snap[w] \in Meta /\ id[w] \in Nat
    BY TypeFacts DEF FileInv, CacheFileTypeOK
  <2> QED BY <2>1 DEF Draft, Meta, Content
<1>5. metas \in [{0, 1} -> Meta]
  BY DEF FileInv, CacheFileTypeOK
<1>6. metas'[Turn(id[w])] = Draft(w) /\ metas'[Turn(txnid)] = N
  BY <1>1, <1>2, <1>3, <1>5
<1>7. \A i \in {0, 1} : i = Turn(id[w]) \/ i = Turn(txnid)
  BY <1>3
<1>8. \A i \in {0, 1} : metas'[i] = Draft(w) \/ (metas'[i] = metas[i] /\ metas[i] = N)
  BY <1>2, <1>6, <1>7
<1>9. N' = Draft(w)
  <2>1. Draft(w).txn = N.txn + 1 /\ N.txn \in Nat
    BY <1>2 DEF Draft
  <2>2. CASE Turn(id[w]) = 0
    <3>1. metas'[0] = Draft(w) /\ metas'[1] = N
      BY <1>3, <1>6, <2>2
    <3> QED BY <2>1, <3>1 DEF N, Newest
  <2>3. CASE Turn(id[w]) = 1
    <3>1. metas'[1] = Draft(w) /\ metas'[0] = N
      BY <1>3, <1>6, <2>3
    <3> QED BY <2>1, <3>1 DEF N, Newest
  <2> QED BY <1>3, <2>2, <2>3
<1> QED BY <1>1, <1>2, <1>4, <1>6, <1>8, <1>9

LEMMA WriteMetaInv ==
  ASSUME FileInv, NEW w \in Worker, WriteMeta(w) PROVE FileInv'
<1> DEFINE d == Draft(w)
<1>1. /\ pc[w] = "meta" /\ pc' = [pc EXCEPT ![w] = "publish"]
      /\ UNCHANGED <<page, disk, txnid, holder, table, id, snap, target>>
  BY DEF WriteMeta, Step
<1>2. /\ pc'[w] = "publish" /\ \A v \in Worker \ {w} : pc'[v] = pc[v]
      /\ \A v \in Worker \ {w} : pc[v] \notin Writing
  BY <1>1, WriterStep DEF Writing
<1>3. /\ metas' = [metas EXCEPT ![Turn(id[w])] = d]
      /\ d \in Meta /\ N' = d /\ id[w] = N.txn + 1
      /\ \A i \in {0, 1} : metas'[i] = d \/ (metas'[i] = metas[i] /\ metas[i] = N)
      /\ metas'[Turn(id[w])] = d /\ metas'[Turn(txnid)] = N
  BY WriteMetaFacts
<1>4. /\ d.txn = id[w] /\ d.root = target[w] /\ d.free = snap[w].free
      /\ d.last = snap[w].last /\ d.txn \in Nat /\ N.txn \in Nat /\ txnid = N.txn
  BY <1>1, TypeFacts DEF Draft, FileInv, Published, Writing
<1>5. /\ GoodMeta(d)
      /\ \A i \in {0, 1} : Kept(metas[i], d)
      /\ \A v \in Worker : pc[v] = "reading" => Kept(snap[v], d)
      /\ page[d.root] = d.data /\ disk[d.root] = d.data
  BY <1>1, <1>4 DEF FileInv, Drafted, Drafting
<1>6. \A i \in {0, 1} : metas'[i] # metas[i] => metas'[i] = d /\ i = Turn(d.txn)
  <2>1. metas \in [{0, 1} -> Meta]
    BY DEF FileInv, CacheFileTypeOK
  <2> HIDE DEF d
  <2> QED BY <1>3, <1>4, <2>1
<1> HIDE DEF d
<1>7. CacheFileTypeOK'
  BY <1>1, <1>3 DEF FileInv, CacheFileTypeOK, table
<1>8. Session'
  BY <1>1, <1>2, SessionKept DEF FileInv, Closed, Writing
<1>9. Durable'
  <2>1. metas'[0].txn % 2 = 0 /\ (metas'[1].txn % 2 = 1 \/ metas'[1].txn = 0)
    <3>1. metas'[0] = metas[0] \/ (metas'[0] = d /\ d.txn % 2 = 0)
      BY <1>6 DEF Turn
    <3>2. metas'[1] = metas[1] \/ (metas'[1] = d /\ d.txn % 2 = 1)
      BY <1>6 DEF Turn
    <3> QED BY <3>1, <3>2 DEF FileInv, Durable
  <2>2. ASSUME NEW i \in {0, 1}
        PROVE  /\ GoodMeta(metas'[i])
               /\ metas'[i].txn + 1 >= d.txn
               /\ Kept(metas'[i], d)
               /\ metas'[i].root # NoPage =>
                    page[metas'[i].root] = metas'[i].data
                    /\ disk[metas'[i].root] = metas'[i].data
    <3>1. CASE metas'[i] = d
      BY <1>4, <1>5, <3>1 DEF Kept
    <3>2. CASE metas'[i] = metas[i] /\ metas[i] = N
      BY <1>3, <1>4, <1>5, <3>2 DEF FileInv, Durable
    <3> QED BY <1>3, <3>1, <3>2
  <2> QED BY <1>1, <1>3, <2>1, <2>2 DEF Durable, GoodMeta, Kept
<1>10. Published'
  <2>1. \A v \in Worker : pc'[v] \in Writing => v = w
    BY <1>2
  <2> QED BY <1>1, <1>2, <1>3, <1>4, <2>1 DEF Published, Writing
<1>11. Drafted'
  BY <1>2 DEF Drafted, Drafting, Writing
<1>12. Registered'
  BY <1>1, <1>2 DEF FileInv, Registered, Closed, table
<1>13. Reading'
  <2>1. \A v \in Worker : pc'[v] \in {"copy", "reading"} => pc'[v] = pc[v]
    BY <1>2
  <2>2. ASSUME NEW v \in Worker, pc[v] = "copy" PROVE metas'[Turn(id[v])].txn >= id[v]
    <3>1. Turn(id[v]) \in {0, 1} /\ id[v] \in Nat
      BY TypeFacts, Turns DEF FileInv
    <3>2. /\ metas[Turn(id[v])].txn >= id[v] /\ metas[Turn(id[v])].txn \in Nat
          /\ metas[Turn(id[v])].txn <= N.txn
      BY <2>2, <3>1, TypeFacts DEF FileInv, Reading
    <3>3. metas'[Turn(id[v])] = d \/ metas'[Turn(id[v])] = metas[Turn(id[v])]
      BY <1>3, <3>1
    <3> QED BY <1>3, <1>4, <3>1, <3>2, <3>3
  <2>3. ASSUME NEW v \in Worker, pc[v] = "reading"
        PROVE  snap[v].txn <= d.txn
    <3>1. snap[v].txn \in Nat /\ snap[v].txn <= N.txn
      BY <2>3, TypeFacts DEF FileInv, Reading, Meta
    <3> QED BY <1>3, <1>4, <3>1
  <2>4. \A v \in Worker :
          /\ pc'[v] = "copy" => metas'[Turn(id[v])].txn >= id[v]
          /\ pc'[v] = "reading" =>
               /\ snap[v].txn >= id[v] /\ snap[v].txn <= d.txn
               /\ Kept(snap[v], d)
               /\ snap[v].root # NoPage => page[snap[v].root] = snap[v].data
    BY <1>5, <2>1, <2>2, <2>3 DEF FileInv, Reading
  <2> QED BY <1>1, <1>3, <2>4 DEF Reading, Kept
<1> QED BY <1>7, <1>8, <1>9, <1>10, <1>11, <1>12, <1>13 DEF FileInv

-----------------------------------------------------------------------------
(* The theorems *)

LEMMA FileNextInv == FileInv /\ Orderly /\ Orderly' /\ [Next]_vars => FileInv'
<1> SUFFICES ASSUME FileInv, Orderly, Orderly', [Next]_vars PROVE FileInv'
  OBVIOUS
<1>1. CASE UNCHANGED vars
  <2>1. UNCHANGED file /\ N' = N /\ \A w : Draft(w)' = Draft(w)
    BY <1>1 DEF vars, file, N, Newest, Draft
  <2>2. Durable'
    BY <2>1, DurableKept DEF FileInv
  <2>3. CacheFileTypeOK'
    BY <1>1 DEF vars, FileInv, CacheFileTypeOK
  <2>4. Session' /\ Published' /\ Registered'
    BY <1>1, <2>1 DEF vars, FileInv, Session, Published, Registered
  <2>5. Drafted'
    BY <1>1, <2>1, DraftedKept DEF vars, FileInv
  <2>6. Reading'
    BY <1>1, <2>1, ReadingKept DEF vars, FileInv
  <2> QED BY <2>2, <2>3, <2>4, <2>5, <2>6 DEF FileInv
<1>2. CASE Kill \/ PowerLoss
  BY <1>2, KillInv, PowerLossInv
<1>3. ASSUME NEW w \in Worker, SetupLocks(w) \/ ShareLocks(w) \/ Close(w)
      PROVE  FileInv'
  BY <1>3, SetupLocksInv, ShareLocksInv, CloseInv
<1>4. ASSUME NEW w \in Worker, Read(w) PROVE FileInv'
  BY <1>4, BeginReadInv, ClaimSlotInv, StoreTxnInv, CheckTxnInv, CopyMetaInv,
     EndReadInv DEF Read
<1>5. ASSUME NEW w \in Worker, Write(w) PROVE FileInv'
  BY <1>5, BeginWriteInv, AllocateInv, MapFullInv, FlushInv, SyncInv, WriteMetaInv,
     PublishInv DEF Write
<1> QED BY <1>1, <1>2, <1>3, <1>4, <1>5 DEF Next

\* The invariant of the file, as long as threads share the environment or keep
\* apart (api.cpp:19-24 ensures neither): the pages of both meta pages are in the
\* file and on the disk, and no writer takes the page of a version that a reader or
\* a meta page still names (mdb.c:2036-2253, 2630-2730, 3521-3844).
THEOREM FileInvCorrect == CacheFileSpec /\ []Orderly => []FileInv
BY InitInv, FileNextInv, PTL DEF CacheFileSpec

\* In particular, with one environment or with accesses kept apart, no step takes a
\* page, a slot or a transaction out of its range.
THEOREM CacheFileTypeCorrect == CacheFileSpec /\ []Orderly => []CacheFileTypeOK
<1>1. FileInv => CacheFileTypeOK
  BY DEF FileInv
<1> QED BY <1>1, FileInvCorrect, PTL

\* With one environment writers wait for each other (mdb.c:2693-2697), for any
\* number of threads; without it, only if their accesses do not overlap, which the
\* run cache_writers shows to be needed.
THEOREM OneWriterCorrect == CacheFileSpec /\ []Orderly => []OneWriter
<1>1. FileInv => OneWriter
  BY DEF FileInv, Session, Writing, OneWriter
<1> QED BY <1>1, FileInvCorrect, PTL

\* With one environment, and so with one table of readers that every writer looks
\* at, a reader keeps the version it began with while any number of writers commit
\* and reuse pages (mdb_txn_renew0, mdb_find_oldest).  With an environment for each
\* access (api.cpp:19-24) it does so if accesses do not overlap.
THEOREM SnapshotKeptCorrect == CacheFileSpec /\ []Orderly => []SnapshotKept
<1>1. FileInv => SnapshotKept
  BY DEF FileInv, Reading, SnapshotKept
<1> QED BY <1>1, FileInvCorrect, PTL

\* With one environment, or with accesses that each open the file and do not overlap
\* (api.cpp:19-24), the newest version is whole whenever the power goes:
\* mdb_txn_commit syncs the pages before it writes the meta page.
THEOREM CrashSafeCorrect == CacheFileSpec /\ []Orderly => []CrashSafe
<1>1. FileInv => CrashSafe
  BY TypeFacts DEF FileInv, Durable, CrashSafe, N
<1> QED BY <1>1, FileInvCorrect, PTL

\* With one environment, or with accesses that each open the file and do not overlap
\* (api.cpp:19-24), no commit is lost when the process is killed, when the power
\* goes or when the file is opened again: it goes on from one transaction to the
\* next (mdb_env_write_meta, mdb_env_share_locks).  Of two accesses that overlap,
\* each with its own environment, nothing is claimed.
THEOREM NothingLostCorrect == CacheFileSpec /\ []Orderly => NothingLost
<1> DEFINE Onward ==
      Newest(metas').data # Newest(metas).data =>
        Newest(metas').data.txn = Newest(metas).data.txn + 1
<1>1. FileInv /\ [Next]_vars => [Onward]_vars
  <2> SUFFICES ASSUME FileInv, [Next]_vars PROVE Onward
    OBVIOUS
  <2>1. CASE metas' = metas
    BY <2>1
  <2>2. ASSUME NEW w \in Worker, WriteMeta(w) PROVE Onward
    <3>1. N' = Draft(w) /\ id[w] = N.txn + 1
      BY <2>2, WriteMetaFacts
    <3>2. N.data.txn = N.txn
      BY TypeFacts DEF FileInv, Durable, GoodMeta
    <3>3. Newest(metas') = Draft(w) /\ Newest(metas) = N
      BY <3>1 DEF N
    <3>4. Draft(w).data.txn = id[w]
      BY DEF Draft
    <3> QED BY <3>1, <3>2, <3>3, <3>4
  <2>3. metas' = metas \/ \E w \in Worker : WriteMeta(w)
    BY DEF Next, vars, Kill, PowerLoss, file, SetupLocks, ShareLocks, Close, Read,
           BeginRead, ClaimSlot, StoreTxn, CheckTxn, CopyMeta, EndRead, Write,
           BeginWrite, Allocate, MapFull, Flush, Sync, Publish
  <2> QED BY <2>1, <2>2, <2>3
<1>2. CacheFileSpec /\ []Orderly => [][Onward]_vars
  BY <1>1, FileInvCorrect, PTL DEF CacheFileSpec
<1> QED BY <1>2 DEF NothingLost

-----------------------------------------------------------------------------
(* The file is a store of versions *)

\* A meta page without a root is that of the file never written.
Blank == \A i \in {0, 1} : metas[i].root = NoPage => metas[i].data = Empty

Busy == {"slot", "store", "check", "copy", "reading"}

LEMMA BlankInit == Init => Blank
BY DEF Init, Blank, FirstMeta

LEMMA MetasChange ==
  ASSUME [Next]_vars PROVE metas' = metas \/ \E w \in Worker : WriteMeta(w)
BY DEF Next, vars, Kill, PowerLoss, file, SetupLocks, ShareLocks, Close, Read,
       BeginRead, ClaimSlot, StoreTxn, CheckTxn, CopyMeta, EndRead, Write,
       BeginWrite, Allocate, MapFull, Flush, Sync, Publish

LEMMA BlankNext ==
  ASSUME FileInv, Blank, [Next]_vars PROVE Blank'
<1>1. CASE metas' = metas
  BY <1>1 DEF Blank
<1>2. ASSUME NEW w \in Worker, WriteMeta(w) PROVE Blank'
  <2>1. \A i \in {0, 1} : metas'[i] = Draft(w) \/ metas'[i] = metas[i]
    BY <1>2, WriteMetaFacts
  <2>2. Draft(w).root # NoPage
    BY <1>2 DEF FileInv, Drafted, Drafting, WriteMeta, Step, Draft
  <2> QED BY <2>1, <2>2 DEF Blank
<1> QED BY <1>1, <1>2, MetasChange

\* What the file and the disk hold is what the meta pages say.
LEMMA Held ==
  ASSUME FileInv, Blank
  PROVE  /\ \A i \in {0, 1} : /\ Holds(page, metas[i]) = metas[i].data
                              /\ Holds(disk, metas[i]) = metas[i].data
         /\ {Newest(metas), Older(metas)} = {metas[0], metas[1]}
         /\ Holds(disk, Newest(metas)) = Newest(metas).data
         /\ Holds(disk, Older(metas)) = Older(metas).data
<1>1. \A i \in {0, 1} : /\ Holds(page, metas[i]) = metas[i].data
                        /\ Holds(disk, metas[i]) = metas[i].data
  BY DEF FileInv, Durable, Blank, Holds
<1>2. \/ Newest(metas) = metas[0] /\ Older(metas) = metas[1]
      \/ Newest(metas) = metas[1] /\ Older(metas) = metas[0]
  BY DEF Newest, Older
<1> QED BY <1>1, <1>2

\* Until a meta page is written, the store is the same.
LEMMA SameStore ==
  ASSUME FileInv, Blank, FileInv', Blank', metas' = metas
  PROVE  /\ Holds(disk, Newest(metas))' = Holds(disk, Newest(metas))
         /\ Holds(disk, Older(metas))' = Holds(disk, Older(metas))
<1>1. /\ Holds(disk, Newest(metas)) = Newest(metas).data
      /\ Holds(disk, Older(metas)) = Older(metas).data
  BY Held
<1>2. \A i \in {0, 1} : Holds(disk', metas'[i]) = metas'[i].data
  BY DEF FileInv, Durable, Blank, Holds
<1>3. Newest(metas) \in {metas[0], metas[1]} /\ Older(metas) \in {metas[0], metas[1]}
  BY Held
<1>4. /\ Holds(disk', Newest(metas)) = Newest(metas).data
      /\ Holds(disk', Older(metas)) = Older(metas).data
  BY <1>2, <1>3
<1> QED BY <1>1, <1>4 DEF Newest, Older, Holds

\* What a reader finds depends on nothing but the version it copied.
LEMMA FoundKept ==
  ASSUME FileInv, FileInv', NEW v \in Worker,
         pc'[v] = "reading", pc[v] = "reading", snap'[v] = snap[v]
  PROVE  Holds(page', snap'[v]) = Holds(page, snap[v])
<1>1. snap[v].root # NoPage => page[snap[v].root] = snap[v].data
  BY DEF FileInv, Reading
<1>2. snap'[v].root # NoPage => page'[snap'[v].root] = snap'[v].data
  BY DEF FileInv, Reading
<1> QED BY <1>1, <1>2 DEF Holds

LEMMA ReadKept ==
  ASSUME FileInv, FileInv', NEW v \in Worker,
         pc'[v] \in Busy <=> pc[v] \in Busy,
         pc'[v] = "reading" <=> pc[v] = "reading",
         pc[v] \in Busy => id'[v] = id[v],
         pc[v] = "reading" => snap'[v] = snap[v]
  PROVE  ReadOf(v)' = ReadOf(v)
<1>1. CASE pc[v] = "reading"
  BY <1>1, FoundKept DEF ReadOf, Busy, Holds
<1>2. CASE pc[v] # "reading"
  BY <1>2 DEF ReadOf, Busy
<1> QED BY <1>1, <1>2

Reads == [w \in Worker |-> ReadOf(w)]

LEMMA AllReadsKept ==
  ASSUME FileInv, FileInv',
         \A v \in Worker : /\ pc'[v] \in Busy <=> pc[v] \in Busy
                           /\ pc'[v] = "reading" <=> pc[v] = "reading"
                           /\ pc[v] \in Busy => id'[v] = id[v]
                           /\ pc[v] = "reading" => snap'[v] = snap[v]
  PROVE  Reads' = Reads
<1>1. \A v \in Worker : ReadOf(v)' = ReadOf(v)
  BY ReadKept
<1> QED BY <1>1 DEF Reads

\* A step of one thread changes no read but its own.
LEMMA OneRead ==
  ASSUME FileInv, FileInv', NEW w \in Worker, NEW to, pc' = [pc EXCEPT ![w] = to],
         \A v \in Worker \ {w} : id'[v] = id[v] /\ snap'[v] = snap[v]
  PROVE  /\ Reads[w] = ReadOf(w)
         /\ Reads' = [Reads EXCEPT ![w] = ReadOf(w)']
<1>1. \A v \in Worker \ {w} : pc'[v] = pc[v]
  BY DEF FileInv, CacheFileTypeOK
<1>2. \A v \in Worker \ {w} : ReadOf(v)' = ReadOf(v)
  BY <1>1, ReadKept
<1> QED BY <1>2 DEF Reads

-----------------------------------------------------------------------------
(* Every step of the file is one of the store, or none *)

StoreInv == FileInv /\ Blank

\* What the store sees of a thread that does not read, ...
LEMMA Resting ==
  ASSUME NEW v \in Worker
  PROVE  /\ pc[v] \notin Busy => ReadOf(v) = Store!NoRead
         /\ pc'[v] \notin Busy => ReadOf(v)' = Store!NoRead
<1>1. ASSUME pc[v] \notin Busy PROVE ReadOf(v) = Store!NoRead
  <2>1. (pc[v] \in Busy) = FALSE /\ pc[v] # "reading"
    BY <1>1 DEF Busy
  <2> QED BY <2>1 DEF ReadOf, Busy, Store!NoRead
<1>2. ASSUME pc'[v] \notin Busy PROVE ReadOf(v)' = Store!NoRead
  <2>1. (pc'[v] \in Busy) = FALSE /\ pc'[v] # "reading"
    BY <1>2 DEF Busy
  <2> QED BY <2>1 DEF ReadOf, Busy, Store!NoRead
<1> QED BY <1>1, <1>2

\* ... of one that has begun to, ...
LEMMA Looking ==
  ASSUME NEW v \in Worker
  PROVE  /\ pc[v] \in Busy \ {"reading"} =>
              ReadOf(v) = [busy |-> TRUE, from |-> id[v], found |-> {}]
         /\ pc'[v] \in Busy \ {"reading"} =>
              ReadOf(v)' = [busy |-> TRUE, from |-> id'[v], found |-> {}]
<1>1. ASSUME pc[v] \in Busy \ {"reading"}
      PROVE  ReadOf(v) = [busy |-> TRUE, from |-> id[v], found |-> {}]
  <2>1. (pc[v] \in Busy) = TRUE /\ pc[v] # "reading"
    BY <1>1
  <2> QED BY <2>1 DEF ReadOf, Busy
<1>2. ASSUME pc'[v] \in Busy \ {"reading"}
      PROVE  ReadOf(v)' = [busy |-> TRUE, from |-> id'[v], found |-> {}]
  <2>1. (pc'[v] \in Busy) = TRUE /\ pc'[v] # "reading"
    BY <1>2
  <2> QED BY <2>1 DEF ReadOf, Busy
<1> QED BY <1>1, <1>2

\* ... and of one that has its version.
LEMMA Finding ==
  ASSUME NEW v \in Worker
  PROVE  /\ pc[v] = "reading" =>
              ReadOf(v) = [busy |-> TRUE, from |-> id[v], found |-> {Holds(page, snap[v])}]
         /\ pc'[v] = "reading" =>
              ReadOf(v)' = [busy |-> TRUE, from |-> id'[v],
                            found |-> {Holds(page', snap'[v])}]
<1>1. ASSUME pc[v] = "reading"
      PROVE  ReadOf(v) = [busy |-> TRUE, from |-> id[v], found |-> {Holds(page, snap[v])}]
  <2>1. (pc[v] \in Busy) = TRUE
    BY <1>1 DEF Busy
  <2> QED BY <1>1, <2>1 DEF ReadOf, Busy
<1>2. ASSUME pc'[v] = "reading"
      PROVE  ReadOf(v)' = [busy |-> TRUE, from |-> id'[v],
                           found |-> {Holds(page', snap'[v])}]
  <2>1. (pc'[v] \in Busy) = TRUE
    BY <1>2 DEF Busy
  <2> QED BY <1>2, <2>1 DEF ReadOf, Busy, Holds
<1> QED BY <1>1, <1>2

LEMMA StoreInitMaps == Init => Store!StoreInit
<1> SUFFICES ASSUME Init PROVE Store!StoreInit
  OBVIOUS
<1>1. \A i \in {0, 1} : metas[i].root = NoPage
  BY DEF Init, FirstMeta
<1>2. Newest(metas).root = NoPage /\ Older(metas).root = NoPage
  BY <1>1 DEF Newest, Older
<1>3. \A w \in Worker : ReadOf(w) = Store!NoRead
  BY Resting DEF Init, Busy
<1> QED BY <1>2, <1>3 DEF Init, Holds, Store!StoreInit

\* A step that changes nothing the store knows of.
LEMMA Unseen ==
  ASSUME StoreInv, StoreInv', metas' = metas, txnid' = txnid, Reads' = Reads
  PROVE  UNCHANGED Store!storeVars
BY SameStore DEF StoreInv, Store!storeVars, Reads

\* The process ends or begins.
LEMMA StopMaps ==
  ASSUME StoreInv, StoreInv', metas' = metas, txnid' = 0,
         \A v \in Worker : pc'[v] \in Closed
  PROVE  Store!Stop
<1>1. \A w \in Worker : ReadOf(w)' = Store!NoRead
  BY Resting DEF Closed, Busy
<1> QED BY <1>1, SameStore DEF StoreInv, Store!Stop

LEMMA OpenMaps ==
  ASSUME Orderly, Orderly', StoreInv, StoreInv', NEW w \in Worker,
         SetupLocks(w) \/ ShareLocks(w) \/ Close(w)
  PROVE  Store!Stop \/ Store!Return \/ UNCHANGED Store!storeVars
<1>1. CASE SetupLocks(w)
  <2>1. /\ \A v \in Worker : pc'[v] \in Closed
        /\ txnid' = 0 /\ metas' = metas
    BY <1>1, Opening DEF SetupLocks, file, StoreInv, FileInv
  <2> QED BY <2>1, StopMaps
<1>2. CASE ShareLocks(w)
  <2>1. /\ \A v \in Worker : pc[v] \in Closed /\ pc'[v] \in {"closed", "open"}
        /\ txnid' = N.txn /\ metas' = metas
    BY <1>2, Opened DEF ShareLocks, N, file, StoreInv, FileInv
  <2>2. Reads' = Reads
    BY <2>1, AllReadsKept DEF StoreInv, Busy, Closed
  <2>3. Holds(disk, Newest(metas)).txn = N.txn
    BY Held, TypeFacts DEF StoreInv, FileInv, Durable, GoodMeta, N
  <2> QED BY <2>1, <2>2, <2>3, SameStore DEF StoreInv, Store!Return, Reads
<1>3. CASE Close(w)
  <2>1. /\ \A v \in Worker : pc[v] \in {"closed", "open", "ended"} /\ pc'[v] = "closed"
        /\ txnid' = txnid /\ metas' = metas
    BY <1>3, Closing DEF Close, file, StoreInv, FileInv
  <2>2. Reads' = Reads
    BY <2>1, AllReadsKept DEF StoreInv, Busy
  <2> QED BY <2>1, <2>2, Unseen
<1> QED BY <1>1, <1>2, <1>3

\* A read begins, and begins anew until no save returned in between.
LEMMA StartReadMaps ==
  ASSUME StoreInv, StoreInv', NEW w \in Worker,
         BeginRead(w) \/ ClaimSlot(w) \/ CheckTxn(w)
  PROVE  Store!StartRead(w)
<1>1. PICK to \in Busy \ {"reading"} : pc' = [pc EXCEPT ![w] = to]
  BY DEF BeginRead, ClaimSlot, CheckTxn, Step, Busy
<1>2. /\ pc[w] = "open" \/ pc[w] \in Busy \ {"reading"}
      /\ id' = [id EXCEPT ![w] = txnid]
      /\ UNCHANGED <<metas, txnid, snap>>
  BY DEF BeginRead, ClaimSlot, CheckTxn, Step, Busy, file
<1>3. /\ pc'[w] = to /\ id'[w] = txnid
      /\ \A v \in Worker \ {w} : id'[v] = id[v] /\ snap'[v] = snap[v]
  BY <1>1, <1>2 DEF StoreInv, FileInv, CacheFileTypeOK
<1>4. ReadOf(w)' = [busy |-> TRUE, from |-> txnid, found |-> {}]
  BY <1>3, Looking
<1>5. ReadOf(w).found = {}
  BY <1>2, Looking, Resting DEF Busy, Store!NoRead
<1>6. Reads[w] = ReadOf(w) /\ Reads' = [Reads EXCEPT ![w] = ReadOf(w)']
  BY <1>1, <1>3, OneRead DEF StoreInv
<1> QED BY <1>2, <1>4, <1>5, <1>6, SameStore DEF StoreInv, Store!StartRead, Reads

\* The meta page that a reader copies is one of the two, and as new as the last
\* save that returned before the read began.
LEMMA FindMaps ==
  ASSUME StoreInv, StoreInv', NEW w \in Worker, CopyMeta(w) PROVE Store!Find(w)
<1> DEFINE m == metas[Turn(id[w])]
<1>1. /\ pc[w] = "copy" /\ pc' = [pc EXCEPT ![w] = "reading"]
      /\ snap' = [snap EXCEPT ![w] = m]
      /\ UNCHANGED <<page, disk, metas, txnid, id>>
  BY DEF CopyMeta, Step, file
<1>2. /\ pc'[w] = "reading" /\ snap'[w] = m
      /\ \A v \in Worker \ {w} : id'[v] = id[v] /\ snap'[v] = snap[v]
  BY <1>1 DEF StoreInv, FileInv, CacheFileTypeOK
<1>3. Turn(id[w]) \in {0, 1}
  BY TypeFacts, Turns DEF StoreInv, FileInv
<1>4. /\ Holds(page', snap'[w]) = m.data
      /\ m.data \in {Holds(disk, Newest(metas)), Holds(disk, Older(metas))}
  <2>1. m \in {Newest(metas), Older(metas)}
    BY <1>3, Held DEF StoreInv
  <2> HIDE DEF m
  <2>2. m.data \in {Newest(metas).data, Older(metas).data}
    BY <2>1
  <2>3. Holds(page, m) = m.data
    BY <1>3, Held DEF StoreInv, m
  <2> QED BY <1>1, <1>2, <2>2, <2>3, Held DEF StoreInv
<1>5. m.data.txn >= id[w]
  BY <1>1, <1>3 DEF StoreInv, FileInv, Reading, Durable, GoodMeta
<1> HIDE DEF m
<1>6. /\ ReadOf(w) = [busy |-> TRUE, from |-> id[w], found |-> {}]
      /\ ReadOf(w)' = [busy |-> TRUE, from |-> id[w], found |-> {m.data}]
  BY <1>1, <1>2, <1>4, Looking, Finding DEF Busy
<1>7. Reads[w] = ReadOf(w) /\ Reads' = [Reads EXCEPT ![w] = ReadOf(w)']
  BY <1>1, <1>2, OneRead DEF StoreInv
<1>8. Reads' = [Reads EXCEPT ![w] = [busy |-> TRUE, from |-> Reads[w].from,
                                     found |-> {m.data}]]
  BY <1>6, <1>7
<1>9. Reads[w].busy /\ Reads[w].found = {} /\ m.data.txn >= Reads[w].from
  BY <1>5, <1>6, <1>7
<1>10. /\ txnid' = txnid
       /\ Holds(disk, Newest(metas))' = Holds(disk, Newest(metas))
       /\ Holds(disk, Older(metas))' = Holds(disk, Older(metas))
  BY <1>1, SameStore DEF StoreInv
<1> QED BY <1>4, <1>8, <1>9, <1>10 DEF Store!Find, Reads

LEMMA EndReadMaps ==
  ASSUME StoreInv, StoreInv', NEW w \in Worker, EndRead(w)
  PROVE  Store!EndRead(w)
<1>1. /\ pc[w] = "reading" /\ pc' = [pc EXCEPT ![w] = Over]
      /\ UNCHANGED <<metas, txnid, id, snap>>
  BY DEF EndRead, Step, file
<1>2. pc'[w] \in {"open", "ended"}
  BY <1>1 DEF StoreInv, FileInv, CacheFileTypeOK, Over
<1>3. ReadOf(w).found # {} /\ ReadOf(w)' = Store!NoRead
  BY <1>1, <1>2, Finding, Resting DEF Busy
<1>4. Reads[w] = ReadOf(w) /\ Reads' = [Reads EXCEPT ![w] = ReadOf(w)']
  BY <1>1, OneRead DEF StoreInv
<1> QED BY <1>1, <1>3, <1>4, SameStore DEF StoreInv, Store!EndRead, Reads

LEMMA StoreTxnMaps ==
  ASSUME StoreInv, StoreInv', NEW w \in Worker, StoreTxn(w)
  PROVE  UNCHANGED Store!storeVars
<1>1. /\ pc[w] = "store" /\ pc' = [pc EXCEPT ![w] = "check"]
      /\ UNCHANGED <<metas, txnid, id, snap>>
  BY DEF StoreTxn, Step, file
<1>2. pc'[w] = "check" /\ \A v \in Worker \ {w} : pc'[v] = pc[v]
  BY <1>1 DEF StoreInv, FileInv, CacheFileTypeOK
<1>3. Reads' = Reads
  BY <1>1, <1>2, AllReadsKept DEF StoreInv, Busy
<1> QED BY <1>1, <1>3, Unseen

\* Until the meta page is written, nobody sees anything of a write; at the end of
\* it the save returns.
LEMMA WriteUnseen ==
  ASSUME StoreInv, StoreInv', NEW w \in Worker,
         \/ BeginWrite(w) \/ Allocate(w) \/ MapFull(w) \/ Flush(w) \/ Sync(w)
         \/ Publish(w)
  PROVE  Store!Return \/ UNCHANGED Store!storeVars
<1>1. PICK to \in Writing \cup {"open", "ended"} : pc' = [pc EXCEPT ![w] = to]
  BY DEF BeginWrite, Allocate, MapFull, Flush, Sync, Publish, Step, Over, Writing
<1>2. /\ pc[w] \in Writing \cup {"open", "ended"} /\ metas' = metas
      /\ \A v \in Worker \ {w} : id'[v] = id[v] /\ snap'[v] = snap[v]
  BY DEF BeginWrite, Allocate, MapFull, Flush, Sync, Publish, Step, Writing, file,
         StoreInv, FileInv, CacheFileTypeOK
<1>3. pc'[w] \in Writing \cup {"open", "ended"} /\ \A v \in Worker \ {w} : pc'[v] = pc[v]
  BY <1>1 DEF StoreInv, FileInv, CacheFileTypeOK
<1>4. Reads' = Reads
  BY <1>2, <1>3, AllReadsKept DEF StoreInv, Busy, Writing
<1>5. CASE Publish(w)
  <2>1. txnid' = N.txn
    BY <1>5 DEF Publish, Step, StoreInv, FileInv, Published
  <2>2. Holds(disk, Newest(metas)).txn = N.txn
    BY Held, TypeFacts DEF StoreInv, FileInv, Durable, GoodMeta, N
  <2> QED BY <1>2, <1>4, <2>1, <2>2, SameStore DEF StoreInv, Store!Return, Reads
<1>6. CASE ~Publish(w)
  <2>1. txnid' = txnid
    BY <1>6 DEF BeginWrite, Allocate, MapFull, Flush, Sync
  <2> QED BY <1>2, <1>4, <2>1, Unseen
<1> QED BY <1>5, <1>6

\* The write of the meta page is the save: until then the version is the one that
\* the write began with, and that one is still there after it.
LEMMA CommitMaps ==
  ASSUME StoreInv, StoreInv', NEW w \in Worker, WriteMeta(w) PROVE Store!Commit(w)
<1>1. /\ pc[w] = "meta" /\ pc' = [pc EXCEPT ![w] = "publish"]
      /\ UNCHANGED <<page, disk, txnid, id, snap>>
  BY DEF WriteMeta, Step
<1>2. pc'[w] = "publish" /\ \A v \in Worker \ {w} : pc'[v] = pc[v]
  BY <1>1 DEF StoreInv, FileInv, CacheFileTypeOK
<1>3. Reads' = Reads
  BY <1>1, <1>2, AllReadsKept DEF StoreInv, Busy
<1>4. /\ N' = Draft(w) /\ id[w] = N.txn + 1 /\ txnid = N.txn
      /\ {metas'[0], metas'[1]} = {Draft(w), N}
  <2>1. /\ N' = Draft(w) /\ id[w] = N.txn + 1
        /\ \A i \in {0, 1} : metas'[i] = Draft(w) \/ metas'[i] = N
        /\ metas'[Turn(id[w])] = Draft(w) /\ metas'[Turn(txnid)] = N
    BY WriteMetaFacts DEF StoreInv
  <2>2. txnid = N.txn
    BY <1>1 DEF StoreInv, FileInv, Published, Writing
  <2>3. Turn(id[w]) \in {0, 1} /\ Turn(txnid) \in {0, 1}
    BY TypeFacts, Turns DEF StoreInv, FileInv
  <2> QED BY <2>1, <2>2, <2>3
<1>5. /\ N.txn \in Nat /\ N.data.txn = N.txn
      /\ Draft(w).txn = N.txn + 1 /\ Draft(w).data = [txn |-> N.txn + 1, by |-> w]
  BY <1>4, TypeFacts DEF StoreInv, FileInv, Durable, GoodMeta, Draft
<1>6. Older(metas') = N
  <2>1. \/ metas'[0] = Draft(w) /\ metas'[1] = N
        \/ metas'[1] = Draft(w) /\ metas'[0] = N
    BY <1>4, <1>5
  <2> QED BY <1>5, <2>1 DEF Older
<1>7. \A i \in {0, 1} : Holds(disk, metas'[i]) = metas'[i].data
  BY <1>1 DEF StoreInv, FileInv, Durable, Blank, Holds
<1>8. /\ Holds(disk, Draft(w)) = [txn |-> N.txn + 1, by |-> w]
      /\ Holds(disk, N) = N.data
  BY <1>4, <1>5, <1>7
<1>9. Holds(disk, Newest(metas))' = Holds(disk, Draft(w))
  BY <1>1, <1>4 DEF N, Holds
<1>10. Holds(disk, Older(metas))' = Holds(disk, N)
  BY <1>1, <1>6 DEF Older, Holds
<1> QED BY <1>1, <1>3, <1>4, <1>5, <1>8, <1>9, <1>10 DEF Store!Commit, Reads, N

LEMMA StoreNextMaps ==
  Orderly /\ Orderly' /\ StoreInv /\ StoreInv' /\ [Next]_vars
    => [Store!StoreNext]_(Store!storeVars)
<1> SUFFICES ASSUME Orderly, Orderly', StoreInv, StoreInv', [Next]_vars
             PROVE  Store!StoreNext \/ UNCHANGED Store!storeVars
  OBVIOUS
<1>1. CASE UNCHANGED vars
  <2>1. metas' = metas /\ txnid' = txnid
    BY <1>1 DEF vars, file
  <2>2. Reads' = Reads
    BY <1>1, AllReadsKept DEF vars, StoreInv
  <2> QED BY <2>1, <2>2, Unseen
<1>2. CASE Kill \/ PowerLoss
  <2>1. metas' = metas /\ txnid' = 0 /\ \A v \in Worker : pc'[v] \in Closed
    BY <1>2 DEF Kill, PowerLoss, NewProcess, file, Closed
  <2> QED BY <2>1, StopMaps DEF Store!StoreNext
<1>3. ASSUME NEW w \in Worker, SetupLocks(w) \/ ShareLocks(w) \/ Close(w)
      PROVE  Store!StoreNext \/ UNCHANGED Store!storeVars
  BY <1>3, OpenMaps DEF Store!StoreNext
<1>4. ASSUME NEW w \in Worker, Read(w)
      PROVE  Store!StoreNext \/ UNCHANGED Store!storeVars
  <2>1. CASE BeginRead(w) \/ ClaimSlot(w) \/ CheckTxn(w)
    BY <2>1, StartReadMaps DEF Store!StoreNext
  <2>2. CASE StoreTxn(w)
    BY <2>2, StoreTxnMaps
  <2>3. CASE CopyMeta(w)
    BY <2>3, FindMaps DEF Store!StoreNext
  <2>4. CASE EndRead(w)
    BY <2>4, EndReadMaps DEF Store!StoreNext
  <2> QED BY <1>4, <2>1, <2>2, <2>3, <2>4 DEF Read
<1>5. ASSUME NEW w \in Worker, Write(w)
      PROVE  Store!StoreNext \/ UNCHANGED Store!storeVars
  <2>1. CASE WriteMeta(w)
    BY <2>1, CommitMaps DEF Store!StoreNext
  <2>2. CASE ~WriteMeta(w)
    BY <1>5, <2>2, WriteUnseen DEF Write, Store!StoreNext
  <2> QED BY <2>1, <2>2
<1> QED BY <1>1, <1>2, <1>3, <1>4, <1>5 DEF Next

\* As long as threads share the environment or keep apart, the cache file is the
\* abstract store: what mdb_txn_renew0 and mdb_txn_commit do with slots, locks and
\* pages is, for any number of threads, pages and transactions, one step for a save
\* and one for what a read finds, and a crash leaves the version.
THEOREM StoreKeptCorrect == CacheFileSpec /\ []Orderly => StoreKept
<1>1. Init => StoreInv
  BY InitInv, BlankInit DEF StoreInv
<1>2. StoreInv /\ Orderly /\ Orderly' /\ [Next]_vars => StoreInv'
  BY FileNextInv, BlankNext DEF StoreInv
<1>3. Orderly /\ Orderly' /\ StoreInv /\ StoreInv' /\ [Next]_vars
        => [Store!StoreNext]_(Store!storeVars)
  BY StoreNextMaps
<1>4. CacheFileSpec /\ []Orderly => []StoreInv
  BY <1>1, <1>2, PTL DEF CacheFileSpec
<1> QED BY <1>3, <1>4, StoreInitMaps, PTL DEF CacheFileSpec, StoreKept, Store!StoreSpec

-----------------------------------------------------------------------------
(* The program, as long as its accesses keep apart *)

\* Whatever the threads share, accesses made one after the other are orderly.
LEMMA ApartIsOrderly == ApartSpec => CacheFileSpec /\ []Orderly
<1>1. Init => Apart
  BY DEF Init, Apart
<1>2. Apart /\ [Next /\ Apart']_vars => Apart'
  BY DEF vars, Apart
<1>3. Apart => Orderly
  BY DEF Orderly
<1>4. [Next /\ Apart']_vars => [Next]_vars
  OBVIOUS
<1> QED BY <1>1, <1>2, <1>3, <1>4, PTL DEF ApartSpec, CacheFileSpec

\* With an environment opened and closed by each access, as api_impl::db does, and
\* accesses made one after the other by any number of threads, the cache is a store
\* of versions: whatever the process or the machine dies of, and however often the
\* lock file is made afresh, a read finds the last save that returned or a newer one.
THEOREM ApartKeepsStore == ApartSpec => StoreKept /\ NothingLost /\ []CrashSafe
BY ApartIsOrderly, StoreKeptCorrect, NothingLostCorrect, CrashSafeCorrect, PTL
=============================================================================
