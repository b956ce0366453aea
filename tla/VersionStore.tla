---------------------------- MODULE VersionStore ----------------------------
(***************************************************************************)
(* What the cache file promises to the threads that use it, without pages, *)
(* slots and locks: the abstract specification of a store that is read and *)
(* written in transactions (api_impl::db with a transaction of lmdb++, as  *)
(* request_db and on_success use it).                                      *)
(*                                                                         *)
(* The store holds one version; a save replaces it by the next, at once.   *)
(* A read finds one version and keeps it to its end.  It finds the newest, *)
(* or the one before if the save of the newest came in between, but never  *)
(* one older than a save that returned before the read began.  A crash     *)
(* ends every read and leaves the version.                                 *)
(***************************************************************************)
EXTENDS Naturals

CONSTANTS
  Client,   \* the threads that read and write
  First     \* the version of a store never written

VARIABLES
  newest,    \* the version the store holds: who wrote it, in which transaction
  previous,  \* the version before
  returned,  \* the transaction up to which the saves have returned
  read       \* what each thread reads

storeVars == <<newest, previous, returned, read>>

NoRead == [busy |-> FALSE, from |-> 0, found |-> {}]

StoreInit ==
  /\ newest = First /\ previous = First
  /\ returned = 0
  /\ read = [c \in Client |-> NoRead]

\* A save: one at a time.
Commit(c) ==
  /\ returned = newest.txn
  /\ newest' = [txn |-> newest.txn + 1, by |-> c]
  /\ previous' = newest
  /\ UNCHANGED <<returned, read>>

\* The save returns; or a new process looks up how far the store goes.
Return ==
  /\ returned' = newest.txn
  /\ UNCHANGED <<newest, previous, read>>

\* A read begins, or begins anew because a save returned.
StartRead(c) ==
  /\ read[c].found = {}
  /\ read' = [read EXCEPT ![c] = [busy |-> TRUE, from |-> returned, found |-> {}]]
  /\ UNCHANGED <<newest, previous, returned>>

Find(c) ==
  /\ read[c].busy /\ read[c].found = {}
  /\ \E v \in {newest, previous} :
       /\ v.txn >= read[c].from
       /\ read' = [read EXCEPT ![c] = [busy |-> TRUE, from |-> read[c].from,
                                       found |-> {v}]]
  /\ UNCHANGED <<newest, previous, returned>>

EndRead(c) ==
  /\ read[c].found # {}
  /\ read' = [read EXCEPT ![c] = NoRead]
  /\ UNCHANGED <<newest, previous, returned>>

\* The process ends, or opens the store.
Stop ==
  /\ returned' = 0
  /\ read' = [c \in Client |-> NoRead]
  /\ UNCHANGED <<newest, previous>>

StoreNext ==
  \/ \E c \in Client : Commit(c) \/ StartRead(c) \/ Find(c) \/ EndRead(c)
  \/ Return
  \/ Stop

StoreSpec == StoreInit /\ [][StoreNext]_storeVars
=============================================================================
