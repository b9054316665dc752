---------------------------- MODULE MemoryVectors ----------------------------
(***************************************************************************)
(* The memory database and its vector index: MemoryStore (crates/storage/  *)
(* src/memory/crud.rs, maintenance.rs, vector_sync.rs).  A change commits  *)
(* the row and an intent in memory_vector_queue in one transaction; the    *)
(* index, another database, follows after the lock is given back, and the  *)
(* intent is then cleared, or noted again if the index failed.  What was   *)
(* left behind is found by the commands memory retry-vector-sync and       *)
(* memory reindex.                                                         *)
(*                                                                         *)
(* A client is a task or a process that uses the database.  Each step is   *)
(* one lock of the database or one call of the index.                      *)
(***************************************************************************)
EXTENDS Naturals

CONSTANTS
    Items,           \* memory_items.id; an id is never used again
    Stores,          \* clients
    MaxVersion,      \* versions of one row (bound)
    MaxStoreFaults        \* failed calls and deaths (bound)

VARIABLES
    row,             \* item -> its row
    vector,          \* item -> the version the index holds; 0: none
    queue,           \* item -> its intent
    store,           \* client -> its operation
    storeFaults

memoryVars == <<row, vector, queue, store, storeFaults>>

ASSUME MemoryAssumption == MaxVersion \in Nat /\ MaxStoreFaults \in Nat

NoRow == [status |-> "unused", version |-> 0, lapsed |-> FALSE]   \* lapsed: expires_at is over

\* call, batch, version: the call of the index under way; note: the intent to
\* note if it fails; todo: what a retry or a reindex has loaded.
NoOp == [op |-> "none", pc |-> "idle", call |-> "none", batch |-> {}, version |-> 0,
         note |-> "none", todo |-> {}, tries |-> 0]

MemoryInit ==
    /\ row = [i \in Items |-> NoRow]
    /\ vector = [i \in Items |-> 0]
    /\ queue = [i \in Items |-> "none"]
    /\ store = [c \in Stores |-> NoOp]
    /\ storeFaults = 0

StoreAt(c, pc) == store[c].pc = pc
proceeds(c, new) == store' = [store EXCEPT ![c] = new]
StoreFault == storeFaults < MaxStoreFaults /\ storeFaults' = storeFaults + 1

Live(i) == row[i].status = "live"
Active(i) == Live(i) /\ ~row[i].lapsed          \* is_item_active_for_vector
Missing(i) == row[i].status \in {"unused", "purged"}

-----------------------------------------------------------------------------
(* Changes: the row and its intent in one transaction *)

\* Mutant of Intends: no intent for a row that is deleted.
Intends_Upserts(is, op) == [i \in Items |-> IF i \in is /\ op = "upsert" THEN op ELSE queue[i]]
Intends(is, op) == [i \in Items |-> IF i \in is THEN op ELSE queue[i]]

Follows(c, is, op, version) ==
    proceeds(c, [NoOp EXCEPT !.op = "change", !.pc = "index", !.call = op, !.note = op,
                             !.batch = is, !.version = version])

\* upsert: a new row, or a new version of the row with this dedup_key
Upsert(c, i) ==
    /\ StoreAt(c, "idle")
    /\ row[i].status = "unused" \/ Live(i)
    /\ row[i].version < MaxVersion
    /\ row' = [row EXCEPT ![i] = [status |-> "live", version |-> @.version + 1, lapsed |-> FALSE]]
    /\ queue' = Intends({i}, "upsert")
    /\ Follows(c, {i}, "upsert", row'[i].version)
    /\ UNCHANGED <<vector, storeFaults>>

\* soft_delete, batch_soft_delete, retire_long_term_items
SoftDelete(c, is) ==
    /\ StoreAt(c, "idle")
    /\ is # {} /\ \A i \in is : Live(i)
    /\ row' = [i \in Items |-> [row[i] EXCEPT !.status = IF i \in is THEN "deleted" ELSE @]]
    /\ queue' = Intends(is, "delete")
    /\ Follows(c, is, "delete", 0)
    /\ UNCHANGED <<vector, storeFaults>>

Restore(c, i) ==
    /\ StoreAt(c, "idle")
    /\ row[i].status = "deleted"
    /\ row' = [row EXCEPT ![i].status = "live"]
    /\ queue' = Intends({i}, "upsert")
    /\ Follows(c, {i}, "upsert", row[i].version)
    /\ UNCHANGED <<vector, storeFaults>>

\* maintenance: rows that have lapsed are deleted, those in the recycle bin
\* for recycle_days purged.
Maintain(c, purged) ==
    LET lapsed == {i \in Items : Live(i) /\ row[i].lapsed}
        gone == lapsed \cup purged
    IN /\ StoreAt(c, "idle")
       /\ gone # {} /\ \A i \in purged : row[i].status = "deleted"
       /\ row' = [i \in Items |-> [row[i] EXCEPT !.status = IF i \in purged THEN "purged" ELSE
                                                            IF i \in lapsed THEN "deleted" ELSE @]]
       /\ queue' = Intends(gone, "delete")
       /\ Follows(c, gone, "delete", 0)
       /\ UNCHANGED <<vector, storeFaults>>

-----------------------------------------------------------------------------
(* The index, and the intent after it *)

Indexed(c) ==
    [i \in Items |-> IF i \notin store[c].batch THEN vector[i] ELSE
                     IF store[c].call = "upsert" THEN store[c].version ELSE 0]

CallIndex(c) ==
    /\ StoreAt(c, "index")
    /\ vector' = Indexed(c)
    /\ proceeds(c, [store[c] EXCEPT !.pc = IF store[c].op = "reindex" /\ store[c].call = "upsert"
                                           THEN "reread" ELSE "clear"])
    /\ UNCHANGED <<row, queue, storeFaults>>

IndexFails(c) ==
    /\ StoreAt(c, "index")
    /\ StoreFault
    /\ proceeds(c, [store[c] EXCEPT !.pc = "note"])
    /\ UNCHANGED <<row, vector, queue>>

\* One item of the batch is settled; after the last one the client goes on.
OneLess(c, i) ==
    IF store[c].batch # {i} THEN [store[c] EXCEPT !.batch = @ \ {i}] ELSE
    IF store[c].op = "change" THEN NoOp
    ELSE [store[c] EXCEPT !.batch = {}, !.pc = "next"]

\* clear_vector_sync
ClearIntent(c, i) ==
    /\ StoreAt(c, "clear") /\ i \in store[c].batch
    /\ queue' = [queue EXCEPT ![i] = "none"]
    /\ proceeds(c, OneLess(c, i))
    /\ UNCHANGED <<row, vector, storeFaults>>

\* enqueue_vector_sync
Note(c, i) ==
    /\ StoreAt(c, "note") /\ i \in store[c].batch
    /\ queue' = [queue EXCEPT ![i] = store[c].note]
    /\ proceeds(c, OneLess(c, i))
    /\ UNCHANGED <<row, vector, storeFaults>>

\* The queue cannot be written: a warning, and the client goes on.
QueueFails(c, i) ==
    /\ store[c].pc \in {"clear", "note"} /\ i \in store[c].batch
    /\ StoreFault
    /\ proceeds(c, OneLess(c, i))
    /\ UNCHANGED <<row, vector, queue>>

-----------------------------------------------------------------------------
(* retry_vector_sync *)

Intents == {i \in Items : queue[i] # "none"}

LoadIntents(c) ==
    /\ StoreAt(c, "idle")
    /\ Intents # {}
    /\ proceeds(c, [NoOp EXCEPT !.op = "retry", !.pc = "next",
                                !.todo = {[item |-> i, op |-> queue[i]] : i \in Intents}])
    /\ UNCHANGED <<row, vector, queue, storeFaults>>

\* The call that brings the index in line with the row that is read.
InLine(c, i) ==
    IF Active(i)
    THEN [store[c] EXCEPT !.pc = "index", !.call = "upsert", !.version = row[i].version]
    ELSE [store[c] EXCEPT !.pc = "index", !.call = "delete"]

\* An intent to delete is not looked at again.  get_by_id takes a row that is
\* missing for an error, which ends the whole retry.
Retried(c, e) ==
    IF e.op = "delete" THEN [store[c] EXCEPT !.pc = "index", !.call = "delete"] ELSE
    IF Missing(e.item) THEN NoOp
    ELSE InLine(c, e.item)

RetryNext(c) ==
    /\ StoreAt(c, "next") /\ store[c].op = "retry"
    /\ \/ store[c].todo = {} /\ proceeds(c, NoOp)
       \/ \E e \in store[c].todo :
             LET new == Retried(c, e) IN
             proceeds(c, IF new = NoOp THEN NoOp
                         ELSE [new EXCEPT !.batch = {e.item}, !.note = e.op, !.todo = @ \ {e}])
    /\ UNCHANGED <<row, vector, queue, storeFaults>>

-----------------------------------------------------------------------------
(* reindex_vectors *)

LoadItems(c) ==
    /\ StoreAt(c, "idle")
    /\ proceeds(c, [NoOp EXCEPT !.op = "reindex", !.pc = "seed", !.todo = {i \in Items : Active(i)}])
    /\ UNCHANGED <<row, vector, queue, storeFaults>>

\* Mutant of Seeded: the intents are written as the items come up.
Seeded_Late(c) == queue
Seeded(c) == Intends(store[c].todo, "upsert")

SeedIntents(c) ==
    /\ StoreAt(c, "seed")
    /\ queue' = Seeded(c)
    /\ proceeds(c, [store[c] EXCEPT !.pc = "reset"])
    /\ UNCHANGED <<row, vector, storeFaults>>

ResetIndex(c) ==
    /\ StoreAt(c, "reset")
    /\ \/ /\ vector' = [i \in Items |-> 0]
          /\ proceeds(c, [store[c] EXCEPT !.pc = "next"])
          /\ UNCHANGED storeFaults
       \/ StoreFault /\ proceeds(c, NoOp) /\ UNCHANGED vector
    /\ UNCHANGED <<row, queue>>

\* reindex_vector_item reads the row, at most three times ...
ReindexNext(c) ==
    /\ StoreAt(c, "next") /\ store[c].op = "reindex"
    /\ \/ store[c].todo = {} /\ proceeds(c, NoOp)
       \/ \E i \in store[c].todo :
             proceeds(c, [store[c] EXCEPT !.pc = "read", !.batch = {i}, !.todo = @ \ {i},
                                          !.note = "upsert", !.tries = 0])
    /\ UNCHANGED <<row, vector, queue, storeFaults>>

ReadRow(c) ==
    /\ StoreAt(c, "read")
    /\ \E i \in store[c].batch :
          proceeds(c, IF Missing(i) \/ store[c].tries = 3 THEN [store[c] EXCEPT !.pc = "note"]
                      ELSE InLine(c, i))
    /\ UNCHANGED <<row, vector, queue, storeFaults>>

\* ... and again after the index was written.
RereadRow(c) ==
    /\ StoreAt(c, "reread")
    /\ \E i \in store[c].batch :
          proceeds(c, CASE Missing(i) -> [store[c] EXCEPT !.pc = "note"]
                        [] Active(i) /\ row[i].version = store[c].version ->
                               [store[c] EXCEPT !.pc = "clear"]
                        [] Active(i) /\ row[i].version # store[c].version ->
                               [store[c] EXCEPT !.pc = "read", !.tries = @ + 1]
                        [] OTHER -> [store[c] EXCEPT !.pc = "index", !.call = "delete"])
    /\ UNCHANGED <<row, vector, queue, storeFaults>>

-----------------------------------------------------------------------------

Lapses(i) ==
    /\ Live(i) /\ ~row[i].lapsed
    /\ row' = [row EXCEPT ![i].lapsed = TRUE]
    /\ UNCHANGED <<vector, queue, store, storeFaults>>

\* The process dies: both databases stay as they are.
StoreDies(c) ==
    /\ ~StoreAt(c, "idle")
    /\ StoreFault
    /\ proceeds(c, NoOp)
    /\ UNCHANGED <<row, vector, queue>>

Change(c) ==
    \/ \E i \in Items : Upsert(c, i) \/ Restore(c, i)
    \/ \E is \in SUBSET Items : SoftDelete(c, is) \/ Maintain(c, is)

Sync(c) ==
    \/ CallIndex(c) \/ IndexFails(c)
    \/ \E i \in Items : ClearIntent(c, i) \/ Note(c, i) \/ QueueFails(c, i)
    \/ LoadIntents(c) \/ RetryNext(c)
    \/ LoadItems(c) \/ SeedIntents(c) \/ ResetIndex(c) \/ ReindexNext(c)
    \/ ReadRow(c) \/ RereadRow(c)

MemoryNext ==
    \/ \E c \in Stores : Change(c) \/ Sync(c) \/ StoreDies(c)
    \/ \E i \in Items : Lapses(i)

MemorySpec == MemoryInit /\ [][MemoryNext]_memoryVars

-----------------------------------------------------------------------------
\* todo holds items, in a retry intents.
Intent == [item : Items, op : {"upsert", "delete"}]

Operation ==
    [op : {"none", "change", "retry", "reindex"},
     pc : {"idle", "index", "clear", "note", "seed", "reset", "next", "read", "reread"},
     call : {"none", "upsert", "delete"}, note : {"none", "upsert", "delete"},
     batch : SUBSET Items, version : 0 .. MaxVersion, tries : Nat, todo : SUBSET (Items \cup Intent)]

MemoryTypeOK ==
    /\ row \in [Items -> [status : {"unused", "live", "deleted", "purged"},
                          version : 0 .. MaxVersion, lapsed : BOOLEAN]]
    /\ vector \in [Items -> 0 .. MaxVersion]
    /\ queue \in [Items -> {"none", "upsert", "delete"}]
    /\ storeFaults \in 0 .. MaxStoreFaults
    /\ store \in [Stores -> Operation]
    /\ \A c \in Stores :
          IF store[c].op = "retry" THEN store[c].todo \subseteq Intent ELSE store[c].todo \subseteq Items

\* Wherever the index differs from the rows, the queue holds an intent whose
\* retry puts it right: an upsert for a row that is active, a delete for one
\* that was purged (a retry of an upsert would end at the missing row), either
\* for one in the recycle bin.  So no death and no failed call leaves a memory
\* that the search does not find, or finds although it was deleted.  A row
\* that has lapsed may be in the index until the next maintenance.
DriftIsQueued ==
    \A i \in Items :
        /\ Active(i) /\ vector[i] # row[i].version => queue[i] = "upsert"
        /\ row[i].status = "deleted" /\ vector[i] # 0 => queue[i] # "none"
        /\ row[i].status = "purged" /\ vector[i] # 0 => queue[i] = "delete"

\* The same of clients that have all finished.
DriftAtRestIsQueued == (\A c \in Stores : StoreAt(c, "idle")) => DriftIsQueued

-----------------------------------------------------------------------------
(* The inductive invariant behind DriftIsQueued, for a single client *)

OneStore == \A c, d \in Stores : c = d

\* The index is right about the item, or wrong in a way that is allowed.
UpToDate(i) ==
    /\ Active(i) => vector[i] = row[i].version
    /\ row[i].status \in {"deleted", "purged"} => vector[i] = 0

\* A live row has no intent to delete it.
DeletesAreMeant ==
    \A i \in Items : queue[i] = "delete" => row[i].status \in {"deleted", "purged"}

\* Until its call has been made and its intent cleared, an item under way is in
\* the queue, with the intent that would be noted again; the call is the one the
\* row asks for, and an intent is cleared only if the index has followed.
CallIsQueued ==
    \A c \in Stores : \A i \in store[c].batch :
        /\ queue[i] = store[c].note
        /\ StoreAt(c, "index") /\ store[c].call = "upsert" =>
               Live(i) /\ store[c].version = row[i].version
        /\ StoreAt(c, "index") /\ store[c].call # "upsert" => ~Active(i)
        /\ StoreAt(c, "reread") => vector[i] = store[c].version /\ store[c].version = row[i].version
        /\ StoreAt(c, "clear") => UpToDate(i)
        /\ store[c].op = "reindex" => Live(i)

\* What a retry or a reindex has still to do is in the queue, and before the
\* index is emptied that is everything it holds.
RestIsQueued ==
    \A c \in Stores :
        /\ store[c].op = "retry" =>
               \A e \in store[c].todo : queue[e.item] = e.op /\ e.item \notin store[c].batch
        /\ store[c].op = "reindex" =>
               \A i \in store[c].todo : /\ Live(i) /\ i \notin store[c].batch
                                        /\ ~StoreAt(c, "seed") => queue[i] = "upsert"
        /\ store[c].pc \in {"seed", "reset"} =>
               /\ store[c].op = "reindex" /\ store[c].batch = {}
               /\ \A i \in Items : Active(i) => i \in store[c].todo
        /\ store[c].pc \in {"read", "reread"} => store[c].op = "reindex"
        /\ store[c].pc = "next" => store[c].batch = {}

OneAtATime ==
    \A c \in Stores : store[c].op = "reindex" => \A i, j \in store[c].batch : i = j

MemoryInv ==
    MemoryTypeOK /\ DriftIsQueued /\ DeletesAreMeant /\ CallIsQueued /\ RestIsQueued /\ OneAtATime
=============================================================================
